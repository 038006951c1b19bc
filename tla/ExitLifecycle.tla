---------------------------- MODULE ExitLifecycle ----------------------------
(***************************************************************************)
(* Leaving Codexon and coming back: AppServices.stop / stop_proxy,         *)
(* ExitControl, ProxyDrain.run and resume_proxy, with the processes they   *)
(* coordinate.                                                             *)
(*                                                                         *)
(* Actors: the GUI process (it may crash at every step and be reopened),   *)
(* the managed relay, the proxy updater (only its cutover is visible       *)
(* here), a second process that turns recording off (the command line or   *)
(* the standalone recovery tool) and the user, who may edit the Codex      *)
(* configuration at any time.  They share four files: the Codex            *)
(* configuration (route), observer-state.json (obs), app-services.json     *)
(* (session) and one control file per relay instance (control), and one    *)
(* cross-process lock, proxy-control.lock.                                 *)
(***************************************************************************)
EXTENDS Integers

CONSTANTS
    MaxInst,    \* bound: relay instances ever started
    MaxRuns,    \* bound: GUI processes ever started
    MaxOps,     \* bound: calls of stop_proxy()
    MaxEvents   \* bound: crashes, updates, edits and offs in one behaviour

ASSUME BoundsAssumption ==
    MaxInst \in Nat \ {0} /\ MaxRuns \in Nat \ {0} /\ MaxOps \in Nat /\ MaxEvents \in Nat

Instances == 1..MaxInst
None == 0                       \* no relay instance, no process, no operation

VARIABLES
    route,      \* openai_base_url: "proxy", "direct" (the saved previous_url), "custom"
    obs,        \* observer-state.json: "active" (enabled), "starting" (pending), "off"
    session,    \* app-services.json
    control,    \* proxy-control-<instance>.json: its action
    lock,       \* proxy-control.lock: "free", "gui", "tool"
    relay,      \* the process holding proxy-supervisor.lock
    flushed,    \* the instances whose store.close() returned True
    cutover,    \* proxy-update.json: cutover_started and phase in BUSY
    alive, run, \* the GUI process, and which one it is
    pc, mode, after, \* its thread: the line, the caller ("exit", "resume"), commit_route's caller
    ops,        \* operation ids drawn so far; the current one is the last
    ctl,        \* ExitControl
    prev,       \* stop_proxy's previous
    source, known,  \* stop_proxy's source, AppServices.proxy_source
    forceSent,  \* ProxyDrain.run
    conf,       \* commit_route's configured
    data,       \* resume_proxy's data, or the copy an unlocked save() read
    outcome,    \* ExitResult, or how resume_proxy() ended
    off,        \* the other process: "idle" or the step of recover_direct() it is at
    offKind, wantOff,   \* how it was asked; recording was turned off
    edited,     \* the user has edited the route
    overlooked, \* history: the overrides made while the GUI held what it had read before
    events      \* crashes, updates, edits and offs so far

guiVars == <<alive, run, pc, mode, after, ops, ctl, prev, source, known, forceSent, conf, data, outcome>>
offVars == <<off, offKind, wantOff>>
relayVars == <<relay, flushed>>
userVars == <<edited, overlooked>>
envVars == <<userVars, events>>
fileVars == <<route, obs, session, control, lock>>
vars == <<fileVars, relayVars, cutover, guiVars, offVars, envVars>>

Phases == {"active", "preparing", "closing", "stopped", "failed", "resuming"}
Session == [phase: Phases, op: 0..MaxOps, committed: BOOLEAN, resume: BOOLEAN, owner: 0..MaxRuns,
            prevPhase: Phases, prevCommitted: BOOLEAN, source: 0..MaxInst, incomplete: 0..MaxInst]

FreshSession == [phase |-> "active", op |-> None, committed |-> FALSE, resume |-> FALSE,
                 owner |-> None, prevPhase |-> "active", prevCommitted |-> FALSE,
                 source |-> None, incomplete |-> None]
FreshCtl == [committed |-> FALSE, cancelled |-> FALSE, forced |-> FALSE]

\* A relay serves the configured route; the app has just been opened.
Init ==
    /\ route = "proxy" /\ obs = "active"
    /\ session = FreshSession
    /\ control = [i \in Instances |-> IF i = 1 THEN "run" ELSE "none"]
    /\ lock = "free"
    /\ relay = [inst |-> 1, st |-> "up", work |-> "idle"]
    /\ flushed = {} /\ cutover = FALSE
    /\ alive = TRUE /\ run = 1 /\ pc = "running" /\ mode = "exit" /\ after = "none" /\ ops = 0
    /\ ctl = FreshCtl
    /\ prev = [phase |-> "active", committed |-> FALSE]
    /\ source = None /\ known = None /\ forceSent = FALSE /\ conf = FALSE
    /\ data = session /\ outcome = "none"
    /\ off = "idle" /\ offKind = "none" /\ wantOff = FALSE
    /\ edited = FALSE /\ overlooked = {} /\ events = 0

\* Bounds the disturbances of one behaviour.
Event == events < MaxEvents /\ events' = events + 1

----------------------------------------------------------------------------
(* What one actor can tell about another                                   *)

suspended == session.phase \in {"preparing", "closing", "stopped", "failed", "resuming"}

\* ProxyTarget.enabled
enabled == ~suspended /\ route = "proxy" /\ obs = "active"

\* manager.health(): the listener answers.
Answers == relay.st \in {"up", "draining"}

\* ProxyTarget.released: process gone, port free, lifetime lock free.
released(s) == relay.st = "none"

\* Mutant: a free port passes for a flush receipt.
stopped_portOnly(s) == released(s)

\* ProxyTarget.stopped: released, and the instance left its flush receipt.
stopped(s) == released(s) /\ control[s] = "stopped"

\* identity.same_process(preparation_owner)
OwnerAlive == alive /\ session.owner = run

\* A new process of the relay's scheduled task; the lifetime lock and the
\* task's single-instance rule leave a running one alone.
Launch ==
    /\ relay.inst < MaxInst
    /\ relay' = IF relay.st = "none"
                THEN [inst |-> relay.inst + 1, st |-> "starting", work |-> "idle"]
                ELSE relay

----------------------------------------------------------------------------
(* The relay: ManagedProxy.serve, create_app's watch()                     *)

\* ManagedProxy.allowed, then the control file is created.
RelayBoot ==
    /\ relay.st = "starting"
    /\ IF obs \in {"active", "starting"}
       THEN /\ relay' = [relay EXCEPT !.st = "up"]
            /\ control' = [control EXCEPT ![relay.inst] = "run"]
       ELSE /\ relay' = [relay EXCEPT !.st = "none"]
            /\ UNCHANGED control
    /\ UNCHANGED <<route, obs, session, lock, flushed, cutover, guiVars, offVars, envVars>>

\* A request is admitted, one at a time, only before draining.  Its response
\* is followed to its end, unless the frames of a WebSocket cannot be told.
RelayWork ==
    /\ relay.st = "up" /\ relay.work = "idle"
    /\ \E kind \in {"responding", "unknown"} : relay' = [relay EXCEPT !.work = kind]
    /\ UNCHANGED <<fileVars, flushed, cutover, guiVars, offVars, envVars>>

\* A connection that was followed becomes unknown, and stays it (Activity).
RelayBlur ==
    /\ Answers /\ relay.work = "responding"
    /\ relay' = [relay EXCEPT !.work = "unknown"]
    /\ UNCHANGED <<fileVars, flushed, cutover, guiVars, offVars, envVars>>

\* The response ends.
RelayDone ==
    /\ Answers /\ relay.work = "responding"
    /\ relay' = [relay EXCEPT !.work = "idle"]
    /\ UNCHANGED <<fileVars, flushed, cutover, guiVars, offVars, envVars>>

\* Unknown work is over when its client closes the connection.
ClientCloses ==
    /\ Answers /\ relay.work = "unknown"
    /\ relay' = [relay EXCEPT !.work = "idle"]
    /\ UNCHANGED <<fileVars, flushed, cutover, guiVars, offVars, envVars>>

\* apply_control and ManagedProxy.tick: a drain or force command, an explicit
\* off, or a configuration that no longer names the relay.
RelayNotice ==
    /\ relay.st = "up"
    /\ \/ control[relay.inst] \in {"drain", "force"}
       \/ obs = "off"
       \/ obs = "active" /\ route # "proxy"
    /\ relay' = [relay EXCEPT !.st = "draining"]
    /\ UNCHANGED <<fileVars, flushed, cutover, guiVars, offVars, envVars>>

\* A preparation that nobody completed expires after 120 seconds; the
\* readiness wait of resume_proxy ends long before, after 30.
RelayExpire ==
    /\ relay.st = "up" /\ obs = "starting"
    /\ lock # "gui"
    /\ relay' = [relay EXCEPT !.st = "draining"]
    /\ UNCHANGED <<fileVars, flushed, cutover, guiVars, offVars, envVars>>

\* watch() aborts the relays of a forced shutdown.
RelayForce ==
    /\ relay.st = "draining" /\ relay.work # "idle" /\ control[relay.inst] = "force"
    /\ relay' = [relay EXCEPT !.work = "idle"]
    /\ UNCHANGED <<fileVars, flushed, cutover, guiVars, offVars, envVars>>

\* Draining with no active relay: the listener closes, then the store.
RelayStop ==
    /\ relay.st = "draining" /\ relay.work = "idle"
    /\ relay' = [relay EXCEPT !.st = "closing"]
    /\ UNCHANGED <<fileVars, flushed, cutover, guiVars, offVars, envVars>>

\* The receipt says whether store.close() succeeded.
RelayExit(ok) ==
    /\ relay.st = "closing"
    /\ relay' = [relay EXCEPT !.st = "none"]
    /\ control' = [control EXCEPT ![relay.inst] = IF ok THEN "stopped" ELSE "failed"]
    /\ flushed' = IF ok THEN flushed \cup {relay.inst} ELSE flushed
    /\ UNCHANGED <<route, obs, session, lock, cutover, guiVars, offVars, envVars>>

RelayCrash ==
    /\ relay.st # "none" /\ Event
    /\ relay' = [relay EXCEPT !.st = "none", !.work = "idle"]
    /\ UNCHANGED <<fileVars, flushed, cutover, guiVars, offVars, userVars>>

----------------------------------------------------------------------------
(* The updater, as far as an exit can see it: ProxyUpdate.begin_switch      *)

\* Mutant: begin_switch does not look at the exit's journal again.
UpdateCutover_blind ==
    /\ lock = "free" /\ ~cutover /\ relay.st = "up" /\ Event
    /\ cutover' = TRUE
    /\ UNCHANGED <<fileVars, relayVars, guiVars, offVars, userVars>>

UpdateCutover ==
    /\ lock = "free" /\ ~cutover /\ enabled /\ relay.st = "up" /\ Event
    /\ cutover' = TRUE
    /\ UNCHANGED <<fileVars, relayVars, guiVars, offVars, userVars>>

\* The replacement is verified, or the old relay is restored.
UpdateSettle ==
    /\ cutover
    /\ cutover' = FALSE
    /\ \/ UNCHANGED <<relay, control, flushed>>
       \/ /\ relay.st = "up" /\ relay.work = "idle" /\ relay.inst < MaxInst
          /\ relay' = [relay EXCEPT !.inst = @ + 1]
          /\ control' = [control EXCEPT ![relay.inst] = "stopped", ![relay.inst + 1] = "run"]
          /\ flushed' = flushed \cup {relay.inst}
    /\ UNCHANGED <<route, obs, session, lock, guiVars, offVars, envVars>>

----------------------------------------------------------------------------
(* The GUI process                                                          *)

\* A call returns or its process ends: its locals are gone.
Gone ==
    /\ mode' = "exit" /\ after' = "none" /\ ctl' = FreshCtl
    /\ prev' = [phase |-> "active", committed |-> FALSE]
    /\ source' = None /\ forceSent' = FALSE /\ conf' = FALSE /\ data' = FreshSession

Return ==
    /\ pc' = "running" /\ outcome' = "none"
    /\ Gone
    /\ UNCHANGED <<alive, run, ops, known>>

GuiStart ==
    /\ ~alive /\ run < MaxRuns
    /\ alive' = TRUE /\ run' = run + 1 /\ pc' = "running" /\ outcome' = "none"
    /\ Gone
    /\ UNCHANGED <<fileVars, relayVars, cutover, ops, known, offVars, envVars>>

\* The process dies; the operating system drops its lock.
GuiCrash ==
    /\ alive /\ run < MaxRuns /\ Event
    /\ alive' = FALSE /\ pc' = "dead" /\ outcome' = "none" /\ known' = None
    /\ Gone
    /\ lock' = IF lock = "gui" THEN "free" ELSE lock
    /\ UNCHANGED <<route, obs, session, control, relayVars, cutover, run, ops, offVars, userVars>>

\* poll(): AppServices.remember_proxy
GuiObserve ==
    /\ pc = "running" /\ Answers /\ known # relay.inst
    /\ known' = relay.inst
    /\ UNCHANGED <<fileVars, relayVars, cutover, alive, run, pc, mode, after, ops, ctl, prev,
                   source, forceSent, conf, data, outcome, offVars, envVars>>

\* attach_supervisor(): an enabled route whose relay is gone.
GuiAttach ==
    /\ pc = "running" /\ lock = "free" /\ enabled /\ ~cutover /\ relay.st = "none"
    /\ Launch
    /\ UNCHANGED <<fileVars, flushed, cutover, guiVars, offVars, envVars>>

\* Where stop_proxy() begins, for the user's exit and inside resume_proxy().
Begin(m) ==
    /\ ops < MaxOps
    /\ ops' = ops + 1 /\ mode' = m /\ pc' = "waitUpdate"
    /\ UNCHANGED <<ctl, prev, source, forceSent, outcome>>

ExitRequest ==
    /\ pc = "running"
    /\ Begin("exit")
    /\ UNCHANGED <<fileVars, relayVars, cutover, alive, run, after, known, conf, data, offVars, envVars>>

InExit == mode = "exit" /\ pc \notin {"running", "dead"}

\* ExitControl.request_cancel: refused once committed.
CancelRequest ==
    /\ InExit /\ ~ctl.committed /\ ~ctl.cancelled
    /\ ctl' = [ctl EXCEPT !.cancelled = TRUE]
    /\ UNCHANGED <<fileVars, relayVars, cutover, alive, run, pc, mode, after, ops, prev, source,
                   known, forceSent, conf, data, outcome, offVars, envVars>>

\* ExitControl.request_force: refused once cancelled; the button is offered
\* by the progress reports of the drain.
ForceRequest ==
    /\ InExit /\ ~ctl.cancelled /\ ~ctl.forced
    /\ pc \in {"drain", "commit", "route", "obs", "sendDrain", "watch"} /\ source # None
    /\ ctl' = [ctl EXCEPT !.forced = TRUE]
    /\ UNCHANGED <<fileVars, relayVars, cutover, alive, run, pc, mode, after, ops, prev, source,
                   known, forceSent, conf, data, outcome, offVars, envVars>>

localVars == <<alive, run, mode, after, ops, ctl, prev, source, known, forceSent, conf, data>>

\* An exception leaves stop_proxy's body.
Raise(why) ==
    /\ pc' = "except" /\ outcome' = why
    /\ UNCHANGED <<fileVars, relayVars, cutover, localVars, offVars, envVars>>

\* control.checkpoint(): the lines that look at the cancellation.
Checkpoint ==
    /\ pc \in {"waitUpdate", "prepare", "capture", "drain", "commit"} /\ ctl.cancelled
    /\ Raise("cancelled")

\* The waits end with an error after their deadline, a probe or a write fails;
\* leaving commit_route's block releases the lock.
StopFails ==
    /\ pc \in {"waitUpdate", "capture", "commit", "route", "obs", "sendDrain", "saveIncomplete", "saveStopped"}
    /\ ~ctl.cancelled
    /\ pc' = "except" /\ outcome' = "failed"
    /\ lock' = IF lock = "gui" THEN "free" ELSE lock
    /\ UNCHANGED <<route, obs, session, control, relayVars, cutover, localVars, offVars, envVars>>

\* "A committed replacement owns routing until verification or rollback."
WaitUpdate ==
    /\ pc = "waitUpdate" /\ ~ctl.cancelled /\ ~cutover
    /\ pc' = "prepare"
    /\ UNCHANGED <<fileVars, relayVars, cutover, localVars, outcome, offVars, envVars>>

\* Under the lock: the preparing journal, with what it interrupts.
Prepare ==
    /\ pc = "prepare" /\ ~ctl.cancelled /\ lock = "free"
    /\ \/ /\ cutover \/ (session.phase = "preparing" /\ OwnerAlive)
          /\ Raise("failed")
       \/ /\ ~cutover /\ ~(session.phase = "preparing" /\ OwnerAlive)
          /\ prev' = IF session.phase = "preparing"
                     THEN [phase |-> session.prevPhase, committed |-> session.prevCommitted]
                     ELSE [phase |-> session.phase, committed |-> session.committed]
          /\ session' = [session EXCEPT !.phase = "preparing", !.op = ops, !.committed = FALSE,
                             !.owner = run, !.prevPhase = prev'.phase, !.prevCommitted = prev'.committed,
                             !.resume = IF prev'.phase = "active" THEN route = "proxy" ELSE @]
          /\ pc' = "capture"
          /\ UNCHANGED <<route, obs, control, lock, relayVars, cutover, alive, run, mode, after, ops, ctl,
                         source, known, forceSent, conf, data, outcome, offVars, envVars>>

\* The updater's process has ended (before its cutover the journal stops
\* it); then, under the lock: who has to stop.
Capture ==
    /\ pc = "capture" /\ ~ctl.cancelled /\ lock = "free"
    /\ source' = IF Answers THEN relay.inst ELSE IF known # None THEN known ELSE session.source
    /\ IF source' = None /\ relay.st # "none"
       THEN /\ pc' = "except" /\ outcome' = "failed"
            /\ UNCHANGED session
       ELSE /\ session' = IF source' # None THEN [session EXCEPT !.source = source'] ELSE session
            /\ pc' = "decide"
            /\ UNCHANGED outcome
    /\ UNCHANGED <<route, obs, control, lock, relayVars, cutover, alive, run, mode, after, ops, ctl, prev,
                   known, forceSent, conf, data, offVars, envVars>>

GoCommit(then) == pc' = "commit" /\ after' = then

Decide ==
    /\ pc = "decide"
    /\ CASE source = None -> GoCommit("saveStopped")
         [] source # None /\ released(source) /\ ~stopped(source) -> GoCommit("saveIncomplete")
         [] OTHER -> pc' = "drain" /\ UNCHANGED after
    /\ UNCHANGED <<fileVars, relayVars, cutover, alive, run, mode, ops, ctl, prev, source, known,
                   forceSent, conf, data, outcome, offVars, envVars>>

\* Mutant: an idle relay is commanded to drain before the route changes.
Drain_early ==
    /\ pc = "drain" /\ ~ctl.cancelled
    /\ Answers /\ relay.inst = source /\ relay.work = "idle"
    /\ pc' = "sendDrain"
    /\ UNCHANGED <<fileVars, relayVars, cutover, localVars, outcome, offVars, envVars>>

\* ProxyDrain.run before the drain command: wait for responses, unless forced.
Drain ==
    /\ pc = "drain" /\ ~ctl.cancelled
    /\ \/ stopped(source) /\ GoCommit("saveStopped") /\ UNCHANGED outcome
       \/ released(source) /\ ~stopped(source) /\ pc' = "saveIncomplete" /\ UNCHANGED <<after, outcome>>
       \/ /\ Answers /\ relay.inst = source
          /\ relay.work = "idle" \/ ctl.forced
          /\ GoCommit("sendDrain") /\ UNCHANGED outcome
       \/ /\ (Answers /\ relay.inst # source) \/ relay.st = "closing"  \* another instance, or the deadline
          /\ pc' = "except" /\ outcome' = "failed" /\ UNCHANGED after
    /\ UNCHANGED <<fileVars, relayVars, cutover, alive, run, mode, ops, ctl, prev, source, known,
                   forceSent, conf, data, offVars, envVars>>

\* Mutant: the decision gate does not look at an accepted cancellation.
Commit_uncancelled ==
    /\ pc = "commit" /\ lock = "free"
    /\ session' = [session EXCEPT !.phase = "closing", !.committed = TRUE]
    /\ ctl' = [ctl EXCEPT !.committed = TRUE]
    /\ conf' = (route = "proxy")
    /\ lock' = "gui" /\ pc' = "route"
    /\ UNCHANGED <<route, obs, control, relayVars, cutover, alive, run, mode, after, ops, prev,
                   source, known, forceSent, data, outcome, offVars, envVars>>

\* commit_route: the decision is durable before anything else changes.
Commit ==
    /\ pc = "commit" /\ ~ctl.cancelled /\ lock = "free"
    /\ IF cutover \/ session.op # ops
       THEN Raise("failed")
       ELSE /\ session' = [session EXCEPT !.phase = "closing", !.committed = TRUE]
            /\ ctl' = [ctl EXCEPT !.committed = TRUE]
            /\ conf' = (route = "proxy")
            /\ lock' = "gui" /\ pc' = "route"
            /\ UNCHANGED <<route, obs, control, relayVars, cutover, alive, run, mode, after, ops, prev,
                           source, known, forceSent, data, outcome, offVars, envVars>>

CommitRoute ==
    /\ pc = "route"
    /\ route' = IF conf /\ route = "proxy" THEN "direct" ELSE route
    /\ pc' = "obs"
    /\ UNCHANGED <<obs, session, control, lock, relayVars, cutover, localVars, outcome, offVars, envVars>>

CommitObs ==
    /\ pc = "obs"
    /\ obs' = "off" /\ lock' = "free"
    /\ pc' = after
    /\ UNCHANGED <<route, session, control, relayVars, cutover, localVars, outcome, offVars, envVars>>

SendDrain ==
    /\ pc = "sendDrain"
    /\ control' = [control EXCEPT ![source] = "drain"]
    /\ pc' = "watch"
    /\ UNCHANGED <<route, obs, session, lock, relayVars, cutover, localVars, outcome, offVars, envVars>>

\* Mutant: a relay that vanished without its receipt is waited for.
Watch_receiptOnly ==
    /\ pc = "watch"
    /\ stopped(source)
    /\ pc' = "saveStopped"
    /\ UNCHANGED <<fileVars, relayVars, cutover, localVars, outcome, offVars, envVars>>

\* ProxyDrain.run after the command: the relay stops, is released without a
\* receipt, is forced, or does not end before the deadline.
Watch ==
    /\ pc = "watch"
    /\ \/ /\ stopped(source)
          /\ pc' = "saveStopped" /\ UNCHANGED <<control, forceSent, outcome>>
       \/ /\ released(source) /\ ~stopped(source)
          /\ pc' = "saveIncomplete" /\ UNCHANGED <<control, forceSent, outcome>>
       \/ /\ Answers /\ ctl.forced /\ ~forceSent
          /\ control' = [control EXCEPT ![source] = "force"]
          /\ forceSent' = TRUE /\ UNCHANGED <<pc, outcome>>
       \/ /\ relay.st = "closing" \/ (relay.st = "draining" /\ relay.work = "idle") \/ forceSent
          /\ ~released(source)
          /\ pc' = "except" /\ outcome' = "failed" /\ UNCHANGED <<control, forceSent>>
    /\ UNCHANGED <<route, obs, session, lock, relayVars, cutover, alive, run, mode, after, ops, ctl, prev,
                   source, known, conf, data, offVars, envVars>>

\* save() outside the lock: the journal is read, changed and written back.
SaveRead ==
    /\ pc \in {"saveIncomplete", "saveStopped"}
    /\ data' = session
    /\ pc' = IF pc = "saveStopped" THEN "writeStopped" ELSE "writeIncomplete"
    /\ UNCHANGED <<fileVars, relayVars, cutover, alive, run, mode, after, ops, ctl, prev, source, known,
                   forceSent, conf, outcome, offVars, envVars>>

SaveIncomplete ==
    /\ pc = "writeIncomplete"
    /\ session' = [data EXCEPT !.incomplete = source] /\ data' = FreshSession
    /\ IF ctl.committed THEN pc' = "saveStopped" /\ UNCHANGED after ELSE GoCommit("saveStopped")
    /\ UNCHANGED <<route, obs, control, lock, relayVars, cutover, alive, run, mode, ops, ctl, prev, source,
                   known, forceSent, conf, outcome, offVars, envVars>>

\* stop_proxy returns, with a warning if the flush was not confirmed.
SaveStopped ==
    /\ pc = "writeStopped"
    /\ session' = [data EXCEPT !.phase = "stopped"] /\ data' = FreshSession
    /\ pc' = IF mode = "exit" THEN "collect" ELSE "resumeRead"
    /\ outcome' = IF source # None /\ data.incomplete = source THEN "warned" ELSE "settled"
    /\ UNCHANGED <<route, obs, control, lock, relayVars, cutover, alive, run, mode, after, ops, ctl, prev,
                   source, known, forceSent, conf, offVars, envVars>>

\* stop_collection(), then the process ends; or it fails and controls reopen.
Collect(ok) ==
    /\ pc = "collect"
    /\ IF ok
       THEN /\ pc' = "dead" /\ alive' = FALSE /\ known' = None
            /\ outcome' = IF outcome = "warned" THEN "completedWarned" ELSE "completed"
            /\ UNCHANGED <<run, mode, after, ops, ctl, prev, source, forceSent, conf, data>>
       ELSE Return
    /\ UNCHANGED <<fileVars, relayVars, cutover, offVars, envVars>>

\* The handler of stop_proxy: restore what preparing interrupted.
Except ==
    /\ pc = "except" /\ lock = "free"
    /\ session' = IF session.op # ops THEN session
                  ELSE [session EXCEPT
                          !.phase = IF ctl.committed THEN "failed" ELSE prev.phase,
                          !.committed = ctl.committed \/ prev.committed]
    /\ Return
    /\ UNCHANGED <<route, obs, control, lock, relayVars, cutover, offVars, envVars>>

----------------------------------------------------------------------------
(* resume_proxy(): at start, on demand and from the periodic poll           *)

\* The journal is read without the lock.
ResumeCall ==
    /\ pc = "running" /\ suspended
    /\ \/ session.phase = "preparing" /\ pc' = "resumePrep" /\ mode' = "resume"
          /\ UNCHANGED <<data, ops, ctl, prev, source, forceSent, outcome>>
       \/ session.phase = "stopped" /\ pc' = "resumeLock" /\ data' = session /\ mode' = "resume"
          /\ UNCHANGED <<ops, ctl, prev, source, forceSent, outcome>>
       \/ session.phase \in {"closing", "failed", "resuming"} /\ Begin("resume") /\ UNCHANGED data
    /\ UNCHANGED <<fileVars, relayVars, cutover, alive, run, after, known, conf, offVars, envVars>>

\* Mutant: an abandoned preparation always counts as an active session.
ResumePrep_active ==
    /\ pc = "resumePrep" /\ lock = "free"
    /\ session' = IF session.phase = "preparing" /\ ~OwnerAlive
                  THEN [session EXCEPT !.phase = "active", !.committed = FALSE]
                  ELSE session
    /\ Return
    /\ UNCHANGED <<route, obs, control, lock, relayVars, cutover, offVars, envVars>>

\* "Preparation never changed routing or service registrations": what it
\* interrupted is restored, and resumed unless that was an active session.
ResumePrep ==
    /\ pc = "resumePrep" /\ lock = "free"
    /\ session' = IF session.phase = "preparing" /\ ~OwnerAlive
                  THEN [session EXCEPT !.phase = session.prevPhase, !.committed = session.prevCommitted]
                  ELSE session
    /\ \/ /\ session.phase = "preparing" /\ (OwnerAlive \/ session.prevPhase = "active")
          /\ Return
       \/ /\ ~(session.phase = "preparing" /\ (OwnerAlive \/ session.prevPhase = "active"))
          /\ data' = session'
          /\ \/ session'.phase \in {"closing", "failed", "resuming"} /\ Begin("resume")
             \/ /\ session'.phase \notin {"closing", "failed", "resuming"}
                /\ pc' = "resumeLock" /\ UNCHANGED <<mode, ops, ctl, prev, source, forceSent, outcome>>
          /\ UNCHANGED <<alive, run, after, known, conf>>
    /\ UNCHANGED <<route, obs, control, lock, relayVars, cutover, offVars, envVars>>

\* After stop_proxy(): the journal is read again, still without the lock.
ResumeRead ==
    /\ pc = "resumeRead"
    /\ data' = session /\ pc' = "resumeLock"
    /\ UNCHANGED <<fileVars, relayVars, cutover, alive, run, mode, after, ops, ctl, prev, source, known,
                   forceSent, conf, outcome, offVars, envVars>>

\* Mutant: the saved intent alone decides.
mayResume_intentOnly == data.resume

\* An explicit Off, or a route the user edited, overrides the saved intent.
mayResume == data.resume /\ route = "direct"

ResumeLock ==
    /\ pc = "resumeLock" /\ lock = "free"
    /\ IF ~mayResume
       THEN /\ session' = [session EXCEPT !.phase = "active", !.resume = FALSE]
            /\ Return /\ UNCHANGED lock
       ELSE IF data.source = None \/ ~(stopped(data.source)
                                        \/ (data.incomplete = data.source /\ released(data.source)))
       THEN Return /\ UNCHANGED <<session, lock>>
       ELSE /\ session' = [session EXCEPT !.phase = "resuming"]
            /\ lock' = "gui" /\ pc' = "resumeState"
            /\ UNCHANGED <<localVars, outcome>>
    /\ UNCHANGED <<route, obs, control, relayVars, cutover, offVars, envVars>>

ResumeState ==
    /\ pc = "resumeState"
    /\ obs' = "starting" /\ pc' = "resumeStart"
    /\ UNCHANGED <<route, session, control, lock, relayVars, cutover, localVars, outcome, offVars, envVars>>

ResumeStart ==
    /\ pc = "resumeStart"
    /\ Launch
    /\ pc' = "resumeVerify"
    /\ UNCHANGED <<fileVars, flushed, cutover, localVars, outcome, offVars, envVars>>

\* Three consecutive valid health answers of a new instance.
ResumeVerify ==
    /\ pc = "resumeVerify"
    /\ relay.st = "up" /\ relay.inst # data.source
    /\ pc' = "resumeRoute"
    /\ UNCHANGED <<fileVars, relayVars, cutover, localVars, outcome, offVars, envVars>>

ResumeRoute ==
    /\ pc = "resumeRoute"
    /\ route' = "proxy" /\ pc' = "resumeObs"
    /\ UNCHANGED <<obs, session, control, lock, relayVars, cutover, localVars, outcome, offVars, envVars>>

ResumeObs ==
    /\ pc = "resumeObs"
    /\ obs' = "active" /\ pc' = "resumeActive"
    /\ UNCHANGED <<route, session, control, lock, relayVars, cutover, localVars, outcome, offVars, envVars>>

ResumeActive ==
    /\ pc = "resumeActive"
    /\ session' = [session EXCEPT !.phase = "active"]
    /\ lock' = "free" /\ Return
    /\ UNCHANGED <<route, obs, control, relayVars, cutover, offVars, envVars>>

\* The readiness wait times out, the launch or a write fails.
ResumeFails ==
    /\ pc \in {"resumeStart", "resumeVerify", "resumeRoute", "resumeObs", "resumeActive"}
    /\ session' = [session EXCEPT !.phase = "failed"]
    /\ lock' = "free" /\ Return
    /\ UNCHANGED <<route, obs, control, relayVars, cutover, offVars, envVars>>

----------------------------------------------------------------------------
(* Recording turned off by another process, and edits of the configuration  *)

\* The lines of the GUI that go on with what they read before: with a copy of
\* the journal read without the lock, with a route that named no relay then.
HoldsJournal == pc \in {"writeIncomplete", "writeStopped", "resumeLock"}
HoldsRoute == pc \in {"resumeState", "resumeStart", "resumeVerify", "resumeRoute"}

\* turn_off() refuses during a cutover; the recovery tool (restore) refuses
\* while the owner of an exit lives.  Both then run recover_direct().
OffStart(kind) ==
    /\ off = "idle" /\ ~wantOff /\ lock = "free" /\ Event
    /\ IF kind = "turn_off" THEN ~cutover
       ELSE session.phase \in {"preparing", "closing"} => ~OwnerAlive
    /\ lock' = "tool" /\ off' = "route"
    /\ offKind' = IF kind = "restore" /\ session.phase \in {"preparing", "closing"} THEN "recover" ELSE kind
    /\ session' = [session EXCEPT !.resume = FALSE]
    /\ overlooked' = IF HoldsJournal THEN overlooked \cup {"off"} ELSE overlooked
    /\ UNCHANGED <<route, obs, control, relayVars, cutover, guiVars, wantOff, edited>>

OffRoute ==
    /\ off = "route"
    /\ route' = IF route = "proxy" THEN "direct" ELSE route
    /\ off' = "obs"
    /\ UNCHANGED <<obs, session, control, lock, relayVars, cutover, guiVars, offKind, wantOff, envVars>>

\* recover_after_exit also settles the journal of the dead owner.
OffObs ==
    /\ off = "obs"
    /\ obs' = "off"
    /\ session' = IF offKind = "recover"
                  THEN [session EXCEPT !.phase = "active", !.resume = FALSE] ELSE session
    /\ off' = "idle" /\ wantOff' = TRUE /\ lock' = "free"
    /\ UNCHANGED <<route, control, relayVars, cutover, guiVars, offKind, envVars>>

UserEdit ==
    /\ ~edited /\ Event
    /\ route' = "custom" /\ edited' = TRUE
    /\ overlooked' = IF HoldsRoute THEN overlooked \cup {"edit"} ELSE overlooked
    /\ UNCHANGED <<obs, session, control, lock, relayVars, cutover, guiVars, offVars>>

----------------------------------------------------------------------------
Relay == \/ RelayBoot \/ RelayWork \/ RelayBlur \/ RelayDone \/ ClientCloses \/ RelayNotice
         \/ RelayExpire \/ RelayForce \/ RelayStop \/ (\E ok \in BOOLEAN : RelayExit(ok)) \/ RelayCrash
Update == UpdateCutover \/ UpdateSettle
Stop == \/ Checkpoint \/ StopFails \/ WaitUpdate \/ Prepare \/ Capture \/ Decide \/ Drain
        \/ Commit \/ CommitRoute \/ CommitObs \/ SendDrain \/ Watch
        \/ SaveRead \/ SaveIncomplete \/ SaveStopped \/ (\E ok \in BOOLEAN : Collect(ok)) \/ Except
Resume == \/ ResumePrep \/ ResumeRead \/ ResumeLock \/ ResumeState \/ ResumeStart \/ ResumeVerify
          \/ ResumeRoute \/ ResumeObs \/ ResumeActive \/ ResumeFails
Gui == GuiStart \/ GuiCrash \/ GuiObserve \/ GuiAttach \/ ExitRequest \/ ResumeCall \/ Stop \/ Resume
User == CancelRequest \/ ForceRequest \/ UserEdit
Off == (\E kind \in {"turn_off", "restore"} : OffStart(kind)) \/ OffRoute \/ OffObs

Next == Relay \/ Update \/ Gui \/ User \/ Off

\* The GUI's operation thread, the relay's watch loop and the other process
\* run; the updater ends its cutover; a response that is followed ends.  No
\* client has to close a connection with unknown work, and no user has to act:
\* ClientCloses, ForceRequest and CancelRequest get no fairness.
Fairness ==
    /\ WF_vars(Stop) /\ WF_vars(Resume)
    /\ WF_vars(RelayBoot \/ RelayNotice \/ RelayForce \/ RelayStop \/ \E ok \in BOOLEAN : RelayExit(ok))
    /\ WF_vars(RelayDone)
    /\ WF_vars(UpdateSettle)
    /\ WF_vars(OffRoute \/ OffObs)

Spec == Init /\ [][Next]_vars /\ Fairness

----------------------------------------------------------------------------
(* Properties                                                               *)

TypeOK ==
    /\ route \in {"proxy", "direct", "custom"} /\ obs \in {"active", "starting", "off"}
    /\ session \in Session /\ data \in Session
    /\ control \in [Instances -> {"none", "run", "drain", "force", "stopped", "failed"}]
    /\ lock \in {"free", "gui", "tool"}
    /\ relay \in [inst: Instances, st: {"none", "starting", "up", "draining", "closing"},
                  work: {"idle", "responding", "unknown"}]
    /\ flushed \subseteq Instances /\ cutover \in BOOLEAN
    /\ alive \in BOOLEAN /\ run \in 1..MaxRuns /\ ops \in 0..MaxOps
    /\ pc \in {"running", "dead", "waitUpdate", "prepare", "capture", "decide", "drain",
               "commit", "route", "obs", "sendDrain", "watch", "saveIncomplete", "saveStopped",
               "writeIncomplete", "writeStopped", "collect", "except", "resumePrep", "resumeRead",
               "resumeLock", "resumeState", "resumeStart", "resumeVerify", "resumeRoute",
               "resumeObs", "resumeActive"}
    /\ mode \in {"exit", "resume"}
    /\ after \in {"none", "sendDrain", "saveIncomplete", "saveStopped"}
    /\ ctl \in [committed: BOOLEAN, cancelled: BOOLEAN, forced: BOOLEAN]
    /\ prev \in [phase: Phases, committed: BOOLEAN]
    /\ source \in 0..MaxInst /\ known \in 0..MaxInst
    /\ forceSent \in BOOLEAN /\ conf \in BOOLEAN
    /\ outcome \in {"none", "cancelled", "failed", "warned", "settled", "completed", "completedWarned"}
    /\ off \in {"idle", "route", "obs"} /\ offKind \in {"none", "turn_off", "restore", "recover"}
    /\ wantOff \in BOOLEAN /\ edited \in BOOLEAN /\ overlooked \subseteq {"off", "edit"} /\ events \in 0..MaxEvents

\* A route that the exit turned direct is never forgotten: whatever crashes,
\* cancellations and retries follow, the journal stays suspended with its
\* resume intent until the route is proxy again, recording was turned off, or
\* the user edited the route (stop_proxy, commit_route, resume_proxy).
DirectRouteHasResumeIntent ==
    route = "direct" /\ ~wantOff /\ off = "idle" => suspended /\ session.resume

\* Clients are never sent to a relay that refuses them: a relay drains only
\* after the configuration stopped naming it (order of the writes in
\* commit_route, recover_direct and resume_proxy against ManagedProxy.tick).
\* The exception is a resume_proxy that ended between its last two writes: the
\* preparation expires although the route names the relay.  A replacement by
\* the updater, which drains the old relay behind its cutover record, is one
\* step here and outside this property.
RoutedRelayServes ==
    relay.st \in {"draining", "closing"} /\ route = "proxy" => obs = "starting"

\* An exit that completes without the warning has seen the flush of the very
\* instance it stopped; "a missing storage receipt ... never becomes a
\* fabricated successful flush".
CleanExitFlushed == outcome = "completed" /\ source # None => source \in flushed

\* "Cancellation and the exit cutover share a decision gate": once a
\* cancellation was accepted, that exit changes neither the route nor the
\* observer state, nor commands any relay to stop.
CancelKeepsServices ==
    [][ctl.cancelled /\ ctl'.cancelled /\ off = "idle" /\ off' = "idle" /\ edited' = edited
       => route' = route /\ obs' = obs /\ \A i \in Instances : control'[i] \notin {"drain", "force"} \/ control'[i] = control[i]]_vars

\* A proxy replacement that has cut over and a committed exit never own the
\* route at the same time (begin_switch against commit_route).
CutoverExclusive == cutover => ~(pc \in {"route", "obs", "sendDrain", "watch"})

\* An exit that has committed ends: with the process gone, or with an error
\* that gives the controls back.  The one thing it may wait for without limit
\* is unknown work whose client stays connected: "Unknown work continues
\* serving until the client closes it or the user explicitly requests supported
\* response interruption" (ProxyDrain.run publishes close_client and goes on).
AwaitsClient == relay.work = "unknown" /\ ~ctl.forced
CommittedExitEnds ==
    [](mode = "exit" /\ ctl.committed /\ pc # "running"
       => <>(pc \in {"running", "dead"}) \/ <>[]AwaitsClient)

\* "Explicit Off and an external connection-setting edit override saved resume
\* intent", at whatever step of whichever operation, crash or retry they come:
\* Codexon does not restore the proxy route after an Off and does not overwrite
\* a route the user edited.  The exceptions are the two stretches of code that
\* go on with what they read before the override: an Off while save() or
\* resume_proxy holds a copy of the journal read without the lock, an edit
\* between resume_proxy's test of the route and its write.
OverridesStick ==
    /\ wantOff /\ "off" \notin overlooked => route # "proxy"
    /\ edited /\ "edit" \notin overlooked => route = "custom"

\* The sentence as docs/lifecycle.md states it, for an explicit Off.  It does
\* not hold: see HoldsJournal.
OffOverrides == wantOff => route # "proxy"

=============================================================================
