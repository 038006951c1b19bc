----------------------------- MODULE ProxyUpdate -----------------------------
(***************************************************************************)
(* Replacement of the relay on its own address: the updater process of     *)
(* proxy_update.py and its journal proxy-update.json, the requests and the *)
(* guards of observer_control.py, the user's operation in app-update.json  *)
(* (update_state.py, app_update.py) and the relay processes themselves.    *)
(*                                                                         *)
(* The updater may be killed between any two writes; the scheduler starts  *)
(* it again until the journal is terminal.  A publish writes the proxy     *)
(* journal first and then passes the result to the app journal: `pend` is  *)
(* that result on its way, lost when the updater dies.                     *)
(*                                                                         *)
(* A relay is an instance with a version.  A launched one is "booting",    *)
(* then "up" or "bad" (it listens but fails verification), "draining" once *)
(* told to, and ends "stopped" (with a flush receipt) or "dead".  A relay   *)
(* may carry connections whose work nobody can follow (`unknown`): it is    *)
(* over when their client closes them, and nothing else ends it.            *)
(* The closing and reopening of the client is left out: require_stopped()  *)
(* may fail, and that is all.                                              *)
(***************************************************************************)
EXTENDS Integers, FiniteSets

CONSTANTS
    MaxInst,        \* bound: relay instances
    MaxOps,         \* bound: operations the user starts
    MaxTries,       \* bound: operations and retries together
    MaxCrashes,     \* bound: deaths of the updater
    MaxFaults,      \* bound: relays that boot badly, die or do not flush,
                    \* failed preflights, clients found running at the cutover,
                    \* connections that become unknown
    UserActs        \* what the user may do meanwhile: "cancel", "off"

ASSUME BoundsAssumption == {MaxInst, MaxOps, MaxTries} \subseteq Nat \ {0}
                           /\ {MaxCrashes, MaxFaults} \subseteq Nat
ASSUME ActsAssumption == UserActs \subseteq {"cancel", "off"}

BUSY == {"queued", "waiting", "switching", "stopping", "starting", "verifying", "rollback"}
TERMINAL == {"complete", "cancelled", "failed"}
ACTIVE == {"preparing", "waiting", "switching", "stopping", "starting", "verifying", "rollback"}
Insts == 1..MaxInst

VARIABLES
    J,          \* proxy-update.json
    A,          \* app-update.json
    status, ver, \* of each relay instance
    unknown,    \* the relays with connections of unknown state
    enabled,    \* the route goes through the relay
    upc, goal,  \* the updater: its place, and the instance its drain is about
    sent,       \* the updater has written the drain command of this drain
    back,       \* where begin_switch returns to
    pend,       \* the result on its way to the app journal
    watchdog,   \* the scheduler repeats the updater task
    ui,         \* the update worker of the app: idle, or its place in activate_proxy
    crashes, faults, tries \* bounds

vars == <<J, A, status, ver, unknown, enabled, upc, goal, sent, back, pend, watchdog, ui, crashes, faults, tries>>
relayVars == <<status, ver, unknown>>
updaterVars == <<upc, goal, sent, back, pend>>
boundVars == <<crashes, faults, tries>>

Nothing == [phase |-> "none", op |-> 0, cut |-> FALSE, stale |-> FALSE]

Init ==
    /\ J = [phase |-> "none", op |-> 0, src |-> 0, inst |-> 0, cut |-> FALSE, cancel |-> FALSE,
            rb |-> FALSE, interrupted |-> FALSE, restored |-> FALSE, fenced |-> FALSE]
    /\ A = [op |-> 0, phase |-> "none", cut |-> FALSE, cancel |-> FALSE]
    /\ status = [i \in Insts |-> IF i = 1 THEN "up" ELSE "absent"]
    /\ ver = [i \in Insts |-> "old"] /\ unknown = {}
    /\ enabled = TRUE
    /\ upc = "off" /\ goal = 0 /\ sent = FALSE /\ back = "off" /\ pend = Nothing
    /\ watchdog = FALSE /\ ui = "idle"
    /\ crashes = 0 /\ faults = 0 /\ tries = 0

-----------------------------------------------------------------------------
(* The relay as seen from outside *)

Alive == {i \in Insts : status[i] \in {"booting", "up", "bad", "draining"}}
Listening == {i \in Insts : status[i] \in {"up", "bad", "draining"}}
health == IF Listening = {} THEN 0 ELSE CHOOSE i \in Listening : TRUE

(* ProxyTarget.stopped: the process is gone, its port and locks are free    *)
(* and its flush receipt is there.                                          *)
stopped(i) == status[i] = "stopped" /\ Alive = {}

(* ProxyTarget.ready: another instance than the source, of that version,    *)
(* that answers well.                                                       *)
ready(source, version) ==
    health # 0 /\ health # source /\ status[health] = "up" /\ ver[health] = version

(* ObserverTask.start: the scheduler ignores the launch while an instance   *)
(* of the task runs.                                                        *)
Launch(version) ==
    IF Alive = {} /\ \E i \in Insts : status[i] = "absent"
      THEN LET i == CHOOSE k \in Insts : status[k] = "absent"
           IN  /\ status' = [status EXCEPT ![i] = "booting"] /\ ver' = [ver EXCEPT ![i] = version]
               /\ UNCHANGED unknown
      ELSE UNCHANGED relayVars

-----------------------------------------------------------------------------
(* The app journal *)

mapped(phase) ==
    CASE phase = "queued" -> "waiting"
      [] phase = "cancelled" -> "deferred"
      [] OTHER -> phase

(* UpdateState.proxy_result: a result of another operation, an older one,   *)
(* or one that would undo a cutover that has begun is not taken.            *)
takes(r) ==
    /\ r.op = A.op /\ ~r.stale
    /\ ~(A.cut /\ ~r.cut /\ r.phase \in {"queued", "waiting", "cancelled"})

proxy_result(r) ==
    A' = IF takes(r)
           THEN [A EXCEPT !.phase = mapped(r.phase), !.cut = r.cut,
                          !.cancel = @ /\ r.phase \notin TERMINAL]
           ELSE A

(* MUTANT: a replay loses the time of the record. *)
result_untimed == [phase |-> IF J.interrupted /\ J.phase \in BUSY THEN "interrupted" ELSE J.phase,
                   op |-> J.op, cut |-> J.cut, stale |-> TRUE]

(* ... replayed from the proxy journal by whoever finds it. *)
result == [phase |-> IF J.interrupted /\ J.phase \in BUSY THEN "interrupted" ELSE J.phase,
           op |-> J.op, cut |-> J.cut, stale |-> J.fenced]

(* A result on its way to the app journal is older than what that journal   *)
(* has taken since.                                                         *)
Outdated(newer) == [pend EXCEPT !.stale = @ \/ (newer /\ pend # Nothing)]

(* publish by the app, which passes its own result on at once. *)
Publishes(new) ==
    LET r == [phase |-> new.phase, op |-> new.op, cut |-> new.cut, stale |-> FALSE]
    IN  proxy_result(r) /\ pend' = Outdated(takes(r))

(* The locks: replace() holds proxy-update.lock while the updater runs, and *)
(* begin_switch and start hold the control lock.                            *)
updaterLocked == upc # "off"
controlLocked == upc \in {"bs2", "bs3"}

(* begin_switch writes the two journals one right after the other; no       *)
(* request of the user is taken to run from its start to its result in      *)
(* between.                                                                 *)
writingCutover == upc = "bs2"

(* publish(phase, ...) by the updater, which goes on at `next`. *)
Publish(new, next) ==
    LET j == [new EXCEPT !.interrupted = FALSE, !.fenced = FALSE,
                         !.rb = IF new.phase = "rollback" THEN TRUE
                                ELSE IF new.phase \in TERMINAL THEN FALSE ELSE @]
    IN  /\ J' = j
        /\ pend' = [phase |-> j.phase, op |-> j.op, cut |-> j.cut, stale |-> FALSE]
        /\ upc' = next

Deliver ==
    /\ pend # Nothing
    /\ proxy_result(pend)
    /\ pend' = Nothing
    /\ UNCHANGED <<J, relayVars, enabled, upc, goal, sent, back, watchdog, ui, boundVars>>

At(place) == upc = place /\ pend = Nothing

(* ProxyUpdate.allowed: after the cutover nothing interrupts the updater. *)
allowed == J.cut \/ (A.op = J.op /\ ~A.cancel /\ ~J.cancel /\ enabled)

-----------------------------------------------------------------------------
(* The updater: run() and replace() *)

(* The task is started on demand or by its repetition trigger. *)
Start ==
    /\ upc = "off" /\ watchdog
    /\ upc' = "begin"
    /\ UNCHANGED <<J, A, relayVars, enabled, goal, sent, back, pend, watchdog, ui, boundVars>>

(* A terminal journal is only reconciled; any other is owned and resumed. *)
Begin ==
    /\ At("begin")
    /\ IF J.phase \in TERMINAL
         THEN proxy_result(result) /\ upc' = "finish" /\ UNCHANGED <<J, pend>>
         ELSE Publish(J, "check") /\ UNCHANGED A
    /\ UNCHANGED <<relayVars, enabled, goal, sent, back, watchdog, ui, boundVars>>

Goto(place) == upc' = place /\ UNCHANGED <<J, pend>>

(* UpdateCancelled, raised wherever allowed() is called. *)
Cancelled ==
    /\ upc \in {"check", "capture", "decide", "drain", "switch", "bs1", "rb", "rb4", "rb5"} /\ pend = Nothing
    /\ ~allowed
    /\ Publish([J EXCEPT !.phase = "cancelled"], "finish")
    /\ UNCHANGED <<A, relayVars, enabled, goal, sent, back, watchdog, ui, boundVars>>

(* preflight() proves the new deployment, or fails.  The publish that       *)
(* records it repeats the phase and is left out.                            *)
Preflight ==
    /\ At("check") /\ allowed
    /\ Goto("capture")
    /\ UNCHANGED <<A, relayVars, enabled, goal, sent, back, watchdog, ui, boundVars>>

PreflightFails ==
    /\ At("check") /\ allowed /\ faults < MaxFaults
    /\ Goto("except") /\ faults' = faults + 1
    /\ UNCHANGED <<A, relayVars, enabled, goal, sent, back, watchdog, ui, crashes, tries>>

(* The first run captures its source, or finds the target already running. *)
Capture ==
    /\ At("capture") /\ allowed
    /\ CASE J.src # 0 -> Goto("decide")
         [] J.src = 0 /\ (health = 0 \/ health # J.inst) -> Goto("except")
         [] J.src = 0 /\ health = J.inst /\ ready(0, "new") ->
                Publish([J EXCEPT !.phase = "complete"], "finish")
         [] OTHER -> Publish([J EXCEPT !.phase = "waiting", !.src = health], "decide")
    /\ UNCHANGED <<A, relayVars, enabled, goal, sent, back, watchdog, ui, boundVars>>

(* MUTANT: a restarted updater adopts whatever answers. *)
Decide_adoptAny ==
    /\ At("decide") /\ allowed
    /\ CASE J.rb -> Goto("rb") /\ UNCHANGED <<goal, sent, back>>
         [] ~J.rb /\ health # 0 ->
                Publish([J EXCEPT !.phase = "complete"], "finish") /\ UNCHANGED <<goal, sent, back>>
         [] ~J.rb /\ health = 0 /\ stopped(J.src) ->
                Goto("switch") /\ UNCHANGED <<goal, sent, back>>
         [] OTHER -> Goto("drain") /\ goal' = J.src /\ sent' = FALSE /\ back' = "switch"
    /\ UNCHANGED <<A, relayVars, enabled, watchdog, ui, boundVars>>

(* Resume a rollback, adopt a verified launch, or drain and switch. *)
Decide ==
    /\ At("decide") /\ allowed
    /\ CASE J.rb -> Goto("rb") /\ UNCHANGED <<goal, sent, back>>
         [] ~J.rb /\ health \notin {0, J.src} ->
                /\ IF ready(J.src, "new")
                     THEN Publish([J EXCEPT !.phase = "complete"], "finish")
                     ELSE Goto("rb")
                /\ UNCHANGED <<goal, sent, back>>
         [] ~J.rb /\ health \in {0, J.src} /\ stopped(J.src) ->
                Goto("switch") /\ UNCHANGED <<goal, sent, back>>
         [] OTHER -> Goto("drain") /\ goal' = J.src /\ sent' = FALSE /\ back' = "switch"
    /\ UNCHANGED <<A, relayVars, enabled, watchdog, ui, boundVars>>

(* The client of a connection that nobody can follow has not closed it.     *)
AwaitsClient == goal \in unknown

(* ProxyDrain.run(goal): done, a rival on the port, work to wait for, the   *)
(* last check before the command; then the last responses, the deadline     *)
(* that starts when nothing but the exit is missing, and its end.           *)
DrainDone ==
    /\ At("drain") /\ allowed /\ stopped(goal)
    /\ Goto(IF J.rb THEN "rb3" ELSE "switch")
    /\ UNCHANGED <<A, relayVars, enabled, goal, sent, back, watchdog, ui, boundVars>>

DrainFails ==
    /\ At("drain") /\ allowed /\ ~stopped(goal)
    /\ health \notin {0, goal} \/ (sent /\ ~AwaitsClient) \/ goal \notin Alive
    /\ Goto("except")
    /\ UNCHANGED <<A, relayVars, enabled, goal, sent, back, watchdog, ui, boundVars>>

(* Responses, or unknown work: required_action is close_client then, and    *)
(* the loop has no deadline, before the command and after it.               *)
DrainWaits ==
    /\ At("drain") /\ allowed /\ ~stopped(goal)
    /\ health = goal /\ (~sent \/ AwaitsClient) /\ J.phase \notin {"waiting", "stopping"}
    /\ Publish([J EXCEPT !.phase = "waiting"], "drain")
    /\ UNCHANGED <<A, relayVars, enabled, goal, sent, back, watchdog, ui, boundVars>>

DrainReady ==
    /\ At("drain") /\ allowed /\ ~stopped(goal)
    /\ health = goal /\ ~sent /\ ~AwaitsClient
    /\ Goto("bs1") /\ back' = "send"
    /\ UNCHANGED <<A, relayVars, enabled, goal, sent, watchdog, ui, boundVars>>

DrainLingers ==
    /\ At("drain") /\ allowed /\ ~stopped(goal)
    /\ sent /\ ~AwaitsClient /\ J.phase \notin {"switching", "stopping"}
    /\ Publish([J EXCEPT !.phase = "switching"], "drain")
    /\ UNCHANGED <<A, relayVars, enabled, goal, sent, back, watchdog, ui, boundVars>>

DrainStopping ==
    /\ At("drain") /\ allowed /\ ~stopped(goal)
    /\ sent /\ ~AwaitsClient /\ J.phase # "stopping"
    /\ Publish([J EXCEPT !.phase = "stopping"], "drain")
    /\ UNCHANGED <<A, relayVars, enabled, goal, sent, back, watchdog, ui, boundVars>>

(* MUTANT: the cancellation is not checked again under the control lock. *)
BeginSwitchApp_noRecheck ==
    /\ At("bs1")
    /\ Goto("bs2")
    /\ A' = IF J.cut THEN A ELSE [A EXCEPT !.phase = "switching", !.cut = TRUE]
    /\ UNCHANGED <<relayVars, enabled, goal, sent, back, watchdog, ui, boundVars>>

(* begin_switch, under the control lock: the client must be stopped, the    *)
(* app journal takes the cutover or refuses it, then the proxy journal.     *)
BeginSwitchApp ==
    /\ At("bs1") /\ allowed
    /\ Goto("bs2")
    /\ A' = IF J.cut THEN A ELSE [A EXCEPT !.phase = "switching", !.cut = TRUE]
    /\ UNCHANGED <<relayVars, enabled, goal, sent, back, watchdog, ui, boundVars>>

ClientRuns ==
    /\ At("bs1") /\ allowed /\ ~J.cut /\ faults < MaxFaults
    /\ Goto("except") /\ faults' = faults + 1
    /\ UNCHANGED <<A, relayVars, enabled, goal, sent, back, watchdog, ui, crashes, tries>>

BeginSwitchJournal ==
    /\ At("bs2")
    /\ Publish([J EXCEPT !.phase = "switching", !.cut = TRUE], "bs3")
    /\ UNCHANGED <<A, relayVars, enabled, goal, sent, back, watchdog, ui, boundVars>>

BeginSwitchDone ==
    /\ At("bs3")
    /\ Goto(back)
    /\ UNCHANGED <<A, relayVars, enabled, goal, sent, back, watchdog, ui, boundVars>>

(* The drain command: it replaces the receipt of a relay that is gone. *)
DrainSend ==
    /\ At("send")
    /\ status' = [status EXCEPT ![goal] = CASE @ \in {"up", "bad"} -> "draining"
                                            [] @ = "stopped" -> "dead"
                                            [] OTHER -> @]
    /\ sent' = TRUE
    /\ Goto("drain")
    /\ UNCHANGED <<A, ver, unknown, enabled, goal, back, watchdog, ui, boundVars>>

Switch ==
    /\ At("switch") /\ allowed
    /\ Goto("bs1") /\ back' = "start"
    /\ UNCHANGED <<A, relayVars, enabled, goal, sent, watchdog, ui, boundVars>>

Starting ==
    /\ At("start")
    /\ Publish([J EXCEPT !.phase = "starting"], "launch")
    /\ UNCHANGED <<A, relayVars, enabled, goal, sent, back, watchdog, ui, boundVars>>

(* start(command, source), and the failure that leads to the rollback. *)
StartNew ==
    /\ At("launch")
    /\ IF stopped(J.src)
         THEN Launch("new") /\ Goto("launched")
         ELSE Publish([J EXCEPT !.phase = "rollback"], "rb") /\ UNCHANGED relayVars
    /\ UNCHANGED <<A, enabled, goal, sent, back, watchdog, ui, boundVars>>

Verifying ==
    /\ At("launched")
    /\ Publish([J EXCEPT !.phase = "verifying"], "verify")
    /\ UNCHANGED <<A, relayVars, enabled, goal, sent, back, watchdog, ui, boundVars>>

(* ready(): three good answers, or 30 seconds without them. *)
Verify ==
    /\ At("verify")
    /\ IF ready(J.src, "new")
         THEN Publish([J EXCEPT !.phase = "complete"], "finish")
         ELSE Publish([J EXCEPT !.phase = "rollback"], "rb")
    /\ UNCHANGED <<A, relayVars, enabled, goal, sent, back, watchdog, ui, boundVars>>

(* rollback(): the digest of the old executable is taken to match. *)
Rollback ==
    /\ At("rb") /\ allowed
    /\ Publish([J EXCEPT !.phase = "rollback"], "rb1")
    /\ UNCHANGED <<A, relayVars, enabled, goal, sent, back, watchdog, ui, boundVars>>

RollbackClear ==
    /\ At("rb1")
    /\ CASE health = 0 -> Goto("rb3") /\ UNCHANGED <<goal, sent>>
         [] health # 0 /\ ready(J.src, "old") ->
                /\ Publish([J EXCEPT !.phase = "failed", !.restored = TRUE], "finish")
                /\ UNCHANGED <<goal, sent>>
         [] health # 0 /\ ~ready(J.src, "old") /\ ver[health] = "new" ->
                Goto("drain") /\ goal' = health /\ sent' = FALSE
         [] OTHER -> Goto("except") /\ UNCHANGED <<goal, sent>>
    /\ UNCHANGED <<A, relayVars, enabled, back, watchdog, ui, boundVars>>

RollbackRestarts ==
    /\ At("rb3")
    /\ Publish([J EXCEPT !.phase = "rollback"], "rb4")
    /\ UNCHANGED <<A, relayVars, enabled, goal, sent, back, watchdog, ui, boundVars>>

StartOld ==
    /\ At("rb4") /\ allowed
    /\ IF stopped(J.src) THEN Launch("old") /\ Goto("rb5")
                         ELSE UNCHANGED relayVars /\ Goto("except")
    /\ UNCHANGED <<A, enabled, goal, sent, back, watchdog, ui, boundVars>>

VerifyOld ==
    /\ At("rb5") /\ allowed
    /\ IF ready(J.src, "old")
         THEN Publish([J EXCEPT !.phase = "failed", !.restored = TRUE], "finish")
         ELSE Goto("except")
    /\ UNCHANGED <<A, relayVars, enabled, goal, sent, back, watchdog, ui, boundVars>>

(* The last except clause of replace(). *)
Except ==
    /\ At("except")
    /\ CASE J.src # 0 /\ J.phase # "rollback" /\ stopped(J.src) -> Goto("rb")
         [] J.phase = "rollback" -> Publish(J, "finish")
         [] OTHER -> Publish([J EXCEPT !.phase = "failed"], "finish")
    /\ UNCHANGED <<A, relayVars, enabled, goal, sent, back, watchdog, ui, boundVars>>

(* MUTANT: the repetition ends with the process, not with the journal. *)
Finish_always ==
    /\ At("finish")
    /\ watchdog' = FALSE
    /\ Goto("off")
    /\ UNCHANGED <<A, relayVars, enabled, goal, sent, back, ui, boundVars>>

(* run(): the repetition ends with a terminal journal, read again under the *)
(* control lock; the process exits.                                         *)
Finish ==
    /\ At("finish")
    /\ watchdog' = (watchdog /\ J.phase \notin TERMINAL)
    /\ Goto("off")
    /\ UNCHANGED <<A, relayVars, enabled, goal, sent, back, ui, boundVars>>

Crash ==
    /\ upc # "off" /\ crashes < MaxCrashes
    /\ upc' = "off" /\ pend' = Nothing
    /\ goal' = 0 /\ sent' = FALSE /\ back' = "off"
    /\ crashes' = crashes + 1
    /\ UNCHANGED <<J, A, relayVars, enabled, watchdog, ui, faults, tries>>

-----------------------------------------------------------------------------
(* The app: UpdateState, update(), retry_proxy(), ObserverManager *)

(* UpdateState.begin, single flight. *)
BeginOperation ==
    /\ ui = "idle" /\ A.phase \notin ACTIVE /\ A.op < MaxOps /\ tries < MaxTries
    /\ A' = [op |-> A.op + 1, phase |-> "preparing", cut |-> FALSE, cancel |-> FALSE]
    /\ ui' = "begun" /\ tries' = tries + 1
    /\ UNCHANGED <<J, relayVars, enabled, updaterVars, watchdog, crashes, faults>>

(* prepare_proxy_retry: a new cancel boundary; the results written before   *)
(* it are fenced off by the new updated_at, until the journal is written    *)
(* again.                                                                   *)
RetryOperation ==
    /\ ui = "idle" /\ A.phase \in {"failed", "deferred", "interrupted"} /\ tries < MaxTries
    /\ A' = [A EXCEPT !.phase = "waiting", !.cut = FALSE, !.cancel = FALSE]
    /\ J' = [J EXCEPT !.fenced = TRUE] /\ pend' = Outdated(TRUE)
    /\ ui' = "begun" /\ tries' = tries + 1
    /\ UNCHANGED <<relayVars, enabled, upc, goal, sent, back, watchdog, crashes, faults>>

recovering ==
    /\ J.src # 0 /\ ~J.restored /\ J.phase \in BUSY \cup {"failed"}
    /\ ~(J.phase = "failed" /\ health = J.src /\ status[J.src] # "draining")

(* What activate_proxy itself returns, passed to the app journal.           *)
Settles(phase) == proxy_result([phase |-> phase, op |-> A.op, cut |-> FALSE, stale |-> FALSE])

(* activate_proxy: nothing to do when the route is off, an update of the    *)
(* relay that answers, else a relay is started and awaited, but not during  *)
(* an update, or, when the port does not refuse, the recovery tool is asked *)
(* for.                                                                     *)
Activate ==
    /\ ui = "begun" /\ ~writingCutover /\ UNCHANGED <<J, enabled, updaterVars, watchdog, boundVars>>
    /\ \/ ~enabled /\ Settles("complete") /\ ui' = "idle" /\ UNCHANGED relayVars
       \/ enabled /\ health # 0 /\ ui' = "updating" /\ UNCHANGED <<A, relayVars>>
       \/ /\ enabled /\ health = 0 /\ ui' = "attaching" /\ UNCHANGED A
          /\ IF J.phase \in BUSY THEN UNCHANGED relayVars ELSE Launch("new")
       \/ /\ enabled /\ health = 0 /\ ui' = "idle"
          /\ A' = [A EXCEPT !.phase = "failed", !.cut = FALSE] /\ UNCHANGED relayVars

(* Three good answers within 30 seconds, or an error.                       *)
ActivateEnds ==
    /\ ui = "attaching" /\ ~writingCutover /\ ui' = "idle"
    /\ \/ ready(0, "new") /\ Settles("complete")
       \/ A' = [A EXCEPT !.phase = "failed"]
    /\ UNCHANGED <<J, relayVars, enabled, updaterVars, watchdog, boundVars>>

(* update_proxy, under the control lock: the state as it is while an        *)
(* updater works, an error without a relay or a route, else a fresh or a    *)
(* recovered journal; an interrupted one is recovered without a relay too.  *)
UpdateProxy ==
    /\ ui = "updating" /\ ~controlLocked
    /\ ui' = "idle"
    /\ \/ /\ J.phase \in BUSY
          /\ proxy_result(result)
          /\ UNCHANGED <<J, pend, watchdog>>
       \/ /\ J.phase \in BUSY => ~updaterLocked
          /\ ~enabled \/ (health = 0 /\ ~recovering)
          /\ A' = [A EXCEPT !.phase = "failed"]
          /\ UNCHANGED <<J, pend, watchdog>>
       \/ /\ J.phase \in BUSY => ~updaterLocked
          /\ enabled /\ (health # 0 \/ recovering)
          /\ LET new == IF recovering
                          THEN [J EXCEPT !.phase = IF @ = "failed" THEN "waiting" ELSE @,
                                         !.op = A.op, !.cancel = FALSE, !.interrupted = FALSE,
                                         !.fenced = FALSE]
                          ELSE [phase |-> "queued", op |-> A.op, src |-> 0, inst |-> health,
                                cut |-> FALSE, cancel |-> FALSE, rb |-> FALSE,
                                interrupted |-> FALSE, restored |-> FALSE, fenced |-> FALSE]
             IN  J' = new /\ Publishes(new)
          /\ watchdog' = TRUE
    /\ UNCHANGED <<relayVars, enabled, upc, goal, sent, back, boundVars>>

(* UpdateState.cancel, accepted before any cutover ... *)
CancelOperation ==
    /\ "cancel" \in UserActs
    /\ ~A.cut /\ A.phase \in {"preparing", "waiting"} /\ ~A.cancel
    /\ A' = [A EXCEPT !.cancel = TRUE]
    /\ UNCHANGED <<J, relayVars, enabled, updaterVars, watchdog, ui, boundVars>>

(* ... then cancel_update, which marks the proxy journal too. *)
CancelJournal ==
    /\ A.cancel /\ ~controlLocked
    /\ J.phase \in {"queued", "waiting"} /\ ~J.cut /\ ~J.cancel
    /\ J' = [J EXCEPT !.cancel = TRUE, !.interrupted = FALSE, !.fenced = FALSE]
    /\ Publishes(J)
    /\ UNCHANGED <<relayVars, enabled, upc, goal, sent, back, watchdog, ui, boundVars>>

(* turn_off is refused between the cutover and the end. *)
TurnOff ==
    /\ "off" \in UserActs /\ enabled /\ ~controlLocked
    /\ ~(J.cut /\ J.phase \in BUSY)
    /\ enabled' = FALSE
    /\ UNCHANGED <<J, A, relayVars, updaterVars, watchdog, ui, boundVars>>

(* reconcile_update: a terminal journal is replayed; a busy one whose owner *)
(* is gone is cancelled or marked interrupted, and replayed.                *)
Reconcile ==
    /\ A.phase \in ACTIVE /\ J.op = A.op
    /\ \/ J.phase \in TERMINAL /\ proxy_result(result) /\ UNCHANGED J
       \/ /\ J.phase \in BUSY /\ ~updaterLocked
          /\ J' = IF (J.cancel \/ A.cancel) /\ ~J.cut
                    THEN [J EXCEPT !.phase = "cancelled", !.interrupted = FALSE, !.fenced = FALSE]
                    ELSE [J EXCEPT !.interrupted = TRUE, !.fenced = FALSE]
          /\ proxy_result([phase |-> IF J'.phase \in BUSY THEN "interrupted" ELSE J'.phase,
                           op |-> J.op, cut |-> J.cut, stale |-> FALSE])
    /\ UNCHANGED <<relayVars, enabled, updaterVars, watchdog, ui, boundVars>>

(* attach_supervisor starts a missing relay, never during an update. *)
Attach ==
    /\ enabled /\ ~controlLocked /\ J.phase \notin BUSY /\ Alive = {}
    /\ \E i \in Insts : status[i] = "absent"
    /\ Launch("new")
    /\ UNCHANGED <<J, A, enabled, updaterVars, watchdog, ui, boundVars>>

-----------------------------------------------------------------------------
(* Relay processes *)

RelayStep(i, from, to) ==
    /\ status[i] = from
    /\ status' = [status EXCEPT ![i] = to]
    /\ unknown' = IF to = "dead" THEN unknown \ {i} ELSE unknown
    /\ UNCHANGED <<J, A, ver, enabled, updaterVars, watchdog, ui, crashes, tries>>

RelayBoots(i) == RelayStep(i, "booting", "up") /\ UNCHANGED faults

(* A draining relay ends when its last connection has no work left.         *)
RelayDrained(i) == i \notin unknown /\ RelayStep(i, "draining", "stopped") /\ UNCHANGED faults

(* A managed relay whose route is off drains itself. *)
RelayOff(i) == ~enabled /\ RelayStep(i, "up", "draining") /\ UNCHANGED faults

RelayFault(i) ==
    /\ faults < MaxFaults /\ faults' = faults + 1
    /\ \/ RelayStep(i, "booting", "bad")
       \/ RelayStep(i, "up", "dead")
       \/ RelayStep(i, "draining", "dead")

(* A connection that was followed becomes unknown (Activity).  One that was *)
(* accepted before the drain and becomes unknown later is one that was      *)
(* unknown before it.                                                       *)
RelayBlur(i) ==
    /\ status[i] \in {"up", "bad"} /\ i \notin unknown
    /\ faults < MaxFaults /\ faults' = faults + 1
    /\ unknown' = unknown \cup {i}
    /\ UNCHANGED <<J, A, status, ver, enabled, updaterVars, watchdog, ui, crashes, tries>>

(* The user closes the client, as required_action asks.                     *)
ClientCloses(i) ==
    /\ i \in unknown
    /\ unknown' = unknown \ {i}
    /\ UNCHANGED <<J, A, status, ver, enabled, updaterVars, watchdog, ui, boundVars>>

-----------------------------------------------------------------------------
Updater ==
    \/ Begin \/ Cancelled \/ Preflight \/ Capture \/ Decide
    \/ DrainDone \/ DrainReady \/ DrainSend
    \/ BeginSwitchApp \/ BeginSwitchJournal \/ BeginSwitchDone
    \/ Switch \/ Starting \/ StartNew \/ Verifying \/ Verify
    \/ Rollback \/ RollbackClear \/ RollbackRestarts \/ StartOld \/ VerifyOld
    \/ Except \/ Finish

Relay(i) == RelayBoots(i) \/ RelayDrained(i) \/ RelayOff(i)

Next ==
    \/ Start \/ Updater \/ Deliver \/ Crash
    \/ PreflightFails \/ ClientRuns \/ DrainFails \/ DrainWaits \/ DrainLingers \/ DrainStopping
    \/ BeginOperation \/ RetryOperation \/ Activate \/ ActivateEnds \/ UpdateProxy
    \/ CancelOperation \/ CancelJournal \/ TurnOff \/ Reconcile \/ Attach
    \/ \E i \in Insts : Relay(i) \/ RelayFault(i) \/ RelayBlur(i) \/ ClientCloses(i)

(* The scheduler repeats the updater, the updater runs on unless killed,    *)
(* responses that are followed end and leave the updater a poll without one *)
(* (so DrainReady is not put off for ever), a relay that boots or drains    *)
(* gets done, the app polls.  Nothing makes the user act or close a client: *)
(* a relay with unknown work is not ready for a drain and does not end one, *)
(* and ClientCloses has no fairness.  Nor must a relay fail or the updater  *)
(* die.                                                                     *)
Fairness ==
    /\ WF_vars(Start) /\ WF_vars(Updater) /\ WF_vars(Deliver)
    /\ WF_vars(Activate) /\ WF_vars(ActivateEnds) /\ WF_vars(UpdateProxy)
    /\ WF_vars(J.phase \in TERMINAL /\ Reconcile)
    /\ WF_vars(DrainFails)
    /\ \A i \in Insts : WF_vars(RelayBoots(i)) /\ WF_vars(RelayDrained(i))

Spec == Init /\ [][Next]_vars /\ Fairness

-----------------------------------------------------------------------------
(* Every variable keeps its type. *)
TypeOK ==
    /\ J.phase \in BUSY \cup TERMINAL \cup {"none"} /\ J.op \in 0..MaxOps
    /\ {J.src, J.inst} \subseteq 0..MaxInst
    /\ {J.cut, J.cancel, J.rb, J.interrupted, J.restored, J.fenced} \subseteq BOOLEAN
    /\ A.op \in 0..MaxOps /\ {A.cut, A.cancel} \subseteq BOOLEAN
    /\ A.phase \in ACTIVE \cup {"none", "complete", "failed", "deferred", "interrupted"}
    /\ status \in [Insts -> {"absent", "booting", "up", "bad", "draining", "stopped", "dead"}]
    /\ ver \in [Insts -> {"old", "new"}] /\ unknown \subseteq Insts /\ enabled \in BOOLEAN /\ watchdog \in BOOLEAN
    /\ goal \in 0..MaxInst /\ sent \in BOOLEAN /\ ui \in {"idle", "begun", "updating", "attaching"}
    /\ pend.phase \in BUSY \cup TERMINAL \cup {"none"}

(* The journal tells the truth about the relay it was to replace, through   *)
(* the updater's deaths and restarts: an update that ended before its       *)
(* cutover, cancelled or failed, has not drained it, and one that is        *)
(* complete, or restored the old version, has not left it running, so the   *)
(* address was never shared.                                                *)
SourceAccounted ==
    J.src # 0 =>
        /\ J.phase \in {"cancelled", "failed"} /\ ~J.cut /\ enabled =>
               status[J.src] \in {"up", "bad", "dead"}
        /\ J.phase = "complete" \/ J.restored => status[J.src] \in {"stopped", "dead"}

(* The replacement never begins for an operation whose cancellation the     *)
(* user was told is accepted.                                               *)
CancelPreventsCutover ==
    [][J'.cut /\ ~J.cut => ~(A.cancel /\ A.op = J.op)]_vars

(* The updater finishes what it started, through its own deaths: every      *)
(* journal becomes terminal, unless a relay was lost without its receipt or *)
(* an old relay does not come back well, which it does not work around, or  *)
(* the bound on instances leaves none to launch.  The one thing it may wait *)
(* for without limit is a connection of unknown state of the relay it is to *)
(* drain, whose client stays open (ProxyDrain.run asks for close_client).   *)
JournalEnds ==
    [](J.phase \in BUSY =>
        \/ <>(\/ J.phase \in TERMINAL
              \/ \E i \in Insts : status[i] = "dead" \/ (status[i] = "bad" /\ ver[i] = "old")
              \/ Alive = {} /\ \A i \in Insts : status[i] # "absent")
        \/ <>[]AwaitsClient)

(* A terminal result reaches the app journal, also after a crash between    *)
(* the two writes, except a cancellation written by a journal without the   *)
(* cutover that the app journal has already recorded.                       *)
CutoverResultConsumed ==
    J.phase \in TERMINAL /\ J.op = A.op ~>
        \/ J.phase \notin TERMINAL \/ J.op # A.op \/ A.phase \notin ACTIVE
        \/ J.phase = "cancelled" /\ A.cut /\ ~J.cut

(* docs/lifecycle.md: "A terminal proxy result remains consumable after a   *)
(* crash between journal writes."                                           *)
ResultConsumed ==
    J.phase \in TERMINAL /\ J.op = A.op ~>
        J.phase \notin TERMINAL \/ J.op # A.op \/ A.phase \notin ACTIVE
=============================================================================
