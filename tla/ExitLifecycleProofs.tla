------------------------- MODULE ExitLifecycleProofs -------------------------
(***************************************************************************)
(* What an exit and a resume may do to the route, for any number of relay  *)
(* instances, processes, operations and disturbances: no exit commits      *)
(* during a cutover, no routed relay drains, no receipt is made up, no     *)
(* cancelled exit touches a service, no direct route is forgotten, and     *)
(* an explicit off or an edit is not undone.                               *)
(***************************************************************************)
EXTENDS ExitLifecycle, TLAPS

----------------------------------------------------------------------------
(* The inductive invariant, one definition per idea                        *)

Prepared == {"capture", "decide", "drain", "commit", "route", "obs", "sendDrain", "watch",
             "saveIncomplete", "saveStopped", "writeIncomplete", "writeStopped"}
Committed == {"route", "obs", "sendDrain", "watch"}
Restoring == {"resumeState", "resumeStart", "resumeVerify", "resumeRoute", "resumeObs", "resumeActive"}
Copying == {"writeIncomplete", "writeStopped", "resumeLock"}

\* proxy-control.lock and the lines that hold it.
LockInv ==
    /\ lock = "gui" <=> pc \in {"route", "obs"} \cup Restoring
    /\ lock = "tool" <=> off # "idle"
    /\ alive <=> pc # "dead"

\* Whoever commits knows what follows.
AfterInv == pc \in {"commit", "route", "obs"} => after # "none"

\* An operation id belongs to one process, from its Prepare on.
OpInv ==
    /\ session.op <= ops /\ data.op <= ops
    /\ pc \in {"waitUpdate", "prepare"} => session.op < ops /\ data.op < ops
    /\ pc \in Prepared /\ session.op = ops => session.owner = run
    /\ pc \in {"writeIncomplete", "writeStopped"} /\ data.op = ops => data.owner = run

\* The journal of a committed exit stays closed while its owner lives.
ClosedInv ==
    pc \in Committed => /\ session.phase = "closing" /\ session.owner = run
                        /\ ~(off # "idle" /\ offKind = "recover")

\* Relays are told to leave, by any of the three signals, once the route is
\* off them; a restored route names a relay that was not told.
ServeInv ==
    /\ obs = "off" => route # "proxy"
    /\ relay.st = "up" /\ control[relay.inst] \in {"drain", "force"} => route # "proxy"
    /\ pc = "route" /\ ~conf => route # "proxy"
    /\ pc \in {"obs", "sendDrain", "watch"} => route # "proxy"
    /\ off = "obs" => route # "proxy"
    /\ pc \in {"resumeState", "resumeStart"} => relay.st = "none"
    /\ pc \in {"resumeStart", "resumeVerify", "resumeRoute", "resumeObs"} => obs = "starting"
    /\ pc \in {"resumeVerify", "resumeRoute", "resumeObs"} =>
          relay.st \in {"none", "starting", "up"}
          /\ (relay.st = "up" => control[relay.inst] \notin {"drain", "force"})

\* A receipt is left after the flush; a line that skips the wait has seen it,
\* or its journal says that the storage is incomplete.
Accounted(incomplete) == source = None \/ source \in flushed \/ incomplete = source
FlushInv ==
    /\ \A i \in Instances : control[i] = "stopped" => i \in flushed
    /\ pc = "saveStopped" => Accounted(session.incomplete)
    /\ pc \in {"commit", "route", "obs"} /\ after = "saveStopped" => Accounted(session.incomplete)
    /\ pc = "writeStopped" => Accounted(data.incomplete)
    /\ pc = "collect" /\ outcome # "warned" => source = None \/ source \in flushed
    /\ outcome = "completed" => pc = "dead"

\* A cancellation and a commit exclude each other, and a resume has neither.
CancelInv ==
    /\ ~(ctl.committed /\ ctl.cancelled)
    /\ pc \in Committed => ctl.committed
    /\ pc = "running" => ~ctl.cancelled
    /\ mode = "resume" => ~ctl.cancelled
    /\ pc \in Restoring \cup {"resumePrep", "resumeRead", "resumeLock"} => mode = "resume"

\* What a preparation interrupts is never a preparation.
PrevInv == "preparing" \notin {prev.phase, session.prevPhase, data.prevPhase}

\* Unless recording was turned off, the journal is the GUI's alone, ...
Undisturbed == ~wantOff /\ off = "idle"
Suspended == Phases \ {"active"}
JournalInv ==
    Undisturbed =>
      /\ session.phase \in Suspended /\ route # "custom" => session.resume
      /\ route = "direct" => session.phase \in Suspended
      /\ route = "direct" /\ session.phase = "preparing" => session.prevPhase # "active"

\* ... and what a call read of it is what it will write back.
CallInv ==
    Undisturbed =>
      /\ pc \in Copying => data = session
      /\ pc \in Prepared => session.op = ops
      /\ pc \in Prepared \/ (pc = "except" /\ session.op = ops) => session.phase \in Suspended
      /\ pc \in Prepared \/ (pc = "except" /\ session.op = ops) =>
            (route = "direct" /\ ~ctl.committed => prev.phase # "active")
      /\ pc \in Restoring => session.phase \in Suspended /\ session.resume
      /\ pc \in {"resumeObs", "resumeActive"} => route # "direct"

\* An Off and an edit that nobody overlooked are final: what the journal says,
\* and what the GUI holds of it, no longer asks for the route.
OffSeen == (wantOff \/ off # "idle") /\ "off" \notin overlooked
EditSeen == edited /\ "edit" \notin overlooked
OverrideInv ==
    /\ OverridesStick
    /\ OffSeen => ~session.resume /\ (pc \in Copying => ~data.resume) /\ pc \notin Restoring
    /\ EditSeen => ~HoldsRoute

IInv ==
    /\ TypeOK /\ LockInv /\ AfterInv /\ OpInv /\ ClosedInv /\ CutoverExclusive /\ ServeInv /\ RoutedRelayServes
    /\ FlushInv /\ CleanExitFlushed /\ CancelInv /\ PrevInv /\ JournalInv /\ CallInv /\ OverrideInv

----------------------------------------------------------------------------
(* What the steps of one actor leave alone                                 *)

\* The relay and the updater leave the configuration and the journal alone;
\* the user leaves the journal and the relay alone; turning recording off
\* leaves the GUI and the relay alone.
LEMMA Frames ==
    /\ Relay => UNCHANGED <<route, obs, session, lock, cutover, guiVars, offVars, userVars>>
    /\ Update => UNCHANGED <<route, obs, session, lock, guiVars, offVars, userVars>>
    /\ User => UNCHANGED <<obs, session, control, lock, relayVars, cutover, alive, run, pc, mode, after,
                           ops, prev, source, known, forceSent, conf, data, outcome, offVars>>
    /\ Off => UNCHANGED <<control, relayVars, cutover, guiVars>>
    /\ Stop => UNCHANGED <<relayVars, cutover, offVars, envVars, run, ops, known>> \/ pc = "collect"
    /\ Resume => UNCHANGED <<cutover, offVars, envVars, flushed, alive, run, known>>
  <1> USE DEF guiVars, offVars, relayVars, userVars, envVars, fileVars
  <1>1. Relay => UNCHANGED <<route, obs, session, lock, cutover, guiVars, offVars, userVars>>
    BY 
       DEF Relay, RelayBoot, RelayWork, RelayBlur, RelayDone, ClientCloses, RelayNotice,
           RelayExpire, RelayForce, RelayStop, RelayExit, RelayCrash
  <1>2. Update => UNCHANGED <<route, obs, session, lock, guiVars, offVars, userVars>>
    BY DEF Update, UpdateCutover, UpdateSettle
  <1>3. User => UNCHANGED <<obs, session, control, lock, relayVars, cutover, alive, run, pc, mode, after,
                            ops, prev, source, known, forceSent, conf, data, outcome, offVars>>
    BY DEF User, CancelRequest, ForceRequest, UserEdit
  <1>4. Off => UNCHANGED <<control, relayVars, cutover, guiVars>>
    BY DEF Off, OffStart, OffRoute, OffObs
  <1>5. Stop => UNCHANGED <<relayVars, cutover, offVars, envVars, run, ops, known>> \/ pc = "collect"
    BY 
       DEF Stop, Checkpoint, StopFails, WaitUpdate, Prepare, Capture, Decide, Drain, Commit,
           CommitRoute, CommitObs, SendDrain, Watch, SaveRead, SaveIncomplete, SaveStopped, Collect,
           Except, Raise, Return, Gone, localVars
  <1>6. Resume => UNCHANGED <<cutover, offVars, envVars, flushed, alive, run, known>>
    BY DEF Resume, ResumePrep, ResumeRead, ResumeLock, ResumeState, ResumeStart, ResumeVerify,
           ResumeRoute, ResumeObs, ResumeActive, ResumeFails, Return, Gone, Begin, localVars
  <1> QED BY <1>1, <1>2, <1>3, <1>4, <1>5, <1>6

----------------------------------------------------------------------------
(* Types                                                                   *)

JournalTypes == session \in Session /\ data \in Session /\ prev \in [phase: Phases, committed: BOOLEAN]
RelayTypes ==
    /\ control \in [Instances -> {"none", "run", "drain", "force", "stopped", "failed"}]
    /\ relay \in [inst: Instances, st: {"none", "starting", "up", "draining", "closing"}, work: {"idle", "responding", "unknown"}]
    /\ flushed \subseteq Instances
ThreadTypes ==
    /\ run \in 1..MaxRuns /\ ops \in 0..MaxOps /\ source \in 0..MaxInst /\ known \in 0..MaxInst
    /\ pc \in {"running", "dead", "waitUpdate", "prepare", "capture", "decide", "drain",
               "commit", "route", "obs", "sendDrain", "watch", "saveIncomplete", "saveStopped",
               "writeIncomplete", "writeStopped", "collect", "except", "resumePrep", "resumeRead",
               "resumeLock", "resumeState", "resumeStart", "resumeVerify", "resumeRoute",
               "resumeObs", "resumeActive"}
    /\ after \in {"none", "sendDrain", "saveIncomplete", "saveStopped"}
SwitchTypes ==
    /\ route \in {"proxy", "direct", "custom"} /\ obs \in {"active", "starting", "off"}
    /\ lock \in {"free", "gui", "tool"} /\ cutover \in BOOLEAN
    /\ off \in {"idle", "route", "obs"} /\ offKind \in {"none", "turn_off", "restore", "recover"}
    /\ wantOff \in BOOLEAN /\ edited \in BOOLEAN /\ overlooked \subseteq {"off", "edit"}
    /\ events \in 0..MaxEvents
LocalTypes ==
    /\ alive \in BOOLEAN /\ mode \in {"exit", "resume"} /\ forceSent \in BOOLEAN /\ conf \in BOOLEAN
    /\ ctl \in [committed: BOOLEAN, cancelled: BOOLEAN, forced: BOOLEAN]
    /\ outcome \in {"none", "cancelled", "failed", "warned", "settled", "completed", "completedWarned"}

\* The journal a step writes differs from a typed one in a few fields.
LEMMA PhaseUpdate ==
    ASSUME NEW s \in Session, NEW p \in Phases, NEW b \in BOOLEAN
    PROVE  /\ [s EXCEPT !.phase = p] \in Session
           /\ [s EXCEPT !.phase = p, !.committed = b] \in Session
           /\ [s EXCEPT !.phase = p, !.resume = b] \in Session
           /\ [s EXCEPT !.resume = b] \in Session
  BY DEF Session

\* The instance that stops, or whose storage is incomplete, is noted.
LEMMA InstanceUpdate ==
    ASSUME NEW s \in Session, NEW n \in 0..MaxInst
    PROVE  [s EXCEPT !.source = n] \in Session /\ [s EXCEPT !.incomplete = n] \in Session
  BY DEF Session

\* The journal of a preparation.
LEMMA PrepareUpdate ==
    ASSUME NEW s \in Session, NEW n \in 0..MaxOps, NEW r \in 0..MaxRuns, NEW p \in Phases,
           NEW b \in BOOLEAN, NEW c \in BOOLEAN
    PROVE  [s EXCEPT !.phase = "preparing", !.op = n, !.committed = FALSE, !.owner = r,
                     !.prevPhase = p, !.prevCommitted = b, !.resume = c] \in Session
  BY DEF Session, Phases

\* The journal of a first start.
LEMMA FreshTyped == FreshSession \in Session
  BY BoundsAssumption DEF Session, FreshSession, Phases, None

\* What is left of a call that returned is typed.
LEMMA GoneTyped == Gone => data' \in Session /\ prev' \in [phase: Phases, committed: BOOLEAN]
  <1>1. FreshSession \in Session
    BY FreshTyped
  <1>2. [phase |-> "active", committed |-> FALSE] \in [phase: Phases, committed: BOOLEAN]
    BY DEF Phases
  <1> QED BY <1>1, <1>2 DEF Gone

\* The journal, and the copies and parts of it that a call holds, keep their
\* types.
LEMMA JournalTyped == TypeOK /\ [Next]_vars => JournalTypes'
  <1> SUFFICES ASSUME TypeOK, [Next]_vars PROVE JournalTypes'
    OBVIOUS
  <1> USE DEF guiVars, offVars, relayVars, userVars, envVars, fileVars
  <1>0. /\ JournalTypes /\ run \in 1..MaxRuns /\ ops \in 0..MaxOps
        /\ route \in {"proxy", "direct", "custom"}
        /\ source \in 0..MaxInst /\ known \in 0..MaxInst /\ relay.inst \in 0..MaxInst
        /\ ctl.committed \in BOOLEAN
    BY BoundsAssumption DEF JournalTypes, TypeOK, Instances
  <1>s. /\ session.prevPhase \in Phases /\ session.prevCommitted \in BOOLEAN
        /\ session.phase \in Phases /\ session.committed \in BOOLEAN /\ session.source \in 0..MaxInst
        /\ prev.phase \in Phases /\ prev.committed \in BOOLEAN
    BY <1>0 DEF JournalTypes, Session
  <1>p. {"active", "preparing", "closing", "stopped", "failed", "resuming"} = Phases
    BY DEF Phases
  <1>1. CASE Relay
    BY <1>1, Frames, <1>0, <1>p, PhaseUpdate, GoneTyped DEF JournalTypes
  <1>2. CASE Update
    BY <1>2, Frames, <1>0, <1>p, PhaseUpdate, GoneTyped DEF JournalTypes
  <1>3. CASE Stop
    <2>1. CASE Checkpoint \/ StopFails \/ WaitUpdate \/ Decide \/ Drain \/ CommitRoute \/ CommitObs
            \/ SendDrain \/ Watch
      BY <2>1, <1>0, <1>p, PhaseUpdate, GoneTyped
         DEF Checkpoint, Raise, localVars, StopFails, WaitUpdate, Decide, Drain, CommitRoute,
             CommitObs, SendDrain, Watch, JournalTypes
    <2>2. CASE Prepare
      <3>1. CASE Raise("failed")
        BY <3>1, <1>0 DEF Raise, localVars, JournalTypes
      <3>2. CASE ~Raise("failed")
        <4>1. prev' \in [phase: Phases, committed: BOOLEAN]
          BY <2>2, <3>2, <1>0, <1>s DEF Prepare
        <4>2. PICK p \in Phases, b \in BOOLEAN : prev' = [phase |-> p, committed |-> b]
          BY <4>1
        <4>3. PICK c \in BOOLEAN :
                 session' = [session EXCEPT !.phase = "preparing", !.op = ops, !.committed = FALSE,
                                 !.owner = run, !.prevPhase = p, !.prevCommitted = b, !.resume = c]
          <5>1. session.resume \in BOOLEAN /\ prev'.phase = p /\ prev'.committed = b
            BY <1>0, <4>2 DEF JournalTypes, Session
          <5>2. CASE p = "active"
            BY <2>2, <3>2, <5>1, <5>2 DEF Prepare
          <5>3. CASE p # "active"
            BY <2>2, <3>2, <5>1, <5>3 DEF Prepare
          <5> QED BY <5>2, <5>3
        <4>4. run \in 0..MaxRuns
          BY <1>0
        <4>5. session' \in Session
          BY <4>3, <4>4, <1>0, PrepareUpdate DEF JournalTypes
        <4> QED BY <2>2, <3>2, <4>1, <4>5, <1>0 DEF Prepare, JournalTypes
      <3> QED BY <3>1, <3>2
    <2>3. CASE Capture
      <3>1. source' \in 0..MaxInst
        BY <2>3, <1>0, <1>s DEF Capture
      <3>2. PICK n \in 0..MaxInst : n = source'
        BY <3>1
      <3>3. session' \in Session
        <4>1. session' = session \/ session' = [session EXCEPT !.source = n]
          BY <2>3, <3>2 DEF Capture
        <4>2. session \in Session
          BY <1>0 DEF JournalTypes
        <4>3. [session EXCEPT !.source = n] \in Session
          BY <4>2, InstanceUpdate
        <4> QED BY <4>1, <4>2, <4>3
      <3> QED BY <2>3, <3>3, <1>0 DEF Capture, JournalTypes
    <2>4. CASE Commit
      BY <2>4, <1>0, <1>p, PhaseUpdate, GoneTyped DEF Commit, Raise, localVars, JournalTypes
    <2>5. CASE SaveRead
      BY <2>5, <1>0, <1>p, PhaseUpdate, GoneTyped DEF SaveRead, JournalTypes
    <2>6. CASE SaveIncomplete
      <3>1. data \in Session
        BY <1>0 DEF JournalTypes
      <3>2. [data EXCEPT !.incomplete = source] \in Session
        BY <3>1, <1>0, InstanceUpdate
      <3> QED BY <2>6, <3>2, <1>0, FreshTyped DEF SaveIncomplete, JournalTypes
    <2>7. CASE SaveStopped
      <3>1. data \in Session
        BY <1>0 DEF JournalTypes
      <3>2. [data EXCEPT !.phase = "stopped"] \in Session
        BY <3>1, <1>p, PhaseUpdate
      <3> QED BY <2>7, <3>2, <1>0, FreshTyped DEF SaveStopped, JournalTypes
    <2>8. ASSUME NEW ok \in BOOLEAN, Collect(ok) PROVE JournalTypes'
      <3>1. CASE ok
        BY <2>8, <3>1, <1>0 DEF Collect, JournalTypes
      <3>2. CASE ~ok
        BY <2>8, <3>2, <1>0, GoneTyped DEF Collect, Return, JournalTypes
      <3> QED BY <3>1, <3>2
    <2>9. CASE Except
      <3>1. session' \in Session
        <4>1. /\ (IF ctl.committed THEN "failed" ELSE prev.phase) \in Phases
              /\ (ctl.committed \/ prev.committed) \in BOOLEAN
          BY <1>0, <1>s, <1>p
        <4> QED BY <2>9, <4>1, <1>0, PhaseUpdate, GoneTyped DEF Except, JournalTypes
      <3> QED BY <2>9, <3>1, <1>0, <1>p, GoneTyped DEF Except, Return, JournalTypes
    <2> QED BY <1>3, <2>1, <2>2, <2>3, <2>4, <2>5, <2>6, <2>7, <2>8, <2>9 DEF Stop
  <1>4. CASE Resume
    <2>1. CASE ResumeState \/ ResumeStart \/ ResumeVerify \/ ResumeRoute \/ ResumeObs
      BY <2>1, <1>0, <1>p, PhaseUpdate, GoneTyped
         DEF ResumeState, localVars, ResumeStart, ResumeVerify, ResumeRoute, ResumeObs, JournalTypes
    <2>2. CASE ResumePrep
      <3>1. session' \in Session
        <4>1. session' = session \/ session' = [session EXCEPT !.phase = session.prevPhase,
                                                              !.committed = session.prevCommitted]
          BY <2>2 DEF ResumePrep
        <4>2. PICK p \in Phases, c \in BOOLEAN : p = session.prevPhase /\ c = session.prevCommitted
          BY <1>s
        <4>3. session' = session \/ session' = [session EXCEPT !.phase = p, !.committed = c]
          BY <4>1, <4>2
        <4>4. session \in Session
          BY <1>0 DEF JournalTypes
        <4>5. [session EXCEPT !.phase = p, !.committed = c] \in Session
          BY <4>4, PhaseUpdate
        <4> QED BY <4>3, <4>4, <4>5
      <3>2. (data' \in Session /\ prev' \in [phase: Phases, committed: BOOLEAN])
            \/ (data' = session' /\ prev' = prev)
        BY <2>2, GoneTyped DEF ResumePrep, Return, Begin
      <3> QED BY <3>1, <3>2, <1>0 DEF JournalTypes
    <2>3. CASE ResumeRead
      BY <2>3, <1>0, <1>p, PhaseUpdate, GoneTyped DEF ResumeRead, JournalTypes
    <2>4. CASE ResumeLock
      <3>1. session' \in Session
        <4>1. \/ session' = session \/ session' = [session EXCEPT !.phase = "active", !.resume = FALSE]
              \/ session' = [session EXCEPT !.phase = "resuming"]
          BY <2>4 DEF ResumeLock, localVars
        <4> QED BY <4>1, <1>0, <1>p, PhaseUpdate DEF JournalTypes
      <3>2. \/ data' \in Session /\ prev' \in [phase: Phases, committed: BOOLEAN]
            \/ data' = data /\ prev' = prev
        BY <2>4, GoneTyped DEF ResumeLock, Return, localVars
      <3> QED BY <3>1, <3>2, <1>0 DEF JournalTypes
    <2>5. CASE ResumeActive
      BY <2>5, <1>0, <1>p, PhaseUpdate, GoneTyped DEF ResumeActive, Return, Gone, JournalTypes
    <2>6. CASE ResumeFails
      BY <2>6, <1>0, <1>p, PhaseUpdate, GoneTyped DEF ResumeFails, Return, Gone, JournalTypes
    <2> QED BY <1>4, <2>1, <2>2, <2>3, <2>4, <2>5, <2>6 DEF Resume
  <1>5. CASE GuiStart \/ GuiCrash \/ GuiObserve \/ GuiAttach \/ ExitRequest \/ ResumeCall
    <2>1. CASE GuiObserve \/ GuiAttach \/ ExitRequest
      BY <2>1, <1>0 DEF GuiObserve, GuiAttach, ExitRequest, Begin, JournalTypes
    <2>2. CASE GuiStart
      BY <2>2, <1>0, <1>p, PhaseUpdate, GoneTyped DEF GuiStart, Gone, JournalTypes
    <2>3. CASE GuiCrash
      BY <2>3, <1>0, <1>p, PhaseUpdate, GoneTyped DEF GuiCrash, Gone, JournalTypes
    <2>4. CASE ResumeCall
      BY <2>4, <1>0, <1>p, PhaseUpdate, GoneTyped DEF ResumeCall, Begin, suspended, JournalTypes
    <2> QED BY <1>5, <2>1, <2>2, <2>3, <2>4
  <1>6. CASE User
    BY <1>6, Frames, <1>0, <1>p, PhaseUpdate, GoneTyped DEF JournalTypes
  <1>7. CASE Off
    <2>1. CASE OffRoute
      BY <2>1, <1>0, <1>p, PhaseUpdate, GoneTyped DEF OffRoute, JournalTypes
    <2>2. ASSUME NEW kind \in {"turn_off", "restore"}, OffStart(kind) PROVE JournalTypes'
      BY <2>2, <1>0, <1>p, PhaseUpdate, GoneTyped DEF OffStart, OwnerAlive, JournalTypes
    <2>3. CASE OffObs
      BY <2>3, <1>0, <1>p, PhaseUpdate, GoneTyped DEF OffObs, JournalTypes
    <2> QED BY <1>7, <2>1, <2>2, <2>3 DEF Off
  <1>8. CASE UNCHANGED vars
    BY <1>8, <1>0, <1>p, PhaseUpdate, GoneTyped DEF vars, JournalTypes
  <1> QED BY <1>1, <1>2, <1>3, <1>4, <1>5, <1>6, <1>7, <1>8 DEF Next, Gui

\* The relay, its control files and its receipts keep their types.
LEMMA RelayTyped == TypeOK /\ [Next]_vars => RelayTypes'
  <1> SUFFICES ASSUME TypeOK, [Next]_vars PROVE RelayTypes'
    OBVIOUS
  <1> USE DEF guiVars, offVars, relayVars, userVars, envVars, fileVars, Instances
  <1>0. RelayTypes /\ source \in 0..MaxInst /\ MaxInst \in Nat \ {0}
    BY BoundsAssumption DEF RelayTypes, TypeOK
  <1>1. CASE Relay
    <2>1. CASE RelayBoot
      BY <2>1, <1>0 DEF RelayBoot, RelayTypes
    <2>2. CASE RelayWork
      BY <2>2, <1>0 DEF RelayWork, RelayTypes
    <2>3. CASE RelayDone
      BY <2>3, <1>0 DEF RelayDone, RelayTypes
    <2>4. CASE RelayNotice
      BY <2>4, <1>0 DEF RelayNotice, RelayTypes
    <2>5. CASE RelayExpire
      BY <2>5, <1>0 DEF RelayExpire, RelayTypes
    <2>6. CASE RelayForce
      BY <2>6, <1>0 DEF RelayForce, RelayTypes
    <2>7. CASE RelayStop
      BY <2>7, <1>0 DEF RelayStop, RelayTypes
    <2>8. ASSUME NEW ok \in BOOLEAN, RelayExit(ok) PROVE RelayTypes'
      BY <2>8, <1>0 DEF RelayExit, RelayTypes
    <2>9. CASE RelayCrash
      BY <2>9, <1>0 DEF RelayCrash, RelayTypes
    <2>10. CASE RelayBlur
      BY <2>10, <1>0 DEF RelayBlur, Answers, RelayTypes
    <2>11. CASE ClientCloses
      BY <2>11, <1>0 DEF ClientCloses, Answers, RelayTypes
    <2> QED BY <1>1, <2>1, <2>2, <2>3, <2>4, <2>5, <2>6, <2>7, <2>8, <2>9, <2>10, <2>11 DEF Relay
  <1>2. CASE Update
    <2>1. CASE UpdateCutover
      BY <2>1, <1>0 DEF UpdateCutover, RelayTypes
    <2>2. CASE UpdateSettle
      BY <2>2, <1>0 DEF UpdateSettle, RelayTypes
    <2> QED BY <1>2, <2>1, <2>2 DEF Update
  <1>3. CASE Stop
    <2>1. CASE Checkpoint \/ StopFails \/ WaitUpdate \/ Prepare \/ Capture \/ Decide \/ Drain \/
            Commit \/ CommitRoute \/ CommitObs \/ SaveRead \/ SaveIncomplete \/ SaveStopped \/ (\E
            ok \in BOOLEAN : Collect(ok)) \/ Except
      BY <2>1, <1>0 DEF Checkpoint, Raise, localVars, StopFails, WaitUpdate, Prepare, Capture,
            Decide, Drain, Commit, CommitRoute, CommitObs, SaveRead, SaveIncomplete, SaveStopped,
            Collect, Except, RelayTypes
    <2>2. CASE SendDrain
      BY <2>2, <1>0 DEF SendDrain, localVars, RelayTypes
    <2>3. CASE Watch
      BY <2>3, <1>0 DEF Watch, stopped, released, Answers, RelayTypes
    <2> QED BY <1>3, <2>1, <2>2, <2>3 DEF Stop
  <1>4. CASE Resume
    <2>1. CASE ResumePrep \/ ResumeRead \/ ResumeLock \/ ResumeState \/ ResumeVerify \/ ResumeRoute
            \/ ResumeObs \/ ResumeActive \/ ResumeFails
      BY <2>1, <1>0 DEF ResumePrep, Begin, ResumeRead, ResumeLock, localVars, ResumeState,
            ResumeVerify, ResumeRoute, ResumeObs, ResumeActive, ResumeFails, RelayTypes
    <2>2. CASE ResumeStart
      BY <2>2, <1>0 DEF ResumeStart, localVars, Launch, RelayTypes
    <2> QED BY <1>4, <2>1, <2>2 DEF Resume
  <1>5. CASE GuiStart \/ GuiCrash \/ GuiObserve \/ GuiAttach \/ ExitRequest \/ ResumeCall
    <2>1. CASE GuiStart \/ GuiCrash \/ GuiObserve \/ ExitRequest \/ ResumeCall
      BY <2>1, <1>0 DEF GuiStart, GuiCrash, GuiObserve, ExitRequest, Begin, ResumeCall, RelayTypes
    <2>2. CASE GuiAttach
      BY <2>2, <1>0 DEF GuiAttach, Launch, enabled, RelayTypes
    <2> QED BY <1>5, <2>1, <2>2
  <1>6. CASE User
    BY <1>6, Frames, <1>0 DEF RelayTypes
  <1>7. CASE Off
    BY <1>7, Frames, <1>0 DEF RelayTypes
  <1>8. CASE UNCHANGED vars
    BY <1>8, <1>0 DEF vars, RelayTypes
  <1> QED BY <1>1, <1>2, <1>3, <1>4, <1>5, <1>6, <1>7, <1>8 DEF Next, Gui

\* The thread of the GUI process and its bounds keep their types.
LEMMA ThreadTyped == TypeOK /\ AfterInv /\ [Next]_vars => ThreadTypes'
  <1> SUFFICES ASSUME TypeOK, AfterInv, [Next]_vars PROVE ThreadTypes'
    OBVIOUS
  <1> USE DEF guiVars, offVars, relayVars, userVars, envVars, fileVars, None
  <1>0. /\ ThreadTypes /\ relay.inst \in 0..MaxInst /\ session.source \in 0..MaxInst
        /\ MaxInst \in Nat /\ MaxRuns \in Nat \ {0} /\ MaxOps \in Nat
    BY BoundsAssumption DEF ThreadTypes, TypeOK, Instances, Session
  <1>1. CASE Relay
    BY <1>1, Frames, <1>0 DEF ThreadTypes
  <1>2. CASE Update
    BY <1>2, Frames, <1>0 DEF ThreadTypes
  <1>3. CASE Stop
    <2>1. CASE Checkpoint \/ WaitUpdate \/ Prepare \/ CommitRoute \/ SendDrain
      BY <2>1, <1>0 DEF Checkpoint, Raise, localVars, WaitUpdate, Prepare, CommitRoute, SendDrain,
            ThreadTypes
    <2>2. CASE StopFails
      BY <2>2, <1>0 DEF StopFails, localVars, ThreadTypes
    <2>3. CASE Capture
      BY <2>3, <1>0 DEF Capture, Answers, ThreadTypes
    <2>4. CASE Decide
      BY <2>4, <1>0 DEF Decide, GoCommit, stopped, released, ThreadTypes
    <2>5. CASE Drain
      BY <2>5, <1>0 DEF Drain, GoCommit, stopped, released, Answers, ThreadTypes
    <2>6. CASE Commit
      BY <2>6, <1>0 DEF Commit, Raise, localVars, ThreadTypes
    <2>7. CASE CommitObs
      BY <2>7, <1>0 DEF CommitObs, localVars, AfterInv, ThreadTypes
    <2>8. CASE Watch
      BY <2>8, <1>0 DEF Watch, stopped, released, Answers, ThreadTypes
    <2>9. CASE SaveRead
      BY <2>9, <1>0 DEF SaveRead, ThreadTypes
    <2>10. CASE SaveIncomplete
      BY <2>10, <1>0 DEF SaveIncomplete, GoCommit, ThreadTypes
    <2>11. CASE SaveStopped
      BY <2>11, <1>0 DEF SaveStopped, ThreadTypes
    <2>12. ASSUME NEW ok \in BOOLEAN, Collect(ok) PROVE ThreadTypes'
      BY <2>12, <1>0 DEF Collect, Return, Gone, ThreadTypes
    <2>13. CASE Except
      BY <2>13, <1>0 DEF Except, Return, Gone, ThreadTypes
    <2> QED BY <1>3, <2>1, <2>2, <2>3, <2>4, <2>5, <2>6, <2>7, <2>8, <2>9, <2>10, <2>11, <2>12,
           <2>13 DEF Stop
  <1>4. CASE Resume
    <2>1. CASE ResumeRead \/ ResumeState \/ ResumeStart \/ ResumeVerify \/ ResumeRoute \/ ResumeObs
      BY <2>1, <1>0 DEF ResumeRead, ResumeState, localVars, ResumeStart, ResumeVerify, ResumeRoute,
            ResumeObs, ThreadTypes
    <2>2. CASE ResumePrep
      BY <2>2, <1>0 DEF ResumePrep, Return, Gone, Begin, OwnerAlive, ThreadTypes
    <2>3. CASE ResumeLock
      BY <2>3, <1>0 DEF ResumeLock, Return, Gone, localVars, mayResume, stopped, released,
            ThreadTypes
    <2>4. CASE ResumeActive
      BY <2>4, <1>0 DEF ResumeActive, Return, Gone, ThreadTypes
    <2>5. CASE ResumeFails
      BY <2>5, <1>0 DEF ResumeFails, Return, Gone, ThreadTypes
    <2> QED BY <1>4, <2>1, <2>2, <2>3, <2>4, <2>5 DEF Resume
  <1>5. CASE GuiStart \/ GuiCrash \/ GuiObserve \/ GuiAttach \/ ExitRequest \/ ResumeCall
    <2>1. CASE GuiAttach
      BY <2>1, <1>0 DEF GuiAttach, ThreadTypes
    <2>2. CASE GuiStart
      BY <2>2, <1>0 DEF GuiStart, Gone, ThreadTypes
    <2>3. CASE GuiCrash
      BY <2>3, <1>0 DEF GuiCrash, Gone, ThreadTypes
    <2>4. CASE GuiObserve
      BY <2>4, <1>0 DEF GuiObserve, Answers, ThreadTypes
    <2>5. CASE ExitRequest
      BY <2>5, <1>0 DEF ExitRequest, Begin, ThreadTypes
    <2>6. CASE ResumeCall
      BY <2>6, <1>0 DEF ResumeCall, Begin, suspended, ThreadTypes
    <2> QED BY <1>5, <2>1, <2>2, <2>3, <2>4, <2>5, <2>6
  <1>6. CASE User
    BY <1>6, Frames, <1>0 DEF ThreadTypes
  <1>7. CASE Off
    BY <1>7, Frames, <1>0 DEF ThreadTypes
  <1>8. CASE UNCHANGED vars
    BY <1>8, <1>0 DEF vars, ThreadTypes
  <1> QED BY <1>1, <1>2, <1>3, <1>4, <1>5, <1>6, <1>7, <1>8 DEF Next, Gui

\* The switches the actors share keep their types.
LEMMA SwitchTyped == TypeOK /\ [Next]_vars => SwitchTypes'
  <1> SUFFICES ASSUME TypeOK, [Next]_vars PROVE SwitchTypes'
    OBVIOUS
  <1> USE DEF guiVars, offVars, relayVars, userVars, envVars, fileVars, Event
  <1>0. SwitchTypes /\ MaxEvents \in Nat
    BY BoundsAssumption DEF SwitchTypes, TypeOK
  <1>1. CASE Relay
    <2>1. CASE RelayBoot \/ RelayWork \/ RelayBlur \/ RelayDone \/ ClientCloses \/ RelayNotice \/ RelayExpire \/ RelayForce \/
            RelayStop \/ (\E ok \in BOOLEAN : RelayExit(ok))
      BY <2>1, <1>0
         DEF RelayBoot, RelayWork, RelayBlur, RelayDone, ClientCloses, RelayNotice, RelayExpire,
             RelayForce, RelayStop, RelayExit, SwitchTypes
    <2>2. CASE RelayCrash
      BY <2>2, <1>0 DEF RelayCrash, SwitchTypes
    <2> QED BY <1>1, <2>1, <2>2 DEF Relay
  <1>2. CASE Update
    <2>1. CASE UpdateCutover
      BY <2>1, <1>0 DEF UpdateCutover, enabled, suspended, SwitchTypes
    <2>2. CASE UpdateSettle
      BY <2>2, <1>0 DEF UpdateSettle, SwitchTypes
    <2> QED BY <1>2, <2>1, <2>2 DEF Update
  <1>3. CASE Stop
    <2>1. CASE Checkpoint \/ WaitUpdate \/ Prepare \/ Capture \/ Decide \/ Drain \/ SendDrain \/
            Watch \/ SaveRead \/ SaveIncomplete \/ SaveStopped \/ (\E ok \in BOOLEAN : Collect(ok))
            \/ Except
      BY <2>1, <1>0 DEF Checkpoint, Raise, localVars, WaitUpdate, Prepare, Capture, Decide, Drain,
            SendDrain, Watch, SaveRead, SaveIncomplete, SaveStopped, Collect, Except, SwitchTypes
    <2>2. CASE StopFails
      BY <2>2, <1>0 DEF StopFails, localVars, SwitchTypes
    <2>3. CASE Commit
      BY <2>3, <1>0 DEF Commit, Raise, localVars, SwitchTypes
    <2>4. CASE CommitRoute
      BY <2>4, <1>0 DEF CommitRoute, localVars, SwitchTypes
    <2>5. CASE CommitObs
      BY <2>5, <1>0 DEF CommitObs, localVars, SwitchTypes
    <2> QED BY <1>3, <2>1, <2>2, <2>3, <2>4, <2>5 DEF Stop
  <1>4. CASE Resume
    <2>1. CASE ResumePrep \/ ResumeRead \/ ResumeState \/ ResumeStart \/ ResumeVerify \/ ResumeRoute
            \/ ResumeObs \/ ResumeActive \/ ResumeFails
      BY <2>1, <1>0 DEF ResumePrep, Begin, ResumeRead, ResumeState, localVars, ResumeStart,
            ResumeVerify, ResumeRoute, ResumeObs, ResumeActive, ResumeFails, SwitchTypes
    <2>2. CASE ResumeLock
      BY <2>2, <1>0 DEF ResumeLock, Return, Gone, localVars, mayResume, stopped, released,
            SwitchTypes
    <2> QED BY <1>4, <2>1, <2>2 DEF Resume
  <1>5. CASE GuiStart \/ GuiCrash \/ GuiObserve \/ GuiAttach \/ ExitRequest \/ ResumeCall
    <2>1. CASE GuiStart \/ GuiObserve \/ GuiAttach \/ ExitRequest \/ ResumeCall
      BY <2>1, <1>0 DEF GuiStart, GuiObserve, GuiAttach, ExitRequest, Begin, ResumeCall, SwitchTypes
    <2>2. CASE GuiCrash
      BY <2>2, <1>0 DEF GuiCrash, Gone, SwitchTypes
    <2> QED BY <1>5, <2>1, <2>2
  <1>6. CASE User
    <2>1. CASE CancelRequest \/ ForceRequest
      BY <2>1, <1>0 DEF CancelRequest, ForceRequest, SwitchTypes
    <2>2. CASE UserEdit
      BY <2>2, <1>0 DEF UserEdit, SwitchTypes
    <2> QED BY <1>6, <2>1, <2>2 DEF User
  <1>7. CASE Off
    <2>1. ASSUME NEW kind \in {"turn_off", "restore"}, OffStart(kind) PROVE SwitchTypes'
      BY <2>1, <1>0 DEF OffStart, OwnerAlive, SwitchTypes
    <2>2. CASE OffRoute
      BY <2>2, <1>0 DEF OffRoute, SwitchTypes
    <2>3. CASE OffObs
      BY <2>3, <1>0 DEF OffObs, SwitchTypes
    <2> QED BY <1>7, <2>1, <2>2, <2>3 DEF Off
  <1>8. CASE UNCHANGED vars
    BY <1>8, <1>0 DEF vars, SwitchTypes
  <1> QED BY <1>1, <1>2, <1>3, <1>4, <1>5, <1>6, <1>7, <1>8 DEF Next, Gui

\* What is left of the locals of a call that returned.
LEMMA GoneLocals ==
    Gone => /\ mode' = "exit" /\ forceSent' = FALSE /\ conf' = FALSE
            /\ ctl' \in [committed: BOOLEAN, cancelled: BOOLEAN, forced: BOOLEAN]
  BY DEF Gone, FreshCtl

\* The locals of the GUI process keep their types.
LEMMA LocalTyped == TypeOK /\ [Next]_vars => LocalTypes'
  <1> SUFFICES ASSUME TypeOK, [Next]_vars PROVE LocalTypes'
    OBVIOUS
  <1> USE DEF guiVars, offVars, relayVars, userVars, envVars, fileVars, FreshCtl
  <1>0. LocalTypes
    BY DEF LocalTypes, TypeOK
  <1>1. CASE Relay
    BY <1>1, Frames, <1>0 DEF LocalTypes
  <1>2. CASE Update
    BY <1>2, Frames, <1>0 DEF LocalTypes
  <1>3. CASE Stop
    <2>1. CASE WaitUpdate \/ Decide \/ CommitRoute \/ CommitObs \/ SendDrain \/ SaveRead \/
            SaveIncomplete
      BY <2>1, <1>0 DEF WaitUpdate, localVars, Decide, CommitRoute, CommitObs, SendDrain, SaveRead,
            SaveIncomplete, LocalTypes
    <2>2. CASE Checkpoint
      BY <2>2, <1>0 DEF Checkpoint, Raise, localVars, LocalTypes
    <2>3. CASE StopFails
      BY <2>3, <1>0 DEF StopFails, localVars, LocalTypes
    <2>4. CASE Prepare
      BY <2>4, <1>0 DEF Prepare, Raise, localVars, OwnerAlive, LocalTypes
    <2>5. CASE Capture
      BY <2>5, <1>0 DEF Capture, Answers, LocalTypes
    <2>6. CASE Drain
      BY <2>6, <1>0 DEF Drain, GoCommit, stopped, released, Answers, LocalTypes
    <2>7. CASE Commit
      BY <2>7, <1>0 DEF Commit, Raise, localVars, LocalTypes
    <2>8. CASE Watch
      BY <2>8, <1>0 DEF Watch, stopped, released, Answers, LocalTypes
    <2>9. CASE SaveStopped
      BY <2>9, <1>0 DEF SaveStopped, LocalTypes
    <2>10. ASSUME NEW ok \in BOOLEAN, Collect(ok) PROVE LocalTypes'
      <3>1. CASE ok
        BY <2>10, <3>1, <1>0 DEF Collect, LocalTypes
      <3>2. CASE ~ok
        BY <2>10, <3>2, <1>0, GoneLocals DEF Collect, Return, LocalTypes
      <3> QED BY <3>1, <3>2
    <2>11. CASE Except
      BY <2>11, <1>0 DEF Except, Return, Gone, LocalTypes
    <2> QED BY <1>3, <2>1, <2>2, <2>3, <2>4, <2>5, <2>6, <2>7, <2>8, <2>9, <2>10, <2>11 DEF Stop
  <1>4. CASE Resume
    <2>1. CASE ResumeRead \/ ResumeState \/ ResumeStart \/ ResumeVerify \/ ResumeRoute \/ ResumeObs
      BY <2>1, <1>0 DEF ResumeRead, ResumeState, localVars, ResumeStart, ResumeVerify, ResumeRoute,
            ResumeObs, LocalTypes
    <2>2. CASE ResumePrep
      <3>1. CASE Return
        BY <3>1, <1>0, GoneLocals DEF Return, LocalTypes
      <3>2. CASE ~Return
        BY <2>2, <3>2, <1>0 DEF ResumePrep, Begin, LocalTypes
      <3> QED BY <3>1, <3>2
    <2>3. CASE ResumeLock
      <3>1. CASE Return
        BY <3>1, <1>0, GoneLocals DEF Return, LocalTypes
      <3>2. CASE ~Return
        BY <2>3, <3>2, <1>0 DEF ResumeLock, localVars, LocalTypes
      <3> QED BY <3>1, <3>2
    <2>4. CASE ResumeActive
      BY <2>4, <1>0 DEF ResumeActive, Return, Gone, LocalTypes
    <2>5. CASE ResumeFails
      BY <2>5, <1>0 DEF ResumeFails, Return, Gone, LocalTypes
    <2> QED BY <1>4, <2>1, <2>2, <2>3, <2>4, <2>5 DEF Resume
  <1>5. CASE GuiStart \/ GuiCrash \/ GuiObserve \/ GuiAttach \/ ExitRequest \/ ResumeCall
    <2>1. CASE GuiObserve \/ GuiAttach
      BY <2>1, <1>0 DEF GuiObserve, GuiAttach, LocalTypes
    <2>2. CASE GuiStart
      BY <2>2, <1>0 DEF GuiStart, Gone, LocalTypes
    <2>3. CASE GuiCrash
      BY <2>3, <1>0 DEF GuiCrash, Gone, LocalTypes
    <2>4. CASE ExitRequest
      BY <2>4, <1>0 DEF ExitRequest, Begin, LocalTypes
    <2>5. CASE ResumeCall
      BY <2>5, <1>0 DEF ResumeCall, Begin, suspended, LocalTypes
    <2> QED BY <1>5, <2>1, <2>2, <2>3, <2>4, <2>5
  <1>6. CASE User
    <2>1. CASE UserEdit
      BY <2>1, <1>0 DEF UserEdit, LocalTypes
    <2>2. CASE CancelRequest
      BY <2>2, <1>0 DEF CancelRequest, LocalTypes
    <2>3. CASE ForceRequest
      BY <2>3, <1>0 DEF ForceRequest, LocalTypes
    <2> QED BY <1>6, <2>1, <2>2, <2>3 DEF User
  <1>7. CASE Off
    BY <1>7, Frames, <1>0 DEF LocalTypes
  <1>8. CASE UNCHANGED vars
    BY <1>8, <1>0 DEF vars, LocalTypes
  <1> QED BY <1>1, <1>2, <1>3, <1>4, <1>5, <1>6, <1>7, <1>8 DEF Next, Gui

\* Every step keeps the types.
LEMMA TypeStep == TypeOK /\ AfterInv /\ [Next]_vars => TypeOK'
  BY JournalTyped, RelayTyped, ThreadTyped, SwitchTyped, LocalTyped
     DEF TypeOK, JournalTypes, RelayTypes, ThreadTypes, SwitchTypes, LocalTypes

----------------------------------------------------------------------------
(* The lock, the operation ids and the cutover                             *)

\* proxy-control.lock is held at the lines inside the two locked regions of
\* the GUI and during recover_direct, and nowhere else.
LEMMA LockStep == TypeOK /\ LockInv /\ [Next]_vars => LockInv'
  <1> SUFFICES ASSUME TypeOK, LockInv, [Next]_vars PROVE LockInv'
    OBVIOUS
  <1> USE DEF guiVars, offVars, relayVars, userVars, envVars, fileVars, Restoring
  <1>0. LockInv /\ after \in {"none", "sendDrain", "saveIncomplete", "saveStopped"}
    BY DEF TypeOK
  <1>1. CASE Relay
    BY <1>1, Frames, <1>0 DEF LockInv
  <1>2. CASE Update
    BY <1>2, Frames, <1>0 DEF LockInv
  <1>3. CASE Stop
    <2>1. CASE Checkpoint \/ WaitUpdate \/ CommitRoute \/ SendDrain
      BY <2>1, <1>0 DEF Checkpoint, Raise, localVars, WaitUpdate, CommitRoute, SendDrain, LockInv
    <2>2. CASE StopFails
      BY <2>2, <1>0 DEF StopFails, localVars, LockInv
    <2>3. CASE Prepare
      <3>1. UNCHANGED <<lock, off, alive>> /\ pc = "prepare" /\ pc' \in {"except", "capture"}
        BY <2>3 DEF Prepare, Raise, localVars
      <3> QED BY <3>1, <1>0 DEF LockInv
    <2>4. CASE Capture
      BY <2>4, <1>0 DEF Capture, Answers, LockInv
    <2>5. CASE Decide
      BY <2>5, <1>0 DEF Decide, GoCommit, stopped, released, LockInv
    <2>6. CASE Drain
      BY <2>6, <1>0 DEF Drain, GoCommit, stopped, released, Answers, LockInv
    <2>7. CASE Commit
      BY <2>7, <1>0 DEF Commit, Raise, localVars, LockInv
    <2>8. CASE CommitObs
      BY <2>8, <1>0 DEF CommitObs, localVars, LockInv
    <2>9. CASE Watch
      BY <2>9, <1>0 DEF Watch, stopped, released, Answers, LockInv
    <2>10. CASE SaveRead
      BY <2>10, <1>0 DEF SaveRead, LockInv
    <2>11. CASE SaveIncomplete
      BY <2>11, <1>0 DEF SaveIncomplete, GoCommit, LockInv
    <2>12. CASE SaveStopped
      BY <2>12, <1>0 DEF SaveStopped, LockInv
    <2>13. ASSUME NEW ok \in BOOLEAN, Collect(ok) PROVE LockInv'
      BY <2>13, <1>0 DEF Collect, Return, Gone, LockInv
    <2>14. CASE Except
      BY <2>14, <1>0 DEF Except, Return, Gone, LockInv
    <2> QED BY <1>3, <2>1, <2>2, <2>3, <2>4, <2>5, <2>6, <2>7, <2>8, <2>9, <2>10, <2>11, <2>12,
           <2>13, <2>14 DEF Stop
  <1>4. CASE Resume
    <2>1. CASE ResumeRead \/ ResumeState \/ ResumeStart \/ ResumeVerify \/ ResumeRoute \/ ResumeObs
      BY <2>1, <1>0 DEF ResumeRead, ResumeState, localVars, ResumeStart, ResumeVerify, ResumeRoute,
            ResumeObs, LockInv
    <2>2. CASE ResumePrep
      BY <2>2, <1>0 DEF ResumePrep, Return, Gone, Begin, OwnerAlive, LockInv
    <2>3. CASE ResumeLock
      BY <2>3, <1>0 DEF ResumeLock, Return, Gone, localVars, mayResume, stopped, released, LockInv
    <2>4. CASE ResumeActive
      BY <2>4, <1>0 DEF ResumeActive, Return, Gone, LockInv
    <2>5. CASE ResumeFails
      BY <2>5, <1>0 DEF ResumeFails, Return, Gone, LockInv
    <2> QED BY <1>4, <2>1, <2>2, <2>3, <2>4, <2>5 DEF Resume
  <1>5. CASE GuiStart \/ GuiCrash \/ GuiObserve \/ GuiAttach \/ ExitRequest \/ ResumeCall
    <2>1. CASE GuiObserve \/ GuiAttach \/ ExitRequest
      BY <2>1, <1>0 DEF GuiObserve, GuiAttach, ExitRequest, Begin, LockInv
    <2>2. CASE GuiStart
      BY <2>2, <1>0 DEF GuiStart, Gone, LockInv
    <2>3. CASE GuiCrash
      BY <2>3, <1>0 DEF GuiCrash, Gone, LockInv
    <2>4. CASE ResumeCall
      BY <2>4, <1>0 DEF ResumeCall, Begin, suspended, LockInv
    <2> QED BY <1>5, <2>1, <2>2, <2>3, <2>4
  <1>6. CASE User
    BY <1>6, Frames, <1>0 DEF LockInv
  <1>7. CASE Off
    <2>1. ASSUME NEW kind \in {"turn_off", "restore"}, OffStart(kind) PROVE LockInv'
      BY <2>1, <1>0 DEF OffStart, OwnerAlive, LockInv
    <2>2. CASE OffRoute
      BY <2>2, <1>0 DEF OffRoute, LockInv
    <2>3. CASE OffObs
      BY <2>3, <1>0 DEF OffObs, LockInv
    <2> QED BY <1>7, <2>1, <2>2, <2>3 DEF Off
  <1>8. CASE UNCHANGED vars
    BY <1>8, <1>0 DEF vars, LockInv
  <1> QED BY <1>1, <1>2, <1>3, <1>4, <1>5, <1>6, <1>7, <1>8 DEF Next, Gui

\* commit_route is entered with what follows it.
LEMMA AfterStep == TypeOK /\ AfterInv /\ [Next]_vars => AfterInv'
  <1> SUFFICES ASSUME TypeOK, AfterInv, [Next]_vars PROVE AfterInv'
    OBVIOUS
  <1> USE DEF guiVars, offVars, relayVars, userVars, envVars, fileVars
  <1>0. AfterInv /\ after \in {"none", "sendDrain", "saveIncomplete", "saveStopped"}
    BY DEF TypeOK
  <1>1. CASE Relay
    BY <1>1, Frames, <1>0 DEF AfterInv
  <1>2. CASE Update
    BY <1>2, Frames, <1>0 DEF AfterInv
  <1>3. CASE Stop
    <2>1. CASE Checkpoint \/ StopFails \/ WaitUpdate \/ CommitRoute \/ SendDrain
      BY <2>1, <1>0 DEF Checkpoint, Raise, localVars, StopFails, WaitUpdate, CommitRoute, SendDrain,
            AfterInv
    <2>2. CASE Prepare
      BY <2>2, <1>0 DEF Prepare, Raise, localVars, OwnerAlive, AfterInv
    <2>3. CASE Capture
      BY <2>3, <1>0 DEF Capture, Answers, AfterInv
    <2>4. CASE Decide
      BY <2>4, <1>0 DEF Decide, GoCommit, stopped, released, AfterInv
    <2>5. CASE Drain
      BY <2>5, <1>0 DEF Drain, GoCommit, stopped, released, Answers, AfterInv
    <2>6. CASE Commit
      BY <2>6, <1>0 DEF Commit, Raise, localVars, AfterInv
    <2>7. CASE CommitObs
      BY <2>7, <1>0 DEF CommitObs, localVars, AfterInv
    <2>8. CASE Watch
      BY <2>8, <1>0 DEF Watch, stopped, released, Answers, AfterInv
    <2>9. CASE SaveRead
      BY <2>9, <1>0 DEF SaveRead, AfterInv
    <2>10. CASE SaveIncomplete
      BY <2>10, <1>0 DEF SaveIncomplete, GoCommit, AfterInv
    <2>11. CASE SaveStopped
      BY <2>11, <1>0 DEF SaveStopped, AfterInv
    <2>12. ASSUME NEW ok \in BOOLEAN, Collect(ok) PROVE AfterInv'
      BY <2>12, <1>0 DEF Collect, Return, Gone, AfterInv
    <2>13. CASE Except
      BY <2>13, <1>0 DEF Except, Return, Gone, AfterInv
    <2> QED BY <1>3, <2>1, <2>2, <2>3, <2>4, <2>5, <2>6, <2>7, <2>8, <2>9, <2>10, <2>11, <2>12,
           <2>13 DEF Stop
  <1>4. CASE Resume
    <2>1. CASE ResumeRead \/ ResumeState \/ ResumeStart \/ ResumeVerify \/ ResumeRoute \/ ResumeObs
      BY <2>1, <1>0 DEF ResumeRead, ResumeState, localVars, ResumeStart, ResumeVerify, ResumeRoute,
            ResumeObs, AfterInv
    <2>2. CASE ResumePrep
      BY <2>2, <1>0 DEF ResumePrep, Return, Gone, Begin, OwnerAlive, AfterInv
    <2>3. CASE ResumeLock
      BY <2>3, <1>0 DEF ResumeLock, Return, Gone, localVars, mayResume, stopped, released, AfterInv
    <2>4. CASE ResumeActive
      BY <2>4, <1>0 DEF ResumeActive, Return, Gone, AfterInv
    <2>5. CASE ResumeFails
      BY <2>5, <1>0 DEF ResumeFails, Return, Gone, AfterInv
    <2> QED BY <1>4, <2>1, <2>2, <2>3, <2>4, <2>5 DEF Resume
  <1>5. CASE GuiStart \/ GuiCrash \/ GuiObserve \/ GuiAttach \/ ExitRequest \/ ResumeCall
    <2>1. CASE GuiObserve \/ GuiAttach \/ ExitRequest
      BY <2>1, <1>0 DEF GuiObserve, GuiAttach, ExitRequest, Begin, AfterInv
    <2>2. CASE GuiStart
      BY <2>2, <1>0 DEF GuiStart, Gone, AfterInv
    <2>3. CASE GuiCrash
      BY <2>3, <1>0 DEF GuiCrash, Gone, AfterInv
    <2>4. CASE ResumeCall
      BY <2>4, <1>0 DEF ResumeCall, Begin, suspended, AfterInv
    <2> QED BY <1>5, <2>1, <2>2, <2>3, <2>4
  <1>6. CASE User
    BY <1>6, Frames, <1>0 DEF AfterInv
  <1>7. CASE Off
    BY <1>7, Frames, <1>0 DEF AfterInv
  <1>8. CASE UNCHANGED vars
    BY <1>8, <1>0 DEF vars, AfterInv
  <1> QED BY <1>1, <1>2, <1>3, <1>4, <1>5, <1>6, <1>7, <1>8 DEF Next, Gui

\* The ids of the operations are used once, each by the process that drew it.
LEMMA OpStep == TypeOK /\ OpInv /\ [Next]_vars => OpInv'
  <1> SUFFICES ASSUME TypeOK, OpInv, [Next]_vars PROVE OpInv'
    OBVIOUS
  <1> USE DEF guiVars, offVars, relayVars, userVars, envVars, fileVars, Prepared, FreshSession,
       None, Session
  <1>0. OpInv /\ session.op \in Nat /\ data.op \in Nat /\ ops \in Nat
        /\ session \in Session /\ data \in Session
        /\ after \in {"none", "sendDrain", "saveIncomplete", "saveStopped"}
    BY DEF TypeOK, Session
  <1>1. CASE Relay
    BY <1>1, Frames, <1>0 DEF OpInv
  <1>2. CASE Update
    BY <1>2, Frames, <1>0 DEF OpInv
  <1>3. CASE Stop
    <2>1. CASE Checkpoint \/ StopFails \/ WaitUpdate \/ CommitRoute \/ SendDrain
      BY <2>1, <1>0 DEF Checkpoint, Raise, localVars, StopFails, WaitUpdate, CommitRoute, SendDrain,
            OpInv
    <2>2. CASE Prepare
      <3>1. CASE Raise("failed")
        BY <3>1, <1>0 DEF Raise, localVars, OpInv
      <3>2. CASE ~Raise("failed")
        <4>1. /\ UNCHANGED <<ops, run, data>> /\ pc = "prepare" /\ pc' = "capture"
              /\ session'.op = ops /\ session'.owner = run
          BY <2>2, <3>2, <1>0 DEF Prepare
        <4> QED BY <4>1, <1>0 DEF OpInv
      <3> QED BY <3>1, <3>2
    <2>3. CASE Capture
      BY <2>3, <1>0 DEF Capture, Answers, OpInv
    <2>4. CASE Decide
      BY <2>4, <1>0 DEF Decide, GoCommit, stopped, released, OpInv
    <2>5. CASE Drain
      BY <2>5, <1>0 DEF Drain, GoCommit, stopped, released, Answers, OpInv
    <2>6. CASE Commit
      BY <2>6, <1>0 DEF Commit, Raise, localVars, OpInv
    <2>7. CASE CommitObs
      BY <2>7, <1>0 DEF CommitObs, localVars, OpInv
    <2>8. CASE Watch
      BY <2>8, <1>0 DEF Watch, stopped, released, Answers, OpInv
    <2>9. CASE SaveRead
      BY <2>9, <1>0 DEF SaveRead, OpInv
    <2>10. CASE SaveIncomplete
      <3>1. /\ UNCHANGED <<ops, run>> /\ pc = "writeIncomplete" /\ pc' \in {"saveStopped", "commit"}
            /\ session'.op = data.op /\ session'.owner = data.owner /\ data' = FreshSession
        BY <2>10, <1>0 DEF SaveIncomplete, GoCommit
      <3> QED BY <3>1, <1>0 DEF OpInv
    <2>11. CASE SaveStopped
      BY <2>11, <1>0 DEF SaveStopped, OpInv
    <2>12. ASSUME NEW ok \in BOOLEAN, Collect(ok) PROVE OpInv'
      BY <2>12, <1>0 DEF Collect, Return, Gone, OpInv
    <2>13. CASE Except
      BY <2>13, <1>0 DEF Except, Return, Gone, OpInv
    <2> QED BY <1>3, <2>1, <2>2, <2>3, <2>4, <2>5, <2>6, <2>7, <2>8, <2>9, <2>10, <2>11, <2>12,
           <2>13 DEF Stop
  <1>4. CASE Resume
    <2>1. CASE ResumeState \/ ResumeStart \/ ResumeVerify \/ ResumeRoute \/ ResumeObs
      BY <2>1, <1>0 DEF ResumeState, localVars, ResumeStart, ResumeVerify, ResumeRoute, ResumeObs,
            OpInv
    <2>2. CASE ResumePrep
      <3>1. session'.op = session.op
        BY <2>2, <1>0 DEF ResumePrep
      <3>2. CASE Return
        BY <2>2, <3>1, <3>2, <1>0 DEF Return, Gone, OpInv
      <3>3. CASE ~Return
        <4>1. /\ data' = session' /\ UNCHANGED run
              /\ \/ pc' = "waitUpdate" /\ ops' = ops + 1
                 \/ pc' = "resumeLock" /\ ops' = ops
          BY <2>2, <3>3 DEF ResumePrep, Begin
        <4> QED BY <4>1, <3>1, <1>0 DEF OpInv
      <3> QED BY <3>2, <3>3
    <2>3. CASE ResumeRead
      BY <2>3, <1>0 DEF ResumeRead, OpInv
    <2>4. CASE ResumeLock
      <3>1. session'.op = session.op /\ UNCHANGED ops
        BY <2>4, <1>0 DEF ResumeLock, Return, localVars
      <3>2. data' \in {data, FreshSession} /\ pc' \in {"running", "resumeState"}
        BY <2>4 DEF ResumeLock, Return, Gone, localVars
      <3> QED BY <3>1, <3>2, <1>0 DEF OpInv
    <2>5. CASE ResumeActive
      BY <2>5, <1>0 DEF ResumeActive, Return, Gone, OpInv
    <2>6. CASE ResumeFails
      BY <2>6, <1>0 DEF ResumeFails, Return, Gone, OpInv
    <2> QED BY <1>4, <2>1, <2>2, <2>3, <2>4, <2>5, <2>6 DEF Resume
  <1>5. CASE GuiStart \/ GuiCrash \/ GuiObserve \/ GuiAttach \/ ExitRequest \/ ResumeCall
    <2>1. CASE GuiObserve \/ GuiAttach
      BY <2>1, <1>0 DEF GuiObserve, GuiAttach, OpInv
    <2>2. CASE GuiStart
      BY <2>2, <1>0 DEF GuiStart, Gone, OpInv
    <2>3. CASE GuiCrash
      BY <2>3, <1>0 DEF GuiCrash, Gone, OpInv
    <2>4. CASE ExitRequest
      BY <2>4, <1>0 DEF ExitRequest, Begin, OpInv
    <2>5. CASE ResumeCall
      BY <2>5, <1>0 DEF ResumeCall, Begin, suspended, OpInv
    <2> QED BY <1>5, <2>1, <2>2, <2>3, <2>4, <2>5
  <1>6. CASE User
    BY <1>6, Frames, <1>0 DEF OpInv
  <1>7. CASE Off
    <2>1. CASE OffRoute
      BY <2>1, <1>0 DEF OffRoute, OpInv
    <2>2. ASSUME NEW kind \in {"turn_off", "restore"}, OffStart(kind) PROVE OpInv'
      BY <2>2, <1>0 DEF OffStart, OwnerAlive, OpInv
    <2>3. CASE OffObs
      BY <2>3, <1>0 DEF OffObs, OpInv
    <2> QED BY <1>7, <2>1, <2>2, <2>3 DEF Off
  <1>8. CASE UNCHANGED vars
    BY <1>8, <1>0 DEF vars, OpInv
  <1> QED BY <1>1, <1>2, <1>3, <1>4, <1>5, <1>6, <1>7, <1>8 DEF Next, Gui

\* While an exit is past its decision, neither a restore nor its own journal
\* gives the route away.
LEMMA ClosedStep == TypeOK /\ LockInv /\ OpInv /\ ClosedInv /\ [Next]_vars => ClosedInv'
  <1> SUFFICES ASSUME TypeOK, LockInv, OpInv, ClosedInv, [Next]_vars PROVE ClosedInv'
    OBVIOUS
  <1> USE DEF guiVars, offVars, relayVars, userVars, envVars, fileVars, Committed
  <1>0. /\ ClosedInv /\ session \in Session
        /\ after \in {"none", "sendDrain", "saveIncomplete", "saveStopped"}
    BY DEF TypeOK
  <1>1. CASE Relay
    BY <1>1, Frames, <1>0 DEF ClosedInv
  <1>2. CASE Update
    BY <1>2, Frames, <1>0 DEF ClosedInv
  <1>3. CASE Stop
    <2>1. CASE Checkpoint \/ StopFails \/ WaitUpdate \/ CommitRoute \/ SendDrain
      BY <2>1, <1>0 DEF Checkpoint, Raise, localVars, StopFails, WaitUpdate, CommitRoute, SendDrain,
            ClosedInv
    <2>2. CASE Prepare
      BY <2>2, <1>0 DEF Prepare, Raise, localVars, OwnerAlive, ClosedInv
    <2>3. CASE Capture
      BY <2>3, <1>0 DEF Capture, Answers, ClosedInv
    <2>4. CASE Decide
      BY <2>4, <1>0 DEF Decide, GoCommit, stopped, released, ClosedInv
    <2>5. CASE Drain
      BY <2>5, <1>0 DEF Drain, GoCommit, stopped, released, Answers, ClosedInv
    <2>6. CASE Commit
      <3>1. CASE Raise("failed")
        BY <3>1 DEF Raise, ClosedInv
      <3>2. CASE ~Raise("failed")
        <4>1. /\ session' = [session EXCEPT !.phase = "closing", !.committed = TRUE]
              /\ pc = "commit" /\ lock = "free" /\ session.op = ops /\ UNCHANGED <<run, off>>
          BY <2>6, <3>2 DEF Commit
        <4>2. session'.phase = "closing" /\ session'.owner = session.owner
          BY <4>1, <1>0 DEF Session
        <4>3. session.owner = run /\ off = "idle"
          BY <4>1 DEF OpInv, Prepared, LockInv
        <4> QED BY <4>1, <4>2, <4>3 DEF ClosedInv
      <3> QED BY <3>1, <3>2
    <2>7. CASE CommitObs
      BY <2>7, <1>0 DEF CommitObs, localVars, ClosedInv
    <2>8. CASE Watch
      BY <2>8, <1>0 DEF Watch, stopped, released, Answers, ClosedInv
    <2>9. CASE SaveRead
      BY <2>9, <1>0 DEF SaveRead, ClosedInv
    <2>10. CASE SaveIncomplete
      BY <2>10, <1>0 DEF SaveIncomplete, GoCommit, ClosedInv
    <2>11. CASE SaveStopped
      BY <2>11, <1>0 DEF SaveStopped, ClosedInv
    <2>12. ASSUME NEW ok \in BOOLEAN, Collect(ok) PROVE ClosedInv'
      BY <2>12, <1>0 DEF Collect, Return, Gone, ClosedInv
    <2>13. CASE Except
      BY <2>13, <1>0 DEF Except, Return, Gone, ClosedInv
    <2> QED BY <1>3, <2>1, <2>2, <2>3, <2>4, <2>5, <2>6, <2>7, <2>8, <2>9, <2>10, <2>11, <2>12,
           <2>13 DEF Stop
  <1>4. CASE Resume
    <2>1. CASE ResumeRead \/ ResumeState \/ ResumeStart \/ ResumeVerify \/ ResumeRoute \/ ResumeObs
      BY <2>1, <1>0 DEF ResumeRead, ResumeState, localVars, ResumeStart, ResumeVerify, ResumeRoute,
            ResumeObs, ClosedInv
    <2>2. CASE ResumePrep
      BY <2>2, <1>0 DEF ResumePrep, Return, Gone, Begin, OwnerAlive, ClosedInv
    <2>3. CASE ResumeLock
      BY <2>3, <1>0 DEF ResumeLock, Return, Gone, localVars, mayResume, stopped, released, ClosedInv
    <2>4. CASE ResumeActive
      BY <2>4, <1>0 DEF ResumeActive, Return, Gone, ClosedInv
    <2>5. CASE ResumeFails
      BY <2>5, <1>0 DEF ResumeFails, Return, Gone, ClosedInv
    <2> QED BY <1>4, <2>1, <2>2, <2>3, <2>4, <2>5 DEF Resume
  <1>5. CASE GuiStart \/ GuiCrash \/ GuiObserve \/ GuiAttach \/ ExitRequest \/ ResumeCall
    <2>1. CASE GuiObserve \/ GuiAttach \/ ExitRequest
      BY <2>1, <1>0 DEF GuiObserve, GuiAttach, ExitRequest, Begin, ClosedInv
    <2>2. CASE GuiStart
      BY <2>2, <1>0 DEF GuiStart, Gone, ClosedInv
    <2>3. CASE GuiCrash
      BY <2>3, <1>0 DEF GuiCrash, Gone, ClosedInv
    <2>4. CASE ResumeCall
      BY <2>4, <1>0 DEF ResumeCall, Begin, suspended, ClosedInv
    <2> QED BY <1>5, <2>1, <2>2, <2>3, <2>4
  <1>6. CASE User
    BY <1>6, Frames, <1>0 DEF ClosedInv
  <1>7. CASE Off
    <2>1. CASE OffRoute
      BY <2>1, <1>0 DEF OffRoute, ClosedInv
    <2>2. ASSUME NEW kind \in {"turn_off", "restore"}, OffStart(kind) PROVE ClosedInv'
      <3>1. /\ lock = "free" /\ UNCHANGED <<pc, run>>
            /\ session'.phase = session.phase /\ session'.owner = session.owner
            /\ kind = "restore" /\ session.phase \in {"preparing", "closing"} => ~OwnerAlive
            /\ offKind' = "recover" => kind = "restore" /\ session.phase \in {"preparing", "closing"}
        BY <2>2, <1>0 DEF OffStart, Session
      <3> QED BY <3>1, <1>0 DEF ClosedInv, LockInv, OwnerAlive
    <2>3. CASE OffObs
      BY <2>3, <1>0 DEF OffObs, ClosedInv
    <2> QED BY <1>7, <2>1, <2>2, <2>3 DEF Off
  <1>8. CASE UNCHANGED vars
    BY <1>8, <1>0 DEF vars, ClosedInv
  <1> QED BY <1>1, <1>2, <1>3, <1>4, <1>5, <1>6, <1>7, <1>8 DEF Next, Gui

\* begin_switch looks at the journal under the lock, commit_route at the
\* cutover record.
LEMMA CutoverStep == TypeOK /\ LockInv /\ ClosedInv /\ CutoverExclusive /\ [Next]_vars => CutoverExclusive'
  <1> SUFFICES ASSUME TypeOK, LockInv, ClosedInv, CutoverExclusive, [Next]_vars PROVE CutoverExclusive'
    OBVIOUS
  <1> USE DEF guiVars, offVars, relayVars, userVars, envVars, fileVars
  <1>0. /\ CutoverExclusive
        /\ after \in {"none", "sendDrain", "saveIncomplete", "saveStopped"}
    BY DEF TypeOK
  <1>1. CASE Relay
    BY <1>1, Frames, <1>0 DEF CutoverExclusive
  <1>2. CASE Update
    <2>1. CASE UpdateCutover
      BY <2>1, <1>0
         DEF UpdateCutover, enabled, suspended, ClosedInv, LockInv, Committed, CutoverExclusive
    <2>2. CASE UpdateSettle
      BY <2>2, <1>0 DEF UpdateSettle, CutoverExclusive
    <2> QED BY <1>2, <2>1, <2>2 DEF Update
  <1>3. CASE Stop
    <2>1. CASE Checkpoint \/ StopFails \/ WaitUpdate \/ Capture \/ CommitRoute \/ SendDrain
      BY <2>1, <1>0 DEF Checkpoint, Raise, localVars, StopFails, WaitUpdate, Capture, CommitRoute,
            SendDrain, CutoverExclusive
    <2>2. CASE Prepare
      BY <2>2, <1>0 DEF Prepare, Raise, localVars, OwnerAlive, CutoverExclusive
    <2>3. CASE Decide
      BY <2>3, <1>0 DEF Decide, GoCommit, stopped, released, CutoverExclusive
    <2>4. CASE Drain
      BY <2>4, <1>0 DEF Drain, GoCommit, stopped, released, Answers, CutoverExclusive
    <2>5. CASE Commit
      BY <2>5, <1>0 DEF Commit, Raise, localVars, CutoverExclusive
    <2>6. CASE CommitObs
      BY <2>6, <1>0 DEF CommitObs, localVars, CutoverExclusive
    <2>7. CASE Watch
      BY <2>7, <1>0 DEF Watch, stopped, released, Answers, CutoverExclusive
    <2>8. CASE SaveRead
      BY <2>8, <1>0 DEF SaveRead, CutoverExclusive
    <2>9. CASE SaveIncomplete
      BY <2>9, <1>0 DEF SaveIncomplete, GoCommit, CutoverExclusive
    <2>10. CASE SaveStopped
      BY <2>10, <1>0 DEF SaveStopped, CutoverExclusive
    <2>11. ASSUME NEW ok \in BOOLEAN, Collect(ok) PROVE CutoverExclusive'
      BY <2>11, <1>0 DEF Collect, Return, Gone, CutoverExclusive
    <2>12. CASE Except
      BY <2>12, <1>0 DEF Except, Return, Gone, CutoverExclusive
    <2> QED BY <1>3, <2>1, <2>2, <2>3, <2>4, <2>5, <2>6, <2>7, <2>8, <2>9, <2>10, <2>11, <2>12
         DEF Stop
  <1>4. CASE Resume
    <2>1. CASE ResumeRead \/ ResumeState \/ ResumeStart \/ ResumeVerify \/ ResumeRoute \/ ResumeObs
      BY <2>1, <1>0 DEF ResumeRead, ResumeState, localVars, ResumeStart, ResumeVerify, ResumeRoute,
            ResumeObs, CutoverExclusive
    <2>2. CASE ResumePrep
      BY <2>2, <1>0 DEF ResumePrep, Return, Gone, Begin, OwnerAlive, CutoverExclusive
    <2>3. CASE ResumeLock
      BY <2>3, <1>0 DEF ResumeLock, Return, Gone, localVars, mayResume, stopped, released,
            CutoverExclusive
    <2>4. CASE ResumeActive
      BY <2>4, <1>0 DEF ResumeActive, Return, Gone, CutoverExclusive
    <2>5. CASE ResumeFails
      BY <2>5, <1>0 DEF ResumeFails, Return, Gone, CutoverExclusive
    <2> QED BY <1>4, <2>1, <2>2, <2>3, <2>4, <2>5 DEF Resume
  <1>5. CASE GuiStart \/ GuiCrash \/ GuiObserve \/ GuiAttach \/ ExitRequest \/ ResumeCall
    <2>1. CASE GuiObserve \/ GuiAttach \/ ExitRequest
      BY <2>1, <1>0 DEF GuiObserve, GuiAttach, ExitRequest, Begin, CutoverExclusive
    <2>2. CASE GuiStart
      BY <2>2, <1>0 DEF GuiStart, Gone, CutoverExclusive
    <2>3. CASE GuiCrash
      BY <2>3, <1>0 DEF GuiCrash, Gone, CutoverExclusive
    <2>4. CASE ResumeCall
      BY <2>4, <1>0 DEF ResumeCall, Begin, suspended, CutoverExclusive
    <2> QED BY <1>5, <2>1, <2>2, <2>3, <2>4
  <1>6. CASE User
    BY <1>6, Frames, <1>0 DEF CutoverExclusive
  <1>7. CASE Off
    BY <1>7, Frames, <1>0 DEF CutoverExclusive
  <1>8. CASE UNCHANGED vars
    BY <1>8, <1>0 DEF vars, CutoverExclusive
  <1> QED BY <1>1, <1>2, <1>3, <1>4, <1>5, <1>6, <1>7, <1>8 DEF Next, Gui

----------------------------------------------------------------------------
(* The route and the relay                                                 *)

\* The writes of a commit, a resume and an off come in the order that keeps
\* the relay and the route apart.
LEMMA ServeStep == TypeOK /\ LockInv /\ ServeInv /\ [Next]_vars => ServeInv'
  <1> SUFFICES ASSUME TypeOK, LockInv, ServeInv, [Next]_vars PROVE ServeInv'
    OBVIOUS
  <1> USE DEF guiVars, offVars, relayVars, userVars, envVars, fileVars, Instances
  <1>0. /\ ServeInv /\ LockInv /\ RelayTypes
        /\ after \in {"none", "sendDrain", "saveIncomplete", "saveStopped"}
    BY DEF TypeOK, RelayTypes
  <1>1. CASE Relay
    <2>1. CASE RelayBoot
      BY <2>1, <1>0 DEF RelayBoot, ServeInv, RelayTypes, LockInv, Restoring
    <2>2. CASE RelayWork
      BY <2>2, <1>0 DEF RelayWork, ServeInv, RelayTypes, LockInv, Restoring
    <2>3. CASE RelayDone
      BY <2>3, <1>0 DEF RelayDone, ServeInv, RelayTypes, LockInv, Restoring
    <2>4. CASE RelayNotice
      BY <2>4, <1>0 DEF RelayNotice, ServeInv, RelayTypes, LockInv, Restoring
    <2>5. CASE RelayExpire
      BY <2>5, <1>0 DEF RelayExpire, ServeInv, RelayTypes, LockInv, Restoring
    <2>6. CASE RelayForce
      BY <2>6, <1>0 DEF RelayForce, ServeInv, RelayTypes, LockInv, Restoring
    <2>7. CASE RelayStop
      BY <2>7, <1>0 DEF RelayStop, ServeInv, RelayTypes, LockInv, Restoring
    <2>8. ASSUME NEW ok \in BOOLEAN, RelayExit(ok) PROVE ServeInv'
      BY <2>8, <1>0 DEF RelayExit, ServeInv, RelayTypes, LockInv, Restoring
    <2>9. CASE RelayCrash
      BY <2>9, <1>0 DEF RelayCrash, ServeInv, RelayTypes, LockInv, Restoring
    <2>10. CASE RelayBlur
      BY <2>10, <1>0 DEF RelayBlur, Answers, ServeInv, RelayTypes, LockInv, Restoring
    <2>11. CASE ClientCloses
      BY <2>11, <1>0 DEF ClientCloses, Answers, ServeInv, RelayTypes, LockInv, Restoring
    <2> QED BY <1>1, <2>1, <2>2, <2>3, <2>4, <2>5, <2>6, <2>7, <2>8, <2>9, <2>10, <2>11 DEF Relay
  <1>2. CASE Update
    <2>1. CASE UpdateCutover
      BY <2>1, <1>0 DEF UpdateCutover, ServeInv, RelayTypes, LockInv, Restoring
    <2>2. CASE UpdateSettle
      <3>1. CASE UNCHANGED <<relay, control, flushed>>
        BY <2>2, <3>1, <1>0 DEF UpdateSettle, ServeInv
      <3>2. CASE /\ relay.st = "up" /\ relay.work = "idle" /\ relay.inst < MaxInst
                 /\ relay' = [relay EXCEPT !.inst = @ + 1]
                 /\ control' = [control EXCEPT ![relay.inst] = "stopped", ![relay.inst + 1] = "run"]
        <4>1. relay.inst \in 1..MaxInst /\ MaxInst \in Nat
          BY <1>0, BoundsAssumption DEF RelayTypes
        <4>2. relay.inst + 1 \in Instances
          BY <4>1, <3>2
        <4>3. relay'.st = "up" /\ relay'.inst = relay.inst + 1 /\ control'[relay'.inst] = "run"
          BY <4>1, <4>2, <3>2, <1>0 DEF RelayTypes
        <4>4. UNCHANGED <<route, obs, pc, conf, off>>
          BY <2>2 DEF UpdateSettle
        <4>5. relay.st = "up"
          BY <3>2
        <4> QED BY <4>3, <4>4, <4>5, <1>0 DEF ServeInv
      <3> QED BY <2>2, <3>1, <3>2 DEF UpdateSettle
    <2> QED BY <1>2, <2>1, <2>2 DEF Update
  <1>3. CASE Stop
    <2>1. CASE Checkpoint \/ StopFails \/ WaitUpdate \/ Capture
      BY <2>1, <1>0 DEF Checkpoint, Raise, localVars, StopFails, WaitUpdate, Capture, ServeInv,
            RelayTypes, LockInv, Restoring
    <2>2. CASE Prepare
      BY <2>2, <1>0 DEF Prepare, Raise, localVars, OwnerAlive, ServeInv, RelayTypes, LockInv,
            Restoring
    <2>3. CASE Decide
      BY <2>3, <1>0 DEF Decide, GoCommit, stopped, released, ServeInv, RelayTypes, LockInv,
            Restoring
    <2>4. CASE Drain
      BY <2>4, <1>0 DEF Drain, GoCommit, stopped, released, Answers, ServeInv, RelayTypes, LockInv,
            Restoring
    <2>5. CASE Commit
      BY <2>5, <1>0 DEF Commit, Raise, localVars, ServeInv, RelayTypes, LockInv, Restoring
    <2>6. CASE CommitRoute
      BY <2>6, <1>0 DEF CommitRoute, localVars, ServeInv, RelayTypes, LockInv, Restoring
    <2>7. CASE CommitObs
      BY <2>7, <1>0 DEF CommitObs, localVars, ServeInv, RelayTypes, LockInv, Restoring
    <2>8. CASE SendDrain
      BY <2>8, <1>0 DEF SendDrain, localVars, ServeInv, RelayTypes, LockInv, Restoring
    <2>9. CASE Watch
      BY <2>9, <1>0 DEF Watch, stopped, released, Answers, ServeInv, RelayTypes, LockInv, Restoring
    <2>10. CASE SaveRead
      BY <2>10, <1>0 DEF SaveRead, ServeInv, RelayTypes, LockInv, Restoring
    <2>11. CASE SaveIncomplete
      BY <2>11, <1>0 DEF SaveIncomplete, GoCommit, ServeInv, RelayTypes, LockInv, Restoring
    <2>12. CASE SaveStopped
      BY <2>12, <1>0 DEF SaveStopped, ServeInv, RelayTypes, LockInv, Restoring
    <2>13. ASSUME NEW ok \in BOOLEAN, Collect(ok) PROVE ServeInv'
      BY <2>13, <1>0 DEF Collect, Return, Gone, ServeInv, RelayTypes, LockInv, Restoring
    <2>14. CASE Except
      BY <2>14, <1>0 DEF Except, Return, Gone, ServeInv, RelayTypes, LockInv, Restoring
    <2> QED BY <1>3, <2>1, <2>2, <2>3, <2>4, <2>5, <2>6, <2>7, <2>8, <2>9, <2>10, <2>11, <2>12,
           <2>13, <2>14 DEF Stop
  <1>4. CASE Resume
    <2>1. CASE ResumeRead
      BY <2>1, <1>0 DEF ResumeRead, ServeInv, RelayTypes, LockInv, Restoring
    <2>2. CASE ResumePrep
      BY <2>2, <1>0 DEF ResumePrep, Return, Gone, Begin, OwnerAlive, ServeInv, RelayTypes, LockInv,
            Restoring
    <2>3. CASE ResumeLock
      BY <2>3, <1>0 DEF ResumeLock, Return, Gone, localVars, mayResume, stopped, released, ServeInv,
            RelayTypes, LockInv, Restoring
    <2>4. CASE ResumeState
      BY <2>4, <1>0 DEF ResumeState, localVars, ServeInv, RelayTypes, LockInv, Restoring
    <2>5. CASE ResumeStart
      BY <2>5, <1>0 DEF ResumeStart, localVars, Launch, ServeInv, RelayTypes, LockInv, Restoring
    <2>6. CASE ResumeVerify
      BY <2>6, <1>0 DEF ResumeVerify, localVars, ServeInv, RelayTypes, LockInv, Restoring
    <2>7. CASE ResumeRoute
      BY <2>7, <1>0 DEF ResumeRoute, localVars, ServeInv, RelayTypes, LockInv, Restoring
    <2>8. CASE ResumeObs
      BY <2>8, <1>0 DEF ResumeObs, localVars, ServeInv, RelayTypes, LockInv, Restoring
    <2>9. CASE ResumeActive
      BY <2>9, <1>0 DEF ResumeActive, Return, Gone, ServeInv, RelayTypes, LockInv, Restoring
    <2>10. CASE ResumeFails
      BY <2>10, <1>0 DEF ResumeFails, Return, Gone, ServeInv, RelayTypes, LockInv, Restoring
    <2> QED BY <1>4, <2>1, <2>2, <2>3, <2>4, <2>5, <2>6, <2>7, <2>8, <2>9, <2>10 DEF Resume
  <1>5. CASE GuiStart \/ GuiCrash \/ GuiObserve \/ GuiAttach \/ ExitRequest \/ ResumeCall
    <2>1. CASE GuiObserve \/ ExitRequest
      BY <2>1, <1>0 DEF GuiObserve, ExitRequest, Begin, ServeInv, RelayTypes, LockInv, Restoring
    <2>2. CASE GuiStart
      BY <2>2, <1>0 DEF GuiStart, Gone, ServeInv, RelayTypes, LockInv, Restoring
    <2>3. CASE GuiCrash
      BY <2>3, <1>0 DEF GuiCrash, Gone, ServeInv, RelayTypes, LockInv, Restoring
    <2>4. CASE GuiAttach
      BY <2>4, <1>0 DEF GuiAttach, Launch, enabled, ServeInv, RelayTypes, LockInv, Restoring
    <2>5. CASE ResumeCall
      BY <2>5, <1>0 DEF ResumeCall, Begin, suspended, ServeInv, RelayTypes, LockInv, Restoring
    <2> QED BY <1>5, <2>1, <2>2, <2>3, <2>4, <2>5
  <1>6. CASE User
    <2>1. CASE CancelRequest \/ ForceRequest
      BY <2>1, <1>0 DEF CancelRequest, ForceRequest, ServeInv, RelayTypes, LockInv, Restoring
    <2>2. CASE UserEdit
      BY <2>2, <1>0 DEF UserEdit, ServeInv, RelayTypes, LockInv, Restoring
    <2> QED BY <1>6, <2>1, <2>2 DEF User
  <1>7. CASE Off
    <2>1. ASSUME NEW kind \in {"turn_off", "restore"}, OffStart(kind) PROVE ServeInv'
      BY <2>1, <1>0 DEF OffStart, OwnerAlive, ServeInv, RelayTypes, LockInv, Restoring
    <2>2. CASE OffRoute
      BY <2>2, <1>0 DEF OffRoute, ServeInv, RelayTypes, LockInv, Restoring
    <2>3. CASE OffObs
      BY <2>3, <1>0 DEF OffObs, ServeInv, RelayTypes, LockInv, Restoring
    <2> QED BY <1>7, <2>1, <2>2, <2>3 DEF Off
  <1>8. CASE UNCHANGED vars
    BY <1>8, <1>0 DEF vars, ServeInv, RelayTypes, LockInv, Restoring
  <1> QED BY <1>1, <1>2, <1>3, <1>4, <1>5, <1>6, <1>7, <1>8 DEF Next, Gui

\* A relay begins to drain only when the route is off it, and a route is not
\* put on a draining relay.
LEMMA ServesStep == TypeOK /\ LockInv /\ ServeInv /\ RoutedRelayServes /\ [Next]_vars => RoutedRelayServes'
  <1> SUFFICES ASSUME TypeOK, LockInv, ServeInv, RoutedRelayServes, [Next]_vars PROVE RoutedRelayServes'
    OBVIOUS
  <1> USE DEF guiVars, offVars, relayVars, userVars, envVars, fileVars, Instances
  <1>0. RoutedRelayServes /\ ServeInv /\ RelayTypes
    BY DEF TypeOK, RelayTypes
  <1>1. CASE Relay
    <2>1. CASE RelayBoot
      BY <2>1, <1>0 DEF RelayBoot, RoutedRelayServes, ServeInv, RelayTypes
    <2>2. CASE RelayWork
      BY <2>2, <1>0 DEF RelayWork, RoutedRelayServes, ServeInv, RelayTypes
    <2>3. CASE RelayDone
      BY <2>3, <1>0 DEF RelayDone, RoutedRelayServes, ServeInv, RelayTypes
    <2>4. CASE RelayNotice
      BY <2>4, <1>0 DEF RelayNotice, RoutedRelayServes, ServeInv, RelayTypes
    <2>5. CASE RelayExpire
      BY <2>5, <1>0 DEF RelayExpire, RoutedRelayServes, ServeInv, RelayTypes
    <2>6. CASE RelayForce
      BY <2>6, <1>0 DEF RelayForce, RoutedRelayServes, ServeInv, RelayTypes
    <2>7. CASE RelayStop
      BY <2>7, <1>0 DEF RelayStop, RoutedRelayServes, ServeInv, RelayTypes
    <2>8. ASSUME NEW ok \in BOOLEAN, RelayExit(ok) PROVE RoutedRelayServes'
      BY <2>8, <1>0 DEF RelayExit, RoutedRelayServes, ServeInv, RelayTypes
    <2>9. CASE RelayCrash
      BY <2>9, <1>0 DEF RelayCrash, RoutedRelayServes, ServeInv, RelayTypes
    <2>10. CASE RelayBlur
      BY <2>10, <1>0 DEF RelayBlur, Answers, RoutedRelayServes, ServeInv, RelayTypes
    <2>11. CASE ClientCloses
      BY <2>11, <1>0 DEF ClientCloses, Answers, RoutedRelayServes, ServeInv, RelayTypes
    <2> QED BY <1>1, <2>1, <2>2, <2>3, <2>4, <2>5, <2>6, <2>7, <2>8, <2>9, <2>10, <2>11 DEF Relay
  <1>2. CASE Update
    <2>1. CASE UpdateCutover
      BY <2>1, <1>0 DEF UpdateCutover, RoutedRelayServes, ServeInv, RelayTypes
    <2>2. CASE UpdateSettle
      BY <2>2, <1>0 DEF UpdateSettle, RoutedRelayServes, ServeInv, RelayTypes
    <2> QED BY <1>2, <2>1, <2>2 DEF Update
  <1>3. CASE Stop
    <2>1. CASE Checkpoint \/ StopFails \/ WaitUpdate \/ Prepare \/ Capture \/ Decide \/ Drain \/
            Commit \/ SendDrain \/ Watch \/ SaveRead \/ SaveIncomplete \/ SaveStopped \/ (\E ok \in
            BOOLEAN : Collect(ok)) \/ Except
      BY <2>1, <1>0 DEF Checkpoint, Raise, localVars, StopFails, WaitUpdate, Prepare, Capture,
            Decide, Drain, Commit, SendDrain, Watch, SaveRead, SaveIncomplete, SaveStopped, Collect,
            Except, RoutedRelayServes, ServeInv, RelayTypes
    <2>2. CASE CommitRoute
      BY <2>2, <1>0 DEF CommitRoute, localVars, RoutedRelayServes, ServeInv, RelayTypes
    <2>3. CASE CommitObs
      BY <2>3, <1>0 DEF CommitObs, localVars, RoutedRelayServes, ServeInv, RelayTypes
    <2> QED BY <1>3, <2>1, <2>2, <2>3 DEF Stop
  <1>4. CASE Resume
    <2>1. CASE ResumePrep \/ ResumeRead \/ ResumeLock \/ ResumeVerify \/ ResumeActive \/ ResumeFails
      BY <2>1, <1>0 DEF ResumePrep, Begin, ResumeRead, ResumeLock, localVars, ResumeVerify,
            ResumeActive, ResumeFails, RoutedRelayServes, ServeInv, RelayTypes
    <2>2. CASE ResumeState
      BY <2>2, <1>0 DEF ResumeState, localVars, RoutedRelayServes, ServeInv, RelayTypes
    <2>3. CASE ResumeStart
      BY <2>3, <1>0 DEF ResumeStart, localVars, Launch, RoutedRelayServes, ServeInv, RelayTypes
    <2>4. CASE ResumeRoute
      BY <2>4, <1>0 DEF ResumeRoute, localVars, RoutedRelayServes, ServeInv, RelayTypes
    <2>5. CASE ResumeObs
      BY <2>5, <1>0 DEF ResumeObs, localVars, RoutedRelayServes, ServeInv, RelayTypes
    <2> QED BY <1>4, <2>1, <2>2, <2>3, <2>4, <2>5 DEF Resume
  <1>5. CASE GuiStart \/ GuiCrash \/ GuiObserve \/ GuiAttach \/ ExitRequest \/ ResumeCall
    <2>1. CASE GuiStart \/ GuiCrash \/ GuiObserve \/ ExitRequest \/ ResumeCall
      BY <2>1, <1>0 DEF GuiStart, GuiCrash, GuiObserve, ExitRequest, Begin, ResumeCall,
            RoutedRelayServes, ServeInv, RelayTypes
    <2>2. CASE GuiAttach
      BY <2>2, <1>0 DEF GuiAttach, Launch, enabled, RoutedRelayServes, ServeInv, RelayTypes
    <2> QED BY <1>5, <2>1, <2>2
  <1>6. CASE User
    <2>1. CASE CancelRequest \/ ForceRequest
      BY <2>1, <1>0 DEF CancelRequest, ForceRequest, RoutedRelayServes, ServeInv, RelayTypes
    <2>2. CASE UserEdit
      BY <2>2, <1>0 DEF UserEdit, RoutedRelayServes, ServeInv, RelayTypes
    <2> QED BY <1>6, <2>1, <2>2 DEF User
  <1>7. CASE Off
    <2>1. CASE (\E kind \in {"turn_off", "restore"} : OffStart(kind))
      BY <2>1, <1>0 DEF OffStart, RoutedRelayServes, ServeInv, RelayTypes
    <2>2. CASE OffRoute
      BY <2>2, <1>0 DEF OffRoute, RoutedRelayServes, ServeInv, RelayTypes
    <2>3. CASE OffObs
      BY <2>3, <1>0 DEF OffObs, RoutedRelayServes, ServeInv, RelayTypes
    <2> QED BY <1>7, <2>1, <2>2, <2>3 DEF Off
  <1>8. CASE UNCHANGED vars
    BY <1>8, <1>0 DEF vars, RoutedRelayServes, ServeInv, RelayTypes
  <1> QED BY <1>1, <1>2, <1>3, <1>4, <1>5, <1>6, <1>7, <1>8 DEF Next, Gui

----------------------------------------------------------------------------
(* The receipts                                                            *)

\* A line that ends the wait for the relay has seen its receipt, or notes
\* that there was none.
LEMMA FlushStep == TypeOK /\ FlushInv /\ [Next]_vars => FlushInv'
  <1> SUFFICES ASSUME TypeOK, FlushInv, [Next]_vars PROVE FlushInv'
    OBVIOUS
  <1> USE DEF guiVars, offVars, relayVars, userVars, envVars, fileVars, Accounted, RelayTypes
  <1>0. /\ FlushInv /\ RelayTypes /\ session \in Session /\ data \in Session
        /\ after \in {"none", "sendDrain", "saveIncomplete", "saveStopped"}
    BY DEF TypeOK, RelayTypes
  <1>s. source \in 0..MaxInst /\ MaxInst \in Nat
    BY BoundsAssumption DEF TypeOK
  <1>1. CASE Relay
    <2>1. CASE RelayWork \/ RelayBlur \/ RelayDone \/ ClientCloses \/ RelayNotice \/ RelayExpire \/ RelayForce \/ RelayStop \/
            RelayCrash
      BY <2>1, <1>0
         DEF RelayWork, RelayBlur, RelayDone, ClientCloses, RelayNotice, RelayExpire, RelayForce,
             RelayStop, RelayCrash, FlushInv
    <2>2. CASE RelayBoot
      BY <2>2, <1>0 DEF RelayBoot, FlushInv
    <2>3. ASSUME NEW ok \in BOOLEAN, RelayExit(ok) PROVE FlushInv'
      BY <2>3, <1>0 DEF RelayExit, FlushInv
    <2> QED BY <1>1, <2>1, <2>2, <2>3 DEF Relay
  <1>2. CASE Update
    <2>1. CASE UpdateCutover
      BY <2>1, <1>0 DEF UpdateCutover, FlushInv
    <2>2. CASE UpdateSettle
      BY <2>2, <1>0 DEF UpdateSettle, FlushInv
    <2> QED BY <1>2, <2>1, <2>2 DEF Update
  <1>3. CASE Stop
    <2>1. CASE Checkpoint \/ StopFails \/ WaitUpdate
      BY <2>1, <1>0 DEF Checkpoint, Raise, localVars, StopFails, WaitUpdate, FlushInv
    <2>2. CASE Prepare
      BY <2>2, <1>0 DEF Prepare, Raise, localVars, OwnerAlive, FlushInv
    <2>3. CASE Capture
      BY <2>3, <1>0 DEF Capture, Answers, FlushInv
    <2>4. CASE Decide
      BY <2>4, <1>0 DEF Decide, GoCommit, stopped, released, FlushInv
    <2>5. CASE Drain
      <3>1. stopped(source) => source = None \/ source \in flushed
        BY <1>0, <1>s DEF stopped, FlushInv, Instances, None
      <3> QED BY <2>5, <3>1, <1>0 DEF Drain, GoCommit, FlushInv
    <2>6. CASE Commit
      <3>1. session'.incomplete = session.incomplete
        BY <2>6, <1>0 DEF Commit, Raise, Session
      <3> QED BY <2>6, <3>1, <1>0 DEF Commit, Raise, localVars, FlushInv
    <2>7. CASE CommitRoute
      BY <2>7, <1>0 DEF CommitRoute, localVars, FlushInv
    <2>8. CASE CommitObs
      BY <2>8, <1>0 DEF CommitObs, localVars, FlushInv
    <2>9. CASE SendDrain
      BY <2>9, <1>0 DEF SendDrain, localVars, FlushInv
    <2>10. CASE Watch
      <3>1. stopped(source) => source = None \/ source \in flushed
        BY <1>0, <1>s DEF stopped, FlushInv, Instances, None
      <3>2. \A i \in Instances : control'[i] = "stopped" => i \in flushed'
        BY <2>10, <1>0 DEF Watch, FlushInv
      <3> QED BY <2>10, <3>1, <3>2, <1>0 DEF Watch, FlushInv
    <2>11. CASE SaveRead
      BY <2>11, <1>0 DEF SaveRead, FlushInv
    <2>12. CASE SaveIncomplete
      BY <2>12, <1>0 DEF SaveIncomplete, GoCommit, FlushInv
    <2>13. CASE SaveStopped
      BY <2>13, <1>0 DEF SaveStopped, FlushInv
    <2>14. ASSUME NEW ok \in BOOLEAN, Collect(ok) PROVE FlushInv'
      BY <2>14, <1>0 DEF Collect, Return, Gone, FlushInv
    <2>15. CASE Except
      BY <2>15, <1>0 DEF Except, Return, Gone, FlushInv
    <2> QED BY <1>3, <2>1, <2>2, <2>3, <2>4, <2>5, <2>6, <2>7, <2>8, <2>9, <2>10, <2>11, <2>12,
           <2>13, <2>14, <2>15 DEF Stop
  <1>4. CASE Resume
    <2>1. CASE ResumeRead \/ ResumeState \/ ResumeStart \/ ResumeVerify \/ ResumeRoute \/ ResumeObs
      BY <2>1, <1>0 DEF ResumeRead, ResumeState, localVars, ResumeStart, ResumeVerify, ResumeRoute,
            ResumeObs, FlushInv
    <2>2. CASE ResumePrep
      BY <2>2, <1>0 DEF ResumePrep, Return, Gone, Begin, OwnerAlive, FlushInv
    <2>3. CASE ResumeLock
      BY <2>3, <1>0 DEF ResumeLock, Return, Gone, localVars, mayResume, stopped, released, FlushInv
    <2>4. CASE ResumeActive
      BY <2>4, <1>0 DEF ResumeActive, Return, Gone, FlushInv
    <2>5. CASE ResumeFails
      BY <2>5, <1>0 DEF ResumeFails, Return, Gone, FlushInv
    <2> QED BY <1>4, <2>1, <2>2, <2>3, <2>4, <2>5 DEF Resume
  <1>5. CASE GuiStart \/ GuiCrash \/ GuiObserve \/ GuiAttach \/ ExitRequest \/ ResumeCall
    <2>1. CASE GuiObserve \/ GuiAttach \/ ExitRequest
      BY <2>1, <1>0 DEF GuiObserve, GuiAttach, ExitRequest, Begin, FlushInv
    <2>2. CASE GuiStart
      BY <2>2, <1>0 DEF GuiStart, Gone, FlushInv
    <2>3. CASE GuiCrash
      BY <2>3, <1>0 DEF GuiCrash, Gone, FlushInv
    <2>4. CASE ResumeCall
      BY <2>4, <1>0 DEF ResumeCall, Begin, suspended, FlushInv
    <2> QED BY <1>5, <2>1, <2>2, <2>3, <2>4
  <1>6. CASE User
    BY <1>6, Frames, <1>0 DEF FlushInv
  <1>7. CASE Off
    <2>1. CASE OffRoute
      BY <2>1, <1>0 DEF OffRoute, FlushInv
    <2>2. ASSUME NEW kind \in {"turn_off", "restore"}, OffStart(kind) PROVE FlushInv'
      BY <2>2, <1>0 DEF OffStart, OwnerAlive, FlushInv
    <2>3. CASE OffObs
      BY <2>3, <1>0 DEF OffObs, FlushInv
    <2> QED BY <1>7, <2>1, <2>2, <2>3 DEF Off
  <1>8. CASE UNCHANGED vars
    BY <1>8, <1>0 DEF vars, FlushInv
  <1> QED BY <1>1, <1>2, <1>3, <1>4, <1>5, <1>6, <1>7, <1>8 DEF Next, Gui

\* The result of an exit says no more than its journal.
LEMMA CleanStep == TypeOK /\ FlushInv /\ CleanExitFlushed /\ [Next]_vars => CleanExitFlushed'
  <1> SUFFICES ASSUME TypeOK, FlushInv, CleanExitFlushed, [Next]_vars PROVE CleanExitFlushed'
    OBVIOUS
  <1> USE DEF guiVars, offVars, relayVars, userVars, envVars, fileVars, None
  <1>0. CleanExitFlushed /\ FlushInv
    OBVIOUS
  <1>1. CASE Relay
    <2>1. CASE RelayBoot \/ RelayWork \/ RelayBlur \/ RelayDone \/ ClientCloses \/ RelayNotice \/ RelayExpire \/ RelayForce \/
            RelayStop \/ RelayCrash
      BY <2>1, <1>0
         DEF RelayBoot, RelayWork, RelayBlur, RelayDone, ClientCloses, RelayNotice, RelayExpire,
             RelayForce, RelayStop, RelayCrash, CleanExitFlushed, FlushInv
    <2>2. ASSUME NEW ok \in BOOLEAN, RelayExit(ok) PROVE CleanExitFlushed'
      BY <2>2, <1>0 DEF RelayExit, CleanExitFlushed, FlushInv
    <2> QED BY <1>1, <2>1, <2>2 DEF Relay
  <1>2. CASE Update
    <2>1. CASE UpdateCutover
      BY <2>1, <1>0 DEF UpdateCutover, CleanExitFlushed, FlushInv
    <2>2. CASE UpdateSettle
      BY <2>2, <1>0 DEF UpdateSettle, CleanExitFlushed, FlushInv
    <2> QED BY <1>2, <2>1, <2>2 DEF Update
  <1>3. CASE Stop
    <2>1. CASE WaitUpdate \/ Decide \/ CommitRoute \/ CommitObs \/ SendDrain \/ SaveRead \/
            SaveIncomplete
      BY <2>1, <1>0 DEF WaitUpdate, localVars, Decide, CommitRoute, CommitObs, SendDrain, SaveRead,
            SaveIncomplete, CleanExitFlushed, FlushInv
    <2>2. CASE Checkpoint
      BY <2>2, <1>0 DEF Checkpoint, Raise, localVars, CleanExitFlushed, FlushInv
    <2>3. CASE StopFails
      BY <2>3, <1>0 DEF StopFails, localVars, CleanExitFlushed, FlushInv
    <2>4. CASE Prepare
      BY <2>4, <1>0 DEF Prepare, Raise, localVars, OwnerAlive, CleanExitFlushed, FlushInv
    <2>5. CASE Capture
      BY <2>5, <1>0 DEF Capture, Answers, CleanExitFlushed, FlushInv
    <2>6. CASE Drain
      BY <2>6, <1>0 DEF Drain, GoCommit, stopped, released, Answers, CleanExitFlushed, FlushInv
    <2>7. CASE Commit
      BY <2>7, <1>0 DEF Commit, Raise, localVars, CleanExitFlushed, FlushInv
    <2>8. CASE Watch
      BY <2>8, <1>0 DEF Watch, stopped, released, Answers, CleanExitFlushed, FlushInv
    <2>9. CASE SaveStopped
      BY <2>9, <1>0 DEF SaveStopped, CleanExitFlushed, FlushInv
    <2>10. ASSUME NEW ok \in BOOLEAN, Collect(ok) PROVE CleanExitFlushed'
      BY <2>10, <1>0 DEF Collect, Return, Gone, CleanExitFlushed, FlushInv
    <2>11. CASE Except
      BY <2>11, <1>0 DEF Except, Return, Gone, CleanExitFlushed, FlushInv
    <2> QED BY <1>3, <2>1, <2>2, <2>3, <2>4, <2>5, <2>6, <2>7, <2>8, <2>9, <2>10, <2>11 DEF Stop
  <1>4. CASE Resume
    <2>1. CASE ResumeRead \/ ResumeState \/ ResumeStart \/ ResumeVerify \/ ResumeRoute \/ ResumeObs
      BY <2>1, <1>0 DEF ResumeRead, ResumeState, localVars, ResumeStart, ResumeVerify, ResumeRoute,
            ResumeObs, CleanExitFlushed, FlushInv
    <2>2. CASE ResumePrep
      BY <2>2, <1>0 DEF ResumePrep, Return, Gone, Begin, OwnerAlive, CleanExitFlushed, FlushInv
    <2>3. CASE ResumeLock
      BY <2>3, <1>0 DEF ResumeLock, Return, Gone, localVars, mayResume, stopped, released,
            CleanExitFlushed, FlushInv
    <2>4. CASE ResumeActive
      BY <2>4, <1>0 DEF ResumeActive, Return, Gone, CleanExitFlushed, FlushInv
    <2>5. CASE ResumeFails
      BY <2>5, <1>0 DEF ResumeFails, Return, Gone, CleanExitFlushed, FlushInv
    <2> QED BY <1>4, <2>1, <2>2, <2>3, <2>4, <2>5 DEF Resume
  <1>5. CASE GuiStart \/ GuiCrash \/ GuiObserve \/ GuiAttach \/ ExitRequest \/ ResumeCall
    <2>1. CASE GuiObserve \/ GuiAttach
      BY <2>1, <1>0 DEF GuiObserve, GuiAttach, CleanExitFlushed, FlushInv
    <2>2. CASE GuiStart
      BY <2>2, <1>0 DEF GuiStart, Gone, CleanExitFlushed, FlushInv
    <2>3. CASE GuiCrash
      BY <2>3, <1>0 DEF GuiCrash, Gone, CleanExitFlushed, FlushInv
    <2>4. CASE ExitRequest
      BY <2>4, <1>0 DEF ExitRequest, Begin, CleanExitFlushed, FlushInv
    <2>5. CASE ResumeCall
      BY <2>5, <1>0 DEF ResumeCall, Begin, suspended, CleanExitFlushed, FlushInv
    <2> QED BY <1>5, <2>1, <2>2, <2>3, <2>4, <2>5
  <1>6. CASE User
    BY <1>6, Frames, <1>0 DEF CleanExitFlushed, FlushInv
  <1>7. CASE Off
    BY <1>7, Frames, <1>0 DEF CleanExitFlushed, FlushInv
  <1>8. CASE UNCHANGED vars
    BY <1>8, <1>0 DEF vars, CleanExitFlushed, FlushInv
  <1> QED BY <1>1, <1>2, <1>3, <1>4, <1>5, <1>6, <1>7, <1>8 DEF Next, Gui

----------------------------------------------------------------------------
(* The cancellation                                                        *)

\* ExitControl: the decision gate takes a cancellation or a commit, whichever
\* comes first.
LEMMA CancelStep == TypeOK /\ CancelInv /\ [Next]_vars => CancelInv'
  <1> SUFFICES ASSUME TypeOK, CancelInv, [Next]_vars PROVE CancelInv'
    OBVIOUS
  <1> USE DEF guiVars, offVars, relayVars, userVars, envVars, fileVars, Committed, Restoring,
       FreshCtl
  <1>0. /\ CancelInv /\ ctl \in [committed: BOOLEAN, cancelled: BOOLEAN, forced: BOOLEAN]
        /\ after \in {"none", "sendDrain", "saveIncomplete", "saveStopped"} /\ mode \in {"exit", "resume"}
    BY DEF TypeOK
  <1>1. CASE Relay
    BY <1>1, Frames, <1>0 DEF CancelInv
  <1>2. CASE Update
    BY <1>2, Frames, <1>0 DEF CancelInv
  <1>3. CASE Stop
    <2>1. CASE Checkpoint \/ StopFails \/ WaitUpdate \/ CommitRoute \/ SendDrain
      BY <2>1, <1>0 DEF Checkpoint, Raise, localVars, StopFails, WaitUpdate, CommitRoute, SendDrain,
            CancelInv
    <2>2. CASE Prepare
      BY <2>2, <1>0 DEF Prepare, Raise, localVars, OwnerAlive, CancelInv
    <2>3. CASE Capture
      BY <2>3, <1>0 DEF Capture, Answers, CancelInv
    <2>4. CASE Decide
      BY <2>4, <1>0 DEF Decide, GoCommit, stopped, released, CancelInv
    <2>5. CASE Drain
      BY <2>5, <1>0 DEF Drain, GoCommit, stopped, released, Answers, CancelInv
    <2>6. CASE Commit
      BY <2>6, <1>0 DEF Commit, Raise, localVars, CancelInv
    <2>7. CASE CommitObs
      BY <2>7, <1>0 DEF CommitObs, localVars, CancelInv
    <2>8. CASE Watch
      BY <2>8, <1>0 DEF Watch, stopped, released, Answers, CancelInv
    <2>9. CASE SaveRead
      BY <2>9, <1>0 DEF SaveRead, CancelInv
    <2>10. CASE SaveIncomplete
      BY <2>10, <1>0 DEF SaveIncomplete, GoCommit, CancelInv
    <2>11. CASE SaveStopped
      BY <2>11, <1>0 DEF SaveStopped, CancelInv
    <2>12. ASSUME NEW ok \in BOOLEAN, Collect(ok) PROVE CancelInv'
      BY <2>12, <1>0 DEF Collect, Return, Gone, CancelInv
    <2>13. CASE Except
      BY <2>13, <1>0 DEF Except, Return, Gone, CancelInv
    <2> QED BY <1>3, <2>1, <2>2, <2>3, <2>4, <2>5, <2>6, <2>7, <2>8, <2>9, <2>10, <2>11, <2>12,
           <2>13 DEF Stop
  <1>4. CASE Resume
    <2>1. CASE ResumeState \/ ResumeStart \/ ResumeVerify \/ ResumeRoute \/ ResumeObs
      BY <2>1, <1>0 DEF ResumeState, localVars, ResumeStart, ResumeVerify, ResumeRoute, ResumeObs,
            CancelInv
    <2>2. CASE ResumePrep
      BY <2>2, <1>0 DEF ResumePrep, Return, Gone, Begin, OwnerAlive, CancelInv
    <2>3. CASE ResumeRead
      BY <2>3, <1>0 DEF ResumeRead, CancelInv
    <2>4. CASE ResumeLock
      BY <2>4, <1>0 DEF ResumeLock, Return, Gone, localVars, mayResume, stopped, released, CancelInv
    <2>5. CASE ResumeActive
      BY <2>5, <1>0 DEF ResumeActive, Return, Gone, CancelInv
    <2>6. CASE ResumeFails
      BY <2>6, <1>0 DEF ResumeFails, Return, Gone, CancelInv
    <2> QED BY <1>4, <2>1, <2>2, <2>3, <2>4, <2>5, <2>6 DEF Resume
  <1>5. CASE GuiStart \/ GuiCrash \/ GuiObserve \/ GuiAttach \/ ExitRequest \/ ResumeCall
    <2>1. CASE GuiObserve \/ GuiAttach
      BY <2>1, <1>0 DEF GuiObserve, GuiAttach, CancelInv
    <2>2. CASE GuiStart
      BY <2>2, <1>0 DEF GuiStart, Gone, CancelInv
    <2>3. CASE GuiCrash
      BY <2>3, <1>0 DEF GuiCrash, Gone, CancelInv
    <2>4. CASE ExitRequest
      BY <2>4, <1>0 DEF ExitRequest, Begin, CancelInv
    <2>5. CASE ResumeCall
      BY <2>5, <1>0 DEF ResumeCall, Begin, suspended, CancelInv
    <2> QED BY <1>5, <2>1, <2>2, <2>3, <2>4, <2>5
  <1>6. CASE User
    <2>1. CASE UserEdit
      BY <2>1, <1>0 DEF UserEdit, CancelInv
    <2>2. CASE CancelRequest
      BY <2>2, <1>0 DEF CancelRequest, InExit, CancelInv
    <2>3. CASE ForceRequest
      BY <2>3, <1>0 DEF ForceRequest, CancelInv
    <2> QED BY <1>6, <2>1, <2>2, <2>3 DEF User
  <1>7. CASE Off
    BY <1>7, Frames, <1>0 DEF CancelInv
  <1>8. CASE UNCHANGED vars
    BY <1>8, <1>0 DEF vars, CancelInv
  <1> QED BY <1>1, <1>2, <1>3, <1>4, <1>5, <1>6, <1>7, <1>8 DEF Next, Gui

----------------------------------------------------------------------------
(* The saved intent                                                        *)

\* What each write does to the fields of the journal that say whether a
\* session is suspended and whether it is to be resumed.
LEMMA PrepareEffect ==
    ASSUME TypeOK, Prepare
    PROVE  \/ /\ pc' = "except"
              /\ UNCHANGED <<route, session, lock, run, ops, ctl, prev, data, offVars, userVars>>
           \/ /\ pc' = "capture" /\ UNCHANGED <<route, lock, run, ops, ctl, data, offVars, userVars>>
              /\ prev'.phase = IF session.phase = "preparing" THEN session.prevPhase ELSE session.phase
              /\ session'.phase = "preparing" /\ session'.op = ops /\ session'.prevPhase = prev'.phase
              /\ prev'.phase = "active" => session'.resume = (route = "proxy")
              /\ prev'.phase # "active" => session'.resume = session.resume
  <1>0. session \in Session
    BY DEF TypeOK
  <1> USE DEF Session, offVars, envVars, fileVars
  <1>1. CASE Raise("failed")
    BY <1>1 DEF Raise, localVars
  <1>2. CASE ~Raise("failed")
    <2>1. pc' = "capture" /\ UNCHANGED <<route, lock, run, ops, ctl, data, offVars, userVars>>
      BY <1>2 DEF Prepare
    <2>2. prev'.phase = IF session.phase = "preparing" THEN session.prevPhase ELSE session.phase
      BY <1>2 DEF Prepare
    <2>3. /\ session'.phase = "preparing" /\ session'.op = ops /\ session'.prevPhase = prev'.phase
          /\ session'.resume = IF prev'.phase = "active" THEN route = "proxy" ELSE session.resume
      BY <1>2, <1>0 DEF Prepare
    <2> QED BY <2>1, <2>2, <2>3
  <1> QED BY <1>1, <1>2

\* The fields above, which Capture and SaveIncomplete copy.
SameIntent(new, old) == /\ new.phase = old.phase /\ new.op = old.op
                        /\ new.resume = old.resume /\ new.prevPhase = old.prevPhase

\* Capture notes the relay that has to stop; the rest of the journal stays.
LEMMA CaptureEffect ==
    ASSUME TypeOK, Capture
    PROVE  /\ pc' \in {"except", "decide"} /\ SameIntent(session', session)
           /\ UNCHANGED <<route, lock, run, ops, ctl, prev, data, offVars, userVars>>
  <1>0. session \in Session
    BY DEF TypeOK
  <1>1. /\ pc' \in {"except", "decide"}
        /\ UNCHANGED <<route, lock, run, ops, ctl, prev, data, offVars, userVars>>
    BY DEF Capture, offVars, envVars
  <1>2. CASE session' = session
    BY <1>1, <1>2 DEF SameIntent
  <1>3. CASE session' # session
    <2>1. session' = [session EXCEPT !.source = source']
      BY <1>3 DEF Capture
    <2> QED BY <2>1, <1>1, <1>0 DEF Session, SameIntent
  <1> QED BY <1>2, <1>3

\* commit_route closes the journal that its own Prepare wrote, or raises.
LEMMA CommitEffect ==
    ASSUME TypeOK, Commit
    PROVE  /\ UNCHANGED <<route, run, ops, prev, data, offVars, userVars>>
           /\ \/ pc' = "except" /\ UNCHANGED <<session, lock, ctl>>
              \/ /\ pc' = "route" /\ session.op = ops /\ ctl'.committed
                 /\ session'.phase = "closing" /\ session'.op = session.op
                 /\ session'.resume = session.resume /\ session'.prevPhase = session.prevPhase
  <1>0. session \in Session /\ ctl \in [committed: BOOLEAN, cancelled: BOOLEAN, forced: BOOLEAN]
    BY DEF TypeOK
  <1>1. CASE Raise("failed")
    BY <1>1 DEF Raise, localVars, offVars, envVars, fileVars
  <1>2. CASE ~Raise("failed")
    BY <1>2, <1>0 DEF Commit, Session, offVars, envVars
  <1> QED BY <1>1, <1>2

\* The handler of stop_proxy writes only into its own operation's journal.
LEMMA ExceptEffect ==
    ASSUME TypeOK, Except
    PROVE  /\ pc' = "running" /\ pc = "except" /\ lock = "free"
           /\ UNCHANGED <<route, run, ops, lock, offVars, userVars>>
           /\ session.op # ops => session' = session
           /\ session.op = ops =>
                /\ session'.phase = (IF ctl.committed THEN "failed" ELSE prev.phase)
                /\ session'.op = session.op
                /\ session'.resume = session.resume /\ session'.prevPhase = session.prevPhase
           /\ ~ctl'.committed /\ data' = FreshSession /\ prev'.phase = "active"
  <1>0. session \in Session
    BY DEF TypeOK
  <1>1. /\ pc' = "running" /\ pc = "except" /\ lock = "free"
        /\ UNCHANGED <<route, run, ops, lock, offVars, userVars>>
        /\ ~ctl'.committed /\ data' = FreshSession /\ prev'.phase = "active"
    BY DEF Except, Return, Gone, FreshCtl, offVars, envVars
  <1>2. session.op # ops => session' = session
    BY DEF Except
  <1>3. ASSUME session.op = ops
        PROVE  /\ session'.phase = (IF ctl.committed THEN "failed" ELSE prev.phase)
               /\ session'.op = session.op
               /\ session'.resume = session.resume /\ session'.prevPhase = session.prevPhase
    BY <1>3, <1>0 DEF Except, Session
  <1> QED BY <1>1, <1>2, <1>3

\* resume_proxy puts back what an abandoned preparation had interrupted, and
\* goes on only if that was not an active session.
LEMMA ResumePrepEffect ==
    ASSUME TypeOK, ResumePrep
    PROVE  /\ UNCHANGED <<route, lock, run, offVars, userVars>> /\ pc = "resumePrep"
           /\ \/ session' = session /\ session.phase # "preparing"
              \/ session' = session /\ pc' = "running"
              \/ /\ session'.phase = session.prevPhase /\ session'.op = session.op
                 /\ session'.resume = session.resume /\ session'.prevPhase = session.prevPhase
                 /\ session.phase = "preparing"
           /\ \/ Return
              \/ /\ pc' \in {"waitUpdate", "resumeLock"} /\ data' = session' /\ prev' = prev
                 /\ session.phase = "preparing" => session.prevPhase # "active"
  <1>0. session \in Session
    BY DEF TypeOK
  <1>1. UNCHANGED <<route, lock, run, offVars, userVars>> /\ pc = "resumePrep"
    <2>1. CASE Return
      BY <2>1 DEF ResumePrep, Return, offVars, envVars
    <2>2. CASE ~Return
      BY <2>2 DEF ResumePrep, offVars, envVars
    <2> QED BY <2>1, <2>2
  <1>2. \/ Return
        \/ /\ pc' \in {"waitUpdate", "resumeLock"} /\ data' = session' /\ prev' = prev
           /\ session.phase = "preparing" => ~OwnerAlive /\ session.prevPhase # "active"
    <2>1. CASE Return
      BY <2>1 DEF Return
    <2>2. CASE ~Return
      BY <2>2 DEF ResumePrep, Begin
    <2> QED BY <2>1, <2>2
  <1>3. session' = IF session.phase = "preparing" /\ ~OwnerAlive
                   THEN [session EXCEPT !.phase = session.prevPhase, !.committed = session.prevCommitted]
                   ELSE session
    BY DEF ResumePrep
  <1>4. CASE session.phase = "preparing" /\ ~OwnerAlive
    <2>1. /\ session'.phase = session.prevPhase /\ session'.op = session.op
          /\ session'.resume = session.resume /\ session'.prevPhase = session.prevPhase
      BY <1>0, <1>3, <1>4 DEF Session
    <2> QED BY <1>1, <1>2, <1>4, <2>1
  <1>5. CASE session.phase = "preparing" /\ OwnerAlive
    BY <1>1, <1>2, <1>3, <1>5 DEF Return
  <1>6. CASE session.phase # "preparing"
    BY <1>1, <1>2, <1>3, <1>6
  <1> QED BY <1>4, <1>5, <1>6

\* resume_proxy drops the intent only when it may not resume.
LEMMA ResumeLockEffect ==
    ASSUME TypeOK, ResumeLock
    PROVE  /\ UNCHANGED <<route, run, offVars, userVars>> /\ pc = "resumeLock" /\ lock = "free"
           /\ \/ /\ Return /\ session'.phase = "active" /\ session'.resume = FALSE
                 /\ session'.prevPhase = session.prevPhase /\ ~mayResume
              \/ Return /\ session' = session
              \/ /\ pc' = "resumeState" /\ mayResume /\ UNCHANGED <<ops, ctl, prev, data>>
                 /\ session'.phase = "resuming" /\ session'.op = session.op
                 /\ session'.resume = session.resume /\ session'.prevPhase = session.prevPhase
  <1>0. session \in Session
    BY DEF TypeOK
  <1>1. CASE ~mayResume
    BY <1>0, <1>1 DEF ResumeLock, Return, Session, offVars, envVars
  <1>2. CASE mayResume /\ Return
    BY <1>2 DEF ResumeLock, Return, offVars, envVars
  <1>3. CASE mayResume /\ ~Return
    BY <1>0, <1>3 DEF ResumeLock, Session, offVars, envVars, localVars
  <1> QED BY <1>1, <1>2, <1>3

\* A preparation that finds an abandoned one takes over what that one
\* interrupted.
LEMMA PrevStep == TypeOK /\ PrevInv /\ [Next]_vars => PrevInv'
  <1> SUFFICES ASSUME TypeOK, PrevInv, [Next]_vars PROVE PrevInv'
    OBVIOUS
  <1> USE DEF guiVars, offVars, relayVars, userVars, envVars, fileVars, Session, FreshSession
  <1>0. TypeOK /\ PrevInv /\ session \in Session /\ data \in Session
    BY DEF TypeOK
  <1>1. CASE Relay
    BY <1>1, Frames, <1>0 DEF PrevInv
  <1>2. CASE Update
    BY <1>2, Frames, <1>0 DEF PrevInv
  <1>3. CASE Stop
    <2>1. CASE Checkpoint \/ StopFails \/ WaitUpdate \/ Decide \/ Drain \/ CommitRoute \/ CommitObs
            \/ SendDrain \/ Watch
      BY <2>1, <1>0 DEF Checkpoint, Raise, localVars, StopFails, WaitUpdate, Decide, Drain,
            CommitRoute, CommitObs, SendDrain, Watch, PrevInv
    <2>2. CASE Prepare
      BY <2>2, PrepareEffect, <1>0 DEF PrevInv
    <2>3. CASE Capture
      BY <2>3, <1>0 DEF Capture, Answers, PrevInv
    <2>4. CASE Commit
      BY <2>4, <1>0 DEF Commit, Raise, localVars, PrevInv
    <2>5. CASE SaveRead
      BY <2>5, <1>0 DEF SaveRead, PrevInv
    <2>6. CASE SaveIncomplete
      BY <2>6, <1>0 DEF SaveIncomplete, GoCommit, PrevInv
    <2>7. CASE SaveStopped
      BY <2>7, <1>0 DEF SaveStopped, PrevInv
    <2>8. ASSUME NEW ok \in BOOLEAN, Collect(ok) PROVE PrevInv'
      BY <2>8, <1>0 DEF Collect, Return, Gone, PrevInv
    <2>9. CASE Except
      BY <2>9, <1>0 DEF Except, Return, Gone, PrevInv
    <2> QED BY <1>3, <2>1, <2>2, <2>3, <2>4, <2>5, <2>6, <2>7, <2>8, <2>9 DEF Stop
  <1>4. CASE Resume
    <2>1. CASE ResumeState \/ ResumeStart \/ ResumeVerify \/ ResumeRoute \/ ResumeObs
      BY <2>1, <1>0 DEF ResumeState, localVars, ResumeStart, ResumeVerify, ResumeRoute, ResumeObs,
            PrevInv
    <2>2. CASE ResumePrep
      <3>1. session'.prevPhase = session.prevPhase
        BY <2>2, ResumePrepEffect, <1>0
      <3>2. CASE Return
        BY <3>1, <3>2, <1>0 DEF Return, Gone, PrevInv
      <3>3. CASE ~Return
        BY <2>2, <3>1, <3>3, ResumePrepEffect, <1>0 DEF PrevInv
      <3> QED BY <3>2, <3>3
    <2>3. CASE ResumeRead
      BY <2>3, <1>0 DEF ResumeRead, PrevInv
    <2>4. CASE ResumeLock
      <3>1. session'.prevPhase = session.prevPhase
        BY <2>4, ResumeLockEffect, <1>0
      <3>2. CASE Return
        BY <3>1, <3>2, <1>0 DEF Return, Gone, PrevInv
      <3>3. CASE ~Return
        BY <2>4, <3>1, <3>3, ResumeLockEffect, <1>0 DEF PrevInv
      <3> QED BY <3>2, <3>3
    <2>5. CASE ResumeActive
      BY <2>5, <1>0 DEF ResumeActive, Return, Gone, PrevInv
    <2>6. CASE ResumeFails
      BY <2>6, <1>0 DEF ResumeFails, Return, Gone, PrevInv
    <2> QED BY <1>4, <2>1, <2>2, <2>3, <2>4, <2>5, <2>6 DEF Resume
  <1>5. CASE GuiStart \/ GuiCrash \/ GuiObserve \/ GuiAttach \/ ExitRequest \/ ResumeCall
    <2>1. CASE GuiObserve \/ GuiAttach \/ ExitRequest
      BY <2>1, <1>0 DEF GuiObserve, GuiAttach, ExitRequest, Begin, PrevInv
    <2>2. CASE GuiStart
      BY <2>2, <1>0 DEF GuiStart, Gone, PrevInv
    <2>3. CASE GuiCrash
      BY <2>3, <1>0 DEF GuiCrash, Gone, PrevInv
    <2>4. CASE ResumeCall
      BY <2>4, <1>0 DEF ResumeCall, Begin, suspended, PrevInv
    <2> QED BY <1>5, <2>1, <2>2, <2>3, <2>4
  <1>6. CASE User
    BY <1>6, Frames, <1>0 DEF PrevInv
  <1>7. CASE Off
    <2>1. CASE OffRoute
      BY <2>1, <1>0 DEF OffRoute, PrevInv
    <2>2. ASSUME NEW kind \in {"turn_off", "restore"}, OffStart(kind) PROVE PrevInv'
      BY <2>2, <1>0 DEF OffStart, OwnerAlive, PrevInv
    <2>3. CASE OffObs
      BY <2>3, <1>0 DEF OffObs, PrevInv
    <2> QED BY <1>7, <2>1, <2>2, <2>3 DEF Off
  <1>8. CASE UNCHANGED vars
    BY <1>8, <1>0 DEF vars, PrevInv
  <1> QED BY <1>1, <1>2, <1>3, <1>4, <1>5, <1>6, <1>7, <1>8 DEF Next, Gui

\* A step that gives a direct route up to an active journal, or drops its
\* intent, is a step of recover_direct.
LEMMA JournalStep ==
    TypeOK /\ OpInv /\ ClosedInv /\ PrevInv /\ JournalInv /\ CallInv /\ [Next]_vars =>
    JournalInv'
  <1> SUFFICES ASSUME TypeOK, OpInv, ClosedInv, PrevInv, JournalInv, CallInv, [Next]_vars PROVE JournalInv'
    OBVIOUS
  <1> USE DEF guiVars, offVars, relayVars, userVars, envVars, fileVars, Undisturbed, Prepared,
       Copying, Restoring
  <1>0. /\ session \in Session /\ data \in Session /\ route \in {"proxy", "direct", "custom"}
        /\ prev \in [phase: Phases, committed: BOOLEAN] /\ ctl.committed \in BOOLEAN
        /\ after \in {"none", "sendDrain", "saveIncomplete", "saveStopped"}
        /\ pc \in {"waitUpdate", "prepare"} => session.op # ops
        /\ session.phase \in Phases /\ session.prevPhase \in Phases /\ session.resume \in BOOLEAN
    BY DEF TypeOK, OpInv, Session
  <1>p. Suspended = {"preparing", "closing", "stopped", "failed", "resuming"}
    BY DEF Suspended, Phases
  <1>j. TypeOK /\ JournalInv /\ CallInv /\ PrevInv
    OBVIOUS
  <1>c. pc = "route" => session.phase = "closing"
    BY DEF ClosedInv, Committed
  <1>1. CASE Relay
    BY <1>1, Frames, <1>0, <1>p, <1>j DEF JournalInv, CallInv
  <1>2. CASE Update
    BY <1>2, Frames, <1>0, <1>p, <1>j DEF JournalInv, CallInv
  <1>3. CASE Stop
    <2>1. CASE Checkpoint \/ StopFails \/ WaitUpdate \/ Decide \/ Drain \/ CommitObs \/ SendDrain \/
            Watch \/ SaveRead \/ (\E ok \in BOOLEAN : Collect(ok))
      BY <2>1, <1>0, <1>p, <1>j DEF Checkpoint, Raise, localVars, StopFails, WaitUpdate, Decide,
            Drain, CommitObs, SendDrain, Watch, SaveRead, Collect, JournalInv, CallInv
    <2>2. CASE Prepare
      <3>1. CASE pc' = "except"
        BY <2>2, <3>1, PrepareEffect, <1>0, <1>p, <1>j DEF JournalInv
      <3>2. CASE pc' # "except"
        <4>1. /\ UNCHANGED <<route, offVars>> /\ session'.phase = "preparing" /\ session'.prevPhase = prev'.phase
              /\ prev'.phase = IF session.phase = "preparing" THEN session.prevPhase ELSE session.phase
              /\ prev'.phase = "active" => session'.resume = (route = "proxy")
              /\ prev'.phase # "active" => session'.resume = session.resume
          BY <2>2, <3>2, PrepareEffect, <1>j
        <4>2. CASE prev'.phase = "active"
          <5>1. Undisturbed => route # "direct"
            BY <4>1, <4>2, <1>0, <1>p, <1>j DEF JournalInv
          <5> QED BY <4>1, <4>2, <5>1, <1>0, <1>p DEF JournalInv
        <4>3. CASE prev'.phase # "active"
          <5>1. session.phase \in Suspended
            BY <4>1, <4>3, <1>0, <1>p DEF Phases
          <5> QED BY <4>1, <4>3, <5>1, <1>0, <1>p, <1>j DEF JournalInv
        <4> QED BY <4>2, <4>3
      <3> QED BY <3>1, <3>2
    <2>3. CASE Capture
      BY <2>3, CaptureEffect, <1>0, <1>p, <1>j DEF SameIntent, JournalInv, CallInv, PrevInv
    <2>4. CASE Commit
      <3>1. CASE pc' = "except"
        BY <2>4, <3>1, CommitEffect, <1>0, <1>p, <1>j DEF JournalInv
      <3>2. CASE pc' # "except"
        <4>1. /\ UNCHANGED <<route, offVars>> /\ session'.phase = "closing"
              /\ session'.resume = session.resume /\ pc = "commit"
          BY <2>4, <3>2, CommitEffect, <1>j DEF Commit
        <4>2. Undisturbed => session.phase \in Suspended
          BY <4>1, <1>j DEF CallInv
        <4> QED BY <4>1, <4>2, <1>0, <1>p, <1>j DEF JournalInv
      <3> QED BY <3>1, <3>2
    <2>5. CASE CommitRoute
      <3>1. /\ UNCHANGED <<session, offVars>> /\ pc = "route"
            /\ route' \in {"direct", route} /\ (route' = "direct" => route \in {"direct", "proxy"})
        BY <2>5, <1>0 DEF CommitRoute, localVars
      <3>2. Undisturbed => session.phase \in Suspended /\ session.phase # "preparing"
        BY <3>1, <1>c, <1>j DEF CallInv
      <3> QED BY <3>1, <3>2, <1>0, <1>p, <1>j DEF JournalInv
    <2>6. CASE SaveIncomplete
      BY <2>6, <1>0, <1>p, <1>j DEF SaveIncomplete, GoCommit, JournalInv, CallInv
    <2>7. CASE SaveStopped
      BY <2>7, <1>0, <1>p, <1>j DEF SaveStopped, JournalInv, CallInv
    <2>8. CASE Except
      <3>1. CASE session.op # ops
        BY <2>8, <3>1, ExceptEffect, <1>0, <1>p, <1>j DEF JournalInv
      <3>2. CASE session.op = ops
        <4>1. /\ UNCHANGED <<route, offVars>> /\ pc = "except"
              /\ session'.phase = (IF ctl.committed THEN "failed" ELSE prev.phase)
              /\ session'.resume = session.resume /\ prev.phase \in Phases
          BY <2>8, <3>2, ExceptEffect, <1>0, <1>j
        <4>2. Undisturbed => /\ session.phase \in Suspended
                             /\ route = "direct" => session'.phase # "active"
          BY <4>1, <3>2, <1>p, <1>j DEF CallInv
        <4>3. session'.phase # "preparing" /\ session'.phase \in Phases
          BY <4>1, <1>j DEF PrevInv, Phases
        <4> QED BY <4>1, <4>2, <4>3, <1>0, <1>p, <1>j DEF JournalInv, Phases
      <3> QED BY <3>1, <3>2
    <2> QED BY <1>3, <2>1, <2>2, <2>3, <2>4, <2>5, <2>6, <2>7, <2>8 DEF Stop
  <1>4. CASE Resume
    <2>1. CASE ResumeRead \/ ResumeState \/ ResumeStart \/ ResumeVerify \/ ResumeObs
      BY <2>1, <1>0, <1>p, <1>j DEF ResumeRead, ResumeState, localVars, ResumeStart, ResumeVerify,
            ResumeObs, JournalInv, CallInv
    <2>2. CASE ResumePrep
      <3>1. /\ UNCHANGED <<route, offVars>>
            /\ \/ session' = session
               \/ /\ session'.phase = session.prevPhase /\ session'.resume = session.resume
                  /\ session.phase = "preparing"
        BY <2>2, ResumePrepEffect, <1>j
      <3>2. session.prevPhase # "preparing"
        BY <1>j DEF PrevInv
      <3>3. CASE session' = session
        BY <3>1, <3>3, <1>j DEF JournalInv
      <3>4. CASE session' # session
        BY <3>1, <3>2, <3>4, <1>0, <1>p, <1>j DEF JournalInv, Phases
      <3> QED BY <3>3, <3>4
    <2>3. CASE ResumeLock
      BY <2>3, ResumeLockEffect, <1>0, <1>p, <1>j
         DEF Return, Gone, mayResume, JournalInv, CallInv, PrevInv
    <2>4. CASE ResumeRoute
      BY <2>4, <1>0, <1>p, <1>j DEF ResumeRoute, localVars, JournalInv, CallInv
    <2>5. CASE ResumeActive
      BY <2>5, <1>0, <1>p, <1>j DEF ResumeActive, Return, Gone, JournalInv, CallInv
    <2>6. CASE ResumeFails
      BY <2>6, <1>0, <1>p, <1>j DEF ResumeFails, Return, Gone, JournalInv, CallInv
    <2> QED BY <1>4, <2>1, <2>2, <2>3, <2>4, <2>5, <2>6 DEF Resume
  <1>5. CASE GuiStart \/ GuiCrash \/ GuiObserve \/ GuiAttach \/ ExitRequest \/ ResumeCall
    <2>1. CASE GuiStart \/ GuiCrash \/ GuiObserve \/ GuiAttach \/ ExitRequest \/ ResumeCall
      BY <2>1, <1>0, <1>p, <1>j DEF GuiStart, GuiCrash, GuiObserve, GuiAttach, ExitRequest, Begin,
            ResumeCall, JournalInv, CallInv
    <2> QED BY <1>5, <2>1
  <1>6. CASE User
    <2>1. CASE CancelRequest \/ ForceRequest
      BY <2>1, <1>0, <1>p, <1>j DEF CancelRequest, ForceRequest, JournalInv, CallInv
    <2>2. CASE UserEdit
      BY <2>2, <1>0, <1>p, <1>j DEF UserEdit, JournalInv, CallInv
    <2> QED BY <1>6, <2>1, <2>2 DEF User
  <1>7. CASE Off
    <2>1. ASSUME NEW kind \in {"turn_off", "restore"}, OffStart(kind) PROVE JournalInv'
      BY <2>1, <1>0, <1>p, <1>j DEF OffStart, OwnerAlive, JournalInv, CallInv
    <2>2. CASE OffRoute
      BY <2>2, <1>0, <1>p, <1>j DEF OffRoute, JournalInv, CallInv
    <2>3. CASE OffObs
      BY <2>3, <1>0, <1>p, <1>j DEF OffObs, JournalInv, CallInv
    <2> QED BY <1>7, <2>1, <2>2, <2>3 DEF Off
  <1>8. CASE UNCHANGED vars
    BY <1>8, <1>0, <1>p, <1>j DEF vars, JournalInv, CallInv
  <1> QED BY <1>1, <1>2, <1>3, <1>4, <1>5, <1>6, <1>7, <1>8 DEF Next, Gui

\* Between reading the journal and writing it back nobody else writes it.
LEMMA CallStep ==
    TypeOK /\ OpInv /\ CancelInv /\ PrevInv /\ JournalInv /\ CallInv /\ [Next]_vars => CallInv'
  <1> SUFFICES ASSUME TypeOK, OpInv, CancelInv, PrevInv, JournalInv, CallInv, [Next]_vars PROVE CallInv'
    OBVIOUS
  <1> USE DEF guiVars, offVars, relayVars, userVars, envVars, fileVars, Undisturbed, Prepared,
       Copying, Restoring
  <1>0. /\ session \in Session /\ data \in Session /\ route \in {"proxy", "direct", "custom"}
        /\ prev \in [phase: Phases, committed: BOOLEAN] /\ ctl.committed \in BOOLEAN
        /\ after \in {"none", "sendDrain", "saveIncomplete", "saveStopped"}
        /\ pc \in {"waitUpdate", "prepare"} => session.op # ops
        /\ session.phase \in Phases /\ session.prevPhase \in Phases /\ session.resume \in BOOLEAN
    BY DEF TypeOK, OpInv, Session
  <1>p. Suspended = {"preparing", "closing", "stopped", "failed", "resuming"}
    BY DEF Suspended, Phases
  <1>j. TypeOK /\ JournalInv /\ CallInv /\ PrevInv /\ (pc \in Committed => ctl.committed)
    BY DEF CancelInv
  <1>1. CASE Relay
    BY <1>1, Frames, <1>0, <1>p, <1>j DEF CallInv
  <1>2. CASE Update
    BY <1>2, Frames, <1>0, <1>p, <1>j DEF CallInv
  <1>3. CASE Stop
    <2>1. CASE Checkpoint
      BY <2>1, <1>0, <1>p, <1>j DEF Checkpoint, Raise, localVars, CallInv
    <2>2. CASE StopFails
      BY <2>2, <1>0, <1>p, <1>j DEF StopFails, localVars, CallInv
    <2>3. CASE WaitUpdate
      BY <2>3, <1>0, <1>p, <1>j DEF WaitUpdate, localVars, CallInv
    <2>4. CASE Prepare
      <3>1. CASE pc' = "except"
        <4>1. UNCHANGED <<session, ops, offVars>> /\ pc = "prepare"
          BY <2>4, <3>1, PrepareEffect, <1>j DEF Prepare
        <4> QED BY <3>1, <4>1, <1>0 DEF CallInv
      <3>2. CASE pc' # "except"
        <4>1. /\ UNCHANGED <<route, ops, ctl, offVars>> /\ session'.phase = "preparing" /\ pc' = "capture"
              /\ prev'.phase = IF session.phase = "preparing" THEN session.prevPhase ELSE session.phase
              /\ session'.op = ops
          BY <2>4, <3>2, PrepareEffect, <1>j
        <4>2. Undisturbed /\ route = "direct" => prev'.phase # "active"
          BY <4>1, <1>p, <1>j DEF JournalInv
        <4> QED BY <4>1, <4>2, <1>p DEF CallInv
      <3> QED BY <3>1, <3>2
    <2>5. CASE Capture
      <3>1. /\ pc' \in {"except", "decide"} /\ SameIntent(session', session)
            /\ UNCHANGED <<route, ops, ctl, prev, offVars>> /\ pc = "capture"
        BY <2>5, CaptureEffect, <1>j DEF Capture
      <3> QED BY <3>1, <1>p, <1>j DEF SameIntent, CallInv
    <2>6. CASE Decide
      BY <2>6, <1>0, <1>p, <1>j DEF Decide, GoCommit, stopped, released, CallInv
    <2>7. CASE Drain
      BY <2>7, <1>0, <1>p, <1>j DEF Drain, GoCommit, stopped, released, Answers, CallInv
    <2>8. CASE Commit
      <3>1. CASE pc' = "except"
        <4>1. UNCHANGED <<route, session, ops, ctl, prev, offVars>> /\ pc = "commit"
          BY <2>8, <3>1, CommitEffect, <1>j DEF Commit
        <4> QED BY <3>1, <4>1, <1>j DEF CallInv
      <3>2. CASE pc' # "except"
        <4>1. /\ UNCHANGED <<route, ops, offVars>> /\ session'.phase = "closing" /\ pc' = "route"
              /\ session'.op = ops /\ ctl'.committed
          BY <2>8, <3>2, CommitEffect, <1>j DEF Commit
        <4> QED BY <4>1, <1>p DEF CallInv
      <3> QED BY <3>1, <3>2
    <2>9. CASE CommitRoute
      BY <2>9, <1>0, <1>p, <1>j DEF CommitRoute, localVars, Committed, CallInv, JournalInv
    <2>10. CASE CommitObs
      BY <2>10, <1>0, <1>p, <1>j DEF CommitObs, localVars, CallInv
    <2>11. CASE SendDrain
      BY <2>11, <1>0, <1>p, <1>j DEF SendDrain, localVars, CallInv
    <2>12. CASE Watch
      BY <2>12, <1>0, <1>p, <1>j DEF Watch, stopped, released, Answers, CallInv
    <2>13. CASE SaveRead
      BY <2>13, <1>0, <1>p, <1>j DEF SaveRead, CallInv
    <2>14. CASE SaveIncomplete
      BY <2>14, <1>0, <1>p, <1>j DEF SaveIncomplete, GoCommit, CallInv
    <2>15. CASE SaveStopped
      BY <2>15, <1>0, <1>p, <1>j DEF SaveStopped, CallInv
    <2>16. ASSUME NEW ok \in BOOLEAN, Collect(ok) PROVE CallInv'
      BY <2>16, <1>0, <1>p, <1>j DEF Collect, Return, Gone, CallInv
    <2>17. CASE Except
      BY <2>17, ExceptEffect, <1>0, <1>p, <1>j DEF CallInv, JournalInv, PrevInv
    <2> QED BY <1>3, <2>1, <2>2, <2>3, <2>4, <2>5, <2>6, <2>7, <2>8, <2>9, <2>10, <2>11, <2>12,
           <2>13, <2>14, <2>15, <2>16, <2>17 DEF Stop
  <1>4. CASE Resume
    <2>1. CASE ResumePrep
      BY <2>1, ResumePrepEffect, <1>0, <1>p, <1>j DEF Return, Gone, CallInv, JournalInv, PrevInv
    <2>2. CASE ResumeRead
      BY <2>2, <1>0, <1>p, <1>j DEF ResumeRead, CallInv
    <2>3. CASE ResumeLock
      BY <2>3, ResumeLockEffect, <1>0, <1>p, <1>j
         DEF Return, Gone, mayResume, CallInv, JournalInv, PrevInv
    <2>4. CASE ResumeState
      BY <2>4, <1>0, <1>p, <1>j DEF ResumeState, localVars, CallInv
    <2>5. CASE ResumeStart
      BY <2>5, <1>0, <1>p, <1>j DEF ResumeStart, localVars, Launch, CallInv
    <2>6. CASE ResumeVerify
      BY <2>6, <1>0, <1>p, <1>j DEF ResumeVerify, localVars, CallInv
    <2>7. CASE ResumeRoute
      BY <2>7, <1>0, <1>p, <1>j DEF ResumeRoute, localVars, CallInv
    <2>8. CASE ResumeObs
      BY <2>8, <1>0, <1>p, <1>j DEF ResumeObs, localVars, CallInv
    <2>9. CASE ResumeActive
      BY <2>9, <1>0, <1>p, <1>j DEF ResumeActive, Return, Gone, CallInv
    <2>10. CASE ResumeFails
      BY <2>10, <1>0, <1>p, <1>j DEF ResumeFails, Return, Gone, CallInv
    <2> QED BY <1>4, <2>1, <2>2, <2>3, <2>4, <2>5, <2>6, <2>7, <2>8, <2>9, <2>10 DEF Resume
  <1>5. CASE GuiStart \/ GuiCrash \/ GuiObserve \/ GuiAttach \/ ExitRequest \/ ResumeCall
    <2>1. CASE GuiObserve \/ GuiAttach
      BY <2>1, <1>0, <1>p, <1>j DEF GuiObserve, GuiAttach, CallInv
    <2>2. CASE GuiStart
      BY <2>2, <1>0, <1>p, <1>j DEF GuiStart, Gone, CallInv
    <2>3. CASE GuiCrash
      BY <2>3, <1>0, <1>p, <1>j DEF GuiCrash, Gone, CallInv
    <2>4. CASE ExitRequest
      BY <2>4, <1>0, <1>p, <1>j DEF ExitRequest, Begin, CallInv
    <2>5. CASE ResumeCall
      BY <2>5, <1>0, <1>p, <1>j DEF ResumeCall, Begin, suspended, CallInv
    <2> QED BY <1>5, <2>1, <2>2, <2>3, <2>4, <2>5
  <1>6. CASE User
    <2>1. CASE ForceRequest
      BY <2>1, <1>0, <1>p, <1>j DEF ForceRequest, CallInv
    <2>2. CASE CancelRequest
      BY <2>2, <1>0, <1>p, <1>j DEF CancelRequest, CallInv
    <2>3. CASE UserEdit
      BY <2>3, <1>0, <1>p, <1>j DEF UserEdit, CallInv
    <2> QED BY <1>6, <2>1, <2>2, <2>3 DEF User
  <1>7. CASE Off
    <2>1. ASSUME NEW kind \in {"turn_off", "restore"}, OffStart(kind) PROVE CallInv'
      BY <2>1, <1>0, <1>p, <1>j DEF OffStart, OwnerAlive, CallInv
    <2>2. CASE OffRoute
      BY <2>2, <1>0, <1>p, <1>j DEF OffRoute, CallInv
    <2>3. CASE OffObs
      BY <2>3, <1>0, <1>p, <1>j DEF OffObs, CallInv
    <2> QED BY <1>7, <2>1, <2>2, <2>3 DEF Off
  <1>8. CASE UNCHANGED vars
    BY <1>8, <1>0, <1>p, <1>j DEF vars, CallInv
  <1> QED BY <1>1, <1>2, <1>3, <1>4, <1>5, <1>6, <1>7, <1>8 DEF Next, Gui

\* An off or an edit that nobody overlooked is seen by whatever is read later:
\* no copy of the journal and no test of the route dates from before it.
LEMMA OverrideStep == TypeOK /\ LockInv /\ ServeInv /\ OverrideInv /\ [Next]_vars => OverrideInv'
  <1> SUFFICES ASSUME TypeOK, LockInv, ServeInv, OverrideInv, [Next]_vars PROVE OverrideInv'
    OBVIOUS
  <1> USE DEF guiVars, offVars, relayVars, userVars, envVars, fileVars, Session, FreshSession,
       Copying, Restoring, OverridesStick, OffSeen, EditSeen, HoldsRoute, HoldsJournal
  <1>0. /\ TypeOK /\ OverrideInv /\ session \in Session /\ data \in Session
        /\ after \in {"none", "sendDrain", "saveIncomplete", "saveStopped"}
        /\ lock = "free" => off = "idle"
        /\ lock = "gui" => off = "idle"
        /\ off = "obs" => route # "proxy"
    BY DEF TypeOK, LockInv, ServeInv
  <1>1. CASE Relay
    BY <1>1, Frames, <1>0 DEF OverrideInv
  <1>2. CASE Update
    BY <1>2, Frames, <1>0 DEF OverrideInv
  <1>3. CASE Stop
    <2>1. CASE Checkpoint
      BY <2>1, <1>0 DEF Checkpoint, Raise, localVars, OverrideInv
    <2>2. CASE StopFails
      BY <2>2, <1>0 DEF StopFails, localVars, OverrideInv
    <2>3. CASE WaitUpdate
      BY <2>3, <1>0 DEF WaitUpdate, localVars, OverrideInv
    <2>4. CASE Prepare
      <3>1. pc = "prepare" /\ off = "idle"
        BY <2>4, <1>0 DEF Prepare
      <3> QED BY <3>1, <2>4, PrepareEffect, <1>0 DEF OverrideInv, OverridesStick, Copying, Restoring
    <2>5. CASE Capture
      BY <2>5, CaptureEffect, <1>0 DEF SameIntent, OverrideInv, OverridesStick, Copying, Restoring
    <2>6. CASE Decide
      BY <2>6, <1>0 DEF Decide, GoCommit, stopped, released, OverrideInv
    <2>7. CASE Drain
      BY <2>7, <1>0 DEF Drain, GoCommit, stopped, released, Answers, OverrideInv
    <2>8. CASE Commit
      BY <2>8, CommitEffect, <1>0 DEF OverrideInv, OverridesStick, Copying, Restoring
    <2>9. CASE CommitRoute
      BY <2>9, <1>0 DEF CommitRoute, localVars, OverrideInv
    <2>10. CASE CommitObs
      BY <2>10, <1>0 DEF CommitObs, localVars, OverrideInv
    <2>11. CASE SendDrain
      BY <2>11, <1>0 DEF SendDrain, localVars, OverrideInv
    <2>12. CASE Watch
      BY <2>12, <1>0 DEF Watch, stopped, released, Answers, OverrideInv
    <2>13. CASE SaveRead
      BY <2>13, <1>0 DEF SaveRead, OverrideInv
    <2>14. CASE SaveIncomplete
      BY <2>14, <1>0 DEF SaveIncomplete, GoCommit, OverrideInv
    <2>15. CASE SaveStopped
      BY <2>15, <1>0 DEF SaveStopped, OverrideInv
    <2>16. ASSUME NEW ok \in BOOLEAN, Collect(ok) PROVE OverrideInv'
      BY <2>16, <1>0 DEF Collect, Return, Gone, OverrideInv
    <2>17. CASE Except
      BY <2>17, ExceptEffect, <1>0 DEF OverrideInv, OverridesStick, Copying, Restoring
    <2> QED BY <1>3, <2>1, <2>2, <2>3, <2>4, <2>5, <2>6, <2>7, <2>8, <2>9, <2>10, <2>11, <2>12,
           <2>13, <2>14, <2>15, <2>16, <2>17 DEF Stop
  <1>4. CASE Resume
    <2>1. CASE ResumePrep
      <3>1. /\ UNCHANGED <<route, offVars, userVars>> /\ session'.resume = session.resume
            /\ pc' = "running" \/ (pc' \in {"waitUpdate", "resumeLock"} /\ data' = session')
        BY <2>1, ResumePrepEffect, <1>0 DEF Return
      <3> QED BY <3>1, <1>0 DEF OverrideInv
    <2>2. CASE ResumeRead
      BY <2>2, <1>0 DEF ResumeRead, OverrideInv
    <2>3. CASE ResumeLock
      <3>1. /\ UNCHANGED <<route, offVars, userVars>> /\ pc = "resumeLock"
            /\ \/ pc' = "running" /\ (session'.resume = FALSE \/ session' = session)
               \/ /\ pc' = "resumeState" /\ data.resume /\ route = "direct"
                  /\ session'.resume = session.resume
        BY <2>3, ResumeLockEffect, <1>0 DEF Return, mayResume
      <3>2. CASE pc' = "running"
        BY <3>1, <3>2, <1>0 DEF OverrideInv
      <3>3. CASE pc' = "resumeState"
        <4>1. ~OffSeen
          BY <3>1, <3>3, <1>0 DEF OverrideInv
        <4>2. ~EditSeen
          BY <3>1, <3>3, <1>0 DEF OverrideInv
        <4> QED BY <3>1, <3>3, <4>1, <4>2, <1>0 DEF OverrideInv
      <3> QED BY <3>1, <3>2, <3>3
    <2>4. CASE ResumeState
      BY <2>4, <1>0 DEF ResumeState, localVars, OverrideInv
    <2>5. CASE ResumeStart
      BY <2>5, <1>0 DEF ResumeStart, localVars, Launch, OverrideInv
    <2>6. CASE ResumeVerify
      BY <2>6, <1>0 DEF ResumeVerify, localVars, OverrideInv
    <2>7. CASE ResumeRoute
      BY <2>7, <1>0 DEF ResumeRoute, localVars, OverrideInv
    <2>8. CASE ResumeObs
      BY <2>8, <1>0 DEF ResumeObs, localVars, OverrideInv
    <2>9. CASE ResumeActive
      BY <2>9, <1>0 DEF ResumeActive, Return, Gone, OverrideInv
    <2>10. CASE ResumeFails
      BY <2>10, <1>0 DEF ResumeFails, Return, Gone, OverrideInv
    <2> QED BY <1>4, <2>1, <2>2, <2>3, <2>4, <2>5, <2>6, <2>7, <2>8, <2>9, <2>10 DEF Resume
  <1>5. CASE GuiStart \/ GuiCrash \/ GuiObserve \/ GuiAttach \/ ExitRequest \/ ResumeCall
    <2>1. CASE GuiObserve \/ GuiAttach
      BY <2>1, <1>0 DEF GuiObserve, GuiAttach, OverrideInv
    <2>2. CASE GuiStart
      BY <2>2, <1>0 DEF GuiStart, Gone, OverrideInv
    <2>3. CASE GuiCrash
      BY <2>3, <1>0 DEF GuiCrash, Gone, OverrideInv
    <2>4. CASE ExitRequest
      BY <2>4, <1>0 DEF ExitRequest, Begin, OverrideInv
    <2>5. CASE ResumeCall
      BY <2>5, <1>0 DEF ResumeCall, Begin, suspended, OverrideInv
    <2> QED BY <1>5, <2>1, <2>2, <2>3, <2>4, <2>5
  <1>6. CASE User
    <2>1. CASE ForceRequest
      BY <2>1, <1>0 DEF ForceRequest, OverrideInv
    <2>2. CASE CancelRequest
      BY <2>2, <1>0 DEF CancelRequest, OverrideInv
    <2>3. CASE UserEdit
      BY <2>3, <1>0 DEF UserEdit, OverrideInv
    <2> QED BY <1>6, <2>1, <2>2, <2>3 DEF User
  <1>7. CASE Off
    <2>1. ASSUME NEW kind \in {"turn_off", "restore"}, OffStart(kind) PROVE OverrideInv'
      <3>1. /\ UNCHANGED <<route, pc, data, wantOff, edited>> /\ lock = "free" /\ ~wantOff
            /\ session'.resume = FALSE
            /\ overlooked' = IF HoldsJournal THEN overlooked \cup {"off"} ELSE overlooked
        BY <2>1, <1>0 DEF OffStart
      <3>2. pc \notin Restoring
        BY <3>1, <1>0 DEF LockInv
      <3>3. "off" \notin overlooked' => pc \notin Copying
        BY <3>1
      <3>4. "edit" \notin overlooked' <=> "edit" \notin overlooked
        BY <3>1
      <3> QED BY <3>1, <3>2, <3>3, <3>4, <1>0 DEF OverrideInv
    <2>2. CASE OffRoute
      BY <2>2, <1>0 DEF OffRoute, OverrideInv
    <2>3. CASE OffObs
      BY <2>3, <1>0 DEF OffObs, OverrideInv
    <2> QED BY <1>7, <2>1, <2>2, <2>3 DEF Off
  <1>8. CASE UNCHANGED vars
    BY <1>8, <1>0 DEF vars, OverrideInv
  <1> QED BY <1>1, <1>2, <1>3, <1>4, <1>5, <1>6, <1>7, <1>8 DEF Next, Gui

----------------------------------------------------------------------------
(* What holds for every value of the constants                             *)

\* AppServices and ExitControl as they are created: no exit has begun.
LEMMA InitHolds == Init => IInv
  <1> SUFFICES ASSUME Init PROVE IInv
    OBVIOUS
  <1> USE BoundsAssumption DEF Init, FreshSession, FreshCtl, None, Instances, Session, Phases
  <1>1. session \in Session /\ data \in Session
    OBVIOUS
  <1>2. relay \in [inst: Instances, st: {"none", "starting", "up", "draining", "closing"}, work: {"idle", "responding", "unknown"}]
    OBVIOUS
  <1>3. control \in [Instances -> {"none", "run", "drain", "force", "stopped", "failed"}]
    OBVIOUS
  <1>4. /\ ctl \in [committed: BOOLEAN, cancelled: BOOLEAN, forced: BOOLEAN]
        /\ prev \in [phase: Phases, committed: BOOLEAN]
    OBVIOUS
  <1>5. /\ run \in 1..MaxRuns /\ ops \in 0..MaxOps /\ source \in 0..MaxInst /\ known \in 0..MaxInst
        /\ events \in 0..MaxEvents /\ flushed \subseteq Instances
    OBVIOUS
  <1>6. TypeOK
    BY <1>1, <1>2, <1>3, <1>4, <1>5 DEF TypeOK
  <1>7. control[1] = "run" /\ \A i \in Instances : control[i] # "stopped"
    OBVIOUS
  <1>8. LockInv /\ AfterInv /\ OpInv /\ ClosedInv /\ CutoverExclusive
    BY DEF LockInv, AfterInv, OpInv, ClosedInv, CutoverExclusive, Prepared, Committed, Restoring
  <1>9. ServeInv /\ RoutedRelayServes
    BY <1>7 DEF ServeInv, RoutedRelayServes
  <1>10. FlushInv /\ CleanExitFlushed /\ CancelInv /\ PrevInv
    BY <1>7 DEF FlushInv, CleanExitFlushed, CancelInv, PrevInv, Committed, Restoring
  <1>11. JournalInv /\ CallInv /\ OverrideInv
    BY 
       DEF JournalInv, CallInv, OverrideInv, OverridesStick, OffSeen, EditSeen, HoldsRoute,
           Undisturbed, Suspended, Copying, Prepared, Restoring
  <1> QED BY <1>6, <1>8, <1>9, <1>10, <1>11 DEF IInv

\* No step of any actor breaks the inductive invariant.
THEOREM Invariance == Spec => []IInv
  <1>1. IInv /\ [Next]_vars => IInv'
    BY TypeStep, LockStep, AfterStep, OpStep, ClosedStep, CutoverStep, ServeStep, ServesStep,
       FlushStep, CleanStep, CancelStep, PrevStep, JournalStep, CallStep, OverrideStep DEF IInv
  <1> QED BY InitHolds, <1>1, PTL DEF Spec

\* commit_route against begin_switch: a cutover and a committed exit never
\* own the route together.
THEOREM CutoverStaysExclusive == Spec => []CutoverExclusive
  <1>1. IInv => CutoverExclusive
    BY DEF IInv
  <1> QED BY <1>1, Invariance, PTL

\* The order of the writes in commit_route, recover_direct and resume_proxy:
\* clients are never pointed at a relay that refuses them.
THEOREM ServesWhileRouted == Spec => []RoutedRelayServes
  <1>1. IInv => RoutedRelayServes
    BY DEF IInv
  <1> QED BY <1>1, Invariance, PTL

\* stop_proxy: an exit without the warning has seen the flush of the instance
\* it stopped.
THEOREM CleanExitHasReceipt == Spec => []CleanExitFlushed
  <1>1. IInv => CleanExitFlushed
    BY DEF IInv
  <1> QED BY <1>1, Invariance, PTL

\* stop_proxy, commit_route and resume_proxy, with any crashes and retries: a
\* route that an exit turned direct is remembered by a suspended journal.
THEOREM IntentIsKept == Spec => []DirectRouteHasResumeIntent
  <1>1. IInv => DirectRouteHasResumeIntent
    BY DEF IInv, JournalInv, DirectRouteHasResumeIntent, Undisturbed, Suspended, suspended, Phases
  <1> QED BY <1>1, Invariance, PTL

\* resume_proxy takes an explicit off and an edited route for what they are, at
\* whatever step of whichever operation they come, but for the two stretches
\* of code that go on with what they read before.
THEOREM OverridesAreFinal == Spec => []OverridesStick
  <1>1. IInv => OverridesStick
    BY DEF IInv, OverrideInv
  <1> QED BY <1>1, Invariance, PTL

\* ExitControl's decision gate: between a cancellation and the end of its
\* exit the lines that run change neither route nor observer state and
\* command no relay.
KeepsServices ==
    ctl.cancelled /\ ctl'.cancelled /\ off = "idle" /\ off' = "idle" /\ edited' = edited
    => route' = route /\ obs' = obs
       /\ \A i \in Instances : control'[i] \notin {"drain", "force"} \/ control'[i] = control[i]

\* After the cancellation only the lines before the decision and the handler
\* run, and they write the journal alone.
LEMMA CancelledStep ==
    ASSUME TypeOK, CancelInv, Next, ctl.cancelled, ctl'.cancelled, off = "idle", off' = "idle", edited' = edited
    PROVE  /\ route' = route /\ obs' = obs
           /\ \A i \in Instances : control'[i] \notin {"drain", "force"} \/ control'[i] = control[i]
  <1> USE DEF fileVars
  <1>0. /\ control \in [Instances -> {"none", "run", "drain", "force", "stopped", "failed"}]
        /\ pc \notin Committed \cup Restoring \cup {"running", "resumePrep", "resumeRead", "resumeLock"}
    BY DEF TypeOK, CancelInv
  <1>1. CASE Relay
    BY <1>1, <1>0
       DEF Relay, RelayBoot, RelayWork, RelayBlur, RelayDone, ClientCloses, RelayNotice,
           RelayExpire, RelayForce, RelayStop, RelayExit, RelayCrash
  <1>2. CASE Update
    BY <1>2, <1>0 DEF Update, UpdateCutover, UpdateSettle
  <1>3. CASE Stop
    <2>1. ASSUME NEW ok \in BOOLEAN, Collect(ok) PROVE UNCHANGED <<route, obs, control>>
      BY <2>1 DEF Collect
    <2>2. CASE Prepare
      BY <2>2 DEF Prepare, Raise
    <2>3. CASE Checkpoint \/ StopFails \/ WaitUpdate \/ Capture \/ Decide \/ Drain \/ Except
      BY <2>3 DEF Checkpoint, Raise, StopFails, WaitUpdate, Capture, Decide, Drain, Except
    <2>4. CASE Commit
      BY <2>4 DEF Commit, Raise
    <2>5. CASE SaveRead \/ SaveIncomplete \/ SaveStopped
      BY <2>5 DEF SaveRead, SaveIncomplete, SaveStopped
    <2>6. CASE CommitRoute \/ CommitObs \/ SendDrain \/ Watch
      BY <2>6, <1>0 DEF CommitRoute, CommitObs, SendDrain, Watch, Committed
    <2> QED BY <1>3, <2>1, <2>2, <2>3, <2>4, <2>5, <2>6 DEF Stop
  <1>4. CASE Resume
    BY <1>4, <1>0 DEF Resume, ResumePrep, ResumeRead, ResumeLock, ResumeState, ResumeStart,
                      ResumeVerify, ResumeRoute, ResumeObs, ResumeActive, ResumeFails, Restoring
  <1>5. CASE GuiStart \/ GuiCrash \/ GuiObserve \/ GuiAttach \/ ExitRequest \/ ResumeCall
    BY <1>5 DEF GuiStart, GuiCrash, GuiObserve, GuiAttach, ExitRequest, ResumeCall
  <1>6. CASE User
    BY <1>6 DEF User, CancelRequest, ForceRequest, UserEdit
  <1>7. CASE Off
    BY <1>7 DEF Off, OffStart, OffRoute, OffObs
  <1> QED BY <1>1, <1>2, <1>3, <1>4, <1>5, <1>6, <1>7 DEF Next, Gui

\* request_cancel and commit_route share the gate: a cancelled exit touches
\* no service.
THEOREM CancelledExitKeepsServices == Spec => CancelKeepsServices
  <1>1. IInv /\ [Next]_vars => [KeepsServices]_vars
    BY CancelledStep DEF IInv, KeepsServices
  <1>2. Spec => [][KeepsServices]_vars
    BY <1>1, Invariance, PTL DEF Spec
  <1> QED BY <1>2 DEF CancelKeepsServices, KeepsServices

=============================================================================
