-------------------------- MODULE ProxyUpdateProofs --------------------------
(***************************************************************************)
(* What a replacement of the relay leaves of its source, and that a        *)
(* cancellation which was accepted prevents it, for any number of relays,  *)
(* operations, retries, deaths of the updater and faults.                  *)
(***************************************************************************)
EXTENDS ProxyUpdate, TLAPS

-----------------------------------------------------------------------------
(* The inductive invariant, one definition per idea                         *)

Phases == BUSY \cup TERMINAL \cup {"none"}
JT == [phase: Phases, op: Int, src: 0..MaxInst, inst: 0..MaxInst, cut: BOOLEAN, cancel: BOOLEAN,
       rb: BOOLEAN, interrupted: BOOLEAN, restored: BOOLEAN, fenced: BOOLEAN]
AT == [op: Int, phase: ACTIVE \cup {"none", "complete", "failed", "deferred", "interrupted"},
       cut: BOOLEAN, cancel: BOOLEAN]
ResultT == [phase: Phases \cup {"interrupted"}, op: Int, cut: BOOLEAN, stale: BOOLEAN]
Types ==
    /\ J \in JT /\ A \in AT /\ pend \in ResultT
    /\ status \in [Insts -> {"absent", "booting", "up", "bad", "draining", "stopped", "dead"}]
    /\ ver \in [Insts -> {"old", "new"}] /\ enabled \in BOOLEAN

(* The address has one relay at a time. *)
OneRelay == \A i, j \in Alive : i = j

(* What the updater knows of its journal where it stands. *)
Working == {"check", "capture", "decide", "drain", "bs1", "bs2", "bs3", "send", "switch", "start", "launch",
            "launched", "verify", "rb", "rb1", "rb3", "rb4", "rb5", "except"}
Places == Working \cup {"off", "begin", "finish"}
PlaceInv ==
    /\ upc \in Places
    /\ watchdog \/ upc # "off" => J.phase # "none"
    /\ upc \in Working => J.phase \in BUSY
    /\ upc \in Working \ {"check", "capture", "except"} => J.src # 0
    /\ upc \in {"bs1", "bs2", "bs3"} => back \in {"send", "start"}
    /\ upc \in {"bs3", "send", "start", "launch", "launched", "verify"} => J.cut

(* Between the two writes of begin_switch the app journal alone has the     *)
(* cutover, and it cannot be cancelled.                                     *)
SwitchInv ==
    upc = "bs2" => pend = Nothing /\ (~J.cut => A.cut /\ ~A.cancel /\ A.phase = "switching")

(* While the route is on, only a cutover drains a relay, and its journal is *)
(* one that the next attempt recovers.                                      *)
DrainInv ==
    enabled /\ (\E i \in Insts : status[i] = "draining") =>
        J.cut /\ J.src # 0 /\ J.phase \in BUSY \cup {"failed"} /\ ~J.restored

(* What became of the source. *)
SourceInv ==
    /\ J.restored => J.phase = "failed"
    /\ J.src # 0 =>
         /\ status[J.src] # "absent"
         /\ ~J.cut /\ enabled => status[J.src] \in {"up", "bad", "dead"}
         /\ J.phase = "complete" \/ J.restored => status[J.src] \in {"stopped", "dead"}

(* A step that gives the proxy journal the cutover is the second write.     *)
CutKept == J'.cut => J.cut \/ upc = "bs2"

IInv == Types /\ OneRelay /\ PlaceInv /\ SwitchInv /\ DrainInv /\ SourceInv

-----------------------------------------------------------------------------
(* Journals, results and relays                                             *)

(* A published journal keeps everything but the marks of a publish, and its *)
(* result is on its way.                                                    *)
LEMMA PublishFacts ==
    ASSUME NEW new \in JT, NEW next, Publish(new, next)
    PROVE  /\ J' \in JT /\ J'.phase = new.phase /\ J'.op = new.op /\ J'.src = new.src /\ J'.cut = new.cut
           /\ J'.restored = new.restored
           /\ pend' \in ResultT /\ pend'.phase = new.phase
           /\ upc' = next
  <1> DEFINE rb == IF new.phase = "rollback" THEN TRUE ELSE IF new.phase \in TERMINAL THEN FALSE ELSE new.rb
             j == [new EXCEPT !.interrupted = FALSE, !.fenced = FALSE, !.rb = rb]
  <1>1. J' = j /\ pend' = [phase |-> j.phase, op |-> j.op, cut |-> j.cut, stale |-> FALSE] /\ upc' = next
    BY DEF Publish
  <1>2. rb \in BOOLEAN
    BY DEF JT
  <1>3. j \in JT /\ j.phase = new.phase /\ j.op = new.op /\ j.src = new.src /\ j.cut = new.cut
        /\ j.restored = new.restored
    <2> HIDE DEF rb
    <2> QED BY <1>2 DEF JT
  <1>4. j.phase \in Phases /\ j.op \in Int /\ j.cut \in BOOLEAN
    BY <1>3 DEF JT
  <1> HIDE DEF j
  <1> QED BY <1>1, <1>3, <1>4 DEF ResultT

(* A journal with another phase.                                            *)
LEMMA PhaseFacts ==
    ASSUME J \in JT, NEW ph \in Phases
    PROVE  LET j == [J EXCEPT !.phase = ph]
           IN  /\ j \in JT /\ j.phase = ph /\ j.op = J.op /\ j.src = J.src /\ j.cut = J.cut
               /\ j.restored = J.restored
  BY DEF JT

(* The app journal takes a result or not, and stays one.                    *)
LEMMA ResultFacts ==
    ASSUME A \in AT, NEW r \in ResultT, proxy_result(r)
    PROVE  A' \in AT
  <1>1. mapped(r.phase) \in ACTIVE \cup {"none", "complete", "failed", "deferred", "interrupted"}
    <2>1. CASE r.phase \in {"queued", "cancelled"}
      BY <2>1 DEF mapped, ACTIVE
    <2>2. CASE r.phase \notin {"queued", "cancelled"}
      BY <2>2 DEF mapped, ResultT, Phases, BUSY, TERMINAL, ACTIVE
    <2> QED BY <2>1, <2>2
  <1>2. CASE takes(r)
    <2>1. A' = [A EXCEPT !.phase = mapped(r.phase), !.cut = r.cut,
                         !.cancel = A.cancel /\ r.phase \notin TERMINAL]
      BY <1>2 DEF proxy_result
    <2> QED BY <1>1, <2>1 DEF AT, ResultT
  <1>3. CASE ~takes(r)
    BY <1>3 DEF proxy_result
  <1> QED BY <1>2, <1>3

(* What answers on the address is a relay that listens, the only one.       *)
LEMMA HealthFacts ==
    ASSUME Types, OneRelay
    PROVE  /\ health \in 0..MaxInst
           /\ health # 0 => health \in Insts /\ status[health] \in {"up", "bad", "draining"}
           /\ \A i \in Insts : status[i] \in {"up", "bad", "draining"} => health = i
           /\ \A i \in Insts : health # 0 /\ i # health => status[i] \notin {"booting", "up", "bad", "draining"}
  <1>1. Insts \subseteq 1..MaxInst /\ MaxInst \in Nat
    BY BoundsAssumption DEF Insts
  <1>2. health # 0 => health \in Listening
    BY <1>1 DEF health, Listening
  <1>3. \A i \in Listening : health = i
    <2> SUFFICES ASSUME NEW i \in Listening PROVE health = i
      OBVIOUS
    <2>1. health \in Listening
      BY DEF health
    <2>2. Listening \subseteq Alive
      BY DEF Listening, Alive
    <2> QED BY <2>1, <2>2 DEF OneRelay
  <1>4. \A i \in Insts : health # 0 /\ i # health => i \notin Alive
    BY <1>2 DEF OneRelay, Alive, Listening
  <1> QED BY <1>1, <1>2, <1>3, <1>4 DEF Listening, Alive, Insts

(* A launch gives the address, if nobody has it, to an instance that never  *)
(* ran; the others keep their state.                                        *)
LEMMA LaunchFacts ==
    ASSUME Types, OneRelay, NEW v \in {"old", "new"}, Launch(v)
    PROVE  /\ status' \in [Insts -> {"absent", "booting", "up", "bad", "draining", "stopped", "dead"}]
           /\ ver' \in [Insts -> {"old", "new"}]
           /\ OneRelay'
           /\ \A i \in Insts : status[i] # "absent" => status'[i] = status[i]
           /\ \A i \in Insts : status'[i] # status[i] => status'[i] = "booting"
  <1>1. CASE Alive = {} /\ \E i \in Insts : status[i] = "absent"
    <2>1. PICK i \in Insts : /\ status[i] = "absent"
                             /\ status' = [status EXCEPT ![i] = "booting"] /\ ver' = [ver EXCEPT ![i] = v]
      BY <1>1 DEF Launch
    <2>2. Alive' \subseteq {i}
      BY <1>1, <2>1 DEF Alive, Types
    <2> QED BY <2>1, <2>2 DEF Types, OneRelay
  <1>2. CASE ~(Alive = {} /\ \E i \in Insts : status[i] = "absent")
    BY <1>2 DEF Launch, relayVars, Types, OneRelay, Alive
  <1> QED BY <1>1, <1>2

(* The system starts in order.                                              *)
LEMMA InitHolds == Init => IInv
  <1> SUFFICES ASSUME Init PROVE IInv
    OBVIOUS
  <1>1. MaxInst \in Nat /\ MaxInst # 0
    BY BoundsAssumption
  <1>2. Types
    <2>1. J \in JT
      BY <1>1 DEF Init, JT, Phases
    <2>2. A \in AT /\ pend \in ResultT
      BY DEF Init, AT, ResultT, Nothing, Phases
    <2> QED BY <2>1, <2>2 DEF Init, Types
  <1>3. Alive \subseteq {1}
    BY DEF Init, Alive
  <1>4. OneRelay
    BY <1>3 DEF OneRelay
  <1>5. J.phase = "none" /\ J.src = 0 /\ ~J.restored /\ upc = "off" /\ ~watchdog
    BY DEF Init
  <1>6. \A i \in Insts : status[i] # "draining"
    BY DEF Init
  <1> QED BY <1>2, <1>4, <1>5, <1>6
       DEF IInv, PlaceInv, Places, Working, SwitchInv, DrainInv, SourceInv

-----------------------------------------------------------------------------
(* The kinds of steps                                                       *)

(* A busy journal published by the updater, about the same source.          *)
LEMMA BusyPublish ==
    ASSUME IInv, NEW new \in JT, NEW next, Publish(new, next), UNCHANGED <<A, relayVars, enabled, watchdog>>,
           new.phase \in BUSY, new.src = J.src, new.cut = J.cut \/ (new.cut /\ upc = "bs2"), ~new.restored,
           next \in (Working \cup {"finish"}) \ {"bs1", "bs2"},
           next \in Working \ {"check", "capture", "except"} => J.src # 0,
           next = "bs3" => back' \in {"send", "start"},
           next \in {"bs3", "send", "start", "launch", "launched", "verify"} => new.cut
    PROVE  IInv' /\ CutKept
  <1>1. /\ J' \in JT /\ J'.phase = new.phase /\ J'.src = J.src /\ J'.cut = new.cut
        /\ J'.restored = new.restored /\ pend' \in ResultT /\ upc' = next
    BY PublishFacts
  <1>2. J'.phase \in BUSY /\ J'.phase \notin {"none", "complete", "failed"} /\ ~J'.restored
    BY <1>1 DEF BUSY
  <1>3. Types' /\ OneRelay'
    BY <1>1 DEF IInv, Types, OneRelay, Alive, relayVars
  <1>4. PlaceInv'
    BY <1>1, <1>2 DEF PlaceInv, Places
  <1>5. SwitchInv'
    BY <1>1 DEF SwitchInv
  <1>6. DrainInv' /\ SourceInv'
    BY <1>1, <1>2 DEF IInv, DrainInv, SourceInv, relayVars
  <1> QED BY <1>1, <1>3, <1>4, <1>5, <1>6 DEF IInv, CutKept

(* A terminal journal published by the updater, at its end.                 *)
LEMMA TerminalPublish ==
    ASSUME IInv, NEW new \in JT, Publish(new, "finish"), UNCHANGED <<A, relayVars, enabled, watchdog>>,
           new.phase \in TERMINAL, new.src = J.src, new.cut = J.cut, new.restored => new.phase = "failed",
           J.src # 0 /\ (new.phase = "complete" \/ new.restored) => status[J.src] \in {"stopped", "dead"},
           enabled /\ (\E i \in Insts : status[i] = "draining") => new.phase = "failed" /\ ~new.restored
    PROVE  IInv' /\ CutKept
  <1>1. /\ J' \in JT /\ J'.phase = new.phase /\ J'.src = J.src /\ J'.cut = J.cut
        /\ J'.restored = new.restored /\ pend' \in ResultT /\ upc' = "finish"
    BY PublishFacts
  <1>2. J'.phase # "none"
    BY <1>1 DEF TERMINAL
  <1>3. Types' /\ OneRelay'
    BY <1>1 DEF IInv, Types, OneRelay, Alive, relayVars
  <1>4. PlaceInv' /\ SwitchInv'
    BY <1>1, <1>2 DEF PlaceInv, Places, Working, SwitchInv
  <1>5. DrainInv' /\ SourceInv'
    BY <1>1 DEF IInv, DrainInv, SourceInv, relayVars
  <1> QED BY <1>1, <1>3, <1>4, <1>5 DEF IInv, CutKept

(* The updater goes on without a write.                                     *)
LEMMA GotoStep ==
    ASSUME IInv, NEW next, Goto(next), UNCHANGED <<A, relayVars, enabled>>, watchdog' => watchdog,
           next \in Places \ {"bs2"}, next # "off" => J.phase # "none",
           next \in Working => J.phase \in BUSY,
           next \in Working \ {"check", "capture", "except"} => J.src # 0,
           next \in {"bs1", "bs3"} => back' \in {"send", "start"},
           next \in {"bs3", "send", "start", "launch", "launched", "verify"} => J.cut
    PROVE  IInv' /\ CutKept
  <1>1. J' = J /\ pend' = pend /\ upc' = next
    BY DEF Goto
  <1>2. Types' /\ OneRelay'
    BY <1>1 DEF IInv, Types, OneRelay, Alive, relayVars
  <1>3. PlaceInv'
    BY <1>1 DEF IInv, PlaceInv
  <1>4. SwitchInv'
    BY <1>1 DEF SwitchInv
  <1>5. DrainInv' /\ SourceInv'
    BY <1>1 DEF IInv, DrainInv, SourceInv, relayVars
  <1> QED BY <1>1, <1>2, <1>3, <1>4, <1>5 DEF IInv, CutKept

(* The application writes a journal, and leaves the cutover, the source and *)
(* the phase alone.                                                         *)
LEMMA AppStep ==
    ASSUME IInv, UNCHANGED <<relayVars, enabled, upc, back, watchdog>>,
           J' \in JT, J'.phase = J.phase, J'.src = J.src, J'.cut = J.cut, J'.restored = J.restored,
           A' \in AT, pend' \in ResultT,
           upc = "bs2" => pend' = Nothing /\ (~J.cut => A' = A)
    PROVE  IInv' /\ CutKept
  <1>1. Types' /\ OneRelay'
    BY DEF IInv, Types, OneRelay, Alive, relayVars
  <1>2. PlaceInv' /\ SwitchInv'
    BY DEF IInv, PlaceInv, SwitchInv
  <1>3. DrainInv' /\ SourceInv'
    BY DEF IInv, DrainInv, SourceInv, relayVars
  <1> QED BY <1>1, <1>2, <1>3 DEF IInv, CutKept

(* A relay changes its state; the journals do not.                          *)
LEMMA RelayStepKeeps ==
    ASSUME IInv, NEW i \in Insts, NEW from, NEW to, RelayStep(i, from, to),
           <<from, to>> \in {<<"booting", "up">>, <<"booting", "bad">>, <<"up", "draining">>, <<"up", "dead">>,
                             <<"draining", "stopped">>, <<"draining", "dead">>},
           to = "draining" => ~enabled
    PROVE  IInv' /\ CutKept
  <1>1. /\ status[i] = from /\ status' = [status EXCEPT ![i] = to]
        /\ UNCHANGED <<J, A, ver, enabled, upc, goal, sent, back, pend, watchdog>>
    BY DEF RelayStep, updaterVars
  <1>2. Types'
    BY <1>1 DEF IInv, Types
  <1>3. OneRelay'
    <2>1. from \in {"booting", "up", "bad", "draining"} /\ status \in [Insts -> {"absent", "booting", "up", "bad",
                                                           "draining", "stopped", "dead"}]
      BY DEF IInv, Types
    <2>2. Alive' \subseteq Alive
      BY <1>1, <2>1 DEF Alive
    <2> QED BY <2>2 DEF IInv, OneRelay
  <1>4. PlaceInv' /\ SwitchInv'
    BY <1>1 DEF IInv, PlaceInv, SwitchInv
  <1>5. DrainInv'
    BY <1>1 DEF IInv, Types, DrainInv
  <1>6. SourceInv'
    <2>1. CASE J.src = i
      BY <1>1, <2>1 DEF IInv, Types, SourceInv
    <2>2. CASE J.src # i
      BY <1>1, <2>2 DEF IInv, Types, SourceInv
    <2> QED BY <2>1, <2>2
  <1> QED BY <1>1, <1>2, <1>3, <1>4, <1>5, <1>6 DEF IInv, CutKept

-----------------------------------------------------------------------------
(* The updater                                                              *)

(* Where the updater works, its journal is busy and nothing was restored.   *)
LEMMA WorkingFacts ==
    ASSUME IInv
    PROVE  /\ J \in JT /\ A \in AT /\ pend \in ResultT
           /\ upc \in Working => J.phase \in BUSY /\ ~J.restored
           /\ J.phase \in BUSY => J.phase \notin TERMINAL \cup {"none"}
           /\ upc \in Working \ {"check", "capture", "except"} => J.src # 0
           /\ upc # "off" => J.phase # "none"
           /\ J.src \in 0..MaxInst /\ (J.src # 0 => J.src \in Insts)
  BY BoundsAssumption DEF IInv, Types, PlaceInv, SourceInv, BUSY, TERMINAL, JT, Insts

(* From the start of the task to the capture of the source.                 *)
LEMMA OpeningStep ==
    ASSUME IInv, Start \/ Begin \/ Preflight \/ PreflightFails \/ Capture
    PROVE  IInv' /\ CutKept
  <1> USE WorkingFacts
  <1>1. CASE Start
    <2>1. Goto("begin") /\ UNCHANGED <<A, relayVars, enabled, watchdog>> /\ J.phase # "none"
      BY <1>1 DEF Start, Goto, IInv, PlaceInv
    <2> QED BY <2>1, GotoStep DEF Places, Working
  <1>2. CASE Begin
    <2>1. UNCHANGED <<relayVars, enabled, goal, sent, back, watchdog>> /\ upc = "begin"
      BY <1>2 DEF Begin, At
    <2>2. CASE J.phase \in TERMINAL
      <3>1. proxy_result(result) /\ upc' = "finish" /\ J' = J /\ pend' = pend
        BY <1>2, <2>2 DEF Begin
      <3>2. result \in ResultT
        BY DEF result, ResultT, JT
      <3>3. A' \in AT
        BY <3>1, <3>2, ResultFacts
      <3>4. Types' /\ OneRelay'
        BY <2>1, <3>1, <3>3 DEF IInv, Types, OneRelay, Alive, relayVars
      <3>5. PlaceInv' /\ SwitchInv'
        BY <2>1, <3>1 DEF PlaceInv, Places, Working, SwitchInv
      <3>6. DrainInv' /\ SourceInv'
        BY <2>1, <3>1 DEF IInv, DrainInv, SourceInv, relayVars
      <3> QED BY <3>1, <3>4, <3>5, <3>6 DEF IInv, CutKept
    <2>3. CASE J.phase \notin TERMINAL
      <3>1. Publish(J, "check") /\ UNCHANGED A
        BY <1>2, <2>3 DEF Begin
      <3>2. J.phase \in BUSY
        BY <2>1, <2>3 DEF JT, Phases
      <3>3. ~J.restored
        BY <3>2 DEF IInv, SourceInv, BUSY
      <3> QED BY <2>1, <3>1, <3>2, <3>3, BusyPublish DEF Working
    <2> QED BY <2>2, <2>3
  <1>3. CASE Preflight
    <2>1. Goto("capture") /\ UNCHANGED <<A, relayVars, enabled, watchdog>> /\ upc = "check"
      BY <1>3 DEF Preflight, At
    <2> QED BY <2>1, GotoStep DEF Places, Working
  <1>4. CASE PreflightFails
    <2>1. Goto("except") /\ UNCHANGED <<A, relayVars, enabled, watchdog>> /\ upc = "check"
      BY <1>4 DEF PreflightFails, At
    <2> QED BY <2>1, GotoStep DEF Places, Working
  <1>5. CASE Capture
    <2>1. UNCHANGED <<A, relayVars, enabled, watchdog>> /\ upc = "capture" /\ J.phase \in BUSY /\ ~J.restored
      BY <1>5 DEF Capture, At, Working
    <2>2. CASE J.src # 0
      <3>1. Goto("decide")
        BY <1>5, <2>2 DEF Capture
      <3> QED BY <2>1, <2>2, <3>1, GotoStep DEF Places, Working
    <2>3. CASE J.src = 0 /\ (health = 0 \/ health # J.inst)
      <3>1. Goto("except")
        BY <1>5, <2>3 DEF Capture, ready
      <3>2. J.phase # "none" /\ "except" \in Places \ {"bs2"}
        BY <2>1 DEF BUSY, Places, Working
      <3> QED BY <2>1, <3>1, <3>2, GotoStep
    <2>4. CASE J.src = 0 /\ health = J.inst /\ health # 0 /\ ready(0, "new")
      <3> DEFINE new == [J EXCEPT !.phase = "complete"]
      <3>1. Publish(new, "finish")
        BY <1>5, <2>4 DEF Capture
      <3>2. new \in JT /\ new.phase = "complete" /\ new.src = J.src /\ new.cut = J.cut /\ new.restored = J.restored
        BY PhaseFacts DEF Phases, TERMINAL
      <3>3. \A i \in Insts : status[i] # "draining"
        BY <2>4, HealthFacts DEF ready, IInv
      <3> HIDE DEF new
      <3> QED BY <2>1, <2>4, <3>1, <3>2, <3>3, TerminalPublish DEF TERMINAL
    <2>5. CASE J.src = 0 /\ health = J.inst /\ health # 0 /\ ~ready(0, "new")
      <3> DEFINE new == [J EXCEPT !.phase = "waiting", !.src = health]
      <3>1. Publish(new, "decide")
        BY <1>5, <2>5 DEF Capture
      <3>2. /\ new \in JT /\ new.phase = "waiting" /\ new.src = health /\ new.cut = J.cut
            /\ new.restored = J.restored
        BY HealthFacts DEF JT, IInv, Phases, BUSY
      <3> HIDE DEF new
      <3>3. /\ J' \in JT /\ J'.phase = "waiting" /\ J'.src = health /\ J'.cut = J.cut
            /\ ~J'.restored /\ pend' \in ResultT /\ upc' = "decide"
        BY <2>1, <3>1, <3>2, PublishFacts
      <3>4. health \in Insts /\ status[health] \in {"up", "bad", "draining"}
        BY <2>5, HealthFacts DEF IInv
      <3>5. enabled => status[health] # "draining"
        BY <2>5, <3>4 DEF IInv, DrainInv
      <3>6. Types' /\ OneRelay'
        BY <2>1, <3>3 DEF IInv, Types, OneRelay, Alive, relayVars
      <3>7. PlaceInv' /\ SwitchInv'
        BY <2>1, <2>5, <3>3 DEF PlaceInv, Places, Working, SwitchInv, BUSY
      <3>8. DrainInv'
        BY <2>1, <2>5, <3>3 DEF IInv, DrainInv, relayVars
      <3>9. SourceInv'
        <4>1. status' = status /\ enabled' = enabled
          BY <2>1 DEF relayVars
        <4> QED BY <3>3, <3>4, <3>5, <4>1 DEF SourceInv
      <3> QED BY <3>3, <3>6, <3>7, <3>8, <3>9 DEF IInv, CutKept
    <2> QED BY <2>2, <2>3, <2>4, <2>5
  <1> QED BY <1>1, <1>2, <1>3, <1>4, <1>5

(* A relay of the version asked for, other than the source, that answers    *)
(* well: the source is gone.                                                *)
LEMMA ReadyFacts ==
    ASSUME IInv, NEW v, J.src # 0, ready(J.src, v)
    PROVE  /\ status[J.src] \in {"stopped", "dead"}
           /\ \A i \in Insts : status[i] # "draining"
  <1>1. health \in Insts /\ health # 0 /\ health # J.src /\ status[health] = "up" /\ J.src \in Insts
    <2>1. health # 0 /\ health # J.src /\ status[health] = "up"
      BY DEF ready
    <2>2. health \in Insts
      BY <2>1, HealthFacts DEF IInv
    <2>3. J.src \in Insts
      BY WorkingFacts
    <2> QED BY <2>1, <2>2, <2>3
  <1>2. status[J.src] \notin {"booting", "up", "bad", "draining", "absent"}
    BY <1>1, HealthFacts DEF IInv, SourceInv
  <1>3. \A i \in Insts : status[i] # "draining"
    BY <1>1, HealthFacts DEF IInv
  <1>4. status[J.src] \in {"absent", "booting", "up", "bad", "draining", "stopped", "dead"}
    BY <1>1 DEF IInv, Types
  <1> QED BY <1>2, <1>3, <1>4

(* The updater ends with a relay that answers well: complete or restored.   *)
LEMMA ReadyStep ==
    ASSUME IInv, NEW v, J.src # 0, ready(J.src, v), NEW new \in JT, Publish(new, "finish"),
           UNCHANGED <<A, relayVars, enabled, watchdog>>,
           new.phase \in TERMINAL, new.src = J.src, new.cut = J.cut, new.restored => new.phase = "failed"
    PROVE  IInv' /\ CutKept
  BY ReadyFacts, TerminalPublish

(* The cancellation, before the cutover only.                               *)
LEMMA CancelledStep ==
    ASSUME IInv, Cancelled
    PROVE  IInv' /\ CutKept
  <1> DEFINE new == [J EXCEPT !.phase = "cancelled"]
  <1>1. /\ Publish(new, "finish") /\ UNCHANGED <<A, relayVars, enabled, watchdog>>
        /\ ~J.cut /\ upc \in Working
    BY DEF Cancelled, allowed, Working
  <1>2. /\ new \in JT /\ new.phase = "cancelled" /\ new.src = J.src /\ new.cut = J.cut
        /\ new.restored = J.restored /\ ~J.restored
    BY <1>1, PhaseFacts, WorkingFacts DEF Phases, TERMINAL
  <1>3. ~(enabled /\ \E i \in Insts : status[i] = "draining")
    BY <1>1 DEF IInv, DrainInv
  <1> HIDE DEF new
  <1> QED BY <1>1, <1>2, <1>3, TerminalPublish DEF TERMINAL

(* The source captured, what to do about it.                                *)
LEMMA DecideStep ==
    ASSUME IInv, Decide
    PROVE  IInv' /\ CutKept
  <1>1. /\ upc = "decide" /\ UNCHANGED <<A, relayVars, enabled, watchdog>>
        /\ J.phase \in BUSY /\ J.phase # "none" /\ ~J.restored /\ J.src # 0 /\ J \in JT
    BY WorkingFacts DEF Decide, At, Working
  <1>2. \/ Goto("rb") \/ Goto("switch") \/ Goto("drain")
        \/ ready(J.src, "new") /\ Publish([J EXCEPT !.phase = "complete"], "finish")
    <2>1. CASE J.rb
      BY <2>1 DEF Decide
    <2>2. CASE ~J.rb /\ health \notin {0, J.src}
      BY <2>2 DEF Decide
    <2>3. CASE ~J.rb /\ health \in {0, J.src} /\ stopped(J.src)
      BY <2>3 DEF Decide
    <2>4. CASE ~J.rb /\ health \in {0, J.src} /\ ~stopped(J.src)
      BY <2>4 DEF Decide
    <2>5. J.rb \in BOOLEAN
      BY <1>1 DEF JT
    <2> QED BY <2>1, <2>2, <2>3, <2>4, <2>5
  <1>3. {"rb", "switch", "drain"} \subseteq Places \ {"bs2", "bs1", "bs3", "send", "start", "launch",
                                                      "launched", "verify"}
    BY DEF Places, Working
  <1>4. ASSUME NEW next \in {"rb", "switch", "drain"}, Goto(next)
        PROVE  IInv' /\ CutKept
    BY <1>1, <1>3, <1>4, GotoStep
  <1>5. CASE ready(J.src, "new") /\ Publish([J EXCEPT !.phase = "complete"], "finish")
    <2> DEFINE new == [J EXCEPT !.phase = "complete"]
    <2>1. /\ new \in JT /\ new.phase = "complete" /\ new.src = J.src /\ new.cut = J.cut
          /\ new.restored = J.restored
      BY <1>1, PhaseFacts DEF Phases, TERMINAL
    <2>2. Publish(new, "finish")
      BY <1>5
    <2> HIDE DEF new
    <2> QED BY <1>1, <1>5, <2>1, <2>2, ReadyStep DEF TERMINAL
  <1> QED BY <1>2, <1>4, <1>5

(* A busy phase written where the updater stays a part of its drain.        *)
LEMMA PhaseStep ==
    ASSUME IInv, NEW ph \in BUSY, NEW next, Publish([J EXCEPT !.phase = ph], next),
           UNCHANGED <<A, relayVars, enabled, watchdog>>, upc \in Working \ {"check", "capture", "except"},
           next \in {"drain", "rb", "rb1", "rb4"} \/ (J.cut /\ next \in {"launch", "verify"})
    PROVE  IInv' /\ CutKept
  <1> DEFINE new == [J EXCEPT !.phase = ph]
  <1>1. J \in JT /\ J.src # 0 /\ ~J.restored /\ ph \in Phases
    BY WorkingFacts DEF Phases
  <1>2. /\ new \in JT /\ new.phase = ph /\ new.src = J.src /\ new.cut = J.cut
        /\ new.restored = J.restored
    BY <1>1, PhaseFacts
  <1>3. Publish(new, next)
    OBVIOUS
  <1>4. {"drain", "rb", "rb1", "rb4", "launch", "verify"} \subseteq Working \ {"bs1", "bs2", "bs3"}
    BY DEF Working
  <1> HIDE DEF new
  <1> QED BY <1>1, <1>2, <1>3, <1>4, BusyPublish

(* The updater goes on, past the capture.                                   *)
LEMMA MoveStep ==
    ASSUME IInv, NEW next, Goto(next), UNCHANGED <<A, relayVars, enabled, watchdog>>,
           upc \in Working \ {"check", "capture", "except"},
           \/ next \in {"drain", "switch", "except", "rb", "rb3", "rb5"}
           \/ next = "bs1" /\ back' \in {"send", "start"}
           \/ J.cut /\ next \in {"send", "start", "launched"}
    PROVE  IInv' /\ CutKept
  <1>1. J.src # 0 /\ J.phase \in BUSY /\ J.phase # "none"
    BY WorkingFacts
  <1>2. {"drain", "switch", "except", "rb", "rb3", "rb5", "bs1", "send", "start", "launched"}
            \subseteq Places \ {"bs2", "bs3"}
    BY DEF Places, Working
  <1> QED BY <1>1, <1>2, GotoStep

(* ProxyDrain.run.                                                          *)
LEMMA DrainStep ==
    ASSUME IInv,
           DrainDone \/ DrainFails \/ DrainWaits \/ DrainLingers \/ DrainStopping \/ DrainReady \/ DrainSend
    PROVE  IInv' /\ CutKept
  <1>1. {"drain", "send"} \subseteq Working \ {"check", "capture", "except"}
    BY DEF Working
  <1>2. CASE DrainDone
    BY <1>1, <1>2, MoveStep DEF DrainDone, At
  <1>3. CASE DrainFails
    BY <1>1, <1>3, MoveStep DEF DrainFails, At
  <1>4. CASE DrainWaits
    <2>1. "waiting" \in BUSY
      BY DEF BUSY
    <2> QED BY <1>1, <1>4, <2>1, PhaseStep DEF DrainWaits, At
  <1>8. CASE DrainLingers
    <2>1. "switching" \in BUSY
      BY DEF BUSY
    <2> QED BY <1>1, <1>8, <2>1, PhaseStep DEF DrainLingers, At
  <1>5. CASE DrainStopping
    <2>1. "stopping" \in BUSY
      BY DEF BUSY
    <2> QED BY <1>1, <1>5, <2>1, PhaseStep DEF DrainStopping, At
  <1>6. CASE DrainReady
    BY <1>1, <1>6, MoveStep DEF DrainReady, At
  <1>7. CASE DrainSend
    <2>1. /\ UNCHANGED <<A, J, pend, ver, enabled, watchdog>> /\ upc = "send" /\ upc' = "drain"
          /\ status' = [status EXCEPT ![goal] = CASE status[goal] \in {"up", "bad"} -> "draining"
                                                  [] status[goal] = "stopped" -> "dead"
                                                  [] OTHER -> status[goal]]
      BY <1>7 DEF DrainSend, At, Goto
    <2>2. J.cut /\ J.src # 0 /\ J.phase \in BUSY /\ ~J.restored
      BY <1>1, <2>1, WorkingFacts DEF IInv, PlaceInv
    <2>3. status \in [Insts -> {"absent", "booting", "up", "bad", "draining", "stopped", "dead"}]
      BY DEF IInv, Types
    <2>4. /\ status' \in [Insts -> {"absent", "booting", "up", "bad", "draining", "stopped", "dead"}]
          /\ \A i \in Insts : \/ status'[i] = status[i]
                              \/ status[i] \in {"up", "bad"} /\ status'[i] = "draining"
                              \/ status[i] = "stopped" /\ status'[i] = "dead"
      <3>1. CASE goal \notin Insts
        BY <2>1, <2>3, <3>1
      <3>2. CASE goal \in Insts /\ status[goal] \in {"up", "bad"}
        <4>1. status' = [status EXCEPT ![goal] = "draining"]
          BY <2>1, <3>2
        <4> QED BY <2>3, <3>2, <4>1
      <3>3. CASE goal \in Insts /\ status[goal] = "stopped"
        <4>1. status' = [status EXCEPT ![goal] = "dead"]
          BY <2>1, <3>3
        <4> QED BY <2>3, <3>3, <4>1
      <3>4. CASE goal \in Insts /\ status[goal] \notin {"up", "bad", "stopped"}
        <4>1. status' = status
          BY <2>1, <2>3, <3>4
        <4> QED BY <2>3, <4>1
      <3> QED BY <3>1, <3>2, <3>3, <3>4
    <2>5. Types'
      BY <2>1, <2>4 DEF IInv, Types
    <2>6. Alive' \subseteq Alive
      BY <2>4 DEF Alive
    <2>7. OneRelay'
      BY <2>6 DEF IInv, OneRelay
    <2>8. PlaceInv' /\ SwitchInv'
      BY <2>1, <2>2 DEF IInv, PlaceInv, Places, Working, SwitchInv, BUSY
    <2>9. DrainInv'
      BY <2>1, <2>2 DEF DrainInv
    <2>10. SourceInv'
      <3>1. J.src \in Insts /\ J.phase # "complete"
        BY <2>2, WorkingFacts DEF TERMINAL
      <3> QED BY <2>1, <2>2, <2>4, <3>1 DEF IInv, SourceInv
    <2> QED BY <2>1, <2>5, <2>7, <2>8, <2>9, <2>10 DEF IInv, CutKept
  <1> QED BY <1>2, <1>3, <1>4, <1>5, <1>6, <1>7, <1>8

(* begin_switch.                                                            *)
LEMMA SwitchStep ==
    ASSUME IInv, BeginSwitchApp \/ ClientRuns \/ BeginSwitchJournal \/ BeginSwitchDone \/ Switch
    PROVE  IInv' /\ CutKept
  <1>1. {"bs1", "bs2", "bs3", "switch"} \subseteq Working \ {"check", "capture", "except"}
    BY DEF Working
  <1>2. CASE BeginSwitchApp
    <2>1. /\ upc = "bs1" /\ pend = Nothing /\ allowed /\ UNCHANGED <<J, pend, relayVars, enabled, back, watchdog>>
          /\ upc' = "bs2" /\ A' = IF J.cut THEN A ELSE [A EXCEPT !.phase = "switching", !.cut = TRUE]
      BY <1>2 DEF BeginSwitchApp, At, Goto
    <2>2. J.phase \in BUSY /\ J.src # 0 /\ back \in {"send", "start"} /\ A \in AT
      BY <1>1, <2>1, WorkingFacts DEF IInv, PlaceInv
    <2>3. A' \in AT /\ (~J.cut => A'.cut /\ ~A'.cancel /\ A'.phase = "switching")
      <3>1. CASE J.cut
        BY <2>1, <2>2, <3>1
      <3>2. CASE ~J.cut
        <4>1. ~A.cancel /\ A' = [A EXCEPT !.phase = "switching", !.cut = TRUE]
          BY <2>1, <3>2 DEF allowed
        <4> QED BY <2>2, <4>1 DEF AT, ACTIVE
      <3> QED BY <3>1, <3>2
    <2>4. Types' /\ OneRelay'
      BY <2>1, <2>3 DEF IInv, Types, OneRelay, Alive, relayVars
    <2>5. PlaceInv'
      BY <2>1, <2>2 DEF PlaceInv, Places, Working, BUSY
    <2>6. SwitchInv'
      BY <2>1, <2>3 DEF SwitchInv, Nothing
    <2>7. DrainInv' /\ SourceInv'
      BY <2>1 DEF IInv, DrainInv, SourceInv, relayVars
    <2> QED BY <2>1, <2>4, <2>5, <2>6, <2>7 DEF IInv, CutKept
  <1>3. CASE ClientRuns
    BY <1>1, <1>3, MoveStep DEF ClientRuns, At
  <1>4. CASE BeginSwitchJournal
    <2> DEFINE new == [J EXCEPT !.phase = "switching", !.cut = TRUE]
    <2>1. /\ upc = "bs2" /\ Publish(new, "bs3")
          /\ UNCHANGED <<A, relayVars, enabled, back, watchdog>>
      BY <1>4 DEF BeginSwitchJournal, At
    <2>2. J \in JT /\ J.src # 0 /\ ~J.restored /\ back \in {"send", "start"}
      BY <1>1, <2>1, WorkingFacts DEF IInv, PlaceInv
    <2>3. new \in JT /\ new.phase = "switching" /\ new.src = J.src /\ new.cut /\ new.restored = J.restored
      BY <2>2 DEF JT, Phases, BUSY
    <2>4. "bs3" \in Working \ {"bs1", "bs2"} /\ "switching" \in BUSY
      BY DEF Working, BUSY
    <2> HIDE DEF new
    <2> QED BY <2>1, <2>2, <2>3, <2>4, BusyPublish
  <1>5. CASE BeginSwitchDone
    <2>1. upc = "bs3" /\ Goto(back) /\ UNCHANGED <<A, relayVars, enabled, watchdog>>
      BY <1>5 DEF BeginSwitchDone, At
    <2>2. back \in {"send", "start"} /\ J.cut
      BY <2>1 DEF IInv, PlaceInv
    <2> QED BY <1>1, <2>1, <2>2, MoveStep
  <1>6. CASE Switch
    BY <1>1, <1>6, MoveStep DEF Switch, At
  <1> QED BY <1>2, <1>3, <1>4, <1>5, <1>6

(* A launch disturbs no relay that ever ran.                                *)
LEMMA LaunchKeeps ==
    ASSUME IInv, NEW v \in {"old", "new"}, Launch(v), UNCHANGED <<J, A, pend, enabled>>
    PROVE  Types' /\ OneRelay' /\ DrainInv' /\ SourceInv'
  <1>1. /\ status' \in [Insts -> {"absent", "booting", "up", "bad", "draining", "stopped", "dead"}]
        /\ ver' \in [Insts -> {"old", "new"}] /\ OneRelay'
        /\ \A i \in Insts : status[i] # "absent" => status'[i] = status[i]
        /\ \A i \in Insts : status'[i] # status[i] => status'[i] = "booting"
    BY LaunchFacts DEF IInv
  <1>2. Types'
    BY <1>1 DEF IInv, Types
  <1>3. DrainInv'
    BY <1>1 DEF IInv, DrainInv
  <1>4. SourceInv'
    <2>1. J.src # 0 => J.src \in Insts
      BY WorkingFacts
    <2> QED BY <1>1, <2>1 DEF IInv, SourceInv
  <1> QED BY <1>1, <1>2, <1>3, <1>4

(* The new relay: started, verified, adopted or given up.                   *)
LEMMA NewRelayStep ==
    ASSUME IInv, Starting \/ StartNew \/ Verifying \/ Verify
    PROVE  IInv' /\ CutKept
  <1>1. /\ {"start", "launch", "launched", "verify"} \subseteq Working \ {"check", "capture", "except"}
        /\ {"starting", "verifying", "rollback"} \subseteq BUSY
    BY DEF Working, BUSY
  <1>2. upc \in {"start", "launch", "launched", "verify"}
    BY DEF Starting, StartNew, Verifying, Verify, At
  <1>3. J.cut /\ J.src # 0 /\ J.phase \in BUSY /\ ~J.restored /\ J \in JT
    BY <1>1, <1>2, WorkingFacts DEF IInv, PlaceInv
  <1>4. CASE Starting
    BY <1>1, <1>2, <1>3, <1>4, PhaseStep DEF Starting
  <1>5. CASE StartNew /\ stopped(J.src)
    <2>1. /\ Launch("new") /\ upc' = "launched"
          /\ UNCHANGED <<J, A, pend, enabled, watchdog, back>>
      BY <1>5 DEF StartNew, Goto
    <2>2. Types' /\ OneRelay' /\ DrainInv' /\ SourceInv'
      BY <2>1, LaunchKeeps
    <2>3. PlaceInv' /\ SwitchInv'
      BY <1>3, <2>1 DEF PlaceInv, Places, Working, SwitchInv, BUSY
    <2> QED BY <2>1, <2>2, <2>3 DEF IInv, CutKept
  <1>6. CASE StartNew /\ ~stopped(J.src)
    BY <1>1, <1>2, <1>6, PhaseStep DEF StartNew
  <1>7. CASE Verifying
    BY <1>1, <1>2, <1>3, <1>7, PhaseStep DEF Verifying
  <1>8. CASE Verify /\ ready(J.src, "new")
    <2> DEFINE new == [J EXCEPT !.phase = "complete"]
    <2>1. Publish(new, "finish") /\ UNCHANGED <<A, relayVars, enabled, watchdog>>
      BY <1>8 DEF Verify
    <2>2. /\ new \in JT /\ new.phase = "complete" /\ new.src = J.src /\ new.cut = J.cut
          /\ new.restored = J.restored
      BY <1>3, PhaseFacts DEF Phases, TERMINAL
    <2> HIDE DEF new
    <2> QED BY <1>3, <1>8, <2>1, <2>2, ReadyStep DEF TERMINAL
  <1>9. CASE Verify /\ ~ready(J.src, "new")
    BY <1>1, <1>2, <1>9, PhaseStep DEF Verify
  <1> QED BY <1>4, <1>5, <1>6, <1>7, <1>8, <1>9

(* The old relay is back: the update has failed.                            *)
LEMMA RestoredStep ==
    ASSUME IInv, ready(J.src, "old"), Publish([J EXCEPT !.phase = "failed", !.restored = TRUE], "finish"),
           UNCHANGED <<A, relayVars, enabled, watchdog>>, upc \in {"rb1", "rb5"}
    PROVE  IInv' /\ CutKept
  <1> DEFINE new == [J EXCEPT !.phase = "failed", !.restored = TRUE]
  <1>1. upc \in Working \ {"check", "capture", "except"}
    BY DEF Working
  <1>2. J.src # 0 /\ J \in JT
    BY <1>1, WorkingFacts
  <1>3. /\ new \in JT /\ new.phase = "failed" /\ new.src = J.src /\ new.cut = J.cut
    BY <1>2 DEF JT, Phases, TERMINAL
  <1>4. Publish(new, "finish")
    OBVIOUS
  <1> HIDE DEF new
  <1> QED BY <1>2, <1>3, <1>4, ReadyStep DEF TERMINAL

(* rollback() and the except clause.                                        *)
LEMMA RollbackStep ==
    ASSUME IInv, Rollback \/ RollbackClear \/ RollbackRestarts \/ StartOld \/ VerifyOld \/ Except
    PROVE  IInv' /\ CutKept
  <1>1. /\ {"rb", "rb1", "rb3", "rb4", "rb5"} \subseteq Working \ {"check", "capture", "except"}
        /\ "except" \in Working /\ "rollback" \in BUSY
    BY DEF Working, BUSY
  <1>2. CASE Rollback
    BY <1>1, <1>2, PhaseStep DEF Rollback, At
  <1>3. CASE RollbackClear
    <2>1. upc = "rb1" /\ UNCHANGED <<A, relayVars, enabled, back, watchdog>>
      BY <1>3 DEF RollbackClear, At
    <2>2. \/ Goto("rb3") \/ Goto("drain") \/ Goto("except")
          \/ ready(J.src, "old") /\ Publish([J EXCEPT !.phase = "failed", !.restored = TRUE], "finish")
      <3>1. CASE health = 0
        BY <1>3, <3>1 DEF RollbackClear
      <3>2. CASE health # 0 /\ ready(J.src, "old")
        BY <1>3, <3>2 DEF RollbackClear
      <3>3. CASE health # 0 /\ ~ready(J.src, "old") /\ ver[health] = "new"
        BY <1>3, <3>3 DEF RollbackClear
      <3>4. CASE health # 0 /\ ~ready(J.src, "old") /\ ver[health] # "new"
        BY <1>3, <3>4 DEF RollbackClear
      <3> QED BY <3>1, <3>2, <3>3, <3>4
    <2> QED BY <1>1, <2>1, <2>2, MoveStep, RestoredStep
  <1>4. CASE RollbackRestarts
    BY <1>1, <1>4, PhaseStep DEF RollbackRestarts, At
  <1>5. CASE StartOld /\ stopped(J.src)
    <2>1. /\ upc = "rb4" /\ Launch("old") /\ upc' = "rb5"
          /\ UNCHANGED <<J, A, pend, enabled, watchdog, back>>
      BY <1>5 DEF StartOld, At, Goto
    <2>2. Types' /\ OneRelay' /\ DrainInv' /\ SourceInv'
      BY <2>1, LaunchKeeps
    <2>3. J.src # 0 /\ J.phase \in BUSY
      BY <1>1, <2>1, WorkingFacts
    <2>4. PlaceInv' /\ SwitchInv'
      BY <2>1, <2>3 DEF PlaceInv, Places, Working, SwitchInv, BUSY
    <2> QED BY <2>1, <2>2, <2>4 DEF IInv, CutKept
  <1>6. CASE StartOld /\ ~stopped(J.src)
    BY <1>1, <1>6, MoveStep DEF StartOld, At, relayVars
  <1>7. CASE VerifyOld
    BY <1>1, <1>7, MoveStep, RestoredStep DEF VerifyOld, At
  <1>8. CASE Except
    <2>1. /\ upc = "except" /\ UNCHANGED <<A, relayVars, enabled, back, watchdog>>
          /\ J.phase \in BUSY /\ J.phase # "none" /\ ~J.restored /\ J \in JT
      BY <1>1, <1>8, WorkingFacts DEF Except, At
    <2>2. CASE J.src # 0 /\ J.phase # "rollback" /\ stopped(J.src)
      <3>1. Goto("rb")
        BY <1>8, <2>2 DEF Except
      <3>2. "rb" \in Places \ {"bs2", "bs1", "bs3", "send", "start", "launch", "launched", "verify"}
        BY DEF Places, Working
      <3> QED BY <2>1, <2>2, <3>1, <3>2, GotoStep
    <2>3. CASE J.phase = "rollback"
      <3>1. Publish(J, "finish")
        BY <1>8, <2>3 DEF Except
      <3>2. "finish" \notin Working
        BY DEF Working
      <3> QED BY <2>1, <3>1, <3>2, BusyPublish
    <2>4. CASE ~(J.src # 0 /\ stopped(J.src)) /\ J.phase # "rollback"
      <3> DEFINE new == [J EXCEPT !.phase = "failed"]
      <3>1. Publish(new, "finish")
        BY <1>8, <2>4 DEF Except
      <3>2. /\ new \in JT /\ new.phase = "failed" /\ new.src = J.src /\ new.cut = J.cut /\ ~new.restored
        BY <2>1, PhaseFacts DEF Phases, TERMINAL
      <3> HIDE DEF new
      <3> QED BY <2>1, <3>1, <3>2, TerminalPublish DEF TERMINAL
    <2> QED BY <2>2, <2>3, <2>4
  <1> QED BY <1>2, <1>3, <1>4, <1>5, <1>6, <1>7, <1>8

(* The end of the process, in order or not.                                 *)
LEMMA EndStep ==
    ASSUME IInv, Finish \/ Crash
    PROVE  IInv' /\ CutKept
  <1>1. "off" \in Places \ {"bs2"} /\ "off" \notin Working
    BY DEF Places, Working
  <1>2. CASE Finish
    BY <1>1, <1>2, GotoStep DEF Finish
  <1>3. CASE Crash
    <2>1. /\ UNCHANGED <<J, A, relayVars, enabled, watchdog>> /\ upc' = "off" /\ pend' = Nothing
      BY <1>3 DEF Crash
    <2>2. Nothing \in ResultT
      BY DEF Nothing, ResultT, Phases
    <2>3. Types' /\ OneRelay'
      BY <2>1, <2>2 DEF IInv, Types, OneRelay, Alive, relayVars
    <2>4. PlaceInv' /\ SwitchInv'
      BY <1>1, <2>1 DEF IInv, PlaceInv, SwitchInv
    <2>5. DrainInv' /\ SourceInv'
      BY <2>1 DEF IInv, DrainInv, SourceInv, relayVars
    <2> QED BY <2>1, <2>3, <2>4, <2>5 DEF IInv, CutKept
  <1> QED BY <1>2, <1>3

-----------------------------------------------------------------------------
(* The application and the relays                                           *)

(* A result overtaken on its way is marked; one that is not there stays so. *)
LEMMA OutdatedFacts ==
    ASSUME pend \in ResultT, NEW newer \in BOOLEAN
    PROVE  Outdated(newer) \in ResultT /\ (pend = Nothing => Outdated(newer) = Nothing)
  <1>1. Outdated(newer) = [pend EXCEPT !.stale = pend.stale \/ (newer /\ pend # Nothing)]
    BY DEF Outdated
  <1>2. pend.stale \/ (newer /\ pend # Nothing) \in BOOLEAN
    OBVIOUS
  <1>3. Outdated(newer) \in ResultT
    BY <1>1, <1>2 DEF ResultT
  <1>4. ASSUME pend = Nothing PROVE Outdated(newer) = Nothing
    <2>1. Outdated(newer) = [Nothing EXCEPT !.stale = FALSE]
      BY <1>1, <1>4 DEF Nothing
    <2> QED BY <2>1 DEF Nothing
  <1> QED BY <1>3, <1>4

(* A publish by the application.                                            *)
LEMMA PublishesFacts ==
    ASSUME A \in AT, pend \in ResultT, NEW new \in JT, Publishes(new)
    PROVE  A' \in AT /\ pend' \in ResultT /\ (pend = Nothing => pend' = Nothing)
  <1> DEFINE r == [phase |-> new.phase, op |-> new.op, cut |-> new.cut, stale |-> FALSE]
  <1>1. proxy_result(r) /\ pend' = Outdated(takes(r))
    BY DEF Publishes
  <1>2. r \in ResultT
    BY DEF ResultT, JT
  <1>3. takes(r) \in BOOLEAN
    BY DEF takes
  <1> HIDE DEF r
  <1> QED BY <1>1, <1>2, <1>3, ResultFacts, OutdatedFacts

(* A result read back from the journal is one.                              *)
LEMMA ReplayFacts == J \in JT => result \in ResultT
  BY DEF result, JT, ResultT

(* Beginning, retrying, cancelling, taking results.                         *)
LEMMA RequestStep ==
    ASSUME IInv, BeginOperation \/ RetryOperation \/ CancelOperation \/ CancelJournal \/ Deliver
    PROVE  IInv' /\ CutKept
  <1>1. /\ J \in JT /\ A \in AT /\ pend \in ResultT
        /\ upc = "bs2" => pend = Nothing /\ (~J.cut => A.cut /\ ~A.cancel /\ A.phase = "switching")
    BY WorkingFacts DEF IInv, SwitchInv
  <1>2. "switching" \in ACTIVE /\ "switching" \notin {"failed", "deferred", "interrupted"}
    BY DEF ACTIVE
  <1>3. CASE BeginOperation
    <2>1. /\ UNCHANGED <<J, pend, relayVars, enabled, upc, back, watchdog>> /\ A.phase \notin ACTIVE
          /\ A' = [op |-> A.op + 1, phase |-> "preparing", cut |-> FALSE, cancel |-> FALSE]
      BY <1>3 DEF BeginOperation, updaterVars
    <2>2. A' \in AT
      BY <1>1, <2>1 DEF AT, ACTIVE
    <2>3. upc = "bs2" => J.cut
      BY <1>1, <1>2, <2>1
    <2> QED BY <1>1, <2>1, <2>2, <2>3, AppStep
  <1>4. CASE RetryOperation
    <2>1. /\ UNCHANGED <<relayVars, enabled, upc, back, watchdog>>
          /\ A.phase \in {"failed", "deferred", "interrupted"}
          /\ A' = [A EXCEPT !.phase = "waiting", !.cut = FALSE, !.cancel = FALSE]
          /\ J' = [J EXCEPT !.fenced = TRUE] /\ pend' = Outdated(TRUE)
      BY <1>4 DEF RetryOperation
    <2>2. A' \in AT
      BY <1>1, <2>1 DEF AT, ACTIVE
    <2>3. /\ J' \in JT /\ J'.phase = J.phase /\ J'.src = J.src /\ J'.cut = J.cut
          /\ J'.restored = J.restored
      BY <1>1, <2>1 DEF JT
    <2>4. pend' \in ResultT /\ (pend = Nothing => pend' = Nothing)
      BY <1>1, <2>1, OutdatedFacts
    <2>5. upc = "bs2" => J.cut
      BY <1>1, <1>2, <2>1
    <2> QED BY <1>1, <2>1, <2>2, <2>3, <2>4, <2>5, AppStep
  <1>5. CASE CancelOperation
    <2>1. /\ UNCHANGED <<J, pend, relayVars, enabled, upc, back, watchdog>> /\ ~A.cut
          /\ A' = [A EXCEPT !.cancel = TRUE]
      BY <1>5 DEF CancelOperation, updaterVars
    <2>2. A' \in AT
      BY <1>1, <2>1 DEF AT
    <2> QED BY <1>1, <2>1, <2>2, AppStep
  <1>6. CASE CancelJournal
    <2>1. /\ UNCHANGED <<relayVars, enabled, upc, back, watchdog>> /\ upc # "bs2" /\ Publishes(J)
          /\ J' = [J EXCEPT !.cancel = TRUE, !.interrupted = FALSE, !.fenced = FALSE]
      BY <1>6 DEF CancelJournal, controlLocked
    <2>2. /\ J' \in JT /\ J'.phase = J.phase /\ J'.src = J.src /\ J'.cut = J.cut
          /\ J'.restored = J.restored
      BY <1>1, <2>1 DEF JT
    <2> QED BY <1>1, <2>1, <2>2, PublishesFacts, AppStep
  <1>7. CASE Deliver
    <2>1. /\ UNCHANGED <<J, relayVars, enabled, upc, back, watchdog>> /\ pend # Nothing
          /\ proxy_result(pend) /\ pend' = Nothing
      BY <1>7 DEF Deliver
    <2>2. Nothing \in ResultT
      BY DEF Nothing, ResultT, Phases
    <2> QED BY <1>1, <2>1, <2>2, ResultFacts, AppStep
  <1> QED BY <1>3, <1>4, <1>5, <1>6, <1>7

(* The application reads a journal left behind.                             *)
LEMMA ReconcileStep ==
    ASSUME IInv, Reconcile
    PROVE  IInv' /\ CutKept
  <1>1. /\ J \in JT /\ A \in AT /\ pend \in ResultT
        /\ upc = "bs2" => J.phase \notin TERMINAL
    BY WorkingFacts DEF Working
  <1>2. UNCHANGED <<relayVars, enabled, upc, pend, back, watchdog>>
    BY DEF Reconcile, updaterVars
  <1>3. CASE J.phase \in TERMINAL /\ proxy_result(result) /\ UNCHANGED J
    BY <1>1, <1>2, <1>3, ReplayFacts, ResultFacts, AppStep
  <1>4. CASE J.phase \in BUSY /\ ~updaterLocked
    <2> DEFINE marked == [J EXCEPT !.interrupted = TRUE, !.fenced = FALSE]
               ended == [J EXCEPT !.phase = "cancelled", !.interrupted = FALSE, !.fenced = FALSE]
               r == [phase |-> IF J'.phase \in BUSY THEN "interrupted" ELSE J'.phase,
                     op |-> J.op, cut |-> J.cut, stale |-> FALSE]
    <2>1. upc = "off" /\ (J' = marked \/ (J' = ended /\ ~J.cut)) /\ proxy_result(r)
      <3>1. J.phase \notin TERMINAL
        BY <1>4, WorkingFacts
      <3>2. upc = "off"
        BY <1>4 DEF updaterLocked
      <3> QED BY <1>4, <3>1, <3>2 DEF Reconcile
    <2>2. /\ marked \in JT /\ marked.phase = J.phase /\ marked.src = J.src /\ marked.cut = J.cut
          /\ marked.restored = J.restored
      BY <1>1 DEF JT
    <2>3. /\ ended \in JT /\ ended.phase = "cancelled" /\ ended.src = J.src /\ ended.cut = J.cut
          /\ ended.restored = J.restored
      BY <1>1 DEF JT, Phases, TERMINAL
    <2>4. J' \in JT
      BY <2>1, <2>2, <2>3
    <2>5. r \in ResultT
      BY <1>1, <2>4 DEF ResultT, JT
    <2> HIDE DEF r, marked, ended
    <2>6. A' \in AT
      BY <1>1, <2>1, <2>5, ResultFacts
    <2>7. CASE J' = marked
      BY <1>1, <1>2, <2>1, <2>2, <2>6, <2>7, AppStep
    <2>8. CASE J' = ended /\ ~J.cut
      <3>1. /\ J' \in JT /\ J'.phase = "cancelled" /\ J'.src = J.src /\ J'.cut = J.cut
            /\ J'.restored = J.restored /\ ~J.restored
        <4>1. ~J.restored
          BY <1>4 DEF IInv, SourceInv, BUSY
        <4> QED BY <2>3, <2>8, <4>1
      <3>2. Types' /\ OneRelay'
        BY <1>1, <1>2, <2>6, <3>1 DEF IInv, Types, OneRelay, Alive, relayVars
      <3>3. PlaceInv' /\ SwitchInv'
        BY <1>2, <2>1, <3>1 DEF PlaceInv, Places, Working, SwitchInv
      <3>4. DrainInv' /\ SourceInv'
        BY <1>2, <2>8, <3>1 DEF IInv, DrainInv, SourceInv, relayVars
      <3> QED BY <3>1, <3>2, <3>3, <3>4 DEF IInv, CutKept
    <2> QED BY <2>1, <2>7, <2>8
  <1> QED BY <1>3, <1>4 DEF Reconcile

(* activate_proxy before and after update_proxy: a result for the app        *)
(* journal, or a relay started.                                             *)
LEMMA ActivateStep ==
    ASSUME IInv, Activate \/ ActivateEnds
    PROVE  IInv' /\ CutKept
  <1>1. /\ J \in JT /\ A \in AT /\ pend \in ResultT
        /\ UNCHANGED <<J, pend, enabled, upc, back, watchdog>> /\ upc # "bs2"
    BY WorkingFacts DEF Activate, ActivateEnds, updaterVars, writingCutover
  <1>2. ASSUME A' \in AT, UNCHANGED relayVars PROVE IInv' /\ CutKept
    BY <1>1, <1>2, AppStep
  <1>3. CASE Settles("complete") /\ UNCHANGED relayVars
    <2>1. [phase |-> "complete", op |-> A.op, cut |-> FALSE, stale |-> FALSE] \in ResultT
      BY <1>1 DEF ResultT, AT, Phases, TERMINAL
    <2> QED BY <1>1, <1>2, <1>3, <2>1, ResultFacts DEF Settles
  <1>4. CASE UNCHANGED <<A, relayVars>>
    BY <1>1, <1>2, <1>4
  <1>5. CASE UNCHANGED A /\ Launch("new")
    <2>1. Types' /\ OneRelay' /\ DrainInv' /\ SourceInv'
      BY <1>1, <1>5, LaunchKeeps
    <2>2. PlaceInv' /\ SwitchInv'
      BY <1>1 DEF IInv, PlaceInv, SwitchInv
    <2> QED BY <1>1, <2>1, <2>2 DEF IInv, CutKept
  <1>6. CASE A' \in {[A EXCEPT !.phase = "failed", !.cut = FALSE], [A EXCEPT !.phase = "failed"]}
             /\ UNCHANGED relayVars
    <2>1. A' \in AT
      BY <1>1, <1>6 DEF AT
    <2> QED BY <1>2, <1>6, <2>1
  <1>7. CASE Activate
    BY <1>3, <1>4, <1>5, <1>6, <1>7 DEF Activate
  <1>8. CASE ActivateEnds
    BY <1>3, <1>6, <1>8 DEF ActivateEnds
  <1> QED BY <1>7, <1>8

(* A fresh journal is written only when there is nothing to recover: no     *)
(* relay drains.                                                            *)
LEMMA UpdateProxyStep ==
    ASSUME IInv, UpdateProxy
    PROVE  IInv' /\ CutKept
  <1>1. /\ J \in JT /\ A \in AT /\ pend \in ResultT
        /\ UNCHANGED <<relayVars, enabled, upc, back>> /\ upc # "bs2"
    BY WorkingFacts DEF UpdateProxy, controlLocked
  <1>3. CASE A' = [A EXCEPT !.phase = "failed"] /\ UNCHANGED <<J, pend, watchdog>>
    <2>1. A' \in AT
      BY <1>1, <1>3 DEF AT
    <2> QED BY <1>1, <1>3, <2>1, AppStep
  <1>4. CASE proxy_result(result) /\ UNCHANGED <<J, pend, watchdog>>
    BY <1>1, <1>4, ReplayFacts, ResultFacts, AppStep
  <1>5. CASE /\ enabled /\ (J.phase \in BUSY => ~updaterLocked)
             /\ LET new == IF recovering
                             THEN [J EXCEPT !.phase = IF @ = "failed" THEN "waiting" ELSE @,
                                            !.op = A.op, !.cancel = FALSE, !.interrupted = FALSE,
                                            !.fenced = FALSE]
                             ELSE [phase |-> "queued", op |-> A.op, src |-> 0, inst |-> health,
                                   cut |-> FALSE, cancel |-> FALSE, rb |-> FALSE,
                                   interrupted |-> FALSE, restored |-> FALSE, fenced |-> FALSE]
                IN  J' = new /\ Publishes(new)
    <2>1. upc \notin Working
      BY <1>5 DEF IInv, PlaceInv, updaterLocked, Working
    <2>2. Publishes(J')
      BY <1>5
    <2>3. CASE recovering
      <3> DEFINE ph == IF J.phase = "failed" THEN "waiting" ELSE J.phase
      <3>1. J' = [J EXCEPT !.phase = ph, !.op = A.op, !.cancel = FALSE, !.interrupted = FALSE,
                           !.fenced = FALSE]
        BY <1>5, <2>3
      <3>2. J.src # 0 /\ ~J.restored /\ ph \in BUSY
        BY <2>3 DEF recovering, BUSY
      <3>3. J' \in JT /\ J'.phase \in BUSY /\ J'.src = J.src /\ J'.cut = J.cut /\ ~J'.restored
        <4>1. ph \in Phases
          BY <3>2 DEF Phases
        <4>2. A.op \in Int
          BY <1>1 DEF AT
        <4> HIDE DEF ph
        <4> QED BY <1>1, <3>1, <3>2, <4>1, <4>2 DEF JT
      <3>4. A' \in AT /\ pend' \in ResultT
        BY <1>1, <2>2, <3>3, PublishesFacts
      <3>5. J'.phase \notin {"none", "complete"}
        BY <3>3 DEF BUSY
      <3>6. Types' /\ OneRelay'
        BY <1>1, <3>3, <3>4 DEF IInv, Types, OneRelay, Alive, relayVars
      <3>7. PlaceInv' /\ SwitchInv'
        BY <1>1, <2>1, <3>5 DEF IInv, PlaceInv, Working, SwitchInv
      <3>8. DrainInv' /\ SourceInv'
        BY <1>1, <3>3, <3>5 DEF IInv, DrainInv, SourceInv, relayVars
      <3> QED BY <3>3, <3>6, <3>7, <3>8 DEF IInv, CutKept
    <2>4. CASE ~recovering
      <3>1. J' = [phase |-> "queued", op |-> A.op, src |-> 0, inst |-> health,
                  cut |-> FALSE, cancel |-> FALSE, rb |-> FALSE,
                  interrupted |-> FALSE, restored |-> FALSE, fenced |-> FALSE]
        BY <1>5, <2>4
      <3>2. J' \in JT
        <4>1. health \in 0..MaxInst /\ 0 \in 0..MaxInst /\ A.op \in Int
          BY <1>1, HealthFacts, BoundsAssumption DEF AT, IInv
        <4> QED BY <3>1, <4>1 DEF JT, Phases, BUSY
      <3>3. J'.phase = "queued" /\ J'.src = 0 /\ ~J'.cut /\ ~J'.restored
        BY <3>1
      <3>4. A' \in AT /\ pend' \in ResultT
        BY <1>1, <2>2, <3>2, PublishesFacts
      <3>5. \A i \in Insts : status[i] # "draining"
        <4> SUFFICES ASSUME NEW i \in Insts, status[i] = "draining" PROVE FALSE
          OBVIOUS
        <4>1. health = i
          BY HealthFacts DEF IInv
        <4>2. J.src # 0 /\ ~J.restored /\ J.phase \in BUSY \cup {"failed"}
          BY <1>5 DEF IInv, DrainInv
        <4>3. ~(health = J.src /\ status[J.src] # "draining")
          BY <4>1
        <4> QED BY <2>4, <4>2, <4>3 DEF recovering
      <3>6. Types' /\ OneRelay'
        BY <1>1, <3>2, <3>4 DEF IInv, Types, OneRelay, Alive, relayVars
      <3>7. PlaceInv' /\ SwitchInv'
        BY <1>1, <2>1, <3>3 DEF IInv, PlaceInv, Working, SwitchInv
      <3>8. DrainInv' /\ SourceInv'
        BY <1>1, <3>3, <3>5 DEF DrainInv, SourceInv, relayVars
      <3> QED BY <3>3, <3>6, <3>7, <3>8 DEF IInv, CutKept
    <2> QED BY <2>3, <2>4
  <1>6. \/ A' = [A EXCEPT !.phase = "failed"] /\ UNCHANGED <<J, pend, watchdog>>
        \/ proxy_result(result) /\ UNCHANGED <<J, pend, watchdog>>
        \/ /\ enabled /\ (J.phase \in BUSY => ~updaterLocked)
           /\ LET new == IF recovering
                           THEN [J EXCEPT !.phase = IF @ = "failed" THEN "waiting" ELSE @,
                                          !.op = A.op, !.cancel = FALSE, !.interrupted = FALSE,
                                          !.fenced = FALSE]
                           ELSE [phase |-> "queued", op |-> A.op, src |-> 0, inst |-> health,
                                 cut |-> FALSE, cancel |-> FALSE, rb |-> FALSE,
                                 interrupted |-> FALSE, restored |-> FALSE, fenced |-> FALSE]
              IN  J' = new /\ Publishes(new)
    BY DEF UpdateProxy
  <1> QED BY <1>3, <1>4, <1>5, <1>6

(* The route goes off for good, a missing relay is started.                 *)
LEMMA RouteStep ==
    ASSUME IInv, TurnOff \/ Attach
    PROVE  IInv' /\ CutKept
  <1>1. CASE TurnOff
    <2>1. UNCHANGED <<J, A, relayVars, upc, back, pend, watchdog>> /\ ~enabled'
      BY <1>1 DEF TurnOff, updaterVars
    <2>2. Types' /\ OneRelay'
      BY <1>1, <2>1 DEF TurnOff, IInv, Types, OneRelay, Alive, relayVars
    <2>3. PlaceInv' /\ SwitchInv'
      BY <2>1 DEF IInv, PlaceInv, SwitchInv
    <2>4. DrainInv' /\ SourceInv'
      BY <2>1 DEF IInv, DrainInv, SourceInv, relayVars
    <2> QED BY <2>1, <2>2, <2>3, <2>4 DEF IInv, CutKept
  <1>2. CASE Attach
    <2>1. Launch("new") /\ UNCHANGED <<J, A, enabled, upc, back, pend, watchdog>>
      BY <1>2 DEF Attach, updaterVars
    <2>2. Types' /\ OneRelay' /\ DrainInv' /\ SourceInv'
      BY <2>1, LaunchKeeps
    <2>3. PlaceInv' /\ SwitchInv'
      BY <2>1 DEF IInv, PlaceInv, SwitchInv
    <2> QED BY <2>1, <2>2, <2>3 DEF IInv, CutKept
  <1> QED BY <1>1, <1>2

(* The relays on their own.                                                 *)
LEMMA RelaysStep ==
    ASSUME IInv, NEW i \in Insts, Relay(i) \/ RelayFault(i) \/ RelayBlur(i) \/ ClientCloses(i)
    PROVE  IInv' /\ CutKept
  <1>2. CASE RelayBlur(i) \/ ClientCloses(i)
    <2>1. UNCHANGED <<J, A, status, ver, enabled, upc, back, pend, watchdog>>
      BY <1>2 DEF RelayBlur, ClientCloses, updaterVars
    <2> QED BY <2>1
         DEF IInv, Types, OneRelay, Alive, PlaceInv, SwitchInv, DrainInv, SourceInv, CutKept
  <1>1. \/ RelayStep(i, "booting", "up") \/ RelayStep(i, "draining", "stopped")
        \/ (~enabled /\ RelayStep(i, "up", "draining")) \/ RelayStep(i, "booting", "bad")
        \/ RelayStep(i, "up", "dead") \/ RelayStep(i, "draining", "dead")
        \/ RelayBlur(i) \/ ClientCloses(i)
    BY DEF Relay, RelayBoots, RelayDrained, RelayOff, RelayFault
  <1> QED BY <1>1, <1>2, RelayStepKeeps

(* No step leaves the invariant, and only the second write of begin_switch  *)
(* gives the proxy journal the cutover.                                     *)
LEMMA NextStep ==
    ASSUME IInv, [Next]_vars
    PROVE  IInv' /\ CutKept
  <1>1. CASE UNCHANGED vars
    <2>1. UNCHANGED <<J, A, status, ver, enabled, upc, back, pend, watchdog>>
      BY <1>1 DEF vars
    <2> QED BY <2>1
         DEF IInv, Types, OneRelay, Alive, PlaceInv, SwitchInv, DrainInv, SourceInv, CutKept
  <1>2. CASE Start \/ Begin \/ Preflight \/ PreflightFails \/ Capture
    BY <1>2, OpeningStep
  <1>3. CASE Cancelled \/ Decide
    BY <1>3, CancelledStep, DecideStep
  <1>4. CASE DrainDone \/ DrainFails \/ DrainWaits \/ DrainLingers \/ DrainStopping \/ DrainReady \/ DrainSend
    BY <1>4, DrainStep
  <1>5. CASE BeginSwitchApp \/ ClientRuns \/ BeginSwitchJournal \/ BeginSwitchDone \/ Switch
    BY <1>5, SwitchStep
  <1>6. CASE Starting \/ StartNew \/ Verifying \/ Verify
    BY <1>6, NewRelayStep
  <1>7. CASE Rollback \/ RollbackClear \/ RollbackRestarts \/ StartOld \/ VerifyOld \/ Except
    BY <1>7, RollbackStep
  <1>8. CASE Finish \/ Crash
    BY <1>8, EndStep
  <1>9. CASE BeginOperation \/ RetryOperation \/ CancelOperation \/ CancelJournal \/ Deliver
    BY <1>9, RequestStep
  <1>10. CASE Reconcile \/ Activate \/ ActivateEnds \/ UpdateProxy \/ TurnOff \/ Attach
    BY <1>10, ReconcileStep, ActivateStep, UpdateProxyStep, RouteStep
  <1>11. CASE \E i \in Insts : Relay(i) \/ RelayFault(i) \/ RelayBlur(i) \/ ClientCloses(i)
    BY <1>11, RelaysStep
  <1> QED BY <1>1, <1>2, <1>3, <1>4, <1>5, <1>6, <1>7, <1>8, <1>9, <1>10, <1>11 DEF Next, Updater

-----------------------------------------------------------------------------
(* The theorems                                                             *)

(* The invariant of the replacement, for all bounds and user actions.       *)
THEOREM Invariance == Spec => []IInv
  <1>1. Init => IInv
    BY InitHolds
  <1>2. IInv /\ [Next]_vars => IInv'
    BY NextStep
  <1> QED BY <1>1, <1>2, PTL DEF Spec

(* SourceAccounted, for all bounds: an update that ended before its cutover *)
(* has not drained the relay it was to replace, and one that is complete,   *)
(* or restored the old version, has not left it running.                    *)
THEOREM SourceIsAccounted == Spec => []SourceAccounted
  <1>1. IInv => SourceAccounted
    BY DEF IInv, SourceInv, SourceAccounted
  <1> QED BY <1>1, Invariance, PTL

(* CancelPreventsCutover, for all bounds: begin_switch does not write the   *)
(* cutover for an operation whose cancellation was accepted.                *)
THEOREM CancelledIsNotSwitched == Spec => CancelPreventsCutover
  <1>1. IInv /\ [Next]_vars => [J'.cut /\ ~J.cut => ~(A.cancel /\ A.op = J.op)]_vars
    BY NextStep DEF CutKept, IInv, SwitchInv
  <1> QED BY <1>1, Invariance, PTL DEF Spec, CancelPreventsCutover
=============================================================================
