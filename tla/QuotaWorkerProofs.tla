-------------------------- MODULE QuotaWorkerProofs --------------------------
(***************************************************************************)
(* No commit of the calculation process is killed, and what the user was   *)
(* told of an edit is in the ledger and in the report, for any number of   *)
(* edits, charts, reports, pauses, faults, crashes and restarts.           *)
(***************************************************************************)
EXTENDS QuotaWorker, SequenceTheorems, TLAPS

-----------------------------------------------------------------------------
(* The inductive invariant, one definition per idea                         *)

Elems(s) == {s[i] : i \in 1..Len(s)}

Asked == {"edit", "chart", "report"}
Reqs == [kind: {"none", "edit", "chart", "report", "cancel"}, id: Nat, edit: Nat, gen: Nat]
Msgs == [kind: Asked, id: Nat,
         status: {"phase", "progress", "ok", "error", "cancelled", "stale", "partial"},
         saved: BOOLEAN, permanent: BOOLEAN, uncertain: BOOLEAN, gen: Nat, edits: SUBSET Nat]

(* What requests and results look like, and where each may be. *)
CommandShape ==
    /\ commands \in Seq(Reqs) /\ \A i \in 1..Len(commands) : commands[i].kind = "edit"
    /\ pending \in [COALESCED -> Reqs] /\ \A k \in COALESCED : pending[k].kind = k \/ pending[k] = None
ActiveShape ==
    /\ active \in Reqs /\ (active = None \/ active.kind \in Asked)
    /\ tpc \in {"send", "loop"} => active.kind \in Asked
PipeShape ==
    /\ cin \in Seq(Reqs) /\ (\A i \in 1..Len(cin) : cin[i].kind # "none") /\ creq \in Reqs
    /\ cst \in {"start", "writing", "committed", "reading"} => creq.kind \in Asked
QueueShape == CommandShape /\ ActiveShape /\ PipeShape
MsgShape == worker_results \in Seq(Msgs) /\ out \in Seq(Msgs) /\ Len(out) <= 1 /\ cout \in Seq(Msgs)
ValueShape ==
    /\ exclusions \in Seq(1..MaxEdits) /\ edit_request \in [id: Nat, saved: BOOLEAN]
    /\ report \in [gen: Nat, edits: SUBSET Nat] /\ sequence \in Nat /\ gen \in Nat
    /\ ledger \subseteq Nat /\ asked \in [edit: Nat, chart: Nat, report: Nat] /\ asked.edit <= MaxEdits
    /\ answer \in [1..MaxEdits -> {"none", "ok", "saved", "lost", "uncertain"}]
OrphanShape == orphans \subseteq Nat
ThreadShape ==
    /\ connection \in BOOLEAN /\ phase \in {"idle", "reading"} \cup WRITING
    /\ tpc \in {"next", "send", "loop", "deliver", "emit", "done"}
    /\ cst \in {"none", "dead", "idle", "start", "writing", "committed", "reading"}

(* The pipe to the child: cancels only, or the one request under way. *)
Quiet == \A i \in 1..Len(cin) : cin[i].kind = "cancel"
OnlyActive ==
    /\ \A i \in 1..Len(cin) : cin[i].kind # "cancel" => cin[i] = active
    /\ \A i, j \in 1..Len(cin) : cin[i].kind # "cancel" /\ cin[j].kind # "cancel" => i = j

(* The transport waits for nothing, ... *)
Free ==
    /\ connection <=> cst # "none"
    /\ ~connection => cin = <<>> /\ cout = <<>>
    /\ tpc = "next" => active = None
    /\ active = None \/ tpc = "send" => cout = <<>> /\ Quiet /\ cst \in {"none", "idle", "dead"}

(* ... or for the child, which has its request and no other: the phase      *)
(* guards a commit from before the request is sent until after its end.     *)
Waiting == active # None /\ tpc # "send"

(* A partial report and the news of a commit are not the result yet.        *)
Final(m) == m.status \notin {"phase", "partial"}
Unwritten == cout = <<>> /\ (active.kind = "edit" => phase = "pending-write")
Busy ==
    Waiting =>
      /\ connection
      /\ cst \in {"start", "writing", "committed", "reading"} => Quiet /\ creq = active
      /\ cst = "idle" => OnlyActive /\ (~Quiet => Unwritten)
      /\ cst = "start" /\ active.kind = "edit" => Unwritten
      /\ cst \in {"writing", "committed"} => /\ active.kind = "edit" /\ phase \in WRITING
                                             /\ \A i \in 1..Len(cout) : ~cout[i].saved
      /\ cst = "reading" => active.kind = "edit"
      /\ \A i \in 1..Len(cout) : Final(cout[i]) => i = Len(cout) /\ cst \in {"idle", "dead"} /\ Quiet

GuardInv == tpc # "done" => Free /\ Busy

(* What carries an edit knows which: an id stands for the first of the      *)
(* line, or for one that was answered before.                               *)
Requests == Elems(commands) \cup {active, creq} \cup Elems(cin)
Messages == Elems(worker_results) \cup Elems(out) \cup Elems(cout)
First == exclusions[1]
Drawn(id) == id \in 1..sequence
IdInv ==
    /\ edit_request.id # 0 => exclusions # <<>> /\ Drawn(edit_request.id)
    /\ edit_request.saved => edit_request.id # 0 /\ First \in ledger
    /\ \A r \in Requests : r.kind = "edit" => Drawn(r.id) /\ (r.id = edit_request.id => r.edit = First)
    /\ \A id \in committed : Drawn(id) /\ (id = edit_request.id => First \in ledger)
    /\ cst \in {"writing", "committed", "reading"} => creq.kind = "edit"
    /\ cst \in {"committed", "reading"} /\ creq.id = edit_request.id => First \in ledger
    /\ \A m \in Messages : m.kind = "edit" =>
          Drawn(m.id) /\ (m.id = edit_request.id => /\ m.saved => First \in ledger
                                                    /\ m.status = "ok" => First \in m.edits)

(* Results are in the order in which they were calculated, and the ledger   *)
(* only grows: no report on its way is older than the one shown.            *)
Calculated(m) == m.kind \in {"edit", "report"} /\ m.status \in {"ok", "partial"}
Before(m, n) == Calculated(m) /\ Calculated(n) => m.edits \subseteq n.edits
Ordered(s) == \A i, j \in 1..Len(s) : i < j => Before(s[i], s[j])
AllBefore(s, t) == \A m \in Elems(s), n \in Elems(t) : Before(m, n)
OrderInv ==
    /\ report.edits \subseteq ledger
    /\ \A m \in Messages : Calculated(m) => report.edits \subseteq m.edits /\ m.edits \subseteq ledger
    /\ Ordered(worker_results) /\ Ordered(cout)
    /\ AllBefore(worker_results, out) /\ AllBefore(worker_results, cout) /\ AllBefore(out, cout)

IInv == QueueShape /\ MsgShape /\ ValueShape /\ OrphanShape /\ ThreadShape /\ GuardInv /\ IdInv /\ OrderInv
        /\ AnsweredEditsShown

-----------------------------------------------------------------------------
(* Sequences, requests and results                                          *)

(* What a queue holds after an append and without its head.                 *)
LEMMA AppendFacts ==
    ASSUME NEW S, NEW s \in Seq(S), NEW e \in S
    PROVE  /\ Append(s, e) \in Seq(S) /\ Len(Append(s, e)) = Len(s) + 1 /\ Len(s) \in Nat
           /\ \A i \in 1..Len(s) : Append(s, e)[i] = s[i]
           /\ Append(s, e)[Len(s) + 1] = e
           /\ Elems(Append(s, e)) = Elems(s) \cup {e}
  <1>1. /\ Append(s, e) \in Seq(S) /\ Len(Append(s, e)) = Len(s) + 1 /\ Len(s) \in Nat
        /\ \A i \in 1..Len(s) : Append(s, e)[i] = s[i]
        /\ Append(s, e)[Len(s) + 1] = e
    BY AppendProperties, LenProperties
  <1>2. 1..(Len(s) + 1) = 1..Len(s) \cup {Len(s) + 1}
    BY <1>1
  <1> QED BY <1>1, <1>2 DEF Elems

(* What is left of a queue, or of the pipe, when its head is taken.         *)
LEMMA TailFacts ==
    ASSUME NEW S, NEW s \in Seq(S), s # <<>>
    PROVE  /\ Tail(s) \in Seq(S) /\ Len(Tail(s)) = Len(s) - 1 /\ Len(s) \in Nat \ {0}
           /\ \A i \in 1..Len(Tail(s)) : Tail(s)[i] = s[i + 1]
           /\ Head(s) = s[1] /\ Head(s) \in S
           /\ Elems(s) = {Head(s)} \cup Elems(Tail(s))
  <1>1. /\ Tail(s) \in Seq(S) /\ Len(Tail(s)) = Len(s) - 1 /\ Len(s) \in Nat \ {0}
        /\ \A i \in 1..Len(Tail(s)) : Tail(s)[i] = s[i + 1]
        /\ Head(s) = s[1] /\ Head(s) \in S
    BY HeadTailProperties, EmptySeq, LenProperties, ElementOfSeq
  <1>2. \A i \in 1..Len(s) : i = 1 \/ i - 1 \in 1..Len(Tail(s))
    BY <1>1
  <1>3. \A i \in 2..Len(s) : s[i] = Tail(s)[i - 1]
    BY <1>1
  <1>4. \A i \in 1..Len(Tail(s)) : i + 1 \in 1..Len(s)
    BY <1>1
  <1>5. Elems(s) \subseteq {Head(s)} \cup Elems(Tail(s))
    BY <1>1, <1>2, <1>3 DEF Elems
  <1>6. {Head(s)} \cup Elems(Tail(s)) \subseteq Elems(s)
    BY <1>1, <1>4 DEF Elems
  <1> QED BY <1>1, <1>5, <1>6

(* A queue of nothing and of one.                                           *)
LEMMA ShortFacts ==
    /\ Elems(<<>>) = {} /\ Len(<<>>) = 0 /\ \A S : <<>> \in Seq(S)
    /\ \A e : Elems(<<e>>) = {e} /\ Len(<<e>>) = 1 /\ <<e>>[1] = e
    /\ \A S : \A e \in S : <<e>> \in Seq(S)
  BY DEF Elems

(* What _deliver holds: no result or one.                                   *)
LEMMA OneOut ==
    /\ <<>> \in Seq(Msgs) /\ Len(<<>>) <= 1
    /\ \A m \in Msgs : <<m>> \in Seq(Msgs) /\ Len(<<m>>) <= 1
  <1>1. \A m \in Msgs : <<m>> \in Seq(Msgs)
    BY ShortFacts
  <1>2. \A m \in Msgs : Len(<<m>>) <= 1
    OBVIOUS
  <1> QED BY <1>1, <1>2, ShortFacts

(* _deliver keeps one result or none, and the service gets it at the end. *)
LEMMA EmitFacts ==
    ASSUME NEW S, NEW s \in Seq(S), NEW t \in Seq(S), Len(t) <= 1
    PROVE  \/ t = <<>> /\ s \o t = s
           \/ t # <<>> /\ t = <<t[1]>> /\ t[1] \in S /\ s \o t = Append(s, t[1]) /\ Elems(t) = {t[1]}
  <1>1. CASE t = <<>>
    BY <1>1, ConcatEmptySeq
  <1>2. CASE t # <<>>
    <2>1. Len(t) \in Nat /\ Len(t) # 0
      BY <1>2, EmptySeq, LenProperties
    <2>2. Len(t) = 1
      <3>1. \A n \in Nat : n # 0 /\ n <= 1 => n = 1
        OBVIOUS
      <3> QED BY <2>1, <3>1
    <2>3. t[1] \in S
      BY <2>2, ElementOfSeq
    <2>4. t = <<t[1]>>
      BY <2>2
    <2>5. s \o t = Append(s, t[1])
      BY <2>3, <2>4, AppendIsConcat
    <2> QED BY <1>2, <2>2, <2>3, <2>4, <2>5 DEF Elems
  <1> QED BY <1>1, <1>2

(* Result: what the child and the transport answer carries the request's id *)
(* and kind, and nothing of the ledger unless it is added.                   *)
LEMMA ResultFacts ==
    ASSUME NEW r \in Reqs, r.kind \in Asked,
           NEW st \in {"phase", "progress", "ok", "error", "cancelled", "stale", "partial"}
    PROVE  /\ Result(r, st) \in Msgs
           /\ Result(r, st).kind = r.kind /\ Result(r, st).id = r.id /\ Result(r, st).status = st
           /\ ~Result(r, st).saved
  BY DEF Result, Reqs, Msgs, Asked

(* No request, and the number of edits of a run.                            *)
LEMMA NoneFacts == None \in Reqs /\ None.kind = "none" /\ MaxEdits \in Nat
  BY BoundsAssumption DEF None, Reqs

(* What SvcResult makes of the first result: nothing, a new report, what is *)
(* known of the edit under way, or an answer to the user.                   *)
LEMMA ResultEffect ==
    ASSUME MsgShape, ValueShape, IdInv, SvcResult,
           NEW r, r = Head(worker_results)
    PROVE  /\ worker_results # <<>> /\ worker_results' = Tail(worker_results) /\ r \in Msgs
           /\ UNCHANGED <<sequence, gen, asked, ledger, transportVars, childVars, commands, pending>>
           /\ report' = report \/ (Calculated(r) /\ report' = [gen |-> r.gen, edits |-> r.edits])
           /\ \/ UNCHANGED <<edit_request, answer, exclusions>>
              \/ /\ r.kind = "edit" /\ edit_request.id # 0 /\ r.id = edit_request.id
                 /\ edit_request'.id = edit_request.id /\ UNCHANGED <<answer, exclusions>>
                 /\ edit_request' \in [id: Nat, saved: BOOLEAN]
                 /\ edit_request'.saved => edit_request.saved \/ r.saved
              \/ /\ r.kind = "edit" /\ edit_request.id # 0 /\ r.id = edit_request.id
                 /\ \E outcome \in {"ok", "saved", "lost", "uncertain"} :
                       /\ Told(outcome)
                       /\ outcome = "ok" => r.status = "ok" /\ report' = [gen |-> r.gen, edits |-> r.edits]
                       /\ outcome = "saved" => r.saved
  <1> DEFINE edit == r.kind = "edit"
             counts == r.kind # "chart" /\ r.status \notin {"progress", "partial"} /\ Expected(r)
             shows == r.kind # "chart" /\ r.status \in {"ok", "partial"} /\ Expected(r)
  <1>1. worker_results # <<>> /\ worker_results' = Tail(worker_results) /\ r \in Msgs
    BY TailFacts DEF SvcResult, MsgShape
  <1>2. UNCHANGED <<sequence, gen, asked, ledger, transportVars, childVars, commands, pending>>
    BY DEF SvcResult, queueVars, childVars, boundVars
  <1>3. report' = IF shows THEN [gen |-> r.gen, edits |-> r.edits] ELSE report
    BY DEF SvcResult
  <1>4. shows => Calculated(r)
    BY <1>1 DEF Calculated, Msgs, Asked
  <1>5. edit /\ Expected(r) => edit_request.id # 0 /\ r.id = edit_request.id
    BY DEF Expected
  <1>6. r.saved \in BOOLEAN /\ edit_request \in [id: Nat, saved: BOOLEAN]
    BY <1>1 DEF Msgs, ValueShape
  <1>7. CASE edit /\ r.status = "progress" /\ Expected(r)
    <2>1. edit_request' = [edit_request EXCEPT !.saved = @ \/ r.saved] /\ UNCHANGED <<answer, exclusions>>
      BY <1>7 DEF SvcResult
    <2>2. PICK v \in BOOLEAN : v = (edit_request.saved \/ r.saved)
      OBVIOUS
    <2>3. edit_request' = [edit_request EXCEPT !.saved = v]
      BY <2>1, <2>2
    <2> QED BY <1>1, <1>2, <1>3, <1>4, <1>5, <1>6, <1>7, <2>1, <2>2, <2>3
  <1>8. CASE counts /\ edit /\ r.status = "ok"
    <2>1. Told("ok")
      BY <1>8 DEF SvcResult
    <2> QED BY <1>1, <1>2, <1>3, <1>4, <1>5, <1>8, <2>1
  <1>9. CASE counts /\ edit /\ r.status = "error" /\ r.permanent
    <2>1. Told(IF r.uncertain THEN "uncertain" ELSE IF r.saved THEN "saved" ELSE "lost")
      BY <1>9 DEF SvcResult
    <2> QED BY <1>1, <1>2, <1>3, <1>4, <1>5, <1>9, <2>1
  <1>10. CASE counts /\ edit /\ r.status = "error" /\ ~r.permanent
    <2>1. edit_request' = [edit_request EXCEPT !.saved = r.saved] /\ UNCHANGED <<answer, exclusions>>
      BY <1>10 DEF SvcResult
    <2> QED BY <1>1, <1>2, <1>3, <1>4, <1>5, <1>6, <1>10, <2>1
  <1>11. CASE /\ ~(edit /\ r.status = "progress" /\ Expected(r))
              /\ ~(counts /\ edit /\ (r.status = "ok" \/ r.status = "error"))
    <2>1. /\ ~(edit /\ r.status = "progress" /\ Expected(r)) /\ ~(counts /\ edit /\ r.status = "ok")
          /\ ~(counts /\ edit /\ r.status = "error" /\ r.permanent)
          /\ ~(counts /\ edit /\ r.status = "error" /\ ~r.permanent)
      BY <1>11
    <2>2. UNCHANGED <<edit_request, answer, exclusions>>
      BY <2>1 DEF SvcResult
    <2> QED BY <1>1, <1>2, <1>3, <1>4, <2>2
  <1> QED BY <1>7, <1>8, <1>9, <1>10, <1>11

-----------------------------------------------------------------------------
(* What the steps of one actor leave alone                                  *)

UserOrService ==
    \/ TogglePause \/ ToggleReports \/ RequestEdit \/ RequestChart \/ Stop
    \/ Service \/ SvcTimeout \/ SvcReport
TransportStep == Transport \/ TCancel \/ TBreak
ChildStep == Child \/ CPartial \/ CCheckpoint \/ CFail \/ CCrash \/ OrphanEnds

(* User and service do not touch the pipe, the transport not the service's  *)
(* state, the child neither: each thread writes what it owns.               *)
LEMMA Frames ==
    /\ UserOrService => UNCHANGED <<transportVars, childVars, ledger>>
    /\ TransportStep => UNCHANGED <<svcVars, sequence, ledger, asked>>
    /\ ChildStep => UNCHANGED <<svcVars, worker_results, queueVars, transportVars, asked>>
  <1>1. ASSUME UserOrService PROVE UNCHANGED <<transportVars, childVars, ledger>>
    BY <1>1 DEF UserOrService, TogglePause, ToggleReports, RequestEdit, RequestChart, Stop, Service,
                SvcControl, SvcResult, SvcTurn, SvcEdit, SvcWait, SvcTimeout, SvcReport
  <1>2. ASSUME TransportStep PROVE UNCHANGED <<svcVars, sequence, ledger, asked>>
    BY <1>2
       DEF TransportStep, Transport, TNext, TSkip, TSend, TFail, TBreak, Failed, TPause, TReceive,
           TDeliver, TEmit, TClose, TCancel, Others, Untouched, boundVars
  <1>3. ASSUME ChildStep PROVE UNCHANGED <<svcVars, worker_results, queueVars, transportVars, asked>>
    BY <1>3
       DEF ChildStep, OrphanEnds, childVars, boundVars, Child, CReceive, CPartial, CRead, CBegin,
           CCommit, CRefuse, CReading, CDone, CCheckpoint, CFail, CCrash, Rest
  <1> QED BY <1>1, <1>2, <1>3

(* Every step is one of the user, the service loop, the transport thread or *)
(* the child process.                                                       *)
LEMMA Cases == Next <=> UserOrService \/ TransportStep \/ ChildStep
  BY DEF Next, UserOrService, TransportStep, ChildStep, Service, Transport, Child

-----------------------------------------------------------------------------
(* Shapes                                                                   *)

(* The states of the three threads.                                         *)
LEMMA ThreadStep ==
    ASSUME ThreadShape, [Next]_vars
    PROVE  ThreadShape'
  <1>1. CASE UserOrService
    BY <1>1, Frames DEF transportVars, childVars, ThreadShape
  <1>2. CASE TransportStep
    <2>1. CASE TNext \/ TSkip \/ TSend \/ TFail \/ TBreak \/ TPause \/ TReceive \/ TDeliver \/ TEmit \/ TClose
            \/ TCancel
      BY <2>1
         DEF TNext, TSkip, Settle, TSend, TFail, TBreak, Failed, Gone, TPause, TReceive, TDeliver,
             TEmit, TClose, TCancel, ThreadShape, transportVars, childVars, WRITING, Others,
             Untouched, Rest
    <2> QED BY <1>2, <2>1 DEF TransportStep, Transport
  <1>3. CASE ChildStep
    <2>1. CASE CPartial \/ CRead \/ CBegin \/ CCommit \/ CRefuse \/ CReading \/ CDone \/ CCheckpoint \/ CFail \/
            CCrash
      BY <2>1
         DEF CPartial, CRead, Send, CBegin, CCommit, CRefuse, CReading, CDone, CCheckpoint, CFail,
             CCrash, ThreadShape, transportVars, childVars, WRITING, Others, Untouched, Rest
    <2>2. CASE CReceive
      BY <2>2 DEF CReceive, Rest, transportVars, ThreadShape
    <2>3. CASE OrphanEnds
      BY <2>3 DEF OrphanEnds, transportVars, childVars, ThreadShape
    <2> QED BY <1>3, <2>1, <2>2, <2>3 DEF ChildStep, Child
  <1>4. CASE UNCHANGED vars
    BY <1>4 DEF vars, guiVars, svcVars, queueVars, transportVars, childVars, boundVars, ThreadShape,
       WRITING, Others, Untouched, Rest
  <1> QED BY <1>1, <1>2, <1>3, <1>4, Cases

(* The line of edits, the answers and the ledger.                           *)
LEMMA ValueStep ==
    ASSUME QueueShape, MsgShape, ValueShape, OrphanShape, IdInv, [Next]_vars
    PROVE  ValueShape'
  <1>0. ValueShape /\ asked.edit \in Nat /\ MaxEdits \in Nat
    BY NoneFacts DEF ValueShape
  <1>1. CASE UserOrService
    <2>1. CASE TogglePause \/ ToggleReports \/ Stop \/ SvcControl \/ SvcTurn \/ SvcWait
      BY <2>1, <1>0 DEF TogglePause, ToggleReports, Stop, SvcControl, SvcTurn, SvcWait, ValueShape,
         svcVars, queueVars, childVars, boundVars, Others, Untouched, Rest, guiVars
    <2>2. CASE RequestEdit
      <3>1. asked' \in [edit: Nat, chart: Nat, report: Nat] /\ asked'.edit \in 1..MaxEdits
        <4>1. asked.edit < MaxEdits /\ asked' = [asked EXCEPT !.edit = asked.edit + 1]
          BY <2>2 DEF RequestEdit
        <4>2. asked \in [edit: Nat, chart: Nat, report: Nat]
          BY <1>0 DEF ValueShape
        <4>3. asked.edit + 1 \in 1..MaxEdits
          BY <4>1, <1>0
        <4> QED BY <4>1, <4>2, <4>3
      <3>2. exclusions' \in Seq(1..MaxEdits)
        BY <2>2, <3>1, <1>0, AppendFacts DEF RequestEdit, ValueShape
      <3> QED BY <2>2, <3>1, <3>2, <1>0 DEF RequestEdit, ValueShape, queueVars, childVars
    <2>3. CASE RequestChart
      <3>1. /\ asked' = [asked EXCEPT !.chart = asked.chart + 1] /\ sequence' = sequence + 1
            /\ UNCHANGED <<exclusions, edit_request, report, gen, ledger, answer>>
        BY <2>3 DEF RequestChart, request, svcVars, childVars
      <3>2. asked \in [edit: Nat, chart: Nat, report: Nat]
        BY <1>0 DEF ValueShape
      <3>3. asked' \in [edit: Nat, chart: Nat, report: Nat] /\ asked'.edit = asked.edit
        BY <3>1, <3>2
      <3> QED BY <3>1, <3>3, <1>0 DEF ValueShape
    <2>4. CASE SvcResult
      <3>1. PICK r : r = Head(worker_results)
        OBVIOUS
      <3>2. ASSUME NEW outcome \in {"ok", "saved", "lost", "uncertain"}, Told(outcome), edit_request.id # 0
            PROVE  /\ exclusions' \in Seq(1..MaxEdits) /\ edit_request' \in [id: Nat, saved: BOOLEAN]
                   /\ answer' \in [1..MaxEdits -> {"none", "ok", "saved", "lost", "uncertain"}]
        BY <3>2, <1>0, TailFacts DEF Told, ValueShape, IdInv
      <3>3. /\ exclusions' \in Seq(1..MaxEdits) /\ edit_request' \in [id: Nat, saved: BOOLEAN]
            /\ answer' \in [1..MaxEdits -> {"none", "ok", "saved", "lost", "uncertain"}]
        BY <2>4, <3>1, <3>2, <1>0, ResultEffect DEF ValueShape
      <3>4. report' \in [gen: Nat, edits: SUBSET Nat] /\ UNCHANGED <<sequence, gen, asked, ledger>>
        BY <2>4, <3>1, <1>0, ResultEffect DEF ValueShape, Msgs
      <3> QED BY <3>3, <3>4, <1>0 DEF ValueShape
    <2>5. CASE SvcEdit
      <3>1. edit_request' \in [id: Nat, saved: BOOLEAN] /\ sequence' \in Nat
        <4>1. PICK n : n = IF edit_request.id = 0 THEN sequence + 1 ELSE edit_request.id
          OBVIOUS
        <4>2. edit_request' = [edit_request EXCEPT !.id = n] /\ sequence' \in {n, sequence}
          BY <2>5, <4>1 DEF SvcEdit, request, retry
        <4>3. n \in Nat /\ sequence \in Nat /\ edit_request \in [id: Nat, saved: BOOLEAN]
          BY <4>1, <1>0 DEF ValueShape
        <4> QED BY <4>2, <4>3
      <3> QED BY <2>5, <3>1, <1>0 DEF SvcEdit, ValueShape, childVars, boundVars
    <2>6. CASE SvcTimeout
      <3>1. exclusions' \in Seq(1..MaxEdits)
        BY <2>6, <1>0, TailFacts DEF SvcTimeout, Told, ValueShape
      <3>2. answer' \in [1..MaxEdits -> {"none", "ok", "saved", "lost", "uncertain"}]
        BY <2>6, <1>0, TailFacts DEF SvcTimeout, Told, ValueShape
      <3> QED BY <2>6, <3>1, <3>2, <1>0
           DEF SvcTimeout, Told, ValueShape, queueVars, childVars, boundVars
    <2>7. CASE SvcReport
      <3>1. asked' \in [edit: Nat, chart: Nat, report: Nat] /\ asked'.edit = asked.edit
        BY <2>7, <1>0 DEF SvcReport, ValueShape
      <3> QED BY <2>7, <3>1, <1>0 DEF SvcReport, request, ValueShape, childVars
    <2> QED BY <1>1, <2>1, <2>2, <2>3, <2>4, <2>5, <2>6, <2>7 DEF UserOrService, Service
  <1>2. CASE TransportStep
    <2>1. CASE TNext \/ TSkip \/ TSend \/ TFail \/ TBreak \/ TPause \/ TReceive \/ TDeliver \/ TEmit \/ TClose
            \/ TCancel
      BY <2>1, <1>0
         DEF TNext, TSkip, Settle, TSend, TFail, TBreak, Failed, Gone, TPause, TReceive, TDeliver,
             TEmit, TClose, TCancel, ValueShape, svcVars, queueVars, childVars, boundVars, Others,
             Untouched, Rest, guiVars
    <2> QED BY <1>2, <2>1 DEF TransportStep, Transport
  <1>3. CASE ChildStep
    <2>1. CASE CPartial \/ CRead \/ CBegin \/ CRefuse \/ CReading \/ CDone \/ CCheckpoint \/ CFail \/ CCrash
      BY <2>1, <1>0
         DEF CPartial, CRead, Send, CBegin, CRefuse, CReading, CDone, CCheckpoint, CFail, CCrash,
             ValueShape, svcVars, queueVars, childVars, boundVars, Others, Untouched, Rest, guiVars
    <2>2. CASE CReceive
      BY <2>2, <1>0 DEF CReceive, ValueShape, svcVars, queueVars, Rest
    <2>3. CASE CCommit
      BY <2>3, <1>0 DEF CCommit, ValueShape, QueueShape, PipeShape, Reqs, svcVars, queueVars, Rest
    <2>4. CASE OrphanEnds
      BY <2>4, <1>0
         DEF OrphanEnds, OrphanShape, ValueShape, svcVars, queueVars, childVars, boundVars
    <2> QED BY <1>3, <2>1, <2>2, <2>3, <2>4 DEF ChildStep, Child
  <1>4. CASE UNCHANGED vars
    BY <1>4, <1>0
       DEF vars, guiVars, svcVars, queueVars, transportVars, childVars, boundVars, ValueShape,
           Others, Untouched, Rest
  <1> QED BY <1>1, <1>2, <1>3, <1>4, Cases

(* A process that is left alone has an edit of the user.                    *)
LEMMA OrphanStep ==
    ASSUME QueueShape, OrphanShape, [Next]_vars
    PROVE  OrphanShape'
  <1>1. CASE UserOrService
    BY <1>1
       DEF UserOrService, TogglePause, ToggleReports, RequestEdit, RequestChart, Stop, Service,
           SvcControl, SvcResult, SvcTurn, SvcEdit, SvcWait, SvcTimeout, SvcReport, OrphanShape
  <1>2. CASE Transport \/ TCancel
    BY <1>2
       DEF Transport, TNext, TSkip, TSend, TFail, TPause, TReceive, TDeliver, TEmit, TClose,
           TCancel, Others, OrphanShape
  <1>3. CASE TBreak
    BY <1>3 DEF TBreak, QueueShape, ActiveShape, Reqs, OrphanShape
  <1>4. CASE OrphanEnds
    BY <1>4 DEF OrphanEnds, OrphanShape
  <1>5. CASE Child \/ CPartial \/ CCheckpoint \/ CFail \/ CCrash
    BY <1>5
       DEF Child, CReceive, CPartial, CRead, CBegin, CCommit, CRefuse, CReading, CDone, CCheckpoint,
           CFail, CCrash, Rest, OrphanShape
  <1>6. CASE UNCHANGED vars
    BY <1>6 DEF vars, OrphanShape
  <1> QED BY <1>1, <1>2, <1>3, <1>4, <1>5, <1>6, Cases DEF TransportStep, ChildStep

(* The service queues edits one behind the other, a chart and a report over *)
(* the one before.                                                          *)
LEMMA CommandStep ==
    ASSUME QueueShape, ValueShape, [Next]_vars
    PROVE  CommandShape'
  <1>0. /\ CommandShape /\ sequence \in Nat /\ exclusions \in Seq(1..MaxEdits) /\ edit_request.id \in Nat
        /\ report.gen \in Nat
    BY DEF ValueShape, QueueShape
  <1>1. CASE UserOrService
    <2>1. CASE TogglePause \/ ToggleReports \/ RequestEdit \/ Stop \/ SvcControl \/ SvcResult \/
            SvcTurn \/ SvcWait \/ SvcTimeout
      BY <2>1, <1>0 DEF TogglePause, ToggleReports, RequestEdit, Stop, SvcControl, SvcResult,
         SvcTurn, SvcWait, SvcTimeout, Told, CommandShape, svcVars, queueVars, childVars,
         transportVars, boundVars, Others, Untouched, Rest, guiVars
    <2>2. CASE RequestChart
      <3>1. PICK r : r = [kind |-> "chart", id |-> sequence + 1, edit |-> 0, gen |-> report.gen]
        OBVIOUS
      <3>2. r \in Reqs /\ r.kind = "chart" /\ "chart" \in COALESCED
        BY <3>1, <1>0 DEF Reqs, COALESCED
      <3>3. pending' = [pending EXCEPT !["chart"] = r] /\ commands' = commands
        BY <2>2, <3>1, <3>2 DEF RequestChart, request
      <3> QED BY <3>2, <3>3, <1>0 DEF CommandShape
    <2>3. CASE SvcEdit
      <3>1. PICK r : r = [kind |-> "edit", edit |-> Head(exclusions), gen |-> 0,
                          id |-> IF edit_request.id = 0 THEN sequence + 1 ELSE edit_request.id]
        OBVIOUS
      <3>2. r \in Reqs /\ r.kind = "edit" /\ "edit" \notin COALESCED
        <4>1. Head(exclusions) \in 1..MaxEdits /\ MaxEdits \in Nat
          BY <2>3, <1>0, TailFacts, NoneFacts DEF SvcEdit
        <4>2. Head(exclusions) \in Nat /\ r.id \in Nat
          BY <4>1, <3>1, <1>0
        <4> QED BY <3>1, <4>2 DEF Reqs, COALESCED
      <3>3. pending' = pending /\ commands' = Append(commands, r)
        BY <2>3, <3>1, <3>2 DEF SvcEdit, request, retry
      <3>4. Len(commands') = Len(commands) + 1 /\ Len(commands) \in Nat
            /\ (\A i \in 1..Len(commands) : commands'[i] = commands[i]) /\ commands'[Len(commands) + 1] = r
            /\ commands' \in Seq(Reqs)
        BY <3>2, <3>3, <1>0, AppendFacts DEF CommandShape
      <3>5. \A i \in 1..Len(commands') : commands'[i].kind = "edit"
        BY <3>2, <3>4, <1>0 DEF CommandShape
      <3> QED BY <3>3, <3>4, <3>5, <1>0 DEF CommandShape
    <2>4. CASE SvcReport
      <3>1. PICK r : r = [kind |-> "report", id |-> sequence + 1, edit |-> 0, gen |-> 0]
        OBVIOUS
      <3>2. r \in Reqs /\ r.kind = "report" /\ "report" \in COALESCED
        BY <3>1, <1>0 DEF Reqs, COALESCED
      <3>3. pending' = [pending EXCEPT !["report"] = r] /\ commands' = commands
        BY <2>4, <3>1, <3>2 DEF SvcReport, request
      <3> QED BY <3>2, <3>3, <1>0 DEF CommandShape
    <2> QED BY <1>1, <2>1, <2>2, <2>3, <2>4 DEF UserOrService, Service
  <1>2. CASE TransportStep
    <2>1. CASE TSkip \/ TSend \/ TFail \/ TBreak \/ TPause \/ TReceive \/ TDeliver \/ TEmit \/ TClose \/
            TCancel
      BY <2>1, <1>0
         DEF TSkip, Settle, TSend, TFail, TBreak, Failed, Gone, TPause, TReceive, TDeliver, TEmit,
             TClose, TCancel, CommandShape, svcVars, queueVars, childVars, transportVars, boundVars,
             Others, Untouched, Rest, guiVars
    <2>2. CASE TNext
      <3>1. CASE commands # <<>>
        <4>1. commands' = Tail(commands) /\ pending' = pending
          BY <2>2, <3>1 DEF TNext
        <4>2. /\ commands' \in Seq(Reqs) /\ Len(commands') = Len(commands) - 1 /\ Len(commands) \in Nat
              /\ \A i \in 1..Len(commands') : commands'[i] = commands[i + 1]
          BY <3>1, <4>1, <1>0, TailFacts DEF CommandShape
        <4>3. \A i \in 1..Len(commands') : commands'[i].kind = "edit"
          BY <4>2, <1>0 DEF CommandShape
        <4> QED BY <4>1, <4>2, <4>3, <1>0 DEF CommandShape
      <3>2. CASE commands = <<>>
        BY <2>2, <3>2, <1>0, NoneFacts DEF TNext, CommandShape
      <3> QED BY <3>1, <3>2
    <2> QED BY <1>2, <2>1, <2>2 DEF TransportStep, Transport
  <1>3. CASE ChildStep
    BY <1>3, Frames, <1>0 DEF CommandShape, queueVars
  <1>4. CASE UNCHANGED vars
    BY <1>4, <1>0 DEF vars, guiVars, svcVars, queueVars, transportVars, childVars, boundVars,
       CommandShape, Others, Untouched, Rest
  <1> QED BY <1>1, <1>2, <1>3, <1>4, Cases

(* The transport has one request at a time, until its result is settled.    *)
LEMMA ActiveStep ==
    ASSUME QueueShape, ThreadShape, [Next]_vars
    PROVE  ActiveShape'
  <1>0. ActiveShape /\ CommandShape
    BY DEF QueueShape
  <1>1. CASE UserOrService
    BY <1>1, Frames, <1>0 DEF ActiveShape, transportVars
  <1>2. CASE TransportStep
    <2>1. CASE TSkip \/ TSend \/ TFail \/ TBreak \/ TPause \/ TDeliver \/ TClose \/ TCancel
      BY <2>1, <1>0, NoneFacts
         DEF TSkip, Settle, TSend, TFail, TBreak, Failed, Gone, TPause, TDeliver, TClose, TCancel,
             ActiveShape, Others, Untouched
    <2>2. CASE TNext
      <3>1. CASE commands # <<>>
        <4>1. active' = Head(commands) /\ Head(commands) = commands[1] /\ Head(commands) \in Reqs /\ 1 \in 1..Len(commands)
          BY <2>2, <3>1, <1>0, TailFacts DEF TNext, CommandShape
        <4> QED BY <4>1, <1>0 DEF CommandShape, ActiveShape, Asked
      <3>2. CASE commands = <<>>
        <4>1. PICK k \in COALESCED : pending[k] # None /\ active' = pending[k]
          BY <2>2, <3>2 DEF TNext
        <4> QED BY <4>1, <1>0 DEF CommandShape, ActiveShape, Asked, COALESCED
      <3> QED BY <3>1, <3>2
    <2>3. CASE TReceive
      BY <2>3, <1>0, NoneFacts DEF TReceive, Settle, ActiveShape
    <2>4. CASE TEmit
      BY <2>4, <1>0, NoneFacts DEF TEmit, ActiveShape
    <2> QED BY <1>2, <2>1, <2>2, <2>3, <2>4 DEF TransportStep, Transport
  <1>3. CASE ChildStep
    BY <1>3, Frames, <1>0 DEF ActiveShape, transportVars
  <1>4. CASE UNCHANGED vars
    BY <1>4, <1>0, NoneFacts
       DEF vars, guiVars, svcVars, queueVars, transportVars, childVars, boundVars, ActiveShape,
           Others, Untouched
  <1> QED BY <1>1, <1>2, <1>3, <1>4, Cases

(* What is left of the pipe when the child is gone.                         *)
LEMMA GonePipe == Gone => PipeShape'
  <1> SUFFICES ASSUME Gone PROVE PipeShape'
    OBVIOUS
  <1>1. cin' = <<>> /\ creq' = None /\ cst' = "none"
    BY DEF Gone
  <1>2. cin' \in Seq(Reqs) /\ Len(cin') = 0
    BY <1>1, ShortFacts
  <1> QED BY <1>1, <1>2, NoneFacts DEF PipeShape

(* The pipe carries requests and cancellations of requests.                 *)
LEMMA PipeStep ==
    ASSUME QueueShape, ThreadShape, [Next]_vars
    PROVE  PipeShape'
  <1>0. PipeShape /\ ActiveShape
    BY DEF QueueShape
  <1>1. CASE UserOrService
    BY <1>1, Frames, <1>0 DEF PipeShape, childVars
  <1>2. CASE TransportStep
    <2>1. CASE TNext \/ TSkip \/ TReceive \/ TDeliver \/ TEmit
      BY <2>1, <1>0, NoneFacts, ShortFacts DEF TNext, TSkip, Settle, TReceive, TDeliver, TEmit,
         PipeShape, Others, Untouched, childVars, Rest
    <2>2. CASE TSend
      <3>1. \/ cin' = Append(cin, active) /\ UNCHANGED <<cst, creq>>
            \/ cin' = <<active>> /\ cst' = "idle" /\ UNCHANGED creq
        BY <2>2 DEF TSend
      <3>2. active \in Reqs /\ active.kind # "none" /\ cin \in Seq(Reqs)
        BY <2>2, <1>0 DEF TSend, ActiveShape, PipeShape, Asked
      <3>3. cin' \in Seq(Reqs) /\ \A i \in 1..Len(cin') : cin'[i].kind # "none"
        <4>1. CASE cin' = Append(cin, active)
          BY <4>1, <3>2, <1>0, AppendFacts DEF PipeShape
        <4>2. CASE cin' = <<active>>
          <5>1. Len(cin') = 1 /\ cin'[1] = active /\ cin' \in Seq(Reqs)
            BY <4>2, <3>2, ShortFacts
          <5> QED BY <5>1, <3>2
        <4> QED BY <3>1, <4>1, <4>2
      <3> QED BY <3>1, <3>3, <1>0 DEF PipeShape
    <2>3. CASE TFail \/ TBreak
      BY <2>3, GonePipe DEF TFail, TBreak, Failed
    <2>4. CASE TPause
      BY <2>4, GonePipe DEF TPause
    <2>5. CASE TClose
      BY <2>5, GonePipe, <1>0 DEF TClose, PipeShape
    <2>6. CASE TCancel
      <3>1. PICK c : c = [active EXCEPT !.kind = "cancel"]
        OBVIOUS
      <3>2. c \in Reqs /\ c.kind = "cancel" /\ cin \in Seq(Reqs)
        BY <3>1, <1>0 DEF ActiveShape, PipeShape, Reqs
      <3>3. cin' = Append(cin, c) /\ UNCHANGED <<cst, creq>>
        BY <2>6, <3>1 DEF TCancel
      <3>4. cin' \in Seq(Reqs) /\ \A i \in 1..Len(cin') : cin'[i].kind # "none"
        BY <3>2, <3>3, <1>0, AppendFacts DEF PipeShape
      <3> QED BY <3>3, <3>4, <1>0 DEF PipeShape
    <2> QED BY <1>2, <2>1, <2>2, <2>3, <2>4, <2>5, <2>6 DEF TransportStep, Transport
  <1>3. CASE ChildStep
    <2>1. CASE CPartial \/ CRead \/ CBegin \/ CCommit \/ CRefuse \/ CReading \/ CDone \/ CFail \/ CCrash
      BY <2>1, <1>0, NoneFacts, ShortFacts
         DEF CPartial, CRead, Send, CBegin, CCommit, CRefuse, CReading, CDone, CFail, CCrash,
             PipeShape, Others, Untouched, childVars, Rest
    <2>2. CASE CReceive
      <3>1. /\ cin # <<>> /\ cin' = Tail(cin)
            /\ UNCHANGED <<cst, creq>> \/ (creq' = Head(cin) /\ Head(cin).kind # "cancel")
        BY <2>2 DEF CReceive
      <3>2. cin' \in Seq(Reqs) /\ (\A i \in 1..Len(cin') : cin'[i].kind # "none")
            /\ Head(cin) \in Reqs /\ Head(cin).kind # "none"
        BY <3>1, <1>0, TailFacts DEF PipeShape
      <3> QED BY <3>1, <3>2, <1>0 DEF PipeShape, Reqs, Asked
    <2>3. CASE CCheckpoint
      <3>1. /\ cin # <<>> /\ cin' = Tail(cin)
            /\ UNCHANGED <<cst, creq>> \/ (cst' = "idle" /\ creq' = None)
        BY <2>3 DEF CCheckpoint
      <3>2. cin' \in Seq(Reqs) /\ (\A i \in 1..Len(cin') : cin'[i].kind # "none")
        BY <3>1, <1>0, TailFacts DEF PipeShape
      <3> QED BY <3>1, <3>2, <1>0, NoneFacts DEF PipeShape
    <2>4. CASE OrphanEnds
      BY <2>4, <1>0 DEF OrphanEnds, childVars, PipeShape
    <2> QED BY <1>3, <2>1, <2>2, <2>3, <2>4 DEF ChildStep, Child
  <1>4. CASE UNCHANGED vars
    BY <1>4, <1>0, NoneFacts, ShortFacts
       DEF vars, guiVars, svcVars, queueVars, transportVars, childVars, boundVars, PipeShape,
           Others, Untouched, Rest
  <1> QED BY <1>1, <1>2, <1>3, <1>4, Cases

(* Results keep their shape on the way from the child to the service.       *)
LEMMA MsgStep ==
    ASSUME QueueShape, ValueShape, ThreadShape, MsgShape, IdInv, [Next]_vars
    PROVE  MsgShape'
  <1>0. QueueShape /\ MsgShape /\ ValueShape
    OBVIOUS
  <1>1. CASE UserOrService
    <2>1. CASE TogglePause \/ ToggleReports \/ RequestEdit \/ RequestChart \/ Stop \/ SvcControl \/
            SvcTurn \/ SvcEdit \/ SvcWait \/ SvcTimeout \/ SvcReport
      BY <2>1, <1>0 DEF TogglePause, ToggleReports, RequestEdit, RequestChart, request, Stop,
         SvcControl, SvcTurn, SvcEdit, retry, SvcWait, SvcTimeout, Told, SvcReport, MsgShape,
         Others, Untouched, Rest, childVars, transportVars
    <2>2. CASE SvcResult
      <3>1. PICK r : r = Head(worker_results)
        OBVIOUS
      <3>2. worker_results # <<>> /\ worker_results' = Tail(worker_results) /\ UNCHANGED <<transportVars, childVars>>
        BY <2>2, <3>1, <1>0, ResultEffect
      <3> QED BY <3>2, <1>0, TailFacts DEF MsgShape, transportVars, childVars
    <2> QED BY <1>1, <2>1, <2>2 DEF UserOrService, Service
  <1>2. CASE TransportStep
    <2>1. CASE TNext \/ TSend \/ TCancel
      BY <2>1, <1>0
         DEF TNext, TSend, TCancel, MsgShape, Others, Untouched, Rest, childVars, transportVars
    <2>2. CASE TSkip
      <3>1. Result(active, "cancelled") \in Msgs
        BY <2>2, <1>0, ResultFacts DEF TSkip, QueueShape, ActiveShape
      <3>2. out' = <<Result(active, "cancelled")>> /\ UNCHANGED <<cout, worker_results>>
        BY <2>2 DEF TSkip, Settle, childVars
      <3> QED BY <3>1, <3>2, <1>0, OneOut DEF MsgShape
    <2>3. CASE TFail \/ TBreak
      <3>1. active \in Reqs /\ active.kind \in Asked
        BY <2>3, <1>0 DEF TFail, TBreak, Failed, QueueShape, ActiveShape
      <3>2. PICK v \in BOOLEAN : v = (active.kind = "edit")
        OBVIOUS
      <3>3. PICK m : m = [Result(active, "error") EXCEPT !.permanent = v, !.uncertain = v]
        OBVIOUS
      <3>4. m \in Msgs
        BY <3>1, <3>3 DEF Result, Reqs, Msgs
      <3>5. out' = <<m>> /\ cout' = <<>> /\ UNCHANGED worker_results
        BY <2>3, <3>2, <3>3 DEF TFail, TBreak, Failed, Settle, Gone
      <3> QED BY <3>4, <3>5, <1>0, OneOut DEF MsgShape
    <2>4. CASE TPause
      <3>1. Result(active, "cancelled") \in Msgs
        BY <2>4, <1>0, ResultFacts DEF TPause, QueueShape, ActiveShape
      <3>2. out' = <<Result(active, "cancelled")>> /\ cout' = <<>> /\ UNCHANGED worker_results
        BY <2>4 DEF TPause, Settle, Gone
      <3> QED BY <3>1, <3>2, <1>0, OneOut DEF MsgShape
    <2>5. CASE TReceive
      <3>1. cout # <<>> /\ cout' = Tail(cout) /\ UNCHANGED worker_results
        BY <2>5 DEF TReceive
      <3>2. Head(cout) \in Msgs /\ cout' \in Seq(Msgs)
        BY <3>1, <1>0, TailFacts DEF MsgShape
      <3>3. PICK m : m = [Head(cout) EXCEPT !.status = "progress"]
        OBVIOUS
      <3>4. m \in Msgs
        BY <3>2, <3>3 DEF Msgs
      <3>5. out' = <<m>> \/ out' = <<Head(cout)>>
        BY <2>5, <3>3 DEF TReceive, Settle
      <3> QED BY <3>1, <3>2, <3>4, <3>5, <1>0, OneOut DEF MsgShape
    <2>6. CASE TDeliver
      <3>1. (out' = <<>> \/ out' = out) /\ UNCHANGED <<cout, worker_results>>
        BY <2>6 DEF TDeliver, childVars
      <3> QED BY <3>1, <1>0, OneOut DEF MsgShape
    <2>7. CASE TEmit
      <3>1. out' = <<>> /\ cout' = cout /\ worker_results' \in {worker_results, worker_results \o out}
        BY <2>7 DEF TEmit, childVars
      <3>2. worker_results \o out \in Seq(Msgs)
        BY <1>0, ConcatProperties DEF MsgShape
      <3> QED BY <3>1, <3>2, <1>0, OneOut DEF MsgShape
    <2>8. CASE TClose
      <3>1. UNCHANGED <<out, worker_results>> /\ cout' \in {cout, <<>>}
        BY <2>8 DEF TClose, Gone
      <3> QED BY <3>1, <1>0, OneOut DEF MsgShape
    <2> QED BY <1>2, <2>1, <2>2, <2>3, <2>4, <2>5, <2>6, <2>7, <2>8 DEF TransportStep, Transport
  <1>3. CASE ChildStep
    <2>1. CASE CReceive \/ CCommit \/ CCrash
      BY <2>1, <1>0
         DEF CReceive, CCommit, CCrash, MsgShape, Others, Untouched, Rest, childVars, transportVars
    <2>2. CASE CRead
      <3>1. creq \in Reqs /\ creq.kind \in Asked
        BY <2>2, <1>0 DEF CRead, QueueShape, PipeShape
      <3>2. PICK m : m = IF creq.kind = "report" THEN [Result(creq, "ok") EXCEPT !.gen = gen, !.edits = ledger]
                         ELSE [Result(creq, IF creq.gen = gen THEN "ok" ELSE "stale") EXCEPT !.gen = creq.gen]
        OBVIOUS
      <3>3. m \in Msgs
        <4>1. creq.gen \in Nat /\ gen \in Nat /\ ledger \in SUBSET Nat
          BY <3>1, <1>0 DEF Reqs, ValueShape
        <4>2. Result(creq, "ok") \in Msgs /\ Result(creq, "stale") \in Msgs
          BY <3>1, ResultFacts
        <4> QED BY <3>2, <4>1, <4>2 DEF Msgs
      <3>4. cout' = Append(cout, m)
        BY <2>2, <3>2 DEF CRead, Send
      <3> QED BY <2>2, <3>3, <3>4, <1>0, Frames, AppendFacts
           DEF MsgShape, transportVars, ChildStep, Child
    <2>3. CASE CBegin
      <3>1. Result(creq, "phase") \in Msgs
        BY <2>3, <1>0, ResultFacts DEF CBegin, QueueShape, PipeShape, Asked
      <3>2. cout' = cout \/ cout' = Append(cout, Result(creq, "phase"))
        BY <2>3 DEF CBegin, Send
      <3> QED BY <2>3, <3>1, <3>2, <1>0, Frames, AppendFacts
           DEF MsgShape, transportVars, ChildStep, Child
    <2>4. CASE CRefuse
      <3>1. creq \in Reqs /\ creq.kind \in Asked
        BY <2>4, <1>0 DEF CRefuse, QueueShape, PipeShape, Asked, COALESCED
      <3>2. PICK m : m = [Result(creq, "error") EXCEPT !.permanent = TRUE]
        OBVIOUS
      <3>3. m \in Msgs
        <4>1. gen \in Nat /\ ledger \in SUBSET Nat
          BY <1>0 DEF ValueShape
        <4> QED BY <3>1, <3>2, <4>1 DEF Result, Reqs, Msgs
      <3>4. cout' = Append(cout, m)
        BY <2>4, <3>2 DEF CRefuse, Send
      <3> QED BY <2>4, <3>3, <3>4, <1>0, Frames, AppendFacts
           DEF MsgShape, transportVars, ChildStep, Child
    <2>5. CASE CReading
      <3>1. creq \in Reqs /\ creq.kind \in Asked
        BY <2>5, <1>0 DEF CReading, QueueShape, PipeShape, Asked, COALESCED
      <3>2. PICK m : m = [Result(creq, "phase") EXCEPT !.saved = TRUE]
        OBVIOUS
      <3>3. m \in Msgs
        <4>1. gen \in Nat /\ ledger \in SUBSET Nat
          BY <1>0 DEF ValueShape
        <4> QED BY <3>1, <3>2, <4>1 DEF Result, Reqs, Msgs
      <3>4. cout' = Append(cout, m)
        BY <2>5, <3>2 DEF CReading, Send
      <3> QED BY <2>5, <3>3, <3>4, <1>0, Frames, AppendFacts
           DEF MsgShape, transportVars, ChildStep, Child
    <2>6. CASE CDone
      <3>1. creq \in Reqs /\ creq.kind \in Asked
        BY <2>6, <1>0 DEF CDone, QueueShape, PipeShape, Asked, COALESCED
      <3>2. PICK m : m = [Result(creq, "ok") EXCEPT !.gen = gen, !.edits = ledger, !.saved = TRUE]
        OBVIOUS
      <3>3. m \in Msgs
        <4>1. gen \in Nat /\ ledger \in SUBSET Nat
          BY <1>0 DEF ValueShape
        <4> QED BY <3>1, <3>2, <4>1 DEF Result, Reqs, Msgs
      <3>4. cout' = Append(cout, m)
        BY <2>6, <3>2 DEF CDone, Send
      <3> QED BY <2>6, <3>3, <3>4, <1>0, Frames, AppendFacts
           DEF MsgShape, transportVars, ChildStep, Child
    <2>7. CASE CCheckpoint
      <3>1. Result(creq, "cancelled") \in Msgs
        BY <2>7, <1>0, ResultFacts DEF CCheckpoint, QueueShape, PipeShape
      <3>2. cout' = cout \/ cout' = Append(cout, Result(creq, "cancelled"))
        BY <2>7 DEF CCheckpoint, Send
      <3> QED BY <2>7, <3>1, <3>2, <1>0, Frames, AppendFacts
           DEF MsgShape, transportVars, ChildStep, Child
    <2>8. CASE CFail
      <3>1. creq \in Reqs /\ creq.kind \in Asked
        BY <2>8, <1>0 DEF CFail, QueueShape, PipeShape
      <3>2. PICK v \in BOOLEAN : v <=> creq.id \in committed
        BY Zenon
      <3>3. PICK permanent \in BOOLEAN :
               cout' = Append(cout, [Result(creq, "error") EXCEPT !.saved = v, !.permanent = permanent])
        BY <2>8, <3>2 DEF CFail, Send
      <3>4. [Result(creq, "error") EXCEPT !.saved = v, !.permanent = permanent] \in Msgs
        BY <3>1 DEF Result, Reqs, Msgs
      <3> QED BY <2>8, <3>3, <3>4, <1>0, Frames, AppendFacts
           DEF MsgShape, transportVars, ChildStep, Child
    <2>9. CASE CPartial
      <3>1. creq \in Reqs /\ creq.kind \in Asked
        BY <2>9, <1>0 DEF CPartial, QueueShape, PipeShape
      <3>2. PICK m : m = [Result(creq, "partial") EXCEPT !.gen = gen, !.edits = ledger]
        OBVIOUS
      <3>3. m \in Msgs
        <4>1. gen \in Nat /\ ledger \in SUBSET Nat
          BY <1>0 DEF ValueShape
        <4> QED BY <3>1, <3>2, <4>1 DEF Result, Reqs, Msgs
      <3>4. cout' = Append(cout, m)
        BY <2>9, <3>2 DEF CPartial, Send
      <3> QED BY <2>9, <3>3, <3>4, <1>0, Frames, AppendFacts
           DEF MsgShape, transportVars, ChildStep, Child
    <2>10. CASE OrphanEnds
      BY <2>10, <1>0 DEF OrphanEnds, MsgShape, childVars, transportVars
    <2> QED BY <1>3, <2>1, <2>2, <2>3, <2>4, <2>5, <2>6, <2>7, <2>8, <2>9, <2>10
         DEF ChildStep, Child
  <1>4. CASE UNCHANGED vars
    BY <1>4, <1>0
       DEF vars, guiVars, svcVars, queueVars, transportVars, childVars, boundVars, MsgShape, Others,
           Untouched, Rest
  <1> QED BY <1>1, <1>2, <1>3, <1>4, Cases

-----------------------------------------------------------------------------
(* The guard of a commit                                                    *)

Flying == cst \in {"start", "writing", "committed", "reading"}

(* While the child works, or a request is in the pipe, the transport waits  *)
(* for the child.                                                           *)
LEMMA AtWork ==
    ASSUME GuardInv, tpc # "done", Flying \/ ~Quiet
    PROVE  Waiting /\ connection /\ (Flying => Quiet /\ creq = active)
  BY DEF GuardInv, Free, Busy, Waiting, Flying

(* A result goes behind the news of the commit, and only once.              *)
LEMMA AppendMessage ==
    ASSUME MsgShape, NEW m \in Msgs, cout' = Append(cout, m),
           \A i \in 1..Len(cout) : ~Final(cout[i])
    PROVE  /\ \A i \in 1..Len(cout') : Final(cout'[i]) => i = Len(cout') /\ Final(m)
           /\ (\A i \in 1..Len(cout) : ~cout[i].saved) /\ ~m.saved => \A i \in 1..Len(cout') : ~cout'[i].saved
  <1>1. /\ Len(cout') = Len(cout) + 1 /\ Len(cout) \in Nat
        /\ \A i \in 1..Len(cout) : cout'[i] = cout[i]
        /\ cout'[Len(cout) + 1] = m
    BY AppendFacts DEF MsgShape
  <1>2. \A i \in 1..Len(cout') : i \in 1..Len(cout) \/ (i = Len(cout) + 1 /\ i = Len(cout'))
    BY <1>1
  <1> QED BY <1>1, <1>2

(* The child sends its final result: nothing of the request is left.        *)
LEMMA ChildEnds ==
    ASSUME MsgShape, GuardInv, tpc # "done", Flying, NEW m \in Msgs, cout' = Append(cout, m),
           cst' = "idle", UNCHANGED <<tpc, active, connection, phase>>, Quiet'
    PROVE  GuardInv'
  <1>1. Waiting /\ connection /\ Quiet
    BY AtWork
  <1>2. \A i \in 1..Len(cout) : ~Final(cout[i])
    BY <1>1 DEF GuardInv, Busy, Flying
  <1>3. \A i \in 1..Len(cout') : Final(cout'[i]) => i = Len(cout')
    BY <1>2, AppendMessage
  <1>4. Free'
    BY <1>1 DEF Free, Waiting, GuardInv
  <1>5. Busy'
    BY <1>1, <1>3 DEF Busy, Waiting, OnlyActive, Quiet
  <1> QED BY <1>4, <1>5 DEF GuardInv

(* The transport thread keeps the guard: a request is sent under it, and    *)
(* it is dropped with the result or with the child.                         *)
LEMMA TransportGuard ==
    ASSUME QueueShape, MsgShape, ThreadShape, GuardInv, TransportStep
    PROVE  GuardInv'
  <1>0. /\ active \in Reqs /\ cin \in Seq(Reqs) /\ cout \in Seq(Msgs)
        /\ tpc \in {"send", "loop"} => active # None
    BY NoneFacts DEF QueueShape, ActiveShape, PipeShape, MsgShape, Asked
  <1>g. tpc # "done" => Free /\ Busy
    BY DEF GuardInv
  <1>1. CASE TNext
    BY <1>1, <1>0, <1>g DEF TNext, childVars, GuardInv, Free, Busy, Waiting, Quiet
  <1>2. CASE TSkip
    BY <1>2, <1>0, <1>g DEF TSkip, Settle, childVars, GuardInv, Free, Busy, Waiting, Quiet
  <1>3. CASE TFail \/ TBreak \/ TPause
    <2>1. connection' = FALSE /\ cst' = "none" /\ cin' = <<>> /\ cout' = <<>> /\ active' = None /\ tpc' = "deliver"
      BY <1>3 DEF TFail, TBreak, Failed, TPause, Gone, Settle
    <2> QED BY <2>1, ShortFacts DEF GuardInv, Free, Busy, Waiting, Quiet
  <1>4. CASE TSend
    <2>1. cout = <<>> /\ Quiet /\ cst \in {"none", "idle", "dead"} /\ (connection => cst # "none")
      BY <1>4, <1>g DEF TSend, Free
    <2>2. /\ connection' = TRUE /\ cst' = "idle" /\ cout' = <<>> /\ tpc' = "loop" /\ active' = active
          /\ active.kind = "edit" => phase' = "pending-write"
      BY <1>4, <2>1 DEF TSend
    <2>3. active.kind # "cancel" /\ active # None
      BY <1>4, <1>0, NoneFacts DEF TSend, QueueShape, ActiveShape, Asked
    <2>4. OnlyActive'
      <3>1. CASE connection
        <4>1. cin' = Append(cin, active)
          BY <1>4, <3>1 DEF TSend
        <4>2. /\ Len(cin') = Len(cin) + 1 /\ Len(cin) \in Nat
              /\ \A i \in 1..Len(cin) : cin'[i] = cin[i]
              /\ cin'[Len(cin) + 1] = active
          BY <4>1, <1>0, AppendFacts
        <4>3. \A i \in 1..Len(cin') : i \in 1..Len(cin) \/ i = Len(cin) + 1
          BY <4>2
        <4> QED BY <4>2, <4>3, <2>1, <2>2 DEF OnlyActive, Quiet
      <3>2. CASE ~connection
        <4>1. cin' = <<active>>
          BY <1>4, <3>2 DEF TSend
        <4>2. Len(cin') = 1 /\ cin'[1] = active
          BY <4>1
        <4> QED BY <4>2, <2>2 DEF OnlyActive
      <3> QED BY <3>1, <3>2
    <2>5. Free'
      BY <2>2, <2>3 DEF Free
    <2>6. Busy'
      BY <2>2, <2>4, ShortFacts DEF Busy, Unwritten
    <2> QED BY <2>5, <2>6 DEF GuardInv
  <1>5. CASE TCancel
    <2>1. PICK c : c = [active EXCEPT !.kind = "cancel"]
      OBVIOUS
    <2>2. c \in Reqs /\ c.kind = "cancel"
      BY <2>1, <1>0 DEF Reqs
    <2>3. tpc = "loop" /\ cin' = Append(cin, c) /\ UNCHANGED <<tpc, active, connection, phase, cst, creq, cout>>
      BY <1>5, <2>1 DEF TCancel
    <2>4. /\ Len(cin') = Len(cin) + 1 /\ Len(cin) \in Nat
          /\ \A i \in 1..Len(cin) : cin'[i] = cin[i]
          /\ cin'[Len(cin) + 1] = c
      BY <2>2, <2>3, <1>0, AppendFacts
    <2>5. \A i \in 1..Len(cin') : i \in 1..Len(cin) \/ i = Len(cin) + 1
      BY <2>4
    <2>6. (Quiet => Quiet') /\ (OnlyActive => OnlyActive')
      BY <2>2, <2>3, <2>4, <2>5 DEF Quiet, OnlyActive
    <2>7. Waiting /\ Free /\ Busy /\ connection
      BY <2>3, <1>0, <1>g DEF Waiting, Busy
    <2>8. Free'
      BY <2>3, <2>7 DEF Free, Waiting
    <2>9. ~Quiet' => ~Quiet
      BY <2>6
    <2>10. Busy'
      BY <2>3, <2>6, <2>7, <2>9 DEF Busy, Waiting, Unwritten
    <2> QED BY <2>8, <2>10 DEF GuardInv
  <1>6. CASE TReceive
    <2>1. tpc = "loop" /\ cout # <<>> /\ cout' = Tail(cout) /\ UNCHANGED <<connection, cst, creq, cin>>
      BY <1>6 DEF TReceive
    <2>2. /\ Len(cout') = Len(cout) - 1 /\ Len(cout) \in Nat \ {0} /\ Head(cout) = cout[1]
          /\ \A i \in 1..Len(cout') : cout'[i] = cout[i + 1]
      BY <2>1, <1>0, TailFacts
    <2>3. Waiting /\ Free /\ Busy /\ connection
      BY <2>1, <1>0, <1>g DEF Waiting, Busy
    <2>4. (cst = "idle" => Quiet) /\ ~(cst = "start" /\ active.kind = "edit")
      BY <2>1, <2>3 DEF Busy, Unwritten
    <2>5. CASE Head(cout).status = "phase"
      <3>1. /\ active' = active /\ tpc' = "deliver"
            /\ phase' = IF Head(cout).saved THEN "reading" ELSE "writing"
        BY <1>6, <2>5 DEF TReceive
      <3>2. Free'
        BY <2>1, <2>3, <3>1, <1>0 DEF Free, Waiting
      <3>3. \A i \in 1..Len(cout') : i + 1 \in 1..Len(cout) /\ (i + 1 = Len(cout) => i = Len(cout'))
        BY <2>2
      <3>4. cst \in {"writing", "committed"} => phase' \in WRITING /\ \A i \in 1..Len(cout') : ~cout'[i].saved
        <4>1. 1 \in 1..Len(cout)
          BY <2>2
        <4> QED BY <2>2, <2>3, <3>1, <3>3, <4>1 DEF Busy, WRITING
      <3>5. \A i \in 1..Len(cout') :
               Final(cout'[i]) => i = Len(cout') /\ cst \in {"idle", "dead"} /\ Quiet
        BY <2>2, <2>3, <3>3 DEF Busy
      <3>6. (Quiet' <=> Quiet) /\ (OnlyActive' <=> OnlyActive) /\ Waiting'
        BY <2>1, <2>3, <3>1 DEF Quiet, OnlyActive, Waiting
      <3>7. Busy'
        BY <2>1, <2>3, <2>4, <3>1, <3>4, <3>5, <3>6 DEF Busy
      <3> QED BY <3>2, <3>7 DEF GuardInv
    <2>7. CASE Head(cout).status = "partial"
      <3>1. /\ active' = active /\ tpc' = "deliver" /\ phase' = phase
        BY <1>6, <2>7 DEF TReceive
      <3>2. Free'
        BY <2>1, <2>3, <3>1, <1>0 DEF Free, Waiting
      <3>3. \A i \in 1..Len(cout') : i + 1 \in 1..Len(cout) /\ (i + 1 = Len(cout) => i = Len(cout'))
        BY <2>2
      <3>4. cst \in {"writing", "committed"} => phase' \in WRITING /\ \A i \in 1..Len(cout') : ~cout'[i].saved
        BY <2>2, <2>3, <3>1, <3>3 DEF Busy
      <3>5. \A i \in 1..Len(cout') :
               Final(cout'[i]) => i = Len(cout') /\ cst \in {"idle", "dead"} /\ Quiet
        BY <2>2, <2>3, <3>3 DEF Busy
      <3>6. (Quiet' <=> Quiet) /\ (OnlyActive' <=> OnlyActive) /\ Waiting'
        BY <2>1, <2>3, <3>1 DEF Quiet, OnlyActive, Waiting
      <3>7. Busy'
        BY <2>1, <2>3, <2>4, <3>1, <3>4, <3>5, <3>6 DEF Busy
      <3> QED BY <3>2, <3>7 DEF GuardInv
    <2>6. CASE Final(Head(cout))
      <3>1. active' = None /\ tpc' = "deliver"
        BY <1>6, <2>6 DEF TReceive, Settle, Final
      <3>2. 1 = Len(cout) /\ cst \in {"idle", "dead"} /\ Quiet
        <4>1. 1 \in 1..Len(cout)
          BY <2>2
        <4> QED BY <2>2, <2>3, <2>6, <4>1 DEF Busy
      <3>3. cout' = <<>>
        BY <2>1, <2>2, <3>2, <1>0, TailFacts, EmptySeq
      <3> QED BY <2>1, <2>3, <3>1, <3>2, <3>3 DEF GuardInv, Free, Busy, Waiting, Quiet
    <2> QED BY <2>5, <2>6, <2>7 DEF Final
  <1>7. CASE TDeliver \/ TEmit
    <2>1. /\ UNCHANGED <<active, connection, phase, cst, creq, cin, cout>> /\ tpc \in {"deliver", "emit"}
          /\ tpc' = "emit" \/ tpc' = (IF active = None THEN "next" ELSE "loop")
      BY <1>7 DEF TDeliver, TEmit, childVars
    <2>2. Waiting' <=> Waiting
      BY <2>1 DEF Waiting
    <2>3. (Quiet' <=> Quiet) /\ (OnlyActive' <=> OnlyActive) /\ (Unwritten' <=> Unwritten)
      BY <2>1 DEF Quiet, OnlyActive, Unwritten
    <2> QED BY <2>1, <2>2, <2>3, <1>g DEF GuardInv, Free, Busy
  <1>8. CASE TClose
    BY <1>8 DEF TClose, GuardInv
  <1> QED BY <1>1, <1>2, <1>3, <1>4, <1>5, <1>6, <1>7, <1>8 DEF TransportStep, Transport

(* The message an action of the child sends, with its status.               *)
LEMMA Sent ==
    ASSUME QueueShape, MsgShape, ValueShape
    PROVE  /\ CRead => \E m \in Msgs : cout' = Append(cout, m)
           /\ CRefuse \/ CDone \/ CFail => \E m \in Msgs : cout' = Append(cout, m)
           /\ CPartial \/ CReading => \E m \in Msgs : ~Final(m) /\ cout' = Append(cout, m)
  <1>0. Flying => creq \in Reqs /\ creq.kind \in Asked
    BY DEF QueueShape, PipeShape, Flying
  <1>1. gen \in Nat /\ ledger \in SUBSET Nat
    BY DEF ValueShape
  <1>2. ASSUME CRead PROVE \E m \in Msgs : cout' = Append(cout, m)
    <2>1. creq \in Reqs /\ creq.kind \in Asked
      BY <1>2, <1>0 DEF CRead, Flying
    <2>2. PICK m : m = IF creq.kind = "report" THEN [Result(creq, "ok") EXCEPT !.gen = gen, !.edits = ledger]
                       ELSE [Result(creq, IF creq.gen = gen THEN "ok" ELSE "stale") EXCEPT !.gen = creq.gen]
      OBVIOUS
    <2>3. creq.gen \in Nat /\ Result(creq, "ok") \in Msgs /\ Result(creq, "stale") \in Msgs
          /\ Result(creq, "ok").status = "ok" /\ Result(creq, "stale").status = "stale"
      BY <2>1, ResultFacts DEF Reqs
    <2>4. m \in Msgs
      BY <2>2, <2>3, <1>1 DEF Msgs
    <2>5. cout' = Append(cout, m)
      BY <1>2, <2>2 DEF CRead, Send
    <2> QED BY <2>4, <2>5
  <1>3. ASSUME CRefuse PROVE \E m \in Msgs : cout' = Append(cout, m)
    <2>1. creq \in Reqs /\ creq.kind \in Asked
      BY <1>3, <1>0 DEF CRefuse, Flying
    <2>2. PICK m : m = [Result(creq, "error") EXCEPT !.permanent = TRUE]
      OBVIOUS
    <2>3. m \in Msgs
      BY <2>1, <2>2 DEF Result, Reqs, Msgs
    <2>4. cout' = Append(cout, m)
      BY <1>3, <2>2 DEF CRefuse, Send
    <2> QED BY <2>3, <2>4
  <1>4. ASSUME CDone PROVE \E m \in Msgs : cout' = Append(cout, m)
    <2>1. creq \in Reqs /\ creq.kind \in Asked
      BY <1>4, <1>0 DEF CDone, Flying
    <2>2. PICK m : m = [Result(creq, "ok") EXCEPT !.gen = gen, !.edits = ledger, !.saved = TRUE]
      OBVIOUS
    <2>3. m \in Msgs
      BY <2>1, <2>2, <1>1 DEF Result, Reqs, Msgs
    <2>4. cout' = Append(cout, m)
      BY <1>4, <2>2 DEF CDone, Send
    <2> QED BY <2>3, <2>4
  <1>5. ASSUME CFail PROVE \E m \in Msgs : cout' = Append(cout, m)
    <2>1. creq \in Reqs /\ creq.kind \in Asked
      BY <1>5, <1>0 DEF CFail, Flying
    <2>2. PICK v \in BOOLEAN : v <=> creq.id \in committed
      BY Zenon
    <2>3. PICK permanent \in BOOLEAN :
             cout' = Append(cout, [Result(creq, "error") EXCEPT !.saved = v, !.permanent = permanent])
      BY <1>5, <2>2 DEF CFail, Send
    <2>4. PICK m : m = [Result(creq, "error") EXCEPT !.saved = v, !.permanent = permanent]
      OBVIOUS
    <2>5. m \in Msgs
      BY <2>1, <2>4 DEF Result, Reqs, Msgs
    <2> QED BY <2>3, <2>4, <2>5
  <1>6. ASSUME CReading PROVE \E m \in Msgs : ~Final(m) /\ cout' = Append(cout, m)
    <2>1. creq \in Reqs /\ creq.kind \in Asked
      BY <1>6, <1>0 DEF CReading, Flying
    <2>2. PICK m : m = [Result(creq, "phase") EXCEPT !.saved = TRUE]
      OBVIOUS
    <2>3. m \in Msgs /\ ~Final(m)
      BY <2>1, <2>2 DEF Final, Result, Reqs, Msgs
    <2>4. cout' = Append(cout, m)
      BY <1>6, <2>2 DEF CReading, Send
    <2> QED BY <2>3, <2>4
  <1>7. ASSUME CPartial PROVE \E m \in Msgs : ~Final(m) /\ cout' = Append(cout, m)
    <2>1. creq \in Reqs /\ creq.kind \in Asked
      BY <1>7, <1>0 DEF CPartial, Flying
    <2>2. PICK m : m = [Result(creq, "partial") EXCEPT !.gen = gen, !.edits = ledger]
      OBVIOUS
    <2>3. m \in Msgs /\ ~Final(m)
      BY <2>1, <2>2, <1>1 DEF Final, Result, Reqs, Msgs
    <2>4. cout' = Append(cout, m)
      BY <1>7, <2>2 DEF CPartial, Send
    <2> QED BY <2>3, <2>4
  <1> QED BY <1>2, <1>3, <1>4, <1>5, <1>6, <1>7

(* The child takes its request out of the pipe, writes under the guard and  *)
(* answers once.                                                            *)
LEMMA ChildGuard ==
    ASSUME QueueShape, MsgShape, ValueShape, ThreadShape, GuardInv, ChildStep
    PROVE  GuardInv'
  <1>1. UNCHANGED <<tpc, active, connection, phase>>
    BY Frames DEF transportVars
  <1>2. SUFFICES ASSUME tpc # "done" PROVE GuardInv'
    BY <1>1 DEF GuardInv
  <1>3. Free /\ Busy
    BY <1>2 DEF GuardInv
  <1>4. cin \in Seq(Reqs) /\ cout \in Seq(Msgs)
    BY DEF QueueShape, PipeShape, MsgShape
  <1>5. Flying => Waiting /\ connection /\ Quiet /\ creq = active
    BY <1>2, AtWork
  <1>6. Waiting' <=> Waiting
    BY <1>1 DEF Waiting
  <1>7. CASE CReceive
    <2>1. cst = "idle" /\ cin # <<>> /\ cin' = Tail(cin) /\ cout' = cout
      BY <1>7 DEF CReceive
    <2>2. /\ Len(cin') = Len(cin) - 1 /\ Len(cin) \in Nat \ {0} /\ Head(cin) = cin[1]
          /\ \A i \in 1..Len(cin') : cin'[i] = cin[i + 1]
      BY <2>1, <1>4, TailFacts
    <2>3. (\A i \in 1..Len(cin') : i + 1 \in 1..Len(cin)) /\ 1 \in 1..Len(cin)
      BY <2>2
    <2>4. Quiet => Quiet'
      BY <2>2, <2>3 DEF Quiet
    <2>5. CASE Head(cin).kind = "cancel"
      <3>1. UNCHANGED <<cst, creq>>
        BY <1>7, <2>5 DEF CReceive
      <3>2. OnlyActive => OnlyActive'
        BY <2>2, <2>3, <1>1 DEF OnlyActive
      <3>3. Free'
        BY <2>1, <2>4, <3>1, <1>1, <1>3 DEF Free
      <3>4. Busy'
        BY <2>1, <2>4, <3>1, <3>2, <1>1, <1>3, <1>6 DEF Busy, Unwritten
      <3> QED BY <3>3, <3>4 DEF GuardInv
    <2>6. CASE Head(cin).kind # "cancel"
      <3>1. cst' = "start" /\ creq' = Head(cin)
        BY <1>7, <2>6 DEF CReceive
      <3>2. ~Quiet
        BY <2>2, <2>3, <2>6 DEF Quiet
      <3>3. Waiting /\ connection /\ OnlyActive /\ Unwritten
        BY <2>1, <3>2, <1>2, <1>3, AtWork DEF Busy
      <3>4. Head(cin) = active /\ Quiet'
        BY <2>2, <2>3, <2>6, <3>3 DEF OnlyActive, Quiet
      <3>5. Free'
        BY <3>1, <3>3, <1>1, <1>3 DEF Free, Waiting
      <3>6. Busy'
        BY <2>1, <3>1, <3>3, <3>4, <1>1, ShortFacts DEF Busy, Unwritten
      <3> QED BY <3>5, <3>6 DEF GuardInv
    <2> QED BY <2>5, <2>6
  <1>8. CASE CCheckpoint
    <2>1. cst = "start" /\ cin # <<>> /\ cin' = Tail(cin) /\ Flying
      BY <1>8 DEF CCheckpoint, Flying
    <2>2. /\ Len(cin') = Len(cin) - 1 /\ Len(cin) \in Nat \ {0}
          /\ \A i \in 1..Len(cin') : cin'[i] = cin[i + 1]
      BY <2>1, <1>4, TailFacts
    <2>3. \A i \in 1..Len(cin') : i + 1 \in 1..Len(cin)
      BY <2>2
    <2>4. Quiet' /\ Quiet
      BY <2>1, <2>2, <2>3, <1>5 DEF Quiet
    <2>5. CASE UNCHANGED <<cst, creq, cout>>
      <3>1. Free'
        BY <2>1, <2>4, <2>5, <1>1, <1>3, <1>5 DEF Free, Waiting
      <3>2. Busy'
        BY <2>1, <2>4, <2>5, <1>1, <1>3, <1>6 DEF Busy, Unwritten
      <3> QED BY <3>1, <3>2 DEF GuardInv
    <2>6. CASE ~UNCHANGED <<cst, creq, cout>>
      <3>1. cst' = "idle" /\ cout' = Append(cout, Result(creq, "cancelled"))
        BY <1>8, <2>6 DEF CCheckpoint, Send
      <3>2. Result(creq, "cancelled") \in Msgs
        BY <2>1, ResultFacts DEF QueueShape, PipeShape
      <3> QED BY <2>1, <2>4, <3>1, <3>2, <1>1, <1>2, ChildEnds
    <2> QED BY <2>5, <2>6
  <1>9. CASE CRead \/ CRefuse \/ CDone \/ CFail
    <2>1. PICK m \in Msgs : cout' = Append(cout, m)
      BY <1>9, Sent
    <2>2. cst' = "idle" /\ cin' = cin /\ Flying
      BY <1>9 DEF CRead, CRefuse, CDone, CFail, Flying
    <2>3. Quiet'
      BY <2>2, <1>5 DEF Quiet
    <2> QED BY <2>1, <2>2, <2>3, <1>1, <1>2, ChildEnds
  <1>10. CASE CBegin
    <2>1. cst = "start" /\ Flying /\ creq.kind = "edit" /\ UNCHANGED <<creq, cin>>
      BY <1>10 DEF CBegin, Flying
    <2>2. Waiting /\ connection /\ Quiet /\ creq = active /\ Unwritten
      BY <2>1, <1>3, <1>5 DEF Busy
    <2>3. cout' = <<>> \/ cout' = Append(cout, Result(creq, "phase"))
      BY <1>10, <2>2 DEF CBegin, Send, Unwritten
    <2>4. cst' \in {"writing", "committed"}
      BY <1>10 DEF CBegin
    <2>5. \A i \in 1..Len(cout') : ~Final(cout'[i]) /\ ~cout'[i].saved
      <3>1. Result(creq, "phase") \in Msgs /\ ~Final(Result(creq, "phase")) /\ ~Result(creq, "phase").saved
        BY <2>1, ResultFacts DEF Final, QueueShape, PipeShape, Flying
      <3>2. CASE cout' = <<>>
        BY <3>2, ShortFacts
      <3>3. CASE cout' = Append(cout, Result(creq, "phase"))
        BY <3>1, <3>3, <2>2, ShortFacts, AppendMessage DEF Unwritten
      <3> QED BY <2>3, <3>2, <3>3
    <2>6. Free'
      BY <2>1, <2>2, <2>4, <1>1, <1>3 DEF Free, Waiting
    <2>7. Busy'
      BY <2>1, <2>2, <2>4, <2>5, <1>1 DEF Busy, Quiet, Unwritten, WRITING
    <2> QED BY <2>6, <2>7 DEF GuardInv
  <1>11. CASE CCommit
    <2>1. cst = "writing" /\ cst' = "committed" /\ Flying /\ UNCHANGED <<creq, cin, cout>>
      BY <1>11 DEF CCommit, Flying
    <2>2. Quiet' <=> Quiet
      BY <2>1 DEF Quiet
    <2>3. Free'
      BY <2>1, <1>1, <1>3, <1>5 DEF Free, Waiting
    <2>4. Busy'
      BY <2>1, <2>2, <1>1, <1>3, <1>6 DEF Busy
    <2> QED BY <2>3, <2>4 DEF GuardInv
  <1>12. CASE CReading
    <2>1. PICK m \in Msgs : ~Final(m) /\ cout' = Append(cout, m)
      BY <1>12, Sent
    <2>2. cst = "committed" /\ cst' = "reading" /\ Flying /\ UNCHANGED <<creq, cin>>
      BY <1>12 DEF CReading, Flying
    <2>3. \A i \in 1..Len(cout) : ~Final(cout[i])
      BY <2>2, <1>3, <1>5 DEF Busy
    <2>4. \A i \in 1..Len(cout') : ~Final(cout'[i])
      BY <2>1, <2>3, AppendMessage
    <2>5. Quiet' <=> Quiet
      BY <2>2 DEF Quiet
    <2>6. Free'
      BY <2>2, <1>1, <1>3, <1>5 DEF Free, Waiting
    <2>7. Busy'
      BY <2>2, <2>4, <2>5, <1>1, <1>3, <1>6 DEF Busy
    <2> QED BY <2>6, <2>7 DEF GuardInv
  <1>13. CASE CCrash
    <2>1. cst # "none" /\ cst' = "dead" /\ UNCHANGED <<creq, cin, cout>>
      BY <1>13 DEF CCrash
    <2>2. Quiet' <=> Quiet
      BY <2>1 DEF Quiet
    <2>3. Free'
      BY <2>1, <2>2, <1>1, <1>3 DEF Free
    <2>4. Busy'
      BY <2>1, <2>2, <1>1, <1>3, <1>6 DEF Busy
    <2> QED BY <2>3, <2>4 DEF GuardInv
  <1>14. CASE CPartial
    <2>1. PICK m \in Msgs : ~Final(m) /\ cout' = Append(cout, m)
      BY <1>14, Sent
    <2>2. cst = "start" /\ creq.kind = "report" /\ Flying /\ UNCHANGED <<cst, creq, cin>>
      BY <1>14 DEF CPartial, Flying
    <2>3. Waiting /\ connection /\ Quiet /\ active.kind = "report"
      BY <2>2, <1>5
    <2>4. \A i \in 1..Len(cout) : ~Final(cout[i])
      BY <2>2, <2>3, <1>3 DEF Busy
    <2>5. \A i \in 1..Len(cout') : ~Final(cout'[i])
      BY <2>1, <2>4, AppendMessage
    <2>6. Quiet' <=> Quiet
      BY <2>2 DEF Quiet
    <2>7. Free'
      BY <2>2, <2>3, <1>1, <1>3 DEF Free, Waiting
    <2>8. Busy'
      BY <2>2, <2>3, <2>5, <2>6, <1>1, <1>3, <1>6 DEF Busy
    <2> QED BY <2>7, <2>8 DEF GuardInv
  <1>15. CASE OrphanEnds
    <2>1. UNCHANGED <<cst, creq, cin, cout>>
      BY <1>15 DEF OrphanEnds, childVars
    <2>2. (Quiet' <=> Quiet) /\ (OnlyActive' <=> OnlyActive) /\ (Unwritten' <=> Unwritten)
      BY <2>1, <1>1 DEF Quiet, OnlyActive, Unwritten
    <2> QED BY <2>1, <2>2, <1>1, <1>3, <1>6 DEF GuardInv, Free, Busy
  <1> QED BY <1>7, <1>8, <1>9, <1>10, <1>11, <1>12, <1>13, <1>14, <1>15 DEF ChildStep, Child

(* No step of any thread takes the guard from a commit.                     *)
LEMMA GuardStep ==
    ASSUME QueueShape, MsgShape, ValueShape, ThreadShape, GuardInv, [Next]_vars
    PROVE  GuardInv'
  <1>1. CASE UserOrService \/ UNCHANGED vars
    <2>1. UNCHANGED <<tpc, active, connection, phase, cst, creq, cin, cout>>
      BY <1>1, Frames DEF vars, transportVars, childVars
    <2> QED BY <2>1 DEF GuardInv, Free, Busy, Waiting, Unwritten, OnlyActive, Quiet
  <1> QED BY <1>1, TransportGuard, ChildGuard, Cases

-----------------------------------------------------------------------------
(* Who carries which edit                                                   *)

(* A step of the transport or of the child draws no id and changes no line  *)
(* of edits: what it sends on has to know its edit as what it came from.    *)
LEMMA IdRetained ==
    ASSUME IdInv, UNCHANGED <<exclusions, edit_request, sequence>>, ledger \subseteq ledger',
           \A r \in Requests' : r.kind = "edit" => r \in Requests,
           \A id \in committed' : id \in committed \/ (Drawn(id) /\ (id = edit_request.id => First \in ledger')),
           cst' \in {"writing", "committed", "reading"} => creq'.kind = "edit",
           cst' \in {"committed", "reading"} /\ creq'.id = edit_request.id => First \in ledger',
           \A m \in Messages' : m.kind = "edit" =>
              \/ m \in Messages
              \/ Drawn(m.id) /\ (m.id = edit_request.id => /\ m.saved => First \in ledger'
                                                           /\ m.status = "ok" => First \in m.edits)
    PROVE  IdInv'
  <1>1. First' = First /\ \A id : Drawn(id)' <=> Drawn(id)
    BY DEF First, Drawn
  <1>2. edit_request'.id # 0 => exclusions' # <<>> /\ Drawn(edit_request.id)'
    BY <1>1 DEF IdInv
  <1>3. edit_request'.saved => edit_request'.id # 0 /\ First' \in ledger'
    BY <1>1 DEF IdInv
  <1>4. \A r \in Requests' : r.kind = "edit" => Drawn(r.id)' /\ (r.id = edit_request'.id => r.edit = First')
    BY <1>1 DEF IdInv
  <1>5. \A id \in committed' : Drawn(id)' /\ (id = edit_request'.id => First' \in ledger')
    BY <1>1 DEF IdInv
  <1>6. \A m \in Messages' : m.kind = "edit" =>
          Drawn(m.id)' /\ (m.id = edit_request'.id => /\ m.saved => First' \in ledger'
                                                      /\ m.status = "ok" => First' \in m.edits)
    BY <1>1 DEF IdInv
  <1> QED BY <1>1, <1>2, <1>3, <1>4, <1>5, <1>6 DEF IdInv

(* A user's step keeps what is under way; the line of edits may get longer, *)
(* and an id may be drawn for something else.                               *)
LEMMA IdKept ==
    ASSUME ValueShape, IdInv, UNCHANGED <<transportVars, childVars, ledger, commands, worker_results, edit_request>>,
           sequence' \in Nat, sequence <= sequence',
           exclusions # <<>> => exclusions' # <<>> /\ First' = First
    PROVE  IdInv'
  <1>1. \A id : Drawn(id) => Drawn(id)' /\ id # 0
    BY DEF Drawn, ValueShape
  <1>2. Requests' = Requests /\ Messages' = Messages /\ UNCHANGED <<cst, creq, committed, ledger, edit_request>>
    BY DEF Requests, Messages, transportVars, childVars
  <1>3. edit_request.id # 0 => First' = First /\ exclusions' # <<>>
    BY DEF IdInv
  <1>4. edit_request'.id # 0 => exclusions' # <<>> /\ Drawn(edit_request.id)'
    BY <1>1, <1>2, <1>3 DEF IdInv
  <1>5. edit_request'.saved => edit_request'.id # 0 /\ First' \in ledger'
    BY <1>2, <1>3 DEF IdInv
  <1>6. \A r \in Requests' : r.kind = "edit" => Drawn(r.id)' /\ (r.id = edit_request'.id => r.edit = First')
    BY <1>1, <1>2, <1>3 DEF IdInv
  <1>7. \A id \in committed' : Drawn(id)' /\ (id = edit_request'.id => First' \in ledger')
    BY <1>1, <1>2, <1>3 DEF IdInv
  <1>8. \A m \in Messages' : m.kind = "edit" =>
          Drawn(m.id)' /\ (m.id = edit_request'.id => /\ m.saved => First' \in ledger'
                                                      /\ m.status = "ok" => First' \in m.edits)
    BY <1>1, <1>2, <1>3 DEF IdInv
  <1>9. creq.kind = "edit" => Drawn(creq.id)
    BY DEF IdInv, Requests
  <1>10. /\ cst' \in {"writing", "committed", "reading"} => creq'.kind = "edit"
         /\ cst' \in {"committed", "reading"} /\ creq'.id = edit_request'.id => First' \in ledger'
    BY <1>1, <1>2, <1>3, <1>9 DEF IdInv
  <1> QED BY <1>2, <1>4, <1>5, <1>6, <1>7, <1>8, <1>10 DEF IdInv

(* The first edit is answered: whatever still carries its id is late.       *)
LEMMA IdTold ==
    ASSUME ValueShape, IdInv, UNCHANGED <<transportVars, childVars, ledger, commands, sequence>>,
           Elems(worker_results') \subseteq Elems(worker_results), edit_request' = [id |-> 0, saved |-> FALSE]
    PROVE  IdInv'
  <1>1. \A id : Drawn(id) => Drawn(id)' /\ id # 0
    BY DEF Drawn, ValueShape
  <1>2. Requests' = Requests /\ Messages' \subseteq Messages /\ UNCHANGED <<cst, creq, committed>>
    BY DEF Requests, Messages, transportVars, childVars
  <1>3. edit_request'.id = 0 /\ edit_request'.saved = FALSE
    OBVIOUS
  <1>4. \A r \in Requests' : r.kind = "edit" => Drawn(r.id)' /\ r.id # edit_request'.id
    BY <1>1, <1>2, <1>3 DEF IdInv
  <1>5. \A id \in committed' : Drawn(id)' /\ id # edit_request'.id
    BY <1>1, <1>2, <1>3 DEF IdInv
  <1>6. \A m \in Messages' : m.kind = "edit" => Drawn(m.id)' /\ m.id # edit_request'.id
    BY <1>1, <1>2, <1>3 DEF IdInv
  <1>7. cst' \in {"writing", "committed", "reading"} => creq'.kind = "edit" /\ creq'.id # edit_request'.id
    BY <1>2, <1>4 DEF IdInv, Requests
  <1> QED BY <1>3, <1>4, <1>5, <1>6, <1>7 DEF IdInv

(* What is known of the edit under way changes by what was heard of it.     *)
LEMMA IdHeard ==
    ASSUME IdInv, UNCHANGED <<transportVars, childVars, ledger, commands, sequence, exclusions>>,
           Elems(worker_results') \subseteq Elems(worker_results), edit_request'.id = edit_request.id,
           edit_request'.saved => edit_request.id # 0 /\ First \in ledger
    PROVE  IdInv'
  <1>1. First' = First /\ (\A id : Drawn(id)' <=> Drawn(id))
    BY DEF First, Drawn
  <1>2. Requests' = Requests /\ Messages' \subseteq Messages /\ UNCHANGED <<cst, creq, committed, ledger>>
    BY DEF Requests, Messages, transportVars, childVars
  <1>3. \A r \in Requests' : r.kind = "edit" => Drawn(r.id)' /\ (r.id = edit_request'.id => r.edit = First')
    BY <1>1, <1>2 DEF IdInv
  <1>4. \A id \in committed' : Drawn(id)' /\ (id = edit_request'.id => First' \in ledger')
    BY <1>1, <1>2 DEF IdInv
  <1>5. \A m \in Messages' : m.kind = "edit" =>
          Drawn(m.id)' /\ (m.id = edit_request'.id => /\ m.saved => First' \in ledger'
                                                      /\ m.status = "ok" => First' \in m.edits)
    BY <1>1, <1>2 DEF IdInv
  <1>6. /\ edit_request'.id # 0 => exclusions' # <<>> /\ Drawn(edit_request.id)'
        /\ edit_request'.saved => edit_request'.id # 0 /\ First' \in ledger'
        /\ cst' \in {"writing", "committed", "reading"} => creq'.kind = "edit"
        /\ cst' \in {"committed", "reading"} /\ creq'.id = edit_request'.id => First' \in ledger'
    BY <1>1, <1>2 DEF IdInv
  <1> QED BY <1>3, <1>4, <1>5, <1>6 DEF IdInv

(* The first of the line is sent under a new id, which nothing carries yet, *)
(* or again under its own.                                                  *)
LEMMA IdSent ==
    ASSUME QueueShape, ValueShape, IdInv, SvcEdit
    PROVE  IdInv'
  <1>1. /\ sequence \in Nat /\ edit_request \in [id: Nat, saved: BOOLEAN] /\ exclusions \in Seq(1..MaxEdits)
        /\ exclusions # <<>> /\ Head(exclusions) = First /\ First \in 1..MaxEdits /\ MaxEdits \in Nat
        /\ commands \in Seq(Reqs)
    BY NoneFacts, TailFacts DEF SvcEdit, ValueShape, QueueShape, CommandShape, First
  <1>2. PICK n : n = IF edit_request.id = 0 THEN sequence + 1 ELSE edit_request.id
    OBVIOUS
  <1>3. PICK r : r = [kind |-> "edit", edit |-> Head(exclusions), gen |-> 0, id |-> n]
    OBVIOUS
  <1>4. /\ commands' = Append(commands, r) /\ edit_request' = [edit_request EXCEPT !.id = n]
        /\ sequence' = IF edit_request.id = 0 THEN n ELSE sequence
        /\ UNCHANGED <<transportVars, childVars, ledger, exclusions, worker_results>>
    BY <1>2, <1>3 DEF SvcEdit, request, retry, COALESCED
  <1>5. r \in Reqs /\ r.id = n /\ r.edit = First /\ n \in Nat
    BY <1>1, <1>2, <1>3 DEF Reqs
  <1>6. Elems(commands') = Elems(commands) \cup {r}
    BY <1>1, <1>4, <1>5, AppendFacts
  <1>7. /\ Requests' = Requests \cup {r} /\ Messages' = Messages /\ UNCHANGED <<cst, creq, committed, ledger>>
        /\ First' = First
    BY <1>4, <1>6 DEF Requests, Messages, transportVars, childVars, First
  <1>8. edit_request'.id = n /\ edit_request'.saved = edit_request.saved
    BY <1>1, <1>4
  <1>9. Drawn(n)'
    BY <1>1, <1>2, <1>4 DEF Drawn, IdInv
  <1>10. \A id : Drawn(id) => Drawn(id)' /\ (id = n => id = edit_request.id)
    BY <1>1, <1>2, <1>4 DEF Drawn
  <1>11. \A q \in Requests' : q.kind = "edit" => Drawn(q.id)' /\ (q.id = n => q.edit = First')
    <2>1. \A q \in Requests : q.kind = "edit" => Drawn(q.id)' /\ (q.id = n => q.edit = First)
      BY <1>10 DEF IdInv
    <2> QED BY <2>1, <1>5, <1>7, <1>9
  <1>12. \A id \in committed' : Drawn(id)' /\ (id = n => First' \in ledger')
    BY <1>7, <1>10 DEF IdInv
  <1>13. \A m \in Messages' : m.kind = "edit" =>
          Drawn(m.id)' /\ (m.id = n => /\ m.saved => First' \in ledger'
                                       /\ m.status = "ok" => First' \in m.edits)
    BY <1>7, <1>10 DEF IdInv
  <1>14. creq.kind = "edit" => Drawn(creq.id)
    BY DEF IdInv, Requests
  <1>15. /\ edit_request'.id # 0 => exclusions' # <<>> /\ Drawn(edit_request.id)'
         /\ edit_request'.saved => edit_request'.id # 0 /\ First' \in ledger'
         /\ cst' \in {"writing", "committed", "reading"} => creq'.kind = "edit"
    BY <1>1, <1>2, <1>4, <1>7, <1>8, <1>9 DEF IdInv
  <1>16. cst' \in {"committed", "reading"} /\ creq'.id = n => First' \in ledger'
    BY <1>7, <1>10, <1>14 DEF IdInv
  <1> QED BY <1>8, <1>11, <1>12, <1>13, <1>15, <1>16 DEF IdInv

(* The user and the service loop: a request for an edit goes to the end of  *)
(* the line, SvcEdit draws ids, an answer takes the first from the line.    *)
LEMMA IdUser ==
    ASSUME QueueShape, MsgShape, ValueShape, IdInv, UserOrService
    PROVE  IdInv'
  <1>0. sequence \in Nat /\ exclusions \in Seq(1..MaxEdits) /\ edit_request \in [id: Nat, saved: BOOLEAN]
        /\ MaxEdits \in Nat
    BY NoneFacts DEF ValueShape
  <1>f. UNCHANGED <<transportVars, childVars, ledger>>
    BY Frames
  <1>1. CASE TogglePause \/ ToggleReports \/ Stop \/ SvcControl \/ SvcTurn \/ SvcWait
    <2>1. UNCHANGED <<commands, worker_results, edit_request, sequence, exclusions>>
      BY <1>1 DEF TogglePause, ToggleReports, Stop, SvcControl, SvcTurn, SvcWait, svcVars, queueVars
    <2> QED BY <2>1, <1>0, <1>f, IdKept DEF First
  <1>2. CASE RequestEdit
    <2>1. /\ UNCHANGED <<commands, worker_results, edit_request, sequence>>
          /\ exclusions' = Append(exclusions, asked.edit + 1) /\ asked.edit + 1 \in 1..MaxEdits
      <3>1. asked' = [asked EXCEPT !.edit = asked.edit + 1] /\ asked.edit < MaxEdits
        BY <1>2 DEF RequestEdit
      <3>2. asked \in [edit: Nat, chart: Nat, report: Nat]
        BY DEF ValueShape
      <3>3. asked'.edit = asked.edit + 1 /\ asked.edit \in Nat
        BY <3>1, <3>2
      <3> QED BY <1>2, <3>1, <3>3, <1>0 DEF RequestEdit, queueVars
    <2>2. ASSUME exclusions # <<>> PROVE exclusions' # <<>> /\ First' = First
      <3>1. Len(exclusions) \in Nat \ {0} /\ Len(exclusions') = Len(exclusions) + 1
            /\ \A i \in 1..Len(exclusions) : exclusions'[i] = exclusions[i]
        BY <2>1, <2>2, <1>0, TailFacts, AppendFacts
      <3> QED BY <3>1, ShortFacts DEF First
    <2> QED BY <2>1, <2>2, <1>0, <1>f, IdKept
  <1>3. CASE RequestChart \/ SvcReport
    <2>1. UNCHANGED <<commands, worker_results, edit_request, exclusions>> /\ sequence' = sequence + 1
      BY <1>3 DEF RequestChart, SvcReport, request, svcVars, COALESCED
    <2> QED BY <2>1, <1>0, <1>f, IdKept DEF First
  <1>4. CASE SvcEdit
    BY <1>4, IdSent
  <1>5. CASE SvcTimeout
    <2>1. /\ UNCHANGED <<commands, worker_results, sequence>> /\ edit_request' = [id |-> 0, saved |-> FALSE]
      BY <1>5 DEF SvcTimeout, Told, queueVars
    <2> QED BY <2>1, <1>0, <1>f, IdTold
  <1>6. CASE SvcResult
    <2>1. PICK r : r = Head(worker_results)
      OBVIOUS
    <2>2. /\ worker_results # <<>> /\ worker_results' = Tail(worker_results)
          /\ UNCHANGED <<sequence, commands>>
      BY <1>6, <2>1, ResultEffect
    <2>3. Elems(worker_results') \subseteq Elems(worker_results) /\ r \in Elems(worker_results)
      BY <2>1, <2>2, TailFacts DEF MsgShape
    <2>4. r.kind = "edit" /\ r.id = edit_request.id /\ r.saved => First \in ledger
      BY <2>3 DEF IdInv, Messages
    <2>5. edit_request.saved => edit_request.id # 0 /\ First \in ledger
      BY DEF IdInv
    <2>6. \/ UNCHANGED <<edit_request, answer, exclusions>>
          \/ /\ r.kind = "edit" /\ edit_request.id # 0 /\ r.id = edit_request.id
             /\ edit_request'.id = edit_request.id /\ UNCHANGED <<answer, exclusions>>
             /\ edit_request'.saved => edit_request.saved \/ r.saved
          \/ \E outcome \in {"ok", "saved", "lost", "uncertain"} : Told(outcome)
      BY <1>6, <2>1, ResultEffect
    <2>7. CASE UNCHANGED <<edit_request, answer, exclusions>>
      BY <2>7, <2>2, <2>3, <2>5, <1>f, IdHeard
    <2>8. CASE /\ r.kind = "edit" /\ edit_request.id # 0 /\ r.id = edit_request.id
               /\ edit_request'.id = edit_request.id /\ UNCHANGED <<answer, exclusions>>
               /\ edit_request'.saved => edit_request.saved \/ r.saved
      BY <2>8, <2>2, <2>3, <2>4, <2>5, <1>f, IdHeard
    <2>9. CASE \E outcome \in {"ok", "saved", "lost", "uncertain"} : Told(outcome)
      BY <2>9, <2>2, <2>3, <1>f, IdTold DEF Told
    <2> QED BY <2>6, <2>7, <2>8, <2>9
  <1> QED BY <1>1, <1>2, <1>3, <1>4, <1>5, <1>6 DEF UserOrService, Service

(* The transport moves requests towards the child and results away from it; *)
(* what it says itself of a request claims nothing of the ledger.           *)
LEMMA IdTransport ==
    ASSUME QueueShape, MsgShape, ValueShape, ThreadShape, GuardInv, IdInv, TransportStep
    PROVE  IdInv'
  <1>0. /\ active \in Reqs /\ creq \in Reqs /\ cin \in Seq(Reqs) /\ commands \in Seq(Reqs)
        /\ cout \in Seq(Msgs) /\ out \in Seq(Msgs) /\ worker_results \in Seq(Msgs) /\ Len(out) <= 1
    BY DEF QueueShape, CommandShape, ActiveShape, PipeShape, MsgShape
  <1>f. UNCHANGED <<exclusions, edit_request, sequence, ledger>>
    BY Frames DEF svcVars
  <1>c. /\ cst \in {"writing", "committed", "reading"} => creq.kind = "edit"
        /\ cst \in {"committed", "reading"} /\ creq.id = edit_request.id => First \in ledger
    BY DEF IdInv
  <1>n. None.kind = "none"
    BY NoneFacts
  <1>r. ASSUME committed' \subseteq committed, UNCHANGED <<cst, creq>> \/ cst' \in {"none", "idle"},
               \A r \in Requests' : r.kind = "edit" => r \in Requests,
               \A m \in Messages' : m.kind = "edit" =>
                  \/ m \in Messages
                  \/ \E r \in Requests : r.kind = "edit" /\ r.id = m.id /\ ~m.saved /\ m.status # "ok"
                  \/ \E k \in Messages : /\ k.kind = "edit" /\ k.id = m.id /\ m.status # "ok"
                                         /\ m.saved => k.saved
        PROVE  IdInv'
    <2>1. \A m \in Messages' : m.kind = "edit" =>
            \/ m \in Messages
            \/ Drawn(m.id) /\ (m.id = edit_request.id => /\ m.saved => First \in ledger'
                                                         /\ m.status = "ok" => First \in m.edits)
      BY <1>r, <1>f DEF IdInv
    <2>2. /\ cst' \in {"writing", "committed", "reading"} => creq'.kind = "edit"
          /\ cst' \in {"committed", "reading"} /\ creq'.id = edit_request.id => First \in ledger'
          /\ \A id \in committed' : id \in committed
      BY <1>r, <1>f, <1>c
    <2> QED BY <2>1, <2>2, <1>r, <1>f, IdRetained
  <1>1. CASE TNext
    <2>1. UNCHANGED <<cst, creq, cin, committed, worker_results, out, cout>>
      BY <1>1 DEF TNext, childVars
    <2>2. /\ active'.kind = "edit" => active' \in Elems(commands)
          /\ Elems(commands') \subseteq Elems(commands)
      <3>1. CASE commands # <<>> /\ active' = Head(commands) /\ commands' = Tail(commands)
        BY <3>1, <1>0, TailFacts
      <3>2. CASE commands' = commands /\ \E k \in COALESCED : pending[k] # None /\ active' = pending[k]
        BY <3>2 DEF QueueShape, CommandShape, COALESCED
      <3> QED BY <1>1, <3>1, <3>2 DEF TNext
    <2>3. \A r \in Requests' : r.kind = "edit" => r \in Requests
      BY <2>1, <2>2 DEF Requests
    <2>4. Messages' = Messages
      BY <2>1 DEF Messages
    <2> QED BY <1>r, <2>1, <2>3, <2>4
  <1>2. CASE TSkip \/ TFail \/ TBreak \/ TPause
    <2>1. PICK m : out' = <<m>>
      BY <1>2 DEF TSkip, TFail, TBreak, Failed, TPause, Settle
    <2>2. /\ active' = None /\ UNCHANGED <<worker_results, commands>>
          /\ \/ UNCHANGED childVars
             \/ cst' = "none" /\ creq' = None /\ cin' = <<>> /\ cout' = <<>> /\ committed' = {}
      BY <1>2 DEF TSkip, TFail, TBreak, Failed, TPause, Settle, Gone
    <2>3. active.kind \in Asked
      BY <1>2 DEF TSkip, TFail, TBreak, Failed, TPause, QueueShape, ActiveShape
    <2>4. m.kind = active.kind /\ m.id = active.id /\ ~m.saved /\ m.status # "ok"
      <3>1. \/ m = Result(active, "cancelled")
            \/ m = [Result(active, "error") EXCEPT !.permanent = active.kind = "edit",
                                                   !.uncertain = active.kind = "edit"]
        BY <1>2, <2>1 DEF TSkip, TFail, TBreak, Failed, TPause, Settle
      <3>2. PICK p : p = Result(active, "error")
        OBVIOUS
      <3>3. p \in Msgs /\ p.kind = active.kind /\ p.id = active.id /\ p.status = "error" /\ ~p.saved
        BY <3>2, <2>3, <1>0, ResultFacts
      <3>4. CASE m = Result(active, "cancelled")
        BY <3>4, <2>3, <1>0, ResultFacts
      <3>5. CASE m = [p EXCEPT !.permanent = active.kind = "edit", !.uncertain = active.kind = "edit"]
        BY <3>5, <3>3 DEF Msgs
      <3> QED BY <3>1, <3>2, <3>4, <3>5
    <2>5. \A r \in Requests' : r.kind = "edit" => r \in Requests
      BY <2>2, <1>n, ShortFacts DEF Requests, childVars
    <2>6. \A k \in Messages' : k \in Messages \/ k = m
      BY <2>1, <2>2, ShortFacts DEF Messages, childVars
    <2>7. committed' \subseteq committed /\ (UNCHANGED <<cst, creq>> \/ cst' \in {"none", "idle"})
      BY <2>2 DEF childVars
    <2>8. active \in Requests
      BY DEF Requests
    <2> QED BY <1>r, <2>4, <2>5, <2>6, <2>7, <2>8
  <1>3. CASE TSend \/ TCancel
    <2>1. UNCHANGED <<active, out, worker_results, commands, cout, committed, creq>>
          /\ (UNCHANGED <<cst, creq>> \/ cst' \in {"none", "idle"})
      BY <1>3 DEF TSend, TCancel
    <2>2. PICK q \in Reqs : (cin' = Append(cin, q) \/ cin' = <<q>>) /\ (q.kind = "edit" => q = active)
      <3>1. CASE TSend
        BY <3>1, <1>0 DEF TSend
      <3>2. CASE TCancel
        <4>1. [active EXCEPT !.kind = "cancel"] \in Reqs /\ [active EXCEPT !.kind = "cancel"].kind = "cancel"
          BY <1>0 DEF Reqs
        <4> QED BY <3>2, <4>1 DEF TCancel
      <3> QED BY <1>3, <3>1, <3>2
    <2>3. Elems(cin') \subseteq Elems(cin) \cup {q}
      <3>1. CASE cin' = Append(cin, q)
        BY <3>1, <1>0, AppendFacts
      <3>2. CASE cin' = <<q>>
        BY <3>2, ShortFacts
      <3> QED BY <2>2, <3>1, <3>2
    <2>4. \A r \in Requests' : r.kind = "edit" => r \in Requests
      BY <2>1, <2>2, <2>3 DEF Requests
    <2>5. Messages' = Messages
      BY <2>1 DEF Messages
    <2> QED BY <1>r, <2>1, <2>4, <2>5
  <1>4. CASE TReceive
    <2>1. /\ cout # <<>> /\ cout' = Tail(cout) /\ UNCHANGED <<worker_results, commands, cst, creq, cin, committed>>
          /\ active' = active \/ active' = None
      BY <1>4 DEF TReceive, Settle
    <2>2. Elems(cout) = {Head(cout)} \cup Elems(cout') /\ Head(cout) \in Msgs
      BY <2>1, <1>0, TailFacts
    <2>3. PICK m : m = [Head(cout) EXCEPT !.status = "progress"]
      OBVIOUS
    <2>4. m.kind = Head(cout).kind /\ m.id = Head(cout).id /\ m.status # "ok" /\ (m.saved => Head(cout).saved)
      BY <2>2, <2>3 DEF Msgs
    <2>5. out' = <<m>> \/ out' = <<Head(cout)>>
      BY <1>4, <2>3 DEF TReceive, Settle
    <2>6. Elems(out') \subseteq {m, Head(cout)}
      BY <2>5, ShortFacts
    <2>7. \A k \in Messages' : k \in Messages \/ k = m
      BY <2>1, <2>2, <2>6 DEF Messages
    <2>8. Head(cout) \in Messages
      BY <2>2 DEF Messages
    <2>9. \A r \in Requests' : r.kind = "edit" => r \in Requests
      BY <2>1, <1>n DEF Requests
    <2> QED BY <1>r, <2>1, <2>4, <2>7, <2>8, <2>9
  <1>5. CASE TDeliver
    <2>1. UNCHANGED <<cst, creq, cin, cout, committed, worker_results, commands, active>> /\ (out' = <<>> \/ out' = out)
      BY <1>5 DEF TDeliver, childVars
    <2>2. Messages' \subseteq Messages /\ Requests' = Requests
      BY <2>1, ShortFacts DEF Messages, Requests
    <2> QED BY <1>r, <2>1, <2>2
  <1>6. CASE TEmit
    <2>1. /\ UNCHANGED <<cst, creq, cin, cout, committed, commands, active>> /\ out' = <<>>
          /\ worker_results' = worker_results \/ worker_results' = worker_results \o out
      BY <1>6 DEF TEmit, childVars
    <2>2. Elems(worker_results') \subseteq Elems(worker_results) \cup Elems(out)
      <3>1. CASE worker_results' = worker_results \o out /\ out = <<>>
        BY <3>1, <1>0, EmitFacts
      <3>2. CASE worker_results' = worker_results \o out /\ out # <<>>
        <4>1. /\ out[1] \in Msgs /\ worker_results' = Append(worker_results, out[1])
              /\ Elems(out) = {out[1]}
          BY <3>2, <1>0, EmitFacts
        <4>2. Elems(Append(worker_results, out[1])) = Elems(worker_results) \cup {out[1]}
          BY <4>1, <1>0, AppendFacts
        <4> QED BY <4>1, <4>2
      <3> QED BY <2>1, <3>1, <3>2
    <2>3. Messages' \subseteq Messages /\ Requests' = Requests
      BY <2>1, <2>2, ShortFacts DEF Messages, Requests
    <2> QED BY <1>r, <2>1, <2>3
  <1>7. CASE TClose
    <2>1. /\ UNCHANGED <<active, out, worker_results, commands>>
          /\ \/ UNCHANGED <<cst, creq, cin, cout, committed>>
             \/ cst' = "none" /\ creq' = None /\ cin' = <<>> /\ cout' = <<>> /\ committed' = {}
      BY <1>7 DEF TClose, Gone
    <2>2. Messages' \subseteq Messages /\ (\A r \in Requests' : r.kind = "edit" => r \in Requests)
      BY <2>1, <1>n, ShortFacts DEF Messages, Requests
    <2>3. committed' \subseteq committed /\ (UNCHANGED <<cst, creq>> \/ cst' \in {"none", "idle"})
      BY <2>1
    <2> QED BY <1>r, <2>2, <2>3
  <1> QED BY <1>1, <1>2, <1>3, <1>4, <1>5, <1>6, <1>7 DEF TransportStep, Transport

(* What the child sends is about its request: news of a commit it made or   *)
(* knows of, or the result that was calculated from the ledger.             *)
LEMMA ChildSends ==
    ASSUME QueueShape, MsgShape, ValueShape, ThreadShape, ChildStep, cout' # cout
    PROVE  \E m \in Msgs :
              /\ cout' = Append(cout, m) /\ m.kind = creq.kind /\ m.id = creq.id /\ ledger' = ledger
              /\ m.saved => cst \in {"committed", "reading"} \/ creq.id \in committed
              /\ Calculated(m) => m.edits = ledger
              /\ m.status = "ok" /\ m.kind = "edit" => cst = "reading"
  <1>0. creq \in Reqs /\ gen \in Nat /\ ledger \in SUBSET Nat /\ creq.gen \in Nat
    BY DEF QueueShape, PipeShape, ValueShape, Reqs
  <1>p. ASSUME creq.kind \in Asked, NEW st \in {"phase", "progress", "ok", "error", "cancelled", "stale", "partial"},
               NEW p, p = Result(creq, st)
        PROVE  p \in Msgs /\ p.kind = creq.kind /\ p.id = creq.id /\ p.status = st /\ p.saved = FALSE
    <2>1. p \in Msgs /\ p.kind = creq.kind /\ p.id = creq.id /\ p.status = st /\ ~p.saved
      BY <1>p, <1>0, ResultFacts
    <2> QED BY <2>1 DEF Msgs
  <1>1. CASE CCheckpoint
    <2>1. creq.kind \in Asked /\ cout' = Append(cout, Result(creq, "cancelled")) /\ ledger' = ledger
      BY <1>1 DEF CCheckpoint, Send, COALESCED, Asked
    <2>2. PICK p : p = Result(creq, "cancelled")
      OBVIOUS
    <2> QED BY <2>1, <2>2, <1>p DEF Calculated
  <1>2. CASE CRead
    <2>1. creq.kind \in {"report", "chart"} /\ creq.kind \in Asked /\ ledger' = ledger
      BY <1>2 DEF CRead, COALESCED, Asked
    <2>2. CASE creq.kind = "report"
      <3>1. PICK p : p = Result(creq, "ok")
        OBVIOUS
      <3>2. PICK m : m = [p EXCEPT !.gen = gen, !.edits = ledger]
        OBVIOUS
      <3>p. p \in Msgs /\ p.kind = creq.kind /\ p.id = creq.id /\ p.saved = FALSE /\ p.status = "ok"
        BY <3>1, <2>1, <1>p
      <3>3. m \in Msgs /\ m.kind = creq.kind /\ m.id = creq.id /\ m.saved = FALSE /\ m.edits = ledger
        BY <3>2, <3>p, <1>0 DEF Msgs
      <3>4. cout' = Append(cout, m)
        BY <1>2, <2>2, <3>1, <3>2 DEF CRead, Send
      <3> QED BY <3>3, <3>4, <2>1, <2>2
    <2>3. CASE creq.kind = "chart"
      <3>1. PICK st \in {"ok", "stale"} : st = IF creq.gen = gen THEN "ok" ELSE "stale"
        OBVIOUS
      <3>2. PICK p : p = Result(creq, st)
        OBVIOUS
      <3>3. PICK m : m = [p EXCEPT !.gen = creq.gen]
        OBVIOUS
      <3>p. p \in Msgs /\ p.kind = creq.kind /\ p.id = creq.id /\ p.saved = FALSE /\ p.status = st
        BY <3>2, <2>1, <1>p
      <3>4. m \in Msgs /\ m.kind = creq.kind /\ m.id = creq.id /\ m.saved = FALSE
        BY <3>3, <3>p, <1>0 DEF Msgs
      <3>5. cout' = Append(cout, m)
        BY <1>2, <2>3, <3>1, <3>2, <3>3 DEF CRead, Send
      <3> QED BY <3>4, <3>5, <2>1, <2>3 DEF Calculated
    <2> QED BY <2>1, <2>2, <2>3
  <1>3. CASE CBegin
    <2>1. creq.kind \in Asked /\ cout' = Append(cout, Result(creq, "phase")) /\ ledger' = ledger
      BY <1>3 DEF CBegin, Send, Asked
    <2>2. PICK p : p = Result(creq, "phase")
      OBVIOUS
    <2> QED BY <2>1, <2>2, <1>p DEF Calculated
  <1>4. CASE CRefuse \/ CReading \/ CDone
    <2>0. creq.kind \in Asked /\ ledger' = ledger
      BY <1>4 DEF CRefuse, CReading, CDone, QueueShape, PipeShape
    <2>1. CASE CRefuse
      <3>1. PICK p : p = Result(creq, "error")
        OBVIOUS
      <3>2. PICK m : m = [p EXCEPT !.permanent = TRUE]
        OBVIOUS
      <3>p. p \in Msgs /\ p.kind = creq.kind /\ p.id = creq.id /\ p.saved = FALSE /\ p.status = "error"
        BY <3>1, <2>0, <1>p
      <3>3. m \in Msgs /\ m.kind = creq.kind /\ m.id = creq.id /\ m.saved = FALSE /\ m.status = "error"
        BY <3>2, <3>p DEF Msgs
      <3>4. cout' = Append(cout, m)
        BY <2>1, <3>1, <3>2 DEF CRefuse, Send
      <3> QED BY <3>3, <3>4, <2>0 DEF Calculated
    <2>2. CASE CReading
      <3>1. PICK p : p = Result(creq, "phase")
        OBVIOUS
      <3>2. PICK m : m = [p EXCEPT !.saved = TRUE]
        OBVIOUS
      <3>p. p \in Msgs /\ p.kind = creq.kind /\ p.id = creq.id /\ p.saved = FALSE /\ p.status = "phase"
        BY <3>1, <2>0, <1>p
      <3>3. m \in Msgs /\ m.kind = creq.kind /\ m.id = creq.id /\ m.status = "phase"
        BY <3>2, <3>p DEF Msgs
      <3>4. cout' = Append(cout, m) /\ cst = "committed"
        BY <2>2, <3>1, <3>2 DEF CReading, Send
      <3> QED BY <3>3, <3>4, <2>0 DEF Calculated
    <2>3. CASE CDone
      <3>1. PICK p : p = Result(creq, "ok")
        OBVIOUS
      <3>2. PICK m : m = [p EXCEPT !.gen = gen, !.edits = ledger, !.saved = TRUE]
        OBVIOUS
      <3>p. p \in Msgs /\ p.kind = creq.kind /\ p.id = creq.id /\ p.saved = FALSE /\ p.status = "ok"
        BY <3>1, <2>0, <1>p
      <3>3. m \in Msgs /\ m.kind = creq.kind /\ m.id = creq.id /\ m.edits = ledger
        BY <3>2, <3>p, <1>0 DEF Msgs
      <3>4. cout' = Append(cout, m) /\ cst = "reading"
        BY <2>3, <3>1, <3>2 DEF CDone, Send
      <3> QED BY <3>3, <3>4, <2>0
    <2> QED BY <1>4, <2>1, <2>2, <2>3
  <1>5. CASE CFail
    <2>0. creq.kind \in Asked /\ ledger' = ledger
      BY <1>5 DEF CFail, QueueShape, PipeShape
    <2>1. PICK v \in BOOLEAN : v <=> creq.id \in committed
      BY Zenon
    <2>2. PICK p : p = Result(creq, "error")
      OBVIOUS
    <2>3. PICK permanent \in BOOLEAN : cout' = Append(cout, [p EXCEPT !.saved = v, !.permanent = permanent])
      BY <1>5, <2>1, <2>2 DEF CFail, Send
    <2>4. PICK m : m = [p EXCEPT !.saved = v, !.permanent = permanent]
      OBVIOUS
    <2>p. p \in Msgs /\ p.kind = creq.kind /\ p.id = creq.id /\ p.saved = FALSE /\ p.status = "error"
      BY <2>2, <2>0, <1>p
    <2>5. m \in Msgs /\ m.kind = creq.kind /\ m.id = creq.id /\ m.saved = v /\ m.status = "error"
      BY <2>4, <2>p DEF Msgs
    <2> QED BY <2>0, <2>1, <2>3, <2>4, <2>5 DEF Calculated
  <1>6. CASE CReceive \/ CCommit \/ CCrash \/ OrphanEnds
    BY <1>6 DEF CReceive, CCommit, CCrash, OrphanEnds, childVars
  <1>7. CASE CPartial
    <2>1. creq.kind \in Asked /\ creq.kind = "report" /\ ledger' = ledger
      BY <1>7 DEF CPartial, Asked
    <2>2. PICK p : p = Result(creq, "partial")
      OBVIOUS
    <2>3. PICK m : m = [p EXCEPT !.gen = gen, !.edits = ledger]
      OBVIOUS
    <2>4. p \in Msgs /\ p.kind = creq.kind /\ p.id = creq.id /\ p.saved = FALSE /\ p.status = "partial"
      BY <2>1, <2>2, <1>p
    <2>5. m \in Msgs /\ m.kind = creq.kind /\ m.id = creq.id /\ m.saved = FALSE /\ m.edits = ledger
      BY <2>3, <2>4, <1>0 DEF Msgs
    <2>6. cout' = Append(cout, m)
      BY <1>7, <2>2, <2>3 DEF CPartial, Send
    <2> QED BY <2>1, <2>5, <2>6
  <1> QED BY <1>1, <1>2, <1>3, <1>4, <1>5, <1>6, <1>7 DEF ChildStep, Child

(* The child commits the edit its request names, under the request's id.     *)
LEMMA IdChild ==
    ASSUME QueueShape, MsgShape, ValueShape, ThreadShape, IdInv, ChildStep
    PROVE  IdInv'
  <1>0. creq \in Reqs /\ cin \in Seq(Reqs) /\ cout \in Seq(Msgs) /\ None.kind = "none"
    BY NoneFacts DEF QueueShape, PipeShape, MsgShape
  <1>f. UNCHANGED <<exclusions, edit_request, sequence, commands, active, out, worker_results>>
    BY Frames DEF svcVars, queueVars, transportVars
  <1>c. /\ cst \in {"writing", "committed", "reading"} => creq.kind = "edit"
        /\ cst \in {"committed", "reading"} /\ creq.id = edit_request.id => First \in ledger
        /\ \A id \in committed : Drawn(id) /\ (id = edit_request.id => First \in ledger)
    BY DEF IdInv
  <1>q. creq.kind = "edit" => Drawn(creq.id) /\ (creq.id = edit_request.id => creq.edit = First)
    BY DEF IdInv, Requests
  <1>1. ledger \subseteq ledger'
    BY 
       DEF ChildStep, OrphanEnds, childVars, boundVars, Child, CReceive, CPartial, CRead, CBegin,
           CCommit, CRefuse, CReading, CDone, CCheckpoint, CFail, CCrash
  <1>2. \A r \in Requests' : r.kind = "edit" => r \in Requests
    <2>1. \/ cin' = cin
          \/ cin # <<>> /\ cin' = Tail(cin)
      BY 
         DEF ChildStep, OrphanEnds, childVars, boundVars, Child, CReceive, CPartial, CRead, CBegin,
             CCommit, CRefuse, CReading, CDone, CCheckpoint, CFail, CCrash
    <2>2. Elems(cin') \subseteq Elems(cin)
      BY <2>1, <1>0, TailFacts
    <2>3. creq' \in {creq, None} \/ (cin # <<>> /\ creq' = Head(cin))
      BY 
         DEF ChildStep, OrphanEnds, childVars, boundVars, Child, CReceive, CPartial, CRead, CBegin,
             CCommit, CRefuse, CReading, CDone, CCheckpoint, CFail, CCrash
    <2>4. creq' \in {creq, None} \/ creq' \in Elems(cin)
      BY <2>3, <1>0, TailFacts
    <2> QED BY <2>2, <2>4, <1>0, <1>f DEF Requests
  <1>3. \A id \in committed' : id \in committed \/ (Drawn(id) /\ (id = edit_request.id => First \in ledger'))
    <2>1. \/ committed' = committed
          \/ committed' = committed \cup {creq.id} /\ cst = "writing" /\ ledger' = ledger \cup {creq.edit}
      BY 
         DEF ChildStep, OrphanEnds, childVars, boundVars, Child, CReceive, CPartial, CRead, CBegin,
             CCommit, CRefuse, CReading, CDone, CCheckpoint, CFail, CCrash
    <2> QED BY <2>1, <1>c, <1>q
  <1>4. cst' \in {"writing", "committed", "reading"} => creq'.kind = "edit"
    <2>1. cst' \in {"writing", "committed", "reading"} =>
            creq' = creq /\ (creq.kind = "edit" \/ cst \in {"writing", "committed", "reading"})
      BY 
         DEF ChildStep, OrphanEnds, childVars, boundVars, Child, CReceive, CPartial, CRead, CBegin,
             CCommit, CRefuse, CReading, CDone, CCheckpoint, CFail, CCrash
    <2> QED BY <2>1, <1>c
  <1>5. cst' \in {"committed", "reading"} /\ creq'.id = edit_request.id => First \in ledger'
    <2>1. cst' \in {"committed", "reading"} =>
            /\ creq' = creq
            /\ \/ creq.id \in committed \/ cst \in {"committed", "reading"}
               \/ cst = "writing" /\ ledger' = ledger \cup {creq.edit}
      BY 
         DEF ChildStep, OrphanEnds, childVars, boundVars, Child, CReceive, CPartial, CRead, CBegin,
             CCommit, CRefuse, CReading, CDone, CCheckpoint, CFail, CCrash
    <2> QED BY <2>1, <1>1, <1>c, <1>q
  <1>6. \A m \in Messages' : m.kind = "edit" =>
           \/ m \in Messages
           \/ Drawn(m.id) /\ (m.id = edit_request.id => /\ m.saved => First \in ledger'
                                                        /\ m.status = "ok" => First \in m.edits)
    <2>1. CASE cout' = cout
      BY <2>1, <1>f DEF Messages
    <2>2. CASE cout' # cout
      <3>1. PICK m \in Msgs :
               /\ cout' = Append(cout, m) /\ m.kind = creq.kind /\ m.id = creq.id /\ ledger' = ledger
               /\ m.saved => cst \in {"committed", "reading"} \/ creq.id \in committed
               /\ Calculated(m) => m.edits = ledger
               /\ m.status = "ok" /\ m.kind = "edit" => cst = "reading"
        BY <2>2, ChildSends
      <3>2. \A k \in Messages' : k \in Messages \/ k = m
        BY <3>1, <1>0, <1>f, AppendFacts DEF Messages
      <3>3. m.kind = "edit" =>
              Drawn(m.id) /\ (m.id = edit_request.id => /\ m.saved => First \in ledger'
                                                        /\ m.status = "ok" => First \in m.edits)
        BY <3>1, <1>c, <1>q DEF Calculated
      <3> QED BY <3>2, <3>3
    <2> QED BY <2>1, <2>2
  <1> QED BY <1>1, <1>2, <1>3, <1>4, <1>5, <1>6, <1>f, IdRetained

(* No step of any thread confuses one edit with another.                    *)
LEMMA IdStep ==
    ASSUME QueueShape, MsgShape, ValueShape, ThreadShape, GuardInv, IdInv, [Next]_vars
    PROVE  IdInv'
  <1>1. CASE UserOrService
    BY <1>1, IdUser
  <1>2. CASE TransportStep
    BY <1>2, IdTransport
  <1>3. CASE ChildStep
    BY <1>3, IdChild
  <1>4. CASE UNCHANGED vars
    <2>1. /\ UNCHANGED <<transportVars, childVars, ledger, commands, sequence, exclusions, edit_request>>
          /\ UNCHANGED worker_results
      BY <1>4 DEF vars, svcVars, queueVars
    <2>2. edit_request.saved => edit_request.id # 0 /\ First \in ledger
      BY DEF IdInv
    <2> QED BY <2>1, <2>2, IdHeard
  <1> QED BY <1>1, <1>2, <1>3, <1>4, Cases

-----------------------------------------------------------------------------
(* The order of results                                                     *)

(* A result calculated after all of a queue goes to its end.                *)
LEMMA OrderedAppend ==
    ASSUME NEW s \in Seq(Msgs), NEW m \in Msgs, Ordered(s), \A n \in Elems(s) : Before(n, m)
    PROVE  Ordered(Append(s, m))
  <1> DEFINE t == Append(s, m)
  <1>1. /\ Len(t) = Len(s) + 1 /\ Len(s) \in Nat /\ t[Len(s) + 1] = m
        /\ \A i \in 1..Len(s) : t[i] = s[i] /\ s[i] \in Elems(s)
    BY AppendFacts DEF Elems
  <1>2. SUFFICES ASSUME NEW i \in 1..Len(t), NEW j \in 1..Len(t), i < j PROVE Before(t[i], t[j])
    BY DEF Ordered
  <1>3. i \in 1..Len(s) /\ (j \in 1..Len(s) \/ j = Len(s) + 1)
    BY <1>1, <1>2
  <1>4. CASE j \in 1..Len(s)
    BY <1>1, <1>2, <1>3, <1>4 DEF Ordered
  <1>5. CASE j = Len(s) + 1
    BY <1>1, <1>3, <1>5
  <1> QED BY <1>3, <1>4, <1>5

(* What leaves the front of a queue is before the rest.                     *)
LEMMA OrderedTail ==
    ASSUME NEW s \in Seq(Msgs), s # <<>>, Ordered(s)
    PROVE  Ordered(Tail(s)) /\ \A n \in Elems(Tail(s)) : Before(Head(s), n)
  <1> DEFINE t == Tail(s)
  <1>1. /\ Len(t) = Len(s) - 1 /\ Len(s) \in Nat \ {0} /\ Head(s) = s[1]
        /\ \A i \in 1..Len(t) : t[i] = s[i + 1] /\ i + 1 \in 1..Len(s)
    BY TailFacts
  <1>2. ASSUME NEW i \in 1..Len(t), NEW j \in 1..Len(t), i < j PROVE Before(t[i], t[j])
    <2>1. i + 1 < j + 1
      BY <1>1, <1>2
    <2> QED BY <1>1, <1>2, <2>1 DEF Ordered
  <1>3. ASSUME NEW i \in 1..Len(t) PROVE Before(Head(s), t[i])
    <2>1. 1 < i + 1 /\ 1 \in 1..Len(s)
      BY <1>1, <1>3
    <2> QED BY <1>1, <1>3, <2>1 DEF Ordered
  <1>4. Ordered(t)
    BY <1>2 DEF Ordered
  <1>5. \A n \in Elems(t) : Before(Head(s), n)
    BY <1>3 DEF Elems
  <1> QED BY <1>4, <1>5

(* When no result moves, the ledger may grow.                               *)
LEMMA OrderStays ==
    ASSUME OrderInv, UNCHANGED <<worker_results, out, cout, report>>, ledger \subseteq ledger'
    PROVE  OrderInv'
  <1>1. Messages' = Messages
    BY DEF Messages
  <1>2. \A m \in Messages' : Calculated(m) => report'.edits \subseteq m.edits /\ m.edits \subseteq ledger'
    BY <1>1 DEF OrderInv
  <1> QED BY <1>2 DEF OrderInv

(* What the transport holds is replaced by something that is not calculated *)
(* or by the next of the child; the pipe may be lost.                       *)
LEMMA OrderTransport ==
    ASSUME MsgShape, QueueShape, OrderInv, TransportStep
    PROVE  OrderInv'
  <1>0. cout \in Seq(Msgs) /\ out \in Seq(Msgs) /\ Len(out) <= 1 /\ worker_results \in Seq(Msgs) /\ active \in Reqs
    BY DEF MsgShape, QueueShape, ActiveShape
  <1>f. UNCHANGED <<ledger, report>>
    BY Frames DEF svcVars
  <1>o. /\ report.edits \subseteq ledger
        /\ \A m \in Messages : Calculated(m) => report.edits \subseteq m.edits /\ m.edits \subseteq ledger
        /\ Ordered(worker_results) /\ Ordered(cout)
        /\ AllBefore(worker_results, out) /\ AllBefore(worker_results, cout) /\ AllBefore(out, cout)
    BY DEF OrderInv
  <1>e. Ordered(<<>>) /\ \A s : AllBefore(s, <<>>) /\ AllBefore(<<>>, s)
    BY ShortFacts DEF Ordered, AllBefore
  <1>1. CASE TNext \/ TSend \/ TCancel
    <2>1. UNCHANGED <<worker_results, out, cout>>
      BY <1>1 DEF TNext, TSend, TCancel, childVars
    <2> QED BY <2>1, <1>f, OrderStays
  <1>2. CASE TSkip \/ TFail \/ TBreak \/ TPause \/ TDeliver \/ TClose
    <2>1. UNCHANGED worker_results /\ (cout' = cout \/ cout' = <<>>)
      BY <1>2 DEF TSkip, TFail, TBreak, Failed, TPause, TDeliver, TClose, Gone, childVars
    <2>2. \/ out' = out \/ out' = <<>>
          \/ \E m : out' = <<m>> /\ m.status \notin {"ok", "partial"}
      <3>1. CASE TSkip \/ TPause
        <4>1. PICK m : m = Result(active, "cancelled")
          OBVIOUS
        <4>2. m.status = "cancelled"
          BY <4>1 DEF Result
        <4>3. out' = <<m>>
          BY <3>1, <4>1 DEF TSkip, TPause, Settle
        <4> QED BY <4>2, <4>3
      <3>2. CASE TFail \/ TBreak
        <4>1. PICK p : p = Result(active, "error")
          OBVIOUS
        <4>2. PICK m : m = [p EXCEPT !.permanent = active.kind = "edit", !.uncertain = active.kind = "edit"]
          OBVIOUS
        <4>3. active.kind \in Asked
          BY <3>2 DEF TFail, TBreak, Failed, QueueShape, ActiveShape
        <4>4. p \in Msgs /\ p.status = "error"
          BY <4>1, <4>3, <1>0, ResultFacts
        <4>5. m.status = "error"
          BY <4>2, <4>4 DEF Msgs
        <4>6. out' = <<m>>
          BY <3>2, <4>1, <4>2 DEF TFail, TBreak, Failed, Settle
        <4> QED BY <4>5, <4>6
      <3>3. CASE TDeliver \/ TClose
        BY <3>3 DEF TDeliver, TClose
      <3> QED BY <1>2, <3>1, <3>2, <3>3
    <2>3. \A n \in Elems(out') : n \in Elems(out) \/ ~Calculated(n)
      BY <2>2, ShortFacts DEF Calculated
    <2>4. AllBefore(worker_results, out') /\ AllBefore(out', cout)
      BY <2>3, <1>o DEF AllBefore, Before
    <2>5. Ordered(cout') /\ AllBefore(worker_results, cout') /\ AllBefore(out', cout')
      BY <2>1, <2>4, <1>o, <1>e
    <2>6. \A n \in Messages' : n \in Messages \/ ~Calculated(n)
      BY <2>1, <2>3, ShortFacts DEF Messages
    <2>7. \A m \in Messages' : Calculated(m) => report'.edits \subseteq m.edits /\ m.edits \subseteq ledger'
      BY <2>6, <1>o, <1>f
    <2> QED BY <2>1, <2>4, <2>5, <2>7, <1>o, <1>f DEF OrderInv
  <1>3. CASE TReceive
    <2>1. cout # <<>> /\ cout' = Tail(cout) /\ UNCHANGED worker_results
      BY <1>3 DEF TReceive
    <2>2. /\ Elems(cout) = {Head(cout)} \cup Elems(cout') /\ Head(cout) \in Msgs
          /\ Ordered(cout') /\ \A n \in Elems(cout') : Before(Head(cout), n)
      BY <2>1, <1>0, <1>o, TailFacts, OrderedTail
    <2>3. PICK m : m = [Head(cout) EXCEPT !.status = "progress"]
      OBVIOUS
    <2>4. ~Calculated(m)
      BY <2>2, <2>3 DEF Msgs, Calculated
    <2>5. out' = <<m>> \/ out' = <<Head(cout)>>
      BY <1>3, <2>3 DEF TReceive, Settle
    <2>6. \A n \in Elems(out') : n = Head(cout) \/ ~Calculated(n)
      BY <2>4, <2>5, ShortFacts
    <2>7. AllBefore(worker_results, out') /\ AllBefore(worker_results, cout')
      BY <2>2, <2>6, <1>o DEF AllBefore, Before
    <2>8. AllBefore(out', cout')
      BY <2>2, <2>6 DEF AllBefore, Before
    <2>9. \A n \in Messages' : n \in Messages \/ ~Calculated(n)
      BY <2>1, <2>2, <2>6 DEF Messages
    <2>10. \A n \in Messages' : Calculated(n) => report'.edits \subseteq n.edits /\ n.edits \subseteq ledger'
      BY <2>9, <1>o, <1>f
    <2> QED BY <2>1, <2>2, <2>7, <2>8, <2>10, <1>o, <1>f DEF OrderInv
  <1>4. CASE TEmit
    <2>1. out' = <<>> /\ cout' = cout /\ (worker_results' = worker_results \/ worker_results' = worker_results \o out)
      BY <1>4 DEF TEmit, childVars
    <2>2. CASE worker_results' = worker_results \/ out = <<>>
      <3>1. worker_results' = worker_results
        BY <2>1, <2>2, <1>0, EmitFacts
      <3>2. Messages' \subseteq Messages
        BY <2>1, <3>1, ShortFacts DEF Messages
      <3>3. \A n \in Messages' : Calculated(n) => report'.edits \subseteq n.edits /\ n.edits \subseteq ledger'
        BY <3>2, <1>o, <1>f
      <3> QED BY <2>1, <3>1, <3>3, <1>o, <1>e, <1>f DEF OrderInv
    <2>3. CASE worker_results' = worker_results \o out /\ out # <<>>
      <3>1. PICK m \in Msgs : m = out[1] /\ worker_results' = Append(worker_results, m) /\ Elems(out) = {m}
        BY <2>3, <1>0, EmitFacts
      <3>2. Elems(worker_results') = Elems(worker_results) \cup {m}
        BY <3>1, <1>0, AppendFacts
      <3>3. Ordered(worker_results')
        BY <3>1, <1>0, <1>o, OrderedAppend DEF AllBefore
      <3>4. AllBefore(worker_results', cout)
        BY <3>1, <3>2, <1>o DEF AllBefore
      <3>5. Messages' = Messages
        BY <2>1, <3>1, <3>2, ShortFacts DEF Messages
      <3>6. \A n \in Messages' : Calculated(n) => report'.edits \subseteq n.edits /\ n.edits \subseteq ledger'
        BY <3>5, <1>o, <1>f
      <3> QED BY <2>1, <3>3, <3>4, <3>6, <1>o, <1>e, <1>f DEF OrderInv
    <2> QED BY <2>1, <2>2, <2>3
  <1> QED BY <1>1, <1>2, <1>3, <1>4 DEF TransportStep, Transport

(* Results stay in the order in which the ledger was read: one slot in the  *)
(* transport, first in first out on both sides of it.                       *)
LEMMA OrderStep ==
    ASSUME QueueShape, MsgShape, ValueShape, ThreadShape, IdInv, OrderInv, [Next]_vars
    PROVE  OrderInv'
  <1>0. cout \in Seq(Msgs) /\ out \in Seq(Msgs) /\ worker_results \in Seq(Msgs)
    BY DEF MsgShape
  <1>o. /\ report.edits \subseteq ledger
        /\ \A m \in Messages : Calculated(m) => report.edits \subseteq m.edits /\ m.edits \subseteq ledger
        /\ Ordered(worker_results) /\ Ordered(cout)
        /\ AllBefore(worker_results, out) /\ AllBefore(worker_results, cout) /\ AllBefore(out, cout)
    BY DEF OrderInv
  <1>1. CASE UserOrService /\ ~SvcResult
    <2>1. UNCHANGED <<worker_results, report>>
      BY <1>1
         DEF UserOrService, TogglePause, ToggleReports, RequestEdit, RequestChart, Stop, Service,
             SvcControl, SvcTurn, SvcEdit, SvcWait, SvcTimeout, SvcReport, svcVars
    <2> QED BY <2>1, <1>1, Frames, OrderStays DEF transportVars, childVars
  <1>2. CASE SvcResult
    <2>1. PICK r : r = Head(worker_results)
      OBVIOUS
    <2>2. /\ worker_results # <<>> /\ worker_results' = Tail(worker_results) /\ UNCHANGED <<out, cout, ledger>>
          /\ report' = report \/ (Calculated(r) /\ report' = [gen |-> r.gen, edits |-> r.edits])
      BY <1>2, <2>1, ResultEffect DEF transportVars, childVars
    <2>3. /\ Elems(worker_results) = {r} \cup Elems(worker_results') /\ Ordered(worker_results')
          /\ \A n \in Elems(worker_results') : Before(r, n)
      BY <2>1, <2>2, <1>0, <1>o, TailFacts, OrderedTail
    <2>4. AllBefore(worker_results', out') /\ AllBefore(worker_results', cout') /\ AllBefore(out', cout')
      BY <2>2, <2>3, <1>o DEF AllBefore
    <2>5. Messages' \subseteq Messages /\ r \in Messages
      BY <2>2, <2>3 DEF Messages
    <2>6. \A n \in Messages' : Before(r, n)
      BY <2>2, <2>3, <1>o DEF Messages, AllBefore
    <2>7. CASE report' = report
      BY <2>2, <2>3, <2>4, <2>5, <2>7, <1>o DEF OrderInv
    <2>8. CASE Calculated(r) /\ report' = [gen |-> r.gen, edits |-> r.edits]
      <3>1. report'.edits = r.edits /\ r.edits \subseteq ledger
        BY <2>5, <2>8, <1>o
      <3>2. \A n \in Messages' : Calculated(n) => report'.edits \subseteq n.edits /\ n.edits \subseteq ledger'
        BY <2>2, <2>5, <2>6, <2>8, <3>1, <1>o DEF Before
      <3> QED BY <2>2, <2>3, <2>4, <3>1, <3>2, <1>o DEF OrderInv
    <2> QED BY <2>2, <2>7, <2>8
  <1>3. CASE TransportStep
    BY <1>3, OrderTransport
  <1>4. CASE ChildStep
    <2>1. UNCHANGED <<worker_results, out, report>>
      BY <1>4, Frames DEF svcVars, transportVars
    <2>2. ledger \subseteq ledger'
      BY <1>4
         DEF ChildStep, OrphanEnds, childVars, boundVars, Child, CReceive, CPartial, CRead, CBegin,
             CCommit, CRefuse, CReading, CDone, CCheckpoint, CFail, CCrash
    <2>3. CASE cout' = cout
      BY <2>1, <2>2, <2>3, OrderStays
    <2>4. CASE cout' # cout
      <3>1. PICK m \in Msgs : cout' = Append(cout, m) /\ ledger' = ledger /\ (Calculated(m) => m.edits = ledger)
        BY <1>4, <2>4, ChildSends
      <3>2. Elems(cout') = Elems(cout) \cup {m}
        BY <3>1, <1>0, AppendFacts
      <3>3. \A n \in Messages : Before(n, m)
        BY <3>1, <1>o DEF Before
      <3>4. Ordered(cout')
        BY <3>1, <3>3, <1>0, <1>o, OrderedAppend DEF Messages
      <3>5. AllBefore(worker_results, cout') /\ AllBefore(out, cout')
        BY <3>2, <3>3, <1>o DEF AllBefore, Messages
      <3>6. Messages' = Messages \cup {m}
        BY <2>1, <3>2 DEF Messages
      <3>7. \A n \in Messages' : Calculated(n) => report'.edits \subseteq n.edits /\ n.edits \subseteq ledger'
        BY <2>1, <3>1, <3>6, <1>o
      <3> QED BY <2>1, <3>1, <3>4, <3>5, <3>7, <1>o DEF OrderInv
    <2> QED BY <2>3, <2>4
  <1>5. CASE UNCHANGED vars
    BY <1>5, OrderStays DEF vars, svcVars, transportVars, childVars
  <1> QED BY <1>1, <1>2, <1>3, <1>4, <1>5, Cases DEF UserOrService

-----------------------------------------------------------------------------
(* What the user was told                                                   *)

(* An answer stays true while the ledger grows and the report shown is only *)
(* replaced by one that has all its edits.                                  *)
LEMMA AnswerKept ==
    ASSUME AnsweredEditsShown, UNCHANGED answer, ledger \subseteq ledger', report.edits \subseteq report'.edits
    PROVE  AnsweredEditsShown'
  BY DEF AnsweredEditsShown

(* The answer that is given is true when it is given.                       *)
LEMMA AnswerGiven ==
    ASSUME AnsweredEditsShown, ValueShape, exclusions # <<>>, UNCHANGED ledger, report.edits \subseteq report'.edits,
           NEW outcome, answer' = [answer EXCEPT ![First] = outcome],
           outcome \in {"ok", "saved"} => First \in ledger, outcome = "ok" => First \in report'.edits
    PROVE  AnsweredEditsShown'
  <1>1. First \in 1..MaxEdits /\ answer \in [1..MaxEdits -> {"none", "ok", "saved", "lost", "uncertain"}]
    <2>1. exclusions \in Seq(1..MaxEdits) /\ answer \in [1..MaxEdits -> {"none", "ok", "saved", "lost", "uncertain"}]
      BY DEF ValueShape
    <2> QED BY <2>1, TailFacts DEF First
  <1>2. \A e \in 1..MaxEdits : answer'[e] = IF e = First THEN outcome ELSE answer[e]
    BY <1>1
  <1> QED BY <1>2 DEF AnsweredEditsShown

(* Told of an edit by a result, or by the deadline, the user is told what   *)
(* the ledger and the report say.                                           *)
LEMMA AnswerStep ==
    ASSUME QueueShape, MsgShape, ValueShape, IdInv, OrderInv, AnsweredEditsShown, [Next]_vars
    PROVE  AnsweredEditsShown'
  <1>1. CASE UserOrService /\ ~SvcResult /\ ~SvcTimeout
    <2>1. UNCHANGED <<answer, report, ledger>>
      BY <1>1
         DEF UserOrService, TogglePause, ToggleReports, RequestEdit, RequestChart, Stop, Service,
             SvcControl, SvcTurn, SvcEdit, SvcWait, SvcReport, svcVars
    <2> QED BY <2>1, AnswerKept
  <1>2. CASE SvcTimeout
    <2>1. /\ exclusions # <<>> /\ UNCHANGED <<ledger, report>>
          /\ Told(IF edit_request.saved THEN "saved" ELSE "lost")
      BY <1>2 DEF SvcTimeout
    <2>2. PICK outcome \in {"saved", "lost"} : outcome = IF edit_request.saved THEN "saved" ELSE "lost"
      OBVIOUS
    <2>3. answer' = [answer EXCEPT ![First] = outcome]
      BY <2>1, <2>2, TailFacts DEF Told, ValueShape, First
    <2>4. outcome = "saved" => First \in ledger
      BY <2>2 DEF IdInv
    <2> QED BY <2>1, <2>3, <2>4, AnswerGiven
  <1>3. CASE SvcResult
    <2>1. PICK r : r = Head(worker_results)
      OBVIOUS
    <2>2. worker_results # <<>> /\ UNCHANGED ledger /\ r \in Messages
      BY <1>3, <2>1, ResultEffect, TailFacts DEF MsgShape, Messages
    <2>3. report' = report \/ (Calculated(r) /\ report' = [gen |-> r.gen, edits |-> r.edits])
      BY <1>3, <2>1, ResultEffect
    <2>4. report.edits \subseteq report'.edits
      BY <2>2, <2>3 DEF OrderInv
    <2>5. CASE UNCHANGED answer
      BY <2>2, <2>4, <2>5, AnswerKept
    <2>6. CASE ~UNCHANGED answer
      <3>1. PICK outcome \in {"ok", "saved", "lost", "uncertain"} :
               /\ r.kind = "edit" /\ edit_request.id # 0 /\ r.id = edit_request.id /\ Told(outcome)
               /\ outcome = "ok" => r.status = "ok" /\ report' = [gen |-> r.gen, edits |-> r.edits]
               /\ outcome = "saved" => r.saved
        BY <1>3, <2>1, <2>6, ResultEffect
      <3>2. exclusions # <<>>
        BY <3>1 DEF IdInv
      <3>3. answer' = [answer EXCEPT ![First] = outcome]
        BY <3>1, <3>2, TailFacts DEF Told, ValueShape, First
      <3>4. (r.saved => First \in ledger) /\ (r.status = "ok" => First \in r.edits /\ r.edits \subseteq ledger)
        BY <2>2, <3>1 DEF IdInv, OrderInv, Calculated
      <3>5. /\ outcome \in {"ok", "saved"} => First \in ledger
            /\ outcome = "ok" => First \in report'.edits
        BY <3>1, <3>4
      <3> QED BY <2>2, <2>4, <3>2, <3>3, <3>5, AnswerGiven
    <2> QED BY <2>5, <2>6
  <1>4. CASE TransportStep
    BY <1>4, Frames, AnswerKept DEF svcVars
  <1>5. CASE ChildStep
    <2>1. ledger \subseteq ledger'
      BY <1>5
         DEF ChildStep, OrphanEnds, childVars, boundVars, Child, CReceive, CPartial, CRead, CBegin,
             CCommit, CRefuse, CReading, CDone, CCheckpoint, CFail, CCrash
    <2> QED BY <1>5, <2>1, Frames, AnswerKept DEF svcVars
  <1>6. CASE UNCHANGED vars
    BY <1>6, AnswerKept DEF vars, svcVars
  <1> QED BY <1>1, <1>2, <1>3, <1>4, <1>5, <1>6, Cases

-----------------------------------------------------------------------------
(* The theorems                                                             *)

(* The service, the transport and the child before their first step.        *)
LEMMA InitHolds == Init => IInv
  <1> SUFFICES ASSUME Init PROVE IInv
    OBVIOUS
  <1>1. /\ exclusions = <<>> /\ edit_request = [id |-> 0, saved |-> FALSE] /\ report = NoReport
        /\ worker_results = <<>> /\ sequence = 0 /\ commands = <<>> /\ pending = [k \in COALESCED |-> None]
        /\ tpc = "next" /\ active = None /\ connection = FALSE /\ phase = "idle" /\ out = <<>>
        /\ gen = 0 /\ cst = "none" /\ creq = None /\ cin = <<>> /\ cout = <<>> /\ committed = {}
        /\ ledger = {} /\ orphans = {} /\ answer = [e \in 1..MaxEdits |-> "none"]
        /\ asked = [edit |-> 0, chart |-> 0, report |-> 0]
    BY DEF Init
  <1>2. None \in Reqs /\ None.kind = "none" /\ MaxEdits \in Nat
    BY NoneFacts
  <1>3. QueueShape
    BY <1>1, <1>2, ShortFacts DEF QueueShape, CommandShape, ActiveShape, PipeShape
  <1>4. MsgShape
    BY <1>1, ShortFacts DEF MsgShape
  <1>5. ValueShape
    BY <1>1, <1>2, ShortFacts DEF ValueShape, NoReport
  <1>6. ThreadShape /\ OrphanShape
    BY <1>1 DEF ThreadShape, OrphanShape
  <1>7. GuardInv
    BY <1>1, ShortFacts DEF GuardInv, Free, Busy, Waiting, Quiet
  <1>8. Requests = {None} /\ Messages = {}
    BY <1>1, ShortFacts DEF Requests, Messages
  <1>9. IdInv
    BY <1>1, <1>2, <1>8 DEF IdInv
  <1>10. OrderInv
    BY <1>1, <1>8, ShortFacts DEF OrderInv, Ordered, AllBefore, NoReport
  <1>11. AnsweredEditsShown
    BY <1>1 DEF AnsweredEditsShown
  <1> QED BY <1>3, <1>4, <1>5, <1>6, <1>7, <1>9, <1>10, <1>11 DEF IInv

(* No step of the user, the service, the transport or the child leaves the  *)
(* inductive invariant.                                                     *)
LEMMA StepHolds == IInv /\ [Next]_vars => IInv'
  <1> SUFFICES ASSUME IInv, [Next]_vars PROVE IInv'
    OBVIOUS
  <1>1. QueueShape /\ MsgShape /\ ValueShape /\ OrphanShape /\ ThreadShape /\ GuardInv /\ IdInv /\ OrderInv
        /\ AnsweredEditsShown
    BY DEF IInv
  <1>2. QueueShape'
    BY <1>1, CommandStep, ActiveStep, PipeStep DEF QueueShape
  <1>3. MsgShape' /\ ValueShape' /\ OrphanShape' /\ ThreadShape'
    BY <1>1, MsgStep, ValueStep, OrphanStep, ThreadStep
  <1>4. GuardInv'
    BY <1>1, GuardStep
  <1>5. IdInv'
    BY <1>1, IdStep
  <1>6. OrderInv' /\ AnsweredEditsShown'
    BY <1>1, OrderStep, AnswerStep
  <1> QED BY <1>2, <1>3, <1>4, <1>5, <1>6 DEF IInv

(* The inductive invariant of the calculation worker.                       *)
THEOREM Invariance == Spec => []IInv
  BY InitHolds, StepHolds, PTL DEF Spec

(* AnsweredEditsShown, for all bounds: an edit the user was told is saved   *)
(* is in the ledger (_exclusion_failed and execute), and the report that    *)
(* the service shows after a completed edit was calculated with it, because *)
(* results reach the service in the order in which the child read the       *)
(* ledger, through the transport's one slot.                                *)
THEOREM AnswersAreTrue == Spec => []AnsweredEditsShown
  <1>1. IInv => AnsweredEditsShown
    BY DEF IInv
  <1> QED BY <1>1, Invariance, PTL

(* The child that is writing is not terminated by the transport.            *)
LEMMA CommitGuarded ==
    ASSUME IInv, [Next]_vars, cst \in {"writing", "committed"}
    PROVE  \/ cst' \in {"writing", "committed", "reading", "idle", "dead"}
           \/ creq.edit \in orphans'
  <1>1. ThreadShape /\ GuardInv /\ ActiveShape
    BY DEF IInv, QueueShape
  <1>2. CASE UserOrService
    BY <1>2, Frames DEF childVars
  <1>3. CASE TransportStep
    <2>1. CASE TNext \/ TSkip \/ TSend \/ TCancel \/ TReceive \/ TDeliver \/ TEmit
      BY <2>1 DEF TNext, TSkip, TSend, TCancel, TReceive, TDeliver, TEmit, childVars
    <2>2. CASE TFail \/ TBreak \/ TPause \/ TClose
      <3>1. tpc # "done"
        BY <2>2 DEF TFail, TBreak, Failed, TPause, TClose
      <3>2. Free /\ Waiting /\ connection /\ active.kind = "edit" /\ phase \in WRITING
        BY <1>1, <3>1, AtWork DEF Flying, GuardInv, Busy
      <3>3. ~TFail
        BY <3>2 DEF TFail, Waiting
      <3>6. CASE TBreak
        <4>1. creq = active
          BY <1>1, <3>1, <3>2 DEF GuardInv, Busy
        <4> QED BY <3>2, <3>6, <4>1 DEF TBreak
      <3>4. ~TPause
        BY <3>2 DEF TPause, Overtaken
      <3>5. CASE TClose
        BY <3>5, <3>2 DEF TClose
      <3> QED BY <2>2, <3>3, <3>4, <3>5, <3>6
    <2> QED BY <1>3, <2>1, <2>2 DEF TransportStep, Transport
  <1>4. CASE ChildStep
    BY <1>4
       DEF ChildStep, OrphanEnds, childVars, Child, CReceive, CPartial, CRead, CBegin, CCommit,
           CRefuse, CReading, CDone, CCheckpoint, CFail, CCrash
  <1>5. CASE UNCHANGED vars
    BY <1>5 DEF vars, childVars
  <1> QED BY <1>2, <1>3, <1>4, <1>5, Cases

(* CommitNotKilled, for all bounds: neither a pause, nor a close, nor the   *)
(* clean-up after a failure ends the process between the write and the      *)
(* commit, because the phase says so before the request is even sent; nor   *)
(* does a broken pipe, after which the process is left to end by itself.     *)
THEOREM CommitsAreNotKilled == Spec => CommitNotKilled
  <1>1. IInv /\ [Next]_vars =>
          [(cst \in {"writing", "committed"}) =>
              \/ cst' \in {"writing", "committed", "reading", "idle", "dead"}
              \/ creq.edit \in orphans']_vars
    BY CommitGuarded
  <1> QED BY <1>1, Invariance, PTL DEF Spec, CommitNotKilled
=============================================================================
