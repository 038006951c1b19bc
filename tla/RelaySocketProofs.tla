-------------------------- MODULE RelaySocketProofs --------------------------
(***************************************************************************)
(* Activity counts the work of a connection exactly and Tracker records it *)
(* under the right request, for any lanes, frames and repetitions.         *)
(***************************************************************************)
EXTENDS RelaySocket, SequenceTheorems, TLAPS

-----------------------------------------------------------------------------
(* The inductive invariant, one definition per idea                         *)

Sent == 1..frames
Records == -MaxFrames..MaxFrames

(* What the frames of the two directions look like.                         *)
Outgoing(f) ==
    /\ f.t \in {"create", "cancel", "other"} /\ f.id \in Sent /\ f.lane \in Lanes /\ laneOf[f.id] = f.lane
    /\ f.t = "cancel" => f.lane \in cancelled
Incoming(f) ==
    /\ f.t \in {"created", "ended", "error", "other"}
    /\ f.t # "other" => f.lane \in Lanes
    /\ f.t \in {"created", "ended"} => f.id \in Sent /\ f.ans \in {0, f.id} /\ laneOf[f.id] = f.lane
    /\ f.t = "created" => f.ans = 0
    /\ f.t = "error" => /\ f.lane \in erring /\ f.ans \in Sent \cup {0}
                        /\ IF f.ans = 0 THEN f.lane \in cancelled ELSE laneOf[f.ans] = f.lane
    /\ f.t = "other" => f.ans = 0

FlagType ==
    /\ open \in BOOLEAN /\ closing \in BOOLEAN /\ unknown \in BOOLEAN /\ forwarding \in Int
    /\ frames \in 0..MaxFrames
ActivityType ==
    /\ pending \in [Lanes -> Nat] /\ active \in [Requests -> Lanes \cup {NoLane}]
    /\ completed \subseteq Sent /\ cancelling \subseteq cancelled
    /\ forwarded \subseteq Sent /\ answered \subseteq Sent
    /\ cancelled \subseteq Lanes /\ erring \subseteq Lanes
    /\ laneOf \in [Requests -> Lanes \cup {NoLane}] /\ \A r \in Sent : laneOf[r] \in Lanes
TrackerType ==
    /\ tPending \in [Lanes -> Seq(Sent)]
    /\ tActive \in [Requests -> Records] /\ tCompleted \in [Requests -> Records]
    /\ saved \in [Records -> {"none", "pending", "created", "ended", "failed", "disconnected"}]
FrameType ==
    /\ outFrame \in Frame /\ inFrame \in Frame
    /\ wire \in Seq(Frame) /\ (\A k \in 1..Len(wire) : Outgoing(wire[k]))
    /\ down \in Seq(Frame) /\ (\A k \in 1..Len(down) : Incoming(down[k]))
    /\ inFrame # NoFrame => Incoming(inFrame)
ServerType ==
    /\ queue \in [Lanes -> Seq(Sent)] /\ serving \in [Lanes -> Sent \cup {0}]
    /\ \A l \in Lanes : /\ \A k \in 1..Len(queue[l]) : laneOf[queue[l][k]] = l
                        /\ serving[l] # 0 => laneOf[serving[l]] = l
Types == FlagType /\ ActivityType /\ TrackerType /\ FrameType /\ ServerType

(* A task that sends a frame on counts as work.                             *)
ForwardInv ==
    open => forwarding = (IF outFrame = NoFrame THEN 0 ELSE 1) + (IF inFrame = NoFrame THEN 0 ELSE 1)

(* A record left open is one the Tracker still works with.                  *)
Unsettled(x) ==
    \/ \E r \in Requests : tActive[r] = x
    \/ \E l \in Lanes : \E k \in 1..Len(tPending[l]) : tPending[l][k] = x
OpenInv ==
    \A x \in Records : saved[x] \in {"pending", "created"} => open /\ x # 0 /\ Unsettled(x)

(* The first frame the server sends about a request, and whose it is.       *)
First(f, l) == f.lane = l /\ f.t \in {"created", "error"}
Ident(f) == IF f.t = "created" THEN f.id ELSE f.ans

(* The requests of a lane the relay has read no answer of, on their way to  *)
(* the server, in its queue and on their way back, ...                      *)
OnWire(l, r) == \E k \in 1..Len(wire) : wire[k].t = "create" /\ wire[k].lane = l /\ wire[k].id = r
InQueue(l, r) == \E k \in 1..Len(queue[l]) : queue[l][k] = r
OnReturn(l, r) == \E k \in 1..Len(down) : First(down[k], l) /\ Ident(down[k]) = r
Waits(l, r) == \E k \in 1..Len(tPending[l]) : tPending[l][k] = r

(* ... are those of the Tracker, in their order.                            *)
Rising(s) == \A i, j \in 1..Len(s) : i < j => s[i] < s[j]
InOrder(l) ==
    \A i, j \in 1..Len(down) :
       i < j /\ First(down[i], l) /\ First(down[j], l) => Ident(down[i]) < Ident(down[j])
Behind(l) ==
    \A q, r \in Sent :
       /\ OnReturn(l, q) /\ (InQueue(l, r) \/ OnWire(l, r)) => q < r
       /\ InQueue(l, q) /\ OnWire(l, r) => q < r
Paired(l) == \A r \in Sent : Waits(l, r) <=> OnWire(l, r) \/ InQueue(l, r) \/ OnReturn(l, r)
LineInv ==
    \A l \in Lanes : Paired(l) /\ Rising(tPending[l]) /\ Rising(queue[l]) /\ InOrder(l) /\ Behind(l)
WireInv == \A i, j \in 1..Len(wire) : i < j => wire[i].id < wire[j].id

(* A request the relay has read an answer of, or will have when it has read *)
(* what is on its way up to a place.                                        *)
Known(r) == tActive[r] # 0 \/ tCompleted[r] # 0
CreatedBefore(r, n) == \E k \in 1..n : down[k].t = "created" /\ down[k].id = r
StartedInv ==
    /\ \A k \in 1..Len(down) : down[k].t = "ended" =>
          /\ Known(down[k].id) \/ CreatedBefore(down[k].id, k - 1)
          /\ down[k].ans = 0 => down[k].id \in completed
    /\ \A l \in Lanes : serving[l] # 0 => Known(serving[l]) \/ CreatedBefore(serving[l], Len(down))

(* Where a request stands for the Tracker and for Activity, which is behind *)
(* by the frame being sent on.                                              *)
StageInv ==
    \A r \in Requests :
      /\ tActive[r] \in {0, r} /\ tCompleted[r] \in {0, r}
      /\ tCompleted[r] # 0 => tActive[r] = 0
      /\ r \in completed => tCompleted[r] # 0 /\ active[r] = NoLane
      /\ tActive[r] # 0 => active[r] = laneOf[r] \/ (inFrame.t = "created" /\ inFrame.id = r)
      /\ tCompleted[r] # 0 =>
            \/ r \in completed
            \/ inFrame.t = "ended" /\ inFrame.id = r /\ inFrame.ans = r /\ active[r] = laneOf[r]
      /\ active[r] # NoLane => Known(r)
HandInv ==
    /\ inFrame.t = "created" => /\ tActive[inFrame.id] # 0 /\ active[inFrame.id] = NoLane
                                /\ inFrame.id \notin answered
    /\ inFrame.t = "ended" => tCompleted[inFrame.id] # 0
    /\ inFrame.t = "error" => /\ ~Known(inFrame.ans) /\ ~Waits(inFrame.lane, inFrame.ans)
WaitingInv ==
    \A l \in Lanes, r \in Sent : Waits(l, r) =>
       laneOf[r] = l /\ r \in forwarded /\ ~Known(r) /\ r \notin answered

(* Every request sent on is waited for, being answered, or answered.        *)
KeptInv ==
    \A r \in forwarded :
      \/ Waits(laneOf[r], r) \/ active[r] # NoLane \/ r \in answered
      \/ (inFrame.t \in {"created", "error"} /\ Ident(inFrame) = r)
AnsweredInv == \A r \in answered : tActive[r] = 0 /\ active[r] = NoLane
ActiveInv == \A r \in Requests : Known(r) => r \in forwarded

(* What Activity counts, unless it has given up.                            *)
CountInv ==
    ~unknown => \A l \in Lanes : pending[l] = Len(tPending[l]) + IF First(inFrame, l) THEN 1 ELSE 0

Clear == LineInv /\ StartedInv /\ StageInv /\ HandInv /\ WaitingInv /\ KeptInv /\ AnsweredInv /\ ActiveInv
         /\ CountInv
ClearInv == open /\ ~ambiguous => Clear
EndInv == ~open => \A r \in Requests : tActive[r] = 0 /\ tCompleted[r] = 0
ClosingInv == closing /\ ~ambiguous => forwarded \subseteq answered

IInv == Types /\ ForwardInv /\ OpenInv /\ WireInv /\ ClearInv /\ EndInv /\ ClosingInv

-----------------------------------------------------------------------------
(* Sequences                                                                *)

(* What is added at the end of a line, ...                                  *)
LEMMA AppendFacts ==
    ASSUME NEW S, NEW s \in Seq(S), NEW e \in S
    PROVE  /\ Append(s, e) \in Seq(S) /\ Len(s) \in Nat /\ Len(Append(s, e)) = Len(s) + 1
           /\ \A k \in 1..Len(s) : Append(s, e)[k] = s[k] /\ s[k] \in S
           /\ Append(s, e)[Len(s) + 1] = e
  BY AppendProperties, LenProperties, ElementOfSeq

(* ... and what is left when its first is taken.                            *)
LEMMA TailFacts ==
    ASSUME NEW S, NEW s \in Seq(S), s # <<>>
    PROVE  /\ Tail(s) \in Seq(S) /\ Len(s) \in Nat \ {0} /\ Len(Tail(s)) = Len(s) - 1
           /\ \A k \in 1..Len(Tail(s)) : Tail(s)[k] = s[k + 1]
           /\ Head(s) = s[1] /\ \A k \in 1..Len(s) : s[k] \in S
  BY HeadTailProperties, LenProperties, EmptySeq, ElementOfSeq

(* A line of some values is a line of more values.                          *)
LEMMA Wider == ASSUME NEW S, NEW T, S \subseteq T PROVE Seq(S) \subseteq Seq(T)
  <1>1. ASSUME NEW s \in Seq(S) PROVE s \in Seq(T)
    <2>1. s \in [1..Len(s) -> S] /\ Len(s) \in Nat
      BY LenProperties
    <2>2. s \in [1..Len(s) -> T]
      BY <2>1
    <2> QED BY <2>1, <2>2, IsASeq
  <1> QED BY <1>1

-----------------------------------------------------------------------------
(* Types                                                                    *)

(* The system starts in order.                                              *)
LEMMA InitHolds == Init => IInv
  <1> SUFFICES ASSUME Init PROVE IInv
    OBVIOUS
  <1>1. MaxFrames \in Nat /\ Sent = {} /\ 0 \in Records
    BY FramesAssumption DEF Init, Sent, Records
  <1>2. <<>> \in Seq(Frame) /\ <<>> \in Seq(Sent) /\ Len(<<>>) = 0
    BY EmptySeq
  <1>3. NoFrame \in Frame /\ NoFrame.t = "none"
    BY <1>1 DEF NoFrame, Frame, NoLane
  <1>4. FlagType
    <2>1. open \in BOOLEAN /\ closing \in BOOLEAN /\ unknown \in BOOLEAN
      BY Zenon DEF Init
    <2>3. forwarding \in Int
      BY DEF Init
    <2>2. frames \in 0..MaxFrames
      BY <1>1 DEF Init
    <2> QED BY <2>1, <2>2, <2>3 DEF FlagType
  <1>5. ActivityType
    BY <1>1 DEF Init, ActivityType
  <1>6. TrackerType
    BY <1>1, <1>2 DEF Init, TrackerType, Records
  <1>7. FrameType /\ ServerType
    <2>1. FrameType
      BY <1>2, <1>3 DEF Init, FrameType
    <2>2. ServerType
      BY <1>2 DEF Init, ServerType
    <2> QED BY <2>1, <2>2
  <1>8. ForwardInv /\ WireInv /\ EndInv /\ ClosingInv
    BY <1>2 DEF Init, ForwardInv, WireInv, EndInv, ClosingInv
  <1>9. OpenInv
    BY DEF Init, OpenInv, Records
  <1>10. LineInv
    <2>1. \A l \in Lanes : Rising(tPending[l]) /\ Rising(queue[l])
      BY <1>2 DEF Init, Rising
    <2>2. \A l \in Lanes : Paired(l) /\ InOrder(l) /\ Behind(l)
      BY <1>1, <1>2 DEF Init, Paired, InOrder, Behind
    <2> QED BY <2>1, <2>2 DEF LineInv
  <1>11. StartedInv /\ StageInv /\ HandInv
    BY <1>2, <1>3 DEF Init, StartedInv, StageInv, HandInv, Known
  <1>12. WaitingInv /\ KeptInv /\ AnsweredInv /\ ActiveInv /\ CountInv
    BY <1>1, <1>2, <1>3 DEF Init, WaitingInv, KeptInv, AnsweredInv, ActiveInv, Known, CountInv, First
  <1> QED BY <1>4, <1>5, <1>6, <1>7, <1>8, <1>9, <1>10, <1>11, <1>12 DEF IInv, Types, ClearInv, Clear

(* Constants the steps work with.                                           *)
LEMMA Constants ==
    ASSUME Types
    PROVE  /\ MaxFrames \in Nat /\ frames \in 0..MaxFrames /\ Sent \subseteq Requests /\ NoLane \notin Lanes
           /\ Requests \subseteq Records /\ 0 \in Records /\ \A r \in Requests : r # 0 /\ -r \in Records
  BY FramesAssumption, LanesAssumption DEF Types, FlagType, Sent, Requests, Records, NoLane

(* Frames stay what they are while the histories grow.                      *)
LEMMA FramesKept ==
    ASSUME Types, frames' \in Int, frames <= frames', erring \subseteq erring', cancelled \subseteq cancelled',
           \A r \in Sent : laneOf'[r] = laneOf[r]
    PROVE  /\ Sent \subseteq Sent'
           /\ \A f : Incoming(f) => Incoming(f)'
           /\ \A f : Outgoing(f) => Outgoing(f)'
  <1>1. Sent \subseteq Sent'
    BY Constants DEF Sent
  <1>2. ASSUME NEW f, Incoming(f) PROVE Incoming(f)'
    BY <1>1, <1>2 DEF Incoming
  <1>3. ASSUME NEW f, Outgoing(f) PROVE Outgoing(f)'
    BY <1>1, <1>3 DEF Outgoing
  <1> QED BY <1>1, <1>2, <1>3

(* What the server sends is well formed.                                    *)
LEMMA SendFacts ==
    ASSUME Types, NEW t, NEW id, NEW lane, NEW ans, Send(t, id, lane, ans), serverFrame,
           t \in {"created", "ended", "error", "other"}, id \in Sent \cup {0}, ans \in Sent \cup {0},
           t # "other" => lane \in Lanes, t = "other" => lane = NoLane /\ ans = 0,
           t \in {"created", "ended"} => id # 0 /\ ans \in {0, id} /\ laneOf[id] = lane,
           t = "created" => ans = 0,
           t = "error" => IF ans = 0 THEN lane \in cancelled ELSE laneOf[ans] = lane
    PROVE  /\ down' \in Seq(Frame) /\ \A k \in 1..Len(down') : Incoming(down[k])'
           /\ inFrame' # NoFrame => Incoming(inFrame)'
           /\ erring \subseteq erring' /\ erring' \subseteq Lanes
           /\ Len(down) \in Nat /\ Len(down') = Len(down) + 1
           /\ \A k \in 1..Len(down) : down'[k] = down[k]
           /\ LET f == down'[Len(down) + 1]
              IN  f.t = t /\ f.id = id /\ f.lane = lane /\ f.ans = ans
  <1> DEFINE f == [t |-> t, id |-> id, lane |-> lane, ans |-> ans]
  <1>1. Sent \subseteq 0..MaxFrames /\ 0 \in 0..MaxFrames
    BY Constants DEF Sent
  <1>2. f \in Frame
    BY <1>1 DEF Frame
  <1>3. /\ down' = Append(down, f) /\ frames' = frames /\ laneOf' = laneOf /\ cancelled' = cancelled
        /\ inFrame' = inFrame /\ erring' = IF t = "error" THEN erring \cup {lane} ELSE erring
    BY DEF Send, serverFrame, taskVars
  <1>4. down \in Seq(Frame) /\ \A k \in 1..Len(down) : Incoming(down[k])
    BY DEF Types, FrameType
  <1>5. erring \subseteq erring' /\ erring' \subseteq Lanes
    BY <1>3 DEF Types, ActivityType
  <1>6. \A g : Incoming(g) => Incoming(g)'
    BY <1>3, <1>5, Constants, FramesKept
  <1>7. f.t = t /\ f.id = id /\ f.lane = lane /\ f.ans = ans
    OBVIOUS
  <1> HIDE DEF f
  <1>8. Incoming(f)'
    BY <1>3, <1>7 DEF Incoming, Sent
  <1>9. /\ Append(down, f) \in Seq(Frame) /\ Len(down) \in Nat /\ Len(Append(down, f)) = Len(down) + 1
        /\ \A k \in 1..Len(down) : Append(down, f)[k] = down[k]
        /\ Append(down, f)[Len(down) + 1] = f
    BY <1>2, <1>4, AppendFacts
  <1>10. \A k \in 1..Len(down') : down'[k] = f \/ (k \in 1..Len(down) /\ down'[k] = down[k])
    BY <1>3, <1>9
  <1>11. \A k \in 1..Len(down') : Incoming(down[k])'
    BY <1>4, <1>6, <1>8, <1>10
  <1>12. inFrame' # NoFrame => Incoming(inFrame)'
    BY <1>3, <1>6 DEF Types, FrameType
  <1> QED BY <1>3, <1>5, <1>7, <1>9, <1>11, <1>12

(* What the Tracker does with a frame: it fails the oldest request of the   *)
(* lane, does nothing, or writes a record.                                  *)
Fails(f) ==
    /\ f.t = "error" /\ tPending[f.lane] # <<>>
    /\ saved' = [saved EXCEPT ![Head(tPending[f.lane])] = "failed"]
    /\ tPending' = [tPending EXCEPT ![f.lane] = Tail(tPending[f.lane])]
    /\ UNCHANGED <<tActive, tCompleted>>
Ignores(f) ==
    /\ \/ f.t = "error" /\ tPending[f.lane] = <<>>
       \/ f.t = "other"
       \/ f.t \in {"created", "ended"} /\ tCompleted[f.id] # 0
    /\ UNCHANGED trackerVars
Writes(f, rec) ==
    /\ f.t \in {"created", "ended"} /\ tCompleted[f.id] = 0
    /\ \/ tActive[f.id] # 0 /\ rec = tActive[f.id] /\ tPending' = tPending
       \/ /\ tActive[f.id] = 0 /\ tPending[f.lane] # <<>> /\ rec = Head(tPending[f.lane])
          /\ tPending' = [tPending EXCEPT ![f.lane] = Tail(tPending[f.lane])]
       \/ tActive[f.id] = 0 /\ tPending[f.lane] = <<>> /\ rec = -f.id /\ tPending' = tPending
    /\ tActive' = [tActive EXCEPT ![f.id] = IF f.t = "ended" THEN 0 ELSE rec]
    /\ tCompleted' = IF f.t = "ended" THEN [tCompleted EXCEPT ![f.id] = rec] ELSE tCompleted
    /\ saved' = [saved EXCEPT ![rec] = f.t]

(* These are the cases of response().                                       *)
LEMMA ResponseCases ==
    ASSUME Types, NEW f, Incoming(f), response(f)
    PROVE  Fails(f) \/ Ignores(f) \/ \E rec \in Records \ {0} : Writes(f, rec)
  <1>1. f.t \in {"created", "ended", "error", "other"}
    BY DEF Incoming
  <1>2. CASE f.t = "error"
    <2>1. CASE tPending[f.lane] # <<>>
      BY <1>2, <2>1 DEF response, Fails
    <2>2. CASE tPending[f.lane] = <<>>
      BY <1>2, <2>2 DEF response, Ignores, trackerVars
    <2> QED BY <2>1, <2>2
  <1>3. CASE f.t = "other"
    BY <1>3 DEF response, Ignores
  <1>4. CASE f.t \in {"created", "ended"} /\ tCompleted[f.id] # 0
    BY <1>4 DEF response, replayed, Ignores
  <1>5. CASE f.t \in {"created", "ended"} /\ tCompleted[f.id] = 0
    <2> DEFINE rec == recordOf(f.id, f.lane)
    <2>1. /\ f.t # "error" /\ f.t # "other"
          /\ tPending' = IF tActive[f.id] = 0 /\ tPending[f.lane] # <<>>
                         THEN [tPending EXCEPT ![f.lane] = Tail(tPending[f.lane])] ELSE tPending
          /\ tActive' = [tActive EXCEPT ![f.id] = IF f.t = "ended" THEN 0 ELSE rec]
          /\ tCompleted' = IF f.t = "ended" THEN [tCompleted EXCEPT ![f.id] = rec] ELSE tCompleted
          /\ saved' = [saved EXCEPT ![rec] = f.t]
      BY <1>5 DEF response, replayed
    <2>2. f.id \in Sent /\ f.lane \in Lanes
      BY <1>5 DEF Incoming
    <2>3. f.id \in Requests /\ tActive[f.id] \in Records /\ tPending[f.lane] \in Seq(Sent)
      BY <2>2, Constants DEF Types, TrackerType
    <2>4. CASE tActive[f.id] # 0
      <3>1. rec = tActive[f.id] /\ rec \in Records \ {0}
        BY <2>3, <2>4 DEF recordOf
      <3> HIDE DEF rec
      <3>2. Writes(f, rec)
        BY <1>5, <2>1, <2>4, <3>1 DEF Writes
      <3> QED BY <3>1, <3>2
    <2>5. CASE tActive[f.id] = 0 /\ tPending[f.lane] # <<>>
      <3>1. rec = Head(tPending[f.lane])
        BY <2>5 DEF recordOf
      <3>2. rec \in Records \ {0}
        <4>1. Head(tPending[f.lane]) \in Sent
          BY <2>3, <2>5, TailFacts
        <4> QED BY <3>1, <4>1, Constants
      <3> HIDE DEF rec
      <3>3. Writes(f, rec)
        BY <1>5, <2>1, <2>5, <3>1 DEF Writes
      <3> QED BY <3>2, <3>3
    <2>6. CASE tActive[f.id] = 0 /\ tPending[f.lane] = <<>>
      <3>1. rec = -f.id
        BY <2>6 DEF recordOf
      <3>2. rec \in Records \ {0}
        BY <2>3, <3>1, Constants DEF Requests, Records
      <3> HIDE DEF rec
      <3>3. Writes(f, rec)
        BY <1>5, <2>1, <2>6, <3>1 DEF Writes
      <3> QED BY <3>2, <3>3
    <2> QED BY <2>4, <2>5, <2>6
  <1> QED BY <1>1, <1>2, <1>3, <1>4, <1>5

(* A response leaves the Tracker in its types, and its records settled or   *)
(* at work.                                                                 *)
LEMMA ResponseKeeps ==
    ASSUME Types, NEW f, Incoming(f), response(f), frames' = frames
    PROVE  TrackerType' /\ (OpenInv /\ open /\ open' => OpenInv')
  <1>1. /\ Sent' = Sent /\ tPending \in [Lanes -> Seq(Sent)]
        /\ tActive \in [Requests -> Records] /\ tCompleted \in [Requests -> Records]
        /\ saved \in [Records -> {"none", "pending", "created", "ended", "failed", "disconnected"}]
        /\ Sent \subseteq Requests /\ Requests \subseteq Records /\ 0 \in Records /\ \A r \in Requests : r # 0
    BY Constants DEF Types, TrackerType, Sent
  <1>2. CASE Fails(f)
    <2>1. f.lane \in Lanes
      BY <1>2 DEF Fails, Incoming
    <2> DEFINE s == tPending[f.lane]
    <2>2. s \in Seq(Sent) /\ s # <<>>
      BY <1>1, <1>2, <2>1 DEF Fails
    <2>3. /\ saved' = [saved EXCEPT ![Head(s)] = "failed"]
          /\ tPending' = [tPending EXCEPT ![f.lane] = Tail(s)]
          /\ tActive' = tActive /\ tCompleted' = tCompleted
      BY <1>2 DEF Fails
    <2>4. /\ Tail(s) \in Seq(Sent) /\ Len(s) \in Nat \ {0} /\ Len(Tail(s)) = Len(s) - 1
          /\ \A k \in 1..Len(Tail(s)) : Tail(s)[k] = s[k + 1]
          /\ Head(s) = s[1] /\ Head(s) \in Sent
      BY <2>2, TailFacts
    <2>5. s = tPending[f.lane]
      OBVIOUS
    <2> HIDE DEF s
    <2>6. tPending' \in [Lanes -> Seq(Sent)] /\ tPending'[f.lane] = Tail(s)
          /\ \A l \in Lanes : l # f.lane => tPending'[l] = tPending[l]
      BY <1>1, <2>1, <2>3, <2>4
    <2>7. TrackerType'
      BY <1>1, <2>3, <2>4, <2>6 DEF TrackerType, Records
    <2>8. ASSUME OpenInv, open, open', NEW x \in Records, saved'[x] \in {"pending", "created"}
          PROVE  open' /\ x # 0 /\ Unsettled(x)'
      <3>1. x # Head(s) /\ saved[x] \in {"pending", "created"}
        BY <1>1, <2>3, <2>4, <2>8
      <3>2. x # 0 /\ Unsettled(x)
        BY <2>8, <3>1 DEF OpenInv
      <3>3. ASSUME NEW l \in Lanes, NEW k \in 1..Len(tPending[l]), tPending[l][k] = x
            PROVE  \E m \in 1..Len(tPending'[l]) : tPending'[l][m] = x
        <4>1. CASE l = f.lane
          <5>1. k # 1 /\ k \in 1..Len(s) /\ s[k] = x
            BY <2>4, <2>5, <3>1, <3>3, <4>1
          <5>2. k - 1 \in 1..Len(Tail(s)) /\ Tail(s)[k - 1] = x
            <6>1. k - 1 \in 1..Len(Tail(s)) /\ (k - 1) + 1 = k
              BY <2>4, <5>1
            <6> QED BY <2>4, <5>1, <6>1
          <5> QED BY <2>6, <4>1, <5>2
        <4>2. CASE l # f.lane
          BY <2>6, <3>3, <4>2
        <4> QED BY <4>1, <4>2
      <3> QED BY <2>3, <2>8, <3>2, <3>3 DEF Unsettled
    <2> QED BY <2>7, <2>8 DEF OpenInv, Records
  <1>3. CASE Ignores(f)
    BY <1>1, <1>3 DEF Ignores, trackerVars, TrackerType, OpenInv, Unsettled, Records
  <1>4. ASSUME NEW rec \in Records \ {0}, Writes(f, rec)
        PROVE  TrackerType' /\ (OpenInv /\ open /\ open' => OpenInv')
    <2>1. f.lane \in Lanes /\ f.id \in Sent /\ f.id \in Requests
      BY <1>1, <1>4 DEF Writes, Incoming
    <2>2. /\ f.t \in {"created", "ended"}
          /\ tActive' = [tActive EXCEPT ![f.id] = IF f.t = "ended" THEN 0 ELSE rec]
          /\ tCompleted' = IF f.t = "ended" THEN [tCompleted EXCEPT ![f.id] = rec] ELSE tCompleted
          /\ saved' = [saved EXCEPT ![rec] = f.t]
      BY <1>4 DEF Writes
    <2>3. /\ tActive' \in [Requests -> Records] /\ tCompleted' \in [Requests -> Records]
          /\ saved' \in [Records -> {"none", "pending", "created", "ended", "failed", "disconnected"}]
      BY <1>1, <2>1, <2>2
    <2>4. CASE tPending' = tPending /\ (tActive[f.id] # 0 => rec = tActive[f.id])
      <3>1. TrackerType'
        BY <1>1, <2>3, <2>4 DEF TrackerType, Records
      <3>2. ASSUME OpenInv, open, open', NEW x \in Records, saved'[x] \in {"pending", "created"}
            PROVE  open' /\ x # 0 /\ Unsettled(x)'
        <4>1. CASE x = rec
          <5>1. f.t = "created"
            BY <1>1, <2>2, <3>2, <4>1
          <5> QED BY <1>1, <2>1, <2>2, <3>2, <4>1, <5>1 DEF Unsettled
        <4>2. CASE x # rec
          <5>1. saved[x] \in {"pending", "created"}
            BY <1>1, <2>2, <3>2, <4>2
          <5>2. x # 0 /\ Unsettled(x)
            BY <3>2, <5>1 DEF OpenInv
          <5>3. ASSUME NEW r \in Requests, tActive[r] = x PROVE tActive'[r] = x
            BY <1>1, <2>2, <2>4, <4>2, <5>2, <5>3
          <5> QED BY <2>4, <3>2, <5>2, <5>3 DEF Unsettled
        <4> QED BY <4>1, <4>2
      <3> QED BY <3>1, <3>2 DEF OpenInv, Records
    <2>5. CASE /\ tActive[f.id] = 0 /\ tPending[f.lane] # <<>> /\ rec = Head(tPending[f.lane])
               /\ tPending' = [tPending EXCEPT ![f.lane] = Tail(tPending[f.lane])]
      <3> DEFINE s == tPending[f.lane]
      <3>1. s \in Seq(Sent) /\ s # <<>> /\ rec = Head(s) /\ tPending' = [tPending EXCEPT ![f.lane] = Tail(s)]
        BY <1>1, <2>1, <2>5
      <3>2. /\ Tail(s) \in Seq(Sent) /\ Len(s) \in Nat \ {0} /\ Len(Tail(s)) = Len(s) - 1
            /\ \A k \in 1..Len(Tail(s)) : Tail(s)[k] = s[k + 1]
            /\ Head(s) = s[1]
        BY <3>1, TailFacts
      <3>3. s = tPending[f.lane]
        OBVIOUS
      <3> HIDE DEF s
      <3>4. tPending' \in [Lanes -> Seq(Sent)] /\ tPending'[f.lane] = Tail(s)
            /\ \A l \in Lanes : l # f.lane => tPending'[l] = tPending[l]
        BY <1>1, <2>1, <3>1, <3>2
      <3>5. TrackerType'
        BY <1>1, <2>3, <3>4 DEF TrackerType, Records
      <3>6. ASSUME OpenInv, open, open', NEW x \in Records, saved'[x] \in {"pending", "created"}
            PROVE  open' /\ x # 0 /\ Unsettled(x)'
        <4>1. CASE x = rec
          <5>1. f.t = "created"
            BY <1>1, <2>2, <3>6, <4>1
          <5> QED BY <1>1, <2>1, <2>2, <3>6, <4>1, <5>1 DEF Unsettled
        <4>2. CASE x # rec
          <5>1. saved[x] \in {"pending", "created"}
            BY <1>1, <2>2, <3>6, <4>2
          <5>2. x # 0 /\ Unsettled(x)
            BY <3>6, <5>1 DEF OpenInv
          <5>3. ASSUME NEW r \in Requests, tActive[r] = x PROVE tActive'[r] = x
            BY <1>1, <2>2, <2>5, <4>2, <5>2, <5>3
          <5>4. ASSUME NEW l \in Lanes, NEW k \in 1..Len(tPending[l]), tPending[l][k] = x
                PROVE  \E m \in 1..Len(tPending'[l]) : tPending'[l][m] = x
            <6>1. CASE l = f.lane
              <7>1. k # 1 /\ k \in 1..Len(s) /\ s[k] = x
                BY <3>1, <3>2, <3>3, <4>2, <5>4, <6>1
              <7>2. k - 1 \in 1..Len(Tail(s)) /\ (k - 1) + 1 = k
                BY <3>2, <7>1
              <7>3. Tail(s)[k - 1] = x
                BY <3>2, <7>1, <7>2
              <7> QED BY <3>4, <6>1, <7>2, <7>3
            <6>2. CASE l # f.lane
              BY <3>4, <5>4, <6>2
            <6> QED BY <6>1, <6>2
          <5> QED BY <3>6, <5>2, <5>3, <5>4 DEF Unsettled
        <4> QED BY <4>1, <4>2
      <3> QED BY <3>5, <3>6 DEF OpenInv, Records
    <2>6. \/ tActive[f.id] # 0 /\ rec = tActive[f.id] /\ tPending' = tPending
          \/ /\ tActive[f.id] = 0 /\ tPending[f.lane] # <<>> /\ rec = Head(tPending[f.lane])
             /\ tPending' = [tPending EXCEPT ![f.lane] = Tail(tPending[f.lane])]
          \/ tActive[f.id] = 0 /\ tPending[f.lane] = <<>> /\ rec = -f.id /\ tPending' = tPending
      BY <1>4 DEF Writes
    <2> QED BY <2>4, <2>5, <2>6
  <1> QED BY <1>2, <1>3, <1>4, ResponseCases

-----------------------------------------------------------------------------
(* What holds in every lane, ambiguous or not                               *)

Base == Types /\ ForwardInv /\ OpenInv /\ WireInv /\ EndInv

(* Steps that leave the Tracker and the open connection alone.              *)
LEMMA TrackerKept ==
    ASSUME Base, UNCHANGED <<trackerVars, frames, open>>
    PROVE  TrackerType' /\ OpenInv' /\ EndInv'
  <1>1. TrackerType'
    BY DEF Base, Types, TrackerType, trackerVars, Sent, Records
  <1>2. OpenInv' /\ EndInv'
    BY DEF Base, OpenInv, Unsettled, EndInv, trackerVars, Records
  <1> QED BY <1>1, <1>2

(* A client frame is sent on.                                               *)
LEMMA OutReadBase ==
    ASSUME Base, NEW kind \in {"create", "cancel", "other"}, NEW lane \in Lanes, OutRead(kind, lane)
    PROVE  Base'
  <1>0. PICK f : f = [t |-> kind, id |-> frames + 1, lane |-> lane, ans |-> 0]
    OBVIOUS
  <1>1. /\ open /\ outFrame = NoFrame /\ frames < MaxFrames /\ frames' = frames + 1
        /\ beginOut(f) /\ (IF kind = "create" THEN request(f.id, lane) ELSE UNCHANGED trackerVars)
        /\ wire' = Append(wire, f) /\ outFrame' = f
        /\ laneOf' = [laneOf EXCEPT ![f.id] = lane]
        /\ forwarded' = IF kind = "create" THEN forwarded \cup {f.id} ELSE forwarded
        /\ cancelled' = IF kind = "cancel" THEN cancelled \cup {lane} ELSE cancelled
        /\ UNCHANGED <<open, inFrame, down, queue, serving, answered, erring>>
    BY <1>0 DEF OutRead
  <1>2. f.t = kind /\ f.id = frames + 1 /\ f.lane = lane /\ f.ans = 0
    BY <1>0
  <1>3. /\ MaxFrames \in Nat /\ frames \in 0..MaxFrames /\ Sent \subseteq Requests
        /\ frames + 1 \in Requests /\ Sent' = Sent \cup {frames + 1} /\ frames + 1 \notin Sent
        /\ Sent' \subseteq Requests /\ Requests \subseteq Records
    BY <1>1, Constants DEF Base, Sent, Requests
  <1>4. f \in Frame /\ f # NoFrame
    BY <1>0, <1>2, <1>3 DEF Frame, NoFrame, Requests
  <1>5. /\ closing' = closing /\ forwarding' = forwarding + 1 /\ active' = active /\ completed' = completed
        /\ pending' = IF kind = "create" THEN [pending EXCEPT ![lane] = pending[lane] + 1] ELSE pending
        /\ cancelling' = IF kind = "cancel" THEN cancelling \cup {lane} ELSE cancelling
        /\ unknown' = (unknown \/ kind = "other")
    BY <1>1, <1>2 DEF beginOut
  <1>6. FlagType'
    BY <1>1, <1>3, <1>5 DEF Base, Types, FlagType
  <1>7. ActivityType'
    BY <1>1, <1>2, <1>3, <1>5 DEF Base, Types, ActivityType
  <1>8. \A r \in Sent : laneOf'[r] = laneOf[r]
    BY <1>1, <1>2, <1>3 DEF Base, Types, ActivityType
  <1>9. (\A g : Incoming(g) => Incoming(g)') /\ (\A g : Outgoing(g) => Outgoing(g)')
    BY <1>1, <1>3, <1>8, FramesKept DEF Base
  <1>10. wire' \in Seq(Frame) /\ Len(wire') = Len(wire) + 1 /\ Len(wire) \in Nat
         /\ (\A k \in 1..Len(wire) : wire'[k] = wire[k]) /\ wire'[Len(wire) + 1] = f
    BY <1>1, <1>4, AppendFacts DEF Base, Types, FrameType
  <1>11. Outgoing(f)'
    <2>1. laneOf'[frames + 1] = lane
      BY <1>1, <1>2, <1>3 DEF Base, Types, ActivityType
    <2> QED BY <1>1, <1>2, <1>3, <2>1 DEF Outgoing
  <1>12. FrameType' /\ ServerType'
    <2>1. \A k \in 1..Len(wire') : wire'[k] = f \/ (k \in 1..Len(wire) /\ wire'[k] = wire[k])
      BY <1>10
    <2>2. \A k \in 1..Len(wire') : Outgoing(wire[k])'
      BY <1>9, <1>11, <2>1 DEF Base, Types, FrameType
    <2>3. down' \in Seq(Frame) /\ (\A k \in 1..Len(down') : Incoming(down[k])')
          /\ (inFrame' # NoFrame => Incoming(inFrame)')
      BY <1>1, <1>9 DEF Base, Types, FrameType
    <2>4. ServerType'
      <3>1. Seq(Sent) \subseteq Seq(Sent')
        BY <1>3
      <3>2. queue' \in [Lanes -> Seq(Sent')] /\ serving' \in [Lanes -> Sent' \cup {0}]
        BY <1>1, <1>3, <3>1 DEF Base, Types, ServerType
      <3>3. ASSUME NEW l \in Lanes
            PROVE  (\A k \in 1..Len(queue[l]) : laneOf'[queue[l][k]] = l)
                   /\ (serving[l] # 0 => laneOf'[serving[l]] = l)
        <4>1. queue[l] \in Seq(Sent) /\ serving[l] \in Sent \cup {0}
          BY DEF Base, Types, ServerType
        <4>2. \A k \in 1..Len(queue[l]) : queue[l][k] \in Sent
          BY <4>1, ElementOfSeq
        <4>3. (\A k \in 1..Len(queue[l]) : laneOf[queue[l][k]] = l) /\ (serving[l] # 0 => laneOf[serving[l]] = l)
          BY Zenon DEF Base, Types, ServerType
        <4> QED BY <1>8, <4>1, <4>2, <4>3
      <3> QED BY <1>1, <3>2, <3>3 DEF ServerType
    <2>5. outFrame' \in Frame /\ inFrame' \in Frame
      BY <1>1, <1>4 DEF Base, Types, FrameType
    <2> QED BY <1>10, <2>2, <2>3, <2>4, <2>5 DEF FrameType
  <1>13. TrackerType' /\ OpenInv'
    <2>1. Seq(Sent) \subseteq Seq(Sent')
      BY <1>3
    <2>2. /\ tPending \in [Lanes -> Seq(Sent)] /\ tPending \in [Lanes -> Seq(Sent')]
          /\ tActive \in [Requests -> Records] /\ tCompleted \in [Requests -> Records]
          /\ saved \in [Records -> {"none", "pending", "created", "ended", "failed", "disconnected"}]
          /\ Records' = Records
      BY <2>1 DEF Base, Types, TrackerType, Records
    <2>3. CASE kind = "create"
      <3>1. /\ tPending' = [tPending EXCEPT ![lane] = Append(tPending[lane], frames + 1)]
            /\ saved' = [saved EXCEPT ![frames + 1] = "pending"] /\ tActive' = tActive /\ tCompleted' = tCompleted
        BY <1>1, <1>2, <2>3 DEF request
      <3> DEFINE s == tPending[lane]
      <3>2. s \in Seq(Sent')
        BY <2>2
      <3>3. tPending' = [tPending EXCEPT ![lane] = Append(s, frames + 1)] /\ s = tPending[lane]
        BY <3>1
      <3> HIDE DEF s
      <3>4. /\ Append(s, frames + 1) \in Seq(Sent') /\ Len(s) \in Nat /\ Len(Append(s, frames + 1)) = Len(s) + 1
            /\ \A k \in 1..Len(s) : Append(s, frames + 1)[k] = s[k]
            /\ Append(s, frames + 1)[Len(s) + 1] = frames + 1
        BY <1>3, <3>2, AppendFacts
      <3>5. /\ tPending' \in [Lanes -> Seq(Sent')] /\ tPending'[lane] = Append(s, frames + 1)
            /\ \A l \in Lanes : l # lane => tPending'[l] = tPending[l]
        BY <2>2, <3>3, <3>4
      <3>6. TrackerType'
        BY <1>3, <2>2, <3>1, <3>5 DEF TrackerType
      <3>7. ASSUME NEW x \in Records, saved'[x] \in {"pending", "created"}
            PROVE  open' /\ x # 0 /\ Unsettled(x)'
        <4>1. CASE x = frames + 1
          <5>1. Len(s) + 1 \in 1..Len(tPending'[lane]) /\ tPending'[lane][Len(s) + 1] = x
            BY <3>4, <3>5, <4>1
          <5> QED BY <1>1, <1>3, <4>1, <5>1 DEF Unsettled
        <4>2. CASE x # frames + 1
          <5>1. x # 0 /\ Unsettled(x)
            BY <2>2, <3>1, <3>7, <4>2 DEF Base, OpenInv
          <5>2. ASSUME NEW l \in Lanes, NEW k \in 1..Len(tPending[l]), tPending[l][k] = x
                PROVE  k \in 1..Len(tPending'[l]) /\ tPending'[l][k] = x
            <6>1. CASE l = lane
              BY <3>3, <3>4, <3>5, <5>2, <6>1
            <6>2. CASE l # lane
              BY <3>5, <5>2, <6>2
            <6> QED BY <6>1, <6>2
          <5> QED BY <1>1, <3>1, <5>1, <5>2 DEF Unsettled
        <4> QED BY <4>1, <4>2
      <3> QED BY <2>2, <3>6, <3>7 DEF OpenInv
    <2>4. CASE kind # "create"
      BY <1>1, <2>2, <2>4 DEF trackerVars, TrackerType, Base, OpenInv, Unsettled
    <2> QED BY <2>3, <2>4
  <1>14. ForwardInv'
    BY <1>1, <1>4, <1>5 DEF Base, ForwardInv, Types, FlagType
  <1>15. WireInv'
    <2>1. \A k \in 1..Len(wire) : wire[k].id < frames + 1 /\ wire[k].id \in Int
      BY <1>3 DEF Base, Types, FrameType, Outgoing, Sent
    <2> QED BY <1>2, <1>10, <2>1 DEF Base, WireInv
  <1>16. EndInv'
    BY <1>1 DEF EndInv
  <1> QED BY <1>6, <1>7, <1>12, <1>13, <1>14, <1>15, <1>16 DEF Base, Types

(* reap, wherever it is called, and the start of a drain.                   *)
LEMMA QuietBase ==
    ASSUME Base, OutDone \/ Reap \/ StartDrain \/ UNCHANGED vars
    PROVE  Base'
  <1>1. /\ UNCHANGED <<open, unknown, pending, active, completed, cancelling, trackerVars, inFrame, wire, down,
                       queue, serving, frames, laneOf, forwarded, answered, cancelled, erring>>
        /\ closing' \in {closing, TRUE}
        /\ \/ outFrame' = outFrame /\ forwarding' = forwarding
           \/ outFrame # NoFrame /\ outFrame' = NoFrame /\ forwarding' = forwarding - 1
    BY DEF OutDone, reaped, Reap, StartDrain, vars, activityVars, taskVars, serverVars, boundVars, histVars
  <1>2. TrackerType' /\ OpenInv' /\ EndInv'
    BY <1>1, TrackerKept
  <1>3. FlagType' /\ ActivityType'
    <2>1. closing' \in BOOLEAN
      BY <1>1 DEF Base, Types, FlagType
    <2>2. forwarding' \in Int
      BY <1>1 DEF Base, Types, FlagType
    <2>3. ActivityType'
      BY <1>1 DEF Base, Types, ActivityType, Sent
    <2> QED BY <1>1, <2>1, <2>2, <2>3 DEF Base, Types, FlagType
  <1>4. NoFrame \in Frame
    BY Constants DEF Base, Frame, NoFrame
  <1>5. FrameType' /\ ServerType'
    <2>1. FrameType'
      BY <1>1, <1>4 DEF Base, Types, FrameType, Incoming, Outgoing, Sent
    <2>2. ServerType'
      BY <1>1 DEF Base, Types, ServerType, Sent
    <2> QED BY <2>1, <2>2
  <1>6. ForwardInv'
    BY <1>1 DEF Base, ForwardInv, Types, FlagType
  <1>7. WireInv'
    BY <1>1 DEF Base, WireInv
  <1> QED BY <1>2, <1>3, <1>5, <1>6, <1>7 DEF Base, Types

(* A server frame is recorded and sent on.                                  *)
LEMMA InReadBase ==
    ASSUME Base, InRead
    PROVE  Base'
  <1>1. PICK f : f = Head(down)
    OBVIOUS
  <1>2. /\ open /\ inFrame = NoFrame /\ down # <<>> /\ forwarding' = forwarding + 1
        /\ response(f) /\ inFrame' = f /\ down' = Tail(down)
        /\ UNCHANGED <<open, closing, unknown, pending, active, completed, cancelling, outFrame, wire,
                       queue, serving, frames, laneOf, forwarded, answered, cancelled, erring>>
    BY <1>1 DEF InRead, boundVars, histVars
  <1>3. /\ down' \in Seq(Frame) /\ Len(down) \in Nat \ {0} /\ Len(down') = Len(down) - 1
        /\ (\A k \in 1..Len(down') : down'[k] = down[k + 1]) /\ f = down[1] /\ f \in Frame
    BY <1>1, <1>2, TailFacts DEF Base, Types, FrameType
  <1>4. \A k \in 1..Len(down') : k + 1 \in 1..Len(down)
    BY <1>3
  <1>5. Incoming(f) /\ \A k \in 1..Len(down') : Incoming(down'[k])
    <2>1. \A k \in 1..Len(down) : Incoming(down[k])
      BY DEF Base, Types, FrameType
    <2>2. 1 \in 1..Len(down)
      BY <1>3
    <2> QED BY <1>3, <1>4, <2>1, <2>2
  <1>6. FlagType' /\ ActivityType'
    <2>1. forwarding' \in Int
      BY <1>2 DEF Base, Types, FlagType
    <2>2. ActivityType'
      BY <1>2 DEF Base, Types, ActivityType, Sent
    <2> QED BY <1>2, <2>1, <2>2 DEF Base, Types, FlagType
  <1>7. FrameType' /\ ServerType'
    <2>1. FrameType'
      BY <1>2, <1>3, <1>5 DEF Base, Types, FrameType, Incoming, Outgoing, Sent
    <2>2. ServerType'
      BY <1>2 DEF Base, Types, ServerType, Sent
    <2> QED BY <2>1, <2>2
  <1>8. TrackerType' /\ OpenInv'
    BY <1>2, <1>5, ResponseKeeps DEF Base
  <1>9. f # NoFrame
    BY <1>5 DEF Incoming, NoFrame
  <1>10. ForwardInv'
    BY <1>2, <1>9 DEF Base, ForwardInv, Types, FlagType
  <1>11. WireInv' /\ EndInv'
    BY <1>2 DEF Base, WireInv, EndInv
  <1> QED BY <1>6, <1>7, <1>8, <1>10, <1>11 DEF Base, Types

(* What Activity makes of a frame the client has.                           *)
Live(f) == f.t \in {"created", "ended"} /\ f.id \notin completed
Popped(f) ==
    \/ f.t = "error" /\ settlesRequest(f.lane)
    \/ Live(f) /\ isNew(f.id) /\ pending[f.lane] > 0
LEMMA DeliveredFacts ==
    ASSUME Types, NEW f, Incoming(f), deliveredIn(f), UNCHANGED <<frames, laneOf, cancelled>>
    PROVE  /\ forwarding' = forwarding - 1
           /\ pending' = IF Popped(f) THEN [pending EXCEPT ![f.lane] = pending[f.lane] - 1] ELSE pending
           /\ pending' \in [Lanes -> Nat]
           /\ completed' = IF Live(f) /\ f.t = "ended" THEN completed \cup {f.id} ELSE completed
           /\ cancelling' \subseteq cancelling
           /\ unknown' = (unknown \/ f.t = "other" \/ (f.t = "error" /\ unclassifiedError(f.lane)))
           /\ unknown' \in BOOLEAN
           /\ active' \in [Requests -> Lanes \cup {NoLane}]
           /\ \A r \in Requests : ~(Live(f) /\ r = f.id) => active'[r] = active[r]
           /\ Live(f) => active'[f.id] = IF f.t = "ended" THEN NoLane
                                         ELSE IF active[f.id] = NoLane THEN f.lane ELSE active[f.id]
  <1> DEFINE lane == IF isNew(f.id) THEN f.lane ELSE active[f.id]
  <1>1. /\ forwarding' = forwarding - 1
        /\ pending' = IF Popped(f) THEN [pending EXCEPT ![f.lane] = pending[f.lane] - 1] ELSE pending
        /\ active' = IF Live(f) THEN [active EXCEPT ![f.id] = IF f.t = "ended" THEN NoLane ELSE lane]
                     ELSE active
        /\ completed' = IF Live(f) /\ f.t = "ended" THEN completed \cup {f.id} ELSE completed
        /\ cancelling' = IF Live(f) /\ f.t = "ended" THEN cancelling \ {lane} ELSE cancelling
        /\ unknown' = (unknown \/ f.t = "other" \/ (f.t = "error" /\ unclassifiedError(f.lane)))
    BY DEF deliveredIn, Popped, Live
  <1>2. /\ pending \in [Lanes -> Nat] /\ active \in [Requests -> Lanes \cup {NoLane}] /\ Sent \subseteq Requests
        /\ unknown \in BOOLEAN
    BY Constants DEF Types, ActivityType, FlagType
  <1>3. pending' \in [Lanes -> Nat]
    <2>1. CASE Popped(f)
      <3>1. f.lane \in Lanes
        BY <2>1 DEF Popped, Live, Incoming
      <3>2. pending[f.lane] - 1 \in Nat
        BY <1>2, <2>1, <3>1 DEF Popped, settlesRequest
      <3> QED BY <1>1, <1>2, <2>1, <3>1, <3>2
    <2>2. CASE ~Popped(f)
      BY <1>1, <1>2, <2>2
    <2> QED BY <2>1, <2>2
  <1>4. cancelling' \subseteq cancelling
    BY <1>1
  <1>5. /\ active' \in [Requests -> Lanes \cup {NoLane}]
        /\ \A r \in Requests : ~(Live(f) /\ r = f.id) => active'[r] = active[r]
        /\ Live(f) => active'[f.id] = IF f.t = "ended" THEN NoLane
                                      ELSE IF active[f.id] = NoLane THEN f.lane ELSE active[f.id]
    <2>1. CASE Live(f)
      <3>1. f.id \in Requests /\ f.lane \in Lanes /\ f.id \notin completed
        BY <1>2, <2>1 DEF Live, Incoming
      <3>2. lane = IF active[f.id] = NoLane THEN f.lane ELSE active[f.id]
        BY <3>1 DEF isNew
      <3>3. lane \in Lanes \cup {NoLane}
        BY <1>2, <3>1, <3>2
      <3>4. active' = [active EXCEPT ![f.id] = IF f.t = "ended" THEN NoLane ELSE lane]
        BY <1>1, <2>1
      <3> HIDE DEF lane
      <3> QED BY <1>2, <2>1, <3>1, <3>2, <3>3, <3>4
    <2>2. CASE ~Live(f)
      BY <1>1, <1>2, <2>2
    <2> QED BY <2>1, <2>2
  <1>6. unknown' \in BOOLEAN
    BY <1>1, <1>2 DEF unclassifiedError
  <1> QED BY <1>1, <1>3, <1>4, <1>5, <1>6

(* The client has a server frame.                                           *)
LEMMA InDoneBase ==
    ASSUME Base, InDone
    PROVE  Base'
  <1>1. PICK f : f = inFrame
    OBVIOUS
  <1>2. /\ open /\ f # NoFrame /\ inFrame' = NoFrame /\ deliveredIn(f)
        /\ closing' \in {closing, TRUE} /\ answered' = answered \cup ({f.ans} \ {0})
        /\ UNCHANGED <<open, trackerVars, outFrame, wire, down, queue, serving, frames, laneOf,
                       forwarded, cancelled, erring>>
    BY <1>1 DEF InDone, reaped, serverVars, boundVars
  <1>3. Incoming(f)
    BY <1>1, <1>2 DEF Base, Types, FrameType
  <1>4. /\ forwarding' = forwarding - 1 /\ pending' \in [Lanes -> Nat]
        /\ completed' \subseteq completed \cup (IF Live(f) THEN {f.id} ELSE {})
        /\ cancelling' \subseteq cancelling /\ unknown' \in BOOLEAN
        /\ active' \in [Requests -> Lanes \cup {NoLane}]
    BY <1>2, <1>3, DeliveredFacts DEF Base
  <1>5. FlagType'
    <2>1. closing' \in BOOLEAN
      BY <1>2 DEF Base, Types, FlagType
    <2>2. forwarding' \in Int
      BY <1>4 DEF Base, Types, FlagType
    <2> QED BY <1>2, <1>4, <2>1, <2>2 DEF Base, Types, FlagType
  <1>6. ActivityType'
    <2>1. f.ans \in Sent \cup {0} /\ (Live(f) => f.id \in Sent)
      BY <1>3 DEF Incoming, Live
    <2>2. completed' \subseteq Sent /\ answered' \subseteq Sent /\ cancelling' \subseteq cancelled
      BY <1>2, <1>4, <2>1 DEF Base, Types, ActivityType
    <2> QED BY <1>2, <1>4, <2>2 DEF Base, Types, ActivityType, Sent
  <1>7. NoFrame \in Frame
    BY Constants DEF Base, Frame, NoFrame
  <1>8. FrameType' /\ ServerType'
    <2>1. FrameType'
      BY <1>2, <1>7 DEF Base, Types, FrameType, Incoming, Outgoing, Sent
    <2>2. ServerType'
      BY <1>2 DEF Base, Types, ServerType, Sent
    <2> QED BY <2>1, <2>2
  <1>9. TrackerType' /\ OpenInv' /\ EndInv'
    BY <1>2, TrackerKept
  <1>10. ForwardInv'
    BY <1>1, <1>2, <1>4 DEF Base, ForwardInv, Types, FlagType
  <1>11. WireInv'
    BY <1>2 DEF Base, WireInv
  <1> QED BY <1>5, <1>6, <1>8, <1>9, <1>10, <1>11 DEF Base, Types

(* The handler ends: nothing it recorded stays open.                        *)
LEMMA CloseBase ==
    ASSUME Base, Close
    PROVE  Base'
  <1>1. /\ open /\ ~open' /\ finish /\ completed' = {} /\ outFrame' = NoFrame /\ inFrame' = NoFrame
        /\ UNCHANGED <<closing, unknown, forwarding, pending, active, cancelling, wire, down, queue, serving,
                       frames, laneOf, forwarded, answered, cancelled, erring>>
    BY DEF Close, serverVars, boundVars, histVars
  <1>2. /\ MaxFrames \in Nat /\ 0 \in Records /\ \A r \in Sent : r # 0
    BY Constants DEF Base, Sent
  <1> DEFINE unsettled == (Range(tActive) \ {0}) \cup UNION {Range(tPending[l]) : l \in Lanes}
  <1>3. /\ saved' = [r \in DOMAIN saved |-> IF r \in unsettled THEN "disconnected" ELSE saved[r]]
        /\ tPending' = [l \in Lanes |-> <<>>]
        /\ tActive' = [r \in Requests |-> 0] /\ tCompleted' = [r \in Requests |-> 0]
    BY <1>1 DEF finish
  <1>4. DOMAIN saved = Records /\ saved \in [Records -> {"none", "pending", "created", "ended", "failed",
                                                         "disconnected"}]
    BY DEF Base, Types, TrackerType
  <1>5. ASSUME NEW x \in Records, saved[x] \in {"pending", "created"} PROVE x \in unsettled
    <2>1. x # 0 /\ Unsettled(x)
      BY <1>5 DEF Base, OpenInv
    <2>2. CASE \E r \in Requests : tActive[r] = x
      <3>1. DOMAIN tActive = Requests
        BY DEF Base, Types, TrackerType
      <3> QED BY <2>1, <2>2, <3>1 DEF Range
    <2>3. CASE \E l \in Lanes : \E k \in 1..Len(tPending[l]) : tPending[l][k] = x
      <3>1. PICK l \in Lanes : \E k \in 1..Len(tPending[l]) : tPending[l][k] = x
        BY <2>3
      <3>2. tPending[l] \in Seq(Sent)
        BY DEF Base, Types, TrackerType
      <3>3. DOMAIN tPending[l] = 1..Len(tPending[l])
        BY <3>2, LenProperties
      <3>4. x \in Range(tPending[l])
        BY <3>1, <3>3 DEF Range
      <3> QED BY <3>4
    <2> QED BY <2>1, <2>2, <2>3 DEF Unsettled
  <1> HIDE DEF unsettled
  <1>6. \A x \in Records : saved'[x] \notin {"pending", "created"}
    BY <1>3, <1>4, <1>5
  <1>7. TrackerType'
    <2>1. <<>> \in Seq(Sent)
      BY EmptySeq
    <2> QED BY <1>1, <1>2, <1>3, <1>4, <2>1 DEF TrackerType, Sent, Records
  <1>8. OpenInv'
    BY <1>1, <1>6 DEF OpenInv, Records
  <1>9. FlagType' /\ ActivityType'
    <2>1. ActivityType'
      BY <1>1 DEF Base, Types, ActivityType, Sent
    <2>2. open' \in BOOLEAN
      BY DEF Close
    <2> QED BY <1>1, <2>1, <2>2 DEF Base, Types, FlagType
  <1>10. NoFrame \in Frame
    BY <1>2 DEF Frame, NoFrame
  <1>11. FrameType' /\ ServerType'
    <2>1. FrameType'
      BY <1>1, <1>10 DEF Base, Types, FrameType, Incoming, Outgoing, Sent
    <2>2. ServerType'
      BY <1>1 DEF Base, Types, ServerType, Sent
    <2> QED BY <2>1, <2>2
  <1>12. ForwardInv' /\ WireInv' /\ EndInv'
    BY <1>1, <1>3 DEF Base, ForwardInv, WireInv, EndInv
  <1> QED BY <1>7, <1>8, <1>9, <1>11, <1>12 DEF Base, Types


(* What is left of a line keeps its lanes.                                  *)
LEMMA LineKept ==
    ASSUME ServerType, frames' = frames, laneOf' = laneOf,
           \/ queue' = queue
           \/ \E l \in Lanes : queue[l] # <<>> /\ queue' = [queue EXCEPT ![l] = Tail(queue[l])]
           \/ \E l \in Lanes, r \in Sent : laneOf[r] = l /\ queue' = [queue EXCEPT ![l] = Append(queue[l], r)],
           \/ serving' = serving
           \/ \E l \in Lanes, x \in Sent \cup {0} :
                  (x # 0 => laneOf[x] = l) /\ serving' = [serving EXCEPT ![l] = x]
    PROVE  ServerType'
  <1>1. Sent' = Sent
    BY DEF Sent
  <1>0. /\ queue \in [Lanes -> Seq(Sent)] /\ serving \in [Lanes -> Sent \cup {0}]
        /\ \A m \in Lanes : \A k \in 1..Len(queue[m]) : laneOf[queue[m][k]] = m
        /\ \A m \in Lanes : serving[m] # 0 => laneOf[serving[m]] = m
    BY DEF ServerType
  <1>2. /\ serving' \in [Lanes -> Sent \cup {0}]
        /\ \A l \in Lanes : serving'[l] # 0 => laneOf[serving'[l]] = l
    BY <1>0
  <1>3. /\ queue' \in [Lanes -> Seq(Sent)]
        /\ \A l \in Lanes : \A k \in 1..Len(queue'[l]) : laneOf[queue'[l][k]] = l
    <2>1. CASE queue' = queue
      BY <1>0, <2>1
    <2>2. CASE \E l \in Lanes : queue[l] # <<>> /\ queue' = [queue EXCEPT ![l] = Tail(queue[l])]
      <3>1. PICK l \in Lanes : queue[l] # <<>> /\ queue' = [queue EXCEPT ![l] = Tail(queue[l])]
        BY <2>2
      <3>2. PICK s \in Seq(Sent) : s = queue[l]
        BY DEF ServerType
      <3>3. /\ Tail(s) \in Seq(Sent) /\ Len(s) \in Nat \ {0} /\ Len(Tail(s)) = Len(s) - 1
            /\ \A k \in 1..Len(Tail(s)) : Tail(s)[k] = s[k + 1]
        BY <3>1, <3>2, TailFacts
      <3>4. \A k \in 1..Len(Tail(s)) : laneOf[Tail(s)[k]] = l
        <4>1. \A k \in 1..Len(s) : laneOf[s[k]] = l
          BY <1>0, <3>2, Zenon
        <4>2. \A k \in 1..Len(Tail(s)) : k + 1 \in 1..Len(s)
          BY <3>3
        <4> QED BY <3>3, <4>1, <4>2
      <3>5. queue' = [queue EXCEPT ![l] = Tail(s)]
        BY <3>1, <3>2
      <3>6. PICK w : w = Tail(s)
        OBVIOUS
      <3>7. queue' = [queue EXCEPT ![l] = w] /\ w \in Seq(Sent) /\ \A k \in 1..Len(w) : laneOf[w[k]] = l
        BY <3>3, <3>4, <3>5, <3>6
      <3>8. \A m \in Lanes : queue'[m] = IF m = l THEN w ELSE queue[m]
        BY <1>0, <3>7
      <3> QED BY <1>0, <3>7, <3>8
    <2>3. CASE \E l \in Lanes, r \in Sent :
                  laneOf[r] = l /\ queue' = [queue EXCEPT ![l] = Append(queue[l], r)]
      <3>1. PICK l \in Lanes, r \in Sent :
                  laneOf[r] = l /\ queue' = [queue EXCEPT ![l] = Append(queue[l], r)]
        BY <2>3
      <3>2. PICK s \in Seq(Sent) : s = queue[l]
        BY DEF ServerType
      <3>3. /\ Append(s, r) \in Seq(Sent) /\ Len(s) \in Nat /\ Len(Append(s, r)) = Len(s) + 1
            /\ \A k \in 1..Len(s) : Append(s, r)[k] = s[k]
            /\ Append(s, r)[Len(s) + 1] = r
        BY AppendFacts
      <3>4. \A k \in 1..Len(Append(s, r)) : laneOf[Append(s, r)[k]] = l
        <4>1. \A k \in 1..Len(s) : laneOf[s[k]] = l
          BY <1>0, <3>2, Zenon
        <4>2. \A k \in 1..Len(Append(s, r)) : k = Len(s) + 1 \/ k \in 1..Len(s)
          BY <3>3
        <4> QED BY <3>1, <3>3, <4>1, <4>2
      <3>5. PICK w : w = Append(s, r)
        OBVIOUS
      <3>6. queue' = [queue EXCEPT ![l] = w] /\ w \in Seq(Sent) /\ \A k \in 1..Len(w) : laneOf[w[k]] = l
        BY <3>1, <3>2, <3>3, <3>4, <3>5
      <3>7. \A m \in Lanes : queue'[m] = IF m = l THEN w ELSE queue[m]
        BY <1>0, <3>6
      <3> QED BY <1>0, <3>6, <3>7
    <2> QED BY <2>1, <2>2, <2>3
  <1> QED BY <1>1, <1>2, <1>3 DEF ServerType

(* A step of the server touches only the lines.                             *)
LEMMA ServerStep ==
    ASSUME Base, serverFrame, wire' = wire \/ (wire # <<>> /\ wire' = Tail(wire)), ServerType',
           down' \in Seq(Frame), \A k \in 1..Len(down') : Incoming(down[k])',
           inFrame' # NoFrame => Incoming(inFrame)', erring' \subseteq Lanes
    PROVE  Base'
  <1>1. UNCHANGED <<open, closing, unknown, forwarding, pending, active, completed, cancelling, trackerVars,
                    outFrame, inFrame, frames, laneOf, forwarded, answered, cancelled>>
    BY DEF serverFrame, activityVars, taskVars
  <1>2. TrackerType' /\ OpenInv' /\ EndInv'
    BY <1>1, TrackerKept
  <1>3. FlagType' /\ ActivityType' /\ ForwardInv'
    BY <1>1 DEF Base, Types, FlagType, ActivityType, ForwardInv, Sent
  <1>4. wire' \in Seq(Frame) /\ (\A k \in 1..Len(wire') : Outgoing(wire'[k])) /\ WireInv'
    <2>1. CASE wire' = wire
      BY <2>1 DEF Base, Types, FrameType, WireInv
    <2>2. CASE wire # <<>> /\ wire' = Tail(wire)
      <3>1. /\ wire' \in Seq(Frame) /\ Len(wire) \in Nat \ {0} /\ Len(wire') = Len(wire) - 1
            /\ (\A k \in 1..Len(wire') : wire'[k] = wire[k + 1])
        BY <2>2, TailFacts DEF Base, Types, FrameType
      <3>2. \A k \in 1..Len(wire') : k + 1 \in 1..Len(wire)
        BY <3>1
      <3>3. \A k \in 1..Len(wire) : Outgoing(wire[k])
        BY DEF Base, Types, FrameType
      <3>4. WireInv'
        <4>1. \A i, j \in 1..Len(wire') : i < j => i + 1 < j + 1
          BY <3>1
        <4> QED BY <3>1, <3>2, <4>1 DEF Base, WireInv
      <3> QED BY <3>1, <3>2, <3>3, <3>4
    <2> QED BY <2>1, <2>2
  <1>5. FrameType'
    BY <1>1, <1>4 DEF Base, Types, FrameType, Outgoing, Sent
  <1> QED BY <1>2, <1>3, <1>4, <1>5 DEF Base, Types


(* What the server takes from the wire.                                     *)
LEMMA ServerTakeBase ==
    ASSUME Base, ServerTake
    PROVE  Base'
  <1>1. PICK f : f = Head(wire)
    OBVIOUS
  <1>2. /\ wire # <<>> /\ wire' = Tail(wire) /\ serverFrame
        /\ queue' = IF f.t = "create" THEN [queue EXCEPT ![f.lane] = Append(queue[f.lane], f.id)] ELSE queue
        /\ IF f.t = "cancel"
           THEN IF serving[f.lane] # 0
                THEN /\ Send("ended", serving[f.lane], f.lane, serving[f.lane])
                     /\ serving' = [serving EXCEPT ![f.lane] = 0]
                ELSE Send("error", 0, f.lane, 0) /\ serving' = serving
           ELSE down' = down /\ serving' = serving /\ erring' = erring
    BY <1>1 DEF ServerTake
  <1>3. Outgoing(f)
    <2>1. Len(wire) \in Nat \ {0} /\ f = wire[1]
      BY <1>1, <1>2, TailFacts DEF Base, Types, FrameType
    <2>2. 1 \in 1..Len(wire)
      BY <2>1
    <2> QED BY <2>1, <2>2 DEF Base, Types, FrameType
  <1>4. f.lane \in Lanes /\ f.id \in Sent /\ laneOf[f.id] = f.lane /\ (f.t = "cancel" => f.lane \in cancelled)
    BY <1>3 DEF Outgoing
  <1>5. frames' = frames /\ laneOf' = laneOf
    BY <1>2 DEF serverFrame
  <1>6. ServerType'
    BY <1>2, <1>4, <1>5, LineKept DEF Base, Types
  <1>7. /\ down' \in Seq(Frame) /\ (\A k \in 1..Len(down') : Incoming(down[k])')
        /\ (inFrame' # NoFrame => Incoming(inFrame)') /\ erring' \subseteq Lanes
    <2>1. CASE f.t = "cancel" /\ serving[f.lane] # 0
      <3>1. PICK r : r = serving[f.lane]
        OBVIOUS
      <3>2. r \in Sent /\ r # 0 /\ laneOf[r] = f.lane
        BY <1>4, <2>1, <3>1 DEF Base, Types, ServerType
      <3>3. Send("ended", r, f.lane, r)
        BY <1>2, <2>1, <3>1
      <3> QED BY <1>2, <1>4, <3>2, <3>3, SendFacts DEF Base
    <2>2. CASE f.t = "cancel" /\ serving[f.lane] = 0
      BY <1>2, <1>4, <2>2, SendFacts DEF Base
    <2>3. CASE f.t # "cancel"
      <3>1. /\ down' = down /\ erring' = erring /\ cancelled' = cancelled /\ frames' = frames /\ laneOf' = laneOf
            /\ inFrame' = inFrame
        BY <1>2, <2>3 DEF serverFrame, taskVars
      <3> QED BY <3>1 DEF Base, Types, FrameType, ActivityType, Incoming, Sent
    <2> QED BY <2>1, <2>2, <2>3
  <1> QED BY <1>2, <1>6, <1>7, ServerStep

(* What it does for one lane.                                               *)
LEMMA ServerLaneBase ==
    ASSUME Base, NEW lane \in Lanes, ServerStart(lane) \/ ServerReject(lane) \/ ServerEnd(lane)
    PROVE  Base'
  <1>1. PICK s \in Seq(Sent) : s = queue[lane]
    BY DEF Base, Types, ServerType
  <1>2. PICK h : h = Head(s)
    OBVIOUS
  <1>3. ASSUME s # <<>> PROVE h \in Sent /\ h # 0 /\ laneOf[h] = lane
    <2>1. Len(s) \in Nat \ {0} /\ h = s[1] /\ \A k \in 1..Len(s) : s[k] \in Sent
      BY <1>2, <1>3, TailFacts
    <2>2. 1 \in 1..Len(s)
      BY <2>1
    <2>3. \A m \in Lanes : \A k \in 1..Len(queue[m]) : laneOf[queue[m][k]] = m
      BY DEF Base, Types, ServerType
    <2>4. laneOf[s[1]] = lane
      BY <1>1, <2>2, <2>3, Zenon
    <2> QED BY <2>1, <2>2, <2>4 DEF Sent
  <1>4. PICK r : r = serving[lane]
    OBVIOUS
  <1>5. r \in Sent \cup {0} /\ (r # 0 => laneOf[r] = lane)
    BY <1>4 DEF Base, Types, ServerType
  <1>6. \/ /\ Send("created", h, lane, 0) /\ serverFrame /\ s # <<>> /\ wire' = wire
           /\ queue' = [queue EXCEPT ![lane] = Tail(queue[lane])] /\ serving' = [serving EXCEPT ![lane] = h]
        \/ /\ Send("error", 0, lane, h) /\ serverFrame /\ s # <<>> /\ wire' = wire
           /\ queue' = [queue EXCEPT ![lane] = Tail(queue[lane])] /\ serving' = serving
        \/ /\ Send("ended", r, lane, r) /\ serverFrame /\ r # 0 /\ wire' = wire
           /\ queue' = queue /\ serving' = [serving EXCEPT ![lane] = 0]
    BY <1>1, <1>2, <1>4 DEF ServerStart, ServerReject, ServerEnd
  <1>7. frames' = frames /\ laneOf' = laneOf
    BY <1>6 DEF serverFrame
  <1>8. ServerType'
    BY <1>1, <1>3, <1>6, <1>7, LineKept DEF Base, Types
  <1>9. /\ down' \in Seq(Frame) /\ (\A k \in 1..Len(down') : Incoming(down[k])')
        /\ (inFrame' # NoFrame => Incoming(inFrame)') /\ erring' \subseteq Lanes
    <2>1. CASE Send("created", h, lane, 0) /\ s # <<>>
      BY <1>3, <1>6, <2>1, SendFacts DEF Base
    <2>2. CASE Send("error", 0, lane, h) /\ s # <<>>
      BY <1>3, <1>6, <2>2, SendFacts DEF Base
    <2>3. CASE Send("ended", r, lane, r) /\ r # 0
      BY <1>5, <1>6, <2>3, SendFacts DEF Base
    <2> QED BY <1>6, <2>1, <2>2, <2>3
  <1> QED BY <1>6, <1>8, <1>9, ServerStep

(* What nobody asked it for.                                                *)
LEMMA ServerExtraBase ==
    ASSUME Base, ServerNotice \/ \E r \in Requests : ServerReplay(r)
    PROVE  Base'
  <1>1. /\ serverFrame /\ wire' = wire /\ queue' = queue /\ serving' = serving
        /\ Send("other", 0, NoLane, 0) \/ \E r \in completed : Send("ended", r, laneOf[r], 0)
    BY DEF ServerNotice, ServerReplay
  <1>2. frames' = frames /\ laneOf' = laneOf
    BY <1>1 DEF serverFrame
  <1>3. ServerType'
    BY <1>1, <1>2, LineKept DEF Base, Types
  <1>4. /\ down' \in Seq(Frame) /\ (\A k \in 1..Len(down') : Incoming(down[k])')
        /\ (inFrame' # NoFrame => Incoming(inFrame)') /\ erring' \subseteq Lanes
    <2>1. CASE Send("other", 0, NoLane, 0)
      BY <1>1, <2>1, SendFacts DEF Base
    <2>2. CASE \E r \in completed : Send("ended", r, laneOf[r], 0)
      <3>1. PICK r \in completed : Send("ended", r, laneOf[r], 0)
        BY <2>2
      <3>2. PICK l : l = laneOf[r]
        OBVIOUS
      <3>3. r \in Sent /\ r # 0 /\ l \in Lanes /\ Send("ended", r, l, 0)
        BY <3>1, <3>2 DEF Base, Types, ActivityType, Sent
      <3> QED BY <1>1, <3>2, <3>3, SendFacts DEF Base
    <2> QED BY <1>1, <2>1, <2>2
  <1> QED BY <1>1, <1>3, <1>4, ServerStep


-----------------------------------------------------------------------------
(* The lines                                                                *)

(* A rising line grows at its end ...                                       *)
LEMMA RisingAppend ==
    ASSUME NEW s \in Seq(Int), Rising(s), NEW e \in Int, \A k \in 1..Len(s) : s[k] < e
    PROVE  /\ Rising(Append(s, e))
           /\ \A x : (\E k \in 1..Len(Append(s, e)) : Append(s, e)[k] = x) <=> x = e \/ \E k \in 1..Len(s) : s[k] = x
  <1> DEFINE w == Append(s, e)
  <1>1. /\ w \in Seq(Int) /\ Len(s) \in Nat /\ Len(w) = Len(s) + 1
        /\ \A k \in 1..Len(s) : w[k] = s[k] /\ s[k] \in Int
        /\ w[Len(s) + 1] = e
    BY AppendFacts
  <1> HIDE DEF w
  <1>2. \A k \in 1..Len(w) : k = Len(s) + 1 \/ k \in 1..Len(s)
    BY <1>1
  <1>3. \A k \in 1..Len(s) : k \in 1..Len(w)
    BY <1>1
  <1>4. Len(s) + 1 \in 1..Len(w)
    BY <1>1
  <1>5. Rising(w)
    <2>1. ASSUME NEW i \in 1..Len(w), NEW j \in 1..Len(w), i < j PROVE w[i] < w[j]
      <3>1. i \in 1..Len(s) /\ w[i] = s[i]
        BY <1>1, <2>1
      <3>2. CASE j = Len(s) + 1
        BY <1>1, <3>1, <3>2
      <3>3. CASE j \in 1..Len(s)
        BY <1>1, <2>1, <3>1, <3>3 DEF Rising
      <3> QED BY <1>2, <3>2, <3>3
    <2> QED BY <2>1 DEF Rising
  <1>6. \A x : (\E k \in 1..Len(w) : w[k] = x) <=> x = e \/ \E k \in 1..Len(s) : s[k] = x
    BY <1>1, <1>2, <1>3, <1>4
  <1> QED BY <1>5, <1>6 DEF w

(* ... and is taken from at its start.                                      *)
LEMMA RisingTail ==
    ASSUME NEW s \in Seq(Int), Rising(s), s # <<>>
    PROVE  /\ Rising(Tail(s))
           /\ \A x : (\E k \in 1..Len(Tail(s)) : Tail(s)[k] = x) <=> x # Head(s) /\ \E k \in 1..Len(s) : s[k] = x
           /\ \E k \in 1..Len(s) : s[k] = Head(s)
           /\ \A k \in 1..Len(s) : Head(s) <= s[k]
  <1> DEFINE w == Tail(s)
  <1>1. /\ w \in Seq(Int) /\ Len(s) \in Nat \ {0} /\ Len(w) = Len(s) - 1
        /\ \A k \in 1..Len(w) : w[k] = s[k + 1]
        /\ Head(s) = s[1] /\ \A k \in 1..Len(s) : s[k] \in Int
    BY TailFacts
  <1> HIDE DEF w
  <1>2. 1 \in 1..Len(s) /\ \A k \in 1..Len(w) : k + 1 \in 1..Len(s) /\ 1 < k + 1
    BY <1>1
  <1>3. \A k \in 1..Len(s) : k = 1 \/ (k - 1 \in 1..Len(w) /\ 1 < k /\ w[k - 1] = s[k])
    BY <1>1
  <1>4. \A k \in 1..Len(s) : 1 < k => s[1] < s[k]
    BY <1>2 DEF Rising
  <1>5. \A i, j \in 1..Len(w) : i < j => i + 1 < j + 1
    BY <1>1
  <1>6. Rising(w)
    BY <1>1, <1>2, <1>5 DEF Rising
  <1>7. \A x : (\E k \in 1..Len(w) : w[k] = x) <=> x # Head(s) /\ \E k \in 1..Len(s) : s[k] = x
    <2>1. ASSUME NEW k \in 1..Len(w) PROVE k + 1 \in 1..Len(s) /\ w[k] = s[k + 1] /\ w[k] # s[1]
      BY <1>1, <1>2, <1>4
    <2>2. ASSUME NEW k \in 1..Len(s), s[k] # s[1] PROVE k - 1 \in 1..Len(w) /\ w[k - 1] = s[k]
      BY <1>3, <2>2
    <2>3. Head(s) = s[1]
      BY <1>1
    <2>4. ASSUME NEW x, NEW k \in 1..Len(w), w[k] = x
          PROVE  x # Head(s) /\ \E i \in 1..Len(s) : s[i] = x
      BY <2>1, <2>3, <2>4
    <2>5. ASSUME NEW x, x # Head(s), NEW k \in 1..Len(s), s[k] = x
          PROVE  \E i \in 1..Len(w) : w[i] = x
      BY <2>2, <2>3, <2>5
    <2> QED BY <2>4, <2>5
  <1>8. \A k \in 1..Len(s) : Head(s) <= s[k]
    BY <1>1, <1>2, <1>3, <1>4
  <1> QED BY <1>1, <1>2, <1>6, <1>7, <1>8 DEF w

(* A frame the server sends joins the way back.                             *)
LEMMA SendEffects ==
    ASSUME Len(down) \in Nat, Len(down') = Len(down) + 1, \A k \in 1..Len(down) : down'[k] = down[k],
           NEW f, f = down'[Len(down) + 1]
    PROVE  /\ \A l, r : OnReturn(l, r)' <=> OnReturn(l, r) \/ (First(f, l) /\ Ident(f) = r)
           /\ \A r : \A n \in 0..Len(down) : CreatedBefore(r, n)' <=> CreatedBefore(r, n)
           /\ \A r : CreatedBefore(r, Len(down)) \/ (f.t = "created" /\ f.id = r) => CreatedBefore(r, Len(down))'
           /\ \A l : InOrder(l) /\ (First(f, l) => \A q : OnReturn(l, q) => q < Ident(f)) => InOrder(l)'
  <1>1. \A k \in 1..Len(down') : k = Len(down) + 1 \/ k \in 1..Len(down)
    OBVIOUS
  <1>2. (\A k \in 1..Len(down) : k \in 1..Len(down')) /\ Len(down) + 1 \in 1..Len(down')
    OBVIOUS
  <1>3. \A l, r : OnReturn(l, r)' <=> OnReturn(l, r) \/ (First(f, l) /\ Ident(f) = r)
    BY <1>1, <1>2 DEF OnReturn, First, Ident
  <1>4. \A r : \A n \in 0..Len(down) : CreatedBefore(r, n)' <=> CreatedBefore(r, n)
    <2>1. ASSUME NEW n \in 0..Len(down), NEW k \in 1..n PROVE down'[k] = down[k]
      <3>1. k \in 1..Len(down)
        OBVIOUS
      <3> QED BY <3>1
    <2> QED BY <2>1 DEF CreatedBefore
  <1>5. \A r : CreatedBefore(r, Len(down)) \/ (f.t = "created" /\ f.id = r) => CreatedBefore(r, Len(down))'
    BY <1>1, <1>2 DEF CreatedBefore
  <1>6. ASSUME NEW l, InOrder(l), First(f, l) => \A q : OnReturn(l, q) => q < Ident(f)
        PROVE  InOrder(l)'
    <2>1. \A k \in 1..Len(down) : First(down[k], l) => OnReturn(l, Ident(down[k]))
      BY DEF OnReturn
    <2>2. ASSUME NEW i \in 1..Len(down'), NEW j \in 1..Len(down'), i < j, First(down'[i], l), First(down'[j], l)
          PROVE  Ident(down'[i]) < Ident(down'[j])
      <3>1. i \in 1..Len(down) /\ down'[i] = down[i]
        BY <1>1, <2>2
      <3>2. CASE j = Len(down) + 1
        BY <1>6, <2>1, <2>2, <3>1, <3>2
      <3>3. CASE j \in 1..Len(down)
        BY <1>6, <2>2, <3>1, <3>3 DEF InOrder
      <3> QED BY <1>1, <3>2, <3>3
    <2> QED BY <2>2 DEF InOrder, First, Ident
  <1> QED BY <1>3, <1>4, <1>5, <1>6


-----------------------------------------------------------------------------
(* What is unambiguous stays exact                                          *)

(* Where requests stand changes only with the frames the relay reads.       *)
LEMMA StandKept ==
    ASSUME Clear, UNCHANGED <<tPending, tActive, tCompleted, completed, active, inFrame, forwarded, answered, laneOf,
                              frames, pending, unknown>>
    PROVE  StageInv' /\ HandInv' /\ WaitingInv' /\ KeptInv' /\ AnsweredInv' /\ ActiveInv' /\ CountInv'
  <1>1. StageInv' /\ HandInv' /\ ActiveInv' /\ AnsweredInv'
    BY DEF Clear, StageInv, HandInv, ActiveInv, AnsweredInv, Known, Waits
  <1>2. WaitingInv' /\ KeptInv'
    BY DEF Clear, WaitingInv, KeptInv, Known, Waits, Ident, Sent
  <1>3. CountInv'
    BY DEF Clear, CountInv, First
  <1> QED BY <1>1, <1>2, <1>3

(* reap and the start of a drain concern no request.                        *)
LEMMA QuietClear ==
    ASSUME Clear, OutDone \/ Reap \/ StartDrain \/ UNCHANGED vars
    PROVE  Clear'
  <1>1. UNCHANGED <<tPending, tActive, tCompleted, completed, active, inFrame, forwarded, answered, laneOf,
                    frames, pending, unknown, wire, down, queue, serving>>
    BY DEF OutDone, Reap, StartDrain, vars, activityVars, trackerVars, taskVars, serverVars, boundVars,
       histVars
  <1>2. LineInv' /\ StartedInv'
    <2>1. LineInv'
      <3>1. \A l, r : /\ Waits(l, r)' <=> Waits(l, r)
                      /\ OnWire(l, r)' <=> OnWire(l, r)
                      /\ InQueue(l, r)' <=> InQueue(l, r)
                      /\ OnReturn(l, r)' <=> OnReturn(l, r)
        BY <1>1 DEF Waits, OnWire, InQueue, OnReturn, First, Ident
      <3>2. \A l : (InOrder(l)' <=> InOrder(l)) /\ (Rising(tPending[l]) => Rising(tPending'[l]))
                   /\ (Rising(queue[l]) => Rising(queue'[l]))
        BY <1>1 DEF InOrder, First, Ident
      <3> QED BY <1>1, <3>1, <3>2 DEF Clear, LineInv, Paired, Behind, Sent
    <2>2. StartedInv'
      BY <1>1 DEF Clear, StartedInv, Known, CreatedBefore
    <2> QED BY <2>1, <2>2
  <1> QED BY <1>1, <1>2, StandKept DEF Clear

(* A frame about work names a request of its lane.                          *)
LEMMA ClearFrame ==
    ASSUME Types, ~ambiguous, NEW f, Incoming(f), f.t \in {"created", "ended", "error"}
    PROVE  /\ f.lane \in Lanes
           /\ f.t \in {"created", "error"} => Ident(f) \in Sent /\ Ident(f) # 0 /\ laneOf[Ident(f)] = f.lane
           /\ f.t = "error" => f.ans \in Sent /\ f.ans # 0 /\ f.lane \notin cancelling
           /\ f.t \in {"created", "ended"} => f.id \in Sent /\ laneOf[f.id] = f.lane
  <1>1. \A r \in Sent : r # 0
    BY DEF Sent
  <1>2. f.t = "error" => f.ans \in Sent /\ f.lane \notin cancelling
    BY DEF Incoming, ambiguous, Types, ActivityType
  <1> QED BY <1>1, <1>2 DEF Incoming, Ident

(* The first request waiting in a queue is ahead of the rest of its lane.   *)
LEMMA SendLine ==
    ASSUME Base, Clear, ~ambiguous, serverFrame, NEW f, Len(down) \in Nat, Len(down') = Len(down) + 1,
           \A k \in 1..Len(down) : down'[k] = down[k], f = down'[Len(down) + 1],
           \A l, r : OnWire(l, r)' <=> OnWire(l, r),
           \/ queue' = queue /\ f.t \notin {"created", "error"}
           \/ \E l \in Lanes : /\ queue[l] # <<>> /\ queue' = [queue EXCEPT ![l] = Tail(queue[l])]
                               /\ f.t \in {"created", "error"} /\ f.lane = l /\ Ident(f) = Head(queue[l])
    PROVE  LineInv'
  <1>1. UNCHANGED <<tPending, frames>>
    BY DEF serverFrame, trackerVars
  <1>2. /\ \A l, r : OnReturn(l, r)' <=> OnReturn(l, r) \/ (First(f, l) /\ Ident(f) = r)
        /\ \A l : InOrder(l) /\ (First(f, l) => \A q : OnReturn(l, q) => q < Ident(f)) => InOrder(l)'
    BY SendEffects
  <1>3. \A l, r : (Waits(l, r)' <=> Waits(l, r)) /\ (OnWire(l, r)' <=> OnWire(l, r))
    BY <1>1 DEF Waits
  <1>4. CASE queue' = queue /\ f.t \notin {"created", "error"}
    <2>1. \A l : ~First(f, l)
      BY <1>4 DEF First
    <2>2. \A l, r : (OnReturn(l, r)' <=> OnReturn(l, r)) /\ (InQueue(l, r)' <=> InQueue(l, r))
      BY <1>2, <1>4, <2>1 DEF InQueue
    <2> QED BY <1>1, <1>2, <1>3, <1>4, <2>1, <2>2 DEF Clear, LineInv, Paired, Behind, Rising, Sent
  <1>5. ASSUME NEW l \in Lanes, queue[l] # <<>>, queue' = [queue EXCEPT ![l] = Tail(queue[l])],
               f.t \in {"created", "error"}, f.lane = l, Ident(f) = Head(queue[l])
        PROVE  LineInv'
    <2>1. PICK s \in Seq(Sent) : s = queue[l]
      BY DEF Base, Types, ServerType
    <2>2. PICK h : h = Head(s)
      OBVIOUS
    <2>3. s \in Seq(Int) /\ s # <<>> /\ Rising(s) /\ DOMAIN queue = Lanes
      <3>1. Sent \subseteq Int
        BY DEF Sent
      <3>2. s \in Seq(Int)
        BY <2>1, <3>1, Wider
      <3>3. Rising(s)
        BY <2>1 DEF Clear, LineInv
      <3>4. DOMAIN queue = Lanes
        BY DEF Base, Types, ServerType
      <3> QED BY <1>5, <2>1, <3>2, <3>3, <3>4
    <2>4. /\ Rising(Tail(s)) /\ \A k \in 1..Len(s) : h <= s[k]
          /\ \A x : (\E k \in 1..Len(Tail(s)) : Tail(s)[k] = x) <=> x # h /\ \E k \in 1..Len(s) : s[k] = x
          /\ \E k \in 1..Len(s) : s[k] = h
      BY <2>2, <2>3, RisingTail
    <2>5. /\ \A r : InQueue(l, r)' <=> InQueue(l, r) /\ r # h
          /\ InQueue(l, h) /\ \A r : InQueue(l, r) => h <= r
          /\ \A m \in Lanes : m # l => \A r : InQueue(m, r)' <=> InQueue(m, r)
      <3>1. queue'[l] = Tail(s)
        BY <1>5, <2>1, <2>3
      <3>2. \A m \in Lanes : m # l => queue'[m] = queue[m]
        BY <1>5, <2>3
      <3>5. \A r : InQueue(l, r)' <=> \E k \in 1..Len(Tail(s)) : Tail(s)[k] = r
        BY <3>1 DEF InQueue
      <3>6. \A r : InQueue(l, r) <=> \E k \in 1..Len(s) : s[k] = r
        BY <2>1 DEF InQueue
      <3>3. \A r : InQueue(l, r)' <=> InQueue(l, r) /\ r # h
        BY <2>4, <3>5, <3>6
      <3>4. InQueue(l, h) /\ \A r : InQueue(l, r) => h <= r
        BY <2>1, <2>4 DEF InQueue
      <3> QED BY <3>2, <3>3, <3>4 DEF InQueue
    <2>6. h \in Sent /\ Sent \subseteq Int /\ Sent' = Sent
      <3>1. Len(s) \in Nat \ {0} /\ h = s[1] /\ \A k \in 1..Len(s) : s[k] \in Sent
        BY <2>1, <2>2, <2>3, TailFacts
      <3>2. 1 \in 1..Len(s)
        BY <3>1
      <3> QED BY <1>1, <3>1, <3>2 DEF Sent
    <2>7. /\ \A r : OnReturn(l, r)' <=> OnReturn(l, r) \/ r = h
          /\ \A m : m # l => \A r : OnReturn(m, r)' <=> OnReturn(m, r)
      BY <1>2, <1>5, <2>1, <2>2 DEF First
    <2>8. ASSUME NEW q, OnReturn(l, q) PROVE q < h
      <3>1. q \in Sent
        <4>1. PICK k \in 1..Len(down) : First(down[k], l) /\ Ident(down[k]) = q
          BY <2>8 DEF OnReturn
        <4>2. Incoming(down[k])
          BY DEF Base, Types, FrameType
        <4> QED BY <4>1, <4>2, ClearFrame DEF Base, First
      <3>2. Behind(l)
        BY DEF Clear, LineInv
      <3> QED BY <2>5, <2>6, <2>8, <3>1, <3>2 DEF Behind
    <2>9. \A m \in Lanes : InOrder(m)'
      BY <1>2, <1>5, <2>1, <2>2, <2>8 DEF Clear, LineInv, First
    <2>10. \A m \in Lanes : Rising(tPending'[m]) /\ Rising(queue'[m])
      <3>1. \A m \in Lanes : queue'[m] = IF m = l THEN Tail(s) ELSE queue[m]
        BY <1>5, <2>1, <2>3
      <3>2. \A m \in Lanes : Rising(tPending[m]) /\ Rising(queue[m])
        BY DEF Clear, LineInv
      <3> QED BY <1>1, <2>4, <3>1, <3>2
    <2>11. ASSUME NEW m \in Lanes PROVE Paired(m)' /\ Behind(m)'
      <3>1. Paired(m) /\ Behind(m)
        BY DEF Clear, LineInv
      <3>2. CASE m = l
        <4>1. Paired(m)'
          BY <1>3, <2>5, <2>6, <2>7, <3>1, <3>2 DEF Paired
        <4>2. Behind(m)'
          BY <1>3, <2>5, <2>6, <2>7, <3>1, <3>2 DEF Behind
        <4> QED BY <4>1, <4>2
      <3>3. CASE m # l
        BY <1>3, <2>5, <2>6, <2>7, <3>1, <3>3 DEF Paired, Behind
      <3> QED BY <3>2, <3>3
    <2> QED BY <2>9, <2>10, <2>11 DEF LineInv
  <1> QED BY <1>4, <1>5


(* The first frame of the wire is the oldest.                               *)
LEMMA WireTail ==
    ASSUME Base, wire # <<>>, wire' = Tail(wire), NEW f, f = Head(wire)
    PROVE  /\ Outgoing(f)
           /\ \A l, r : OnWire(l, r) <=> OnWire(l, r)' \/ (f.t = "create" /\ f.lane = l /\ f.id = r)
           /\ \A l, r : OnWire(l, r)' => f.id < r
  <1>1. /\ Len(wire) \in Nat \ {0} /\ Len(wire') = Len(wire) - 1
        /\ (\A k \in 1..Len(wire') : wire'[k] = wire[k + 1]) /\ f = wire[1]
    BY TailFacts DEF Base, Types, FrameType
  <1>2. 1 \in 1..Len(wire) /\ \A k \in 1..Len(wire') : k + 1 \in 1..Len(wire) /\ 1 < k + 1
    BY <1>1
  <1>3. \A k \in 1..Len(wire) : k = 1 \/ (k - 1 \in 1..Len(wire') /\ wire'[k - 1] = wire[k])
    BY <1>1
  <1>4. Outgoing(f)
    <2>1. \A k \in 1..Len(wire) : Outgoing(wire[k])
      BY DEF Base, Types, FrameType
    <2> QED BY <1>1, <1>2, <2>1
  <1>5. \A l, r : OnWire(l, r) <=> OnWire(l, r)' \/ (f.t = "create" /\ f.lane = l /\ f.id = r)
    <2>1. ASSUME NEW l, NEW r, OnWire(l, r) PROVE OnWire(l, r)' \/ (f.t = "create" /\ f.lane = l /\ f.id = r)
      BY <1>1, <1>3, <2>1 DEF OnWire
    <2>2. ASSUME NEW l, NEW r, OnWire(l, r)' PROVE OnWire(l, r)
      BY <1>1, <1>2, <2>2 DEF OnWire
    <2>3. ASSUME NEW l, NEW r, f.t = "create" /\ f.lane = l /\ f.id = r PROVE OnWire(l, r)
      BY <1>1, <1>2, <2>3 DEF OnWire
    <2> QED BY <2>1, <2>2, <2>3
  <1>6. ASSUME NEW l, NEW r, OnWire(l, r)' PROVE f.id < r
    <2>1. PICK k \in 1..Len(wire') : wire'[k].id = r
      BY <1>6 DEF OnWire
    <2>2. wire[1].id < wire[k + 1].id
      BY <1>2 DEF Base, WireInv
    <2> QED BY <1>1, <2>1, <2>2
  <1> QED BY <1>4, <1>5, <1>6

(* The end of a response comes after its beginning.                         *)
LEMMA SendStarted ==
    ASSUME Base, Clear, serverFrame, NEW f, Len(down) \in Nat, Len(down') = Len(down) + 1,
           \A k \in 1..Len(down) : down'[k] = down[k], f = down'[Len(down) + 1],
           f.t = "ended" => /\ Known(f.id) \/ CreatedBefore(f.id, Len(down))
                            /\ f.ans = 0 => f.id \in completed,
           \A l \in Lanes : serving'[l] # 0 =>
               serving'[l] = serving[l] \/ (f.t = "created" /\ serving'[l] = f.id)
    PROVE  StartedInv'
  <1>1. completed' = completed /\ \A r : Known(r)' <=> Known(r)
    BY DEF serverFrame, activityVars, trackerVars, Known
  <1>2. /\ \A r : \A n \in 0..Len(down) : CreatedBefore(r, n)' <=> CreatedBefore(r, n)
        /\ \A r : CreatedBefore(r, Len(down)) \/ (f.t = "created" /\ f.id = r) => CreatedBefore(r, Len(down))'
    BY SendEffects
  <1>3. ASSUME NEW k \in 1..Len(down'), NEW r, down'[k].t = "ended", r = down'[k].id
        PROVE  /\ Known(r) \/ CreatedBefore(r, k - 1)'
               /\ down'[k].ans = 0 => r \in completed
    <2>1. CASE k = Len(down) + 1
      <3>1. k - 1 = Len(down) /\ Len(down) \in 0..Len(down) /\ down'[k] = f
        BY <2>1
      <3>2. Known(r) \/ CreatedBefore(r, k - 1)
        BY <1>3, <3>1
      <3>3. CreatedBefore(r, k - 1)' <=> CreatedBefore(r, k - 1)
        BY <1>2, <3>1
      <3> QED BY <1>3, <3>1, <3>2, <3>3
    <2>2. CASE k \in 1..Len(down)
      <3>1. k - 1 \in 0..Len(down) /\ down'[k] = down[k]
        BY <2>2
      <3>2. /\ Known(r) \/ CreatedBefore(r, k - 1)
            /\ down[k].ans = 0 => r \in completed
        BY <1>3, <2>2, <3>1 DEF Clear, StartedInv
      <3>3. CreatedBefore(r, k - 1)' <=> CreatedBefore(r, k - 1)
        BY <1>2, <3>1
      <3> QED BY <3>1, <3>2, <3>3
    <2> QED BY <2>1, <2>2
  <1>4. ASSUME NEW l \in Lanes, NEW r, r = serving'[l], r # 0
        PROVE  Known(r) \/ CreatedBefore(r, Len(down))'
    <2>1. CASE r = serving[l]
      <3>1. Known(r) \/ CreatedBefore(r, Len(down))
        BY <1>4, <2>1 DEF Clear, StartedInv
      <3> QED BY <1>2, <3>1
    <2>2. CASE f.t = "created" /\ r = f.id
      BY <1>2, <2>2
    <2> QED BY <1>4, <2>1, <2>2
  <1> QED BY <1>1, <1>3, <1>4 DEF StartedInv, Known, CreatedBefore


(* What the server takes from the wire changes no pairing.                  *)
LEMMA ServerTakeClear ==
    ASSUME Base, Clear, ~ambiguous, ~ambiguous', ServerTake
    PROVE  Clear'
  <1>1. PICK f : f = Head(wire)
    OBVIOUS
  <1>2. /\ wire # <<>> /\ wire' = Tail(wire) /\ serverFrame
        /\ queue' = IF f.t = "create" THEN [queue EXCEPT ![f.lane] = Append(queue[f.lane], f.id)] ELSE queue
        /\ IF f.t = "cancel"
           THEN IF serving[f.lane] # 0
                THEN /\ Send("ended", serving[f.lane], f.lane, serving[f.lane])
                     /\ serving' = [serving EXCEPT ![f.lane] = 0]
                ELSE Send("error", 0, f.lane, 0) /\ serving' = serving
           ELSE down' = down /\ serving' = serving /\ erring' = erring
    BY <1>1 DEF ServerTake
  <1>3. /\ Outgoing(f)
        /\ \A l, r : OnWire(l, r) <=> OnWire(l, r)' \/ (f.t = "create" /\ f.lane = l /\ f.id = r)
        /\ \A l, r : OnWire(l, r)' => f.id < r
    BY <1>1, <1>2, WireTail
  <1>4. /\ f.lane \in Lanes /\ f.id \in Sent /\ f.t \in {"create", "cancel", "other"}
        /\ f.t = "cancel" => f.lane \in cancelled
    BY <1>3 DEF Outgoing
  <1>5. /\ StageInv' /\ HandInv' /\ WaitingInv' /\ KeptInv' /\ AnsweredInv' /\ ActiveInv' /\ CountInv'
        /\ UNCHANGED <<tPending, frames>>
    BY <1>2, StandKept DEF serverFrame, activityVars, trackerVars, taskVars
  <1>6. ASSUME f.t = "cancel" PROVE LineInv' /\ StartedInv'
    <2>1. serving[f.lane] # 0
      <3>1. ASSUME Send("error", 0, f.lane, 0) PROVE FALSE
        <4>1. f.lane \in erring' /\ cancelled' = cancelled
          BY <1>2, <3>1 DEF Send, serverFrame
        <4> QED BY <1>4, <1>6, <4>1 DEF ambiguous
      <3> QED BY <1>2, <1>6, <3>1
    <2>2. PICK r : r = serving[f.lane]
      OBVIOUS
    <2>3. PICK l : l = f.lane
      OBVIOUS
    <2>4. r \in Sent /\ r # 0 /\ laneOf[r] = l /\ l \in Lanes
      BY <1>4, <2>1, <2>2, <2>3 DEF Base, Types, ServerType
    <2>5. Send("ended", r, l, r) /\ serving' = [serving EXCEPT ![l] = 0] /\ queue' = queue
      BY <1>2, <1>6, <2>1, <2>2, <2>3
    <2>6. /\ Len(down) \in Nat /\ Len(down') = Len(down) + 1 /\ \A k \in 1..Len(down) : down'[k] = down[k]
          /\ LET g == down'[Len(down) + 1] IN g.t = "ended" /\ g.id = r /\ g.lane = l /\ g.ans = r
      BY <1>2, <2>4, <2>5, SendFacts DEF Base
    <2>7. PICK g : g = down'[Len(down) + 1]
      OBVIOUS
    <2>8. g.t = "ended" /\ g.id = r /\ g.ans = r
      BY <2>6, <2>7
    <2>9. \A m, x : OnWire(m, x)' <=> OnWire(m, x)
      BY <1>3, <1>6
    <2>10. LineInv'
      BY <1>2, <2>5, <2>6, <2>7, <2>8, <2>9, SendLine
    <2>11. Known(r) \/ CreatedBefore(r, Len(down))
      BY <2>2, <2>3, <2>4 DEF Clear, StartedInv
    <2>12. \A m \in Lanes : serving'[m] # 0 => serving'[m] = serving[m]
      BY <2>5 DEF Base, Types, ServerType
    <2>13. StartedInv'
      BY <1>2, <2>4, <2>6, <2>7, <2>8, <2>11, <2>12, SendStarted
    <2> QED BY <2>10, <2>13
  <1>7. ASSUME f.t # "cancel" PROVE StartedInv' /\ \A m, x : OnReturn(m, x)' <=> OnReturn(m, x)
    <2>1. down' = down /\ serving' = serving /\ UNCHANGED <<completed, tActive, tCompleted>>
      BY <1>2, <1>7 DEF serverFrame, activityVars, trackerVars
    <2> QED BY <2>1 DEF Clear, StartedInv, Known, CreatedBefore, OnReturn, First, Ident
  <1>8. ASSUME f.t # "cancel" PROVE \A m \in Lanes : InOrder(m)'
    <2>1. down' = down
      BY <1>2, <1>8
    <2> QED BY <2>1 DEF Clear, LineInv, InOrder, First, Ident
  <1>9. ASSUME f.t = "other" PROVE LineInv'
    <2>1. /\ queue' = queue
          /\ \A m, x : (InQueue(m, x)' <=> InQueue(m, x)) /\ (OnWire(m, x)' <=> OnWire(m, x))
                       /\ (Waits(m, x)' <=> Waits(m, x))
      BY <1>2, <1>3, <1>5, <1>9 DEF InQueue, Waits
    <2> QED BY <1>5, <1>7, <1>8, <1>9, <2>1 DEF Clear, LineInv, Paired, Behind, Rising, Sent
  <1>10. ASSUME f.t = "create" PROVE LineInv'
    <2>1. PICK l : l = f.lane
      OBVIOUS
    <2>2. PICK n : n = f.id
      OBVIOUS
    <2>3. PICK s \in Seq(Sent) : s = queue[l]
      BY <1>4, <2>1 DEF Base, Types, ServerType
    <2>4. /\ l \in Lanes /\ n \in Sent /\ Sent \subseteq Int /\ Sent' = Sent /\ DOMAIN queue = Lanes
          /\ queue' = [queue EXCEPT ![l] = Append(s, n)]
      BY <1>2, <1>4, <1>5, <1>10, <2>1, <2>2, <2>3 DEF Sent, Base, Types, ServerType
    <2>5. /\ \A x : OnWire(l, x) <=> OnWire(l, x)' \/ x = n
          /\ \A m, x : m # l => (OnWire(m, x)' <=> OnWire(m, x))
          /\ \A m, x : OnWire(m, x)' => n < x
      BY <1>3, <1>10, <2>1, <2>2
    <2>6. \A m \in Lanes : Paired(m) /\ Behind(m) /\ Rising(tPending[m]) /\ Rising(queue[m])
      BY DEF Clear, LineInv
    <2>7. \A k \in 1..Len(s) : s[k] < n
      <3>1. ASSUME NEW k \in 1..Len(s) PROVE s[k] < n
        <4>1. s[k] \in Sent
          BY ElementOfSeq
        <4>2. InQueue(l, s[k]) /\ OnWire(l, n)
          BY <2>3, <2>5 DEF InQueue
        <4> QED BY <2>4, <2>6, <4>1, <4>2 DEF Behind
      <3> QED BY <3>1
    <2>8. s \in Seq(Int) /\ Rising(s) /\ n \in Int
      BY <2>3, <2>4, <2>6, Wider
    <2>9. /\ Rising(Append(s, n))
          /\ \A x : (\E k \in 1..Len(Append(s, n)) : Append(s, n)[k] = x) <=> x = n \/ \E k \in 1..Len(s) : s[k] = x
      BY <2>7, <2>8, RisingAppend
    <2>10. \A m \in Lanes : queue'[m] = IF m = l THEN Append(s, n) ELSE queue[m]
      BY <2>4
    <2>11. /\ \A x : InQueue(l, x)' <=> InQueue(l, x) \/ x = n
           /\ \A m \in Lanes : m # l => \A x : InQueue(m, x)' <=> InQueue(m, x)
      <3>1. \A x : InQueue(l, x)' <=> \E k \in 1..Len(Append(s, n)) : Append(s, n)[k] = x
        BY <2>4, <2>10 DEF InQueue
      <3>2. \A x : InQueue(l, x) <=> \E k \in 1..Len(s) : s[k] = x
        BY <2>3 DEF InQueue
      <3>3. \A m \in Lanes : m # l => \A x : InQueue(m, x)' <=> InQueue(m, x)
        BY <2>10 DEF InQueue
      <3> QED BY <2>9, <3>1, <3>2, <3>3
    <2>12. \A m \in Lanes : Rising(tPending'[m]) /\ Rising(queue'[m])
      BY <1>5, <2>6, <2>9, <2>10
    <2>13. \A m, x : (Waits(m, x)' <=> Waits(m, x)) /\ (OnReturn(m, x)' <=> OnReturn(m, x))
      BY <1>5, <1>7, <1>10 DEF Waits
    <2>14. ASSUME NEW m \in Lanes PROVE Paired(m)' /\ Behind(m)'
      <3>1. CASE m = l
        <4>1. Paired(m)'
          BY <2>4, <2>5, <2>6, <2>11, <2>13, <3>1 DEF Paired
        <4>2. Behind(m)'
          BY <2>4, <2>5, <2>6, <2>11, <2>13, <3>1 DEF Behind
        <4> QED BY <4>1, <4>2
      <3>2. CASE m # l
        BY <2>4, <2>5, <2>6, <2>11, <2>13, <3>2 DEF Paired, Behind
      <3> QED BY <3>1, <3>2
    <2> QED BY <1>8, <1>10, <2>12, <2>14 DEF LineInv
  <1> QED BY <1>4, <1>5, <1>6, <1>7, <1>9, <1>10 DEF Clear


(* What it does for one lane keeps the lane's order.                        *)
LEMMA ServerLaneClear ==
    ASSUME Base, Clear, ~ambiguous, NEW l \in Lanes, ServerStart(l) \/ ServerReject(l) \/ ServerEnd(l)
    PROVE  Clear'
  <1>1. PICK h : h = Head(queue[l])
    OBVIOUS
  <1>2. PICK r : r = serving[l]
    OBVIOUS
  <1>3. ASSUME queue[l] # <<>> PROVE h \in Sent /\ h # 0 /\ laneOf[h] = l
    <2>1. PICK s \in Seq(Sent) : s = queue[l]
      BY DEF Base, Types, ServerType
    <2>2. Len(s) \in Nat \ {0} /\ h = s[1] /\ \A k \in 1..Len(s) : s[k] \in Sent
      BY <1>1, <1>3, <2>1, TailFacts
    <2>3. 1 \in 1..Len(s)
      BY <2>2
    <2>4. \A m \in Lanes : \A k \in 1..Len(queue[m]) : laneOf[queue[m][k]] = m
      BY DEF Base, Types, ServerType
    <2>5. laneOf[s[1]] = l
      BY <2>1, <2>3, <2>4, Zenon
    <2> QED BY <2>2, <2>3, <2>5 DEF Sent
  <1>4. r \in Sent \cup {0} /\ (r # 0 => laneOf[r] = l)
    BY <1>2 DEF Base, Types, ServerType
  <1>5. /\ serverFrame /\ wire' = wire
        /\ \/ /\ Send("created", h, l, 0) /\ queue[l] # <<>>
              /\ queue' = [queue EXCEPT ![l] = Tail(queue[l])] /\ serving' = [serving EXCEPT ![l] = h]
           \/ /\ Send("error", 0, l, h) /\ queue[l] # <<>>
              /\ queue' = [queue EXCEPT ![l] = Tail(queue[l])] /\ serving' = serving
           \/ /\ Send("ended", r, l, r) /\ r # 0
              /\ queue' = queue /\ serving' = [serving EXCEPT ![l] = 0]
    BY <1>1, <1>2 DEF ServerStart, ServerReject, ServerEnd
  <1>6. /\ StageInv' /\ HandInv' /\ WaitingInv' /\ KeptInv' /\ AnsweredInv' /\ ActiveInv' /\ CountInv'
        /\ \A m, x : OnWire(m, x)' <=> OnWire(m, x)
    BY <1>5, StandKept DEF serverFrame, activityVars, trackerVars, taskVars, OnWire
  <1>7. PICK f : f = down'[Len(down) + 1]
    OBVIOUS
  <1>8. \A m \in Lanes : serving'[m] = IF m = l THEN serving'[l] ELSE serving[m]
    BY <1>5 DEF Base, Types, ServerType
  <1>9. CASE Send("created", h, l, 0) /\ queue[l] # <<>> /\ queue' = [queue EXCEPT ![l] = Tail(queue[l])]
             /\ serving' = [serving EXCEPT ![l] = h]
    <2>1. /\ Len(down) \in Nat /\ Len(down') = Len(down) + 1 /\ \A k \in 1..Len(down) : down'[k] = down[k]
          /\ LET g == down'[Len(down) + 1] IN g.t = "created" /\ g.id = h /\ g.lane = l /\ g.ans = 0
      BY <1>3, <1>5, <1>9, SendFacts DEF Base
    <2>2. f.t = "created" /\ f.id = h /\ f.lane = l /\ Ident(f) = h
      BY <1>7, <2>1 DEF Ident
    <2>3. serving'[l] = h
      BY <1>9 DEF Base, Types, ServerType
    <2>4. LineInv'
      BY <1>1, <1>5, <1>6, <1>7, <1>9, <2>1, <2>2, SendLine
    <2>5. StartedInv'
      BY <1>5, <1>7, <1>8, <2>1, <2>2, <2>3, SendStarted
    <2> QED BY <1>6, <2>4, <2>5 DEF Clear
  <1>10. CASE Send("error", 0, l, h) /\ queue[l] # <<>> /\ queue' = [queue EXCEPT ![l] = Tail(queue[l])]
              /\ serving' = serving
    <2>1. /\ Len(down) \in Nat /\ Len(down') = Len(down) + 1 /\ \A k \in 1..Len(down) : down'[k] = down[k]
          /\ LET g == down'[Len(down) + 1] IN g.t = "error" /\ g.id = 0 /\ g.lane = l /\ g.ans = h
      BY <1>3, <1>5, <1>10, SendFacts DEF Base
    <2>2. f.t = "error" /\ f.lane = l /\ Ident(f) = h
      BY <1>7, <2>1 DEF Ident
    <2>3. LineInv'
      BY <1>1, <1>5, <1>6, <1>7, <1>10, <2>1, <2>2, SendLine
    <2>4. StartedInv'
      BY <1>5, <1>7, <1>10, <2>1, <2>2, SendStarted
    <2> QED BY <1>6, <2>3, <2>4 DEF Clear
  <1>11. CASE Send("ended", r, l, r) /\ r # 0 /\ queue' = queue /\ serving' = [serving EXCEPT ![l] = 0]
    <2>1. /\ Len(down) \in Nat /\ Len(down') = Len(down) + 1 /\ \A k \in 1..Len(down) : down'[k] = down[k]
          /\ LET g == down'[Len(down) + 1] IN g.t = "ended" /\ g.id = r /\ g.lane = l /\ g.ans = r
      BY <1>4, <1>5, <1>11, SendFacts DEF Base
    <2>2. f.t = "ended" /\ f.id = r /\ f.ans = r
      BY <1>7, <2>1
    <2>3. serving'[l] = 0
      BY <1>11 DEF Base, Types, ServerType
    <2>4. LineInv'
      BY <1>5, <1>6, <1>7, <1>11, <2>1, <2>2, SendLine
    <2>5. Known(r) \/ CreatedBefore(r, Len(down))
      BY <1>2, <1>11 DEF Clear, StartedInv
    <2>6. StartedInv'
      BY <1>5, <1>7, <1>8, <1>11, <2>1, <2>2, <2>3, <2>5, SendStarted
    <2> QED BY <1>6, <2>4, <2>6 DEF Clear
  <1> QED BY <1>5, <1>9, <1>10, <1>11

(* What nobody asked for is about nothing, or about what is complete.       *)
LEMMA ServerExtraClear ==
    ASSUME Base, Clear, ~ambiguous, ServerNotice \/ \E r \in Requests : ServerReplay(r)
    PROVE  Clear'
  <1>1. /\ serverFrame /\ wire' = wire /\ queue' = queue /\ serving' = serving
        /\ Send("other", 0, NoLane, 0) \/ \E r \in completed : Send("ended", r, laneOf[r], 0)
    BY DEF ServerNotice, ServerReplay
  <1>2. /\ StageInv' /\ HandInv' /\ WaitingInv' /\ KeptInv' /\ AnsweredInv' /\ ActiveInv' /\ CountInv'
        /\ \A m, x : OnWire(m, x)' <=> OnWire(m, x)
    BY <1>1, StandKept DEF serverFrame, activityVars, trackerVars, taskVars, OnWire
  <1>3. PICK f : f = down'[Len(down) + 1]
    OBVIOUS
  <1>4. CASE Send("other", 0, NoLane, 0)
    <2>1. /\ Len(down) \in Nat /\ Len(down') = Len(down) + 1 /\ \A k \in 1..Len(down) : down'[k] = down[k]
          /\ LET g == down'[Len(down) + 1] IN g.t = "other" /\ g.id = 0 /\ g.lane = NoLane /\ g.ans = 0
      BY <1>1, <1>4, SendFacts DEF Base
    <2>2. f.t = "other"
      BY <1>3, <2>1
    <2>3. LineInv'
      BY <1>1, <1>2, <1>3, <2>1, <2>2, SendLine
    <2>4. StartedInv'
      BY <1>1, <1>3, <2>1, <2>2, SendStarted
    <2> QED BY <1>2, <2>3, <2>4 DEF Clear
  <1>5. CASE \E r \in completed : Send("ended", r, laneOf[r], 0)
    <2>1. PICK r \in completed : Send("ended", r, laneOf[r], 0)
      BY <1>5
    <2>2. PICK l : l = laneOf[r]
      OBVIOUS
    <2>3. r \in Sent /\ r # 0 /\ l \in Lanes /\ Send("ended", r, l, 0)
      BY <2>1, <2>2 DEF Base, Types, ActivityType, Sent
    <2>4. /\ Len(down) \in Nat /\ Len(down') = Len(down) + 1 /\ \A k \in 1..Len(down) : down'[k] = down[k]
          /\ LET g == down'[Len(down) + 1] IN g.t = "ended" /\ g.id = r /\ g.lane = l /\ g.ans = 0
      BY <1>1, <2>2, <2>3, SendFacts DEF Base
    <2>5. f.t = "ended" /\ f.id = r
      BY <1>3, <2>4
    <2>6. LineInv'
      BY <1>1, <1>2, <1>3, <2>4, <2>5, SendLine
    <2>7. Known(r)
      BY <2>1, <2>3, Constants DEF Clear, StageInv, Known, Base
    <2>8. StartedInv'
      BY <1>1, <1>3, <2>1, <2>4, <2>5, <2>7, SendStarted
    <2> QED BY <1>2, <2>6, <2>8 DEF Clear
  <1> QED BY <1>1, <1>4, <1>5


(* Every place on the way holds requests sent, of its own lane.             *)
LEMMA Places ==
    ASSUME Base, ~ambiguous, NEW l \in Lanes
    PROVE  /\ \A x : OnWire(l, x) \/ InQueue(l, x) \/ OnReturn(l, x) => x \in Sent /\ laneOf[x] = l
           /\ \A x : Waits(l, x) => x \in Sent
  <1>1. ASSUME NEW x, OnWire(l, x) PROVE x \in Sent /\ laneOf[x] = l
    <2>1. PICK k \in 1..Len(wire) : wire[k].lane = l /\ wire[k].id = x
      BY <1>1 DEF OnWire
    <2>2. Outgoing(wire[k])
      BY DEF Base, Types, FrameType
    <2> QED BY <2>1, <2>2 DEF Outgoing
  <1>2. ASSUME NEW x, InQueue(l, x) PROVE x \in Sent /\ laneOf[x] = l
    <2>1. PICK k \in 1..Len(queue[l]) : queue[l][k] = x
      BY <1>2 DEF InQueue
    <2>2. queue[l] \in Seq(Sent)
      BY DEF Base, Types, ServerType
    <2>3. x \in Sent
      BY <2>1, <2>2, ElementOfSeq
    <2>4. \A m \in Lanes : \A i \in 1..Len(queue[m]) : laneOf[queue[m][i]] = m
      BY DEF Base, Types, ServerType
    <2> QED BY <2>1, <2>3, <2>4
  <1>3. ASSUME NEW x, OnReturn(l, x) PROVE x \in Sent /\ laneOf[x] = l
    <2>1. PICK k \in 1..Len(down) : First(down[k], l) /\ Ident(down[k]) = x
      BY <1>3 DEF OnReturn
    <2>2. Incoming(down[k])
      BY DEF Base, Types, FrameType
    <2> QED BY <2>1, <2>2, ClearFrame DEF Base, First
  <1>4. ASSUME NEW x, Waits(l, x) PROVE x \in Sent
    <2>1. PICK k \in 1..Len(tPending[l]) : tPending[l][k] = x
      BY <1>4 DEF Waits
    <2>2. tPending[l] \in Seq(Sent)
      BY DEF Base, Types, TrackerType
    <2> QED BY <2>1, <2>2, ElementOfSeq
  <1> QED BY <1>1, <1>2, <1>3, <1>4

(* A client frame joins the end of its lane.                                *)
LEMMA OutReadClear ==
    ASSUME Base, Clear, ~ambiguous, NEW kind \in {"create", "cancel", "other"}, NEW lane \in Lanes,
           OutRead(kind, lane)
    PROVE  Clear'
  <1>0. PICK f : f = [t |-> kind, id |-> frames + 1, lane |-> lane, ans |-> 0]
    OBVIOUS
  <1>00. PICK n : n = frames + 1
    OBVIOUS
  <1>1. /\ frames < MaxFrames /\ frames' = n /\ beginOut(f)
        /\ (IF kind = "create" THEN request(n, lane) ELSE UNCHANGED trackerVars)
        /\ wire' = Append(wire, f) /\ laneOf' = [laneOf EXCEPT ![n] = lane]
        /\ forwarded' = IF kind = "create" THEN forwarded \cup {n} ELSE forwarded
        /\ UNCHANGED <<inFrame, down, queue, serving, answered>>
        /\ f.t = kind /\ f.id = n /\ f.lane = lane /\ f.ans = 0
    BY <1>0, <1>00 DEF OutRead
  <1>2. /\ active' = active /\ completed' = completed
        /\ pending' = IF kind = "create" THEN [pending EXCEPT ![lane] = pending[lane] + 1] ELSE pending
        /\ unknown' = (unknown \/ kind = "other")
    BY <1>1 DEF beginOut
  <1>3. /\ MaxFrames \in Nat /\ frames \in 0..MaxFrames /\ Sent \subseteq Requests
        /\ n \in Requests /\ Sent' = Sent \cup {n} /\ n \notin Sent /\ n \in Int /\ (\A r \in Sent : r < n)
        /\ Sent' \subseteq Requests /\ Requests \subseteq Records /\ Sent \subseteq Int
    BY <1>00, <1>1, Constants DEF Base, Sent, Requests
  <1>4. f \in Frame /\ f # NoFrame
    BY <1>0, <1>00, <1>1, <1>3 DEF Frame, NoFrame, Requests
  <1>5. tActive' = tActive /\ tCompleted' = tCompleted /\ \A r : Known(r)' <=> Known(r)
    BY <1>1 DEF request, trackerVars, Known
  <1>6. ~Known(n) /\ n \notin forwarded /\ n \notin answered /\ n \notin completed
    BY <1>3 DEF Clear, ActiveInv, Base, Types, ActivityType
  <1>7. \A r \in Requests : r # n => laneOf'[r] = laneOf[r]
    BY <1>1, <1>3 DEF Base, Types, ActivityType
  <1>8. laneOf'[n] = lane
    BY <1>1, <1>3 DEF Base, Types, ActivityType
  <1>9. \A l, x : /\ OnReturn(l, x)' <=> OnReturn(l, x)
                  /\ InQueue(l, x)' <=> InQueue(l, x)
    BY <1>1 DEF OnReturn, InQueue, First, Ident
  <1>10. \A l, x : OnWire(l, x)' <=> OnWire(l, x) \/ (kind = "create" /\ l = lane /\ x = n)
    <2>1. /\ Len(wire') = Len(wire) + 1 /\ Len(wire) \in Nat
          /\ (\A k \in 1..Len(wire) : wire'[k] = wire[k]) /\ wire'[Len(wire) + 1] = f
      BY <1>1, <1>4, AppendFacts DEF Base, Types, FrameType
    <2>2. \A k \in 1..Len(wire') : k = Len(wire) + 1 \/ k \in 1..Len(wire)
      BY <2>1
    <2>3. (\A k \in 1..Len(wire) : k \in 1..Len(wire')) /\ Len(wire) + 1 \in 1..Len(wire')
      BY <2>1
    <2> QED BY <1>1, <2>1, <2>2, <2>3 DEF OnWire
  <1>11. \A l \in Lanes : /\ \A x : OnWire(l, x) \/ InQueue(l, x) \/ OnReturn(l, x) => x \in Sent /\ laneOf[x] = l
                          /\ \A x : Waits(l, x) => x \in Sent
    BY Places
  <1>12. ASSUME kind = "create"
         PROVE  /\ Rising(tPending'[lane]) /\ Len(tPending'[lane]) = Len(tPending[lane]) + 1
                /\ \A x : Waits(lane, x)' <=> Waits(lane, x) \/ x = n
                /\ \A l \in Lanes : l # lane => tPending'[l] = tPending[l]
    <2>1. PICK s \in Seq(Sent) : s = tPending[lane]
      BY DEF Base, Types, TrackerType
    <2>2. tPending' = [tPending EXCEPT ![lane] = Append(s, n)] /\ DOMAIN tPending = Lanes
      BY <1>1, <1>12, <2>1 DEF request, Base, Types, TrackerType
    <2>3. tPending'[lane] = Append(s, n) /\ \A l \in Lanes : l # lane => tPending'[l] = tPending[l]
      BY <2>2
    <2>4. s \in Seq(Int) /\ Rising(s) /\ \A k \in 1..Len(s) : s[k] < n
      BY <1>3, <2>1, Wider, ElementOfSeq DEF Clear, LineInv
    <2>5. /\ Rising(Append(s, n)) /\ Len(Append(s, n)) = Len(s) + 1
          /\ \A x : (\E k \in 1..Len(Append(s, n)) : Append(s, n)[k] = x) <=> x = n \/ \E k \in 1..Len(s) : s[k] = x
      BY <1>3, <2>4, RisingAppend, AppendFacts
    <2>6. \A x : Waits(lane, x)' <=> \E k \in 1..Len(Append(s, n)) : Append(s, n)[k] = x
      BY <2>3 DEF Waits
    <2>7. \A x : Waits(lane, x) <=> \E k \in 1..Len(s) : s[k] = x
      BY <2>1 DEF Waits
    <2> QED BY <2>1, <2>3, <2>5, <2>6, <2>7
  <1>13. kind # "create" => tPending' = tPending
    BY <1>1 DEF trackerVars
  <1>14. \A l \in Lanes : \A x : Waits(l, x)' <=> Waits(l, x) \/ (kind = "create" /\ l = lane /\ x = n)
    <2>1. CASE kind = "create"
      BY <1>12, <2>1 DEF Waits
    <2>2. CASE kind # "create"
      BY <1>13, <2>2 DEF Waits
    <2> QED BY <2>1, <2>2
  <1>15. LineInv'
    <2>1. \A l \in Lanes : Paired(l) /\ Rising(tPending[l]) /\ Rising(queue[l]) /\ InOrder(l) /\ Behind(l)
      BY DEF Clear, LineInv
    <2>2. \A l \in Lanes : Rising(queue'[l]) /\ InOrder(l)'
      BY <1>1, <2>1 DEF InOrder, First, Ident
    <2>3. \A l \in Lanes : Rising(tPending'[l])
      BY <1>12, <1>13, <2>1
    <2>4. ASSUME NEW l \in Lanes PROVE Paired(l)'
      BY <1>3, <1>9, <1>10, <1>11, <1>14, <2>1 DEF Paired
    <2>5. ASSUME NEW l \in Lanes PROVE Behind(l)'
      BY <1>3, <1>9, <1>10, <1>11, <2>1 DEF Behind
    <2> QED BY <2>2, <2>3, <2>4, <2>5 DEF LineInv
  <1>16. StartedInv'
    BY <1>1, <1>2, <1>5 DEF Clear, StartedInv, CreatedBefore
  <1>17. StageInv'
    BY <1>1, <1>2, <1>3, <1>5, <1>6, <1>7, Constants DEF Clear, StageInv, Known, Base
  <1>18. HandInv'
    <2>1. inFrame.t = "error" => inFrame.lane \in Lanes /\ inFrame.ans \in Sent /\ ~Waits(inFrame.lane, inFrame.ans)
      <3>1. inFrame.t = "error" => Incoming(inFrame)
        BY DEF Base, Types, FrameType, NoFrame
      <3> QED BY <3>1, ClearFrame DEF Base, Clear, HandInv
    <2>2. inFrame.t = "error" => ~Waits(inFrame.lane, inFrame.ans)'
      BY <1>1, <1>3, <1>14, <2>1
    <2> QED BY <1>1, <1>2, <1>5, <2>2 DEF Clear, HandInv
  <1>19. WaitingInv'
    <2>1. ASSUME NEW l \in Lanes, NEW r \in Sent', Waits(l, r)'
          PROVE  laneOf'[r] = l /\ r \in forwarded' /\ ~Known(r) /\ r \notin answered
      <3>1. CASE r = n
        BY <1>1, <1>3, <1>6, <1>8, <1>11, <1>14, <2>1, <3>1
      <3>2. CASE r # n
        BY <1>1, <1>3, <1>7, <1>14, <2>1, <3>2 DEF Clear, WaitingInv
      <3> QED BY <3>1, <3>2
    <2> QED BY <1>1, <1>5, <2>1 DEF WaitingInv
  <1>20. KeptInv'
    <2>1. ASSUME NEW r \in forwarded', NEW l, l = laneOf'[r]
          PROVE  \/ Waits(l, r)' \/ active[r] # NoLane \/ r \in answered
                 \/ (inFrame.t \in {"created", "error"} /\ Ident(inFrame) = r)
      <3>1. CASE r = n
        <4>1. kind = "create"
          BY <1>1, <1>6, <2>1, <3>1
        <4> QED BY <1>8, <1>14, <2>1, <3>1, <4>1
      <3>2. CASE r # n
        <4>1. r \in forwarded /\ r \in Sent /\ laneOf'[r] = laneOf[r] /\ laneOf[r] \in Lanes
          BY <1>1, <1>3, <1>7, <2>1, <3>2 DEF Base, Types, ActivityType
        <4> QED BY <1>14, <2>1, <4>1 DEF Clear, KeptInv
      <3> QED BY <3>1, <3>2
    <2> QED BY <1>1, <1>2, <2>1 DEF KeptInv, Ident, Waits
  <1>21. AnsweredInv' /\ ActiveInv'
    BY <1>1, <1>2, <1>5 DEF Clear, AnsweredInv, ActiveInv
  <1>22. CountInv'
    <2>1. ASSUME ~unknown', NEW l \in Lanes
          PROVE  pending'[l] = Len(tPending'[l]) + IF First(inFrame, l) THEN 1 ELSE 0
      <3>1. ~unknown /\ pending[l] = Len(tPending[l]) + IF First(inFrame, l) THEN 1 ELSE 0
        BY <1>2, <2>1 DEF Clear, CountInv
      <3>2. pending \in [Lanes -> Nat] /\ Len(tPending[l]) \in Nat
        <4>1. tPending[l] \in Seq(Sent)
          BY DEF Base, Types, TrackerType
        <4> QED BY <4>1, LenProperties DEF Base, Types, ActivityType
      <3>3. CASE kind = "create" /\ l = lane
        <4>1. pending'[l] = pending[l] + 1 /\ Len(tPending'[l]) = Len(tPending[l]) + 1
          BY <1>2, <1>12, <3>2, <3>3
        <4>2. PICK b \in Int : b = IF First(inFrame, l) THEN 1 ELSE 0
          OBVIOUS
        <4>3. pending[l] = Len(tPending[l]) + b /\ pending[l] \in Int /\ Len(tPending[l]) \in Int
          BY <3>1, <3>2, <4>2
        <4>4. pending'[l] = Len(tPending'[l]) + b
          BY <4>1, <4>3
        <4> QED BY <4>2, <4>4
      <3>4. CASE ~(kind = "create" /\ l = lane)
        <4>1. pending'[l] = pending[l] /\ tPending'[l] = tPending[l]
          BY <1>2, <1>12, <1>13, <3>2, <3>4
        <4> QED BY <3>1, <4>1
      <3> QED BY <3>3, <3>4
    <2> QED BY <1>1, <2>1 DEF CountInv, First
  <1> QED BY <1>15, <1>16, <1>17, <1>18, <1>19, <1>20, <1>21, <1>22 DEF Clear


(* The relay reads the first frame on its way back.                         *)
LEMMA DownTail ==
    ASSUME Base, down # <<>>, down' = Tail(down), NEW f, f = Head(down)
    PROVE  /\ Incoming(f) /\ Len(down) \in Nat /\ Len(down') \in Nat /\ Len(down) = Len(down') + 1 /\ f = down[1]
           /\ \A k \in 1..Len(down') : down'[k] = down[k + 1] /\ k + 1 \in 1..Len(down)
           /\ \A l, x : OnReturn(l, x) <=> OnReturn(l, x)' \/ (First(f, l) /\ Ident(f) = x)
           /\ \A l : InOrder(l) => InOrder(l)' /\ \A x : OnReturn(l, x)' /\ First(f, l) => Ident(f) < x
           /\ \A x : \A i \in 0..Len(down') :
                 CreatedBefore(x, i + 1) => CreatedBefore(x, i)' \/ (f.t = "created" /\ f.id = x)
  <1>1. /\ Len(down) \in Nat \ {0} /\ Len(down') = Len(down) - 1
        /\ (\A k \in 1..Len(down') : down'[k] = down[k + 1]) /\ f = down[1]
    BY TailFacts DEF Base, Types, FrameType
  <1>2. 1 \in 1..Len(down) /\ \A k \in 1..Len(down') : k + 1 \in 1..Len(down) /\ 1 < k + 1
    BY <1>1
  <1>3. \A k \in 1..Len(down) : k = 1 \/ (k - 1 \in 1..Len(down') /\ down'[k - 1] = down[k])
    BY <1>1
  <1>4. Incoming(f)
    <2>1. \A k \in 1..Len(down) : Incoming(down[k])
      BY DEF Base, Types, FrameType
    <2> QED BY <1>1, <1>2, <2>1
  <1>5. \A l, x : OnReturn(l, x) <=> OnReturn(l, x)' \/ (First(f, l) /\ Ident(f) = x)
    <2>1. ASSUME NEW l, NEW x, OnReturn(l, x) PROVE OnReturn(l, x)' \/ (First(f, l) /\ Ident(f) = x)
      BY <1>1, <1>3, <2>1 DEF OnReturn, First, Ident
    <2>2. ASSUME NEW l, NEW x, OnReturn(l, x)' PROVE OnReturn(l, x)
      BY <1>1, <1>2, <2>2 DEF OnReturn, First, Ident
    <2>3. ASSUME NEW l, NEW x, First(f, l) /\ Ident(f) = x PROVE OnReturn(l, x)
      BY <1>1, <1>2, <2>3 DEF OnReturn
    <2> QED BY <2>1, <2>2, <2>3
  <1>6. ASSUME NEW l, InOrder(l) PROVE InOrder(l)' /\ \A x : OnReturn(l, x)' /\ First(f, l) => Ident(f) < x
    <2>1. ASSUME NEW i \in 1..Len(down'), NEW j \in 1..Len(down'), i < j, First(down'[i], l), First(down'[j], l)
          PROVE  Ident(down'[i]) < Ident(down'[j])
      <3>1. i + 1 < j + 1 /\ down'[i] = down[i + 1] /\ down'[j] = down[j + 1]
        BY <1>1, <2>1
      <3> QED BY <1>2, <1>6, <2>1, <3>1 DEF InOrder
    <2>2. ASSUME NEW x, OnReturn(l, x)', First(f, l) PROVE Ident(f) < x
      <3>1. PICK k \in 1..Len(down') : First(down'[k], l) /\ Ident(down'[k]) = x
        BY <2>2 DEF OnReturn, First, Ident
      <3> QED BY <1>1, <1>2, <1>6, <2>2, <3>1 DEF InOrder
    <2> QED BY <2>1, <2>2 DEF InOrder, First, Ident
  <1>7. ASSUME NEW x, NEW i \in 0..Len(down'), CreatedBefore(x, i + 1)
        PROVE  CreatedBefore(x, i)' \/ (f.t = "created" /\ f.id = x)
    <2>1. PICK k \in 1..(i + 1) : down[k].t = "created" /\ down[k].id = x
      BY <1>7 DEF CreatedBefore
    <2>2. k = 1 \/ (k - 1 \in 1..i /\ down'[k - 1] = down[k])
      BY <1>1, <2>1
    <2> QED BY <1>1, <2>1, <2>2 DEF CreatedBefore
  <1> QED BY <1>1, <1>2, <1>4, <1>5, <1>6, <1>7

(* The answer it begins is that of the oldest request waiting in the lane.  *)
LEMMA OldestFirst ==
    ASSUME Base, Clear, ~ambiguous, NEW l \in Lanes, NEW x, OnReturn(l, x), \A y : OnReturn(l, y) => x <= y
    PROVE  /\ tPending[l] # <<>> /\ Head(tPending[l]) = x /\ Rising(Tail(tPending[l]))
           /\ Len(Tail(tPending[l])) = Len(tPending[l]) - 1 /\ Len(tPending[l]) \in Nat
           /\ \A y : (\E k \in 1..Len(Tail(tPending[l])) : Tail(tPending[l])[k] = y) <=> Waits(l, y) /\ y # x
           /\ Waits(l, x) /\ ~InQueue(l, x) /\ ~OnWire(l, x)
  <1>1. PICK s \in Seq(Sent) : s = tPending[l]
    BY DEF Base, Types, TrackerType
  <1>2. Paired(l) /\ Behind(l) /\ Rising(s)
    BY <1>1 DEF Clear, LineInv
  <1>3. /\ \A y : OnWire(l, y) \/ InQueue(l, y) \/ OnReturn(l, y) => y \in Sent
        /\ \A y : Waits(l, y) => y \in Sent
    BY Places
  <1>4. x \in Sent /\ Waits(l, x) /\ Sent \subseteq Int /\ \A y : Waits(l, y) => x <= y
    BY <1>2, <1>3 DEF Paired, Behind, Sent
  <1>5. \A y : Waits(l, y) <=> \E k \in 1..Len(s) : s[k] = y
    BY <1>1 DEF Waits
  <1>6. s # <<>> /\ s \in Seq(Int)
    <2>1. s # <<>>
      BY <1>4, <1>5, EmptySeq
    <2> QED BY <1>4, <2>1, Wider
  <1>7. /\ Rising(Tail(s))
        /\ \A y : (\E k \in 1..Len(Tail(s)) : Tail(s)[k] = y) <=> y # Head(s) /\ \E k \in 1..Len(s) : s[k] = y
        /\ \E k \in 1..Len(s) : s[k] = Head(s)
        /\ \A k \in 1..Len(s) : Head(s) <= s[k]
    BY <1>2, <1>6, RisingTail
  <1>8. Waits(l, Head(s)) /\ Head(s) <= x
    BY <1>4, <1>5, <1>7
  <1>9. Head(s) = x
    <2>1. PICK h : h = Head(s)
      OBVIOUS
    <2>2. Waits(l, h) /\ h <= x
      BY <1>8, <2>1
    <2>3. h \in Int /\ x \in Int /\ x <= h
      BY <1>3, <1>4, <2>2
    <2>4. h = x
      BY <2>2, <2>3
    <2> QED BY <2>1, <2>4
  <1>10. Len(Tail(s)) = Len(s) - 1 /\ Len(s) \in Nat
    BY <1>6, TailFacts
  <1>11. ~InQueue(l, x) /\ ~OnWire(l, x)
    BY <1>2, <1>4 DEF Behind
  <1> QED BY <1>1, <1>4, <1>5, <1>6, <1>7, <1>9, <1>10, <1>11


(* Reading the first frame of an answer pairs it with its request.          *)
LEMMA ReadFirst ==
    ASSUME Base, Clear, ~ambiguous, InRead, NEW f, f = Head(down), NEW l, l = f.lane, NEW x, x = Ident(f),
           f.t \in {"created", "error"}
    PROVE  /\ l \in Lanes /\ x \in Sent /\ laneOf[x] = l /\ x \in forwarded /\ x \notin answered /\ ~Known(x)
           /\ Rising(tPending'[l]) /\ Len(tPending[l]) \in Nat /\ Len(tPending'[l]) = Len(tPending[l]) - 1
           /\ \A m \in Lanes : m # l => tPending'[m] = tPending[m]
           /\ \A y : Waits(l, y)' <=> Waits(l, y) /\ y # x
           /\ ~InQueue(l, x) /\ ~OnWire(l, x)
           /\ tCompleted' = tCompleted
           /\ tActive' = IF f.t = "created" THEN [tActive EXCEPT ![x] = x] ELSE tActive
  <1>1. down # <<>> /\ down' = Tail(down) /\ response(f)
    BY DEF InRead
  <1>2. /\ Incoming(f)
        /\ \A m, y : OnReturn(m, y) <=> OnReturn(m, y)' \/ (First(f, m) /\ Ident(f) = y)
        /\ InOrder(l) => \A y : OnReturn(l, y)' /\ First(f, l) => Ident(f) < y
    BY <1>1, DownTail
  <1>3. l \in Lanes /\ x \in Sent /\ x # 0 /\ laneOf[x] = l /\ First(f, l) /\ x \in Int
    BY <1>2, ClearFrame DEF Base, First, Sent
  <1>4. OnReturn(l, x) /\ \A y : OnReturn(l, y) => x <= y
    <2>1. InOrder(l)
      BY <1>3 DEF Clear, LineInv
    <2>2. \A y : OnReturn(l, y) => y \in Int
      BY <1>3, Places DEF Sent
    <2> QED BY <1>2, <1>3, <2>1, <2>2
  <1>5. /\ tPending[l] # <<>> /\ Head(tPending[l]) = x /\ Rising(Tail(tPending[l]))
        /\ Len(Tail(tPending[l])) = Len(tPending[l]) - 1 /\ Len(tPending[l]) \in Nat
        /\ \A y : (\E k \in 1..Len(Tail(tPending[l])) : Tail(tPending[l])[k] = y) <=> Waits(l, y) /\ y # x
        /\ Waits(l, x) /\ ~InQueue(l, x) /\ ~OnWire(l, x)
    BY <1>3, <1>4, OldestFirst
  <1>6. x \in forwarded /\ ~Known(x) /\ x \notin answered
    BY <1>3, <1>5 DEF Clear, WaitingInv
  <1>7. DOMAIN tPending = Lanes
    BY DEF Base, Types, TrackerType
  <1>8. /\ tPending' = [tPending EXCEPT ![l] = Tail(tPending[l])] /\ tCompleted' = tCompleted
        /\ tActive' = IF f.t = "created" THEN [tActive EXCEPT ![x] = x] ELSE tActive
    <2>1. CASE Fails(f)
      BY <2>1 DEF Fails
    <2>2. ~Ignores(f)
      BY <1>5, <1>6 DEF Ignores, Known, Ident
    <2>3. ASSUME NEW rec, Writes(f, rec)
          PROVE  /\ tPending' = [tPending EXCEPT ![l] = Tail(tPending[l])] /\ tCompleted' = tCompleted
                 /\ tActive' = IF f.t = "created" THEN [tActive EXCEPT ![x] = x] ELSE tActive
      <3>1. f.t = "created" /\ f.id = x
        BY <2>3 DEF Writes, Ident
      <3>2. tActive[x] = 0
        BY <1>6 DEF Known
      <3>3. rec = x /\ tPending' = [tPending EXCEPT ![l] = Tail(tPending[l])]
        BY <1>5, <2>3, <3>1, <3>2 DEF Writes
      <3> QED BY <2>3, <3>1, <3>3 DEF Writes
    <2> QED BY <1>1, <1>2, <2>1, <2>2, <2>3, ResponseCases DEF Base
  <1>9. tPending'[l] = Tail(tPending[l]) /\ \A m \in Lanes : m # l => tPending'[m] = tPending[m]
    BY <1>3, <1>7, <1>8
  <1>10. \A y : Waits(l, y)' <=> Waits(l, y) /\ y # x
    <2>1. \A y : Waits(l, y)' <=> \E k \in 1..Len(Tail(tPending[l])) : Tail(tPending[l])[k] = y
      BY <1>9 DEF Waits
    <2> QED BY <1>5, <2>1
  <1> QED BY <1>3, <1>5, <1>6, <1>8, <1>9, <1>10

(* Reading any other frame changes at most how its request stands.          *)
LEMMA ReadOther ==
    ASSUME Base, Clear, ~ambiguous, InRead, NEW f, f = Head(down), NEW x, x = f.id, f.t \notin {"created", "error"}
    PROVE  /\ f.t \in {"ended", "other"} /\ tPending' = tPending
           /\ \/ UNCHANGED <<tActive, tCompleted>> /\ (f.t = "ended" => x \in Sent /\ x \in completed)
              \/ /\ f.t = "ended" /\ x \in Sent /\ tActive[x] = x /\ tCompleted[x] = 0 /\ x \notin completed
                 /\ f.ans = x /\ active[x] = laneOf[x]
                 /\ tActive' = [tActive EXCEPT ![x] = 0] /\ tCompleted' = [tCompleted EXCEPT ![x] = x]
  <1>1. down # <<>> /\ down' = Tail(down) /\ response(f) /\ inFrame = NoFrame
    BY DEF InRead
  <1>2. Incoming(f) /\ f = down[1] /\ 1 \in 1..Len(down)
    <2>1. Incoming(f) /\ Len(down) \in Nat /\ Len(down') \in Nat /\ Len(down) = Len(down') + 1 /\ f = down[1]
      BY <1>1, DownTail
    <2> QED BY <2>1
  <1>3. f.t \in {"ended", "other"}
    BY <1>2 DEF Incoming
  <1>4. CASE f.t = "other"
    BY <1>1, <1>4 DEF response, trackerVars
  <1>5. CASE f.t = "ended"
    <2>1. x \in Sent /\ x \in Requests /\ f.ans \in {0, x}
      BY <1>2, <1>5, Constants DEF Incoming, Base
    <2>2. Known(x) /\ (f.ans = 0 => x \in completed)
      <3>1. /\ Known(x) \/ CreatedBefore(x, 1 - 1)
            /\ f.ans = 0 => x \in completed
        BY <1>2, <1>5 DEF Clear, StartedInv
      <3>2. ~CreatedBefore(x, 1 - 1)
        BY DEF CreatedBefore
      <3> QED BY <3>1, <3>2
    <2>3. /\ tActive[x] \in {0, x} /\ tCompleted[x] \in {0, x}
          /\ x \in completed => tCompleted[x] # 0
          /\ tActive[x] # 0 => active[x] = laneOf[x]
          /\ tCompleted[x] # 0 => x \in completed
      BY <1>1, <2>1 DEF Clear, StageInv, NoFrame
    <2>4. CASE tCompleted[x] # 0
      <3>1. UNCHANGED trackerVars
        BY <1>1, <1>5, <2>4 DEF response, replayed
      <3> QED BY <1>5, <2>1, <2>3, <2>4, <3>1 DEF trackerVars
    <2>5. CASE tCompleted[x] = 0
      <3>1. tActive[x] = x /\ x # 0 /\ x \notin completed /\ f.ans = x /\ active[x] = laneOf[x]
        BY <2>1, <2>2, <2>3, <2>5 DEF Known
      <3>2. ~Fails(f) /\ ~Ignores(f)
        BY <1>5, <2>5 DEF Fails, Ignores
      <3>3. PICK rec : Writes(f, rec)
        BY <1>1, <1>2, <3>2, ResponseCases DEF Base
      <3>4. rec = x /\ tPending' = tPending
        BY <3>1, <3>3 DEF Writes
      <3> QED BY <1>5, <2>1, <2>5, <3>1, <3>3, <3>4 DEF Writes
    <2> QED BY <2>4, <2>5
  <1> QED BY <1>3, <1>4, <1>5


(* What was known stays known, and what a frame begins becomes known.       *)
LEMMA ReadStarted ==
    ASSUME Base, Clear, down # <<>>, down' = Tail(down), NEW f, f = Head(down),
           UNCHANGED <<serving, completed>>,
           \A r \in Sent : Known(r) => Known(r)',
           f.t = "created" => Known(Ident(f))'
    PROVE  StartedInv'
  <1>1. /\ Incoming(f) /\ Len(down) \in Nat /\ Len(down') \in Nat /\ Len(down) = Len(down') + 1
        /\ \A k \in 1..Len(down') : down'[k] = down[k + 1] /\ k + 1 \in 1..Len(down)
        /\ \A x : \A i \in 0..Len(down') :
              CreatedBefore(x, i + 1) => CreatedBefore(x, i)' \/ (f.t = "created" /\ f.id = x)
    BY DownTail
  <1>2. f.t = "created" => Known(f.id)'
    BY DEF Ident
  <1>3. ASSUME NEW k \in 1..Len(down'), NEW r, down'[k].t = "ended", r = down'[k].id
        PROVE  /\ Known(r)' \/ CreatedBefore(r, k - 1)'
               /\ down'[k].ans = 0 => r \in completed'
    <2>1. k - 1 \in 0..Len(down') /\ k + 1 \in 1..Len(down) /\ (k + 1) - 1 = (k - 1) + 1
      BY <1>1
    <2>2. down[k + 1].t = "ended" /\ r = down[k + 1].id /\ down'[k].ans = down[k + 1].ans
      BY <1>1, <1>3
    <2>3. /\ Known(r) \/ CreatedBefore(r, (k - 1) + 1)
          /\ down[k + 1].ans = 0 => r \in completed
      BY <2>1, <2>2 DEF Clear, StartedInv
    <2>4. r \in Sent
      <3>1. Incoming(down[k + 1])
        BY <2>1 DEF Base, Types, FrameType
      <3> QED BY <2>2, <3>1 DEF Incoming
    <2>5. CreatedBefore(r, (k - 1) + 1) => CreatedBefore(r, k - 1)' \/ (f.t = "created" /\ f.id = r)
      BY <1>1, <2>1
    <2> QED BY <1>2, <2>2, <2>3, <2>4, <2>5
  <1>4. ASSUME NEW l \in Lanes, NEW r, r = serving[l], r # 0
        PROVE  Known(r)' \/ CreatedBefore(r, Len(down))'
    <2>1. Known(r) \/ CreatedBefore(r, Len(down') + 1)
      BY <1>1, <1>4 DEF Clear, StartedInv
    <2>2. r \in Sent /\ Len(down') \in 0..Len(down')
      BY <1>1, <1>4 DEF Base, Types, ServerType
    <2>3. CreatedBefore(r, Len(down') + 1) => CreatedBefore(r, Len(down))' \/ (f.t = "created" /\ f.id = r)
      BY <1>1, <2>2
    <2> QED BY <1>2, <2>1, <2>2, <2>3
  <1>5. serving' = serving
    OBVIOUS
  <1> QED BY <1>3, <1>4, <1>5 DEF StartedInv, CreatedBefore, Known

(* A server frame is paired and sent on.                                    *)
LEMMA InReadClear ==
    ASSUME Base, Clear, ~ambiguous, InRead
    PROVE  Clear'
  <1>1. PICK f : f = Head(down)
    OBVIOUS
  <1>2. /\ inFrame = NoFrame /\ down # <<>> /\ down' = Tail(down) /\ inFrame' = f
        /\ UNCHANGED <<unknown, pending, active, completed, wire, queue, serving, frames, laneOf, forwarded, answered>>
    BY <1>1 DEF InRead, boundVars, histVars
  <1>3. /\ Incoming(f)
        /\ \A l, x : OnReturn(l, x) <=> OnReturn(l, x)' \/ (First(f, l) /\ Ident(f) = x)
        /\ \A l : InOrder(l) => InOrder(l)' /\ \A x : OnReturn(l, x)' /\ First(f, l) => Ident(f) < x
    BY <1>1, <1>2, DownTail
  <1>4. /\ \A l, x : (OnWire(l, x)' <=> OnWire(l, x)) /\ (InQueue(l, x)' <=> InQueue(l, x))
        /\ Sent' = Sent /\ Sent \subseteq Int /\ Sent \subseteq Requests /\ \A r \in Requests : r # 0
    BY <1>2, Constants DEF OnWire, InQueue, Sent, Base
  <1>5. \A l \in Lanes : Paired(l) /\ Rising(tPending[l]) /\ Rising(queue[l]) /\ InOrder(l) /\ Behind(l)
    BY DEF Clear, LineInv
  <1>6. /\ inFrame.t = "none"
        /\ tActive \in [Requests -> Records] /\ tCompleted \in [Requests -> Records]
    BY <1>2 DEF NoFrame, Base, Types, TrackerType
  <1>7. \A l \in Lanes : InOrder(l)' /\ Rising(queue'[l])
    BY <1>2, <1>3, <1>5
  <1>8. CASE f.t \in {"created", "error"}
    <2>1. PICK l : l = f.lane
      OBVIOUS
    <2>2. PICK x : x = Ident(f)
      OBVIOUS
    <2>3. /\ l \in Lanes /\ x \in Sent /\ laneOf[x] = l /\ x \in forwarded /\ x \notin answered /\ ~Known(x)
          /\ Rising(tPending'[l]) /\ Len(tPending[l]) \in Nat /\ Len(tPending'[l]) = Len(tPending[l]) - 1
          /\ \A m \in Lanes : m # l => tPending'[m] = tPending[m]
          /\ \A y : Waits(l, y)' <=> Waits(l, y) /\ y # x
          /\ ~InQueue(l, x) /\ ~OnWire(l, x)
          /\ tCompleted' = tCompleted
          /\ tActive' = IF f.t = "created" THEN [tActive EXCEPT ![x] = x] ELSE tActive
      BY <1>1, <1>8, <2>1, <2>2, ReadFirst
    <2>4. \A m \in Lanes : m # l => \A y : Waits(m, y)' <=> Waits(m, y)
      BY <2>3 DEF Waits
    <2>5. x \in Requests /\ x # 0 /\ x \in Int /\ tActive[x] = 0 /\ tCompleted[x] = 0
      BY <1>4, <2>3 DEF Known
    <2>6. \A r : r # x => tActive'[r] = tActive[r]
      BY <2>3
    <2>7. tActive'[x] = IF f.t = "created" THEN x ELSE 0
      BY <1>6, <2>3, <2>5
    <2>8. \A r \in Requests : Known(r)' <=> Known(r) \/ (f.t = "created" /\ r = x)
      BY <2>3, <2>5, <2>6, <2>7 DEF Known
    <2>9. LineInv'
      <3>1. \A m \in Lanes : Rising(tPending'[m])
        BY <1>5, <2>3
      <3>2. \A m, y : m # l => (OnReturn(m, y)' <=> OnReturn(m, y))
        BY <1>3, <2>1 DEF First
      <3>3. First(f, l) /\ (\A y : OnReturn(l, y) <=> OnReturn(l, y)' \/ x = y) /\ (\A y : OnReturn(l, y)' => x < y)
        BY <1>3, <1>5, <1>8, <2>1, <2>2, <2>3 DEF First
      <3>4. \A y \in Sent : OnReturn(l, y)' <=> OnReturn(l, y) /\ y # x
        BY <1>4, <2>3, <2>5, <3>3
      <3>5. ASSUME NEW m \in Lanes PROVE Paired(m)' /\ Behind(m)'
        <4>1. CASE m = l
          <5>1. Paired(m)'
            BY <1>4, <1>5, <2>3, <3>4, <4>1 DEF Paired
          <5>2. Behind(m)'
            BY <1>4, <1>5, <2>3, <3>4, <4>1 DEF Behind
          <5> QED BY <5>1, <5>2
        <4>2. CASE m # l
          BY <1>4, <1>5, <2>4, <3>2, <4>2 DEF Paired, Behind
        <4> QED BY <4>1, <4>2
      <3> QED BY <1>7, <3>1, <3>5 DEF LineInv
    <2>10. StartedInv'
      <3>1. f.t = "created" => Known(x)'
        BY <2>5, <2>8
      <3> QED BY <1>1, <1>2, <1>4, <2>2, <2>8, <3>1, ReadStarted DEF Ident
    <2>11. f.t = "created" => f.id = x
      BY <2>2 DEF Ident
    <2>12. StageInv'
      <3>1. ASSUME NEW r \in Requests
            PROVE  /\ tActive'[r] \in {0, r} /\ tCompleted[r] \in {0, r}
                   /\ tCompleted[r] # 0 => tActive'[r] = 0
                   /\ r \in completed => tCompleted[r] # 0 /\ active[r] = NoLane
                   /\ tActive'[r] # 0 => active[r] = laneOf[r] \/ (f.t = "created" /\ f.id = r)
                   /\ tCompleted[r] # 0 => r \in completed
                   /\ active[r] # NoLane => Known(r)'
        <4>1. CASE r = x
          BY <1>6, <2>5, <2>7, <2>8, <2>11, <4>1 DEF Clear, StageInv
        <4>2. CASE r # x
          BY <1>6, <2>6, <2>8, <4>2 DEF Clear, StageInv
        <4> QED BY <4>1, <4>2
      <3> QED BY <1>2, <2>3, <3>1 DEF StageInv, Known
    <2>13. HandInv'
      <3>1. active[x] = NoLane
        BY <2>3, <2>5 DEF Clear, StageInv
      <3>2. f.t = "error" => f.ans = x /\ f.lane = l /\ ~Waits(l, x)' /\ ~Known(x)'
        BY <2>1, <2>2, <2>3, <2>5, <2>8 DEF Ident
      <3> QED BY <1>2, <1>8, <2>3, <2>5, <2>7, <2>11, <3>1, <3>2 DEF HandInv, Known, Waits
    <2>14. WaitingInv'
      <3>1. ASSUME NEW m \in Lanes, NEW r \in Sent, Waits(m, r)'
            PROVE  laneOf[r] = m /\ r \in forwarded /\ ~Known(r)' /\ r \notin answered
        <4>1. Waits(m, r)
          BY <2>3, <2>4, <3>1
        <4>2. laneOf[r] = m /\ r \in forwarded /\ ~Known(r) /\ r \notin answered
          BY <4>1 DEF Clear, WaitingInv
        <4>3. r # x
          BY <2>3, <3>1, <4>2
        <4> QED BY <1>4, <2>8, <4>2, <4>3
      <3> QED BY <1>2, <1>4, <3>1 DEF WaitingInv
    <2>15. KeptInv'
      <3>1. ASSUME NEW r \in forwarded, NEW m, m = laneOf[r]
            PROVE  Waits(m, r)' \/ active[r] # NoLane \/ r \in answered \/ r = x
        <4>1. m \in Lanes
          BY <3>1 DEF Base, Types, ActivityType
        <4>2. Waits(m, r) \/ active[r] # NoLane \/ r \in answered
          BY <1>6, <3>1 DEF Clear, KeptInv
        <4> QED BY <2>3, <2>4, <4>1, <4>2
      <3>2. \A r \in forwarded : Waits(laneOf[r], r)' \/ active'[r] # NoLane \/ r \in answered' \/ r = x
        BY <1>2, <3>1
      <3> QED BY <1>2, <1>8, <2>2, <3>2 DEF KeptInv, Ident, Waits
    <2>16. AnsweredInv' /\ ActiveInv'
      <3>1. AnsweredInv'
        <4>1. \A r \in answered : tActive'[r] = 0 /\ active[r] = NoLane
          BY <2>3, <2>6 DEF Clear, AnsweredInv
        <4> QED BY <1>2, <4>1 DEF AnsweredInv
      <3>2. ActiveInv'
        <4>1. \A r \in Requests : Known(r)' => r \in forwarded
          BY <2>3, <2>8 DEF Clear, ActiveInv
        <4> QED BY <1>2, <4>1 DEF ActiveInv, Known
      <3> QED BY <3>1, <3>2
    <2>17. CountInv'
      <3>1. ASSUME ~unknown, NEW m \in Lanes
            PROVE  pending[m] = Len(tPending'[m]) + IF First(f, m) THEN 1 ELSE 0
        <4>1. pending[m] = Len(tPending[m]) + 0 /\ Len(tPending[m]) \in Nat
          <5>1. tPending[m] \in Seq(Sent) /\ ~First(inFrame, m)
            BY <1>6 DEF Base, Types, TrackerType, First
          <5> QED BY <3>1, <5>1, LenProperties DEF Clear, CountInv
        <4>2. CASE m = l
          <5>1. First(f, m)
            BY <1>8, <2>1, <4>2 DEF First
          <5> QED BY <2>3, <4>1, <4>2, <5>1
        <4>3. CASE m # l
          <5>1. ~First(f, m)
            BY <2>1, <4>3 DEF First
          <5> QED BY <2>3, <4>1, <4>3, <5>1
        <4> QED BY <4>2, <4>3
      <3> QED BY <1>2, <3>1 DEF CountInv, First
    <2> QED BY <2>9, <2>10, <2>12, <2>13, <2>14, <2>15, <2>16, <2>17 DEF Clear
  <1>9. CASE f.t \notin {"created", "error"}
    <2>1. PICK x : x = f.id
      OBVIOUS
    <2>2. /\ f.t \in {"ended", "other"} /\ tPending' = tPending
          /\ \/ UNCHANGED <<tActive, tCompleted>> /\ (f.t = "ended" => x \in Sent /\ x \in completed)
             \/ /\ f.t = "ended" /\ x \in Sent /\ tActive[x] = x /\ tCompleted[x] = 0 /\ x \notin completed
                /\ f.ans = x /\ active[x] = laneOf[x]
                /\ tActive' = [tActive EXCEPT ![x] = 0] /\ tCompleted' = [tCompleted EXCEPT ![x] = x]
      BY <1>1, <1>9, <2>1, ReadOther
    <2>3. \A m, y : (Waits(m, y)' <=> Waits(m, y)) /\ (OnReturn(m, y)' <=> OnReturn(m, y)) /\ ~First(f, m)
      BY <1>3, <1>9, <2>2 DEF Waits, First
    <2>4. \A r \in Requests : Known(r)' <=> Known(r)
      BY <1>4, <1>6, <2>2 DEF Known
    <2>5. LineInv'
      BY <1>4, <1>5, <1>7, <2>2, <2>3 DEF LineInv, Paired, Behind
    <2>6. StartedInv'
      BY <1>1, <1>2, <1>4, <1>9, <2>4, ReadStarted
    <2>7. StageInv'
      <3>1. ASSUME NEW r \in Requests
            PROVE  /\ tActive'[r] \in {0, r} /\ tCompleted'[r] \in {0, r}
                   /\ tCompleted'[r] # 0 => tActive'[r] = 0
                   /\ r \in completed => tCompleted'[r] # 0 /\ active[r] = NoLane
                   /\ tActive'[r] # 0 => active[r] = laneOf[r]
                   /\ tCompleted'[r] # 0 =>
                        \/ r \in completed
                        \/ f.t = "ended" /\ f.id = r /\ f.ans = r /\ active[r] = laneOf[r]
                   /\ active[r] # NoLane => Known(r)'
        <4>1. /\ tActive[r] \in {0, r} /\ tCompleted[r] \in {0, r}
              /\ tCompleted[r] # 0 => tActive[r] = 0
              /\ r \in completed => tCompleted[r] # 0 /\ active[r] = NoLane
              /\ tActive[r] # 0 => active[r] = laneOf[r]
              /\ tCompleted[r] # 0 => r \in completed
              /\ active[r] # NoLane => Known(r)
          BY <1>6 DEF Clear, StageInv
        <4> QED BY <1>4, <1>6, <2>1, <2>2, <2>4, <4>1
      <3> QED BY <1>2, <3>1 DEF StageInv, Known
    <2>8. HandInv'
      <3>1. f.t = "ended" => tCompleted'[x] # 0
        BY <1>4, <1>6, <2>2 DEF Clear, StageInv
      <3> QED BY <1>2, <1>9, <2>1, <3>1 DEF HandInv
    <2>9. WaitingInv'
      BY <1>2, <1>4, <2>3, <2>4 DEF Clear, WaitingInv
    <2>10. KeptInv'
      <3>1. \A r \in forwarded : Waits(laneOf[r], r) \/ active[r] # NoLane \/ r \in answered
        BY <1>6 DEF Clear, KeptInv
      <3> QED BY <1>2, <2>2, <3>1 DEF KeptInv, Waits
    <2>11. AnsweredInv' /\ ActiveInv'
      <3>1. \A r \in answered : tActive'[r] = 0 /\ active[r] = NoLane
        BY <1>4, <1>6, <2>2 DEF Clear, AnsweredInv, Base, Types, ActivityType
      <3>2. \A r \in Requests : Known(r)' => r \in forwarded
        BY <2>4 DEF Clear, ActiveInv
      <3> QED BY <1>2, <3>1, <3>2 DEF AnsweredInv, ActiveInv, Known
    <2>12. CountInv'
      <3>1. \A m : ~First(inFrame, m)
        BY <1>6 DEF First
      <3>2. \A m : ~First(inFrame, m)'
        BY <1>2, <2>3 DEF First
      <3> QED BY <1>2, <2>2, <3>1, <3>2 DEF Clear, CountInv
    <2> QED BY <2>5, <2>6, <2>7, <2>8, <2>9, <2>10, <2>11, <2>12 DEF Clear
  <1> QED BY <1>8, <1>9


(* What the client gets is accounted for.                                   *)
LEMMA InDoneClear ==
    ASSUME Base, Clear, ~ambiguous, InDone
    PROVE  Clear'
  <1>1. PICK f : f = inFrame
    OBVIOUS
  <1>2. /\ f # NoFrame /\ inFrame' = NoFrame /\ deliveredIn(f) /\ answered' = answered \cup ({f.ans} \ {0})
        /\ UNCHANGED <<tPending, tActive, tCompleted, wire, down, queue, serving, frames, laneOf, forwarded, cancelled>>
    BY <1>1 DEF InDone, serverVars, boundVars, trackerVars
  <1>3. Incoming(f)
    BY <1>1, <1>2 DEF Base, Types, FrameType
  <1>4. /\ pending' = IF Popped(f) THEN [pending EXCEPT ![f.lane] = pending[f.lane] - 1] ELSE pending
        /\ completed' = IF Live(f) /\ f.t = "ended" THEN completed \cup {f.id} ELSE completed
        /\ unknown' = (unknown \/ f.t = "other" \/ (f.t = "error" /\ unclassifiedError(f.lane)))
        /\ \A r \in Requests : ~(Live(f) /\ r = f.id) => active'[r] = active[r]
        /\ Live(f) => active'[f.id] = IF f.t = "ended" THEN NoLane
                                      ELSE IF active[f.id] = NoLane THEN f.lane ELSE active[f.id]
    BY <1>2, <1>3, DeliveredFacts DEF Base
  <1>5. /\ Sent' = Sent /\ Sent \subseteq Int /\ Sent \subseteq Requests /\ (\A r \in Requests : r # 0)
        /\ NoLane \notin Lanes /\ inFrame'.t = "none"
    BY <1>2, Constants DEF Sent, Base, NoFrame
  <1>6. \A l, x : /\ Waits(l, x)' <=> Waits(l, x)
                  /\ OnWire(l, x)' <=> OnWire(l, x)
                  /\ InQueue(l, x)' <=> InQueue(l, x)
                  /\ OnReturn(l, x)' <=> OnReturn(l, x)
    BY <1>2 DEF Waits, OnWire, InQueue, OnReturn, First, Ident
  <1>7. LineInv'
    <2>1. \A l : InOrder(l)' <=> InOrder(l)
      BY <1>2 DEF InOrder, First, Ident
    <2>2. \A l : (Rising(tPending[l]) => Rising(tPending'[l])) /\ (Rising(queue[l]) => Rising(queue'[l]))
      BY <1>2
    <2> QED BY <1>2, <1>5, <1>6, <2>1, <2>2 DEF Clear, LineInv, Paired, Behind
  <1>8. StartedInv'
    <2>1. completed \subseteq completed'
      BY <1>4
    <2> QED BY <1>2, <2>1 DEF Clear, StartedInv, Known, CreatedBefore
  <1>9. ActiveInv' /\ HandInv'
    BY <1>2, <1>5 DEF Clear, ActiveInv, Known, HandInv
  <1>10. \A l : ~First(inFrame, l)'
    BY <1>5 DEF First
  <1>11. \A r \in Requests :
            /\ tActive[r] \in {0, r} /\ tCompleted[r] \in {0, r}
            /\ tCompleted[r] # 0 => tActive[r] = 0
            /\ r \in completed => tCompleted[r] # 0 /\ active[r] = NoLane
            /\ tActive[r] # 0 => active[r] = laneOf[r] \/ (f.t = "created" /\ f.id = r)
            /\ tCompleted[r] # 0 =>
                  \/ r \in completed
                  \/ f.t = "ended" /\ f.id = r /\ f.ans = r /\ active[r] = laneOf[r]
            /\ active[r] # NoLane => Known(r)
    BY <1>1 DEF Clear, StageInv
  <1>12. \A l \in Lanes : pending[l] \in Nat /\ Len(tPending[l]) \in Nat
    <2>1. \A l \in Lanes : tPending[l] \in Seq(Sent)
      BY DEF Base, Types, TrackerType
    <2> QED BY <2>1, LenProperties DEF Base, Types, ActivityType
  <1>13. SUFFICES StageInv' /\ WaitingInv' /\ KeptInv' /\ AnsweredInv' /\ CountInv'
    BY <1>7, <1>8, <1>9 DEF Clear
  <1>14. \A r \in Requests : Known(r)' <=> Known(r)
    BY <1>2 DEF Known
  <1>15. \A r \in forwarded :
            \/ Waits(laneOf[r], r) \/ active[r] # NoLane \/ r \in answered
            \/ (f.t \in {"created", "error"} /\ Ident(f) = r)
    BY <1>1 DEF Clear, KeptInv
  <1>16. f.t \in {"created", "ended", "error", "other"} /\ forwarded \subseteq Requests /\ answered \subseteq Requests
    BY <1>3, <1>5 DEF Incoming, Base, Types, ActivityType
  <1>17. CASE f.t = "other"
    <2>1. answered' = answered /\ completed' = completed /\ unknown' /\ \A r \in Requests : active'[r] = active[r]
      BY <1>2, <1>3, <1>4, <1>17 DEF Incoming, Live
    <2>2. StageInv'
      BY <1>2, <1>11, <1>14, <1>17, <2>1 DEF StageInv, Known
    <2>3. WaitingInv'
      BY <1>2, <1>5, <1>6, <1>14, <2>1 DEF Clear, WaitingInv
    <2>4. KeptInv'
      BY <1>2, <1>15, <1>16, <1>17, <2>1 DEF KeptInv, Waits
    <2>5. AnsweredInv'
      BY <1>2, <1>16, <2>1 DEF Clear, AnsweredInv
    <2>6. CountInv'
      BY <2>1 DEF CountInv
    <2> QED BY <2>2, <2>3, <2>4, <2>5, <2>6
  <1>18. CASE f.t = "error"
    <2>1. PICK x : x = f.ans
      OBVIOUS
    <2>2. PICK l : l = f.lane
      OBVIOUS
    <2>3. x \in Sent /\ x # 0 /\ x \in Requests /\ l \in Lanes /\ laneOf[x] = l /\ l \notin cancelling /\ Ident(f) = x
      BY <1>3, <1>5, <1>18, <2>1, <2>2, ClearFrame DEF Base, Ident
    <2>4. ~Known(x) /\ ~Waits(l, x)
      BY <1>1, <1>18, <2>1, <2>2 DEF Clear, HandInv
    <2>5. tActive[x] = 0 /\ active[x] = NoLane
      BY <1>11, <2>3, <2>4 DEF Known
    <2>6. answered' = answered \cup {x} /\ completed' = completed /\ \A r \in Requests : active'[r] = active[r]
      BY <1>2, <1>4, <1>18, <2>1, <2>3 DEF Live
    <2>7. StageInv'
      BY <1>2, <1>11, <1>14, <1>18, <2>6 DEF StageInv, Known
    <2>8. WaitingInv'
      BY <1>2, <1>5, <1>6, <1>14, <2>3, <2>4, <2>6 DEF Clear, WaitingInv
    <2>9. KeptInv'
      BY <1>2, <1>15, <1>16, <1>18, <2>3, <2>6 DEF KeptInv, Waits
    <2>10. AnsweredInv'
      BY <1>2, <1>16, <2>3, <2>5, <2>6 DEF Clear, AnsweredInv
    <2>11. ASSUME ~unknown', NEW m \in Lanes PROVE pending'[m] = Len(tPending[m]) + 0
      <3>1. ~unknown /\ ~unclassifiedError(l)
        BY <1>4, <1>18, <2>2, <2>11
      <3>2. pending[l] = Len(tPending[l]) + 1 /\ \A k \in Lanes : k # l => pending[k] = Len(tPending[k]) + 0
        <4>1. \A k \in Lanes : pending[k] = Len(tPending[k]) + IF First(f, k) THEN 1 ELSE 0
          BY <1>1, <3>1 DEF Clear, CountInv
        <4>2. First(f, l) /\ \A k \in Lanes : k # l => ~First(f, k)
          BY <1>18, <2>2 DEF First
        <4> QED BY <2>3, <4>1, <4>2
      <3>3. pending[l] > 0
        BY <1>12, <2>3, <3>2
      <3>4. settlesRequest(l)
        BY <2>3, <3>1, <3>3 DEF unclassifiedError
      <3>5. pending' = [pending EXCEPT ![l] = pending[l] - 1]
        BY <1>4, <1>18, <2>2, <3>4 DEF Popped
      <3>6. pending'[m] = IF m = l THEN pending[l] - 1 ELSE pending[m]
        BY <2>3, <3>5 DEF Base, Types, ActivityType
      <3>7. CASE m = l
        BY <1>12, <3>2, <3>6, <3>7
      <3>8. CASE m # l
        BY <1>12, <3>2, <3>6, <3>8
      <3> QED BY <3>7, <3>8
    <2>12. CountInv'
      BY <1>2, <1>10, <1>12, <2>11 DEF CountInv
    <2> QED BY <2>7, <2>8, <2>9, <2>10, <2>12
  <1>19. CASE f.t = "created"
    <2>1. PICK x : x = f.id
      OBVIOUS
    <2>2. PICK l : l = f.lane
      OBVIOUS
    <2>3. x \in Sent /\ x \in Requests /\ l \in Lanes /\ l # NoLane /\ laneOf[x] = l /\ Ident(f) = x /\ f.ans = 0
      BY <1>3, <1>5, <1>19, <2>1, <2>2 DEF Incoming, Ident
    <2>4. tActive[x] # 0 /\ active[x] = NoLane /\ x \notin answered
      BY <1>1, <1>19, <2>1 DEF Clear, HandInv
    <2>5. x \notin completed
      BY <1>11, <2>3, <2>4
    <2>6. Live(f) /\ isNew(x)
      BY <1>19, <2>1, <2>4, <2>5 DEF Live, isNew
    <2>7. /\ answered' = answered /\ completed' = completed /\ active'[x] = l
          /\ \A r \in Requests : r # x => active'[r] = active[r]
          /\ unknown' = unknown
      <3>1. unknown \in BOOLEAN
        BY DEF Base, Types, FlagType
      <3>2. active'[x] = l
        BY <1>4, <1>19, <2>1, <2>2, <2>4, <2>6
      <3>3. unknown' = unknown
        BY <1>4, <1>19, <3>1
      <3> QED BY <1>2, <1>4, <1>19, <2>1, <2>3, <3>2, <3>3
    <2>8. StageInv'
      <3>1. ASSUME NEW r \in Requests
            PROVE  /\ r \in completed => tCompleted[r] # 0 /\ active'[r] = NoLane
                   /\ tActive[r] # 0 => active'[r] = laneOf[r]
                   /\ tCompleted[r] # 0 => r \in completed
                   /\ active'[r] # NoLane => Known(r)
        <4>1. CASE r = x
          BY <1>11, <1>19, <2>3, <2>4, <2>5, <2>7, <4>1 DEF Known
        <4>2. CASE r # x
          BY <1>11, <1>19, <2>1, <2>7, <4>2
        <4> QED BY <4>1, <4>2
      <3> QED BY <1>2, <1>11, <2>7, <3>1 DEF StageInv, Known
    <2>9. WaitingInv'
      BY <1>2, <1>5, <1>6, <1>14, <2>7 DEF Clear, WaitingInv
    <2>10. KeptInv'
      <3>1. \A r \in forwarded : Waits(laneOf[r], r) \/ active'[r] # NoLane \/ r \in answered
        BY <1>15, <1>16, <2>3, <2>7
      <3> QED BY <1>2, <2>7, <3>1 DEF KeptInv, Waits
    <2>11. AnsweredInv'
      BY <1>2, <1>16, <2>4, <2>7 DEF Clear, AnsweredInv
    <2>12. ASSUME ~unknown', NEW m \in Lanes PROVE pending'[m] = Len(tPending[m]) + 0
      <3>1. pending[l] = Len(tPending[l]) + 1 /\ \A k \in Lanes : k # l => pending[k] = Len(tPending[k]) + 0
        <4>1. \A k \in Lanes : pending[k] = Len(tPending[k]) + IF First(f, k) THEN 1 ELSE 0
          BY <1>1, <2>7, <2>12 DEF Clear, CountInv
        <4>2. First(f, l) /\ \A k \in Lanes : k # l => ~First(f, k)
          BY <1>19, <2>2 DEF First
        <4> QED BY <2>3, <4>1, <4>2
      <3>2. pending[l] > 0
        BY <1>12, <2>3, <3>1
      <3>3. pending' = [pending EXCEPT ![l] = pending[l] - 1]
        BY <1>4, <2>1, <2>2, <2>6, <3>2 DEF Popped
      <3>4. pending'[m] = IF m = l THEN pending[l] - 1 ELSE pending[m]
        BY <2>3, <3>3 DEF Base, Types, ActivityType
      <3>5. CASE m = l
        BY <1>12, <3>1, <3>4, <3>5
      <3>6. CASE m # l
        BY <1>12, <3>1, <3>4, <3>6
      <3> QED BY <3>5, <3>6
    <2>13. CountInv'
      BY <1>2, <1>10, <1>12, <2>12 DEF CountInv
    <2> QED BY <2>8, <2>9, <2>10, <2>11, <2>13
  <1>20. CASE f.t = "ended"
    <2>1. PICK x : x = f.id
      OBVIOUS
    <2>2. x \in Sent /\ x \in Requests /\ x # 0 /\ f.ans \in {0, x} /\ laneOf[x] \in Lanes
      BY <1>3, <1>5, <1>20, <2>1 DEF Incoming
    <2>3. tCompleted[x] # 0 /\ tActive[x] = 0
      BY <1>1, <1>11, <1>20, <2>1, <2>2 DEF Clear, HandInv
    <2>4. x \in completed \/ (f.ans = x /\ active[x] = laneOf[x] /\ active[x] # NoLane)
      BY <1>5, <1>11, <2>2, <2>3
    <2>5. ~Popped(f)
      BY <1>20, <2>1, <2>4 DEF Popped, Live, isNew
    <2>6. /\ pending' = pending /\ completed' = completed \cup {x}
          /\ active'[x] = NoLane /\ \A r \in Requests : r # x => active'[r] = active[r]
      <3>1. CASE x \in completed
        <4>1. ~Live(f)
          BY <2>1, <3>1 DEF Live
        <4>2. active[x] = NoLane
          BY <1>11, <2>2, <3>1
        <4> QED BY <1>4, <2>2, <2>5, <3>1, <4>1, <4>2
      <3>2. CASE x \notin completed
        <4>1. Live(f)
          BY <1>20, <2>1, <3>2 DEF Live
        <4> QED BY <1>4, <1>20, <2>1, <2>5, <4>1
      <3> QED BY <3>1, <3>2
    <2>7. unknown' = unknown
      <3>1. unknown \in BOOLEAN
        BY DEF Base, Types, FlagType
      <3> QED BY <1>4, <1>20, <3>1
    <2>8. answered \subseteq answered' /\ answered' \subseteq answered \cup {x} /\ (x \in completed \/ x \in answered')
      BY <1>2, <2>2, <2>4
    <2>9. StageInv'
      <3>1. ASSUME NEW r \in Requests
            PROVE  /\ r \in completed' => tCompleted[r] # 0 /\ active'[r] = NoLane
                   /\ tActive[r] # 0 => active'[r] = laneOf[r]
                   /\ tCompleted[r] # 0 => r \in completed'
                   /\ active'[r] # NoLane => Known(r)
        <4>1. CASE r = x
          BY <2>3, <2>6, <4>1
        <4>2. CASE r # x
          BY <1>11, <1>20, <2>1, <2>6, <4>2
        <4> QED BY <4>1, <4>2
      <3> QED BY <1>2, <1>11, <3>1 DEF StageInv, Known
    <2>10. WaitingInv'
      <3>1. Known(x)
        BY <2>3 DEF Known
      <3> QED BY <1>2, <1>5, <1>6, <1>14, <2>8, <3>1 DEF Clear, WaitingInv
    <2>11. KeptInv'
      <3>1. ASSUME NEW r \in forwarded PROVE Waits(laneOf[r], r) \/ active'[r] # NoLane \/ r \in answered'
        <4>1. CASE r = x /\ x \in completed
          <5>1. active[x] = NoLane
            BY <1>11, <2>2, <4>1
          <5> QED BY <1>15, <1>20, <2>8, <4>1, <5>1
        <4>2. CASE r = x /\ x \notin completed
          BY <2>8, <4>2
        <4>3. CASE r # x
          BY <1>15, <1>16, <1>20, <2>6, <2>8, <4>3
        <4> QED BY <4>1, <4>2, <4>3
      <3> QED BY <1>2, <3>1 DEF KeptInv, Waits
    <2>12. AnsweredInv'
      BY <1>2, <1>16, <2>3, <2>6, <2>8 DEF Clear, AnsweredInv
    <2>13. CountInv'
      <3>1. ASSUME ~unknown, NEW m \in Lanes PROVE pending[m] = Len(tPending[m]) + 0
        <4>1. ~First(inFrame, m)
          BY <1>1, <1>20 DEF First
        <4> QED BY <3>1, <4>1 DEF Clear, CountInv
      <3> QED BY <1>2, <1>10, <1>12, <2>6, <2>7, <3>1 DEF CountInv
    <2> QED BY <2>9, <2>10, <2>11, <2>12, <2>13
  <1> QED BY <1>16, <1>17, <1>18, <1>19, <1>20


-----------------------------------------------------------------------------
(* The invariant                                                            *)

(* A connection with no work left has answered everything it sent on.       *)
LEMMA IdleIsAnswered == Base /\ Clear /\ open /\ ~busy => forwarded \subseteq answered
  <1> SUFFICES ASSUME Base, Clear, open, ~busy PROVE forwarded \subseteq answered
    OBVIOUS
  <1>1. ~unknown /\ ~(forwarding > 0) /\ (\A r \in Requests : active[r] = NoLane) /\ \A l \in Lanes : ~(pending[l] > 0)
    BY DEF busy
  <1>2. inFrame = NoFrame
    BY <1>1 DEF Base, ForwardInv
  <1>3. ASSUME NEW r \in forwarded PROVE r \in answered
    <2>1. r \in Requests /\ laneOf[r] \in Lanes
      BY <1>3, Constants DEF Base, Types, ActivityType
    <2>2. PICK l \in Lanes : l = laneOf[r]
      BY <2>1
    <2>3. inFrame.t = "none" /\ ~First(inFrame, l)
      BY <1>2 DEF NoFrame, First
    <2>4. pending[l] = Len(tPending[l]) + 0
      BY <1>1, <2>3 DEF Clear, CountInv
    <2>5. Len(tPending[l]) \in Nat /\ pending[l] \in Nat
      <3>1. tPending[l] \in Seq(Sent)
        BY DEF Base, Types, TrackerType
      <3> QED BY <3>1, LenProperties DEF Base, Types, ActivityType
    <2>6. Len(tPending[l]) = 0
      BY <1>1, <2>4, <2>5
    <2>7. ~Waits(l, r)
      BY <2>6 DEF Waits
    <2> QED BY <1>1, <1>3, <2>1, <2>2, <2>3, <2>7 DEF Clear, KeptInv
  <1> QED BY <1>3

(* Cancels and errors are remembered.                                       *)
LEMMA Remembered ==
    ASSUME [Next]_vars
    PROVE  /\ cancelled \subseteq cancelled' /\ erring \subseteq erring' /\ answered \subseteq answered'
           /\ ~ambiguous' => ~ambiguous
  <1>1. CASE Client
    BY <1>1 DEF Client, OutRead, ambiguous
  <1>2. CASE OutDone \/ InRead \/ InDone
    BY <1>2 DEF OutDone, InRead, InDone, histVars, ambiguous
  <1>3. CASE Reap \/ Close \/ StartDrain \/ UNCHANGED vars
    BY <1>3 DEF Reap, Close, StartDrain, vars, histVars, ambiguous
  <1>4. CASE Server \/ ServerNotice \/ \E r \in Requests : ServerReplay(r)
    <2>1. serverFrame /\ erring \subseteq erring'
      BY <1>4 DEF Server, ServerTake, ServerStart, ServerReject, ServerEnd, ServerNotice, ServerReplay, Send
    <2> QED BY <2>1 DEF serverFrame, ambiguous
  <1> QED BY <1>1, <1>2, <1>3, <1>4 DEF Next, Relay

(* Every step keeps the types and what holds in any lane.                   *)
LEMMA BaseStep ==
    ASSUME Base, [Next]_vars
    PROVE  Base'
  <1>1. CASE Client
    <2>1. PICK kind \in {"create", "cancel", "other"}, lane \in Lanes : OutRead(kind, lane)
      BY <1>1, KindsAssumption DEF Client
    <2> QED BY <2>1, OutReadBase
  <1>2. CASE InRead
    BY <1>2, InReadBase
  <1>3. CASE InDone
    BY <1>3, InDoneBase
  <1>4. CASE Close
    BY <1>4, CloseBase
  <1>5. CASE OutDone \/ Reap \/ StartDrain \/ UNCHANGED vars
    BY <1>5, QuietBase
  <1>6. CASE ServerTake
    BY <1>6, ServerTakeBase
  <1>7. CASE \E lane \in Lanes : ServerStart(lane) \/ ServerReject(lane) \/ ServerEnd(lane)
    BY <1>7, ServerLaneBase
  <1>8. CASE ServerNotice \/ \E r \in Requests : ServerReplay(r)
    BY <1>8, ServerExtraBase
  <1> QED BY <1>1, <1>2, <1>3, <1>4, <1>5, <1>6, <1>7, <1>8 DEF Next, Relay, Server

(* Every step keeps what holds as long as no lane is ambiguous.             *)
LEMMA ClearStep ==
    ASSUME Base, ClearInv, [Next]_vars
    PROVE  ClearInv'
  <1> SUFFICES ASSUME open', ~ambiguous' PROVE Clear'
    BY DEF ClearInv
  <1>1. ~ambiguous
    BY Remembered
  <1>2. CASE Client
    <2>1. PICK kind \in {"create", "cancel", "other"}, lane \in Lanes : OutRead(kind, lane)
      BY <1>2, KindsAssumption DEF Client
    <2>2. open
      BY <2>1 DEF OutRead
    <2> QED BY <1>1, <2>1, <2>2, OutReadClear DEF ClearInv
  <1>3. CASE InRead
    <2>1. open
      BY <1>3 DEF InRead
    <2> QED BY <1>1, <1>3, <2>1, InReadClear DEF ClearInv
  <1>4. CASE InDone
    <2>1. open
      BY <1>4 DEF InDone
    <2> QED BY <1>1, <1>4, <2>1, InDoneClear DEF ClearInv
  <1>5. CASE Close
    BY <1>5 DEF Close
  <1>6. CASE OutDone \/ Reap \/ StartDrain \/ UNCHANGED vars
    <2>1. open
      BY <1>6 DEF OutDone, Reap, StartDrain, vars
    <2> QED BY <1>1, <1>6, <2>1, QuietClear DEF ClearInv
  <1>7. CASE ServerTake
    <2>1. open
      BY <1>7 DEF ServerTake
    <2> QED BY <1>1, <1>7, <2>1, ServerTakeClear DEF ClearInv
  <1>8. CASE \E lane \in Lanes : ServerStart(lane) \/ ServerReject(lane) \/ ServerEnd(lane)
    <2>1. open
      BY <1>8 DEF ServerStart, ServerReject, ServerEnd
    <2> QED BY <1>1, <1>8, <2>1, ServerLaneClear DEF ClearInv
  <1>9. CASE ServerNotice \/ \E r \in Requests : ServerReplay(r)
    <2>1. open
      BY <1>9 DEF ServerNotice, ServerReplay
    <2> QED BY <1>1, <1>9, <2>1, ServerExtraClear DEF ClearInv
  <1> QED BY <1>2, <1>3, <1>4, <1>5, <1>6, <1>7, <1>8, <1>9 DEF Next, Relay, Server

(* Only a connection with nothing left to do is chosen for retirement.      *)
LEMMA ClosingStep ==
    ASSUME Base, Base', ClearInv', ClosingInv, [Next]_vars
    PROVE  ClosingInv'
  <1> SUFFICES ASSUME closing', ~ambiguous' PROVE forwarded' \subseteq answered'
    BY DEF ClosingInv
  <1>1. ~ambiguous /\ answered \subseteq answered'
    BY Remembered
  <1>2. closing => forwarded \subseteq answered
    BY <1>1 DEF ClosingInv
  <1>3. ASSUME open', ~busy' PROVE forwarded' \subseteq answered'
    <2>1. (Base /\ Clear /\ open /\ ~busy => forwarded \subseteq answered)'
      BY IdleIsAnswered, PTL
    <2>2. Clear'
      BY <1>3 DEF ClearInv
    <2> QED BY <1>3, <2>1, <2>2
  <1>4. CASE Client \/ InRead
    <2>1. ~closing /\ closing' = closing
      BY <1>4 DEF Client, OutRead, InRead, beginOut
    <2> QED BY <2>1
  <1>5. CASE OutDone \/ InDone
    <2>1. open' /\ forwarded' = forwarded /\ reaped
      BY <1>5 DEF OutDone, InDone, histVars
    <2>2. closing' \in (IF busy' THEN {closing} ELSE {closing, TRUE})
      BY <2>1 DEF reaped
    <2>3. CASE busy'
      BY <1>1, <1>2, <2>1, <2>2, <2>3
    <2>4. CASE ~busy'
      BY <1>3, <2>1, <2>4
    <2> QED BY <2>3, <2>4
  <1>6. CASE Reap
    <2>1. open' /\ ~busy'
      BY <1>6 DEF Reap, busy
    <2> QED BY <1>3, <2>1
  <1>7. CASE Close \/ StartDrain \/ UNCHANGED vars
    <2>1. closing' = closing /\ forwarded' = forwarded
      BY <1>7 DEF Close, StartDrain, vars, activityVars, histVars
    <2> QED BY <1>1, <1>2, <2>1
  <1>8. CASE Server \/ ServerNotice \/ \E r \in Requests : ServerReplay(r)
    <2>1. serverFrame
      BY <1>8 DEF Server, ServerTake, ServerStart, ServerReject, ServerEnd, ServerNotice, ServerReplay
    <2>2. closing' = closing /\ forwarded' = forwarded
      BY <2>1 DEF serverFrame, activityVars
    <2> QED BY <1>1, <1>2, <2>2
  <1> QED BY <1>4, <1>5, <1>6, <1>7, <1>8 DEF Next, Relay

(* IInv holds in every state of every behaviour of the connection: the      *)
(* Tracker pairs in order and Activity counts exactly.                      *)
THEOREM Invariance == Spec => []IInv
  <1>1. Init => IInv
    BY InitHolds
  <1>2. IInv /\ [Next]_vars => IInv'
    <2> SUFFICES ASSUME IInv, [Next]_vars PROVE IInv'
      OBVIOUS
    <2>1. Base /\ ClearInv /\ ClosingInv
      BY DEF IInv, Base
    <2>2. Base'
      BY <2>1, BaseStep
    <2>3. ClearInv'
      BY <2>1, ClearStep
    <2>4. ClosingInv'
      BY <2>1, <2>2, <2>3, ClosingStep
    <2> QED BY <2>2, <2>3, <2>4 DEF IInv, Base
  <1> QED BY <1>1, <1>2, PTL DEF Spec

(* A connection chosen for retirement has given the client the answer of    *)
(* every request sent on, and one with everything answered counts as idle:  *)
(* Activity neither forgets work nor invents it.                            *)
THEOREM ActivityIsExact == Spec => []ActivityExact
  <1>1. IInv => ActivityExact
    <2> SUFFICES ASSUME IInv PROVE ActivityExact
      OBVIOUS
    <2>1. closing /\ ~ambiguous => forwarded \subseteq answered
      BY DEF IInv, ClosingInv
    <2>2. ASSUME open, forwarded \subseteq answered, ~unknown, ~ambiguous, outFrame = NoFrame, inFrame = NoFrame
          PROVE  ~busy
      <3>1. Clear
        BY <2>2 DEF IInv, ClearInv
      <3>2. ~(forwarding > 0)
        BY <2>2 DEF IInv, ForwardInv
      <3>3. \A r \in Requests : active[r] = NoLane
        BY <2>2, <3>1 DEF Clear, StageInv, ActiveInv, AnsweredInv
      <3>4. ASSUME NEW l \in Lanes PROVE ~(pending[l] > 0)
        <4>1. PICK s \in Seq(Sent) : s = tPending[l]
          BY DEF IInv, Types, TrackerType
        <4>2. ~First(inFrame, l)
          BY <2>2 DEF NoFrame, First
        <4>3. pending[l] = Len(s) + 0
          BY <2>2, <3>1, <4>1, <4>2 DEF Clear, CountInv
        <4>4. s = <<>>
          <5>1. ASSUME s # <<>> PROVE FALSE
            <6>1. Len(s) \in Nat \ {0} /\ \A k \in 1..Len(s) : s[k] \in Sent
              BY <5>1, TailFacts
            <6>2. 1 \in 1..Len(s)
              BY <6>1
            <6>3. s[1] \in Sent /\ Waits(l, s[1])
              BY <4>1, <6>1, <6>2 DEF Waits
            <6> QED BY <2>2, <3>1, <6>3 DEF Clear, WaitingInv
          <5> QED BY <5>1
        <4> QED BY <4>3, <4>4, EmptySeq
      <3> QED BY <2>2, <3>2, <3>3, <3>4 DEF busy
    <2> QED BY <2>1, <2>2 DEF ActivityExact
  <1> QED BY <1>1, Invariance, PTL

(* A response is recorded under the request it answers, or alone, and when  *)
(* the handler has ended no record of it is left open.                      *)
THEOREM RecordsAreSound == Spec => []RecordsSound
  <1>1. IInv => RecordsSound
    <2> SUFFICES ASSUME IInv PROVE RecordsSound
      OBVIOUS
    <2>1. ASSUME ~ambiguous, NEW r \in Requests
          PROVE  tActive[r] \in {0, r, -r} /\ tCompleted[r] \in {0, r, -r}
      <3>1. CASE open
        BY <2>1, <3>1 DEF IInv, ClearInv, Clear, StageInv
      <3>2. CASE ~open
        BY <2>1, <3>2 DEF IInv, EndInv
      <3> QED BY <3>1, <3>2
    <2>2. DOMAIN saved = Records
      BY DEF IInv, Types, TrackerType
    <2>3. ~open => \A x \in DOMAIN saved : saved[x] \notin {"pending", "created"}
      BY <2>2 DEF IInv, OpenInv
    <2> QED BY <2>1, <2>3 DEF RecordsSound
  <1> QED BY <1>1, Invariance, PTL
=============================================================================
