----------------------------- MODULE RelaySocket -----------------------------
(***************************************************************************)
(* One relayed WebSocket connection: the two relay() tasks of              *)
(* model_proxy.py, the Activity that decides when the connection may be    *)
(* retired (proxy_websocket.py) and the Tracker that pairs requests with   *)
(* responses for the observation store (model_proxy.py).                   *)
(*                                                                         *)
(* The tasks run on one event loop; they interleave only where they await, *)
(* which is while a frame is being sent on.  The client may send any frame *)
(* at any time.  The upstream server is external: it answers the requests  *)
(* of a lane in their order, with a response or with an error, answers a   *)
(* cancel that finds nothing to cancel with an error, and may repeat a     *)
(* terminal frame or send a notice.  A request is its number; the response *)
(* that truly answers it carries the same number, which the relay does not *)
(* rely on.                                                                *)
(***************************************************************************)
EXTENDS Integers, Sequences, FiniteSets, Functions

CONSTANTS
    Lanes,          \* stream_id values
    ClientKinds,    \* the frames the client sends: "create", "cancel", "other"
    MaxFrames,      \* bound: frames sent by the client
    MaxReplays      \* bound: repeated terminal frames and notices of the server

ASSUME LanesAssumption == Lanes # {} /\ "none" \notin Lanes
ASSUME KindsAssumption == ClientKinds \subseteq {"create", "cancel", "other"}
ASSUME FramesAssumption == MaxFrames \in Nat /\ MaxReplays \in Nat

Requests == 1..MaxFrames
NoLane == "none"
NoFrame == [t |-> "none", id |-> 0, lane |-> NoLane, ans |-> 0]

VARIABLES
    open, draining,     \* the handler runs; budget.draining
    closing, unknown, forwarding, pending, active, completed, cancelling, \* Activity
    tPending, tActive, tCompleted, saved, \* Tracker, and the last status saved of each record
    outFrame, inFrame,  \* the frame each relay() task is sending on
    wire, down,         \* frames on their way to and from the server
    queue, serving,     \* server: requests of a lane not yet answered, the response under way
    frames, replays, laneOf, \* bounds; the lane of each request
    forwarded, answered, \* history: requests sent on; requests whose answer the client has
    cancelled, erring   \* history: lanes with a cancel; lanes in which the server sent an error

activityVars == <<closing, unknown, forwarding, pending, active, completed, cancelling>>
trackerVars == <<tPending, tActive, tCompleted, saved>>
taskVars == <<outFrame, inFrame>>
serverVars == <<wire, down, queue, serving>>
boundVars == <<frames, replays, laneOf>>
histVars == <<forwarded, answered, cancelled, erring>>
vars == <<open, draining, activityVars, trackerVars, taskVars, serverVars, boundVars, histVars>>

Init ==
    /\ open = TRUE /\ draining = FALSE
    /\ closing = FALSE /\ unknown = FALSE /\ forwarding = 0
    /\ pending = [l \in Lanes |-> 0] /\ active = [r \in Requests |-> NoLane]
    /\ completed = {} /\ cancelling = {}
    /\ tPending = [l \in Lanes |-> <<>>]
    /\ tActive = [r \in Requests |-> 0] /\ tCompleted = [r \in Requests |-> 0]
    /\ saved = [r \in -MaxFrames..MaxFrames |-> "none"]
    /\ outFrame = NoFrame /\ inFrame = NoFrame
    /\ wire = <<>> /\ down = <<>>
    /\ queue = [l \in Lanes |-> <<>>] /\ serving = [l \in Lanes |-> 0]
    /\ frames = 0 /\ replays = 0 /\ laneOf = [r \in Requests |-> NoLane]
    /\ forwarded = {} /\ answered = {} /\ cancelled = {} /\ erring = {}

----------------------------------------------------------------------------
(* Activity                                                                 *)

\* Mutant: requests that no response was seen of yet are not work.
busy_started == unknown \/ forwarding > 0 \/ \E r \in Requests : active[r] # NoLane

busy == unknown \/ forwarding > 0 \/ (\E r \in Requests : active[r] # NoLane)
        \/ \E l \in Lanes : pending[l] > 0

\* begin(obj, outbound)
beginOut(f) ==
    /\ forwarding' = forwarding + 1
    /\ pending' = IF f.t = "create" THEN [pending EXCEPT ![f.lane] = @ + 1] ELSE pending
    /\ cancelling' = IF f.t = "cancel" THEN cancelling \cup {f.lane} ELSE cancelling
    /\ unknown' = (unknown \/ f.t = "other")
    /\ UNCHANGED <<closing, active, completed>>

\* Is this the first frame of a response not seen before?
isNew(rid) == rid \notin completed /\ active[rid] = NoLane

\* The error is the answer of the only request waiting in its lane.
settlesRequest(lane) ==
    /\ lane \notin cancelling /\ pending[lane] = 1
    /\ \A r \in Requests : active[r] # lane

\* An error that might be about other work makes the connection unknown.
unclassifiedError(lane) ==
    /\ lane \notin cancelling /\ ~settlesRequest(lane)
    /\ pending[lane] > 0 \/ \E r \in Requests : active[r] # NoLane

\* delivered(obj, outbound = False)
deliveredIn(f) ==
    LET live == f.t \in {"created", "ended"} /\ f.id \notin completed
        popped == \/ f.t = "error" /\ settlesRequest(f.lane)
                  \/ live /\ isNew(f.id) /\ pending[f.lane] > 0
        lane == IF isNew(f.id) THEN f.lane ELSE active[f.id]
    IN  /\ pending' = IF popped THEN [pending EXCEPT ![f.lane] = @ - 1] ELSE pending
        /\ active' = IF live THEN [active EXCEPT ![f.id] = IF f.t = "ended" THEN NoLane ELSE lane]
                     ELSE active
        /\ completed' = IF live /\ f.t = "ended" THEN completed \cup {f.id} ELSE completed
        /\ cancelling' = IF live /\ f.t = "ended" THEN cancelling \ {lane} ELSE cancelling
        /\ unknown' = (unknown \/ f.t = "other" \/ (f.t = "error" /\ unclassifiedError(f.lane)))
        /\ forwarding' = forwarding - 1

\* reap() as the last call of an action: an idle connection is
\* retired when draining, or may be for its age, its idle time, the idle limit
\* or pressure.
reaped == closing' \in (IF busy' THEN {closing} ELSE IF draining THEN {TRUE} ELSE {closing, TRUE})

----------------------------------------------------------------------------
(* Tracker                                                                  *)

request(r, lane) ==
    /\ tPending' = [tPending EXCEPT ![lane] = Append(@, r)]
    /\ saved' = [saved EXCEPT ![r] = "pending"]
    /\ UNCHANGED <<tActive, tCompleted>>

\* The record of response rid: the oldest request of its lane, or -rid, a
\* record of the response alone.
recordOf(rid, lane) ==
    IF tActive[rid] # 0 THEN tActive[rid]
    ELSE IF tPending[lane] # <<>> THEN Head(tPending[lane]) ELSE -rid

\* Mutant: every frame is taken for part of a response that is under way.
replayed_never(rid) == FALSE

\* A frame of a response that is complete changes no pairing.
replayed(rid) == tCompleted[rid] # 0

response(f) ==
    IF f.t = "error"
    THEN /\ IF tPending[f.lane] # <<>>
            THEN /\ saved' = [saved EXCEPT ![Head(tPending[f.lane])] = "failed"]
                 /\ tPending' = [tPending EXCEPT ![f.lane] = Tail(@)]
            ELSE UNCHANGED <<saved, tPending>>
         /\ UNCHANGED <<tActive, tCompleted>>
    ELSE IF f.t = "other" \/ replayed(f.id)
    THEN UNCHANGED trackerVars
    ELSE LET rec == recordOf(f.id, f.lane) IN
         /\ tPending' = IF tActive[f.id] = 0 /\ tPending[f.lane] # <<>>
                        THEN [tPending EXCEPT ![f.lane] = Tail(@)] ELSE tPending
         /\ tActive' = [tActive EXCEPT ![f.id] = IF f.t = "ended" THEN 0 ELSE rec]
         /\ tCompleted' = IF f.t = "ended" THEN [tCompleted EXCEPT ![f.id] = rec] ELSE tCompleted
         /\ saved' = [saved EXCEPT ![rec] = f.t]

\* finish(): what is neither answered nor failed was disconnected.
finish ==
    LET unsettled == (Range(tActive) \ {0}) \cup UNION {Range(tPending[l]) : l \in Lanes}
    IN  /\ saved' = [r \in DOMAIN saved |-> IF r \in unsettled THEN "disconnected" ELSE saved[r]]
        /\ tPending' = [l \in Lanes |-> <<>>]
        /\ tActive' = [r \in Requests |-> 0] /\ tCompleted' = [r \in Requests |-> 0]

----------------------------------------------------------------------------
(* The relay tasks                                                          *)

\* relay(downstream, upstream_ws, True): a client frame is accounted for,
\* recorded and written to the server's socket; then the task awaits.
OutRead(kind, lane) ==
    LET f == [t |-> kind, id |-> frames + 1, lane |-> lane, ans |-> 0] IN
    /\ open /\ outFrame = NoFrame /\ ~closing /\ frames < MaxFrames
    /\ beginOut(f)
    /\ IF kind = "create" THEN request(f.id, lane) ELSE UNCHANGED trackerVars
    /\ wire' = Append(wire, f) /\ outFrame' = f
    /\ frames' = frames + 1 /\ laneOf' = [laneOf EXCEPT ![f.id] = lane]
    /\ forwarded' = IF kind = "create" THEN forwarded \cup {f.id} ELSE forwarded
    /\ cancelled' = IF kind = "cancel" THEN cancelled \cup {lane} ELSE cancelled
    /\ UNCHANGED <<open, draining, inFrame, down, queue, serving, replays, answered, erring>>

\* delivered(obj, outbound = True), then reap()
OutDone ==
    /\ open /\ outFrame # NoFrame
    /\ forwarding' = forwarding - 1 /\ outFrame' = NoFrame
    /\ UNCHANGED <<open, draining, unknown, pending, active, completed, cancelling,
                   trackerVars, inFrame, serverVars, boundVars, histVars>>
    /\ reaped

\* relay(upstream_ws, downstream, False): a server frame is recorded before
\* it is sent to the client.
InRead ==
    /\ open /\ inFrame = NoFrame /\ ~closing /\ down # <<>>
    /\ forwarding' = forwarding + 1
    /\ response(Head(down))
    /\ inFrame' = Head(down) /\ down' = Tail(down)
    /\ UNCHANGED <<open, draining, closing, unknown, pending, active, completed, cancelling,
                   outFrame, wire, queue, serving, boundVars, histVars>>

\* The client has the frame: delivered(obj, outbound = False), then reap().
InDone ==
    /\ open /\ inFrame # NoFrame
    /\ deliveredIn(inFrame) /\ reaped
    /\ answered' = answered \cup ({inFrame.ans} \ {0})
    /\ inFrame' = NoFrame
    /\ UNCHANGED <<open, draining, trackerVars, outFrame, serverVars, boundVars, forwarded, cancelled, erring>>

\* Mutant: while draining, only traffic retires a connection.
Reap_beforeDrain ==
    /\ open /\ ~closing /\ ~busy /\ ~draining
    /\ closing' = TRUE
    /\ UNCHANGED <<open, draining, unknown, forwarding, pending, active, completed, cancelling,
                   trackerVars, taskVars, serverVars, boundVars, histVars>>

\* reap() called by the watch task or for another connection.
Reap ==
    /\ open /\ ~closing /\ ~busy
    /\ closing' = TRUE
    /\ UNCHANGED <<open, draining, unknown, forwarding, pending, active, completed, cancelling,
                   trackerVars, taskVars, serverVars, boundVars, histVars>>

\* WebSocketClose ends both readers and both peers, or aborts them; then the
\* handler's finally clause.  Either peer may also disconnect at any time.
Close ==
    /\ open
    /\ finish /\ completed' = {}
    /\ open' = FALSE /\ outFrame' = NoFrame /\ inFrame' = NoFrame
    /\ UNCHANGED <<draining, closing, unknown, forwarding, pending, active, cancelling,
                   serverVars, boundVars, histVars>>

\* apply_control, or ManagedProxy.tick
StartDrain ==
    /\ ~draining
    /\ draining' = TRUE
    /\ UNCHANGED <<open, activityVars, trackerVars, taskVars, serverVars, boundVars, histVars>>

----------------------------------------------------------------------------
(* The upstream server (external)                                           *)

serverFrame == UNCHANGED <<open, draining, activityVars, trackerVars, taskVars, frames, laneOf, forwarded, answered, cancelled>>
Send(t, id, lane, ans) ==
    /\ down' = Append(down, [t |-> t, id |-> id, lane |-> lane, ans |-> ans])
    /\ erring' = IF t = "error" THEN erring \cup {lane} ELSE erring

\* A create is queued in its lane; a cancel ends the response under way, or
\* is answered with an error.
ServerTake ==
    LET f == Head(wire) IN
    /\ open /\ wire # <<>>
    /\ wire' = Tail(wire)
    /\ queue' = IF f.t = "create" THEN [queue EXCEPT ![f.lane] = Append(@, f.id)] ELSE queue
    /\ IF f.t = "cancel"
       THEN IF serving[f.lane] # 0
            THEN /\ Send("ended", serving[f.lane], f.lane, serving[f.lane])
                 /\ serving' = [serving EXCEPT ![f.lane] = 0]
            ELSE Send("error", 0, f.lane, 0) /\ UNCHANGED serving
       ELSE UNCHANGED <<down, serving, erring>>
    /\ UNCHANGED replays /\ serverFrame

ServerStart(lane) ==
    /\ open /\ queue[lane] # <<>> /\ serving[lane] = 0
    /\ Send("created", Head(queue[lane]), lane, 0)
    /\ serving' = [serving EXCEPT ![lane] = Head(queue[lane])]
    /\ queue' = [queue EXCEPT ![lane] = Tail(@)]
    /\ UNCHANGED <<wire, replays>> /\ serverFrame

ServerReject(lane) ==
    /\ open /\ queue[lane] # <<>>
    /\ Send("error", 0, lane, Head(queue[lane]))
    /\ queue' = [queue EXCEPT ![lane] = Tail(@)]
    /\ UNCHANGED <<wire, serving, replays>> /\ serverFrame

ServerEnd(lane) ==
    /\ open /\ serving[lane] # 0
    /\ Send("ended", serving[lane], lane, serving[lane])
    /\ serving' = [serving EXCEPT ![lane] = 0]
    /\ UNCHANGED <<wire, queue, replays>> /\ serverFrame

\* A terminal frame the client already has is sent again.
ServerReplay(r) ==
    /\ open /\ replays < MaxReplays /\ r \in completed
    /\ Send("ended", r, laneOf[r], 0)
    /\ replays' = replays + 1
    /\ UNCHANGED <<wire, queue, serving>> /\ serverFrame

\* A frame of a type the relay does not know.
ServerNotice ==
    /\ open /\ replays < MaxReplays
    /\ Send("other", 0, NoLane, 0)
    /\ replays' = replays + 1
    /\ UNCHANGED <<wire, queue, serving>> /\ serverFrame

----------------------------------------------------------------------------
Client == \E kind \in ClientKinds, lane \in Lanes : OutRead(kind, lane)
Relay == OutDone \/ InRead \/ InDone
Server == \/ ServerTake
          \/ \E lane \in Lanes : ServerStart(lane) \/ ServerReject(lane) \/ ServerEnd(lane)
Next == Client \/ Relay \/ Reap \/ Close \/ StartDrain \/ Server
        \/ ServerNotice \/ \E r \in Requests : ServerReplay(r)

\* The event loop runs, the server answers, the watch task retires an idle
\* connection of a draining relay and its close completes.
Fairness ==
    /\ WF_vars(OutDone) /\ WF_vars(InRead) /\ WF_vars(InDone)
    /\ WF_vars(Server)
    /\ WF_vars(draining /\ Reap)
    /\ WF_vars(closing /\ Close)

Spec == Init /\ [][Next]_vars /\ Fairness

----------------------------------------------------------------------------
(* Properties                                                               *)

Frame == [t: {"none", "create", "cancel", "other", "created", "ended", "error"}, id: 0..MaxFrames,
          lane: Lanes \cup {NoLane}, ans: 0..MaxFrames]

TypeOK ==
    /\ open \in BOOLEAN /\ draining \in BOOLEAN /\ closing \in BOOLEAN /\ unknown \in BOOLEAN
    /\ forwarding \in 0..2
    /\ pending \in [Lanes -> 0..MaxFrames]
    /\ active \in [Requests -> Lanes \cup {NoLane}]
    /\ completed \subseteq Requests /\ cancelling \subseteq Lanes
    /\ tPending \in [Lanes -> Seq(Requests)]
    /\ tActive \in [Requests -> -MaxFrames..MaxFrames] /\ tCompleted \in [Requests -> -MaxFrames..MaxFrames]
    /\ saved \in [-MaxFrames..MaxFrames -> {"none", "pending", "created", "ended", "failed", "disconnected"}]
    /\ outFrame \in Frame /\ inFrame \in Frame
    /\ wire \in Seq(Frame) /\ down \in Seq(Frame)
    /\ queue \in [Lanes -> Seq(Requests)] /\ serving \in [Lanes -> 0..MaxFrames]
    /\ frames \in 0..MaxFrames /\ replays \in 0..MaxReplays
    /\ laneOf \in [Requests -> Lanes \cup {NoLane}]
    /\ forwarded \subseteq Requests /\ answered \subseteq Requests
    /\ cancelled \subseteq Lanes /\ erring \subseteq Lanes

\* An error frame names neither the request nor the cancel it answers, so a
\* lane that has had both a cancel and an error is ambiguous.  The code does
\* not keep the properties below in such a lane: README, known deviations.
ambiguous == cancelled \cap erring # {}

\* Activity counts the work of the connection exactly, whatever the
\* interleaving of the two tasks, the lanes, errors and replayed frames.
\* "Only retire after the client received the last terminal frame": when it is
\* chosen for retirement, the client has the answer of every request sent on.
\* And with everything answered and nothing on its way it counts as idle,
\* unless it saw a frame it could not classify: phantom work would hold up
\* every drain and every exit until the client disconnects.
ActivityExact ==
    /\ closing /\ ~ambiguous => forwarded \subseteq answered
    /\ (/\ open /\ forwarded \subseteq answered /\ ~unknown /\ ~ambiguous
        /\ wire = <<>> /\ outFrame = NoFrame /\ inFrame = NoFrame) => ~busy

\* "No exact request association: record response-only evidence, never
\* guess": a response is recorded under the request it answers, or alone.  And
\* when the handler has ended no record of it is left open: each was answered,
\* failed or disconnected (Tracker.finish in the finally clause).
RecordsSound ==
    /\ ~ambiguous => \A r \in Requests : /\ tActive[r] \in {0, r, -r}
                                         /\ tCompleted[r] \in {0, r, -r}
    /\ ~open => \A r \in DOMAIN saved : saved[r] \notin {"pending", "created"}

\* A draining relay gets rid of the connection once its work is done.
DrainCompletes == draining ~> (~open \/ unknown \/ ambiguous)

=============================================================================
