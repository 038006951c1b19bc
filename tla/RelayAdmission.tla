--------------------------- MODULE RelayAdmission ---------------------------
(***************************************************************************)
(* Admission to the relay: the request handler of create_app               *)
(* (model_proxy.py), the WebSocketBudget it reserves from                  *)
(* (proxy_websocket.py), the HTTPRelayPool it leases from (proxy_http.py)  *)
(* and the control watcher that drains or forces the relay to stop.        *)
(*                                                                         *)
(* Everything runs on one event loop: a step is the code between two       *)
(* awaits.  What a connection carries is RelaySocket's subject; here a     *)
(* connected socket is idle, busy or unknown (Activity.state).  Clocks are *)
(* abstracted: which idle sockets are over age at a scan, and when a       *)
(* waiter's deadline passes, are free choices.  A handler may be cancelled *)
(* at any await (handler_cancellation); a forced shutdown cancels them     *)
(* all, so that none takes a normal step after it.  The flag of the Event      *)
(* `changed` needs no variable, because reserve() clears it in the step    *)
(* that starts to wait: setting it wakes the handlers waiting then.        *)
(***************************************************************************)
EXTENDS Integers, Sequences, FiniteSets, FiniteSetsExt, SequencesExt

CONSTANTS
    WS, HTTP,           \* handlers of WebSocket and of HTTP requests
    Clients,            \* pooled HTTP/2 clients
    NoClient,
    Budget, PressureStart, PressureTarget, IdleLimit, Waiters,  \* ConnectionPolicy
    PoolLimit           \* limit of HTTPRelayPool

ASSUME HandlersAssumption == WS \cap HTTP = {} /\ IsFiniteSet(WS) /\ IsFiniteSet(HTTP)
ASSUME ClientsAssumption == NoClient \notin Clients /\ Cardinality(Clients) >= PoolLimit
ASSUME PolicyAssumption ==
    /\ {Budget, PressureStart, PressureTarget, Waiters} \subseteq Nat
    /\ {IdleLimit, PoolLimit} \subseteq Nat \ {0}

VARIABLES
    ws,         \* where each WebSocket handler is
    idle,       \* sockets in state idle
    older,      \* of each idle socket, those idle for longer (idle_since)
    closing,    \* sockets with Activity.closing
    unknown,    \* sockets with Activity.unknown
    spared,     \* history: the socket the last scan left out
    http,       \* where each HTTP handler is
    lease,      \* the client each HTTP handler holds
    complete,   \* HTTP handlers with lease.complete
    dirty,      \* clients whose response was not read to its end
    pool,       \* HTTPRelayPool.idle, a LIFO queue
    queue,      \* handlers waiting in slots.acquire()
    slots,      \* value of the semaphore
    command,    \* the control file: none, drain or force_shutdown
    draining, forcing, forced, \* health.draining, health.force_stopping, force_applied
    stopped     \* stop_event

wsVars == <<ws, idle, older, closing, unknown, spared>>
httpVars == <<http, lease, complete, dirty, pool, queue, slots>>
controlVars == <<command, draining, forcing, forced, stopped>>
vars == <<wsVars, httpVars, controlVars>>

WsStates == {"none", "blocked", "woken", "connecting", "open", "ending"}
HttpStates == {"none", "queued", "sending", "reading", "written", "aclose", "exit"}

Entries == {w \in WS : ws[w] \in {"connecting", "open", "ending"}}
Waiting == {w \in WS : ws[w] \in {"blocked", "woken"}}
Holding == {h \in HTTP : http[h] \in {"sending", "reading", "written", "aclose", "exit"}}
Active == {w \in WS : ws[w] # "none"} \cup {h \in HTTP : http[h] # "none"}  \* active_relays

Init ==
    /\ ws = [w \in WS |-> "none"] /\ idle = {} /\ older = [w \in WS |-> {}]
    /\ closing = {} /\ unknown = {} /\ spared = {}
    /\ http = [h \in HTTP |-> "none"] /\ lease = [h \in HTTP |-> NoClient]
    /\ complete = {} /\ dirty = {} /\ pool = <<>> /\ queue = <<>> /\ slots = PoolLimit
    /\ command = "none" /\ draining = FALSE /\ forcing = FALSE /\ forced = FALSE
    /\ stopped = FALSE

-----------------------------------------------------------------------------
(* WebSocketBudget *)

(* The order of the idle sockets without those of R. *)
Without(order, R) == [w \in WS |-> IF w \in R THEN {} ELSE order[w] \ R]

(* MUTANT: sockets are reclaimed only once the budget is exhausted. *)
Retired_atLimit(sockets, order, closed, occupied, incoming, exclude, drain, aged) ==
    {w \in sockets \ exclude :
        LET place == Cardinality(order[w] \ exclude)
        IN  \/ drain
            \/ w \in aged
            \/ occupied + incoming > Budget /\ place = 0}

(* The idle `sockets` a scan retires, oldest first: while the relay drains  *)
(* all of them, those that are over age, and the first ones, as many as the *)
(* idle limit and the pressure ask for.  Where the loop stops, it has       *)
(* retired every socket before, so that the count it keeps is the place.    *)
Retired(sockets, order, closed, occupied, incoming, exclude, drain, aged) ==
    {w \in sockets \ exclude :
        LET place == Cardinality(order[w] \ exclude)
        IN  \/ drain
            \/ w \in aged
            \/ Cardinality(sockets) - place > IdleLimit
            \/ /\ occupied + incoming >= PressureStart
               /\ occupied + incoming - (closed + place) > PressureTarget}

(* reap(incoming, exclude) when the idle sockets are `sockets`, those idle  *)
(* for longer `order`, the entries `occupied` and the closing ones `shut`.  *)
Reap(sockets, order, shut, occupied, incoming, exclude, drain) ==
    \E aged \in SUBSET sockets :
        LET R == Retired(sockets, order, Cardinality(shut), Cardinality(occupied), incoming,
                         exclude, drain, aged)
        IN  /\ idle' = sockets \ R
            /\ older' = Without(order, R)
            /\ closing' = shut \cup R
            /\ spared' = exclude

(* MUTANT: a handler that ends does not set the event. *)
Wake_none(state) == state

(* changed.set(): the handlers waiting in reserve() will look again. *)
Wake(state) == [w \in WS |-> IF state[w] = "blocked" THEN "woken" ELSE state[w]]

(* release(key), the last statement of the handler. *)
Release(w) ==
    /\ ws' = Wake([ws EXCEPT ![w] = "none"])
    /\ idle' = idle \ {w}
    /\ older' = Without(older, {w})
    /\ closing' = closing \ {w}
    /\ unknown' = unknown \ {w}
    /\ spared' = spared \ {w}

(* A request is taken in only while the relay is not draining; handle()     *)
(* looks at the control file before anything else.                          *)
Accepts == command = "none" /\ ~draining

(* MUTANT: the budget is compared with > instead of >=. *)
WsRequest_pastBudget(w) ==
    /\ ws[w] = "none" /\ Accepts
    /\ Reap(idle, older, closing, Entries, 1, {}, FALSE)
    /\ ws' = CASE Cardinality(Waiting) >= Waiters -> Wake(ws)
               [] Cardinality(Waiting) < Waiters /\ Cardinality(Entries) > Budget ->
                      [ws EXCEPT ![w] = "blocked"]
               [] OTHER -> [ws EXCEPT ![w] = "connecting"]
    /\ UNCHANGED <<unknown, httpVars, controlVars>>

(* The handler is in active_relays, reserve() runs up to its first await:   *)
(* refused (the handler ends and release() wakes the waiters), made to wait,*)
(* or admitted.  The second reap() of reserve() sees the same total as the  *)
(* first and retires nothing more.                                          *)
WsRequest(w) ==
    /\ ws[w] = "none" /\ Accepts
    /\ Reap(idle, older, closing, Entries, 1, {}, FALSE)
    /\ ws' = CASE Cardinality(Waiting) >= Waiters -> Wake(ws)
               [] Cardinality(Waiting) < Waiters /\ Cardinality(Entries) >= Budget ->
                      [ws EXCEPT ![w] = "blocked"]
               [] OTHER -> [ws EXCEPT ![w] = "connecting"]
    /\ UNCHANGED <<unknown, httpVars, controlVars>>

(* A waiter whose wait ended looks again: reap, then admitted, back to      *)
(* waiting, or refused because the relay drains.                            *)
WsRecheck(w) ==
    /\ ws[w] = "woken" /\ ~forced
    /\ Reap(idle, older, closing, Entries, 1, {}, draining)
    /\ ws' = CASE draining -> Wake([ws EXCEPT ![w] = "none"])
               [] ~draining /\ Cardinality(Entries) >= Budget -> [ws EXCEPT ![w] = "blocked"]
               [] OTHER -> [ws EXCEPT ![w] = "connecting"]
    /\ UNCHANGED <<unknown, httpVars, controlVars>>

(* capacity_seconds pass, or the task is cancelled, before there is room. *)
WsGiveUp(w) ==
    /\ w \in Waiting
    /\ Release(w)
    /\ UNCHANGED <<httpVars, controlVars>>

(* ws_connect and prepare succeed: connected() makes the socket idle, or    *)
(* unknown when it is not the responses endpoint, and scans the others.     *)
WsConnected(w) ==
    /\ ws[w] = "connecting" /\ ~forced
    /\ ws' = [ws EXCEPT ![w] = "open"]
    /\ \/ /\ Reap(idle \cup {w}, [older EXCEPT ![w] = idle], closing, Entries, 0,
                IF draining THEN {} ELSE {w}, draining)
          /\ UNCHANGED unknown
       \/ /\ Reap(idle, older, closing, Entries, 0, {}, draining)
          /\ unknown' = unknown \cup {w}
    /\ UNCHANGED <<httpVars, controlVars>>

(* The upstream refuses, fails, or the task is cancelled while connecting. *)
WsConnectFailed(w) ==
    /\ ws[w] = "connecting"
    /\ Release(w)
    /\ UNCHANGED <<httpVars, controlVars>>

(* The client starts a response on an idle socket (begin) ... *)
WsBegin(w) ==
    /\ ws[w] = "open" /\ w \in idle /\ ~forced
    /\ idle' = idle \ {w}
    /\ older' = Without(older, {w})
    /\ UNCHANGED <<ws, closing, unknown, spared, httpVars, controlVars>>

(* ... and its last frame is delivered: the socket is idle, and reap. *)
WsDelivered(w) ==
    /\ ws[w] = "open" /\ w \notin idle \cup closing \cup unknown /\ ~forced
    /\ Reap(idle \cup {w}, [older EXCEPT ![w] = idle], closing, Entries, 0, {}, draining)
    /\ UNCHANGED <<ws, unknown, httpVars, controlVars>>

(* The relay tasks end: a peer closed, a send failed, the retirement closed *)
(* the socket or the handler is cancelled.  closer.close() is awaited.      *)
WsEnd(w) ==
    /\ ws[w] = "open"
    /\ ws' = [ws EXCEPT ![w] = "ending"]
    /\ UNCHANGED <<idle, older, closing, unknown, spared, httpVars, controlVars>>

(* The close is done or timed out; a cancellation waits for it as well. *)
WsFinally(w) ==
    /\ ws[w] = "ending"
    /\ Release(w)
    /\ UNCHANGED <<httpVars, controlVars>>

-----------------------------------------------------------------------------
(* HTTPRelayPool.  Semaphore and LIFO queue are asyncio's.  `clients` (for  *)
(* diagnostics and for close()) is left out.                                *)

(* get_nowait(), or a new client; the request is sent on it. *)
TakeClient(h) ==
    LET pooled == pool # <<>>
    IN  \E c \in Clients :
            /\ IF pooled THEN c = Last(pool)
                         ELSE \A g \in HTTP : lease[g] # c
            /\ pool' = IF pooled THEN Front(pool) ELSE pool
            /\ lease' = [lease EXCEPT ![h] = c]
            /\ dirty' = dirty \cup {c}

HttpRequest(h) ==
    /\ http[h] = "none" /\ Accepts
    /\ Len(queue) < Waiters
    /\ IF slots > 0 /\ queue = <<>>
         THEN /\ http' = [http EXCEPT ![h] = "sending"]
              /\ slots' = slots - 1
              /\ TakeClient(h)
              /\ UNCHANGED queue
         ELSE /\ http' = [http EXCEPT ![h] = "queued"]
              /\ queue' = Append(queue, h)
              /\ UNCHANGED <<lease, dirty, pool, slots>>
    /\ UNCHANGED <<complete, wsVars, controlVars>>

(* slots.acquire() returns: the semaphore serves its waiters in order. *)
HttpAcquire(h) ==
    /\ http[h] = "queued" /\ ~forced
    /\ slots > 0 /\ Head(queue) = h
    /\ queue' = Tail(queue)
    /\ http' = [http EXCEPT ![h] = "sending"]
    /\ slots' = slots - 1
    /\ TakeClient(h)
    /\ UNCHANGED <<complete, wsVars, controlVars>>

(* wait_for times out, or the task is cancelled in the queue: acquire()     *)
(* removes its future from the waiters.                                     *)
HttpGiveUp(h) ==
    /\ http[h] = "queued"
    /\ \E i \in DOMAIN queue : queue[i] = h /\ queue' = RemoveAt(queue, i)
    /\ http' = [http EXCEPT ![h] = "none"]
    /\ UNCHANGED <<lease, complete, dirty, pool, slots, wsVars, controlVars>>

(* The response headers arrive and are passed on. *)
HttpResponse(h) ==
    /\ http[h] = "sending" /\ ~forced
    /\ http' = [http EXCEPT ![h] = "reading"]
    /\ UNCHANGED <<lease, complete, dirty, pool, queue, slots, wsVars, controlVars>>

(* aiter_raw ends, which closes the response: lease.complete, write_eof. *)
HttpRead(h) ==
    /\ http[h] = "reading" /\ ~forced
    /\ http' = [http EXCEPT ![h] = "written"]
    /\ complete' = complete \cup {h}
    /\ dirty' = dirty \ {lease[h]}
    /\ UNCHANGED <<lease, pool, queue, slots, wsVars, controlVars>>

(* The handler reaches its finally clause: normally after write_eof, or by  *)
(* an error or a cancellation at any await.  response.aclose() is awaited   *)
(* when there is a response, then the lease's exit runs.                    *)
HttpCleanup(h) ==
    /\ http[h] \in {"sending", "reading", "written"}
    /\ http' = [http EXCEPT ![h] = IF http[h] = "sending" THEN "exit" ELSE "aclose"]
    /\ UNCHANGED <<lease, complete, dirty, pool, queue, slots, wsVars, controlVars>>

(* MUTANT: every client is pooled again, the flag is not looked at. *)
EndLease_reused(h) ==
    /\ pool' = Append(pool, lease[h])
    /\ dirty' = dirty
    /\ complete' = complete \ {h}
    /\ lease' = [lease EXCEPT ![h] = NoClient]
    /\ http' = [http EXCEPT ![h] = "none"]
    /\ slots' = slots + 1
    /\ UNCHANGED queue

(* The end of the lease: the client goes back to the pool or is gone. *)
EndLease(h) ==
    /\ pool' = IF h \in complete THEN Append(pool, lease[h]) ELSE pool
    /\ dirty' = IF h \in complete THEN dirty ELSE dirty \ {lease[h]}
    /\ complete' = complete \ {h}
    /\ lease' = [lease EXCEPT ![h] = NoClient]
    /\ http' = [http EXCEPT ![h] = "none"]
    /\ slots' = slots + 1
    /\ UNCHANGED queue

(* response.aclose() returned, failed or was cancelled: a complete lease    *)
(* ends in the same step, any other awaits client.aclose() first.           *)
HttpResponseClosed(h) ==
    /\ http[h] = "aclose"
    /\ IF h \in complete
         THEN EndLease(h)
         ELSE /\ http' = [http EXCEPT ![h] = "exit"]
              /\ UNCHANGED <<lease, complete, dirty, pool, queue, slots>>
    /\ UNCHANGED <<wsVars, controlVars>>

(* client.aclose() returned, failed or was cancelled. *)
HttpClientClosed(h) ==
    /\ http[h] = "exit"
    /\ EndLease(h)
    /\ UNCHANGED <<wsVars, controlVars>>

-----------------------------------------------------------------------------
(* Control *)

(* The controller writes the control file: drain, later perhaps force. *)
Command(c) ==
    /\ command # c /\ command # "force" /\ ~stopped
    /\ command' = c
    /\ UNCHANGED <<draining, forcing, forced, stopped, wsVars, httpVars>>

(* handle() of a health request, or of one refused with 503: apply_control. *)
HandleRefused ==
    /\ ~Accepts
    /\ draining' = TRUE
    /\ forcing' = (forcing \/ command = "force")
    /\ ws' = Wake(ws)
    /\ UNCHANGED <<command, forced, stopped, idle, older, closing, unknown, spared, httpVars>>

(* MUTANT: the watcher stops once no socket is left, leases or not. *)
Watch_socketsOnly ==
    /\ draining' = (draining \/ command # "none")
    /\ forcing' = (forcing \/ command = "force")
    /\ forced' = forcing'
    /\ ws' = IF draining' THEN Wake(ws) ELSE ws
    /\ stopped' = (stopped \/ (draining' /\ Entries = {}))
    /\ Reap(idle, older, closing, Entries, 0, {}, draining')
    /\ UNCHANGED <<command, unknown, httpVars>>

(* MUTANT: the scan is left out of the turn. *)
Watch_noReap ==
    /\ draining' = (draining \/ command # "none")
    /\ forcing' = (forcing \/ command = "force")
    /\ forced' = forcing'
    /\ ws' = IF draining' THEN Wake(ws) ELSE ws
    /\ stopped' = (stopped \/ (draining' /\ Active = {}))
    /\ UNCHANGED <<command, idle, older, closing, unknown, spared, httpVars>>

(* One turn of watch(): apply_control, force once, stop when nothing is     *)
(* relayed, reap.                                                           *)
Watch ==
    /\ draining' = (draining \/ command # "none")
    /\ forcing' = (forcing \/ command = "force")
    /\ forced' = forcing'
    /\ ws' = IF draining' THEN Wake(ws) ELSE ws
    /\ stopped' = (stopped \/ (draining' /\ Active = {}))
    /\ Reap(idle, older, closing, Entries, 0, {}, draining')
    /\ UNCHANGED <<command, unknown, httpVars>>

-----------------------------------------------------------------------------
Handler(w) ==
    \/ WsRequest(w) \/ WsRecheck(w) \/ WsGiveUp(w) \/ WsConnected(w) \/ WsConnectFailed(w)
    \/ WsBegin(w) \/ WsDelivered(w) \/ WsEnd(w) \/ WsFinally(w)

Exchange(h) ==
    \/ HttpRequest(h) \/ HttpAcquire(h) \/ HttpGiveUp(h) \/ HttpResponse(h) \/ HttpRead(h)
    \/ HttpCleanup(h) \/ HttpResponseClosed(h) \/ HttpClientClosed(h)

Next ==
    \/ \E w \in WS : Handler(w)
    \/ \E h \in HTTP : Exchange(h)
    \/ \E c \in {"drain", "force"} : Command(c)
    \/ HandleRefused
    \/ Watch

(* The loop runs the watcher and every handler it can resume; waits end by  *)
(* their deadline, a connection attempt by its timeout, closes by           *)
(* close_seconds.  Of the upstream it is assumed that a response that was   *)
(* begun ends, well or badly.  Nothing is assumed of the client: an idle or *)
(* unknown socket may stay.                                                 *)
WsProgress(w) ==
    \/ WsGiveUp(w) \/ WsConnected(w) \/ WsConnectFailed(w) \/ WsDelivered(w)
    \/ (forced \/ w \in closing) /\ WsEnd(w)
    \/ WsFinally(w)

HttpProgress(h) ==
    \/ HttpGiveUp(h) \/ HttpResponse(h) \/ HttpRead(h) \/ HttpCleanup(h)
    \/ HttpResponseClosed(h) \/ HttpClientClosed(h)

Fairness ==
    /\ WF_vars(Watch)
    /\ \A w \in WS : WF_vars(WsProgress(w))
    /\ \A h \in HTTP : WF_vars(HttpProgress(h))

Spec == Init /\ [][Next]_vars /\ Fairness

-----------------------------------------------------------------------------
(* Every variable keeps its type. *)
TypeOK ==
    /\ ws \in [WS -> WsStates] /\ http \in [HTTP -> HttpStates]
    /\ idle \subseteq WS /\ older \in [WS -> SUBSET WS]
    /\ closing \subseteq WS /\ unknown \subseteq WS /\ spared \subseteq WS
    /\ lease \in [HTTP -> Clients \cup {NoClient}]
    /\ complete \subseteq HTTP /\ dirty \subseteq Clients
    /\ pool \in Seq(Clients) /\ queue \in Seq(HTTP) /\ slots \in 0..PoolLimit
    /\ command \in {"none", "drain", "force"}
    /\ {draining, forcing, forced, stopped} \subseteq BOOLEAN

(* No lost wake-up: a handler sleeps in reserve() only while the budget is  *)
(* full and the relay is not draining; whatever frees an entry, refuses a   *)
(* rival or starts the drain has woken it.                                  *)
NoLostWakeup ==
    (\E w \in WS : ws[w] = "blocked") => Cardinality(Entries) >= Budget /\ ~draining

(* The scans keep up: whatever the order in which sockets connect, finish   *)
(* and go, idle sockets never exceed the idle limit, and under pressure the *)
(* only idle socket is one the last scan spared for its first read.         *)
ReapKeepsUp ==
    /\ Cardinality(idle) <= IdleLimit
    /\ (/\ Cardinality(Entries) >= PressureStart
        /\ Cardinality(Entries) - Cardinality(closing) > PressureTarget) => idle \subseteq spared

(* The pool is whole on every path out of a lease, answered, failed,        *)
(* cancelled, or cancelled again while closing: a slot is held exactly by   *)
(* the handlers inside a lease, and a pooled client carries no abandoned    *)
(* response, is pooled once and is held by nobody, so that no request meets *)
(* the rest of another's answer.                                            *)
PoolSound ==
    /\ slots + Cardinality(Holding) = PoolLimit
    /\ ToSet(pool) \cap dirty = {}
    /\ Cardinality(ToSet(pool)) = Len(pool)
    /\ \A h \in HTTP : lease[h] # NoClient => lease[h] \notin ToSet(pool)

(* The stop event is set only when nothing is relayed, and nothing is taken *)
(* in after it: the process that stops interrupts no exchange.              *)
StopQuiet == stopped => Active = {}

(* The budget and the pool implement the bounded resource of Capacity. *)
WsRoom == INSTANCE Capacity WITH Users <- WS, Limit <- Budget,
                                 waiting <- Waiting, holding <- Entries
HttpRoom == INSTANCE Capacity WITH Users <- HTTP, Limit <- PoolLimit,
                                   waiting <- ToSet(queue), holding <- Holding

(* WebSocketBudget with its reservations and HTTPRelayPool with its         *)
(* semaphore implement Capacity: never more users than the limit, and only  *)
(* a waiter or a newcomer that found room enters.                           *)
ImplementsCapacity == WsRoom!Spec /\ HttpRoom!Spec

(* A drain ends every relay but sockets it cannot classify, which only      *)
(* their client or a forced shutdown ends; a forced shutdown sets the stop  *)
(* event, whatever is being relayed.                                        *)
ShutdownEnds ==
    /\ draining ~> Active \subseteq unknown
    /\ forcing ~> stopped
=============================================================================
