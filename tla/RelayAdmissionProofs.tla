------------------------ MODULE RelayAdmissionProofs ------------------------
(***************************************************************************)
(* No lost wake-up, scans that keep up, a sound pool, a quiet stop and the *)
(* two refinements of Capacity, for every set of handlers and clients and  *)
(* every policy.                                                           *)
(***************************************************************************)
EXTENDS RelayAdmission, FiniteSetTheorems, SequenceTheorems, TLAPS

----------------------------------------------------------------------------
(* The inductive invariant, one definition per idea                        *)

\* Every handler is in one of its states, and the flags are Booleans.
HandlersTyped ==
    /\ ws \in [WS -> WsStates] /\ http \in [HTTP -> HttpStates]
    /\ draining \in BOOLEAN /\ stopped \in BOOLEAN

\* A relay that has stopped drains, so that it takes in nothing more.
StopInv == stopped => draining /\ Active = {}

\* The semaphore's waiters are the queued handlers, each once.
QueueInv ==
    /\ queue \in Seq(HTTP)
    /\ \A i \in 1..Len(queue) : http[queue[i]] = "queued"
    /\ \A i, j \in 1..Len(queue) : queue[i] = queue[j] => i = j
    /\ \A h \in HTTP : http[h] = "queued" => \E i \in 1..Len(queue) : queue[i] = h

\* Whoever is inside a lease holds a client of its own, dirty until the
\* response has been read to its end, and one slot.
LeaseInv ==
    /\ lease \in [HTTP -> Clients \cup {NoClient}]
    /\ \A h \in HTTP : lease[h] # NoClient <=> h \in Holding
    /\ \A g, h \in Holding : lease[g] = lease[h] => g = h
    /\ complete \subseteq HTTP
    /\ \A h \in complete : http[h] \in {"written", "aclose"}
    /\ dirty = {lease[h] : h \in Holding \ complete}
    /\ slots \in Int /\ slots + Cardinality(Holding) = PoolLimit

\* A pooled client is in the pool once, and with nobody.
PoolInv ==
    /\ pool \in Seq(Clients)
    /\ \A i, j \in 1..Len(pool) : pool[i] = pool[j] => i = j
    /\ \A i \in 1..Len(pool), h \in HTTP : pool[i] # lease[h]

\* The idle sockets stand in an order: nobody is older than itself, and whoever
\* is older than an older one is older as well.
Ordered(sockets, order) ==
    /\ sockets \subseteq WS /\ order \in [WS -> SUBSET WS]
    /\ \A w \in sockets : order[w] \subseteq sockets \ {w}
    /\ \A w \in sockets : \A v \in order[w] : order[v] \subseteq order[w]

\* Idle and closing sockets are different connected ones.
SocketInv ==
    /\ Ordered(idle, older)
    /\ closing \subseteq WS /\ idle \cap closing = {}
    /\ \A w \in idle \cup closing : ws[w] \in {"open", "ending"}

IInv ==
    /\ HandlersTyped /\ StopInv /\ NoLostWakeup /\ QueueInv /\ LeaseInv /\ PoolInv
    /\ SocketInv /\ ReapKeepsUp

----------------------------------------------------------------------------
(* Operators                                                               *)

\* What Wake does to a handler: nobody is left blocked, nobody else moves.
LEMMA WakeFacts ==
    ASSUME NEW state \in [WS -> WsStates]
    PROVE  /\ Wake(state) \in [WS -> WsStates]
           /\ \A w \in WS : Wake(state)[w] # "blocked"
           /\ \A w \in WS : state[w] # "blocked" => Wake(state)[w] = state[w]
           /\ \A w \in WS : state[w] = "blocked" => Wake(state)[w] = "woken"
  BY DEF Wake, WsStates

\* RemoveAt on a sequence without repetitions takes that element away and
\* keeps the others, still without repetitions.
LEMMA RemoveAtFacts ==
    ASSUME NEW S, NEW s \in Seq(S), NEW k \in 1..Len(s),
           \A i, j \in 1..Len(s) : s[i] = s[j] => i = j
    PROVE  /\ RemoveAt(s, k) \in Seq(S)
           /\ Len(RemoveAt(s, k)) = Len(s) - 1
           /\ \A i \in 1..Len(RemoveAt(s, k)) :
                 RemoveAt(s, k)[i] = IF i < k THEN s[i] ELSE s[i + 1]
           /\ \A i, j \in 1..Len(RemoveAt(s, k)) :
                 RemoveAt(s, k)[i] = RemoveAt(s, k)[j] => i = j
           /\ ToSet(RemoveAt(s, k)) = ToSet(s) \ {s[k]}
  <1> DEFINE front == SubSeq(s, 1, k - 1)
             back == SubSeq(s, k + 1, Len(s))
             t == RemoveAt(s, k)
  <1>a. /\ front \in Seq(S) /\ Len(front) = k - 1
        /\ \A i \in 1..k - 1 : front[i] = s[i]
    <2>1. \A i \in 1..k - 1 : s[i] \in S
      BY ElementOfSeq
    <2> QED BY <2>1, SubSeqProperties, 1 \in Int, k - 1 \in Int
  <1>b. /\ back \in Seq(S) /\ Len(back) = Len(s) - k
        /\ \A i \in 1..Len(s) - k : back[i] = s[k + i]
    <2>1. \A i \in k + 1..Len(s) : s[i] \in S
      BY ElementOfSeq
    <2>2. /\ back \in Seq(S)
          /\ Len(back) = IF k + 1 <= Len(s) THEN Len(s) - (k + 1) + 1 ELSE 0
          /\ \A i \in 1..Len(s) - (k + 1) + 1 : back[i] = s[(k + 1) + i - 1]
      BY <2>1, SubSeqProperties, k + 1 \in Int, Len(s) \in Int
    <2>3. ASSUME NEW i \in 1..Len(s) - k PROVE back[i] = s[k + i]
      <3>1. (k + 1) + i - 1 = k + i /\ i \in 1..Len(s) - (k + 1) + 1
        OBVIOUS
      <3> QED BY <2>2, <3>1
    <2>4. Len(back) = Len(s) - k
      BY <2>2
    <2> HIDE DEF back
    <2> QED BY <2>2, <2>3, <2>4
  <1>c. /\ t \in Seq(S) /\ Len(t) = Len(s) - 1
        /\ \A i \in 1..Len(t) : t[i] = IF i <= k - 1 THEN front[i] ELSE back[i - (k - 1)]
    <2>1. t = front \o back
      BY DEF RemoveAt
    <2> HIDE DEF t, front, back
    <2>a. front \in Seq(S) /\ back \in Seq(S)
      BY <1>a, <1>b
    <2>b. /\ front \o back \in Seq(S) /\ Len(front \o back) = Len(front) + Len(back)
          /\ \A i \in 1..Len(front) + Len(back) :
                (front \o back)[i] = IF i <= Len(front) THEN front[i] ELSE back[i - Len(front)]
      BY <2>a, ConcatProperties
    <2>2. /\ t \in Seq(S) /\ Len(t) = Len(front) + Len(back)
          /\ \A i \in 1..Len(front) + Len(back) :
                t[i] = IF i <= Len(front) THEN front[i] ELSE back[i - Len(front)]
      BY <2>1, <2>b
    <2>3. Len(front) = k - 1 /\ Len(front) + Len(back) = Len(s) - 1
      BY <1>a, <1>b
    <2>4. ASSUME NEW i \in 1..Len(t)
          PROVE  t[i] = IF i <= k - 1 THEN front[i] ELSE back[i - (k - 1)]
      BY <2>2, <2>3
    <2> QED BY <2>2, <2>3, <2>4
  <1>1. t \in Seq(S) /\ Len(t) = Len(s) - 1
    BY <1>c
  <1>2. \A i \in 1..Len(t) : t[i] = IF i < k THEN s[i] ELSE s[i + 1]
    <2> HIDE DEF t, front, back
    <2> SUFFICES ASSUME NEW i \in 1..Len(t)
                 PROVE  t[i] = IF i < k THEN s[i] ELSE s[i + 1]
      OBVIOUS
    <2>1. CASE i < k
      BY <2>1, <1>a, <1>c
    <2>2. CASE i >= k
      <3>1. i - (k - 1) \in 1..Len(s) - k
        BY <2>2, <1>1
      <3> QED BY <2>2, <3>1, <1>b, <1>c
    <2> QED BY <2>1, <2>2, <1>1
  <1> HIDE DEF t, front, back
  <1>3. \A i, j \in 1..Len(t) : t[i] = t[j] => i = j
    BY <1>1, <1>2
  <1>4. ToSet(t) \subseteq ToSet(s) \ {s[k]}
    BY <1>1, <1>2 DEF ToSet
  <1>5. ToSet(s) \ {s[k]} \subseteq ToSet(t)
    <2> SUFFICES ASSUME NEW i \in 1..Len(s), i # k
                 PROVE  \E j \in 1..Len(t) : t[j] = s[i]
      BY <1>1 DEF ToSet
    <2>1. CASE i < k
      BY <2>1, <1>1, <1>2
    <2>2. CASE i > k
      <3>1. i - 1 \in 1..Len(t) /\ t[i - 1] = s[i]
        BY <2>2, <1>1, <1>2
      <3> QED BY <3>1
    <2> QED BY <2>1, <2>2
  <1> QED
    BY <1>1, <1>2, <1>3, <1>4, <1>5 DEF t

\* The number of distinct elements of a sequence is at most its length, and
\* equal to it when none is repeated.
LEMMA CountOfSeq ==
    ASSUME NEW S, NEW s \in Seq(S)
    PROVE  /\ IsFiniteSet(ToSet(s))
           /\ Cardinality(ToSet(s)) <= Len(s)
           /\ (\A i, j \in 1..Len(s) : s[i] = s[j] => i = j) => Cardinality(ToSet(s)) = Len(s)
  <1>1. s \in Surjection(1..Len(s), ToSet(s))
    BY DEF Surjection, ToSet
  <1>2. IsFiniteSet(1..Len(s)) /\ Cardinality(1..Len(s)) = Len(s)
    <2>1. Len(s) \in Nat /\ 1 \in Int
      OBVIOUS
    <2>2. /\ IsFiniteSet(1..Len(s))
          /\ Cardinality(1..Len(s)) = IF 1 > Len(s) THEN 0 ELSE Len(s) - 1 + 1
      BY <2>1, FS_Interval
    <2> QED BY <2>1, <2>2
  <1>3. /\ IsFiniteSet(ToSet(s))
        /\ Cardinality(ToSet(s)) <= Len(s)
        /\ Cardinality(ToSet(s)) = Len(s) <=> s \in Injection(1..Len(s), ToSet(s))
    BY <1>1, <1>2, FS_Surjection
  <1>4. (\A i, j \in 1..Len(s) : s[i] = s[j] => i = j) => s \in Injection(1..Len(s), ToSet(s))
    BY <1>1, LenProperties DEF Injection, IsInjective, Surjection
  <1> QED
    BY <1>3, <1>4

\* Counting up and down by one.
LEMMA EntriesFinite == IsFiniteSet(Entries) /\ Cardinality(Entries) \in Nat
  BY HandlersAssumption, FS_Subset, FS_CardinalityType DEF Entries

LEMMA HoldingFinite == IsFiniteSet(Holding) /\ Cardinality(Holding) \in Nat
  BY HandlersAssumption, FS_Subset, FS_CardinalityType DEF Holding

----------------------------------------------------------------------------
(* Scans                                                                   *)

\* The order of those left is the order they had.
LEMMA WithoutOrdered ==
    ASSUME NEW S, NEW order, Ordered(S, order), NEW R
    PROVE  Ordered(S \ R, Without(order, R))
  BY DEF Ordered, Without

\* One more socket becomes idle, after all the others.
LEMMA AppendOrdered ==
    ASSUME NEW S, NEW order, Ordered(S, order), NEW w \in WS, w \notin S
    PROVE  Ordered(S \cup {w}, [order EXCEPT ![w] = S])
  BY DEF Ordered

\* What a scan leaves idle: nothing but the socket it was told to spare, or no
\* more than the idle limit, and then it has relieved the pressure.  The socket
\* it leaves with the fewest before it has only retired ones before it, so that
\* its place is at most what was retired.
LEMMA ScanFacts ==
    ASSUME NEW S, NEW order, Ordered(S, order),
           NEW shut \in SUBSET WS, S \cap shut = {}, NEW occupied \in SUBSET WS,
           NEW incoming \in Nat, NEW exclude, NEW drain \in BOOLEAN,
           Reap(S, order, shut, occupied, incoming, exclude, drain)
    PROVE  /\ Ordered(idle', older') /\ idle' \subseteq S
           /\ closing' = shut \cup (S \ idle') /\ spared' = exclude
           /\ \/ idle' \subseteq exclude
              \/ /\ Cardinality(idle') <= IdleLimit
                 /\ Cardinality(occupied) + incoming >= PressureStart =>
                        Cardinality(occupied) + incoming - Cardinality(closing') <= PressureTarget
  <1> DEFINE place(w) == Cardinality(order[w] \ exclude)
  <1>1. PICK aged \in SUBSET S :
            LET R == Retired(S, order, Cardinality(shut), Cardinality(occupied), incoming,
                             exclude, drain, aged)
            IN  /\ idle' = S \ R /\ older' = Without(order, R)
                /\ closing' = shut \cup R /\ spared' = exclude
    BY DEF Reap
  <1> DEFINE R == Retired(S, order, Cardinality(shut), Cardinality(occupied), incoming,
                          exclude, drain, aged)
             left == (S \ exclude) \ R
  <1>2. /\ idle' = S \ R /\ older' = Without(order, R)
        /\ closing' = shut \cup R /\ spared' = exclude
    BY <1>1
  <1>3. R \subseteq S \ exclude
    BY DEF Retired
  <1>a. /\ IsFiniteSet(S) /\ IsFiniteSet(R) /\ IsFiniteSet(shut) /\ IsFiniteSet(occupied)
        /\ \A w \in S : IsFiniteSet(order[w]) /\ IsFiniteSet(order[w] \ exclude)
    BY <1>3, HandlersAssumption, FS_Subset DEF Ordered
  <1>n. /\ Cardinality(S) \in Nat /\ Cardinality(R) \in Nat /\ Cardinality(shut) \in Nat
        /\ Cardinality(occupied) \in Nat /\ \A w \in S : place(w) \in Nat
        /\ IdleLimit \in Nat /\ PressureStart \in Nat /\ PressureTarget \in Nat
    BY <1>a, FS_CardinalityType, PolicyAssumption
  <1>4. ASSUME NEW w \in left
        PROVE  /\ Cardinality(S) - place(w) <= IdleLimit
               /\ Cardinality(occupied) + incoming >= PressureStart =>
                      Cardinality(occupied) + incoming - (Cardinality(shut) + place(w))
                          <= PressureTarget
    <2>1. /\ ~(Cardinality(S) - place(w) > IdleLimit)
          /\ ~(/\ Cardinality(occupied) + incoming >= PressureStart
               /\ Cardinality(occupied) + incoming - (Cardinality(shut) + place(w))
                      > PressureTarget)
      BY <1>4 DEF Retired
    <2>2. place(w) \in Nat
      BY <1>4, <1>n
    <2> HIDE DEF place, R
    <2> QED BY <2>1, <2>2, <1>n
  <1> HIDE DEF R
  <1>5. Ordered(idle', older') /\ idle' \subseteq S /\ R = S \ idle'
    BY <1>2, <1>3, WithoutOrdered
  <1>6. CASE left = {}
    BY <1>2, <1>3, <1>5, <1>6
  <1>7. CASE left # {}
    <2>1. PICK w \in left : \A v \in left : order[v] \subseteq order[w] => order[v] = order[w]
      <3> DEFINE T == {order[v] : v \in left}
      <3>1. T \subseteq FiniteSubsetsOf(S) /\ T # {}
        BY <1>a, <1>7, FS_FiniteSubsetsOfFinite DEF Ordered
      <3>2. PICK X \in T : \A Y \in T : <<Y, X>> \notin StrictSubsetOrdering(S)
        <4> HIDE DEF T
        <4>1. IsWellFoundedOn(StrictSubsetOrdering(S), FiniteSubsetsOf(S))
          BY FS_StrictSubsetOrderingWellFounded
        <4> QED BY <3>1, <4>1, WFMin
      <3>3. \A Y \in T : Y \subseteq S
        BY DEF Ordered
      <3>4. \A Y \in T : Y \subseteq X => Y = X
        BY <3>2, <3>3 DEF StrictSubsetOrdering
      <3> QED BY <3>4
    <2>2. order[w] \ exclude \subseteq R
      <3> SUFFICES ASSUME NEW v \in order[w] \ exclude, v \notin R PROVE FALSE
        OBVIOUS
      <3>1. v \in left /\ w \in S
        BY DEF Ordered
      <3>2. order[v] \subseteq order[w] /\ v \notin order[v]
        BY <3>1 DEF Ordered
      <3> QED BY <3>1, <3>2, <2>1
    <2>3. place(w) <= Cardinality(R)
      BY <2>2, <1>a, FS_Subset
    <2>4. Cardinality(idle') = Cardinality(S) - Cardinality(R)
      <3>1. S \cap R = R
        BY <1>3
      <3> QED BY <3>1, <1>2, <1>a, FS_Difference
    <2>5. Cardinality(closing') = Cardinality(shut) + Cardinality(R)
      <3>1. shut \cap R = {}
        BY <1>3
      <3>2. Cardinality(shut \cup R) = Cardinality(shut) + Cardinality(R) - Cardinality(shut \cap R)
        BY <1>a, FS_Union
      <3>3. Cardinality(shut \cap R) = 0
        BY <3>1, FS_EmptySet
      <3> QED BY <3>2, <3>3, <1>2, <1>n
    <2>6. place(w) \in Nat
      BY <1>n
    <2>7. /\ Cardinality(S) - place(w) <= IdleLimit
          /\ Cardinality(occupied) + incoming >= PressureStart =>
                 Cardinality(occupied) + incoming - (Cardinality(shut) + place(w)) <= PressureTarget
      BY <1>4
    <2> HIDE DEF place
    <2>8. /\ Cardinality(idle') <= IdleLimit
          /\ Cardinality(occupied) + incoming >= PressureStart =>
                 Cardinality(occupied) + incoming - Cardinality(closing') <= PressureTarget
      BY <1>n, <2>3, <2>4, <2>5, <2>6, <2>7
    <2> QED BY <2>8, <1>2, <1>5
  <1> QED BY <1>6, <1>7

----------------------------------------------------------------------------
(* Handlers and flags                                                      *)

LEMMA HandlersTypedStep == HandlersTyped /\ [Next]_vars => HandlersTyped'
  <1> SUFFICES ASSUME HandlersTyped, [Next]_vars PROVE HandlersTyped'
    OBVIOUS
  <1> USE DEF HandlersTyped, WsStates, HttpStates
  <1>1. ASSUME NEW w \in WS, Handler(w) PROVE HandlersTyped'
    <2>1. CASE WsRequest(w)
      BY <2>1, WakeFacts DEF WsRequest, Reap, httpVars, controlVars
    <2>2. CASE WsRecheck(w)
      BY <2>2, WakeFacts DEF WsRecheck, Reap, httpVars, controlVars
    <2>3. CASE WsGiveUp(w)
      BY <2>3, WakeFacts DEF WsGiveUp, Release, httpVars, controlVars
    <2>4. CASE WsConnected(w)
      BY <2>4 DEF WsConnected, Reap, httpVars, controlVars
    <2>5. CASE WsConnectFailed(w)
      BY <2>5, WakeFacts DEF WsConnectFailed, Release, httpVars, controlVars
    <2>6. CASE WsBegin(w)
      BY <2>6 DEF WsBegin, httpVars, controlVars
    <2>7. CASE WsDelivered(w)
      BY <2>7 DEF WsDelivered, Reap, httpVars, controlVars
    <2>8. CASE WsEnd(w)
      BY <2>8 DEF WsEnd, httpVars, controlVars
    <2>9. CASE WsFinally(w)
      BY <2>9, WakeFacts DEF WsFinally, Release, httpVars, controlVars
    <2> QED BY <1>1, <2>1, <2>2, <2>3, <2>4, <2>5, <2>6, <2>7, <2>8, <2>9 DEF Handler
  <1>2. ASSUME NEW h \in HTTP, Exchange(h) PROVE HandlersTyped'
    <2>1. CASE HttpRequest(h)
      BY <2>1 DEF HttpRequest, wsVars, controlVars
    <2>2. CASE HttpAcquire(h)
      BY <2>2 DEF HttpAcquire, wsVars, controlVars
    <2>3. CASE HttpGiveUp(h)
      BY <2>3 DEF HttpGiveUp, wsVars, controlVars
    <2>4. CASE HttpResponse(h)
      BY <2>4 DEF HttpResponse, wsVars, controlVars
    <2>5. CASE HttpRead(h)
      BY <2>5 DEF HttpRead, wsVars, controlVars
    <2>6. CASE HttpCleanup(h)
      BY <2>6 DEF HttpCleanup, wsVars, controlVars
    <2>7. CASE HttpResponseClosed(h)
      BY <2>7 DEF HttpResponseClosed, EndLease, wsVars, controlVars
    <2>8. CASE HttpClientClosed(h)
      BY <2>8 DEF HttpClientClosed, EndLease, wsVars, controlVars
    <2> QED BY <1>2, <2>1, <2>2, <2>3, <2>4, <2>5, <2>6, <2>7, <2>8 DEF Exchange
  <1>3. ASSUME NEW c \in {"drain", "force"}, Command(c) PROVE HandlersTyped'
    BY <1>3 DEF Command, wsVars, httpVars
  <1>4. CASE HandleRefused
    BY <1>4, WakeFacts DEF HandleRefused, httpVars
  <1>5. CASE Watch
    BY <1>5, WakeFacts DEF Watch, Reap, httpVars
  <1>6. CASE UNCHANGED vars
    BY <1>6 DEF vars, wsVars, httpVars, controlVars
  <1> QED BY <1>1, <1>2, <1>3, <1>4, <1>5, <1>6 DEF Next

----------------------------------------------------------------------------
(* Wake-ups and the stop event                                             *)

\* Release wakes everyone.
LEMMA ReleaseWakes ==
    ASSUME HandlersTyped, NEW w \in WS, Release(w)
    PROVE  \A v \in WS : ws'[v] # "blocked"
  BY WakeFacts DEF HandlersTyped, WsStates, Release

LEMMA NoLostWakeupStep == HandlersTyped /\ NoLostWakeup /\ [Next]_vars => NoLostWakeup'
  <1> SUFFICES ASSUME HandlersTyped, NoLostWakeup, [Next]_vars,
                      NEW v \in WS, ws'[v] = "blocked"
               PROVE  Cardinality(Entries') >= Budget /\ ~draining'
    BY DEF NoLostWakeup
  <1> USE DEF HandlersTyped, WsStates
  \* A step that leaves every entry where it is.
  <1>a. ASSUME Entries' = Entries, ws[v] = "blocked", draining' = draining
        PROVE  Cardinality(Entries') >= Budget /\ ~draining'
    BY <1>a DEF NoLostWakeup
  \* A step that admits a handler.
  <1>b. ASSUME NEW w \in WS, ws' = [ws EXCEPT ![w] = "connecting"], w \notin Entries,
               draining' = draining
        PROVE  Cardinality(Entries') >= Budget /\ ~draining'
    <2>1. ws[v] = "blocked" /\ Entries' = Entries \cup {w}
      BY <1>b DEF Entries
    <2>2. Cardinality(Entries') = Cardinality(Entries) + 1
      BY <2>1, <1>b, EntriesFinite, FS_AddElement
    <2> QED BY <2>1, <2>2, <1>b, EntriesFinite, PolicyAssumption DEF NoLostWakeup
  <1>1. ASSUME NEW w \in WS, Handler(w)
        PROVE  Cardinality(Entries') >= Budget /\ ~draining'
    <2>1. CASE WsRequest(w)
      <3>1. draining' = draining /\ ~draining
        BY <2>1 DEF WsRequest, Accepts, controlVars
      <3>2. CASE ws' = Wake(ws)
        BY <3>2, WakeFacts
      <3>3. CASE Cardinality(Entries) >= Budget /\ ws' = [ws EXCEPT ![w] = "blocked"]
        <4>1. Entries' = Entries
          BY <3>3, <2>1 DEF Entries, WsRequest
        <4> QED BY <4>1, <3>1, <3>3
      <3>4. CASE ws' = [ws EXCEPT ![w] = "connecting"]
        BY <3>4, <3>1, <2>1, <1>b DEF Entries, WsRequest
      <3> QED BY <2>1, <3>2, <3>3, <3>4 DEF WsRequest
    <2>2. CASE WsRecheck(w)
      <3>1. draining' = draining
        BY <2>2 DEF WsRecheck, controlVars
      <3>2. CASE draining
        BY <3>2, <2>2, WakeFacts DEF WsRecheck
      <3>3. CASE ~draining /\ Cardinality(Entries) >= Budget /\ ws' = [ws EXCEPT ![w] = "blocked"]
        <4>1. Entries' = Entries
          BY <3>3, <2>2 DEF Entries, WsRecheck
        <4> QED BY <4>1, <3>1, <3>3
      <3>4. CASE ws' = [ws EXCEPT ![w] = "connecting"]
        BY <3>4, <3>1, <2>2, <1>b DEF Entries, WsRecheck
      <3> QED BY <2>2, <3>2, <3>3, <3>4 DEF WsRecheck
    <2>3. CASE WsGiveUp(w) \/ WsConnectFailed(w) \/ WsFinally(w)
      BY <2>3, ReleaseWakes DEF WsGiveUp, WsConnectFailed, WsFinally
    <2>4. CASE WsConnected(w) \/ WsEnd(w)
      <3>1. Entries' = Entries /\ ws[v] = "blocked"
        BY <2>4 DEF WsConnected, WsEnd, Entries
      <3>2. draining' = draining
        BY <2>4 DEF WsConnected, WsEnd, controlVars
      <3> QED BY <3>1, <3>2, <1>a
    <2>5. CASE WsBegin(w) \/ WsDelivered(w)
      BY <2>5, <1>a DEF WsBegin, WsDelivered, Entries, controlVars
    <2> QED BY <1>1, <2>1, <2>2, <2>3, <2>4, <2>5 DEF Handler
  <1>2. CASE UNCHANGED <<ws, draining>>
    BY <1>2, <1>a DEF Entries
  <1>3. ASSUME NEW h \in HTTP, Exchange(h) PROVE UNCHANGED <<ws, draining>>
    BY <1>3 DEF Exchange, HttpRequest, HttpAcquire, HttpGiveUp, HttpResponse, HttpRead, HttpCleanup,
                HttpResponseClosed, HttpClientClosed, wsVars, controlVars
  <1>4. ASSUME NEW c \in {"drain", "force"}, Command(c) PROVE UNCHANGED <<ws, draining>>
    BY <1>4 DEF Command, wsVars
  <1>5. CASE HandleRefused
    BY <1>5, WakeFacts DEF HandleRefused
  <1>6. CASE Watch
    <2>1. CASE draining'
      BY <2>1, <1>6, WakeFacts DEF Watch
    <2>2. CASE ~draining'
      BY <2>2, <1>6, <1>2 DEF Watch
    <2> QED BY <2>1, <2>2
  <1>7. CASE UNCHANGED vars
    BY <1>7, <1>2 DEF vars, wsVars, controlVars
  <1> QED BY <1>1, <1>2, <1>3, <1>4, <1>5, <1>6, <1>7 DEF Next

\* Once stopped, no handler is there to take a step and none comes.
LEMMA StopInvStep == HandlersTyped /\ StopInv /\ [Next]_vars => StopInv'
  <1> SUFFICES ASSUME HandlersTyped, StopInv, [Next]_vars, stopped'
               PROVE  draining' /\ Active' = {}
    BY DEF StopInv
  <1> USE DEF HandlersTyped, WsStates, HttpStates
  \* Nobody but the watcher sets the event; with it set, every handler is gone.
  <1>a. stopped => draining /\ (\A w \in WS : ws[w] = "none") /\ (\A h \in HTTP : http[h] = "none")
    BY DEF StopInv, Active
  <1>b. ASSUME stopped, UNCHANGED <<ws, http>>, draining' = TRUE
        PROVE  draining' /\ Active' = {}
    BY <1>b, <1>a DEF Active
  <1>1. ASSUME NEW w \in WS, Handler(w) PROVE FALSE
    <2>1. stopped
      BY <1>1 DEF Handler, WsRequest, WsRecheck, WsGiveUp, WsConnected, WsConnectFailed, WsBegin,
                  WsDelivered, WsEnd, WsFinally, controlVars
    <2> QED BY <2>1, <1>1, <1>a DEF Handler, WsRequest, WsRecheck, WsGiveUp, WsConnected,
                  WsConnectFailed, WsBegin, WsDelivered, WsEnd, WsFinally, Accepts, Waiting
  <1>2. ASSUME NEW h \in HTTP, Exchange(h) PROVE FALSE
    <2>1. stopped
      BY <1>2 DEF Exchange, HttpRequest, HttpAcquire, HttpGiveUp, HttpResponse, HttpRead,
                  HttpCleanup, HttpResponseClosed, HttpClientClosed, controlVars
    <2> QED BY <2>1, <1>2, <1>a DEF Exchange, HttpRequest, HttpAcquire, HttpGiveUp, HttpResponse,
                  HttpRead, HttpCleanup, HttpResponseClosed, HttpClientClosed, Accepts
  <1>3. ASSUME NEW c \in {"drain", "force"}, Command(c) PROVE draining' /\ Active' = {}
    BY <1>3, <1>a, <1>b DEF Command, wsVars, httpVars
  <1>4. CASE HandleRefused
    <2>1. stopped /\ ws' = ws /\ http' = http
      BY <1>4, <1>a, WakeFacts DEF HandleRefused, httpVars, Wake
    <2> QED BY <2>1, <1>4, <1>b DEF HandleRefused
  <1>5. CASE Watch
    <2>1. draining' /\ Active = {}
      BY <1>5, <1>a DEF Watch, Active
    <2>2. \A w \in WS : ws'[w] = "none"
      BY <2>1, <1>5, WakeFacts DEF Watch, Active
    <2>3. \A h \in HTTP : http'[h] = "none"
      BY <2>1, <1>5 DEF Watch, Active, httpVars
    <2> QED BY <2>1, <2>2, <2>3 DEF Active
  <1>6. CASE UNCHANGED vars
    BY <1>6, <1>a, <1>b DEF vars, wsVars, httpVars, controlVars
  <1> QED BY <1>1, <1>2, <1>3, <1>4, <1>5, <1>6 DEF Next

----------------------------------------------------------------------------
(* The pool                                                                *)

\* An append to a sequence without repetitions, of something it lacks.
LEMMA AppendFacts ==
    ASSUME NEW S, NEW s \in Seq(S), NEW x \in S,
           \A i, j \in 1..Len(s) : s[i] = s[j] => i = j,
           \A i \in 1..Len(s) : s[i] # x
    PROVE  /\ Append(s, x) \in Seq(S)
           /\ Len(Append(s, x)) = Len(s) + 1
           /\ \A i \in 1..Len(s) : Append(s, x)[i] = s[i]
           /\ Append(s, x)[Len(s) + 1] = x
           /\ \A i, j \in 1..Len(Append(s, x)) : Append(s, x)[i] = Append(s, x)[j] => i = j
           /\ ToSet(Append(s, x)) = ToSet(s) \cup {x}
  <1> DEFINE t == Append(s, x)
  <1>1. /\ t \in Seq(S) /\ Len(t) = Len(s) + 1 /\ Len(s) \in Nat
        /\ \A i \in 1..Len(s) : t[i] = s[i]
        /\ t[Len(s) + 1] = x
    OBVIOUS
  <1> HIDE DEF t
  <1>2. \A i \in 1..Len(t) : i \in 1..Len(s) \/ i = Len(s) + 1
    BY <1>1
  <1>3. \A i, j \in 1..Len(t) : t[i] = t[j] => i = j
    BY <1>1, <1>2
  <1>4. ToSet(t) = {t[i] : i \in 1..Len(t)} /\ ToSet(s) = {s[i] : i \in 1..Len(s)}
    BY <1>1 DEF ToSet
  <1>5. ToSet(t) = ToSet(s) \cup {x}
    BY <1>1, <1>2, <1>4
  <1> QED BY <1>1, <1>3, <1>5 DEF t

\* All but the last element of a sequence.
LEMMA FrontFacts ==
    ASSUME NEW S, NEW s \in Seq(S), s # <<>>
    PROVE  LET t == SubSeq(s, 1, Len(s) - 1)
           IN  t \in Seq(S) /\ Len(t) = Len(s) - 1 /\ \A i \in 1..Len(s) - 1 : t[i] = s[i]
  <1> DEFINE n == Len(s) - 1
             t == SubSeq(s, 1, n)
  <1>1. Len(s) \in Nat /\ Len(s) > 0 /\ n \in Nat
    BY EmptySeq
  <1>2. \A i \in 1..n : s[i] \in S
    BY <1>1, ElementOfSeq
  <1> HIDE DEF n
  <1>3. /\ t \in Seq(S)
        /\ Len(t) = IF 1 <= n THEN n - 1 + 1 ELSE 0
        /\ \A i \in 1..n - 1 + 1 : t[i] = s[1 + i - 1]
    BY <1>1, <1>2, SubSeqProperties, 1 \in Int
  <1> HIDE DEF t
  <1>4. Len(t) = n
    BY <1>1, <1>3
  <1>5. \A i \in 1..n : t[i] = s[i]
    <2>1. \A i \in 1..n : i \in 1..n - 1 + 1 /\ 1 + i - 1 = i
      BY <1>1
    <2> QED BY <1>3, <2>1
  <1> QED BY <1>3, <1>4, <1>5 DEF n, t

\* All but the first element of a sequence without repetitions.
LEMMA TailFacts ==
    ASSUME NEW S, NEW s \in Seq(S), s # <<>>,
           \A i, j \in 1..Len(s) : s[i] = s[j] => i = j
    PROVE  /\ Head(s) = s[1] /\ 1 \in 1..Len(s)
           /\ Tail(s) \in Seq(S) /\ Len(Tail(s)) = Len(s) - 1
           /\ \A i \in 1..Len(Tail(s)) : i + 1 \in 1..Len(s) /\ Tail(s)[i] = s[i + 1]
           /\ \A i, j \in 1..Len(Tail(s)) : Tail(s)[i] = Tail(s)[j] => i = j
           /\ ToSet(Tail(s)) = ToSet(s) \ {Head(s)}
  <1> DEFINE t == Tail(s)
  <1>1. /\ Head(s) = s[1] /\ Len(s) \in Nat /\ Len(s) > 0
        /\ t \in Seq(S) /\ Len(t) = Len(s) - 1
        /\ \A i \in 1..Len(t) : t[i] = s[i + 1]
    BY HeadTailProperties, EmptySeq
  <1> HIDE DEF t
  <1>2. \A i \in 1..Len(t) : i + 1 \in 1..Len(s) /\ t[i] = s[i + 1]
    BY <1>1
  <1>3. \A i, j \in 1..Len(t) : t[i] = t[j] => i = j
    BY <1>1, <1>2
  <1>4. ToSet(t) = {t[i] : i \in 1..Len(t)} /\ ToSet(s) = {s[i] : i \in 1..Len(s)}
    BY <1>1 DEF ToSet
  <1>5. \A i \in 1..Len(s) : i # 1 => i - 1 \in 1..Len(t) /\ t[i - 1] = s[i]
    BY <1>1
  <1>6. ToSet(t) \subseteq ToSet(s) \ {s[1]}
    BY <1>1, <1>2, <1>4
  <1>7. ToSet(s) \ {s[1]} \subseteq ToSet(t)
    BY <1>4, <1>5
  <1> QED BY <1>1, <1>2, <1>3, <1>6, <1>7 DEF t

\* A handler that takes a client gets one of its own, pooled or new.
LEMMA TakeClientStep ==
    ASSUME HandlersTyped, LeaseInv, PoolInv,
           NEW h \in HTTP, http[h] \in {"none", "queued"}, TakeClient(h),
           http' = [http EXCEPT ![h] = "sending"], slots' = slots - 1, complete' = complete
    PROVE  LeaseInv' /\ PoolInv' /\ Holding' = Holding \cup {h} /\ h \notin Holding
  <1> USE DEF HandlersTyped, HttpStates
  <1>1. h \notin Holding /\ Holding' = Holding \cup {h}
    BY DEF Holding
  <1>2. PICK c \in Clients :
           /\ IF pool # <<>> THEN c = Last(pool) ELSE \A g \in HTTP : lease[g] # c
           /\ pool' = IF pool # <<>> THEN Front(pool) ELSE pool
           /\ lease' = [lease EXCEPT ![h] = c]
           /\ dirty' = dirty \cup {c}
    BY DEF TakeClient
  <1>3. (\A g \in HTTP : lease[g] # c) /\ PoolInv'
    <2>1. CASE pool = <<>>
      <3>1. pool' = <<>> /\ \A g \in HTTP : lease[g] # c
        BY <1>2, <2>1
      <3> QED BY <3>1 DEF PoolInv
    <2>2. CASE pool # <<>>
      <3>1. pool \in Seq(Clients) /\ Len(pool) \in Nat /\ Len(pool) > 0
        BY <2>2, EmptySeq DEF PoolInv
      <3>2. c = pool[Len(pool)] /\ pool' = SubSeq(pool, 1, Len(pool) - 1)
        BY <1>2, <2>2 DEF Last, Front
      <3>3. \A i \in 1..Len(pool) - 1 : pool[i] \in Clients
        BY <3>1, ElementOfSeq
      <3>4. /\ pool' \in Seq(Clients) /\ Len(pool') = Len(pool) - 1
            /\ \A i \in 1..Len(pool) - 1 : pool'[i] = pool[i]
        BY <3>1, <3>2, FrontFacts
      <3>5. \A g \in HTTP : lease[g] # c
        BY <3>1, <3>2 DEF PoolInv
      <3>6. \A i \in 1..Len(pool') : i \in 1..Len(pool) /\ pool[i] # c /\ pool'[i] = pool[i]
        BY <3>1, <3>2, <3>4 DEF PoolInv
      <3>7. \A i, j \in 1..Len(pool') : pool'[i] = pool'[j] => i = j
        BY <3>6 DEF PoolInv
      <3>8. \A i \in 1..Len(pool'), g \in HTTP : pool'[i] # lease'[g]
        BY <3>6, <1>2 DEF PoolInv, LeaseInv
      <3> QED BY <3>4, <3>5, <3>7, <3>8 DEF PoolInv
    <2> QED BY <2>1, <2>2
  <1>4. LeaseInv'
    <2>1. lease' \in [HTTP -> Clients \cup {NoClient}] /\ lease'[h] = c /\ c # NoClient
          /\ \A g \in HTTP \ {h} : lease'[g] = lease[g]
      BY <1>2, ClientsAssumption DEF LeaseInv
    <2>2. \A g \in HTTP : lease'[g] # NoClient <=> g \in Holding'
      BY <1>1, <2>1 DEF LeaseInv
    <2>3. \A f, g \in Holding' : lease'[f] = lease'[g] => f = g
      BY <1>1, <1>3, <2>1 DEF LeaseInv, Holding
    <2>4. h \notin complete
      BY DEF LeaseInv
    <2>5. dirty' = {lease'[g] : g \in Holding' \ complete'}
      BY <1>1, <1>2, <2>1, <2>4 DEF LeaseInv, Holding
    <2>6. Cardinality(Holding') = Cardinality(Holding) + 1
      BY <1>1, HoldingFinite, FS_AddElement
    <2>7. slots' \in Int /\ slots' + Cardinality(Holding') = PoolLimit
      BY <2>6, HoldingFinite DEF LeaseInv
    <2>8. complete' \subseteq HTTP /\ \A g \in complete' : http'[g] \in {"written", "aclose"}
      BY <2>4 DEF LeaseInv
    <2> QED BY <2>1, <2>2, <2>3, <2>5, <2>7, <2>8 DEF LeaseInv
  <1> QED BY <1>1, <1>3, <1>4

\* The end of a lease gives the slot back, and the client when it is clean.
LEMMA EndLeaseStep ==
    ASSUME HandlersTyped, LeaseInv, PoolInv, NEW h \in HTTP, h \in Holding, EndLease(h)
    PROVE  LeaseInv' /\ PoolInv' /\ Holding' = Holding \ {h}
  <1> USE DEF HandlersTyped, HttpStates
  <1>1. Holding' = Holding \ {h}
    BY DEF EndLease, Holding
  <1>2. /\ lease' = [lease EXCEPT ![h] = NoClient]
        /\ lease[h] \in Clients /\ lease[h] # NoClient
        /\ \A g \in HTTP \ {h} : lease'[g] = lease[g] /\ lease[g] # lease[h]
    BY ClientsAssumption DEF EndLease, LeaseInv
  <1>3. LeaseInv'
    <2>1. lease' \in [HTTP -> Clients \cup {NoClient}] /\ lease'[h] = NoClient
      BY <1>2 DEF LeaseInv
    <2>2. \A g \in HTTP : lease'[g] # NoClient <=> g \in Holding'
      BY <1>1, <1>2, <2>1 DEF LeaseInv
    <2>3. \A f, g \in Holding' : lease'[f] = lease'[g] => f = g
      BY <1>1, <1>2 DEF LeaseInv, Holding
    <2>4. complete' = complete \ {h} /\ complete' \subseteq HTTP
          /\ \A g \in complete' : http'[g] \in {"written", "aclose"}
      BY DEF EndLease, LeaseInv
    <2>5. dirty' = {lease'[g] : g \in Holding' \ complete'}
      <3>1. dirty' = dirty \ {lease[h]}
        BY <1>2 DEF EndLease, LeaseInv, Holding
      <3>2. dirty' = {lease[g] : g \in (Holding \ complete) \ {h}}
        BY <3>1, <1>2 DEF LeaseInv, Holding
      <3> QED BY <3>2, <1>1, <1>2, <2>4 DEF Holding
    <2>6. Cardinality(Holding') = Cardinality(Holding) - 1
      BY <1>1, HoldingFinite, FS_RemoveElement
    <2>7. slots' \in Int /\ slots' + Cardinality(Holding') = PoolLimit
      BY <2>6, HoldingFinite DEF LeaseInv, EndLease
    <2> QED BY <2>1, <2>2, <2>3, <2>4, <2>5, <2>7 DEF LeaseInv
  <1>4. PoolInv'
    <2>1. CASE h \in complete
      <3>1. pool' = Append(pool, lease[h]) /\ pool \in Seq(Clients) /\ Len(pool) \in Nat
        BY <2>1 DEF EndLease, PoolInv
      <3>2. /\ \A i, j \in 1..Len(pool) : pool[i] = pool[j] => i = j
            /\ \A i \in 1..Len(pool) : pool[i] # lease[h]
        BY DEF PoolInv
      <3>3. /\ pool' \in Seq(Clients) /\ Len(pool') = Len(pool) + 1
            /\ \A i \in 1..Len(pool) : pool'[i] = pool[i]
            /\ pool'[Len(pool) + 1] = lease[h]
            /\ \A i, j \in 1..Len(pool') : pool'[i] = pool'[j] => i = j
        BY <3>1, <3>2, <1>2, AppendFacts
      <3>4. ASSUME NEW i \in 1..Len(pool'), NEW g \in HTTP PROVE pool'[i] # lease'[g]
        <4>1. i \in 1..Len(pool) \/ i = Len(pool) + 1
          BY <3>1, <3>3
        <4>2. pool'[i] \in Clients /\ pool'[i] # NoClient
          BY <3>3, ElementOfSeq, ClientsAssumption
        <4>3. CASE g = h
          BY <4>2, <4>3, <1>2 DEF LeaseInv
        <4>4. CASE g # h
          BY <4>1, <4>4, <3>3, <1>2 DEF PoolInv
        <4> QED BY <4>3, <4>4
      <3> QED BY <3>3, <3>4 DEF PoolInv
    <2>2. CASE h \notin complete
      <3>1. pool' = pool
        BY <2>2 DEF EndLease
      <3>2. \A i \in 1..Len(pool) : pool[i] # NoClient
        BY ElementOfSeq, ClientsAssumption DEF PoolInv
      <3>3. \A i \in 1..Len(pool), g \in HTTP : pool[i] # lease'[g]
        BY <3>2, <1>2 DEF PoolInv, LeaseInv
      <3> QED BY <3>1, <3>3 DEF PoolInv
    <2> QED BY <2>1, <2>2
  <1> QED BY <1>1, <1>3, <1>4

\* The parts of the invariant about the pool depend on these variables only.
LEMMA PoolUnchanged ==
    (QueueInv /\ LeaseInv /\ PoolInv) /\ UNCHANGED httpVars => (QueueInv /\ LeaseInv /\ PoolInv)'
  BY DEF httpVars, QueueInv, LeaseInv, PoolInv, Holding

\* A handler that keeps its lease, and whose request goes on.
LEMMA SameLeaseStep ==
    ASSUME HandlersTyped, QueueInv, LeaseInv, PoolInv, NEW h \in HTTP, h \in Holding,
           NEW s \in {"reading", "written", "aclose", "exit"},
           h \in complete => s \in {"written", "aclose"},
           http' = [http EXCEPT ![h] = s],
           UNCHANGED <<lease, complete, dirty, pool, queue, slots>>
    PROVE  (QueueInv /\ LeaseInv /\ PoolInv)'
  <1>1. Holding' = Holding
    BY DEF HandlersTyped, Holding
  <1>2. QueueInv'
    BY DEF HandlersTyped, Holding, QueueInv
  <1>3. \A g \in complete : http'[g] \in {"written", "aclose"}
    BY DEF HandlersTyped, LeaseInv
  <1>4. LeaseInv' /\ PoolInv'
    BY <1>1, <1>3 DEF LeaseInv, PoolInv
  <1> QED BY <1>2, <1>4

LEMMA PoolStep ==
    HandlersTyped /\ QueueInv /\ LeaseInv /\ PoolInv /\ [Next]_vars
      => (QueueInv /\ LeaseInv /\ PoolInv)'
  <1> SUFFICES ASSUME HandlersTyped, QueueInv, LeaseInv, PoolInv, [Next]_vars
               PROVE  QueueInv' /\ LeaseInv' /\ PoolInv'
    OBVIOUS
  \* What is true of the queue, spelled out.
  <1>q. /\ queue \in Seq(HTTP) /\ Len(queue) \in Nat
        /\ \A i \in 1..Len(queue) : queue[i] \in HTTP /\ http[queue[i]] = "queued"
        /\ \A i, j \in 1..Len(queue) : queue[i] = queue[j] => i = j
    BY ElementOfSeq DEF QueueInv
  <1>1. ASSUME NEW h \in HTTP, Exchange(h) PROVE QueueInv' /\ LeaseInv' /\ PoolInv'
    <2>1. CASE HttpRequest(h)
      <3>1. CASE slots > 0 /\ queue = <<>>
        <4>1. /\ http' = [http EXCEPT ![h] = "sending"] /\ slots' = slots - 1 /\ TakeClient(h)
              /\ queue' = queue /\ complete' = complete /\ http[h] = "none"
          BY <3>1, <2>1 DEF HttpRequest
        <4>2. LeaseInv' /\ PoolInv'
          BY <4>1, TakeClientStep
        <4>3. QueueInv'
          BY <4>1, <1>q DEF QueueInv, HandlersTyped
        <4> QED BY <4>2, <4>3
      <3>2. CASE ~(slots > 0 /\ queue = <<>>)
        <4>1. /\ http' = [http EXCEPT ![h] = "queued"] /\ queue' = Append(queue, h)
              /\ UNCHANGED <<lease, complete, dirty, pool, slots>> /\ http[h] = "none"
          BY <3>2, <2>1 DEF HttpRequest
        <4>2. \A i \in 1..Len(queue) : queue[i] # h
          BY <4>1, <1>q
        <4>3. /\ queue' \in Seq(HTTP) /\ Len(queue') = Len(queue) + 1
              /\ \A i \in 1..Len(queue) : queue'[i] = queue[i]
              /\ queue'[Len(queue) + 1] = h
              /\ \A i, j \in 1..Len(queue') : queue'[i] = queue'[j] => i = j
          BY <4>1, <4>2, <1>q, AppendFacts
        <4>4. ASSUME NEW i \in 1..Len(queue') PROVE http'[queue'[i]] = "queued"
          <5>1. i \in 1..Len(queue) \/ i = Len(queue) + 1
            BY <4>3, <1>q
          <5> QED BY <5>1, <4>1, <4>2, <4>3, <1>q DEF HandlersTyped
        <4>5. Holding' = Holding /\ \A g \in complete : http'[g] \in {"written", "aclose"}
          BY <4>1 DEF HandlersTyped, Holding, LeaseInv
        <4>6. ASSUME NEW g \in HTTP, http'[g] = "queued"
              PROVE  \E i \in 1..Len(queue') : queue'[i] = g
          <5>1. CASE g = h
            BY <5>1, <4>3, <1>q
          <5>2. CASE g # h
            BY <5>2, <4>6, <4>1, <4>3, <1>q DEF QueueInv, HandlersTyped
          <5> QED BY <5>1, <5>2
        <4>8. QueueInv'
          BY <4>3, <4>4, <4>6 DEF QueueInv
        <4>7. LeaseInv' /\ PoolInv'
          BY <4>1, <4>5 DEF LeaseInv, PoolInv
        <4> QED BY <4>7, <4>8
      <3> QED BY <3>1, <3>2
    <2>2. CASE HttpAcquire(h)
      <3>1. /\ http' = [http EXCEPT ![h] = "sending"] /\ slots' = slots - 1 /\ TakeClient(h)
            /\ queue' = Tail(queue) /\ Head(queue) = h /\ complete' = complete
            /\ http[h] = "queued"
        BY <2>2 DEF HttpAcquire
      <3>2. LeaseInv' /\ PoolInv'
        BY <3>1, TakeClientStep
      <3>3. QueueInv'
        <4>1. queue # <<>>
          BY <3>1 DEF QueueInv
        <4>2. CASE queue # <<>>
          <5>1. /\ queue' \in Seq(HTTP) /\ Len(queue') = Len(queue) - 1
                /\ queue[1] = h /\ 1 \in 1..Len(queue)
                /\ \A i \in 1..Len(queue') : i + 1 \in 1..Len(queue) /\ queue'[i] = queue[i + 1]
                /\ \A i, j \in 1..Len(queue') : queue'[i] = queue'[j] => i = j
            BY <4>2, <3>1, <1>q, TailFacts
          <5>2. \A i \in 1..Len(queue') : queue'[i] # h
            BY <5>1, <1>q
          <5>3. \A i \in 1..Len(queue') : http'[queue'[i]] = "queued"
            BY <5>1, <5>2, <3>1, <1>q DEF HandlersTyped
          <5>4. ASSUME NEW g \in HTTP, http'[g] = "queued"
                PROVE  \E i \in 1..Len(queue') : queue'[i] = g
            <6>1. g # h /\ http[g] = "queued"
              BY <5>4, <3>1 DEF HandlersTyped
            <6>2. PICK i \in 1..Len(queue) : queue[i] = g
              BY <6>1 DEF QueueInv
            <6>3. i - 1 \in 1..Len(queue') /\ queue'[i - 1] = g
              BY <6>1, <6>2, <5>1, <1>q
            <6> QED BY <6>3
          <5> QED BY <5>1, <5>3, <5>4 DEF QueueInv
        <4> QED BY <4>1, <4>2
      <3> QED BY <3>2, <3>3
    <2>3. CASE HttpGiveUp(h)
      <3>1. PICK k \in 1..Len(queue) : queue[k] = h /\ queue' = RemoveAt(queue, k)
        BY <2>3, <1>q, LenProperties DEF HttpGiveUp
      <3>2. /\ http' = [http EXCEPT ![h] = "none"] /\ http[h] = "queued"
            /\ UNCHANGED <<lease, complete, dirty, pool, slots>>
        BY <2>3 DEF HttpGiveUp
      <3>3. /\ queue' \in Seq(HTTP) /\ Len(queue') = Len(queue) - 1
            /\ \A i \in 1..Len(queue') : queue'[i] = IF i < k THEN queue[i] ELSE queue[i + 1]
            /\ \A i, j \in 1..Len(queue') : queue'[i] = queue'[j] => i = j
        <4>1. PICK t : t = RemoveAt(queue, k)
          OBVIOUS
        <4>2. /\ t \in Seq(HTTP) /\ Len(t) = Len(queue) - 1
              /\ \A i \in 1..Len(t) : t[i] = IF i < k THEN queue[i] ELSE queue[i + 1]
              /\ \A i, j \in 1..Len(t) : t[i] = t[j] => i = j
          BY <4>1, <1>q, RemoveAtFacts
        <4> QED BY <3>1, <4>1, <4>2
      <3>4. ASSUME NEW i \in 1..Len(queue') PROVE http'[queue'[i]] = "queued"
        <4>1. /\ i \in 1..Len(queue) /\ i + 1 \in 1..Len(queue)
              /\ i < k => queue'[i] = queue[i] /\ i # k
              /\ ~(i < k) => queue'[i] = queue[i + 1] /\ i + 1 # k
          BY <3>3, <1>q
        <4>2. \E j \in 1..Len(queue) : queue'[i] = queue[j] /\ j # k
          BY <4>1
        <4> QED BY <4>2, <3>1, <3>2, <1>q DEF HandlersTyped
      <3>5. ASSUME NEW g \in HTTP, http'[g] = "queued"
            PROVE  \E i \in 1..Len(queue') : queue'[i] = g
        <4>1. g # h /\ http[g] = "queued"
          BY <3>5, <3>2 DEF HandlersTyped
        <4>2. g \in ToSet(queue) \ {queue[k]}
          BY <4>1, <3>1, <1>q, LenProperties DEF QueueInv, ToSet
        <4>3. g \in ToSet(queue')
          BY <4>2, <3>1, <1>q, RemoveAtFacts
        <4> QED BY <4>3, <3>3, LenProperties DEF ToSet
      <3>6. QueueInv'
        BY <3>3, <3>4, <3>5 DEF QueueInv
      <3>7. Holding' = Holding /\ \A g \in complete : http'[g] \in {"written", "aclose"}
        BY <3>2 DEF HandlersTyped, Holding, LeaseInv
      <3> QED BY <3>2, <3>6, <3>7 DEF LeaseInv, PoolInv
    <2>4. CASE HttpResponse(h)
      <3>1. h \in Holding /\ h \notin complete
        BY <2>4 DEF HttpResponse, Holding, LeaseInv
      <3> QED BY <2>4, <3>1, SameLeaseStep DEF HttpResponse
    <2>5. CASE HttpRead(h)
      <3>1. h \in Holding /\ h \notin complete
        BY <2>5 DEF HttpRead, Holding, LeaseInv
      <3>2. /\ http' = [http EXCEPT ![h] = "written"] /\ complete' = complete \cup {h}
            /\ dirty' = dirty \ {lease[h]} /\ UNCHANGED <<lease, pool, queue, slots>>
        BY <2>5 DEF HttpRead
      <3>3. Holding' = Holding
        BY <3>1, <3>2 DEF HandlersTyped, Holding
      <3>4. dirty' = {lease'[g] : g \in Holding' \ complete'}
        BY <3>1, <3>2, <3>3 DEF LeaseInv, Holding
      <3>5. \A g \in complete' : http'[g] \in {"written", "aclose"}
        BY <3>2 DEF LeaseInv, HandlersTyped
      <3>6. QueueInv'
        BY <3>1, <3>2, <1>q DEF QueueInv, Holding, HandlersTyped
      <3> QED BY <3>2, <3>3, <3>4, <3>5, <3>6 DEF LeaseInv, PoolInv
    <2>6. CASE HttpCleanup(h)
      <3>1. h \in Holding /\ (h \in complete => http[h] = "written")
        BY <2>6 DEF HttpCleanup, Holding, LeaseInv
      <3>2. CASE http[h] = "sending"
        BY <2>6, <3>1, <3>2, SameLeaseStep DEF HttpCleanup
      <3>3. CASE http[h] # "sending"
        BY <2>6, <3>1, <3>3, SameLeaseStep DEF HttpCleanup
      <3> QED BY <3>2, <3>3
    <2>7. CASE h \in Holding /\ EndLease(h)
      <3>1. LeaseInv' /\ PoolInv'
        BY <2>7, EndLeaseStep
      <3>2. QueueInv'
        BY <2>7, <1>q DEF EndLease, QueueInv, Holding, HandlersTyped
      <3> QED BY <3>1, <3>2
    <2>8. CASE HttpResponseClosed(h)
      <3>1. CASE h \in complete
        BY <3>1, <2>8, <2>7 DEF HttpResponseClosed, Holding
      <3>2. CASE h \notin complete
        BY <3>2, <2>8, SameLeaseStep DEF HttpResponseClosed, Holding
      <3> QED BY <3>1, <3>2
    <2>9. CASE HttpClientClosed(h)
      BY <2>9, <2>7 DEF HttpClientClosed, Holding
    <2> QED BY <1>1, <2>1, <2>2, <2>3, <2>4, <2>5, <2>6, <2>8, <2>9 DEF Exchange
  <1>2. ASSUME NEW w \in WS, Handler(w) PROVE UNCHANGED httpVars
    BY <1>2 DEF Handler, WsRequest, WsRecheck, WsGiveUp, WsConnected, WsConnectFailed, WsBegin,
                WsDelivered, WsEnd, WsFinally
  <1>3. ASSUME (\E c \in {"drain", "force"} : Command(c)) \/ HandleRefused \/ Watch
        PROVE  UNCHANGED httpVars
    BY <1>3 DEF Command, HandleRefused, Watch
  <1>4. CASE UNCHANGED vars
    BY <1>4, PoolUnchanged DEF vars
  <1> QED BY <1>1, <1>2, <1>3, <1>4, PoolUnchanged DEF Next

----------------------------------------------------------------------------
(* Moves of WebSocket handlers and their sockets                           *)

\* Release moves a handler out and leaves the others where they were: those
\* that are woken were waiting and go on waiting.
LEMMA ReleaseMoves ==
    ASSUME HandlersTyped, NEW w \in WS, Release(w)
    PROVE  Entries' = Entries \ {w} /\ Waiting' = Waiting \ {w}
  <1>1. [ws EXCEPT ![w] = "none"] \in [WS -> WsStates]
    BY DEF HandlersTyped, WsStates
  <1>2. \A v \in WS : /\ v = w => ws'[v] = "none"
                      /\ v # w /\ ws[v] # "blocked" => ws'[v] = ws[v]
                      /\ v # w /\ ws[v] = "blocked" => ws'[v] = "woken"
    BY <1>1, WakeFacts DEF Release, HandlersTyped
  <1> QED BY <1>2 DEF Entries, Waiting

\* Wake on its own moves nobody into or out of the budget or its queue.
LEMMA WakeMoves ==
    ASSUME HandlersTyped, ws' = Wake(ws)
    PROVE  Entries' = Entries /\ Waiting' = Waiting
  <1>1. \A v \in WS : /\ ws[v] # "blocked" => ws'[v] = ws[v]
                      /\ ws[v] = "blocked" => ws'[v] = "woken"
    BY WakeFacts DEF HandlersTyped
  <1> QED BY <1>1 DEF Entries, Waiting

\* After a scan the sockets are in order, few and, but for the one spared, under
\* no pressure, when whatever enters was counted as incoming.
LEMMA ScanKeeps ==
    ASSUME NEW S, NEW order, Ordered(S, order), closing \subseteq WS, S \cap closing = {},
           NEW incoming \in Nat, NEW exclude, NEW drain \in BOOLEAN,
           exclude = {} \/ \E w \in WS : exclude = {w},
           Reap(S, order, closing, Entries, incoming, exclude, drain),
           Cardinality(Entries') <= Cardinality(Entries) + incoming,
           \A w \in S \cup closing : ws'[w] \in {"open", "ending"}
    PROVE  SocketInv' /\ ReapKeepsUp'
  <1>1. /\ Ordered(idle', older') /\ idle' \subseteq S
        /\ closing' = closing \cup (S \ idle') /\ spared' = exclude
        /\ \/ idle' \subseteq exclude
           \/ /\ Cardinality(idle') <= IdleLimit
              /\ Cardinality(Entries) + incoming >= PressureStart =>
                     Cardinality(Entries) + incoming - Cardinality(closing') <= PressureTarget
    <2>1. closing \in SUBSET WS /\ Entries \in SUBSET WS
      BY DEF Entries
    <2> QED BY <2>1, ScanFacts
  <1>2. SocketInv'
    BY <1>1 DEF SocketInv, Ordered
  <1>3. ReapKeepsUp'
    <2>1. /\ Cardinality(Entries) \in Nat /\ Cardinality(Entries') \in Nat
          /\ PressureStart \in Nat /\ PressureTarget \in Nat /\ IdleLimit \in Nat \ {0}
      <3>1. Entries' \subseteq WS
        BY DEF Entries
      <3> QED BY <3>1, EntriesFinite, HandlersAssumption, FS_Subset, FS_CardinalityType, PolicyAssumption
    <2>2. Cardinality(closing') \in Nat
      BY <1>2, HandlersAssumption, FS_Subset, FS_CardinalityType DEF SocketInv
    <2>3. CASE idle' \subseteq exclude
      <3>1. Cardinality(idle') <= 1
        <4>1. IsFiniteSet(exclude) /\ Cardinality(exclude) <= 1
          <5>1. CASE exclude = {}
            BY <5>1, FS_EmptySet
          <5>2. CASE \E w \in WS : exclude = {w}
            <6>1. PICK w \in WS : exclude = {w}
              BY <5>2
            <6>2. IsFiniteSet({w}) /\ Cardinality({w}) = 1
              BY FS_Singleton
            <6> QED BY <6>1, <6>2
          <5> QED BY <5>1, <5>2
        <4>2. IsFiniteSet(idle') /\ Cardinality(idle') <= Cardinality(exclude)
          BY <4>1, <2>3, FS_Subset
        <4> QED BY <4>1, <4>2, FS_CardinalityType
      <3>2. Cardinality(idle') \in Nat
        BY <1>2, HandlersAssumption, FS_Subset, FS_CardinalityType DEF SocketInv, Ordered
      <3> QED BY <3>1, <3>2, <2>1, <2>3, <1>1 DEF ReapKeepsUp
    <2>4. CASE /\ Cardinality(idle') <= IdleLimit
               /\ Cardinality(Entries) + incoming >= PressureStart =>
                      Cardinality(Entries) + incoming - Cardinality(closing') <= PressureTarget
      BY <2>1, <2>2, <2>4 DEF ReapKeepsUp
    <2> QED BY <1>1, <2>3, <2>4
  <1> QED BY <1>2, <1>3

\* A handler that ends takes its socket along, which only relieves the budget.
LEMMA ReleaseKeeps ==
    ASSUME HandlersTyped, SocketInv, ReapKeepsUp, NEW w \in WS, Release(w),
           ws[w] \in {"blocked", "woken", "connecting", "ending"}
    PROVE  SocketInv' /\ ReapKeepsUp'
  <1>1. /\ idle' = idle \ {w} /\ older' = Without(older, {w})
        /\ closing' = closing \ {w} /\ spared' = spared \ {w}
    BY DEF Release
  <1>2. Entries' = Entries \ {w}
    BY ReleaseMoves
  <1>3. SocketInv'
    <2>1. Ordered(idle', older')
      BY <1>1, WithoutOrdered DEF SocketInv
    <2>2. \A v \in WS \ {w} : ws[v] # "blocked" => ws'[v] = ws[v]
      <3>1. [ws EXCEPT ![w] = "none"] \in [WS -> WsStates]
        BY DEF HandlersTyped, WsStates
      <3> QED BY <3>1, WakeFacts DEF Release, HandlersTyped
    <2> QED BY <1>1, <2>1, <2>2 DEF SocketInv, Ordered
  <1>4. /\ IsFiniteSet(Entries) /\ IsFiniteSet(closing) /\ IsFiniteSet(idle)
        /\ Cardinality(Entries) \in Nat /\ Cardinality(closing) \in Nat
        /\ Cardinality(idle) \in Nat
    BY EntriesFinite, HandlersAssumption, FS_Subset, FS_CardinalityType DEF SocketInv, Ordered
  <1>5. w \in closing => w \in Entries
    BY DEF SocketInv, Entries
  <1>6. /\ Cardinality(Entries') = IF w \in Entries THEN Cardinality(Entries) - 1
                                                   ELSE Cardinality(Entries)
        /\ Cardinality(closing') = IF w \in closing THEN Cardinality(closing) - 1
                                                   ELSE Cardinality(closing)
        /\ Cardinality(idle') <= Cardinality(idle) /\ Cardinality(idle') \in Nat
    BY <1>1, <1>2, <1>4, FS_RemoveElement, FS_Subset, FS_CardinalityType
  <1>7. ReapKeepsUp'
    BY <1>1, <1>4, <1>5, <1>6, PolicyAssumption DEF ReapKeepsUp
  <1> QED BY <1>3, <1>7

\* One part per kind of step: scans, releases, and what moves neither.
LEMMA SocketStep ==
    HandlersTyped /\ SocketInv /\ ReapKeepsUp /\ [Next]_vars => SocketInv' /\ ReapKeepsUp'
  <1> SUFFICES ASSUME HandlersTyped, SocketInv, ReapKeepsUp, [Next]_vars
               PROVE  SocketInv' /\ ReapKeepsUp'
    OBVIOUS
  <1>s. /\ Ordered(idle, older) /\ closing \subseteq WS /\ idle \cap closing = {}
        /\ \A v \in idle \cup closing : v \in WS /\ ws[v] \in {"open", "ending"}
    BY DEF SocketInv, Ordered
  <1>n. IsFiniteSet(Entries) /\ Cardinality(Entries) \in Nat
    BY EntriesFinite
  <1>m. 0 \in Nat /\ 1 \in Nat /\ draining \in BOOLEAN
    BY DEF HandlersTyped
  \* A step that leaves sockets and entries as they are.
  <1>a. ASSUME UNCHANGED <<idle, older, closing, spared>>, Entries' = Entries,
               \A v \in idle \cup closing : ws'[v] \in {"open", "ending"}
        PROVE  SocketInv' /\ ReapKeepsUp'
    BY <1>a DEF SocketInv, ReapKeepsUp, Ordered
  <1>1. ASSUME NEW w \in WS, Handler(w) PROVE SocketInv' /\ ReapKeepsUp'
    <2>1. CASE WsRequest(w) \/ WsRecheck(w)
      <3>1. ws[w] \in {"none", "woken"} /\ w \notin Entries
        BY <2>1 DEF WsRequest, WsRecheck, Entries
      <3>a. \A v \in WS \ {w} : /\ ws[v] # "blocked" => ws'[v] = ws[v]
                                /\ ws[v] = "blocked" => ws'[v] \in {"blocked", "woken"}
        <4>1. [ws EXCEPT ![w] = "none"] \in [WS -> WsStates]
          BY DEF HandlersTyped, WsStates
        <4>2. CASE ws' = Wake(ws)
          BY <4>2, WakeFacts DEF HandlersTyped
        <4>3. CASE ws' = Wake([ws EXCEPT ![w] = "none"])
          BY <4>1, <4>3, WakeFacts DEF HandlersTyped
        <4>4. CASE ws' = [ws EXCEPT ![w] = "blocked"] \/ ws' = [ws EXCEPT ![w] = "connecting"]
          BY <4>4 DEF HandlersTyped
        <4>5. CASE WsRequest(w)
          <5>1. \/ ws' = Wake(ws) \/ ws' = [ws EXCEPT ![w] = "blocked"]
                \/ ws' = [ws EXCEPT ![w] = "connecting"]
            BY <4>5 DEF WsRequest
          <5> QED BY <5>1, <4>2, <4>4
        <4>6. CASE WsRecheck(w)
          <5>1. \/ ws' = Wake([ws EXCEPT ![w] = "none"]) \/ ws' = [ws EXCEPT ![w] = "blocked"]
                \/ ws' = [ws EXCEPT ![w] = "connecting"]
            BY <4>6 DEF WsRecheck
          <5> QED BY <5>1, <4>3, <4>4
        <4> QED BY <2>1, <4>5, <4>6
      <3>2. \A v \in idle \cup closing : ws'[v] \in {"open", "ending"}
        BY <3>a, <3>1, <1>s
      <3>3. Entries' \subseteq Entries \cup {w}
        BY <3>a DEF Entries
      <3>4. Cardinality(Entries') <= Cardinality(Entries) + 1
        <4>1. IsFiniteSet(Entries \cup {w}) /\ Cardinality(Entries \cup {w}) = Cardinality(Entries) + 1
          BY <1>n, <3>1, FS_AddElement
        <4> QED BY <4>1, <3>3, FS_Subset
      <3>5. \E drain \in BOOLEAN : Reap(idle, older, closing, Entries, 1, {}, drain)
        BY <2>1, <1>m DEF WsRequest, WsRecheck
      <3> QED BY <3>2, <3>4, <3>5, <1>s, <1>m, ScanKeeps
    <2>2. CASE WsGiveUp(w) \/ WsConnectFailed(w) \/ WsFinally(w)
      BY <2>2, ReleaseKeeps DEF WsGiveUp, WsConnectFailed, WsFinally, Waiting
    <2>3. CASE WsConnected(w)
      <3>1. ws[w] = "connecting" /\ ws' = [ws EXCEPT ![w] = "open"] /\ w \notin idle \cup closing
        BY <2>3, <1>s DEF WsConnected
      <3>2. Entries' = Entries /\ \A v \in idle \cup closing \cup {w} : ws'[v] \in {"open", "ending"}
        BY <3>1, <1>s DEF HandlersTyped, Entries
      <3>3. Cardinality(Entries') <= Cardinality(Entries) + 0
        BY <3>2, <1>n
      <3>4. CASE Reap(idle, older, closing, Entries, 0, {}, draining)
        BY <3>2, <3>3, <3>4, <1>s, <1>m, ScanKeeps
      <3>5. CASE \E exclude \in {{}, {w}} : Reap(idle \cup {w}, [older EXCEPT ![w] = idle],
                                              closing, Entries, 0, exclude, draining)
        <4>1. Ordered(idle \cup {w}, [older EXCEPT ![w] = idle]) /\ (idle \cup {w}) \cap closing = {}
          BY <3>1, <1>s, AppendOrdered
        <4> QED BY <3>2, <3>3, <3>5, <4>1, <1>s, <1>m, ScanKeeps
      <3> QED BY <2>3, <3>4, <3>5 DEF WsConnected
    <2>4. CASE WsBegin(w)
      <3>1. /\ idle' = idle \ {w} /\ older' = Without(older, {w})
            /\ UNCHANGED <<ws, closing, spared>>
        BY <2>4 DEF WsBegin
      <3>2. SocketInv'
        BY <3>1, <1>s, WithoutOrdered DEF SocketInv
      <3>3. IsFiniteSet(idle) /\ Cardinality(idle') <= Cardinality(idle)
            /\ Cardinality(idle) \in Nat /\ Cardinality(idle') \in Nat
        BY <3>1, <1>s, HandlersAssumption, FS_Subset, FS_CardinalityType DEF Ordered
      <3>4. Entries' = Entries
        BY <3>1 DEF Entries
      <3> QED BY <3>1, <3>2, <3>3, <3>4, PolicyAssumption DEF ReapKeepsUp
    <2>5. CASE WsDelivered(w)
      <3>1. ws' = ws /\ w \notin idle \cup closing /\ ws[w] = "open"
        BY <2>5 DEF WsDelivered
      <3>2. Entries' = Entries /\ \A v \in idle \cup closing \cup {w} : ws'[v] \in {"open", "ending"}
        BY <3>1, <1>s DEF Entries
      <3>3. Cardinality(Entries') <= Cardinality(Entries) + 0
        BY <3>2, <1>n
      <3>4. Ordered(idle \cup {w}, [older EXCEPT ![w] = idle]) /\ (idle \cup {w}) \cap closing = {}
        BY <3>1, <1>s, AppendOrdered
      <3>5. Reap(idle \cup {w}, [older EXCEPT ![w] = idle], closing, Entries, 0, {}, draining)
        BY <2>5 DEF WsDelivered
      <3> QED BY <3>2, <3>3, <3>4, <3>5, <1>s, <1>m, ScanKeeps
    <2>6. CASE WsEnd(w)
      <3>1. Entries' = Entries /\ \A v \in idle \cup closing : ws'[v] \in {"open", "ending"}
        BY <2>6, <1>s DEF WsEnd, HandlersTyped, Entries
      <3> QED BY <2>6, <3>1, <1>a DEF WsEnd
    <2> QED BY <1>1, <2>1, <2>2, <2>3, <2>4, <2>5, <2>6 DEF Handler
  \* A step that wakes handlers at most.
  <1>w. ASSUME ws' = ws \/ ws' = Wake(ws)
        PROVE  Entries' = Entries /\ \A v \in idle \cup closing : ws'[v] \in {"open", "ending"}
    <2>1. \A v \in WS : ws[v] # "blocked" => ws'[v] = ws[v]
      BY <1>w, WakeFacts DEF HandlersTyped
    <2>2. Entries' = Entries
      BY <1>w, WakeMoves DEF Entries
    <2> QED BY <2>1, <2>2, <1>s
  <1>2. CASE UNCHANGED wsVars
    BY <1>2, <1>a, <1>w DEF wsVars
  <1>3. CASE HandleRefused
    BY <1>3, <1>a, <1>w DEF HandleRefused
  <1>4. CASE Watch
    <2>1. Reap(idle, older, closing, Entries, 0, {}, draining') /\ draining' \in BOOLEAN
      BY <1>4, <1>m DEF Watch
    <2>2. Entries' = Entries /\ \A v \in idle \cup closing : ws'[v] \in {"open", "ending"}
      BY <1>4, <1>w DEF Watch
    <2>3. Cardinality(Entries') <= Cardinality(Entries) + 0
      BY <2>2, <1>n
    <2> QED BY <2>1, <2>2, <2>3, <1>s, <1>m, ScanKeeps
  <1>5. ASSUME NEW h \in HTTP, Exchange(h) PROVE UNCHANGED wsVars
    BY <1>5 DEF Exchange, HttpRequest, HttpAcquire, HttpGiveUp, HttpResponse, HttpRead, HttpCleanup,
                HttpResponseClosed, HttpClientClosed
  <1>6. ASSUME NEW c \in {"drain", "force"}, Command(c) PROVE UNCHANGED wsVars
    BY <1>6 DEF Command
  <1>7. CASE UNCHANGED vars
    BY <1>7, <1>2 DEF vars
  <1> QED BY <1>1, <1>2, <1>3, <1>4, <1>5, <1>6, <1>7 DEF Next

----------------------------------------------------------------------------
(* The invariant and what follows from it                                  *)

LEMMA InitIInv == Init => IInv
  <1> SUFFICES ASSUME Init PROVE IInv
    OBVIOUS
  <1>1. HandlersTyped /\ StopInv
    BY DEF Init, HandlersTyped, WsStates, HttpStates, StopInv
  <1>6. QueueInv
    BY DEF Init, QueueInv
  <1>2. NoLostWakeup
    BY DEF Init, NoLostWakeup
  <1>3. Holding = {} /\ Cardinality(Holding) = 0
    BY FS_EmptySet DEF Init, Holding
  <1>4. LeaseInv
    BY <1>3, PolicyAssumption DEF Init, LeaseInv
  <1>5. PoolInv
    BY DEF Init, PoolInv
  <1>7. SocketInv
    BY DEF Init, SocketInv, Ordered
  <1>8. ReapKeepsUp
    BY FS_EmptySet, PolicyAssumption DEF Init, ReapKeepsUp
  <1> QED BY <1>1, <1>2, <1>4, <1>5, <1>6, <1>7, <1>8 DEF IInv

\* Every reachable state satisfies the inductive invariant.
THEOREM Invariance == Spec => []IInv
  <1>1. IInv /\ [Next]_vars => IInv'
    BY HandlersTypedStep, StopInvStep, NoLostWakeupStep, PoolStep, SocketStep DEF IInv
  <1> QED BY <1>1, InitIInv, PTL DEF Spec

\* WebSocketBudget.reserve: no handler sleeps on while there is room for it
\* or while the relay drains, however releases, refusals and the start of
\* the drain fall between its looks at the budget.
THEOREM NoWakeupIsLost == Spec => []NoLostWakeup
  <1>1. IInv => NoLostWakeup
    BY DEF IInv
  <1> QED BY <1>1, Invariance, PTL

\* watch() of the relay: once the stop event is set, no handler is running
\* and none starts, so that the process that ends interrupts no exchange.
THEOREM StopsQuietly == Spec => []StopQuiet
  <1>1. IInv => StopQuiet
    BY DEF IInv, StopInv, StopQuiet
  <1> QED BY <1>1, Invariance, PTL

\* WebSocketBudget.reap: however sockets come, finish and go between the scans,
\* no more of them are idle than the idle limit, and under pressure none but the
\* one the last scan spared.
THEOREM ScansKeepUp == Spec => []ReapKeepsUp
  <1>1. IInv => ReapKeepsUp
    BY DEF IInv
  <1> QED BY <1>1, Invariance, PTL

\* HTTPRelayPool.lease: on every path out of a lease the slot comes back, and
\* a client is pooled only clean, once and when nobody holds it.
THEOREM PoolStaysSound == Spec => []PoolSound
  <1>1. ASSUME IInv PROVE PoolSound
    <2>1. pool \in Seq(Clients) /\ DOMAIN pool = 1..Len(pool)
      BY <1>1, LenProperties DEF IInv, PoolInv
    <2>2. Cardinality(ToSet(pool)) = Len(pool)
      BY <1>1, <2>1, CountOfSeq DEF IInv, PoolInv
    <2>3. \A h \in HTTP : lease[h] \notin ToSet(pool)
      BY <1>1, <2>1 DEF IInv, PoolInv, ToSet
    <2>4. ToSet(pool) \cap dirty = {}
      BY <1>1, <2>3 DEF IInv, LeaseInv, Holding
    <2> QED BY <1>1, <2>2, <2>3, <2>4 DEF IInv, LeaseInv, PoolSound
  <1> QED BY <1>1, Invariance, PTL

----------------------------------------------------------------------------
(* The budget and the pool implement Capacity                              *)

\* Capacity counts as this module does.
LEMMA SameCardinality ==
    \A S : WsRoom!Cardinality(S) = Cardinality(S) /\ HttpRoom!Cardinality(S) = Cardinality(S)
  BY DEF WsRoom!Cardinality, HttpRoom!Cardinality, Cardinality

LEMMA WsRoomStep == IInv /\ [Next]_vars => [WsRoom!Next]_(WsRoom!vars)
  <1> SUFFICES ASSUME IInv, [Next]_vars
               PROVE  \/ \E u \in WS : \/ WsRoom!Enter(u) \/ WsRoom!Wait(u) \/ WsRoom!Grant(u)
                                       \/ WsRoom!GiveUp(u) \/ WsRoom!Leave(u)
                      \/ Waiting' = Waiting /\ Entries' = Entries
    BY DEF WsRoom!Next, WsRoom!vars
  <1>t. HandlersTyped /\ Cardinality(Entries) \in Nat /\ Budget \in Nat
    BY EntriesFinite, PolicyAssumption DEF IInv
  <1>1. ASSUME NEW w \in WS, Handler(w)
        PROVE  \/ \/ WsRoom!Enter(w) \/ WsRoom!Wait(w) \/ WsRoom!Grant(w)
                  \/ WsRoom!GiveUp(w) \/ WsRoom!Leave(w)
               \/ Waiting' = Waiting /\ Entries' = Entries
    <2>1. CASE WsRequest(w)
      <3>1. ws[w] = "none" /\ w \notin Waiting \cup Entries
        BY <2>1 DEF WsRequest, Waiting, Entries
      <3>2. CASE ws' = Wake(ws)
        BY <3>2, <1>t, WakeMoves
      <3>3. CASE Cardinality(Waiting) < Waiters /\ ws' = [ws EXCEPT ![w] = "blocked"]
        <4>1. Waiting' = Waiting \cup {w} /\ Entries' = Entries
          BY <3>3, <3>1, <1>t DEF HandlersTyped, Waiting, Entries
        <4> QED BY <4>1, <3>1, <3>3, SameCardinality DEF WsRoom!Wait
      <3>4. CASE /\ Cardinality(Waiting) < Waiters /\ ~(Cardinality(Entries) >= Budget)
                 /\ ws' = [ws EXCEPT ![w] = "connecting"]
        <4>1. Waiting' = Waiting /\ Entries' = Entries \cup {w}
          BY <3>4, <3>1, <1>t DEF HandlersTyped, Waiting, Entries
        <4> QED BY <4>1, <3>1, <3>4, <1>t, SameCardinality DEF WsRoom!Enter
      <3>5. Cardinality(Waiting) \in Nat /\ Waiters \in Nat
        BY HandlersAssumption, PolicyAssumption, FS_Subset, FS_CardinalityType DEF Waiting
      <3> QED BY <2>1, <3>2, <3>3, <3>4, <3>5 DEF WsRequest
    <2>2. CASE WsRecheck(w)
      <3>1. w \in Waiting /\ w \notin Entries /\ ws[w] = "woken"
        BY <2>2 DEF WsRecheck, Waiting, Entries
      <3>2. CASE ws' = Wake([ws EXCEPT ![w] = "none"])
        <4>1. [ws EXCEPT ![w] = "none"] \in [WS -> WsStates]
          BY <1>t DEF HandlersTyped, WsStates
        <4>2. \A v \in WS : /\ v = w => ws'[v] = "none"
                            /\ v # w /\ ws[v] # "blocked" => ws'[v] = ws[v]
                            /\ v # w /\ ws[v] = "blocked" => ws'[v] = "woken"
          BY <3>2, <4>1, <1>t, WakeFacts DEF HandlersTyped
        <4>3. Entries' = Entries /\ Waiting' = Waiting \ {w}
          BY <3>1, <4>2 DEF Entries, Waiting
        <4> QED BY <4>3, <3>1 DEF WsRoom!GiveUp
      <3>3. CASE ws' = [ws EXCEPT ![w] = "blocked"]
        <4>1. Waiting' = Waiting /\ Entries' = Entries
          BY <3>3, <3>1, <1>t DEF HandlersTyped, Waiting, Entries
        <4> QED BY <4>1
      <3>4. CASE ~(Cardinality(Entries) >= Budget) /\ ws' = [ws EXCEPT ![w] = "connecting"]
        <4>1. Waiting' = Waiting \ {w} /\ Entries' = Entries \cup {w}
          BY <3>4, <3>1, <1>t DEF HandlersTyped, Waiting, Entries
        <4> QED BY <4>1, <3>1, <3>4, <1>t, SameCardinality DEF WsRoom!Grant
      <3> QED BY <2>2, <3>2, <3>3, <3>4 DEF WsRecheck
    <2>3. CASE WsGiveUp(w)
      <3>1. Waiting' = Waiting \ {w} /\ Entries' = Entries
        BY <2>3, <1>t, ReleaseMoves DEF WsGiveUp, Waiting, Entries
      <3> QED BY <3>1, <2>3 DEF WsGiveUp, WsRoom!GiveUp
    <2>4. CASE WsConnectFailed(w) \/ WsFinally(w)
      <3>1. w \in Entries /\ w \notin Waiting /\ Release(w)
        BY <2>4 DEF WsConnectFailed, WsFinally, Entries, Waiting
      <3>2. Waiting' = Waiting /\ Entries' = Entries \ {w}
        BY <3>1, <1>t, ReleaseMoves
      <3> QED BY <3>1, <3>2 DEF WsRoom!Leave
    <2>5. CASE WsConnected(w) \/ WsEnd(w)
      BY <2>5, <1>t DEF WsConnected, WsEnd, HandlersTyped, Waiting, Entries
    <2>6. CASE WsBegin(w) \/ WsDelivered(w)
      BY <2>6 DEF WsBegin, WsDelivered, Waiting, Entries
    <2> QED BY <1>1, <2>1, <2>2, <2>3, <2>4, <2>5, <2>6 DEF Handler
  <1>2. CASE ws' = ws
    BY <1>2 DEF Waiting, Entries
  <1>3. CASE ws' = Wake(ws)
    BY <1>3, <1>t, WakeMoves
  <1>4. ASSUME NEW h \in HTTP, Exchange(h) PROVE ws' = ws
    BY <1>4 DEF Exchange, HttpRequest, HttpAcquire, HttpGiveUp, HttpResponse, HttpRead, HttpCleanup,
                HttpResponseClosed, HttpClientClosed, wsVars
  <1>5. ASSUME NEW c \in {"drain", "force"}, Command(c) PROVE ws' = ws
    BY <1>5 DEF Command, wsVars
  <1>6. ASSUME HandleRefused \/ Watch PROVE ws' = ws \/ ws' = Wake(ws)
    BY <1>6 DEF HandleRefused, Watch
  <1>7. ASSUME UNCHANGED vars PROVE ws' = ws
    BY <1>7 DEF vars, wsVars
  <1> QED BY <1>1, <1>2, <1>3, <1>4, <1>5, <1>6, <1>7 DEF Next

LEMMA HttpRoomStep == IInv /\ [Next]_vars => [HttpRoom!Next]_(HttpRoom!vars)
  <1> SUFFICES ASSUME IInv, [Next]_vars
               PROVE  \/ \E u \in HTTP : \/ HttpRoom!Enter(u) \/ HttpRoom!Wait(u)
                                         \/ HttpRoom!Grant(u) \/ HttpRoom!GiveUp(u)
                                         \/ HttpRoom!Leave(u)
                      \/ ToSet(queue)' = ToSet(queue) /\ Holding' = Holding
    BY DEF HttpRoom!Next, HttpRoom!vars
  <1>t. /\ HandlersTyped /\ LeaseInv /\ PoolInv /\ queue \in Seq(HTTP) /\ Len(queue) \in Nat
        /\ \A i, j \in 1..Len(queue) : queue[i] = queue[j] => i = j
        /\ ToSet(queue) = {queue[i] : i \in 1..Len(queue)}
        /\ \A g \in ToSet(queue) : g \in HTTP /\ http[g] = "queued" /\ g \notin Holding
        /\ Cardinality(ToSet(queue)) = Len(queue)
    <2>1. /\ HandlersTyped /\ LeaseInv /\ PoolInv /\ queue \in Seq(HTTP) /\ Len(queue) \in Nat
          /\ \A i, j \in 1..Len(queue) : queue[i] = queue[j] => i = j
          /\ \A i \in 1..Len(queue) : http[queue[i]] = "queued" /\ queue[i] \in HTTP
      BY ElementOfSeq DEF IInv, QueueInv
    <2>2. ToSet(queue) = {queue[i] : i \in 1..Len(queue)}
      BY <2>1, LenProperties DEF ToSet
    <2>3. \A g \in ToSet(queue) : g \in HTTP /\ http[g] = "queued" /\ g \notin Holding
      BY <2>1, <2>2 DEF Holding
    <2>4. Cardinality(ToSet(queue)) = Len(queue)
      BY <2>1, CountOfSeq
    <2> QED BY <2>1, <2>2, <2>3, <2>4
  <1>s. slots > 0 => Cardinality(Holding) < PoolLimit
    <2>1. slots \in Int /\ slots + Cardinality(Holding) = PoolLimit
      BY DEF IInv, LeaseInv
    <2> QED BY <2>1, HoldingFinite, PolicyAssumption
  <1>q. queue \in Seq(HTTP) /\ \A i, j \in 1..Len(queue) : queue[i] = queue[j] => i = j
    BY DEF IInv, QueueInv
  <1>1. ASSUME NEW h \in HTTP, Exchange(h)
        PROVE  \/ \/ HttpRoom!Enter(h) \/ HttpRoom!Wait(h) \/ HttpRoom!Grant(h)
                  \/ HttpRoom!GiveUp(h) \/ HttpRoom!Leave(h)
               \/ ToSet(queue)' = ToSet(queue) /\ Holding' = Holding
    <2>1. CASE HttpRequest(h)
      <3>1. /\ h \notin ToSet(queue) \cup Holding
            /\ Cardinality(ToSet(queue)) < Waiters
        BY <2>1, <1>t DEF HttpRequest, Holding
      <3>2. CASE slots > 0 /\ queue = <<>>
        <4>1. queue' = queue /\ TakeClient(h) /\ http' = [http EXCEPT ![h] = "sending"]
          BY <2>1, <3>2 DEF HttpRequest
        <4>2. Holding' = Holding \cup {h}
          BY <4>1, <1>t DEF HandlersTyped, Holding
        <4> QED BY <3>1, <3>2, <4>1, <4>2, <1>s, SameCardinality DEF HttpRoom!Enter
      <3>3. CASE ~(slots > 0 /\ queue = <<>>)
        <4>1. queue' = Append(queue, h) /\ http' = [http EXCEPT ![h] = "queued"] /\ http[h] = "none"
          BY <2>1, <3>3 DEF HttpRequest
        <4>2. Holding' = Holding
          BY <4>1, <1>t DEF HandlersTyped, Holding
        <4>3. \A i \in 1..Len(queue) : queue[i] # h
          BY <3>1, <1>t
        <4>4. ToSet(queue') = ToSet(queue) \cup {h}
          BY <4>1, <4>3, <1>q, AppendFacts
        <4> QED BY <3>1, <4>2, <4>4, SameCardinality DEF HttpRoom!Wait
      <3> QED BY <3>2, <3>3
    <2>2. CASE HttpAcquire(h)
      <3>1. queue' = Tail(queue) /\ Head(queue) = h /\ http' = [http EXCEPT ![h] = "sending"]
            /\ http[h] = "queued" /\ slots > 0
        BY <2>2 DEF HttpAcquire
      <3>2. Holding' = Holding \cup {h}
        BY <3>1, <1>t DEF HandlersTyped, Holding
      <3>3. CASE queue # <<>>
        <4>1. queue[1] = h /\ h \in ToSet(queue)
          <5>1. Head(queue) = queue[1] /\ 1 \in 1..Len(queue)
            BY <3>3, <1>q, TailFacts
          <5> QED BY <5>1, <3>1, <1>t
        <4>2. ToSet(queue') = ToSet(queue) \ {h}
          BY <3>1, <3>3, <1>q, TailFacts
        <4> QED BY <3>1, <3>2, <4>1, <4>2, <1>s, SameCardinality DEF HttpRoom!Grant
      <3>4. queue # <<>>
        BY <3>1 DEF IInv, QueueInv
      <3> QED BY <3>3, <3>4
    <2>3. CASE HttpGiveUp(h)
      <3>1. PICK k \in 1..Len(queue) : queue[k] = h /\ queue' = RemoveAt(queue, k)
        BY <2>3, <1>t, LenProperties DEF HttpGiveUp
      <3>2. ToSet(queue') = ToSet(queue) \ {h}
        BY <3>1, <1>q, RemoveAtFacts
      <3>4. h \in ToSet(queue)
        BY <3>1, <1>t
      <3>3. Holding' = Holding
        BY <2>3, <1>t DEF HttpGiveUp, HandlersTyped, Holding
      <3> QED BY <3>2, <3>3, <3>4 DEF HttpRoom!GiveUp
    <2>4. CASE HttpResponse(h) \/ HttpRead(h) \/ HttpCleanup(h)
      <3>1. Holding' = Holding
        BY <2>4, <1>t DEF HttpResponse, HttpRead, HttpCleanup, HandlersTyped, Holding
      <3>2. queue' = queue
        BY <2>4 DEF HttpResponse, HttpRead, HttpCleanup
      <3> QED BY <3>1, <3>2
    <2>5. CASE h \in Holding /\ EndLease(h)
      <3>1. queue' = queue /\ Holding' = Holding \ {h}
        BY <2>5, <1>t, EndLeaseStep DEF EndLease
      <3> QED BY <2>5, <3>1 DEF HttpRoom!Leave
    <2>6. CASE HttpResponseClosed(h)
      <3>1. CASE h \in complete
        BY <3>1, <2>6, <2>5 DEF HttpResponseClosed, Holding
      <3>2. CASE h \notin complete
        <4>1. queue' = queue /\ Holding' = Holding
          BY <3>2, <2>6, <1>t DEF HttpResponseClosed, HandlersTyped, Holding
        <4> QED BY <4>1
      <3> QED BY <3>1, <3>2
    <2>7. CASE HttpClientClosed(h)
      BY <2>7, <2>5 DEF HttpClientClosed, Holding
    <2> QED BY <1>1, <2>1, <2>2, <2>3, <2>4, <2>6, <2>7 DEF Exchange
  <1>2. CASE queue' = queue /\ http' = http
    BY <1>2 DEF Holding
  <1>3. ASSUME NEW w \in WS, Handler(w) PROVE queue' = queue /\ http' = http
    BY <1>3 DEF Handler, WsRequest, WsRecheck, WsGiveUp, WsConnected, WsConnectFailed, WsBegin,
                WsDelivered, WsEnd, WsFinally, httpVars
  <1>4. ASSUME (\E c \in {"drain", "force"} : Command(c)) \/ HandleRefused \/ Watch
        PROVE  queue' = queue /\ http' = http
    BY <1>4 DEF Command, HandleRefused, Watch, httpVars
  <1>5. ASSUME UNCHANGED vars PROVE queue' = queue /\ http' = http
    BY <1>5 DEF vars, httpVars
  <1> QED BY <1>1, <1>2, <1>3, <1>4, <1>5 DEF Next

\* WebSocketBudget with its reservations, and HTTPRelayPool with asyncio's
\* semaphore, each implement the bounded resource of Capacity.
THEOREM BothImplementCapacity == Spec => ImplementsCapacity
  <1>1. Init => WsRoom!Init
    BY DEF Init, WsRoom!Init, Waiting, Entries
  <1>2. Init => HttpRoom!Init
    <2> SUFFICES ASSUME Init PROVE HttpRoom!Init
      OBVIOUS
    <2>1. ToSet(queue) = {}
      BY DEF Init, ToSet
    <2> QED BY <2>1 DEF Init, HttpRoom!Init, Holding
  <1> QED BY <1>1, <1>2, WsRoomStep, HttpRoomStep, Invariance, PTL
          DEF Spec, ImplementsCapacity, WsRoom!Spec, HttpRoom!Spec
=============================================================================
