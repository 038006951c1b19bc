----------------------- MODULE ObservationProofs -----------------------
(***************************************************************************)
(* That no observation is lost unseen, on both sides of the database.      *)
(* QuotaBacklog, for every limit of the backlog and every size of a reply: *)
(* the exact budget, the order in which items reach the ledger, what a     *)
(* process can lose and the tracking state the ledger ends with.           *)
(* EvidenceWriter, for every set of records, every timestamp, capacity and *)
(* clock bound: its types, Accounted and CleanClose.                       *)
(***************************************************************************)
EXTENDS QuotaBacklog, EvidenceWriter, FiniteSetTheorems, SequenceTheorems, TLAPS

----------------------------------------------------------------------------
(* The inductive invariant, one definition per idea                        *)

Places == 1..Len(pending)

\* f[k] is the size of the first k rows: the byte count is a sum.
PrefixSums(f) ==
    /\ f \in [0..Len(pending) -> Nat]
    /\ f[0] = 0 /\ f[Len(pending)] = budget.bytes
    /\ \A k \in Places : f[k] = f[k - 1] + pending[k].size
    /\ \A k, m \in 0..Len(pending) : k <= m => f[k] <= f[m]

\* The triggers keep the budget row equal to what the table holds.
BudgetInv ==
    /\ budget.items = Len(pending)
    /\ \E f \in [0..Len(pending) -> Nat] : PrefixSums(f)
    /\ Len(pending) <= MaxItems + ControlReserve
    /\ budget.bytes <= MaxBytes + ControlReserve * ReserveBytes

\* Rows are in the order of their append calls, the slot's item is the last.
OrderInv ==
    /\ \A k \in Places : pending[k].id \in 1..calls
    /\ \A k, m \in Places : k < m => pending[k].id < pending[m].id
    /\ unsaved # NoItem => unsaved.id \in 1..calls
    /\ unsaved # NoItem => \A k \in Places : pending[k].id < unsaved.id
    /\ accepted \subseteq 1..calls /\ applied \subseteq 1..calls

\* Every accepted item is somewhere.
KeptInv ==
    \A i \in accepted : i \in applied \/ i \in gone \/ (\E k \in Places : pending[k].id = i)
                        \/ (unsaved # NoItem /\ unsaved.id = i)

\* Each process that ended took one item with it at most.
LostInv ==
    /\ IsFiniteSet(gone)
    /\ Cardinality(gone) <= IF pc = "off" THEN run ELSE run - 1

\* What the service thread holds between First and acknowledge is first in line.
FirstInLine == IF pending # <<>> THEN entry = Head(pending) ELSE entry = unsaved /\ unsaved # NoItem
ServiceInv ==
    /\ pc \in {"apply", "ack"} => FirstInLine
    /\ pc = "ack" => entry.id \in applied
    /\ pc = "ack" /\ entry.kind = "control" => ledgerOn = entry.on

\* The tracking state the ledger has once everything in line is applied is v.
Destined(v) ==
    \/ unsaved.kind = "control" /\ unsaved.on = v
    \/ /\ unsaved.kind # "control"
       /\ \E k \in Places : /\ pending[k].kind = "control" /\ pending[k].on = v
                            /\ \A m \in Places : k < m => pending[m].kind # "control"
    \/ /\ unsaved.kind # "control" /\ (\A k \in Places : pending[k].kind # "control")
       /\ ledgerOn = v

\* Unless a control was refused, that state is what the user sees.
ControlInv == pc # "off" /\ ~ctlIssue => Destined(tracking /\ ~paused)

IInv == TypeOK /\ BudgetInv /\ OrderInv /\ KeptInv /\ AppliedInOrder /\ LostInv /\ ServiceInv /\ ControlInv

----------------------------------------------------------------------------
(* The table                                                               *)

\* An item made by append has the types of its fields.
LEMMA NewItemTyped ==
    ASSUME calls \in Nat, NEW kind \in Kinds, NEW on \in BOOLEAN, NEW size \in Nat
    PROVE  NewItem(kind, on, size) \in Item /\ NewItem(kind, on, size).id = calls + 1
           /\ NewItem(kind, on, size).kind = kind /\ NewItem(kind, on, size).on = on
  BY DEF NewItem, Item

\* The empty slot is a value of its own.
LEMMA NoItemTyped == NoItem \in Item /\ NoItem.id = 0 /\ NoItem.kind = "failure"
  BY DEF NoItem, Item, Kinds

\* Places and fields after an insert at the end of the table.
LEMMA InsertFacts ==
    ASSUME TypeOK, NEW i \in Item, Insert(i)
    PROVE  /\ pending' \in Seq(Item) /\ Len(pending') = Len(pending) + 1 /\ Len(pending) \in Nat
           /\ \A k \in Places : pending'[k] = pending[k]
           /\ pending'[Len(pending) + 1] = i
           /\ \A k \in Places' : k \in Places \/ k = Len(pending) + 1
           /\ pending' # <<>>
           /\ pending # <<>> => Head(pending') = Head(pending)
           /\ pending = <<>> => Head(pending') = i
  <1> DEFINE t == Append(pending, i)
  <1>1. pending \in Seq(Item) /\ pending' = t
    BY DEF TypeOK, Insert
  <1>2. /\ t \in Seq(Item) /\ Len(t) = Len(pending) + 1 /\ Len(pending) \in Nat
        /\ \A k \in 1..Len(pending) : t[k] = pending[k]
        /\ t[Len(pending) + 1] = i
    BY <1>1
  <1>3. t # <<>> /\ Head(t) = t[1]
    BY <1>2
  <1>4. pending # <<>> => Head(pending) = pending[1] /\ Len(pending) >= 1
    BY <1>1, EmptySeq
  <1>5. pending = <<>> => Len(pending) = 0
    OBVIOUS
  <1> HIDE DEF t
  <1>6. \A k \in 1..Len(t) : k \in 1..Len(pending) \/ k = Len(pending) + 1
    BY <1>2
  <1> QED BY <1>1, <1>2, <1>3, <1>4, <1>5, <1>6 DEF Places

\* Places and fields after the first row is deleted.
LEMMA DeleteFacts ==
    ASSUME TypeOK, pending # <<>>, pending' = Tail(pending)
    PROVE  /\ pending' \in Seq(Item) /\ Len(pending') = Len(pending) - 1 /\ Len(pending) \in Nat
           /\ 1 \in Places /\ pending[1] = Head(pending) /\ Head(pending) \in Item
           /\ \A k \in Places' : k + 1 \in Places /\ pending'[k] = pending[k + 1]
           /\ \A k \in Places : k # 1 => k - 1 \in Places' /\ pending'[k - 1] = pending[k]
  <1> DEFINE t == Tail(pending)
  <1>1. pending \in Seq(Item) /\ pending' = t
    BY DEF TypeOK
  <1>2. /\ t \in Seq(Item) /\ Len(t) = Len(pending) - 1 /\ Len(pending) \in Nat /\ Len(pending) > 0
        /\ \A k \in 1..Len(t) : t[k] = pending[k + 1]
        /\ Head(pending) = pending[1] /\ Head(pending) \in Item
    BY <1>1, HeadTailProperties, EmptySeq
  <1> HIDE DEF t
  <1>3. \A k \in 1..Len(t) : k + 1 \in 1..Len(pending)
    BY <1>2
  <1>4. \A k \in 1..Len(pending) : k # 1 => k - 1 \in 1..Len(t) /\ t[k - 1] = pending[k]
    BY <1>2
  <1>5. 1 \in 1..Len(pending)
    BY <1>2
  <1> QED BY <1>1, <1>2, <1>3, <1>4, <1>5 DEF Places

\* The fields of a row.
LEMMA RowTyped == TypeOK => \A k \in Places : pending[k] \in Item
  BY ElementOfSeq DEF TypeOK, Places

\* What happens to an appended item: it is stored, it goes to the slot, or
\* it is refused.
LEMMA AppendCases ==
    ASSUME NEW i, NEW ok \in BOOLEAN, append(i, ok)
    PROVE  \/ /\ Takes(i, ok) /\ unsaved = NoItem /\ ~Full(i) /\ Insert(i)
              /\ unsaved' = unsaved /\ accepted' = accepted \cup {i.id}
           \/ /\ Takes(i, ok) /\ unsaved = NoItem /\ unsaved' = i
              /\ UNCHANGED tableVars /\ accepted' = accepted \cup {i.id}
           \/ ~Takes(i, ok) /\ UNCHANGED <<tableVars, unsaved, accepted>>
  BY DEF append, Takes

\* What a step does to the table.
LEMMA TableSteps ==
    ASSUME TypeOK, [Next]_vars
    PROVE  \/ UNCHANGED tableVars
           \/ \E i \in Item : ~Full(i) /\ Insert(i)
           \/ /\ pending # <<>> /\ pending' = Tail(pending)
              /\ budget' = [items |-> budget.items - 1, bytes |-> budget.bytes - Head(pending).size]
  <1>a. ASSUME NEW i \in Item, NEW ok \in BOOLEAN, append(i, ok)
        PROVE  UNCHANGED tableVars \/ (~Full(i) /\ Insert(i))
    BY <1>a, AppendCases
  <1>f. ASSUME NEW ok \in BOOLEAN, flush(ok)
        PROVE  UNCHANGED tableVars \/ \E i \in Item : ~Full(i) /\ Insert(i)
    BY <1>f DEF flush, TypeOK
  <1>n. \A kind \in Kinds, on \in BOOLEAN, size \in Nat : NewItem(kind, on, size) \in Item
    BY NewItemTyped DEF TypeOK
  <1>k. {"control", "local", "quota", "failure"} \subseteq Kinds /\ 0 \in Nat /\ 1 \in Nat
    BY DEF Kinds
  <1>1. ASSUME Gui PROVE UNCHANGED tableVars \/ \E i \in Item : ~Full(i) /\ Insert(i)
    <2>1. ASSUME NEW ok \in BOOLEAN, supply_local(ok)
          PROVE  UNCHANGED tableVars \/ \E i \in Item : ~Full(i) /\ Insert(i)
      BY <2>1, <1>a, <1>n, <1>k DEF supply_local
    <2>2. ASSUME NEW on \in BOOLEAN, NEW ok \in BOOLEAN, set_tracking_enabled(on, ok)
          PROVE  UNCHANGED tableVars \/ \E i \in Item : ~Full(i) /\ Insert(i)
      <3>1. NewItem("control", on /\ ~paused, 0) \in Item
        BY <1>n, <1>k DEF TypeOK
      <3> QED BY <2>2, <3>1, <1>a DEF set_tracking_enabled
    <2>3. ASSUME NEW p \in BOOLEAN, NEW ok \in BOOLEAN, set_paused(p, ok)
          PROVE  UNCHANGED tableVars \/ \E i \in Item : ~Full(i) /\ Insert(i)
      <3>1. NewItem("control", tracking /\ ~p, 0) \in Item
        BY <1>n, <1>k DEF TypeOK
      <3> QED BY <2>3, <3>1, <1>a DEF set_paused
    <2> QED BY <1>1, <2>1, <2>2, <2>3 DEF Gui, stop
  <1>2. ASSUME Service
        PROVE  \/ UNCHANGED tableVars \/ \E i \in Item : ~Full(i) /\ Insert(i)
               \/ /\ pending # <<>> /\ pending' = Tail(pending)
                  /\ budget' = [items |-> budget.items - 1, bytes |-> budget.bytes - Head(pending).size]
    <2>1. ASSUME NEW ok \in BOOLEAN, acknowledge(ok)
          PROVE  \/ UNCHANGED tableVars
                 \/ /\ pending # <<>> /\ pending' = Tail(pending)
                    /\ budget' = [items |-> budget.items - 1, bytes |-> budget.bytes - Head(pending).size]
      BY <2>1 DEF acknowledge
    <2>2. ASSUME NEW ok \in BOOLEAN, Close(ok) \/ reserve_fetch(ok)
          PROVE  UNCHANGED tableVars \/ \E i \in Item : ~Full(i) /\ Insert(i)
      BY <2>2, <1>f DEF Close, reserve_fetch, tableVars
    <2>3. ASSUME NEW i \in Item, NEW ok \in BOOLEAN, Record(i, ok)
          PROVE  UNCHANGED tableVars \/ \E j \in Item : ~Full(j) /\ Insert(j)
      BY <2>3, <1>a DEF Record
    <2>4. ASSUME NEW size \in ReplySizes, NEW ok \in BOOLEAN, FetchReply(size, ok)
          PROVE  UNCHANGED tableVars \/ \E i \in Item : ~Full(i) /\ Insert(i)
      <3>1. NewItem("quota", FALSE, size) \in Item
        BY <1>n, <1>k, BudgetAssumption
      <3> QED BY <2>4, <2>3, <3>1 DEF FetchReply, Cancel
    <2>5. ASSUME NEW ok \in BOOLEAN, RecordFailure(ok)
          PROVE  UNCHANGED tableVars \/ \E i \in Item : ~Full(i) /\ Insert(i)
      <3>1. NewItem("failure", FALSE, 0) \in Item
        BY <1>n, <1>k
      <3> QED BY <2>5, <2>3, <3>1 DEF RecordFailure
    <2>6. CASE \/ LoopTop \/ First \/ SaveEnd \/ FetchRaise
               \/ (\E due \in BOOLEAN : Observe(due)) \/ (\E ok \in BOOLEAN : Apply(ok))
      BY <2>6 DEF LoopTop, First, SaveEnd, FetchRaise, Cancel, Observe, Apply
    <2> QED BY <1>2, <2>1, <2>2, <2>4, <2>5, <2>6 DEF Service, Fetch
  <1>3. ASSUME Process PROVE UNCHANGED tableVars \/ \E i \in Item : ~Full(i) /\ Insert(i)
    <2>1. ASSUME NEW on \in BOOLEAN, NEW p \in BOOLEAN, NEW ok \in BOOLEAN, Start(on, p, ok)
          PROVE  UNCHANGED tableVars \/ \E i \in Item : ~Full(i) /\ Insert(i)
      <3>1. NewItem("control", on /\ ~p, 0) \in Item
        BY <1>n, <1>k
      <3> QED BY <2>1, <3>1, <1>a DEF Start
    <2> QED BY <1>3, <2>1 DEF Process, Exit
  <1>4. CASE UNCHANGED vars
    BY <1>4 DEF vars
  <1> QED BY <1>1, <1>2, <1>3, <1>4 DEF Next

\* The insert of pending_added keeps the budget exact.
LEMMA InsertBudget ==
    ASSUME TypeOK, BudgetInv, NEW i \in Item, ~Full(i), Insert(i)
    PROVE  BudgetInv'
  <1> DEFINE n == Len(pending)
  <1>1. PICK f \in [0..n -> Nat] : PrefixSums(f)
    BY DEF BudgetInv
  <1>2. /\ n \in Nat /\ Len(pending') = n + 1 /\ pending'[n + 1] = i
        /\ \A k \in 1..n : pending'[k] = pending[k]
    BY InsertFacts DEF Places
  <1>3. /\ budget'.items = budget.items + 1 /\ budget'.bytes = budget.bytes + i.size
        /\ i.size \in Nat /\ budget.bytes \in Nat /\ budget.items \in Nat
    BY DEF Insert, TypeOK, Item
  <1> DEFINE g == [k \in 0..n + 1 |-> IF k = n + 1 THEN budget.bytes + i.size ELSE f[k]]
  <1>4. /\ f[0] = 0 /\ f[n] = budget.bytes
        /\ \A k \in 1..n : f[k] = f[k - 1] + pending[k].size
        /\ \A k, m \in 0..n : k <= m => f[k] <= f[m]
        /\ \A k \in 0..n : f[k] \in Nat
    BY <1>1 DEF PrefixSums, Places
  <1> HIDE DEF n
  <1>5. g \in [0..n + 1 -> Nat] /\ g[0] = 0 /\ g[n + 1] = budget.bytes + i.size
        /\ \A k \in 0..n : g[k] = f[k]
    BY <1>2, <1>3, <1>4
  <1>6. \A k \in 0..n + 1 : k \in 0..n \/ k = n + 1
    BY <1>2
  <1> HIDE DEF g
  <1>7. ASSUME NEW k \in 1..n + 1 PROVE g[k] = g[k - 1] + pending'[k].size
    <2>1. CASE k = n + 1
      <3>1. k - 1 = n /\ n \in 0..n
        BY <2>1, <1>2
      <3> QED BY <3>1, <2>1, <1>2, <1>3, <1>4, <1>5
    <2>2. CASE k # n + 1
      <3>1. k \in 1..n /\ k \in 0..n /\ k - 1 \in 0..n
        BY <2>2, <1>2
      <3> QED BY <3>1, <1>2, <1>4, <1>5
    <2> QED BY <2>1, <2>2
  <1>8. ASSUME NEW k \in 0..n + 1, NEW m \in 0..n + 1, k <= m PROVE g[k] <= g[m]
    <2>1. CASE m \in 0..n /\ k \in 0..n
      BY <2>1, <1>8, <1>4, <1>5
    <2>2. CASE m = n + 1 /\ k \in 0..n
      <3>1. f[k] <= f[n] /\ f[k] \in Nat
        BY <2>2, <1>2, <1>4
      <3> QED BY <3>1, <2>2, <1>3, <1>4, <1>5
    <2>3. CASE m = n + 1 /\ k = n + 1
      BY <2>3, <1>3, <1>5
    <2>4. CASE m \in 0..n /\ k = n + 1
      BY <2>4, <1>2, <1>8
    <2> QED BY <1>6, <2>1, <2>2, <2>3, <2>4
  <1>p. PICK h \in [0..n + 1 -> Nat] :
           /\ h[0] = 0 /\ h[n + 1] = budget.bytes + i.size
           /\ \A k \in 1..n + 1 : h[k] = h[k - 1] + pending'[k].size
           /\ \A k, m \in 0..n + 1 : k <= m => h[k] <= h[m]
    BY <1>5, <1>7, <1>8
  <1>9. PrefixSums(h)' /\ h \in [0..Len(pending') -> Nat]
    BY <1>p, <1>2, <1>3 DEF PrefixSums, Places
  <1>10. budget.items < MaxItems + ControlReserve
         /\ budget.bytes + i.size <= MaxBytes + ControlReserve * ReserveBytes
    <2>1. CASE i.kind = "control"
      BY <2>1, <1>3, BudgetAssumption DEF Full
    <2>2. CASE i.kind # "control"
      <3>1. ControlReserve * ReserveBytes \in Nat
        BY BudgetAssumption
      <3>2. budget.items < MaxItems + 0 /\ budget.bytes + i.size <= MaxBytes + 0 * ReserveBytes
        BY <2>2, <1>3, BudgetAssumption DEF Full
      <3>3. 0 * ReserveBytes = 0
        BY BudgetAssumption
      <3> QED BY <3>1, <3>2, <3>3, <1>3, BudgetAssumption
    <2> QED BY <2>1, <2>2
  <1>11. n = budget.items
    BY DEF BudgetInv, n
  <1>12. Len(pending') <= MaxItems + ControlReserve /\ budget'.items = Len(pending')
    BY <1>2, <1>3, <1>10, <1>11, BudgetAssumption
  <1>13. budget'.bytes <= MaxBytes + ControlReserve * ReserveBytes
    BY <1>3, <1>10
  <1> QED BY <1>9, <1>12, <1>13 DEF BudgetInv

\* The delete of pending_removed keeps the budget exact.
LEMMA DeleteBudget ==
    ASSUME TypeOK, BudgetInv, pending # <<>>, pending' = Tail(pending),
           budget' = [items |-> budget.items - 1, bytes |-> budget.bytes - Head(pending).size]
    PROVE  BudgetInv' /\ budget' \in [items: Nat, bytes: Nat]
  <1> DEFINE n == Len(pending)
  <1>1. PICK f \in [0..n -> Nat] : PrefixSums(f)
    BY DEF BudgetInv
  <1>2. /\ n \in Nat /\ n > 0 /\ Len(pending') = n - 1
        /\ \A k \in 1..n - 1 : pending'[k] = pending[k + 1]
        /\ pending[1].size = Head(pending).size /\ Head(pending).size \in Nat
    <2>1. Head(pending).size \in Nat
      BY DeleteFacts DEF Item
    <2>2. n \in Nat /\ n > 0
      BY EmptySeq DEF TypeOK
    <2> QED BY <2>1, <2>2, DeleteFacts DEF Places
  <1>3. /\ f[0] = 0 /\ f[n] = budget.bytes
        /\ \A k \in 1..n : f[k] = f[k - 1] + pending[k].size
        /\ \A k, m \in 0..n : k <= m => f[k] <= f[m]
        /\ \A k \in 0..n : f[k] \in Nat
    BY <1>1 DEF PrefixSums, Places
  <1>4. n = budget.items /\ n <= MaxItems + ControlReserve
        /\ budget.bytes <= MaxBytes + ControlReserve * ReserveBytes
    BY DEF BudgetInv
  <1>5. budget.bytes \in Nat /\ budget'.items = n - 1 /\ budget'.bytes = budget.bytes - Head(pending).size
    BY <1>4 DEF TypeOK
  <1> HIDE DEF n
  <1>6. f[1] = Head(pending).size /\ \A k \in 0..n - 1 : k + 1 \in 0..n /\ f[1] <= f[k + 1]
    <2>1. 1 \in 1..n /\ 1 - 1 = 0 /\ 1 \in 0..n
      BY <1>2
    <2>2. f[1] = f[0] + pending[1].size
      BY <2>1, <1>3
    <2>3. \A k \in 0..n - 1 : k + 1 \in 0..n /\ 1 <= k + 1
      BY <1>2
    <2> QED BY <2>1, <2>2, <2>3, <1>2, <1>3
  <1> DEFINE g == [k \in 0..n - 1 |-> f[k + 1] - f[1]]
  <1>7. g \in [0..n - 1 -> Nat] /\ \A k \in 0..n - 1 : g[k] = f[k + 1] - f[1]
    <2>1. \A k \in 0..n - 1 : f[k + 1] \in Nat /\ f[1] \in Nat /\ f[1] <= f[k + 1]
      BY <1>2, <1>3, <1>6
    <2>2. \A k \in 0..n - 1 : f[k + 1] - f[1] \in Nat
      BY <2>1
    <2> QED BY <2>2
  <1> HIDE DEF g
  <1>8. g[0] = 0 /\ g[n - 1] = budget'.bytes
    <2>1. 0 \in 0..n - 1 /\ n - 1 \in 0..n - 1 /\ n - 1 + 1 = n /\ 0 + 1 = 1 /\ f[1] \in Nat
      BY <1>2, <1>3, <1>6
    <2>2. g[0] = f[1] - f[1] /\ g[n - 1] = f[n] - f[1]
      BY <2>1, <1>7
    <2> QED BY <2>1, <2>2, <1>3, <1>5, <1>6
  <1>9. ASSUME NEW k \in 1..n - 1 PROVE g[k] = g[k - 1] + pending'[k].size
    <2>1. k \in 0..n - 1 /\ k - 1 \in 0..n - 1 /\ k + 1 \in 1..n /\ k - 1 + 1 = k /\ (k + 1) - 1 = k
      BY <1>2
    <2>2. g[k] = f[k + 1] - f[1] /\ g[k - 1] = f[k] - f[1]
      BY <2>1, <1>7
    <2>3. f[k + 1] = f[k] + pending[k + 1].size /\ pending'[k] = pending[k + 1]
      BY <2>1, <1>2, <1>3
    <2>4. f[k] \in Nat /\ f[k + 1] \in Nat /\ f[1] \in Nat
      BY <2>1, <1>2, <1>3, <1>6
    <2>5. pending[k + 1].size \in Nat
      BY <2>1, RowTyped DEF Item, Places, n
    <2>6. pending'[k].size = pending[k + 1].size
      BY <2>3
    <2>7. f[k + 1] - f[1] = (f[k] - f[1]) + pending[k + 1].size
      <3>1. f[k + 1] = f[k] + pending[k + 1].size
        BY <2>3
      <3>2. ASSUME NEW a \in Nat, NEW b \in Nat, NEW c \in Nat, NEW d \in Nat, b = a + d
            PROVE  b - c = (a - c) + d
        BY <3>2
      <3> QED BY <3>1, <3>2, <2>4, <2>5
    <2> QED BY <2>2, <2>6, <2>7
  <1>10. ASSUME NEW k \in 0..n - 1, NEW m \in 0..n - 1, k <= m PROVE g[k] <= g[m]
    <2>1. k + 1 \in 0..n /\ m + 1 \in 0..n /\ k + 1 <= m + 1
      BY <1>2, <1>10
    <2>2. f[k + 1] <= f[m + 1] /\ f[k + 1] \in Nat /\ f[m + 1] \in Nat /\ f[1] \in Nat
      BY <2>1, <1>2, <1>3, <1>6
    <2>3. g[k] = f[k + 1] - f[1] /\ g[m] = f[m + 1] - f[1]
      BY <1>7
    <2> QED BY <2>2, <2>3
  <1>p. PICK h \in [0..n - 1 -> Nat] :
           /\ h[0] = 0 /\ h[n - 1] = budget'.bytes
           /\ \A k \in 1..n - 1 : h[k] = h[k - 1] + pending'[k].size
           /\ \A k, m \in 0..n - 1 : k <= m => h[k] <= h[m]
    BY <1>7, <1>8, <1>9, <1>10
  <1>11. PrefixSums(h)' /\ h \in [0..Len(pending') -> Nat]
    BY <1>p, <1>2 DEF PrefixSums, Places
  <1>12. budget'.bytes \in Nat
    BY <1>2, <1>7, <1>8
  <1>13. budget' \in [items: Nat, bytes: Nat]
    BY <1>2, <1>5, <1>12
  <1>14. Len(pending') <= MaxItems + ControlReserve /\ budget'.items = Len(pending')
    BY <1>2, <1>4, <1>5, BudgetAssumption
  <1>15. budget'.bytes <= MaxBytes + ControlReserve * ReserveBytes
    <2>1. ControlReserve * ReserveBytes \in Nat
      BY BudgetAssumption
    <2> QED BY <2>1, <1>2, <1>4, <1>5, BudgetAssumption
  <1> QED BY <1>11, <1>13, <1>14, <1>15 DEF BudgetInv

\* Every step keeps the budget exact: only inserts and deletes touch it.
LEMMA BudgetStep == TypeOK /\ BudgetInv /\ [Next]_vars => BudgetInv'
  <1> SUFFICES ASSUME TypeOK, BudgetInv, [Next]_vars PROVE BudgetInv'
    OBVIOUS
  <1>1. CASE UNCHANGED tableVars
    BY <1>1 DEF tableVars, BudgetInv, PrefixSums, Places
  <1> QED BY <1>1, TableSteps, InsertBudget, DeleteBudget

----------------------------------------------------------------------------
(* The items                                                               *)

itemVars == <<pending, unsaved, calls, accepted, applied, gone>>

\* The ways in which a step moves items.
Arrive == \E i \in Item, ok \in BOOLEAN : i.id = calls + 1 /\ append(i, ok) /\ UNCHANGED applied
Retry == \E ok \in BOOLEAN : flush(ok) /\ UNCHANGED <<calls, accepted, applied, gone>>
LeaveTable ==
    /\ pc = "ack" /\ pending # <<>> /\ pending' = Tail(pending)
    /\ UNCHANGED <<unsaved, calls, accepted, applied, gone>>
LeaveSlot ==
    /\ pc = "ack" /\ pending = <<>> /\ unsaved' = NoItem
    /\ UNCHANGED <<pending, calls, accepted, applied, gone>>
Settle ==
    /\ pc = "apply" /\ applied' = applied \cup {entry.id}
    /\ UNCHANGED <<pending, unsaved, calls, accepted, gone>>
Lose ==
    /\ gone' = (IF unsaved # NoItem THEN gone \cup {unsaved.id} ELSE gone) /\ unsaved' = NoItem
    /\ UNCHANGED <<pending, calls, accepted, applied>>

\* Each step moves items in one of those ways, or not at all.
LEMMA ItemSteps ==
    ASSUME TypeOK, ServiceInv, [Next]_vars
    PROVE  Arrive \/ Retry \/ LeaveTable \/ LeaveSlot \/ Settle \/ Lose \/ UNCHANGED itemVars
  <1> USE DEF itemVars, tableVars, slotVars, ledgerVars, histVars
  <1>n. \A kind \in Kinds, on \in BOOLEAN, size \in Nat :
           NewItem(kind, on, size) \in Item /\ NewItem(kind, on, size).id = calls + 1
    BY NewItemTyped DEF TypeOK
  <1>k. {"control", "local", "quota", "failure"} \subseteq Kinds /\ 0 \in Nat /\ 1 \in Nat
    BY DEF Kinds
  <1>b. tracking \in BOOLEAN /\ paused \in BOOLEAN
    BY DEF TypeOK
  <1>1. ASSUME Gui PROVE Arrive \/ UNCHANGED itemVars
    <2>1. ASSUME NEW ok \in BOOLEAN, supply_local(ok) PROVE Arrive
      BY <2>1, <1>n, <1>k DEF supply_local, guiFrame, Arrive
    <2>2. ASSUME NEW on \in BOOLEAN, NEW ok \in BOOLEAN, set_tracking_enabled(on, ok) PROVE Arrive
      <3>1. (on /\ ~paused) \in BOOLEAN
        OBVIOUS
      <3> QED BY <2>2, <3>1, <1>n, <1>k DEF set_tracking_enabled, guiFrame, Arrive
    <2>3. ASSUME NEW p \in BOOLEAN, NEW ok \in BOOLEAN, set_paused(p, ok) PROVE Arrive
      <3>1. (tracking /\ ~p) \in BOOLEAN
        OBVIOUS
      <3> QED BY <2>3, <3>1, <1>n, <1>k DEF set_paused, guiFrame, Arrive
    <2> QED BY <1>1, <2>1, <2>2, <2>3 DEF Gui, stop
  <1>2. ASSUME Service
        PROVE  Arrive \/ Retry \/ LeaveTable \/ LeaveSlot \/ Settle \/ UNCHANGED itemVars
    <2>1. ASSUME NEW ok \in BOOLEAN, acknowledge(ok)
          PROVE  LeaveTable \/ LeaveSlot \/ UNCHANGED itemVars
      <3>1. pc = "ack" /\ FirstInLine
        BY <2>1 DEF acknowledge, ServiceInv
      <3>2. CASE pending # <<>>
        BY <2>1, <3>1, <3>2 DEF acknowledge, FirstInLine, LeaveTable
      <3>3. CASE pending = <<>>
        BY <2>1, <3>1, <3>3 DEF acknowledge, LeaveSlot
      <3> QED BY <3>2, <3>3
    <2>2. ASSUME NEW ok \in BOOLEAN, Apply(ok) PROVE Settle \/ UNCHANGED itemVars
      BY <2>2 DEF Apply, Settle
    <2>3. ASSUME NEW ok \in BOOLEAN, Close(ok) PROVE Retry
      BY <2>3 DEF Close, Retry
    <2>4. ASSUME NEW ok \in BOOLEAN, reserve_fetch(ok) PROVE Retry \/ UNCHANGED itemVars
      BY <2>4 DEF reserve_fetch, Retry
    <2>5. ASSUME NEW i \in Item, i.id = calls + 1, NEW ok \in BOOLEAN, Record(i, ok), serviceFrame
          PROVE  Arrive \/ UNCHANGED itemVars
      BY <2>5 DEF Record, Arrive, serviceFrame
    <2>6. ASSUME NEW size \in ReplySizes, NEW ok \in BOOLEAN, FetchReply(size, ok)
          PROVE  Arrive \/ UNCHANGED itemVars
      <3>1. NewItem("quota", FALSE, size) \in Item /\ NewItem("quota", FALSE, size).id = calls + 1
        BY <1>n, <1>k, BudgetAssumption
      <3> QED BY <2>6, <2>5, <3>1 DEF FetchReply, Cancel, serviceFrame
    <2>7. ASSUME NEW ok \in BOOLEAN, RecordFailure(ok) PROVE Arrive \/ UNCHANGED itemVars
      <3>1. NewItem("failure", FALSE, 0) \in Item /\ NewItem("failure", FALSE, 0).id = calls + 1
        BY <1>n, <1>k
      <3> QED BY <2>7, <2>5, <3>1 DEF RecordFailure
    <2>8. CASE LoopTop \/ First \/ SaveEnd \/ FetchRaise \/ (\E due \in BOOLEAN : Observe(due))
      BY <2>8 DEF LoopTop, First, SaveEnd, FetchRaise, Cancel, Observe, serviceFrame
    <2> QED BY <1>2, <2>1, <2>2, <2>3, <2>4, <2>6, <2>7, <2>8 DEF Service, Fetch
  <1>3. ASSUME Process PROVE Arrive \/ Lose
    <2>1. ASSUME NEW on \in BOOLEAN, NEW p \in BOOLEAN, NEW ok \in BOOLEAN, Start(on, p, ok)
          PROVE  Arrive
      <3>1. (on /\ ~p) \in BOOLEAN
        OBVIOUS
      <3> QED BY <2>1, <3>1, <1>n, <1>k DEF Start, Arrive
    <2>2. ASSUME Exit PROVE Lose
      BY <2>2 DEF Exit, Lose
    <2> QED BY <1>3, <2>1, <2>2 DEF Process
  <1>4. CASE UNCHANGED vars
    BY <1>4 DEF vars
  <1> QED BY <1>1, <1>2, <1>3, <1>4 DEF Next

\* What the order says of each place, with the ranges spelled out.
LEMMA OrderFacts ==
    ASSUME TypeOK, OrderInv
    PROVE  /\ calls \in Nat /\ Len(pending) \in Nat
           /\ \A k \in Places : pending[k].id \in Nat /\ pending[k].id <= calls /\ pending[k].id >= 1
           /\ unsaved # NoItem => unsaved.id \in Nat /\ unsaved.id <= calls /\ unsaved.id >= 1
           /\ \A j \in applied : j \in Nat /\ j <= calls
           /\ \A j \in accepted : j \in Nat /\ j <= calls /\ j >= 1
  BY DEF TypeOK, OrderInv

\* A row is inserted behind all the others.
LEMMA InsertOrder ==
    ASSUME TypeOK, OrderInv, NEW i \in Item, Insert(i),
           i.id \in 1..calls', calls' \in Nat, calls <= calls',
           \A k \in Places : pending[k].id < i.id,
           unsaved' = NoItem, accepted' \subseteq 1..calls', applied' = applied
    PROVE  OrderInv'
  <1>1. /\ \A k \in Places : pending'[k] = pending[k]
        /\ pending'[Len(pending) + 1] = i /\ Len(pending) \in Nat
        /\ \A k \in Places' : k \in Places \/ k = Len(pending) + 1
    BY InsertFacts
  <1>2. \A k \in Places : pending[k].id \in 1..calls' /\ k <= Len(pending)
    BY OrderFacts DEF Places
  <1>3. \A k \in Places' : pending'[k].id \in 1..calls'
    BY <1>1, <1>2
  <1>4. ASSUME NEW k \in Places', NEW m \in Places', k < m
        PROVE  pending'[k].id < pending'[m].id
    <2>0. m \in Places => m <= Len(pending)
      BY <1>2
    <2>1. k \in Places
      <3>1. k \in Int /\ m \in Int
        BY DEF Places
      <3>2. m <= Len(pending) + 1
        BY <2>0, <3>1, <1>1
      <3>3. k # Len(pending) + 1
        BY <3>1, <3>2, <1>1, <1>4
      <3> QED BY <3>3, <1>1
    <2>2. CASE m \in Places
      BY <2>1, <2>2, <1>1, <1>4 DEF OrderInv
    <2>3. CASE m = Len(pending) + 1
      BY <2>1, <2>3, <1>1
    <2> QED BY <2>2, <2>3, <1>1
  <1>5. applied' \subseteq 1..calls'
    BY OrderFacts DEF OrderInv
  <1> QED BY <1>3, <1>4, <1>5 DEF OrderInv

\* A new item is the youngest: it goes behind the others, into the empty slot,
\* or it is refused.
LEMMA ArriveStep ==
    ASSUME TypeOK, OrderInv, KeptInv, AppliedInOrder, Arrive
    PROVE  OrderInv' /\ KeptInv' /\ AppliedInOrder'
  <1>1. PICK i \in Item, ok \in BOOLEAN : i.id = calls + 1 /\ append(i, ok) /\ applied' = applied
    BY DEF Arrive
  <1>2. calls' = calls + 1 /\ gone' = gone /\ calls \in Nat /\ calls' \in Nat
    BY <1>1 DEF append, TypeOK
  <1>3. \A k \in Places : pending[k].id < i.id
    BY <1>1, OrderFacts
  <1>4. /\ i.id \in 1..calls' /\ calls <= calls' /\ (accepted \cup {i.id}) \subseteq 1..calls'
        /\ accepted \subseteq 1..calls' /\ applied \subseteq 1..calls'
    BY <1>1, <1>2, OrderFacts DEF OrderInv
  \* Nothing that was applied is younger than the newcomer.
  <1>5. accepted' \subseteq accepted \cup {i.id} => AppliedInOrder'
    BY <1>1, <1>2, OrderFacts DEF AppliedInOrder
  <1>6. CASE /\ unsaved = NoItem /\ Insert(i) /\ unsaved' = unsaved
             /\ accepted' = accepted \cup {i.id}
    <2>1. OrderInv'
      BY <1>1, <1>2, <1>3, <1>4, <1>6, InsertOrder
    <2>2. /\ \A k \in Places : k \in Places' /\ pending'[k] = pending[k]
          /\ Len(pending) + 1 \in Places' /\ pending'[Len(pending) + 1] = i
      BY <1>6, InsertFacts DEF Places
    <2>3. KeptInv'
      <3>1. ASSUME NEW j \in accepted
            PROVE  j \in applied' \/ j \in gone' \/ \E k \in Places' : pending'[k].id = j
        BY <3>1, <1>1, <1>2, <1>6, <2>2 DEF KeptInv
      <3>2. \E k \in Places' : pending'[k].id = i.id
        BY <2>2
      <3> QED BY <3>1, <3>2, <1>6 DEF KeptInv
    <2> QED BY <2>1, <2>3, <1>5, <1>6
  <1>7. CASE /\ unsaved = NoItem /\ unsaved' = i /\ UNCHANGED tableVars
             /\ accepted' = accepted \cup {i.id}
    <2>1. pending' = pending /\ Places' = Places /\ i # NoItem
      BY <1>7, <1>1, <1>2, NoItemTyped DEF tableVars, Places
    <2>2. OrderInv'
      BY <2>1, <1>1, <1>3, <1>4, <1>7, <1>2, OrderFacts DEF OrderInv
    <2>3. KeptInv'
      BY <2>1, <1>1, <1>2, <1>7 DEF KeptInv
    <2> QED BY <2>2, <2>3, <1>5, <1>7
  <1>8. CASE UNCHANGED <<tableVars, unsaved, accepted>>
    <2>1. pending' = pending /\ Places' = Places
      BY <1>8 DEF tableVars, Places
    <2>2. OrderInv'
      BY <2>1, <1>1, <1>4, <1>8, <1>2, OrderFacts DEF OrderInv
    <2>3. KeptInv'
      BY <2>1, <1>1, <1>2, <1>8 DEF KeptInv
    <2> QED BY <2>2, <2>3, <1>5, <1>8
  <1> QED BY <1>1, <1>6, <1>7, <1>8, AppendCases

\* The slot's item is younger than every row, and goes behind them.
LEMMA RetryStep ==
    ASSUME TypeOK, OrderInv, KeptInv, AppliedInOrder, Retry
    PROVE  OrderInv' /\ KeptInv' /\ AppliedInOrder'
  <1>0. UNCHANGED <<calls, accepted, applied, gone>>
    BY DEF Retry
  <1>1. CASE UNCHANGED <<pending, unsaved>>
    BY <1>0, <1>1 DEF OrderInv, KeptInv, AppliedInOrder, Places
  <1>2. CASE unsaved # NoItem /\ Insert(unsaved) /\ unsaved' = NoItem
    <2>1. unsaved \in Item /\ unsaved.id \in 1..calls /\ \A k \in Places : pending[k].id < unsaved.id
      BY <1>2 DEF OrderInv, TypeOK
    <2>2. OrderInv'
      <3>1. unsaved.id \in 1..calls' /\ calls' \in Nat /\ calls <= calls'
            /\ accepted' \subseteq 1..calls' /\ applied' = applied
        BY <1>0, <2>1 DEF OrderInv, TypeOK
      <3> QED BY <3>1, <2>1, <1>2, InsertOrder
    <2>3. /\ \A k \in Places : k \in Places' /\ pending'[k] = pending[k]
          /\ Len(pending) + 1 \in Places' /\ pending'[Len(pending) + 1] = unsaved
      BY <1>2, <2>1, InsertFacts DEF Places
    <2>4. KeptInv'
      BY <2>3, <1>0, <1>2 DEF KeptInv
    <2> QED BY <2>2, <2>4, <1>0 DEF AppliedInOrder
  <1> QED BY <1>1, <1>2 DEF Retry, flush, tableVars

\* A row is deleted after its effects have been committed.
LEMMA LeaveTableStep ==
    ASSUME TypeOK, OrderInv, KeptInv, AppliedInOrder, ServiceInv, LeaveTable
    PROVE  OrderInv' /\ KeptInv' /\ AppliedInOrder'
  <1>0. UNCHANGED <<unsaved, calls, accepted, applied, gone>> /\ pending # <<>> /\ pending' = Tail(pending)
    BY DEF LeaveTable
  <1>1. /\ 1 \in Places /\ pending[1].id \in applied
        /\ \A k \in Places' : k + 1 \in Places /\ pending'[k] = pending[k + 1]
        /\ \A k \in Places : k # 1 => k - 1 \in Places' /\ pending'[k - 1] = pending[k]
    BY <1>0, DeleteFacts DEF LeaveTable, ServiceInv, FirstInLine
  <1>2. OrderInv'
    <2>1. \A k \in Places' : pending'[k].id \in 1..calls'
      BY <1>0, <1>1 DEF OrderInv
    <2>2. ASSUME NEW k \in Places', NEW m \in Places', k < m
          PROVE  pending'[k].id < pending'[m].id
      <3>1. k + 1 < m + 1
        BY <2>2 DEF Places
      <3> QED BY <3>1, <1>1 DEF OrderInv
    <2>3. unsaved' # NoItem => \A k \in Places' : pending'[k].id < unsaved'.id
      BY <1>0, <1>1 DEF OrderInv
    <2> QED BY <2>1, <2>2, <2>3, <1>0 DEF OrderInv
  <1>3. ASSUME NEW i \in accepted'
        PROVE  i \in applied' \/ i \in gone' \/ (\E k \in Places' : pending'[k].id = i)
               \/ (unsaved' # NoItem /\ unsaved'.id = i)
    <2>1. CASE \E k \in Places : pending[k].id = i
      <3>1. PICK k \in Places : pending[k].id = i
        BY <2>1
      <3>2. CASE k = 1
        BY <3>1, <3>2, <1>0, <1>1
      <3>3. CASE k # 1
        <4>1. k - 1 \in Places' /\ pending'[k - 1].id = i
          BY <3>1, <3>3, <1>1
        <4> QED BY <4>1
      <3> QED BY <3>2, <3>3
    <2>2. CASE ~\E k \in Places : pending[k].id = i
      BY <2>2, <1>0 DEF KeptInv
    <2> QED BY <2>1, <2>2
  <1>4. KeptInv'
    BY <1>3 DEF KeptInv
  <1> QED BY <1>0, <1>2, <1>4 DEF AppliedInOrder

\* acknowledge(None) empties the slot after its effects have been committed.
LEMMA LeaveSlotStep ==
    ASSUME TypeOK, OrderInv, KeptInv, AppliedInOrder, ServiceInv, LeaveSlot
    PROVE  OrderInv' /\ KeptInv' /\ AppliedInOrder'
  <1>1. UNCHANGED <<pending, calls, accepted, applied, gone>> /\ unsaved' = NoItem
        /\ unsaved.id \in applied /\ Places' = Places
    BY DEF LeaveSlot, ServiceInv, FirstInLine, Places
  <1> QED BY <1>1 DEF OrderInv, KeptInv, AppliedInOrder

\* What is applied is first in line: everything accepted before it has been
\* applied already or was lost.
LEMMA SettleStep ==
    ASSUME TypeOK, OrderInv, KeptInv, AppliedInOrder, ServiceInv, Settle
    PROVE  OrderInv' /\ KeptInv' /\ AppliedInOrder'
  <1>1. /\ UNCHANGED <<pending, unsaved, calls, accepted, gone>> /\ applied' = applied \cup {entry.id}
        /\ FirstInLine /\ Places' = Places
    BY DEF Settle, ServiceInv, Places
  <1>2. /\ entry.id \in 1..calls
        /\ \A k \in Places : entry.id <= pending[k].id
        /\ unsaved # NoItem => entry.id <= unsaved.id
    <2>1. CASE pending # <<>>
      <3>1. 1 \in Places /\ pending[1] = entry
        BY <2>1, <1>1, EmptySeq DEF FirstInLine, TypeOK, Places
      <3>2. ASSUME NEW k \in Places PROVE entry.id <= pending[k].id
        <4>1. k = 1 \/ 1 < k
          BY DEF Places
        <4>2. entry.id \in Nat
          BY <3>1, OrderFacts
        <4>3. pending[k].id \in Nat
          BY OrderFacts
        <4> QED BY <4>1, <4>2, <4>3, <3>1 DEF OrderInv
      <3>3. unsaved # NoItem => entry.id <= unsaved.id
        BY <3>1, OrderFacts DEF OrderInv
      <3> QED BY <3>1, <3>2, <3>3 DEF OrderInv
    <2>2. CASE pending = <<>>
      <3>1. entry = unsaved /\ unsaved # NoItem /\ Places = {}
        BY <2>2, <1>1 DEF FirstInLine, Places
      <3> QED BY <3>1, OrderFacts DEF OrderInv
    <2> QED BY <2>1, <2>2
  <1>3. OrderInv' /\ KeptInv'
    BY <1>1, <1>2 DEF OrderInv, KeptInv
  <1>4. ASSUME NEW i \in accepted', NEW j \in applied', i < j PROVE i \in applied' \cup gone'
    <2>1. CASE j \in applied
      BY <2>1, <1>1, <1>4 DEF AppliedInOrder
    <2>2. CASE j = entry.id
      <3>1. i \in accepted /\ i \in Nat /\ entry.id \in Nat /\ i < entry.id
        BY <2>2, <1>1, <1>2, <1>4, OrderFacts
      <3>2. \A k \in Places : pending[k].id # i
        BY <3>1, <1>2, OrderFacts
      <3>3. ~(unsaved # NoItem /\ unsaved.id = i)
        BY <3>1, <1>2, OrderFacts
      <3> QED BY <3>1, <3>2, <3>3, <1>1 DEF KeptInv
    <2> QED BY <2>1, <2>2, <1>1
  <1> QED BY <1>3, <1>4 DEF AppliedInOrder

\* The end of the process: the item in the slot is lost with it.
LEMMA LoseStep ==
    ASSUME TypeOK, OrderInv, KeptInv, AppliedInOrder, Lose
    PROVE  OrderInv' /\ KeptInv' /\ AppliedInOrder'
  <1>1. /\ UNCHANGED <<pending, calls, accepted, applied>> /\ unsaved' = NoItem /\ Places' = Places
        /\ gone \subseteq gone' /\ (unsaved # NoItem => unsaved.id \in gone')
    BY DEF Lose, Places
  <1> QED BY <1>1 DEF OrderInv, KeptInv, AppliedInOrder

\* Every step keeps the order and the whereabouts of the items.
LEMMA ItemStep ==
    TypeOK /\ ServiceInv /\ OrderInv /\ KeptInv /\ AppliedInOrder /\ [Next]_vars
      => OrderInv' /\ KeptInv' /\ AppliedInOrder'
  <1> SUFFICES ASSUME TypeOK, ServiceInv, OrderInv, KeptInv, AppliedInOrder, [Next]_vars
               PROVE  OrderInv' /\ KeptInv' /\ AppliedInOrder'
    OBVIOUS
  <1>1. CASE UNCHANGED itemVars
    BY <1>1 DEF itemVars, OrderInv, KeptInv, AppliedInOrder, Places
  <1> QED BY <1>1, ItemSteps, ArriveStep, RetryStep, LeaveTableStep, LeaveSlotStep, SettleStep,
       LoseStep

----------------------------------------------------------------------------
(* Types                                                                   *)

\* The table and its budget row keep their types: nothing is subtracted
\* below zero.
LEMMA TableTyped ==
    ASSUME TypeOK, BudgetInv, [Next]_vars
    PROVE  pending' \in Seq(Item) /\ budget' \in [items: Nat, bytes: Nat]
  <1>1. CASE UNCHANGED tableVars
    BY <1>1 DEF tableVars, TypeOK
  <1>2. ASSUME NEW i \in Item, Insert(i)
        PROVE  pending' \in Seq(Item) /\ budget' \in [items: Nat, bytes: Nat]
    <2>1. pending' \in Seq(Item)
      BY <1>2, InsertFacts
    <2>2. budget' \in [items: Nat, bytes: Nat]
      BY <1>2 DEF Insert, TypeOK, Item
    <2> QED BY <2>1, <2>2
  <1>3. CASE /\ pending # <<>> /\ pending' = Tail(pending)
             /\ budget' = [items |-> budget.items - 1, bytes |-> budget.bytes - Head(pending).size]
    BY <1>3, DeleteFacts, DeleteBudget
  <1> QED BY <1>1, <1>2, <1>3, TableSteps

\* The slot and the histories of the items keep their types.
LEMMA ItemsTyped ==
    ASSUME TypeOK, ServiceInv, [Next]_vars
    PROVE  /\ unsaved' \in Item /\ calls' \in Nat
           /\ applied' \subseteq Nat /\ accepted' \subseteq Nat /\ gone' \subseteq Nat
  <1> DEFINE Typed == /\ unsaved' \in Item /\ calls' \in Nat
                      /\ applied' \subseteq Nat /\ accepted' \subseteq Nat /\ gone' \subseteq Nat
  <1>0. /\ unsaved \in Item /\ calls \in Nat /\ unsaved.id \in Nat /\ entry.id \in Nat
        /\ applied \subseteq Nat /\ accepted \subseteq Nat /\ gone \subseteq Nat
    BY DEF TypeOK, Item
  <1>1. CASE Arrive
    <2>1. PICK i \in Item, ok \in BOOLEAN : i.id = calls + 1 /\ append(i, ok) /\ applied' = applied
      BY <1>1 DEF Arrive
    <2>2. i.id \in Nat
      BY <2>1, <1>0
    <2> QED BY <2>1, <2>2, <1>0 DEF append
  <1>2. CASE Retry
    BY <1>2, <1>0, NoItemTyped DEF Retry, flush
  <1>3. CASE LeaveTable \/ LeaveSlot
    BY <1>3, <1>0, NoItemTyped DEF LeaveTable, LeaveSlot
  <1>4. CASE Settle \/ Lose
    BY <1>4, <1>0, NoItemTyped DEF Settle, Lose
  <1>5. CASE UNCHANGED itemVars
    BY <1>5, <1>0 DEF itemVars
  <1> QED BY <1>1, <1>2, <1>3, <1>4, <1>5, ItemSteps

ControlTypes ==
    /\ entry \in Item
    /\ reserved \in BOOLEAN /\ ledgerOn \in BOOLEAN
    /\ tracking \in BOOLEAN /\ paused \in BOOLEAN /\ stale \in BOOLEAN
    /\ obsIssue \in BOOLEAN /\ ctlIssue \in BOOLEAN
    /\ ingressClosed \in BOOLEAN /\ stopReq \in BOOLEAN /\ atRequest \in BOOLEAN
    /\ pc \in {"off", "top", "save", "apply", "ack", "observe", "reserve", "fetch", "failure",
               "closing", "closed"}
    /\ after \in {"top", "observe"}
    /\ gui \in Nat /\ fetches \in Nat /\ run \in Nat

\* The switches, the issues and the locals of the service thread keep their
\* types.
LEMMA ControlTyped == TypeOK /\ [Next]_vars => ControlTypes'
  <1> SUFFICES ASSUME TypeOK, [Next]_vars PROVE ControlTypes'
    OBVIOUS
  <1> USE DEF ledgerVars, switchVars, issueVars, stopVars, localVars, boundVars, slotVars
  <1>0. ControlTypes /\ unsaved \in Item /\ NoItem \in Item
    BY NoItemTyped DEF ControlTypes, TypeOK
  <1>1. CASE Gui
    <2>1. ASSUME NEW ok \in BOOLEAN, supply_local(ok) PROVE ControlTypes'
      BY <2>1, <1>0 DEF supply_local, guiFrame, GuiCall, append, ControlTypes
    <2>2. ASSUME NEW on \in BOOLEAN, NEW ok \in BOOLEAN, set_tracking_enabled(on, ok) PROVE ControlTypes'
      BY <2>2, <1>0 DEF set_tracking_enabled, guiFrame, GuiCall, append, ControlTypes, Takes
    <2>3. ASSUME NEW p \in BOOLEAN, NEW ok \in BOOLEAN, set_paused(p, ok) PROVE ControlTypes'
      BY <2>3, <1>0 DEF set_paused, guiFrame, GuiCall, append, ControlTypes, Takes
    <2>4. CASE stop
      BY <2>4, <1>0 DEF stop, ControlTypes
    <2> QED BY <1>1, <2>1, <2>2, <2>3, <2>4 DEF Gui
  <1>2. CASE Service
    <2>1. CASE LoopTop
      BY <2>1, <1>0 DEF LoopTop, ControlTypes
    <2>a. CASE SaveEnd
      BY <2>a, <1>0 DEF SaveEnd, ControlTypes
    <2>b. ASSUME NEW due \in BOOLEAN, Observe(due) PROVE ControlTypes'
      BY <2>b, <1>0 DEF Observe, ControlTypes
    <2>2. CASE First
      <3>1. pending # <<>> => Head(pending) \in Item
        BY HeadTailProperties DEF TypeOK
      <3> QED BY <2>2, <3>1, <1>0 DEF First, ControlTypes
    <2>3. ASSUME NEW ok \in BOOLEAN, Apply(ok) PROVE ControlTypes'
      <3>1. entry.on \in BOOLEAN
        BY <1>0 DEF ControlTypes, Item
      <3> QED BY <2>3, <3>1, <1>0 DEF Apply, ControlTypes
    <2>4. ASSUME NEW ok \in BOOLEAN, acknowledge(ok) PROVE ControlTypes'
      BY <2>4, <1>0 DEF acknowledge, ControlTypes
    <2>5. ASSUME NEW ok \in BOOLEAN, Close(ok) PROVE ControlTypes'
      BY <2>5, <1>0 DEF Close, ControlTypes
    <2>6. ASSUME NEW ok \in BOOLEAN, reserve_fetch(ok) PROVE ControlTypes'
      <3>1. reserved' \in BOOLEAN
        BY <2>6, <1>0 DEF reserve_fetch, ControlTypes
      <3> QED BY <2>6, <3>1, <1>0 DEF reserve_fetch, ControlTypes
    <2>7. ASSUME NEW i, NEW ok \in BOOLEAN, Record(i, ok), serviceFrame PROVE ControlTypes'
      <3>1. reserved' \in BOOLEAN
        BY <2>7, <1>0 DEF Record, append, ControlTypes
      <3>2. obsIssue' \in BOOLEAN
        BY <2>7, <1>0 DEF Record, Takes, ControlTypes
      <3> QED BY <2>7, <3>1, <3>2, <1>0 DEF Record, serviceFrame, ControlTypes
    <2>8. ASSUME Cancel, serviceFrame PROVE ControlTypes'
      BY <2>8, <1>0 DEF Cancel, serviceFrame, ControlTypes
    <2>9. CASE FetchRaise
      BY <2>9, <2>8, <1>0 DEF FetchRaise, serviceFrame, ControlTypes
    <2> QED BY <1>2, <2>1, <2>a, <2>b, <2>2, <2>3, <2>4, <2>5, <2>6, <2>7, <2>8, <2>9
            DEF Service, Fetch, FetchReply, RecordFailure
  <1>3. CASE Process
    <2>1. ASSUME NEW on \in BOOLEAN, NEW p \in BOOLEAN, NEW ok \in BOOLEAN, Start(on, p, ok)
          PROVE  ControlTypes'
      <3>1. reserved' \in BOOLEAN
        BY <2>1, <1>0 DEF Start, append, ControlTypes
      <3>2. ctlIssue' \in BOOLEAN
        BY <2>1 DEF Start, Takes
      <3>3. run' \in Nat
        BY <2>1, <1>0 DEF Start, ControlTypes
      <3> QED BY <2>1, <3>1, <3>2, <3>3, <1>0 DEF Start, ControlTypes
    <2>2. CASE Exit
      BY <2>2, <1>0 DEF Exit, ControlTypes
    <2> QED BY <1>3, <2>1, <2>2 DEF Process
  <1>4. CASE UNCHANGED vars
    BY <1>4, <1>0 DEF vars, ControlTypes
  <1> QED BY <1>1, <1>2, <1>3, <1>4 DEF Next

\* Every step keeps the types.
LEMMA TypeStep == TypeOK /\ BudgetInv /\ ServiceInv /\ [Next]_vars => TypeOK'
  BY TableTyped, ItemsTyped, ControlTyped DEF TypeOK, ControlTypes

----------------------------------------------------------------------------
(* The service thread                                                      *)

\* While a process runs it is one of the run processes so far; the only step
\* that loses an item is the end of the process.
LEMMA LostStep == TypeOK /\ LostInv /\ [Next]_vars => LostInv'
  <1> SUFFICES ASSUME TypeOK, LostInv, [Next]_vars PROVE LostInv'
    OBVIOUS
  <1> USE DEF tableVars, slotVars, ledgerVars, switchVars, issueVars, stopVars, localVars, histVars,
              boundVars
  <1>0. run \in Nat /\ IsFiniteSet(gone) /\ after \in {"top", "observe"} /\ Cardinality(gone) \in Nat
    BY FS_CardinalityType DEF TypeOK, LostInv
  <1>s. ASSUME UNCHANGED <<gone, run>>, pc # "off" <=> pc' # "off" PROVE LostInv'
    BY <1>s DEF LostInv
  <1>1. CASE Gui
    BY <1>1, <1>s DEF Gui, supply_local, set_tracking_enabled, set_paused, stop, guiFrame, append
  <1>2. CASE Service
    <2>1. CASE \/ LoopTop \/ First \/ SaveEnd \/ (\E due \in BOOLEAN : Observe(due))
               \/ (\E ok \in BOOLEAN : Apply(ok))
      BY <2>1, <1>0, <1>s DEF LoopTop, First, SaveEnd, Observe, Apply
    <2>2. ASSUME NEW ok \in BOOLEAN, acknowledge(ok) PROVE LostInv'
      BY <2>2, <1>0, <1>s DEF acknowledge
    <2>3. ASSUME NEW ok \in BOOLEAN, Close(ok) PROVE LostInv'
      BY <2>3, <1>s DEF Close
    <2>4. ASSUME NEW ok \in BOOLEAN, reserve_fetch(ok) PROVE LostInv'
      BY <2>4, <1>s DEF reserve_fetch
    <2>5. ASSUME NEW i, NEW ok \in BOOLEAN, Record(i, ok), serviceFrame, pc # "off" PROVE LostInv'
      BY <2>5, <1>s DEF Record, append, serviceFrame
    <2>6. CASE FetchRaise
      BY <2>6, <1>s DEF FetchRaise, Cancel, serviceFrame
    <2>7. ASSUME NEW size, NEW ok \in BOOLEAN, FetchReply(size, ok) PROVE LostInv'
      BY <2>7, <2>5, <1>s DEF FetchReply, Cancel, serviceFrame
    <2>8. ASSUME NEW ok \in BOOLEAN, RecordFailure(ok) PROVE LostInv'
      BY <2>8, <2>5 DEF RecordFailure
    <2> QED BY <1>2, <2>1, <2>2, <2>3, <2>4, <2>6, <2>7, <2>8 DEF Service, Fetch
  <1>3. CASE Process
    <2>1. ASSUME NEW on, NEW p, NEW ok \in BOOLEAN, Start(on, p, ok) PROVE LostInv'
      BY <2>1, <1>0 DEF Start, append, LostInv
    <2>2. CASE Exit
      <3>1. Cardinality(gone \cup {unsaved.id}) <= Cardinality(gone) + 1
            /\ IsFiniteSet(gone \cup {unsaved.id})
        BY <1>0, FS_AddElement
      <3>2. gone' = gone \/ gone' = gone \cup {unsaved.id}
        BY <2>2 DEF Exit
      <3>3. pc # "off" /\ pc' = "off" /\ run' = run
        BY <2>2 DEF Exit
      <3>4. Cardinality(gone) <= run - 1
        BY <3>3 DEF LostInv
      <3>5. Cardinality(gone \cup {unsaved.id}) \in Nat
        BY <3>1, FS_CardinalityType
      <3>6. CASE gone' = gone
        BY <1>0, <3>3, <3>4, <3>6 DEF LostInv
      <3>7. CASE gone' = gone \cup {unsaved.id}
        <4>1. IsFiniteSet(gone') /\ Cardinality(gone') <= Cardinality(gone) + 1 /\ Cardinality(gone') \in Nat
          BY <3>1, <3>5, <3>7
        <4> QED BY <4>1, <1>0, <3>3, <3>4 DEF LostInv
      <3> QED BY <3>2, <3>6, <3>7
    <2> QED BY <1>3, <2>1, <2>2 DEF Process
  <1>4. CASE UNCHANGED vars
    BY <1>4, <1>s DEF vars
  <1> QED BY <1>1, <1>2, <1>3, <1>4 DEF Next

\* An append leaves alone what the service thread holds: it is the first row,
\* or the slot is taken and nothing is accepted.
LEMMA AppendKeepsFirst ==
    ASSUME TypeOK, NEW i \in Item, NEW ok \in BOOLEAN, append(i, ok), FirstInLine, entry' = entry
    PROVE  FirstInLine'
  <1>1. CASE unsaved = NoItem /\ Insert(i) /\ unsaved' = unsaved
    BY <1>1, InsertFacts DEF FirstInLine
  <1>2. CASE unsaved = NoItem /\ UNCHANGED tableVars
    BY <1>2 DEF FirstInLine, tableVars
  <1>3. CASE UNCHANGED <<tableVars, unsaved>>
    BY <1>3 DEF FirstInLine, tableVars
  <1> QED BY <1>1, <1>2, <1>3, AppendCases

\* What the service thread is about to apply or to acknowledge is first in
\* line, whatever the other thread appends meanwhile.
LEMMA ServiceStep == TypeOK /\ ServiceInv /\ [Next]_vars => ServiceInv'
  <1> SUFFICES ASSUME TypeOK, ServiceInv, [Next]_vars PROVE ServiceInv'
    OBVIOUS
  <1> USE DEF ledgerVars, switchVars, issueVars, stopVars, localVars, boundVars
  <1>n. \A kind \in Kinds, on \in BOOLEAN, size \in Nat : NewItem(kind, on, size) \in Item
    BY NewItemTyped DEF TypeOK
  <1>k. {"control", "local", "quota", "failure"} \subseteq Kinds /\ 0 \in Nat /\ 1 \in Nat
    BY DEF Kinds
  <1>a. ASSUME NEW i \in Item, NEW ok \in BOOLEAN, append(i, ok),
               UNCHANGED <<pc, entry, applied, ledgerOn>>
        PROVE  ServiceInv'
    BY <1>a, AppendKeepsFirst DEF ServiceInv
  <1>o. pc' \notin {"apply", "ack"} => ServiceInv'
    BY DEF ServiceInv
  <1>1. CASE Gui
    <2>1. ASSUME NEW ok \in BOOLEAN, supply_local(ok) PROVE ServiceInv'
      BY <2>1, <1>a, <1>n, <1>k DEF supply_local, guiFrame
    <2>2. ASSUME NEW on \in BOOLEAN, NEW ok \in BOOLEAN, set_tracking_enabled(on, ok)
          PROVE  ServiceInv'
      <3>1. NewItem("control", on /\ ~paused, 0) \in Item
        BY <1>n, <1>k DEF TypeOK
      <3> QED BY <2>2, <3>1, <1>a DEF set_tracking_enabled, guiFrame
    <2>3. ASSUME NEW p \in BOOLEAN, NEW ok \in BOOLEAN, set_paused(p, ok) PROVE ServiceInv'
      <3>1. NewItem("control", tracking /\ ~p, 0) \in Item
        BY <1>n, <1>k DEF TypeOK
      <3> QED BY <2>3, <3>1, <1>a DEF set_paused, guiFrame
    <2>4. CASE stop
      BY <2>4 DEF stop, ServiceInv, FirstInLine, tableVars, slotVars
    <2> QED BY <1>1, <2>1, <2>2, <2>3, <2>4 DEF Gui
  <1>2. CASE Service
    <2>1. after \in {"top", "observe"}
      BY DEF TypeOK
    <2>2. CASE First
      BY <2>2 DEF First, ServiceInv, FirstInLine, tableVars, slotVars
    <2>3. ASSUME NEW ok \in BOOLEAN, Apply(ok) PROVE ServiceInv'
      <3>1. pc = "apply" /\ FirstInLine /\ UNCHANGED <<pending, unsaved>>
        BY <2>3 DEF Apply, ServiceInv, tableVars, slotVars
      <3>2. CASE ok
        <4>1. entry' = entry /\ pc' = "ack" /\ applied' = applied \cup {entry.id}
              /\ (entry.kind = "control" => ledgerOn' = entry.on)
          BY <2>3, <3>2 DEF Apply
        <4> QED BY <3>1, <4>1 DEF ServiceInv, FirstInLine
      <3>3. CASE ~ok
        BY <2>3, <3>3, <2>1, <1>o DEF Apply
      <3> QED BY <3>2, <3>3
    <2>4. CASE \/ LoopTop \/ SaveEnd \/ FetchRaise \/ (\E due \in BOOLEAN : Observe(due))
      BY <2>4, <2>1, <1>o DEF LoopTop, SaveEnd, FetchRaise, Cancel, Observe
    <2>5. ASSUME NEW ok \in BOOLEAN, acknowledge(ok) \/ Close(ok) PROVE ServiceInv'
      BY <2>5, <2>1, <1>o DEF acknowledge, Close
    <2>6. ASSUME NEW ok \in BOOLEAN, reserve_fetch(ok) PROVE ServiceInv'
      BY <2>6, <1>o DEF reserve_fetch
    <2>7. ASSUME NEW size, NEW ok \in BOOLEAN, FetchReply(size, ok) \/ RecordFailure(ok)
          PROVE  ServiceInv'
      BY <2>7, <1>o DEF FetchReply, RecordFailure, Cancel, Record
    <2> QED BY <1>2, <2>2, <2>3, <2>4, <2>5, <2>6, <2>7 DEF Service, Fetch
  <1>3. CASE Process
    BY <1>3, <1>o DEF Process, Exit, Start
  <1>4. CASE UNCHANGED vars
    BY <1>4 DEF vars, tableVars, slotVars, ServiceInv, FirstInLine
  <1> QED BY <1>1, <1>2, <1>3, <1>4 DEF Next

----------------------------------------------------------------------------
(* The tracking state the ledger ends with                                 *)

\* A control row at the end of the table decides.
LEMMA InsertControl ==
    ASSUME TypeOK, NEW i \in Item, Insert(i), i.kind = "control", unsaved'.kind # "control"
    PROVE  Destined(i.on)'
  <1>1. /\ Len(pending) \in Nat /\ Len(pending') = Len(pending) + 1
        /\ pending'[Len(pending) + 1] = i
    BY InsertFacts
  <1>2. Len(pending) + 1 \in Places' /\ \A m \in Places' : ~(Len(pending) + 1 < m)
    BY <1>1 DEF Places
  <1> QED BY <1>1, <1>2 DEF Destined

\* Any other row at the end of the table changes nothing.
LEMMA InsertOther ==
    ASSUME TypeOK, NEW i \in Item, Insert(i), i.kind # "control", NEW v \in BOOLEAN, Destined(v),
           unsaved.kind # "control", unsaved'.kind # "control", ledgerOn' = ledgerOn
    PROVE  Destined(v)'
  <1>1. /\ \A k \in Places : k \in Places' /\ pending'[k] = pending[k]
        /\ pending'[Len(pending) + 1] = i
        /\ \A k \in Places' : k \in Places \/ k = Len(pending) + 1
    BY InsertFacts DEF Places
  <1>2. CASE \E k \in Places : /\ pending[k].kind = "control" /\ pending[k].on = v
                               /\ \A m \in Places : k < m => pending[m].kind # "control"
    <2>1. PICK k \in Places : /\ pending[k].kind = "control" /\ pending[k].on = v
                             /\ \A m \in Places : k < m => pending[m].kind # "control"
      BY <1>2
    <2>2. \A m \in Places' : k < m => pending'[m].kind # "control"
      BY <2>1, <1>1
    <2> QED BY <2>1, <2>2, <1>1 DEF Destined
  <1>3. CASE (\A k \in Places : pending[k].kind # "control") /\ ledgerOn = v
    BY <1>3, <1>1 DEF Destined
  <1> QED BY <1>2, <1>3 DEF Destined

\* An accepted control decides: it is the youngest item.
LEMMA AppendControl ==
    ASSUME TypeOK, NEW i \in Item, NEW ok \in BOOLEAN, append(i, ok), i.kind = "control",
           Takes(i, ok)
    PROVE  Destined(i.on)'
  <1>1. CASE unsaved = NoItem /\ Insert(i) /\ unsaved' = unsaved
    BY <1>1, InsertControl, NoItemTyped
  <1>2. CASE unsaved' = i
    BY <1>2 DEF Destined
  <1> QED BY <1>1, <1>2, AppendCases

\* Any other item, and a control that is refused, change nothing.
LEMMA AppendOther ==
    ASSUME TypeOK, NEW i \in Item, NEW ok \in BOOLEAN, append(i, ok),
           i.kind # "control" \/ ~Takes(i, ok), NEW v \in BOOLEAN, Destined(v), ledgerOn' = ledgerOn
    PROVE  Destined(v)'
  <1>1. CASE Takes(i, ok) /\ unsaved = NoItem /\ Insert(i) /\ unsaved' = unsaved
    BY <1>1, InsertOther, NoItemTyped
  <1>2. CASE Takes(i, ok) /\ unsaved = NoItem /\ unsaved' = i /\ UNCHANGED tableVars
    BY <1>2, NoItemTyped DEF Destined, tableVars, Places
  <1>3. CASE UNCHANGED <<tableVars, unsaved>>
    BY <1>3 DEF Destined, tableVars, Places
  <1> QED BY <1>1, <1>2, <1>3, AppendCases

\* The slot's item goes behind the rows, where it has the same say.
LEMMA FlushDestined ==
    ASSUME TypeOK, NEW ok \in BOOLEAN, flush(ok), NEW v \in BOOLEAN, Destined(v),
           ledgerOn' = ledgerOn
    PROVE  Destined(v)'
  <1>1. CASE UNCHANGED <<unsaved, tableVars>>
    BY <1>1 DEF Destined, tableVars, Places
  <1>2. CASE Insert(unsaved) /\ unsaved' = NoItem
    <2>1. unsaved \in Item /\ unsaved'.kind # "control"
      BY <1>2, NoItemTyped DEF TypeOK
    <2>2. CASE unsaved.kind = "control"
      <3>1. PICK i \in Item : i = unsaved
        BY <2>1
      <3>2. Insert(i) /\ i.on = v
        BY <3>1, <1>2, <2>2 DEF Insert, Destined
      <3> QED BY <3>1, <3>2, <2>1, <2>2, InsertControl
    <2>3. CASE unsaved.kind # "control"
      <3>1. PICK i \in Item : i = unsaved
        BY <2>1
      <3>2. Insert(i) /\ i.kind # "control"
        BY <3>1, <1>2, <2>3 DEF Insert
      <3> QED BY <3>2, <2>1, <2>3, InsertOther
    <2> QED BY <2>2, <2>3
  <1> QED BY <1>1, <1>2 DEF flush

\* A row leaves the table after the ledger took its position over.
LEMMA LeaveDestined ==
    ASSUME TypeOK, ServiceInv, LeaveTable, NEW v \in BOOLEAN, Destined(v), ledgerOn' = ledgerOn
    PROVE  Destined(v)'
  <1>1. /\ 1 \in Places /\ unsaved' = unsaved
        /\ pending[1].kind = "control" => ledgerOn = pending[1].on
        /\ \A k \in Places' : k + 1 \in Places /\ pending'[k] = pending[k + 1]
        /\ \A k \in Places : k # 1 => k - 1 \in Places' /\ pending'[k - 1] = pending[k]
    BY DeleteFacts DEF LeaveTable, ServiceInv, FirstInLine
  <1>2. CASE unsaved.kind = "control"
    BY <1>1, <1>2 DEF Destined
  <1>3. CASE unsaved.kind # "control" /\ \E k \in Places :
                /\ pending[k].kind = "control" /\ pending[k].on = v
                /\ \A m \in Places : k < m => pending[m].kind # "control"
    <2>1. PICK k \in Places : /\ pending[k].kind = "control" /\ pending[k].on = v
                             /\ \A m \in Places : k < m => pending[m].kind # "control"
      BY <1>3
    <2>2. CASE k = 1
      <3>1. ASSUME NEW m \in Places' PROVE pending'[m].kind # "control"
        <4>1. m + 1 \in Places /\ k < m + 1
          BY <1>1, <2>2 DEF Places
        <4> QED BY <4>1, <1>1, <2>1
      <3>2. ledgerOn' = v
        BY <1>1, <2>1, <2>2
      <3> QED BY <3>1, <3>2, <1>1, <1>3 DEF Destined
    <2>3. CASE k # 1
      <3>1. k - 1 \in Places' /\ pending'[k - 1] = pending[k]
        BY <1>1, <2>3
      <3>2. ASSUME NEW m \in Places', k - 1 < m PROVE pending'[m].kind # "control"
        <4>1. m + 1 \in Places /\ pending'[m] = pending[m + 1]
          BY <1>1, <3>2
        <4>2. k \in Int /\ m \in Int
          BY DEF Places
        <4>3. k < m + 1
          BY <3>2, <4>2
        <4> QED BY <4>1, <4>3, <2>1
      <3> QED BY <3>1, <3>2, <2>1, <1>1, <1>3 DEF Destined
    <2> QED BY <2>2, <2>3
  <1>4. CASE unsaved.kind # "control" /\ (\A k \in Places : pending[k].kind # "control") /\ ledgerOn = v
    BY <1>1, <1>4 DEF Destined
  <1> QED BY <1>2, <1>3, <1>4 DEF Destined

\* The slot's item leaves after the ledger took its position over.
LEMMA LeaveSlotDestined ==
    ASSUME ServiceInv, LeaveSlot, NEW v \in BOOLEAN, Destined(v), ledgerOn' = ledgerOn
    PROVE  Destined(v)'
  <1>1. /\ Places = {} /\ Places' = {} /\ unsaved' = NoItem
        /\ unsaved.kind = "control" => ledgerOn = unsaved.on
    BY DEF LeaveSlot, ServiceInv, FirstInLine, Places
  <1> QED BY <1>1, NoItemTyped DEF Destined

\* The ledger takes over the position of a control in line, which is there
\* until it leaves.
LEMMA ApplyDestined ==
    ASSUME TypeOK, ServiceInv, NEW ok \in BOOLEAN, Apply(ok), NEW v \in BOOLEAN, Destined(v)
    PROVE  Destined(v)'
  <1>1. /\ FirstInLine /\ UNCHANGED <<pending, unsaved>> /\ Places' = Places
        /\ ledgerOn' = ledgerOn \/ entry.kind = "control"
    BY DEF Apply, ServiceInv, tableVars, slotVars, Places
  <1>2. CASE ledgerOn' = ledgerOn
    BY <1>1, <1>2 DEF Destined
  <1>3. CASE entry.kind = "control" /\ pending # <<>>
    <2>1. 1 \in Places /\ pending[1].kind = "control"
      <3>1. 1 \in Places /\ pending[1] = Head(pending)
        BY <1>3, EmptySeq DEF TypeOK, Places
      <3> QED BY <3>1, <1>1, <1>3 DEF FirstInLine
    <2> QED BY <2>1, <1>1 DEF Destined
  <1>4. CASE entry.kind = "control" /\ pending = <<>>
    BY <1>1, <1>4 DEF Destined, FirstInLine
  <1> QED BY <1>1, <1>2, <1>3, <1>4

\* The switches move with an accepted control only, and a refused one is
\* remembered in control_issue.
LEMMA ControlStep == TypeOK /\ ServiceInv /\ ControlInv /\ [Next]_vars => ControlInv'
  <1> SUFFICES ASSUME TypeOK, ServiceInv, ControlInv, [Next]_vars PROVE ControlInv'
    OBVIOUS
  <1> USE DEF ledgerVars, switchVars, issueVars, stopVars, localVars, boundVars
  <1>n. \A kind \in Kinds, on \in BOOLEAN, size \in Nat :
           /\ NewItem(kind, on, size) \in Item /\ NewItem(kind, on, size).on = on
           /\ NewItem(kind, on, size).kind = kind
    BY NewItemTyped DEF TypeOK
  <1>k. {"control", "local", "quota", "failure"} \subseteq Kinds /\ 0 \in Nat /\ 1 \in Nat
    BY DEF Kinds
  <1>b. tracking \in BOOLEAN /\ paused \in BOOLEAN /\ (tracking /\ ~paused) \in BOOLEAN
    BY DEF TypeOK
  <1>s. ASSUME \A v \in BOOLEAN : Destined(v) => Destined(v)', UNCHANGED <<tracking, paused, ctlIssue>>,
               pc # "off"
        PROVE  ControlInv'
    <2>1. PICK v \in BOOLEAN : v = (tracking /\ ~paused)
      BY <1>b
    <2>2. v = (tracking' /\ ~paused')
      BY <2>1, <1>s
    <2>3. Destined(v)' => Destined(tracking /\ ~paused)'
      BY <2>2 DEF Destined
    <2>4. Destined(tracking /\ ~paused) => Destined(v)
      BY <2>1 DEF Destined
    <2> QED BY <2>3, <2>4, <1>s DEF ControlInv
  \* A control decides for its position when it is accepted.
  <1>c. ASSUME NEW i \in Item, NEW ok \in BOOLEAN, append(i, ok), i.kind = "control",
               ctlIssue' = ~Takes(i, ok), Takes(i, ok) => i.on = (tracking' /\ ~paused')
        PROVE  ControlInv'
    <2>1. CASE Takes(i, ok)
      <3>1. Destined(i.on)'
        BY <1>c, <2>1, AppendControl
      <3>2. Destined(tracking /\ ~paused)'
        BY <3>1, <1>c, <2>1 DEF Destined
      <3> QED BY <3>2 DEF ControlInv
    <2>2. CASE ~Takes(i, ok)
      BY <2>2, <1>c DEF ControlInv
    <2> QED BY <2>1, <2>2
  <1>o. ASSUME NEW i \in Item, NEW ok \in BOOLEAN, append(i, ok), i.kind # "control",
               ledgerOn' = ledgerOn
        PROVE  \A v \in BOOLEAN : Destined(v) => Destined(v)'
    BY <1>o, AppendOther
  <1>u. ASSUME UNCHANGED <<pending, unsaved, ledgerOn>>
        PROVE  \A v \in BOOLEAN : Destined(v) => Destined(v)'
    BY <1>u DEF Destined, Places
  <1>1. CASE Gui
    <2>1. ASSUME NEW ok \in BOOLEAN, supply_local(ok) PROVE ControlInv'
      <3>1. NewItem("local", FALSE, 1) \in Item /\ NewItem("local", FALSE, 1).kind # "control"
        BY <1>n, <1>k
      <3>2. append(NewItem("local", FALSE, 1), ok) /\ ledgerOn' = ledgerOn /\ pc # "off"
            /\ UNCHANGED <<tracking, paused, ctlIssue>>
        BY <2>1 DEF supply_local, guiFrame, GuiCall
      <3> QED BY <3>1, <3>2, <1>o, <1>s
    <2>2. ASSUME NEW on \in BOOLEAN, NEW ok \in BOOLEAN, set_tracking_enabled(on, ok)
          PROVE  ControlInv'
      <3>1. PICK v \in BOOLEAN : v = (on /\ ~paused)
        BY <1>b
      <3>2. PICK i \in Item : i = NewItem("control", on /\ ~paused, 0) /\ i.on = v /\ i.kind = "control"
        <4>1. NewItem("control", on /\ ~paused, 0) = NewItem("control", v, 0)
          BY <3>1
        <4> QED BY <4>1, <1>n, <1>k
      <3>3. /\ append(i, ok) /\ ctlIssue' = ~Takes(i, ok)
            /\ tracking' = (IF Takes(i, ok) THEN on ELSE tracking) /\ paused' = paused
        BY <2>2, <3>2 DEF set_tracking_enabled
      <3>4. i.kind = "control" /\ i.on = (on /\ ~paused)
        BY <3>1, <3>2
      <3> QED BY <3>3, <3>4, <1>c
    <2>3. ASSUME NEW p \in BOOLEAN, NEW ok \in BOOLEAN, set_paused(p, ok) PROVE ControlInv'
      <3>1. PICK v \in BOOLEAN : v = (tracking /\ ~p)
        BY <1>b
      <3>2. PICK i \in Item : i = NewItem("control", tracking /\ ~p, 0) /\ i.on = v /\ i.kind = "control"
        <4>1. NewItem("control", tracking /\ ~p, 0) = NewItem("control", v, 0)
          BY <3>1
        <4> QED BY <4>1, <1>n, <1>k
      <3>3. /\ append(i, ok) /\ ctlIssue' = ~Takes(i, ok)
            /\ paused' = (IF Takes(i, ok) THEN p ELSE paused) /\ tracking' = tracking
        BY <2>3, <3>2 DEF set_paused
      <3>4. i.kind = "control" /\ i.on = (tracking /\ ~p)
        BY <3>1, <3>2
      <3> QED BY <3>3, <3>4, <1>c
    <2>4. CASE stop
      BY <2>4, <1>u, <1>s DEF stop, tableVars, slotVars
    <2> QED BY <1>1, <2>1, <2>2, <2>3, <2>4 DEF Gui
  <1>2. CASE Service
    <2>1. ASSUME NEW ok \in BOOLEAN, Apply(ok) PROVE ControlInv'
      <3>1. \A v \in BOOLEAN : Destined(v) => Destined(v)'
        BY <2>1, ApplyDestined
      <3> QED BY <2>1, <3>1, <1>s DEF Apply
    <2>2. ASSUME NEW ok \in BOOLEAN, acknowledge(ok) PROVE ControlInv'
      <3>0. pc = "ack" /\ FirstInLine
        BY <2>2 DEF acknowledge, ServiceInv
      <3>1. LeaveTable \/ LeaveSlot \/ UNCHANGED <<pending, unsaved>>
        <4>1. CASE pending # <<>>
          BY <2>2, <3>0, <4>1 DEF acknowledge, FirstInLine, LeaveTable, histVars, tableVars
        <4>2. CASE pending = <<>>
          BY <2>2, <3>0, <4>2 DEF acknowledge, LeaveSlot, histVars, tableVars
        <4> QED BY <4>1, <4>2
      <3>2. ledgerOn' = ledgerOn /\ UNCHANGED <<tracking, paused, ctlIssue>>
        BY <2>2 DEF acknowledge
      <3>3. \A v \in BOOLEAN : Destined(v) => Destined(v)'
        BY <3>1, <3>2, <1>u, LeaveDestined, LeaveSlotDestined
      <3> QED BY <3>0, <3>2, <3>3, <1>s
    <2>3. ASSUME NEW ok \in BOOLEAN, Close(ok) PROVE ControlInv'
      <3>1. \A v \in BOOLEAN : Destined(v) => Destined(v)'
        BY <2>3, FlushDestined DEF Close
      <3> QED BY <2>3, <3>1, <1>s DEF Close
    <2>4. ASSUME NEW ok \in BOOLEAN, reserve_fetch(ok) PROVE ControlInv'
      <3>1. flush(ok) \/ UNCHANGED <<pending, unsaved>>
        BY <2>4 DEF reserve_fetch, tableVars
      <3>2. ledgerOn' = ledgerOn
        BY <2>4 DEF reserve_fetch
      <3>3. \A v \in BOOLEAN : Destined(v) => Destined(v)'
        BY <3>1, <3>2, <1>u, FlushDestined
      <3> QED BY <2>4, <3>3, <1>s DEF reserve_fetch
    <2>5. ASSUME NEW i \in Item, i.kind # "control", NEW ok \in BOOLEAN, Record(i, ok), serviceFrame,
                 pc # "off"
          PROVE  ControlInv'
      <3>1. append(i, ok) \/ UNCHANGED <<pending, unsaved>>
        BY <2>5 DEF Record, tableVars, slotVars
      <3>2. \A v \in BOOLEAN : Destined(v) => Destined(v)'
        BY <3>1, <2>5, <1>o, <1>u DEF serviceFrame
      <3> QED BY <2>5, <3>2, <1>s DEF serviceFrame
    <2>6. ASSUME Cancel, serviceFrame, pc # "off" PROVE ControlInv'
      BY <2>6, <1>u, <1>s DEF Cancel, serviceFrame, tableVars
    <2>7. ASSUME NEW size \in ReplySizes, NEW ok \in BOOLEAN, FetchReply(size, ok) PROVE ControlInv'
      <3>1. NewItem("quota", FALSE, size) \in Item /\ NewItem("quota", FALSE, size).kind # "control"
        BY <1>n, <1>k, BudgetAssumption
      <3> QED BY <2>7, <3>1, <2>5, <2>6 DEF FetchReply
    <2>8. ASSUME NEW ok \in BOOLEAN, RecordFailure(ok) PROVE ControlInv'
      <3>1. NewItem("failure", FALSE, 0) \in Item /\ NewItem("failure", FALSE, 0).kind # "control"
        BY <1>n, <1>k
      <3> QED BY <2>8, <3>1, <2>5 DEF RecordFailure
    <2>9. CASE FetchRaise
      BY <2>9, <2>6, <1>u, <1>s DEF FetchRaise, serviceFrame, tableVars, slotVars
    <2>10. CASE LoopTop \/ First \/ SaveEnd \/ \E due \in BOOLEAN : Observe(due)
      BY <2>10, <1>u, <1>s DEF LoopTop, First, SaveEnd, Observe, tableVars, slotVars
    <2> QED BY <1>2, <2>1, <2>2, <2>3, <2>4, <2>7, <2>8, <2>9, <2>10 DEF Service, Fetch
  <1>3. CASE Process
    <2>1. ASSUME NEW on \in BOOLEAN, NEW p \in BOOLEAN, NEW ok \in BOOLEAN, Start(on, p, ok)
          PROVE  ControlInv'
      <3>1. PICK v \in BOOLEAN : v = (on /\ ~p)
        BY <1>b
      <3>2. PICK i \in Item : i = NewItem("control", on /\ ~p, 0) /\ i.on = v /\ i.kind = "control"
        <4>1. NewItem("control", on /\ ~p, 0) = NewItem("control", v, 0)
          BY <3>1
        <4> QED BY <4>1, <1>n, <1>k
      <3>3. /\ append(i, ok) /\ ctlIssue' = ~Takes(i, ok)
            /\ tracking' = on /\ paused' = p
        BY <2>1, <3>2 DEF Start
      <3>4. i.kind = "control" /\ i.on = (on /\ ~p)
        BY <3>1, <3>2
      <3> QED BY <3>3, <3>4, <1>c
    <2>2. CASE Exit
      BY <2>2 DEF Exit, ControlInv
    <2> QED BY <1>3, <2>1, <2>2 DEF Process
  <1>4. CASE UNCHANGED vars
    <2>1. CASE pc # "off"
      BY <1>4, <2>1, <1>u, <1>s DEF vars, tableVars, slotVars
    <2>2. CASE pc = "off"
      BY <1>4, <2>2 DEF vars, ControlInv
    <2> QED BY <2>1, <2>2
  <1> QED BY <1>1, <1>2, <1>3, <1>4 DEF Next

----------------------------------------------------------------------------
(* The theorems                                                            *)

\* Before the first process everything is empty.
LEMMA InitIInv == Init => IInv
  <1> SUFFICES ASSUME Init PROVE IInv
    OBVIOUS
  <1>0. Len(<<>>) = 0 /\ pending = <<>> /\ Places = {}
    BY DEF Init, Places
  <1>1. TypeOK
    <2>1. pending \in Seq(Item) /\ budget \in [items: Nat, bytes: Nat] /\ unsaved \in Item /\ entry \in Item
      BY NoItemTyped DEF Init
    <2>2. ControlTypes
      BY <2>1 DEF Init, ControlTypes
    <2>3. applied \subseteq Nat /\ accepted \subseteq Nat /\ gone \subseteq Nat /\ calls \in Nat
      BY DEF Init
    <2> QED BY <2>1, <2>2, <2>3 DEF TypeOK, ControlTypes
  <1>2. BudgetInv
    <2>1. budget.items = 0 /\ budget.bytes = 0
      BY DEF Init
    <2> DEFINE f == [k \in 0..Len(pending) |-> 0]
    <2>2. PrefixSums(f) /\ f \in [0..Len(pending) -> Nat]
      BY <1>0, <2>1 DEF PrefixSums
    <2>3. 0 <= MaxItems + ControlReserve /\ 0 <= MaxBytes + ControlReserve * ReserveBytes
      BY BudgetAssumption
    <2> QED BY <1>0, <2>1, <2>2, <2>3 DEF BudgetInv
  <1>3. OrderInv /\ KeptInv /\ AppliedInOrder
    BY <1>0 DEF Init, OrderInv, KeptInv, AppliedInOrder
  <1>4. LostInv
    BY FS_EmptySet DEF Init, LostInv
  <1>5. ServiceInv /\ ControlInv
    BY DEF Init, ServiceInv, ControlInv
  <1> QED BY <1>1, <1>2, <1>3, <1>4, <1>5 DEF IInv

\* IInv holds in every state of the backlog, over any number of processes.
THEOREM Invariance == Spec => []IInv
  <1>1. IInv /\ [Next]_vars => IInv'
    BY TypeStep, BudgetStep, ItemStep, LostStep, ServiceStep, ControlStep DEF IInv
  <1> QED BY InitIInv, <1>1, PTL DEF Spec

\* _store and the two triggers: the budget row counts the rows and their bytes
\* exactly, and the table never grows over its limits.
THEOREM BudgetIsExact == Spec => []BudgetExact
  <1>1. IInv => BudgetExact
    <2> SUFFICES ASSUME IInv PROVE BudgetExact
      OBVIOUS
    <2>1. BudgetInv
      BY DEF IInv
    <2>2. ASSUME pending = <<>> PROVE budget.bytes = 0
      <3>1. PICK f \in [0..Len(pending) -> Nat] : PrefixSums(f)
        BY <2>1 DEF BudgetInv
      <3>2. Len(pending) = 0
        BY <2>2
      <3> QED BY <3>1, <3>2 DEF PrefixSums
    <2> QED BY <2>1, <2>2 DEF BudgetInv, BudgetExact
  <1> QED BY Invariance, <1>1, PTL

\* append, flush, acknowledge and the end of a process: what append accepted is
\* applied, in the table or in the slot, unless a process took it from its slot
\* when it ended, and each process takes one item at most.
THEOREM AcceptedIsKept == Spec => []AcceptedKept
  <1>1. IInv => AcceptedKept
    <2> SUFFICES ASSUME IInv PROVE AcceptedKept
      OBVIOUS
    <2>1. KeptInv /\ LostInv /\ run \in Nat /\ IsFiniteSet(gone)
      BY DEF IInv, TypeOK, LostInv
    <2>2. Cardinality(gone) <= run
      <3>1. Cardinality(gone) \in Nat
        BY <2>1, FS_CardinalityType
      <3> QED BY <2>1, <3>1 DEF LostInv
    <2> QED BY <2>1, <2>2 DEF AcceptedKept, KeptInv, InTable, Places
  <1> QED BY Invariance, <1>1, PTL

\* save_pending takes the oldest row, and the slot last: the ledger sees the
\* items in the order in which append accepted them, over failed writes,
\* replays and restarts.
THEOREM LedgerOrder == Spec => []AppliedInOrder
  <1>1. IInv => AppliedInOrder
    BY DEF IInv
  <1> QED BY Invariance, <1>1, PTL

\* set_tracking_enabled, set_paused and __init__: a drained backlog leaves the
\* ledger in the tracking state the user sees, or the refusal is shown.
THEOREM LedgerAgrees == Spec => []ControlAgrees
  <1>1. IInv => ControlAgrees
    <2> SUFFICES ASSUME IInv, pc # "off", pending = <<>>, unsaved = NoItem, ~ctlIssue
                 PROVE  ledgerOn = (tracking /\ ~paused)
      BY DEF ControlAgrees
    <2>1. Destined(tracking /\ ~paused)
      BY DEF IInv, ControlInv
    <2>2. Places = {}
      BY DEF Places
    <2> QED BY <2>1, <2>2, NoItemTyped DEF Destined
  <1> QED BY Invariance, <1>1, PTL

-----------------------------------------------------------------------------
(***************************************************************************)
(* The hand-off to the observation database                                *)
(***************************************************************************)
-----------------------------------------------------------------------------
(* The inductive invariant, one definition per idea                        *)

\* The thread in write() holds exactly one record, not yet returned; every
\* record seen so far was stamped no later than now.
ProducerInv ==
    /\ ppc = "idle" => rec = NoRecord
    /\ ppc # "idle" => rec \in begun \ returned
    /\ returned \subseteq begun
    /\ \A r \in begun : Ts[r] <= clock

\* What the queue and the writer hold has been handed over by write().
HeldInv ==
    /\ \A i \in 1..Len(queue) : queue[i] \in Records => queue[i] \in begun
    /\ item \in Records => item \in begun

\* Which local values each line of run() and flush_gap() works with.
WriterInv ==
    /\ wpc \in {"test", "choose", "timed", "blocked", "exit", "exited"} => item = NoRecord
    /\ wpc \in {"write", "lose"} => item \in Records
    /\ wpc = "open" => item # NoRecord
    /\ wpc = "open" /\ item \in Records => ctx = "record"
    /\ wpc \in {"read", "save", "clear"} =>
          IF ctx = "record" THEN item \in Records ELSE item = NoRecord
    /\ wpc \in {"read", "save", "clear"} => ctx # "none"
    /\ wpc = "save" => gapRead # NoGap
    /\ wpc = "clear" => gapRead # NoGap /\ gapRead \in gaps

\* preparing is 1 while the single request is on its way to the writer.
PrepareInv ==
    /\ prep \in {"idle", "putting"} => item # Prep /\ \A i \in 1..Len(queue) : queue[i] # Prep
    /\ prep = "idle" => preparing = 0
    /\ prep = "putting" => preparing = 1
    /\ item = Prep => preparing = 1 /\ \A i \in 1..Len(queue) : queue[i] # Prep
    /\ \A i \in 1..Len(queue) : queue[i] = Prep => preparing = 1
    /\ \A i, j \in 1..Len(queue) : queue[i] = Prep /\ queue[j] = Prep => i = j

\* Once the writer leaves its loop, the queue holds no record but an overtaken one.
CloseInv ==
    /\ closed <=> cpc # "idle"
    /\ stopping => closed
    /\ before \subseteq returned
    /\ ~closed => before = {} /\ overtaken = {}
    /\ closed /\ ppc = "putting" => rec \in overtaken
    /\ cpc \in {"idle", "marked", "waking"} => result = "none"
    /\ result = "flushed" => wpc = "exited"
    /\ Leaving => stopping /\ \A r \in Records : Queued(r) => r \in overtaken

HandOffInv ==
    /\ WriterTypeOK /\ ProducerInv /\ HeldInv /\ WriterInv /\ PrepareInv /\ CloseInv
    /\ Accounted /\ CleanClose

----------------------------------------------------------------------------
\* The initial state satisfies the invariant: nothing handed over, nothing lost.
LEMMA HandOffInit == WriterInit => HandOffInv
<1> SUFFICES ASSUME WriterInit PROVE HandOffInv
  OBVIOUS
<1> USE CapacityAssumption, TimeAssumption, ItemAssumption, GapAssumption DEF WriterInit
<1>1. WriterTypeOK
  <2>1. queue \in Seq(Items) /\ Len(queue) <= Capacity
    BY DEF Items
  <2>2. /\ pendingGap \in Gaps \cup {NoGap} /\ gapRead \in Gaps \cup {NoGap} /\ gaps \subseteq Gaps
        /\ clock \in Nat /\ preparing \in 0..1
    OBVIOUS
  <2> QED
    BY <2>1, <2>2 DEF WriterTypeOK
<1>2. ProducerInv
  BY DEF ProducerInv
<1>3. HeldInv
  BY DEF HeldInv
<1>4. WriterInv
  BY DEF WriterInv
<1>5. PrepareInv
  BY DEF PrepareInv
<1>6. CloseInv
  BY DEF CloseInv, Leaving, Queued
<1>7. Accounted
  BY DEF Accounted, Queued, Stored, Covers
<1>8. CleanClose
  BY DEF CleanClose, Stored, Covers
<1> QED
  BY <1>1, <1>2, <1>3, <1>4, <1>5, <1>6, <1>7, <1>8 DEF HandOffInv

\* A put adds its item to what is queued and nothing else.
LEMMA PutQueued ==
    ASSUME queue \in Seq(Items), NEW x \in Items, queue' = Append(queue, x)
    PROVE  \A r : Queued(r)' <=> Queued(r) \/ r = x
<1>1. /\ Len(queue') = Len(queue) + 1 /\ Len(queue) \in Nat
      /\ \A k \in 1..Len(queue) : queue'[k] = queue[k]
      /\ queue'[Len(queue) + 1] = x
  OBVIOUS
<1>2. \A k \in 1..Len(queue') : k \in 1..Len(queue) \/ k = Len(queue) + 1
  BY <1>1
<1>3. \A k : k \in 1..Len(queue) \/ k = Len(queue) + 1 => k \in 1..Len(queue')
  BY <1>1
<1> QED
  BY <1>1, <1>2, <1>3 DEF Queued

\* Every step of the four threads preserves the invariant.
LEMMA HandOffStep == HandOffInv /\ [WriterNext]_allVars => HandOffInv'
<1> SUFFICES ASSUME HandOffInv, [WriterNext]_allVars PROVE HandOffInv'
  OBVIOUS
<1> USE CapacityAssumption, TimeAssumption, ItemAssumption, GapAssumption
<1>1. CASE Tick
  BY <1>1
     DEF Tick, allVars, prodVars, writerVars, closeVars, closeHist, prepVars, HandOffInv,
         WriterTypeOK, ProducerInv, HeldInv, WriterInv, PrepareInv, CloseInv, Accounted, CleanClose,
         Items, Gaps, Queued, Covers, Stored, Leaving
<1>2. CASE \E r \in Records : WriteCheck(r)
  BY <1>2
     DEF WriteCheck, allVars, prodVars, writerVars, closeVars, closeHist, prepVars, HandOffInv,
         WriterTypeOK, ProducerInv, HeldInv, WriterInv, PrepareInv, CloseInv, Accounted, CleanClose,
         Items, Gaps, Queued, Covers, Stored, Leaving
<1>3. CASE WritePut
  <2>1. WriterTypeOK'
    BY <1>3
       DEF HandOffInv, WritePut, allVars, prodVars, writerVars, closeVars, closeHist, prepVars,
           WriterTypeOK, Items, Gaps, ProducerInv
  <2>2. ProducerInv'
    BY <1>3
       DEF HandOffInv, WritePut, allVars, prodVars, writerVars, closeVars, closeHist, prepVars,
           ProducerInv, WriterTypeOK
  <2>3. HeldInv'
    BY <1>3
       DEF HandOffInv, WritePut, allVars, prodVars, writerVars, closeVars, closeHist, prepVars,
           HeldInv, WriterTypeOK, Items, ProducerInv
  <2>4. WriterInv'
    BY <1>3
       DEF HandOffInv, WritePut, allVars, prodVars, writerVars, closeVars, closeHist, prepVars,
           WriterInv
  <2>5. PrepareInv'
    BY <1>3
       DEF HandOffInv, WritePut, allVars, prodVars, writerVars, closeVars, closeHist, prepVars,
           PrepareInv, WriterTypeOK, Items, ProducerInv
  <2>6. CloseInv'
    BY <1>3
       DEF HandOffInv, WritePut, allVars, prodVars, writerVars, closeVars, closeHist, prepVars,
           CloseInv, Leaving, Queued, WriterTypeOK, Items, ProducerInv
  <2>7. Accounted'
    <3>1. /\ rec \in Items /\ queue \in Seq(Items) /\ queue' = Append(queue, rec)
          /\ UNCHANGED <<rows, gaps, item, wpc, ctx, pendingGap, overtaken, stopping>>
      BY <1>3 DEF WritePut, writerVars, closeVars, closeHist, HandOffInv, WriterTypeOK, Items,
                    ProducerInv
    <3>2. \A r : Queued(r)' <=> Queued(r) \/ r = rec
      BY <3>1, PutQueued
    <3>3. \A r : (Stored(r)' <=> Stored(r)) /\ (Leaving' <=> Leaving)
      BY <3>1 DEF Stored, Covers, Leaving
    <3>4. returned' = returned \cup {rec} /\ (Leaving => rec \in overtaken)
      BY <1>3 DEF WritePut, HandOffInv, CloseInv
    <3> QED
      BY <3>1, <3>2, <3>3, <3>4 DEF HandOffInv, Accounted, Covers
  <2>8. CleanClose'
    <3>1. rec \in Items /\ queue \in Seq(Items) /\ queue' = Append(queue, rec)
      BY <1>3 DEF WritePut, HandOffInv, WriterTypeOK, Items, ProducerInv
    <3>2. \A r : Queued(r) => Queued(r)'
      BY <3>1, PutQueued
    <3> QED
      BY <3>2, <1>3
         DEF HandOffInv, WritePut, writerVars, closeVars, closeHist, CleanClose, Stored, Covers
  <2> QED
    BY <2>1, <2>2, <2>3, <2>4, <2>5, <2>6, <2>7, <2>8 DEF HandOffInv
<1>4. CASE WriteFull
  BY <1>4
     DEF WriteFull, allVars, prodVars, writerVars, closeVars, closeHist, prepVars, HandOffInv,
         WriterTypeOK, ProducerInv, HeldInv, WriterInv, PrepareInv, CloseInv, Accounted, CleanClose,
         Items, Gaps, Queued, Covers, Stored, Leaving
<1>5. CASE WriteLost
  <2>1. WriterTypeOK'
    BY <1>5
       DEF HandOffInv, WriteLost, lost, Merged, allVars, prodVars, writerVars, closeVars, closeHist,
           prepVars, WriterTypeOK, ProducerInv, Items, Gaps, Queued, Leaving
  <2>2. ProducerInv'
    BY <1>5
       DEF HandOffInv, WriteLost, lost, Merged, allVars, prodVars, writerVars, closeVars, closeHist,
           prepVars, WriterTypeOK, ProducerInv, Items, Gaps, Queued, Leaving
  <2>3. HeldInv'
    BY <1>5
       DEF HandOffInv, WriteLost, lost, Merged, allVars, prodVars, writerVars, closeVars, closeHist,
           prepVars, WriterTypeOK, ProducerInv, HeldInv, Items, Gaps, Queued, Leaving
  <2>4. WriterInv'
    BY <1>5
       DEF HandOffInv, WriteLost, lost, Merged, allVars, prodVars, writerVars, closeVars, closeHist,
           prepVars, WriterTypeOK, ProducerInv, WriterInv, Items, Gaps, Queued, Leaving
  <2>5. PrepareInv'
    BY <1>5
       DEF HandOffInv, WriteLost, lost, Merged, allVars, prodVars, writerVars, closeVars, closeHist,
           prepVars, WriterTypeOK, ProducerInv, PrepareInv, Items, Gaps, Queued, Leaving
  <2>6. CloseInv'
    BY <1>5
       DEF HandOffInv, WriteLost, lost, Merged, allVars, prodVars, writerVars, closeVars, closeHist,
           prepVars, WriterTypeOK, ProducerInv, CloseInv, Items, Gaps, Queued, Leaving
  <2>7. Accounted'
    <3>1. /\ UNCHANGED <<queue, rows, gaps, item, wpc, ctx, overtaken>>
          /\ returned' = returned \cup {rec}
      BY <1>5 DEF WriteLost, writerVars, closeVars, closeHist
    <3>2. \A r : (Stored(r)' <=> Stored(r)) /\ (Queued(r)' <=> Queued(r)) /\ (Leaving' <=> Leaving)
      BY <3>1 DEF Stored, Covers, Queued, Leaving
    <3>3. pendingGap' = Merged(pendingGap, rec) /\ rec \in Records /\ Ts[rec] <= clock
      BY <1>5 DEF WriteLost, lost, HandOffInv, WriterTypeOK, ProducerInv
    <3>4. pendingGap' \in Gaps /\ pendingGap' # NoGap /\ Covers(pendingGap', rec)
      BY <3>3 DEF HandOffInv, WriterTypeOK, Gaps, Merged, Covers
    <3>5. \A r \in Records : pendingGap # NoGap /\ Covers(pendingGap, r) => Covers(pendingGap', r)
      BY <3>3 DEF HandOffInv, WriterTypeOK, Gaps, Merged, Covers
    <3>6. returned \subseteq Records
      BY DEF HandOffInv, WriterTypeOK
    <3> QED
      BY <3>1, <3>2, <3>4, <3>5, <3>6 DEF HandOffInv, Accounted, Covers
  <2>8. CleanClose'
    BY <1>5
       DEF HandOffInv, WriteLost, writerVars, closeVars, closeHist, CleanClose, Stored, Covers,
           Queued
  <2> QED
    BY <2>1, <2>2, <2>3, <2>4, <2>5, <2>6, <2>7, <2>8 DEF HandOffInv
<1>6. CASE PrepareStart
  BY <1>6
     DEF PrepareStart, allVars, prodVars, writerVars, closeVars, closeHist, prepVars, HandOffInv,
         WriterTypeOK, ProducerInv, HeldInv, WriterInv, PrepareInv, CloseInv, Accounted, CleanClose,
         Items, Gaps, Queued, Covers, Stored, Leaving
<1>7. CASE PreparePut
  <2>1. WriterTypeOK'
    BY <1>7
       DEF HandOffInv, PreparePut, allVars, prodVars, writerVars, closeVars, closeHist, prepVars,
           WriterTypeOK, Items, Gaps, ProducerInv
  <2>2. ProducerInv'
    BY <1>7
       DEF HandOffInv, PreparePut, allVars, prodVars, writerVars, closeVars, closeHist, prepVars,
           ProducerInv, WriterTypeOK
  <2>3. HeldInv'
    BY <1>7
       DEF HandOffInv, PreparePut, allVars, prodVars, writerVars, closeVars, closeHist, prepVars,
           HeldInv, WriterTypeOK, Items, ProducerInv
  <2>4. WriterInv'
    BY <1>7
       DEF HandOffInv, PreparePut, allVars, prodVars, writerVars, closeVars, closeHist, prepVars,
           WriterInv
  <2>5. PrepareInv'
    BY <1>7
       DEF HandOffInv, PreparePut, allVars, prodVars, writerVars, closeVars, closeHist, prepVars,
           PrepareInv, WriterTypeOK, Items, ProducerInv
  <2>6. CloseInv'
    BY <1>7
       DEF HandOffInv, PreparePut, allVars, prodVars, writerVars, closeVars, closeHist, prepVars,
           CloseInv, Leaving, Queued, WriterTypeOK, Items, ProducerInv
  <2>7. Accounted'
    <3>1. /\ Prep \in Items /\ queue \in Seq(Items) /\ queue' = Append(queue, Prep)
          /\ UNCHANGED <<rows, gaps, item, wpc, ctx, pendingGap, overtaken, stopping>>
      BY <1>7 DEF PreparePut, writerVars, closeVars, closeHist, HandOffInv, WriterTypeOK, Items,
                    ProducerInv
    <3>2. \A r : Queued(r)' <=> Queued(r) \/ r = Prep
      BY <3>1, PutQueued
    <3>3. \A r : (Stored(r)' <=> Stored(r)) /\ (Leaving' <=> Leaving)
      BY <3>1 DEF Stored, Covers, Leaving
    <3> QED
      BY <3>1, <3>2, <3>3, <1>7 DEF HandOffInv, Accounted, Covers, PreparePut, prodVars
  <2>8. CleanClose'
    <3>1. Prep \in Items /\ queue \in Seq(Items) /\ queue' = Append(queue, Prep)
      BY <1>7 DEF PreparePut, HandOffInv, WriterTypeOK, Items
    <3>2. \A r : Queued(r) => Queued(r)'
      BY <3>1, PutQueued
    <3> QED
      BY <3>2, <1>7
         DEF HandOffInv, PreparePut, writerVars, closeVars, closeHist, CleanClose, Stored, Covers
  <2> QED
    BY <2>1, <2>2, <2>3, <2>4, <2>5, <2>6, <2>7, <2>8 DEF HandOffInv
<1>8. CASE PrepareTimeout
  BY <1>8
     DEF PrepareTimeout, allVars, prodVars, writerVars, closeVars, closeHist, prepVars, HandOffInv,
         WriterTypeOK, ProducerInv, HeldInv, WriterInv, PrepareInv, CloseInv, Accounted, CleanClose,
         Items, Gaps, Queued, Covers, Stored, Leaving
<1>9. CASE WriterTest
  BY <1>9
     DEF WriterTest, allVars, prodVars, writerVars, closeVars, closeHist, prepVars, HandOffInv,
         WriterTypeOK, ProducerInv, HeldInv, WriterInv, PrepareInv, CloseInv, Accounted, CleanClose,
         Items, Gaps, Queued, Covers, Stored, Leaving
<1>10. CASE WriterChoose
  BY <1>10
     DEF WriterChoose, allVars, prodVars, writerVars, closeVars, closeHist, prepVars, HandOffInv,
         WriterTypeOK, ProducerInv, HeldInv, WriterInv, PrepareInv, CloseInv, Accounted, CleanClose,
         Items, Gaps, Queued, Covers, Stored, Leaving
<1>11. CASE WriterGet
  <2>1. WriterTypeOK'
    BY <1>11
       DEF HandOffInv, WriterGet, allVars, prodVars, writerVars, closeVars, closeHist, prepVars,
           WriterTypeOK, Items, Gaps
  <2>2. ProducerInv'
    BY <1>11
       DEF HandOffInv, WriterGet, allVars, prodVars, writerVars, closeVars, closeHist, prepVars,
           ProducerInv
  <2>3. HeldInv'
    BY <1>11
       DEF HandOffInv, WriterGet, allVars, prodVars, writerVars, closeVars, closeHist, prepVars,
           HeldInv, WriterTypeOK, Items
  <2>4. WriterInv'
    BY <1>11
       DEF HandOffInv, WriterGet, allVars, prodVars, writerVars, closeVars, closeHist, prepVars,
           WriterInv, WriterTypeOK, Items
  <2>5. PrepareInv'
    BY <1>11
       DEF HandOffInv, WriterGet, allVars, prodVars, writerVars, closeVars, closeHist, prepVars,
           PrepareInv, WriterTypeOK, Items
  <2>6. CloseInv'
    BY <1>11
       DEF HandOffInv, WriterGet, allVars, prodVars, writerVars, closeVars, closeHist, prepVars,
           CloseInv, Leaving, Queued, WriterTypeOK, Items
  <2>7. Accounted'
    <3> SUFFICES ASSUME NEW r \in returned
                 PROVE  \/ Stored(r)' \/ item' = r
                        \/ pendingGap' # NoGap /\ Covers(pendingGap, r)'
                        \/ Queued(r)'
      <4>1. ~Leaving'
        BY <1>11 DEF WriterGet, Leaving
      <4> QED
        BY <4>1, <1>11 DEF Accounted, WriterGet, prodVars
    <3>1. /\ queue \in Seq(Items) /\ queue # <<>> /\ r \in Records
          /\ Len(queue') = Len(queue) - 1
          /\ \A k \in 1..Len(queue') : queue'[k] = queue[k + 1]
      BY <1>11 DEF HandOffInv, WriterTypeOK, WriterGet
    <3>2. CASE Queued(r)
      <4>1. PICK i \in 1..Len(queue) : queue[i] = r
        BY <3>2 DEF Queued
      <4>2. CASE i = 1
        BY <4>1, <4>2, <3>1, <1>11 DEF WriterGet
      <4>3. CASE i # 1
        <5>1. i - 1 \in 1..Len(queue') /\ queue'[i - 1] = r
          BY <4>1, <4>3, <3>1
        <5> QED
          BY <5>1 DEF Queued
      <4> QED
        BY <4>2, <4>3
    <3>3. CASE ~Queued(r)
      BY <3>1, <3>3, <1>11 DEF HandOffInv, Accounted, WriterInv, WriterGet, Stored, Covers
    <3> QED
      BY <3>2, <3>3
  <2>8. CleanClose'
    BY <1>11 DEF HandOffInv, WriterGet, closeVars, CleanClose, CloseInv
  <2> QED
    BY <2>1, <2>2, <2>3, <2>4, <2>5, <2>6, <2>7, <2>8 DEF HandOffInv
<1>12. CASE WriterEmpty
  BY <1>12
     DEF WriterEmpty, allVars, prodVars, writerVars, closeVars, closeHist, prepVars, HandOffInv,
         WriterTypeOK, ProducerInv, HeldInv, WriterInv, PrepareInv, CloseInv, Accounted, CleanClose,
         Items, Gaps, Queued, Covers, Stored, Leaving
<1>13. CASE \E ok \in BOOLEAN : WriterPrepare(ok)
  BY <1>13
     DEF WriterPrepare, allVars, prodVars, writerVars, closeVars, closeHist, prepVars, HandOffInv,
         WriterTypeOK, ProducerInv, HeldInv, WriterInv, PrepareInv, CloseInv, Accounted, CleanClose,
         Items, Gaps, Queued, Covers, Stored, Leaving
<1>14. CASE \E ok \in BOOLEAN : WriterOpen(ok)
  BY <1>14
     DEF WriterOpen, allVars, prodVars, writerVars, closeVars, closeHist, prepVars, HandOffInv,
         WriterTypeOK, ProducerInv, HeldInv, WriterInv, PrepareInv, CloseInv, Accounted, CleanClose,
         Items, Gaps, Queued, Covers, Stored, Leaving
<1>15. CASE \E ok \in BOOLEAN : WriterWrite(ok)
  BY <1>15
     DEF WriterWrite, allVars, prodVars, writerVars, closeVars, closeHist, prepVars, HandOffInv,
         WriterTypeOK, ProducerInv, HeldInv, WriterInv, PrepareInv, CloseInv, Accounted, CleanClose,
         Items, Gaps, Queued, Covers, Stored, Leaving
<1>16. CASE FlushRead
  BY <1>16
     DEF FlushRead, AfterFlush, allVars, prodVars, writerVars, closeVars, closeHist, prepVars,
         HandOffInv, WriterTypeOK, ProducerInv, HeldInv, WriterInv, PrepareInv, CloseInv, Accounted,
         CleanClose, Items, Gaps, Queued, Covers, Stored, Leaving
<1>17. CASE \E ok \in BOOLEAN : FlushSave(ok)
  BY <1>17
     DEF FlushSave, FlushFails, allVars, prodVars, writerVars, closeVars, closeHist, prepVars,
         HandOffInv, WriterTypeOK, ProducerInv, HeldInv, WriterInv, PrepareInv, CloseInv, Accounted,
         CleanClose, Items, Gaps, Queued, Covers, Stored, Leaving
<1>18. CASE FlushClear
  BY <1>18
     DEF FlushClear, AfterFlush, allVars, prodVars, writerVars, closeVars, closeHist, prepVars,
         HandOffInv, WriterTypeOK, ProducerInv, HeldInv, WriterInv, PrepareInv, CloseInv, Accounted,
         CleanClose, Items, Gaps, Queued, Covers, Stored, Leaving
<1>19. CASE WriterLose
  <2>1. WriterTypeOK'
    BY <1>19
       DEF HandOffInv, WriterLose, allVars, prodVars, writerVars, closeVars, closeHist, prepVars,
           WriterTypeOK, Items, Gaps, lost, Merged, WriterInv
  <2>2. ProducerInv'
    BY <1>19
       DEF HandOffInv, WriterLose, allVars, prodVars, writerVars, closeVars, closeHist, prepVars,
           ProducerInv
  <2>3. HeldInv'
    BY <1>19
       DEF HandOffInv, WriterLose, allVars, prodVars, writerVars, closeVars, closeHist, prepVars,
           HeldInv, WriterTypeOK, Items
  <2>4. WriterInv'
    BY <1>19
       DEF HandOffInv, WriterLose, allVars, prodVars, writerVars, closeVars, closeHist, prepVars,
           WriterInv, WriterTypeOK
  <2>5. PrepareInv'
    BY <1>19
       DEF HandOffInv, WriterLose, allVars, prodVars, writerVars, closeVars, closeHist, prepVars,
           PrepareInv
  <2>6. CloseInv'
    BY <1>19
       DEF HandOffInv, WriterLose, allVars, prodVars, writerVars, closeVars, closeHist, prepVars,
           CloseInv, Leaving, Queued
  <2>7. Accounted'
    <3>1. UNCHANGED <<queue, rows, gaps, returned, overtaken>> /\ ~Leaving /\ ~Leaving'
      BY <1>19 DEF WriterLose, prodVars, closeVars, closeHist, Leaving
    <3>2. \A r : (Stored(r)' <=> Stored(r)) /\ (Queued(r)' <=> Queued(r))
      BY <3>1 DEF Stored, Covers, Queued
    <3>3. pendingGap' = Merged(pendingGap, item) /\ item \in Records /\ Ts[item] <= clock
      BY <1>19 DEF WriterLose, lost, HandOffInv, WriterInv, HeldInv, ProducerInv
    <3>4. pendingGap' \in Gaps /\ pendingGap' # NoGap /\ Covers(pendingGap', item)
      BY <3>3 DEF HandOffInv, WriterTypeOK, Gaps, Merged, Covers
    <3>5. \A r \in Records : pendingGap # NoGap /\ Covers(pendingGap, r) => Covers(pendingGap', r)
      BY <3>3 DEF HandOffInv, WriterTypeOK, Gaps, Merged, Covers
    <3>6. returned \subseteq Records
      BY DEF HandOffInv, WriterTypeOK
    <3> QED
      BY <3>1, <3>2, <3>4, <3>5, <3>6 DEF HandOffInv, Accounted, Covers
  <2>8. CleanClose'
    BY <1>19 DEF HandOffInv, WriterLose, closeVars, CleanClose, CloseInv
  <2> QED
    BY <2>1, <2>2, <2>3, <2>4, <2>5, <2>6, <2>7, <2>8 DEF HandOffInv
<1>20. CASE WriterExit
  BY <1>20
     DEF WriterExit, allVars, prodVars, writerVars, closeVars, closeHist, prepVars, HandOffInv,
         WriterTypeOK, ProducerInv, HeldInv, WriterInv, PrepareInv, CloseInv, Accounted, CleanClose,
         Items, Gaps, Queued, Covers, Stored, Leaving
<1>21. CASE CloseMark
  <2>1. WriterTypeOK'
    BY <1>21
       DEF HandOffInv, CloseMark, allVars, prodVars, writerVars, closeVars, closeHist, prepVars,
           WriterTypeOK, ProducerInv
  <2>2. ProducerInv'
    BY <1>21
       DEF HandOffInv, CloseMark, allVars, prodVars, writerVars, closeVars, closeHist, prepVars,
           ProducerInv
  <2>3. HeldInv'
    BY <1>21
       DEF HandOffInv, CloseMark, allVars, prodVars, writerVars, closeVars, closeHist, prepVars,
           HeldInv
  <2>4. WriterInv'
    BY <1>21
       DEF HandOffInv, CloseMark, allVars, prodVars, writerVars, closeVars, closeHist, prepVars,
           WriterInv
  <2>5. PrepareInv'
    BY <1>21
       DEF HandOffInv, CloseMark, allVars, prodVars, writerVars, closeVars, closeHist, prepVars,
           PrepareInv
  <2>6. CloseInv'
    BY <1>21
       DEF HandOffInv, CloseMark, allVars, prodVars, writerVars, closeVars, closeHist, prepVars,
           CloseInv, Leaving, Queued, WriterTypeOK
  <2>7. Accounted'
    <3>1. ~Leaving /\ ~Leaving'
      BY <1>21 DEF HandOffInv, CloseMark, writerVars, CloseInv, Leaving
    <3> QED
      BY <3>1, <1>21
         DEF HandOffInv, CloseMark, writerVars, prodVars, Accounted, Queued, Stored, Covers
  <2>8. CleanClose'
    BY <1>21
       DEF HandOffInv, CloseMark, allVars, prodVars, writerVars, closeVars, closeHist, prepVars,
           CleanClose, CloseInv, Stored, Covers, WriterTypeOK
  <2> QED
    BY <2>1, <2>2, <2>3, <2>4, <2>5, <2>6, <2>7, <2>8 DEF HandOffInv
<1>22. CASE CloseStop
  BY <1>22
     DEF CloseStop, allVars, prodVars, writerVars, closeVars, closeHist, prepVars, HandOffInv,
         WriterTypeOK, ProducerInv, HeldInv, WriterInv, PrepareInv, CloseInv, Accounted, CleanClose,
         Items, Gaps, Queued, Covers, Stored, Leaving
<1>23. CASE CloseWake
  <2>1. WriterTypeOK'
    BY <1>23
       DEF HandOffInv, CloseWake, allVars, prodVars, writerVars, closeVars, closeHist, prepVars,
           WriterTypeOK, Items, Gaps, ProducerInv
  <2>2. ProducerInv'
    BY <1>23
       DEF HandOffInv, CloseWake, allVars, prodVars, writerVars, closeVars, closeHist, prepVars,
           ProducerInv, WriterTypeOK
  <2>3. HeldInv'
    BY <1>23
       DEF HandOffInv, CloseWake, allVars, prodVars, writerVars, closeVars, closeHist, prepVars,
           HeldInv, WriterTypeOK, Items, ProducerInv
  <2>4. WriterInv'
    BY <1>23
       DEF HandOffInv, CloseWake, allVars, prodVars, writerVars, closeVars, closeHist, prepVars,
           WriterInv
  <2>5. PrepareInv'
    BY <1>23
       DEF HandOffInv, CloseWake, allVars, prodVars, writerVars, closeVars, closeHist, prepVars,
           PrepareInv, WriterTypeOK, Items, ProducerInv
  <2>6. CloseInv'
    BY <1>23
       DEF HandOffInv, CloseWake, allVars, prodVars, writerVars, closeVars, closeHist, prepVars,
           CloseInv, Leaving, Queued, WriterTypeOK, Items, ProducerInv
  <2>7. Accounted'
    <3>1. /\ Sentinel \in Items /\ queue \in Seq(Items)
          /\ queue' = Append(queue, Sentinel) \/ queue' = queue
          /\ UNCHANGED <<rows, gaps, item, wpc, ctx, pendingGap, overtaken, returned>>
      BY <1>23 DEF CloseWake, writerVars, prodVars, closeHist, HandOffInv, WriterTypeOK, Items
    <3>2. \A r : Queued(r) => Queued(r)'
      BY <3>1, PutQueued DEF Queued
    <3>3. \A r : (Stored(r)' <=> Stored(r)) /\ (Leaving' <=> Leaving)
      BY <3>1 DEF Stored, Covers, Leaving
    <3> QED
      BY <3>1, <3>2, <3>3 DEF HandOffInv, Accounted, Covers
  <2>8. CleanClose'
    BY <1>23 DEF HandOffInv, CloseWake, closeVars, CleanClose, CloseInv
  <2> QED
    BY <2>1, <2>2, <2>3, <2>4, <2>5, <2>6, <2>7, <2>8 DEF HandOffInv
<1>24. CASE CloseJoin
  BY <1>24
     DEF CloseJoin, allVars, prodVars, writerVars, closeVars, closeHist, prepVars, HandOffInv,
         WriterTypeOK, ProducerInv, HeldInv, WriterInv, PrepareInv, CloseInv, Accounted, CleanClose,
         Items, Gaps, Queued, Covers, Stored, Leaving
<1>25. CASE CloseAgain
  BY <1>25
     DEF CloseAgain, allVars, prodVars, writerVars, closeVars, closeHist, prepVars, HandOffInv,
         WriterTypeOK, ProducerInv, HeldInv, WriterInv, PrepareInv, CloseInv, Accounted, CleanClose,
         Items, Gaps, Queued, Covers, Stored, Leaving
<1>26. CASE UNCHANGED allVars
  BY <1>26
     DEF allVars, prodVars, writerVars, closeVars, closeHist, prepVars, HandOffInv, WriterTypeOK,
         ProducerInv, HeldInv, WriterInv, PrepareInv, CloseInv, Accounted, CleanClose, Items,
         Gaps, Queued, Covers, Stored, Leaving
<1> QED
  BY <1>1, <1>2, <1>3, <1>4, <1>5, <1>6, <1>7, <1>8, <1>9, <1>10, <1>11, <1>12, <1>13, <1>14, <1>15,
     <1>16, <1>17, <1>18, <1>19, <1>20, <1>21, <1>22, <1>23, <1>24, <1>25, <1>26
     DEF WriterNext, Write, Prepare, Run, Flush, Closer

----------------------------------------------------------------------------
\* The inductive invariant holds in every reachable state.
LEMMA HandOffInvariance == WriterSpec => []HandOffInv
BY HandOffInit, HandOffStep, PTL DEF WriterSpec

\* Every variable of the hand-off keeps its type; the queue never exceeds
\* the capacity the code gives it and preparing stays 0 or 1.
THEOREM HandOffTypes == WriterSpec => []WriterTypeOK
<1>1. HandOffInv => WriterTypeOK
  BY DEF HandOffInv
<1> QED
  BY <1>1, HandOffInvariance, PTL

\* No record whose write() returned is ever lost without an interval that
\* reports the loss, but for the one write that close() overtook between its
\* test of closed and its put: for every capacity, timestamping and interleaving.
THEOREM NothingVanishes == WriterSpec => []Accounted
<1>1. HandOffInv => Accounted
  BY DEF HandOffInv
<1> QED
  BY <1>1, HandOffInvariance, PTL

\* A call of close(), the first or a later one, returns True only when
\* everything written before that call is durable, the overtaken write excepted.
THEOREM CloseIsClean == WriterSpec => []CleanClose
<1>1. HandOffInv => CleanClose
  BY DEF HandOffInv
<1> QED
  BY <1>1, HandOffInvariance, PTL
=============================================================================
