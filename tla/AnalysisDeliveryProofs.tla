----------------------- MODULE AnalysisDeliveryProofs -----------------------
(***************************************************************************)
(* How the analysis reaches the window, for every set of sessions and all  *)
(* bounds.  SnapshotDelivery implements CommittedView: the window shows    *)
(* one committed generation at a time and never goes back.  QueryDelivery  *)
(* answers a query from a generation published for it, and sends no answer *)
(* of a query that it knows to be superseded.                              *)
(*                                                                         *)
(* The proof about the pages rests on a numbering C that assigns to every  *)
(* page (epoch, sequence) the rows it leaves when it is applied.  It is    *)
(* history: a publication extends it, no step changes it elsewhere, and    *)
(* what the receiver has put together is C at the last number it accepted. *)
(***************************************************************************)
EXTENDS SnapshotDelivery, QueryDelivery, FiniteSetTheorems, SequenceTheorems, TLAPS

-----------------------------------------------------------------------------
(* The inductive invariant *)

PutT == [op : {"put"}, owner : Owners, row : 0..MaxGen]
DelT == [op : {"del"}, owner : Owners]
PartT == PutT \cup DelT \cup {NoPart}
FrameT == [kind : {"frame"}, epoch : Nat, sequence : Nat, token : Nat, reset : BOOLEAN,
           more : BOOLEAN, part : PartT]
ErrorT == [kind : {"error"}, token : Nat]
WriterT == [pc : {"top", "install", "publish", "page", "failed"}, changed : SUBSET Owners,
            removed : SUBSET Owners, blocked : Nat, reset : BOOLEAN, again : BOOLEAN,
            sync : BOOLEAN, pages : Seq(FrameT)]
PublisherT == [token : Nat, owners : Rows, sent : Rows, changed : SUBSET Owners, epoch : Nat,
               sequence : Nat]
ReceiverT == [epoch : Nat, sequence : Nat, rows : Rows, retired : SUBSET Nat, open : BOOLEAN,
              pending : Rows, token : Nat]

(* The types, without the bounds the refinement does not need. *)
Types ==
    /\ store.gen \in 0..MaxGen /\ store.ready \in BOOLEAN /\ store.rows \in Rows
    /\ \A h \in DOMAIN store.done : h \in 1..store.gen /\ store.done[h] \in Rows
    /\ W \in WriterT /\ P \in PublisherT /\ R \in ReceiverT /\ epochs \in Nat
    /\ box \in FrameT \cup ErrorT \cup {Nothing, Progress}
    /\ pipe \in Seq(FrameT \cup ErrorT)
    /\ shown.token \in Nat /\ wanted \in BOOLEAN

(* A store that is ready is the generation committed last. *)
StoreInv ==
    /\ store.ready => store.gen \in DOMAIN store.done /\ store.done[store.gen] = store.rows
    /\ \A o \in W.removed : store.rows[o] = 0

(* What a publisher did not read again did not change, and it sends again    *)
(* what did.                                                                 *)
Kept(p) == \A o \in Owners \ p.changed : p.sent[o] = 0 \/ p.owners[o] = 0 \/ p.sent[o] = p.owners[o]
PublisherInv ==
    /\ P.token # 0 => \A o \in Owners : P.owners[o] # store.rows[o] => o \in W.changed \cup W.removed
    /\ P.token <= store.gen
    /\ P.token # 0 /\ P.token = store.gen => P.owners = store.rows
    /\ Kept(P)

(* The pages still to be put are consecutive and of the current generation.  *)
PagesInv ==
    /\ W.pc = "page" <=> W.pages # <<>>
    /\ ~up => W.pages = <<>>
    /\ \A i \in 1..Len(W.pages) :
          /\ W.pages[i].epoch = P.epoch /\ W.pages[i].sequence = P.sequence + i
          /\ W.pages[i].token = store.gen
          /\ W.pages[i].more <=> i < Len(W.pages)

(* A page on its way, or received, is none that is still to be numbered.     *)
Numbered(e, s) == e \in 1..epochs /\ s # 0 /\ (e = P.epoch => s <= P.sequence)
NumbersInv ==
    /\ P.epoch <= epochs
    /\ up => P.epoch # 0
    /\ \A i \in 1..Len(pipe) : pipe[i].kind = "frame" => Numbered(pipe[i].epoch, pipe[i].sequence)
    /\ box.kind = "frame" => Numbered(box.epoch, box.sequence)
    /\ R.epoch # 0 => Numbered(R.epoch, R.sequence)

(* Pages travel in the order of their generations, none behind the window.   *)
TokensInv ==
    /\ \A i, j \in 1..Len(pipe) :
          i <= j /\ pipe[i].kind = "frame" /\ pipe[j].kind = "frame"
              => pipe[i].token <= pipe[j].token
    /\ \A i \in 1..Len(pipe) :
          pipe[i].kind = "frame"
              => /\ shown.token <= pipe[i].token /\ pipe[i].token <= store.gen
                 /\ box.kind = "frame" => pipe[i].token <= box.token
    /\ box.kind = "frame" => shown.token <= box.token /\ box.token <= store.gen
    /\ shown.token <= store.gen

(* The numbering gives every page its content: what the rows are once it is  *)
(* applied.  The last page of a publication has the rows of its generation.  *)
Before(C, e, s) == IF s = 0 THEN NoRows ELSE C[e][s]
Content(C, d, f) ==
    f.kind = "frame" =>
        /\ C[f.epoch][f.sequence] = Applied(Before(C, f.epoch, f.sequence - 1), f.part)
        /\ f.reset <=> f.sequence = 1
        /\ ~f.more => f.token \in DOMAIN d /\ C[f.epoch][f.sequence] = d[f.token]
Held(r) == IF r.open THEN r.pending ELSE r.rows
ContentInv(C) ==
    /\ \A i \in 1..Len(pipe) : Content(C, store.done, pipe[i])
    /\ Content(C, store.done, box)
    /\ \A i \in 1..Len(W.pages) : Content(C, store.done, W.pages[i])
    /\ R.epoch # 0 => Held(R) = C[R.epoch][R.sequence]
    /\ W.pc = "page" \/ ~W.reset => P.sent = Before(C, P.epoch, P.sequence + Len(W.pages))
Contents == [Nat -> [Nat -> Rows]]

IInv ==
    /\ Types /\ StoreInv /\ PublisherInv /\ PagesInv /\ NumbersInv /\ TokensInv
    /\ \E C \in Contents : ContentInv(C)

-----------------------------------------------------------------------------
(* Lemmas about the pages of a publication                                  *)

(* SetToSeq lists a finite set: every item, each once. *)
LEMMA Listed ==
  ASSUME NEW S, IsFiniteSet(S)
  PROVE  /\ SetToSeq(S) \in Seq(S) /\ Len(SetToSeq(S)) = Cardinality(S)
         /\ \A x \in S : \E i \in 1..Len(SetToSeq(S)) : SetToSeq(S)[i] = x
         /\ \A i, j \in 1..Len(SetToSeq(S)) : SetToSeq(S)[i] = SetToSeq(S)[j] => i = j
<1> DEFINE n == Cardinality(S)
<1>1. n \in Nat /\ ExistsBijection(1..n, S)
  BY FS_CardinalityType
<1>2. \E f \in [1..n -> S] : IsInjective(f)
  BY <1>1 DEF ExistsBijection, Bijection, Injection
<1>3. PICK q : q = SetToSeq(S)
  OBVIOUS
<1>4. q \in [1..n -> S] /\ IsInjective(q)
  BY <1>2, <1>3 DEF SetToSeq
<1>5. q \in Injection(1..n, S)
  BY <1>4 DEF Injection
<1>6. Cardinality(1..n) = n
  BY <1>1, FS_Interval
<1>7. q \in Surjection(1..n, S)
  BY <1>1, <1>5, <1>6, FS_Injection
<1>8. q \in Seq(S) /\ Len(q) = n /\ DOMAIN q = 1..n
  BY <1>1, <1>4
<1>9. \A x \in S : \E i \in 1..n : q[i] = x
  BY <1>7 DEF Surjection
<1>10. \A i, j \in 1..n : q[i] = q[j] => i = j
  BY <1>4, <1>8 DEF IsInjective
<1> QED
  BY <1>3, <1>8, <1>9, <1>10

(* A row is the number of a generation, or 0. *)
LEMMA RowsNat == ASSUME NEW r \in Rows PROVE \A o \in Owners : r[o] \in 0..MaxGen
BY DEF Rows

(* The changes of a publication that puts the owners' rows in the place of   *)
(* what was sent: one for every row that differs.                            *)
LEMMA PartsItems ==
  ASSUME NEW p \in PublisherT, Projected(p) = p.owners
  PROVE  /\ Parts(p) \in Seq(PartT)
         /\ \A i \in 1..Len(Parts(p)) :
               LET t == Parts(p)[i]
               IN  \/ t \in PutT /\ t.row = p.owners[t.owner]
                   \/ t \in DelT /\ p.owners[t.owner] = 0
         /\ \A o \in Owners : p.owners[o] # p.sent[o]
               => \E i \in 1..Len(Parts(p)) : Parts(p)[i] \in PutT \cup DelT /\ Parts(p)[i].owner = o
<1>1. p.owners \in Rows /\ p.sent \in Rows
  BY DEF PublisherT
<1> DEFINE put == {o \in Owners : p.owners[o] \notin {0, p.sent[o]}}
<1> DEFINE del == {o \in Owners : p.sent[o] # 0 /\ p.owners[o] = 0}
<1> DEFINE X == {[op |-> "put", owner |-> o, row |-> p.owners[o]] : o \in put}
<1> DEFINE Y == {[op |-> "del", owner |-> o] : o \in del}
<1>2. Parts(p) = SetToSeq(X) \o SetToSeq(Y)
  BY DEF Parts
<1>3. IsFiniteSet(put) /\ IsFiniteSet(del)
  BY OwnersAssumption, FS_Subset
<1>4. IsFiniteSet(X)
  <2> DEFINE f == [o \in put |-> [op |-> "put", owner |-> o, row |-> p.owners[o]]]
  <2>1. f \in Surjection(put, X)
    BY DEF Surjection
  <2> QED
    BY <1>3, <2>1, FS_Surjection
<1>5. IsFiniteSet(Y)
  <2> DEFINE f == [o \in del |-> [op |-> "del", owner |-> o]]
  <2>1. f \in Surjection(del, Y)
    BY DEF Surjection
  <2> QED
    BY <1>3, <2>1, FS_Surjection
<1>6. \A t \in X : t \in PutT /\ t.row = p.owners[t.owner] /\ t.owner \in put
  BY <1>1 DEF PutT, Rows
<1>7. \A t \in Y : t \in DelT /\ p.owners[t.owner] = 0 /\ t.owner \in del
  BY DEF DelT
<1>8. ASSUME NEW o \in put PROVE \E t \in X : t.owner = o
  <2>1. [op |-> "put", owner |-> o, row |-> p.owners[o]] \in X
    OBVIOUS
  <2> QED
    BY <2>1
<1>9. ASSUME NEW o \in del PROVE \E t \in Y : t.owner = o
  <2>1. [op |-> "del", owner |-> o] \in Y
    OBVIOUS
  <2> QED
    BY <2>1
<1>10. \A o \in Owners : p.owners[o] # p.sent[o] => o \in put \/ o \in del
  BY <1>1
<1> HIDE DEF X, Y, put, del
<1>11. PICK u : u = SetToSeq(X)
  OBVIOUS
<1>12. PICK v : v = SetToSeq(Y)
  OBVIOUS
<1>13. /\ u \in Seq(X) /\ \A x \in X : \E i \in 1..Len(u) : u[i] = x
       /\ v \in Seq(Y) /\ \A x \in Y : \E i \in 1..Len(v) : v[i] = x
  BY <1>4, <1>5, <1>11, <1>12, Listed
<1>14. u \in Seq(PartT) /\ v \in Seq(PartT) /\ Len(u) \in Nat /\ Len(v) \in Nat
  BY <1>6, <1>7, <1>13 DEF PartT
<1>15. PICK w : w = u \o v
  OBVIOUS
<1>16. /\ w \in Seq(PartT) /\ Len(w) = Len(u) + Len(v)
       /\ \A i \in 1..Len(u) + Len(v) : w[i] = IF i <= Len(u) THEN u[i] ELSE v[i - Len(u)]
  BY <1>14, <1>15, ConcatProperties, Zenon
<1>17. ASSUME NEW i \in 1..Len(w) PROVE w[i] \in X \/ w[i] \in Y
  <2>1. CASE i <= Len(u)
    <3>1. i \in 1..Len(u) /\ w[i] = u[i]
      BY <2>1, <1>14, <1>16
    <3> QED
      BY <3>1, <1>13
  <2>2. CASE ~(i <= Len(u))
    <3>1. i - Len(u) \in 1..Len(v) /\ w[i] = v[i - Len(u)]
      BY <2>2, <1>14, <1>16
    <3> QED
      BY <3>1, <1>13
  <2> QED
    BY <2>1, <2>2
<1>18. ASSUME NEW x \in X \cup Y PROVE \E i \in 1..Len(w) : w[i] = x
  <2>1. CASE x \in X
    <3>1. PICK i \in 1..Len(u) : u[i] = x
      BY <2>1, <1>13
    <3>2. i \in 1..Len(w) /\ w[i] = x
      BY <3>1, <1>14, <1>16
    <3> QED
      BY <3>2
  <2>2. CASE x \in Y
    <3>1. PICK i \in 1..Len(v) : v[i] = x
      BY <2>2, <1>13
    <3>2. i + Len(u) \in 1..Len(w) /\ ~(i + Len(u) <= Len(u)) /\ (i + Len(u)) - Len(u) = i
      BY <3>1, <1>14, <1>16
    <3>3. w[i + Len(u)] = x
      BY <3>1, <3>2, <1>16
    <3> QED
      BY <3>2, <3>3
  <2> QED
    BY <2>1, <2>2
<1>19. Parts(p) = w
  BY <1>2, <1>11, <1>12, <1>15
<1>20. ASSUME NEW i \in 1..Len(w)
       PROVE  \/ w[i] \in PutT /\ w[i].row = p.owners[w[i].owner]
              \/ w[i] \in DelT /\ p.owners[w[i].owner] = 0
  BY <1>6, <1>7, <1>17
<1>21. ASSUME NEW o \in Owners, p.owners[o] # p.sent[o]
       PROVE  \E i \in 1..Len(w) : w[i] \in PutT \cup DelT /\ w[i].owner = o
  <2>1. PICK x \in X \cup Y : x.owner = o
    BY <1>8, <1>9, <1>10, <1>21
  <2>2. x \in PutT \cup DelT
    BY <1>6, <1>7
  <2> QED
    BY <2>1, <2>2, <1>18
<1> QED
  BY <1>16, <1>19, <1>20, <1>21

(* What is sent again is what changed: the rows sent are the owners' rows.   *)
LEMMA ProjectedOwners ==
  ASSUME NEW p \in PublisherT, Kept(p)
  PROVE  Projected(p) = p.owners
<1>1. p.owners \in Rows /\ p.sent \in Rows
  BY DEF PublisherT
<1>2. ASSUME NEW o \in Owners PROVE Projected(p)[o] = p.owners[o]
  BY <1>2 DEF Projected, Kept
<1>3. DOMAIN Projected(p) = Owners /\ Projected(p) = [o \in Owners |-> Projected(p)[o]]
  BY DEF Projected
<1>4. DOMAIN p.owners = Owners /\ p.owners = [o \in Owners |-> p.owners[o]]
  BY <1>1 DEF Rows
<1> QED
  BY <1>2, <1>3, <1>4

(* The pages of a publication, and the rows that each of them leaves.        *)
LEMMA PagesItems ==
  ASSUME NEW p \in PublisherT, Kept(p), MaxGen \in Nat, NEW q, q = Pages(p)
  PROVE  /\ q \in Seq(FrameT) /\ q # <<>>
         /\ \A i \in 1..Len(q) :
               /\ q[i].epoch = p.epoch /\ q[i].sequence = p.sequence + i /\ q[i].token = p.token
               /\ q[i].reset <=> p.sequence + i = 1
               /\ q[i].more <=> i < Len(q)
         /\ \E c \in [Nat -> Rows] :
               /\ c[0] = p.sent /\ c[Len(q)] = p.owners
               /\ \A i \in 1..Len(q) : c[i] = Applied(c[i - 1], q[i].part)
<1>1. /\ p.owners \in Rows /\ p.sent \in Rows /\ p.token \in Nat /\ p.epoch \in Nat
      /\ p.sequence \in Nat
  BY DEF PublisherT
<1>2. PICK u : u = Parts(p)
  OBVIOUS
<1>3. /\ u \in Seq(PartT)
      /\ \A i \in 1..Len(u) :
            \/ u[i] \in PutT /\ u[i].row = p.owners[u[i].owner]
            \/ u[i] \in DelT /\ p.owners[u[i].owner] = 0
      /\ \A o \in Owners : p.owners[o] # p.sent[o]
            => \E i \in 1..Len(u) : u[i] \in PutT \cup DelT /\ u[i].owner = o
  BY <1>2, ProjectedOwners, PartsItems
<1>4. PICK t : t = IF u = <<>> THEN <<NoPart>> ELSE u
  OBVIOUS
<1>5. t \in Seq(PartT) /\ Len(t) \in Nat /\ Len(t) # 0
  <2>1. CASE u = <<>>
    <3>1. NoPart \in PartT
      BY DEF PartT
    <3> QED
      BY <2>1, <3>1, <1>4
  <2>2. CASE u # <<>>
    BY <2>2, <1>3, <1>4
  <2> QED
    BY <2>1, <2>2
<1>6. q = [i \in 1..Len(t) |->
             [kind |-> "frame", epoch |-> p.epoch, sequence |-> p.sequence + i, token |-> p.token,
              reset |-> p.sequence + i = 1, more |-> i < Len(t), part |-> t[i]]]
  BY <1>2, <1>4, Zenon DEF Pages
<1>7. ASSUME NEW i \in 1..Len(t)
      PROVE  /\ q[i] \in FrameT
             /\ q[i].epoch = p.epoch /\ q[i].sequence = p.sequence + i /\ q[i].token = p.token
             /\ q[i].reset <=> p.sequence + i = 1
             /\ q[i].more <=> i < Len(t)
             /\ q[i].part = t[i]
  <2>1. \E r \in BOOLEAN : r = (p.sequence + i = 1)
    OBVIOUS
  <2>2. \E m \in BOOLEAN : m = (i < Len(t))
    <3>1. i \in Int /\ Len(t) \in Int
      BY <1>5
    <3>2. CASE i < Len(t)
      BY <3>1, <3>2
    <3>3. CASE ~(i < Len(t))
      <4>1. PICK n \in Int : n = Len(t)
        BY <3>1
      <4>2. FALSE = (i < n)
        BY <3>1, <3>3, <4>1
      <4> QED
        BY <4>1, <4>2, Zenon
    <3> QED
      BY <3>2, <3>3
  <2>3. PICK r \in BOOLEAN : r = (p.sequence + i = 1)
    BY <2>1
  <2>4. PICK m \in BOOLEAN : m = (i < Len(t))
    BY <2>2
  <2>5. q[i] = [kind |-> "frame", epoch |-> p.epoch, sequence |-> p.sequence + i, token |-> p.token,
                reset |-> r, more |-> m, part |-> t[i]]
    BY <1>6, <2>3, <2>4
  <2>6. (r <=> p.sequence + i = 1) /\ (m <=> i < Len(t))
    BY <2>3, <2>4
  <2> QED
    BY <2>5, <2>6, <1>1, <1>5 DEF FrameT
<1>8. q \in Seq(FrameT) /\ Len(q) = Len(t) /\ q # <<>>
  <2>1. q \in [1..Len(t) -> FrameT]
    BY <1>6, <1>7
  <2> QED
    BY <2>1, <1>5
<1>9. ASSUME NEW i \in 1..Len(q)
      PROVE  /\ q[i].epoch = p.epoch /\ q[i].sequence = p.sequence + i /\ q[i].token = p.token
             /\ q[i].reset <=> p.sequence + i = 1
             /\ q[i].more <=> i < Len(q)
             /\ q[i].part = t[i]
  BY <1>7, <1>8
<1>10. CASE u = <<>>
  <2>1. \A o \in Owners : p.owners[o] = p.sent[o]
    BY <1>3, <1>10
  <2>2. p.owners = p.sent
    BY <1>1, <2>1 DEF Rows
  <2> DEFINE c == [n \in Nat |-> p.sent]
  <2>3. Len(q) = 1 /\ t[1] = NoPart
    BY <1>4, <1>8, <1>10
  <2>4. \A i \in 1..Len(q) : c[i] = Applied(c[i - 1], q[i].part)
    BY <1>9, <2>3 DEF Applied, NoPart
  <2>5. c \in [Nat -> Rows] /\ c[0] = p.sent /\ c[Len(q)] = p.owners
    BY <1>1, <2>2, <2>3
  <2> HIDE DEF c
  <2> QED
    BY <1>8, <1>9, <2>4, <2>5
<1>11. CASE u # <<>>
  <2>1. t = u
    BY <1>4, <1>11
  <2> DEFINE Touched(n) == {o \in Owners : \E j \in 1..n : j <= Len(u) /\ u[j].owner = o}
  <2> DEFINE c == [n \in Nat |-> [o \in Owners |-> IF o \in Touched(n) THEN p.owners[o] ELSE p.sent[o]]]
  <2>2. c \in [Nat -> Rows]
    BY <1>1 DEF Rows
  <2>3. c[0] = p.sent
    <3>1. Touched(0) = {}
      OBVIOUS
    <3>2. c[0] = [o \in Owners |-> p.sent[o]]
      BY <3>1
    <3> QED
      BY <1>1, <3>2 DEF Rows
  <2>4. c[Len(q)] = p.owners
    <3>1. \A o \in Owners : o \notin Touched(Len(q)) => p.owners[o] = p.sent[o]
      BY <1>3, <1>8, <2>1
    <3>2. c[Len(q)] = [o \in Owners |-> p.owners[o]]
      BY <1>5, <1>8, <3>1
    <3> QED
      BY <1>1, <3>2 DEF Rows
  <2>5. ASSUME NEW i \in 1..Len(q) PROVE c[i] = Applied(c[i - 1], q[i].part)
    <3>1. /\ i \in Nat /\ i - 1 \in Nat /\ i \in 1..Len(u) /\ q[i].part = u[i]
      BY <1>5, <1>8, <1>9, <2>1
    <3>2. /\ u[i].owner \in Owners
          /\ Applied(c[i - 1], u[i]) = [c[i - 1] EXCEPT ![u[i].owner] = p.owners[u[i].owner]]
      <4>1. CASE u[i] \in PutT /\ u[i].row = p.owners[u[i].owner]
        <5>1. u[i].op = "put" /\ u[i].owner \in Owners
          BY <4>1 DEF PutT
        <5> QED
          BY <4>1, <5>1 DEF Applied
      <4>2. CASE u[i] \in DelT /\ p.owners[u[i].owner] = 0
        <5>1. u[i].op = "del" /\ u[i].owner \in Owners
          BY <4>2 DEF DelT
        <5> QED
          BY <4>2, <5>1 DEF Applied
      <4> QED
        BY <1>3, <3>1, <4>1, <4>2
    <3>3. Touched(i) = Touched(i - 1) \cup {u[i].owner}
      <4>1. ASSUME NEW j \in 1..i PROVE j \in 1..i - 1 \/ j = i
        BY <3>1
      <4>2. ASSUME NEW j \in 1..i - 1 PROVE j \in 1..i
        BY <3>1
      <4>3. i \in 1..i /\ i <= Len(u)
        BY <3>1, <1>3
      <4> QED
        BY <3>2, <4>1, <4>2, <4>3
    <3> HIDE DEF Touched
    <3>4. /\ c[i] = [o \in Owners |-> IF o \in Touched(i) THEN p.owners[o] ELSE p.sent[o]]
          /\ c[i - 1] = [o \in Owners |-> IF o \in Touched(i - 1) THEN p.owners[o] ELSE p.sent[o]]
      BY <3>1
    <3>5. PICK w \in Owners : w = u[i].owner
      BY <3>2
    <3>6. [c[i - 1] EXCEPT ![w] = p.owners[w]] = [o \in Owners |-> IF o = w THEN p.owners[w] ELSE c[i - 1][o]]
      BY <3>4
    <3>7. \A o \in Owners : (IF o \in Touched(i) THEN p.owners[o] ELSE p.sent[o])
                              = IF o = w THEN p.owners[w] ELSE c[i - 1][o]
      BY <3>3, <3>4, <3>5
    <3> QED
      BY <3>1, <3>2, <3>4, <3>5, <3>6, <3>7
  <2> HIDE DEF c
  <2> QED
    BY <1>8, <1>9, <2>2, <2>3, <2>4, <2>5
<1> QED
  BY <1>10, <1>11

-----------------------------------------------------------------------------
(* Lemmas about sequences                                                   *)

(* The items of a tail are those of the sequence, one place further. *)
LEMMA TailItems ==
  ASSUME NEW S, NEW s \in Seq(S), s # <<>>
  PROVE  /\ Len(s) \in Nat /\ 1 \in 1..Len(s) /\ Head(s) = s[1] /\ Head(s) \in S
         /\ Tail(s) \in Seq(S) /\ Len(Tail(s)) = Len(s) - 1
         /\ \A i \in 1..Len(Tail(s)) : i + 1 \in 1..Len(s) /\ Tail(s)[i] = s[i + 1]
OBVIOUS

(* The items of an appended sequence: the old ones, and the new one last. *)
LEMMA AppendItems ==
  ASSUME NEW S, NEW s \in Seq(S), NEW x \in S
  PROVE  /\ Len(s) \in Nat /\ Append(s, x) \in Seq(S) /\ Len(Append(s, x)) = Len(s) + 1
         /\ \A i \in 1..Len(Append(s, x)) :
               \/ i \in 1..Len(s) /\ Append(s, x)[i] = s[i]
               \/ i = Len(s) + 1 /\ Append(s, x)[i] = x
OBVIOUS

-----------------------------------------------------------------------------
(* The steps that only move the writer, or put a message that is no page    *)

(* A page keeps its content when generations are only added. *)
LEMMA ContentGrows ==
  ASSUME NEW C, NEW d, NEW e, NEW f, Content(C, d, f),
         \A h \in DOMAIN d : h \in DOMAIN e /\ e[h] = d[h]
  PROVE  Content(C, e, f)
BY DEF Content

(* The writer, dropping its pages when it resets, and the mailbox. *)
LEMMA WriterOnly ==
  ASSUME IInv, UNCHANGED <<store, P, epochs, pipe, R, shown, up>>,
         W' \in WriterT, wanted' \in BOOLEAN,
         box' = box \/ box' \in ErrorT \cup {Nothing, Progress},
         W'.changed = W.changed, W'.removed = W.removed, W.reset => W'.reset,
         W'.pages = W.pages \/ (W'.pages = <<>> /\ W'.reset),
         W'.pc = "page" <=> W'.pages # <<>>
  PROVE  IInv'
<1>1. Types'
  BY DEF IInv, Types, PutT
<1>2. StoreInv' /\ PublisherInv'
  BY DEF IInv, StoreInv, PublisherInv, Kept
<1>3. box' = box \/ box'.kind # "frame"
  BY DEF ErrorT, Nothing, Progress
<1>4. PagesInv'
  BY DEF IInv, PagesInv
<1>5. NumbersInv' /\ TokensInv'
  BY <1>3 DEF IInv, NumbersInv, Numbered, TokensInv
<1>6. PICK C \in Contents : ContentInv(C)
  BY DEF IInv
<1>7. ContentInv(C)'
  <2>1. Content(C, store'.done, box')
    BY <1>3, <1>6 DEF ContentInv, Content
  <2>2. \A i \in 1..Len(W'.pages) : Content(C, store'.done, W'.pages[i])
    BY <1>6 DEF ContentInv
  <2>3. W'.pc = "page" \/ ~W'.reset => W'.pages = W.pages /\ (W.pc = "page" \/ ~W.reset)
    BY DEF IInv, PagesInv
  <2> QED
    BY <1>6, <2>1, <2>2, <2>3 DEF ContentInv, Held
<1> QED
  BY <1>1, <1>2, <1>4, <1>5, <1>6, <1>7 DEF IInv

(* A writer that fails drops its pages and resets. *)
LEMMA FailedWriter ==
  ASSUME NEW w \in WriterT
  PROVE  /\ Fails(w) \in WriterT /\ Fails(w).changed = w.changed /\ Fails(w).removed = w.removed
         /\ Fails(w).reset /\ Fails(w).pages = <<>> /\ Fails(w).pc = "failed"
<1>1. Fails(w) = [w EXCEPT !.pc = "failed", !.reset = TRUE, !.again = FALSE, !.pages = <<>>]
  BY DEF Fails
<1>2. <<>> \in Seq(FrameT)
  OBVIOUS
<1> QED
  BY <1>1, <1>2 DEF WriterT

(* A page over its budget: the writer drops the pages that are left. *)
LEMMA PageFailsStep == ASSUME IInv, PageFails PROVE IInv'
<1>1. W \in WriterT /\ wanted \in BOOLEAN
  BY DEF IInv, Types
<1>2. W' = Fails(W) /\ UNCHANGED <<store, P, epochs, pipe, R, shown, up>> /\ wanted' = wanted /\ box' = box
  BY DEF PageFails
<1> QED
  BY <1>1, <1>2, FailedWriter, WriterOnly

(* The failure enters the mailbox; it is no page. *)
LEMMA PutErrorStep == ASSUME IInv, PutError PROVE IInv'
<1>1. W \in WriterT /\ wanted \in BOOLEAN /\ W.pages = <<>>
  BY DEF IInv, Types, PutError, PagesInv
<1>2. W' = [W EXCEPT !.pc = "top", !.blocked = store.gen] /\ box' = [kind |-> "error", token |-> store.gen]
      /\ UNCHANGED <<store, P, epochs, pipe, R, shown, up>> /\ wanted' = wanted
  BY DEF PutError
<1>3. store.gen \in Nat
  BY BoundsAssumption DEF IInv, Types
<1>4. W' \in WriterT /\ W'.pages = <<>> /\ W'.pc = "top" /\ W'.changed = W.changed
      /\ W'.removed = W.removed /\ W'.reset = W.reset
  BY <1>1, <1>2, <1>3 DEF WriterT
<1>5. box' \in ErrorT
  BY <1>2, <1>3 DEF ErrorT
<1> QED
  BY <1>1, <1>2, <1>4, <1>5, WriterOnly

(* A sync command makes the writer reset. *)
LEMMA TakeSyncStep == ASSUME IInv, TakeSync PROVE IInv'
<1>1. W \in WriterT /\ wanted \in BOOLEAN /\ W.pages = <<>>
  BY DEF IInv, Types, TakeSync, PagesInv
<1>2. W' = [W EXCEPT !.sync = FALSE, !.blocked = 0, !.reset = TRUE, !.pc = "publish"]
      /\ UNCHANGED <<store, P, epochs, box, pipe, R, shown, up>> /\ wanted' = wanted
  BY DEF TakeSync
<1>3. W' \in WriterT /\ W'.pages = <<>> /\ W'.pc = "publish" /\ W'.changed = W.changed
      /\ W'.removed = W.removed /\ W'.reset
  BY <1>1, <1>2 DEF WriterT
<1> QED
  BY <1>1, <1>2, <1>3, WriterOnly

(* Progress enters an empty mailbox; it is no page. *)
LEMMA OfferProgressStep == ASSUME IInv, OfferProgress PROVE IInv'
<1>1. /\ UNCHANGED <<store, W, P, epochs, pipe, R, wanted, shown, up>> /\ box' = Progress
  BY DEF OfferProgress
<1>2. W \in WriterT /\ wanted \in BOOLEAN /\ (W.pc = "page" <=> W.pages # <<>>)
  BY DEF IInv, Types, PagesInv
<1> QED
  BY <1>1, <1>2, WriterOnly

(* The user asks for the snapshot again: only the bridge notices. *)
LEMMA AskAgainStep == ASSUME IInv, AskAgain PROVE IInv'
<1>1. /\ UNCHANGED <<store, W, P, epochs, box, pipe, R, shown, up>> /\ wanted' = TRUE
  BY DEF AskAgain
<1>2. W \in WriterT /\ (W.pc = "page" <=> W.pages # <<>>)
  BY DEF IInv, Types, PagesInv
<1> QED
  BY <1>1, <1>2, WriterOnly

(* The sync command reaches the writer, which has not looked at it yet. *)
LEMMA SendSyncStep == ASSUME IInv, SendSync PROVE IInv'
<1>1. /\ UNCHANGED <<store, P, epochs, box, pipe, R, shown, up>> /\ wanted' = FALSE
      /\ W' = [W EXCEPT !.sync = TRUE]
  BY DEF SendSync
<1>2. W \in WriterT /\ (W.pc = "page" <=> W.pages # <<>>)
  BY DEF IInv, Types, PagesInv
<1>3. W' \in WriterT /\ W'.pages = W.pages /\ W'.pc = W.pc /\ W'.changed = W.changed
      /\ W'.removed = W.removed /\ W'.reset = W.reset
  BY <1>1, <1>2 DEF WriterT
<1> QED
  BY <1>1, <1>2, <1>3, WriterOnly

-----------------------------------------------------------------------------
(* The child's end and its successor *)

(* New writers, publishers and receivers have their types. *)
LEMMA NewTypes ==
  /\ NoRows \in Rows
  /\ NewWriter \in WriterT
  /\ \A e \in Nat : NewPublisher(e) \in PublisherT
  /\ NewReceiver \in ReceiverT
<1>1. NoRows \in Rows
  BY BoundsAssumption DEF NoRows, Rows
<1> QED
  BY <1>1 DEF NewWriter, WriterT, NewPublisher, PublisherT, NewReceiver, ReceiverT

(* A publisher that has sent nothing fits every numbering. *)
LEMMA NewPublisherFits ==
  ASSUME NEW e \in Nat
  PROVE  /\ NewPublisher(e).token = 0 /\ NewPublisher(e).epoch = e /\ NewPublisher(e).sequence = 0
         /\ Kept(NewPublisher(e)) /\ NewPublisher(e).sent = NoRows
BY DEF NewPublisher, Kept, NoRows

(* The child dies: its mailbox is lost, the pipe is not. *)
LEMMA DieStep == ASSUME IInv, Die PROVE IInv'
<1>1. /\ up' = FALSE /\ W' = NewWriter /\ P' = NewPublisher(0) /\ box' = Nothing
      /\ UNCHANGED <<store, epochs, pipe, R, wanted, shown>>
  BY DEF Die
<1>2. /\ P'.token = 0 /\ P'.epoch = 0 /\ P'.sequence = 0 /\ Kept(P') /\ P'.sent = NoRows
  BY <1>1, NewPublisherFits, Zenon
<1>3. W'.pages = <<>> /\ W'.pc = "top" /\ W'.removed = {} /\ W'.changed = {}
  BY <1>1 DEF NewWriter
<1>4. box'.kind # "frame"
  BY <1>1 DEF Nothing
<1>5. Types'
  BY <1>1, NewTypes, Zenon DEF IInv, Types
<1>6. StoreInv' /\ PublisherInv'
  BY <1>1, <1>2, <1>3 DEF IInv, StoreInv, PublisherInv, Types
<1>7. PagesInv'
  BY <1>3 DEF PagesInv
<1>8. \A m, s : Numbered(m, s) => Numbered(m, s)'
  BY <1>1, <1>2 DEF Numbered
<1>9. NumbersInv' /\ TokensInv'
  BY <1>1, <1>2, <1>4, <1>8 DEF IInv, NumbersInv, TokensInv, Types
<1>10. PICK C \in Contents : ContentInv(C)
  BY DEF IInv
<1>11. ContentInv(C)'
  BY <1>1, <1>2, <1>3, <1>4, <1>10 DEF ContentInv, Content, Held, Before
<1> QED
  BY <1>5, <1>6, <1>7, <1>9, <1>10, <1>11 DEF IInv

(* The next child: an epoch of its own, a new connection and receiver. *)
LEMMA RestartStep == ASSUME IInv, Restart PROVE IInv'
<1>1. /\ up' = TRUE /\ pipe' = <<>> /\ R' = NewReceiver /\ epochs' = epochs + 1
      /\ P' = NewPublisher(epochs + 1) /\ UNCHANGED <<store, W, box, wanted, shown>>
  BY DEF Restart
<1>2. epochs \in Nat /\ epochs + 1 \in Nat /\ epochs' \in Nat
  BY <1>1 DEF IInv, Types
<1>3. /\ P'.token = 0 /\ P'.epoch = epochs + 1 /\ P'.sequence = 0 /\ Kept(P') /\ P'.sent = NoRows
  BY <1>1, <1>2, NewPublisherFits, Zenon
<1>4. R'.epoch = 0 /\ Len(pipe') = 0
  BY <1>1 DEF NewReceiver
<1>5. Types'
  BY <1>1, <1>2, NewTypes DEF IInv, Types
<1>6. StoreInv' /\ PublisherInv'
  BY <1>1, <1>3 DEF IInv, StoreInv, PublisherInv, Types
<1>7. W.pages = <<>> /\ W.pc # "page"
  BY DEF IInv, PagesInv, Restart
<1>8. PagesInv'
  BY <1>1, <1>7 DEF PagesInv
<1>9. \A m, s : m \in 1..epochs /\ s # 0 => Numbered(m, s)'
  BY <1>1, <1>2, <1>3 DEF Numbered
<1>10. box.kind = "frame" => box.epoch \in 1..epochs /\ box.sequence # 0
  BY DEF IInv, NumbersInv, Numbered
<1>11. NumbersInv' /\ TokensInv'
  BY <1>1, <1>2, <1>3, <1>4, <1>9, <1>10 DEF IInv, NumbersInv, TokensInv
<1>12. PICK C \in Contents : ContentInv(C)
  BY DEF IInv
<1>13. ContentInv(C)'
  BY <1>1, <1>3, <1>4, <1>7, <1>12 DEF ContentInv, Content, Before
<1> QED
  BY <1>5, <1>6, <1>8, <1>11, <1>12, <1>13 DEF IInv

-----------------------------------------------------------------------------
(* The mailbox and the pipe *)

(* The dispatcher moves the message in the mailbox to the end of the pipe. *)
LEMMA ForwardStep == ASSUME IInv, Forward PROVE IInv'
<1>1. /\ box.kind # "none" /\ box' = Nothing
      /\ pipe' = IF box.kind = "progress" THEN pipe ELSE Append(pipe, box)
      /\ UNCHANGED <<store, W, P, epochs, R, wanted, shown, up>>
  BY DEF Forward
<1>2. box'.kind # "frame"
  BY <1>1 DEF Nothing
<1>3. PICK C \in Contents : ContentInv(C)
  BY DEF IInv
<1>4. StoreInv' /\ PublisherInv' /\ PagesInv'
  BY <1>1 DEF IInv, StoreInv, PublisherInv, Kept, PagesInv
<1>5. CASE box.kind = "progress"
  <2>1. pipe' = pipe
    BY <1>1, <1>5
  <2>2. Types' /\ NumbersInv' /\ TokensInv'
    BY <1>1, <1>2, <2>1 DEF IInv, Types, NumbersInv, Numbered, TokensInv
  <2>3. ContentInv(C)'
    BY <1>1, <1>2, <1>3, <2>1 DEF ContentInv, Content, Held
  <2> QED
    BY <1>3, <1>4, <2>2, <2>3 DEF IInv
<1>6. CASE box.kind # "progress"
  <2>1. pipe' = Append(pipe, box)
    BY <1>1, <1>6
  <2>2. box \in FrameT \cup ErrorT /\ pipe \in Seq(FrameT \cup ErrorT)
    BY <1>1, <1>6 DEF IInv, Types, Nothing, Progress
  <2>3. PICK q : q = pipe'
    OBVIOUS
  <2>4. /\ Len(pipe) \in Nat /\ q \in Seq(FrameT \cup ErrorT) /\ Len(q) = Len(pipe) + 1
        /\ \A i \in 1..Len(q) : \/ i \in 1..Len(pipe) /\ q[i] = pipe[i]
                                \/ i = Len(pipe) + 1 /\ q[i] = box
    BY <2>1, <2>2, <2>3, AppendItems
  <2>5. Types'
    BY <1>1, <2>3, <2>4 DEF IInv, Types
  <2>6. NumbersInv'
    BY <1>1, <1>2, <2>3, <2>4 DEF IInv, NumbersInv, Numbered
  <2>7. \A i \in 1..Len(pipe) : pipe[i].kind = "frame" /\ box.kind = "frame" => pipe[i].token <= box.token
    BY DEF IInv, TokensInv
  <2>8. ASSUME NEW i \in 1..Len(q), NEW j \in 1..Len(q), i <= j,
               q[i].kind = "frame", q[j].kind = "frame"
        PROVE  q[i].token <= q[j].token
    <3>1. CASE j \in 1..Len(pipe) /\ q[j] = pipe[j]
      <4>1. i \in 1..Len(pipe) /\ q[i] = pipe[i]
        BY <2>4, <2>8, <3>1
      <4> QED
        BY <2>8, <3>1, <4>1 DEF IInv, TokensInv
    <3>2. CASE q[j] = box /\ i \in 1..Len(pipe) /\ q[i] = pipe[i]
      BY <2>7, <2>8, <3>2
    <3>3. CASE q[j] = box /\ q[i] = box
      <4>1. box.token \in Nat
        BY <2>2 DEF FrameT, ErrorT
      <4> QED
        BY <3>3, <4>1
    <3> QED
      BY <2>4, <2>8, <3>1, <3>2, <3>3
  <2>9. \A i \in 1..Len(q) : q[i].kind = "frame" => shown.token <= q[i].token /\ q[i].token <= store.gen
    BY <2>4 DEF IInv, TokensInv
  <2>10. TokensInv'
    <3>1. shown.token <= store.gen
      BY DEF IInv, TokensInv
    <3> QED
      BY <1>1, <1>2, <2>3, <2>8, <2>9, <3>1 DEF TokensInv
  <2>11. ContentInv(C)'
    <3>1. \A i \in 1..Len(q) : Content(C, store.done, q[i])
      BY <1>3, <2>4 DEF ContentInv
    <3>2. Content(C, store.done, box')
      BY <1>2 DEF Content
    <3> QED
      BY <1>1, <1>3, <2>3, <3>1, <3>2 DEF ContentInv, Held
  <2> QED
    BY <1>3, <1>4, <2>5, <2>6, <2>10, <2>11 DEF IInv
<1> QED
  BY <1>5, <1>6

(* The next page enters the mailbox.  The last one leaves the writer with a  *)
(* publisher whose rows are the content of what it sent.                     *)
LEMMA PutPageStep == ASSUME IInv, PutPage PROVE IInv'
<1>1. /\ up /\ W.pc = "page" /\ box' = Head(W.pages)
      /\ P' = [P EXCEPT !.sequence = Head(W.pages).sequence]
      /\ W' = IF Len(W.pages) > 1 THEN [W EXCEPT !.pages = Tail(@)]
              ELSE Return([W EXCEPT !.pages = <<>>, !.reset = FALSE])
      /\ UNCHANGED <<store, epochs, pipe, R, wanted, shown, up>>
  BY DEF PutPage
<1>2. W \in WriterT /\ W.pages \in Seq(FrameT) /\ W.pages # <<>> /\ P \in PublisherT
  BY <1>1 DEF IInv, Types, PagesInv, WriterT
<1>3. PICK q \in Seq(FrameT) : q = W.pages
  BY <1>2
<1>4. PICK r : r = Tail(q)
  OBVIOUS
<1>5. /\ Len(q) \in Nat /\ 1 \in 1..Len(q) /\ Head(q) = q[1] /\ q[1] \in FrameT
      /\ r \in Seq(FrameT) /\ Len(r) = Len(q) - 1
      /\ \A i \in 1..Len(r) : i + 1 \in 1..Len(q) /\ r[i] = q[i + 1]
  BY <1>2, <1>3, <1>4, TailItems
<1>6. \A i \in 1..Len(q) : /\ q[i].epoch = P.epoch /\ q[i].sequence = P.sequence + i
                           /\ q[i].token = store.gen /\ (q[i].more <=> i < Len(q))
  BY <1>3 DEF IInv, PagesInv
<1>7. P.sequence \in Nat /\ P.epoch \in Nat
  BY <1>2 DEF PublisherT
<1>8. /\ P' \in PublisherT /\ P'.sequence = P.sequence + 1 /\ P'.epoch = P.epoch /\ P'.sent = P.sent
      /\ P'.owners = P.owners /\ P'.changed = P.changed /\ P'.token = P.token
  BY <1>1, <1>2, <1>3, <1>5, <1>6, <1>7 DEF PublisherT
<1>9. /\ W' \in WriterT /\ W'.pages = r /\ W'.changed = W.changed /\ W'.removed = W.removed
      /\ W'.pc = "page" <=> r # <<>>
      /\ W'.pc # "page" => ~W'.reset
      /\ W'.pc = "page" => W'.reset = W.reset
  <2>1. CASE Len(q) > 1
    <3>1. W' = [W EXCEPT !.pages = r]
      BY <1>1, <1>3, <1>4, <2>1
    <3>2. r # <<>>
      BY <1>5, <2>1
    <3> QED
      BY <1>1, <1>2, <1>5, <3>1, <3>2 DEF WriterT
  <2>2. CASE ~(Len(q) > 1)
    <3>1. W' = Return([W EXCEPT !.pages = <<>>, !.reset = FALSE])
      BY <1>1, <1>3, <2>2
    <3>2. r = <<>>
      BY <1>5, <2>2
    <3>3. PICK n \in {"publish", "top"} : n = IF W.again THEN "publish" ELSE "top"
      OBVIOUS
    <3>4. W' = [W EXCEPT !.pages = <<>>, !.reset = FALSE, !.pc = n, !.again = FALSE]
      BY <1>2, <3>1, <3>3 DEF Return, WriterT
    <3>5. <<>> \in Seq(FrameT)
      OBVIOUS
    <3> QED
      BY <1>2, <3>2, <3>4, <3>5 DEF WriterT
  <2> QED
    BY <2>1, <2>2
<1>10. PICK f \in FrameT : f = q[1]
  BY <1>5
<1>11. box' = f /\ f.kind = "frame" /\ f.epoch = P.epoch /\ f.sequence = P.sequence + 1
       /\ f.token = store.gen
  BY <1>1, <1>3, <1>5, <1>6, <1>10 DEF FrameT
<1>12. Types'
  BY <1>1, <1>8, <1>9, <1>11 DEF IInv, Types
<1>13. StoreInv' /\ PublisherInv'
  BY <1>1, <1>8, <1>9 DEF IInv, StoreInv, PublisherInv, Kept
<1>14. PagesInv'
  <2>1. ASSUME NEW i \in 1..Len(r)
        PROVE  /\ r[i].epoch = P'.epoch /\ r[i].sequence = P'.sequence + i
               /\ r[i].token = store.gen /\ (r[i].more <=> i < Len(r))
    <3>1. PICK j \in 1..Len(q) : j = i + 1 /\ r[i] = q[j]
      BY <1>5
    <3>2. i \in Nat /\ Len(r) \in Nat /\ (j < Len(q) <=> i < Len(r))
      BY <1>5, <3>1
    <3>3. r[i].more <=> i < Len(r)
      BY <1>6, <3>1, <3>2
    <3>4. r[i].epoch = P.epoch /\ r[i].sequence = P.sequence + j /\ r[i].token = store.gen
      BY <1>6, <3>1
    <3>5. P'.epoch = P.epoch /\ P.sequence + j = P'.sequence + i
      BY <1>7, <1>8, <3>1, <3>2
    <3> QED
      BY <3>3, <3>4, <3>5
  <2> QED
    BY <1>1, <1>9, <2>1 DEF PagesInv
<1>15. NumbersInv'
  <2>1. \A m, s : Numbered(m, s) /\ s \in Nat => Numbered(m, s)'
    BY <1>1, <1>7, <1>8 DEF Numbered
  <2>2. Numbered(f.epoch, f.sequence)'
    BY <1>1, <1>7, <1>8, <1>11 DEF Numbered, IInv, NumbersInv, Types
  <2>3. \A i \in 1..Len(pipe) : pipe[i].kind = "frame" => pipe[i].sequence \in Nat
    <3>1. \A i \in 1..Len(pipe) : pipe[i] \in FrameT \cup ErrorT
      BY DEF IInv, Types
    <3> QED
      BY <3>1 DEF FrameT, ErrorT
  <2>4. R.sequence \in Nat
    BY DEF IInv, Types, ReceiverT
  <2> QED
    BY <1>1, <1>8, <1>11, <2>1, <2>2, <2>3, <2>4 DEF IInv, NumbersInv
<1>16. TokensInv'
  <2>1. store.gen <= store.gen
    BY DEF IInv, Types
  <2> QED
    BY <1>1, <1>11, <2>1 DEF IInv, TokensInv
<1>17. PICK C \in Contents : ContentInv(C)
  BY DEF IInv
<1>18. ContentInv(C)'
  <2>1. Content(C, store.done, f) /\ \A i \in 1..Len(r) : Content(C, store.done, r[i])
    BY <1>3, <1>5, <1>10, <1>17 DEF ContentInv
  <2>2. P.sent = Before(C, P.epoch, P.sequence + Len(q))
    BY <1>1, <1>3, <1>17 DEF ContentInv
  <2>3. P'.sequence + Len(r) = P.sequence + Len(q)
    BY <1>5, <1>7, <1>8
  <2> QED
    BY <1>1, <1>8, <1>9, <1>11, <1>17, <2>1, <2>2, <2>3 DEF ContentInv, Held
<1> QED
  BY <1>12, <1>13, <1>14, <1>15, <1>16, <1>17, <1>18 DEF IInv

-----------------------------------------------------------------------------
(* The writer's conversions, adoptions and publications *)

(* What a batch leaves in the store. *)
Batch(changed, removed, ready) ==
    /\ store'.gen = store.gen + 1 /\ store.gen + 1 \in 0..MaxGen /\ store.gen \in Nat
    /\ store'.ready = ready /\ store'.rows \in Rows
    /\ \A o \in Owners : store'.rows[o] = IF o \in changed THEN store.gen + 1
                                          ELSE IF o \in removed THEN 0 ELSE store.rows[o]
    /\ \A h \in DOMAIN store.done : h \in 1..store.gen /\ store.done[h] \in Rows
                                    /\ h \in DOMAIN store'.done /\ store'.done[h] = store.done[h]
    /\ ready => /\ store.gen + 1 \notin DOMAIN store.done
                /\ store'.done = [h \in DOMAIN store.done \cup {store.gen + 1} |->
                                     IF h = store.gen + 1 THEN store'.rows ELSE store.done[h]]
    /\ ~ready => store'.done = store.done

(* A batch moves the store to the next generation, the earlier ones kept. *)
LEMMA Converted ==
  ASSUME IInv, NEW changed \in SUBSET Owners, NEW removed \in SUBSET Owners, NEW ready \in BOOLEAN,
         Convert(changed, removed, ready)
  PROVE  Batch(changed, removed, ready)
<1>1. PICK g : g = store.gen + 1
  OBVIOUS
<1>2. store.gen \in Nat /\ g \in 0..MaxGen /\ MaxGen \in Nat /\ g \in Nat /\ store.rows \in Rows
  BY <1>1, BoundsAssumption DEF IInv, Types, Convert
<1>3. PICK rows : rows = [o \in Owners |-> IF o \in changed THEN g
                                           ELSE IF o \in removed THEN 0 ELSE store.rows[o]]
  OBVIOUS
<1>4. rows \in Rows
  BY <1>2, <1>3 DEF Rows
<1>5. PICK d : d = IF ready THEN [h \in DOMAIN store.done \cup {g} |->
                                     IF h = g THEN rows ELSE store.done[h]] ELSE store.done
  OBVIOUS
<1>6. store' = [gen |-> g, ready |-> ready, rows |-> rows, done |-> d]
  BY <1>1, <1>3, <1>5, Zenon DEF Convert
<1>7. store'.gen = g /\ store'.ready = ready /\ store'.rows = rows /\ store'.done = d
  BY <1>6
<1>8. \A h \in DOMAIN store.done : h \in 1..store.gen /\ store.done[h] \in Rows
  BY DEF IInv, Types
<1>9. \A h \in DOMAIN store.done : h # g
  BY <1>1, <1>2, <1>8
<1>10. \A h \in DOMAIN store.done : h \in DOMAIN d /\ d[h] = store.done[h]
  BY <1>5, <1>9
<1> QED
  BY <1>1, <1>2, <1>3, <1>4, <1>5, <1>7, <1>8, <1>9, <1>10 DEF Batch

(* A batch of a conversion. *)
LEMMA ConvertStep ==
  ASSUME IInv, NEW changed \in SUBSET Owners, NEW removed \in SUBSET Owners, NEW ready \in BOOLEAN,
         Convert(changed, removed, ready)
  PROVE  IInv'
<1>0. Batch(changed, removed, ready)
  BY Converted
<1>1. /\ W.pc = "top" /\ changed \cap removed = {}
      /\ W' = [W EXCEPT !.changed = (@ \cup changed) \ removed,
                        !.removed = (@ \ changed) \cup removed,
                        !.pc = IF ready THEN "install" ELSE "top"]
      /\ UNCHANGED <<P, epochs, box, pipe, R, wanted, shown, up>>
  BY DEF Convert
<1>2. W \in WriterT /\ P \in PublisherT /\ R \in ReceiverT /\ W.pages = <<>>
  BY <1>1 DEF IInv, Types, PagesInv
<1>3. PICK n \in {"install", "top"} : n = IF ready THEN "install" ELSE "top"
  OBVIOUS
<1>4. /\ W' \in WriterT /\ W'.pc # "page" /\ W'.pages = <<>> /\ W'.reset = W.reset
      /\ W'.changed = (W.changed \cup changed) \ removed
      /\ W'.removed = (W.removed \ changed) \cup removed
  <2>1. W' = [W EXCEPT !.changed = (W.changed \cup changed) \ removed,
                       !.removed = (W.removed \ changed) \cup removed, !.pc = n]
    BY <1>1, <1>2, <1>3
  <2>2. W.changed \in SUBSET Owners /\ W.removed \in SUBSET Owners
    BY <1>2 DEF WriterT
  <2> QED
    BY <1>2, <2>1, <2>2 DEF WriterT
<1>5. PICK g \in Nat : g = store.gen /\ store'.gen = g + 1 /\ g + 1 \in 0..MaxGen
  BY <1>0 DEF Batch
<1>6. \A o \in Owners : store'.rows[o] = IF o \in changed THEN g + 1
                                         ELSE IF o \in removed THEN 0 ELSE store.rows[o]
  BY <1>0, <1>5 DEF Batch
<1>7. \A h \in DOMAIN store.done : h \in DOMAIN store'.done /\ store'.done[h] = store.done[h]
  BY <1>0 DEF Batch
<1>8. \A h \in DOMAIN store'.done : h \in 1..store'.gen /\ store'.done[h] \in Rows
  <2>1. CASE ready
    <3>1. ASSUME NEW h \in DOMAIN store'.done
          PROVE  \/ h = g + 1 /\ store'.done[h] = store'.rows
                 \/ h \in DOMAIN store.done /\ store'.done[h] = store.done[h]
      BY <1>0, <1>5, <2>1 DEF Batch
    <3>2. store'.rows \in Rows /\ \A h \in DOMAIN store.done : h \in 1..g /\ store.done[h] \in Rows
      BY <1>0, <1>5 DEF Batch
    <3> QED
      BY <1>5, <3>1, <3>2
  <2>2. CASE ~ready
    <3>1. store'.done = store.done /\ \A h \in DOMAIN store.done : h \in 1..g /\ store.done[h] \in Rows
      BY <1>0, <1>5, <2>2 DEF Batch
    <3> QED
      BY <1>5, <3>1
  <2> QED
    BY <2>1, <2>2
<1>9. Types'
  <2>1. store'.ready \in BOOLEAN /\ store'.rows \in Rows
    BY <1>0 DEF Batch
  <2> QED
    BY <1>1, <1>2, <1>4, <1>5, <1>8, <2>1 DEF IInv, Types
<1>10. StoreInv'
  <2>1. store'.ready => store'.gen \in DOMAIN store'.done /\ store'.done[store'.gen] = store'.rows
    BY <1>0, <1>5 DEF Batch
  <2>2. \A o \in W.removed : store.rows[o] = 0
    BY DEF IInv, StoreInv
  <2>3. \A o \in W'.removed : store'.rows[o] = 0
    BY <1>1, <1>2, <1>4, <1>6, <2>2 DEF WriterT
  <2> QED
    BY <2>1, <2>3 DEF StoreInv
<1>11. PublisherInv'
  <2>1. P.token \in Nat /\ P.token <= g
    BY <1>2, <1>5 DEF PublisherT, IInv, PublisherInv
  <2>2. ASSUME P.token # 0, NEW o \in Owners, P.owners[o] # store'.rows[o]
        PROVE  o \in W'.changed \cup W'.removed
    <3>1. P.owners[o] # store.rows[o] => o \in W.changed \cup W.removed
      BY <2>2 DEF IInv, PublisherInv
    <3> QED
      BY <1>1, <1>4, <1>6, <2>2, <3>1
  <2> QED
    BY <1>1, <1>5, <2>1, <2>2 DEF IInv, PublisherInv, Kept
<1>12. PagesInv' /\ NumbersInv'
  BY <1>1, <1>4 DEF IInv, PagesInv, NumbersInv, Numbered
<1>13. TokensInv'
  <2>1. \A i \in 1..Len(pipe) : pipe[i].kind = "frame" => pipe[i].token \in Nat
    <3>1. \A i \in 1..Len(pipe) : pipe[i] \in FrameT \cup ErrorT
      BY DEF IInv, Types
    <3> QED
      BY <3>1 DEF FrameT, ErrorT
  <2>2. box.kind = "frame" => box.token \in Nat
    BY DEF IInv, Types, FrameT, ErrorT, Nothing, Progress
  <2>3. shown.token \in Nat
    BY DEF IInv, Types
  <2> QED
    BY <1>1, <1>5, <2>1, <2>2, <2>3 DEF IInv, TokensInv
<1>14. PICK C \in Contents : ContentInv(C)
  BY DEF IInv
<1>15. ContentInv(C)'
  <2>1. \A i \in 1..Len(pipe) : Content(C, store'.done, pipe[i])
    BY <1>7, <1>14, ContentGrows DEF ContentInv
  <2>2. Content(C, store'.done, box)
    BY <1>7, <1>14, ContentGrows DEF ContentInv
  <2> QED
    BY <1>1, <1>2, <1>4, <1>14, <2>1, <2>2 DEF ContentInv, Held
<1> QED
  BY <1>9, <1>10, <1>11, <1>12, <1>13, <1>14, <1>15 DEF IInv

(* Adopting a generation gives the publisher the store's rows: those that    *)
(* were not reported changed are the ones it has.                            *)
LEMMA Adopted ==
  ASSUME IInv, NEW p, p = Adopt(P, W.changed, W.removed)
  PROVE  /\ p \in PublisherT /\ p.token = store.gen /\ p.owners = store.rows /\ p.sent = P.sent
         /\ p.epoch = P.epoch /\ p.sequence = P.sequence /\ Kept(p)
<1>1. /\ P \in PublisherT /\ P.owners \in Rows /\ P.sent \in Rows /\ P.changed \in SUBSET Owners
      /\ store.rows \in Rows /\ store.gen \in Nat
      /\ W.changed \in SUBSET Owners /\ W.removed \in SUBSET Owners
  BY BoundsAssumption DEF IInv, Types, PublisherT, WriterT
<1>2. Kept(P)
  BY DEF IInv, PublisherInv
<1>3. CASE P.token # 0 /\ W.changed = {} /\ W.removed = {}
  <2>1. p = [P EXCEPT !.token = store.gen]
    BY <1>3 DEF Adopt
  <2>2. \A o \in Owners : P.owners[o] = store.rows[o]
    BY <1>3 DEF IInv, PublisherInv
  <2>3. P.owners = store.rows
    BY <1>1, <2>2 DEF Rows
  <2>4. /\ p \in PublisherT /\ p.token = store.gen /\ p.owners = P.owners /\ p.sent = P.sent
        /\ p.epoch = P.epoch /\ p.sequence = P.sequence /\ p.changed = P.changed
    BY <1>1, <2>1 DEF PublisherT
  <2> QED
    BY <1>2, <2>3, <2>4 DEF Kept
<1>4. CASE ~(P.token # 0 /\ W.changed = {} /\ W.removed = {})
  <2> DEFINE X == (P.changed \ W.removed) \cup W.changed
                  \cup {o \in Owners : store.rows[o] \notin {0, P.owners[o]}}
  <2>1. p = [P EXCEPT !.token = store.gen, !.owners = store.rows, !.changed = X]
    BY <1>1, <1>4 DEF Adopt, PublisherT
  <2>2. X \in SUBSET Owners
    BY <1>1
  <2>3. \A o \in Owners \ X : /\ store.rows[o] \in {0, P.owners[o]}
                              /\ o \notin P.changed \/ o \in W.removed
    OBVIOUS
  <2> HIDE DEF X
  <2>4. /\ p \in PublisherT /\ p.token = store.gen /\ p.owners = store.rows /\ p.sent = P.sent
        /\ p.epoch = P.epoch /\ p.sequence = P.sequence /\ p.changed = X
    BY <1>1, <2>1, <2>2 DEF PublisherT
  <2>5. \A o \in W.removed : store.rows[o] = 0
    BY DEF IInv, StoreInv
  <2>6. Kept(p)
    BY <1>2, <2>3, <2>4, <2>5 DEF Kept
  <2> QED
    BY <2>4, <2>6
<1> QED
  BY <1>3, <1>4

(* The committed generation is adopted, or adopting it fails. *)
LEMMA InstallStep == ASSUME IInv, Install PROVE IInv'
<1>1. UNCHANGED <<store, epochs, box, pipe, R, wanted, shown, up>> /\ W.pc # "page"
  BY DEF Install
<1>2. W \in WriterT /\ wanted \in BOOLEAN /\ W.pages = <<>>
  BY <1>1 DEF IInv, Types, PagesInv
<1>3. CASE W' = Fails(W) /\ UNCHANGED P
  BY <1>1, <1>2, <1>3, FailedWriter, WriterOnly
<1>4. CASE /\ P' = Adopt(P, W.changed, W.removed)
           /\ W' = [W EXCEPT !.pc = "publish", !.again = TRUE, !.changed = {}, !.removed = {}]
  <2>1. /\ P' \in PublisherT /\ P'.token = store.gen /\ P'.owners = store.rows /\ P'.sent = P.sent
        /\ P'.epoch = P.epoch /\ P'.sequence = P.sequence /\ Kept(P')
    BY <1>4, Adopted
  <2>2. /\ W' \in WriterT /\ W'.pc = "publish" /\ W'.pages = <<>> /\ W'.reset = W.reset
        /\ W'.changed = {} /\ W'.removed = {}
    BY <1>2, <1>4 DEF WriterT
  <2>3. Types'
    BY <1>1, <2>1, <2>2 DEF IInv, Types
  <2>4. StoreInv'
    BY <1>1, <2>2 DEF IInv, StoreInv
  <2>5. PublisherInv'
    <3>1. store.gen <= store.gen
      BY DEF IInv, Types
    <3>2. Kept(P)'
      BY <2>1 DEF Kept
    <3> QED
      BY <1>1, <2>1, <3>1, <3>2 DEF PublisherInv
  <2>6. PagesInv' /\ NumbersInv' /\ TokensInv'
    BY <1>1, <2>1, <2>2 DEF IInv, PagesInv, NumbersInv, Numbered, TokensInv
  <2>7. PICK C \in Contents : ContentInv(C)
    BY DEF IInv
  <2>8. ContentInv(C)'
    BY <1>1, <1>2, <2>1, <2>2, <2>7 DEF ContentInv, Held
  <2> QED
    BY <2>3, <2>4, <2>5, <2>6, <2>7, <2>8 DEF IInv
<1> QED
  BY <1>3, <1>4 DEF Install

(* The publisher a publication starts from: the writer's reset draws a new   *)
(* epoch and forgets what was sent.  Nothing on its way has its numbers.     *)
Prepared(p, n) ==
    /\ p \in PublisherT /\ n \in Nat /\ p.token = store.gen /\ store.gen # 0 /\ p.owners = store.rows
    /\ Kept(p) /\ p.epoch \in 1..n /\ p.sequence \in Nat
    /\ \A C \in Contents : ContentInv(C) => p.sent = Before(C, p.epoch, p.sequence)
    /\ \A e, s : Numbered(e, s) => e \in 1..n /\ (e = p.epoch => s <= p.sequence)

(* A reset forgets what was sent and keeps what was adopted. *)
LEMMA ResetPublisher ==
  ASSUME NEW p \in PublisherT, NEW e \in Nat
  PROVE  /\ Reset(p, e) \in PublisherT /\ Reset(p, e).token = p.token /\ Reset(p, e).owners = p.owners
         /\ Reset(p, e).sent = NoRows /\ Reset(p, e).epoch = e /\ Reset(p, e).sequence = 0
<1> DEFINE X == p.changed \cup {o \in Owners : p.owners[o] # 0}
<1>1. X \in SUBSET Owners /\ NoRows \in Rows
  BY NewTypes DEF PublisherT
<1>2. Reset(p, e) = [p EXCEPT !.epoch = e, !.sequence = 0, !.sent = NoRows, !.changed = X]
  BY DEF Reset, PublisherT
<1> HIDE DEF X
<1>3. PICK r : r = Reset(p, e)
  OBVIOUS
<1>4. /\ r.token = p.token /\ r.owners = p.owners /\ r.sent = NoRows /\ r.epoch = e /\ r.sequence = 0
      /\ r.changed = X
  BY <1>2, <1>3 DEF PublisherT
<1>5. r \in PublisherT
  <2>1. r = [token |-> p.token, owners |-> p.owners, sent |-> NoRows, changed |-> X, epoch |-> e,
             sequence |-> 0]
    BY <1>2, <1>3 DEF PublisherT
  <2>2. p.token \in Nat /\ p.owners \in Rows
    BY DEF PublisherT
  <2> QED
    BY <1>1, <2>1, <2>2 DEF PublisherT
<1> QED
  BY <1>3, <1>4, <1>5

(* A publication that goes ahead starts from a prepared publisher, reset     *)
(* or not.                                                                   *)
LEMMA Preparation ==
  ASSUME IInv, Publish, P.token = store.gen, store.ready,
         NEW p, p = IF W.reset THEN Reset(P, epochs + 1) ELSE P,
         NEW n, n = IF W.reset THEN epochs + 1 ELSE epochs
  PROVE  Prepared(p, n)
<1>1. /\ P \in PublisherT /\ P.owners \in Rows /\ P.sent \in Rows /\ P.changed \in SUBSET Owners
      /\ P.epoch \in Nat /\ P.sequence \in Nat /\ epochs \in Nat /\ store.gen \in Nat
  BY BoundsAssumption DEF IInv, Types, PublisherT
<1>2. store.gen # 0
  BY DEF IInv, StoreInv, Types
<1>3. P.owners = store.rows
  BY <1>2 DEF IInv, PublisherInv
<1>4. up /\ W.pc = "publish" /\ W.pages = <<>> /\ P.epoch # 0 /\ P.epoch <= epochs
  BY DEF Publish, IInv, PagesInv, NumbersInv
<1>5. CASE W.reset
  <2>1. p = Reset(P, epochs + 1) /\ epochs + 1 \in Nat
    BY <1>1, <1>5
  <2>3. /\ p \in PublisherT /\ p.token = P.token /\ p.owners = P.owners /\ p.sent = NoRows
        /\ p.epoch = epochs + 1 /\ p.sequence = 0
    <3>1. PICK e \in Nat : e = epochs + 1
      BY <2>1
    <3>2. Reset(P, e) \in PublisherT /\ Reset(P, e).token = P.token /\ Reset(P, e).owners = P.owners
          /\ Reset(P, e).sent = NoRows /\ Reset(P, e).epoch = e /\ Reset(P, e).sequence = 0
      BY <1>1, ResetPublisher
    <3> QED
      BY <2>1, <3>1, <3>2
  <2>4. Kept(p)
    BY <2>3 DEF Kept, NoRows
  <2>5. n = epochs + 1 /\ n \in Nat /\ p.epoch \in 1..n
    BY <1>1, <1>5, <2>3
  <2>6. ASSUME NEW e, NEW s, Numbered(e, s) PROVE e \in 1..n /\ (e = p.epoch => s <= p.sequence)
    BY <1>1, <2>3, <2>5, <2>6 DEF Numbered
  <2>7. \A C \in Contents : p.sent = Before(C, p.epoch, p.sequence)
    BY <2>3 DEF Before
  <2> QED
    BY <1>2, <1>3, <2>3, <2>4, <2>5, <2>6, <2>7 DEF Prepared
<1>6. CASE ~W.reset
  <2>1. p = P /\ n = epochs
    BY <1>6
  <2>2. Kept(P) /\ P.epoch \in 1..epochs
    BY <1>1, <1>4 DEF IInv, PublisherInv
  <2>3. ASSUME NEW C \in Contents, ContentInv(C) PROVE P.sent = Before(C, P.epoch, P.sequence)
    <3>1. P.sent = Before(C, P.epoch, P.sequence + Len(W.pages))
      BY <1>6, <2>3 DEF ContentInv
    <3>2. P.sequence + Len(W.pages) = P.sequence
      BY <1>1, <1>4
    <3> QED
      BY <3>1, <3>2
  <2>4. \A e, s : Numbered(e, s) => e \in 1..epochs /\ (e = P.epoch => s <= P.sequence)
    BY DEF Numbered
  <2> QED
    BY <1>1, <1>2, <1>3, <2>1, <2>2, <2>3, <2>4 DEF Prepared
<1> QED
  BY <1>5, <1>6

(* A content extended by the pages of a publication agrees with the old one  *)
(* on every page that was numbered before.                                   *)
Extended(C, p, c) ==
    [e \in Nat |-> [s \in Nat |-> IF e = p.epoch /\ s > p.sequence THEN c[s - p.sequence] ELSE C[e][s]]]

(* The extension is a numbering that agrees with the old one up to the       *)
(* publisher's sequence and has the new pages after it.                      *)
LEMMA ExtendedContents ==
  ASSUME NEW C \in Contents, NEW p \in PublisherT, NEW c \in [Nat -> Rows]
  PROVE  /\ Extended(C, p, c) \in Contents
         /\ \A e \in Nat, s \in Nat : (e = p.epoch => s <= p.sequence)
               => Extended(C, p, c)[e][s] = C[e][s] /\ Before(Extended(C, p, c), e, s) = Before(C, e, s)
         /\ \A i \in Nat \ {0} : Extended(C, p, c)[p.epoch][p.sequence + i] = c[i]
<1>1. p.epoch \in Nat /\ p.sequence \in Nat
  BY DEF PublisherT
<1>2. \A e \in Nat : C[e] \in [Nat -> Rows]
  BY DEF Contents
<1>3. ASSUME NEW e \in Nat PROVE Extended(C, p, c)[e] \in [Nat -> Rows]
  <2>1. \A s \in Nat : (IF e = p.epoch /\ s > p.sequence THEN c[s - p.sequence] ELSE C[e][s]) \in Rows
    BY <1>1, <1>2
  <2> QED
    BY <2>1 DEF Extended
<1>4. Extended(C, p, c) \in Contents
  BY <1>3 DEF Contents, Extended
<1>5. ASSUME NEW e \in Nat, NEW s \in Nat, e = p.epoch => s <= p.sequence
      PROVE  /\ Extended(C, p, c)[e][s] = C[e][s]
             /\ Before(Extended(C, p, c), e, s) = Before(C, e, s)
  BY <1>1, <1>5 DEF Extended, Before
<1>6. ASSUME NEW i \in Nat \ {0} PROVE Extended(C, p, c)[p.epoch][p.sequence + i] = c[i]
  BY <1>1 DEF Extended
<1> QED
  BY <1>4, <1>5, <1>6

(* A page that was numbered before keeps its content. *)
LEMMA ContentExtends ==
  ASSUME NEW C \in Contents, NEW p \in PublisherT, NEW c \in [Nat -> Rows], NEW d, NEW f,
         Content(C, d, f), f.kind = "frame", f.epoch \in Nat, f.sequence \in Nat \ {0},
         f.epoch = p.epoch => f.sequence <= p.sequence
  PROVE  Content(Extended(C, p, c), d, f)
<1>1. p.sequence \in Nat
  BY DEF PublisherT
<1>2. f.sequence - 1 \in Nat /\ (f.epoch = p.epoch => f.sequence - 1 <= p.sequence)
  BY <1>1
<1>3. Extended(C, p, c)[f.epoch][f.sequence] = C[f.epoch][f.sequence]
  BY ExtendedContents
<1>4. Before(Extended(C, p, c), f.epoch, f.sequence - 1) = Before(C, f.epoch, f.sequence - 1)
  BY <1>2, ExtendedContents
<1> QED
  BY <1>3, <1>4 DEF Content

(* The pages of a publication are numbered after all that was sent, in the   *)
(* publisher's epoch, and the last of them leaves the rows of its generation.*)
LEMMA PublishedStep ==
  ASSUME IInv, NEW p, NEW n, Prepared(p, n), P' = Published(p),
         W' = [W EXCEPT !.pc = "page", !.pages = Pages(p)], up, store.ready, W.pc = "publish",
         epochs' = n, UNCHANGED <<store, box, pipe, R, wanted, shown, up>>
  PROVE  IInv'
<1>1. /\ p \in PublisherT /\ p.owners \in Rows /\ p.sent \in Rows /\ p.epoch \in Nat /\ p.sequence \in Nat
      /\ n \in Nat /\ Kept(p) /\ p.token = store.gen /\ p.owners = store.rows /\ p.epoch \in 1..n
      /\ store.gen \in Nat
  BY BoundsAssumption DEF Prepared, PublisherT, IInv, Types
<1>2. PICK q : q = Pages(p)
  OBVIOUS
<1>3. /\ q \in Seq(FrameT) /\ q # <<>>
      /\ \A i \in 1..Len(q) :
            /\ q[i].epoch = p.epoch /\ q[i].sequence = p.sequence + i /\ q[i].token = store.gen
            /\ q[i].reset <=> p.sequence + i = 1
            /\ q[i].more <=> i < Len(q)
  BY <1>1, <1>2, PagesItems, BoundsAssumption
<1>4. PICK c \in [Nat -> Rows] :
            /\ c[0] = p.sent /\ c[Len(q)] = p.owners
            /\ \A i \in 1..Len(q) : c[i] = Applied(c[i - 1], q[i].part)
  BY <1>1, <1>2, PagesItems, BoundsAssumption
<1>5. /\ P' \in PublisherT /\ P'.token = store.gen /\ P'.owners = store.rows /\ P'.sent = store.rows
      /\ P'.epoch = p.epoch /\ P'.sequence = p.sequence /\ P'.changed = {}
  <2>1. P' = [p EXCEPT !.sent = p.owners, !.changed = {}]
    BY <1>1, ProjectedOwners DEF Published
  <2> QED
    BY <1>1, <2>1 DEF PublisherT
<1>6. W \in WriterT
  BY DEF IInv, Types
<1>7. /\ W' \in WriterT /\ W'.pc = "page" /\ W'.pages = q /\ W'.reset = W.reset
      /\ W'.changed = W.changed /\ W'.removed = W.removed
  BY <1>2, <1>3, <1>6 DEF WriterT
<1>8. Types'
  BY <1>1, <1>5, <1>7 DEF IInv, Types
<1>9. StoreInv'
  BY <1>7 DEF IInv, StoreInv
<1>10. PublisherInv'
  <2>1. Kept(P)'
    BY <1>5 DEF Kept
  <2> QED
    BY <1>1, <1>5, <2>1 DEF PublisherInv
<1>11. PagesInv'
  BY <1>3, <1>5, <1>7 DEF PagesInv
<1>12. ASSUME NEW e, NEW s, Numbered(e, s) PROVE Numbered(e, s)'
  BY <1>5, <1>12 DEF Prepared, Numbered
<1>13. NumbersInv' /\ TokensInv'
  BY <1>1, <1>5, <1>12 DEF IInv, NumbersInv, TokensInv
<1>14. PICK C \in Contents : ContentInv(C)
  BY DEF IInv
<1>15. PICK K \in Contents : K = Extended(C, p, c)
  BY <1>1, ExtendedContents
<1>16. ASSUME NEW f \in FrameT, Numbered(f.epoch, f.sequence), Content(C, store.done, f)
       PROVE  Content(K, store.done, f)
  <2>1. f.kind = "frame" /\ f.epoch \in Nat /\ f.sequence \in Nat \ {0}
    BY <1>16 DEF FrameT, Numbered
  <2>2. f.epoch = p.epoch => f.sequence <= p.sequence
    BY <1>16 DEF Prepared
  <2> QED
    BY <1>1, <1>15, <1>16, <2>1, <2>2, ContentExtends
<1>17. ASSUME NEW i \in 1..Len(q) PROVE Content(K, store.done, q[i])
  <2>1. i \in Nat \ {0} /\ Len(q) \in Nat
    BY <1>3
  <2>2. K[p.epoch][p.sequence + i] = c[i]
    BY <1>1, <1>15, <2>1, ExtendedContents
  <2>3. Before(K, p.epoch, p.sequence + i - 1) = c[i - 1]
    <3>1. CASE i = 1
      <4>1. Before(K, p.epoch, p.sequence) = Before(C, p.epoch, p.sequence)
        BY <1>1, <1>15, ExtendedContents
      <4>2. p.sent = Before(C, p.epoch, p.sequence)
        BY <1>14 DEF Prepared
      <4>3. p.sequence + i - 1 = p.sequence /\ c[i - 1] = c[0]
        BY <1>1, <3>1
      <4> QED
        BY <1>4, <4>1, <4>2, <4>3
    <3>2. CASE i # 1
      <4>1. i - 1 \in Nat \ {0}
        BY <2>1, <3>2
      <4>2. K[p.epoch][p.sequence + (i - 1)] = c[i - 1]
        BY <1>1, <1>15, <4>1, ExtendedContents
      <4>3. p.sequence + i - 1 = p.sequence + (i - 1) /\ p.sequence + i - 1 # 0
        BY <1>1, <4>1
      <4> QED
        BY <4>2, <4>3 DEF Before
    <3> QED
      BY <3>1, <3>2
  <2>4. K[p.epoch][p.sequence + i] = Applied(Before(K, p.epoch, p.sequence + i - 1), q[i].part)
    BY <1>4, <2>2, <2>3
  <2>5. ~q[i].more => i = Len(q)
    BY <1>3, <2>1
  <2>6. i = Len(q) => store.gen \in DOMAIN store.done /\ K[p.epoch][p.sequence + i] = store.done[store.gen]
    BY <1>1, <1>4, <2>2 DEF IInv, StoreInv
  <2>7. PICK f : f = q[i]
    OBVIOUS
  <2>8. f.epoch = p.epoch /\ f.sequence = p.sequence + i /\ f.token = store.gen
    BY <1>3, <2>7
  <2>9. f.reset <=> f.sequence = 1
    BY <1>3, <2>7, <2>8
  <2>10. K[f.epoch][f.sequence] = Applied(Before(K, f.epoch, f.sequence - 1), f.part)
    <3>1. f.sequence - 1 = p.sequence + i - 1 /\ f.part = q[i].part
      BY <1>1, <2>1, <2>7, <2>8
    <3> QED
      BY <2>4, <2>8, <3>1, Zenon
  <2>11. ~f.more => f.token \in DOMAIN store.done /\ K[f.epoch][f.sequence] = store.done[f.token]
    BY <2>5, <2>6, <2>7, <2>8
  <2> QED
    BY <2>7, <2>9, <2>10, <2>11 DEF Content
<1>18. ContentInv(K)'
  <2>1. \A i \in 1..Len(pipe) : Content(K, store.done, pipe[i])
    <3>1. ASSUME NEW i \in 1..Len(pipe), pipe[i].kind = "frame" PROVE Content(K, store.done, pipe[i])
      <4>1. pipe[i] \in FrameT
        BY <3>1 DEF IInv, Types, ErrorT
      <4>2. Numbered(pipe[i].epoch, pipe[i].sequence) /\ Content(C, store.done, pipe[i])
        BY <1>14, <3>1 DEF IInv, NumbersInv, ContentInv
      <4> QED
        BY <1>16, <4>1, <4>2
    <3> QED
      BY <3>1 DEF Content
  <2>2. Content(K, store.done, box)
    <3>1. CASE box.kind = "frame"
      <4>1. box \in FrameT
        BY <3>1 DEF IInv, Types, ErrorT, Nothing, Progress
      <4>2. Numbered(box.epoch, box.sequence) /\ Content(C, store.done, box)
        BY <1>14, <3>1 DEF IInv, NumbersInv, ContentInv
      <4> QED
        BY <1>16, <4>1, <4>2
    <3> QED
      BY <3>1 DEF Content
  <2>3. R.epoch # 0 => Held(R) = K[R.epoch][R.sequence]
    <3>1. ASSUME R.epoch # 0 PROVE Held(R) = K[R.epoch][R.sequence]
      <4>1. Numbered(R.epoch, R.sequence) /\ Held(R) = C[R.epoch][R.sequence]
        BY <1>14, <3>1 DEF IInv, NumbersInv, ContentInv
      <4>2. R.epoch \in Nat /\ R.sequence \in Nat /\ (R.epoch = p.epoch => R.sequence <= p.sequence)
        BY <4>1 DEF Prepared, IInv, Types, ReceiverT
      <4> QED
        BY <1>1, <1>15, <4>1, <4>2, ExtendedContents
    <3> QED
      BY <3>1
  <2>4. store.rows = Before(K, p.epoch, p.sequence + Len(q))
    <3>1. Len(q) \in Nat \ {0} /\ p.sequence + Len(q) # 0
      BY <1>1, <1>3
    <3>2. K[p.epoch][p.sequence + Len(q)] = c[Len(q)]
      BY <1>1, <1>15, <3>1, ExtendedContents
    <3> QED
      BY <1>1, <1>4, <3>1, <3>2 DEF Before
  <2> QED
    BY <1>5, <1>7, <1>17, <2>1, <2>2, <2>3, <2>4 DEF ContentInv, Held
<1> QED
  BY <1>8, <1>9, <1>10, <1>11, <1>13, <1>15, <1>18 DEF IInv

(* A publication that fails before its first page. *)
LEMMA UnpublishedStep ==
  ASSUME IInv, NEW p, NEW n, Prepared(p, n), P' = p, W' = Fails(W), epochs' = n,
         UNCHANGED <<store, box, pipe, R, wanted, shown, up>>
  PROVE  IInv'
<1>1. /\ p \in PublisherT /\ n \in Nat /\ Kept(p) /\ p.token = store.gen /\ p.owners = store.rows
      /\ p.epoch \in 1..n /\ store.gen \in Nat
  BY BoundsAssumption DEF Prepared, IInv, Types
<1>2. /\ W' \in WriterT /\ W'.pc = "failed" /\ W'.pages = <<>> /\ W'.reset
      /\ W'.changed = W.changed /\ W'.removed = W.removed
  BY FailedWriter DEF IInv, Types
<1>3. Types' /\ StoreInv'
  BY <1>1, <1>2 DEF IInv, Types, StoreInv
<1>4. PublisherInv'
  <2>1. Kept(P)'
    BY <1>1 DEF Kept
  <2> QED
    BY <1>1, <2>1 DEF PublisherInv
<1>5. PagesInv'
  BY <1>2 DEF PagesInv
<1>6. ASSUME NEW e, NEW s, Numbered(e, s) PROVE Numbered(e, s)'
  BY <1>6 DEF Prepared, Numbered
<1>7. NumbersInv' /\ TokensInv'
  BY <1>1, <1>6 DEF IInv, NumbersInv, TokensInv
<1>8. PICK C \in Contents : ContentInv(C)
  BY DEF IInv
<1>9. ContentInv(C)'
  BY <1>2, <1>8 DEF ContentInv, Held
<1> QED
  BY <1>3, <1>4, <1>5, <1>7, <1>8, <1>9 DEF IInv

(* publish() up to its first page: nothing to publish, the pages, or a fault. *)
LEMMA PublishStep == ASSUME IInv, Publish PROVE IInv'
<1>1. /\ up /\ W.pc = "publish" /\ UNCHANGED <<store, box, pipe, R, wanted, shown, up>>
  BY DEF Publish
<1>2. W \in WriterT /\ wanted \in BOOLEAN /\ W.pages = <<>>
  BY <1>1 DEF IInv, Types, PagesInv
<1>3. CASE W.blocked = store.gen \/ P.token # store.gen \/ ~store.ready
  <2>1. W' = Return(W) /\ UNCHANGED <<P, epochs>>
    BY <1>3 DEF Publish
  <2>2. PICK n \in {"publish", "top"} : n = IF W.again THEN "publish" ELSE "top"
    OBVIOUS
  <2>3. W' = [W EXCEPT !.pc = n, !.again = FALSE]
    BY <2>1, <2>2 DEF Return
  <2>4. /\ W' \in WriterT /\ W'.pages = <<>> /\ W'.pc # "page" /\ W'.reset = W.reset
        /\ W'.changed = W.changed /\ W'.removed = W.removed
    BY <1>2, <2>3 DEF WriterT
  <2> QED
    BY <1>1, <1>2, <2>1, <2>4, WriterOnly
<1>4. CASE ~(W.blocked = store.gen \/ P.token # store.gen \/ ~store.ready)
  <2>1. PICK p : p = IF W.reset THEN Reset(P, epochs + 1) ELSE P
    OBVIOUS
  <2>2. PICK n : n = IF W.reset THEN epochs + 1 ELSE epochs
    OBVIOUS
  <2>3. Prepared(p, n)
    BY <1>4, <2>1, <2>2, Preparation
  <2>4. epochs' = n
    BY <1>4, <2>2 DEF Publish
  <2>5. \/ W' = [W EXCEPT !.pc = "page", !.pages = Pages(p)] /\ P' = Published(p)
        \/ W' = Fails(W) /\ P' = p
    BY <1>4, <2>1 DEF Publish
  <2> QED
    BY <1>1, <1>4, <2>3, <2>4, <2>5, PublishedStep, UnpublishedStep
<1> QED
  BY <1>3, <1>4

-----------------------------------------------------------------------------
(* The receiver *)

(* What receiving a frame does to a receiver that agrees with the contents:  *)
(* it still agrees, or is refused, and a completed snapshot has the rows of  *)
(* the frame's generation.                                                   *)
LEMMA Received ==
  ASSUME NEW r \in ReceiverT, NEW f \in FrameT, NEW C \in Contents, NEW d, Content(C, d, f),
         r.epoch # 0 => Held(r) = C[r.epoch][r.sequence],
         f.epoch # 0, f.sequence # 0,
         NEW got, got = Receive(r, f)
  PROVE  \/ got.out \in Refused
         \/ got.out = "ignored" /\ got.receiver = r
         \/ /\ got.out \in {"partial", "complete"}
            /\ got.receiver \in ReceiverT
            /\ got.receiver.epoch = f.epoch /\ got.receiver.sequence = f.sequence
            /\ Held(got.receiver) = C[f.epoch][f.sequence]
            /\ got.out = "complete" => ~f.more /\ got.receiver.rows = C[f.epoch][f.sequence]
<1>1. /\ r.epoch \in Nat /\ r.sequence \in Nat /\ r.rows \in Rows /\ r.retired \in SUBSET Nat
      /\ r.open \in BOOLEAN /\ r.pending \in Rows /\ r.token \in Nat
      /\ f.epoch \in Nat /\ f.sequence \in Nat \ {0} /\ f.token \in Nat /\ f.reset \in BOOLEAN
      /\ f.more \in BOOLEAN /\ f.part \in PartT
  BY DEF ReceiverT, FrameT
<1>2. /\ C[f.epoch][f.sequence] = Applied(Before(C, f.epoch, f.sequence - 1), f.part)
      /\ f.reset <=> f.sequence = 1
  BY DEF Content, FrameT
<1>3. C[f.epoch][f.sequence] \in Rows
  BY <1>1 DEF Contents
<1>4. PICK s : s = IF f.reset THEN Started(r, f) ELSE r
  OBVIOUS
<1>5. /\ s \in ReceiverT
      /\ f.reset => s.epoch = f.epoch /\ s.sequence = 0 /\ s.open = FALSE
      /\ ~f.reset => s = r
  <2>1. CASE f.reset
    <3> DEFINE X == IF r.epoch \in {0, f.epoch} THEN r.retired ELSE r.retired \cup {r.epoch}
    <3>1. X \in SUBSET Nat
      BY <1>1
    <3>2. s = [r EXCEPT !.epoch = f.epoch, !.sequence = 0, !.open = FALSE, !.retired = X]
      BY <1>4, <2>1 DEF Started, ReceiverT
    <3> HIDE DEF X
    <3> QED
      BY <1>1, <2>1, <3>1, <3>2 DEF ReceiverT
  <2>2. CASE ~f.reset
    BY <1>4, <2>2
  <2> QED
    BY <2>1, <2>2
<1>6. CASE Obsolete(r, f)
  BY <1>6 DEF Receive
<1>7. CASE ~Obsolete(r, f) /\ Full(r, f)
  <2>1. got = [receiver |-> r, out |-> "full"]
    BY <1>7 DEF Receive
  <2> QED
    BY <2>1 DEF Refused
<1>8. CASE /\ ~Obsolete(r, f) /\ ~Full(r, f)
           /\ f.epoch # s.epoch \/ f.sequence <= s.sequence
  <2>1. got = [receiver |-> s, out |-> "ignored"]
    BY <1>4, <1>8 DEF Receive
  <2>2. ~f.reset
    BY <1>1, <1>5, <1>8
  <2> QED
    BY <1>5, <2>1, <2>2
<1>9. CASE /\ ~Obsolete(r, f) /\ ~Full(r, f)
           /\ ~(f.epoch # s.epoch \/ f.sequence <= s.sequence)
           /\ f.sequence # s.sequence + 1 \/ (s.open /\ f.token # s.token)
  <2>1. got = [receiver |-> s, out |-> "broken"]
    BY <1>4, <1>9 DEF Receive
  <2> QED
    BY <2>1 DEF Refused
<1>10. CASE /\ ~Obsolete(r, f) /\ ~Full(r, f)
            /\ ~(f.epoch # s.epoch \/ f.sequence <= s.sequence)
            /\ ~(f.sequence # s.sequence + 1 \/ (s.open /\ f.token # s.token))
  <2>1. PICK out \in {"partial", "complete"} : out = IF f.more THEN "partial" ELSE "complete"
    OBVIOUS
  <2>2. got = [receiver |-> Fragment(s, f), out |-> out]
    BY <1>4, <1>10, <2>1 DEF Receive
  <2>3. s.epoch = f.epoch /\ f.sequence = s.sequence + 1
    BY <1>10
  <2>4. PICK base : base = IF s.open THEN s.pending ELSE IF f.reset THEN NoRows ELSE s.rows
    OBVIOUS
  <2>5. base = Before(C, f.epoch, f.sequence - 1)
    <3>1. CASE f.reset
      BY <1>1, <1>2, <1>5, <2>4, <3>1 DEF Before
    <3>2. CASE ~f.reset
      <4>1. s = r /\ r.epoch = f.epoch /\ f.sequence - 1 = r.sequence /\ f.sequence - 1 # 0
        BY <1>1, <1>2, <1>5, <2>3, <3>2
      <4>2. base = Held(r)
        BY <2>4, <3>2, <4>1 DEF Held
      <4> QED
        BY <4>1, <4>2 DEF Before
    <3> QED
      BY <3>1, <3>2
  <2>6. PICK rows : rows = Applied(base, f.part)
    OBVIOUS
  <2>7. rows = C[f.epoch][f.sequence] /\ rows \in Rows
    BY <1>2, <1>3, <2>5, <2>6
  <2>8. Fragment(s, f) =
          IF f.more
          THEN [s EXCEPT !.sequence = f.sequence, !.open = TRUE, !.pending = rows, !.token = f.token]
          ELSE [s EXCEPT !.sequence = f.sequence, !.open = FALSE, !.pending = NoRows, !.token = 0,
                         !.rows = rows]
    BY <2>4, <2>6, Zenon DEF Fragment
  <2>9. PICK g : g = Fragment(s, f)
    OBVIOUS
  <2>10. /\ g \in ReceiverT /\ g.epoch = f.epoch /\ g.sequence = f.sequence /\ Held(g) = rows
         /\ ~f.more => g.rows = rows
    <3>1. CASE f.more
      <4>1. g = [s EXCEPT !.sequence = f.sequence, !.open = TRUE, !.pending = rows, !.token = f.token]
        BY <2>8, <2>9, <3>1
      <4>2. /\ g \in ReceiverT /\ g.epoch = s.epoch /\ g.sequence = f.sequence /\ g.open = TRUE
            /\ g.pending = rows
        BY <1>1, <1>5, <2>7, <4>1 DEF ReceiverT
      <4> QED
        BY <2>3, <3>1, <4>2 DEF Held
    <3>2. CASE ~f.more
      <4>1. g = [s EXCEPT !.sequence = f.sequence, !.open = FALSE, !.pending = NoRows, !.token = 0,
                          !.rows = rows]
        BY <2>8, <2>9, <3>2
      <4>2. NoRows \in Rows
        BY NewTypes
      <4>3. /\ g \in ReceiverT /\ g.epoch = s.epoch /\ g.sequence = f.sequence /\ g.open = FALSE
            /\ g.rows = rows
        BY <1>1, <1>5, <2>7, <4>1, <4>2 DEF ReceiverT
      <4> QED
        BY <2>3, <4>3 DEF Held
    <3> QED
      BY <3>1, <3>2
  <2>11. got.out = out /\ got.receiver = g
    BY <2>2, <2>9
  <2> QED
    BY <2>1, <2>7, <2>10, <2>11
<1> QED
  BY <1>6, <1>7, <1>8, <1>9, <1>10

(* What reading a message does to the receiver and to the window. *)
Reading(f) ==
    \/ shown' = shown /\ R' \in {R, NewReceiver}
    \/ /\ f \in FrameT /\ f.kind = "frame"
       /\ R' \in ReceiverT /\ R'.epoch = f.epoch /\ R'.sequence = f.sequence
       /\ \A C \in Contents : ContentInv(C) => Held(R') = C[f.epoch][f.sequence]
       /\ \/ shown' = shown
          \/ f.token \in DOMAIN store.done /\ shown' = [token |-> f.token, rows |-> store.done[f.token]]

(* Reading takes the first message and does to receiver and window what      *)
(* Reading says.                                                             *)
LEMMA ReadItem ==
  ASSUME IInv, Read
  PROVE  /\ pipe # <<>> /\ pipe' = Tail(pipe) /\ wanted' \in BOOLEAN /\ Reading(pipe[1])
         /\ UNCHANGED <<store, W, P, epochs, box, up>>
<1>1. pipe # <<>> /\ pipe' = Tail(pipe) /\ UNCHANGED <<store, W, P, epochs, box, up>>
  BY DEF Read
<1>2. pipe \in Seq(FrameT \cup ErrorT) /\ wanted \in BOOLEAN /\ R \in ReceiverT
  BY DEF IInv, Types
<1>3. PICK f : f = pipe[1]
  OBVIOUS
<1>4. f \in FrameT \cup ErrorT /\ f = Head(pipe) /\ 1 \in 1..Len(pipe)
  BY <1>1, <1>2, <1>3, TailItems
<1>5. CASE f.kind = "error"
  <2>1. UNCHANGED <<R, wanted, shown>>
    BY <1>4, <1>5 DEF Read
  <2> QED
    BY <1>1, <1>2, <1>3, <2>1 DEF Reading
<1>6. CASE f.kind # "error"
  <2>1. f \in FrameT /\ f.kind = "frame"
    BY <1>4, <1>6 DEF FrameT, ErrorT
  <2>2. PICK got : got = Receive(R, f)
    OBVIOUS
  <2>3. /\ R' = IF got.out \in Refused THEN NewReceiver ELSE got.receiver
        /\ wanted' = (wanted \/ got.out \in Refused)
        /\ shown' = IF got.out = "complete" THEN [token |-> f.token, rows |-> got.receiver.rows] ELSE shown
    BY <1>4, <1>6, <2>2 DEF Read
  <2>4. wanted' \in BOOLEAN
    BY <2>3
  <2>5. Numbered(f.epoch, f.sequence)
    BY <1>3, <1>4, <2>1 DEF IInv, NumbersInv
  <2>6. f.epoch # 0 /\ f.sequence # 0
    BY <2>5 DEF Numbered
  <2>7. PICK C \in Contents : ContentInv(C)
    BY DEF IInv
  <2>8. ASSUME NEW K \in Contents, ContentInv(K)
        PROVE  Content(K, store.done, f) /\ (R.epoch # 0 => Held(R) = K[R.epoch][R.sequence])
    BY <1>3, <1>4, <2>8 DEF ContentInv
  <2>9. ASSUME NEW K \in Contents, ContentInv(K)
        PROVE  \/ got.out \in Refused
               \/ got.out = "ignored" /\ got.receiver = R
               \/ /\ got.out \in {"partial", "complete"}
                  /\ got.receiver \in ReceiverT
                  /\ got.receiver.epoch = f.epoch /\ got.receiver.sequence = f.sequence
                  /\ Held(got.receiver) = K[f.epoch][f.sequence]
                  /\ got.out = "complete" => ~f.more /\ got.receiver.rows = K[f.epoch][f.sequence]
    BY <1>2, <2>1, <2>2, <2>6, <2>8, <2>9, Received
  <2>10. "complete" \notin Refused /\ "ignored" \notin Refused /\ "partial" \notin Refused
    BY DEF Refused
  <2>11. CASE got.out \in Refused \/ (got.out = "ignored" /\ got.receiver = R)
    BY <1>1, <1>3, <2>3, <2>4, <2>10, <2>11 DEF Reading
  <2>12. CASE got.out \in {"partial", "complete"}
    <3>1. R' = got.receiver
      BY <2>3, <2>10, <2>12
    <3>2. R' \in ReceiverT /\ R'.epoch = f.epoch /\ R'.sequence = f.sequence
      BY <2>7, <2>9, <2>10, <2>12, <3>1
    <3>3. \A K \in Contents : ContentInv(K) => Held(R') = K[f.epoch][f.sequence]
      BY <2>9, <2>10, <2>12, <3>1
    <3>4. \/ shown' = shown
          \/ f.token \in DOMAIN store.done /\ shown' = [token |-> f.token, rows |-> store.done[f.token]]
      <4>1. CASE got.out = "partial"
        BY <2>3, <4>1
      <4>2. CASE got.out = "complete"
        <5>1. ~f.more /\ got.receiver.rows = C[f.epoch][f.sequence]
          BY <2>7, <2>9, <2>10, <4>2
        <5>2. f.token \in DOMAIN store.done /\ C[f.epoch][f.sequence] = store.done[f.token]
          BY <2>1, <2>7, <2>8, <5>1 DEF Content
        <5> QED
          BY <2>3, <4>2, <5>1, <5>2
      <4> QED
        BY <2>12, <4>1, <4>2
    <3> QED
      BY <1>1, <1>3, <2>1, <2>4, <3>2, <3>3, <3>4 DEF Reading
  <2> QED
    BY <2>7, <2>9, <2>11, <2>12
<1> QED
  BY <1>5, <1>6

(* The bridge reads a message; what it shows is behind everything that is    *)
(* still on its way.                                                         *)
LEMMA ReadStep == ASSUME IInv, Read PROVE IInv'
<1>1. /\ pipe # <<>> /\ pipe' = Tail(pipe) /\ wanted' \in BOOLEAN /\ Reading(pipe[1])
      /\ UNCHANGED <<store, W, P, epochs, box, up>>
  BY ReadItem
<1>2. PICK s \in Seq(FrameT \cup ErrorT) : s = pipe
  BY DEF IInv, Types
<1>3. PICK t : t = Tail(s)
  OBVIOUS
<1>4. /\ Len(s) \in Nat /\ 1 \in 1..Len(s) /\ t \in Seq(FrameT \cup ErrorT) /\ Len(t) = Len(s) - 1
      /\ \A i \in 1..Len(t) : i + 1 \in 1..Len(s) /\ t[i] = s[i + 1]
  BY <1>1, <1>2, <1>3, TailItems
<1>5. PICK f : f = s[1]
  OBVIOUS
<1>6. pipe' = t /\ pipe = s /\ Reading(f)
  BY <1>1, <1>2, <1>3, <1>5
<1>7. R \in ReceiverT /\ NewReceiver \in ReceiverT /\ NewReceiver.epoch = 0 /\ shown.token \in Nat
  BY NewTypes DEF IInv, Types, NewReceiver
<1>8. Types'
  <2>1. R' \in ReceiverT
    BY <1>6, <1>7 DEF Reading
  <2>2. shown'.token \in Nat
    BY <1>6, <1>7 DEF Reading, FrameT
  <2> QED
    BY <1>1, <1>4, <1>6, <2>1, <2>2 DEF IInv, Types
<1>9. StoreInv' /\ PublisherInv' /\ PagesInv'
  BY <1>1 DEF IInv, StoreInv, PublisherInv, Kept, PagesInv
<1>10. NumbersInv'
  <2>1. f \in FrameT /\ f.kind = "frame" => Numbered(f.epoch, f.sequence)
    BY <1>4, <1>5, <1>6 DEF IInv, NumbersInv
  <2>2. R'.epoch # 0 => Numbered(R'.epoch, R'.sequence)
    BY <1>6, <1>7, <2>1 DEF Reading, IInv, NumbersInv
  <2>3. \A i \in 1..Len(t) : t[i].kind = "frame" => Numbered(t[i].epoch, t[i].sequence)
    BY <1>4, <1>6 DEF IInv, NumbersInv
  <2> QED
    BY <1>1, <1>6, <2>2, <2>3 DEF IInv, NumbersInv, Numbered
<1>11. TokensInv'
  <2>1. \A i, j \in 1..Len(s) :
          i <= j /\ s[i].kind = "frame" /\ s[j].kind = "frame" => s[i].token <= s[j].token
    BY <1>6 DEF IInv, TokensInv
  <2>2. \A i \in 1..Len(s) :
          s[i].kind = "frame" => /\ shown.token <= s[i].token /\ s[i].token <= store.gen
                                 /\ box.kind = "frame" => s[i].token <= box.token
    BY <1>6 DEF IInv, TokensInv
  <2>3. ASSUME NEW i \in 1..Len(t), NEW j \in 1..Len(t), i <= j, t[i].kind = "frame", t[j].kind = "frame"
        PROVE  t[i].token <= t[j].token
    <3>1. i + 1 <= j + 1 /\ i + 1 \in 1..Len(s) /\ j + 1 \in 1..Len(s) /\ t[i] = s[i + 1] /\ t[j] = s[j + 1]
      BY <1>4, <2>3
    <3> QED
      BY <2>1, <2>3, <3>1
  <2>4. \/ shown' = shown
        \/ f.kind = "frame" /\ shown'.token = f.token
    BY <1>6 DEF Reading
  <2>5. ASSUME NEW i \in 1..Len(t), t[i].kind = "frame"
        PROVE  /\ shown'.token <= t[i].token /\ t[i].token <= store.gen
               /\ box.kind = "frame" => t[i].token <= box.token
    <3>1. i + 1 \in 1..Len(s) /\ t[i] = s[i + 1] /\ 1 <= i + 1
      BY <1>4
    <3>2. /\ shown.token <= t[i].token /\ t[i].token <= store.gen
          /\ box.kind = "frame" => t[i].token <= box.token
      BY <2>2, <2>5, <3>1
    <3>3. f.kind = "frame" => f.token <= t[i].token
      BY <1>4, <1>5, <2>1, <2>5, <3>1
    <3> QED
      BY <2>4, <3>2, <3>3
  <2>6. shown'.token <= store.gen /\ (box.kind = "frame" => shown'.token <= box.token)
    <3>1. shown.token <= store.gen /\ (box.kind = "frame" => shown.token <= box.token)
      BY DEF IInv, TokensInv
    <3>2. f.kind = "frame" => f.token <= store.gen /\ (box.kind = "frame" => f.token <= box.token)
      BY <1>4, <1>5, <2>2
    <3> QED
      BY <2>4, <3>1, <3>2
  <2>7. box.kind = "frame" => box.token <= store.gen
    BY DEF IInv, TokensInv
  <2> QED
    BY <1>1, <1>6, <2>3, <2>5, <2>6, <2>7 DEF TokensInv
<1>12. PICK C \in Contents : ContentInv(C)
  BY DEF IInv
<1>13. ContentInv(C)'
  <2>1. R'.epoch # 0 => Held(R') = C[R'.epoch][R'.sequence]
    BY <1>6, <1>7, <1>12 DEF Reading, ContentInv
  <2>2. \A i \in 1..Len(t) : Content(C, store.done, t[i])
    BY <1>4, <1>6, <1>12 DEF ContentInv
  <2> QED
    BY <1>1, <1>6, <1>12, <2>1, <2>2 DEF ContentInv, Held
<1> QED
  BY <1>8, <1>9, <1>10, <1>11, <1>12, <1>13 DEF IInv

-----------------------------------------------------------------------------
(* The theorem                                                              *)

(* Nothing is converted, numbered or shown at the beginning. *)
LEMMA InitInv == Init => IInv
<1> SUFFICES ASSUME Init PROVE IInv
  OBVIOUS
<1>1. /\ store = [gen |-> 0, ready |-> FALSE, rows |-> NoRows, done |-> << >>]
      /\ W = NewWriter /\ P = NewPublisher(1) /\ epochs = 1
      /\ box = Nothing /\ pipe = <<>> /\ R = NewReceiver
      /\ wanted = FALSE /\ shown = [token |-> 0, rows |-> NoRows]
  BY DEF Init
<1>2. /\ P.token = 0 /\ P.epoch = 1 /\ P.sequence = 0 /\ Kept(P) /\ P.sent = NoRows
  BY <1>1, NewPublisherFits
<1>3. W.pages = <<>> /\ W.pc = "top" /\ W.removed = {} /\ R.epoch = 0 /\ box.kind # "frame" /\ Len(pipe) = 0
  BY <1>1 DEF NewWriter, NewReceiver, Nothing
<1>4. /\ store.gen = 0 /\ store.ready = FALSE /\ store.rows = NoRows /\ DOMAIN store.done = {}
      /\ shown.token = 0 /\ 0 \in 0..MaxGen
  BY <1>1, BoundsAssumption
<1>5. Types
  <2>1. /\ W \in WriterT /\ P \in PublisherT /\ R \in ReceiverT /\ store.rows \in Rows
    BY <1>1, <1>4, NewTypes
  <2>2. pipe \in Seq(FrameT \cup ErrorT)
    BY <1>1
  <2> QED
    BY <1>1, <1>4, <2>1, <2>2 DEF Types
<1>6. StoreInv /\ PublisherInv /\ PagesInv
  BY <1>2, <1>3, <1>4 DEF StoreInv, PublisherInv, PagesInv
<1>7. NumbersInv /\ TokensInv
  BY <1>1, <1>2, <1>3, <1>4 DEF NumbersInv, TokensInv
<1>8. PICK C : C = [e \in Nat |-> [s \in Nat |-> NoRows]]
  OBVIOUS
<1>9. C \in Contents
  BY <1>8, NewTypes DEF Contents
<1>10. ContentInv(C)
  BY <1>2, <1>3 DEF ContentInv, Content, Before
<1> QED
  BY <1>5, <1>6, <1>7, <1>9, <1>10 DEF IInv

(* Every step keeps the invariant. *)
LEMMA Step == IInv /\ [Next]_vars => IInv'
<1> SUFFICES ASSUME IInv, [Next]_vars PROVE IInv'
  OBVIOUS
<1>1. ASSUME NEW changed \in SUBSET Owners, NEW removed \in SUBSET Owners, NEW ready \in BOOLEAN,
             Convert(changed, removed, ready)
      PROVE  IInv'
  BY <1>1, ConvertStep
<1>2. CASE Install
  BY <1>2, InstallStep
<1>3. CASE Publish
  BY <1>3, PublishStep
<1>4. CASE PutPage
  BY <1>4, PutPageStep
<1>5. CASE PageFails
  BY <1>5, PageFailsStep
<1>6. CASE PutError
  BY <1>6, PutErrorStep
<1>7. CASE TakeSync
  BY <1>7, TakeSyncStep
<1>8. CASE OfferProgress
  BY <1>8, OfferProgressStep
<1>9. CASE Forward
  BY <1>9, ForwardStep
<1>10. CASE Read
  BY <1>10, ReadStep
<1>11. CASE AskAgain
  BY <1>11, AskAgainStep
<1>12. CASE SendSync
  BY <1>12, SendSyncStep
<1>13. CASE Die
  BY <1>13, DieStep
<1>14. CASE Restart
  BY <1>14, RestartStep
<1>15. CASE UNCHANGED vars
  <2>1. UNCHANGED <<store, W, P, epochs, box, pipe, R, wanted, shown, up>>
    BY <1>15 DEF vars
  <2> QED
    BY <2>1
       DEF IInv, Types, StoreInv, PublisherInv, Kept, PagesInv, NumbersInv, Numbered, TokensInv,
           ContentInv, Held
<1> QED
  BY <1>1, <1>2, <1>3, <1>4, <1>5, <1>6, <1>7, <1>8, <1>9, <1>10, <1>11, <1>12, <1>13, <1>14, <1>15
     DEF Next

(* A ready batch commits a generation, a completed snapshot shows one; no    *)
(* other step is visible.                                                    *)
LEMMA VisibleStep == IInv /\ [Next]_vars => [View!Next]_View!vars
<1> SUFFICES ASSUME IInv, [Next]_vars PROVE [View!Next]_View!vars
  OBVIOUS
<1>1. ASSUME NEW changed \in SUBSET Owners, NEW removed \in SUBSET Owners, NEW ready \in BOOLEAN,
             Convert(changed, removed, ready)
      PROVE  [View!Next]_View!vars
  <2>1. shown' = shown
    BY <1>1 DEF Convert
  <2>2. Batch(changed, removed, ready)
    BY <1>1, Converted
  <2>3. CASE ready
    <3>1. PICK g : g = store.gen + 1
      OBVIOUS
    <3>2. /\ g \in (1..MaxGen) \ DOMAIN store.done /\ store'.rows \in Rows
          /\ \A h \in DOMAIN store.done : h < g
          /\ store'.done = [h \in DOMAIN store.done \cup {g} |-> IF h = g THEN store'.rows ELSE store.done[h]]
      BY <2>2, <2>3, <3>1 DEF Batch
    <3> QED
      BY <2>1, <3>2 DEF View!Next, View!Commit
  <2>4. CASE ~ready
    <3>1. store'.done = store.done
      BY <2>2, <2>4 DEF Batch
    <3> QED
      BY <2>1, <3>1 DEF View!vars
  <2> QED
    BY <2>3, <2>4
<1>2. CASE Read
  <2>1. store' = store /\ Reading(pipe[1]) /\ pipe # <<>>
    BY <1>2, ReadItem
  <2>2. CASE shown' = shown
    BY <2>1, <2>2 DEF View!vars
  <2>3. CASE shown' # shown
    <3>1. PICK f : f = pipe[1]
      OBVIOUS
    <3>2. f.kind = "frame" /\ f.token \in DOMAIN store.done
          /\ shown' = [token |-> f.token, rows |-> store.done[f.token]]
      BY <2>1, <2>3, <3>1 DEF Reading
    <3>3. f.token >= shown.token
      <4>1. 1 \in 1..Len(pipe)
        BY <2>1 DEF IInv, Types
      <4>2. shown.token <= f.token
        BY <3>1, <3>2, <4>1 DEF IInv, TokensInv
      <4>3. shown.token \in Nat /\ f.token \in Nat
        BY <3>2 DEF IInv, Types
      <4> QED
        BY <4>2, <4>3
    <3> QED
      BY <2>1, <3>2, <3>3 DEF View!Next, View!Show
  <2> QED
    BY <2>2, <2>3
<1>3. CASE UNCHANGED <<store, shown>>
  BY <1>3 DEF View!vars
<1> QED
  BY <1>1, <1>2, <1>3
     DEF Next, vars, Install, Publish, PutPage, PageFails, PutError, TakeSync, OfferProgress,
         Forward, AskAgain, SendSync, Die, Restart

(* ShowsCommittedViews, for all owners and bounds: the window shows one      *)
(* committed generation at a time, whole, and never an older one after it,   *)
(* whatever is paged, reset, refused, lost with a child or started again.    *)
THEOREM WindowShowsCommitted == Spec => ShowsCommittedViews
<1>1. Init => View!Init
  BY NewTypes DEF Init, View!Init
<1>2. Spec => []IInv
  BY InitInv, Step, PTL DEF Spec
<1> QED
  BY <1>1, <1>2, VisibleStep, PTL DEF Spec, ShowsCommittedViews, View!Spec

-----------------------------------------------------------------------------
(***************************************************************************)
(* The queries.  Nothing below is about SnapshotDelivery, nothing above    *)
(* about QueryDelivery.                                                    *)
(***************************************************************************)
-----------------------------------------------------------------------------
(* The inductive invariant *)

Kinds == {"query", "page"}
Ids == 0..MaxQueries
CommandT == [kind : {"close", "page", "sync"}, id : Nat]
QueryT == [kind : {"query"}, id : Queries]
JobT == [kind : Kinds, id : Nat, token : Nat]
ReadT == [kind : Kinds, id : Nat, token : Nat, cancel : BOOLEAN, pinned : BOOLEAN]
AnswerT == [kind : {"page", "result", "stale", "fatal"}, consumer : Kinds \cup {"fatal"},
            id : Nat, token : Nat]
ActorT == [pending : Seq(JobT), active : ReadT \cup {None}, completed : Seq(AnswerT),
           signalled : BOOLEAN, stopping : BOOLEAN]
DispatcherT == [pc : {"wait", "commands"}, ready : SUBSET {"command", "output", "actor"},
                query : Ids, page : Nat, latest : Ids, aggregate : Ids,
                blocked : Nat, current : Nat]
QueryWriterT == [pc : {"top", "converted", "publish"}, take : BOOLEAN, sync : BOOLEAN,
                 aggregate : Ids, complete : BOOLEAN, due : BOOLEAN, token : Nat, blocked : Nat,
                 request : Ids]
PublicationT == [kind : {"snapshot"}, token : Nat, request : Ids]

(* The types, without the bounds the properties do not need. *)
WindowType ==
    /\ asked \in [query : Ids, page : Nat] /\ last \in Ids /\ openPage \in Nat
    /\ mail \in [query : Ids, cmds : Seq(CommandT)]
PipeType == toChild \in Seq(CommandT \cup QueryT) /\ toGui \in Seq(AnswerT)
ChildType ==
    /\ D \in DispatcherT /\ A \in ActorT /\ demand \in Ids /\ writer \in QueryWriterT
    /\ output \in PublicationT \cup {None}
    /\ gen \in Nat /\ covered \in [Queries -> Nat]
QueryTypes == WindowType /\ PipeType /\ ChildType

(* At most one command of each kind waits in the bridge's mailbox. *)
OneKind(s) == \A i, j \in 1..Len(s) : s[i].kind = s[j].kind => i = j
MailInv == OneKind(mail.cmds)

(* A generation from which the answer of a query may be computed. *)
Fits(cov, q, token) == q \in Queries /\ cov[q] # 0 /\ cov[q] <= token

(* The actor reads, or is going to read. *)
QueryReading(a, kind) == a.active.kind = kind /\ ~a.active.cancel
Waiting(a, kind) == \E i \in 1..Len(a.pending) : a.pending[i].kind = kind

(* At most one request of a consumer waits, is read or is completed. *)
OneEach(a) ==
    /\ \A i, j \in 1..Len(a.pending) : a.pending[i].kind = a.pending[j].kind => i = j
    /\ \A i, j \in 1..Len(a.completed) : a.completed[i].consumer = a.completed[j].consumer => i = j
    /\ \A kind \in Kinds :
          /\ ~(QueryReading(a, kind) /\ Waiting(a, kind))
          /\ QueryReading(a, kind) \/ Waiting(a, kind)
                => \A i \in 1..Len(a.completed) : a.completed[i].consumer # kind

(* What the actor was asked and not told to forget is the latest query. *)
OnlyLatest(a, latest) ==
    /\ \A i \in 1..Len(a.pending) : a.pending[i].kind = "query" => a.pending[i].id = latest
    /\ QueryReading(a, "query") => a.active.id = latest
    /\ \A i \in 1..Len(a.completed) :
          a.completed[i].kind \in {"result", "stale"}
              => a.completed[i].consumer = "query" /\ a.completed[i].id = latest

(* Queries reach the actor, and results leave it, with a generation that fits. *)
ActorFits(a, cov) ==
    /\ \A i \in 1..Len(a.pending) :
          a.pending[i].kind = "query" => Fits(cov, a.pending[i].id, a.pending[i].token)
    /\ a.active.kind = "query" => Fits(cov, a.active.id, a.active.token)
    /\ \A i \in 1..Len(a.completed) :
          a.completed[i].kind = "result" => Fits(cov, a.completed[i].id, a.completed[i].token)
ActorInv == OneEach(A) /\ OnlyLatest(A, D.latest) /\ ActorFits(A, covered)

DispatcherInv ==
    /\ D.query # 0 => D.query = D.latest
    /\ D.aggregate # 0 => Fits(covered, D.aggregate, D.current)
    /\ "output" \in D.ready => output.kind = "snapshot"

(* A publication is made of the current generation. *)
WriterInv ==
    /\ \A q \in Queries : covered[q] <= gen
    /\ writer.pc = "publish" => writer.token = gen /\ gen # 0
    /\ output.kind = "snapshot" /\ output.request # 0 => Fits(covered, output.request, output.token)

SentInv ==
    \A i \in 1..Len(toGui) :
        toGui[i].kind = "result" => Fits(covered, toGui[i].id, toGui[i].token)

QueryInv == QueryTypes /\ MailInv /\ ActorInv /\ DispatcherInv /\ WriterInv /\ SentInv

-----------------------------------------------------------------------------
(* Lemmas about the operators on sequences                                  *)

(* d has items of s, each once, and none of those dropped. *)
Keeps(d, s, at) ==
    \E m \in [1..Len(d) -> 1..Len(s)] :
        /\ \A i \in 1..Len(d) : d[i] = s[m[i]] /\ m[i] \notin at
        /\ \A i, j \in 1..Len(d) : m[i] = m[j] => i = j

(* What Dropped keeps: items of the sequence, each once, and none of the    *)
(* indices it drops when that is at most one.                               *)
LEMMA DroppedItems ==
  ASSUME NEW S, NEW s \in Seq(S), NEW at \in SUBSET (1..Len(s)),
         \A i, j \in at : i = j
  PROVE  Dropped(s, at) \in Seq(S) /\ Keeps(Dropped(s, at), s, at)
<1> DEFINE d == Dropped(s, at)
<1>1. CASE at = {}
  <2>1. d = s
    BY <1>1 DEF Dropped
  <2> DEFINE m == [i \in 1..Len(d) |-> i]
  <2>2. m \in [1..Len(d) -> 1..Len(s)]
    BY <2>1
  <2> HIDE DEF m
  <2>3. \A i \in 1..Len(d) : m[i] = i
    BY DEF m
  <2> QED
    BY <1>1, <2>1, <2>2, <2>3 DEF Keeps
<1>2. CASE at # {}
  <2>1. PICK c \in at : c = CHOOSE i \in at : TRUE
    BY <1>2
  <2> DEFINE u == SubSeq(s, 1, c - 1)
  <2> DEFINE v == SubSeq(s, c + 1, Len(s))
  <2>2. d = u \o v
    BY <1>2, <2>1 DEF Dropped, RemoveAt
  <2>3. Len(s) \in Nat /\ c \in 1..Len(s)
    OBVIOUS
  <2>4. u \in Seq(S) /\ Len(u) = c - 1 /\ \A i \in 1..c - 1 : u[i] = s[i]
    <3>1. \A i \in 1..c - 1 : s[i] \in S
      BY <2>3
    <3>2. /\ u \in Seq(S)
          /\ Len(u) = IF 1 <= c - 1 THEN c - 1 - 1 + 1 ELSE 0
          /\ \A i \in 1..c - 1 - 1 + 1 : u[i] = s[1 + i - 1]
      BY <2>3, <3>1, SubSeqProperties
    <3> QED
      BY <2>3, <3>2
  <2>5. v \in Seq(S) /\ Len(v) = Len(s) - c /\ \A i \in 1..Len(s) - c : v[i] = s[c + i]
    <3>1. \A i \in c + 1..Len(s) : s[i] \in S
      BY <2>3
    <3>2. /\ v \in Seq(S)
          /\ Len(v) = IF c + 1 <= Len(s) THEN Len(s) - (c + 1) + 1 ELSE 0
          /\ \A i \in 1..Len(s) - (c + 1) + 1 : v[i] = s[c + 1 + i - 1]
      BY <2>3, <3>1, SubSeqProperties
    <3> QED
      BY <2>3, <3>2
  <2> HIDE DEF u, v, d
  <2>6. /\ d \in Seq(S) /\ Len(d) = Len(u) + Len(v)
        /\ \A i \in 1..Len(u) + Len(v) : d[i] = IF i <= Len(u) THEN u[i] ELSE v[i - Len(u)]
    <3>1. u \in Seq(S) /\ v \in Seq(S)
      BY <2>4, <2>5
    <3> QED
      BY <3>1, <2>2, ConcatProperties, Zenon
  <2> DEFINE m == [i \in 1..Len(d) |-> IF i < c THEN i ELSE i + 1]
  <2>7. Len(d) = Len(s) - 1
    BY <2>3, <2>4, <2>5, <2>6
  <2>8. m \in [1..Len(d) -> 1..Len(s)]
    BY <2>3, <2>7
  <2>9. ASSUME NEW i \in 1..Len(d) PROVE d[i] = s[m[i]] /\ m[i] # c
    <3>1. CASE i < c
      <4>1. i <= Len(u) /\ u[i] = s[i]
        BY <3>1, <2>3, <2>4
      <4>2. i \in 1..Len(u) + Len(v)
        BY <2>6
      <4>3. d[i] = u[i]
        BY <4>1, <4>2, <2>6
      <4>4. m[i] = i
        BY <3>1
      <4> QED
        BY <4>1, <4>3, <4>4, <3>1, <2>3
    <3>2. CASE ~(i < c)
      <4>1. ~(i <= Len(u)) /\ i - Len(u) \in 1..Len(s) - c /\ c + (i - Len(u)) = i + 1
        BY <3>2, <2>3, <2>4, <2>7
      <4>2. d[i] = v[i - Len(u)] /\ v[i - Len(u)] = s[i + 1]
        BY <4>1, <2>5, <2>6, <2>4, <2>3
      <4> QED
        BY <4>2, <3>2, <2>3
    <3> QED
      BY <3>1, <3>2
  <2>10. \A i, j \in 1..Len(d) : m[i] = m[j] => i = j
    BY <2>3, <2>7
  <2>11. at = {c}
    OBVIOUS
  <2> HIDE DEF m
  <2> QED
    BY <2>6, <2>8, <2>9, <2>10, <2>11 DEF Keeps, d
<1> QED
  BY <1>1, <1>2

-----------------------------------------------------------------------------
(* Lemmas about the actor                                                   *)

(* Items of one sequence are items of another. *)
Within(s, t) == \A i \in 1..Len(s) : \E j \in 1..Len(t) : s[i] = t[j]

(* An actor that was told to forget a consumer: what is left was there. *)
Less(c, a) ==
    /\ Within(c.pending, a.pending) /\ Within(c.completed, a.completed)
    /\ c.active = a.active \/ (a.active \in ReadT /\ c.active = [a.active EXCEPT !.cancel = TRUE])

(* cancel leaves at most one request of each consumer, and none of its own. *)
LEMMA CancelledActor ==
  ASSUME NEW a \in ActorT, OneEach(a), NEW kind \in Kinds, NEW c, c = Cancelled(a, kind)
  PROVE  /\ c \in ActorT /\ OneEach(c) /\ Less(c, a)
         /\ ~QueryReading(c, kind) /\ ~Waiting(c, kind)
         /\ \A i \in 1..Len(c.completed) : c.completed[i].consumer # kind
<1> DEFINE u == Of(a.pending, kind)
<1> DEFINE v == {i \in 1..Len(a.completed) : a.completed[i].consumer = kind}
<1>1. /\ a.pending \in Seq(JobT) /\ a.completed \in Seq(AnswerT) /\ a.active \in ReadT \cup {None}
      /\ a.signalled \in BOOLEAN /\ a.stopping \in BOOLEAN
      /\ u \in SUBSET (1..Len(a.pending)) /\ v \in SUBSET (1..Len(a.completed))
  BY DEF ActorT, Of
<1>2. c = [a EXCEPT !.pending = Dropped(a.pending, u), !.completed = Dropped(a.completed, v),
                    !.active = IF a.active.kind = kind THEN [a.active EXCEPT !.cancel = TRUE]
                               ELSE a.active]
  BY DEF Cancelled, Without
<1>3. /\ c = [pending |-> Dropped(a.pending, u), completed |-> Dropped(a.completed, v),
              active |-> IF a.active.kind = kind THEN [a.active EXCEPT !.cancel = TRUE] ELSE a.active,
              signalled |-> a.signalled, stopping |-> a.stopping]
  BY <1>2 DEF ActorT
<1>4. /\ c.pending = Dropped(a.pending, u) /\ c.completed = Dropped(a.completed, v)
      /\ c.active = IF a.active.kind = kind THEN [a.active EXCEPT !.cancel = TRUE] ELSE a.active
      /\ c.signalled = a.signalled /\ c.stopping = a.stopping
  BY <1>3
<1>5. /\ \A i, j \in u : i = j
      /\ \A i, j \in v : i = j
  BY DEF OneEach, Of
<1> HIDE DEF u, v
<1>8. /\ c.pending \in Seq(JobT) /\ Keeps(c.pending, a.pending, u)
      /\ c.completed \in Seq(AnswerT) /\ Keeps(c.completed, a.completed, v)
  BY <1>1, <1>4, <1>5, DroppedItems
<1>6. PICK m \in [1..Len(c.pending) -> 1..Len(a.pending)] :
         /\ \A i \in 1..Len(c.pending) : c.pending[i] = a.pending[m[i]] /\ m[i] \notin u
         /\ \A i, j \in 1..Len(c.pending) : m[i] = m[j] => i = j
  BY <1>8 DEF Keeps
<1>7. PICK n \in [1..Len(c.completed) -> 1..Len(a.completed)] :
         /\ \A i \in 1..Len(c.completed) : c.completed[i] = a.completed[n[i]] /\ n[i] \notin v
         /\ \A i, j \in 1..Len(c.completed) : n[i] = n[j] => i = j
  BY <1>8 DEF Keeps
<1>9. c.active \in ReadT \cup {None}
  BY <1>1, <1>4 DEF ReadT, None, Kinds
<1>10. c \in ActorT
  BY <1>1, <1>3, <1>4, <1>8, <1>9 DEF ActorT
<1>11. c.active = a.active \/ (a.active \in ReadT /\ c.active = [a.active EXCEPT !.cancel = TRUE])
  BY <1>1, <1>4 DEF None, Kinds
<1>12. ~QueryReading(c, kind)
  BY <1>1, <1>4 DEF QueryReading, ReadT, None, Kinds
<1>13. \A k \in Kinds : QueryReading(c, k) => QueryReading(a, k)
  BY <1>11, <1>1 DEF QueryReading, ReadT, None, Kinds
<1>14. ~Waiting(c, kind)
  BY <1>6 DEF Waiting, u, Of
<1>15. \A i \in 1..Len(c.completed) : c.completed[i].consumer # kind
  BY <1>7 DEF v
<1>16. \A k \in Kinds : Waiting(c, k) => Waiting(a, k)
  BY <1>6 DEF Waiting
<1>17. Less(c, a)
  BY <1>6, <1>7, <1>11 DEF Less, Within
<1>18. OneEach(c)
  <2>1. ASSUME NEW i \in 1..Len(c.pending), NEW j \in 1..Len(c.pending),
               c.pending[i].kind = c.pending[j].kind
        PROVE  i = j
    <3>1. /\ m[i] \in 1..Len(a.pending) /\ m[j] \in 1..Len(a.pending)
          /\ a.pending[m[i]].kind = a.pending[m[j]].kind
      BY <2>1, <1>6
    <3>2. m[i] = m[j]
      BY <3>1 DEF OneEach
    <3> QED
      BY <3>2, <1>6
  <2>2. ASSUME NEW i \in 1..Len(c.completed), NEW j \in 1..Len(c.completed),
               c.completed[i].consumer = c.completed[j].consumer
        PROVE  i = j
    <3>1. /\ n[i] \in 1..Len(a.completed) /\ n[j] \in 1..Len(a.completed)
          /\ a.completed[n[i]].consumer = a.completed[n[j]].consumer
      BY <2>2, <1>7
    <3>2. n[i] = n[j]
      BY <3>1 DEF OneEach
    <3> QED
      BY <3>2, <1>7
  <2>3. ASSUME NEW k \in Kinds PROVE ~(QueryReading(c, k) /\ Waiting(c, k))
    BY <1>13, <1>16 DEF OneEach
  <2>4. ASSUME NEW k \in Kinds, QueryReading(c, k) \/ Waiting(c, k), NEW i \in 1..Len(c.completed)
        PROVE  c.completed[i].consumer # k
    BY <2>4, <1>13, <1>16, <1>7 DEF OneEach
  <2> QED
    BY <2>1, <2>2, <2>3, <2>4 DEF OneEach
<1> QED
  BY <1>10, <1>12, <1>14, <1>15, <1>17, <1>18

(* What an actor keeps after cancel has the properties it had; after a      *)
(* cancelled query nothing of a query is left, whichever is the latest.     *)
LEMMA LessKeeps ==
  ASSUME NEW a \in ActorT, NEW c \in ActorT, Less(c, a), NEW cov, NEW latest
  PROVE  /\ ActorFits(a, cov) => ActorFits(c, cov)
         /\ OnlyLatest(a, latest) => OnlyLatest(c, latest)
<1>1. ActorFits(a, cov) => ActorFits(c, cov)
  BY DEF Less, Within, ActorFits, ReadT
<1>2. OnlyLatest(a, latest) => OnlyLatest(c, latest)
  BY DEF Less, Within, OnlyLatest, ReadT, QueryReading
<1> QED
  BY <1>1, <1>2

(* Cancelling the queries of an actor that fits leaves no work on a query,   *)
(* whatever the dispatcher then takes as its latest.                         *)
LEMMA CancelledQuery ==
  ASSUME NEW a \in ActorT, OneEach(a), NEW old, OnlyLatest(a, old), NEW new,
         NEW c, c = Cancelled(a, "query")
  PROVE  OnlyLatest(c, new)
<1>1. /\ c \in ActorT /\ Less(c, a)
      /\ ~QueryReading(c, "query") /\ ~Waiting(c, "query")
      /\ \A i \in 1..Len(c.completed) : c.completed[i].consumer # "query"
  BY CancelledActor DEF Kinds
<1>2. OnlyLatest(c, old)
  BY <1>1, LessKeeps
<1> QED
  BY <1>1, <1>2 DEF OnlyLatest, Waiting

(* submit puts the newest request last, in the place of what its consumer   *)
(* had.                                                                     *)
LEMMA SubmittedActor ==
  ASSUME NEW a \in ActorT, OneEach(a), NEW kind \in Kinds, NEW id \in Nat, NEW token \in Nat,
         NEW s, s = Submitted(a, kind, id, token)
  PROVE  /\ s \in ActorT /\ OneEach(s)
         /\ s.completed = Cancelled(a, kind).completed /\ s.active = Cancelled(a, kind).active
         /\ Len(s.pending) = Len(Cancelled(a, kind).pending) + 1
         /\ \A i \in 1..Len(s.pending) :
               s.pending[i] = IF i <= Len(Cancelled(a, kind).pending)
                              THEN Cancelled(a, kind).pending[i]
                              ELSE [kind |-> kind, id |-> id, token |-> token]
<1>1. PICK c : c = Cancelled(a, kind)
  OBVIOUS
<1> DEFINE job == [kind |-> kind, id |-> id, token |-> token]
<1>2. /\ c \in ActorT /\ OneEach(c) /\ ~QueryReading(c, kind) /\ ~Waiting(c, kind)
      /\ \A i \in 1..Len(c.completed) : c.completed[i].consumer # kind
  BY <1>1, CancelledActor
<1>3. job \in JobT /\ job.kind = kind
  BY DEF JobT
<1>4. s = [c EXCEPT !.pending = Append(c.pending, job)]
  BY <1>1 DEF Submitted
<1> HIDE DEF job
<1>5. /\ c.pending \in Seq(JobT) /\ c.completed \in Seq(AnswerT)
      /\ s = [pending |-> Append(c.pending, job), active |-> c.active, completed |-> c.completed,
              signalled |-> c.signalled, stopping |-> c.stopping]
      /\ c.active \in ReadT \cup {None} /\ c.signalled \in BOOLEAN /\ c.stopping \in BOOLEAN
  BY <1>2, <1>4 DEF ActorT
<1>6. /\ s.pending = Append(c.pending, job) /\ s.completed = c.completed /\ s.active = c.active
      /\ s.pending \in Seq(JobT) /\ Len(s.pending) = Len(c.pending) + 1
      /\ \A i \in 1..Len(s.pending) : s.pending[i] = IF i <= Len(c.pending) THEN c.pending[i] ELSE job
  BY <1>3, <1>5
<1>7. s \in ActorT
  BY <1>5, <1>6 DEF ActorT
<1>8. Len(c.pending) \in Nat
  BY <1>5
<1>9. \A k \in Kinds : QueryReading(s, k) <=> QueryReading(c, k)
  BY <1>6 DEF QueryReading
<1>10. \A k \in Kinds : Waiting(s, k) => Waiting(c, k) \/ k = kind
  BY <1>3, <1>6, <1>8 DEF Waiting
<1>11. \A i, j \in 1..Len(s.pending) : s.pending[i].kind = s.pending[j].kind => i = j
  <2> SUFFICES ASSUME NEW i \in 1..Len(s.pending), NEW j \in 1..Len(s.pending),
                      s.pending[i].kind = s.pending[j].kind
               PROVE  i = j
    OBVIOUS
  <2>1. ASSUME NEW k \in 1..Len(c.pending) PROVE c.pending[k].kind # kind
    BY <1>2 DEF Waiting
  <2>2. CASE i <= Len(c.pending) /\ j <= Len(c.pending)
    <3>1. i \in 1..Len(c.pending) /\ j \in 1..Len(c.pending) /\ c.pending[i].kind = c.pending[j].kind
      BY <2>2, <1>6, <1>8
    <3> QED
      BY <3>1, <1>2 DEF OneEach
  <2>3. CASE i <= Len(c.pending) /\ ~(j <= Len(c.pending))
    BY <2>1, <2>3, <1>3, <1>6, <1>8
  <2>4. CASE ~(i <= Len(c.pending)) /\ j <= Len(c.pending)
    BY <2>1, <2>4, <1>3, <1>6, <1>8
  <2>5. CASE ~(i <= Len(c.pending)) /\ ~(j <= Len(c.pending))
    BY <2>5, <1>6, <1>8
  <2> QED
    BY <2>2, <2>3, <2>4, <2>5
<1>12. OneEach(s)
  BY <1>2, <1>6, <1>9, <1>10, <1>11 DEF OneEach
<1> QED
  BY <1>1, <1>6, <1>7, <1>12 DEF job

(* A page, or the latest query with a generation that fits, may be given.   *)
LEMMA SubmittedKeeps ==
  ASSUME NEW a \in ActorT, OneEach(a), NEW latest, OnlyLatest(a, latest), NEW cov, ActorFits(a, cov),
         NEW kind \in Kinds, NEW id \in Nat, NEW token \in Nat,
         kind = "query" => id = latest /\ Fits(cov, id, token),
         NEW s, s = Submitted(a, kind, id, token)
  PROVE  s \in ActorT /\ OneEach(s) /\ OnlyLatest(s, latest) /\ ActorFits(s, cov)
<1>1. PICK c : c = Cancelled(a, kind)
  OBVIOUS
<1>2. c \in ActorT /\ Less(c, a)
  BY <1>1, CancelledActor
<1>3. OnlyLatest(c, latest) /\ ActorFits(c, cov)
  BY <1>2, LessKeeps
<1>4. /\ s \in ActorT /\ OneEach(s) /\ s.completed = c.completed /\ s.active = c.active
      /\ Len(s.pending) = Len(c.pending) + 1
      /\ \A i \in 1..Len(s.pending) :
            s.pending[i] = IF i <= Len(c.pending) THEN c.pending[i]
                           ELSE [kind |-> kind, id |-> id, token |-> token]
  BY <1>1, SubmittedActor
<1>5. Len(c.pending) \in Nat
  BY <1>2 DEF ActorT
<1>6. ASSUME NEW i \in 1..Len(s.pending), s.pending[i].kind = "query"
      PROVE  s.pending[i].id = latest /\ Fits(cov, s.pending[i].id, s.pending[i].token)
  <2>1. CASE i <= Len(c.pending)
    <3>1. i \in 1..Len(c.pending) /\ s.pending[i] = c.pending[i]
      BY <2>1, <1>4, <1>5
    <3> QED
      BY <3>1, <1>6, <1>3 DEF OnlyLatest, ActorFits
  <2>2. CASE ~(i <= Len(c.pending))
    <3>1. s.pending[i] = [kind |-> kind, id |-> id, token |-> token]
      BY <2>2, <1>4
    <3> QED
      BY <3>1, <1>6
  <2> QED
    BY <2>1, <2>2
<1>7. OnlyLatest(s, latest)
  BY <1>3, <1>4, <1>6 DEF OnlyLatest, QueryReading
<1>8. ActorFits(s, cov)
  BY <1>3, <1>4, <1>6 DEF ActorFits
<1> QED
  BY <1>4, <1>7, <1>8

-----------------------------------------------------------------------------
(* The invariant holds in the initial state and is kept by every step       *)

(* The states of a fresh child. *)
LEMMA NewChild ==
  /\ NewDispatcher \in [pc : {"wait"}, ready : {{}}, query : {0}, page : {0}, latest : {0},
                        aggregate : {0}, blocked : {0}, current : {0}]
  /\ NewActor \in ActorT /\ OneEach(NewActor)
  /\ \A latest : OnlyLatest(NewActor, latest)
  /\ \A cov : ActorFits(NewActor, cov)
<1>1. NewActor.pending = <<>> /\ NewActor.completed = <<>> /\ NewActor.active = None
  BY DEF NewActor
<1>2. NewActor \in ActorT
  BY DEF NewActor, ActorT
<1> QED
  BY <1>1, <1>2
     DEF NewDispatcher, OneEach, OnlyLatest, ActorFits, QueryReading, Waiting, None, Kinds

(* A new dispatcher and a new writer have their types. *)
LEMMA NewDispatcherType ==
  ASSUME MaxQueries \in Nat
  PROVE  NewDispatcher \in DispatcherT /\ FreshWriter \in QueryWriterT
BY DEF NewDispatcher, DispatcherT, FreshWriter, QueryWriterT, Ids

(* Nothing is asked, published or answered at the beginning. *)
LEMMA QueryInitInv == ASSUME MaxQueries \in Nat, QueryInit PROVE QueryInv
<1>1. QueryTypes
  BY NewChild, NewDispatcherType
     DEF QueryInit, QueryTypes, WindowType, PipeType, ChildType, Ids, Queries
<1>2. ActorInv
  BY NewChild DEF QueryInit, ActorInv
<1>3. DispatcherInv /\ WriterInv /\ SentInv
  BY NewChild
     DEF QueryInit, DispatcherInv, WriterInv, SentInv, FreshWriter, None, Queries, NewDispatcher
<1>4. MailInv
  BY DEF QueryInit, MailInv, OneKind
<1> QED
  BY <1>1, <1>2, <1>3, <1>4 DEF QueryInv

(* enqueue_latest leaves one command of each kind. *)
LEMMA Enqueued ==
  ASSUME NEW cmds \in Seq(CommandT), OneKind(cmds), NEW c \in CommandT
  PROVE  Enqueue(cmds, c) \in Seq(CommandT) /\ OneKind(Enqueue(cmds, c))
<1> DEFINE at == Of(cmds, c.kind)
<1> DEFINE d == Without(cmds, c.kind)
<1> DEFINE e == Enqueue(cmds, c)
<1>1. at \in SUBSET (1..Len(cmds)) /\ \A i, j \in at : i = j
  BY DEF Of, OneKind
<1>2. d \in Seq(CommandT) /\ Keeps(d, cmds, at)
  BY <1>1, DroppedItems DEF Without
<1>3. PICK m \in [1..Len(d) -> 1..Len(cmds)] :
         /\ \A i \in 1..Len(d) : d[i] = cmds[m[i]] /\ m[i] \notin at
         /\ \A i, j \in 1..Len(d) : m[i] = m[j] => i = j
  BY <1>2 DEF Keeps
<1>4. e = Append(d, c)
  BY DEF Enqueue
<1> HIDE DEF d, e
<1>5. /\ e \in Seq(CommandT) /\ Len(e) = Len(d) + 1 /\ Len(d) \in Nat
      /\ \A i \in 1..Len(e) : e[i] = IF i <= Len(d) THEN d[i] ELSE c
  BY <1>2, <1>4
<1>6. \A i \in 1..Len(d) : d[i].kind # c.kind
  BY <1>3 DEF Of
<1>7. ASSUME NEW i \in 1..Len(d), NEW j \in 1..Len(d), d[i].kind = d[j].kind
      PROVE  i = j
  <2>1. m[i] \in 1..Len(cmds) /\ m[j] \in 1..Len(cmds) /\ cmds[m[i]].kind = cmds[m[j]].kind
    BY <1>3, <1>7
  <2>2. m[i] = m[j]
    BY <2>1 DEF OneKind
  <2> QED
    BY <2>2, <1>3
<1>8. ASSUME NEW i \in 1..Len(e), NEW j \in 1..Len(e), e[i].kind = e[j].kind
      PROVE  i = j
  <2>1. CASE i <= Len(d) /\ j <= Len(d)
    <3>1. i \in 1..Len(d) /\ j \in 1..Len(d) /\ d[i].kind = d[j].kind
      BY <2>1, <1>5, <1>8
    <3> QED
      BY <3>1, <1>7
  <2>2. CASE i <= Len(d) /\ ~(j <= Len(d))
    <3>1. i \in 1..Len(d) /\ e[i] = d[i] /\ e[j] = c
      BY <2>2, <1>5, <1>8
    <3> QED
      BY <3>1, <1>6, <1>8
  <2>3. CASE ~(i <= Len(d)) /\ j <= Len(d)
    <3>1. j \in 1..Len(d) /\ e[j] = d[j] /\ e[i] = c
      BY <2>3, <1>5, <1>8
    <3> QED
      BY <3>1, <1>6, <1>8
  <2>4. CASE ~(i <= Len(d)) /\ ~(j <= Len(d))
    BY <2>4, <1>5
  <2> QED
    BY <2>1, <2>2, <2>3, <2>4
<1>9. OneKind(e)
  BY <1>8 DEF OneKind
<1> QED
  BY <1>5, <1>9 DEF e

(* The steps of the window and the bridge change nothing the child holds.   *)
LEMMA WindowStep ==
  ASSUME MaxQueries \in Nat, QueryInv, Request \/ CancelQueries \/ RequestPage \/ RequestSnapshot
  PROVE  QueryInv'
<1>1. /\ asked \in [query : Ids, page : Nat] /\ mail \in [query : Ids, cmds : Seq(CommandT)]
      /\ OneKind(mail.cmds)
  BY DEF QueryInv, QueryTypes, WindowType, MailInv
<1>2. /\ UNCHANGED <<childVars, gen, covered>>
      /\ WindowType' /\ MailInv'
  <2>1. CASE Request
    BY <2>1, <1>1 DEF Request, Act, QueryInv, QueryTypes, WindowType, MailInv, Ids
  <2>2. CASE CancelQueries
    <3> DEFINE e == Enqueue(mail.cmds, Cmd("close", 0))
    <3>1. e \in Seq(CommandT) /\ OneKind(e)
      BY <1>1, Enqueued DEF Cmd, CommandT
    <3> HIDE DEF e
    <3>2. mail' = [query |-> 0, cmds |-> e] /\ last' = 0
      BY <2>2 DEF CancelQueries, e
    <3> QED
      BY <3>1, <3>2, <2>2 DEF CancelQueries, QueryInv, QueryTypes, WindowType, MailInv, Ids
  <2>3. CASE RequestPage
    <3>1. asked' = [asked EXCEPT !.page = @ + 1] /\ asked'.page \in Nat
      BY <2>3, <1>1 DEF RequestPage
    <3> DEFINE e == Enqueue(mail.cmds, Cmd("page", asked'.page))
    <3>2. PICK c : c = Cmd("page", asked'.page)
      OBVIOUS
    <3>3. c \in CommandT
      BY <3>1, <3>2 DEF Cmd, CommandT
    <3>4. e \in Seq(CommandT) /\ OneKind(e)
      BY <1>1, <3>2, <3>3, Enqueued
    <3>5. mail' = [mail EXCEPT !.cmds = e]
      BY <2>3 DEF RequestPage
    <3> HIDE DEF e
    <3> QED
      BY <1>1, <3>1, <3>4, <3>5, <2>3 DEF RequestPage, QueryInv, QueryTypes, WindowType, MailInv
  <2>4. CASE RequestSnapshot
    <3> DEFINE e == Enqueue(mail.cmds, Cmd("sync", 0))
    <3>1. e \in Seq(CommandT) /\ OneKind(e)
      BY <1>1, Enqueued DEF Cmd, CommandT
    <3> HIDE DEF e
    <3>2. mail' = [mail EXCEPT !.cmds = e]
      BY <2>4 DEF RequestSnapshot, e
    <3> QED
      BY <1>1, <3>1, <3>2, <2>4 DEF RequestSnapshot, QueryInv, QueryTypes, WindowType, MailInv
  <2> QED
    BY <2>1, <2>2, <2>3, <2>4
<1> QED
  BY <1>2
     DEF childVars, QueryInv, QueryTypes, PipeType, ChildType, ActorInv, DispatcherInv, WriterInv,
         SentInv

(* The bridge sends a command; commands of a kind stay unique. *)
LEMMA SendStep == ASSUME MaxQueries \in Nat, QueryInv, Send PROVE QueryInv'
<1>1. /\ mail \in [query : Ids, cmds : Seq(CommandT)] /\ OneKind(mail.cmds)
      /\ toChild \in Seq(CommandT \cup QueryT)
  BY DEF QueryInv, QueryTypes, WindowType, MailInv, PipeType
<1>2. mail' \in [query : Ids, cmds : Seq(CommandT)] /\ OneKind(mail'.cmds)
      /\ toChild' \in Seq(CommandT \cup QueryT)
  <2>1. CASE /\ mail.cmds # <<>> /\ toChild' = Append(toChild, Head(mail.cmds))
             /\ mail' = [mail EXCEPT !.cmds = Tail(@)]
    <3>1. PICK s : s = mail.cmds
      OBVIOUS
    <3>2. /\ s \in Seq(CommandT) /\ s # <<>> /\ Head(s) \in CommandT /\ Tail(s) \in Seq(CommandT)
          /\ Len(Tail(s)) = Len(s) - 1 /\ \A i \in 1..Len(Tail(s)) : Tail(s)[i] = s[i + 1]
      BY <1>1, <2>1, <3>1
    <3>3. OneKind(Tail(s))
      <4> SUFFICES ASSUME NEW i \in 1..Len(Tail(s)), NEW j \in 1..Len(Tail(s)),
                          Tail(s)[i].kind = Tail(s)[j].kind
                   PROVE  i = j
        BY DEF OneKind
      <4>1. i + 1 \in 1..Len(s) /\ j + 1 \in 1..Len(s) /\ s[i + 1].kind = s[j + 1].kind
        BY <3>2
      <4> QED
        BY <4>1, <1>1, <3>1 DEF OneKind
    <3>4. mail'.cmds = Tail(s) /\ mail'.query = mail.query /\ mail' \in [query : Ids, cmds : Seq(CommandT)]
      BY <2>1, <1>1, <3>1, <3>2
    <3> QED
      BY <3>1, <3>2, <3>3, <3>4, <2>1, <1>1
  <2>2. CASE /\ mail.cmds = <<>> /\ mail.query # 0
             /\ toChild' = Append(toChild, Cmd("query", mail.query))
             /\ mail' = [mail EXCEPT !.query = 0]
    <3>1. Cmd("query", mail.query) \in QueryT
      BY <1>1, <2>2 DEF Cmd, QueryT, Ids, Queries
    <3> QED
      BY <3>1, <2>2, <1>1 DEF Ids
  <2> QED
    BY <2>1, <2>2 DEF Send
<1> QED
  BY <1>2
     DEF Send, QueryInv, QueryTypes, WindowType, MailInv, PipeType, ChildType, ActorInv,
         DispatcherInv, WriterInv, SentInv

(* The window receives an answer. *)
LEMMA DeliverStep == ASSUME QueryInv, Deliver PROVE QueryInv'
<1>1. /\ toGui \in Seq(AnswerT) /\ toGui # <<>> /\ openPage \in Nat /\ toGui' = Tail(toGui)
  BY DEF QueryInv, QueryTypes, WindowType, PipeType, Deliver
<1>2. /\ toGui' \in Seq(AnswerT) /\ Len(toGui') = Len(toGui) - 1
      /\ \A i \in 1..Len(toGui') : i + 1 \in 1..Len(toGui) /\ toGui'[i] = toGui[i + 1]
  BY <1>1
<1>3. SentInv'
  BY <1>2 DEF QueryInv, SentInv, Deliver
<1>4. openPage' \in Nat
  BY <1>1 DEF Deliver
<1> QED
  BY <1>2, <1>3, <1>4
     DEF Deliver, QueryInv, QueryTypes, WindowType, MailInv, PipeType, ChildType, ActorInv,
         DispatcherInv, WriterInv

(* A new child starts with empty connections; what was asked last is asked   *)
(* again.                                                                    *)
LEMMA QueryRestartStep == ASSUME MaxQueries \in Nat, QueryInv, RestartChild PROVE QueryInv'
<1>1. /\ mail \in [query : Ids, cmds : Seq(CommandT)] /\ OneKind(mail.cmds)
      /\ last \in Ids /\ openPage \in Nat
  BY DEF QueryInv, QueryTypes, WindowType, MailInv
<1>2. mail' \in [query : Ids, cmds : Seq(CommandT)] /\ OneKind(mail'.cmds)
  <2>1. PICK c : c = Cmd("page", openPage)
    OBVIOUS
  <2>2. c \in CommandT
    BY <1>1, <2>1 DEF Cmd, CommandT
  <2> DEFINE e == Enqueue(mail.cmds, c)
  <2>3. e \in Seq(CommandT) /\ OneKind(e)
    BY <1>1, <2>2, Enqueued
  <2> HIDE DEF e
  <2>4. Reissued = [query |-> last, cmds |-> IF openPage = 0 THEN mail.cmds ELSE e]
    BY <2>1 DEF Reissued, e
  <2> QED
    BY <1>1, <2>3, <2>4 DEF RestartChild
<1>3. toChild' = <<>> /\ toGui' = <<>>
  BY DEF RestartChild
<1>4. /\ D' = NewDispatcher /\ A' = NewActor /\ writer' = FreshWriter /\ demand' = 0 /\ output' = None
      /\ UNCHANGED <<gen, covered, asked, last, openPage>>
  BY DEF RestartChild
<1>5. QueryTypes'
  BY <1>1, <1>2, <1>3, <1>4, NewChild, NewDispatcherType
     DEF QueryInv, QueryTypes, WindowType, PipeType, ChildType, Ids
<1>6. ActorInv'
  BY <1>4, NewChild DEF ActorInv
<1>7. DispatcherInv'
  BY <1>4 DEF DispatcherInv, NewDispatcher
<1>8. WriterInv'
  BY <1>4 DEF QueryInv, WriterInv, FreshWriter, None
<1>9. SentInv'
  BY <1>3 DEF SentInv
<1> QED
  BY <1>2, <1>5, <1>6, <1>7, <1>8, <1>9 DEF QueryInv, MailInv

(* The actor takes a request: what waited is now read. *)
LEMMA StartedActor ==
  ASSUME QueryInv, ActorStart
  PROVE  A' \in ActorT /\ OneEach(A') /\ OnlyLatest(A', D.latest) /\ ActorFits(A', covered)
<1>1. /\ A \in ActorT /\ OneEach(A) /\ OnlyLatest(A, D.latest) /\ ActorFits(A, covered)
      /\ A.active = None
  BY DEF QueryInv, QueryTypes, ChildType, ActorInv, ActorStart, ActorT, ReadT, Kinds
<1>2. PICK s : s = A.pending
  OBVIOUS
<1>3. PICK job : job = Head(s)
  OBVIOUS
<1>4. /\ s \in Seq(JobT) /\ s # <<>> /\ job \in JobT /\ job = s[1] /\ 1 \in 1..Len(s)
      /\ Tail(s) \in Seq(JobT) /\ Len(Tail(s)) = Len(s) - 1
      /\ \A i \in 1..Len(Tail(s)) : i + 1 \in 1..Len(s) /\ i + 1 # 1 /\ Tail(s)[i] = s[i + 1]
  BY <1>1, <1>2, <1>3 DEF ActorT, ActorStart
<1>5. PICK b \in BOOLEAN : b = (job.token = gen)
  OBVIOUS
<1> DEFINE r == [kind |-> job.kind, id |-> job.id, token |-> job.token, cancel |-> FALSE, pinned |-> b]
<1>6. r \in ReadT
  BY <1>4 DEF ReadT, JobT
<1>7. /\ r.kind = job.kind /\ r.id = job.id /\ r.token = job.token /\ ~r.cancel
  OBVIOUS
<1>8. A' = [A EXCEPT !.pending = Tail(s), !.active = r]
  BY <1>2, <1>3, <1>5 DEF ActorStart
<1> HIDE DEF r
<1>9. /\ A'.pending = Tail(s) /\ A'.active = r /\ A'.completed = A.completed
      /\ A' \in ActorT
  BY <1>1, <1>4, <1>6, <1>8 DEF ActorT
<1>10. PICK q : q = Tail(s)
  OBVIOUS
<1>11. \A i \in 1..Len(q) : i + 1 \in 1..Len(s) /\ i + 1 # 1 /\ q[i] = s[i + 1]
  BY <1>4, <1>10
<1>12. \A i \in 1..Len(q) : q[i].kind # job.kind
  BY <1>1, <1>2, <1>4, <1>11 DEF OneEach
<1>13. OneEach(A')
  <2>1. ASSUME NEW i \in 1..Len(q), NEW j \in 1..Len(q), q[i].kind = q[j].kind PROVE i = j
    <3>1. i + 1 = j + 1
      BY <1>1, <1>2, <1>11, <2>1 DEF OneEach
    <3> QED
      BY <3>1, <1>4, <1>10
  <2>2. ASSUME NEW kind \in Kinds PROVE QueryReading(A', kind) => kind = job.kind /\ Waiting(A, kind)
    BY <1>2, <1>4, <1>7, <1>9 DEF QueryReading, Waiting
  <2>3. ASSUME NEW kind \in Kinds PROVE Waiting(A', kind) => kind # job.kind /\ Waiting(A, kind)
    BY <1>2, <1>9, <1>10, <1>11, <1>12 DEF Waiting
  <2> QED
    BY <1>1, <1>9, <1>10, <2>1, <2>2, <2>3 DEF OneEach
<1>14. OnlyLatest(A', D.latest)
  BY <1>1, <1>2, <1>4, <1>7, <1>9, <1>10, <1>11 DEF OnlyLatest, QueryReading
<1>15. ActorFits(A', covered)
  BY <1>1, <1>2, <1>4, <1>7, <1>9, <1>10, <1>11 DEF ActorFits
<1> QED
  BY <1>9, <1>13, <1>14, <1>15

(* The read ends: what was read is completed, or nothing of it is left.     *)
LEMMA FinishedActor ==
  ASSUME QueryInv, ActorFinish
  PROVE  A' \in ActorT /\ OneEach(A') /\ OnlyLatest(A', D.latest) /\ ActorFits(A', covered)
<1>1. /\ A \in ActorT /\ OneEach(A) /\ OnlyLatest(A, D.latest) /\ ActorFits(A, covered)
      /\ A.active \in ReadT /\ A.active.kind \in Kinds
  BY DEF QueryInv, QueryTypes, ChildType, ActorInv, ActorFinish, ActorT, ReadT, Kinds, None
<1> DEFINE m == [kind |-> Outcome(A.active), consumer |-> A.active.kind,
                 id |-> A.active.id, token |-> A.active.token]
<1>2. CASE A.active.cancel
  <2>1. A' = [A EXCEPT !.active = None]
    BY <1>2 DEF ActorFinish
  <2>2. /\ A'.pending = A.pending /\ A'.active = None /\ A'.completed = A.completed /\ A' \in ActorT
    BY <1>1, <2>1 DEF ActorT
  <2>3. \A kind \in Kinds : ~QueryReading(A', kind) /\ (Waiting(A', kind) <=> Waiting(A, kind))
    BY <2>2 DEF QueryReading, Waiting, None, Kinds
  <2> QED
    BY <1>1, <2>2, <2>3 DEF OneEach, OnlyLatest, ActorFits, Kinds, None
<1>3. CASE ~A.active.cancel
  <2>1. A' = [A EXCEPT !.active = None, !.completed = Append(A.completed, m), !.signalled = TRUE]
    BY <1>3 DEF ActorFinish
  <2>2. m \in AnswerT
    BY <1>1 DEF AnswerT, ReadT, Outcome, Kinds
  <2>3. /\ m.kind \in {"result", "stale"} => A.active.kind = "query"
        /\ m.consumer = A.active.kind /\ m.id = A.active.id /\ m.token = A.active.token
    <3>1. A.active.kind = "page" => Outcome(A.active) = "page"
      BY DEF Outcome
    <3>2. m.kind = Outcome(A.active)
      OBVIOUS
    <3> QED
      BY <1>1, <3>1, <3>2 DEF Kinds
  <2> HIDE DEF m
  <2>4. PICK s : s = A.completed
    OBVIOUS
  <2>5. PICK q : q = Append(s, m)
    OBVIOUS
  <2>6. /\ s \in Seq(AnswerT) /\ q \in Seq(AnswerT) /\ Len(q) = Len(s) + 1 /\ Len(s) \in Nat
        /\ \A i \in 1..Len(s) : q[i] = s[i]
        /\ q[Len(s) + 1] = m
    BY <1>1, <2>2, <2>4, <2>5 DEF ActorT
  <2>7. \A i \in 1..Len(q) : (i \in 1..Len(s) /\ q[i] = s[i]) \/ (i = Len(s) + 1 /\ q[i] = m)
    BY <2>6
  <2>8. /\ A'.pending = A.pending /\ A'.active = None /\ A'.completed = q /\ A' \in ActorT
    BY <1>1, <2>1, <2>4, <2>5, <2>6 DEF ActorT
  <2>9. QueryReading(A, A.active.kind)
    BY <1>3 DEF QueryReading
  <2>10. ~Waiting(A, A.active.kind) /\ \A i \in 1..Len(s) : s[i].consumer # A.active.kind
    BY <1>1, <2>4, <2>9 DEF OneEach
  <2>11. \A kind \in Kinds : ~QueryReading(A', kind) /\ (Waiting(A', kind) <=> Waiting(A, kind))
    BY <2>8 DEF QueryReading, Waiting, None, Kinds
  <2>12. ASSUME NEW i \in 1..Len(q), NEW j \in 1..Len(q), q[i].consumer = q[j].consumer
         PROVE  i = j
    BY <1>1, <2>3, <2>4, <2>7, <2>10, <2>12 DEF OneEach
  <2>13. ASSUME NEW kind \in Kinds, Waiting(A, kind), NEW i \in 1..Len(q) PROVE q[i].consumer # kind
    BY <1>1, <2>3, <2>4, <2>7, <2>10, <2>13 DEF OneEach
  <2>14. OneEach(A')
    BY <1>1, <2>8, <2>11, <2>12, <2>13 DEF OneEach
  <2>15. OnlyLatest(A', D.latest)
    BY <1>1, <2>3, <2>4, <2>7, <2>8, <2>9, <2>11 DEF OnlyLatest, Kinds
  <2>16. ActorFits(A', covered)
    BY <1>1, <2>3, <2>4, <2>7, <2>8 DEF ActorFits, None
  <2> QED
    BY <2>8, <2>14, <2>15, <2>16
<1> QED
  BY <1>2, <1>3

(* A failed actor holds its error only. *)
LEMMA FailedActor ==
  ASSUME ActorFails, NEW latest, NEW cov
  PROVE  A' \in ActorT /\ OneEach(A') /\ OnlyLatest(A', latest) /\ ActorFits(A', cov)
<1> DEFINE f == <<Fatal>>
<1>1. Fatal \in AnswerT
  BY DEF Fatal, AnswerT
<1>2. f \in Seq(AnswerT) /\ Len(f) = 1 /\ f[1] = Fatal
  BY <1>1
<1>3. A' = [pending |-> <<>>, active |-> None, completed |-> f, signalled |-> TRUE, stopping |-> TRUE]
  BY DEF ActorFails, NewActor
<1> HIDE DEF f
<1>4. A'.pending = <<>> /\ A'.active = None /\ A'.completed = f /\ A' \in ActorT
  BY <1>2, <1>3 DEF ActorT
<1> QED
  <2>1. \A i \in 1..Len(f) : f[i].kind = "fatal" /\ f[i].consumer = "fatal"
    BY <1>2 DEF Fatal
  <2>2. \A i, j \in 1..Len(f) : i = j
    BY <1>2
  <2> QED
    BY <1>4, <2>1, <2>2 DEF OneEach, OnlyLatest, ActorFits, QueryReading, Waiting, None, Kinds

(* The page actor takes, finishes or fails. *)
LEMMA ActorStep == ASSUME QueryInv, ActorStart \/ ActorFinish \/ ActorFails PROVE QueryInv'
<1>1. A' \in ActorT /\ OneEach(A') /\ OnlyLatest(A', D.latest) /\ ActorFits(A', covered)
  BY StartedActor, FinishedActor, FailedActor
<1>2. UNCHANGED <<asked, last, openPage, mail, toChild, toGui, D, demand, writer, gen, output, covered>>
  BY DEF ActorStart, ActorFinish, ActorFails
<1> QED
  BY <1>1, <1>2 DEF QueryInv, QueryTypes, WindowType, MailInv, PipeType, ChildType, ActorInv,
                    DispatcherInv, WriterInv, SentInv

(* The dispatcher wakes with what is ready. *)
LEMMA WakeStep == ASSUME QueryInv, Wake PROVE QueryInv'
<1>1. D \in DispatcherT
  BY DEF QueryInv, QueryTypes, ChildType
<1>2. D' = [D EXCEPT !.pc = "commands", !.ready = Ready] /\ Ready \subseteq {"command", "output", "actor"}
  BY DEF Wake, Ready
<1>3. /\ D' \in DispatcherT /\ D'.query = D.query /\ D'.latest = D.latest /\ D'.current = D.current
      /\ D'.aggregate = D.aggregate /\ D'.ready = Ready
  BY <1>1, <1>2 DEF DispatcherT
<1>4. "output" \in Ready => output.kind = "snapshot"
  BY DEF Ready, QueryInv, QueryTypes, ChildType, PublicationT, None
<1>5. DispatcherInv'
  BY <1>3, <1>4 DEF QueryInv, DispatcherInv, Wake
<1>6. ActorInv'
  BY <1>3 DEF QueryInv, ActorInv, Wake
<1> QED
  BY <1>3, <1>5, <1>6
     DEF Wake, QueryInv, QueryTypes, WindowType, MailInv, PipeType, ChildType, WriterInv, SentInv

(* A command of a query makes it the latest and cancels the one before. *)
LEMMA CommandStep == ASSUME MaxQueries \in Nat, QueryInv, Command PROVE QueryInv'
<1>1. /\ D \in DispatcherT /\ A \in ActorT /\ writer \in QueryWriterT /\ demand \in Ids
      /\ OneEach(A) /\ OnlyLatest(A, D.latest) /\ ActorFits(A, covered)
  BY DEF QueryInv, QueryTypes, ChildType, ActorInv
<1>2. PICK s : s = toChild
  OBVIOUS
<1>3. PICK c : c = Head(s)
  OBVIOUS
<1>4. /\ s \in Seq(CommandT \cup QueryT) /\ s # <<>> /\ toChild' = Tail(s)
      /\ c \in CommandT \cup QueryT /\ Tail(s) \in Seq(CommandT \cup QueryT)
  BY <1>2, <1>3 DEF Command, QueryInv, QueryTypes, PipeType
<1>5. UNCHANGED <<asked, last, openPage, mail, toGui, gen, output, covered>>
  BY DEF Command
<1>6. /\ A' \in ActorT /\ OneEach(A') /\ OnlyLatest(A', D'.latest) /\ ActorFits(A', covered)
      /\ D' \in DispatcherT /\ D'.ready = D.ready
      /\ D'.query # 0 => D'.query = D'.latest
      /\ D'.aggregate # 0 => D'.aggregate = D.aggregate /\ D'.current = D.current
      /\ demand' \in Ids /\ writer' \in QueryWriterT
      /\ writer'.pc = writer.pc /\ writer'.token = writer.token
  <2>1. CASE c.kind = "page"
    <3>1. D' = [D EXCEPT !.page = c.id] /\ UNCHANGED <<A, demand, writer>>
      BY <2>1, <1>2, <1>3 DEF Command
    <3>2. c.id \in Nat
      BY <1>4 DEF CommandT, QueryT, Queries
    <3> QED
      BY <1>1, <3>1, <3>2 DEF DispatcherT, QueryInv, DispatcherInv
  <2>2. CASE c.kind = "close"
    <3>1. /\ SetAggregate(0) /\ A' = Cancelled(A, "query")
          /\ D' = [D EXCEPT !.query = 0, !.latest = 0, !.aggregate = 0]
      BY <2>2, <1>2, <1>3 DEF Command
    <3>2. A' \in ActorT /\ OneEach(A') /\ Less(A', A)
      BY <1>1, <3>1, CancelledActor DEF Kinds
    <3>3. OnlyLatest(A', 0) /\ ActorFits(A', covered)
      BY <1>1, <3>1, <3>2, CancelledQuery, LessKeeps
    <3>4. 0 \in Ids
      BY DEF Ids
    <3>5. /\ D' \in DispatcherT /\ D'.ready = D.ready
          /\ D'.query = 0 /\ D'.latest = 0 /\ D'.aggregate = 0
      BY <1>1, <3>1, <3>4 DEF DispatcherT
    <3>6. /\ demand' \in Ids /\ writer' \in QueryWriterT
          /\ writer'.pc = writer.pc /\ writer'.token = writer.token
      BY <1>1, <3>1, <3>4 DEF SetAggregate, QueryWriterT
    <3> QED
      BY <3>2, <3>3, <3>5, <3>6
  <2>3. CASE c.kind = "query"
    <3>1. /\ SetAggregate(c.id) /\ A' = Cancelled(A, "query")
          /\ D' = [D EXCEPT !.query = c.id, !.latest = c.id, !.blocked = 0]
      BY <2>3, <1>2, <1>3 DEF Command
    <3>2. c.id \in Ids
      BY <2>3, <1>4 DEF CommandT, QueryT, Queries, Ids
    <3>3. A' \in ActorT /\ OneEach(A') /\ Less(A', A)
      BY <1>1, <3>1, CancelledActor DEF Kinds
    <3>4. OnlyLatest(A', c.id) /\ ActorFits(A', covered)
      BY <1>1, <3>1, <3>3, CancelledQuery, LessKeeps
    <3> QED
      BY <1>1, <3>1, <3>2, <3>3, <3>4 DEF DispatcherT, SetAggregate, QueryWriterT
  <2>4. CASE c.kind = "sync"
    <3>1. writer' = [writer EXCEPT !.sync = TRUE] /\ UNCHANGED <<A, D, demand>>
      BY <2>4, <1>2, <1>3 DEF Command
    <3>2. /\ writer' \in QueryWriterT
          /\ writer'.pc = writer.pc /\ writer'.token = writer.token
      BY <1>1, <3>1 DEF QueryWriterT
    <3> QED
      BY <1>1, <3>1, <3>2 DEF QueryInv, DispatcherInv
  <2> QED
    BY <1>4, <2>1, <2>2, <2>3, <2>4 DEF CommandT, QueryT
<1>7. QueryTypes'
  BY <1>4, <1>5, <1>6 DEF QueryInv, QueryTypes, WindowType, PipeType, ChildType
<1>8. ActorInv'
  BY <1>5, <1>6 DEF ActorInv
<1>9. DispatcherInv'
  BY <1>5, <1>6 DEF QueryInv, DispatcherInv
<1>10. WriterInv' /\ SentInv' /\ MailInv'
  BY <1>5, <1>6 DEF QueryInv, WriterInv, SentInv, MailInv
<1> QED
  BY <1>7, <1>8, <1>9, <1>10 DEF QueryInv

(* The child dies; what it held is read no more. *)
LEMMA QueryDieStep == ASSUME QueryInv, ChildDies PROVE QueryInv'
BY 
   DEF ChildDies, QueryInv, QueryTypes, WindowType, MailInv, PipeType, ChildType, ActorInv,
       DispatcherInv, WriterInv, SentInv

(* A round takes the publication: its query is one that its generation      *)
(* fits.                                                                    *)
LEMMA InformedDispatcher ==
  ASSUME QueryInv, NEW d, d = Informed(D)
  PROVE  /\ d \in DispatcherT /\ d.query = D.query /\ d.latest = D.latest /\ d.page = D.page
         /\ d.aggregate # 0 => Fits(covered, d.aggregate, d.current)
<1>1. D \in DispatcherT /\ DispatcherInv /\ WriterInv
  BY DEF QueryInv, QueryTypes, ChildType
<1>2. CASE "output" \in D.ready
  <2>1. output.kind = "snapshot" /\ output \in PublicationT
    BY <1>1, <1>2 DEF DispatcherInv, QueryInv, QueryTypes, ChildType, None
  <2>2. d = [D EXCEPT !.current = output.token, !.aggregate = output.request]
    BY <1>2 DEF Informed
  <2>3. /\ d \in DispatcherT /\ d.query = D.query /\ d.latest = D.latest /\ d.page = D.page
        /\ d.aggregate = output.request /\ d.current = output.token
    BY <1>1, <2>1, <2>2 DEF DispatcherT, PublicationT
  <2> QED
    BY <1>1, <2>1, <2>3 DEF WriterInv
<1>3. CASE "output" \notin D.ready
  BY <1>1, <1>3 DEF Informed, DispatcherInv
<1> QED
  BY <1>2, <1>3

(* A stale answer of the latest query makes it wait for another             *)
(* publication.                                                             *)
LEMMA DrainedDispatcher ==
  ASSUME NEW d \in DispatcherT, NEW done \in Seq(AnswerT), NEW e, e = Drained(d, done)
  PROVE  /\ e \in DispatcherT /\ e.latest = d.latest /\ e.aggregate = d.aggregate
         /\ e.current = d.current /\ e.page = d.page
         /\ e.query = d.query \/ e.query = d.latest
<1>1. CASE Of(done, "stale") = {}
  BY <1>1 DEF Drained
<1>2. CASE Of(done, "stale") # {}
  <2>1. PICK i : i = CHOOSE j \in Of(done, "stale") : TRUE
    OBVIOUS
  <2>2. i \in Of(done, "stale")
    BY <1>2, <2>1
  <2>3. PICK m : m = done[i]
    OBVIOUS
  <2>4. m \in AnswerT
    BY <2>2, <2>3 DEF Of
  <2>5. e = Retried(d, m)
    BY <1>2, <2>1, <2>3 DEF Drained
  <2>6. CASE d.latest # 0 /\ d.latest = m.id
    <3>1. e = [d EXCEPT !.query = m.id, !.blocked = m.token]
      BY <2>5, <2>6 DEF Retried
    <3> QED
      BY <2>4, <2>6, <3>1 DEF DispatcherT, AnswerT
  <2>7. CASE ~(d.latest # 0 /\ d.latest = m.id)
    BY <2>5, <2>7 DEF Retried
  <2> QED
    BY <2>6, <2>7
<1> QED
  BY <1>1, <1>2

(* What a round sends was completed, and nothing of it is stale. *)
RoundDone == IF "actor" \in D.ready THEN A.completed ELSE <<>>
RoundActor ==
    IF "actor" \in D.ready THEN [A EXCEPT !.completed = <<>>, !.signalled = FALSE] ELSE A

(* What a round finds completed: its results answer the latest query, from   *)
(* a generation published complete for it or a later one.                    *)
LEMMA RoundCompleted ==
  ASSUME QueryInv
  PROVE  /\ RoundDone \in Seq(AnswerT) /\ Without(RoundDone, "stale") \in Seq(AnswerT)
         /\ \A i \in 1..Len(Without(RoundDone, "stale")) :
               Without(RoundDone, "stale")[i].kind = "result"
                  => /\ Without(RoundDone, "stale")[i].id = D.latest
                     /\ Fits(covered, Without(RoundDone, "stale")[i].id,
                             Without(RoundDone, "stale")[i].token)
<1>1. /\ A \in ActorT /\ OneEach(A) /\ OnlyLatest(A, D.latest) /\ ActorFits(A, covered)
  BY DEF QueryInv, QueryTypes, ChildType, ActorInv
<1>2. PICK s : s = RoundDone
  OBVIOUS
<1>3. s \in Seq(AnswerT)
  BY <1>1, <1>2 DEF RoundDone, ActorT
<1>4. \A i \in 1..Len(s) :
         /\ i \in 1..Len(A.completed) /\ s[i] = A.completed[i]
  BY <1>2 DEF RoundDone
<1>5. /\ \A i, j \in 1..Len(s) : s[i].consumer = s[j].consumer => i = j
      /\ \A i \in 1..Len(s) : s[i].kind \in {"result", "stale"}
            => s[i].consumer = "query" /\ s[i].id = D.latest
      /\ \A i \in 1..Len(s) : s[i].kind = "result" => Fits(covered, s[i].id, s[i].token)
  BY <1>1, <1>4 DEF OneEach, OnlyLatest, ActorFits
<1>6. Of(s, "stale") \in SUBSET (1..Len(s)) /\ \A i, j \in Of(s, "stale") : i = j
  BY <1>5 DEF Of
<1>7. PICK t : t = Without(s, "stale")
  OBVIOUS
<1>8. t \in Seq(AnswerT) /\ Keeps(t, s, Of(s, "stale"))
  BY <1>3, <1>6, <1>7, DroppedItems DEF Without
<1>9. ASSUME NEW i \in 1..Len(t), t[i].kind = "result"
      PROVE  t[i].id = D.latest /\ Fits(covered, t[i].id, t[i].token)
  <2>1. PICK j \in 1..Len(s) : t[i] = s[j]
    BY <1>8 DEF Keeps
  <2> QED
    BY <2>1, <1>5, <1>9
<1> QED
  BY <1>2, <1>3, <1>7, <1>8, <1>9

(* Draining the actor takes its completions away. *)
LEMMA RoundActorKeeps ==
  ASSUME QueryInv
  PROVE  /\ RoundActor \in ActorT /\ OneEach(RoundActor) /\ OnlyLatest(RoundActor, D.latest)
         /\ ActorFits(RoundActor, covered)
<1>1. /\ A \in ActorT /\ OneEach(A) /\ OnlyLatest(A, D.latest) /\ ActorFits(A, covered)
  BY DEF QueryInv, QueryTypes, ChildType, ActorInv
<1>2. CASE "actor" \in D.ready
  <2>1. PICK a : a = [A EXCEPT !.completed = <<>>, !.signalled = FALSE]
    OBVIOUS
  <2>2. PICK none \in Seq(AnswerT) : none = <<>>
    BY EmptySeq
  <2>3. a \in ActorT /\ a.pending = A.pending /\ a.active = A.active /\ a.completed = none
    BY <1>1, <2>1, <2>2 DEF ActorT
  <2>4. OneEach(a) /\ OnlyLatest(a, D.latest) /\ ActorFits(a, covered)
    BY <1>1, <2>2, <2>3 DEF OneEach, OnlyLatest, ActorFits, QueryReading, Waiting
  <2> QED
    BY <1>2, <2>1, <2>3, <2>4 DEF RoundActor
<1>3. CASE "actor" \notin D.ready
  BY <1>1, <1>3 DEF RoundActor
<1> QED
  BY <1>2, <1>3

(* What one round does, each part of it named. *)
LEMMA RoundParts ==
  ASSUME QueryInv, Round
  PROVE  \E d, b, out :
            /\ d \in DispatcherT /\ d.latest = D.latest
            /\ d.query # 0 => d.query = d.latest
            /\ d.aggregate # 0 => Fits(covered, d.aggregate, d.current)
            /\ b \in ActorT /\ OneEach(b) /\ OnlyLatest(b, D.latest) /\ ActorFits(b, covered)
            /\ A' = IF Dispatchable(d) THEN Submitted(b, "query", d.query, d.current) ELSE b
            /\ D' = [d EXCEPT !.pc = "wait", !.ready = {}, !.page = 0,
                              !.query = IF Dispatchable(d) THEN 0 ELSE d.query]
            /\ out = <<Fatal>> \/ out = Without(RoundDone, "stale")
            /\ toGui' = toGui \o out
<1>1. PICK i : i = Informed(D)
  OBVIOUS
<1>2. /\ i \in DispatcherT /\ i.query = D.query /\ i.latest = D.latest
      /\ i.aggregate # 0 => Fits(covered, i.aggregate, i.current)
  BY <1>1, InformedDispatcher
<1>3. PICK done : done = RoundDone
  OBVIOUS
<1>4. done \in Seq(AnswerT)
  BY <1>3, RoundCompleted
<1>5. PICK d : d = Drained(i, done)
  OBVIOUS
<1>6. /\ d \in DispatcherT /\ d.latest = D.latest
      /\ d.aggregate # 0 => Fits(covered, d.aggregate, d.current)
      /\ d.query = D.query \/ d.query = D.latest
  BY <1>2, <1>4, <1>5, DrainedDispatcher
<1>7. d.query # 0 => d.query = d.latest
  BY <1>6 DEF QueryInv, DispatcherInv
<1>8. PICK a : a = RoundActor
  OBVIOUS
<1>9. a \in ActorT /\ OneEach(a) /\ OnlyLatest(a, D.latest) /\ ActorFits(a, covered)
  BY <1>8, RoundActorKeeps
<1>10. PICK b : b = IF d.page = 0 THEN a ELSE Submitted(a, "page", d.page, 0)
  OBVIOUS
<1>11. b \in ActorT /\ OneEach(b) /\ OnlyLatest(b, D.latest) /\ ActorFits(b, covered)
  <2>1. CASE d.page = 0
    BY <1>9, <1>10, <2>1
  <2>2. CASE d.page # 0
    <3>1. d.page \in Nat /\ "page" \in Kinds /\ b = Submitted(a, "page", d.page, 0)
      BY <1>6, <1>10, <2>2 DEF DispatcherT, Kinds
    <3> QED
      BY <1>9, <3>1, SubmittedKeeps
  <2> QED
    BY <2>1, <2>2
<1>12. /\ A' = IF Dispatchable(d) THEN Submitted(b, "query", d.query, d.current) ELSE b
       /\ D' = [d EXCEPT !.pc = "wait", !.ready = {}, !.page = 0,
                         !.query = IF Dispatchable(d) THEN 0 ELSE d.query]
  BY <1>1, <1>3, <1>5, <1>8, <1>10, Zenon DEF Round, RoundDone, RoundActor
<1>13. PICK out : /\ out = <<Fatal>> \/ out = Without(done, "stale")
                  /\ toGui' = toGui \o out
  BY <1>3 DEF Round, RoundDone
<1> QED
  BY <1>3, <1>6, <1>7, <1>11, <1>12, <1>13

(* A round of the dispatcher. *)
LEMMA RoundStep == ASSUME MaxQueries \in Nat, QueryInv, Round PROVE QueryInv'
<1>1. PICK d, b, out :
         /\ d \in DispatcherT /\ d.latest = D.latest
         /\ d.query # 0 => d.query = d.latest
         /\ d.aggregate # 0 => Fits(covered, d.aggregate, d.current)
         /\ b \in ActorT /\ OneEach(b) /\ OnlyLatest(b, D.latest) /\ ActorFits(b, covered)
         /\ A' = IF Dispatchable(d) THEN Submitted(b, "query", d.query, d.current) ELSE b
         /\ D' = [d EXCEPT !.pc = "wait", !.ready = {}, !.page = 0,
                           !.query = IF Dispatchable(d) THEN 0 ELSE d.query]
         /\ out = <<Fatal>> \/ out = Without(RoundDone, "stale")
         /\ toGui' = toGui \o out
  BY RoundParts
<1>2. /\ UNCHANGED <<asked, last, openPage, mail, toChild, demand, writer, gen, covered>>
      /\ output' = output \/ output' = None
  BY DEF Round
<1>3. /\ D' \in DispatcherT /\ D'.latest = D.latest /\ D'.ready = {}
      /\ D'.query # 0 => D'.query = D'.latest
      /\ D'.aggregate = d.aggregate /\ D'.current = d.current
  <2>1. 0 \in Ids
    BY DEF Ids
  <2> QED
    BY <1>1, <2>1 DEF DispatcherT
<1>4. A' \in ActorT /\ OneEach(A') /\ OnlyLatest(A', D'.latest) /\ ActorFits(A', covered)
  <2>1. CASE Dispatchable(d)
    <3>1. /\ d.query = D.latest /\ d.query \in Nat /\ d.current \in Nat /\ "query" \in Kinds
          /\ Fits(covered, d.query, d.current)
      BY <1>1, <2>1 DEF Dispatchable, DispatcherT, Kinds, Ids
    <3>2. PICK x : x = Submitted(b, "query", d.query, d.current)
      OBVIOUS
    <3>3. x \in ActorT /\ OneEach(x) /\ OnlyLatest(x, D.latest) /\ ActorFits(x, covered)
      BY <1>1, <3>1, <3>2, SubmittedKeeps
    <3>4. A' = x
      BY <1>1, <2>1, <3>2
    <3> QED
      BY <1>3, <3>3, <3>4
  <2>2. CASE ~Dispatchable(d)
    BY <1>1, <1>3, <2>2
  <2> QED
    BY <2>1, <2>2
<1>5. /\ out \in Seq(AnswerT)
      /\ \A i \in 1..Len(out) : out[i].kind = "result" => Fits(covered, out[i].id, out[i].token)
  <2>1. CASE out = <<Fatal>>
    <3>1. Fatal \in AnswerT /\ Fatal.kind = "fatal"
      BY DEF Fatal, AnswerT
    <3> QED
      BY <2>1, <3>1
  <2>2. CASE out = Without(RoundDone, "stale")
    BY <2>2, RoundCompleted
  <2> QED
    BY <1>1, <2>1, <2>2
<1>6. PICK s : s = toGui
  OBVIOUS
<1>7. PICK t : t = s \o out
  OBVIOUS
<1>8. /\ s \in Seq(AnswerT) /\ t \in Seq(AnswerT) /\ Len(t) = Len(s) + Len(out)
      /\ \A i \in 1..Len(s) + Len(out) : t[i] = IF i <= Len(s) THEN s[i] ELSE out[i - Len(s)]
      /\ toGui' = t
  <2>1. s \in Seq(AnswerT) /\ toGui' = t
    BY <1>1, <1>6, <1>7 DEF QueryInv, QueryTypes, PipeType
  <2> QED
    BY <2>1, <1>5, <1>7, ConcatProperties, Zenon
<1>9. ASSUME NEW i \in 1..Len(t), t[i].kind = "result" PROVE Fits(covered, t[i].id, t[i].token)
  <2>1. Len(s) \in Nat /\ Len(out) \in Nat
    BY <1>5, <1>8
  <2>2. CASE i <= Len(s)
    BY <1>6, <1>8, <1>9, <2>1, <2>2 DEF QueryInv, SentInv
  <2>3. CASE ~(i <= Len(s))
    <3>1. i - Len(s) \in 1..Len(out) /\ t[i] = out[i - Len(s)]
      BY <1>8, <2>1, <2>3
    <3> QED
      BY <1>5, <1>9, <3>1
  <2> QED
    BY <2>2, <2>3
<1>10. SentInv'
  BY <1>2, <1>8, <1>9 DEF SentInv
<1>11. QueryTypes'
  BY <1>2, <1>3, <1>4, <1>8 DEF QueryInv, QueryTypes, WindowType, PipeType, ChildType
<1>12. ActorInv'
  BY <1>2, <1>4 DEF ActorInv
<1>13. DispatcherInv'
  BY <1>1, <1>2, <1>3 DEF DispatcherInv
<1>14. WriterInv' /\ MailInv'
  BY <1>2 DEF QueryInv, WriterInv, MailInv, None
<1> QED
  BY <1>10, <1>11, <1>12, <1>13, <1>14 DEF QueryInv

(* The writer: what it publishes is the current generation, which is not    *)
(* older than any it published before.                                      *)
LEMMA WriterStep ==
  ASSUME MaxQueries \in Nat, QueryInv,
         \/ TakeResync \/ TakeDemand \/ Commit \/ Interrupt \/ PublishAggregate \/ PublicationFails
         \/ \E complete, fits \in BOOLEAN : InstallPrepared(complete, fits)
  PROVE  QueryInv'
<1>1. /\ writer \in QueryWriterT /\ gen \in Nat /\ demand \in Ids /\ covered \in [Queries -> Nat]
      /\ output \in PublicationT \cup {None} /\ 0 \in Ids
      /\ WriterInv
  BY DEF QueryInv, QueryTypes, ChildType, Ids
<1>2. UNCHANGED <<asked, last, openPage, mail, toChild, toGui, D, A, demand>>
  BY DEF TakeResync, TakeDemand, Commit, Interrupt, PublishAggregate, PublicationFails,
         InstallPrepared
<1>3. CASE TakeResync \/ TakeDemand
  <2>1. /\ writer' \in QueryWriterT /\ UNCHANGED <<gen, covered, output>>
        /\ writer'.pc = "publish" => writer'.token = gen /\ gen # 0
    <3>1. PICK pc \in {"top", "publish"} :
             /\ pc = "publish" => writer.token = gen /\ gen # 0
             /\ \/ writer' = [writer EXCEPT !.take = FALSE, !.aggregate = demand, !.due = TRUE]
                \/ writer' = [writer EXCEPT !.take = FALSE, !.aggregate = demand, !.due = TRUE,
                                           !.request = demand, !.pc = pc]
                \/ writer' = [writer EXCEPT !.sync = FALSE, !.blocked = 0, !.due = TRUE, !.pc = pc]
      BY <1>1, <1>3 DEF TakeResync, TakeDemand, Publishable, QueryWriterT
    <3>2. writer.pc = "top" /\ UNCHANGED <<gen, covered, output>>
      BY <1>3 DEF TakeResync, TakeDemand
    <3>3. writer' \in QueryWriterT /\ writer'.token = writer.token /\ writer'.pc \in {"top", pc}
      <4>1. CASE writer' = [writer EXCEPT !.take = FALSE, !.aggregate = demand, !.due = TRUE]
        BY <1>1, <3>2, <4>1 DEF QueryWriterT
      <4>2. CASE writer' = [writer EXCEPT !.take = FALSE, !.aggregate = demand, !.due = TRUE,
                                         !.request = demand, !.pc = pc]
        BY <1>1, <4>2 DEF QueryWriterT
      <4>3. CASE writer' = [writer EXCEPT !.sync = FALSE, !.blocked = 0, !.due = TRUE, !.pc = pc]
        BY <1>1, <4>3 DEF QueryWriterT
      <4> QED
        BY <3>1, <4>1, <4>2, <4>3
    <3> QED
      BY <3>1, <3>2, <3>3
  <2> QED
    BY <1>1, <1>2, <2>1
       DEF QueryInv, QueryTypes, WindowType, MailInv, PipeType, ChildType, ActorInv, DispatcherInv,
           WriterInv, SentInv
<1>4. CASE Commit
  <2>1. /\ writer' \in QueryWriterT /\ writer'.pc = "converted" /\ gen' = gen + 1
        /\ UNCHANGED <<covered, output>>
    BY <1>1, <1>4 DEF Commit, QueryWriterT
  <2>2. WriterInv'
    BY <1>1, <2>1 DEF WriterInv
  <2> QED
    BY <1>1, <1>2, <2>1, <2>2
       DEF QueryInv, QueryTypes, WindowType, MailInv, PipeType, ChildType, ActorInv, DispatcherInv,
           SentInv
<1>5. CASE Interrupt
  <2>1. /\ writer' \in QueryWriterT /\ UNCHANGED <<gen, covered, output>> /\ writer'.pc = "top"
    BY <1>1, <1>5 DEF Interrupt, QueryWriterT
  <2> QED
    BY <1>1, <1>2, <2>1
       DEF QueryInv, QueryTypes, WindowType, MailInv, PipeType, ChildType, ActorInv, DispatcherInv,
           WriterInv, SentInv
<1>6. ASSUME NEW complete \in BOOLEAN, NEW fits \in BOOLEAN, InstallPrepared(complete, fits)
      PROVE  QueryInv'
  <2>1. /\ writer' \in QueryWriterT /\ UNCHANGED <<gen, covered, output>>
        /\ writer'.pc = "publish" => writer'.token = gen /\ gen # 0
    <3>1. PICK due \in BOOLEAN : due = (writer.aggregate # 0 /\ ~complete)
      OBVIOUS
    <3>2. PICK request \in Ids : request = IF complete THEN writer.aggregate ELSE 0
      BY <1>1 DEF QueryWriterT
    <3>3. PICK adopts \in BOOLEAN : adopts = (fits /\ Unblocked(writer))
      OBVIOUS
    <3>4. PICK blocked \in Nat : blocked = IF fits THEN writer.blocked ELSE gen
      BY <1>1 DEF QueryWriterT
    <3>5. writer' = [writer EXCEPT !.pc = IF adopts THEN "publish" ELSE "top",
                         !.token = IF adopts THEN gen ELSE writer.token, !.blocked = blocked,
                         !.complete = complete, !.request = request, !.due = due]
      BY <1>6, <3>1, <3>2, <3>3, <3>4 DEF InstallPrepared
    <3>6. gen > 0 /\ UNCHANGED <<gen, covered, output>>
      BY <1>6, Zenon DEF InstallPrepared
    <3>7. writer' \in QueryWriterT /\ (writer'.pc = "publish" => writer'.token = gen)
      BY <1>1, <3>5 DEF QueryWriterT
    <3> QED
      BY <1>1, <3>6, <3>7
  <2> QED
    BY <1>1, <1>2, <2>1
       DEF QueryInv, QueryTypes, WindowType, MailInv, PipeType, ChildType, ActorInv, DispatcherInv,
           WriterInv, SentInv
<1>7. CASE PublishAggregate
  <2>1. /\ writer.pc = "publish" /\ writer.token = gen /\ gen # 0 /\ gen' = gen
        /\ writer' \in QueryWriterT /\ writer'.pc = "top"
        /\ output' = [kind |-> "snapshot", token |-> gen, request |-> writer.request]
        /\ output' \in PublicationT
    BY <1>1, <1>7 DEF PublishAggregate, QueryWriterT, WriterInv, PublicationT
  <2>2. /\ writer.request \in Ids
        /\ covered' = IF writer.request # 0 /\ covered[writer.request] = 0
                      THEN [covered EXCEPT ![writer.request] = gen] ELSE covered
    BY <1>1, <1>7, <2>1 DEF PublishAggregate, QueryWriterT
  <2>3. /\ covered' \in [Queries -> Nat]
        /\ \A q \in Queries : covered'[q] <= gen
    <3>1. CASE writer.request # 0 /\ covered[writer.request] = 0
      <4>1. covered' = [covered EXCEPT ![writer.request] = gen] /\ gen \in Nat
        BY <1>1, <2>2, <3>1
      <4>2. covered' \in [Queries -> Nat]
        BY <1>1, <4>1
      <4>3. ASSUME NEW q \in Queries PROVE covered'[q] = gen \/ covered'[q] = covered[q]
        BY <1>1, <4>1
      <4>4. ASSUME NEW q \in Queries PROVE covered'[q] <= gen
        BY <1>1, <4>3 DEF WriterInv
      <4> QED
        BY <4>2, <4>4
    <3>2. CASE ~(writer.request # 0 /\ covered[writer.request] = 0)
      BY <1>1, <2>2, <3>2 DEF WriterInv
    <3> QED
      BY <3>1, <3>2
  <2>4. ASSUME NEW q, NEW token, Fits(covered, q, token) PROVE Fits(covered, q, token)'
    <3>1. covered'[q] = covered[q]
      BY <1>1, <2>2, <2>4 DEF Fits
    <3> QED
      BY <2>4, <3>1 DEF Fits
  <2>5. writer.request # 0 => Fits(covered', writer.request, gen)
    <3> SUFFICES ASSUME writer.request # 0 PROVE Fits(covered', writer.request, gen)
      OBVIOUS
    <3>1. writer.request \in Queries
      BY <2>2 DEF Ids, Queries
    <3>2. covered'[writer.request] # 0 /\ covered'[writer.request] <= gen
      BY <1>1, <2>1, <2>2, <2>3, <3>1
    <3> QED
      BY <3>1, <3>2 DEF Fits
  <2>6. WriterInv'
    <3>1. output'.token = gen /\ output'.request = writer.request
      BY <2>1
    <3> QED
      BY <2>1, <2>3, <2>5, <3>1 DEF WriterInv
  <2>7. ActorInv'
    BY <1>2, <2>4 DEF QueryInv, ActorInv, ActorFits
  <2>8. DispatcherInv' /\ SentInv'
    BY <1>2, <2>1, <2>4 DEF QueryInv, DispatcherInv, SentInv
  <2> QED
    BY <1>1, <1>2, <2>1, <2>3, <2>6, <2>7, <2>8
       DEF QueryInv, QueryTypes, WindowType, MailInv, PipeType, ChildType
<1>8. CASE PublicationFails
  <2>1. writer' \in QueryWriterT /\ UNCHANGED <<gen, covered, output>> /\ writer'.pc = "top"
    BY <1>1, <1>8 DEF PublicationFails, QueryWriterT
  <2> QED
    BY <1>1, <1>2, <2>1
       DEF QueryInv, QueryTypes, WindowType, MailInv, PipeType, ChildType, ActorInv, DispatcherInv,
           WriterInv, SentInv
<1> QED
  BY <1>3, <1>4, <1>5, <1>6, <1>7, <1>8

(* Every step keeps the invariant. *)
LEMMA QueryStep == ASSUME MaxQueries \in Nat, QueryInv, [QueryNext]_queryVars PROVE QueryInv'
<1>1. CASE QueryNext
  BY <1>1, WindowStep, SendStep, DeliverStep, QueryRestartStep, ActorStep, WakeStep, CommandStep,
     RoundStep, QueryDieStep, WriterStep DEF QueryNext
<1>2. CASE UNCHANGED queryVars
  BY <1>2
     DEF queryVars, childVars, QueryInv, QueryTypes, WindowType, MailInv, PipeType, ChildType,
         ActorInv, DispatcherInv, WriterInv, SentInv
<1> QED
  BY <1>1, <1>2

(* The invariant holds in every reachable state. *)
LEMMA QueryInvariance == QuerySpec => []QueryInv
<1>1. QueryInit => QueryInv
  BY QueryBounds, QueryInitInv
<1>2. QueryInv /\ [QueryNext]_queryVars => QueryInv'
  BY QueryBounds, QueryStep
<1> QED
  BY <1>1, <1>2, PTL DEF QuerySpec

(* ResultsCovered, for all bounds: a result on its way to the window was     *)
(* computed from a generation that was published complete for its query,     *)
(* or from a later one, across stale answers, cancellations and restarts.    *)
THEOREM AnswersCovered == QuerySpec => []ResultsCovered
<1>1. QueryInv => ResultsCovered
  <2> SUFFICES ASSUME QueryInv, NEW i \in 1..Len(toGui), toGui[i].kind = "result"
               PROVE  covered[toGui[i].id] # 0 /\ toGui[i].token >= covered[toGui[i].id]
    BY DEF ResultsCovered
  <2>1. Fits(covered, toGui[i].id, toGui[i].token) /\ toGui[i].token \in Nat
    <3>1. toGui[i] \in AnswerT
      BY DEF QueryInv, QueryTypes, PipeType
    <3> QED
      BY <3>1 DEF QueryInv, SentInv, AnswerT
  <2>2. covered[toGui[i].id] \in Nat
    BY <2>1 DEF QueryInv, QueryTypes, ChildType, Fits
  <2> QED
    BY <2>1, <2>2 DEF Fits
<1> QED
  BY <1>1, QueryInvariance, PTL

(* What a step sends: only a round does, and it sends no obsolete result.   *)
LEMMA SentAnswers ==
  ASSUME MaxQueries \in Nat, QueryInv, [QueryNext]_queryVars, NEW i \in Len(toGui) + 1..Len(toGui')
  PROVE  toGui'[i].kind = "result" => toGui'[i].id = D'.latest
<1>1. toGui \in Seq(AnswerT) /\ Len(toGui) \in Nat
  BY DEF QueryInv, QueryTypes, PipeType
<1>2. CASE Round
  <2>1. PICK d, b, out :
           /\ d \in DispatcherT /\ d.latest = D.latest
           /\ D' = [d EXCEPT !.pc = "wait", !.ready = {}, !.page = 0,
                             !.query = IF Dispatchable(d) THEN 0 ELSE d.query]
           /\ out = <<Fatal>> \/ out = Without(RoundDone, "stale")
           /\ toGui' = toGui \o out
    BY <1>2, RoundParts
  <2>2. D'.latest = D.latest
    BY <2>1 DEF DispatcherT
  <2>3. /\ out \in Seq(AnswerT)
        /\ \A j \in 1..Len(out) : out[j].kind = "result" => out[j].id = D.latest
    <3>1. CASE out = <<Fatal>>
      <4>1. Fatal \in AnswerT /\ Fatal.kind = "fatal"
        BY DEF Fatal, AnswerT
      <4> QED
        BY <3>1, <4>1
    <3>2. CASE out = Without(RoundDone, "stale")
      BY <3>2, RoundCompleted
    <3> QED
      BY <2>1, <3>1, <3>2
  <2>4. PICK s : s = toGui
    OBVIOUS
  <2>5. PICK t : t = s \o out
    OBVIOUS
  <2>6. /\ Len(t) = Len(s) + Len(out)
        /\ \A j \in 1..Len(s) + Len(out) : t[j] = IF j <= Len(s) THEN s[j] ELSE out[j - Len(s)]
    BY <1>1, <2>3, <2>4, <2>5, ConcatProperties, Zenon
  <2>7. toGui' = t /\ i \in Len(s) + 1..Len(t) /\ Len(s) \in Nat /\ Len(out) \in Nat
    BY <1>1, <2>1, <2>3, <2>4, <2>5
  <2>8. t[i] = out[i - Len(s)] /\ i - Len(s) \in 1..Len(out)
    BY <2>6, <2>7
  <2> QED
    BY <2>2, <2>3, <2>7, <2>8
<1>3. CASE UNCHANGED toGui
  BY <1>1, <1>3
<1>4. CASE Deliver
  <2>1. Len(toGui') = Len(toGui) - 1
    BY <1>1, <1>4 DEF Deliver
  <2> QED
    BY <1>1, <2>1
<1>5. CASE RestartChild
  <2>1. Len(toGui') = 0
    BY <1>5 DEF RestartChild
  <2> QED
    BY <1>1, <2>1
<1> QED
  BY <1>2, <1>3, <1>4, <1>5
     DEF QueryNext, queryVars, childVars, Request, CancelQueries, RequestPage, RequestSnapshot, Send,
         ActorStart, ActorFinish, ActorFails, Wake, Command, ChildDies, TakeResync, TakeDemand,
         Commit, Interrupt, PublishAggregate, PublicationFails, InstallPrepared

(* NoObsoleteAnswer, for all bounds: when the dispatcher sends a result,     *)
(* the query is the latest one it has read.                                  *)
THEOREM NoObsolete == QuerySpec => NoObsoleteAnswer
<1>1. QueryInv /\ [QueryNext]_queryVars
        => [\A i \in Len(toGui) + 1..Len(toGui') :
               toGui'[i].kind = "result" => toGui'[i].id = D'.latest]_queryVars
  BY QueryBounds, SentAnswers
<1> QED
  BY <1>1, QueryInvariance, PTL DEF QuerySpec, NoObsoleteAnswer
=============================================================================
