-------------------------- MODULE UsageChannelProofs --------------------------
(***************************************************************************)
(* The channel between the usage collector and its readers deletes only    *)
(* what is proven gone, sends no reader what it cannot decode and confirms *)
(* to it nothing but the publication it names, for any sessions, bodies,   *)
(* polls, restarts, changes of the homes and orders of reads.              *)
(***************************************************************************)
EXTENDS UsageChannel, TLAPS

-----------------------------------------------------------------------------
(* The inductive invariant, one definition per idea                         *)

RowT == [rev: Nat, body: Nat, st: BOOLEAN]
RowsT == [Owners -> RowT]
PubT == Nat \X Nat
ViewT == [pub: PubT, rows: RowsT, stRev: [Owners -> Nat], memRev: Nat, loading: BOOLEAN,
          complete: BOOLEAN, full: BOOLEAN, active: SUBSET Owners]
SnapT == [pub: PubT, man: RowsT, loading: BOOLEAN, full: BOOLEAN]

(* The types, without the bounds. *)
CollectorType ==
    /\ src \in [Owners -> Nat] /\ epochs \in Nat
    /\ col \in [up: BOOLEAN, epoch: Nat, seq: Nat, loaded: SUBSET Owners]
    /\ recovery \in [pub: PubT, bodies: [Owners -> Nat]]
    /\ published \in [epoch: Nat, rows: RowsT, retained: SUBSET Owners]
ViewType == live \in ViewT /\ cand \in ViewT
StoreType == snap \in SnapT /\ rows \in RowsT /\ top \in [Owners -> Nat] /\ reused \in BOOLEAN
ReaderType ==
    /\ reader \in [kind: {"none", "live", "durable"}, pub: PubT, rows: RowsT, loading: BOOLEAN,
                   chk: PubT, excl: SUBSET Owners]
    /\ error \in BOOLEAN
Types == CollectorType /\ ViewType /\ StoreType /\ ReaderType

(* A publication made so far; the next one is none of them. *)
Past(p) == p[1] # 0 /\ (p[1] < col.epoch \/ (p[1] = col.epoch /\ p[2] <= col.seq))

(* The rows of a publication, stored ones, and those a reader shows. *)
Whole(rs) == \A o \in Owners : rs[o] = NoRow \/ (rs[o].body # 0 /\ rs[o].rev # 0)
Shape(v) ==
    /\ Whole(v.rows) /\ \A o \in Owners : v.rows[o].rev <= v.pub[2]
    /\ v # NoLive => col.up /\ Past(v.pub) /\ v.pub[2] # 0

(* What a publication says did not change since an earlier one, did not. *)
SameEpoch(v, w) == v.pub[1] # 0 /\ v.pub[1] = w.pub[1]
Derived(v, w) ==
    SameEpoch(v, w) =>
      /\ w.pub[2] < v.pub[2]
      /\ \A o \in Present(v.rows) :
           /\ v.rows[o].rev <= w.pub[2] => w.rows[o].rev = v.rows[o].rev /\ w.rows[o].body = v.rows[o].body
           /\ v.stRev[o] <= w.pub[2] => w.rows[o] = v.rows[o] /\ w.stRev[o] = v.stRev[o]
      /\ v.memRev <= w.pub[2] => w.memRev = v.memRev /\ Present(w.rows) = Present(v.rows)

(* The views of the live server and of the candidate. *)
ViewInv ==
    /\ col.epoch = epochs /\ (col.up => col.epoch # 0)
    /\ Shape(live) /\ Shape(cand) /\ Derived(cand, live)
    /\ cand # NoLive => cand.pub = <<col.epoch, col.seq>>

(* The durable side: the table holds the manifest, top its revisions. *)
StoreInv ==
    /\ Whole(rows) /\ Whole(snap.man)
    /\ \A o \in Present(snap.man) : /\ rows[o].rev = snap.man[o].rev /\ rows[o].body = snap.man[o].body
                                    /\ top[o] = snap.man[o].rev
    /\ \A o \in Present(rows) : top[o] # 0 => rows[o].rev = top[o]
    /\ snap.pub # NoPub => Past(snap.pub)
    /\ snap = NoSnap \/ snap.pub # NoPub
    /\ published.epoch # 0 => published.epoch = snap.pub[1] /\ published.rows = snap.man
    /\ col.up /\ snap.pub[1] = col.epoch => published.epoch = col.epoch

(* One publication has one set of bodies, wherever it is kept. *)
SameBodies ==
    /\ cand # NoLive => snap.pub = cand.pub /\ Bodies(snap.man) = Bodies(cand.rows)
    /\ live # NoLive /\ live.pub = snap.pub => Bodies(snap.man) = Bodies(live.rows)
    /\ recovery.pub # NoPub /\ recovery.pub = snap.pub => recovery.bodies = Bodies(snap.man)
    /\ recovery.pub # NoPub => /\ Past(recovery.pub) /\ recovery.pub[1] < col.epoch
                               /\ live # NoLive => recovery.pub[1] < live.pub[1]

(* What a reader of live answers has from the publication it names. *)
Seen(v) ==
    (v.pub[1] # 0 /\ reader.pub[1] = v.pub[1]) =>
      /\ reader.pub[2] <= v.pub[2]
      /\ \A o \in Present(v.rows) :
           /\ v.rows[o].rev <= reader.pub[2] =>
                 reader.rows[o].rev = v.rows[o].rev /\ reader.rows[o].body = v.rows[o].body
           /\ v.stRev[o] <= reader.pub[2] => reader.rows[o] = v.rows[o]
      /\ v.memRev <= reader.pub[2] => Present(reader.rows) \ Pending(reader.rows) \subseteq Present(v.rows)

(* The checkpoint a request names proves the bodies the reader has. *)
Checkpoint ==
    IF reader.kind = "durable" THEN reader.pub ELSE IF reader.chk # NoPub THEN reader.chk ELSE reader.pub
Knows(p, bodies) ==
    p # NoPub /\ Checkpoint = p =>
        \A o \in Owners \ reader.excl : bodies[o] # 0 => reader.rows[o].body = bodies[o]

(* A cached body is the one its revision stands for in this epoch. *)
CacheSound ==
    reader.kind = "durable" =>
      /\ reader.pub[1] <= snap.pub[1] /\ reader.excl = {}
      /\ ~reused /\ reader.pub[1] = snap.pub[1] =>
           \A o \in Present(reader.rows) \ Pending(reader.rows) :
             /\ reader.rows[o].rev <= top[o]
             /\ reader.rows[o].rev = top[o] /\ rows[o].body # 0 => rows[o].body = reader.rows[o].body

ReaderInv ==
    /\ reader.kind = "none" => reader.pub = NoPub /\ reader.chk = NoPub
    /\ reader.kind # "none" => Past(reader.pub)
    /\ reader.chk # NoPub => Past(reader.chk)
    /\ \A o \in Owners : reader.rows[o].body = 0 => reader.rows[o] = NoRow
    /\ reader.kind = "live" => /\ Seen(live) /\ Seen(cand)
                               /\ col.up /\ reader.pub[1] = col.epoch => live.pub[1] = col.epoch
    /\ CacheSound
    /\ ~reused => Knows(snap.pub, Bodies(snap.man)) /\ Knows(recovery.pub, recovery.bodies)

IInv == Types /\ ViewInv /\ StoreInv /\ SameBodies /\ ReaderInv /\ NeverUnreadable

-----------------------------------------------------------------------------
(* Rows and publications                                                    *)

(* Nothing published, nothing stored, nothing shown.                        *)
LEMMA Nothing ==
    /\ NoRow \in RowT /\ NoRow.body = 0 /\ NoRow.rev = 0 /\ NoRow.st = FALSE
    /\ NoRows \in RowsT /\ \A o \in Owners : NoRows[o] = NoRow
    /\ NoPub \in PubT /\ NoPub[1] = 0 /\ NoPub[2] = 0
    /\ NoLive \in ViewT /\ NoLive.pub = NoPub /\ NoLive.rows = NoRows
    /\ NoSnap \in SnapT /\ NoSnap.pub = NoPub /\ NoSnap.man = NoRows
  <1>1. NoRow \in RowT /\ NoRow.body = 0 /\ NoRow.rev = 0 /\ NoRow.st = FALSE
    BY DEF NoRow, RowT
  <1>2. NoRows \in RowsT /\ \A o \in Owners : NoRows[o] = NoRow
    BY <1>1 DEF NoRows, RowsT
  <1>3. NoPub \in PubT /\ NoPub[1] = 0 /\ NoPub[2] = 0
    BY DEF NoPub, PubT
  <1>4. [o \in Owners |-> 0] \in [Owners -> Nat]
    OBVIOUS
  <1>5. NoLive \in ViewT /\ NoLive.pub = NoPub /\ NoLive.rows = NoRows
    BY <1>2, <1>3, <1>4 DEF NoLive, ViewT
  <1>6. NoSnap \in SnapT /\ NoSnap.pub = NoPub /\ NoSnap.man = NoRows
    BY <1>2, <1>3 DEF NoSnap, SnapT
  <1> QED BY <1>1, <1>2, <1>3, <1>5, <1>6

(* The rows of a catalog and what its publication is.                       *)
LEMMA RowFacts ==
    ASSUME NEW rs \in RowsT, NEW o \in Owners
    PROVE  rs[o] \in RowT /\ rs[o].rev \in Nat /\ rs[o].body \in Nat /\ rs[o].st \in BOOLEAN
  BY DEF RowsT, RowT

(* A publication is its epoch and its sequence number.                      *)
LEMMA PubFacts == \A p \in PubT : p = <<p[1], p[2]>> /\ p[1] \in Nat /\ p[2] \in Nat
  BY DEF PubT

-----------------------------------------------------------------------------
(* A poll of the collector                                                  *)

(* What prepare() makes of the loaded sessions: a row, its state and the    *)
(* membership keep their revision while they are those published before.    *)
SamePub(c) == live.pub[1] = c.pub[1]
PreparedRow(c, o) ==
    \/ c.rows[o] = NoRow
    \/ /\ c.rows[o].body = src[o] /\ src[o] # 0
       /\ \/ c.rows[o].rev = c.pub[2]
          \/ SamePub(c) /\ live.rows[o].body = src[o] /\ c.rows[o].rev = live.rows[o].rev
PreparedState(c, o) ==
    \/ c.stRev[o] = c.pub[2]
    \/ SamePub(c) /\ c.rows[o] = live.rows[o] /\ c.stRev[o] = live.stRev[o]
    \/ ~SamePub(c) /\ c.rows[o] = NoRow
PreparedMembers(c) ==
    c.memRev = c.pub[2] \/ (SamePub(c) /\ c.memRev = live.memRev /\ Present(live.rows) = Present(c.rows))
Prepared(c) ==
    /\ c \in ViewT /\ c.pub = <<col.epoch, col.seq + 1>>
    /\ \A o \in Owners : PreparedRow(c, o) /\ PreparedState(c, o)
    /\ PreparedMembers(c)
    /\ c.full /\ c.complete => \A o \in Owners : c.rows[o].body = src[o]

(* LiveCollection.prepare() makes such a publication of what poll() loaded. *)
LEMMA PrepareFacts ==
    ASSUME Types, NEW p, p.pub = <<col.epoch, col.seq + 1>>, p.bodies \in [Owners -> Nat],
           p.loading \in BOOLEAN, p.complete \in BOOLEAN, p.full \in BOOLEAN, p.active \in SUBSET Owners,
           \A o \in Owners : p.bodies[o] \in {0, src[o]},
           p.full /\ p.complete => \A o \in Owners : p.bodies[o] = src[o],
           NEW c, c = Prepare(p)
    PROVE  Prepared(c)
  <1> DEFINE same == live.pub[1] = p.pub[1]
             old(o) == IF same THEN live.rows[o] ELSE NoRow
             row(o) == IF p.bodies[o] = 0 THEN NoRow
                       ELSE [rev |-> IF old(o).body = p.bodies[o] THEN old(o).rev ELSE p.pub[2],
                             body |-> p.bodies[o], st |-> p.complete]
             new == [o \in Owners |-> row(o)]
  <1>1. c = [pub |-> p.pub, rows |-> new,
             stRev |-> [o \in Owners |-> Entry(new[o], old(o), IF same THEN live.stRev[o] ELSE 0, p.pub[2])],
             memRev |-> IF same /\ Present(live.rows) = Present(new) THEN live.memRev ELSE p.pub[2],
             loading |-> p.loading, complete |-> p.complete, full |-> p.full, active |-> p.active]
    BY DEF Prepare
  <1>2. /\ c.pub = p.pub /\ c.rows = new /\ c.complete = p.complete /\ c.full = p.full
        /\ c.stRev = [o \in Owners |-> Entry(new[o], old(o), IF same THEN live.stRev[o] ELSE 0, p.pub[2])]
        /\ c.memRev = IF same /\ Present(live.rows) = Present(new) THEN live.memRev ELSE p.pub[2]
        /\ c.loading = p.loading /\ c.active = p.active
    BY <1>1
  <1>t. /\ live.rows \in RowsT /\ live.stRev \in [Owners -> Nat] /\ live.memRev \in Nat
        /\ col.epoch \in Nat /\ col.seq \in Nat
    BY DEF Types, ViewType, ViewT, CollectorType
  <1>p. p.pub \in PubT /\ p.pub[2] = col.seq + 1 /\ p.pub[2] \in Nat
    BY <1>t DEF PubT
  <1>o. ASSUME NEW o \in Owners PROVE old(o) \in RowT /\ old(o).rev \in Nat
    BY <1>t, Nothing, RowFacts
  <1>3. ASSUME NEW o \in Owners PROVE row(o) \in RowT
    <2>1. PICK r \in Nat : r = IF old(o).body = p.bodies[o] THEN old(o).rev ELSE p.pub[2]
      BY <1>o, <1>p
    <2>2. [rev |-> r, body |-> p.bodies[o], st |-> p.complete] \in RowT
      BY DEF RowT
    <2> QED BY <2>1, <2>2, Nothing
  <1> HIDE DEF row
  <1>4. new \in RowsT /\ \A o \in Owners : new[o] = row(o)
    BY <1>3 DEF RowsT
  <1> USE DEF row
  <1>5. ASSUME NEW o \in Owners PROVE Entry(new[o], old(o), IF same THEN live.stRev[o] ELSE 0, p.pub[2]) \in Nat
    BY <1>t, <1>p DEF Entry
  <1>6. c \in ViewT
    <2>1. c.stRev \in [Owners -> Nat]
      BY <1>2, <1>5
    <2>2. c.memRev \in Nat
      BY <1>2, <1>t, <1>p
    <2>3. c = [pub |-> p.pub, rows |-> new, stRev |-> c.stRev, memRev |-> c.memRev,
               loading |-> p.loading, complete |-> p.complete, full |-> p.full, active |-> p.active]
      BY <1>1, <1>2
    <2> HIDE DEF new
    <2> QED BY <2>1, <2>2, <2>3, <1>4, <1>p DEF ViewT
  <1>7. ASSUME NEW o \in Owners PROVE PreparedRow(c, o) /\ c.rows[o].body = p.bodies[o]
    <2>1. c.rows[o] = row(o)
      BY <1>2, <1>4
    <2>2. CASE p.bodies[o] = 0
      BY <2>1, <2>2, Nothing DEF PreparedRow
    <2>3. CASE p.bodies[o] # 0
      <3>1. PICK r : r = IF old(o).body = p.bodies[o] THEN old(o).rev ELSE p.pub[2]
        OBVIOUS
      <3>2. c.rows[o] = [rev |-> r, body |-> p.bodies[o], st |-> p.complete]
        BY <2>1, <2>3, <3>1
      <3>3. p.bodies[o] = src[o] /\ c.rows[o].body = src[o] /\ c.rows[o].rev = r
        BY <2>3, <3>2
      <3>4. r = p.pub[2] \/ (same /\ live.rows[o].body = src[o] /\ r = live.rows[o].rev)
        BY <2>3, <3>1, <3>3, Nothing
      <3> QED BY <2>3, <3>3, <3>4, <1>2 DEF PreparedRow, SamePub
    <2> QED BY <2>2, <2>3
  <1>8. ASSUME NEW o \in Owners PROVE PreparedState(c, o)
    <2>1. c.stRev[o] = IF c.rows[o] = old(o) THEN IF same THEN live.stRev[o] ELSE 0 ELSE c.pub[2]
      BY <1>2 DEF Entry
    <2> QED BY <2>1, <1>2 DEF PreparedState, SamePub
  <1>9. PreparedMembers(c)
    BY <1>2 DEF PreparedMembers, SamePub
  <1> QED BY <1>2, <1>6, <1>7, <1>8, <1>9 DEF Prepared

(* The manifest has the bodies of the publication; a body that the table of *)
(* this epoch has already keeps the revision it has there.                  *)
LEMMA ManifestFacts ==
    ASSUME Types, StoreInv, NEW c, Prepared(c), col.epoch # 0, NEW man, man = Manifest(c), Whole(c.rows)
    PROVE  /\ man \in RowsT /\ Whole(man)
           /\ \A o \in Owners : man[o].body = c.rows[o].body /\ man[o].st = c.rows[o].st
           /\ \A o \in Present(man) : /\ snap.pub[1] = col.epoch /\ top[o] # 0
                                       /\ rows[o].body = man[o].body /\ published.epoch = col.epoch
                                       => man[o].rev = top[o]
  <1> DEFINE prev(o) == IF published.epoch = c.pub[1] THEN published.rows[o] ELSE NoRow
             rev(o) == IF prev(o).body = c.rows[o].body THEN prev(o).rev
                       ELSE IF prev(o).body = 0 /\ rows[o].body = c.rows[o].body THEN rows[o].rev
                       ELSE Revision(prev(o), c.pub[2])
  <1>1. man = [o \in Owners |-> IF c.rows[o].body = 0 THEN NoRow ELSE [c.rows[o] EXCEPT !.rev = rev(o)]]
    BY DEF Manifest
  <1>t. /\ c.rows \in RowsT /\ c.pub = <<col.epoch, col.seq + 1>> /\ col.seq \in Nat /\ rows \in RowsT
        /\ published.rows \in RowsT /\ Whole(rows) /\ Whole(snap.man) /\ snap.man \in RowsT
        /\ published.epoch # 0 => published.epoch = snap.pub[1] /\ published.rows = snap.man
    BY DEF Types, CollectorType, StoreType, SnapT, Prepared, ViewT, StoreInv
  <1>2. ASSUME NEW o \in Owners
        PROVE  /\ prev(o) \in RowT /\ prev(o).rev \in Nat /\ prev(o).body \in Nat
               /\ prev(o) = NoRow \/ (prev(o).body # 0 /\ prev(o).rev # 0)
    <2>1. CASE published.epoch = c.pub[1]
      <3>1. prev(o) = snap.man[o]
        BY <2>1, <1>t
      <3> QED BY <3>1, <1>t, RowFacts DEF Whole
    <2>2. CASE published.epoch # c.pub[1]
      BY <2>2, Nothing
    <2> QED BY <2>1, <2>2
  <1>3. ASSUME NEW o \in Owners, c.rows[o].body # 0
        PROVE  rev(o) \in Nat /\ rev(o) # 0
    <2>1. rows[o].rev \in Nat /\ rows[o].body \in Nat /\ (rows[o].body # 0 => rows[o].rev # 0)
      BY <1>t, RowFacts, Nothing DEF Whole
    <2>2. prev(o).body # 0 => prev(o).rev # 0
      BY <1>2, Nothing
    <2>3. Revision(prev(o), c.pub[2]) \in Nat /\ Revision(prev(o), c.pub[2]) # 0
      <3> HIDE DEF prev
      <3> QED BY <1>2, <1>t DEF Revision
    <2> HIDE DEF prev
    <2> QED BY <1>2, <1>3, <2>1, <2>2, <2>3
  <1>4. ASSUME NEW o \in Owners
        PROVE  /\ man[o] \in RowT /\ (man[o] = NoRow \/ (man[o].body # 0 /\ man[o].rev # 0))
               /\ man[o].body = c.rows[o].body /\ man[o].st = c.rows[o].st
               /\ c.rows[o].body # 0 => man[o].rev = rev(o)
    <2>1. CASE c.rows[o].body = 0
      <3>1. c.rows[o] = NoRow /\ man[o] = NoRow
        BY <1>1, <2>1 DEF Whole
      <3> QED BY <2>1, <3>1, Nothing
    <2>2. CASE c.rows[o].body # 0
      <3>1. PICK r \in Nat : r = rev(o) /\ r # 0
        BY <1>3, <2>2
      <3>2. man[o] = [c.rows[o] EXCEPT !.rev = r]
        BY <1>1, <2>2, <3>1
      <3>3. c.rows[o] \in RowT
        BY <1>t, RowFacts
      <3>4. man[o] \in RowT /\ man[o].body = c.rows[o].body /\ man[o].st = c.rows[o].st /\ man[o].rev = r
        BY <3>2, <3>3 DEF RowT
      <3> QED BY <2>2, <3>1, <3>4
    <2> QED BY <2>1, <2>2
  <1>5. man \in RowsT
    <2>1. man = [o \in Owners |-> man[o]]
      BY <1>1
    <2> QED BY <2>1, <1>4 DEF RowsT
  <1>6. ASSUME NEW o \in Present(man), snap.pub[1] = col.epoch, top[o] # 0, rows[o].body = man[o].body,
               published.epoch = col.epoch
        PROVE  man[o].rev = top[o]
    <2>1. prev(o) = snap.man[o] /\ o \in Owners /\ man[o].body # 0
      BY <1>6, <1>t DEF Present
    <2>2. man[o].body = c.rows[o].body /\ man[o].rev = rev(o)
      BY <1>4, <2>1
    <2>3. \A q \in Present(snap.man) : /\ rows[q].rev = snap.man[q].rev /\ rows[q].body = snap.man[q].body
                                       /\ top[q] = snap.man[q].rev
      BY DEF StoreInv
    <2>4. \A q \in Present(rows) : top[q] # 0 => rows[q].rev = top[q]
      BY DEF StoreInv
    <2>5. rows[o].rev = top[o]
      BY <1>6, <2>1, <2>4 DEF Present
    <2>6. CASE snap.man[o].body = 0
      BY <1>6, <2>1, <2>2, <2>5, <2>6
    <2>7. CASE snap.man[o].body # 0
      <3>1. rows[o].body = snap.man[o].body /\ top[o] = snap.man[o].rev
        BY <2>1, <2>3, <2>7 DEF Present
      <3> QED BY <1>6, <2>1, <2>2, <3>1
    <2> QED BY <2>6, <2>7
  <1> QED BY <1>4, <1>5, <1>6 DEF Whole

(* The transaction of publish(): what it stores, what it deletes, and which *)
(* revisions it gives.                                                      *)
Committed(c, man) ==
    /\ cand' = c /\ live' = live
    /\ snap' = [pub |-> c.pub, man |-> man, loading |-> c.loading, full |-> c.full]
    /\ published'.epoch = c.pub[1] /\ published'.rows = man
    /\ \A o \in Owners :
         /\ o \in Present(man) => /\ rows'[o] = [man[o] EXCEPT !.st = FALSE] /\ top'[o] = man[o].rev
                                  /\ ~reused' /\ snap.pub[1] = c.pub[1] =>
                                        rows[o].body = man[o].body \/ man[o].rev > top[o]
         /\ o \notin Present(man) => /\ rows'[o] = rows[o] \/ (rows'[o] = NoRow /\ (rows[o].body # 0 => src[o] = 0))
                                     /\ top'[o] = IF snap.pub[1] = c.pub[1] THEN top[o] ELSE 0
    /\ reused => reused'

(* CollectionChannel.publish does this, and keeps the database typed.       *)
LEMMA CommitFacts ==
    ASSUME Types, StoreInv, NEW c, Prepared(c), Whole(c.rows), col.epoch # 0,
           NEW removed \in SUBSET Owners, \A o \in removed : src[o] = 0, Commit(c, removed)
    PROVE  /\ Committed(c, Manifest(c))
           /\ published' \in [epoch: Nat, rows: RowsT, retained: SUBSET Owners] /\ snap' \in SnapT
           /\ rows' \in RowsT /\ top' \in [Owners -> Nat] /\ reused' \in BOOLEAN
  <1>m. PICK man : man = Manifest(c)
    OBVIOUS
  <1>1. /\ man \in RowsT /\ Whole(man)
        /\ \A o \in Owners : man[o].body = c.rows[o].body
    BY <1>m, ManifestFacts
  <1> DEFINE shown == Present(man)
             same == published.epoch = c.pub[1]
             absent == IF same THEN Present(published.rows) \ shown ELSE {}
             retained == IF same THEN published.retained ELSE Present(rows)
             proven == removed \ shown
             gone == Removed(c, shown, absent, proven, retained)
  <1>2. /\ rows' = [o \in Owners |-> IF o \in shown THEN [man[o] EXCEPT !.st = FALSE]
                                     ELSE IF o \in gone THEN NoRow ELSE rows[o]]
        /\ snap' = [pub |-> c.pub, man |-> man, loading |-> c.loading, full |-> c.full]
        /\ published' = [epoch |-> c.pub[1], rows |-> man,
                         retained |-> IF c.full /\ c.complete THEN {}
                                      ELSE ((retained \cup absent) \ shown) \ proven]
        /\ top' = [o \in Owners |-> IF o \in shown THEN man[o].rev
                                    ELSE IF snap.pub[1] = c.pub[1] THEN top[o] ELSE 0]
        /\ reused' = (reused \/ \E o \in shown : /\ rows[o].body # man[o].body /\ snap.pub[1] = c.pub[1]
                                                 /\ man[o].rev <= top[o])
        /\ cand' = c /\ UNCHANGED live
    BY <1>m DEF Commit
  <1>t. /\ c \in ViewT /\ c.pub = <<col.epoch, col.seq + 1>> /\ col.seq \in Nat /\ rows \in RowsT /\ col.epoch \in Nat
        /\ published \in [epoch: Nat, rows: RowsT, retained: SUBSET Owners] /\ top \in [Owners -> Nat]
        /\ reused \in BOOLEAN
    BY DEF Types, CollectorType, StoreType, Prepared
  <1>3. \A o \in gone : src[o] = 0 \/ o \in shown
    <2>1. CASE c.full /\ c.complete
      <3>1. \A o \in Owners : man[o].body = src[o]
        BY <1>1, <2>1 DEF Prepared
      <3>2. gone \subseteq Owners
        BY <2>1, <1>t DEF Removed, Present
      <3> QED BY <3>1, <3>2 DEF Present
    <2>2. CASE ~(c.full /\ c.complete)
      BY <2>2 DEF Removed
    <2> QED BY <2>1, <2>2
  <1>4. \A o \in shown : o \in Owners /\ man[o] \in RowT /\ man[o].rev \in Nat
    BY <1>1, RowFacts DEF Present
  <1>5. reused => reused'
    BY <1>2
  <1>6. reused' \in BOOLEAN
    BY <1>2
  <1>7. rows' \in RowsT
    <2>1. ASSUME NEW o \in Owners PROVE rows'[o] \in RowT
      <3>1. CASE o \in shown
        BY <3>1, <1>2, <1>4 DEF RowT
      <3>2. CASE o \notin shown
        BY <3>2, <1>2, <1>t, Nothing, RowFacts
      <3> QED BY <3>1, <3>2
    <2>2. rows' = [o \in Owners |-> rows'[o]]
      BY <1>2
    <2> QED BY <2>1, <2>2 DEF RowsT
  <1>8. top' \in [Owners -> Nat]
    BY <1>2, <1>4, <1>t
  <1>9. snap' \in SnapT /\ c.pub[1] \in Nat
    BY <1>1, <1>2, <1>t DEF SnapT, ViewT
  <1>10. published' \in [epoch: Nat, rows: RowsT, retained: SUBSET Owners]
    <2>1. PICK R : R = IF c.full /\ c.complete THEN {} ELSE ((retained \cup absent) \ shown) \ proven
      OBVIOUS
    <2>2. R \subseteq Owners
      BY <2>1, <1>t DEF Present
    <2>3. published' = [epoch |-> c.pub[1], rows |-> man, retained |-> R]
      BY <1>2, <2>1
    <2> QED BY <2>2, <2>3, <1>1, <1>9
  <1>11. ASSUME NEW o \in Owners
         PROVE  /\ o \in shown => /\ rows'[o] = [man[o] EXCEPT !.st = FALSE] /\ top'[o] = man[o].rev
                                  /\ ~reused' /\ snap.pub[1] = c.pub[1] =>
                                        rows[o].body = man[o].body \/ man[o].rev > top[o]
                /\ o \notin shown => /\ rows'[o] = rows[o] \/ (rows'[o] = NoRow /\ (rows[o].body # 0 => src[o] = 0))
                                     /\ top'[o] = IF snap.pub[1] = c.pub[1] THEN top[o] ELSE 0
    <2>1. /\ o \in shown => rows'[o] = [man[o] EXCEPT !.st = FALSE] /\ top'[o] = man[o].rev
          /\ o \notin shown => top'[o] = IF snap.pub[1] = c.pub[1] THEN top[o] ELSE 0
      BY <1>2
    <2>2. o \notin shown => rows'[o] = rows[o] \/ (rows'[o] = NoRow /\ o \in gone)
      BY <1>2
    <2>3. ASSUME o \in shown, ~reused', snap.pub[1] = c.pub[1], rows[o].body # man[o].body
          PROVE  man[o].rev > top[o]
      <3>1. ~(man[o].rev <= top[o])
        BY <2>3, <1>2
      <3>2. man[o].rev \in Nat /\ top[o] \in Nat
        BY <2>3, <1>4, <1>t
      <3> QED BY <3>1, <3>2
    <2> QED BY <2>1, <2>2, <2>3, <1>3
  <1>12. published'.epoch = c.pub[1] /\ published'.rows = man
    BY <1>2
  <1> HIDE DEF shown, gone
  <1>13. Committed(c, man)
    BY <1>2, <1>5, <1>11, <1>12 DEF Committed, shown
  <1> QED BY <1>m, <1>6, <1>7, <1>8, <1>9, <1>10, <1>13

(* The rows of a publication have revisions up to its own.                  *)
LEMMA PreparedShape ==
    ASSUME Types, ViewInv, NEW c, Prepared(c)
    PROVE  /\ Whole(c.rows) /\ \A o \in Owners : c.rows[o].rev <= c.pub[2]
           /\ c.pub \in PubT /\ c.pub[1] = col.epoch /\ c.pub[2] = col.seq + 1 /\ c.pub[2] # 0
           /\ c.rows \in RowsT /\ c.stRev \in [Owners -> Nat] /\ c.memRev \in Nat
  <1>1. /\ c.pub = <<col.epoch, col.seq + 1>> /\ col.seq \in Nat /\ col.epoch \in Nat
        /\ c.rows \in RowsT /\ c.pub \in PubT /\ c.stRev \in [Owners -> Nat] /\ c.memRev \in Nat
        /\ live \in ViewT /\ live.rows \in RowsT /\ live.pub \in PubT
    BY DEF Prepared, Types, CollectorType, ViewType, ViewT
  <1>2. c.pub[1] = col.epoch /\ c.pub[2] = col.seq + 1 /\ c.pub[2] # 0
    BY <1>1
  <1>3. /\ Whole(live.rows) /\ \A o \in Owners : live.rows[o].rev <= live.pub[2]
        /\ live # NoLive => Past(live.pub)
    BY DEF ViewInv, Shape
  <1>4. ASSUME NEW o \in Owners PROVE (c.rows[o] = NoRow \/ (c.rows[o].body # 0 /\ c.rows[o].rev # 0)) /\ c.rows[o].rev <= c.pub[2]
    <2>1. CASE c.rows[o] = NoRow
      BY <2>1, <1>1, <1>2, Nothing
    <2>2. CASE c.rows[o].body = src[o] /\ src[o] # 0 /\ c.rows[o].rev = c.pub[2]
      BY <2>2, <1>1, <1>2
    <2>3. CASE /\ c.rows[o].body = src[o] /\ src[o] # 0
               /\ SamePub(c) /\ live.rows[o].body = src[o] /\ c.rows[o].rev = live.rows[o].rev
      <3>1. live.rows[o].rev # 0 /\ live.rows[o].rev \in Nat
        BY <2>3, <1>1, <1>3, Nothing, RowFacts DEF Whole
      <3>2. live # NoLive
        BY <2>3, Nothing
      <3>3. live.pub[2] <= col.seq
        BY <2>3, <3>2, <1>1, <1>2, <1>3, PubFacts DEF Past, SamePub
      <3>4. live.rows[o].rev <= live.pub[2] /\ live.pub[2] \in Nat
        BY <1>1, <1>3, PubFacts
      <3> QED BY <2>3, <3>1, <3>3, <3>4, <1>1, <1>2
    <2> QED BY <2>1, <2>2, <2>3 DEF Prepared, PreparedRow
  <1> QED BY <1>1, <1>2, <1>4 DEF Whole

(* poll(): a publication that changes nothing durable goes live at once,    *)
(* another is committed first.                                              *)
LEMMA PollFacts ==
    ASSUME Types, ViewInv, StoreInv, NEW full \in BOOLEAN, NEW ok \in BOOLEAN,
           NEW active \in SUBSET Owners, NEW loaded \in SUBSET Owners, Poll(full, active, loaded, ok)
    PROVE  /\ col.up /\ cand = NoLive
           /\ col' = [up |-> TRUE, epoch |-> col.epoch, seq |-> col.seq + 1, loaded |-> loaded]
           /\ src' = src /\ recovery' = recovery /\ epochs' = epochs /\ reader' = reader /\ error' = error
           /\ \E c : /\ Prepared(c)
                     /\ \/ live' = c /\ UNCHANGED <<cand, published, snap, rows, top, reused>>
                        \/ /\ Committed(c, Manifest(c))
                           /\ published' \in [epoch: Nat, rows: RowsT, retained: SUBSET Owners]
                           /\ snap' \in SnapT /\ rows' \in RowsT
                           /\ top' \in [Owners -> Nat] /\ reused' \in BOOLEAN
  <1> DEFINE loading == ok /\ loaded # active
             complete == ok /\ loaded = active
             bodies == [o \in Owners |-> IF o \in loaded THEN src[o] ELSE 0]
             p == [pub |-> <<col.epoch, col.seq + 1>>, bodies |-> bodies,
                   loading |-> loading, complete |-> complete, full |-> full, active |-> active]
             removed == IF ok THEN {o \in loaded : src[o] = 0} ELSE {}
  <1>1. /\ col.up /\ cand = NoLive
        /\ full => active = Owners
        /\ loaded \subseteq active
        /\ col' = [col EXCEPT !.seq = col.seq + 1, !.loaded = loaded]
        /\ IF SameDurable(Prepare(p)) /\ removed \cap (Present(published.rows) \cup published.retained) = {}
           THEN live' = Prepare(p) /\ UNCHANGED <<cand, published, snap, rows, hist>>
           ELSE Commit(Prepare(p), removed)
        /\ src' = src /\ recovery' = recovery /\ epochs' = epochs /\ reader' = reader /\ error' = error
    BY DEF Poll
  <1>c. col' = [up |-> TRUE, epoch |-> col.epoch, seq |-> col.seq + 1, loaded |-> loaded]
    <2>1. col \in [up: BOOLEAN, epoch: Nat, seq: Nat, loaded: SUBSET Owners] /\ col.up = TRUE
      BY <1>1 DEF Types, CollectorType
    <2>2. col' = [col EXCEPT !.seq = col.seq + 1, !.loaded = loaded]
      BY <1>1
    <2> QED BY <2>1, <2>2
  <1>2. PICK c : c = Prepare(p)
    OBVIOUS
  <1>3. bodies \in [Owners -> Nat] /\ \A o \in Owners : bodies[o] \in {0, src[o]}
    BY DEF Types, CollectorType
  <1>4. loading \in BOOLEAN /\ complete \in BOOLEAN
    OBVIOUS
  <1>5. ASSUME full, complete PROVE \A o \in Owners : bodies[o] = src[o]
    BY <1>1, <1>5
  <1> HIDE DEF bodies, loading, complete
  <1>6. /\ p.pub = <<col.epoch, col.seq + 1>> /\ p.bodies = bodies /\ p.loading = loading
        /\ p.complete = complete /\ p.full = full /\ p.active = active
    OBVIOUS
  <1> HIDE DEF p
  <1>7. Prepared(c)
    BY <1>2, <1>3, <1>4, <1>5, <1>6, PrepareFacts
  <1>8. Whole(c.rows)
    BY <1>7, PreparedShape
  <1>9. removed \in SUBSET Owners /\ \A o \in removed : src[o] = 0
    OBVIOUS
  <1>10. col.epoch # 0
    BY <1>1 DEF ViewInv
  <1> HIDE DEF removed
  <1>11. CASE Commit(c, removed)
    <2>1. /\ Committed(c, Manifest(c)) /\ published' \in [epoch: Nat, rows: RowsT, retained: SUBSET Owners]
          /\ snap' \in SnapT /\ rows' \in RowsT /\ top' \in [Owners -> Nat] /\ reused' \in BOOLEAN
      BY <1>7, <1>8, <1>9, <1>10, <1>11, CommitFacts
    <2> QED BY <1>1, <1>c, <1>7, <2>1
  <1>12. CASE live' = c /\ UNCHANGED <<cand, published, snap, rows, hist>>
    <2>1. live' = c /\ UNCHANGED <<cand, published, snap, rows, top, reused>>
      BY <1>12 DEF hist
    <2> QED BY <1>1, <1>c, <1>7, <2>1
  <1> QED BY <1>1, <1>2, <1>11, <1>12

(* The other steps of the collector, of the recordings and of the readers   *)
(* leave the database alone.                                                *)
LEMMA StoreFrame ==
    ASSUME NEW o \in Owners, NEW body \in Nat,
           Start \/ Stop \/ Reopen \/ GoLive \/ Read \/ Change(o, body)
    PROVE  UNCHANGED <<snap, rows, top, reused>>
  BY DEF Start, Stop, Reopen, GoLive, Read, ReadLive, ReadDurable, Change, colVars, hist

-----------------------------------------------------------------------------
(* Time and the views                                                       *)

(* The steps in which the collector does nothing.                           *)
Quiet ==
    \/ Read \/ (\E o \in Owners, body \in 0..MaxBody : Change(o, body)) \/ UNCHANGED vars

(* A read and a change of a recording touch neither the collector nor the   *)
(* database.                                                                *)
LEMMA QuietFrame ==
    ASSUME Quiet
    PROVE  UNCHANGED <<col, live, cand, recovery, published, snap, rows, top, reused, epochs>>
  BY DEF Quiet, Read, ReadLive, ReadDurable, Change, vars, colVars, hist

(* The steps, apart from those of the readers and of the recordings.        *)
LEMMA Cases ==
    ASSUME [Next]_vars
    PROVE  \/ Quiet \/ Start \/ Stop \/ Reopen \/ GoLive
           \/ \E full, ok \in BOOLEAN, active, loaded \in SUBSET Owners : Poll(full, active, loaded, ok)
  BY DEF Next, Collector, Quiet

(* Publications are made in order: no step makes the next one a past one.   *)
Advanced ==
    /\ col' \in [up: BOOLEAN, epoch: Nat, seq: Nat, loaded: SUBSET Owners]
    /\ col.epoch < col'.epoch \/ (col.epoch = col'.epoch /\ col.seq <= col'.seq)

(* Each start and each change of the homes takes a new epoch, each poll a   *)
(* new sequence number.                                                     *)
LEMMA Advances ==
    ASSUME Types, ViewInv, StoreInv, [Next]_vars
    PROVE  Advanced
  <1>1. col \in [up: BOOLEAN, epoch: Nat, seq: Nat, loaded: SUBSET Owners] /\ col.epoch = epochs /\ epochs \in Nat
    BY DEF Types, CollectorType, ViewInv
  <1>2. CASE Quiet \/ GoLive
    BY <1>1, <1>2, QuietFrame DEF GoLive, Advanced
  <1>3. CASE Start
    BY <1>1, <1>3 DEF Start, Advanced
  <1>4. CASE Stop
    <2>1. col' = [col EXCEPT !.up = FALSE, !.loaded = {}]
      BY <1>4 DEF Stop
    <2>2. col' = [up |-> FALSE, epoch |-> col.epoch, seq |-> col.seq, loaded |-> {}]
      BY <1>1, <2>1
    <2> QED BY <1>1, <2>2 DEF Advanced
  <1>5. CASE Reopen
    <2>1. col' = [col EXCEPT !.epoch = epochs + 1, !.loaded = {}]
      BY <1>5 DEF Reopen
    <2>2. col' = [up |-> col.up, epoch |-> epochs + 1, seq |-> col.seq, loaded |-> {}]
      BY <1>1, <2>1
    <2> QED BY <1>1, <2>2 DEF Advanced
  <1>6. ASSUME NEW full \in BOOLEAN, NEW ok \in BOOLEAN,
               NEW active \in SUBSET Owners, NEW loaded \in SUBSET Owners, Poll(full, active, loaded, ok)
        PROVE  Advanced
    <2>1. col' = [up |-> TRUE, epoch |-> col.epoch, seq |-> col.seq + 1, loaded |-> loaded]
      BY <1>6, PollFacts
    <2> QED BY <1>1, <2>1 DEF Advanced
  <1> QED BY <1>2, <1>3, <1>4, <1>5, <1>6, Cases

(* So what has been published stays in the past.                            *)
LEMMA PastStays ==
    ASSUME Types, Advanced, NEW p \in PubT, Past(p)
    PROVE  p[1] # 0 /\ (p[1] < col'.epoch \/ (p[1] = col'.epoch /\ p[2] <= col'.seq))
  BY PubFacts DEF Advanced, Past, Types, CollectorType

(* A publication that is not live yet is newer than the one that is.        *)
LEMMA PreparedDerived ==
    ASSUME Types, ViewInv, NEW c, Prepared(c)
    PROVE  Derived(c, live)
  <1>1. /\ c.pub \in PubT /\ c.pub[1] = col.epoch /\ c.pub[2] = col.seq + 1 /\ c.pub[2] # 0
        /\ c.rows \in RowsT /\ c.stRev \in [Owners -> Nat] /\ c.memRev \in Nat
        /\ col.seq \in Nat /\ col.epoch \in Nat /\ live \in ViewT /\ live.rows \in RowsT /\ live.pub \in PubT
        /\ live.stRev \in [Owners -> Nat]
    BY PreparedShape DEF Types, CollectorType, ViewType, ViewT
  <1>2. SUFFICES ASSUME SameEpoch(c, live)
                 PROVE  /\ live.pub[2] < c.pub[2]
                        /\ \A o \in Present(c.rows) :
                             /\ c.rows[o].rev <= live.pub[2] => live.rows[o].rev = c.rows[o].rev /\ live.rows[o].body = c.rows[o].body
                             /\ c.stRev[o] <= live.pub[2] => live.rows[o] = c.rows[o] /\ live.stRev[o] = c.stRev[o]
                        /\ c.memRev <= live.pub[2] => live.memRev = c.memRev /\ Present(live.rows) = Present(c.rows)
    BY DEF Derived
  <1>3. live # NoLive /\ Past(live.pub) /\ live.pub[1] = col.epoch
    BY <1>1, <1>2, Nothing DEF ViewInv, Shape, SameEpoch
  <1>4. live.pub[2] < c.pub[2] /\ live.pub[2] \in Nat
    BY <1>1, <1>3, PubFacts DEF Past
  <1>5. ~(c.pub[2] <= live.pub[2])
    BY <1>1, <1>4
  <1>6. ASSUME NEW o \in Present(c.rows)
        PROVE  /\ c.rows[o].rev <= live.pub[2] => live.rows[o].rev = c.rows[o].rev /\ live.rows[o].body = c.rows[o].body
               /\ c.stRev[o] <= live.pub[2] => live.rows[o] = c.rows[o] /\ live.stRev[o] = c.stRev[o]
    <2>1. o \in Owners /\ c.rows[o] # NoRow
      BY Nothing DEF Present
    <2>2. PreparedRow(c, o) /\ PreparedState(c, o)
      BY <2>1 DEF Prepared
    <2>3. c.rows[o].rev <= live.pub[2] => live.rows[o].rev = c.rows[o].rev /\ live.rows[o].body = c.rows[o].body
      BY <2>1, <2>2, <1>5 DEF PreparedRow
    <2>4. c.stRev[o] <= live.pub[2] => live.rows[o] = c.rows[o] /\ live.stRev[o] = c.stRev[o]
      BY <2>1, <2>2, <1>5 DEF PreparedState
    <2> QED BY <2>3, <2>4
  <1>7. c.memRev <= live.pub[2] => live.memRev = c.memRev /\ Present(live.rows) = Present(c.rows)
    BY <1>5 DEF Prepared, PreparedMembers
  <1> QED BY <1>4, <1>6, <1>7

(* LiveCollection before its first publication promises nothing.            *)
LEMMA NoView ==
    /\ Whole(NoLive.rows) /\ \A o \in Owners : NoLive.rows[o].rev <= NoLive.pub[2]
    /\ \A w : Derived(NoLive, w)
  BY Nothing DEF Whole, Derived, SameEpoch

(* What the server shows and what waits for GoLive are publications of this *)
(* process, the candidate derived from the one shown.                       *)
LEMMA ViewStep ==
    ASSUME Types, ViewInv, StoreInv, [Next]_vars
    PROVE  ViewInv'
  <1>t. /\ col \in [up: BOOLEAN, epoch: Nat, seq: Nat, loaded: SUBSET Owners] /\ epochs \in Nat
        /\ live \in ViewT /\ cand \in ViewT /\ live.pub \in PubT /\ cand.pub \in PubT
    BY DEF Types, CollectorType, ViewType, ViewT
  <1>i. /\ col.epoch = epochs /\ (col.up => col.epoch # 0)
        /\ Shape(live) /\ Shape(cand) /\ Derived(cand, live)
        /\ cand # NoLive => cand.pub = <<col.epoch, col.seq>>
    BY DEF ViewInv
  <1>a. Advanced
    BY Advances
  <1>p. \A p \in PubT : Past(p) => p[1] # 0 /\ (p[1] < col'.epoch \/ (p[1] = col'.epoch /\ p[2] <= col'.seq))
    BY <1>a, PastStays
  <1>1. CASE Quiet
    <2>1. UNCHANGED <<col, live, cand, epochs>>
      BY <1>1, QuietFrame
    <2> QED BY <2>1, <1>i DEF ViewInv, Shape, Past, Derived, SameEpoch
  <1>2. CASE Start
    <2>1. ~col.up /\ col'.epoch = epochs' /\ epochs' = epochs + 1 /\ UNCHANGED <<live, cand>>
      BY <1>2 DEF Start
    <2>2. live = NoLive /\ cand = NoLive
      BY <2>1, <1>i DEF Shape
    <2> QED BY <2>1, <2>2, <1>t, NoView DEF ViewInv, Shape
  <1>3. CASE Stop
    <2>1. col' = [col EXCEPT !.up = FALSE, !.loaded = {}] /\ epochs' = epochs /\ live' = NoLive /\ cand' = NoLive
      BY <1>3 DEF Stop
    <2>2. col'.up = FALSE /\ col'.epoch = epochs'
      BY <2>1, <1>t, <1>i
    <2> QED BY <2>1, <2>2, NoView DEF ViewInv, Shape
  <1>4. CASE Reopen
    <2>1. /\ col' = [col EXCEPT !.epoch = epochs + 1, !.loaded = {}] /\ epochs' = epochs + 1
          /\ cand = NoLive /\ UNCHANGED <<live, cand>> /\ col.up
      BY <1>4 DEF Reopen
    <2>2. col'.epoch = epochs + 1 /\ col'.up = col.up
      BY <2>1, <1>t
    <2>4. col'.epoch = epochs' /\ col'.epoch # 0
      BY <2>1, <2>2, <1>t
    <2>3. Shape(live)'
      BY <2>1, <2>2, <1>i, <1>p, <1>t DEF Shape, Past
    <2> QED BY <2>1, <2>2, <2>3, <2>4, NoView DEF ViewInv, Shape
  <1>5. CASE GoLive
    <2>1. cand # NoLive /\ live' = cand /\ cand' = NoLive /\ UNCHANGED <<col, epochs>>
      BY <1>5 DEF GoLive
    <2>2. Shape(live)'
      BY <2>1, <1>i DEF Shape, Past
    <2> QED BY <2>1, <2>2, <1>i, NoView DEF ViewInv, Shape
  <1>6. ASSUME NEW full \in BOOLEAN, NEW ok \in BOOLEAN,
               NEW active \in SUBSET Owners, NEW loaded \in SUBSET Owners, Poll(full, active, loaded, ok)
        PROVE  ViewInv'
    <2>1. /\ col.up /\ cand = NoLive /\ epochs' = epochs
          /\ col' = [up |-> TRUE, epoch |-> col.epoch, seq |-> col.seq + 1, loaded |-> loaded]
      BY <1>6, PollFacts
    <2>2. PICK c : /\ Prepared(c)
                   /\ (live' = c /\ cand' = cand) \/ (cand' = c /\ live' = live)
      BY <1>6, PollFacts DEF Committed
    <2>3. /\ col'.up = col.up /\ col'.epoch = col.epoch /\ col'.seq = col.seq + 1 /\ col'.epoch = epochs'
          /\ (col'.up => col'.epoch # 0)
      BY <2>1, <1>t, <1>i
    <2>4. /\ Whole(c.rows) /\ \A o \in Owners : c.rows[o].rev <= c.pub[2]
          /\ c.pub \in PubT /\ c.pub[1] = col.epoch /\ c.pub[2] = col.seq + 1 /\ c.pub[2] # 0
      BY <2>2, PreparedShape
    <2>5. /\ c.pub[1] # 0 /\ c.pub[1] = col'.epoch /\ c.pub[2] = col'.seq /\ c.pub = <<col'.epoch, col'.seq>>
          /\ c.pub[2] <= col'.seq
      BY <2>1, <2>3, <2>4, <1>t, <1>i, PubFacts
    <2>6. CASE live' = c /\ cand' = cand
      <3>1. Shape(live)'
        BY <2>1, <2>3, <2>4, <2>5, <2>6 DEF Shape, Past
      <3> QED BY <3>1, <2>1, <2>3, <2>6, NoView DEF ViewInv, Shape
    <2>7. CASE cand' = c /\ live' = live
      <3>1. Shape(cand)'
        BY <2>1, <2>3, <2>4, <2>5, <2>7 DEF Shape, Past
      <3>2. Shape(live)'
        BY <2>1, <2>3, <2>7, <1>i, <1>p, <1>t DEF Shape, Past
      <3>3. Derived(cand, live)'
        BY <2>2, <2>7, PreparedDerived DEF Derived, SameEpoch
      <3> QED BY <3>1, <3>2, <3>3, <2>3, <2>5, <2>7 DEF ViewInv
    <2> QED BY <2>2, <2>6, <2>7
  <1> QED BY <1>1, <1>2, <1>3, <1>4, <1>5, <1>6, Cases

-----------------------------------------------------------------------------
(* The database and the publications kept in it                             *)

(* Every step keeps the table in agreement with the manifest: a commit      *)
(* writes both and what publish() remembers of them, nothing else does.     *)
LEMMA StoreStep ==
    ASSUME Types, ViewInv, StoreInv, [Next]_vars
    PROVE  StoreInv'
  <1>t. /\ col \in [up: BOOLEAN, epoch: Nat, seq: Nat, loaded: SUBSET Owners] /\ epochs \in Nat
        /\ snap \in SnapT /\ snap.pub \in PubT /\ rows \in RowsT /\ top \in [Owners -> Nat]
    BY DEF Types, CollectorType, StoreType, SnapT
  <1>e. col.epoch = epochs /\ (col.up => col.epoch # 0)
    BY DEF ViewInv
  <1>i. /\ Whole(rows) /\ Whole(snap.man)
        /\ \A o \in Present(snap.man) : /\ rows[o].rev = snap.man[o].rev /\ rows[o].body = snap.man[o].body
                                        /\ top[o] = snap.man[o].rev
        /\ \A o \in Present(rows) : top[o] # 0 => rows[o].rev = top[o]
        /\ snap.pub # NoPub => Past(snap.pub)
        /\ snap = NoSnap \/ snap.pub # NoPub
        /\ published.epoch # 0 => published.epoch = snap.pub[1] /\ published.rows = snap.man
        /\ col.up /\ snap.pub[1] = col.epoch => published.epoch = col.epoch
    BY DEF StoreInv
  <1>p. /\ snap.pub # NoPub => snap.pub[1] # 0 /\ (\/ snap.pub[1] < col'.epoch
                                                   \/ snap.pub[1] = col'.epoch /\ snap.pub[2] <= col'.seq)
        /\ snap.pub[1] <= col.epoch /\ snap.pub[1] \in Nat
    <2>1. Advanced
      BY Advances
    <2>2. snap.pub[1] <= col.epoch /\ snap.pub[1] \in Nat
      <3>1. CASE snap.pub = NoPub
        BY <3>1, <1>t, Nothing
      <3>2. CASE Past(snap.pub)
        BY <3>2, <1>t, PubFacts DEF Past
      <3> QED BY <3>1, <3>2, <1>i
    <2>3. snap.pub # NoPub => snap.pub[1] # 0 /\ (\/ snap.pub[1] < col'.epoch
                                                  \/ snap.pub[1] = col'.epoch /\ snap.pub[2] <= col'.seq)
      BY <2>1, <1>t, <1>i, PastStays
    <2> QED BY <2>2, <2>3
  <1>1. ASSUME UNCHANGED <<snap, rows, top>>,
               published'.epoch # 0 => published' = published,
               col'.up /\ snap.pub[1] = col'.epoch => published'.epoch = col'.epoch
        PROVE  StoreInv'
    BY <1>1, <1>i, <1>p DEF StoreInv, Past, Whole, Present
  <1>2. CASE Quiet
    BY <1>2, <1>1, <1>i, QuietFrame
  <1>3. CASE Start
    <2>1. /\ col' = [up |-> TRUE, epoch |-> epochs + 1, seq |-> 0, loaded |-> {}]
          /\ UNCHANGED <<snap, rows, top, published>>
      BY <1>3 DEF Start, hist
    <2>2. snap.pub[1] # col'.epoch
      BY <2>1, <1>t, <1>e, <1>p
    <2> QED BY <2>1, <2>2, <1>1
  <1>4. CASE Stop
    <2>1. /\ col' = [col EXCEPT !.up = FALSE, !.loaded = {}] /\ published' = NothingPublished
          /\ UNCHANGED <<snap, rows, top>>
      BY <1>4 DEF Stop, hist
    <2>2. col'.up = FALSE /\ published'.epoch = 0
      BY <2>1, <1>t DEF NothingPublished
    <2> QED BY <2>1, <2>2, <1>1
  <1>5. CASE Reopen
    <2>1. /\ col' = [col EXCEPT !.epoch = epochs + 1, !.loaded = {}]
          /\ UNCHANGED <<snap, rows, top, published>>
      BY <1>5 DEF Reopen, hist
    <2>2. col'.epoch = epochs + 1
      BY <2>1, <1>t
    <2>3. snap.pub[1] # col'.epoch
      BY <2>2, <1>t, <1>e, <1>p
    <2> QED BY <2>1, <2>3, <1>1
  <1>6. CASE GoLive
    <2>1. UNCHANGED <<snap, rows, top, published, col>>
      BY <1>6 DEF GoLive, hist
    <2> QED BY <2>1, <1>1, <1>i
  <1>7. ASSUME NEW full \in BOOLEAN, NEW ok \in BOOLEAN,
               NEW active \in SUBSET Owners, NEW loaded \in SUBSET Owners, Poll(full, active, loaded, ok)
        PROVE  StoreInv'
    <2>1. /\ col.up /\ col' = [up |-> TRUE, epoch |-> col.epoch, seq |-> col.seq + 1, loaded |-> loaded]
          /\ col.epoch # 0 /\ col'.epoch = col.epoch /\ col'.up /\ col'.seq = col.seq + 1
      BY <1>7, PollFacts, <1>e
    <2>2. PICK c : /\ Prepared(c)
                   /\ \/ UNCHANGED <<published, snap, rows, top>>
                      \/ /\ Committed(c, Manifest(c)) /\ top' \in [Owners -> Nat] /\ rows' \in RowsT
      BY <1>7, PollFacts
    <2>3. CASE UNCHANGED <<published, snap, rows, top>>
      BY <2>1, <2>3, <1>1, <1>i
    <2>4. CASE Committed(c, Manifest(c)) /\ top' \in [Owners -> Nat] /\ rows' \in RowsT
      <3>m. PICK man : man = Manifest(c)
        OBVIOUS
      <3>1. /\ Whole(c.rows) /\ c.pub \in PubT /\ c.pub[1] = col.epoch /\ c.pub[2] = col.seq + 1
        BY <2>2, PreparedShape
      <3>2. man \in RowsT /\ Whole(man)
        BY <2>1, <2>2, <3>1, <3>m, ManifestFacts
      <3>3. /\ snap' = [pub |-> c.pub, man |-> man, loading |-> c.loading, full |-> c.full]
            /\ published'.epoch = c.pub[1] /\ published'.rows = man
            /\ \A o \in Owners :
                 /\ o \in Present(man) => rows'[o] = [man[o] EXCEPT !.st = FALSE] /\ top'[o] = man[o].rev
                 /\ o \notin Present(man) => /\ rows'[o] = rows[o] \/ rows'[o] = NoRow
                                             /\ top'[o] = IF snap.pub[1] = c.pub[1] THEN top[o] ELSE 0
        BY <2>4, <3>m DEF Committed
      <3>4. ASSUME NEW o \in Present(man)
            PROVE  /\ rows'[o].rev = man[o].rev /\ rows'[o].body = man[o].body /\ top'[o] = man[o].rev
                   /\ rows'[o].rev # 0 /\ rows'[o].body # 0
        <4>1. o \in Owners /\ man[o].body # 0 /\ man[o].rev # 0
          BY <3>2, Nothing DEF Present, Whole
        <4>2. man[o] \in RowT
          BY <3>2, <4>1, RowFacts
        <4>3. rows'[o] = [man[o] EXCEPT !.st = FALSE] /\ top'[o] = man[o].rev
          BY <3>3, <4>1
        <4> QED BY <4>1, <4>2, <4>3 DEF RowT
      <3>5. Whole(rows')
        <4> SUFFICES ASSUME NEW o \in Owners
                     PROVE  rows'[o] = NoRow \/ (rows'[o].body # 0 /\ rows'[o].rev # 0)
          BY DEF Whole
        <4>1. CASE o \in Present(man)
          BY <3>4, <4>1
        <4>2. CASE o \notin Present(man)
          <5>1. rows'[o] = rows[o] \/ rows'[o] = NoRow
            BY <3>3, <4>2
          <5>2. rows[o] = NoRow \/ (rows[o].body # 0 /\ rows[o].rev # 0)
            BY <1>i DEF Whole
          <5> QED BY <5>1, <5>2
        <4> QED BY <4>1, <4>2
      <3>6. ASSUME NEW o \in Present(rows'), top'[o] # 0 PROVE rows'[o].rev = top'[o]
        <4>1. o \in Owners /\ rows'[o].body # 0
          BY DEF Present
        <4>2. CASE o \in Present(man)
          BY <3>4, <4>2
        <4>3. CASE o \notin Present(man)
          <5>1. rows'[o] = rows[o] /\ top'[o] = top[o]
            BY <3>3, <3>6, <4>1, <4>3, Nothing
          <5> QED BY <3>6, <4>1, <5>1, <1>i DEF Present
        <4> QED BY <4>2, <4>3
      <3>7. snap'.pub = c.pub /\ snap'.man = man
        BY <3>3
      <3>8. c.pub[1] # 0 /\ c.pub # NoPub /\ c.pub[1] = col'.epoch /\ c.pub[2] <= col'.seq
        BY <2>1, <3>1, <1>t, Nothing
      <3>9. Past(c.pub)'
        BY <3>8 DEF Past
      <3> QED BY <3>2, <3>3, <3>4, <3>5, <3>6, <3>7, <3>8, <3>9, <2>1 DEF StoreInv, Past
    <2> QED BY <2>2, <2>3, <2>4
  <1> QED BY <1>2, <1>3, <1>4, <1>5, <1>6, <1>7, Cases

(* One publication has one set of bodies in the candidate, in the live      *)
(* answers, in the snapshot and in the catalog of a restart.                *)
LEMMA SameStep ==
    ASSUME Types, ViewInv, StoreInv, SameBodies, [Next]_vars
    PROVE  SameBodies'
  <1>t. /\ col \in [up: BOOLEAN, epoch: Nat, seq: Nat, loaded: SUBSET Owners] /\ epochs \in Nat
        /\ live.pub \in PubT /\ snap.pub \in PubT /\ recovery.pub \in PubT /\ cand.pub \in PubT
    BY DEF Types, CollectorType, ViewType, ViewT, StoreType, SnapT
  <1>e. /\ col.epoch = epochs /\ (col.up => col.epoch # 0) /\ (cand # NoLive => cand.pub = <<col.epoch, col.seq>>)
        /\ live # NoLive => col.up /\ Past(live.pub)
        /\ cand # NoLive => col.up
        /\ snap.pub # NoPub => Past(snap.pub)
    BY DEF ViewInv, Shape, StoreInv
  <1>i. /\ cand # NoLive => snap.pub = cand.pub /\ Bodies(snap.man) = Bodies(cand.rows)
        /\ live # NoLive /\ live.pub = snap.pub => Bodies(snap.man) = Bodies(live.rows)
        /\ recovery.pub # NoPub /\ recovery.pub = snap.pub => recovery.bodies = Bodies(snap.man)
        /\ recovery.pub # NoPub => /\ Past(recovery.pub) /\ recovery.pub[1] < col.epoch
                                   /\ live # NoLive => recovery.pub[1] < live.pub[1]
    BY DEF SameBodies
  <1>p. \A p \in PubT : Past(p) => Past(p)'
    <2>1. Advanced
      BY Advances
    <2> QED BY <2>1, PastStays DEF Past
  <1>0. NoLive.pub = NoPub /\ NoRecovery.pub = NoPub
    BY Nothing DEF NoRecovery
  <1>1. CASE Quiet
    <2>1. UNCHANGED <<col, live, cand, recovery, snap>>
      BY <1>1, QuietFrame
    <2> QED BY <2>1, <1>i DEF SameBodies, Past
  <1>2. CASE Start
    <2>1. /\ ~col.up /\ col' = [up |-> TRUE, epoch |-> epochs + 1, seq |-> 0, loaded |-> {}]
          /\ recovery' = IF Present(snap.man) = {} THEN NoRecovery
                         ELSE [pub |-> snap.pub, bodies |-> Bodies(snap.man)]
          /\ UNCHANGED <<live, cand, snap>>
      BY <1>2 DEF Start
    <2>2. live = NoLive /\ cand = NoLive
      BY <2>1, <1>e
    <2>3. CASE recovery' = NoRecovery
      BY <2>1, <2>2, <2>3, <1>0 DEF SameBodies
    <2>4. CASE recovery' = [pub |-> snap.pub, bodies |-> Bodies(snap.man)]
      <3>1. recovery'.pub = snap.pub /\ recovery'.bodies = Bodies(snap.man)
        BY <2>4
      <3>2. snap.pub # NoPub => Past(snap.pub)' /\ snap.pub[1] < col'.epoch
        <4>1. col'.epoch = col.epoch + 1
          BY <2>1, <1>e
        <4>2. snap.pub # NoPub => snap.pub[1] <= col.epoch /\ snap.pub[1] \in Nat
          BY <1>e, <1>t, PubFacts DEF Past
        <4>3. snap.pub # NoPub => snap.pub[1] < col'.epoch
          BY <4>1, <4>2, <1>t
        <4>4. snap.pub # NoPub => Past(snap.pub)'
          BY <1>e, <1>t, <1>p, <2>1 DEF Past
        <4> QED BY <4>3, <4>4
      <3>3. snap.pub # NoPub => Past(recovery.pub)'
        BY <3>1, <3>2, <2>1 DEF Past
      <3> QED BY <2>1, <2>2, <3>1, <3>2, <3>3 DEF SameBodies
    <2> QED BY <2>1, <2>3, <2>4
  <1>3. CASE Stop
    <2>1. live' = NoLive /\ cand' = NoLive /\ recovery' = NoRecovery
      BY <1>3 DEF Stop
    <2> QED BY <2>1, <1>0 DEF SameBodies
  <1>4. CASE Reopen
    <2>1. /\ col' = [col EXCEPT !.epoch = epochs + 1, !.loaded = {}] /\ cand = NoLive
          /\ UNCHANGED <<live, cand, recovery, snap>>
      BY <1>4 DEF Reopen
    <2>2. col'.epoch = col.epoch + 1
      BY <2>1, <1>t, <1>e
    <2>3. recovery.pub # NoPub => Past(recovery.pub)' /\ recovery.pub[1] < col'.epoch
      <3>1. recovery.pub[1] \in Nat
        BY <1>t, PubFacts
      <3>2. recovery.pub # NoPub => Past(recovery.pub)'
        BY <1>i, <1>p, <1>t, <2>1 DEF Past
      <3> QED BY <3>1, <3>2, <2>2, <1>i, <1>t
    <2> QED BY <2>1, <2>3, <1>i DEF SameBodies
  <1>5. CASE GoLive
    <2>1. cand # NoLive /\ live' = cand /\ cand' = NoLive /\ UNCHANGED <<col, recovery, snap>>
      BY <1>5 DEF GoLive
    <2>2. cand.pub[1] = col.epoch
      BY <2>1, <1>e
    <2> QED BY <2>1, <2>2, <1>i, <1>e DEF SameBodies, Past
  <1>6. ASSUME NEW full \in BOOLEAN, NEW ok \in BOOLEAN,
               NEW active \in SUBSET Owners, NEW loaded \in SUBSET Owners, Poll(full, active, loaded, ok)
        PROVE  SameBodies'
    <2>1. /\ cand = NoLive /\ recovery' = recovery /\ col.epoch # 0
          /\ col' = [up |-> TRUE, epoch |-> col.epoch, seq |-> col.seq + 1, loaded |-> loaded]
      BY <1>6, PollFacts, <1>e
    <2>2. PICK c : /\ Prepared(c)
                   /\ \/ live' = c /\ UNCHANGED <<cand, snap>>
                      \/ Committed(c, Manifest(c))
      BY <1>6, PollFacts
    <2>3. Whole(c.rows) /\ c.pub \in PubT /\ c.pub[1] = col.epoch /\ c.pub[2] = col.seq + 1
      BY <2>2, PreparedShape
    <2>4. c.pub # NoPub /\ ~Past(c.pub) /\ col'.epoch = col.epoch
      <3>1. col.epoch \in Nat /\ col.seq \in Nat /\ col'.epoch = col.epoch
        BY <2>1, <1>t
      <3>2. c.pub # NoPub
        BY <2>1, <2>3, Nothing
      <3>3. ~Past(c.pub)
        BY <3>1, <2>3 DEF Past
      <3> QED BY <3>1, <3>2, <3>3
    <2>5. /\ recovery.pub # c.pub
          /\ recovery.pub # NoPub => Past(recovery.pub)' /\ recovery.pub[1] < col'.epoch
      <3>1. recovery.pub # NoPub => Past(recovery.pub)'
        BY <1>i, <1>p, <1>t, <2>1 DEF Past
      <3> QED BY <3>1, <2>4, <1>i
    <2>6. CASE live' = c /\ UNCHANGED <<cand, snap>>
      <3>1. c.pub # snap.pub
        BY <2>4, <1>e
      <3> QED BY <3>1, <2>1, <2>3, <2>4, <2>5, <2>6, <1>i DEF SameBodies
    <2>7. CASE Committed(c, Manifest(c))
      <3>m. PICK man : man = Manifest(c)
        OBVIOUS
      <3>1. man \in RowsT /\ \A o \in Owners : man[o].body = c.rows[o].body
        BY <2>1, <2>2, <2>3, <3>m, ManifestFacts
      <3>2. /\ cand' = c /\ live' = live /\ snap'.pub = c.pub /\ snap'.man = man
        BY <2>7, <3>m DEF Committed
      <3>3. Bodies(man) = Bodies(c.rows)
        BY <3>1 DEF Bodies
      <3>4. live # NoLive => live.pub # c.pub
        BY <2>4, <1>e
      <3> QED BY <2>1, <2>4, <2>5, <3>2, <3>3, <3>4, <1>i DEF SameBodies
    <2> QED BY <2>2, <2>6, <2>7
  <1> QED BY <1>1, <1>2, <1>3, <1>4, <1>5, <1>6, Cases

-----------------------------------------------------------------------------
(* A read                                                                   *)

ReaderT == [kind: {"none", "live", "durable"}, pub: PubT, rows: RowsT, loading: BOOLEAN,
            chk: PubT, excl: SUBSET Owners]

(* _retain_pending keeps what a publication does not prove gone, marked.    *)
LEMMA RetainedFacts ==
    ASSUME Types, NEW new \in RowsT, NEW loading \in BOOLEAN
    PROVE  /\ Retained(new, loading) \in RowsT
           /\ \A o \in Owners :
                \/ new[o].body # 0 /\ new[o].rev # 0 /\ Retained(new, loading)[o] = new[o]
                \/ new[o].body = 0 /\ Retained(new, loading)[o] = new[o]
                \/ ~loading /\ Retained(new, loading)[o] = NoRow /\ new[o].rev = 0
                \/ loading /\ new[o].body # 0 /\ new[o].rev = 0 /\ Retained(new, loading)[o] = new[o]
                \/ /\ loading /\ new[o].body = 0 /\ reader.rows[o].body # 0
                   /\ Retained(new, loading)[o].rev = 0
                   /\ Retained(new, loading)[o].body = reader.rows[o].body
  <1> DEFINE kept(o) == [rev |-> 0, body |-> reader.rows[o].body, st |-> FALSE]
             val(o) == IF o \in Kept(new, loading) THEN kept(o)
                       ELSE IF ~loading /\ o \in Pending(new) THEN NoRow ELSE new[o]
  <1>1. Retained(new, loading) = [o \in Owners |-> val(o)]
    BY DEF Retained
  <1>t. reader.rows \in RowsT
    BY DEF Types, ReaderType
  <1>2. ASSUME NEW o \in Owners PROVE kept(o) \in RowT /\ kept(o).rev = 0 /\ kept(o).body = reader.rows[o].body
    BY <1>t, RowFacts DEF RowT
  <1> HIDE DEF kept
  <1>3. ASSUME NEW o \in Owners PROVE val(o) \in RowT
    BY <1>2, RowFacts, Nothing
  <1>4. ASSUME NEW o \in Owners
        PROVE  \/ new[o].body # 0 /\ new[o].rev # 0 /\ val(o) = new[o]
               \/ new[o].body = 0 /\ val(o) = new[o]
               \/ ~loading /\ val(o) = NoRow /\ new[o].rev = 0
               \/ loading /\ new[o].body # 0 /\ new[o].rev = 0 /\ val(o) = new[o]
               \/ loading /\ new[o].body = 0 /\ reader.rows[o].body # 0 /\ val(o) = kept(o)
    BY DEF Kept, Present, Pending
  <1>5. Retained(new, loading) \in RowsT
    <2> HIDE DEF val
    <2> QED BY <1>1, <1>3 DEF RowsT
  <1>6. ASSUME NEW o \in Owners
        PROVE  \/ new[o].body # 0 /\ new[o].rev # 0 /\ Retained(new, loading)[o] = new[o]
               \/ new[o].body = 0 /\ Retained(new, loading)[o] = new[o]
               \/ ~loading /\ Retained(new, loading)[o] = NoRow /\ new[o].rev = 0
               \/ loading /\ new[o].body # 0 /\ new[o].rev = 0 /\ Retained(new, loading)[o] = new[o]
               \/ /\ loading /\ new[o].body = 0 /\ reader.rows[o].body # 0
                  /\ Retained(new, loading)[o].rev = 0
                  /\ Retained(new, loading)[o].body = reader.rows[o].body
    <2>1. Retained(new, loading)[o] = val(o)
      BY <1>1
    <2> HIDE DEF val
    <2> QED BY <2>1, <1>2, <1>4
  <1> QED BY <1>5, <1>6

(* A live answer, taken: every row of the publication is shown as it is     *)
(* there, a row beyond it is marked pending, and the checkpoint kept for    *)
(* the next request still proves the bodies it is not said to miss.         *)
LiveRead ==
    /\ live # NoLive /\ error' = error /\ reader' \in ReaderT
    /\ reader'.kind = "live" /\ reader'.pub = live.pub /\ reader'.loading = live.loading
    /\ \A o \in Owners :
         /\ o \in Present(live.rows) => reader'.rows[o] = live.rows[o]
         /\ o \notin Present(live.rows) =>
              \/ reader'.rows[o] = NoRow
              \/ reader'.rows[o].rev = 0 /\ reader'.rows[o].body # 0 /\ live.loading
    /\ \/ reader'.chk = NoPub /\ reader'.excl = {}
       \/ /\ reader'.chk = Checkpoint /\ (reader.kind = "durable" \/ reader.chk # NoPub)
          /\ \A o \in Owners \ reader'.excl :
               o \notin reader.excl /\ (reader.rows[o].body # 0 => reader'.rows[o].body = reader.rows[o].body)

(* read() takes the live answer so, or it raises after a reuse: what the    *)
(* answer leaves out the reader has, by revision or by its checkpoint.      *)
LEMMA ReadLiveFacts ==
    ASSUME Types, ViewInv, ReaderInv, ReadLive
    PROVE  LiveRead \/ (error' = TRUE /\ reader' = reader /\ reused)
  <1> DEFINE since == IF reader.kind = "live" /\ reader.pub[1] = live.pub[1] THEN reader.pub[2] ELSE -1
             base(o) == IF since # -1 THEN reader.rows[o] ELSE NoRow
             delta == since >= live.memRev
             entries == {o \in Present(live.rows) : ~delta \/ live.stRev[o] > since}
             found(o) == \/ Sent(o, since, Checkpoint)
                         \/ base(o).body = live.rows[o].body /\ base(o).rev = live.rows[o].rev
                         \/ base(o).rev # live.rows[o].rev /\ reader.rows[o].body = live.rows[o].body
             new == [o \in Owners |-> IF o \in entries THEN live.rows[o] ELSE IF delta THEN base(o) ELSE NoRow]
             result == Retained(new, live.loading)
             keep == KeepsCheckpoint(result)
             excl == IF reader.kind = "durable" THEN {} ELSE reader.excl
             missed == {o \in Present(reader.rows) : result[o].body # reader.rows[o].body}
             chk == IF ~keep THEN NoPub ELSE IF reader.kind = "durable" THEN reader.pub ELSE reader.chk
             ex == IF ~keep THEN {} ELSE excl \cup missed
  <1>1. /\ live # NoLive
        /\ IF \A o \in entries : found(o)
           THEN /\ reader' = [kind |-> "live", pub |-> live.pub, rows |-> result, loading |-> live.loading,
                              chk |-> chk, excl |-> ex]
                /\ UNCHANGED error
           ELSE error' = TRUE /\ UNCHANGED reader
    BY DEF ReadLive, Checkpoint
  <1>t. /\ reader \in ReaderT /\ reader.pub \in PubT /\ reader.rows \in RowsT /\ reader.chk \in PubT
        /\ reader.excl \subseteq Owners
        /\ live \in ViewT /\ live.pub \in PubT /\ live.rows \in RowsT /\ live.stRev \in [Owners -> Nat]
        /\ live.memRev \in Nat /\ live.loading \in BOOLEAN
    <2>1. reader \in ReaderT /\ live \in ViewT
      BY DEF Types, ReaderType, ViewType, ReaderT
    <2> QED BY <2>1 DEF ReaderT, ViewT
  <1>v. /\ Whole(live.rows) /\ live.pub[1] # 0 /\ live.pub[1] \in Nat
    BY <1>1, <1>t, PubFacts DEF ViewInv, Shape, Past
  <1>r. /\ \A o \in Owners : reader.rows[o].body = 0 => reader.rows[o] = NoRow
        /\ reader.kind = "live" => Seen(live)
        /\ reader.kind = "durable" => reader.excl = {}
    BY DEF ReaderInv, CacheSound
  <1>s. /\ since = -1 \/ since \in Nat
        /\ since # -1 => reader.kind = "live" /\ reader.pub[1] = live.pub[1] /\ since = reader.pub[2]
    BY <1>t, PubFacts
  <1>2. ASSUME since # -1
        PROVE  /\ \A o \in Present(live.rows) :
                    /\ live.rows[o].rev <= since =>
                          reader.rows[o].rev = live.rows[o].rev /\ reader.rows[o].body = live.rows[o].body
                    /\ live.stRev[o] <= since => reader.rows[o] = live.rows[o]
               /\ live.memRev <= since => Present(reader.rows) \ Pending(reader.rows) \subseteq Present(live.rows)
    <2>1. reader.kind = "live" /\ reader.pub[1] = live.pub[1] /\ since = reader.pub[2] /\ Seen(live)
      BY <1>2, <1>s, <1>r
    <2> HIDE DEF since
    <2> QED BY <2>1, <1>v DEF Seen
  <1>b. \A o \in Owners : base(o) = reader.rows[o] \/ (since = -1 /\ base(o) = NoRow)
    OBVIOUS
  <1>c. since # -1 => \A o \in Owners : base(o) = reader.rows[o]
    OBVIOUS
  <1> HIDE DEF since, base
  <1>d. delta => since # -1 /\ live.memRev <= since
    BY <1>s, <1>t
  <1>3. ASSUME NEW o \in Present(live.rows)
        PROVE  o \in Owners /\ live.rows[o].rev # 0 /\ live.rows[o].body # 0 /\ live.rows[o].rev \in Nat
               /\ live.rows[o].body \in Nat /\ live.stRev[o] \in Nat /\ live.rows[o] # NoRow
    <2>1. o \in Owners /\ live.rows[o].body # 0
      BY DEF Present
    <2>2. live.rows[o] # NoRow /\ live.rows[o].rev # 0
      BY <2>1, <1>v, Nothing DEF Whole
    <2> QED BY <2>1, <2>2, <1>t, RowFacts
  <1>4. ASSUME ~reused, NEW o \in Present(live.rows) PROVE found(o)
    <2>1. CASE Sent(o, since, Checkpoint)
      BY <2>1
    <2>2. CASE ~(live.rows[o].rev > since)
      <3>1. live.rows[o].rev <= since /\ since # -1
        BY <2>2, <1>3, <1>s
      <3>2. reader.rows[o].rev = live.rows[o].rev /\ reader.rows[o].body = live.rows[o].body
        BY <3>1, <1>2
      <3>3. base(o) = reader.rows[o]
        BY <3>1, <1>3, <1>c
      <3> QED BY <3>2, <3>3
    <2>3. CASE /\ Checkpoint = recovery.pub /\ Checkpoint # NoPub /\ o \notin reader.excl
               /\ recovery.bodies[o] = live.rows[o].body
      <3>1. reader.rows[o].body = live.rows[o].body
        BY <2>3, <1>3, <1>4 DEF ReaderInv, Knows
      <3>2. CASE base(o).rev # live.rows[o].rev
        BY <3>1, <3>2
      <3>3. CASE base(o).rev = live.rows[o].rev
        <4>1. base(o) = reader.rows[o]
          BY <3>3, <1>3, <1>b, Nothing
        <4> QED BY <3>1, <3>3, <4>1
      <3> QED BY <3>2, <3>3
    <2> QED BY <2>1, <2>2, <2>3 DEF Sent
  <1> HIDE DEF found
  <1>5. CASE ~(\A o \in entries : found(o))
    <2>1. reused
      BY <1>4, <1>5
    <2> QED BY <2>1, <1>1, <1>5
  <1>6. CASE \A o \in entries : found(o)
    <2>1. /\ reader' = [kind |-> "live", pub |-> live.pub, rows |-> result, loading |-> live.loading,
                        chk |-> chk, excl |-> ex]
          /\ error' = error
      BY <1>1, <1>6
    <2>2. ASSUME NEW o \in Owners
          PROVE  /\ new[o] \in RowT
                 /\ o \in Present(live.rows) => new[o] = live.rows[o]
                 /\ o \notin Present(live.rows) =>
                      new[o] = NoRow \/ (new[o].rev = 0 /\ new[o].body # 0 /\ new[o] = reader.rows[o])
      <3>1. CASE o \in entries
        <4>1. new[o] = live.rows[o] /\ o \in Present(live.rows)
          BY <3>1
        <4> QED BY <4>1, <1>t, RowFacts
      <3>2. CASE o \notin entries /\ ~delta
        <4>1. new[o] = NoRow /\ o \notin Present(live.rows)
          BY <3>2
        <4> QED BY <4>1, Nothing
      <3>3. CASE o \notin entries /\ delta
        <4>1. new[o] = reader.rows[o]
          BY <3>3, <1>c, <1>d
        <4>2. o \in Present(live.rows) => reader.rows[o] = live.rows[o]
          <5>1. o \in Present(live.rows) => ~(live.stRev[o] > since)
            BY <3>3
          <5>2. o \in Present(live.rows) => live.stRev[o] <= since
            BY <5>1, <3>3, <1>3, <1>s, <1>d
          <5> QED BY <5>2, <3>3, <1>2, <1>d
        <4>3. o \notin Present(live.rows) =>
                reader.rows[o] = NoRow \/ (reader.rows[o].rev = 0 /\ reader.rows[o].body # 0)
          <5>1. Present(reader.rows) \ Pending(reader.rows) \subseteq Present(live.rows)
            BY <3>3, <1>2, <1>d
          <5> QED BY <5>1, <1>r DEF Present, Pending
        <4> QED BY <4>1, <4>2, <4>3, <1>t, RowFacts
      <3> QED BY <3>1, <3>2, <3>3
    <2>3. new \in RowsT
      <3>1. new = [o \in Owners |-> new[o]]
        OBVIOUS
      <3> HIDE DEF new
      <3> QED BY <3>1, <2>2 DEF RowsT
    <2> HIDE DEF new
    <2>4. /\ result \in RowsT
          /\ \A o \in Owners :
                \/ new[o].body # 0 /\ new[o].rev # 0 /\ result[o] = new[o]
                \/ new[o].body = 0 /\ result[o] = new[o]
                \/ ~live.loading /\ result[o] = NoRow /\ new[o].rev = 0
                \/ live.loading /\ new[o].body # 0 /\ new[o].rev = 0 /\ result[o] = new[o]
                \/ /\ live.loading /\ new[o].body = 0 /\ reader.rows[o].body # 0
                   /\ result[o].rev = 0 /\ result[o].body = reader.rows[o].body
      BY <2>3, <1>t, RetainedFacts
    <2> HIDE DEF result
    <2>5. ASSUME NEW o \in Owners
          PROVE  /\ o \in Present(live.rows) => result[o] = live.rows[o]
                 /\ o \notin Present(live.rows) =>
                      \/ result[o] = NoRow
                      \/ result[o].rev = 0 /\ result[o].body # 0 /\ live.loading
      <3>1. CASE o \in Present(live.rows)
        BY <3>1, <2>2, <2>4, <1>3
      <3>2. CASE o \notin Present(live.rows)
        <4>1. CASE new[o] = NoRow
          BY <4>1, <3>2, <2>4, Nothing
        <4>2. CASE new[o].rev = 0 /\ new[o].body # 0
          BY <4>2, <3>2, <2>4
        <4> QED BY <4>1, <4>2, <3>2, <2>2
      <3> QED BY <3>1, <3>2
    <2>6. chk \in PubT /\ ex \in SUBSET Owners
      BY <1>t, Nothing DEF Present
    <2>7. \/ chk = NoPub /\ ex = {}
          \/ /\ chk = Checkpoint /\ (reader.kind = "durable" \/ reader.chk # NoPub)
             /\ \A o \in Owners \ ex :
                  o \notin reader.excl /\ (reader.rows[o].body # 0 => result[o].body = reader.rows[o].body)
      <3>1. CASE ~keep
        BY <3>1
      <3>2. CASE keep
        <4>1. reader.kind = "durable" \/ reader.chk # NoPub
          BY <3>2 DEF KeepsCheckpoint
        <4>2. chk = Checkpoint
          BY <3>2, <4>1 DEF Checkpoint
        <4>3. ex = excl \cup missed /\ excl = reader.excl
          BY <3>2, <1>r
        <4> QED BY <4>1, <4>2, <4>3 DEF Present
      <3> QED BY <3>1, <3>2
    <2> HIDE DEF chk, ex
    <2>8. /\ reader'.kind = "live" /\ reader'.pub = live.pub /\ reader'.loading = live.loading
          /\ reader'.rows = result /\ reader'.chk = chk /\ reader'.excl = ex
      BY <2>1
    <2>9. reader' \in ReaderT
      BY <2>1, <2>4, <2>6, <1>t DEF ReaderT
    <2> QED BY <1>1, <2>1, <2>5, <2>7, <2>8, <2>9 DEF LiveRead
  <1> QED BY <1>5, <1>6

(* The snapshot, read: every row of the manifest is shown with its body, a  *)
(* row beyond it is marked pending.                                         *)
DurableRead ==
    /\ reader' \in ReaderT
    /\ reader'.kind = "durable" /\ reader'.pub = snap.pub /\ reader'.excl = {}
    /\ reader'.loading = (snap.loading \/ ~snap.full)
    /\ reader'.chk \in {snap.pub, NoPub}
    /\ \A o \in Owners :
         /\ reader'.rows[o].body = 0 => reader'.rows[o] = NoRow
         /\ ~reused /\ o \in Present(snap.man) => reader'.rows[o] = snap.man[o]
         /\ o \notin Present(snap.man) =>
              \/ reader'.rows[o] = NoRow
              \/ reader'.rows[o].rev = 0 /\ reader'.rows[o].body # 0 /\ snap.loading

(* read() never misses a body of the manifest; unless it has something      *)
(* newer, it takes the snapshot so.                                         *)
LEMMA ReadDurableFacts ==
    ASSUME Types, StoreInv, ReaderInv, ReadDurable
    PROVE  error' = error /\ (reader' = reader \/ (snap.pub # NoPub /\ DurableRead))
  <1> DEFINE cached(o) == reader.kind = "durable" /\ reader.pub[1] = snap.pub[1] /\ reader.rows[o].body # 0
                          /\ reader.rows[o].rev = snap.man[o].rev
             found(o) == cached(o) \/ (rows[o].rev = snap.man[o].rev /\ rows[o].body = snap.man[o].body)
             new == [o \in Owners |-> IF o \in Present(snap.man) /\ cached(o)
                                      THEN [snap.man[o] EXCEPT !.body = reader.rows[o].body] ELSE snap.man[o]]
             result == Retained(new, snap.loading)
             chk == IF Pending(result) # {} THEN snap.pub ELSE NoPub
  <1>1. /\ snap # NoSnap
        /\ IF Newer THEN UNCHANGED <<reader, error>>
           ELSE IF \A o \in Present(snap.man) : found(o)
           THEN /\ reader' = [kind |-> "durable", pub |-> snap.pub, rows |-> result,
                              loading |-> snap.loading \/ ~snap.full, chk |-> chk, excl |-> {}]
                /\ UNCHANGED error
           ELSE error' = TRUE /\ UNCHANGED reader
    BY DEF ReadDurable
  <1>2. \A o \in Present(snap.man) : rows[o].rev = snap.man[o].rev /\ rows[o].body = snap.man[o].body
                                     /\ top[o] = snap.man[o].rev
    BY DEF StoreInv
  <1>3. \A o \in Present(snap.man) : found(o)
    BY <1>2
  <1> HIDE DEF found
  <1>4. CASE Newer
    BY <1>1, <1>4
  <1>5. CASE ~Newer
    <2>1. /\ reader' = [kind |-> "durable", pub |-> snap.pub, rows |-> result,
                        loading |-> snap.loading \/ ~snap.full, chk |-> chk, excl |-> {}]
          /\ error' = error
      BY <1>1, <1>3, <1>5
    <2>t. /\ reader.rows \in RowsT /\ snap.pub \in PubT /\ snap.man \in RowsT
          /\ snap.loading \in BOOLEAN /\ snap.full \in BOOLEAN /\ Whole(snap.man) /\ snap.pub # NoPub
      BY <1>1 DEF Types, ReaderType, StoreType, SnapT, StoreInv
    <2>c. ASSUME NEW o \in Present(snap.man), cached(o), ~reused
          PROVE  reader.rows[o].body = snap.man[o].body
      <3>1. o \in Owners /\ snap.man[o].body # 0 /\ snap.man[o].rev # 0
        BY <2>t, Nothing DEF Present, Whole
      <3>2. o \in Present(reader.rows) \ Pending(reader.rows)
        BY <2>c, <3>1 DEF Present, Pending
      <3>3. reader.rows[o].rev = top[o] /\ rows[o].body # 0
        BY <2>c, <3>1, <1>2
      <3>4. rows[o].body = reader.rows[o].body
        BY <2>c, <3>2, <3>3 DEF ReaderInv, CacheSound
      <3> QED BY <3>4, <1>2
    <2>2. ASSUME NEW o \in Owners
          PROVE  /\ new[o] \in RowT
                 /\ o \in Present(snap.man) => new[o].rev # 0 /\ new[o].body # 0
                 /\ ~reused => new[o] = snap.man[o]
                 /\ o \notin Present(snap.man) => new[o] = NoRow
      <3>r. /\ snap.man[o] \in RowT /\ reader.rows[o].body \in Nat /\ snap.man[o].body \in Nat
            /\ snap.man[o] = NoRow \/ (snap.man[o].body # 0 /\ snap.man[o].rev # 0)
        BY <2>t, RowFacts DEF Whole
      <3>1. CASE o \in Present(snap.man) /\ cached(o)
        <4>1. new[o] = [snap.man[o] EXCEPT !.body = reader.rows[o].body]
          BY <3>1
        <4>2. new[o] \in RowT /\ new[o].rev = snap.man[o].rev /\ new[o].body = reader.rows[o].body
          BY <4>1, <3>r DEF RowT
        <4>3. snap.man[o].rev # 0 /\ reader.rows[o].body # 0
          BY <3>1, <3>r, Nothing DEF Present
        <4>4. ~reused => new[o] = snap.man[o]
          <5>1. ~reused => reader.rows[o].body = snap.man[o].body
            BY <3>1, <2>c
          <5> QED BY <4>1, <5>1, <3>r DEF RowT
        <4> QED BY <3>1, <4>2, <4>3, <4>4
      <3>2. CASE ~(o \in Present(snap.man) /\ cached(o))
        <4>1. new[o] = snap.man[o]
          BY <3>2
        <4> QED BY <4>1, <3>r, Nothing DEF Present
      <3> QED BY <3>1, <3>2
    <2>3. new \in RowsT
      <3>1. new = [o \in Owners |-> new[o]]
        OBVIOUS
      <3> HIDE DEF new
      <3> QED BY <3>1, <2>2 DEF RowsT
    <2> HIDE DEF new, cached
    <2>4. /\ result \in RowsT
          /\ \A o \in Owners :
                \/ new[o].body # 0 /\ new[o].rev # 0 /\ result[o] = new[o]
                \/ new[o].body = 0 /\ result[o] = new[o]
                \/ ~snap.loading /\ result[o] = NoRow /\ new[o].rev = 0
                \/ snap.loading /\ new[o].body # 0 /\ new[o].rev = 0 /\ result[o] = new[o]
                \/ /\ snap.loading /\ new[o].body = 0 /\ reader.rows[o].body # 0
                   /\ result[o].rev = 0 /\ result[o].body = reader.rows[o].body
      BY <2>3, <2>t, RetainedFacts
    <2> HIDE DEF result
    <2>5. ASSUME NEW o \in Owners
          PROVE  /\ result[o].body = 0 => result[o] = NoRow
                 /\ ~reused /\ o \in Present(snap.man) => result[o] = snap.man[o]
                 /\ o \notin Present(snap.man) =>
                      \/ result[o] = NoRow
                      \/ result[o].rev = 0 /\ result[o].body # 0 /\ snap.loading
      <3>1. CASE o \in Present(snap.man)
        <4>1. new[o].rev # 0 /\ new[o].body # 0 /\ (~reused => new[o] = snap.man[o])
          BY <3>1, <2>2
        <4>2. result[o] = new[o]
          BY <4>1, <2>4
        <4> QED BY <3>1, <4>1, <4>2
      <3>2. CASE o \notin Present(snap.man)
        <4>1. new[o] = NoRow
          BY <3>2, <2>2
        <4> QED BY <3>2, <4>1, <2>4, Nothing
      <3> QED BY <3>1, <3>2
    <2>6. chk \in PubT /\ chk \in {snap.pub, NoPub}
      BY <2>t, Nothing
    <2> HIDE DEF chk
    <2>7. PICK ld \in BOOLEAN : ld = (snap.loading \/ ~snap.full)
      BY <2>t
    <2>8. /\ reader'.kind = "durable" /\ reader'.pub = snap.pub /\ reader'.loading = (snap.loading \/ ~snap.full)
          /\ reader'.rows = result /\ reader'.chk = chk /\ reader'.excl = {}
      BY <2>1
    <2>9. reader' \in ReaderT
      <3>1. reader' = [kind |-> "durable", pub |-> snap.pub, rows |-> result,
                       loading |-> ld, chk |-> chk, excl |-> {}]
        BY <2>1, <2>7
      <3> QED BY <3>1, <2>4, <2>6, <2>7, <2>t DEF ReaderT
    <2> QED BY <2>1, <2>5, <2>6, <2>8, <2>9, <2>t DEF DurableRead
  <1> QED BY <1>4, <1>5

(* What a live answer leaves the reader with is what the invariant says of  *)
(* it: the rows it will not be sent again are there.                        *)
LEMMA LiveStep ==
    ASSUME Types, ViewInv, StoreInv, SameBodies, ReaderInv, LiveRead,
           UNCHANGED <<col, live, cand, recovery, published, snap, rows, top, reused, epochs>>
    PROVE  ReaderInv'
  <1>t. /\ live \in ViewT /\ live.pub \in PubT /\ cand.pub \in PubT /\ live.rows \in RowsT
        /\ snap.man \in RowsT /\ reader.pub \in PubT /\ reader.chk \in PubT
    BY DEF Types, ViewType, ViewT, StoreType, SnapT, ReaderType
  <1>v. /\ live # NoLive /\ Past(live.pub) /\ live.pub[1] # 0 /\ live.pub[1] \in Nat /\ live.pub[2] \in Nat
        /\ live.pub # NoPub /\ Whole(live.rows) /\ Derived(cand, live)
    BY <1>t, PubFacts, Nothing DEF ViewInv, Shape, Past, LiveRead
  <1>1. /\ reader'.kind = "live" /\ reader'.pub = live.pub
        /\ \A o \in Owners :
             /\ o \in Present(live.rows) => reader'.rows[o] = live.rows[o]
             /\ o \notin Present(live.rows) =>
                  reader'.rows[o] = NoRow \/ (reader'.rows[o].rev = 0 /\ reader'.rows[o].body # 0)
    BY DEF LiveRead
  <1>2. Seen(live)'
    <2>1. live.pub[2] <= live.pub[2]
      BY <1>v
    <2>2. Present(reader'.rows) \ Pending(reader'.rows) \subseteq Present(live.rows)
      BY <1>1, Nothing DEF Present, Pending
    <2> QED BY <1>1, <2>1, <2>2 DEF Seen, Present
  <1>3. Seen(cand)'
    <2>1. SUFFICES ASSUME cand.pub[1] # 0, live.pub[1] = cand.pub[1]
                   PROVE  /\ live.pub[2] <= cand.pub[2]
                          /\ \A o \in Present(cand.rows) :
                               /\ cand.rows[o].rev <= live.pub[2] =>
                                     reader'.rows[o].rev = cand.rows[o].rev /\ reader'.rows[o].body = cand.rows[o].body
                               /\ cand.stRev[o] <= live.pub[2] => reader'.rows[o] = cand.rows[o]
                          /\ cand.memRev <= live.pub[2] =>
                               Present(reader'.rows) \ Pending(reader'.rows) \subseteq Present(cand.rows)
      BY <1>1 DEF Seen
    <2>2. /\ live.pub[2] < cand.pub[2]
          /\ \A o \in Present(cand.rows) :
               /\ cand.rows[o].rev <= live.pub[2] => live.rows[o].rev = cand.rows[o].rev
                                                     /\ live.rows[o].body = cand.rows[o].body
               /\ cand.stRev[o] <= live.pub[2] => live.rows[o] = cand.rows[o]
          /\ cand.memRev <= live.pub[2] => Present(live.rows) = Present(cand.rows)
      BY <2>1, <1>v DEF Derived, SameEpoch
    <2>3. live.pub[2] <= cand.pub[2]
      <3>1. cand.pub[2] \in Nat
        BY <1>t, PubFacts
      <3> QED BY <3>1, <2>2, <1>v
    <2>4. ASSUME NEW o \in Present(cand.rows), cand.rows[o].rev <= live.pub[2]
          PROVE  reader'.rows[o].rev = cand.rows[o].rev /\ reader'.rows[o].body = cand.rows[o].body
      <3>1. live.rows[o].rev = cand.rows[o].rev /\ live.rows[o].body = cand.rows[o].body
        BY <2>2, <2>4
      <3>2. o \in Present(live.rows) /\ o \in Owners
        BY <3>1 DEF Present
      <3> QED BY <3>1, <3>2, <1>1
    <2>5. ASSUME NEW o \in Present(cand.rows), cand.stRev[o] <= live.pub[2]
          PROVE  reader'.rows[o] = cand.rows[o]
      <3>1. live.rows[o] = cand.rows[o]
        BY <2>2, <2>5
      <3>2. o \in Present(live.rows) /\ o \in Owners
        BY <3>1 DEF Present
      <3> QED BY <3>1, <3>2, <1>1
    <2>6. Present(reader'.rows) \ Pending(reader'.rows) \subseteq Present(live.rows)
      BY <1>1, Nothing DEF Present, Pending
    <2> QED BY <2>2, <2>3, <2>4, <2>5, <2>6
  <1>4. \A o \in Owners : reader'.rows[o].body = 0 => reader'.rows[o] = NoRow
    BY <1>1 DEF Present
  <1>5. reader'.chk # NoPub => Past(reader'.chk)
    <2>1. \/ reader'.chk = NoPub
          \/ reader'.chk = Checkpoint /\ (reader.kind = "durable" \/ reader.chk # NoPub)
      BY DEF LiveRead
    <2>2. reader.kind = "durable" => Past(reader.pub)
      BY DEF ReaderInv
    <2>3. reader.chk # NoPub => Past(reader.chk)
      BY DEF ReaderInv
    <2> QED BY <2>1, <2>2, <2>3 DEF Checkpoint
  <1>6. ASSUME ~reused, NEW p, NEW bodies, Knows(p, bodies),
               p = live.pub => \A o \in Owners : bodies[o] # 0 => bodies[o] = live.rows[o].body
        PROVE  Knows(p, bodies)'
    <2>1. SUFFICES ASSUME p # NoPub, Checkpoint' = p, NEW o \in Owners \ reader'.excl, bodies[o] # 0
                   PROVE  reader'.rows[o].body = bodies[o]
      BY DEF Knows
    <2>2. CASE reader'.chk = NoPub
      <3>1. p = live.pub
        BY <2>1, <2>2, <1>1 DEF Checkpoint
      <3>2. bodies[o] = live.rows[o].body
        BY <2>1, <3>1, <1>6
      <3>3. o \in Present(live.rows)
        BY <2>1, <3>2 DEF Present
      <3> QED BY <3>2, <3>3, <1>1
    <2>3. CASE reader'.chk # NoPub
      <3>1. /\ reader'.chk = Checkpoint
            /\ \A q \in Owners \ reader'.excl :
                 q \notin reader.excl /\ (reader.rows[q].body # 0 => reader'.rows[q].body = reader.rows[q].body)
        BY <2>3 DEF LiveRead
      <3>2. Checkpoint = p
        BY <2>1, <2>3, <3>1, <1>1 DEF Checkpoint
      <3>3. reader.rows[o].body = bodies[o]
        BY <2>1, <3>1, <3>2, <1>6 DEF Knows
      <3> QED BY <2>1, <3>1, <3>3
    <2> QED BY <2>2, <2>3
  <1>7. ~reused' => (Knows(snap.pub, Bodies(snap.man)) /\ Knows(recovery.pub, recovery.bodies))'
    <2> SUFFICES ASSUME ~reused
                 PROVE  (Knows(snap.pub, Bodies(snap.man)) /\ Knows(recovery.pub, recovery.bodies))'
      OBVIOUS
    <2>0. Knows(snap.pub, Bodies(snap.man)) /\ Knows(recovery.pub, recovery.bodies)
      BY DEF ReaderInv
    <2>1. snap.pub = live.pub => \A o \in Owners : Bodies(snap.man)[o] = live.rows[o].body
      BY <1>v DEF SameBodies, Bodies
    <2>2. recovery.pub # live.pub
      <3>1. recovery.pub # NoPub => recovery.pub[1] < live.pub[1]
        BY <1>v DEF SameBodies
      <3> QED BY <3>1, <1>v
    <2>3. Knows(snap.pub, Bodies(snap.man))'
      <3>1. PICK p, bodies : p = snap.pub /\ bodies = Bodies(snap.man)
        OBVIOUS
      <3>2. Knows(p, bodies)'
        BY <2>0, <2>1, <3>1, <1>6
      <3>3. snap'.pub = p /\ Bodies(snap'.man) = bodies
        BY <3>1
      <3> QED BY <3>2, <3>3 DEF Knows
    <2>4. Knows(recovery.pub, recovery.bodies)'
      <3>1. PICK p, bodies : p = recovery.pub /\ bodies = recovery.bodies
        OBVIOUS
      <3>2. Knows(p, bodies)'
        BY <2>0, <2>2, <3>1, <1>6
      <3>3. recovery'.pub = p /\ recovery'.bodies = bodies
        BY <3>1
      <3> QED BY <3>2, <3>3 DEF Knows
    <2> QED BY <2>3, <2>4
  <1>8. CacheSound' /\ reader'.kind # "none" /\ Past(reader.pub)'
    BY <1>1, <1>v DEF CacheSound, Past
  <1>9. (reader.chk # NoPub => Past(reader.chk))'
    BY <1>5 DEF Past
  <1>10. live'.pub[1] = reader'.pub[1]
    BY <1>1
  <1> QED BY <1>1, <1>2, <1>3, <1>4, <1>7, <1>8, <1>9, <1>10 DEF ReaderInv

(* So it is after the durable snapshot was read: the checkpoint is the      *)
(* snapshot's publication, and its bodies are those shown.                  *)
LEMMA DurableStep ==
    ASSUME Types, ViewInv, StoreInv, SameBodies, ReaderInv, snap.pub # NoPub, DurableRead,
           UNCHANGED <<col, live, cand, recovery, published, snap, rows, top, reused, epochs>>
    PROVE  ReaderInv'
  <1>t. snap.man \in RowsT /\ snap.pub \in PubT /\ top \in [Owners -> Nat]
    BY DEF Types, StoreType, SnapT
  <1>1. /\ reader'.kind = "durable" /\ reader'.pub = snap.pub /\ reader'.excl = {}
        /\ reader'.chk \in {snap.pub, NoPub}
        /\ \A o \in Owners :
             /\ reader'.rows[o].body = 0 => reader'.rows[o] = NoRow
             /\ ~reused /\ o \in Present(snap.man) => reader'.rows[o] = snap.man[o]
             /\ o \notin Present(snap.man) =>
                  reader'.rows[o] = NoRow \/ (reader'.rows[o].rev = 0 /\ reader'.rows[o].body # 0)
    BY DEF DurableRead
  <1>2. Past(snap.pub)'
    BY DEF StoreInv, Past
  <1>3. CacheSound'
    <2>1. snap.pub[1] <= snap.pub[1]
      BY <1>t, PubFacts
    <2>2. ASSUME ~reused, NEW o \in Present(reader'.rows) \ Pending(reader'.rows)
          PROVE  /\ reader'.rows[o].rev <= top[o]
                 /\ rows[o].body = reader'.rows[o].body
      <3>1. o \in Present(snap.man)
        BY <2>2, <1>1, Nothing DEF Present, Pending
      <3>2. reader'.rows[o] = snap.man[o] /\ o \in Owners
        BY <2>2, <3>1, <1>1 DEF Present
      <3>3. rows[o].body = snap.man[o].body /\ top[o] = snap.man[o].rev
        BY <3>1 DEF StoreInv
      <3> QED BY <3>2, <3>3, <1>t
    <2> QED BY <2>1, <2>2, <1>1 DEF CacheSound
  <1>4. ASSUME ~reused PROVE (Knows(snap.pub, Bodies(snap.man)) /\ Knows(recovery.pub, recovery.bodies))'
    <2>1. Checkpoint' = snap.pub
      BY <1>1 DEF Checkpoint
    <2>2. ASSUME NEW o \in Owners, Bodies(snap.man)[o] # 0 PROVE reader'.rows[o].body = Bodies(snap.man)[o]
      BY <2>2, <1>1, <1>4 DEF Bodies, Present
    <2>3. recovery.pub # NoPub /\ recovery.pub = snap.pub => recovery.bodies = Bodies(snap.man)
      BY DEF SameBodies
    <2> QED BY <2>1, <2>2, <2>3 DEF Knows
  <1>5. (reader.chk # NoPub => Past(reader.chk))' /\ Past(reader.pub)'
    BY <1>1, <1>2 DEF Past
  <1> QED BY <1>1, <1>3, <1>4, <1>5 DEF ReaderInv

(* The publication that a poll makes relates to a reader of live answers as *)
(* the one before does.                                                     *)
LEMMA PreparedSeen ==
    ASSUME Types, ViewInv, ReaderInv, col.up, NEW c, Prepared(c), reader.kind = "live"
    PROVE  Seen(c)
  <1>t. /\ live \in ViewT /\ live.pub \in PubT /\ live.rows \in RowsT /\ reader.pub \in PubT
        /\ col.seq \in Nat /\ col.epoch \in Nat
    BY DEF Types, ViewType, ViewT, ReaderType, CollectorType
  <1>c. /\ c.pub[1] = col.epoch /\ c.pub[2] = col.seq + 1 /\ c.rows \in RowsT
        /\ c.stRev \in [Owners -> Nat] /\ c.memRev \in Nat
    BY PreparedShape
  <1>1. SUFFICES ASSUME c.pub[1] # 0, reader.pub[1] = c.pub[1]
                 PROVE  /\ reader.pub[2] <= c.pub[2]
                        /\ \A o \in Present(c.rows) :
                             /\ c.rows[o].rev <= reader.pub[2] =>
                                   reader.rows[o].rev = c.rows[o].rev /\ reader.rows[o].body = c.rows[o].body
                             /\ c.stRev[o] <= reader.pub[2] => reader.rows[o] = c.rows[o]
                        /\ c.memRev <= reader.pub[2] =>
                             Present(reader.rows) \ Pending(reader.rows) \subseteq Present(c.rows)
    BY DEF Seen
  <1>2. live.pub[1] = col.epoch /\ Seen(live) /\ Past(reader.pub)
    BY <1>1, <1>c DEF ReaderInv
  <1>3. reader.pub[2] \in Nat /\ reader.pub[2] <= col.seq /\ reader.pub[2] < c.pub[2] /\ ~(c.pub[2] <= reader.pub[2])
    <2>1. reader.pub[2] \in Nat /\ reader.pub[2] <= col.seq
      BY <1>1, <1>2, <1>c, <1>t, PubFacts DEF Past
    <2> QED BY <2>1, <1>c, <1>t
  <1>4. /\ \A o \in Present(live.rows) :
             /\ live.rows[o].rev <= reader.pub[2] =>
                   reader.rows[o].rev = live.rows[o].rev /\ reader.rows[o].body = live.rows[o].body
             /\ live.stRev[o] <= reader.pub[2] => reader.rows[o] = live.rows[o]
        /\ live.memRev <= reader.pub[2] =>
             Present(reader.rows) \ Pending(reader.rows) \subseteq Present(live.rows)
    BY <1>1, <1>2, <1>c DEF Seen
  <1>5. ASSUME NEW o \in Present(c.rows), c.rows[o].rev <= reader.pub[2]
        PROVE  reader.rows[o].rev = c.rows[o].rev /\ reader.rows[o].body = c.rows[o].body
    <2>1. o \in Owners /\ c.rows[o].body # 0 /\ c.rows[o] # NoRow
      BY Nothing DEF Present
    <2>2. live.rows[o].body = c.rows[o].body /\ c.rows[o].rev = live.rows[o].rev
      BY <2>1, <1>5, <1>3 DEF Prepared, PreparedRow
    <2>3. o \in Present(live.rows)
      BY <2>1, <2>2 DEF Present
    <2> QED BY <2>2, <2>3, <1>4, <1>5
  <1>6. ASSUME NEW o \in Present(c.rows), c.stRev[o] <= reader.pub[2]
        PROVE  reader.rows[o] = c.rows[o]
    <2>1. o \in Owners /\ c.rows[o].body # 0 /\ c.rows[o] # NoRow
      BY Nothing DEF Present
    <2>2. c.rows[o] = live.rows[o] /\ c.stRev[o] = live.stRev[o]
      BY <2>1, <1>6, <1>3 DEF Prepared, PreparedState
    <2>3. o \in Present(live.rows)
      BY <2>1, <2>2 DEF Present
    <2> QED BY <2>2, <2>3, <1>4, <1>6
  <1>7. c.memRev <= reader.pub[2] => Present(reader.rows) \ Pending(reader.rows) \subseteq Present(c.rows)
    BY <1>3, <1>4 DEF Prepared, PreparedMembers
  <1>8. reader.pub[2] <= c.pub[2]
    BY <1>3, <1>c, <1>t
  <1> QED BY <1>5, <1>6, <1>7, <1>8

(* A commit keeps what a reader has of the database sound: a revision of    *)
(* this epoch that was not reused stands for the body that the reader has.  *)
LEMMA CommitCache ==
    ASSUME Types, ViewInv, StoreInv, ReaderInv, col.up, NEW c, Prepared(c), Committed(c, Manifest(c)),
           reader' = reader, top' \in [Owners -> Nat]
    PROVE  CacheSound'
  <1>t. /\ reader.pub \in PubT /\ reader.rows \in RowsT /\ top \in [Owners -> Nat] /\ snap.pub \in PubT
        /\ col.epoch \in Nat /\ col.seq \in Nat
    BY DEF Types, StoreType, SnapT, ReaderType, CollectorType
  <1>c. Whole(c.rows) /\ c.pub[1] = col.epoch /\ col.epoch # 0
    BY PreparedShape DEF ViewInv
  <1>m. PICK man : man = Manifest(c)
    OBVIOUS
  <1>1. /\ man \in RowsT /\ Whole(man)
        /\ \A o \in Present(man) : /\ snap.pub[1] = col.epoch /\ top[o] # 0
                                    /\ rows[o].body = man[o].body /\ published.epoch = col.epoch
                                    => man[o].rev = top[o]
    BY <1>c, <1>m, ManifestFacts
  <1>2. /\ snap'.pub = c.pub
        /\ \A o \in Owners :
             /\ o \in Present(man) => /\ rows'[o] = [man[o] EXCEPT !.st = FALSE] /\ top'[o] = man[o].rev
                                      /\ ~reused' /\ snap.pub[1] = c.pub[1] =>
                                            rows[o].body = man[o].body \/ man[o].rev > top[o]
             /\ o \notin Present(man) => /\ rows'[o] = rows[o] \/ rows'[o] = NoRow
                                         /\ top'[o] = IF snap.pub[1] = c.pub[1] THEN top[o] ELSE 0
        /\ reused => reused'
    BY <1>m DEF Committed
  <1> SUFFICES ASSUME reader.kind = "durable"
               PROVE  /\ reader.pub[1] <= snap'.pub[1] /\ reader.excl = {}
                      /\ ~reused' /\ reader.pub[1] = snap'.pub[1] =>
                           \A o \in Present(reader.rows) \ Pending(reader.rows) :
                             /\ reader.rows[o].rev <= top'[o]
                             /\ reader.rows[o].rev = top'[o] /\ rows'[o].body # 0 => rows'[o].body = reader.rows[o].body
    BY DEF CacheSound
  <1>3. /\ reader.pub[1] <= snap.pub[1] /\ reader.excl = {}
        /\ ~reused /\ reader.pub[1] = snap.pub[1] =>
             \A o \in Present(reader.rows) \ Pending(reader.rows) :
               /\ reader.rows[o].rev <= top[o]
               /\ reader.rows[o].rev = top[o] /\ rows[o].body # 0 => rows[o].body = reader.rows[o].body
    BY DEF ReaderInv, CacheSound
  <1>4. reader.pub[1] # 0 /\ reader.pub[1] \in Nat /\ reader.pub[1] <= col.epoch
    BY <1>t, PubFacts DEF ReaderInv, Past
  <1>5. snap.pub[1] \in Nat /\ snap.pub[1] <= col.epoch
    <2>1. CASE snap.pub = NoPub
      BY <2>1, <1>t, Nothing
    <2>2. CASE Past(snap.pub)
      BY <2>2, <1>t, PubFacts DEF Past
    <2> QED BY <2>1, <2>2 DEF StoreInv
  <1>6. ASSUME ~reused', reader.pub[1] = snap'.pub[1], NEW o \in Present(reader.rows) \ Pending(reader.rows)
        PROVE  /\ reader.rows[o].rev <= top'[o]
               /\ reader.rows[o].rev = top'[o] /\ rows'[o].body # 0 => rows'[o].body = reader.rows[o].body
    <2>1. /\ o \in Owners /\ reader.rows[o].rev # 0 /\ reader.rows[o].rev \in Nat /\ reader.rows[o].body # 0
          /\ top[o] \in Nat /\ top'[o] \in Nat
      BY <1>t, RowFacts DEF Present, Pending
    <2>2. snap.pub[1] = col.epoch /\ snap.pub[1] = c.pub[1] /\ reader.pub[1] = snap.pub[1]
      BY <1>2, <1>3, <1>4, <1>5, <1>6, <1>c
    <2>3. /\ reader.rows[o].rev <= top[o] /\ top[o] # 0
          /\ reader.rows[o].rev = top[o] /\ rows[o].body # 0 => rows[o].body = reader.rows[o].body
      BY <2>1, <2>2, <1>2, <1>3, <1>6
    <2>4. CASE o \notin Present(man)
      <3>1. (rows'[o] = rows[o] \/ rows'[o] = NoRow) /\ top'[o] = top[o]
        BY <2>1, <2>2, <2>4, <1>2
      <3> QED BY <2>3, <3>1, Nothing
    <2>5. CASE o \in Present(man)
      <3>1. /\ rows'[o] = [man[o] EXCEPT !.st = FALSE] /\ top'[o] = man[o].rev
            /\ rows[o].body = man[o].body \/ man[o].rev > top[o]
        BY <2>1, <2>2, <2>5, <1>2, <1>6
      <3>2. man[o] \in RowT /\ man[o].rev \in Nat /\ man[o].body # 0
        BY <2>1, <2>5, <1>1, RowFacts DEF Present
      <3>3. rows'[o].body = man[o].body
        BY <3>1, <3>2 DEF RowT
      <3>4. CASE man[o].rev > top[o]
        BY <2>1, <2>3, <3>1, <3>2, <3>4
      <3>5. CASE rows[o].body = man[o].body
        <4>1. published.epoch = col.epoch
          BY <2>2 DEF StoreInv
        <4>2. man[o].rev = top[o]
          BY <2>2, <2>3, <2>5, <3>5, <4>1, <1>1
        <4> QED BY <2>3, <3>1, <3>2, <3>3, <3>5, <4>2
      <3> QED BY <3>1, <3>4, <3>5
    <2> QED BY <2>4, <2>5
  <1> QED BY <1>2, <1>3, <1>4, <1>6, <1>c

(* The steps of the collector keep what the readers have in agreement with  *)
(* what the collector will send them.                                       *)
LEMMA CollectorStep ==
    ASSUME Types, ViewInv, StoreInv, SameBodies, ReaderInv, [Next]_vars, reader' = reader
    PROVE  ReaderInv'
  <1>t. /\ col \in [up: BOOLEAN, epoch: Nat, seq: Nat, loaded: SUBSET Owners] /\ epochs \in Nat
        /\ reader.pub \in PubT /\ reader.chk \in PubT /\ snap.pub \in PubT
        /\ reader.kind \in {"none", "live", "durable"}
    BY DEF Types, CollectorType, ReaderType, StoreType, SnapT
  <1>e. /\ col.epoch = epochs /\ (col.up => col.epoch # 0) /\ (cand # NoLive => cand.pub = <<col.epoch, col.seq>>)
        /\ live # NoLive => col.up
        /\ cand # NoLive => col.up
    BY DEF ViewInv, Shape
  <1>i. /\ reader.kind = "none" => reader.pub = NoPub /\ reader.chk = NoPub
        /\ reader.kind # "none" => Past(reader.pub)
        /\ reader.chk # NoPub => Past(reader.chk)
        /\ \A o \in Owners : reader.rows[o].body = 0 => reader.rows[o] = NoRow
        /\ reader.kind = "live" => /\ Seen(live) /\ Seen(cand)
                                   /\ col.up /\ reader.pub[1] = col.epoch => live.pub[1] = col.epoch
        /\ CacheSound
        /\ ~reused => Knows(snap.pub, Bodies(snap.man)) /\ Knows(recovery.pub, recovery.bodies)
    BY DEF ReaderInv
  <1>0. Seen(NoLive)
    BY Nothing DEF Seen
  <1>p. /\ reader.kind # "none" => Past(reader.pub)'
        /\ reader.chk # NoPub => Past(reader.chk)'
    <2>1. Advanced
      BY Advances
    <2> QED BY <2>1, <1>i, <1>t, PastStays DEF Past
  <1>n. reader.kind # "none" => reader.pub[1] <= col.epoch /\ reader.pub[1] \in Nat
    BY <1>i, <1>t, PubFacts DEF Past
  (* A step that leaves the database alone. *)
  <1>1. ASSUME UNCHANGED <<snap, rows, top, reused>>,
               reader.kind = "live" => /\ Seen(live)' /\ Seen(cand)'
                                       /\ col'.up /\ reader.pub[1] = col'.epoch => live'.pub[1] = col'.epoch,
               ~reused => Knows(recovery.pub, recovery.bodies)'
        PROVE  ReaderInv'
    <2>1. CacheSound'
      BY <1>1, <1>i DEF CacheSound
    <2>2. ~reused => Knows(snap.pub, Bodies(snap.man))'
      BY <1>1, <1>i DEF Knows, Checkpoint
    <2> QED BY <1>1, <1>i, <1>p, <2>1, <2>2 DEF ReaderInv
  <1>k. ASSUME recovery' = recovery, ~reused PROVE Knows(recovery.pub, recovery.bodies)'
    BY <1>k, <1>i DEF Knows, Checkpoint
  <1>2. CASE Quiet
    <2>1. UNCHANGED <<col, live, cand, recovery, snap, rows, top, reused>>
      BY <1>2, QuietFrame
    <2>2. reader.kind = "live" => Seen(live)' /\ Seen(cand)'
      BY <2>1, <1>i DEF Seen
    <2> QED BY <2>1, <2>2, <1>1, <1>i, <1>k
  <1>3. CASE Start
    <2>1. /\ ~col.up /\ col' = [up |-> TRUE, epoch |-> epochs + 1, seq |-> 0, loaded |-> {}]
          /\ recovery' = IF Present(snap.man) = {} THEN NoRecovery
                         ELSE [pub |-> snap.pub, bodies |-> Bodies(snap.man)]
          /\ UNCHANGED <<live, cand, snap, rows, top, reused>>
      BY <1>3 DEF Start, hist
    <2>2. live = NoLive /\ cand = NoLive
      BY <2>1, <1>e
    <2>3. reader.kind = "live" => Seen(live)' /\ Seen(cand)' /\ reader.pub[1] # col'.epoch
      <3>1. col'.epoch = col.epoch + 1 /\ col.epoch \in Nat
        BY <2>1, <1>e, <1>t
      <3>2. Seen(live)' /\ Seen(cand)'
        BY <2>1, <2>2, <1>0, Nothing DEF Seen
      <3>3. reader.kind = "live" => reader.pub[1] # col'.epoch
        BY <3>1, <1>n
      <3> QED BY <3>2, <3>3
    <2>4. ~reused => Knows(recovery.pub, recovery.bodies)'
      <3>1. CASE recovery' = NoRecovery
        BY <3>1 DEF Knows, NoRecovery
      <3>2. CASE recovery' = [pub |-> snap.pub, bodies |-> Bodies(snap.man)]
        <4>1. recovery'.pub = snap.pub /\ recovery'.bodies = Bodies(snap.man)
          BY <3>2
        <4> QED BY <4>1, <1>i DEF Knows, Checkpoint
      <3> QED BY <2>1, <3>1, <3>2
    <2> QED BY <2>1, <2>3, <2>4, <1>1
  <1>4. CASE Stop
    <2>1. /\ col' = [col EXCEPT !.up = FALSE, !.loaded = {}]
          /\ live' = NoLive /\ cand' = NoLive /\ recovery' = NoRecovery /\ UNCHANGED <<snap, rows, top, reused>>
      BY <1>4 DEF Stop, hist
    <2>2. Seen(live)' /\ Seen(cand)' /\ ~col'.up
      BY <2>1, <1>t, Nothing DEF Seen
    <2>3. Knows(recovery.pub, recovery.bodies)'
      BY <2>1 DEF Knows, NoRecovery
    <2> QED BY <2>1, <2>2, <2>3, <1>1
  <1>5. CASE Reopen
    <2>1. /\ col' = [col EXCEPT !.epoch = epochs + 1, !.loaded = {}]
          /\ UNCHANGED <<live, cand, recovery, snap, rows, top, reused>>
      BY <1>5 DEF Reopen, hist
    <2>2. col'.epoch = col.epoch + 1
      BY <2>1, <1>t, <1>e
    <2>3. reader.kind = "live" => reader.pub[1] # col'.epoch
      BY <2>2, <1>n, <1>t
    <2>4. reader.kind = "live" => Seen(live)' /\ Seen(cand)'
      BY <2>1, <1>i DEF Seen
    <2> QED BY <2>1, <2>3, <2>4, <1>1, <1>k
  <1>6. CASE GoLive
    <2>1. /\ cand # NoLive /\ live' = cand /\ cand' = NoLive
          /\ UNCHANGED <<col, recovery, snap, rows, top, reused>>
      BY <1>6 DEF GoLive, hist
    <2>2. live'.pub[1] = col'.epoch
      BY <2>1, <1>e
    <2>3. reader.kind = "live" => Seen(live)' /\ Seen(cand)'
      BY <2>1, <1>i, Nothing DEF Seen
    <2> QED BY <2>1, <2>2, <2>3, <1>1, <1>k
  <1>7. ASSUME NEW full \in BOOLEAN, NEW ok \in BOOLEAN,
               NEW active \in SUBSET Owners, NEW loaded \in SUBSET Owners, Poll(full, active, loaded, ok)
        PROVE  ReaderInv'
    <2>1. /\ col.up /\ cand = NoLive /\ recovery' = recovery
          /\ col' = [up |-> TRUE, epoch |-> col.epoch, seq |-> col.seq + 1, loaded |-> loaded]
      BY <1>7, PollFacts
    <2>2. PICK c : /\ Prepared(c)
                   /\ \/ live' = c /\ UNCHANGED <<cand, snap, rows, top, reused>>
                      \/ Committed(c, Manifest(c)) /\ top' \in [Owners -> Nat]
      BY <1>7, PollFacts
    <2>3. c.pub \in PubT /\ c.pub[1] = col.epoch /\ c.pub[2] = col.seq + 1 /\ col'.epoch = col.epoch
      BY <2>1, <2>2, PreparedShape
    <2>4. reader.kind = "live" => Seen(c)
      BY <2>1, <2>2, PreparedSeen
    <2>5. CASE live' = c /\ UNCHANGED <<cand, snap, rows, top, reused>>
      <3>1. reader.kind = "live" => Seen(live)' /\ Seen(cand)' /\ live'.pub[1] = col'.epoch
        BY <2>3, <2>4, <2>5, <1>i DEF Seen
      <3> QED BY <2>1, <2>5, <3>1, <1>1, <1>k
    <2>6. CASE Committed(c, Manifest(c)) /\ top' \in [Owners -> Nat]
      <3>1. cand' = c /\ live' = live /\ snap'.pub = c.pub /\ (reused => reused')
        BY <2>6 DEF Committed
      <3>2. CacheSound'
        BY <2>1, <2>2, <2>6, CommitCache
      <3>3. reader.kind = "live" => /\ Seen(live)' /\ Seen(cand)'
                                    /\ col'.up /\ reader.pub[1] = col'.epoch => live'.pub[1] = col'.epoch
        BY <2>1, <2>3, <2>4, <3>1, <1>i DEF Seen
      <3>4. Knows(snap.pub, Bodies(snap.man))'
        <4>1. ~Past(c.pub) /\ c.pub # NoPub
          <5>1. ~Past(c.pub)
            <6>1. col.epoch \in Nat /\ col.seq \in Nat
              BY <1>t
            <6> QED BY <6>1, <2>3 DEF Past
          <5> QED BY <5>1, <2>1, <2>3, <1>e, Nothing
        <4>2. Checkpoint = NoPub \/ Past(Checkpoint)
          BY <1>i, <1>t DEF Checkpoint
        <4>3. Checkpoint' = Checkpoint
          BY DEF Checkpoint
        <4> QED BY <3>1, <4>1, <4>2, <4>3 DEF Knows
      <3>5. ~reused' => Knows(recovery.pub, recovery.bodies)'
        BY <2>1, <3>1, <1>k
      <3> QED BY <1>i, <1>p, <3>2, <3>3, <3>4, <3>5 DEF ReaderInv
    <2> QED BY <2>2, <2>5, <2>6
  <1> QED BY <1>2, <1>3, <1>4, <1>5, <1>6, <1>7, Cases

-----------------------------------------------------------------------------
(* The invariant and the promises                                           *)

(* Only a read changes what a reader has, and no other step raises.         *)
LEMMA ReaderFrame ==
    ASSUME Types, ViewInv, StoreInv, [Next]_vars
    PROVE  ReadLive \/ ReadDurable \/ (reader' = reader /\ error' = error)
  <1>1. CASE Quiet
    <2>1. CASE Read
      BY <2>1 DEF Read
    <2>2. CASE (\E o \in Owners, body \in 0..MaxBody : Change(o, body)) \/ UNCHANGED vars
      BY <2>2 DEF Change, vars
    <2> QED BY <1>1, <2>1, <2>2 DEF Quiet
  <1>2. CASE Start \/ Stop \/ Reopen \/ GoLive
    BY <1>2 DEF Start, Stop, Reopen, GoLive
  <1>3. ASSUME NEW full \in BOOLEAN, NEW ok \in BOOLEAN,
               NEW active \in SUBSET Owners, NEW loaded \in SUBSET Owners, Poll(full, active, loaded, ok)
        PROVE  reader' = reader /\ error' = error
    BY <1>3, PollFacts
  <1> QED BY <1>1, <1>2, <1>3, Cases

(* A read leaves the collector and the database alone.                      *)
LEMMA ReadFrame ==
    ASSUME ReadLive \/ ReadDurable
    PROVE  UNCHANGED <<src, col, live, cand, recovery, published, snap, rows, top, reused, epochs>>
  BY DEF ReadLive, ReadDurable, colVars, hist

(* The collector's own state keeps its type.                                *)
LEMMA CollectorTypeStep ==
    ASSUME Types, ViewInv, StoreInv, [Next]_vars
    PROVE  CollectorType'
  <1>t. /\ src \in [Owners -> Nat] /\ epochs \in Nat
        /\ col \in [up: BOOLEAN, epoch: Nat, seq: Nat, loaded: SUBSET Owners]
        /\ recovery \in [pub: PubT, bodies: [Owners -> Nat]]
        /\ published \in [epoch: Nat, rows: RowsT, retained: SUBSET Owners]
        /\ snap.pub \in PubT /\ snap.man \in RowsT
    BY DEF Types, CollectorType, StoreType, SnapT
  <1>c. col' \in [up: BOOLEAN, epoch: Nat, seq: Nat, loaded: SUBSET Owners]
    BY Advances DEF Advanced
  <1>r. NoRecovery \in [pub: PubT, bodies: [Owners -> Nat]]
    <2>1. [o \in Owners |-> 0] \in [Owners -> Nat]
      OBVIOUS
    <2> QED BY <2>1, Nothing DEF NoRecovery
  <1>1. CASE Quiet
    <2>1. UNCHANGED <<recovery, published, epochs>>
      BY <1>1, QuietFrame
    <2>2. src' \in [Owners -> Nat]
      <3>1. CASE Read \/ UNCHANGED vars
        BY <3>1, <1>t, ReadFrame DEF Read, vars, colVars
      <3>2. ASSUME NEW o \in Owners, NEW body \in 0..MaxBody, Change(o, body)
            PROVE  src' \in [Owners -> Nat]
        <4>1. src' = [src EXCEPT ![o] = body] /\ body \in Nat
          BY <3>2, BoundAssumption DEF Change
        <4> QED BY <4>1, <1>t
      <3> QED BY <1>1, <3>1, <3>2 DEF Quiet
    <2> QED BY <2>1, <2>2, <1>c, <1>t DEF CollectorType
  <1>2. CASE Start
    <2>1. /\ epochs' = epochs + 1 /\ UNCHANGED <<src, published>>
          /\ recovery' = IF Present(snap.man) = {} THEN NoRecovery
                         ELSE [pub |-> snap.pub, bodies |-> Bodies(snap.man)]
      BY <1>2 DEF Start
    <2>2. [pub |-> snap.pub, bodies |-> Bodies(snap.man)] \in [pub: PubT, bodies: [Owners -> Nat]]
      <3>1. Bodies(snap.man) \in [Owners -> Nat]
        BY <1>t, RowFacts DEF Bodies
      <3> QED BY <3>1, <1>t
    <2>3. recovery' \in [pub: PubT, bodies: [Owners -> Nat]]
      BY <2>1, <2>2, <1>r
    <2> QED BY <2>1, <2>3, <1>c, <1>t DEF CollectorType
  <1>3. CASE Stop
    <2>1. recovery' = NoRecovery /\ published' = NothingPublished /\ UNCHANGED <<src, epochs>>
      BY <1>3 DEF Stop
    <2>2. NothingPublished \in [epoch: Nat, rows: RowsT, retained: SUBSET Owners]
      BY Nothing DEF NothingPublished
    <2> QED BY <2>1, <2>2, <1>c, <1>r, <1>t DEF CollectorType
  <1>4. CASE Reopen
    <2>1. epochs' = epochs + 1 /\ UNCHANGED <<src, recovery, published>>
      BY <1>4 DEF Reopen
    <2> QED BY <2>1, <1>c, <1>t DEF CollectorType
  <1>5. CASE GoLive
    <2>1. UNCHANGED <<src, recovery, published, epochs>>
      BY <1>5 DEF GoLive
    <2> QED BY <2>1, <1>c, <1>t DEF CollectorType
  <1>6. ASSUME NEW full \in BOOLEAN, NEW ok \in BOOLEAN,
               NEW active \in SUBSET Owners, NEW loaded \in SUBSET Owners, Poll(full, active, loaded, ok)
        PROVE  CollectorType'
    <2>1. /\ src' = src /\ recovery' = recovery /\ epochs' = epochs
          /\ published' = published \/ published' \in [epoch: Nat, rows: RowsT, retained: SUBSET Owners]
      BY <1>6, PollFacts
    <2> QED BY <2>1, <1>c, <1>t DEF CollectorType
  <1> QED BY <1>1, <1>2, <1>3, <1>4, <1>5, <1>6, Cases

(* The publications, the database and the reader keep their types.          *)
LEMMA TypeStep ==
    ASSUME Types, ViewInv, StoreInv, ReaderInv, [Next]_vars
    PROVE  Types'
  <1>t. live \in ViewT /\ cand \in ViewT /\ snap \in SnapT /\ rows \in RowsT /\ top \in [Owners -> Nat]
        /\ reused \in BOOLEAN /\ reader \in ReaderT /\ error \in BOOLEAN
    BY DEF Types, ViewType, StoreType, ReaderType, ReaderT
  <1>1. CollectorType'
    BY CollectorTypeStep
  <1>2. ViewType' /\ StoreType'
    <2>1. CASE Quiet
      BY <2>1, <1>t, QuietFrame DEF ViewType, StoreType
    <2>2. CASE Start \/ Reopen
      BY <2>2, <1>t DEF Start, Reopen, ViewType, StoreType, hist
    <2>3. CASE Stop
      BY <2>3, <1>t, Nothing DEF Stop, ViewType, StoreType, hist
    <2>4. CASE GoLive
      BY <2>4, <1>t, Nothing DEF GoLive, ViewType, StoreType, hist
    <2>5. ASSUME NEW full \in BOOLEAN, NEW ok \in BOOLEAN,
                 NEW active \in SUBSET Owners, NEW loaded \in SUBSET Owners, Poll(full, active, loaded, ok)
          PROVE  ViewType' /\ StoreType'
      <3>1. PICK c : /\ Prepared(c)
                     /\ \/ live' = c /\ UNCHANGED <<cand, published, snap, rows, top, reused>>
                        \/ /\ Committed(c, Manifest(c))
                           /\ published' \in [epoch: Nat, rows: RowsT, retained: SUBSET Owners]
                           /\ snap' \in SnapT /\ rows' \in RowsT
                           /\ top' \in [Owners -> Nat] /\ reused' \in BOOLEAN
        BY <2>5, PollFacts
      <3>2. c \in ViewT
        BY <3>1 DEF Prepared
      <3>3. CASE live' = c /\ UNCHANGED <<cand, published, snap, rows, top, reused>>
        BY <3>2, <3>3, <1>t DEF ViewType, StoreType
      <3>4. CASE /\ Committed(c, Manifest(c)) /\ snap' \in SnapT /\ rows' \in RowsT
                 /\ top' \in [Owners -> Nat] /\ reused' \in BOOLEAN
        <4>1. cand' = c /\ live' = live
          BY <3>4 DEF Committed
        <4> QED BY <3>2, <3>4, <4>1, <1>t DEF ViewType, StoreType
      <3> QED BY <3>1, <3>3, <3>4
    <2> QED BY <2>1, <2>2, <2>3, <2>4, <2>5, Cases
  <1>3. ReaderType'
    <2>1. CASE ReadLive
      <3>1. LiveRead \/ (error' = TRUE /\ reader' = reader)
        BY <2>1, ReadLiveFacts
      <3> QED BY <3>1, <1>t DEF LiveRead, ReaderType, ReaderT
    <2>2. CASE ReadDurable
      <3>1. error' = error /\ (reader' = reader \/ DurableRead)
        BY <2>2, ReadDurableFacts
      <3> QED BY <3>1, <1>t DEF DurableRead, ReaderType, ReaderT
    <2>3. CASE reader' = reader /\ error' = error
      BY <2>3, <1>t DEF ReaderType, ReaderT
    <2> QED BY <2>1, <2>2, <2>3, ReaderFrame
  <1> QED BY <1>1, <1>2, <1>3 DEF Types

(* A read and the steps of the collector keep what a reader has sound.      *)
LEMMA ReaderStep ==
    ASSUME Types, ViewInv, StoreInv, SameBodies, ReaderInv, [Next]_vars
    PROVE  ReaderInv'
  <1>1. CASE ReadLive
    <2>1. LiveRead \/ reader' = reader
      BY <1>1, ReadLiveFacts
    <2>2. UNCHANGED <<col, live, cand, recovery, published, snap, rows, top, reused, epochs>>
      BY <1>1, ReadFrame
    <2> QED BY <2>1, <2>2, LiveStep, CollectorStep
  <1>2. CASE ReadDurable
    <2>1. (snap.pub # NoPub /\ DurableRead) \/ reader' = reader
      BY <1>2, ReadDurableFacts
    <2>2. UNCHANGED <<col, live, cand, recovery, published, snap, rows, top, reused, epochs>>
      BY <1>2, ReadFrame
    <2> QED BY <2>1, <2>2, DurableStep, CollectorStep
  <1>3. CASE reader' = reader
    BY <1>3, CollectorStep
  <1> QED BY <1>1, <1>2, <1>3, ReaderFrame

(* A revision, once reused, has been reused.                                *)
LEMMA ReusedStays ==
    ASSUME Types, ViewInv, StoreInv, [Next]_vars, reused
    PROVE  reused'
  <1>1. CASE Quiet \/ Start \/ Stop \/ Reopen \/ GoLive
    BY <1>1, QuietFrame DEF Start, Stop, Reopen, GoLive, hist
  <1>2. ASSUME NEW full \in BOOLEAN, NEW ok \in BOOLEAN,
               NEW active \in SUBSET Owners, NEW loaded \in SUBSET Owners, Poll(full, active, loaded, ok)
        PROVE  reused'
    BY <1>2, PollFacts DEF Committed
  <1> QED BY <1>1, <1>2, Cases

(* Nothing is published, stored or shown at first.                          *)
LEMMA InitHolds ==
    ASSUME Init
    PROVE  IInv
  <1>1. /\ col = [up |-> FALSE, epoch |-> 0, seq |-> 0, loaded |-> {}]
        /\ reader = [kind |-> "none", pub |-> NoPub, rows |-> NoRows, loading |-> TRUE,
                     chk |-> NoPub, excl |-> {}]
        /\ src = [o \in Owners |-> 1] /\ top = [o \in Owners |-> 0]
        /\ live = NoLive /\ cand = NoLive /\ recovery = NoRecovery /\ published = NothingPublished
        /\ snap = NoSnap /\ rows = NoRows /\ error = FALSE /\ reused = FALSE /\ epochs = 0
    BY DEF Init
  <1>2. [o \in Owners |-> 0] \in [Owners -> Nat] /\ [o \in Owners |-> 1] \in [Owners -> Nat]
    OBVIOUS
  <1>3. NoRecovery \in [pub: PubT, bodies: [Owners -> Nat]] /\ NoRecovery.pub = NoPub
    BY <1>2, Nothing DEF NoRecovery
  <1>4. NothingPublished \in [epoch: Nat, rows: RowsT, retained: SUBSET Owners] /\ NothingPublished.epoch = 0
    BY Nothing DEF NothingPublished
  <1>5. CollectorType /\ ViewType /\ StoreType
    BY <1>1, <1>2, <1>3, <1>4, Nothing DEF CollectorType, ViewType, StoreType
  <1>6. ReaderType
    BY <1>1, Nothing DEF ReaderType
  <1>7. Whole(NoRows) /\ Present(NoRows) = {}
    BY Nothing DEF Whole, Present
  <1>8. ViewInv
    BY <1>1, Nothing, NoView DEF ViewInv, Shape
  <1>9. StoreInv
    BY <1>1, <1>4, <1>7, Nothing DEF StoreInv
  <1>10. SameBodies
    BY <1>1, <1>3 DEF SameBodies
  <1>11. ReaderInv
    <2>1. /\ reader.kind = "none" /\ reader.pub = NoPub /\ reader.chk = NoPub /\ reader.rows = NoRows
      BY <1>1
    <2> QED BY <2>1, <1>1, <1>3, Nothing DEF ReaderInv, CacheSound, Knows
  <1> QED BY <1>1, <1>5, <1>6, <1>8, <1>9, <1>10, <1>11 DEF IInv, Types, NeverUnreadable

(* The inductive invariant: whatever is committed, restarted, evicted and   *)
(* read in whatever order, the table, the manifest, the live answers and    *)
(* what the reader has describe the same publications.                      *)
THEOREM Invariance == Spec => []IInv
  <1>1. Init => IInv
    BY InitHolds
  <1>2. IInv /\ [Next]_vars => IInv'
    <2> SUFFICES ASSUME IInv, [Next]_vars PROVE IInv'
      OBVIOUS
    <2>0. Types /\ ViewInv /\ StoreInv /\ SameBodies /\ ReaderInv /\ NeverUnreadable
      BY DEF IInv
    <2>1. Types' /\ ViewInv' /\ StoreInv' /\ SameBodies' /\ ReaderInv'
      BY <2>0, TypeStep, ViewStep, StoreStep, SameStep, ReaderStep
    <2>2. NeverUnreadable'
      <3>1. reused => reused'
        BY <2>0, ReusedStays
      <3>2. error' => error \/ reused
        BY <2>0, ReaderFrame, ReadLiveFacts, ReadDurableFacts DEF LiveRead
      <3> QED BY <3>1, <3>2, <2>0 DEF NeverUnreadable
    <2> QED BY <2>1, <2>2 DEF IInv
  <1> QED BY <1>1, <1>2, PTL DEF Spec

(* read() never raises CollectionScopeError while no revision was reused:   *)
(* what _read_live and the durable read miss, the reader has.               *)
THEOREM ReadersDecode == Spec => []NeverUnreadable
  <1>1. IInv => NeverUnreadable
    BY DEF IInv
  <1> QED BY <1>1, Invariance, PTL

(* What a read confirms is the publication it names: the rows that are not  *)
(* marked pending have its bodies and states, a deleted one is not shown.   *)
THEOREM ReadsAreExact == Spec => ReadExact
  <1> DEFINE Exact == (reader'.pub # reader.pub /\ ~reused) =>
        LET truth == IF reader'.kind = "live" THEN live.rows ELSE snap.man
            shown == reader'.rows
        IN  /\ Pending(shown) # {} => reader'.loading
            /\ \A o \in Owners \ Pending(shown) : shown[o].body = truth[o].body /\ shown[o].st = truth[o].st
  <1>1. IInv /\ [Next]_vars => Exact
    <2> SUFFICES ASSUME IInv, [Next]_vars, reader'.pub # reader.pub, ~reused
                 PROVE  LET truth == IF reader'.kind = "live" THEN live.rows ELSE snap.man
                            shown == reader'.rows
                        IN  /\ Pending(shown) # {} => reader'.loading
                            /\ \A o \in Owners \ Pending(shown) :
                                 shown[o].body = truth[o].body /\ shown[o].st = truth[o].st
      OBVIOUS
    <2>0. Types /\ ViewInv /\ StoreInv /\ SameBodies /\ ReaderInv
      BY DEF IInv
    <2>w. Whole(live.rows) /\ Whole(snap.man)
      BY <2>0 DEF ViewInv, Shape, StoreInv
    <2>1. CASE LiveRead
      <3>1. /\ reader'.kind = "live" /\ reader'.loading = live.loading
            /\ \A o \in Owners :
                 /\ o \in Present(live.rows) => reader'.rows[o] = live.rows[o]
                 /\ o \notin Present(live.rows) =>
                      \/ reader'.rows[o] = NoRow
                      \/ reader'.rows[o].rev = 0 /\ reader'.rows[o].body # 0 /\ live.loading
        BY <2>1 DEF LiveRead
      <3>2. \A o \in Owners : o \notin Present(live.rows) => live.rows[o] = NoRow
        BY <2>w DEF Whole, Present
      <3>3. \A o \in Present(live.rows) : live.rows[o].rev # 0
        BY <2>w, Nothing DEF Whole, Present
      <3>4. Pending(reader'.rows) # {} => reader'.loading
        BY <3>1, <3>3, Nothing DEF Present, Pending
      <3>5. ASSUME NEW o \in Owners \ Pending(reader'.rows)
            PROVE  reader'.rows[o].body = live.rows[o].body /\ reader'.rows[o].st = live.rows[o].st
        BY <3>1, <3>2 DEF Present, Pending
      <3> QED BY <3>1, <3>4, <3>5
    <2>2. CASE DurableRead
      <3>1. /\ reader'.kind = "durable" /\ reader'.loading = (snap.loading \/ ~snap.full)
            /\ \A o \in Owners :
                 /\ o \in Present(snap.man) => reader'.rows[o] = snap.man[o]
                 /\ o \notin Present(snap.man) =>
                      \/ reader'.rows[o] = NoRow
                      \/ reader'.rows[o].rev = 0 /\ reader'.rows[o].body # 0 /\ snap.loading
        BY <2>2 DEF DurableRead
      <3>2. \A o \in Owners : o \notin Present(snap.man) => snap.man[o] = NoRow
        BY <2>w DEF Whole, Present
      <3>3. \A o \in Present(snap.man) : snap.man[o].rev # 0
        BY <2>w, Nothing DEF Whole, Present
      <3>4. Pending(reader'.rows) # {} => reader'.loading
        BY <3>1, <3>3, Nothing DEF Present, Pending
      <3>5. ASSUME NEW o \in Owners \ Pending(reader'.rows)
            PROVE  reader'.rows[o].body = snap.man[o].body /\ reader'.rows[o].st = snap.man[o].st
        BY <3>1, <3>2 DEF Present, Pending
      <3> QED BY <3>1, <3>4, <3>5
    <2>3. LiveRead \/ DurableRead
      BY <2>0, ReaderFrame, ReadLiveFacts, ReadDurableFacts
    <2> QED BY <2>1, <2>2, <2>3
  <1>2. IInv /\ [Next]_vars => [Exact]_vars
    BY <1>1
  <1> HIDE DEF Exact
  <1>3. Spec => [][Exact]_vars
    BY <1>2, Invariance, PTL DEF Spec
  <1> USE DEF Exact
  <1> QED BY <1>3 DEF ReadExact

(* The commit deletes a stored body only of a recording that has none left: *)
(* no start, restart, partial catalog or eviction deletes one.              *)
THEOREM OnlyProvenDeletions == Spec => DeletionsProven
  <1> DEFINE Proven == \A o \in Owners : rows[o].body # 0 /\ rows'[o].body = 0 => src[o] = 0
  <1>1. IInv /\ [Next]_vars => Proven
    <2> SUFFICES ASSUME IInv, [Next]_vars, NEW o \in Owners, rows[o].body # 0, rows'[o].body = 0
                 PROVE  src[o] = 0
      OBVIOUS
    <2>0. Types /\ ViewInv /\ StoreInv
      BY DEF IInv
    <2>1. CASE Quiet \/ Start \/ Stop \/ Reopen \/ GoLive
      <3>1. rows' = rows
        BY <2>1, QuietFrame DEF Start, Stop, Reopen, GoLive
      <3> QED BY <3>1
    <2>2. ASSUME NEW full \in BOOLEAN, NEW ok \in BOOLEAN,
                 NEW active \in SUBSET Owners, NEW loaded \in SUBSET Owners, Poll(full, active, loaded, ok)
          PROVE  src[o] = 0
      <3>1. col.up /\ col.epoch # 0
        BY <2>0, <2>2, PollFacts DEF ViewInv
      <3>2. PICK c : Prepared(c) /\ (rows' = rows \/ Committed(c, Manifest(c)))
        BY <2>0, <2>2, PollFacts
      <3>3. Whole(c.rows)
        BY <2>0, <3>2, PreparedShape
      <3>m. PICK man : man = Manifest(c)
        OBVIOUS
      <3>4. man \in RowsT
        BY <2>0, <3>1, <3>2, <3>3, <3>m, ManifestFacts
      <3>5. Committed(c, man)
        BY <3>2, <3>m
      <3>6. o \notin Present(man)
        <4>1. o \in Present(man) => rows'[o] = [man[o] EXCEPT !.st = FALSE] /\ man[o].body # 0
          BY <3>5 DEF Committed, Present
        <4>2. man[o] \in RowT
          BY <3>4, RowFacts
        <4>3. [man[o] EXCEPT !.st = FALSE].body = man[o].body
          BY <4>2 DEF RowT
        <4> QED BY <4>1, <4>3
      <3> QED BY <3>5, <3>6 DEF Committed
    <2> QED BY <2>1, <2>2, Cases
  <1>2. IInv /\ [Next]_vars => [Proven]_vars
    BY <1>1
  <1> HIDE DEF Proven
  <1>3. Spec => [][Proven]_vars
    BY <1>2, Invariance, PTL DEF Spec
  <1> USE DEF Proven
  <1> QED BY <1>3 DEF DeletionsProven
=============================================================================
