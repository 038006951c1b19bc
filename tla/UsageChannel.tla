---------------------------- MODULE UsageChannel ----------------------------
(***************************************************************************)
(* The channel between the usage collector and its readers                 *)
(* (usage_collection.py): LiveCollection, which answers a reader with the  *)
(* rows that changed since the publication it names, and CollectionChannel,*)
(* which keeps one durable snapshot for the time when no collector runs.   *)
(*                                                                         *)
(* A publication is <<epoch, sequence>>.  The epoch changes with the       *)
(* process and when the observed homes change; the sequence starts again   *)
(* only with the process.  The body of a session is its digest, 0 when it  *)
(* has none; the volatile fields are the one flag collection_complete.     *)
(* The collector loads the sessions one by one after a start, shows only   *)
(* the selected ones while no reader asks for everything, and forgets the  *)
(* others.  A reader asks the live server first and falls back to the      *)
(* durable snapshot.  It keeps rows of one source only: a live read clears *)
(* the durable caches and the reverse.                                     *)
(***************************************************************************)
EXTENDS Integers, FiniteSets

CONSTANTS
    Owners,     \* sessions, (home, sid)
    MaxBody,    \* bodies a session can have
    MaxSeq,     \* bound: polls of a process
    MaxEpochs,  \* bound: processes and changes of the homes
    MaxChanges, \* bound: changes of the recordings
    MaxSelected \* bound: sessions selected while no reader asks for all

ASSUME BoundAssumption ==
    MaxBody \in Nat /\ MaxSeq \in Nat /\ MaxEpochs \in Nat /\ MaxChanges \in Nat /\ MaxSelected \in Nat

VARIABLES
    src,        \* the body each recording has, as the index would show it
    col,        \* the collector: up, epoch, sequence, loaded
    live,       \* LiveCollection.current
    cand,       \* the candidate between the commit and LiveCollection.publish
    recovery,   \* LiveCollection.recovery
    published,  \* published with publish_epoch, and retained_session_keys
    snap, rows, \* the durable snapshot and the table of bodies
    reader,     \* a CollectionChannel that reads
    error,      \* read() raised CollectionScopeError
    top,        \* history: the last revision this epoch's manifests gave
    reused,     \* history: a body was stored under a revision that is not new
    epochs, changes

hist == <<top, reused>>
colVars == <<src, col, live, cand, recovery, published, snap, rows, hist, epochs, changes>>
vars == <<colVars, reader, error>>

NoPub == <<0, 0>>
NoRow == [rev |-> 0, body |-> 0, st |-> FALSE]
NoRows == [o \in Owners |-> NoRow]
Present(rs) == {o \in Owners : rs[o].body # 0}
Bodies(rs) == [o \in Owners |-> rs[o].body]
\* A row kept from an earlier publication has no revision (_collection_pending).
Pending(rs) == {o \in Present(rs) : rs[o].rev = 0}

NoLive == [pub |-> NoPub, rows |-> NoRows, stRev |-> [o \in Owners |-> 0], memRev |-> 0,
           loading |-> FALSE, complete |-> FALSE, full |-> FALSE, active |-> {}]
NoSnap == [pub |-> NoPub, man |-> NoRows, loading |-> FALSE, full |-> FALSE]
NoRecovery == [pub |-> NoPub, bodies |-> [o \in Owners |-> 0]]
NothingPublished == [epoch |-> 0, rows |-> NoRows, retained |-> {}]

Init ==
    /\ src = [o \in Owners |-> 1]
    /\ col = [up |-> FALSE, epoch |-> 0, seq |-> 0, loaded |-> {}]
    /\ live = NoLive /\ cand = NoLive /\ recovery = NoRecovery /\ published = NothingPublished
    /\ snap = NoSnap /\ rows = NoRows
    /\ reader = [kind |-> "none", pub |-> NoPub, rows |-> NoRows, loading |-> TRUE,
                 chk |-> NoPub, excl |-> {}]
    /\ error = FALSE /\ top = [o \in Owners |-> 0] /\ reused = FALSE /\ epochs = 0 /\ changes = 0

----------------------------------------------------------------------------
(* The collector                                                            *)

\* A recording changes: an append, a correction, or nothing public is left.
Change(o, body) ==
    /\ changes < MaxChanges /\ changes' = changes + 1
    /\ src[o] # body /\ src' = [src EXCEPT ![o] = body]
    /\ UNCHANGED <<col, live, cand, recovery, published, snap, rows, hist, epochs, reader, error>>

\* CollectorService.__init__ and start_live: _recovery_catalog names the bodies
\* of the durable snapshot.
Start ==
    /\ ~col.up /\ epochs < MaxEpochs /\ epochs' = epochs + 1
    /\ col' = [up |-> TRUE, epoch |-> epochs + 1, seq |-> 0, loaded |-> {}]
    /\ recovery' = IF Present(snap.man) = {} THEN NoRecovery
                   ELSE [pub |-> snap.pub, bodies |-> Bodies(snap.man)]
    /\ UNCHANGED <<src, live, cand, published, snap, rows, hist, changes, reader, error>>

\* The process stops, or dies anywhere; only the database is left.
Stop ==
    /\ col.up /\ col' = [col EXCEPT !.up = FALSE, !.loaded = {}]
    /\ live' = NoLive /\ cand' = NoLive /\ recovery' = NoRecovery /\ published' = NothingPublished
    /\ UNCHANGED <<src, snap, rows, hist, epochs, changes, reader, error>>

\* poll() with other homes: the index is opened again under a new epoch.
Reopen ==
    /\ col.up /\ cand = NoLive /\ epochs < MaxEpochs /\ epochs' = epochs + 1
    /\ col' = [col EXCEPT !.epoch = epochs + 1, !.loaded = {}]
    /\ UNCHANGED <<src, live, cand, recovery, published, snap, rows, hist, changes, reader, error>>

\* MUTANT: only a changed body makes an entry worth sending.
Entry_bodyOnly(new, old, prior, seq) == IF new.body = old.body THEN prior ELSE seq

\* state_revisions: the sequence at which the entry last changed.
Entry(new, old, prior, seq) == IF new = old THEN prior ELSE seq

\* LiveCollection.prepare: a row keeps its revision while its body is the one
\* published before in this epoch.
Prepare(p) ==
    LET same == live.pub[1] = p.pub[1]
        old(o) == IF same THEN live.rows[o] ELSE NoRow
        row(o) == IF p.bodies[o] = 0 THEN NoRow
                  ELSE [rev |-> IF old(o).body = p.bodies[o] THEN old(o).rev ELSE p.pub[2],
                        body |-> p.bodies[o], st |-> p.complete]
        new == [o \in Owners |-> row(o)]
    IN  [pub |-> p.pub, rows |-> new,
         stRev |-> [o \in Owners |-> Entry(new[o], old(o), IF same THEN live.stRev[o] ELSE 0, p.pub[2])],
         memRev |-> IF same /\ Present(live.rows) = Present(new) THEN live.memRev ELSE p.pub[2],
         loading |-> p.loading, complete |-> p.complete, full |-> p.full, active |-> p.active]

\* The publication needs no commit: nothing durable differs from the last one.
SameDurable(c) ==
    live.pub[1] = c.pub[1] /\ [c EXCEPT !.pub = live.pub] = live

\* "Every correction must advance the stored body's identity."
Revision(old, seq) == IF old.body # 0 /\ old.rev >= seq THEN old.rev + 1 ELSE seq

\* The manifest of the durable snapshot: an unchanged body keeps its revision,
\* and so does one whose bytes an earlier epoch has stored.
Manifest(c) ==
    LET prev(o) == IF published.epoch = c.pub[1] THEN published.rows[o] ELSE NoRow
        rev(o) == IF prev(o).body = c.rows[o].body THEN prev(o).rev
                  ELSE IF prev(o).body = 0 /\ rows[o].body = c.rows[o].body THEN rows[o].rev
                  ELSE Revision(prev(o), c.pub[2])
    IN  [o \in Owners |-> IF c.rows[o].body = 0 THEN NoRow ELSE [c.rows[o] EXCEPT !.rev = rev(o)]]

\* MUTANT: the rows that the catalog does not show are deleted.
Removed_absent(c, shown, absent, removed, retained) == absent \cup removed \cup (retained \ shown)

\* "Only the complete catalog proves which derived bodies disappeared."
Removed(c, shown, absent, removed, retained) ==
    IF c.full /\ c.complete THEN absent \cup removed \cup (retained \ shown) ELSE removed

\* CollectionChannel.publish inside its transaction.
Commit(c, removed) ==
    LET man == Manifest(c)
        shown == Present(man)
        same == published.epoch = c.pub[1]
        absent == IF same THEN Present(published.rows) \ shown ELSE {}
        retained == IF same THEN published.retained ELSE Present(rows)
        proven == removed \ shown
        gone == Removed(c, shown, absent, proven, retained)
    IN  /\ rows' = [o \in Owners |-> IF o \in shown THEN [man[o] EXCEPT !.st = FALSE]
                                     ELSE IF o \in gone THEN NoRow ELSE rows[o]]
        /\ snap' = [pub |-> c.pub, man |-> man, loading |-> c.loading, full |-> c.full]
        /\ published' = [epoch |-> c.pub[1], rows |-> man,
                         retained |-> IF c.full /\ c.complete THEN {}
                                      ELSE ((retained \cup absent) \ shown) \ proven]
        /\ top' = [o \in Owners |-> IF o \in shown THEN man[o].rev
                                    ELSE IF snap.pub[1] = c.pub[1] THEN top[o] ELSE 0]
        /\ reused' = (reused \/ \E o \in shown : /\ rows[o].body # man[o].body /\ snap.pub[1] = c.pub[1]
                                                 /\ man[o].rev <= top[o])
        /\ cand' = c /\ UNCHANGED live

\* CollectorService.poll: the index shows what it has loaded of the sessions
\* it is asked for; loaded sessions outside them are forgotten.
Poll(full, active, loaded, ok) ==
    LET loading == ok /\ loaded # active
        complete == ok /\ loaded = active
        c == Prepare([pub |-> <<col.epoch, col.seq + 1>>,
                      bodies |-> [o \in Owners |-> IF o \in loaded THEN src[o] ELSE 0],
                      loading |-> loading, complete |-> complete, full |-> full, active |-> active])
        \* CollectionChanges.removed: loaded and ready, and nothing public is left.
        removed == IF ok THEN {o \in loaded : src[o] = 0} ELSE {}
    IN  /\ col.up /\ cand = NoLive /\ col.seq < MaxSeq
        /\ IF full THEN active = Owners ELSE Cardinality(active) <= MaxSelected
        /\ loaded \subseteq active /\ col.loaded \cap active \subseteq loaded
        /\ col' = [col EXCEPT !.seq = @ + 1, !.loaded = loaded]
        /\ IF SameDurable(c) /\ removed \cap (Present(published.rows) \cup published.retained) = {}
           THEN live' = c /\ UNCHANGED <<cand, published, snap, rows, hist>>
           ELSE Commit(c, removed)
        /\ UNCHANGED <<src, recovery, epochs, changes, reader, error>>

\* LiveCollection.publish, after the commit.
GoLive ==
    /\ cand # NoLive /\ live' = cand /\ cand' = NoLive
    /\ UNCHANGED <<src, col, recovery, published, snap, rows, hist, epochs, changes, reader, error>>

----------------------------------------------------------------------------
(* The reader                                                               *)

\* MUTANT: the exclusions are ignored.
Sent_unfiltered(o, known, checkpoint) ==
    /\ live.rows[o].rev > known
    /\ ~(checkpoint = recovery.pub /\ checkpoint # NoPub /\ recovery.bodies[o] = live.rows[o].body)

\* What the server leaves out: rows the reader has from the publication it
\* names, and bodies its checkpoint proves it has.
Sent(o, known, checkpoint) ==
    /\ live.rows[o].rev > known
    /\ ~(/\ checkpoint = recovery.pub /\ checkpoint # NoPub /\ o \notin reader.excl
         /\ recovery.bodies[o] = live.rows[o].body)

\* _retain_pending: "A partial catalog cannot prove deletion."
Kept(new, loading) ==
    IF loading THEN Present(reader.rows) \ Present(new) ELSE {}

Retained(new, loading) ==
    [o \in Owners |-> IF o \in Kept(new, loading) THEN [rev |-> 0, body |-> reader.rows[o].body, st |-> FALSE]
                      ELSE IF ~loading /\ o \in Pending(new) THEN NoRow ELSE new[o]]

\* _checkpoint_after_live: it is of use while rows of it are still pending.
KeepsCheckpoint(result) ==
    /\ reader.kind = "durable" \/ reader.chk # NoPub
    /\ Pending(result) # {}

\* read(), the live part: one request of protocol 5.
ReadLive ==
    LET since == IF reader.kind = "live" /\ reader.pub[1] = live.pub[1] THEN reader.pub[2] ELSE -1
        base(o) == IF since # -1 THEN reader.rows[o] ELSE NoRow
        checkpoint == IF reader.kind = "durable" THEN reader.pub
                      ELSE IF reader.chk # NoPub THEN reader.chk ELSE reader.pub
        delta == since >= live.memRev
        entries == {o \in Present(live.rows) : ~delta \/ live.stRev[o] > since}
        \* _read_live: the body is sent, or known by its revision, or by its digest.
        found(o) == \/ Sent(o, since, checkpoint)
                    \/ base(o).body = live.rows[o].body /\ base(o).rev = live.rows[o].rev
                    \/ base(o).rev # live.rows[o].rev /\ reader.rows[o].body = live.rows[o].body
        new == [o \in Owners |-> IF o \in entries THEN live.rows[o] ELSE IF delta THEN base(o) ELSE NoRow]
        result == Retained(new, live.loading)
        keep == KeepsCheckpoint(result)
        excl == IF reader.kind = "durable" THEN {} ELSE reader.excl
    IN  /\ live # NoLive /\ live.full
        /\ IF \A o \in entries : found(o)
           THEN /\ reader' = [kind |-> "live", pub |-> live.pub, rows |-> result, loading |-> live.loading,
                              chk |-> IF ~keep THEN NoPub
                                      ELSE IF reader.kind = "durable" THEN reader.pub ELSE reader.chk,
                              excl |-> IF ~keep THEN {}
                                       ELSE excl \cup {o \in Present(reader.rows) : result[o].body # reader.rows[o].body}]
                /\ UNCHANGED error
           ELSE error' = TRUE /\ UNCHANGED reader
        /\ UNCHANGED colVars

\* "A disconnected collector cannot make an older checkpoint newer."
Newer == reader.kind = "live" /\ reader.pub[1] = snap.pub[1] /\ reader.pub[2] >= snap.pub[2]

\* read(), the durable part, in one read transaction: no collector answers in
\* time, it has published nothing yet, or only selected sessions.
ReadDurable ==
    LET cached(o) == reader.kind = "durable" /\ reader.pub[1] = snap.pub[1] /\ reader.rows[o].body # 0
                     /\ reader.rows[o].rev = snap.man[o].rev
        found(o) == cached(o) \/ (rows[o].rev = snap.man[o].rev /\ rows[o].body = snap.man[o].body)
        new == [o \in Owners |-> IF o \in Present(snap.man) /\ cached(o)
                                 THEN [snap.man[o] EXCEPT !.body = reader.rows[o].body] ELSE snap.man[o]]
        result == Retained(new, snap.loading)
    IN  /\ snap # NoSnap
        /\ IF Newer THEN UNCHANGED <<reader, error>>
           ELSE IF \A o \in Present(snap.man) : found(o)
           THEN /\ reader' = [kind |-> "durable", pub |-> snap.pub, rows |-> result,
                              loading |-> snap.loading \/ ~snap.full,
                              chk |-> IF Pending(result) # {} THEN snap.pub ELSE NoPub, excl |-> {}]
                /\ UNCHANGED error
           ELSE error' = TRUE /\ UNCHANGED reader
        /\ UNCHANGED colVars

----------------------------------------------------------------------------
Collector ==
    \/ Start \/ Stop \/ Reopen \/ GoLive
    \/ \E full, ok \in BOOLEAN, active, loaded \in SUBSET Owners : Poll(full, active, loaded, ok)
Read == ReadLive \/ ReadDurable
Next == Collector \/ Read \/ \E o \in Owners, body \in 0..MaxBody : Change(o, body)

Spec == Init /\ [][Next]_vars

----------------------------------------------------------------------------
(* Properties                                                               *)

Pub == (0..MaxEpochs) \X (0..MaxSeq)
Row == [rev: 0..(MaxSeq + MaxChanges), body: 0..MaxBody, st: BOOLEAN]
Rows == [Owners -> Row]

TypeOK ==
    /\ col \in [up: BOOLEAN, epoch: 0..MaxEpochs, seq: 0..MaxSeq, loaded: SUBSET Owners]
    /\ live.pub \in Pub /\ live.rows \in Rows /\ cand.pub \in Pub /\ cand.rows \in Rows
    /\ snap.pub \in Pub /\ snap.man \in Rows /\ rows \in Rows
    /\ published.rows \in Rows /\ published.retained \subseteq Owners
    /\ reader.pub \in Pub /\ reader.rows \in Rows /\ reader.chk \in Pub /\ reader.excl \subseteq Owners
    /\ reader.chk # NoPub => Pending(reader.rows) # {}
    /\ recovery.pub \in Pub /\ top \in [Owners -> Nat] /\ error \in BOOLEAN /\ reused \in BOOLEAN

\* No reader is sent what it cannot decode: the rows a reply leaves out are
\* those the reader has, and the stored bodies are those of the manifest,
\* whatever restarts, partial catalogs, evictions and fallbacks came before.
\* The exception is a reused revision, CorrectionAdvances.
NeverUnreadable == error => reused

\* What a read confirms is what the publication it names holds, body and state;
\* everything else it shows is marked as pending and the result as loading.
ReadExact ==
    [][(reader'.pub # reader.pub /\ ~reused) =>
        LET truth == IF reader'.kind = "live" THEN live.rows ELSE snap.man
            shown == reader'.rows
        IN  /\ Pending(shown) # {} => reader'.loading
            /\ \A o \in Owners \ Pending(shown) : shown[o].body = truth[o].body /\ shown[o].st = truth[o].st]_vars

\* "Only the complete catalog proves which derived bodies disappeared": a stored
\* body is deleted only when its recording has none any more, never because the
\* collector has not loaded the session or was not asked for it.
DeletionsProven ==
    [][\A o \in Owners : rows[o].body # 0 /\ rows'[o].body = 0 => src[o] = 0]_vars

\* "Every correction must advance the stored body's identity": in one epoch a
\* revision of a session never stands for two bodies.
CorrectionAdvances == ~reused

=============================================================================
