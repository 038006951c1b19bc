-------------------------- MODULE SnapshotDelivery --------------------------
(***************************************************************************)
(* How the content of the prepared store reaches the window: the writer    *)
(* thread that converts, adopts and publishes (prepared_runtime.py), its   *)
(* publisher that turns a generation into pages of changes                 *)
(* (prepared_delivery.py), the one-slot mailbox to the dispatcher, the     *)
(* pipe to the bridge thread (analysis_worker.py) and the receiver that    *)
(* puts the pages together again (analysis_delivery.py).                   *)
(*                                                                         *)
(* An owner's row is abstracted to the generation that last changed it, 0  *)
(* when there is none.  A page carries one change, so that a publication   *)
(* has as many pages as it has changes.  Alerts, choices and overlay rows  *)
(* travel in the same pages and are left out; so is a heartbeat published  *)
(* for a new status only, which is an empty publication like the second of *)
(* Install.  Capacity limits are abstracted to faults that may strike at   *)
(* each place that tests one.  The child may die at any step.              *)
(***************************************************************************)
EXTENDS Integers, Sequences, FiniteSets, SequencesExt

CONSTANTS
    Owners,         \* sessions
    MaxGen,         \* bound on committed generations
    MaxRetired,     \* epochs a receiver remembers (64 in receive)
    MaxSyncs,       \* bound on snapshots the user asks for again
    MaxFaults,      \* bound on capacity failures
    MaxRestarts     \* children started after the first (2 in AnalysisBridge)

ASSUME OwnersAssumption == IsFiniteSet(Owners)
ASSUME BoundsAssumption ==
    {MaxGen, MaxRetired, MaxSyncs, MaxFaults, MaxRestarts} \subseteq Nat

VARIABLES
    store,      \* the prepared database: gen, ready, rows and, as history, done
    W,          \* the writer thread
    P,          \* its publisher
    epochs,     \* number of epochs drawn so far (uuid4)
    box,        \* the mailbox, at most one message
    pipe,       \* the process connection, child to bridge
    R,          \* the bridge's receiver
    wanted,     \* a sync command waits in the bridge's mailbox
    shown,      \* the last snapshot emitted to the window
    told,       \* history: the generation of the last publication failure emitted
    up,         \* the child process lives
    left        \* what remains of MaxSyncs, MaxFaults and MaxRestarts

child == <<W, P, box>>
vars == <<store, W, P, epochs, box, pipe, R, wanted, shown, told, up, left>>

NoRows == [o \in Owners |-> 0]
Rows == [Owners -> 0..MaxGen]
Nothing == [kind |-> "none"]
Progress == [kind |-> "progress"]
NoPart == [op |-> "none"]

(* A new PreparedWriter and its publisher. *)
NewWriter == [pc |-> "top", changed |-> {}, removed |-> {}, blocked |-> 0, reset |-> FALSE,
              again |-> FALSE, sync |-> FALSE, pages |-> <<>>]
NewPublisher(e) == [token |-> 0, owners |-> NoRows, sent |-> NoRows, changed |-> {},
                    epoch |-> e, sequence |-> 0]
NewReceiver == [epoch |-> 0, sequence |-> 0, rows |-> NoRows, retired |-> {},
                open |-> FALSE, pending |-> NoRows, token |-> 0]
-----------------------------------------------------------------------------
(* PreparedPublisher *)

Reset(p, e) == [p EXCEPT !.epoch = e, !.sequence = 0, !.sent = NoRows,
                         !.changed = @ \cup {o \in Owners : p.owners[o] # 0}]

(* adopt: when nothing is reported changed only the token moves; otherwise   *)
(* the owners are read again and compared.                                   *)
Adopt(p, changed, removed) ==
    IF p.token # 0 /\ changed = {} /\ removed = {}
    THEN [p EXCEPT !.token = store.gen]
    ELSE [p EXCEPT !.token = store.gen, !.owners = store.rows,
                   !.changed = (@ \ removed) \cup changed
                               \cup {o \in Owners : store.rows[o] \notin {0, p.owners[o]}}]

(* The rows publish() would send: what was sent before unless it changed. *)
Projected(p) ==
    [o \in Owners |-> IF p.owners[o] # 0 /\ p.sent[o] # 0 /\ o \notin p.changed
                      THEN p.sent[o] ELSE p.owners[o]]

Parts(p) ==
    LET new == Projected(p)
        put == {o \in Owners : new[o] \notin {0, p.sent[o]}}
        del == {o \in Owners : p.sent[o] # 0 /\ new[o] = 0}
    IN  SetToSeq({[op |-> "put", owner |-> o, row |-> new[o]] : o \in put})
        \o SetToSeq({[op |-> "del", owner |-> o] : o \in del})

(* publish_pages: consecutive numbers, `more` on all but the last page. *)
Pages(p) ==
    LET parts == IF Parts(p) = <<>> THEN <<NoPart>> ELSE Parts(p)
    IN  [i \in 1..Len(parts) |->
            [kind |-> "frame", epoch |-> p.epoch, sequence |-> p.sequence + i, token |-> p.token,
             reset |-> p.sequence + i = 1, more |-> i < Len(parts), part |-> parts[i]]]

Published(p) == [p EXCEPT !.sent = Projected(p), !.changed = {}]
-----------------------------------------------------------------------------
(* The writer *)

(* One batch of a conversion is committed; `ready` when it was the last one. *)
(* A conversion that loses its catalog between two batches starts over.      *)
Convert(changed, removed, ready) ==
    /\ up /\ W.pc = "top" /\ ~W.sync /\ store.gen < MaxGen
    /\ ready \/ store.gen + 1 < MaxGen
    /\ changed \cap removed = {}
    /\ \A o \in removed : store.rows[o] # 0
    /\ changed \cup removed # {} \/ (ready /\ ~store.ready)
    /\ store' = LET g == store.gen + 1
                    rows == [o \in Owners |-> IF o \in changed THEN g
                                              ELSE IF o \in removed THEN 0 ELSE store.rows[o]]
                IN  [gen |-> g, ready |-> ready, rows |-> rows,
                     done |-> IF ready THEN [h \in DOMAIN store.done \cup {g} |->
                                             IF h = g THEN rows ELSE store.done[h]]
                              ELSE store.done]
    /\ W' = [W EXCEPT !.changed = (@ \cup changed) \ removed,
                      !.removed = (@ \ changed) \cup removed,
                      !.pc = IF ready THEN "install" ELSE "top"]
    /\ UNCHANGED <<P, epochs, box, pipe, R, wanted, shown, told, up, left>>

(* publication_failed, up to its put: the error is reported once a token. *)
Fails(w) == [w EXCEPT !.pc = "failed", !.reset = TRUE, !.again = FALSE, !.pages = <<>>]

Fault ==
    /\ left.faults > 0
    /\ left' = [left EXCEPT !.faults = @ - 1]

(* MUTANT: the reported changes are dropped also when adopting them failed. *)
Install_alwaysClears ==
    /\ up /\ ~(W.pc = "top" /\ W.sync)
    /\ W.pc = "install" \/ (W.pc = "top" /\ store.ready /\ W.blocked # store.gen /\ P.token # store.gen)
    /\ \/ /\ P' = Adopt(P, W.changed, W.removed)
          /\ W' = [W EXCEPT !.pc = "publish", !.again = TRUE, !.changed = {}, !.removed = {}]
          /\ UNCHANGED left
       \/ /\ Fault
          /\ W' = [Fails(W) EXCEPT !.changed = {}, !.removed = {}]
          /\ UNCHANGED P
    /\ UNCHANGED <<store, epochs, box, pipe, R, wanted, shown, told, up>>

(* install_prepared: adopt the committed generation, forget the reported     *)
(* changes once they are adopted, publish, and publish again after the       *)
(* ledger.  A poll that converts nothing comes here too when a generation    *)
(* waits to be adopted.                                                      *)
Install ==
    /\ up /\ ~(W.pc = "top" /\ W.sync)
    /\ W.pc = "install" \/ (W.pc = "top" /\ store.ready /\ W.blocked # store.gen /\ P.token # store.gen)
    /\ \/ /\ P' = Adopt(P, W.changed, W.removed)
          /\ W' = [W EXCEPT !.pc = "publish", !.again = TRUE, !.changed = {}, !.removed = {}]
          /\ UNCHANGED left
       \/ /\ Fault
          /\ W' = Fails(W)
          /\ UNCHANGED P
    /\ UNCHANGED <<store, epochs, box, pipe, R, wanted, shown, told, up>>

Return(w) == [w EXCEPT !.pc = IF w.again THEN "publish" ELSE "top", !.again = FALSE]

(* publish() up to its first page. *)
Publish ==
    /\ up /\ W.pc = "publish"
    /\ IF W.blocked = store.gen \/ P.token # store.gen \/ ~store.ready
       THEN W' = Return(W) /\ UNCHANGED <<P, epochs, left>>
       ELSE LET p == IF W.reset THEN Reset(P, epochs + 1) ELSE P
            IN  /\ epochs' = IF W.reset THEN epochs + 1 ELSE epochs
                /\ \/ /\ W' = [W EXCEPT !.pc = "page", !.pages = Pages(p)]
                      /\ P' = Published(p)
                      /\ UNCHANGED left
                   \/ Fault /\ W' = Fails(W) /\ P' = p
    /\ UNCHANGED <<store, box, pipe, R, wanted, shown, told, up>>

(* What Mailbox.put waits for *)
Free == box.kind \in {"none", "progress"}

(* Mailbox.put of the next page; it waits for a publication and overtakes    *)
(* advisory progress.                                                        *)
PutPage ==
    /\ up /\ W.pc = "page" /\ Free
    /\ box' = Head(W.pages)
    /\ P' = [P EXCEPT !.sequence = Head(W.pages).sequence]
    /\ W' = IF Len(W.pages) > 1 THEN [W EXCEPT !.pages = Tail(@)]
            ELSE Return([W EXCEPT !.pages = <<>>, !.reset = FALSE])
    /\ UNCHANGED <<store, epochs, pipe, R, wanted, shown, told, up, left>>

(* A page exceeds its budget when it is built, the earlier ones being sent. *)
PageFails ==
    /\ up /\ W.pc = "page"
    /\ Fault
    /\ W' = Fails(W)
    /\ UNCHANGED <<store, P, epochs, box, pipe, R, wanted, shown, told, up>>

PutError ==
    /\ up /\ W.pc = "failed" /\ Free
    /\ box' = [kind |-> "error", token |-> store.gen]
    /\ W' = [W EXCEPT !.pc = "top", !.blocked = store.gen]
    /\ UNCHANGED <<store, P, epochs, pipe, R, wanted, shown, told, up, left>>

(* The writer takes the sync command. *)
TakeSync ==
    /\ up /\ W.pc = "top" /\ W.sync
    /\ W' = [W EXCEPT !.sync = FALSE, !.blocked = 0, !.reset = TRUE, !.pc = "publish"]
    /\ UNCHANGED <<store, P, epochs, box, pipe, R, wanted, shown, told, up, left>>

(* Mailbox.offer_progress *)
OfferProgress ==
    /\ up /\ W.pc \in {"top", "install"} /\ box.kind = "none"
    /\ box' = Progress
    /\ UNCHANGED <<store, W, P, epochs, pipe, R, wanted, shown, told, up, left>>
-----------------------------------------------------------------------------
(* The dispatcher *)

(* Mailbox.take and connection.send *)
Forward ==
    /\ up /\ box.kind # "none"
    /\ pipe' = IF box.kind = "progress" THEN pipe ELSE Append(pipe, box)
    /\ box' = Nothing
    /\ UNCHANGED <<store, W, P, epochs, R, wanted, shown, told, up, left>>
-----------------------------------------------------------------------------
(* The bridge *)

(* SnapshotReceiver.receive: what it becomes, whether it raises ValueError   *)
(* and whether it completes a snapshot.                                      *)
Started(r, f) ==
    [r EXCEPT !.epoch = f.epoch, !.sequence = 0, !.open = FALSE,
              !.retired = IF r.epoch \in {0, f.epoch} THEN @ ELSE @ \cup {r.epoch}]

Applied(rows, part) ==
    CASE part.op = "none" -> rows
      [] part.op = "put"  -> [rows EXCEPT ![part.owner] = part.row]
      [] part.op = "del"  -> [rows EXCEPT ![part.owner] = 0]

Obsolete(r, f) ==
    f.reset /\ (f.epoch \in r.retired \/ (f.epoch = r.epoch /\ f.sequence <= r.sequence))

Full(r, f) == f.reset /\ r.epoch \notin {0, f.epoch} /\ Cardinality(r.retired) >= MaxRetired

Fragment(r, f) ==
    LET base == IF r.open THEN r.pending ELSE IF f.reset THEN NoRows ELSE r.rows
        rows == Applied(base, f.part)
    IN  IF f.more
        THEN [r EXCEPT !.sequence = f.sequence, !.open = TRUE, !.pending = rows, !.token = f.token]
        ELSE [r EXCEPT !.sequence = f.sequence, !.open = FALSE, !.pending = NoRows, !.token = 0,
                       !.rows = rows]

Receive(r, f) ==
    LET s == IF f.reset THEN Started(r, f) ELSE r
    IN  IF Obsolete(r, f) THEN [receiver |-> r, out |-> "ignored"]
        ELSE IF Full(r, f) THEN [receiver |-> r, out |-> "full"]
        ELSE IF f.epoch # s.epoch \/ f.sequence <= s.sequence THEN [receiver |-> s, out |-> "ignored"]
        ELSE IF f.sequence # s.sequence + 1 \/ (s.open /\ f.token # s.token)
             THEN [receiver |-> s, out |-> "broken"]
        ELSE [receiver |-> Fragment(s, f), out |-> IF f.more THEN "partial" ELSE "complete"]

(* MUTANT: a receiver that is full is not replaced. *)
Refused_brokenOnly == {"broken"}

Refused == {"full", "broken"}

(* The bridge reads one message; a ValueError makes a new receiver and asks  *)
(* for everything again.                                                     *)
Read ==
    /\ pipe # <<>>
    /\ pipe' = Tail(pipe)
    /\ LET f == Head(pipe)
       IN  IF f.kind = "error"
           THEN told' = f.token /\ UNCHANGED <<R, wanted, shown>>
           ELSE LET got == Receive(R, f)
                IN  /\ R' = IF got.out \in Refused THEN NewReceiver ELSE got.receiver
                    /\ wanted' = (wanted \/ got.out \in Refused)
                    /\ shown' = IF got.out = "complete"
                                THEN [token |-> f.token, rows |-> got.receiver.rows] ELSE shown
                    /\ UNCHANGED told
    /\ UNCHANGED <<store, W, P, epochs, box, up, left>>

(* request_snapshot, from the window's retry button *)
AskAgain ==
    /\ left.syncs > 0 /\ ~wanted
    /\ wanted' = TRUE
    /\ left' = [left EXCEPT !.syncs = @ - 1]
    /\ UNCHANGED <<store, W, P, epochs, box, pipe, R, shown, told, up>>

(* The sender, the dispatcher and Controls.put: sync commands coalesce. *)
SendSync ==
    /\ up /\ wanted
    /\ wanted' = FALSE
    /\ W' = [W EXCEPT !.sync = TRUE]
    /\ UNCHANGED <<store, P, epochs, box, pipe, R, shown, told, up, left>>

(* The child dies; the bridge still reads what is in the pipe until it sees  *)
(* the process gone, drops the rest and starts another with a new receiver.  *)
Die ==
    /\ up /\ left.restarts > 0
    /\ up' = FALSE
    /\ left' = [left EXCEPT !.restarts = @ - 1]
    /\ W' = NewWriter /\ P' = NewPublisher(0) /\ box' = Nothing
    /\ UNCHANGED <<store, epochs, pipe, R, wanted, shown, told>>

Restart ==
    /\ ~up
    /\ up' = TRUE
    /\ pipe' = <<>> /\ R' = NewReceiver
    /\ epochs' = epochs + 1 /\ P' = NewPublisher(epochs + 1)
    /\ UNCHANGED <<store, W, box, wanted, shown, told, left>>
-----------------------------------------------------------------------------
Init ==
    /\ store = [gen |-> 0, ready |-> FALSE, rows |-> NoRows, done |-> << >>]
    /\ W = NewWriter /\ P = NewPublisher(1) /\ epochs = 1
    /\ box = Nothing /\ pipe = <<>> /\ R = NewReceiver
    /\ wanted = FALSE /\ shown = [token |-> 0, rows |-> NoRows] /\ told = 0 /\ up = TRUE
    /\ left = [syncs |-> MaxSyncs, faults |-> MaxFaults, restarts |-> MaxRestarts]

Next ==
    \/ \E changed, removed \in SUBSET Owners, ready \in BOOLEAN : Convert(changed, removed, ready)
    \/ Install \/ Publish \/ PutPage \/ PageFails \/ PutError \/ TakeSync \/ OfferProgress
    \/ Forward \/ Read \/ AskAgain \/ SendSync \/ Die \/ Restart

(* The writer, the dispatcher, the sender and the bridge keep running; the   *)
(* source, the user and the faults need not act.                             *)
Fairness ==
    /\ WF_vars(Install) /\ WF_vars(Publish) /\ WF_vars(PutPage) /\ WF_vars(PutError)
    /\ WF_vars(TakeSync) /\ WF_vars(Forward) /\ WF_vars(Read) /\ WF_vars(SendSync)
    /\ WF_vars(Restart)

Spec == Init /\ [][Next]_vars /\ Fairness
-----------------------------------------------------------------------------
(* Every variable keeps its type. *)
TypeOK ==
    /\ store.gen \in 0..MaxGen /\ store.ready \in BOOLEAN /\ store.rows \in Rows
    /\ W.pc \in {"top", "install", "publish", "page", "failed"}
    /\ (W.pc = "page") <=> (W.pages # <<>>)
    /\ W.changed \subseteq Owners /\ W.removed \subseteq Owners /\ W.changed \cap W.removed = {}
    /\ {P.token, W.blocked, told, shown.token} \subseteq 0..MaxGen
    /\ {P.owners, P.sent, R.rows, R.pending, shown.rows} \subseteq Rows
    /\ box.kind \in {"none", "progress", "frame", "error"}
    /\ Cardinality(R.retired) <= MaxRetired
    /\ {wanted, up, W.sync, W.reset, W.again, R.open} \subseteq BOOLEAN

(* The window shows a committed generation whole and never an older one      *)
(* after it, across pages, resets, refused pages and restarts.               *)
View == INSTANCE CommittedView WITH Generations <- 1..MaxGen, generations <- store.done
ShowsCommittedViews == View!Spec

(* Every generation made ready is shown, replaced by a newer one, or its     *)
(* failure is reported to the window.                                        *)
GenerationSettled ==
    \A g \in 1..MaxGen :
        (store.gen = g /\ store.ready) ~> (shown.token >= g \/ told >= g \/ store.gen > g)
=============================================================================
