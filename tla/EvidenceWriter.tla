--------------------------- MODULE EvidenceWriter ---------------------------
(***************************************************************************)
(* The bounded hand-off between the relay and the observation database:    *)
(* cachemonitor/evidence_writer.py.                                        *)
(*                                                                         *)
(* Four threads meet here: the relay's event loop calls write(), the       *)
(* start-up code calls prepare() once, the writer thread runs run(), and   *)
(* close() is called from a worker thread and again from main().  A step   *)
(* is one queue operation, one region under self.lock, one read of a       *)
(* shared flag or one database call.  A record is its identity and its     *)
(* timestamp; a gap is the interval <<start, end>> of wall-clock time that *)
(* observation_gaps reports as unobserved.                                 *)
(***************************************************************************)
EXTENDS Integers, Sequences

CONSTANTS
    Records,    \* the observations the relay hands over, each once
    Ts,         \* the timestamp each of them carries
    Capacity,   \* Queue(maxsize = Capacity)
    MaxClock,   \* bound on the wall clock
    Sentinel,   \* the None that close() enqueues
    Prep,       \* the _Preparation that prepare() enqueues
    NoRecord,   \* the writer holds nothing
    NoGap       \* pending_gap is None

ASSUME CapacityAssumption == Capacity \in Nat \ {0}
ASSUME TimeAssumption == Ts \in [Records -> Nat] /\ MaxClock \in Nat
ASSUME ItemAssumption ==
    /\ Sentinel \notin Records /\ Prep \notin Records /\ NoRecord \notin Records
    /\ Sentinel # Prep /\ Sentinel # NoRecord /\ Prep # NoRecord
ASSUME GapAssumption == NoGap \notin Nat \X Nat

VARIABLES
    queue,      \* self.queue
    pendingGap, \* self.pending_gap
    lostRecs,   \* the records lost() was called with (self.dropped counts them)
    preparing,  \* self.preparing
    closed,     \* self.closed
    stopping,   \* self.stopping
    store,      \* run()'s store: "none", "open", "closed"
    rows,       \* model_observations: the records written
    gaps,       \* observation_gaps: the intervals saved
    clock,      \* time.time()
    ppc, rec,   \* the thread in write(), and its record
    begun,      \* records write() has been called with
    returned,   \* records whose write() has returned
    prep,       \* the thread in prepare()
    wpc, ctx, item, gapRead, \* the writer thread, and run()'s locals
    cpc, result,             \* the thread in close(), and what it last returned
    before,     \* history: the writes that had returned when the last close() began
    overtaken   \* history: the write that had read closed = False when it was set

prodVars  == <<ppc, rec, begun, returned>>
writerVars == <<wpc, ctx, item, gapRead, store, rows, gaps>>
closeHist == <<before, overtaken>>
closeVars == <<closed, stopping, cpc, result, closeHist>>
prepVars  == <<prep, preparing>>
allVars == <<queue, pendingGap, lostRecs, clock, prodVars, writerVars, closeVars, prepVars>>

Items == Records \cup {Sentinel, Prep}
Gaps == Nat \X Nat

WriterInit ==
    /\ queue = <<>> /\ pendingGap = NoGap /\ lostRecs = {} /\ clock = 0
    /\ ppc = "idle" /\ rec = NoRecord /\ begun = {} /\ returned = {}
    /\ prep = "idle" /\ preparing = 0
    /\ wpc = "test" /\ ctx = "none" /\ item = NoRecord /\ gapRead = NoGap
    /\ store = "none" /\ rows = {} /\ gaps = {}
    /\ closed = FALSE /\ stopping = FALSE
    /\ cpc = "idle" /\ result = "none" /\ before = {} /\ overtaken = {}

----------------------------------------------------------------------------
(* lost(): one region under self.lock                                      *)

\* pending_gap after lost(r): the interval that covers r and the old one.
Merged(gap, r) ==
    IF gap = NoGap
    THEN <<Ts[r], clock>>
    ELSE << IF Ts[r] < gap[1] THEN Ts[r] ELSE gap[1],
            IF clock > gap[2] THEN clock ELSE gap[2] >>

lost(r) ==
    /\ pendingGap' = Merged(pendingGap, r)
    /\ lostRecs' = lostRecs \cup {r}

Tick ==
    /\ clock < MaxClock
    /\ clock' = clock + 1
    /\ UNCHANGED <<queue, pendingGap, lostRecs, prodVars, writerVars, closeVars, prepVars>>

----------------------------------------------------------------------------
(* write(): the relay's event loop                                         *)

\* Mutant: closed is not tested before the hand-off.
WriteCheck_unchecked(r) ==
    /\ ppc = "idle" /\ r \notin begun /\ Ts[r] <= clock
    /\ prep \in {"done", "failed", "timeout"}
    /\ rec' = r
    /\ begun' = begun \cup {r}
    /\ ppc' = "putting"
    /\ UNCHANGED <<queue, pendingGap, lostRecs, clock, returned, writerVars, closeVars, prepVars>>

\* The closed flag is read without the lock, before the hand-off.
WriteCheck(r) ==
    /\ ppc = "idle" /\ r \notin begun /\ Ts[r] <= clock
    /\ prep \in {"done", "failed", "timeout"}      \* admission follows prepare()
    /\ rec' = r
    /\ begun' = begun \cup {r}
    /\ ppc' = IF closed THEN "losing" ELSE "putting"
    /\ UNCHANGED <<queue, pendingGap, lostRecs, clock, returned, writerVars, closeVars, prepVars>>

WritePut ==
    /\ ppc = "putting" /\ Len(queue) < Capacity
    /\ queue' = Append(queue, rec)
    /\ ppc' = "idle" /\ rec' = NoRecord
    /\ returned' = returned \cup {rec}
    /\ UNCHANGED <<pendingGap, lostRecs, clock, begun, writerVars, closeVars, prepVars>>

WriteFull ==
    /\ ppc = "putting" /\ Len(queue) >= Capacity
    /\ ppc' = "losing"
    /\ UNCHANGED <<queue, pendingGap, lostRecs, clock, rec, begun, returned, writerVars, closeVars, prepVars>>

WriteLost ==
    /\ ppc = "losing"
    /\ lost(rec)
    /\ ppc' = "idle" /\ rec' = NoRecord
    /\ returned' = returned \cup {rec}
    /\ UNCHANGED <<queue, clock, begun, writerVars, closeVars, prepVars>>

----------------------------------------------------------------------------
(* prepare(): called once, in a worker thread, before the relay admits     *)

PrepareStart ==
    /\ prep = "idle" /\ ~closed
    /\ prep' = "putting" /\ preparing' = preparing + 1
    /\ UNCHANGED <<queue, pendingGap, lostRecs, clock, prodVars, writerVars, closeVars>>

PreparePut ==
    /\ prep = "putting" /\ Len(queue) < Capacity
    /\ queue' = Append(queue, Prep)
    /\ prep' = "waiting"
    /\ UNCHANGED <<pendingGap, lostRecs, clock, preparing, prodVars, writerVars, closeVars>>

\* Mutant: the timed-out caller also withdraws its request.
PrepareTimeout_withdraws ==
    /\ prep = "waiting"
    /\ prep' = "timeout" /\ preparing' = preparing - 1
    /\ UNCHANGED <<queue, pendingGap, lostRecs, clock, prodVars, writerVars, closeVars>>

\* The wait for request.done expires; the request stays in the queue.
PrepareTimeout ==
    /\ prep = "waiting"
    /\ prep' = "timeout"
    /\ UNCHANGED <<queue, pendingGap, lostRecs, clock, preparing, prodVars, writerVars, closeVars>>

----------------------------------------------------------------------------
(* run(): the writer thread                                                *)

WriterTest ==
    /\ wpc = "test"
    /\ IF stopping /\ queue = <<>>
       THEN /\ wpc' = IF store = "open" THEN "read" ELSE "exit"
            /\ ctx' = "final"
       ELSE wpc' = "choose" /\ ctx' = "none"
    /\ item' = NoRecord
    /\ UNCHANGED <<queue, pendingGap, lostRecs, clock, gapRead, store, rows, gaps,
                   prodVars, closeVars, prepVars>>

\* pending_gap is read, without the lock, to choose the timeout of get().
WriterChoose ==
    /\ wpc = "choose"
    /\ wpc' = IF pendingGap # NoGap THEN "timed" ELSE "blocked"
    /\ UNCHANGED <<queue, pendingGap, lostRecs, clock, ctx, item, gapRead, store, rows, gaps,
                   prodVars, closeVars, prepVars>>

WriterGet ==
    /\ wpc \in {"timed", "blocked"} /\ queue # <<>>
    /\ queue' = Tail(queue)
    /\ item' = IF Head(queue) = Sentinel THEN NoRecord ELSE Head(queue)
    /\ wpc' = IF Head(queue) = Sentinel THEN "test" ELSE "open"
    /\ ctx' = IF Head(queue) \in Records THEN "record" ELSE "none"
    /\ UNCHANGED <<pendingGap, lostRecs, clock, gapRead, store, rows, gaps,
                   prodVars, closeVars, prepVars>>

\* get() raises Empty: an open store retries the gap.
WriterEmpty ==
    /\ wpc = "timed" /\ queue = <<>>
    /\ IF store = "open" /\ pendingGap # NoGap
       THEN wpc' = "read" /\ ctx' = "retry"
       ELSE wpc' = "test" /\ UNCHANGED ctx
    /\ UNCHANGED <<queue, pendingGap, lostRecs, clock, item, gapRead, store, rows, gaps,
                   prodVars, closeVars, prepVars>>

\* A _Preparation: opens the store or hands its error over; then done.set().
WriterPrepare(ok) ==
    /\ wpc = "open" /\ item = Prep
    /\ ok \/ store = "none"
    /\ store' = IF ok THEN "open" ELSE store
    /\ preparing' = preparing - 1
    /\ prep' = IF prep = "timeout" THEN prep ELSE IF ok THEN "done" ELSE "failed"
    /\ wpc' = "test" /\ item' = NoRecord
    /\ UNCHANGED <<queue, pendingGap, lostRecs, clock, ctx, gapRead, rows, gaps, prodVars, closeVars>>

\* A record: opens the store unless it is open.
WriterOpen(ok) ==
    /\ wpc = "open" /\ item \in Records
    /\ ok \/ store = "none"
    /\ store' = IF ok THEN "open" ELSE store
    /\ wpc' = IF ok THEN "read" ELSE "lose"
    /\ UNCHANGED <<queue, pendingGap, lostRecs, clock, ctx, item, gapRead, rows, gaps,
                   prodVars, closeVars, prepVars>>

\* Where flush_gap() returns to, and where its exception lands.
AfterFlush == CASE ctx = "record" -> "write" [] ctx = "retry" -> "test" [] OTHER -> "exit"
FlushFails == CASE ctx = "record" -> "lose"  [] ctx = "retry" -> "test" [] OTHER -> "exit"

FlushRead ==
    /\ wpc = "read"
    /\ gapRead' = pendingGap
    /\ wpc' = IF pendingGap = NoGap THEN AfterFlush ELSE "save"
    /\ UNCHANGED <<queue, pendingGap, lostRecs, clock, ctx, item, store, rows, gaps,
                   prodVars, closeVars, prepVars>>

FlushSave(ok) ==
    /\ wpc = "save"
    /\ gaps' = IF ok THEN gaps \cup {gapRead} ELSE gaps
    /\ wpc' = IF ok THEN "clear" ELSE FlushFails
    /\ gapRead' = IF ok THEN gapRead ELSE NoGap
    /\ UNCHANGED <<queue, pendingGap, lostRecs, clock, ctx, item, store, rows,
                   prodVars, closeVars, prepVars>>

\* Mutant: the pending gap is cleared without comparing it.
FlushClear_always ==
    /\ wpc = "clear"
    /\ pendingGap' = NoGap
    /\ wpc' = AfterFlush
    /\ gapRead' = NoGap
    /\ UNCHANGED <<queue, lostRecs, clock, ctx, item, store, rows, gaps,
                   prodVars, closeVars, prepVars>>

\* A gap that grew while it was being saved stays pending.
FlushClear ==
    /\ wpc = "clear"
    /\ pendingGap' = IF pendingGap = gapRead THEN NoGap ELSE pendingGap
    /\ wpc' = AfterFlush
    /\ gapRead' = NoGap
    /\ UNCHANGED <<queue, lostRecs, clock, ctx, item, store, rows, gaps,
                   prodVars, closeVars, prepVars>>

WriterWrite(ok) ==
    /\ wpc = "write"
    /\ rows' = IF ok THEN rows \cup {item} ELSE rows
    /\ wpc' = IF ok THEN "test" ELSE "lose"
    /\ item' = IF ok THEN NoRecord ELSE item
    /\ UNCHANGED <<queue, pendingGap, lostRecs, clock, ctx, gapRead, store, gaps,
                   prodVars, closeVars, prepVars>>

WriterLose ==
    /\ wpc = "lose"
    /\ lost(item)
    /\ wpc' = "test" /\ item' = NoRecord
    /\ UNCHANGED <<queue, clock, ctx, gapRead, store, rows, gaps, prodVars, closeVars, prepVars>>

WriterExit ==
    /\ wpc = "exit"
    /\ store' = IF store = "open" THEN "closed" ELSE store
    /\ wpc' = "exited"
    /\ UNCHANGED <<queue, pendingGap, lostRecs, clock, ctx, item, gapRead, rows, gaps,
                   prodVars, closeVars, prepVars>>

----------------------------------------------------------------------------
(* close(): from ManagedProxy.serve's cleanup and again from main()        *)

CloseMark ==
    /\ cpc = "idle" /\ prep \in {"done", "failed", "timeout"}
    /\ closed' = TRUE /\ cpc' = "marked"
    /\ before' = returned
    /\ overtaken' = IF ppc = "putting" THEN {rec} ELSE {}
    /\ UNCHANGED <<queue, pendingGap, lostRecs, clock, stopping, result, prodVars, writerVars, prepVars>>

CloseStop ==
    /\ cpc = "marked"
    /\ stopping' = TRUE /\ cpc' = "waking"
    /\ UNCHANGED <<queue, pendingGap, lostRecs, clock, closed, result, closeHist, prodVars, writerVars, prepVars>>

\* Mutant: the sentinel is never enqueued.
CloseWake_silent ==
    /\ cpc = "waking"
    /\ cpc' = "join"
    /\ UNCHANGED <<queue, pendingGap, lostRecs, clock, closed, stopping, result, closeHist,
                   prodVars, writerVars, prepVars>>

CloseWake ==
    /\ cpc = "waking"
    /\ queue' = IF Len(queue) < Capacity THEN Append(queue, Sentinel) ELSE queue
    /\ cpc' = "join"
    /\ UNCHANGED <<pendingGap, lostRecs, clock, closed, stopping, result, closeHist,
                   prodVars, writerVars, prepVars>>

\* join(timeout) ends because the thread did, or because the time ran out.
CloseJoin ==
    /\ cpc = "join"
    /\ result' = IF wpc = "exited" /\ pendingGap = NoGap THEN "flushed" ELSE "incomplete"
    /\ cpc' = "returned"
    /\ UNCHANGED <<queue, pendingGap, lostRecs, clock, closed, stopping, closeHist,
                   prodVars, writerVars, prepVars>>

\* A second call finds closed set and goes straight to the join.
CloseAgain ==
    /\ cpc = "returned"
    /\ cpc' = "join" /\ result' = "none"
    /\ before' = returned
    /\ UNCHANGED <<queue, pendingGap, lostRecs, clock, closed, stopping, overtaken,
                   prodVars, writerVars, prepVars>>

----------------------------------------------------------------------------
Write == (\E r \in Records : WriteCheck(r)) \/ WritePut \/ WriteFull \/ WriteLost
Prepare == PrepareStart \/ PreparePut \/ PrepareTimeout
Flush == FlushRead \/ (\E ok \in BOOLEAN : FlushSave(ok)) \/ FlushClear
Run == \/ WriterTest \/ WriterChoose \/ WriterGet \/ WriterEmpty
       \/ \E ok \in BOOLEAN : WriterPrepare(ok) \/ WriterOpen(ok) \/ WriterWrite(ok)
       \/ Flush \/ WriterLose \/ WriterExit
Closer == CloseMark \/ CloseStop \/ CloseWake \/ CloseJoin \/ CloseAgain

WriterNext == Tick \/ Write \/ Prepare \/ Run \/ Closer

\* Threads that have begun a call are scheduled until it returns; nothing
\* obliges the relay to write or to close.  Database calls return.
WriterFairness ==
    /\ WF_allVars(Run)
    /\ WF_allVars(WritePut \/ WriteFull \/ WriteLost)
    /\ WF_allVars(PreparePut)
    /\ WF_allVars(CloseStop \/ CloseWake)

WriterSpec == WriterInit /\ [][WriterNext]_allVars /\ WriterFairness

----------------------------------------------------------------------------
(* Properties                                                              *)

WriterTypeOK ==
    /\ queue \in Seq(Items) /\ Len(queue) <= Capacity
    /\ pendingGap \in Gaps \cup {NoGap} /\ gapRead \in Gaps \cup {NoGap}
    /\ lostRecs \subseteq Records /\ rows \subseteq Records /\ gaps \subseteq Gaps
    /\ begun \subseteq Records /\ returned \subseteq Records
    /\ before \subseteq Records /\ overtaken \subseteq Records
    /\ clock \in Nat
    /\ closed \in BOOLEAN /\ stopping \in BOOLEAN
    /\ preparing \in 0..1
    /\ prep \in {"idle", "putting", "waiting", "timeout", "done", "failed"}
    /\ store \in {"none", "open", "closed"}
    /\ ppc \in {"idle", "putting", "losing"} /\ rec \in Records \cup {NoRecord}
    /\ item \in Records \cup {Prep, NoRecord}
    /\ wpc \in {"test", "choose", "timed", "blocked", "open", "read", "save", "clear",
                "write", "lose", "exit", "exited"}
    /\ ctx \in {"none", "record", "retry", "final"}
    /\ cpc \in {"idle", "marked", "waking", "join", "returned"}
    /\ result \in {"none", "flushed", "incomplete"}

Queued(r) == \E i \in 1..Len(queue) : queue[i] = r
Covers(gap, r) == gap[1] <= Ts[r] /\ Ts[r] <= gap[2]
Stored(r) == r \in rows \/ \E g \in gaps : Covers(g, r)

\* run() has left its loop: what is put into the queue now is never read.
Leaving == wpc \in {"exit", "exited"} \/ (wpc \in {"read", "save", "clear"} /\ ctx = "final")

\* Every record whose write() has returned is in the database, inside an
\* interval that is saved or pending, in the writer's hands, or queued for a
\* writer that still reads: a full queue, a failed insert, a failed flush, a gap
\* that grows during its own flush and a close() at any moment (lost,
\* flush_gap, run, close) lose nothing silently.  The exception is the code's
\* own: write() tests closed before put_nowait and without the lock, so the one
\* write that close() overtook between the two may be left in a dead queue.
Accounted ==
    \A r \in returned :
        \/ Stored(r) \/ item = r
        \/ pendingGap # NoGap /\ Covers(pendingGap, r)
        \/ Queued(r) /\ (Leaving => r \in overtaken)

\* When a call of close(), the first or a later one, reports success, every
\* write that had returned before that call is in the database or inside a
\* saved gap, except an overtaken one that is still in the dead queue; the
\* receipt storage_flushed=True is written on the strength of it (managed_proxy).
CleanClose == result = "flushed" => \A r \in before : Stored(r) \/ (r \in overtaken /\ Queued(r))

\* close() ends the writer thread in every interleaving, whether the sentinel
\* found room or the queue was full ("keeps the draining writer awake").
CloseEndsWriter == (cpc = "join") ~> (wpc = "exited")

\* "only an unsaved gap needs a retry clock": a gap left pending by an idle
\* relay is tried again by the writer without waiting for the next record.
GapRetried ==
    (pendingGap # NoGap /\ wpc # "exited") ~> (wpc = "save" \/ wpc = "exited" \/ pendingGap = NoGap)

=============================================================================
