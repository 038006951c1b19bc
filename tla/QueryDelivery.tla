--------------------------- MODULE QueryDelivery ---------------------------
(***************************************************************************)
(* How a page query of the window is answered: AnalysisBridge, its mailbox *)
(* and its restarts (analysis_worker.py), the dispatcher of the analysis   *)
(* process (prepared_runtime.process_main), the demand it puts to the      *)
(* writer thread and the read actor that runs one query at a time          *)
(* (analysis_query_actor.py, prepared_query.py).                           *)
(*                                                                         *)
(* Two consumers share the page actor: queries, which wait for an          *)
(* aggregate publication and are bound to its generation, and pages of the *)
(* mismatch archive, which are not.  The actor of selected details is a    *)
(* second one of the same class and is left out.  Progress, rows and pages *)
(* of a publication are left out (SnapshotDelivery has them); a            *)
(* publication here is its generation and the query it is complete for.    *)
(* A lost or killed process stands for every way the child ends early.     *)
(***************************************************************************)
EXTENDS Integers, Sequences, FiniteSets, SequencesExt

CONSTANTS
    MaxQueries,      \* bound on queries the window asks
    MaxPages,        \* bound on archive pages it asks
    MaxActs,         \* bound on what the window asks or cancels together
    MaxGenerations,  \* bound on committed generations
    MaxFailures,     \* bound on actor failures, deaths of the child, partial collections and
                     \* publications that do not fit, together
    MaxChildren      \* children started after the first (2 in AnalysisBridge)

ASSUME QueryBounds ==
    {MaxQueries, MaxPages, MaxActs, MaxGenerations, MaxFailures, MaxChildren} \subseteq Nat

VARIABLES
    asked,     \* ids used so far: [query, page]
    last,      \* last_request, 0 for None
    openPage,  \* outstanding_mismatches, 0 for none
    mail,      \* the bridge's mailbox: pending query and the other commands
    bridge,    \* its phase and restart_count
    alive,     \* the child process lives
    toChild,   \* the connection, bridge to child
    toGui,     \* the connection, child to bridge
    D,         \* the dispatcher
    A,         \* the page actor
    demand,    \* PreparedWriter.aggregate, shared with the writer; 0 for None
    writer,    \* the writer thread
    gen,       \* generation of the prepared store
    output,    \* the writer's mailbox
    answered,  \* history: queries whose result or error the window received
    covered,   \* history: the first generation published complete for each query
    spare      \* what remains of MaxActs and MaxFaults

childVars == <<alive, toChild, toGui, D, A, demand, writer, output>>
queryVars == <<asked, last, openPage, mail, bridge, childVars, gen, answered, covered, spare>>

None == [kind |-> "none"]
Fatal == [kind |-> "fatal", consumer |-> "fatal", id |-> 0, token |-> 0]
Queries == 1..MaxQueries
Cmd(kind, id) == [kind |-> kind, id |-> id]

NewDispatcher == [pc |-> "wait", ready |-> {}, query |-> 0, page |-> 0, latest |-> 0,
                  aggregate |-> 0, blocked |-> 0, current |-> 0]
NewActor == [pending |-> <<>>, active |-> None, completed |-> <<>>, signalled |-> FALSE, stopping |-> FALSE]
(* token is the publisher's, blocked the generation of blocked_publication.  *)
FreshWriter == [pc |-> "top", take |-> FALSE, sync |-> FALSE, aggregate |-> 0, complete |-> FALSE,
                due |-> TRUE, token |-> 0, blocked |-> 0, request |-> 0]
-----------------------------------------------------------------------------
(* The window and the bridge's mailbox *)

(* s without the item at one of these indices; there is at most one. *)
Dropped(s, at) == IF at = {} THEN s ELSE RemoveAt(s, CHOOSE i \in at : TRUE)
Of(s, kind) == {i \in 1..Len(s) : s[i].kind = kind}
Without(s, kind) == Dropped(s, Of(s, kind))

(* enqueue_latest: one command per kind *)
Enqueue(cmds, c) == Append(Without(cmds, c.kind), c)

Act ==
    /\ spare.acts > 0
    /\ spare' = [spare EXCEPT !.acts = @ - 1]

(* AnalysisBridge.request *)
Request ==
    /\ asked.query < MaxQueries /\ Act
    /\ asked' = [asked EXCEPT !.query = @ + 1]
    /\ last' = asked'.query
    /\ mail' = [mail EXCEPT !.query = asked'.query]
    /\ UNCHANGED <<openPage, bridge, childVars, gen, answered, covered>>

(* cancel_queries, which the window calls when it leaves the analysis pages *)
CancelQueries ==
    /\ Act
    /\ last' = 0
    /\ mail' = [query |-> 0, cmds |-> Enqueue(mail.cmds, Cmd("close", 0))]
    /\ UNCHANGED <<asked, openPage, bridge, childVars, gen, answered, covered>>

(* request_mismatch_page *)
RequestPage ==
    /\ asked.page < MaxPages /\ Act
    /\ asked' = [asked EXCEPT !.page = @ + 1]
    /\ openPage' = asked'.page
    /\ mail' = [mail EXCEPT !.cmds = Enqueue(@, Cmd("page", asked'.page))]
    /\ UNCHANGED <<last, bridge, childVars, gen, answered, covered>>

(* request_snapshot, which the window offers once a publication has failed. *)
RequestSnapshot ==
    /\ writer.blocked # 0 /\ Act
    /\ mail' = [mail EXCEPT !.cmds = Enqueue(@, Cmd("sync", 0))]
    /\ UNCHANGED <<asked, last, openPage, bridge, childVars, gen, answered, covered>>

(* _send_commands: commands go before the pending query. *)
Send ==
    /\ bridge.phase = "running" /\ alive
    /\ \/ /\ mail.cmds # <<>>
          /\ toChild' = Append(toChild, Head(mail.cmds))
          /\ mail' = [mail EXCEPT !.cmds = Tail(@)]
       \/ /\ mail.cmds = <<>> /\ mail.query # 0
          /\ toChild' = Append(toChild, Cmd("query", mail.query))
          /\ mail' = [mail EXCEPT !.query = 0]
    /\ UNCHANGED <<asked, last, openPage, bridge, alive, toGui, D, A, demand, writer, gen, output,
                   answered, covered, spare>>

(* The bridge reads one message of the child; a fatal one ends its loop. *)
Deliver ==
    /\ bridge.phase = "running" /\ toGui # <<>>
    /\ toGui' = Tail(toGui)
    /\ LET m == Head(toGui)
       IN  /\ answered' = IF m.kind = "result" THEN answered \cup {m.id} ELSE answered
           /\ openPage' = IF m.kind = "page" /\ m.id = openPage THEN 0 ELSE openPage
           /\ bridge' = IF m.kind = "fatal" THEN [bridge EXCEPT !.phase = "ending"] ELSE bridge
    /\ UNCHANGED <<asked, last, mail, alive, toChild, D, A, demand, writer, gen, output, covered,
                   spare>>

(* What is issued again to a new child: the last query and the open page. *)
Reissued ==
    [query |-> last,
     cmds  |-> IF openPage = 0 THEN mail.cmds ELSE Enqueue(mail.cmds, Cmd("page", openPage))]

(* The child is gone: the bridge drops what it has not read, joins it and    *)
(* starts another until it has restarted too often.                          *)
RestartChild ==
    /\ ~alive /\ bridge.phase \in {"running", "ending"}
    /\ bridge' = [phase |-> IF bridge.restarts < MaxChildren THEN "running" ELSE "over",
                  restarts |-> bridge.restarts + 1]
    /\ alive' = (bridge.restarts < MaxChildren)
    /\ mail' = IF bridge.restarts < MaxChildren THEN Reissued ELSE mail
    /\ toChild' = <<>> /\ toGui' = <<>>
    /\ D' = NewDispatcher /\ A' = NewActor /\ writer' = FreshWriter /\ demand' = 0 /\ output' = None
    /\ UNCHANGED <<asked, last, openPage, gen, answered, covered, spare>>
-----------------------------------------------------------------------------
(* The read actor *)

(* MUTANT: a completion is kept when its query is cancelled. *)
Cancelled_completedKept(a, kind) ==
    [a EXCEPT !.pending = Without(@, kind),
              !.active = IF @.kind = kind THEN [@ EXCEPT !.cancel = TRUE] ELSE @]

(* cancel(kind): nothing of that kind stays pending or completed, and a read *)
(* of it is stopped.                                                         *)
Cancelled(a, kind) ==
    [a EXCEPT !.pending = Without(@, kind),
              !.completed = Dropped(@, {i \in 1..Len(@) : @[i].consumer = kind}),
              !.active = IF @.kind = kind THEN [@ EXCEPT !.cancel = TRUE] ELSE @]

(* submit: the newest of its kind replaces what it had.  A read of the same  *)
(* kind is cancelled, so the serial numbers of the code say no more here.    *)
Submitted(a, kind, id, token) ==
    LET c == Cancelled(a, kind)
    IN  [c EXCEPT !.pending = Append(@, [kind |-> kind, id |-> id, token |-> token])]

(* _run takes the oldest request.  A query pins the generation it was given, *)
(* which must be the current one.                                            *)
ActorStart ==
    /\ alive /\ ~A.stopping /\ A.active.kind = "none" /\ A.pending # <<>>
    /\ A' = LET job == Head(A.pending)
            IN  [A EXCEPT !.pending = Tail(@),
                          !.active = [kind |-> job.kind, id |-> job.id, token |-> job.token,
                                      cancel |-> FALSE, pinned |-> job.token = gen]]
    /\ UNCHANGED <<asked, last, openPage, mail, bridge, alive, toChild, toGui, D, demand, writer,
                   gen, output, answered, covered, spare>>

(* A result stands for an error of the query too. *)
Outcome(job) ==
    CASE job.kind = "page" -> "page"
      [] job.kind = "query" /\ job.pinned -> "result"
      [] OTHER -> "stale"

(* The read ends; a cancelled one leaves nothing, another completes and      *)
(* wakes the dispatcher once.                                                *)
ActorFinish ==
    /\ alive /\ ~A.stopping /\ A.active.kind # "none"
    /\ A' = LET m == [kind |-> Outcome(A.active), consumer |-> A.active.kind,
                      id |-> A.active.id, token |-> A.active.token]
            IN  IF A.active.cancel THEN [A EXCEPT !.active = None]
                ELSE [A EXCEPT !.active = None, !.completed = Append(@, m), !.signalled = TRUE]
    /\ UNCHANGED <<asked, last, openPage, mail, bridge, alive, toChild, toGui, D, demand, writer,
                   gen, output, answered, covered, spare>>

FaultStrikes ==
    /\ spare.faults > 0
    /\ spare' = [spare EXCEPT !.faults = @ - 1]

(* _failed: the actor stops and says so. *)
ActorFails ==
    /\ alive /\ ~A.stopping /\ FaultStrikes
    /\ A' = [NewActor EXCEPT !.completed = <<Fatal>>,
                             !.signalled = TRUE, !.stopping = TRUE]
    /\ UNCHANGED <<asked, last, openPage, mail, bridge, alive, toChild, toGui, D, demand, writer,
                   gen, output, answered, covered>>
-----------------------------------------------------------------------------
(* The dispatcher: one round handles what was ready when it began. *)

Ready ==
    (IF toChild # <<>> THEN {"command"} ELSE {}) \cup (IF output.kind # "none" THEN {"output"} ELSE {})
        \cup (IF A.signalled THEN {"actor"} ELSE {})

Wake ==
    /\ alive /\ D.pc = "wait" /\ Ready # {}
    /\ D' = [D EXCEPT !.pc = "commands", !.ready = Ready]
    /\ UNCHANGED <<asked, last, openPage, mail, bridge, alive, toChild, toGui, A, demand, writer,
                   gen, output, answered, covered, spare>>

(* PreparedWriter.set_aggregate.  A demand the writer has not taken is the    *)
(* one whose revision it does not know.                                      *)
SetAggregate(id) ==
    /\ demand' = id
    /\ writer' = [writer EXCEPT !.take = TRUE]

Command ==
    /\ alive /\ D.pc = "commands" /\ "command" \in D.ready /\ toChild # <<>>
    /\ toChild' = Tail(toChild)
    /\ LET c == Head(toChild)
       IN  \/ /\ c.kind = "close"
              /\ SetAggregate(0)
              /\ A' = Cancelled(A, "query")
              /\ D' = [D EXCEPT !.query = 0, !.latest = 0, !.aggregate = 0]
           \/ /\ c.kind = "query"
              /\ SetAggregate(c.id)
              /\ A' = Cancelled(A, "query")
              /\ D' = [D EXCEPT !.query = c.id, !.latest = c.id, !.blocked = 0]
           \/ /\ c.kind = "page"
              /\ D' = [D EXCEPT !.page = c.id]
              /\ UNCHANGED <<A, demand, writer>>
           \/ /\ c.kind = "sync"
              /\ writer' = [writer EXCEPT !.sync = TRUE]
              /\ UNCHANGED <<A, D, demand>>
    /\ UNCHANGED <<asked, last, openPage, mail, bridge, alive, toGui, gen, output, answered,
                   covered, spare>>

(* A publication names the generation queries are bound to from now on. *)
Informed(d) ==
    IF "output" \in d.ready THEN [d EXCEPT !.current = output.token, !.aggregate = output.request] ELSE d

(* MUTANT: a stale answer is dropped. *)
Retried_never(d, m) == d

(* A stale answer of the latest query is asked again, of a later generation. *)
Retried(d, m) ==
    IF d.latest # 0 /\ d.latest = m.id THEN [d EXCEPT !.query = m.id, !.blocked = m.token] ELSE d

Drained(d, done) ==
    LET stale == Of(done, "stale")
    IN  IF stale = {} THEN d ELSE Retried(d, done[CHOOSE i \in stale : TRUE])

(* MUTANT: any publication lets a query run. *)
Dispatchable_anyPublication(d) == d.query # 0 /\ d.current # 0 /\ d.blocked # d.current

(* Whether the pending query may be given to the actor. *)
Dispatchable(d) ==
    d.query # 0 /\ d.current # 0 /\ d.aggregate = d.query /\ d.blocked # d.current

(* The rest of a round, once the commands are read: take the publication,    *)
(* drain the actor, send its answers (a fatal one ends the child) and give   *)
(* it the pending requests.  What the other threads do in between was not    *)
(* ready when the round began and is found by the next one.                  *)
Round ==
    /\ alive /\ D.pc = "commands" /\ ("command" \notin D.ready \/ toChild = <<>>)
    /\ LET done == IF "actor" \in D.ready THEN A.completed ELSE <<>>
           a == IF "actor" \in D.ready THEN [A EXCEPT !.completed = <<>>, !.signalled = FALSE] ELSE A
           d == Drained(Informed(D), done)
           b == IF d.page = 0 THEN a ELSE Submitted(a, "page", d.page, 0)
           \* submit raises once the actor has stopped, which ends the child too
           raises == A.stopping /\ done = <<>> /\ (d.page # 0 \/ Dispatchable(d))
       IN  /\ toGui' = toGui \o IF raises THEN <<Fatal>> ELSE Without(done, "stale")
           /\ alive' = ~(raises \/ \E i \in 1..Len(done) : done[i].kind = "fatal")
           /\ A' = IF Dispatchable(d) THEN Submitted(b, "query", d.query, d.current) ELSE b
           /\ D' = [d EXCEPT !.pc = "wait", !.ready = {}, !.page = 0,
                             !.query = IF Dispatchable(d) THEN 0 ELSE @]
    /\ output' = IF "output" \in D.ready THEN None ELSE output
    /\ UNCHANGED <<asked, last, openPage, mail, bridge, toChild, demand, writer, gen, answered,
                   covered, spare>>

(* The process dies, or the writer thread fails and ends it. *)
ChildDies ==
    /\ alive /\ FaultStrikes
    /\ alive' = FALSE
    /\ UNCHANGED <<asked, last, openPage, mail, bridge, toChild, toGui, D, A, demand, writer, gen,
                   output, answered, covered>>
-----------------------------------------------------------------------------
(* The writer *)

(* MUTANT: a block outlives the generation it is of. *)
Unblocked_never(w) == w.blocked = 0

(* The publication of this generation has not failed. *)
Unblocked(w) == w.blocked # gen

(* publish() does nothing while the publisher is behind the store, or while  *)
(* the publication of this generation is blocked.                            *)
Publishable(w) == w.token # 0 /\ w.token = gen /\ Unblocked(w)

(* A request for a snapshot lifts the block, publishes and is due again. *)
TakeResync ==
    /\ alive /\ writer.pc = "top" /\ writer.sync
    /\ writer' = LET w == [writer EXCEPT !.sync = FALSE, !.blocked = 0, !.due = TRUE]
                 IN  [w EXCEPT !.pc = IF Publishable(w) THEN "publish" ELSE "top"]
    /\ UNCHANGED <<asked, last, openPage, mail, bridge, alive, toChild, toGui, D, A, demand, gen,
                   output, answered, covered, spare>>

(* The writer takes the demand; a complete snapshot serves it at once,       *)
(* unless its publication is blocked.                                        *)
TakeDemand ==
    /\ alive /\ writer.pc = "top" /\ writer.take /\ ~writer.sync
    /\ writer' = LET w == [writer EXCEPT !.take = FALSE, !.aggregate = demand, !.due = TRUE]
                 IN  IF demand # 0 /\ writer.complete
                     THEN [w EXCEPT !.request = demand,
                                    !.pc = IF Publishable(w) THEN "publish" ELSE "top"]
                     ELSE w
    /\ UNCHANGED <<asked, last, openPage, mail, bridge, alive, toChild, toGui, D, A, demand, gen,
                   output, answered, covered, spare>>

(* A poll commits what the source changed; a demand that changes meanwhile   *)
(* interrupts it, before or after a commit, and it is due again.             *)
Commit ==
    /\ alive /\ writer.pc = "top" /\ ~writer.take /\ ~writer.sync /\ gen < MaxGenerations
    /\ gen' = gen + 1
    /\ writer' = [writer EXCEPT !.pc = "converted", !.due = TRUE]
    /\ UNCHANGED <<asked, last, openPage, mail, bridge, alive, toChild, toGui, D, A, demand,
                   output, answered, covered, spare>>

Interrupt ==
    /\ alive /\ writer.pc = "converted" /\ writer.take
    /\ writer' = [writer EXCEPT !.pc = "top", !.due = TRUE]
    /\ UNCHANGED <<asked, last, openPage, mail, bridge, alive, toChild, toGui, D, A, demand, gen,
                   output, answered, covered, spare>>

(* install_prepared: the generation is adopted for the demand the writer     *)
(* knows; it answers it once the whole aggregate is collected.  What does    *)
(* not fit in the publisher's budget leaves it behind, and blocked.          *)
InstallPrepared(complete, fits) ==
    /\ alive /\ gen > 0
    /\ \/ writer.pc = "converted"
       \/ writer.pc = "top" /\ ~writer.take /\ ~writer.sync /\ writer.due
    /\ complete => writer.aggregate # 0
    /\ fits \/ Unblocked(writer)
    /\ IF fits /\ (complete \/ writer.aggregate = 0) THEN UNCHANGED spare ELSE FaultStrikes
    /\ LET adopts == fits /\ Unblocked(writer)
       IN  writer' = [writer EXCEPT !.pc = IF adopts THEN "publish" ELSE "top",
                                    !.token = IF adopts THEN gen ELSE @,
                                    !.blocked = IF fits THEN @ ELSE gen,
                                    !.complete = complete,
                                    !.request = IF complete THEN writer.aggregate ELSE 0,
                                    !.due = (writer.aggregate # 0 /\ ~complete)]
    /\ UNCHANGED <<asked, last, openPage, mail, bridge, alive, toChild, toGui, D, A, demand, gen,
                   output, answered, covered>>

(* The publication enters the mailbox once the dispatcher took the last one. *)
PublishAggregate ==
    /\ alive /\ writer.pc = "publish" /\ output.kind = "none"
    /\ output' = [kind |-> "snapshot", token |-> writer.token, request |-> writer.request]
    /\ writer' = [writer EXCEPT !.pc = "top"]
    /\ covered' = IF writer.request # 0 /\ covered[writer.request] = 0
                  THEN [covered EXCEPT ![writer.request] = writer.token] ELSE covered
    /\ UNCHANGED <<asked, last, openPage, mail, bridge, alive, toChild, toGui, D, A, demand, gen,
                   answered, spare>>

(* publication_failed: pages put before do not count, since the dispatcher   *)
(* looks at the last one only, and the error tells it nothing.               *)
PublicationFails ==
    /\ alive /\ writer.pc = "publish" /\ FaultStrikes
    /\ writer' = [writer EXCEPT !.pc = "top", !.blocked = gen]
    /\ UNCHANGED <<asked, last, openPage, mail, bridge, alive, toChild, toGui, D, A, demand, gen,
                   output, answered, covered>>
-----------------------------------------------------------------------------
QueryInit ==
    /\ asked = [query |-> 0, page |-> 0] /\ last = 0 /\ openPage = 0
    /\ mail = [query |-> 0, cmds |-> <<>>] /\ bridge = [phase |-> "running", restarts |-> 0]
    /\ alive = TRUE /\ toChild = <<>> /\ toGui = <<>>
    /\ D = NewDispatcher /\ A = NewActor /\ demand = 0 /\ writer = FreshWriter
    /\ gen = 0 /\ output = None /\ answered = {} /\ covered = [q \in Queries |-> 0]
    /\ spare = [acts |-> MaxActs, faults |-> MaxFailures]

QueryNext ==
    \/ Request \/ CancelQueries \/ RequestPage \/ RequestSnapshot \/ Send \/ Deliver \/ RestartChild
    \/ ActorStart \/ ActorFinish \/ ActorFails
    \/ Wake \/ Command \/ Round \/ ChildDies
    \/ TakeResync \/ TakeDemand \/ Commit \/ Interrupt \/ PublishAggregate \/ PublicationFails
    \/ \E complete, fits \in BOOLEAN : InstallPrepared(complete, fits)

(* Every thread keeps running and a read ends; the window, the source and    *)
(* the faults need not act.  The first generation is committed.              *)
QueryFairness ==
    /\ WF_queryVars(Send) /\ WF_queryVars(Deliver) /\ WF_queryVars(RestartChild)
    /\ WF_queryVars(ActorStart) /\ WF_queryVars(ActorFinish)
    /\ WF_queryVars(Wake \/ Command \/ Round)
    /\ WF_queryVars(\/ TakeResync \/ TakeDemand \/ Interrupt \/ PublishAggregate
                    \/ InstallPrepared(TRUE, TRUE) \/ InstallPrepared(FALSE, TRUE)
                    \/ gen = 0 /\ Commit)

QuerySpec == QueryInit /\ [][QueryNext]_queryVars /\ QueryFairness
-----------------------------------------------------------------------------
(* Every variable keeps its type. *)
QueryTypeOK ==
    /\ asked.query \in 0..MaxQueries /\ asked.page \in 0..MaxPages
    /\ {last, mail.query, D.query, D.latest, D.aggregate, writer.aggregate, writer.request, demand}
           \subseteq 0..MaxQueries
    /\ {openPage, D.page} \subseteq 0..MaxPages
    /\ {gen, D.current, D.blocked, writer.token, writer.blocked} \subseteq 0..MaxGenerations
    /\ bridge.phase \in {"running", "ending", "over"} /\ bridge.restarts \in 0..MaxChildren + 1
    /\ D.pc \in {"wait", "commands"}
    /\ writer.pc \in {"top", "converted", "publish"}
    /\ A.active.kind \in {"none", "query", "page"}
    /\ \A i, j \in 1..Len(A.pending) : A.pending[i].kind = A.pending[j].kind => i = j
    /\ Len(A.completed) <= 2 /\ Len(mail.cmds) <= 3
    /\ answered \subseteq Queries
    /\ {alive, A.signalled, A.stopping, writer.take, writer.sync, writer.due} \subseteq BOOLEAN

(* The child never sends the answer of a query it knows to be superseded or  *)
(* cancelled, however late the read that made it ends.                       *)
NoObsoleteAnswer ==
    [][\A i \in Len(toGui) + 1..Len(toGui') :
          toGui'[i].kind = "result" => toGui'[i].id = D'.latest]_queryVars

(* A result is computed from a generation that was published complete for    *)
(* its query, or from a later one.                                           *)
ResultsCovered ==
    \A i \in 1..Len(toGui) :
        toGui[i].kind = "result" =>
            covered[toGui[i].id] # 0 /\ toGui[i].token >= covered[toGui[i].id]

(* The publication of the current generation did not fit in its budget. *)
PublicationBlocked == gen # 0 /\ writer.blocked = gen

(* What the window asked last is answered, across stale generations, partial *)
(* collections and restarts, unless it is replaced or the bridge gives up:   *)
(* the last query, and the last archive page, although they share the actor. *)
(* A query has no answer while the publication stays blocked, for want of    *)
(* memory: only a later generation or the user's new try lifts the block.    *)
LastAskedAnswered ==
    /\ \A q \in Queries :
          \/ last = q ~> (q \in answered \/ last # q \/ bridge.phase = "over")
          \/ <>[]PublicationBlocked
    /\ \A p \in 1..MaxPages : openPage = p ~> (openPage # p \/ bridge.phase = "over")
=============================================================================
