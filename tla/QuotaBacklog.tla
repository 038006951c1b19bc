---------------------------- MODULE QuotaBacklog ----------------------------
(***************************************************************************)
(* Quota observations on their way to the ledger: ObservationBacklog       *)
(* (quota_backlog.py) and the parts of QuotaService (quota_service.py)     *)
(* that feed and drain it.                                                 *)
(*                                                                         *)
(* Two threads share the backlog: the GUI thread (supply_local and the two *)
(* switches, each one region under ingress_lock) and the service thread    *)
(* (save_pending, the account fetch, the shutdown).  Every method of the   *)
(* backlog is one region under its RLock.  The pending table and the       *)
(* ledger are durable; the unsaved slot and the reservation die with the   *)
(* process.  An item is its place in the order of the append calls, its    *)
(* kind, the switch position it carries and its encoded size.              *)
(***************************************************************************)
EXTENDS Integers, Sequences, FiniteSets

CONSTANTS
    MaxItems,       \* MAX_ITEMS
    ControlReserve, \* CONTROL_RESERVE
    MaxBytes,       \* MAX_BYTES
    ReserveBytes,   \* OBSERVATION_RESERVE_BYTES
    ReplySizes,     \* encoded sizes of an account reply
    MaxGui,         \* bound: calls from the GUI thread
    MaxFetches,     \* bound: account fetches
    MaxRuns         \* bound: processes

ASSUME BudgetAssumption ==
    /\ MaxItems \in Nat \ {0} /\ ControlReserve \in Nat
    /\ MaxBytes \in Nat \ {0} /\ ReserveBytes \in Nat \ {0}
    /\ ReplySizes \subseteq Nat
ASSUME BoundAssumption == MaxGui \in Nat /\ MaxFetches \in Nat /\ MaxRuns \in Nat \ {0}

VARIABLES
    pending,    \* the pending table, in the order of its autoincrement key
    budget,     \* the budget row, kept by the two triggers
    unsaved,    \* self.unsaved
    reserved,   \* self._fetch_reserved
    applied,    \* the items whose effects the ledger has committed
    ledgerOn,   \* the last tracking_controls row
    tracking, paused,   \* tracking_enabled, paused
    stale,      \* monitoring_revision differs from the revision of this loop
    obsIssue, ctlIssue, \* observation_issue, control_issue are set
    ingressClosed, stopReq,
    pc, after, entry, atRequest, \* the service thread and its locals
    calls,      \* append calls so far: the identity of the next item
    accepted,   \* history: items append() returned True for
    gone,       \* history: items the slot held when the process ended
    gui, fetches, run

slotVars == <<unsaved, reserved>>
tableVars == <<pending, budget>>
ledgerVars == <<applied, ledgerOn>>
switchVars == <<tracking, paused, stale>>
issueVars == <<obsIssue, ctlIssue>>
stopVars == <<ingressClosed, stopReq>>
localVars == <<pc, after, entry, atRequest>>
histVars == <<calls, accepted, gone>>
boundVars == <<gui, fetches, run>>
vars == <<tableVars, slotVars, ledgerVars, switchVars, issueVars, stopVars, localVars,
          histVars, boundVars>>

Kinds == {"control", "local", "quota", "failure"}
Item == [id: Nat, kind: Kinds, on: BOOLEAN, size: Nat]
NoItem == [id |-> 0, kind |-> "failure", on |-> FALSE, size |-> 0]

Init ==
    /\ pending = <<>> /\ budget = [items |-> 0, bytes |-> 0]
    /\ unsaved = NoItem /\ reserved = FALSE
    /\ applied = {} /\ ledgerOn = FALSE
    /\ tracking = FALSE /\ paused = FALSE /\ stale = FALSE
    /\ obsIssue = FALSE /\ ctlIssue = FALSE /\ ingressClosed = TRUE /\ stopReq = FALSE
    /\ pc = "off" /\ after = "top" /\ entry = NoItem /\ atRequest = FALSE
    /\ calls = 0 /\ accepted = {} /\ gone = {}
    /\ gui = 0 /\ fetches = 0 /\ run = 0

----------------------------------------------------------------------------
(* ObservationBacklog                                                       *)

\* _store refuses a row over the budget; controls have a reserve of their own.
Full(i) ==
    LET reserve == IF i.kind = "control" THEN ControlReserve ELSE 0
    IN  \/ budget.items >= MaxItems + reserve
        \/ budget.bytes + i.size > MaxBytes + reserve * ReserveBytes

\* Mutant: the trigger pending_added is missing.
Insert_untracked(i) == pending' = Append(pending, i) /\ UNCHANGED budget

\* _store's insert, with the trigger pending_added.
Insert(i) ==
    /\ pending' = Append(pending, i)
    /\ budget' = [items |-> budget.items + 1, bytes |-> budget.bytes + i.size]

NewItem(kind, on, size) == [id |-> calls + 1, kind |-> kind, on |-> on, size |-> size]

\* The slot may take the reply of a reserved fetch that the budget refuses.
Admitted(i) == reserved /\ i.kind \in {"quota", "failure"}

\* Mutant: a row may pass the item that waits in the slot.
Takes_overtakes(i, ok) ==
    IF unsaved = NoItem THEN ~ok \/ ~Full(i) \/ (Admitted(i) /\ i.size <= MaxBytes)
    ELSE ok /\ ~Full(i)

\* What append() returns; ok is FALSE when SQLite or the file system fails.
Takes(i, ok) ==
    /\ unsaved = NoItem
    /\ ~ok \/ ~Full(i) \/ (Admitted(i) /\ i.size <= MaxBytes)

append(i, ok) ==
    /\ calls' = calls + 1
    /\ reserved' = (reserved /\ i.kind \notin {"quota", "failure"})
    /\ accepted' = IF Takes(i, ok) THEN accepted \cup {i.id} ELSE accepted
    /\ IF Takes(i, ok) /\ ok /\ ~Full(i)
       THEN Insert(i) /\ UNCHANGED unsaved
       ELSE /\ unsaved' = IF Takes(i, ok) THEN i ELSE unsaved
            /\ UNCHANGED tableVars
    /\ UNCHANGED gone

\* flush(): the slot's item moves to the table, or stays.
flush(ok) ==
    IF unsaved # NoItem /\ ok /\ ~Full(unsaved)
    THEN Insert(unsaved) /\ unsaved' = NoItem
    ELSE UNCHANGED <<unsaved, tableVars>>

\* available(), after its flush.
Room == /\ unsaved' = NoItem
        /\ budget'.items < MaxItems
        /\ budget'.bytes + ReserveBytes <= MaxBytes

----------------------------------------------------------------------------
(* The GUI thread: each call holds ingress_lock                             *)

GuiCall == pc # "off" /\ ~ingressClosed /\ gui < MaxGui /\ gui' = gui + 1
guiFrame == UNCHANGED <<ledgerVars, stopVars, localVars, fetches, run>>

supply_local(ok) ==
    LET i == NewItem("local", FALSE, 1) IN
    /\ GuiCall /\ tracking /\ ~paused
    /\ append(i, ok)
    /\ obsIssue' = (obsIssue \/ ~Takes(i, ok))
    /\ UNCHANGED <<ctlIssue, switchVars>> /\ guiFrame

\* Mutant: the control row forgets the pause.
set_tracking_enabled_plain(on, ok) ==
    LET i == NewItem("control", on, 0) IN
    /\ GuiCall
    /\ append(i, ok)
    /\ ctlIssue' = ~Takes(i, ok)
    /\ tracking' = IF Takes(i, ok) THEN on ELSE tracking
    /\ UNCHANGED <<obsIssue, paused, stale>> /\ guiFrame

\* A refused control leaves the switch as it was.
set_tracking_enabled(on, ok) ==
    LET i == NewItem("control", on /\ ~paused, 0) IN
    /\ GuiCall
    /\ append(i, ok)
    /\ ctlIssue' = ~Takes(i, ok)
    /\ tracking' = IF Takes(i, ok) THEN on ELSE tracking
    /\ UNCHANGED <<obsIssue, paused, stale>> /\ guiFrame

set_paused(p, ok) ==
    LET i == NewItem("control", tracking /\ ~p, 0) IN
    /\ GuiCall /\ p # paused
    /\ append(i, ok)
    /\ ctlIssue' = ~Takes(i, ok)
    /\ paused' = IF Takes(i, ok) THEN p ELSE paused
    /\ stale' = (stale \/ Takes(i, ok))
    /\ UNCHANGED <<obsIssue, tracking>> /\ guiFrame

\* stop(): no more ingress; the thread is asked to end.
stop ==
    /\ pc # "off" /\ ~stopReq
    /\ ingressClosed' = TRUE /\ stopReq' = TRUE
    /\ UNCHANGED <<tableVars, slotVars, ledgerVars, switchVars, issueVars, localVars, histVars, boundVars>>

----------------------------------------------------------------------------
(* The process                                                              *)

\* QuotaService.__init__: the positions come from the preferences.
Start(on, p, ok) ==
    LET i == NewItem("control", on /\ ~p, 0) IN
    /\ pc = "off" /\ run < MaxRuns /\ run' = run + 1
    /\ tracking' = on /\ paused' = p /\ stale' = FALSE
    /\ append(i, ok)
    /\ ctlIssue' = ~Takes(i, ok) /\ obsIssue' = FALSE
    /\ ingressClosed' = FALSE /\ stopReq' = FALSE
    /\ pc' = "top" /\ after' = "top" /\ entry' = NoItem /\ atRequest' = FALSE
    /\ UNCHANGED <<ledgerVars, gui, fetches>>

\* The process ends, after the shutdown or in the middle of anything.
Exit ==
    /\ pc # "off"
    /\ pc' = "off" /\ after' = "top" /\ entry' = NoItem /\ atRequest' = FALSE
    /\ gone' = IF unsaved # NoItem THEN gone \cup {unsaved.id} ELSE gone
    /\ unsaved' = NoItem /\ reserved' = FALSE /\ ingressClosed' = TRUE /\ stopReq' = FALSE
    /\ tracking' = FALSE /\ paused' = FALSE /\ stale' = FALSE /\ obsIssue' = FALSE /\ ctlIssue' = FALSE
    /\ UNCHANGED <<tableVars, ledgerVars, calls, accepted, boundVars>>

----------------------------------------------------------------------------
(* The service thread                                                       *)

LoopTop ==
    /\ pc = "top"
    /\ pc' = IF stopReq THEN "closing" ELSE "save"
    /\ after' = "observe"
    /\ stale' = FALSE
    /\ ingressClosed' = (ingressClosed \/ stopReq)
    /\ UNCHANGED <<tableVars, slotVars, ledgerVars, tracking, paused, issueVars, stopReq,
                   entry, atRequest, histVars, boundVars>>

\* save_pending(): the oldest row, or the slot once the table is empty.
First ==
    /\ pc = "save"
    /\ entry' = IF pending # <<>> THEN Head(pending) ELSE unsaved
    /\ entry' # NoItem
    /\ pc' = "apply"
    /\ UNCHANGED <<tableVars, slotVars, ledgerVars, switchVars, issueVars, stopVars, after,
                   atRequest, histVars, boundVars>>

\* Nothing is left, the batch or its deadline is used up, the ledger is
\* backing off, or the table cannot be read.
SaveEnd ==
    /\ pc = "save"
    /\ pc' = after
    /\ UNCHANGED <<tableVars, slotVars, ledgerVars, switchVars, issueVars, stopVars, after, entry,
                   atRequest, histVars, boundVars>>

\* Mutant: whatever is first is removed before its effects are committed.
Apply_ackFirst(ok) ==
    /\ pc = "apply"
    /\ applied' = IF ok THEN applied \cup {entry.id} ELSE applied
    /\ ledgerOn' = IF ok /\ entry.kind = "control" THEN entry.on ELSE ledgerOn
    /\ pc' = IF ok THEN "ack" ELSE after
    /\ entry' = IF ok THEN entry ELSE NoItem
    /\ IF pending # <<>>
       THEN /\ pending' = Tail(pending)
            /\ budget' = [items |-> budget.items - 1, bytes |-> budget.bytes - entry.size]
       ELSE UNCHANGED tableVars
    /\ UNCHANGED <<slotVars, switchVars, issueVars, stopVars, after, atRequest, histVars, boundVars>>

\* The effects are committed to the ledger, or rolled back.
Apply(ok) ==
    /\ pc = "apply"
    /\ applied' = IF ok THEN applied \cup {entry.id} ELSE applied
    /\ ledgerOn' = IF ok /\ entry.kind = "control" THEN entry.on ELSE ledgerOn
    /\ pc' = IF ok THEN "ack" ELSE after
    /\ entry' = IF ok THEN entry ELSE NoItem
    /\ UNCHANGED <<tableVars, slotVars, switchVars, issueVars, stopVars, after, atRequest,
                   histVars, boundVars>>

\* acknowledge(sequence): deletes the row with that key, which is the first,
\* with the trigger pending_removed; acknowledge(None) empties the slot.
acknowledge(ok) ==
    /\ pc = "ack"
    /\ IF pending # <<>> /\ Head(pending) = entry
       THEN /\ IF ok
               THEN /\ pending' = Tail(pending)
                    /\ budget' = [items |-> budget.items - 1, bytes |-> budget.bytes - entry.size]
               ELSE UNCHANGED tableVars
            /\ pc' = IF ok THEN "save" ELSE after
            /\ UNCHANGED unsaved
       ELSE /\ unsaved' = NoItem /\ pc' = "save" /\ UNCHANGED tableVars
    /\ entry' = NoItem
    /\ UNCHANGED <<reserved, ledgerVars, switchVars, issueVars, stopVars, after, atRequest,
                   histVars, boundVars>>

\* Is a fetch due, and is it for tracking?  Read under ingress_lock.
Observe(due) ==
    /\ pc = "observe"
    /\ due => ~obsIssue /\ ~ctlIssue /\ fetches < MaxFetches
    /\ atRequest' = (tracking /\ ~paused)
    /\ pc' = IF due THEN "reserve" ELSE "save"
    /\ after' = "top"
    /\ UNCHANGED <<tableVars, slotVars, ledgerVars, switchVars, issueVars, stopVars, entry,
                   histVars, boundVars>>

\* reserve_fetch(): flush, then room for one more observation.
reserve_fetch(ok) ==
    /\ pc = "reserve"
    /\ fetches' = fetches + 1
    /\ IF ~atRequest
       THEN pc' = "fetch" /\ UNCHANGED <<reserved, unsaved, tableVars>>
       ELSE IF reserved
       THEN pc' = "save" /\ UNCHANGED <<reserved, unsaved, tableVars>>
       ELSE /\ flush(ok)
            /\ reserved' = (ok /\ Room)
            /\ pc' = IF reserved' THEN "fetch" ELSE "save"
    /\ UNCHANGED <<ledgerVars, switchVars, issueVars, stopVars, after, entry, atRequest,
                   histVars, gui, run>>

\* Mutant: the abandoned fetch keeps its reservation.
Cancel_leaks ==
    /\ pc' = "top"
    /\ UNCHANGED <<tableVars, slotVars, obsIssue, histVars>>

\* cancel_fetch(): monitoring changed while the fetch was under way.
Cancel ==
    /\ reserved' = FALSE /\ pc' = "top"
    /\ UNCHANGED <<tableVars, unsaved, obsIssue, histVars>>

\* Append the reply or the failure of a tracked fetch.
Record(i, ok) ==
    /\ IF atRequest
       THEN append(i, ok) /\ obsIssue' = (obsIssue \/ ~Takes(i, ok))
       ELSE UNCHANGED <<tableVars, slotVars, obsIssue, histVars>>
    /\ pc' = "save"

serviceFrame == UNCHANGED <<ledgerVars, switchVars, ctlIssue, stopVars, after, entry, atRequest, boundVars>>

\* The reply arrives: the revision is compared under ingress_lock.
FetchReply(size, ok) ==
    /\ pc = "fetch"
    /\ IF stale THEN Cancel ELSE Record(NewItem("quota", FALSE, size), ok)
    /\ serviceFrame

\* The fetch raises: the revision is compared without the lock, before the
\* failure is recorded.
FetchRaise ==
    /\ pc = "fetch"
    /\ IF stale THEN Cancel
       ELSE pc' = "failure" /\ UNCHANGED <<tableVars, slotVars, obsIssue, histVars>>
    /\ serviceFrame

RecordFailure(ok) ==
    /\ pc = "failure"
    /\ Record(NewItem("failure", FALSE, 0), ok)
    /\ serviceFrame

\* run()'s finally clause: ObservationBacklog.close.
Close(ok) ==
    /\ pc = "closing"
    /\ flush(ok)
    /\ reserved' = FALSE /\ pc' = "closed"
    /\ UNCHANGED <<ledgerVars, switchVars, issueVars, stopVars, after, entry, atRequest,
                   histVars, boundVars>>

----------------------------------------------------------------------------
Gui == \/ \E ok \in BOOLEAN : supply_local(ok)
       \/ \E on, ok \in BOOLEAN : set_tracking_enabled(on, ok) \/ set_paused(on, ok)
       \/ stop
Fetch == \/ \E due \in BOOLEAN : Observe(due)
         \/ \E ok \in BOOLEAN : reserve_fetch(ok) \/ RecordFailure(ok)
         \/ \E size \in ReplySizes, ok \in BOOLEAN : FetchReply(size, ok)
         \/ FetchRaise
Service == \/ LoopTop \/ First \/ SaveEnd \/ Fetch
           \/ \E ok \in BOOLEAN : Apply(ok) \/ acknowledge(ok) \/ Close(ok)
Process == Exit \/ \E on, p, ok \in BOOLEAN : Start(on, p, ok)

Next == Gui \/ Service \/ Process

\* The service thread runs, the back-off ends, and storage does not fail for
\* ever.  Nothing obliges the GUI to act, or the process to end or to start.
Fairness ==
    /\ WF_vars(Service)
    /\ SF_vars(First)
    /\ SF_vars(Apply(TRUE))
    /\ SF_vars(acknowledge(TRUE))

Spec == Init /\ [][Next]_vars /\ Fairness

----------------------------------------------------------------------------
(* Properties                                                               *)

TypeOK ==
    /\ pending \in Seq(Item) /\ budget \in [items: Nat, bytes: Nat]
    /\ unsaved \in Item /\ entry \in Item
    /\ reserved \in BOOLEAN /\ ledgerOn \in BOOLEAN
    /\ tracking \in BOOLEAN /\ paused \in BOOLEAN /\ stale \in BOOLEAN
    /\ obsIssue \in BOOLEAN /\ ctlIssue \in BOOLEAN
    /\ ingressClosed \in BOOLEAN /\ stopReq \in BOOLEAN /\ atRequest \in BOOLEAN
    /\ pc \in {"off", "top", "save", "apply", "ack", "observe", "reserve", "fetch", "failure",
               "closing", "closed"}
    /\ after \in {"top", "observe"}
    /\ applied \subseteq Nat /\ accepted \subseteq Nat /\ gone \subseteq Nat
    /\ calls \in Nat /\ gui \in Nat /\ fetches \in Nat /\ run \in Nat

InTable(id) == \E k \in 1..Len(pending) : pending[k].id = id

\* "Keep distinct observations ... Only one failed write stays in RAM": an
\* item append() accepted is in the ledger, in the table or in the slot; what
\* a process can take with it is the one item in its slot.
AcceptedKept ==
    /\ accepted \subseteq applied \cup gone \cup {i \in accepted : InTable(i) \/ unsaved.id = i}
    /\ Cardinality(gone) <= run

\* Items reach the ledger in the order in which they were accepted, over
\* failed inserts, the slot, replays and restarts: a control never overtakes
\* the observations before it.
AppliedInOrder ==
    \A i \in accepted, j \in applied : i < j => i \in applied \cup gone

\* The table respects its limits, and the budget row the triggers keep is
\* exact: neither blocks ingestion for ever nor lets the table grow.
BudgetExact ==
    /\ budget.items = Len(pending)
    /\ Len(pending) <= MaxItems + ControlReserve
    /\ budget.bytes <= MaxBytes + ControlReserve * ReserveBytes
    /\ pending = <<>> => budget.bytes = 0

\* Once the backlog is drained the ledger's tracking state is what the GUI
\* shows, unless it shows that a control was refused.
ControlAgrees ==
    pc \notin {"off", "apply", "ack"} /\ pending = <<>> /\ unsaved = NoItem /\ ~ctlIssue
        => ledgerOn = (tracking /\ ~paused)

\* The service thread always gets back to a state with no reservation held (a
\* leaked one would stop every later account read: reserve_fetch refuses while
\* it is held) and with everything that was accepted applied, whatever the GUI
\* does, unless the process ends first or took the item with it.
Settles ==
    []<>(~reserved /\ (accepted \subseteq applied \cup gone \/ pc \in {"off", "closing", "closed"}))

\* "Preserve one admitted in-flight response through the existing unsaved
\* slot": the reply of a reserved fetch is not refused (for replies that fit
\* the slot).  The code does not keep this: README, known deviations.
AdmittedKept ==
    [][(reserved /\ pc \in {"fetch", "failure"} /\ calls' # calls) => calls' \in accepted']_vars

Live == pc # "off" /\ ~stopReq /\ tracking /\ ~paused /\ ~ctlIssue
Drained == pending = <<>> /\ unsaved = NoItem

\* "Pause new reads at backlog capacity and resume after replay": once the
\* backlog has drained, account reads are possible again.  The code does not
\* keep this: README, known deviations.
ReadsResume == (Live /\ Drained) ~> (~obsIssue \/ ~Live)

=============================================================================
