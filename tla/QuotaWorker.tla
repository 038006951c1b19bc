----------------------------- MODULE QuotaWorker -----------------------------
(***************************************************************************)
(* The calculation side of the quota service: the loop of QuotaService.run *)
(* that asks for reports and edits, the transport thread of QuotaWorker,   *)
(* and the child process that owns the ledger connection.                  *)
(*                                                                         *)
(* Charts stand for chart, preview and query: reads the user waits for.    *)
(* Edits stand for exclude, restore and clear_cycle; an edit that is in    *)
(* the ledger already is refused, as validate_exclusion does.  A report is *)
(* the set of edits it was calculated with and the child that made it.     *)
(* Times (backoff, history interval, the deadline of an edit) are chosen   *)
(* by the scheduler of the model.                                          *)
(***************************************************************************)
EXTENDS Integers, Sequences, FiniteSets

CONSTANTS
    MaxRestarts,    \* failures after which no process is started any more
    MaxEdits,       \* bound: edits the user asks for
    MaxCharts,      \* bound: charts the user asks for
    MaxReports,     \* bound: reports the service asks for
    MaxToggles,     \* bound: changes of pause and of reports_enabled
    MaxFaults,      \* bound: calculations, commits and pipes that fail
    MaxCrashes      \* bound: deaths of the child

ASSUME BoundsAssumption ==
    {MaxRestarts, MaxEdits, MaxCharts, MaxReports, MaxToggles, MaxFaults, MaxCrashes} \subseteq Nat

COALESCED == {"report", "chart"}
WRITING == {"pending-write", "writing"}
MaxSeq == MaxEdits + MaxCharts + MaxReports
None == [kind |-> "none", id |-> 0, edit |-> 0, gen |-> 0]
NoReport == [gen |-> 0, edits |-> {}]

VARIABLES
    paused, reports_enabled, changed, \* what the user set; changed: the loop has not seen the pause yet
    was_reporting,
    exclusions, edit_request, edit_active, report_request, report, report_refresh_due, paused_report_due,
    worker_results, spc,    \* the service loop
    sequence, commands, pending, latest, cancel_report_before, closing, restart_count,
    tpc, active, connection, phase, cancel_sent, out, \* the transport thread
    gen, cst, creq, cin, cout, committed,  \* the child
    ledger,                 \* the edits in the database
    orphans,                \* edits sent to a process that was left to end by itself
    prepared,               \* the last child that made a report: it holds one
    answer,                 \* what the user was told of each edit
    asked, toggles, faults, crashes        \* bounds

guiVars == <<paused, reports_enabled, changed>>
svcVars == <<was_reporting, exclusions, edit_request, edit_active, report_request, report,
             report_refresh_due, paused_report_due, spc, answer>>
queueVars == <<sequence, commands, pending, latest>>
transportVars == <<tpc, active, connection, phase, cancel_sent, out, restart_count>>
childVars == <<gen, cst, creq, cin, cout, committed>>
boundVars == <<asked, toggles, faults, crashes>>
vars == <<guiVars, svcVars, worker_results, queueVars, cancel_report_before, closing, transportVars,
          childVars, ledger, orphans, prepared, boundVars>>

Init ==
    /\ paused = FALSE /\ reports_enabled = TRUE /\ changed = FALSE /\ was_reporting = TRUE
    /\ exclusions = <<>> /\ edit_request = [id |-> 0, saved |-> FALSE] /\ edit_active = FALSE
    /\ report_request = 0 /\ report = NoReport /\ report_refresh_due = FALSE /\ paused_report_due = FALSE
    /\ worker_results = <<>> /\ spc = "control"
    /\ sequence = 0 /\ commands = <<>> /\ pending = [k \in COALESCED |-> None]
    /\ latest = [k \in COALESCED |-> 0] /\ cancel_report_before = 0 /\ closing = FALSE
    /\ tpc = "next" /\ active = None /\ connection = FALSE /\ phase = "idle"
    /\ cancel_sent = FALSE /\ out = <<>> /\ restart_count = 0
    /\ gen = 0 /\ cst = "none" /\ creq = None /\ cin = <<>> /\ cout = <<>> /\ committed = {}
    /\ ledger = {} /\ orphans = {} /\ prepared = 0 /\ answer = [e \in 1..MaxEdits |-> "none"]
    /\ asked = [edit |-> 0, chart |-> 0, report |-> 0] /\ toggles = 0 /\ faults = 0 /\ crashes = 0

-----------------------------------------------------------------------------
(* The queues: QuotaWorker.request, retry and _queue *)

request(r) ==
    /\ sequence' = r.id
    /\ IF r.kind \in COALESCED
         THEN pending' = [pending EXCEPT ![r.kind] = r] /\ latest' = [latest EXCEPT ![r.kind] = r.id]
              /\ UNCHANGED commands
         ELSE commands' = Append(commands, r) /\ UNCHANGED <<pending, latest>>

retry(r) == commands' = Append(commands, r) /\ UNCHANGED <<sequence, pending, latest>>

(* Results, as they travel from the child to the service. *)
Result(r, status) ==
    [kind |-> r.kind, id |-> r.id, status |-> status, saved |-> FALSE, permanent |-> FALSE,
     uncertain |-> FALSE, gen |-> 0, edits |-> {}]

-----------------------------------------------------------------------------
(* The user *)

(* set_paused of the service; the loop passes it on. *)
TogglePause ==
    /\ toggles < MaxToggles /\ toggles' = toggles + 1 /\ ~closing
    /\ paused' = ~paused /\ changed' = TRUE
    /\ UNCHANGED <<reports_enabled, svcVars, worker_results, queueVars, cancel_report_before, closing,
                   transportVars, childVars, ledger, orphans, prepared, asked, faults, crashes>>

(* set_reports_enabled, which cancels a running report by itself. *)
ToggleReports ==
    /\ toggles < MaxToggles /\ toggles' = toggles + 1 /\ ~closing
    /\ reports_enabled' = ~reports_enabled
    /\ cancel_report_before' = IF reports_enabled THEN sequence ELSE cancel_report_before
    /\ UNCHANGED <<paused, changed, svcVars, worker_results, queueVars, closing, transportVars, childVars,
                   ledger, orphans, prepared, asked, faults, crashes>>

RequestEdit ==
    /\ asked.edit < MaxEdits /\ asked' = [asked EXCEPT !.edit = @ + 1] /\ ~closing
    /\ exclusions' = Append(exclusions, asked'.edit)
    /\ UNCHANGED <<guiVars, was_reporting, edit_request, edit_active, report_request, report, report_refresh_due,
                   paused_report_due, spc, answer, worker_results, queueVars, cancel_report_before, closing,
                   transportVars, childVars, ledger, orphans, prepared, toggles, faults, crashes>>

RequestChart ==
    /\ asked.chart < MaxCharts /\ report # NoReport /\ ~closing
    /\ asked' = [asked EXCEPT !.chart = @ + 1]
    /\ request([kind |-> "chart", id |-> sequence + 1, edit |-> 0, gen |-> report.gen])
    /\ UNCHANGED <<guiVars, svcVars, worker_results, cancel_report_before, closing, transportVars, childVars,
                   ledger, orphans, prepared, toggles, faults, crashes>>

(* QuotaService.stop. *)
Stop ==
    /\ spc = "control" /\ ~closing
    /\ closing' = TRUE /\ spc' = "done"
    /\ UNCHANGED <<guiVars, was_reporting, exclusions, edit_request, edit_active, report_request, report,
                   report_refresh_due, paused_report_due, answer, worker_results, queueVars,
                   cancel_report_before, transportVars, childVars, ledger, orphans, prepared, boundVars>>

-----------------------------------------------------------------------------
(* One turn of QuotaService.run: settings, results, the next request *)

SvcControl ==
    /\ spc = "control" /\ ~closing
    /\ changed' = FALSE /\ was_reporting' = reports_enabled
    /\ cancel_report_before' = IF changed /\ paused THEN sequence ELSE cancel_report_before
    /\ paused_report_due' = \/ paused_report_due
                            \/ changed /\ paused
                            \/ reports_enabled /\ ~was_reporting /\ paused /\ report = NoReport
    /\ spc' = "results"
    /\ UNCHANGED <<paused, reports_enabled, exclusions, edit_request, edit_active, report_request, report,
                   report_refresh_due, answer, worker_results, queueVars, closing, transportVars, childVars,
                   ledger, orphans, prepared, boundVars>>

Told(outcome) ==
    /\ answer' = [answer EXCEPT ![Head(exclusions)] = outcome]
    /\ exclusions' = Tail(exclusions)
    /\ edit_request' = [id |-> 0, saved |-> FALSE]

(* The result is the one waited for: a late one is passed over. *)
Expected(r) ==
    IF r.kind = "report" THEN r.id = report_request
                         ELSE edit_request.id # 0 /\ r.id = edit_request.id

(* One result.  A partial report is shown, and the request stays open. *)
SvcResult ==
    /\ spc = "results" /\ worker_results # <<>>
    /\ worker_results' = Tail(worker_results)
    /\ LET r == Head(worker_results)
           edit == r.kind = "edit"
           counts == r.kind # "chart" /\ r.status \notin {"progress", "partial"} /\ Expected(r)
           shows == r.kind # "chart" /\ r.status \in {"ok", "partial"} /\ Expected(r)
       IN  /\ report_request' = IF counts /\ ~edit THEN 0 ELSE report_request
           /\ edit_active' = (edit_active /\ ~(counts /\ edit))
           /\ report' = IF shows THEN [gen |-> r.gen, edits |-> r.edits] ELSE report
           /\ report_refresh_due' = CASE r.kind = "chart" -> report_refresh_due \/ report.gen = r.gen
                                      [] counts /\ r.status = "ok" -> FALSE
                                      [] OTHER -> report_refresh_due
           /\ CASE edit /\ r.status = "progress" /\ Expected(r) ->
                      /\ edit_request' = [edit_request EXCEPT !.saved = @ \/ r.saved]
                      /\ UNCHANGED <<answer, exclusions>>
                [] counts /\ edit /\ r.status = "ok" -> Told("ok")
                [] counts /\ edit /\ r.status = "error" /\ r.permanent ->
                      Told(IF r.uncertain THEN "uncertain" ELSE IF r.saved THEN "saved" ELSE "lost")
                [] counts /\ edit /\ r.status = "error" /\ ~r.permanent ->
                      /\ edit_request' = [edit_request EXCEPT !.saved = r.saved]
                      /\ UNCHANGED <<answer, exclusions>>
                [] OTHER -> UNCHANGED <<edit_request, answer, exclusions>>
    /\ UNCHANGED <<guiVars, was_reporting, paused_report_due, spc, queueVars, cancel_report_before, closing,
                   transportVars, childVars, ledger, orphans, prepared, boundVars>>

(* MUTANT: an edit that was never sent has no deadline. *)
SvcTimeout_sentOnly ==
    /\ spc = "results" /\ worker_results = <<>>
    /\ exclusions # <<>> /\ ~edit_active /\ edit_request.id # 0
    /\ Told(IF edit_request.saved THEN "saved" ELSE "lost")
    /\ UNCHANGED <<guiVars, was_reporting, edit_active, report_request, report, report_refresh_due,
                   paused_report_due, spc, worker_results, queueVars, cancel_report_before, closing,
                   transportVars, childVars, ledger, orphans, prepared, boundVars>>

(* fail_exclusions: the deadline of the first edit has passed. *)
SvcTimeout ==
    /\ spc = "results" /\ worker_results = <<>>
    /\ exclusions # <<>> /\ ~edit_active
    /\ Told(IF edit_request.saved THEN "saved" ELSE "lost")
    /\ UNCHANGED <<guiVars, was_reporting, edit_active, report_request, report, report_refresh_due,
                   paused_report_due, spc, worker_results, queueVars, cancel_report_before, closing,
                   transportVars, childVars, ledger, orphans, prepared, boundVars>>

SvcTurn ==
    /\ spc = "results" /\ worker_results = <<>>
    /\ spc' = "request"
    /\ UNCHANGED <<guiVars, was_reporting, exclusions, edit_request, edit_active, report_request, report,
                   report_refresh_due, paused_report_due, answer, worker_results, queueVars,
                   cancel_report_before, closing, transportVars, childVars, ledger, orphans, prepared,
                   boundVars>>

(* The first edit is sent, or sent again under its own id. *)
SvcEdit ==
    /\ spc = "request" /\ exclusions # <<>> /\ ~edit_active
    /\ LET r == [kind |-> "edit", edit |-> Head(exclusions), gen |-> 0,
                 id |-> IF edit_request.id = 0 THEN sequence + 1 ELSE edit_request.id]
       IN  /\ IF edit_request.id = 0 THEN request(r) ELSE retry(r)
           /\ edit_request' = [edit_request EXCEPT !.id = r.id]
    /\ edit_active' = TRUE /\ spc' = "control"
    /\ UNCHANGED <<guiVars, was_reporting, exclusions, report_request, report, report_refresh_due,
                   paused_report_due, answer, worker_results, cancel_report_before, closing, transportVars,
                   childVars, ledger, orphans, prepared, boundVars>>

SvcReport ==
    /\ spc = "request" /\ asked.report < MaxReports
    /\ reports_enabled /\ report_request = 0 /\ exclusions = <<>>
    /\ report_refresh_due \/ ~paused \/ paused_report_due
    /\ request([kind |-> "report", id |-> sequence + 1, edit |-> 0, gen |-> 0])
    /\ report_request' = sequence + 1 /\ paused_report_due' = FALSE
    /\ spc' = "control" /\ asked' = [asked EXCEPT !.report = @ + 1]
    /\ UNCHANGED <<guiVars, was_reporting, exclusions, edit_request, edit_active, report, report_refresh_due,
                   answer, worker_results, cancel_report_before, closing, transportVars, childVars,
                   ledger, orphans, prepared, toggles, faults, crashes>>

(* Neither is due. *)
SvcWait ==
    /\ spc = "request"
    /\ spc' = "control"
    /\ UNCHANGED <<guiVars, was_reporting, exclusions, edit_request, edit_active, report_request, report,
                   report_refresh_due, paused_report_due, answer, worker_results, queueVars,
                   cancel_report_before, closing, transportVars, childVars, ledger, orphans, prepared,
                   boundVars>>

-----------------------------------------------------------------------------
(* The transport thread: QuotaWorker._run *)

Untouched == <<guiVars, svcVars, sequence, latest, cancel_report_before, closing, ledger, prepared>>
Others == <<Untouched, orphans, boundVars>>

(* _next: commands first, then charts, then the report. *)
TNext ==
    /\ tpc = "next" /\ ~closing
    /\ \/ commands # <<>> /\ active' = Head(commands) /\ commands' = Tail(commands) /\ UNCHANGED pending
       \/ /\ commands = <<>>
          /\ \E k \in COALESCED :
                /\ pending[k] # None
                /\ k = "report" => pending["chart"] = None
                /\ active' = pending[k] /\ pending' = [pending EXCEPT ![k] = None]
          /\ UNCHANGED commands
    /\ tpc' = "send"
    /\ UNCHANGED <<connection, phase, cancel_sent, out, restart_count, worker_results, childVars, Others>>

Overtaken == active.kind = "report" /\ active.id <= cancel_report_before

(* The transport has a final result for its request. *)
Settle(result) == out' = <<result>> /\ active' = None /\ cancel_sent' = FALSE /\ tpc' = "deliver"

(* The child is gone, with what was in the pipe. *)
Gone == cst' = "none" /\ creq' = None /\ cin' = <<>> /\ cout' = <<>> /\ committed' = {}

TSkip ==
    /\ tpc = "send" /\ Overtaken
    /\ Settle(Result(active, "cancelled"))
    /\ UNCHANGED <<connection, phase, restart_count, worker_results, commands, pending, childVars, Others>>

(* MUTANT: only the child tells that it writes. *)
TSend_phaseLate ==
    /\ tpc = "send" /\ ~Overtaken
    /\ IF connection THEN cst # "dead" ELSE restart_count <= MaxRestarts
    /\ phase' = "reading"
    /\ IF connection
         THEN cin' = Append(cin, active) /\ UNCHANGED <<gen, cst, creq, cout, committed>>
         ELSE gen' = gen + 1 /\ cst' = "idle" /\ cin' = <<active>> /\ UNCHANGED <<creq, cout, committed>>
    /\ connection' = TRUE /\ tpc' = "loop"
    /\ UNCHANGED <<active, cancel_sent, out, restart_count, worker_results, commands, pending, Others>>

(* The process is started when there is none, the phase protects a commit   *)
(* before the child can report one, and the request is sent.                *)
TSend ==
    /\ tpc = "send" /\ ~Overtaken
    /\ IF connection THEN cst # "dead" ELSE restart_count <= MaxRestarts
    /\ phase' = IF active.kind = "edit" THEN "pending-write" ELSE "reading"
    /\ IF connection
         THEN cin' = Append(cin, active) /\ UNCHANGED <<gen, cst, creq, cout, committed>>
         ELSE gen' = gen + 1 /\ cst' = "idle" /\ cin' = <<active>> /\ UNCHANGED <<creq, cout, committed>>
    /\ connection' = TRUE /\ tpc' = "loop"
    /\ UNCHANGED <<active, cancel_sent, out, restart_count, worker_results, commands, pending, Others>>

(* The except clause: an edit under way is uncertain. *)
Failed ==
    /\ Settle([Result(active, "error") EXCEPT !.permanent = active.kind = "edit",
                                              !.uncertain = active.kind = "edit"])
    /\ connection' = FALSE /\ Gone
    /\ restart_count' = IF restart_count > MaxRestarts THEN restart_count ELSE restart_count + 1
    /\ UNCHANGED <<phase, worker_results, commands, pending, gen>>

(* The child is gone, or may not be started any more. *)
TFail ==
    /\ \/ tpc = "send" /\ ~Overtaken /\ IF connection THEN cst = "dead" ELSE restart_count > MaxRestarts
       \/ tpc = "loop" /\ cst = "dead" /\ cout = <<>>
    /\ Failed
    /\ UNCHANGED Others

(* MUTANT: a child is terminated when its pipe breaks, whatever its phase. *)
TBreak_terminates ==
    /\ tpc = "loop" /\ cst # "dead" /\ faults < MaxFaults /\ faults' = faults + 1
    /\ Failed
    /\ UNCHANGED <<Untouched, orphans, asked, toggles, crashes>>

(* The pipe breaks while the child lives.  It is terminated, unless it may   *)
(* be writing: then it is left to end by itself, and only joined.            *)
TBreak ==
    /\ tpc = "loop" /\ cst # "dead" /\ faults < MaxFaults /\ faults' = faults + 1
    /\ orphans' = IF phase \in WRITING THEN orphans \cup {active.edit} ELSE orphans
    /\ Failed
    /\ UNCHANGED <<Untouched, asked, toggles, crashes>>

(* A read that is obsolete, or in the way of what the user waits for, is    *)
(* asked to stop.                                                           *)
TCancel ==
    /\ tpc = "loop" /\ ~cancel_sent /\ active.kind \in COALESCED
    /\ \/ latest[active.kind] # active.id
       \/ commands # <<>>
       \/ active.kind = "report" /\ pending["chart"] # None
    /\ cin' = Append(cin, [active EXCEPT !.kind = "cancel"]) /\ cancel_sent' = TRUE
    /\ UNCHANGED <<tpc, active, connection, phase, out, restart_count, worker_results, commands, pending,
                   gen, cst, creq, cout, committed, Others>>

(* A pause releases the process: it is terminated unless it leaves in time. *)
TPause ==
    /\ tpc = "loop" /\ Overtaken
    /\ connection' = FALSE /\ Gone /\ phase' = "idle"
    /\ Settle(Result(active, "cancelled"))
    /\ UNCHANGED <<restart_count, worker_results, commands, pending, gen, Others>>

(* A phase message, whose news of an edit is passed on, a partial report, or *)
(* the result.                                                               *)
TReceive ==
    /\ tpc = "loop" /\ cout # <<>>
    /\ cout' = Tail(cout)
    /\ LET m == Head(cout)
       IN  IF m.status = "phase"
             THEN /\ phase' = IF m.saved THEN "reading" ELSE "writing"
                  /\ out' = <<[m EXCEPT !.status = "progress"]>> /\ tpc' = "deliver"
                  /\ UNCHANGED <<active, cancel_sent>>
             ELSE IF m.status = "partial"
             THEN out' = <<m>> /\ tpc' = "deliver" /\ UNCHANGED <<active, cancel_sent, phase>>
             ELSE phase' = "idle" /\ Settle(m)
    /\ UNCHANGED <<connection, restart_count, worker_results, commands, pending, gen, cst, creq,
                   cin, committed, Others>>

(* _deliver: a superseded result is dropped ... *)
TDeliver ==
    /\ tpc = "deliver"
    /\ out' = IF out[1].kind \in COALESCED /\ latest[out[1].kind] # out[1].id THEN <<>> ELSE out
    /\ tpc' = "emit"
    /\ UNCHANGED <<active, connection, phase, cancel_sent, restart_count, worker_results, commands, pending,
                   childVars, Others>>

(* ... and any result once closing; the service hears of what it keeps. *)
TEmit ==
    /\ tpc = "emit"
    /\ worker_results' = IF closing \/ out = <<>> \/ (out[1].kind = "chart" /\ out[1].status # "stale")
                           THEN worker_results ELSE worker_results \o out
    /\ out' = <<>> /\ tpc' = IF active = None THEN "next" ELSE "loop"
    /\ UNCHANGED <<active, connection, phase, cancel_sent, restart_count, commands, pending, childVars, Others>>

(* The end of the thread; a child that may be writing is left alone. *)
TClose ==
    /\ closing
    /\ tpc = "next" \/ (tpc = "loop" /\ phase \notin WRITING)
    /\ tpc' = "done" /\ connection' = FALSE
    /\ IF phase \in WRITING THEN UNCHANGED <<cst, creq, cin, cout, committed>> ELSE Gone
    /\ UNCHANGED <<active, phase, cancel_sent, out, restart_count, worker_results, commands, pending, gen, Others>>

-----------------------------------------------------------------------------
(* The child: process_main and QuotaComputation.execute *)

Rest == <<guiVars, svcVars, worker_results, queueVars, cancel_report_before, closing, transportVars,
          orphans, asked, toggles>>

Send(m) == cout' = Append(cout, m)

CReceive ==
    /\ cst = "idle" /\ cin # <<>>
    /\ cin' = Tail(cin)
    /\ IF Head(cin).kind = "cancel" THEN UNCHANGED <<cst, creq>> ELSE cst' = "start" /\ creq' = Head(cin)
    /\ UNCHANGED <<gen, cout, committed, ledger, prepared, faults, crashes, Rest>>

(* checkpoint(): a cancel of this request ends it, any other is passed over. *)
CCheckpoint ==
    /\ cst = "start" /\ creq.kind \in COALESCED /\ cin # <<>>
    /\ cin' = Tail(cin)
    /\ IF Head(cin).kind = "cancel" /\ Head(cin).id = creq.id
         THEN cst' = "idle" /\ creq' = None /\ Send(Result(creq, "cancelled"))
         ELSE UNCHANGED <<cst, creq, cout>>
    /\ UNCHANGED <<gen, committed, ledger, prepared, faults, crashes, Rest>>

(* Before its first report a process may show the current cycle of it. *)
CPartial ==
    /\ cst = "start" /\ creq.kind = "report" /\ prepared # gen
    /\ prepared' = gen /\ Send([Result(creq, "partial") EXCEPT !.gen = gen, !.edits = ledger])
    /\ UNCHANGED <<gen, cst, creq, cin, committed, ledger, faults, crashes, Rest>>

(* A read is answered from the ledger, or from a report of this process. *)
CRead ==
    /\ cst = "start" /\ creq.kind \in COALESCED
    /\ cst' = "idle" /\ creq' = None
    /\ prepared' = IF creq.kind = "report" THEN gen ELSE prepared
    /\ Send(IF creq.kind = "report" THEN [Result(creq, "ok") EXCEPT !.gen = gen, !.edits = ledger]
            ELSE [Result(creq, IF creq.gen = gen THEN "ok" ELSE "stale") EXCEPT !.gen = creq.gen])
    /\ UNCHANGED <<gen, cin, committed, ledger, faults, crashes, Rest>>

(* An edit this process has committed is not written again. *)
CBegin ==
    /\ cst = "start" /\ creq.kind = "edit"
    /\ IF creq.id \in committed
         THEN cst' = "committed" /\ UNCHANGED cout
         ELSE cst' = "writing" /\ Send(Result(creq, "phase"))
    /\ UNCHANGED <<gen, creq, cin, committed, ledger, prepared, faults, crashes, Rest>>

CCommit ==
    /\ cst = "writing" /\ creq.edit \notin ledger
    /\ ledger' = ledger \cup {creq.edit} /\ committed' = committed \cup {creq.id}
    /\ cst' = "committed"
    /\ UNCHANGED <<gen, creq, cin, cout, prepared, faults, crashes, Rest>>

(* validate_exclusion refuses a range that is excluded already. *)
CRefuse ==
    /\ cst = "writing" /\ creq.edit \in ledger
    /\ cst' = "idle" /\ creq' = None /\ Send([Result(creq, "error") EXCEPT !.permanent = TRUE])
    /\ UNCHANGED <<gen, cin, committed, ledger, prepared, faults, crashes, Rest>>

(* MUTANT: the report after the edit comes from the snapshot before it. *)
CDone_oldSnapshot ==
    /\ cst = "reading"
    /\ cst' = "idle" /\ creq' = None /\ prepared' = gen
    /\ Send([Result(creq, "ok") EXCEPT !.gen = gen, !.edits = ledger \ {creq.edit}, !.saved = TRUE])
    /\ UNCHANGED <<gen, cin, committed, ledger, faults, crashes, Rest>>

CReading ==
    /\ cst = "committed"
    /\ cst' = "reading" /\ Send([Result(creq, "phase") EXCEPT !.saved = TRUE])
    /\ UNCHANGED <<gen, creq, cin, committed, ledger, prepared, faults, crashes, Rest>>

CDone ==
    /\ cst = "reading"
    /\ cst' = "idle" /\ creq' = None /\ prepared' = gen
    /\ Send([Result(creq, "ok") EXCEPT !.gen = gen, !.edits = ledger, !.saved = TRUE])
    /\ UNCHANGED <<gen, cin, committed, ledger, faults, crashes, Rest>>

(* A read, a commit or the recalculation after it fails. *)
CFail ==
    /\ faults < MaxFaults /\ faults' = faults + 1
    /\ cst \in {"start", "writing", "reading"} /\ (cst = "start" => creq.kind \in COALESCED)
    /\ cst' = "idle" /\ creq' = None
    /\ \E permanent \in BOOLEAN :
          Send([Result(creq, "error") EXCEPT !.saved = creq.id \in committed, !.permanent = permanent])
    /\ UNCHANGED <<gen, cin, committed, ledger, prepared, crashes, Rest>>

CCrash ==
    /\ crashes < MaxCrashes /\ crashes' = crashes + 1
    /\ cst \notin {"none", "dead"}
    /\ cst' = "dead"
    /\ UNCHANGED <<gen, creq, cin, cout, committed, ledger, prepared, faults, Rest>>

(* A process left to end by itself commits its edit, or fails to. *)
OrphanEnds ==
    /\ \E e \in orphans : orphans' = orphans \ {e} /\ ledger' \in {ledger, ledger \cup {e}}
    /\ UNCHANGED <<guiVars, svcVars, worker_results, queueVars, cancel_report_before, closing,
                   transportVars, childVars, prepared, boundVars>>

-----------------------------------------------------------------------------
Service == SvcControl \/ SvcResult \/ SvcTurn \/ SvcEdit \/ SvcWait
Transport == TNext \/ TSkip \/ TSend \/ TFail \/ TPause \/ TReceive \/ TDeliver \/ TEmit \/ TClose
Child == CReceive \/ CRead \/ CBegin \/ CCommit \/ CRefuse \/ CReading \/ CDone

Next ==
    \/ TogglePause \/ ToggleReports \/ RequestEdit \/ RequestChart \/ Stop
    \/ Service \/ SvcTimeout \/ SvcReport
    \/ Transport \/ TCancel \/ TBreak
    \/ Child \/ CPartial \/ CCheckpoint \/ CFail \/ CCrash \/ OrphanEnds

(* The two threads and the child run on; an edit whose deadline has passed  *)
(* is dropped at one of the next turns.  Nothing makes the user act.        *)
Fairness ==
    /\ WF_vars(Service) /\ SF_vars(SvcTimeout)
    /\ WF_vars(Transport) /\ WF_vars(Child)

Spec == Init /\ [][Next]_vars /\ Fairness

-----------------------------------------------------------------------------
(* Every variable keeps its type. *)
TypeOK ==
    /\ {paused, reports_enabled, changed, was_reporting, edit_active, report_refresh_due, paused_report_due,
        closing, connection, cancel_sent} \subseteq BOOLEAN
    /\ exclusions \in Seq(1..MaxEdits) /\ edit_request.id \in 0..MaxSeq /\ report_request \in 0..MaxSeq
    /\ sequence \in 0..MaxSeq /\ cancel_report_before \in 0..MaxSeq /\ restart_count \in 0..(MaxRestarts + 1)
    /\ Len(commands) <= 1 /\ Len(cin) <= 3 /\ Len(out) <= 1
    /\ spc \in {"control", "results", "request", "done"}
    /\ tpc \in {"next", "send", "loop", "deliver", "emit", "done"}
    /\ cst \in {"none", "dead", "idle", "start", "writing", "committed", "reading"}
    /\ ledger \subseteq 1..MaxEdits /\ orphans \subseteq 1..MaxEdits /\ prepared \in Nat
    /\ committed \subseteq 1..MaxSeq
    /\ answer \in [1..MaxEdits -> {"none", "ok", "saved", "lost", "uncertain"}]

(* No process that is in the middle of a commit is terminated, at a pause,  *)
(* at a close or after a failure: only its own crash ends it.  When its     *)
(* pipe breaks it is left to end by itself.                                 *)
CommitNotKilled ==
    [][(cst \in {"writing", "committed"}) =>
          \/ cst' \in {"writing", "committed", "reading", "idle", "dead"}
          \/ creq.edit \in orphans']_vars

(* An edit the user was told is saved is in the ledger, and the report the  *)
(* service holds after a completed edit was calculated with it: a report    *)
(* begun before the edit never replaces it.                                 *)
AnsweredEditsShown ==
    \A e \in 1..MaxEdits :
        /\ answer[e] \in {"ok", "saved"} => e \in ledger
        /\ answer[e] = "ok" => e \in report.edits

(* Every edit is answered and every report asked for is settled, so that    *)
(* the next one can be asked for, through failures, restarts, pauses and    *)
(* superseded requests, unless the service stops first.                     *)
RequestsSettled ==
    /\ \A e \in 1..MaxEdits : asked.edit >= e ~> answer[e] # "none" \/ closing
    /\ report_request # 0 ~> report_request = 0 \/ closing

(* quota_service.py: "A failed user edit stops retrying; committed edits    *)
(* are never replayed."                                                     *)
CommittedNotReplayed == [][cst = "start" /\ cst' = "writing" => creq.edit \notin ledger]_vars
=============================================================================
