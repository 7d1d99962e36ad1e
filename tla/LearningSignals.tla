--------------------------- MODULE LearningSignals ---------------------------
(***************************************************************************)
(* The learning scan: denials, failures and recovery rows that lie in the  *)
(* three stores become candidates of the adaptive wiki, and a cursor on    *)
(* file keeps the keys of the events that have been emitted.               *)
(*                                                                         *)
(* Two processes scan: a tick, after it has saved its tasks and under the  *)
(* tick lock, and the operator's learning-scan, under no lock.  A scan     *)
(* loads the cursor, looks at the stores, records a candidate per new key  *)
(* and saves its cursor at its end; an error or a death on the way leaves  *)
(* the cursor on file as it was, and the tick goes on without it.          *)
(*                                                                         *)
(* All events are of one project and one runner kind, so the candidates    *)
(* merge into one claim per source; counted is how often each event was    *)
(* added to its claim's occurrence_count.                                  *)
(***************************************************************************)
EXTENDS Integers, FiniteSets

CONSTANTS
  NTasks,        \* the tasks
  MaxDenials,    \* bound: denied approvals, each with an id of its own
  MaxRows,       \* bound: recovery rows, each with an id of its own
  MaxAttempts,   \* bound: launches of a task
  MaxDisturbed,  \* bound: scans that fail, or begin while another is under way
  Overlap        \* commands, and other scans, run while a scan is under way

Task == 1..NTasks
Scanner == {"tick", "operator"}

ASSUME LearningAssumption ==
  /\ {NTasks, MaxDenials, MaxRows, MaxAttempts, MaxDisturbed} \subseteq Nat
  /\ Overlap \in BOOLEAN

VARIABLES
  denials,    \* the denied approvals: the task each is about and its status
  tasks,      \* status and attempt_count
  rows,       \* task_resume_state.json: the id and status of each task's row
  nextDenial, nextRow,
  cursor,     \* learning_signals_state.json: the keys processed
  counted,    \* adaptive_wiki_candidates.json, per event
  scan,       \* the scans under way
  disturbed   \* history: scans that failed or overlapped another

stores == <<denials, tasks, rows, nextDenial, nextRow>>
vars == <<stores, cursor, counted, scan, disturbed>>

\* The cursor's keys: an approval's id, a task and its attempts, a row's id.
DenialKey(i) == <<"approval_denied", i, 0>>
FailureKey(t, n) == <<"task_failed", t, n>>
RecoveryKey(i) == <<"resume_pending", i, 0>>
Key == {DenialKey(i) : i \in 1..MaxDenials} \cup {RecoveryKey(i) : i \in 1..MaxRows}
         \cup {FailureKey(t, n) : t \in Task, n \in 0..MaxAttempts}

NoScan == [pc |-> "idle", cursor |-> {}, todo |-> {}, emitted |-> FALSE]
NoTask == [status |-> "absent", attempts |-> 0]
NoRow == [id |-> 0, status |-> "none"]

Init ==
  /\ denials = [i \in 1..MaxDenials |-> [task |-> 0, status |-> "none"]]
  /\ tasks = [t \in Task |-> NoTask]
  /\ rows = [t \in Task |-> NoRow]
  /\ nextDenial = 1 /\ nextRow = 1
  /\ cursor = {} /\ counted = [k \in Key |-> 0]
  /\ scan = [s \in Scanner |-> NoScan]
  /\ disturbed = 0

Scanning(s) == scan[s].pc # "idle"
Undisturbed == Overlap \/ \A s \in Scanner : ~Scanning(s)
\* A tick is in its own scan until that ends, and there is one tick at a time.
TickFree == Undisturbed /\ ~Scanning("tick")

-----------------------------------------------------------------------------
(* The scan.                                                                *)

\* Each pair of a store's row that is an event and the key it goes by.
Standing ==
  {DenialKey(i) : i \in {j \in 1..MaxDenials : denials[j].status = "denied"}}
    \cup {FailureKey(t, tasks[t].attempts) : t \in {u \in Task : tasks[u].status = "failed"}}
    \cup {RecoveryKey(rows[t].id) : t \in {u \in Task : rows[u].status = "resume_pending"}}

ScanBegin(s) ==
  LET others == \E r \in Scanner \ {s} : Scanning(r)
  IN /\ ~Scanning(s) /\ Undisturbed
     /\ others => disturbed < MaxDisturbed
     /\ disturbed' = IF others THEN disturbed + 1 ELSE disturbed
     /\ scan' = [scan EXCEPT ![s] = [NoScan EXCEPT !.pc = "look", !.cursor = cursor]]
     /\ UNCHANGED <<stores, cursor, counted>>

\* Mutant: the first processed event ends the scan, not just its own turn.
ScanLook_StopsEarly(s) ==
  /\ scan[s].pc = "look"
  /\ scan' = [scan EXCEPT ![s].pc = "emit",
                          ![s].todo = IF Standing \cap scan[s].cursor = {}
                                      THEN Standing ELSE {}]
  /\ UNCHANGED <<stores, cursor, counted, disturbed>>
ScanLook(s) ==
  /\ scan[s].pc = "look"
  /\ scan' = [scan EXCEPT ![s].pc = "emit", ![s].todo = Standing \ scan[s].cursor]
  /\ UNCHANGED <<stores, cursor, counted, disturbed>>

\* Denials first, then failures, then rows; record_candidate has its own lock.
First(todo) ==
  LET of(source) == {k \in todo : k[1] = source}
  IN IF of("approval_denied") # {} THEN of("approval_denied")
     ELSE IF of("task_failed") # {} THEN of("task_failed") ELSE todo

ScanEmit(s) ==
  /\ scan[s].pc = "emit"
  /\ \E k \in First(scan[s].todo) :
       /\ counted' = [counted EXCEPT ![k] = @ + 1]
       /\ scan' = [scan EXCEPT ![s].cursor = @ \cup {k}, ![s].todo = @ \ {k},
                               ![s].emitted = TRUE]
  /\ UNCHANGED <<stores, cursor, disturbed>>

\* Mutant: the file gets the keys of this scan only.
ScanSave_OwnOnly(s) ==
  /\ scan[s].pc = "emit" /\ scan[s].todo = {}
  /\ cursor' = IF scan[s].emitted THEN scan[s].cursor \ cursor ELSE cursor
  /\ scan' = [scan EXCEPT ![s] = NoScan]
  /\ UNCHANGED <<stores, counted, disturbed>>
ScanSave(s) ==
  /\ scan[s].pc = "emit" /\ scan[s].todo = {}
  /\ cursor' = IF scan[s].emitted THEN scan[s].cursor ELSE cursor
  /\ scan' = [scan EXCEPT ![s] = NoScan]
  /\ UNCHANGED <<stores, counted, disturbed>>

\* Mutant: what was to be emitted is saved as processed all the same.
ScanFail_Saved(s) ==
  /\ Scanning(s) /\ disturbed < MaxDisturbed
  /\ disturbed' = disturbed + 1
  /\ cursor' = scan[s].cursor \cup scan[s].todo
  /\ scan' = [scan EXCEPT ![s] = NoScan]
  /\ UNCHANGED <<stores, counted>>
\* A load, a record or the save ends in an error, or the process dies.
ScanFail(s) ==
  /\ Scanning(s) /\ disturbed < MaxDisturbed
  /\ disturbed' = disturbed + 1
  /\ scan' = [scan EXCEPT ![s] = NoScan]
  /\ UNCHANGED <<stores, cursor, counted>>

ScanStep(s) == ScanLook(s) \/ ScanEmit(s) \/ ScanSave(s)

-----------------------------------------------------------------------------
(* What the tick and its poll do to the stores.                             *)

Waiting(t) == tasks[t].status \in {"queued", "pending_approval"}
Refused(t) ==
  \E i \in 1..MaxDenials : denials[i] = [task |-> t, status |-> "denied"]

TickAsk(t) ==
  /\ TickFree /\ tasks[t].status = "queued" /\ ~Refused(t)
  /\ tasks' = [tasks EXCEPT ![t].status = "pending_approval"]
  /\ UNCHANGED <<denials, rows, nextDenial, nextRow, cursor, counted, scan, disturbed>>

TickRefused(t) ==
  /\ TickFree /\ Waiting(t) /\ Refused(t)
  /\ tasks' = [tasks EXCEPT ![t].status = "failed"]
  /\ UNCHANGED <<denials, rows, nextDenial, nextRow, cursor, counted, scan, disturbed>>

TickLaunch(t) ==
  /\ TickFree /\ Waiting(t) /\ ~Refused(t) /\ tasks[t].attempts < MaxAttempts
  /\ tasks' = [tasks EXCEPT ![t] = [status |-> "launched", attempts |-> @.attempts + 1]]
  /\ UNCHANGED <<denials, rows, nextDenial, nextRow, cursor, counted, scan, disturbed>>

\* A poll of the tick or of the operator.  The row, with an id of its own, is
\* written before the task is saved.
\* Mutant: a row takes the id of the row before it.
Lost_SameId(t) ==
  /\ Undisturbed /\ tasks[t].status = "launched" /\ nextRow <= MaxRows
  /\ rows' = [rows EXCEPT ![t] = [id |-> nextRow, status |-> "resume_pending"]]
  /\ tasks' = [tasks EXCEPT ![t].status = "resume_pending"]
  /\ UNCHANGED <<denials, nextDenial, nextRow, cursor, counted, scan, disturbed>>
Lost(t) ==
  /\ Undisturbed /\ tasks[t].status = "launched" /\ nextRow <= MaxRows
  /\ rows' = [rows EXCEPT ![t] = [id |-> nextRow, status |-> "resume_pending"]]
  /\ nextRow' = nextRow + 1
  /\ \/ tasks' = [tasks EXCEPT ![t].status = "resume_pending"]
     \/ UNCHANGED tasks
  /\ UNCHANGED <<denials, nextDenial, cursor, counted, scan, disturbed>>

Closed(t, status) ==
  IF rows[t].id = 0 THEN rows ELSE [rows EXCEPT ![t].status = status]

Finished(t) ==
  /\ Undisturbed /\ tasks[t].status \in {"launched", "resume_pending"}
  /\ tasks' = [tasks EXCEPT ![t].status = "completed"]
  /\ rows' = Closed(t, "resumed")
  /\ UNCHANGED <<denials, nextDenial, nextRow, cursor, counted, scan, disturbed>>

-----------------------------------------------------------------------------
(* The operator.                                                            *)

Enqueue(t) ==
  /\ Undisturbed
  /\ tasks' = [tasks EXCEPT ![t] = [NoTask EXCEPT !.status = "queued"]]
  /\ UNCHANGED <<denials, rows, nextDenial, nextRow, cursor, counted, scan, disturbed>>

Deny(t) ==
  /\ Undisturbed /\ tasks[t].status = "pending_approval" /\ ~Refused(t)
  /\ nextDenial <= MaxDenials
  /\ denials' = [denials EXCEPT ![nextDenial] = [task |-> t, status |-> "denied"]]
  /\ nextDenial' = nextDenial + 1
  /\ UNCHANGED <<tasks, rows, nextRow, cursor, counted, scan, disturbed>>

\* retry-task; with --new-approval it drops the task's denials.
Retry(t, new) ==
  /\ Undisturbed /\ tasks[t].status \in {"failed", "resume_pending", "cancelled"}
  /\ tasks' = [tasks EXCEPT ![t].status = "queued"]
  /\ rows' = IF tasks[t].status = "resume_pending" THEN Closed(t, "resumed") ELSE rows
  /\ denials' = [i \in 1..MaxDenials |->
                   IF new /\ denials[i] = [task |-> t, status |-> "denied"]
                   THEN [denials[i] EXCEPT !.status = "superseded"] ELSE denials[i]]
  /\ UNCHANGED <<nextDenial, nextRow, cursor, counted, scan, disturbed>>

Cancel(t) ==
  /\ Undisturbed /\ tasks[t].status \notin {"absent", "cancelled", "completed"}
  /\ tasks' = [tasks EXCEPT ![t].status = "cancelled"]
  /\ rows' = Closed(t, "cancelled")
  /\ UNCHANGED <<denials, nextDenial, nextRow, cursor, counted, scan, disturbed>>

Next ==
  \/ \E s \in Scanner : ScanBegin(s) \/ ScanStep(s) \/ ScanFail(s)
  \/ \E t \in Task :
       \/ TickAsk(t) \/ TickRefused(t) \/ TickLaunch(t) \/ Lost(t) \/ Finished(t)
       \/ Enqueue(t) \/ Deny(t) \/ Cancel(t)
       \/ \E new \in BOOLEAN : Retry(t, new)

Spec == Init /\ [][Next]_vars

\* The timer's ticks come again and again, and a scan that has begun runs on.
FairSpec ==
  /\ Spec
  /\ WF_vars(ScanBegin("tick"))
  /\ \A s \in Scanner : WF_vars(ScanStep(s))

-----------------------------------------------------------------------------
(* Properties.                                                              *)

TaskRecord == [status : {"absent", "queued", "pending_approval", "launched", "failed",
                         "resume_pending", "completed", "cancelled"},
               attempts : 0..MaxAttempts]
RowRecord == [id : 0..MaxRows, status : {"none", "resume_pending", "resumed", "cancelled"}]
ScanRecord == [pc : {"idle", "look", "emit"}, cursor : SUBSET Key, todo : SUBSET Key,
               emitted : BOOLEAN]

\* The stores, the cursor and the scans' copies have the shapes the code gives
\* them, and every recovery row has an id that no other row had.
TypeOK ==
  /\ denials \in [1..MaxDenials -> [task : Task \cup {0},
                                    status : {"none", "denied", "superseded"}]]
  /\ tasks \in [Task -> TaskRecord] /\ rows \in [Task -> RowRecord]
  /\ nextDenial \in 1..(MaxDenials + 1) /\ nextRow \in 1..(MaxRows + 1)
  /\ \A t \in Task : /\ rows[t].id < nextRow
                     /\ rows[t].id = 0 => rows[t].status = "none"
  /\ cursor \subseteq Key /\ counted \in [Key -> Nat]
  /\ scan \in [Scanner -> ScanRecord]
  /\ disturbed \in 0..MaxDisturbed

\* No event is lost: what the cursor on file, or a scan's copy of it, calls
\* processed was recorded as a candidate, whichever scan failed and however
\* two of them overwrote one another's cursor.
CursorBacked ==
  \A k \in Key : (k \in cursor \/ \E s \in Scanner : k \in scan[s].cursor) => counted[k] > 0

\* Each denial, failure and recovery row is counted exactly once, but for the
\* scans that failed or overlapped another: each of those may count it once
\* more.
RepeatsExplained == \A k \in Key : counted[k] <= 1 + disturbed

\* A denial, a failure or a recovery row that stays in its store becomes a
\* candidate.
Learned == \A k \in Key : k \in Standing ~> (counted[k] > 0 \/ k \notin Standing)
=============================================================================
