----------------------------- MODULE OffdeskTick -----------------------------
(***************************************************************************)
(* The harness tick of the Offdesk control plane and what it shares with   *)
(* the operator's commands and the workers: the task queue, the approval   *)
(* ledger, the background probes, the resume rows and the pause switch,    *)
(* each a file that is loaded and saved whole.                             *)
(*                                                                         *)
(* run_offdesk_tick holds the tick lock, so there is one tick at a time;   *)
(* the commands do not take it.  It loads the ledger and the tasks first,  *)
(* works on its copies, and saves the ledger and then the tasks at its     *)
(* end; probes and resume rows it writes on the way.  Overlap says whether *)
(* commands run while a tick is under way, Crashes whether it may die.     *)
(*                                                                         *)
(* The ledger is seen per task and action through what ApprovalLedger      *)
(* guarantees of it: one open record at most.  "none" stands for no record *)
(* that covers the request any more, "lapsed" for a request past its       *)
(* expiry that the next sweep drops.  All tasks belong to one request.      *)
(***************************************************************************)
EXTENDS Integers, FiniteSets

CONSTANTS
  NTasks,      \* the tasks, in file order
  MaxRuns,     \* bound: worker processes ever started
  Limit,       \* --limit
  BriefTask,   \* tasks whose execution brief covers dispatch
  RemoteTask,  \* tasks queued with a runner kind that takes no command
  BrokenTask,  \* tasks whose command cannot be started
  ResultTask,  \* tasks with a result artifact path
  Overlap, Crashes,
  Cooldowns,   \* providers can run into a cooldown
  ScopedTask,  \* tasks a tick can be restricted to
  Commands     \* bound: the operator's commands that this instance gives

Task == 1..NTasks
Run == 1..MaxRuns

ASSUME ConfigAssumption ==
  /\ NTasks \in Nat /\ MaxRuns \in Nat /\ Limit \in Nat
  /\ BriefTask \subseteq Task /\ RemoteTask \subseteq Task
  /\ BrokenTask \subseteq Task /\ ResultTask \subseteq Task
  /\ {Overlap, Crashes, Cooldowns} \subseteq BOOLEAN /\ ScopedTask \subseteq Task

VARIABLES
  tasks,    \* offdesk_tasks.json
  ledger,   \* pending_action_approvals.json, per task and action
  probes,   \* background_runs.json: the phase of each ticket
  resume,   \* task_resume_state.json: the status of each task's row
  paused,   \* offdesk_operator_pause.json
  cool,     \* the primary provider is cooling down
  alive,    \* worker processes that run
  result,   \* the run whose result file lies at a task's result path, or 0
  next,     \* the next ticket
  runOf,    \* the task a ticket was created for (probe.task_id)
  pc,       \* where the tick is
  scope,    \* the tasks this tick may touch
  mt, ml,   \* the tick's copies of tasks and ledger
  mp,       \* its poll's copy of the probes
  dirty,    \* its ledger session has something to write
  seen,     \* processes its poll found alive
  outcome,  \* the phases its poll decided
  halted,   \* the pause switch as it read it
  count,    \* dispatches counted against the limit
  pos,      \* the task its dispatch loop is at
  released, \* history: runs whose task the operator cancelled or replaced
  stopped,  \* history: tasks the operator cancelled and did not requeue since
  credit    \* history: 1 after an approval of a request, 1 less after each use of it

store == <<tasks, ledger, probes, resume, paused>>
world == <<cool, alive, result>>
runs == <<next, runOf>>
copies == <<scope, mt, ml, mp, dirty, seen, outcome, halted, count, pos>>
history == <<released, stopped, credit>>
vars == <<store, world, runs, pc, copies, history>>

TaskStatus == {"absent", "queued", "pending_approval", "launched", "running",
               "completed", "failed", "resume_pending", "cancelled"}
Phase == {"none", "launched", "completed", "lost", "acknowledged"}
Answer == {"none", "pending", "approved", "denied", "lapsed"}
Action == {"dispatch", "fallback"}
ResumeStatus == {"none", "resume_pending", "resumed", "cancelled", "abandoned"}

NoTask == [status |-> "absent", ticket |-> 0, provider |-> "primary", deferred |-> FALSE]
NewTask == [NoTask EXCEPT !.status = "queued"]
NoLedger == [t \in Task |-> [a \in Action |-> "none"]]
NoOutcome == [r \in Run |-> "none"]

Init ==
  /\ tasks = [t \in Task |-> NoTask]
  /\ ledger = NoLedger
  /\ probes = NoOutcome
  /\ resume = [t \in Task |-> "none"]
  /\ paused = FALSE /\ cool = FALSE
  /\ alive = {} /\ result = [t \in Task |-> 0]
  /\ next = 1 /\ runOf = [r \in Run |-> 0]
  /\ pc = "idle"
  /\ scope = {} /\ mt = [t \in Task |-> NoTask] /\ ml = NoLedger /\ mp = NoOutcome
  /\ dirty = FALSE /\ seen = {} /\ outcome = NoOutcome /\ halted = FALSE /\ count = 0 /\ pos = 1
  /\ released = {} /\ stopped = {} /\ credit = [t \in Task |-> [a \in Action |-> 0]]

MayGive(command) == command \in Commands /\ (Overlap \/ pc = "idle")

\* args.limit.max(1)
TickLimit == IF Limit = 0 THEN 1 ELSE Limit

\* not_before is the end of the cooldown the task ran into.
Waiting(x) == x.status \in {"queued", "pending_approval"}
CanDispatch(x) == Waiting(x) /\ (x.deferred => ~cool)

-----------------------------------------------------------------------------
(* Polling.  refresh_probe_runtime_evidence asks for the process first and  *)
(* for the result file second; evaluate prefers the result, leaves a live   *)
(* run its phase, and an operator's acknowledgement stands until a result   *)
(* turns up.                                                                *)

\* Mutant: a run that was found finished is not looked at again.
Recorded_LaunchedOnly(p) == {r \in Run : p[r] = "launched"}
Recorded(p) == {r \in Run : p[r] # "none"}

\* Mutant: the process handle is asked before the result.
Decide_HandleFirst(r, p, living) ==
  IF p[r] = "acknowledged"      THEN "acknowledged"
  ELSE IF r \in living          THEN p[r]
  ELSE IF p[r] = "launched"     THEN "lost"
  ELSE IF result[runOf[r]] # 0  THEN "completed"
  ELSE "lost"
Decide(r, p, living) ==
  IF result[runOf[r]] # 0      THEN "completed"
  ELSE IF p[r] = "acknowledged" THEN "acknowledged"
  ELSE IF r \in living          THEN p[r]
  ELSE "lost"
Decisions(S, p, living) ==
  [r \in Run |-> IF r \in S THEN Decide(r, p, living) ELSE "none"]
\* Mutant: only the polled probes are saved.
Observed_PolledOnly(p, d) == d
Observed(p, d) == [r \in Run |-> IF d[r] = "none" THEN p[r] ELSE d[r]]

\* apply_background_outcome: the phase a task's own ticket was given.
\* Mutant: a cancelled task still listens to its worker.
Active_Cancelled(x) == x.status \in {"launched", "running", "resume_pending", "cancelled"}
Active(x) == x.status \in {"launched", "running", "resume_pending"}
Heard(x, d) == IF Active(x) /\ x.ticket # 0 THEN d[x.ticket] ELSE "none"
Reconciled(x, d) ==
  CASE Heard(x, d) = "completed" -> [x EXCEPT !.status = "completed"]
    [] Heard(x, d) = "lost"      -> [x EXCEPT !.status = "resume_pending"]
    [] Heard(x, d) = "launched"  -> [x EXCEPT !.status = "running"]
    [] OTHER                     -> x
\* Mutant: a row that is there already is left as it is.
ResumeRow_OncePerTask(x, row, d) ==
  CASE Heard(x, d) = "lost" /\ row = "none"       -> "resume_pending"
    [] Heard(x, d) = "completed" /\ row # "none"   -> "resumed"
    [] OTHER                                       -> row
\* Its row in the resume store: written before the task is saved, and cleared
\* when a result turns up after all.
ResumeRow(x, row, d) ==
  CASE Heard(x, d) = "lost" /\ x.status # "resume_pending" -> "resume_pending"
    [] Heard(x, d) = "completed" /\ row # "none"           -> "resumed"
    [] OTHER                                               -> row

-----------------------------------------------------------------------------
(* The tick up to its dispatch loop.                                        *)

Swept(l) == [t \in Task |-> [a \in Action |->
               IF l[t][a] = "lapsed" THEN "none" ELSE l[t][a]]]

TickBegin(S) ==
  /\ pc = "idle"
  /\ scope' = S
  /\ ml' = Swept(ledger) /\ dirty' = (Swept(ledger) # ledger)
  /\ mt' = tasks
  /\ pc' = "look"
  /\ UNCHANGED <<store, world, runs, mp, seen, outcome, halted, count, pos, history>>

TickLook ==
  /\ pc = "look"
  /\ mp' = probes /\ seen' = alive
  /\ pc' = "poll"
  /\ UNCHANGED <<store, world, runs, scope, mt, ml, dirty, outcome, halted, count, pos,
                 history>>

\* A tick for one task polls that task's ticket only, and saves nothing when
\* it has none.
TickPoll ==
  LET S == IF scope = Task THEN Recorded(mp)
                           ELSE Recorded(mp) \cap {mt[t].ticket : t \in scope}
      d == Decisions(S, mp, seen)
  IN /\ pc = "poll"
     /\ outcome' = d
     /\ probes' = IF S = {} THEN probes ELSE Observed(mp, d)
     /\ mp' = NoOutcome /\ seen' = {}
     /\ pc' = "apply"
     /\ UNCHANGED <<tasks, ledger, resume, paused, world, runs, scope, mt, ml, dirty, halted,
                    count, pos, history>>

TickApply ==
  /\ pc = "apply"
  /\ halted' = paused
  /\ mt' = [t \in Task |-> IF t \in scope THEN Reconciled(mt[t], outcome) ELSE mt[t]]
  /\ resume' = [t \in Task |-> IF t \in scope THEN ResumeRow(mt[t], resume[t], outcome)
                                              ELSE resume[t]]
  /\ outcome' = NoOutcome
  /\ pc' = "retarget"
  /\ UNCHANGED <<tasks, ledger, probes, paused, world, runs, scope, ml, mp, dirty, seen,
                 count, pos, history>>

FallbackUsed(a) == [ml EXCEPT ![a]["fallback"] = "none"]

\* An approved fallback moves every waiting task of the request that is still
\* on the provider it names, and is used up if there is one.  0: none is
\* approved, or its candidate is not recommended any more.
TickRetarget ==
  LET moved == {t \in scope : Waiting(mt[t]) /\ mt[t].provider = "primary"}
  IN /\ pc = "retarget"
     /\ \E a \in {0} \cup {t \in Task : ml[t]["fallback"] = "approved"} :
          IF a = 0 \/ moved = {}
          THEN UNCHANGED <<mt, ml, dirty, credit>>
          ELSE /\ mt' = [t \in Task |->
                            IF t \in moved
                            THEN [mt[t] EXCEPT !.provider = "backup", !.deferred = FALSE]
                            ELSE mt[t]]
               /\ ml' = FallbackUsed(a)
               /\ dirty' = TRUE
               /\ credit' = [credit EXCEPT ![a]["fallback"] = @ - 1]
     /\ pc' = "dispatch"
     /\ UNCHANGED <<store, world, runs, scope, mp, seen, outcome, halted, count, pos,
                    released, stopped>>

-----------------------------------------------------------------------------
(* The dispatch loop.                                                       *)

At(t) == pc = "dispatch" /\ pos = t /\ t \in Task

\* Mutants: the pause switch, the task filter and the limit misread.
Passed_Unpaused(t) == t \notin scope \/ count >= TickLimit \/ ~CanDispatch(mt[t])
Passed_AnyTask(t) == halted \/ count >= TickLimit \/ ~CanDispatch(mt[t])
Passed_LimitOffByOne(t) ==
  t \notin scope \/ halted \/ count + 1 >= TickLimit \/ ~CanDispatch(mt[t])
Passed(t) == t \notin scope \/ halted \/ count >= TickLimit \/ ~CanDispatch(mt[t])

TickPass ==
  /\ pc = "dispatch" /\ pos \in Task /\ Passed(pos)
  /\ pos' = pos + 1
  /\ UNCHANGED <<store, world, runs, pc, scope, mt, ml, mp, dirty, seen, outcome, halted,
                 count, history>>

\* The gate's answer for task t, and what the session records with it.
Verdict(t) ==
  IF cool /\ mt[t].provider = "primary"   THEN "blocked"
  ELSE IF ml[t]["dispatch"] = "denied"    THEN "denied"
  ELSE IF ml[t]["dispatch"] = "approved"  THEN "grant"
  ELSE IF ml[t]["dispatch"] = "pending"   THEN "wait"
  ELSE IF t \in BriefTask                 THEN "brief"
  ELSE "ask"
\* Mutant: the grant is not superseded.
Gated_Kept(t) ==
  IF Verdict(t) = "ask" THEN [ml EXCEPT ![t]["dispatch"] = "pending"] ELSE ml
Gated(t) ==
  CASE Verdict(t) = "grant" -> [ml EXCEPT ![t]["dispatch"] = "none"]
    [] Verdict(t) = "ask"   -> [ml EXCEPT ![t]["dispatch"] = "pending"]
    [] OTHER                -> ml
Spent(t) ==
  IF Verdict(t) = "grant" THEN [credit EXCEPT ![t]["dispatch"] = @ - 1] ELSE credit

Serve(t, verdicts) ==
  At(t) /\ ~Passed(t) /\ t \notin RemoteTask /\ Verdict(t) \in verdicts

\* A dispatch counts when it changed the status or left the task waiting for
\* an approval.
Served(t, x) ==
  /\ mt' = [mt EXCEPT ![t] = x]
  /\ count' = IF x.status # mt[t].status \/ x.status = "pending_approval"
              THEN count + 1 ELSE count
  /\ pos' = pos + 1

TickBlocked(t) ==
  /\ Serve(t, {"blocked"})
  /\ Served(t, [mt[t] EXCEPT !.status = "queued", !.deferred = TRUE])
  /\ \/ UNCHANGED <<ml, dirty>>
     \/ /\ ml[t]["fallback"] = "none"
        /\ ml' = [ml EXCEPT ![t]["fallback"] = "pending"] /\ dirty' = TRUE
  /\ UNCHANGED <<store, world, runs, pc, scope, mp, seen, outcome, halted, history>>

TickDenied(t) ==
  /\ Serve(t, {"denied"})
  /\ Served(t, [mt[t] EXCEPT !.status = "failed"])
  /\ UNCHANGED <<store, world, runs, pc, scope, ml, mp, dirty, seen, outcome, halted, history>>

TickWait(t) ==
  /\ Serve(t, {"wait", "ask"})
  /\ Served(t, [mt[t] EXCEPT !.status = "pending_approval"])
  /\ ml' = Gated(t) /\ dirty' = (dirty \/ Gated(t) # ml)
  /\ UNCHANGED <<store, world, runs, pc, scope, mp, seen, outcome, halted, history>>

TickLaunch(t) ==
  /\ Serve(t, {"grant", "brief"}) /\ t \notin BrokenTask
  /\ next <= MaxRuns
  /\ alive' = alive \cup {next} /\ runOf' = [runOf EXCEPT ![next] = t]
  /\ next' = next + 1
  /\ ml' = Gated(t) /\ dirty' = (dirty \/ Gated(t) # ml)
  /\ credit' = Spent(t)
  /\ pc' = "record"
  /\ UNCHANGED <<store, cool, result, scope, mt, mp, seen, outcome, halted, count, pos,
                 released, stopped>>

\* Mutant: the task points at the next ticket.
TickRecord_NextTicket ==
  /\ pc = "record"
  /\ probes' = [probes EXCEPT ![next - 1] = "launched"]
  /\ Served(pos, [mt[pos] EXCEPT !.status = "launched", !.ticket = next])
  /\ pc' = "dispatch"
  /\ UNCHANGED <<tasks, ledger, resume, paused, world, runs, scope, ml, mp, dirty, seen,
                 outcome, halted, history>>
TickRecord ==
  /\ pc = "record"
  /\ probes' = [probes EXCEPT ![next - 1] = "launched"]
  /\ Served(pos, [mt[pos] EXCEPT !.status = "launched", !.ticket = next - 1])
  /\ pc' = "dispatch"
  /\ UNCHANGED <<tasks, ledger, resume, paused, world, runs, scope, ml, mp, dirty, seen,
                 outcome, halted, history>>

\* A runner that takes no command is refused after the gate has answered, and
\* a command may fail to start: the tick ends there, and only its ledger
\* session is written.
TickAbort(t) ==
  /\ At(t) /\ ~Passed(t)
  /\ t \in RemoteTask \/ (t \in BrokenTask /\ Verdict(t) \in {"grant", "brief"})
  /\ ml' = Gated(t) /\ dirty' = (dirty \/ Gated(t) # ml)
  /\ credit' = Spent(t)
  /\ pc' = "abort"
  /\ UNCHANGED <<store, world, runs, scope, mt, mp, seen, outcome, halted, count, pos,
                 released, stopped>>

-----------------------------------------------------------------------------
(* Its end.                                                                 *)

Forget ==
  /\ pc' = "idle"
  /\ scope' = {} /\ mt' = [t \in Task |-> NoTask] /\ ml' = NoLedger /\ mp' = NoOutcome
  /\ dirty' = FALSE /\ seen' = {} /\ outcome' = NoOutcome /\ halted' = FALSE
  /\ count' = 0 /\ pos' = 1

Flushed == IF dirty THEN ml ELSE ledger

TickFlush ==
  /\ pc = "dispatch" /\ pos > NTasks
  /\ ledger' = Flushed
  /\ pc' = "save"
  /\ UNCHANGED <<tasks, probes, resume, paused, world, runs, copies, history>>

TickSave ==
  /\ pc = "save"
  /\ tasks' = mt
  /\ Forget
  /\ UNCHANGED <<ledger, probes, resume, paused, world, runs, history>>

\* Mutant: the error return does not flush the session.
TickGiveUp_NoFlush ==
  /\ pc = "abort"
  /\ Forget
  /\ UNCHANGED <<store, world, runs, history>>
TickGiveUp ==
  /\ pc = "abort"
  /\ ledger' = Flushed
  /\ Forget
  /\ UNCHANGED <<tasks, probes, resume, paused, world, runs, history>>

TickCrash ==
  /\ Crashes /\ pc # "idle"
  /\ Forget
  /\ UNCHANGED <<store, world, runs, history>>

Scopes == {Task} \cup {{t} : t \in ScopedTask}

TickStep ==
  \/ TickLook \/ TickPoll \/ TickApply \/ TickRetarget
  \/ TickPass \/ TickRecord \/ TickFlush \/ TickSave \/ TickGiveUp
  \/ \E t \in Task : TickBlocked(t) \/ TickDenied(t) \/ TickWait(t) \/ TickLaunch(t)
                      \/ TickAbort(t)

-----------------------------------------------------------------------------
(* The operator's commands.  A command that dies after its first file is    *)
(* written leaves the second as it was: Half.                               *)

Half == IF Crashes THEN BOOLEAN ELSE {FALSE}
RunsOf(t) == {r \in Run : runOf[r] = t}
Closed(t, status) ==
  IF resume[t] = "none" THEN resume ELSE [resume EXCEPT ![t] = status]

\* Bound: a task is queued only while there are runs left to start it with.
Room == next + Cardinality({t \in Task : Waiting(tasks[t])}) <= MaxRuns

\* A task with the same id is replaced; its resume row is left alone.
Enqueue(t) ==
  /\ MayGive("enqueue") /\ Room
  /\ tasks' = [tasks EXCEPT ![t] = NewTask]
  /\ released' = released \cup RunsOf(t) /\ stopped' = stopped \ {t}
  /\ UNCHANGED <<ledger, probes, resume, paused, world, runs, pc, copies, credit>>

Stop(t, from, row) ==
  /\ MayGive("stop")
  /\ tasks[t].status \in from
  /\ tasks' = [tasks EXCEPT ![t].status = "cancelled"]
  /\ \E half \in Half : resume' = IF half THEN resume ELSE Closed(t, row)
  /\ released' = released \cup RunsOf(t) /\ stopped' = stopped \cup {t}
  /\ UNCHANGED <<ledger, probes, paused, world, runs, pc, copies, credit>>

CancelTask(t) ==
  Stop(t, TaskStatus \ {"absent", "cancelled", "completed"}, "cancelled")
AbandonTask(t) == Stop(t, {"resume_pending", "failed"}, "abandoned")

Requeued(x) == [x EXCEPT !.status = "queued", !.ticket = 0]

\* Mutant: an active task can be retried as well.
Retryable_Active(x) ==
  x.status \in {"launched", "running", "failed", "resume_pending", "cancelled"}
Retryable(x) == x.status \in {"failed", "resume_pending", "cancelled"}

\* resume-task is this without --new-approval, from resume_pending only.  The
\* flag drops the task's denials whether or not the task could be requeued.
RetryTask(t) ==
  LET open == Retryable(tasks[t])
  IN \E fresh \in BOOLEAN, half \in Half :
     /\ MayGive("retry") /\ Room
     /\ tasks[t].status # "absent"
     /\ open \/ (fresh /\ ledger[t]["dispatch"] = "denied")
     /\ IF open
        THEN /\ tasks' = [tasks EXCEPT ![t] = Requeued(@)]
             /\ resume' = IF tasks[t].status = "resume_pending" /\ ~half
                          THEN Closed(t, "resumed") ELSE resume
             /\ stopped' = stopped \ {t}
        ELSE UNCHANGED <<tasks, resume, stopped>>
     /\ ledger' = IF fresh /\ ~half /\ ledger[t]["dispatch"] = "denied"
                  THEN [ledger EXCEPT ![t]["dispatch"] = "none"] ELSE ledger
     /\ UNCHANGED <<probes, paused, world, runs, pc, copies, released, credit>>

\* ok and deny sweep the ledger before they look for the record.
Resolve(t, a, answer) ==
  /\ MayGive("resolve")
  /\ ledger[t][a] = "pending"
  /\ ledger' = [Swept(ledger) EXCEPT ![t][a] = answer]
  /\ credit' = IF answer = "approved" THEN [credit EXCEPT ![t][a] = 1] ELSE credit
  /\ UNCHANGED <<tasks, probes, resume, paused, world, runs, pc, copies, released, stopped>>

SetPause(on) ==
  /\ MayGive("pause")
  /\ paused # on /\ paused' = on
  /\ UNCHANGED <<tasks, ledger, probes, resume, world, runs, pc, copies, history>>

\* poll, of every ticket or of one, and the reconciliation of the tasks with
\* what it found.
Poll(S) ==
  LET d == Decisions(S, probes, alive)
  IN /\ MayGive("poll")
     /\ probes' = Observed(probes, d)
     /\ \E half \in Half :
          IF half THEN UNCHANGED <<tasks, resume>>
          ELSE /\ tasks' = [t \in Task |-> Reconciled(tasks[t], d)]
               /\ resume' = [t \in Task |-> ResumeRow(tasks[t], resume[t], d)]
     /\ UNCHANGED <<ledger, paused, world, runs, pc, copies, history>>

\* background-ack: a lost run whose tasks the operator has all cancelled.
Linked(r) == {t \in Task : tasks[t].ticket = r \/ runOf[r] = t}
BackgroundAck(r) ==
  LET phase == Decide(r, probes, alive)
      settled == phase = "lost" /\ \A t \in Linked(r) : tasks[t].status = "cancelled"
  IN /\ MayGive("ack")
     /\ probes[r] # "none"
     /\ probes' = [probes EXCEPT ![r] = IF settled THEN "acknowledged" ELSE phase]
     /\ UNCHANGED <<tasks, ledger, resume, paused, world, runs, pc, copies, history>>

OperatorStep ==
  \/ \E t \in Task :
       \/ Enqueue(t) \/ CancelTask(t) \/ AbandonTask(t) \/ RetryTask(t)
       \/ \E a \in Action, answer \in {"approved", "denied"} : Resolve(t, a, answer)
  \/ \E on \in BOOLEAN : SetPause(on)
  \/ \E S \in {Recorded(probes)} \cup {{r} : r \in Recorded(probes)} : Poll(S)
  \/ \E r \in Run : BackgroundAck(r)

-----------------------------------------------------------------------------
(* Workers, clocks and providers.                                           *)

WorkerWrites(r) ==
  /\ r \in alive /\ runOf[r] \in ResultTask /\ result[runOf[r]] # r
  /\ result' = [result EXCEPT ![runOf[r]] = r]
  /\ UNCHANGED <<store, cool, alive, runs, pc, copies, history>>

WorkerExits(r) ==
  /\ r \in alive /\ alive' = alive \ {r}
  /\ UNCHANGED <<store, cool, result, runs, pc, copies, history>>

\* A record passes its expiry: an open request stays on file until it is
\* swept, a grant just stops covering.  The tick reads the clock once, so an
\* expiry while it runs comes to the same as one right after it.
Lapse(t, a) ==
  /\ pc = "idle"
  /\ \/ ledger[t][a] = "pending" /\ ledger' = [ledger EXCEPT ![t][a] = "lapsed"]
     \/ ledger[t][a] = "approved" /\ ledger' = [ledger EXCEPT ![t][a] = "none"]
  /\ UNCHANGED <<tasks, probes, resume, paused, world, runs, pc, copies, history>>

Cooldown ==
  /\ Cooldowns /\ cool' = ~cool
  /\ UNCHANGED <<store, alive, result, runs, pc, copies, history>>

WorldStep ==
  \/ \E r \in Run : WorkerWrites(r) \/ WorkerExits(r)
  \/ \E t \in Task, a \in Action : Lapse(t, a)
  \/ Cooldown

Next ==
  \/ \E S \in Scopes : TickBegin(S)
  \/ TickStep \/ TickCrash
  \/ OperatorStep
  \/ WorldStep

Spec == Init /\ [][Next]_vars

\* A timer starts a tick over all tasks every ten minutes, and a tick that has
\* begun runs on.  Nothing is assumed of the operator or of the workers.
FairSpec == Spec /\ WF_vars(TickBegin(Task)) /\ WF_vars(TickStep)

-----------------------------------------------------------------------------
(* Properties.                                                              *)

TaskRecord == [status : TaskStatus, ticket : Run \cup {0},
               provider : {"primary", "backup"}, deferred : BOOLEAN]
LedgerFile == [Task -> [Action -> Answer]]

\* The files, the copies and the histories have the shapes the code gives them.
TypeOK ==
  /\ tasks \in [Task -> TaskRecord] /\ mt \in [Task -> TaskRecord]
  /\ ledger \in LedgerFile /\ ml \in LedgerFile
  /\ probes \in [Run -> Phase] /\ mp \in [Run -> Phase] /\ outcome \in [Run -> Phase]
  /\ resume \in [Task -> ResumeStatus]
  /\ result \in [Task -> Run \cup {0}] /\ runOf \in [Run -> Task \cup {0}]
  /\ alive \subseteq Run /\ seen \subseteq Run /\ released \subseteq Run
  /\ scope \subseteq Task /\ stopped \subseteq Task
  /\ {paused, cool, dirty, halted} \subseteq BOOLEAN
  /\ next \in 1..(MaxRuns + 1) /\ count \in 0..NTasks /\ pos \in 1..(NTasks + 1)
  /\ pc \in {"idle", "look", "poll", "apply", "retarget", "dispatch", "record", "save", "abort"}
  /\ credit \in [Task -> [Action -> Int]]

\* Between ticks every worker that runs is the one its task points at, unless
\* the operator cancelled or replaced the task: no worker runs unsupervised
\* and no task is started again while its worker runs.
Supervised ==
  pc = "idle" => \A r \in alive \ released : tasks[runOf[r]].ticket = r

\* A task never has two workers at once that the operator has not let go.
OneLiveRun ==
  \A t \in Task : Cardinality({r \in alive \ released : runOf[r] = t}) <= 1

\* The operator's approval of a dispatch starts one worker and that of a
\* fallback moves tasks once: none is used twice, not even when the tick that
\* used it ended in an error.
CreditHolds == \A t \in Task, a \in Action : credit[t][a] >= 0

\* A task that waits for recovery has its row in the resume store, however the
\* tick that wrote the two was interrupted; only a result that has turned up
\* after all closes the row first.
ResumeRecorded ==
  \A t \in Task : tasks[t].status = "resume_pending" =>
                    resume[t] = "resume_pending" \/ result[t] # 0

\* A ticket a task points at can be polled.
TicketHasProbe == \A t \in Task : tasks[t].ticket # 0 => probes[tasks[t].ticket] # "none"

\* A run that left its result is never called lost, though the process and the
\* result are looked at one after the other while the worker ends.
NoFalseLoss == \A r \in Run : probes[r] = "lost" => result[runOf[r]] # r

\* A task the operator cancelled stays cancelled until he queues it again,
\* whatever its worker does.
CancelHolds == \A t \in stopped : tasks[t].status = "cancelled"

\* A tick restricted to one task leaves the others alone: their rows, their
\* resume rows and their workers.
ScopeRespected ==
  [][\A t \in Task \ scope :
       pc # "idle" => /\ tasks'[t] = tasks[t] /\ resume'[t] = resume[t]
                      /\ RunsOf(t)' = RunsOf(t)]_vars

\* While dispatch is paused no worker is started.
NoLaunchWhilePaused == [][next' # next => ~paused]_vars

\* A launched task whose result is in place does not stay active.
ResultIsSeen ==
  \A t \in Task :
    (tasks[t].status \in {"launched", "running"} /\ result[t] # 0)
      ~> tasks[t].status \notin {"launched", "running"}

\* A queued task whose brief covers its dispatch leaves the queue, unless
\* dispatch is paused again and again.
QueuedIsServed ==
  <>[]~paused => \A t \in BriefTask : tasks[t].status = "queued" ~> tasks[t].status # "queued"
=============================================================================
