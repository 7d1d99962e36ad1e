------------------------- MODULE OffdeskTickProofs -------------------------
(***************************************************************************)
(* What OffdeskTick guarantees for every number of tasks and runs.         *)
(*                                                                         *)
(* Base holds however commands overlap with the tick and wherever it       *)
(* dies: a probe is written before a task points at its ticket, and a run  *)
(* is called lost only when it is gone.  With no command during a tick     *)
(* (Alone) the copies of the tick stay true to the files it will replace.  *)
(* Without a crash either (Steady), and with no task that ends the tick    *)
(* with an error, every live run is watched by its task.                   *)
(***************************************************************************)
EXTENDS OffdeskTick, FiniteSetTheorems, TLAPS

\* TypeOK by what a step changes together, and what the loop has counted.
FilesType ==
  /\ tasks \in [Task -> TaskRecord] /\ ledger \in LedgerFile
  /\ probes \in [Run -> Phase] /\ resume \in [Task -> ResumeStatus] /\ paused \in BOOLEAN
WorldType ==
  /\ cool \in BOOLEAN /\ alive \subseteq Run /\ result \in [Task -> Run \cup {0}]
  /\ next \in 1..(MaxRuns + 1) /\ runOf \in [Run -> Task \cup {0}]
CopiesType ==
  /\ mt \in [Task -> TaskRecord] /\ ml \in LedgerFile
  /\ mp \in [Run -> Phase] /\ outcome \in [Run -> Phase]
  /\ seen \subseteq Run /\ scope \subseteq Task
  /\ dirty \in BOOLEAN /\ halted \in BOOLEAN
LoopType ==
  /\ count \in 0..NTasks /\ pos \in 1..(NTasks + 1) /\ count < pos
  /\ pc \in {"idle", "look", "poll", "apply", "retarget", "dispatch", "record", "save", "abort"}
  /\ pc = "record" => pos \in Task /\ next > 1
HistoryType ==
  /\ released \subseteq Run /\ stopped \subseteq Task
  /\ credit \in [Task -> [Action -> Int]]
Shapes == FilesType /\ WorldType /\ CopiesType /\ LoopType /\ HistoryType

\* The runs that exist so far.
Numbered ==
  /\ \A r \in Run : r < next => runOf[r] \in Task
  /\ \A r \in Run : r >= next =>
       /\ runOf[r] = 0 /\ r \notin alive
       /\ probes[r] = "none" /\ mp[r] = "none" /\ outcome[r] = "none"

\* The task of a run just started is one the loop may serve.
Launching ==
  pc = "record" => runOf[next - 1] = pos /\ pos \in scope /\ Waiting(mt[pos])

\* A ticket a row holds is a run of that task, and it has its probe.
Ticketed(x, t) ==
  x.ticket # 0 => x.ticket < next /\ runOf[x.ticket] = t /\ probes[x.ticket] # "none"
Tickets == \A t \in Task : Ticketed(tasks[t], t) /\ Ticketed(mt[t], t)

\* While it polls, the tick's copy has the probes on file, and a probe whose
\* process it did not see has none any more.
PollTrue ==
  pc = "poll" =>
    \A r \in Run : /\ mp[r] # "none" <=> probes[r] # "none"
                   /\ mp[r] # "none" /\ r \notin seen => r \notin alive

\* A run that is called lost has ended and left no result of its own; one
\* that is called completed has a result at its task's path.
Gone(r) == r \notin alive /\ result[runOf[r]] # r
LostGone ==
  \A r \in Run :
    /\ "lost" \in {probes[r], mp[r], outcome[r]} => Gone(r)
    /\ "completed" \in {probes[r], mp[r], outcome[r]} => result[runOf[r]] # 0

Base == Shapes /\ Numbered /\ Launching /\ Tickets /\ PollTrue /\ LostGone

\* No command during a tick.
Alone == ~Overlap
Steady == ~Overlap /\ ~Crashes

\* A task out of the tick's scope is in its copy as it is on file.
ScopeCopied == pc # "idle" => \A t \in Task \ scope : mt[t] = tasks[t]

PauseRead == pc \in {"retarget", "dispatch", "record", "save", "abort"} => halted = paused

StopsCopied ==
  /\ CancelHolds
  /\ pc # "idle" => \A t \in stopped : mt[t].status = "cancelled"

RowKept(x, t) == x.status = "resume_pending" => resume[t] = "resume_pending" \/ result[t] # 0
RowsCopied ==
  /\ \A t \in Task : RowKept(tasks[t], t)
  /\ pc # "idle" => \A t \in Task : RowKept(mt[t], t)

\* A grant the ledger offers is one nobody used: on file between ticks, in
\* the session's copy during one.
Backs(l) == \A t \in Task, a \in Action : l[t][a] = "approved" => credit[t][a] > 0
Credits ==
  /\ CreditHolds
  /\ pc \in {"idle", "save"} => Backs(ledger)
  /\ pc \notin {"idle", "save"} => Backs(ml) /\ (~dirty => ml = ledger)

\* A live run the operator has not let go is the one its task points at.
Watches(x, r) == x.ticket = r /\ x.status \in {"launched", "running", "completed"}
Watched ==
  /\ pc # "abort"
  /\ pc = "idle" => \A r \in alive \ released : Watches(tasks[runOf[r]], r)
  /\ pc # "idle" => \A r \in alive \ released :
       \/ Watches(mt[runOf[r]], r)
       \/ pc = "record" /\ r = next - 1

-----------------------------------------------------------------------------
\* What the operators of the model return.

LEMMA DecideFacts ==
  ASSUME NEW r, NEW p, NEW living
  PROVE  /\ Decide(r, p, living) \in {"completed", "acknowledged", "lost", p[r]}
         /\ Decide(r, p, living) = "completed" => result[runOf[r]] # 0 \/ p[r] = "completed"
         /\ Decide(r, p, living) = "lost" =>
              result[runOf[r]] = 0 /\ (r \notin living \/ p[r] = "lost")
         /\ Decide(r, p, living) \notin {"completed", "acknowledged", "lost"} =>
              r \in living /\ Decide(r, p, living) = p[r]
BY DEF Decide

LEMMA ReconciledFacts ==
  ASSUME NEW x, NEW d
  PROVE  \/ Reconciled(x, d) = x
         \/ /\ Active(x) /\ x.ticket # 0
            /\ \/ d[x.ticket] = "completed" /\ Reconciled(x, d) = [x EXCEPT !.status = "completed"]
               \/ d[x.ticket] = "lost" /\ Reconciled(x, d) = [x EXCEPT !.status = "resume_pending"]
               \/ d[x.ticket] = "launched" /\ Reconciled(x, d) = [x EXCEPT !.status = "running"]
BY DEF Reconciled, Heard

LEMMA ResumeRowFacts ==
  ASSUME NEW x, NEW row, NEW d
  PROVE  /\ ResumeRow(x, row, d) \in {row, "resume_pending", "resumed"}
         /\ Active(x) /\ x.ticket # 0 /\ d[x.ticket] = "lost" /\ x.status # "resume_pending"
              => ResumeRow(x, row, d) = "resume_pending"
         /\ ResumeRow(x, row, d) # row /\ ResumeRow(x, row, d) = "resumed" =>
              Active(x) /\ x.ticket # 0 /\ d[x.ticket] = "completed"
BY DEF ResumeRow, Heard

LEMMA GatedFacts ==
  ASSUME NEW t
  PROVE  \/ Verdict(t) \notin {"grant", "ask"} /\ Gated(t) = ml
         \/ /\ Verdict(t) = "grant" /\ ml[t]["dispatch"] = "approved"
            /\ Gated(t) = [ml EXCEPT ![t]["dispatch"] = "none"]
         \/ /\ Verdict(t) = "ask"
            /\ Gated(t) = [ml EXCEPT ![t]["dispatch"] = "pending"]
BY DEF Gated, Verdict

LEMMA RowType ==
  ASSUME NEW x \in TaskRecord, NEW s \in TaskStatus
  PROVE  /\ [x EXCEPT !.status = s] \in TaskRecord
         /\ [x EXCEPT !.status = s].status = s
         /\ [x EXCEPT !.status = s].ticket = x.ticket
         /\ [x EXCEPT !.status = s].provider = x.provider
         /\ [x EXCEPT !.status = s].deferred = x.deferred
BY DEF TaskRecord

LEMMA ReconciledType ==
  ASSUME NEW x \in TaskRecord, NEW d
  PROVE  /\ Reconciled(x, d) \in TaskRecord
         /\ Reconciled(x, d).ticket = x.ticket
<1>1. Reconciled(x, d) = x \/ \E s \in TaskStatus : Reconciled(x, d) = [x EXCEPT !.status = s]
    BY ReconciledFacts, Zenon DEF TaskStatus
<1>2. CASE Reconciled(x, d) = x
    BY <1>2
<1>3. ASSUME NEW s \in TaskStatus, Reconciled(x, d) = [x EXCEPT !.status = s]
      PROVE  Reconciled(x, d) \in TaskRecord /\ Reconciled(x, d).ticket = x.ticket
    BY <1>3, RowType
<1> QED BY <1>1, <1>2, <1>3

LEMMA BoundsFacts ==
  /\ MaxRuns \in Nat /\ NTasks \in Nat
  /\ Run = 1..MaxRuns /\ Task = 1..NTasks
  /\ "dispatch" \in Action /\ "fallback" \in Action
BY ConfigAssumption DEF Run, Task, Action

LEMMA DecisionsType ==
  ASSUME NEW S, NEW p \in [Run -> Phase], NEW living
  PROVE  /\ Decisions(S, p, living) \in [Run -> Phase]
         /\ \A r \in Run \ S : Decisions(S, p, living)[r] = "none"
         /\ \A r \in Run \cap S : Decisions(S, p, living)[r] = Decide(r, p, living)
<1>1. \A r \in Run : Decide(r, p, living) \in Phase
    BY DecideFacts DEF Phase
<1>2. "none" \in Phase
    BY DEF Phase
<1> QED BY <1>1, <1>2 DEF Decisions

LEMMA ObservedType ==
  ASSUME NEW p \in [Run -> Phase], NEW d \in [Run -> Phase]
  PROVE  /\ Observed(p, d) \in [Run -> Phase]
         /\ \A r \in Run : Observed(p, d)[r] = IF d[r] = "none" THEN p[r] ELSE d[r]
BY DEF Observed

LEMMA GatedType ==
  ASSUME ml \in LedgerFile, NEW t \in Task
  PROVE  Gated(t) \in LedgerFile
<1>1. \A v \in {"none", "pending"} : [ml EXCEPT ![t]["dispatch"] = v] \in LedgerFile
    BY BoundsFacts DEF LedgerFile, Answer
<1> QED BY <1>1, GatedFacts

LEMMA LedgerType ==
  ASSUME NEW l \in LedgerFile, NEW t \in Task, NEW a \in Action, NEW v \in Answer
  PROVE  /\ [l EXCEPT ![t][a] = v] \in LedgerFile
         /\ \A u \in Task, b \in Action :
              [l EXCEPT ![t][a] = v][u][b] = IF u = t /\ b = a THEN v ELSE l[u][b]
BY DEF LedgerFile

LEMMA SweptType ==
  ASSUME NEW l \in LedgerFile
  PROVE  Swept(l) \in LedgerFile
BY DEF Swept, LedgerFile, Answer

LEMMA CreditType ==
  ASSUME NEW f \in [Task -> [Action -> Int]], NEW t \in Task, NEW a \in Action
  PROVE  /\ [f EXCEPT ![t][a] = @ - 1] \in [Task -> [Action -> Int]]
         /\ [f EXCEPT ![t][a] = 1] \in [Task -> [Action -> Int]]
OBVIOUS

LEMMA EmptyTypes ==
  /\ [t \in Task |-> NoTask] \in [Task -> TaskRecord]
  /\ NewTask \in TaskRecord
  /\ NoLedger \in LedgerFile /\ NoOutcome \in [Run -> Phase]
<1>1. NoTask \in TaskRecord
    BY DEF NoTask, TaskRecord, TaskStatus
<1>2. NewTask \in TaskRecord
    BY <1>1, RowType DEF NewTask, TaskStatus
<1> QED BY <1>1, <1>2 DEF NoLedger, LedgerFile, Answer, NoOutcome, Phase

LEMMA ShapesAreTypes == Shapes => TypeOK
BY DEF Shapes, FilesType, WorldType, CopiesType, LoopType, HistoryType, TypeOK

LEMMA ShapesInit == Init => Shapes
<1> SUFFICES ASSUME Init
             PROVE  Shapes
    OBVIOUS
<1>1. FilesType
    BY EmptyTypes DEF Init, FilesType, ResumeStatus
<1>2. WorldType
  <2>1. cool \in BOOLEAN
      BY DEF Init
  <2>2. /\ alive \subseteq Run /\ result \in [Task -> Run \cup {0}]
        /\ next \in 1..(MaxRuns + 1) /\ runOf \in [Run -> Task \cup {0}]
      BY BoundsFacts DEF Init
  <2> QED BY <2>1, <2>2 DEF WorldType
<1>3. CopiesType
    BY EmptyTypes DEF Init, CopiesType
<1>4. LoopType
    BY BoundsFacts DEF Init, LoopType
<1>5. HistoryType
    BY DEF Init, HistoryType
<1> QED BY <1>1, <1>2, <1>3, <1>4, <1>5 DEF Shapes

-----------------------------------------------------------------------------
\* Which steps touch which variables.

LEMMA StoreMoves ==
  ASSUME [Next]_vars
  PROVE  \/ UNCHANGED store
         \/ TickPoll \/ TickApply \/ TickRecord \/ TickFlush \/ TickSave \/ TickGiveUp
         \/ \E t \in Task :
              \/ Enqueue(t) \/ CancelTask(t) \/ AbandonTask(t) \/ RetryTask(t)
              \/ \E a \in Action, answer \in {"approved", "denied"} : Resolve(t, a, answer)
              \/ \E a \in Action : Lapse(t, a)
         \/ \E on \in BOOLEAN : SetPause(on)
         \/ \E S \in {Recorded(probes)} \cup {{r} : r \in Recorded(probes)} : Poll(S)
         \/ \E r \in Run : BackgroundAck(r)
<1>1. CASE UNCHANGED vars
    BY <1>1 DEF vars
<1>2. (\E S \in Scopes : TickBegin(S)) \/ TickCrash => UNCHANGED store
    BY DEF TickBegin, TickCrash
<1>3. ASSUME NEW t \in Task,
             TickBlocked(t) \/ TickDenied(t) \/ TickWait(t) \/ TickLaunch(t) \/ TickAbort(t)
      PROVE  UNCHANGED store
    BY <1>3 DEF TickBlocked, TickDenied, TickWait, TickLaunch, TickAbort
<1>4. TickLook \/ TickRetarget \/ TickPass => UNCHANGED store
    BY DEF TickLook, TickRetarget, TickPass
<1>5. (\E r \in Run : WorkerWrites(r) \/ WorkerExits(r)) \/ Cooldown => UNCHANGED store
    BY DEF WorkerWrites, WorkerExits, Cooldown
<1>6. CASE TickStep
    BY <1>3, <1>4, <1>6 DEF TickStep
<1>7. CASE OperatorStep
    BY <1>7, Zenon DEF OperatorStep
<1>8. CASE WorldStep
    BY <1>5, <1>8, Zenon DEF WorldStep
<1> QED BY <1>1, <1>2, <1>6, <1>7, <1>8 DEF Next

LEMMA WorldMoves ==
  ASSUME [Next]_vars
  PROVE  \/ UNCHANGED <<world, runs>>
         \/ \E t \in Task : TickLaunch(t)
         \/ \E r \in Run : WorkerWrites(r) \/ WorkerExits(r)
         \/ Cooldown
<1>1. CASE UNCHANGED vars
    BY <1>1 DEF vars
<1>2. (\E S \in Scopes : TickBegin(S)) \/ TickCrash => UNCHANGED <<world, runs>>
    BY DEF TickBegin, TickCrash
<1>3. ASSUME NEW t \in Task,
             TickBlocked(t) \/ TickDenied(t) \/ TickWait(t) \/ TickAbort(t)
      PROVE  UNCHANGED <<world, runs>>
    BY <1>3 DEF TickBlocked, TickDenied, TickWait, TickAbort
<1>4. ASSUME \/ TickLook \/ TickPoll \/ TickApply \/ TickRetarget \/ TickPass
             \/ TickRecord \/ TickFlush \/ TickSave \/ TickGiveUp
      PROVE  UNCHANGED <<world, runs>>
    BY <1>4 DEF TickLook, TickPoll, TickApply, TickRetarget, TickPass, TickRecord, TickFlush,
                TickSave, TickGiveUp
<1>5. CASE TickStep
    BY <1>3, <1>4, <1>5 DEF TickStep
<1>6. CASE OperatorStep
    BY <1>6 DEF OperatorStep, Enqueue, CancelTask, AbandonTask, Stop, RetryTask, Resolve,
                SetPause, Poll, BackgroundAck
<1>7. CASE WorldStep
    BY <1>7 DEF WorldStep, Lapse
<1> QED BY <1>1, <1>2, <1>5, <1>6, <1>7 DEF Next

LEMMA CopyMoves ==
  ASSUME [Next]_vars
  PROVE  \/ UNCHANGED <<pc, copies>>
         \/ \E S \in Scopes : TickBegin(S)
         \/ TickStep
         \/ TickCrash
<1>1. CASE UNCHANGED vars
    BY <1>1 DEF vars
<1>2. CASE OperatorStep
    BY <1>2 DEF OperatorStep, Enqueue, CancelTask, AbandonTask, Stop, RetryTask, Resolve,
                SetPause, Poll, BackgroundAck
<1>3. CASE WorldStep
    BY <1>3 DEF WorldStep, WorkerWrites, WorkerExits, Lapse, Cooldown
<1> QED BY <1>1, <1>2, <1>3, Zenon DEF Next

LEMMA HistoryMoves ==
  ASSUME [Next]_vars
  PROVE  \/ UNCHANGED history
         \/ TickRetarget
         \/ \E t \in Task :
              \/ TickLaunch(t) \/ TickAbort(t)
              \/ Enqueue(t) \/ CancelTask(t) \/ AbandonTask(t) \/ RetryTask(t)
              \/ \E a \in Action, answer \in {"approved", "denied"} : Resolve(t, a, answer)
<1>1. CASE UNCHANGED vars
    BY <1>1 DEF vars
<1>2. (\E S \in Scopes : TickBegin(S)) \/ TickCrash => UNCHANGED history
    BY DEF TickBegin, TickCrash
<1>3. ASSUME NEW t \in Task, TickBlocked(t) \/ TickDenied(t) \/ TickWait(t)
      PROVE  UNCHANGED history
    BY <1>3 DEF TickBlocked, TickDenied, TickWait
<1>4. ASSUME \/ TickLook \/ TickPoll \/ TickApply \/ TickPass
             \/ TickRecord \/ TickFlush \/ TickSave \/ TickGiveUp
      PROVE  UNCHANGED history
    BY <1>4 DEF TickLook, TickPoll, TickApply, TickPass, TickRecord, TickFlush, TickSave,
                TickGiveUp
<1>5. CASE TickStep
    BY <1>3, <1>4, <1>5 DEF TickStep
<1>6. /\ (\E on \in BOOLEAN : SetPause(on)) => UNCHANGED history
      /\ (\E r \in Run : BackgroundAck(r)) => UNCHANGED history
      /\ \A S : Poll(S) => UNCHANGED history
    BY DEF SetPause, Poll, BackgroundAck
<1>7. CASE OperatorStep
    BY <1>6, <1>7, Zenon DEF OperatorStep
<1>8. CASE WorldStep
    BY <1>8 DEF WorldStep, WorkerWrites, WorkerExits, Lapse, Cooldown
<1> QED BY <1>1, <1>2, <1>5, <1>7, <1>8 DEF Next

-----------------------------------------------------------------------------
\* Shapes is kept.

LEMMA ClosedType ==
  ASSUME resume \in [Task -> ResumeStatus], NEW t \in Task, NEW row \in ResumeStatus
  PROVE  Closed(t, row) \in [Task -> ResumeStatus]
BY DEF Closed

LEMMA RowStateType ==
  ASSUME NEW x, NEW row \in ResumeStatus, NEW d
  PROVE  ResumeRow(x, row, d) \in ResumeStatus
BY ResumeRowFacts DEF ResumeStatus

LEMMA RequeuedType ==
  ASSUME NEW x \in TaskRecord
  PROVE  /\ Requeued(x) \in TaskRecord
         /\ Requeued(x).status = "queued" /\ Requeued(x).ticket = 0
BY DEF Requeued, TaskRecord, TaskStatus

LEMMA StopEffect ==
  ASSUME NEW t \in Task, CancelTask(t) \/ AbandonTask(t)
  PROVE  /\ tasks[t].status \notin {"absent", "cancelled", "completed"}
         /\ tasks' = [tasks EXCEPT ![t].status = "cancelled"]
         /\ \E row \in {"cancelled", "abandoned"} : resume' \in {resume, Closed(t, row)}
         /\ released' = released \cup RunsOf(t) /\ stopped' = stopped \cup {t}
         /\ UNCHANGED <<ledger, probes, paused, world, runs, pc, copies, credit>>
         /\ Overlap \/ pc = "idle"
<1>1. CASE CancelTask(t)
    BY <1>1 DEF CancelTask, Stop, MayGive
<1>2. CASE AbandonTask(t)
    BY <1>2 DEF AbandonTask, Stop, MayGive
<1> QED BY <1>1, <1>2

LEMMA RetryEffect ==
  ASSUME NEW t \in Task, RetryTask(t)
  PROVE  /\ \/ /\ tasks[t].status \in {"failed", "resume_pending", "cancelled"}
               /\ tasks' = [tasks EXCEPT ![t] = Requeued(tasks[t])]
               /\ resume' \in {resume, Closed(t, "resumed")}
               /\ stopped' = stopped \ {t}
            \/ UNCHANGED <<tasks, resume, stopped>>
         /\ \/ ledger' = ledger
            \/ /\ ledger[t]["dispatch"] = "denied"
               /\ ledger' = [ledger EXCEPT ![t]["dispatch"] = "none"]
         /\ UNCHANGED <<probes, paused, world, runs, pc, copies, released, credit>>
         /\ Overlap \/ pc = "idle"
BY DEF RetryTask, Retryable, MayGive

LEMMA FilesStep ==
  ASSUME Shapes, [Next]_vars
  PROVE  FilesType'
<1> USE DEF FilesType
<1>0. /\ tasks \in [Task -> TaskRecord] /\ ledger \in LedgerFile
      /\ probes \in [Run -> Phase] /\ resume \in [Task -> ResumeStatus] /\ paused \in BOOLEAN
      /\ mt \in [Task -> TaskRecord] /\ ml \in LedgerFile
      /\ mp \in [Run -> Phase] /\ outcome \in [Run -> Phase]
      /\ next \in 1..(MaxRuns + 1) /\ (pc = "record" => next > 1)
    BY DEF Shapes, CopiesType, LoopType, WorldType
<1>1. CASE UNCHANGED store
    BY <1>0, <1>1 DEF store
<1>2. CASE TickPoll
  <2>1. PICK S : /\ probes' = (IF S = {} THEN probes ELSE Observed(mp, Decisions(S, mp, seen)))
                 /\ UNCHANGED <<tasks, ledger, resume, paused>>
      BY <1>2 DEF TickPoll
  <2>2. probes' \in [Run -> Phase]
      BY <1>0, <2>1, DecisionsType, ObservedType
  <2> QED BY <1>0, <2>1, <2>2
<1>3. CASE TickApply
  <2>1. /\ resume' = [t \in Task |-> IF t \in scope THEN ResumeRow(mt[t], resume[t], outcome)
                                                    ELSE resume[t]]
        /\ UNCHANGED <<tasks, ledger, probes, paused>>
      BY <1>3 DEF TickApply
  <2>2. resume' \in [Task -> ResumeStatus]
      BY <1>0, <2>1, RowStateType
  <2> QED BY <1>0, <2>1, <2>2
<1>4. CASE TickRecord
  <2>1. /\ probes' = [probes EXCEPT ![next - 1] = "launched"]
        /\ UNCHANGED <<tasks, ledger, resume, paused>>
      BY <1>4 DEF TickRecord
  <2>2. "launched" \in Phase
      BY DEF Phase
  <2>3. probes' \in [Run -> Phase]
      BY <1>0, <2>1, <2>2
  <2> QED BY <1>0, <2>1, <2>3
<1>5. CASE TickFlush \/ TickGiveUp
  <2>1. ledger' = Flushed /\ UNCHANGED <<tasks, probes, resume, paused>>
      BY <1>5 DEF TickFlush, TickGiveUp
  <2>2. Flushed \in {ml, ledger}
      BY DEF Flushed
  <2> QED BY <1>0, <2>1, <2>2
<1>6. CASE TickSave
    BY <1>0, <1>6 DEF TickSave
<1>7. ASSUME NEW t \in Task, Enqueue(t)
      PROVE  FilesType'
    BY <1>0, <1>7, EmptyTypes DEF Enqueue
<1>8. ASSUME NEW t \in Task, CancelTask(t) \/ AbandonTask(t)
      PROVE  FilesType'
  <2>1. PICK row \in {"cancelled", "abandoned"} : resume' \in {resume, Closed(t, row)}
      BY <1>8, StopEffect
  <2>2. resume' \in [Task -> ResumeStatus]
      BY <1>0, <2>1, ClosedType DEF ResumeStatus
  <2>3. /\ tasks' = [tasks EXCEPT ![t].status = "cancelled"]
        /\ UNCHANGED <<ledger, probes, paused>>
      BY <1>8, StopEffect
  <2>4. [tasks[t] EXCEPT !.status = "cancelled"] \in TaskRecord
      BY <1>0, RowType DEF TaskStatus
  <2>5. tasks' \in [Task -> TaskRecord]
      BY <1>0, <2>3, <2>4
  <2> QED BY <1>0, <2>2, <2>3, <2>5
<1>9. ASSUME NEW t \in Task, RetryTask(t)
      PROVE  FilesType'
  <2>1. resume' \in {resume, Closed(t, "resumed")}
      BY <1>9, RetryEffect
  <2>2. resume' \in [Task -> ResumeStatus]
      BY <1>0, <2>1, ClosedType DEF ResumeStatus
  <2>3. tasks' = tasks \/ tasks' = [tasks EXCEPT ![t] = Requeued(tasks[t])]
      BY <1>9, RetryEffect
  <2>4. tasks' \in [Task -> TaskRecord]
      BY <1>0, <2>3, RequeuedType
  <2>5. ledger' = ledger \/ ledger' = [ledger EXCEPT ![t]["dispatch"] = "none"]
      BY <1>9, RetryEffect
  <2>6. [ledger EXCEPT ![t]["dispatch"] = "none"] \in LedgerFile
      BY <1>0, BoundsFacts DEF LedgerFile, Answer
  <2>7. ledger' \in LedgerFile
      BY <1>0, <2>5, <2>6
  <2> QED BY <1>0, <1>9, <2>2, <2>4, <2>7, RetryEffect
<1>10. ASSUME NEW t \in Task, NEW a \in Action, NEW answer \in {"approved", "denied"},
              Resolve(t, a, answer)
       PROVE  FilesType'
  <2>1. /\ ledger' = [Swept(ledger) EXCEPT ![t][a] = answer]
        /\ UNCHANGED <<tasks, probes, resume, paused>>
      BY <1>10 DEF Resolve
  <2>2. Swept(ledger) \in LedgerFile
      BY <1>0, SweptType
  <2>3. ledger' \in LedgerFile
      BY <2>1, <2>2, LedgerType DEF Answer
  <2> QED BY <1>0, <2>1, <2>3
<1>11. ASSUME NEW t \in Task, NEW a \in Action, Lapse(t, a)
       PROVE  FilesType'
  <2>1. /\ \/ ledger' = [ledger EXCEPT ![t][a] = "lapsed"]
           \/ ledger' = [ledger EXCEPT ![t][a] = "none"]
        /\ UNCHANGED <<tasks, probes, resume, paused>>
      BY <1>11 DEF Lapse
  <2>2. /\ [ledger EXCEPT ![t][a] = "lapsed"] \in LedgerFile
        /\ [ledger EXCEPT ![t][a] = "none"] \in LedgerFile
      BY <1>0 DEF LedgerFile, Answer
  <2>3. ledger' \in LedgerFile
      BY <2>1, <2>2
  <2> QED BY <1>0, <2>1, <2>3
<1>12. ASSUME NEW on \in BOOLEAN, SetPause(on)
       PROVE  FilesType'
    BY <1>0, <1>12 DEF SetPause
<1>13. ASSUME NEW S, Poll(S)
       PROVE  FilesType'
  <2>1. /\ probes' = Observed(probes, Decisions(S, probes, alive))
        /\ \/ UNCHANGED <<tasks, resume>>
           \/ /\ tasks' = [t \in Task |-> Reconciled(tasks[t], Decisions(S, probes, alive))]
              /\ resume' = [t \in Task |->
                              ResumeRow(tasks[t], resume[t], Decisions(S, probes, alive))]
        /\ UNCHANGED <<ledger, paused>>
      BY <1>13 DEF Poll
  <2>2. probes' \in [Run -> Phase]
      BY <1>0, <2>1, DecisionsType, ObservedType
  <2>3. tasks' \in [Task -> TaskRecord]
      BY <1>0, <2>1, ReconciledType
  <2>4. resume' \in [Task -> ResumeStatus]
      BY <1>0, <2>1, RowStateType
  <2> QED BY <1>0, <2>1, <2>2, <2>3, <2>4
<1>14. ASSUME NEW r \in Run, BackgroundAck(r)
       PROVE  FilesType'
  <2>1. /\ \/ probes' = [probes EXCEPT ![r] = "acknowledged"]
           \/ probes' = [probes EXCEPT ![r] = Decide(r, probes, alive)]
        /\ UNCHANGED <<tasks, ledger, resume, paused>>
      BY <1>14 DEF BackgroundAck
  <2>2. Decide(r, probes, alive) \in Phase /\ "acknowledged" \in Phase
      BY <1>0, DecideFacts DEF Phase
  <2>3. probes' \in [Run -> Phase]
      BY <1>0, <2>1, <2>2
  <2> QED BY <1>0, <2>1, <2>3
<1> QED BY <1>1, <1>2, <1>3, <1>4, <1>5, <1>6, <1>7, <1>8, <1>9, <1>10, <1>11, <1>12, <1>13,
           <1>14, StoreMoves

LEMMA WorldTypeStep ==
  ASSUME Shapes, [Next]_vars
  PROVE  WorldType'
<1> USE DEF WorldType
<1>0. /\ alive \subseteq Run /\ result \in [Task -> Run \cup {0}]
      /\ next \in 1..(MaxRuns + 1) /\ runOf \in [Run -> Task \cup {0}]
      /\ cool \in BOOLEAN
    BY DEF Shapes
<1>1. CASE UNCHANGED <<world, runs>>
    BY <1>0, <1>1 DEF world, runs
<1>2. ASSUME NEW t \in Task, TickLaunch(t)
      PROVE  WorldType'
  <2>1. /\ next <= MaxRuns /\ alive' = alive \cup {next} /\ runOf' = [runOf EXCEPT ![next] = t]
        /\ next' = next + 1 /\ cool' = cool /\ result' = result
      BY <1>2 DEF TickLaunch
  <2>2. alive' \subseteq Run /\ next' \in 1..(MaxRuns + 1)
      BY <1>0, <2>1, BoundsFacts
  <2> QED BY <1>0, <2>1, <2>2
<1>3. ASSUME NEW r \in Run, WorkerWrites(r) \/ WorkerExits(r)
      PROVE  WorldType'
    BY <1>0, <1>3 DEF WorkerWrites, WorkerExits, runs
<1>4. CASE Cooldown
    BY <1>0, <1>4 DEF Cooldown, runs
<1> QED BY <1>1, <1>2, <1>3, <1>4, WorldMoves

LEMMA HistoryStep ==
  ASSUME Shapes, [Next]_vars
  PROVE  HistoryType'
<1> USE DEF HistoryType
<1>0. released \subseteq Run /\ stopped \subseteq Task /\ credit \in [Task -> [Action -> Int]]
    BY DEF Shapes
<1>1. CASE UNCHANGED history
    BY <1>0, <1>1 DEF history
<1>2. CASE TickRetarget
  <2>1. /\ UNCHANGED <<released, stopped>>
        /\ credit' = credit \/ \E a \in Task : credit' = [credit EXCEPT ![a]["fallback"] = @ - 1]
      BY <1>2 DEF TickRetarget
  <2>2. \A a \in Task : [credit EXCEPT ![a]["fallback"] = @ - 1] \in [Task -> [Action -> Int]]
      BY <1>0, BoundsFacts
  <2> QED BY <1>0, <2>1, <2>2
<1>3. ASSUME NEW t \in Task, TickLaunch(t) \/ TickAbort(t)
      PROVE  HistoryType'
  <2>1. /\ UNCHANGED <<released, stopped>>
        /\ credit' \in {credit, [credit EXCEPT ![t]["dispatch"] = @ - 1]}
      BY <1>3 DEF TickLaunch, TickAbort, Spent
  <2>2. [credit EXCEPT ![t]["dispatch"] = @ - 1] \in [Task -> [Action -> Int]]
      BY <1>0, BoundsFacts
  <2> QED BY <1>0, <2>1, <2>2
<1>4. ASSUME NEW t \in Task, Enqueue(t)
      PROVE  HistoryType'
    BY <1>0, <1>4 DEF Enqueue, RunsOf
<1>5. ASSUME NEW t \in Task, CancelTask(t) \/ AbandonTask(t)
      PROVE  HistoryType'
    BY <1>0, <1>5, StopEffect DEF RunsOf
<1>6. ASSUME NEW t \in Task, RetryTask(t)
      PROVE  HistoryType'
    BY <1>0, <1>6, RetryEffect
<1>7. ASSUME NEW t \in Task, NEW a \in Action, NEW answer \in {"approved", "denied"},
             Resolve(t, a, answer)
      PROVE  HistoryType'
    BY <1>0, <1>7, CreditType DEF Resolve
<1> QED BY <1>1, <1>2, <1>3, <1>4, <1>5, <1>6, <1>7, HistoryMoves

\* What the dispatch loop does with a task it does not start.
LEMMA ServedEffect ==
  ASSUME Shapes, NEW t \in Task, TickBlocked(t) \/ TickDenied(t) \/ TickWait(t)
  PROVE  /\ pc = "dispatch" /\ pos = t /\ ~Passed(t) /\ t \notin RemoteTask
         /\ \E s \in {"queued", "failed", "pending_approval"} :
              \E x \in TaskRecord :
                /\ x.status = s /\ x.ticket = mt[t].ticket
                /\ mt' = [mt EXCEPT ![t] = x]
         /\ count' \in {count, count + 1} /\ pos' = pos + 1
         /\ UNCHANGED <<store, world, runs, pc, scope, mp, seen, outcome, halted, history>>
<1>1. mt[t] \in TaskRecord
    BY DEF Shapes, CopiesType
<1>2. CASE TickBlocked(t)
  <2>1. /\ pc = "dispatch" /\ pos = t /\ ~Passed(t) /\ t \notin RemoteTask
        /\ mt' = [mt EXCEPT ![t] = [mt[t] EXCEPT !.status = "queued", !.deferred = TRUE]]
        /\ count' \in {count, count + 1} /\ pos' = pos + 1
        /\ UNCHANGED <<store, world, runs, pc, scope, mp, seen, outcome, halted, history>>
      BY <1>2 DEF TickBlocked, Serve, At, Served
  <2>2. PICK x : x = [mt[t] EXCEPT !.status = "queued", !.deferred = TRUE]
      OBVIOUS
  <2>3. x \in TaskRecord /\ x.status = "queued" /\ x.ticket = mt[t].ticket
      BY <1>1, <2>2 DEF TaskRecord, TaskStatus
  <2> QED BY <2>1, <2>2, <2>3
<1>3. CASE TickDenied(t)
  <2>1. /\ pc = "dispatch" /\ pos = t /\ ~Passed(t) /\ t \notin RemoteTask
        /\ mt' = [mt EXCEPT ![t] = [mt[t] EXCEPT !.status = "failed"]]
        /\ count' \in {count, count + 1} /\ pos' = pos + 1
        /\ UNCHANGED <<store, world, runs, pc, scope, mp, seen, outcome, halted, history>>
      BY <1>3 DEF TickDenied, Serve, At, Served
  <2>2. PICK x : x = [mt[t] EXCEPT !.status = "failed"]
      OBVIOUS
  <2>3. x \in TaskRecord /\ x.status = "failed" /\ x.ticket = mt[t].ticket
      BY <1>1, <2>2 DEF TaskRecord, TaskStatus
  <2> QED BY <2>1, <2>2, <2>3
<1>4. CASE TickWait(t)
  <2>1. /\ pc = "dispatch" /\ pos = t /\ ~Passed(t) /\ t \notin RemoteTask
        /\ mt' = [mt EXCEPT ![t] = [mt[t] EXCEPT !.status = "pending_approval"]]
        /\ count' \in {count, count + 1} /\ pos' = pos + 1
        /\ UNCHANGED <<store, world, runs, pc, scope, mp, seen, outcome, halted, history>>
      BY <1>4 DEF TickWait, Serve, At, Served
  <2>2. PICK x : x = [mt[t] EXCEPT !.status = "pending_approval"]
      OBVIOUS
  <2>3. x \in TaskRecord /\ x.status = "pending_approval" /\ x.ticket = mt[t].ticket
      BY <1>1, <2>2 DEF TaskRecord, TaskStatus
  <2> QED BY <2>1, <2>2, <2>3
<1> QED BY <1>2, <1>3, <1>4

LEMMA RecordEffect ==
  ASSUME Shapes, TickRecord
  PROVE  /\ pc = "record" /\ pc' = "dispatch" /\ pos \in Task
         /\ next - 1 \in Run /\ next \in Nat /\ next - 1 < next
         /\ probes' = [probes EXCEPT ![next - 1] = "launched"]
         /\ \E x \in TaskRecord :
              /\ x.status = "launched" /\ x.ticket = next - 1
              /\ mt' = [mt EXCEPT ![pos] = x]
         /\ count' \in {count, count + 1} /\ pos' = pos + 1
         /\ UNCHANGED <<tasks, ledger, resume, paused, world, runs, scope, ml, mp, dirty, seen,
                        outcome, halted, history>>
<1>1. pos \in Task /\ mt[pos] \in TaskRecord
    BY DEF Shapes, CopiesType, LoopType, TickRecord
<1>2. next - 1 \in Run /\ next \in Nat /\ next - 1 < next
    BY BoundsFacts DEF Shapes, WorldType, LoopType, TickRecord
<1>3. /\ pc = "record" /\ pc' = "dispatch"
      /\ probes' = [probes EXCEPT ![next - 1] = "launched"]
      /\ mt' = [mt EXCEPT ![pos] = [mt[pos] EXCEPT !.status = "launched", !.ticket = next - 1]]
      /\ count' \in {count, count + 1} /\ pos' = pos + 1
      /\ UNCHANGED <<tasks, ledger, resume, paused, world, runs, scope, ml, mp, dirty, seen,
                     outcome, halted, history>>
    BY DEF TickRecord, Served
<1>4. PICK x : x = [mt[pos] EXCEPT !.status = "launched", !.ticket = next - 1]
    OBVIOUS
<1>5. x \in TaskRecord /\ x.status = "launched" /\ x.ticket = next - 1
    BY <1>1, <1>2, <1>4 DEF TaskRecord, TaskStatus
<1> QED BY <1>1, <1>2, <1>3, <1>4, <1>5

LEMMA SessionStep ==
  ASSUME Shapes, [Next]_vars
  PROVE  ml' \in LedgerFile /\ dirty' \in BOOLEAN
<1>0. /\ ml \in LedgerFile /\ ledger \in LedgerFile /\ dirty \in BOOLEAN
    BY DEF Shapes, CopiesType, FilesType
<1>1. CASE UNCHANGED <<pc, copies>>
    BY <1>0, <1>1 DEF copies
<1>2. ASSUME NEW S \in Scopes, TickBegin(S)
      PROVE  ml' \in LedgerFile /\ dirty' \in BOOLEAN
  <2>1. ml' = Swept(ledger) /\ dirty' = (Swept(ledger) # ledger)
      BY <1>2 DEF TickBegin
  <2>2. ml' \in LedgerFile
      BY <1>0, <2>1, SweptType
  <2>3. dirty' \in BOOLEAN
      BY <2>1
  <2> QED BY <2>2, <2>3
<1>3. CASE TickCrash \/ TickSave \/ TickGiveUp
    BY <1>3, EmptyTypes DEF TickCrash, TickSave, TickGiveUp, Forget
<1>4. CASE TickRetarget
  <2>1. UNCHANGED <<ml, dirty>> \/ \E a \in Task : ml' = FallbackUsed(a) /\ dirty' = TRUE
      BY <1>4 DEF TickRetarget
  <2>2. \A a \in Task : FallbackUsed(a) \in LedgerFile
      BY <1>0, BoundsFacts DEF FallbackUsed, LedgerFile, Answer
  <2> QED BY <1>0, <2>1, <2>2
<1>5. ASSUME NEW t \in Task, TickWait(t) \/ TickLaunch(t) \/ TickAbort(t)
      PROVE  ml' \in LedgerFile /\ dirty' \in BOOLEAN
  <2>1. ml' = Gated(t)
      BY <1>5 DEF TickWait, TickLaunch, TickAbort
  <2>2. dirty' = (dirty \/ Gated(t) # ml)
      BY <1>5 DEF TickWait, TickLaunch, TickAbort
  <2>3. ml' \in LedgerFile
      BY <1>0, <2>1, GatedType
  <2>4. dirty' \in BOOLEAN
      BY <2>2
  <2> QED BY <2>3, <2>4
<1>6. ASSUME NEW t \in Task, TickBlocked(t)
      PROVE  ml' \in LedgerFile /\ dirty' \in BOOLEAN
  <2>1. UNCHANGED <<ml, dirty>> \/ (ml' = [ml EXCEPT ![t]["fallback"] = "pending"] /\ dirty' = TRUE)
      BY <1>6 DEF TickBlocked
  <2>2. [ml EXCEPT ![t]["fallback"] = "pending"] \in LedgerFile
      BY <1>0, BoundsFacts DEF LedgerFile, Answer
  <2> QED BY <1>0, <2>1, <2>2
<1>7. ASSUME \/ TickLook \/ TickPoll \/ TickApply \/ TickPass \/ TickRecord \/ TickFlush
             \/ \E t \in Task : TickDenied(t)
      PROVE  UNCHANGED <<ml, dirty>>
    BY <1>7 DEF TickLook, TickPoll, TickApply, TickPass, TickRecord, TickFlush, TickDenied, copies
<1>8. CASE TickStep
    BY <1>0, <1>3, <1>4, <1>5, <1>6, <1>7, <1>8 DEF TickStep
<1> QED BY <1>1, <1>2, <1>3, <1>8, CopyMoves

LEMMA CopiesStep ==
  ASSUME Shapes, [Next]_vars
  PROVE  /\ mt' \in [Task -> TaskRecord]
         /\ mp' \in [Run -> Phase] /\ outcome' \in [Run -> Phase]
         /\ seen' \subseteq Run /\ scope' \subseteq Task
         /\ halted' \in BOOLEAN
<1> DEFINE Good == /\ mt' \in [Task -> TaskRecord]
                   /\ mp' \in [Run -> Phase] /\ outcome' \in [Run -> Phase]
                   /\ seen' \subseteq Run /\ scope' \subseteq Task
                   /\ halted' \in BOOLEAN
<1>0. /\ mt \in [Task -> TaskRecord] /\ tasks \in [Task -> TaskRecord]
      /\ mp \in [Run -> Phase] /\ outcome \in [Run -> Phase] /\ probes \in [Run -> Phase]
      /\ seen \subseteq Run /\ scope \subseteq Task /\ alive \subseteq Run
      /\ halted \in BOOLEAN /\ paused \in BOOLEAN
    BY DEF Shapes, CopiesType, FilesType, WorldType
<1>1. CASE UNCHANGED <<pc, copies>>
    BY <1>0, <1>1 DEF copies
<1>2. ASSUME NEW S \in Scopes, TickBegin(S)
      PROVE  Good
  <2>1. S \subseteq Task
      BY ConfigAssumption DEF Scopes
  <2>2. scope' = S /\ mt' = tasks /\ UNCHANGED <<mp, outcome, seen, halted>>
      BY <1>2 DEF TickBegin
  <2> QED BY <1>0, <2>1, <2>2
<1>3. CASE TickCrash \/ TickSave \/ TickGiveUp
    BY <1>3, EmptyTypes DEF TickCrash, TickSave, TickGiveUp, Forget
<1>4. CASE TickLook
    BY <1>0, <1>4 DEF TickLook
<1>5. CASE TickPoll
  <2>1. PICK S : /\ outcome' = Decisions(S, mp, seen) /\ mp' = NoOutcome /\ seen' = {}
                 /\ UNCHANGED <<mt, scope, halted>>
      BY <1>5 DEF TickPoll
  <2>2. outcome' \in [Run -> Phase]
      BY <1>0, <2>1, DecisionsType
  <2> QED BY <1>0, <2>1, <2>2, EmptyTypes
<1>6. CASE TickApply
  <2>1. /\ mt' = [t \in Task |-> IF t \in scope THEN Reconciled(mt[t], outcome) ELSE mt[t]]
        /\ outcome' = NoOutcome /\ UNCHANGED <<mp, seen, scope>>
      BY <1>6 DEF TickApply
  <2>2. halted' \in BOOLEAN
      BY <1>0, <1>6 DEF TickApply
  <2>3. mt' \in [Task -> TaskRecord]
      BY <1>0, <2>1, ReconciledType
  <2> QED BY <1>0, <2>1, <2>2, <2>3, EmptyTypes
<1>7. CASE TickRetarget
  <2>1. /\ \/ mt' = mt
           \/ \E moved : mt' = [t \in Task |->
                            IF t \in moved
                            THEN [mt[t] EXCEPT !.provider = "backup", !.deferred = FALSE]
                            ELSE mt[t]]
        /\ UNCHANGED <<mp, outcome, seen, scope, halted>>
      BY <1>7 DEF TickRetarget
  <2>2. \A t \in Task : [mt[t] EXCEPT !.provider = "backup", !.deferred = FALSE] \in TaskRecord
      BY <1>0 DEF TaskRecord
  <2>3. mt' \in [Task -> TaskRecord]
      BY <1>0, <2>1, <2>2
  <2> QED BY <1>0, <2>1, <2>3
<1>8. CASE TickPass \/ TickFlush
    BY <1>0, <1>8 DEF TickPass, TickFlush, copies
<1>9. CASE TickRecord
    BY <1>0, <1>9, RecordEffect
<1>10. ASSUME NEW t \in Task, TickBlocked(t) \/ TickDenied(t) \/ TickWait(t)
       PROVE  Good
    BY <1>0, <1>10, ServedEffect
<1>11. ASSUME NEW t \in Task, TickLaunch(t) \/ TickAbort(t)
       PROVE  Good
    BY <1>0, <1>11 DEF TickLaunch, TickAbort
<1>12. CASE TickStep
    BY <1>3, <1>4, <1>5, <1>6, <1>7, <1>8, <1>9, <1>10, <1>11, <1>12 DEF TickStep
<1> QED BY <1>1, <1>2, <1>3, <1>12, CopyMoves

LEMMA LoopStep ==
  ASSUME Shapes, [Next]_vars
  PROVE  LoopType'
<1> USE DEF LoopType
<1>0. /\ count \in 0..NTasks /\ pos \in 1..(NTasks + 1) /\ count < pos
      /\ pc \in {"idle", "look", "poll", "apply", "retarget", "dispatch", "record", "save",
                 "abort"}
      /\ pc = "record" => pos \in Task /\ next > 1
    BY DEF Shapes
<1>1. CASE UNCHANGED <<pc, copies>>
  <2>1. next' = next \/ next' = next + 1
    <3>1. next' = next \/ \E t \in Task : TickLaunch(t)
        BY WorldMoves DEF runs, WorkerWrites, WorkerExits, Cooldown
    <3> QED BY <3>1 DEF TickLaunch
  <2>2. next \in Nat
      BY BoundsFacts DEF Shapes, WorldType
  <2> QED BY <1>0, <1>1, <2>1, <2>2 DEF copies
<1>2. ASSUME NEW S \in Scopes, TickBegin(S)
      PROVE  LoopType'
    BY <1>0, <1>2 DEF TickBegin
<1>3. CASE TickCrash \/ TickSave \/ TickGiveUp
    BY <1>3, BoundsFacts DEF TickCrash, TickSave, TickGiveUp, Forget
<1>4. CASE TickLook \/ TickPoll \/ TickApply \/ TickRetarget \/ TickFlush
    BY <1>0, <1>4 DEF TickLook, TickPoll, TickApply, TickRetarget, TickFlush, copies
<1>5. CASE TickPass
    BY <1>0, <1>5, BoundsFacts DEF TickPass
<1>6. CASE TickRecord
  <2>1. pos \in Task /\ pc' = "dispatch" /\ count' \in {count, count + 1} /\ pos' = pos + 1
      BY <1>6, RecordEffect
  <2> QED BY <1>0, <2>1, BoundsFacts
<1>7. ASSUME NEW t \in Task, TickBlocked(t) \/ TickDenied(t) \/ TickWait(t)
      PROVE  LoopType'
  <2>1. pc = "dispatch" /\ pc' = pc /\ pos = t /\ count' \in {count, count + 1} /\ pos' = pos + 1
      BY <1>7, ServedEffect
  <2> QED BY <1>0, <2>1, BoundsFacts
<1>8. ASSUME NEW t \in Task, TickLaunch(t)
      PROVE  LoopType'
  <2>1. pc' = "record" /\ pos = t /\ UNCHANGED <<count, pos>> /\ next' = next + 1
      BY <1>8 DEF TickLaunch, Serve, At
  <2>2. next \in Nat /\ next >= 1
      BY BoundsFacts DEF Shapes, WorldType
  <2> QED BY <1>0, <2>1, <2>2, BoundsFacts
<1>9. ASSUME NEW t \in Task, TickAbort(t)
      PROVE  LoopType'
    BY <1>0, <1>9 DEF TickAbort
<1>10. CASE TickStep
    BY <1>3, <1>4, <1>5, <1>6, <1>7, <1>8, <1>9, <1>10 DEF TickStep
<1> QED BY <1>1, <1>2, <1>3, <1>10, CopyMoves

LEMMA ShapesStep ==
  ASSUME Shapes, [Next]_vars
  PROVE  Shapes'
<1>1. FilesType' /\ WorldType' /\ LoopType' /\ HistoryType'
    BY FilesStep, WorldTypeStep, LoopStep, HistoryStep
<1>2. CopiesType'
    BY CopiesStep, SessionStep, Zenon DEF CopiesType
<1> QED BY <1>1, <1>2 DEF Shapes

-----------------------------------------------------------------------------
\* The runs that exist so far.

\* The phases a step gives the probes, and who it asked.
LEMMA ProbeMoves ==
  ASSUME Shapes, [Next]_vars
  PROVE  \/ probes' = probes
         \/ /\ pc = "poll"
            /\ \E S \in SUBSET Recorded(mp) :
                 probes' = Observed(mp, Decisions(S, mp, seen))
         \/ TickRecord
         \/ /\ Overlap \/ pc = "idle"
            /\ \E S \in SUBSET Recorded(probes) :
                 probes' = Observed(probes, Decisions(S, probes, alive))
         \/ /\ Overlap \/ pc = "idle"
            /\ \E r \in Recorded(probes) :
                 \/ probes' = [probes EXCEPT ![r] = Decide(r, probes, alive)]
                 \/ /\ Decide(r, probes, alive) = "lost"
                    /\ probes' = [probes EXCEPT ![r] = "acknowledged"]
<1>1. CASE UNCHANGED store
    BY <1>1 DEF store
<1>2. CASE TickPoll
    BY <1>2 DEF TickPoll, Recorded
<1>3. CASE TickApply \/ TickFlush \/ TickSave \/ TickGiveUp
    BY <1>3 DEF TickApply, TickFlush, TickSave, TickGiveUp
<1>4. ASSUME NEW t \in Task,
             \/ Enqueue(t) \/ CancelTask(t) \/ AbandonTask(t) \/ RetryTask(t)
             \/ \E a \in Action, answer \in {"approved", "denied"} : Resolve(t, a, answer)
             \/ \E a \in Action : Lapse(t, a)
      PROVE  probes' = probes
    BY <1>4 DEF Enqueue, CancelTask, AbandonTask, Stop, RetryTask, Resolve, Lapse
<1>5. ASSUME NEW on \in BOOLEAN, SetPause(on)
      PROVE  probes' = probes
    BY <1>5 DEF SetPause
<1>6. ASSUME NEW S \in {Recorded(probes)} \cup {{r} : r \in Recorded(probes)}, Poll(S)
      PROVE  /\ Overlap \/ pc = "idle"
             /\ S \in SUBSET Recorded(probes)
             /\ probes' = Observed(probes, Decisions(S, probes, alive))
    BY <1>6 DEF Poll, MayGive
<1>7. ASSUME NEW r \in Run, BackgroundAck(r)
      PROVE  /\ Overlap \/ pc = "idle"
             /\ r \in Recorded(probes)
             /\ \/ probes' = [probes EXCEPT ![r] = Decide(r, probes, alive)]
                \/ /\ Decide(r, probes, alive) = "lost"
                   /\ probes' = [probes EXCEPT ![r] = "acknowledged"]
    BY <1>7 DEF BackgroundAck, MayGive, Recorded
<1> QED BY <1>1, <1>2, <1>3, <1>4, <1>5, <1>6, <1>7, StoreMoves

\* The polling of the tick: what its copies of the probes become.
LEMMA PollMoves ==
  ASSUME Shapes, [Next]_vars
  PROVE  \/ UNCHANGED <<mp, seen, outcome>> /\ (pc' = "poll" <=> pc = "poll")
         \/ mp' = probes /\ seen' = alive /\ outcome' = outcome /\ UNCHANGED <<probes, world, runs>>
         \/ /\ pc = "poll" /\ pc' = "apply" /\ UNCHANGED <<world, runs>>
            /\ \E S \in SUBSET Recorded(mp) :
                 outcome' = Decisions(S, mp, seen) /\ mp' = NoOutcome
         \/ /\ pc' \in {"idle", "retarget"} /\ UNCHANGED <<world, runs, probes>>
            /\ mp' \in {mp, NoOutcome} /\ outcome' = NoOutcome
<1>1. CASE UNCHANGED <<pc, copies>>
    BY <1>1 DEF copies
<1>2. ASSUME NEW S \in Scopes, TickBegin(S)
      PROVE  UNCHANGED <<mp, seen, outcome>> /\ pc # "poll" /\ pc' # "poll"
    BY <1>2 DEF TickBegin
<1>3. CASE TickCrash \/ TickSave \/ TickGiveUp
    BY <1>3 DEF TickCrash, TickSave, TickGiveUp, Forget, store
<1>4. CASE TickLook
    BY <1>4 DEF TickLook, store
<1>5. CASE TickPoll
    BY <1>5 DEF TickPoll, Recorded
<1>6. CASE TickApply
    BY <1>6 DEF TickApply
<1>7. CASE TickRetarget \/ TickPass \/ TickRecord \/ TickFlush
    BY <1>7 DEF TickRetarget, TickPass, TickRecord, TickFlush, copies
<1>8. ASSUME NEW t \in Task,
             TickBlocked(t) \/ TickDenied(t) \/ TickWait(t) \/ TickLaunch(t) \/ TickAbort(t)
      PROVE  UNCHANGED <<mp, seen, outcome>> /\ pc # "poll" /\ pc' # "poll"
    BY <1>8, ServedEffect DEF TickLaunch, TickAbort, Serve, At
<1>9. CASE TickStep
    BY <1>3, <1>4, <1>5, <1>6, <1>7, <1>8, <1>9 DEF TickStep
<1> QED BY <1>1, <1>2, <1>3, <1>9, CopyMoves

LEMMA RunMoves ==
  ASSUME Shapes, [Next]_vars
  PROVE  /\ \/ UNCHANGED <<next, runOf>> /\ alive' \subseteq alive
            \/ /\ pc = "dispatch" /\ pos \in Task /\ ~Passed(pos) /\ next <= MaxRuns
               /\ next' = next + 1 /\ runOf' = [runOf EXCEPT ![next] = pos]
               /\ alive' = alive \cup {next} /\ result' = result
               /\ UNCHANGED <<store, scope, mt, mp, seen, outcome, halted, released, stopped>>
         /\ next \in Nat /\ next' >= next
         /\ \A r \in Run : r \in Nat
<1>0. next \in Nat /\ \A r \in Run : r \in Nat
    BY BoundsFacts DEF Shapes, WorldType
<1>1. CASE UNCHANGED <<world, runs>>
    BY <1>0, <1>1 DEF world, runs
<1>2. ASSUME NEW t \in Task, TickLaunch(t)
      PROVE  /\ pc = "dispatch" /\ pos \in Task /\ ~Passed(pos) /\ next <= MaxRuns
             /\ next' = next + 1 /\ runOf' = [runOf EXCEPT ![next] = pos]
             /\ alive' = alive \cup {next} /\ result' = result
             /\ UNCHANGED <<store, scope, mt, mp, seen, outcome, halted, released, stopped>>
    BY <1>2 DEF TickLaunch, Serve, At
<1>3. ASSUME NEW r \in Run, WorkerWrites(r) \/ WorkerExits(r)
      PROVE  UNCHANGED <<next, runOf>> /\ alive' \subseteq alive
    BY <1>3 DEF WorkerWrites, WorkerExits, runs
<1>4. CASE Cooldown
    BY <1>0, <1>4 DEF Cooldown, runs
<1>5. \/ UNCHANGED <<next, runOf>> /\ alive' \subseteq alive
      \/ /\ pc = "dispatch" /\ pos \in Task /\ ~Passed(pos) /\ next <= MaxRuns
         /\ next' = next + 1 /\ runOf' = [runOf EXCEPT ![next] = pos]
         /\ alive' = alive \cup {next} /\ result' = result
         /\ UNCHANGED <<store, scope, mt, mp, seen, outcome, halted, released, stopped>>
  <2>1. CASE UNCHANGED <<world, runs>>
      BY <2>1 DEF world, runs
  <2>2. CASE Cooldown
      BY <2>2 DEF Cooldown, runs
  <2> QED BY <1>2, <1>3, <2>1, <2>2, WorldMoves, Zenon
<1> QED BY <1>0, <1>5

LEMMA NumberedStep ==
  ASSUME Shapes, Numbered, [Next]_vars
  PROVE  Numbered'
<1>0. /\ next \in Nat /\ next' >= next /\ (\A r \in Run : r \in Nat) /\ next' \in Nat
      /\ probes \in [Run -> Phase] /\ mp \in [Run -> Phase] /\ outcome \in [Run -> Phase]
      /\ runOf \in [Run -> Task \cup {0}]
  <2>1. next \in Nat /\ next' >= next /\ (\A r \in Run : r \in Nat)
      BY RunMoves
  <2>2. next' = next \/ next' = next + 1
      BY RunMoves
  <2> QED BY <2>1, <2>2 DEF Shapes, FilesType, CopiesType, WorldType
<1>1. ASSUME NEW r \in Run
      PROVE  /\ r < next' => runOf'[r] \in Task
             /\ r >= next' => runOf'[r] = 0 /\ r \notin alive'
    BY <1>0, RunMoves DEF Numbered
<1>2. ASSUME NEW r \in Run, r >= next'
      PROVE  probes'[r] = "none"
  <2>0. r >= next /\ probes[r] = "none" /\ mp[r] = "none"
      BY <1>0, <1>2 DEF Numbered
  <2>1. CASE probes' = probes
      BY <2>0, <2>1
  <2>2. ASSUME NEW S \in SUBSET Recorded(mp), probes' = Observed(mp, Decisions(S, mp, seen))
        PROVE  probes'[r] = "none"
    <3>1. r \notin S
        BY <2>0 DEF Recorded
    <3>2. Observed(mp, Decisions(S, mp, seen))[r] = mp[r]
        BY <1>0, <3>1 DEF Observed, Decisions
    <3> QED BY <2>0, <2>2, <3>2
  <2>3. CASE TickRecord
    <3>1. probes' = [probes EXCEPT ![next - 1] = "launched"] /\ next - 1 < next /\ next - 1 \in Run
        BY <2>3, RecordEffect
    <3> QED BY <1>0, <2>0, <3>1
  <2>4. ASSUME NEW S \in SUBSET Recorded(probes),
               probes' = Observed(probes, Decisions(S, probes, alive))
        PROVE  probes'[r] = "none"
    <3>1. r \notin S
        BY <2>0 DEF Recorded
    <3>2. Observed(probes, Decisions(S, probes, alive))[r] = probes[r]
        BY <1>0, <3>1 DEF Observed, Decisions
    <3> QED BY <2>0, <2>4, <3>2
  <2>5. ASSUME NEW u \in Recorded(probes),
               \/ probes' = [probes EXCEPT ![u] = Decide(u, probes, alive)]
               \/ probes' = [probes EXCEPT ![u] = "acknowledged"]
        PROVE  probes'[r] = "none"
    <3>1. u # r
        BY <2>0 DEF Recorded
    <3> QED BY <1>0, <2>0, <2>5, <3>1
  <2> QED BY <2>1, <2>2, <2>3, <2>4, <2>5, ProbeMoves
<1>3. ASSUME NEW r \in Run, r >= next'
      PROVE  mp'[r] = "none" /\ outcome'[r] = "none"
  <2>0. r >= next /\ probes[r] = "none" /\ mp[r] = "none" /\ outcome[r] = "none"
        /\ NoOutcome[r] = "none"
      BY <1>0, <1>3 DEF Numbered, NoOutcome
  <2>1. ASSUME NEW S \in SUBSET Recorded(mp), outcome' = Decisions(S, mp, seen)
        PROVE  outcome'[r] = "none"
    <3>1. r \notin S
        BY <2>0 DEF Recorded
    <3>2. Decisions(S, mp, seen)[r] = "none"
        BY <1>0, <3>1 DEF Observed, Decisions
    <3> QED BY <2>1, <3>2
  <2> QED BY <2>0, <2>1, PollMoves
<1> QED BY <1>1, <1>2, <1>3 DEF Numbered

\* Only the dispatch loop and the steps before it touch the copy of the rows,
\* and a run is recorded right after it was started.
LEMMA LaunchingStep ==
  ASSUME Shapes, Launching, [Next]_vars
  PROVE  Launching'
<1> SUFFICES ASSUME pc' = "record"
             PROVE  runOf'[next' - 1] = pos' /\ pos' \in scope' /\ Waiting(mt'[pos'])
    BY DEF Launching, Waiting
<1>0. next \in Nat /\ \A r \in Run : r \in Nat
    BY RunMoves
<1>1. CASE UNCHANGED <<pc, copies>>
  <2>1. pc = "record" /\ UNCHANGED <<pos, scope, mt>>
      BY <1>1 DEF copies
  <2>2. UNCHANGED <<next, runOf>>
      BY <2>1, RunMoves
  <2> QED BY <2>1, <2>2 DEF Launching
<1>2. ASSUME NEW t \in Task, TickLaunch(t)
      PROVE  runOf'[next' - 1] = pos' /\ pos' \in scope' /\ Waiting(mt'[pos'])
  <2>1. /\ runOf' = [runOf EXCEPT ![next] = t] /\ next' = next + 1 /\ next <= MaxRuns
        /\ pos' = pos /\ pos = t /\ UNCHANGED <<scope, mt>> /\ ~Passed(t)
      BY <1>2 DEF TickLaunch, Serve, At
  <2>2. next \in Run
      BY <1>0, <2>1, BoundsFacts DEF Shapes, WorldType
  <2>3. runOf'[next' - 1] = t
      BY <1>0, <2>1, <2>2 DEF Shapes, WorldType
  <2> QED BY <2>1, <2>3 DEF Passed, CanDispatch
<1>3. UNCHANGED <<pc, copies>> \/ \E t \in Task : TickLaunch(t)
  <2>1. TickCrash \/ (\E S \in Scopes : TickBegin(S)) => pc' # "record"
      BY DEF TickCrash, TickBegin, Forget
  <2>2. ASSUME TickStep
        PROVE  pc' # "record" \/ \E t \in Task : TickLaunch(t)
    <3>1. ASSUME NEW t \in Task, TickBlocked(t) \/ TickDenied(t) \/ TickWait(t) \/ TickAbort(t)
          PROVE  pc' # "record"
        BY <3>1, ServedEffect DEF TickAbort
    <3>2. ASSUME \/ TickLook \/ TickPoll \/ TickApply \/ TickRetarget \/ TickPass
                 \/ TickRecord \/ TickFlush \/ TickSave \/ TickGiveUp
          PROVE  pc' # "record"
        BY <3>2 DEF TickLook, TickPoll, TickApply, TickRetarget, TickPass, TickRecord,
                    TickFlush, TickSave, TickGiveUp, Forget
    <3> QED BY <2>2, <3>1, <3>2 DEF TickStep
  <2> QED BY <2>1, <2>2, CopyMoves
<1> QED BY <1>1, <1>2, <1>3

-----------------------------------------------------------------------------
\* Probes, tickets and what a lost run leaves.

\* A phase that is set stays set, and only who was asked has a new one.
LEMMA ObservedSame ==
  ASSUME NEW q \in [Run -> Phase], NEW S \in SUBSET Recorded(q), NEW living, NEW r \in Run
  PROVE  /\ Observed(q, Decisions(S, q, living))[r] = "none" <=> q[r] = "none"
         /\ Observed(q, Decisions(S, q, living))[r] \in {q[r], Decide(r, q, living)}
         /\ Decisions(S, q, living)[r] \in {"none", Decide(r, q, living)}
         /\ Decisions(S, q, living)[r] # "none" => q[r] # "none"
<1>1. q[r] # "none" => Decide(r, q, living) # "none"
    BY DecideFacts
<1>2. r \in S => q[r] # "none"
    BY DEF Recorded
<1>3. Decisions(S, q, living)[r] = IF r \in S THEN Decide(r, q, living) ELSE "none"
    BY DEF Decisions
<1>4. Observed(q, Decisions(S, q, living))[r] =
        IF Decisions(S, q, living)[r] = "none" THEN q[r] ELSE Decisions(S, q, living)[r]
    BY DEF Observed
<1> QED BY <1>1, <1>2, <1>3, <1>4

LEMMA ProbeKept ==
  ASSUME Base, [Next]_vars, NEW r \in Run
  PROVE  /\ probes[r] # "none" => probes'[r] # "none"
         /\ pc = "poll" => (probes'[r] = "none" <=> probes[r] = "none")
<1>0. /\ probes \in [Run -> Phase] /\ mp \in [Run -> Phase]
      /\ pc = "poll" => (mp[r] # "none" <=> probes[r] # "none")
    BY DEF Base, Shapes, FilesType, CopiesType, PollTrue
<1>1. CASE TickRecord
  <2>1. probes' = [probes EXCEPT ![next - 1] = "launched"] /\ pc = "record"
      BY <1>1, RecordEffect DEF Base
  <2> QED BY <1>0, <2>1
<1>2. ASSUME NEW S \in SUBSET Recorded(mp), pc = "poll",
             probes' = Observed(mp, Decisions(S, mp, seen))
      PROVE  probes'[r] = "none" <=> probes[r] = "none"
    BY <1>0, <1>2, ObservedSame
<1>3. ASSUME NEW S \in SUBSET Recorded(probes),
             probes' = Observed(probes, Decisions(S, probes, alive))
      PROVE  probes'[r] = "none" <=> probes[r] = "none"
    BY <1>0, <1>3, ObservedSame
<1>4. ASSUME NEW u \in Recorded(probes),
             \/ probes' = [probes EXCEPT ![u] = Decide(u, probes, alive)]
             \/ probes' = [probes EXCEPT ![u] = "acknowledged"]
      PROVE  probes'[r] = "none" <=> probes[r] = "none"
  <2>1. probes[u] # "none" /\ u \in Run
      BY DEF Recorded
  <2>2. Decide(u, probes, alive) # "none"
      BY <2>1, DecideFacts
  <2> QED BY <1>0, <1>4, <2>1, <2>2
<1> QED BY <1>1, <1>2, <1>3, <1>4, ProbeMoves DEF Base

LEMMA PollTrueStep ==
  ASSUME Base, [Next]_vars
  PROVE  PollTrue'
<1> SUFFICES ASSUME pc' = "poll", NEW r \in Run
             PROVE  /\ mp'[r] # "none" <=> probes'[r] # "none"
                    /\ mp'[r] # "none" /\ r \notin seen' => r \notin alive'
    BY DEF PollTrue
<1>1. CASE UNCHANGED <<mp, seen, outcome>> /\ pc = "poll"
  <2>1. /\ mp[r] # "none" <=> probes[r] # "none"
        /\ mp[r] # "none" /\ r \notin seen => r \notin alive
      BY <1>1 DEF Base, PollTrue
  <2>2. alive' \subseteq alive
      BY <1>1, RunMoves DEF Base
  <2> QED BY <1>1, <2>1, <2>2, ProbeKept
<1>2. CASE mp' = probes /\ seen' = alive /\ UNCHANGED <<probes, world, runs>>
    BY <1>2 DEF world
<1> QED BY <1>1, <1>2, PollMoves DEF Base

LEMMA GoneKept ==
  ASSUME Base, [Next]_vars, NEW r \in Run, r < next
  PROVE  /\ Gone(r) => Gone(r)'
         /\ result[runOf[r]] # 0 => result'[runOf'[r]] # 0
         /\ runOf'[r] = runOf[r] /\ runOf[r] \in Task
<1>0. /\ result \in [Task -> Run \cup {0}] /\ runOf[r] \in Task /\ 0 \notin Run
      /\ runOf \in [Run -> Task \cup {0}]
    BY BoundsFacts DEF Base, Shapes, WorldType, Numbered
<1>1. runOf'[r] = runOf[r]
    BY <1>0, RunMoves DEF Base
<1>2. r \notin alive => r \notin alive'
    BY RunMoves DEF Base
<1>3. CASE result' = result
    BY <1>0, <1>1, <1>2, <1>3 DEF Gone
<1>4. ASSUME NEW u \in Run, WorkerWrites(u)
      PROVE  /\ Gone(r) => Gone(r)'
             /\ result[runOf[r]] # 0 => result'[runOf'[r]] # 0
  <2>1. u \in alive /\ result' = [result EXCEPT ![runOf[u]] = u]
      BY <1>4 DEF WorkerWrites
  <2> QED BY <1>0, <1>1, <1>2, <2>1 DEF Gone
<1>5. result' = result \/ \E u \in Run : WorkerWrites(u)
  <2>1. (\E t \in Task : TickLaunch(t)) => result' = result
      BY DEF TickLaunch
  <2>2. (\E u \in Run : WorkerExits(u)) \/ Cooldown => result' = result
      BY DEF WorkerExits, Cooldown
  <2>3. UNCHANGED <<world, runs>> => result' = result
      BY DEF world
  <2> QED BY <2>1, <2>2, <2>3, WorldMoves, Zenon
<1> QED BY <1>0, <1>1, <1>3, <1>4, <1>5

\* A phase is told truly when a lost run is gone and a completed one left a
\* result.
True(v, r) == /\ v = "lost" => Gone(r)
              /\ v = "completed" => result[runOf[r]] # 0

LEMMA DecideTrue ==
  ASSUME Base, NEW r \in Run, NEW q, NEW living, True(q[r], r),
         r \notin living => r \notin alive
  PROVE  True(Decide(r, q, living), r)
<1>1. 0 \notin Run /\ result \in [Task -> Run \cup {0}]
    BY BoundsFacts DEF Base, Shapes, WorldType
<1>2. Decide(r, q, living) = "lost" =>
        result[runOf[r]] = 0 /\ (r \notin living \/ q[r] = "lost")
    BY DecideFacts
<1>3. Decide(r, q, living) = "completed" => result[runOf[r]] # 0 \/ q[r] = "completed"
    BY DecideFacts
<1> QED BY <1>1, <1>2, <1>3 DEF True, Gone

LEMMA LostGoneStep ==
  ASSUME Base, [Next]_vars
  PROVE  LostGone'
<1> SUFFICES ASSUME NEW r \in Run
             PROVE  /\ "lost" \in {probes'[r], mp'[r], outcome'[r]} => Gone(r)'
                    /\ "completed" \in {probes'[r], mp'[r], outcome'[r]}
                         => result'[runOf'[r]] # 0
    BY DEF LostGone
<1>0. /\ probes \in [Run -> Phase] /\ mp \in [Run -> Phase] /\ outcome \in [Run -> Phase]
      /\ True(probes[r], r) /\ True(mp[r], r) /\ True(outcome[r], r)
      /\ probes[r] # "none" \/ mp[r] # "none" \/ outcome[r] # "none" => r < next
      /\ True("none", r) /\ NoOutcome[r] = "none"
  <2>1. probes \in [Run -> Phase] /\ mp \in [Run -> Phase] /\ outcome \in [Run -> Phase]
      BY DEF Base, Shapes, FilesType, CopiesType
  <2>2. True(probes[r], r) /\ True(mp[r], r) /\ True(outcome[r], r) /\ True("none", r)
      BY DEF Base, LostGone, True
  <2>3. next \in Nat /\ r \in Nat
      BY RunMoves DEF Base
  <2>4. probes[r] # "none" \/ mp[r] # "none" \/ outcome[r] # "none" => r < next
      BY <2>3 DEF Base, Numbered
  <2> QED BY <2>1, <2>2, <2>4 DEF NoOutcome
<1>1. True(probes'[r], r) /\ (probes'[r] \notin {"none", "launched"} => r < next)
  <2>1. CASE TickRecord
    <3>1. probes' = [probes EXCEPT ![next - 1] = "launched"]
        BY <2>1, RecordEffect DEF Base
    <3>2. probes'[r] \in {probes[r], "launched"}
        BY <1>0, <3>1
    <3>3. True("launched", r)
        BY DEF True
    <3> QED BY <1>0, <3>2, <3>3
  <2>2. ASSUME NEW S \in SUBSET Recorded(mp), pc = "poll",
               probes' = Observed(mp, Decisions(S, mp, seen))
        PROVE  True(probes'[r], r) /\ (probes'[r] # "none" => r < next)
    <3>1. /\ probes'[r] \in {mp[r], Decide(r, mp, seen)}
          /\ probes'[r] = "none" <=> mp[r] = "none"
        BY <1>0, <2>2, ObservedSame
    <3>2. mp[r] # "none" => (r \notin seen => r \notin alive)
        BY <2>2 DEF Base, PollTrue
    <3>3. mp[r] # "none" => True(Decide(r, mp, seen), r)
        BY <1>0, <3>2, DecideTrue
    <3> QED BY <1>0, <3>1, <3>3
  <2>3. \A u \in Run : u = r => True(Decide(u, probes, alive), u)
      BY <1>0, DecideTrue
  <2>4. ASSUME NEW S \in SUBSET Recorded(probes),
               probes' = Observed(probes, Decisions(S, probes, alive))
        PROVE  True(probes'[r], r) /\ (probes'[r] # "none" => r < next)
    <3>1. /\ probes'[r] \in {probes[r], Decide(r, probes, alive)}
          /\ probes'[r] = "none" <=> probes[r] = "none"
        BY <1>0, <2>4, ObservedSame
    <3> QED BY <1>0, <2>3, <3>1
  <2>5. ASSUME NEW u \in Recorded(probes),
               \/ probes' = [probes EXCEPT ![u] = Decide(u, probes, alive)]
               \/ probes' = [probes EXCEPT ![u] = "acknowledged"]
        PROVE  True(probes'[r], r) /\ (probes'[r] # "none" => r < next)
    <3>1. probes[u] # "none" /\ u \in Run
        BY DEF Recorded
    <3>2. True("acknowledged", r)
        BY DEF True
    <3>3. CASE u = r
        BY <1>0, <2>3, <2>5, <3>1, <3>2, <3>3
    <3>4. CASE u # r
        BY <1>0, <2>5, <3>4
    <3> QED BY <3>3, <3>4
  <2>6. CASE probes' = probes
      BY <1>0, <2>6
  <2> QED BY <2>1, <2>2, <2>4, <2>5, <2>6, ProbeMoves DEF Base
<1>2. True(mp'[r], r) /\ (mp'[r] # "none" => r < next)
  <2>1. mp' = mp \/ mp' = probes \/ mp' = NoOutcome
      BY PollMoves DEF Base
  <2> QED BY <1>0, <2>1
<1>3. True(outcome'[r], r) /\ (outcome'[r] # "none" => r < next)
  <2>1. ASSUME NEW S \in SUBSET Recorded(mp), pc = "poll", outcome' = Decisions(S, mp, seen)
        PROVE  True(outcome'[r], r) /\ (outcome'[r] # "none" => r < next)
    <3>1. /\ outcome'[r] \in {"none", Decide(r, mp, seen)}
          /\ outcome'[r] # "none" => mp[r] # "none"
        BY <1>0, <2>1, ObservedSame
    <3>2. mp[r] # "none" => (r \notin seen => r \notin alive)
        BY <2>1 DEF Base, PollTrue
    <3>3. mp[r] # "none" => True(Decide(r, mp, seen), r)
        BY <1>0, <3>2, DecideTrue
    <3> QED BY <1>0, <3>1, <3>3
  <2> QED BY <1>0, <2>1, PollMoves DEF Base
<1>4. r < next => /\ Gone(r) => Gone(r)'
                  /\ result[runOf[r]] # 0 => result'[runOf'[r]] # 0
    BY GoneKept
<1> QED BY <1>1, <1>2, <1>3, <1>4 DEF True

-----------------------------------------------------------------------------
\* The rows on file and in the tick's copy.

LEMMA TaskMoves ==
  ASSUME Shapes, [Next]_vars
  PROVE  \/ tasks' = tasks
         \/ pc = "save" /\ pc' = "idle" /\ tasks' = mt /\ UNCHANGED <<resume, world, runs, history>>
         \/ \E t \in Task : Enqueue(t) \/ CancelTask(t) \/ AbandonTask(t) \/ RetryTask(t)
         \/ \E S : /\ S \subseteq Recorded(probes) /\ Poll(S)
                   /\ tasks' = [t \in Task |-> Reconciled(tasks[t], Decisions(S, probes, alive))]
<1>1. CASE UNCHANGED store
    BY <1>1 DEF store
<1>2. CASE TickPoll \/ TickApply \/ TickRecord \/ TickFlush \/ TickGiveUp
    BY <1>2 DEF TickPoll, TickApply, TickRecord, TickFlush, TickGiveUp
<1>3. CASE TickSave
    BY <1>3 DEF TickSave, Forget
<1>4. ASSUME NEW t \in Task, NEW a \in Action, NEW answer,
             Resolve(t, a, answer) \/ Lapse(t, a)
      PROVE  tasks' = tasks
    BY <1>4 DEF Resolve, Lapse
<1>5. ASSUME NEW on \in BOOLEAN, SetPause(on)
      PROVE  tasks' = tasks
    BY <1>5 DEF SetPause
<1>6. ASSUME NEW r \in Run, BackgroundAck(r)
      PROVE  tasks' = tasks
    BY <1>6 DEF BackgroundAck
<1>7. ASSUME NEW S \in {Recorded(probes)} \cup {{r} : r \in Recorded(probes)}, Poll(S)
      PROVE  /\ S \subseteq Recorded(probes)
             /\ \/ tasks' = tasks
                \/ tasks' = [t \in Task |-> Reconciled(tasks[t], Decisions(S, probes, alive))]
    BY <1>7 DEF Poll
<1>8. (\E t \in Task, a \in Action, answer \in {"approved", "denied"} :
          Resolve(t, a, answer) \/ Lapse(t, a)) => tasks' = tasks
    BY <1>4
<1> QED BY <1>1, <1>2, <1>3, <1>5, <1>6, <1>7, <1>8, StoreMoves

LEMMA RowMoves ==
  ASSUME Shapes, [Next]_vars
  PROVE  \/ mt' = mt
         \/ pc = "idle" /\ pc' = "look" /\ mt' = tasks /\ UNCHANGED <<store, world, runs, history>>
         \/ TickApply
         \/ TickRetarget
         \/ TickRecord
         \/ \E t \in Task : TickBlocked(t) \/ TickDenied(t) \/ TickWait(t)
         \/ pc' = "idle" /\ mt' = [t \in Task |-> NoTask]
<1>1. CASE UNCHANGED <<pc, copies>>
    BY <1>1 DEF copies
<1>2. ASSUME NEW S \in Scopes, TickBegin(S)
      PROVE  pc = "idle" /\ pc' = "look" /\ mt' = tasks /\ UNCHANGED <<store, world, runs, history>>
    BY <1>2 DEF TickBegin
<1>3. CASE TickCrash \/ TickSave \/ TickGiveUp
    BY <1>3 DEF TickCrash, TickSave, TickGiveUp, Forget
<1>4. CASE TickLook \/ TickPoll \/ TickPass \/ TickFlush
    BY <1>4 DEF TickLook, TickPoll, TickPass, TickFlush, copies
<1>5. ASSUME NEW t \in Task, TickLaunch(t) \/ TickAbort(t)
      PROVE  mt' = mt
    BY <1>5 DEF TickLaunch, TickAbort
<1>6. CASE TickStep
    BY <1>3, <1>4, <1>5, <1>6 DEF TickStep
<1> QED BY <1>1, <1>2, <1>3, <1>6, CopyMoves

\* A fallback moves rows to the other provider and changes nothing else.
LEMMA RetargetEffect ==
  ASSUME Shapes, TickRetarget
  PROVE  /\ pc = "retarget" /\ pc' = "dispatch"
         /\ \A t \in Task : /\ mt'[t].ticket = mt[t].ticket
                            /\ mt'[t].status = mt[t].status
                            /\ t \notin scope => mt'[t] = mt[t]
         /\ UNCHANGED <<store, world, runs, scope, mp, seen, outcome, halted, count, pos,
                        released, stopped>>
<1>1. /\ \/ mt' = mt
         \/ \E moved \in SUBSET scope :
              mt' = [t \in Task |-> IF t \in moved
                                    THEN [mt[t] EXCEPT !.provider = "backup", !.deferred = FALSE]
                                    ELSE mt[t]]
      /\ pc = "retarget" /\ pc' = "dispatch"
      /\ UNCHANGED <<store, world, runs, scope, mp, seen, outcome, halted, count, pos,
                     released, stopped>>
    BY DEF TickRetarget
<1>2. \A t \in Task : LET x == [mt[t] EXCEPT !.provider = "backup", !.deferred = FALSE]
                      IN x.ticket = mt[t].ticket /\ x.status = mt[t].status
    BY DEF Shapes, CopiesType, TaskRecord
<1> QED BY <1>1, <1>2

LEMMA ApplyEffect ==
  ASSUME Shapes, TickApply
  PROVE  /\ pc = "apply" /\ pc' = "retarget" /\ halted' = paused
         /\ mt' = [t \in Task |-> IF t \in scope THEN Reconciled(mt[t], outcome) ELSE mt[t]]
         /\ \A t \in Task : mt'[t].ticket = mt[t].ticket
         /\ resume' = [t \in Task |-> IF t \in scope THEN ResumeRow(mt[t], resume[t], outcome)
                                                     ELSE resume[t]]
         /\ UNCHANGED <<tasks, ledger, probes, paused, world, runs, scope, history>>
<1>1. \A t \in Task : mt[t] \in TaskRecord
    BY DEF Shapes, CopiesType
<1>2. /\ pc = "apply" /\ pc' = "retarget" /\ halted' = paused
      /\ mt' = [t \in Task |-> IF t \in scope THEN Reconciled(mt[t], outcome) ELSE mt[t]]
      /\ resume' = [t \in Task |-> IF t \in scope THEN ResumeRow(mt[t], resume[t], outcome)
                                                  ELSE resume[t]]
      /\ UNCHANGED <<tasks, ledger, probes, paused, world, runs, scope, history>>
    BY DEF TickApply
<1>3. \A t \in Task : mt'[t].ticket = mt[t].ticket
    BY <1>1, <1>2, ReconciledType
<1> QED BY <1>2, <1>3

LEMMA TicketedKept ==
  ASSUME Base, [Next]_vars, NEW t \in Task, NEW x \in TaskRecord, Ticketed(x, t)
  PROVE  x.ticket # 0 => /\ x.ticket < next' /\ runOf'[x.ticket] = t
                         /\ probes'[x.ticket] # "none"
<1> SUFFICES ASSUME x.ticket # 0
             PROVE  /\ x.ticket < next' /\ runOf'[x.ticket] = t
                    /\ probes'[x.ticket] # "none"
    OBVIOUS
<1>1. x.ticket \in Run
    BY DEF TaskRecord
<1>2. x.ticket < next /\ runOf[x.ticket] = t /\ probes[x.ticket] # "none"
    BY DEF Ticketed
<1>3. runOf'[x.ticket] = runOf[x.ticket]
    BY <1>1, <1>2, GoneKept
<1>4. x.ticket < next'
  <2>1. next \in Nat /\ x.ticket \in Nat /\ (next' = next \/ next' = next + 1)
      BY <1>1, RunMoves DEF Base
  <2> QED BY <1>2, <2>1
<1> QED BY <1>1, <1>2, <1>3, <1>4, ProbeKept

LEMMA TicketsStep ==
  ASSUME Base, [Next]_vars
  PROVE  Tickets'
<1> DEFINE Kept(x, t) == x.ticket # 0 => /\ x.ticket < next' /\ runOf'[x.ticket] = t
                                         /\ probes'[x.ticket] # "none"
<1>0. /\ Shapes /\ tasks \in [Task -> TaskRecord] /\ mt \in [Task -> TaskRecord]
      /\ NoTask.ticket = 0 /\ NewTask.ticket = 0
    BY DEF Base, Shapes, FilesType, CopiesType, NoTask, NewTask
<1>1. \A t \in Task : Kept(tasks[t], t) /\ Kept(mt[t], t)
  <2> TAKE t \in Task
  <2>1. Ticketed(tasks[t], t) /\ Ticketed(mt[t], t)
      BY DEF Base, Tickets
  <2> QED BY <1>0, <2>1, TicketedKept
<1>2. ASSUME NEW t \in Task
      PROVE  Kept(tasks'[t], t)
  <2>1. CASE tasks' \in {tasks, mt}
      BY <1>1, <2>1
  <2>2. ASSUME NEW u \in Task, Enqueue(u) \/ CancelTask(u) \/ AbandonTask(u) \/ RetryTask(u)
        PROVE  tasks'[t].ticket \in {0, tasks[t].ticket}
    <3>1. CASE Enqueue(u)
        BY <1>0, <3>1 DEF Enqueue
    <3>2. CASE CancelTask(u) \/ AbandonTask(u)
      <4>1. tasks' = [tasks EXCEPT ![u].status = "cancelled"]
          BY <3>2, StopEffect
      <4> QED BY <1>0, <4>1 DEF TaskRecord
    <3>3. CASE RetryTask(u)
      <4>1. tasks' = tasks \/ tasks' = [tasks EXCEPT ![u] = Requeued(tasks[u])]
          BY <3>3, RetryEffect
      <4> QED BY <1>0, <4>1, RequeuedType
    <3> QED BY <2>2, <3>1, <3>2, <3>3
  <2>3. ASSUME NEW d, tasks' = [v \in Task |-> Reconciled(tasks[v], d)]
        PROVE  tasks'[t].ticket = tasks[t].ticket
      BY <1>0, <2>3, ReconciledType
  <2>4. tasks' \in {tasks, mt} \/ tasks'[t].ticket \in {0, tasks[t].ticket}
      BY <1>0, <2>2, <2>3, TaskMoves
  <2> QED BY <1>1, <2>1, <2>4
<1>3. ASSUME NEW t \in Task
      PROVE  Kept(mt'[t], t)
  <2>1. CASE mt' \in {mt, tasks}
      BY <1>1, <2>1
  <2>2. CASE TickApply \/ TickRetarget
    <3>1. mt'[t].ticket = mt[t].ticket
        BY <1>0, <2>2, ApplyEffect, RetargetEffect
    <3> QED BY <1>1, <3>1
  <2>3. CASE TickRecord
    <3>1. PICK x \in TaskRecord : x.ticket = next - 1 /\ mt' = [mt EXCEPT ![pos] = x]
        BY <1>0, <2>3, RecordEffect
    <3>2. /\ pc = "record" /\ next - 1 \in Run /\ next \in Nat
          /\ probes' = [probes EXCEPT ![next - 1] = "launched"] /\ UNCHANGED runs
        BY <1>0, <2>3, RecordEffect
    <3>3. runOf[next - 1] = pos /\ probes \in [Run -> Phase]
        BY <3>2 DEF Base, Launching, Shapes, FilesType
    <3>4. Kept(x, pos)
        BY <3>1, <3>2, <3>3 DEF runs
    <3>5. mt'[t] = mt[t] \/ (t = pos /\ mt'[t] = x)
        BY <1>0, <3>1
    <3> QED BY <1>1, <3>4, <3>5
  <2>4. ASSUME NEW u \in Task, TickBlocked(u) \/ TickDenied(u) \/ TickWait(u)
        PROVE  Kept(mt'[t], t)
    <3>1. PICK x \in TaskRecord : x.ticket = mt[u].ticket /\ mt' = [mt EXCEPT ![u] = x]
        BY <1>0, <2>4, ServedEffect
    <3>2. mt'[t].ticket = mt[t].ticket
        BY <1>0, <3>1
    <3> QED BY <1>1, <3>2
  <2>5. CASE mt' = [v \in Task |-> NoTask]
      BY <1>0, <2>5
  <2> QED BY <1>0, <2>1, <2>2, <2>3, <2>4, <2>5, RowMoves
<1> QED BY <1>2, <1>3 DEF Tickets, Ticketed

-----------------------------------------------------------------------------
\* What holds however commands overlap with a tick and wherever it dies.

LEMMA BaseInit == Init => Base
<1> SUFFICES ASSUME Init
             PROVE  Base
    OBVIOUS
<1>1. Shapes
    BY ShapesInit
<1>2. Numbered
    BY BoundsFacts DEF Init, Numbered, NoOutcome
<1>3. Tickets
    BY DEF Init, Tickets, Ticketed, NoTask
<1>4. PollTrue /\ LostGone /\ Launching
    BY DEF Init, PollTrue, LostGone, Launching, NoOutcome
<1> QED BY <1>1, <1>2, <1>3, <1>4 DEF Base

LEMMA BaseStep == Base /\ [Next]_vars => Base'
BY ShapesStep, NumberedStep, LaunchingStep, TicketsStep, PollTrueStep, LostGoneStep DEF Base

\* The inductive invariant of every mode holds always.
THEOREM BaseAlways == Spec => []Base
BY BaseInit, BaseStep, PTL DEF Spec

\* The files, the tick's copies and the histories keep their shapes.
THEOREM TypeCorrect == Spec => []TypeOK
<1>1. Base => TypeOK
    BY ShapesAreTypes DEF Base
<1> QED BY <1>1, BaseAlways, PTL

\* A run that left its result is never called lost, whatever commands and
\* crashes come between looking for the process and looking for the result.
THEOREM NoFalseLossAlways == Spec => []NoFalseLoss
<1>1. Base => NoFalseLoss
    BY DEF Base, LostGone, Gone, NoFalseLoss
<1> QED BY <1>1, BaseAlways, PTL

\* A ticket a task points at can be polled: its probe was written first, and
\* no later save of the probes loses it.
THEOREM TicketHasProbeAlways == Spec => []TicketHasProbe
<1>1. Base => TicketHasProbe
    BY DEF Base, Tickets, Ticketed, TicketHasProbe
<1> QED BY <1>1, BaseAlways, PTL

-----------------------------------------------------------------------------
\* With no command during a tick: the pause switch and the scope.

LEMMA AloneMoves ==
  ASSUME Alone, Shapes, [Next]_vars, pc # "idle"
  PROVE  /\ paused' = paused
         /\ UNCHANGED <<released, stopped>>
         /\ UNCHANGED tasks \/ (pc = "save" /\ pc' = "idle" /\ tasks' = mt)
         /\ UNCHANGED resume \/ TickApply
<1>1. ASSUME NEW t \in Task, NEW a, NEW answer
      PROVE  /\ ~Enqueue(t) /\ ~CancelTask(t) /\ ~AbandonTask(t) /\ ~RetryTask(t)
             /\ ~Resolve(t, a, answer) /\ ~Lapse(t, a)
    BY DEF Alone, Enqueue, CancelTask, AbandonTask, Stop, RetryTask, Resolve, Lapse, MayGive
<1>2. ~(\E on \in BOOLEAN : SetPause(on)) /\ (\A S : ~Poll(S)) /\ \A r : ~BackgroundAck(r)
    BY DEF Alone, SetPause, Poll, BackgroundAck, MayGive
<1>3. paused' = paused
  <2>1. TickPoll \/ TickApply \/ TickRecord \/ TickFlush \/ TickSave \/ TickGiveUp
          => paused' = paused
      BY DEF TickPoll, TickApply, TickRecord, TickFlush, TickSave, TickGiveUp
  <2> QED BY <1>1, <1>2, <2>1, StoreMoves DEF store
<1>4. UNCHANGED resume \/ TickApply
  <2>1. TickPoll \/ TickRecord \/ TickFlush \/ TickSave \/ TickGiveUp => resume' = resume
      BY DEF TickPoll, TickApply, TickRecord, TickFlush, TickSave, TickGiveUp
  <2> QED BY <1>1, <1>2, <2>1, StoreMoves DEF store
<1>5. UNCHANGED <<released, stopped>>
  <2>1. TickRetarget => UNCHANGED <<released, stopped>>
      BY DEF TickRetarget
  <2>2. ASSUME NEW t \in Task, TickLaunch(t) \/ TickAbort(t)
        PROVE  UNCHANGED <<released, stopped>>
      BY <2>2 DEF TickLaunch, TickAbort
  <2> QED BY <1>1, <2>1, <2>2, HistoryMoves DEF history
<1>6. UNCHANGED tasks \/ (pc = "save" /\ pc' = "idle" /\ tasks' = mt)
    BY <1>1, <1>2, TaskMoves
<1> QED BY <1>3, <1>4, <1>5, <1>6

\* Where a tick that is under way can go, and what it takes along.
LEMMA PcMoves ==
  ASSUME Shapes, [Next]_vars
  PROVE  \/ pc' = pc /\ UNCHANGED <<scope, halted>>
         \/ pc = "idle" /\ pc' = "look" /\ mt' = tasks /\ tasks' = tasks
         \/ pc' = "idle"
         \/ pc' \in {"poll", "apply"} /\ UNCHANGED <<scope, mt, tasks>>
         \/ TickApply
         \/ /\ pc \in {"retarget", "dispatch", "record"}
            /\ pc' \in {"dispatch", "record", "save", "abort"}
            /\ UNCHANGED <<scope, halted>>
<1>1. CASE UNCHANGED <<pc, copies>>
    BY <1>1 DEF copies
<1>2. ASSUME NEW S \in Scopes, TickBegin(S)
      PROVE  pc = "idle" /\ pc' = "look" /\ mt' = tasks /\ tasks' = tasks
    BY <1>2 DEF TickBegin, store
<1>3. CASE TickCrash \/ TickSave \/ TickGiveUp
    BY <1>3 DEF TickCrash, TickSave, TickGiveUp, Forget
<1>4. CASE TickLook \/ TickPoll
    BY <1>4 DEF TickLook, TickPoll, store
<1>5. CASE TickRetarget \/ TickPass \/ TickFlush \/ TickRecord
    BY <1>5 DEF TickRetarget, TickPass, TickFlush, TickRecord, copies
<1>6. ASSUME NEW t \in Task,
             TickBlocked(t) \/ TickDenied(t) \/ TickWait(t) \/ TickLaunch(t) \/ TickAbort(t)
      PROVE  /\ pc = "dispatch" /\ pc' \in {"dispatch", "record", "abort"}
             /\ UNCHANGED <<scope, halted>>
    BY <1>6, ServedEffect DEF TickLaunch, TickAbort, Serve, At
<1>7. CASE TickStep
    BY <1>3, <1>4, <1>5, <1>6, <1>7 DEF TickStep
<1> QED BY <1>1, <1>2, <1>3, <1>7, CopyMoves

LEMMA PauseReadStep ==
  ASSUME Alone, Shapes, PauseRead, [Next]_vars
  PROVE  PauseRead'
<1>1. pc # "idle" => paused' = paused
    BY AloneMoves
<1>2. TickApply => halted' = paused /\ pc = "apply"
    BY DEF TickApply
<1> QED BY <1>1, <1>2, PcMoves DEF PauseRead

LEMMA ScopeCopiedStep ==
  ASSUME Alone, Base, ScopeCopied, [Next]_vars
  PROVE  ScopeCopied'
<1>0. Shapes /\ scope \subseteq Task /\ mt \in [Task -> TaskRecord]
    BY DEF Base, Shapes, CopiesType
<1> SUFFICES ASSUME pc' # "idle", NEW t \in Task \ scope'
             PROVE  mt'[t] = tasks'[t]
    BY DEF ScopeCopied
<1>1. CASE pc = "idle"
  <2>1. ASSUME UNCHANGED <<pc, copies>>
        PROVE  FALSE
      BY <1>1, <2>1
  <2>2. ASSUME TickStep \/ TickCrash
        PROVE  FALSE
    <3>1. ASSUME NEW u \in Task
          PROVE  /\ ~TickBlocked(u) /\ ~TickDenied(u) /\ ~TickWait(u) /\ ~TickLaunch(u)
                 /\ ~TickAbort(u)
        BY <1>1 DEF TickBlocked, TickDenied, TickWait, TickLaunch, TickAbort, Serve, At
    <3> QED BY <1>1, <2>2, <3>1 DEF TickStep, TickLook, TickPoll, TickApply, TickRetarget, TickPass,
               TickRecord, TickFlush, TickSave, TickGiveUp, TickCrash
  <2>3. (\E S \in Scopes : TickBegin(S)) => mt' = tasks /\ tasks' = tasks
      BY DEF TickBegin, store
  <2> QED BY <2>1, <2>2, <2>3, CopyMoves, <1>0, Zenon
<1>2. CASE pc # "idle"
  <2>1. tasks' = tasks
      BY <1>0, <1>2, AloneMoves
  <2>2. scope' = scope
      BY <1>0, <1>2, PcMoves, ApplyEffect
  <2>3. mt[t] = tasks[t]
      BY <1>2, <2>2 DEF ScopeCopied
  <2>4. mt'[t] = mt[t]
    <3>1. CASE TickApply \/ TickRetarget
        BY <1>0, <2>2, <3>1, ApplyEffect, RetargetEffect
    <3>2. CASE TickRecord
      <4>1. pc = "record" /\ \E x : mt' = [mt EXCEPT ![pos] = x]
          BY <1>0, <3>2, RecordEffect
      <4> QED BY <1>0, <2>2, <4>1 DEF Base, Launching
    <3>3. ASSUME NEW u \in Task, TickBlocked(u) \/ TickDenied(u) \/ TickWait(u)
          PROVE  mt'[t] = mt[t]
      <4>1. ~Passed(u) /\ \E x : mt' = [mt EXCEPT ![u] = x]
          BY <1>0, <3>3, ServedEffect
      <4> QED BY <1>0, <2>2, <4>1 DEF Passed
    <3> QED BY <1>0, <1>2, <3>1, <3>2, <3>3, RowMoves
  <2> QED BY <2>1, <2>3, <2>4
<1> QED BY <1>1, <1>2

\* While dispatch is paused no worker is started: the switch is read once, and
\* no command throws it before the dispatch loop ends.
THEOREM NoLaunchWhilePausedAlways == ASSUME Alone PROVE Spec => NoLaunchWhilePaused
<1>1. Init => PauseRead
    BY DEF Init, PauseRead
<1>2. Base /\ PauseRead /\ [Next]_vars => PauseRead'
    BY PauseReadStep DEF Base
<1>3. Base /\ PauseRead /\ [Next]_vars => (next' # next => ~paused) \/ UNCHANGED vars
  <2> SUFFICES ASSUME Base, PauseRead, [Next]_vars, next' # next
               PROVE  ~paused
      OBVIOUS
  <2>1. pc = "dispatch" /\ ~Passed(pos)
      BY RunMoves DEF Base
  <2>2. ~halted
      BY <2>1 DEF Passed
  <2> QED BY <2>1, <2>2 DEF PauseRead
<1> QED BY <1>1, <1>2, <1>3, BaseAlways, PTL DEF Spec, NoLaunchWhilePaused

\* A tick for one task leaves the rows, the resume rows and the workers of the
\* others alone.
THEOREM ScopeRespectedAlways == ASSUME Alone PROVE Spec => ScopeRespected
<1>1. Init => ScopeCopied
    BY DEF Init, ScopeCopied
<1>2. Base /\ ScopeCopied /\ [Next]_vars => ScopeCopied'
    BY ScopeCopiedStep
<1>3. ASSUME Base, ScopeCopied, [Next]_vars, NEW t \in Task \ scope, pc # "idle"
      PROVE  tasks'[t] = tasks[t] /\ resume'[t] = resume[t] /\ RunsOf(t)' = RunsOf(t)
  <2>0. Shapes
      BY <1>3 DEF Base
  <2>1. tasks'[t] = tasks[t]
      BY <1>3, <2>0, AloneMoves DEF ScopeCopied
  <2>2. resume'[t] = resume[t]
      BY <1>3, <2>0, AloneMoves, ApplyEffect
  <2>3. RunsOf(t)' = RunsOf(t)
    <3>1. \A r \in Run : runOf'[r] = t <=> runOf[r] = t
      <4>1. CASE runOf' = runOf
          BY <4>1
      <4>2. CASE /\ ~Passed(pos) /\ next <= MaxRuns /\ runOf' = [runOf EXCEPT ![next] = pos]
        <5>1. pos \in scope
            BY <4>2 DEF Passed
        <5>2. next \in Run /\ runOf \in [Run -> Task \cup {0}] /\ 0 \notin Task
            BY <2>0, <4>2, BoundsFacts DEF Shapes, WorldType
        <5>3. runOf[next] = 0
            BY <1>3, <5>2, BoundsFacts DEF Base, Numbered
        <5> QED BY <4>2, <5>1, <5>2, <5>3
      <4> QED BY <1>3, <2>0, <4>1, <4>2, RunMoves
    <3> QED BY <3>1 DEF RunsOf
  <2> QED BY <2>1, <2>2, <2>3
<1>4. Base /\ ScopeCopied /\ [Next]_vars =>
        [\A t \in Task \ scope :
           pc # "idle" => /\ tasks'[t] = tasks[t] /\ resume'[t] = resume[t]
                          /\ RunsOf(t)' = RunsOf(t)]_vars
    BY <1>3
<1> QED BY <1>1, <1>2, <1>4, BaseAlways, PTL DEF Spec, ScopeRespected

-----------------------------------------------------------------------------
\* With no command during a tick: cancelled tasks and rows to be resumed.

LEMMA ReconciledStatus ==
  ASSUME NEW x \in TaskRecord, NEW d
  PROVE  \/ Reconciled(x, d) = x
         \/ /\ Active(x) /\ x.ticket # 0
            /\ d[x.ticket] = "completed" /\ Reconciled(x, d).status = "completed"
         \/ /\ Active(x) /\ x.ticket # 0
            /\ d[x.ticket] = "lost" /\ Reconciled(x, d).status = "resume_pending"
         \/ /\ Active(x) /\ x.ticket # 0
            /\ d[x.ticket] = "launched" /\ Reconciled(x, d).status = "running"
<1>1. {"completed", "resume_pending", "running"} \subseteq TaskStatus
    BY DEF TaskStatus
<1>2. \A s \in TaskStatus : [x EXCEPT !.status = s].status = s
    BY RowType
<1>3. /\ [x EXCEPT !.status = "completed"].status = "completed"
      /\ [x EXCEPT !.status = "resume_pending"].status = "resume_pending"
      /\ [x EXCEPT !.status = "running"].status = "running"
    BY <1>1, <1>2
<1> QED BY <1>3, ReconciledFacts, Zenon

\* A step while a tick is under way, or one that begins it, or one between two.
LEMMA IdleMoves ==
  ASSUME Shapes, [Next]_vars, pc = "idle"
  PROVE  \/ pc' = "idle"
         \/ /\ pc' = "look" /\ mt' = tasks
            /\ UNCHANGED <<store, world, runs, history>>
            /\ ml' = Swept(ledger) /\ dirty' = (Swept(ledger) # ledger)
<1>1. ASSUME NEW t \in Task
      PROVE  /\ ~TickBlocked(t) /\ ~TickDenied(t) /\ ~TickWait(t) /\ ~TickLaunch(t)
             /\ ~TickAbort(t)
    BY DEF TickBlocked, TickDenied, TickWait, TickLaunch, TickAbort, Serve, At
<1>2. ~TickStep /\ ~TickCrash
    BY <1>1 DEF TickStep, TickLook, TickPoll, TickApply, TickRetarget, TickPass,
                TickRecord, TickFlush, TickSave, TickGiveUp, TickCrash
<1>3. ASSUME NEW S \in Scopes, TickBegin(S)
      PROVE  /\ pc' = "look" /\ mt' = tasks
             /\ UNCHANGED <<store, world, runs, history>>
             /\ ml' = Swept(ledger) /\ dirty' = (Swept(ledger) # ledger)
    BY <1>3 DEF TickBegin
<1> QED BY <1>2, <1>3, CopyMoves

LEMMA StopsStep ==
  ASSUME Alone, Base, StopsCopied, [Next]_vars
  PROVE  StopsCopied'
<1>0. /\ Shapes /\ tasks \in [Task -> TaskRecord] /\ mt \in [Task -> TaskRecord]
      /\ stopped \subseteq Task
    BY DEF Base, Shapes, FilesType, CopiesType, HistoryType
<1>1. CASE pc # "idle"
  <2>1. UNCHANGED stopped /\ (UNCHANGED tasks \/ tasks' = mt)
      BY <1>0, <1>1, AloneMoves
  <2>2. \A t \in stopped : tasks[t].status = "cancelled" /\ mt[t].status = "cancelled"
      BY <1>1 DEF StopsCopied, CancelHolds
  <2>3. CancelHolds'
      BY <2>1, <2>2 DEF CancelHolds
  <2>4. ASSUME NEW t \in stopped, pc' # "idle"
        PROVE  mt'[t].status = "cancelled"
    <3>0. t \in Task
        BY <1>0
    <3>1. CASE TickApply
      <4>1. mt'[t] \in {mt[t], Reconciled(mt[t], outcome)}
          BY <1>0, <3>0, <3>1, ApplyEffect
      <4>2. ~Active(mt[t])
          BY <2>2 DEF Active
      <4>3. Reconciled(mt[t], outcome) = mt[t]
          BY <4>2, ReconciledFacts
      <4> QED BY <2>2, <4>1, <4>3
    <3>2. CASE TickRetarget
        BY <1>0, <2>2, <3>0, <3>2, RetargetEffect
    <3>3. CASE TickRecord
      <4>1. pc = "record" /\ \E x : mt' = [mt EXCEPT ![pos] = x]
          BY <1>0, <3>3, RecordEffect
      <4>2. pos # t
          BY <2>2, <4>1 DEF Base, Launching, Waiting
      <4> QED BY <1>0, <2>2, <3>0, <4>1, <4>2
    <3>4. ASSUME NEW u \in Task, TickBlocked(u) \/ TickDenied(u) \/ TickWait(u)
          PROVE  mt'[t].status = "cancelled"
      <4>1. ~Passed(u) /\ \E x : mt' = [mt EXCEPT ![u] = x]
          BY <1>0, <3>4, ServedEffect
      <4>2. u # t
          BY <2>2, <4>1 DEF Passed, CanDispatch, Waiting
      <4> QED BY <1>0, <2>2, <3>0, <4>1, <4>2
    <3> QED BY <1>0, <1>1, <2>2, <2>4, <3>1, <3>2, <3>3, <3>4, RowMoves
  <2> QED BY <2>1, <2>3, <2>4 DEF StopsCopied
<1>2. CASE pc = "idle"
  <2>1. \A t \in stopped : tasks[t].status = "cancelled"
      BY DEF StopsCopied, CancelHolds
  <2>2. CancelHolds'
    <3>1. ASSUME NEW u \in Task, Enqueue(u)
          PROVE  CancelHolds'
      <4>1. stopped' = stopped \ {u} /\ \E x : tasks' = [tasks EXCEPT ![u] = x]
          BY <3>1 DEF Enqueue
      <4> QED BY <1>0, <2>1, <4>1 DEF CancelHolds
    <3>2. ASSUME NEW u \in Task, CancelTask(u) \/ AbandonTask(u)
          PROVE  CancelHolds'
      <4>1. stopped' = stopped \cup {u} /\ tasks' = [tasks EXCEPT ![u].status = "cancelled"]
          BY <3>2, StopEffect
      <4> QED BY <1>0, <2>1, <4>1 DEF CancelHolds, TaskRecord
    <3>3. ASSUME NEW u \in Task, RetryTask(u)
          PROVE  CancelHolds'
      <4>1. \/ /\ \E x : tasks' = [tasks EXCEPT ![u] = x]
               /\ stopped' = stopped \ {u}
            \/ UNCHANGED <<tasks, stopped>>
          BY <3>3, RetryEffect
      <4> QED BY <1>0, <2>1, <4>1 DEF CancelHolds
    <3>4. ASSUME NEW S, Poll(S), NEW d, tasks' = [t \in Task |-> Reconciled(tasks[t], d)]
          PROVE  CancelHolds'
      <4>1. stopped' = stopped
          BY <3>4 DEF Poll, history
      <4>2. \A t \in stopped : Reconciled(tasks[t], d) = tasks[t]
          BY <2>1, ReconciledFacts DEF Active
      <4> QED BY <1>0, <2>1, <3>4, <4>1, <4>2 DEF CancelHolds
    <3>5. CASE tasks' = tasks
      <4>1. stopped' = stopped \/ \E u \in Task :
              Enqueue(u) \/ CancelTask(u) \/ AbandonTask(u) \/ RetryTask(u)
        <5>1. TickRetarget => stopped' = stopped
            BY DEF TickRetarget
        <5>2. ASSUME NEW t \in Task, TickLaunch(t) \/ TickAbort(t)
              PROVE  stopped' = stopped
            BY <5>2 DEF TickLaunch, TickAbort
        <5>3. ASSUME NEW t \in Task, NEW a, NEW answer, Resolve(t, a, answer)
              PROVE  stopped' = stopped
            BY <5>3 DEF Resolve
        <5> QED BY <1>0, <5>1, <5>2, <5>3, HistoryMoves DEF history
      <4>2. stopped' = stopped => CancelHolds'
          BY <2>1, <3>5 DEF CancelHolds
      <4> QED BY <3>1, <3>2, <3>3, <4>1, <4>2
    <3> QED BY <1>0, <1>2, <3>1, <3>2, <3>3, <3>4, <3>5, TaskMoves
  <2>3. pc' # "idle" => \A t \in stopped' : mt'[t].status = "cancelled"
      BY <1>0, <1>2, <2>1, IdleMoves DEF history
  <2> QED BY <2>2, <2>3 DEF StopsCopied
<1> QED BY <1>1, <1>2

\* A task the operator cancelled stays cancelled until he queues it again: no
\* poll revives it and no save of a tick's copy does.
THEOREM CancelHoldsAlways == ASSUME Alone PROVE Spec => []CancelHolds
<1>1. Init => StopsCopied
    BY DEF Init, StopsCopied, CancelHolds
<1>2. Base /\ StopsCopied /\ [Next]_vars => StopsCopied'
    BY StopsStep
<1>3. StopsCopied => CancelHolds
    BY DEF StopsCopied
<1> QED BY <1>1, <1>2, <1>3, BaseAlways, PTL DEF Spec

LEMMA ResultKept ==
  ASSUME Base, [Next]_vars, NEW t \in Task, result[t] # 0
  PROVE  result'[t] # 0
<1>0. result \in [Task -> Run \cup {0}] /\ 0 \notin Run
    BY BoundsFacts DEF Base, Shapes, WorldType
<1>1. ASSUME NEW u \in Run, WorkerWrites(u)
      PROVE  result'[t] # 0
    BY <1>0, <1>1 DEF WorkerWrites
<1>2. (\E u \in Task : TickLaunch(u)) \/ (\E u \in Run : WorkerExits(u)) \/ Cooldown
        => result' = result
    BY DEF TickLaunch, WorkerExits, Cooldown
<1>3. UNCHANGED <<world, runs>> => result' = result
    BY DEF world
<1> QED BY <1>1, <1>2, <1>3, WorldMoves, Zenon

\* Reconciling a row with what a poll heard keeps its resume row, unless a
\* result has turned up.
LEMMA RowReconciled ==
  ASSUME Base, NEW t \in Task, NEW x \in TaskRecord, NEW d,
         Ticketed(x, t), \A r \in Run : True(d[r], r),
         RowKept(x, t)
  PROVE  /\ resume[t] = "resume_pending" \/ result[t] # 0 =>
              ResumeRow(x, resume[t], d) = "resume_pending" \/ result[t] # 0
         /\ Reconciled(x, d).status = "resume_pending" =>
              ResumeRow(x, resume[t], d) = "resume_pending" \/ result[t] # 0
<1>1. x.ticket # 0 => x.ticket \in Run /\ runOf[x.ticket] = t
    BY DEF Ticketed, TaskRecord
<1>2. resume[t] = "resume_pending" \/ result[t] # 0 =>
        ResumeRow(x, resume[t], d) = "resume_pending" \/ result[t] # 0
  <2> SUFFICES ASSUME resume[t] = "resume_pending", ResumeRow(x, resume[t], d) = "resumed"
               PROVE  result[t] # 0
      BY ResumeRowFacts
  <2>1. x.ticket # 0 /\ d[x.ticket] = "completed"
      BY ResumeRowFacts
  <2> QED BY <1>1, <2>1 DEF True
<1>3. ASSUME Reconciled(x, d).status = "resume_pending"
      PROVE  ResumeRow(x, resume[t], d) = "resume_pending" \/ result[t] # 0
  <2>1. CASE x.status = "resume_pending"
      BY <1>2, <2>1 DEF RowKept
  <2>2. CASE x.status # "resume_pending"
    <3>1. Active(x) /\ x.ticket # 0 /\ d[x.ticket] = "lost"
        BY <1>3, <2>2, ReconciledStatus
    <3> QED BY <2>2, <3>1, ResumeRowFacts
  <2> QED BY <2>1, <2>2
<1> QED BY <1>2, <1>3

LEMMA DecisionsTrue ==
  ASSUME Base, NEW S \in SUBSET Recorded(probes), NEW r \in Run
  PROVE  True(Decisions(S, probes, alive)[r], r)
<1>1. True(probes[r], r) /\ True("none", r)
    BY DEF Base, LostGone, True
<1>2. True(Decide(r, probes, alive), r)
    BY <1>1, DecideTrue
<1>3. Decisions(S, probes, alive)[r] \in {"none", Decide(r, probes, alive)}
    BY ObservedSame DEF Base, Shapes, FilesType
<1> QED BY <1>1, <1>2, <1>3

LEMMA RowsStep ==
  ASSUME Alone, Base, RowsCopied, [Next]_vars
  PROVE  RowsCopied'
<1> DEFINE Kept(x, t) == x.status = "resume_pending" =>
                           resume'[t] = "resume_pending" \/ result'[t] # 0
<1>0. /\ Shapes /\ tasks \in [Task -> TaskRecord] /\ mt \in [Task -> TaskRecord]
      /\ resume \in [Task -> ResumeStatus]
    BY DEF Base, Shapes, FilesType, CopiesType
<1>1. ASSUME resume' = resume, NEW t \in Task, NEW x, RowKept(x, t)
      PROVE  Kept(x, t)
    BY <1>1, ResultKept DEF RowKept
<1>2. CASE pc # "idle"
  <2>1. \A t \in Task : RowKept(tasks[t], t) /\ RowKept(mt[t], t)
      BY <1>2 DEF RowsCopied
  <2>2. CASE TickApply
    <3>1. UNCHANGED <<tasks, result>>
        BY <1>0, <2>2, ApplyEffect DEF world
    <3>2. ASSUME NEW t \in Task
          PROVE  Kept(tasks[t], t) /\ Kept(mt'[t], t)
      <4>1. Ticketed(mt[t], t) /\ mt[t] \in TaskRecord /\ RowKept(mt[t], t) /\ RowKept(tasks[t], t)
          BY <1>0, <2>1 DEF Base, Tickets
      <4>2. \A r \in Run : True(outcome[r], r)
          BY DEF Base, LostGone, True
      <4>3. CASE t \in scope
        <5>1. /\ resume[t] = "resume_pending" \/ result[t] # 0 =>
                   ResumeRow(mt[t], resume[t], outcome) = "resume_pending" \/ result[t] # 0
              /\ Reconciled(mt[t], outcome).status = "resume_pending" =>
                   ResumeRow(mt[t], resume[t], outcome) = "resume_pending" \/ result[t] # 0
            BY <4>1, <4>2, RowReconciled
        <5>2. /\ mt'[t] = Reconciled(mt[t], outcome)
              /\ resume'[t] = ResumeRow(mt[t], resume[t], outcome)
            BY <1>0, <2>2, <4>3, ApplyEffect
        <5> QED BY <3>1, <4>1, <5>1, <5>2 DEF RowKept
      <4>4. CASE t \notin scope
        <5>1. mt'[t] = mt[t] /\ resume'[t] = resume[t]
            BY <1>0, <2>2, <4>4, ApplyEffect
        <5> QED BY <3>1, <4>1, <5>1 DEF RowKept
      <4> QED BY <4>3, <4>4
    <3> QED BY <3>1, <3>2 DEF RowsCopied, RowKept
  <2>3. CASE ~TickApply
    <3>1. resume' = resume /\ (tasks' = tasks \/ tasks' = mt)
        BY <1>0, <1>2, <2>3, AloneMoves
    <3>2. \A t \in Task : Kept(tasks[t], t) /\ Kept(mt[t], t)
        BY <1>1, <2>1, <3>1
    <3>3. ASSUME NEW t \in Task, pc' # "idle"
          PROVE  Kept(mt'[t], t)
      <4>1. CASE TickRetarget
          BY <1>0, <3>2, <4>1, RetargetEffect
      <4>2. CASE TickRecord
        <5>1. \E x : x.status = "launched" /\ mt' = [mt EXCEPT ![pos] = x]
            BY <1>0, <4>2, RecordEffect
        <5> QED BY <1>0, <3>2, <5>1
      <4>3. ASSUME NEW u \in Task, TickBlocked(u) \/ TickDenied(u) \/ TickWait(u)
            PROVE  Kept(mt'[t], t)
        <5>1. \E x : x.status # "resume_pending" /\ mt' = [mt EXCEPT ![u] = x]
            BY <1>0, <4>3, ServedEffect
        <5> QED BY <1>0, <3>2, <5>1
      <4> QED BY <1>0, <1>2, <2>3, <3>2, <3>3, <4>1, <4>2, <4>3, RowMoves
    <3> QED BY <3>1, <3>2, <3>3 DEF RowsCopied, RowKept
  <2> QED BY <2>2, <2>3
<1>3. CASE pc = "idle"
  <2>1. \A t \in Task : RowKept(tasks[t], t)
      BY DEF RowsCopied
  <2>2. pc' # "idle" => UNCHANGED resume /\ mt' = tasks
      BY <1>0, <1>3, IdleMoves DEF store
  <2>3. pc' # "idle" => \A t \in Task : Kept(mt'[t], t)
      BY <1>1, <2>1, <2>2
  <2>4. ASSUME NEW t \in Task
        PROVE  Kept(tasks'[t], t)
    <3>1. ASSUME NEW u \in Task, Enqueue(u) \/ CancelTask(u) \/ AbandonTask(u) \/ RetryTask(u)
          PROVE  Kept(tasks'[t], t)
      <4>1. CASE Enqueue(u)
        <5>1. tasks' = [tasks EXCEPT ![u] = NewTask] /\ resume' = resume
            BY <4>1 DEF Enqueue
        <5>2. Kept(tasks[t], t)
            BY <1>1, <2>1, <5>1
        <5>3. NewTask.status = "queued"
            BY DEF NewTask, NoTask
        <5> QED BY <1>0, <5>1, <5>2, <5>3
      <4>2. CASE CancelTask(u) \/ AbandonTask(u)
        <5>1. /\ tasks' = [tasks EXCEPT ![u].status = "cancelled"]
              /\ \E row : resume' \in {resume, Closed(u, row)}
              /\ result' = result
            BY <4>2, StopEffect DEF world
        <5>2. t = u => tasks'[t].status = "cancelled"
            BY <1>0, <5>1 DEF TaskRecord
        <5>3. t # u => tasks'[t] = tasks[t] /\ resume'[t] = resume[t]
            BY <1>0, <5>1 DEF Closed
        <5> QED BY <2>1, <5>1, <5>2, <5>3 DEF RowKept
      <4>3. CASE RetryTask(u)
        <5>1. /\ \/ /\ tasks' = [tasks EXCEPT ![u] = Requeued(tasks[u])]
                    /\ resume' \in {resume, Closed(u, "resumed")}
                 \/ UNCHANGED <<tasks, resume>>
              /\ result' = result
            BY <4>3, RetryEffect DEF world
        <5>2. Requeued(tasks[u]).status = "queued"
            BY <1>0, RequeuedType
        <5>3. CASE UNCHANGED <<tasks, resume>>
            BY <1>1, <2>1, <5>3
        <5>4. CASE /\ tasks' = [tasks EXCEPT ![u] = Requeued(tasks[u])]
                   /\ resume' \in {resume, Closed(u, "resumed")}
          <6>1. t = u => tasks'[t].status = "queued"
              BY <1>0, <5>2, <5>4
          <6>2. t # u => tasks'[t] = tasks[t] /\ resume'[t] = resume[t]
              BY <1>0, <5>4 DEF Closed
          <6> QED BY <2>1, <5>1, <6>1, <6>2 DEF RowKept
        <5> QED BY <5>1, <5>3, <5>4
      <4> QED BY <3>1, <4>1, <4>2, <4>3
    <3>2. ASSUME NEW S \in SUBSET Recorded(probes), Poll(S)
          PROVE  Kept(tasks'[t], t)
      <4>1. /\ \/ UNCHANGED <<tasks, resume>>
               \/ /\ tasks' = [v \in Task |-> Reconciled(tasks[v], Decisions(S, probes, alive))]
                  /\ resume' = [v \in Task |-> ResumeRow(tasks[v], resume[v],
                                                         Decisions(S, probes, alive))]
            /\ result' = result
          BY <3>2 DEF Poll, world
      <4>2. Ticketed(tasks[t], t) /\ tasks[t] \in TaskRecord /\ RowKept(tasks[t], t)
          BY <1>0, <2>1 DEF Base, Tickets
      <4>3. \A r \in Run : True(Decisions(S, probes, alive)[r], r)
          BY DecisionsTrue
      <4>4. Reconciled(tasks[t], Decisions(S, probes, alive)).status = "resume_pending" =>
              \/ ResumeRow(tasks[t], resume[t], Decisions(S, probes, alive)) = "resume_pending"
              \/ result[t] # 0
          BY <4>2, <4>3, RowReconciled
      <4> QED BY <4>1, <4>2, <4>4 DEF RowKept
    <3>3. CASE resume' = resume /\ tasks' = tasks
        BY <1>1, <2>1, <3>3
    <3>4. \/ resume' = resume /\ tasks' = tasks
          \/ \E u \in Task : Enqueue(u) \/ CancelTask(u) \/ AbandonTask(u) \/ RetryTask(u)
          \/ \E S \in SUBSET Recorded(probes) : Poll(S)
      <4>1. ASSUME NEW u \in Task, NEW a \in Action, NEW answer,
                   Resolve(u, a, answer) \/ Lapse(u, a)
            PROVE  resume' = resume /\ tasks' = tasks
          BY <4>1 DEF Resolve, Lapse
      <4>2. (\E on \in BOOLEAN : SetPause(on)) \/ (\E r \in Run : BackgroundAck(r))
              => resume' = resume /\ tasks' = tasks
          BY DEF SetPause, BackgroundAck
      <4>3. ~(TickPoll \/ TickApply \/ TickRecord \/ TickFlush \/ TickSave \/ TickGiveUp)
          BY <1>3 DEF TickPoll, TickApply, TickRecord, TickFlush, TickSave, TickGiveUp
      <4>4. \A S \in {Recorded(probes)} \cup {{r} : r \in Recorded(probes)} :
              S \in SUBSET Recorded(probes)
          OBVIOUS
      <4> QED BY <1>0, <4>1, <4>2, <4>3, <4>4, StoreMoves DEF store
    <3> QED BY <3>1, <3>2, <3>3, <3>4
  <2> QED BY <2>3, <2>4 DEF RowsCopied, RowKept
<1> QED BY <1>2, <1>3

\* A task that waits for recovery has its row in the resume store wherever the
\* tick or a command that wrote the two died.
THEOREM ResumeRecordedAlways == ASSUME Alone PROVE Spec => []ResumeRecorded
<1>1. Init => RowsCopied
    BY DEF Init, RowsCopied, RowKept, NoTask
<1>2. Base /\ RowsCopied /\ [Next]_vars => RowsCopied'
    BY RowsStep
<1>3. RowsCopied => ResumeRecorded
    BY DEF RowsCopied, RowKept, ResumeRecorded
<1> QED BY <1>1, <1>2, <1>3, BaseAlways, PTL DEF Spec

-----------------------------------------------------------------------------
\* With neither a command nor a crash during a tick: the operator's approvals.

LEMMA UseFacts ==
  ASSUME NEW l \in LedgerFile, NEW c \in [Task -> [Action -> Int]],
         NEW t \in Task, NEW a \in Action, l[t][a] = "approved",
         \A u \in Task, b \in Action : c[u][b] >= 0 /\ (l[u][b] = "approved" => c[u][b] > 0)
  PROVE  \A u \in Task, b \in Action :
           /\ [c EXCEPT ![t][a] = @ - 1][u][b] >= 0
           /\ [l EXCEPT ![t][a] = "none"][u][b] = "approved" =>
                [c EXCEPT ![t][a] = @ - 1][u][b] > 0
<1> TAKE u \in Task, b \in Action
<1>1. [c EXCEPT ![t][a] = @ - 1][u][b] = IF u = t /\ b = a THEN c[t][a] - 1 ELSE c[u][b]
    OBVIOUS
<1>2. [l EXCEPT ![t][a] = "none"][u][b] = IF u = t /\ b = a THEN "none" ELSE l[u][b]
    BY DEF LedgerFile
<1>3. c[t][a] \in Int /\ c[t][a] > 0
    OBVIOUS
<1> QED BY <1>1, <1>2, <1>3

\* What a step does to the approvals on file or in the session, and to what is
\* left of them.
LEMMA GateMoves ==
  ASSUME Steady, Shapes, [Next]_vars, pc \notin {"idle", "save"}
  PROVE  \/ pc' \notin {"idle", "save"} /\ UNCHANGED <<ml, dirty, ledger, credit>>
         \/ /\ pc' \notin {"idle", "save"} /\ ledger' = ledger /\ dirty' = TRUE
            /\ \E t \in Task, a \in Action :
                 \/ /\ ml[t][a] = "approved" /\ ml' = [ml EXCEPT ![t][a] = "none"]
                    /\ credit' = [credit EXCEPT ![t][a] = @ - 1]
                 \/ /\ ml' = [ml EXCEPT ![t][a] = "pending"] /\ credit' = credit
         \/ ledger' = Flushed /\ credit' = credit /\ pc' \in {"idle", "save"}
<1>0. "dispatch" \in Action /\ "fallback" \in Action /\ ml \in LedgerFile
    BY BoundsFacts DEF Shapes, CopiesType
<1>1. ASSUME UNCHANGED <<pc, copies>>
      PROVE  UNCHANGED <<ml, dirty, ledger, credit>> /\ pc' = pc
  <2>1. ASSUME NEW t, NEW a, NEW answer
        PROVE  /\ ~Enqueue(t) /\ ~CancelTask(t) /\ ~AbandonTask(t) /\ ~RetryTask(t)
               /\ ~Resolve(t, a, answer) /\ ~Lapse(t, a)
      BY DEF Steady, Enqueue, CancelTask, AbandonTask, Stop, RetryTask, Resolve, Lapse, MayGive
  <2>2. ASSUME TickFlush \/ TickGiveUp \/ TickSave \/ TickRetarget
        PROVE  pc' # pc
      BY <2>2 DEF TickFlush, TickGiveUp, TickSave, TickRetarget, Forget
  <2>3. ASSUME NEW t \in Task, TickLaunch(t) \/ TickAbort(t)
        PROVE  pc' # pc
      BY <2>3 DEF TickLaunch, TickAbort, Serve, At
  <2>4. ledger' = ledger
    <3>1. TickPoll \/ TickApply \/ TickRecord => ledger' = ledger
        BY DEF TickPoll, TickApply, TickRecord
    <3>2. /\ (\E on \in BOOLEAN : SetPause(on)) => ledger' = ledger
          /\ \A S : Poll(S) => ledger' = ledger
          /\ (\E r \in Run : BackgroundAck(r)) => ledger' = ledger
        BY DEF SetPause, Poll, BackgroundAck
    <3> QED BY <1>1, <2>1, <2>2, <3>1, <3>2, StoreMoves DEF store
  <2>5. credit' = credit
      BY <1>1, <2>1, <2>2, <2>3, HistoryMoves DEF history
  <2> QED BY <1>1, <2>4, <2>5 DEF copies
<1>2. ASSUME NEW S \in Scopes, TickBegin(S)
      PROVE  FALSE
    BY <1>2 DEF TickBegin
<1>3. ~TickCrash /\ ~TickSave
    BY DEF Steady, TickCrash, TickSave
<1>4. CASE TickLook \/ TickPoll \/ TickApply \/ TickPass \/ TickRecord
    BY <1>4 DEF TickLook, TickPoll, TickApply, TickPass, TickRecord, store, history
<1>5. CASE TickRetarget
    BY <1>0, <1>5 DEF TickRetarget, FallbackUsed, store
<1>6. CASE TickFlush \/ TickGiveUp
    BY <1>6 DEF TickFlush, TickGiveUp, Forget, history
<1>7. ASSUME NEW t \in Task, TickDenied(t)
      PROVE  pc' \notin {"idle", "save"} /\ UNCHANGED <<ml, dirty, ledger, credit>>
    BY <1>7 DEF TickDenied, Serve, At, store, history
<1>8. ASSUME NEW t \in Task, TickBlocked(t)
      PROVE  /\ pc' \notin {"idle", "save"} /\ UNCHANGED <<ledger, credit>>
             /\ \/ UNCHANGED <<ml, dirty>>
                \/ ml' = [ml EXCEPT ![t]["fallback"] = "pending"] /\ dirty' = TRUE
    BY <1>8 DEF TickBlocked, Serve, At, store, history
<1>9. ASSUME NEW t \in Task, TickWait(t) \/ TickLaunch(t) \/ TickAbort(t)
      PROVE  /\ pc' \notin {"idle", "save"} /\ ledger' = ledger
             /\ \/ UNCHANGED <<ml, dirty, credit>>
                \/ /\ dirty' = TRUE
                   /\ \/ /\ ml[t]["dispatch"] = "approved"
                         /\ ml' = [ml EXCEPT ![t]["dispatch"] = "none"]
                         /\ credit' = [credit EXCEPT ![t]["dispatch"] = @ - 1]
                      \/ /\ ml' = [ml EXCEPT ![t]["dispatch"] = "pending"] /\ credit' = credit
  <2>1. /\ pc' \notin {"idle", "save"} /\ ledger' = ledger
        /\ ml' = Gated(t)
      BY <1>9 DEF TickWait, TickLaunch, TickAbort, Serve, At, store
  <2>2. credit' = IF Verdict(t) = "grant" THEN [credit EXCEPT ![t]["dispatch"] = @ - 1] ELSE credit
      BY <1>9 DEF TickWait, TickLaunch, TickAbort, Serve, Spent, history
  <2>3. dirty' = (dirty \/ ml' # ml)
      BY <1>9 DEF TickWait, TickLaunch, TickAbort
  <2>4. dirty \in BOOLEAN
      BY DEF Shapes, CopiesType
  <2>5. CASE Verdict(t) = "grant"
    <3>1. ml[t]["dispatch"] = "approved" /\ ml' = [ml EXCEPT ![t]["dispatch"] = "none"]
        BY <2>1, <2>5, GatedFacts
    <3>2. ml'[t]["dispatch"] = "none"
        BY <1>0, <3>1 DEF LedgerFile
    <3>3. ml' # ml
        BY <3>1, <3>2
    <3>4. dirty' = TRUE
        BY <2>3, <3>3
    <3> QED BY <2>1, <2>2, <2>5, <3>1, <3>4
  <2>6. CASE Verdict(t) = "ask"
    <3>1. ml' = [ml EXCEPT ![t]["dispatch"] = "pending"]
        BY <2>1, <2>6, GatedFacts
    <3>2. ml'[t]["dispatch"] = "pending" /\ ml[t]["dispatch"] # "pending"
      <4>1. ml'[t]["dispatch"] = "pending"
          BY <1>0, <3>1 DEF LedgerFile
      <4> QED BY <2>6, <4>1 DEF Verdict
    <3>3. ml' # ml
        BY <3>2
    <3>4. dirty' = TRUE
        BY <2>3, <3>3
    <3> QED BY <2>1, <2>2, <2>6, <3>1, <3>4
  <2>7. CASE Verdict(t) \notin {"grant", "ask"}
    <3>1. ml' = ml /\ credit' = credit
        BY <2>1, <2>2, <2>7, GatedFacts
    <3>2. dirty' = dirty
        BY <2>3, <2>4, <3>1
    <3> QED BY <2>1, <3>1, <3>2
  <2> QED BY <2>5, <2>6, <2>7
<1>10. CASE TickStep
    BY <1>0, <1>3, <1>4, <1>5, <1>6, <1>7, <1>8, <1>9, <1>10 DEF TickStep
<1> QED BY <1>1, <1>2, <1>3, <1>10, CopyMoves

LEMMA LedgerMoves ==
  ASSUME Shapes, [Next]_vars, pc \in {"idle", "save"}, pc' \in {"idle", "save"}
  PROVE  \/ UNCHANGED <<ledger, credit>>
         \/ \E t \in Task : RetryTask(t)
         \/ \E t \in Task, a \in Action :
              \/ \E answer \in {"approved", "denied"} : Resolve(t, a, answer)
              \/ Lapse(t, a)
<1>1. ASSUME NEW t \in Task,
             TickBlocked(t) \/ TickDenied(t) \/ TickWait(t) \/ TickLaunch(t) \/ TickAbort(t)
      PROVE  FALSE
    BY <1>1 DEF TickBlocked, TickDenied, TickWait, TickLaunch, TickAbort, Serve, At
<1>2. ~TickFlush /\ ~TickGiveUp /\ ~TickRetarget /\ ~TickPoll /\ ~TickApply /\ ~TickRecord
    BY DEF TickFlush, TickGiveUp, TickRetarget, TickPoll, TickApply, TickRecord
<1>3. TickSave => UNCHANGED <<ledger, credit>>
    BY DEF TickSave, history
<1>4. ASSUME NEW t \in Task, Enqueue(t) \/ CancelTask(t) \/ AbandonTask(t)
      PROVE  UNCHANGED <<ledger, credit>>
    BY <1>4, StopEffect DEF Enqueue
<1>5. /\ (\E on \in BOOLEAN : SetPause(on)) => UNCHANGED <<ledger, credit>>
      /\ \A S : Poll(S) => UNCHANGED <<ledger, credit>>
      /\ (\E r \in Run : BackgroundAck(r)) => UNCHANGED <<ledger, credit>>
    BY DEF SetPause, Poll, BackgroundAck, history
<1>6. UNCHANGED store =>
        \/ UNCHANGED <<ledger, credit>>
        \/ \E t \in Task : RetryTask(t)
        \/ \E t \in Task, a \in Action, answer \in {"approved", "denied"} : Resolve(t, a, answer)
    BY <1>1, <1>2, <1>4, HistoryMoves DEF store, history
<1> QED BY <1>2, <1>3, <1>4, <1>5, <1>6, StoreMoves

LEMMA CreditsStep ==
  ASSUME Steady, Base, Credits, [Next]_vars
  PROVE  Credits'
<1>0. /\ Shapes /\ ledger \in LedgerFile /\ ml \in LedgerFile
      /\ credit \in [Task -> [Action -> Int]]
      /\ dirty \in BOOLEAN
    BY DEF Base, Shapes, FilesType, CopiesType, HistoryType
<1>1. \A t \in Task, a \in Action : credit[t][a] >= 0
    BY DEF Credits, CreditHolds
<1>2. CASE pc \notin {"idle", "save"}
  <2>0. Backs(ml) /\ (~dirty => ml = ledger)
      BY <1>2 DEF Credits
  <2>1. CASE pc' \notin {"idle", "save"} /\ UNCHANGED <<ml, dirty, ledger, credit>>
      BY <1>1, <2>0, <2>1 DEF Credits, CreditHolds, Backs
  <2>2. ASSUME pc' \notin {"idle", "save"}, dirty' = TRUE, NEW t \in Task, NEW a \in Action,
               \/ /\ ml[t][a] = "approved" /\ ml' = [ml EXCEPT ![t][a] = "none"]
                  /\ credit' = [credit EXCEPT ![t][a] = @ - 1]
               \/ /\ ml' = [ml EXCEPT ![t][a] = "pending"] /\ credit' = credit
        PROVE  Credits'
    <3>1. \A u \in Task, b \in Action :
            credit'[u][b] >= 0 /\ (ml'[u][b] = "approved" => credit'[u][b] > 0)
      <4>1. CASE /\ ml[t][a] = "approved" /\ ml' = [ml EXCEPT ![t][a] = "none"]
                 /\ credit' = [credit EXCEPT ![t][a] = @ - 1]
        <5>1. \A u \in Task, b \in Action :
                /\ [credit EXCEPT ![t][a] = @ - 1][u][b] >= 0
                /\ [ml EXCEPT ![t][a] = "none"][u][b] = "approved" =>
                     [credit EXCEPT ![t][a] = @ - 1][u][b] > 0
          <6>1. \A u \in Task, b \in Action :
                  credit[u][b] >= 0 /\ (ml[u][b] = "approved" => credit[u][b] > 0)
              BY <1>1, <2>0 DEF Backs
          <6> QED BY <1>0, <4>1, <6>1, UseFacts, Zenon
        <5> QED BY <4>1, <5>1
      <4>2. CASE ml' = [ml EXCEPT ![t][a] = "pending"] /\ credit' = credit
          BY <1>0, <1>1, <2>0, <4>2 DEF Backs, LedgerFile
      <4> QED BY <2>2, <4>1, <4>2
    <3> QED BY <2>2, <3>1 DEF Credits, CreditHolds, Backs
  <2>3. CASE ledger' = Flushed /\ credit' = credit /\ pc' \in {"idle", "save"}
    <3>1. Backs(Flushed)
        BY <2>0 DEF Flushed
    <3> QED BY <1>1, <2>3, <3>1 DEF Credits, CreditHolds, Backs
  <2> QED BY <1>0, <1>2, <2>1, <2>2, <2>3, GateMoves
<1>3. CASE pc \in {"idle", "save"} /\ pc' \in {"idle", "save"}
  <2>0. Backs(ledger)
      BY <1>3 DEF Credits
  <2>1. \A u \in Task, b \in Action :
          credit'[u][b] >= 0 /\ (ledger'[u][b] = "approved" => credit'[u][b] > 0)
    <3>1. CASE UNCHANGED <<ledger, credit>>
        BY <1>1, <2>0, <3>1 DEF Backs
    <3>2. ASSUME NEW t \in Task, RetryTask(t)
          PROVE  \A u \in Task, b \in Action :
                   credit'[u][b] >= 0 /\ (ledger'[u][b] = "approved" => credit'[u][b] > 0)
      <4>1. /\ ledger' = ledger \/ ledger' = [ledger EXCEPT ![t]["dispatch"] = "none"]
            /\ credit' = credit
          BY <3>2, RetryEffect
      <4>2. ASSUME NEW u \in Task, NEW b \in Action
            PROVE  ledger'[u][b] \in {"none", ledger[u][b]}
        <5>1. ledger'[u][b] = IF ledger' = ledger THEN ledger[u][b]
                              ELSE IF u = t /\ b = "dispatch" THEN "none" ELSE ledger[u][b]
            BY <1>0, <4>1 DEF LedgerFile
        <5> QED BY <5>1
      <4> QED BY <1>1, <2>0, <4>1, <4>2 DEF Backs
    <3>3. ASSUME NEW t \in Task, NEW a \in Action, NEW answer \in {"approved", "denied"},
                 Resolve(t, a, answer)
          PROVE  \A u \in Task, b \in Action :
                   credit'[u][b] >= 0 /\ (ledger'[u][b] = "approved" => credit'[u][b] > 0)
      <4>1. /\ ledger' = [Swept(ledger) EXCEPT ![t][a] = answer]
            /\ credit' = IF answer = "approved" THEN [credit EXCEPT ![t][a] = 1] ELSE credit
          BY <3>3 DEF Resolve
      <4>2. Swept(ledger) \in LedgerFile
          BY <1>0, SweptType
      <4>3. \A u \in Task, b \in Action :
              Swept(ledger)[u][b] = "approved" => ledger[u][b] = "approved"
          BY <1>0 DEF Swept, LedgerFile
      <4>4. ASSUME NEW u \in Task, NEW b \in Action
            PROVE  credit'[u][b] >= 0 /\ (ledger'[u][b] = "approved" => credit'[u][b] > 0)
        <5>1. ledger'[u][b] = IF u = t /\ b = a THEN answer ELSE Swept(ledger)[u][b]
            BY <4>1, <4>2 DEF LedgerFile
        <5>2. credit'[u][b] = IF u = t /\ b = a /\ answer = "approved" THEN 1 ELSE credit[u][b]
            BY <1>0, <4>1
        <5> QED BY <1>1, <2>0, <4>3, <5>1, <5>2 DEF Backs
      <4> QED BY <4>4
    <3>4. ASSUME NEW t \in Task, NEW a \in Action, Lapse(t, a)
          PROVE  \A u \in Task, b \in Action :
                   credit'[u][b] >= 0 /\ (ledger'[u][b] = "approved" => credit'[u][b] > 0)
      <4>1. /\ \/ ledger' = [ledger EXCEPT ![t][a] = "lapsed"]
               \/ ledger' = [ledger EXCEPT ![t][a] = "none"]
            /\ credit' = credit
          BY <3>4 DEF Lapse, history
      <4> QED BY <1>0, <1>1, <2>0, <4>1 DEF Backs, LedgerFile
    <3> QED BY <1>0, <1>3, <3>1, <3>2, <3>3, <3>4, LedgerMoves
  <2> QED BY <1>3, <2>1 DEF Credits, CreditHolds, Backs
<1>4. CASE pc \in {"idle", "save"} /\ pc' \notin {"idle", "save"}
  <2>0. Backs(ledger)
      BY <1>4 DEF Credits
  <2>1. pc = "idle"
    <3>1. ASSUME pc = "save"
          PROVE  FALSE
      <4>1. ASSUME NEW t \in Task
            PROVE  /\ ~TickBlocked(t) /\ ~TickDenied(t) /\ ~TickWait(t) /\ ~TickLaunch(t)
                   /\ ~TickAbort(t)
          BY <3>1 DEF TickBlocked, TickDenied, TickWait, TickLaunch, TickAbort, Serve, At
      <4>2. ~TickStep \/ TickSave
          BY <3>1, <4>1 DEF TickStep, TickLook, TickPoll, TickApply, TickRetarget, TickPass,
                            TickRecord, TickFlush, TickGiveUp
      <4>3. TickSave \/ TickCrash => pc' = "idle"
          BY DEF TickSave, TickCrash, Forget
      <4>4. ~(\E S \in Scopes : TickBegin(S))
          BY <3>1 DEF TickBegin
      <4> QED BY <1>0, <1>4, <3>1, <4>2, <4>3, <4>4, CopyMoves
    <3> QED BY <1>4, <3>1
  <2>2. /\ UNCHANGED <<ledger, credit>>
        /\ ml' = Swept(ledger)
      BY <1>0, <1>4, <2>1, IdleMoves DEF store, history
  <2>3. dirty' = (Swept(ledger) # ledger)
      BY <1>0, <1>4, <2>1, IdleMoves
  <2>4. ~dirty' => ml' = ledger'
      BY <2>2, <2>3
  <2>5. \A u \in Task, b \in Action : ml'[u][b] = "approved" => credit'[u][b] > 0
      BY <1>0, <2>0, <2>2 DEF Backs, Swept, LedgerFile
  <2> QED BY <1>1, <1>4, <2>2, <2>4, <2>5 DEF Credits, CreditHolds, Backs
<1> QED BY <1>2, <1>3, <1>4

\* The operator's approval of a dispatch starts one worker and that of a
\* fallback moves tasks once, whether the tick that used it ends well or not.
THEOREM CreditHoldsAlways == ASSUME Steady PROVE Spec => []CreditHolds
<1>1. Init => Credits
    BY DEF Init, Credits, CreditHolds, Backs, NoLedger
<1>2. Base /\ Credits /\ [Next]_vars => Credits'
    BY CreditsStep
<1>3. Credits => CreditHolds
    BY DEF Credits
<1> QED BY <1>1, <1>2, <1>3, BaseAlways, PTL DEF Spec

-----------------------------------------------------------------------------
\* With no task that ends the tick with an error either: every live run is
\* watched.

Handled == Steady /\ RemoteTask = {} /\ BrokenTask = {}

LEMMA HandledMoves ==
  ASSUME Handled, Base, [Next]_vars, pc \notin {"idle", "abort"}
  PROVE  /\ pc' # "abort"
         /\ pc' = "idle" => pc = "save" /\ tasks' = mt /\ UNCHANGED <<world, runs>>
         /\ pc = "record" => TickRecord \/ UNCHANGED <<pc, copies>>
<1>0. Shapes /\ ~TickCrash /\ ~TickGiveUp
    BY DEF Base, Handled, Steady, TickCrash, TickGiveUp
<1>1. CASE UNCHANGED <<pc, copies>>
    BY <1>1
<1>2. ~(\E S \in Scopes : TickBegin(S))
    BY DEF TickBegin
<1>3. ASSUME NEW t \in Task
      PROVE  ~TickAbort(t)
    BY DEF TickAbort, Handled
<1>4. ASSUME NEW t \in Task, TickBlocked(t) \/ TickDenied(t) \/ TickWait(t) \/ TickLaunch(t)
      PROVE  pc' \notin {"abort", "idle"} /\ pc # "record"
    BY <1>0, <1>4, ServedEffect DEF TickLaunch, Serve, At
<1>5. TickSave => pc = "save" /\ pc' = "idle" /\ tasks' = mt /\ UNCHANGED <<world, runs>>
    BY DEF TickSave, Forget
<1>6. TickLook \/ TickPoll \/ TickApply \/ TickRetarget \/ TickPass \/ TickFlush
        => pc' \notin {"abort", "idle"} /\ pc # "record"
    BY DEF TickLook, TickPoll, TickApply, TickRetarget, TickPass, TickFlush
<1>7. TickRecord => pc' = "dispatch"
    BY DEF TickRecord
<1>8. CASE TickStep
    BY <1>0, <1>3, <1>4, <1>5, <1>6, <1>7, <1>8 DEF TickStep
<1> QED BY <1>0, <1>1, <1>2, <1>8, CopyMoves

LEMMA ReconciledWatches ==
  ASSUME Base, NEW r \in alive, NEW x \in TaskRecord, NEW d, Watches(x, r), r \in Run,
         True(d[r], r)
  PROVE  Watches(Reconciled(x, d), r)
<1>1. x.ticket = r /\ d[r] # "lost"
    BY DEF Watches, True, Gone
<1>2. Reconciled(x, d).ticket = x.ticket
    BY ReconciledType
<1>3. Reconciled(x, d) = x \/ Reconciled(x, d).status \in {"completed", "running"}
    BY <1>1, ReconciledStatus
<1> QED BY <1>1, <1>2, <1>3 DEF Watches

LEMMA WatchedStep ==
  ASSUME Handled, Base, Watched, [Next]_vars
  PROVE  Watched'
<1>0. /\ Shapes /\ Alone /\ tasks \in [Task -> TaskRecord] /\ mt \in [Task -> TaskRecord]
      /\ alive \subseteq Run /\ next \in Nat
      /\ \A r \in alive : r < next /\ runOf[r] \in Task /\ runOf'[r] = runOf[r]
  <2>1. /\ Shapes /\ Alone /\ tasks \in [Task -> TaskRecord] /\ mt \in [Task -> TaskRecord]
        /\ alive \subseteq Run
      BY DEF Handled, Steady, Alone, Base, Shapes, FilesType, CopiesType, WorldType
  <2>2. next \in Nat /\ \A r \in Run : r \in Nat
      BY <2>1, RunMoves
  <2>3. \A r \in alive : r < next
      BY <2>1, <2>2 DEF Base, Numbered
  <2>4. ASSUME NEW r \in alive
        PROVE  runOf[r] \in Task /\ runOf'[r] = runOf[r]
      BY <2>1, <2>3, GoneKept
  <2> QED BY <2>1, <2>2, <2>3, <2>4
<1>1. CASE pc # "idle"
  <2>0. /\ pc' # "abort" /\ released' = released
        /\ pc' = "idle" => pc = "save" /\ tasks' = mt /\ UNCHANGED <<world, runs>>
        /\ pc = "record" => TickRecord \/ UNCHANGED <<pc, copies>>
    <3>1. released' = released
        BY <1>0, <1>1, AloneMoves
    <3> QED BY <1>1, <3>1, HandledMoves DEF Watched
  <2>1. \A r \in alive \ released : Watches(mt[runOf[r]], r) \/ (pc = "record" /\ r = next - 1)
      BY <1>1 DEF Watched
  <2>2. ASSUME pc' = "idle", NEW r \in alive' \ released'
        PROVE  Watches(tasks'[runOf'[r]], r)
      BY <2>0, <2>1, <2>2 DEF world, runs
  <2>3. ASSUME pc' # "idle", NEW r \in alive' \ released'
        PROVE  Watches(mt'[runOf'[r]], r) \/ (pc' = "record" /\ r = next' - 1)
    <3>1. CASE r \notin alive
      <4>1. pc = "dispatch" /\ next' = next + 1 /\ r = next
          BY <1>0, <2>3, <3>1, RunMoves
      <4>2. pc' = "record"
        <5>1. ~(UNCHANGED <<world, runs>>) /\ ~Cooldown
            BY <2>3, <3>1 DEF world, Cooldown
        <5>2. ~(\E u \in Run : WorkerWrites(u) \/ WorkerExits(u))
            BY <2>3, <3>1 DEF WorkerWrites, WorkerExits
        <5>3. \E t \in Task : TickLaunch(t)
            BY <5>1, <5>2, WorldMoves
        <5> QED BY <5>3 DEF TickLaunch
      <4> QED BY <1>0, <4>1, <4>2
    <3>2. CASE r \in alive
      <4>0. runOf'[r] = runOf[r] /\ runOf[r] \in Task /\ r \in Run /\ r \notin released
          BY <1>0, <2>0, <2>3, <3>2
      <4>1. CASE TickRecord
        <5>1. PICK x \in TaskRecord :
                /\ x.status = "launched" /\ x.ticket = next - 1 /\ mt' = [mt EXCEPT ![pos] = x]
            BY <1>0, <4>1, RecordEffect
        <5>2. pc = "record" /\ runOf[next - 1] = pos /\ Waiting(mt[pos]) /\ pos \in Task
            BY <1>0, <4>1, RecordEffect DEF Base, Launching
        <5>3. CASE r = next - 1
            BY <1>0, <4>0, <5>1, <5>2, <5>3 DEF Watches
        <5>4. CASE r # next - 1
          <6>1. Watches(mt[runOf[r]], r)
              BY <2>1, <3>2, <4>0, <5>4
          <6>2. runOf[r] # pos
              BY <5>2, <6>1 DEF Watches, Waiting
          <6> QED BY <1>0, <4>0, <5>1, <6>1, <6>2
        <5> QED BY <5>3, <5>4
      <4>2. CASE pc = "record" /\ UNCHANGED <<pc, copies>>
        <5>1. next' = next /\ mt' = mt
            BY <1>0, <4>2, RunMoves DEF copies
        <5> QED BY <2>1, <3>2, <4>0, <4>2, <5>1
      <4>3. CASE pc # "record"
        <5>0. Watches(mt[runOf[r]], r) /\ mt[runOf[r]] \in TaskRecord
            BY <1>0, <2>1, <3>2, <4>0, <4>3
        <5>1. CASE TickApply
          <6>1. True(outcome[r], r)
              BY <4>0 DEF Base, LostGone, True
          <6>2. Watches(Reconciled(mt[runOf[r]], outcome), r)
              BY <3>2, <4>0, <5>0, <6>1, ReconciledWatches
          <6>3. mt'[runOf[r]] \in {mt[runOf[r]], Reconciled(mt[runOf[r]], outcome)}
              BY <1>0, <4>0, <5>1, ApplyEffect
          <6> QED BY <4>0, <5>0, <6>2, <6>3
        <5>2. CASE TickRetarget
          <6>1. /\ mt'[runOf[r]].ticket = mt[runOf[r]].ticket
                /\ mt'[runOf[r]].status = mt[runOf[r]].status
              BY <1>0, <4>0, <5>2, RetargetEffect
          <6> QED BY <4>0, <5>0, <6>1 DEF Watches
        <5>3. ASSUME NEW u \in Task, TickBlocked(u) \/ TickDenied(u) \/ TickWait(u)
              PROVE  Watches(mt'[runOf'[r]], r)
          <6>1. ~Passed(u) /\ \E x : mt' = [mt EXCEPT ![u] = x]
              BY <1>0, <5>3, ServedEffect
          <6>2. u # runOf[r]
              BY <5>0, <6>1 DEF Passed, CanDispatch, Waiting, Watches
          <6> QED BY <1>0, <4>0, <5>0, <6>1, <6>2
        <5>4. CASE mt' = mt
            BY <4>0, <5>0, <5>4
        <5>5. ~TickRecord
            BY <4>3 DEF TickRecord
        <5> QED BY <1>0, <1>1, <2>3, <5>1, <5>2, <5>3, <5>4, <5>5, RowMoves
      <4> QED BY <2>0, <4>1, <4>2, <4>3
    <3> QED BY <3>1, <3>2
  <2> QED BY <2>0, <2>2, <2>3 DEF Watched
<1>2. CASE pc = "idle" /\ pc' # "idle"
  <2>1. /\ pc' = "look" /\ mt' = tasks
        /\ UNCHANGED <<world, runs, history>>
      BY <1>0, <1>2, IdleMoves
  <2>2. \A r \in alive \ released : Watches(tasks[runOf[r]], r)
      BY <1>2 DEF Watched
  <2> QED BY <2>1, <2>2 DEF Watched, world, runs, history
<1>3. CASE pc = "idle" /\ pc' = "idle"
  <2>0. \A r \in alive \ released : Watches(tasks[runOf[r]], r)
      BY <1>3 DEF Watched
  <2>1. alive' \subseteq alive
      BY <1>0, <1>3, RunMoves
  <2>2. ASSUME NEW r \in alive' \ released', tasks'[runOf[r]] = tasks[runOf[r]], r \notin released
        PROVE  Watches(tasks'[runOf'[r]], r)
      BY <1>0, <2>0, <2>1, <2>2
  <2>3. ASSUME NEW u \in Task, Enqueue(u) \/ CancelTask(u) \/ AbandonTask(u),
               NEW r \in alive' \ released'
        PROVE  Watches(tasks'[runOf'[r]], r)
    <3>1. CASE Enqueue(u)
      <4>1. released' = released \cup RunsOf(u) /\ \E x : tasks' = [tasks EXCEPT ![u] = x]
          BY <3>1 DEF Enqueue
      <4>2. runOf[r] # u
          BY <1>0, <2>1, <2>3, <4>1 DEF RunsOf
      <4> QED BY <1>0, <2>1, <2>2, <2>3, <4>1, <4>2
    <3>2. CASE CancelTask(u) \/ AbandonTask(u)
      <4>1. released' = released \cup RunsOf(u) /\ \E x : tasks' = [tasks EXCEPT ![u] = x]
          BY <3>2, StopEffect
      <4>2. runOf[r] # u
          BY <1>0, <2>1, <2>3, <4>1 DEF RunsOf
      <4> QED BY <1>0, <2>1, <2>2, <2>3, <4>1, <4>2
    <3> QED BY <2>3, <3>1, <3>2
  <2>4. ASSUME NEW u \in Task, RetryTask(u), NEW r \in alive' \ released'
        PROVE  Watches(tasks'[runOf'[r]], r)
    <3>1. /\ \/ /\ tasks[u].status \in {"failed", "resume_pending", "cancelled"}
                /\ tasks' = [tasks EXCEPT ![u] = Requeued(tasks[u])]
             \/ tasks' = tasks
          /\ released' = released
        BY <2>4, RetryEffect
    <3>2. Watches(tasks[runOf[r]], r)
        BY <2>0, <2>1, <2>4, <3>1
    <3>3. tasks' = tasks \/ u # runOf[r]
        BY <3>1, <3>2 DEF Watches
    <3> QED BY <1>0, <2>1, <2>2, <2>4, <3>1, <3>3
  <2>5. ASSUME NEW S \in SUBSET Recorded(probes), Poll(S),
               tasks' = [t \in Task |-> Reconciled(tasks[t], Decisions(S, probes, alive))],
               NEW r \in alive' \ released'
        PROVE  Watches(tasks'[runOf'[r]], r)
    <3>1. released' = released
        BY <2>5 DEF Poll, history
    <3>2. r \in alive /\ r \in Run /\ Watches(tasks[runOf[r]], r) /\ tasks[runOf[r]] \in TaskRecord
        BY <1>0, <2>0, <2>1, <2>5, <3>1
    <3>3. True(Decisions(S, probes, alive)[r], r)
        BY <3>2, DecisionsTrue
    <3>4. Watches(Reconciled(tasks[runOf[r]], Decisions(S, probes, alive)), r)
        BY <3>2, <3>3, ReconciledWatches
    <3> QED BY <1>0, <2>5, <3>2, <3>4
  <2>6. ASSUME tasks' = tasks, NEW r \in alive' \ released'
        PROVE  Watches(tasks'[runOf'[r]], r)
    <3>1. released \subseteq released'
      <4>1. TickRetarget => released' = released
          BY DEF TickRetarget
      <4>2. ASSUME NEW t \in Task, TickLaunch(t) \/ TickAbort(t) \/ RetryTask(t) \/ Enqueue(t)
            PROVE  released \subseteq released'
          BY <4>2 DEF TickLaunch, TickAbort, RetryTask, Enqueue
      <4>3. ASSUME NEW t \in Task, CancelTask(t) \/ AbandonTask(t)
            PROVE  released \subseteq released'
          BY <4>3, StopEffect
      <4>4. ASSUME NEW t \in Task, NEW a, NEW answer, Resolve(t, a, answer)
            PROVE  released' = released
          BY <4>4 DEF Resolve
      <4> QED BY <1>0, <4>1, <4>2, <4>3, <4>4, HistoryMoves DEF history
    <3> QED BY <2>2, <2>6, <3>1
  <2>7. \A r \in alive' \ released' : Watches(tasks'[runOf'[r]], r)
      BY <1>0, <1>3, <2>3, <2>4, <2>5, <2>6, TaskMoves
  <2> QED BY <1>3, <2>7 DEF Watched
<1> QED BY <1>1, <1>2, <1>3

\* Between ticks every worker that runs is the one its task points at, unless
\* the operator cancelled or replaced the task.
THEOREM SupervisedAlways == ASSUME Handled PROVE Spec => []Supervised
<1>1. Init => Watched
    BY DEF Init, Watched
<1>2. Base /\ Watched /\ [Next]_vars => Watched'
    BY WatchedStep
<1>3. Watched => Supervised
    BY DEF Watched, Watches, Supervised
<1> QED BY <1>1, <1>2, <1>3, BaseAlways, PTL DEF Spec

\* Nor does a task have two workers at once: what the run with a remote task
\* finds needs a tick that ends with an error.
THEOREM OneLiveRunAlways == ASSUME Handled PROVE Spec => []OneLiveRun
<1>1. Init => Watched
    BY DEF Init, Watched
<1>2. Base /\ Watched /\ [Next]_vars => Watched'
    BY WatchedStep
<1>3. Base /\ Watched => OneLiveRun
  <2> SUFFICES ASSUME Base, Watched, NEW t \in Task
               PROVE  Cardinality({r \in alive \ released : runOf[r] = t}) <= 1
      BY DEF OneLiveRun
  <2> DEFINE live == {r \in alive \ released : runOf[r] = t}
  <2>1. \A r, q \in live : r = q
    <3>1. CASE pc = "idle"
        BY <3>1 DEF Watched, Watches
    <3>2. CASE pc # "idle"
      <4>1. \A r \in live : Watches(mt[t], r) \/ (pc = "record" /\ r = next - 1)
          BY <3>2 DEF Watched
      <4>2. \A r \in live : pc = "record" /\ r = next - 1 => \A q : ~Watches(mt[t], q)
          BY DEF Base, Launching, Waiting, Watches
      <4> QED BY <4>1, <4>2 DEF Watches
    <3> QED BY <3>1, <3>2
  <2>2. CASE live = {}
      BY <2>2, FS_EmptySet
  <2>3. CASE live # {}
    <3>1. PICK r \in live : TRUE
        BY <2>3
    <3>2. live = {r}
        BY <2>1, <3>1
    <3> HIDE DEF live
    <3>3. Cardinality(live) = 1
        BY <3>2, FS_Singleton
    <3> QED BY <3>3 DEF live
  <2> QED BY <2>2, <2>3
<1> QED BY <1>1, <1>2, <1>3, BaseAlways, PTL DEF Spec
=============================================================================
