------------------------ MODULE LearningSignalsProofs ------------------------
(***************************************************************************)
(* For every number of tasks, denials, rows and attempts, with scans one   *)
(* at a time or overlapping: the shapes of LearningSignals, that no event  *)
(* is lost (CursorBacked) and how often one can be counted                 *)
(* (RepeatsExplained).                                                     *)
(***************************************************************************)
EXTENDS LearningSignals, TLAPS

\* What stands in the stores goes by keys of the cursor.
LEMMA StandingKeys == TypeOK => Standing \subseteq Key
<1> SUFFICES ASSUME TypeOK PROVE Standing \subseteq Key
  OBVIOUS
<1>1. \A i \in 1..MaxDenials : DenialKey(i) \in Key
  BY DEF Key
<1>2. \A t \in Task : FailureKey(t, tasks[t].attempts) \in Key
  <2> TAKE t \in Task
  <2>1. tasks[t].attempts \in 0..MaxAttempts
    BY DEF TypeOK, TaskRecord
  <2> QED BY <2>1 DEF Key
<1>3. \A t \in Task : rows[t].status = "resume_pending" => RecoveryKey(rows[t].id) \in Key
  <2> SUFFICES ASSUME NEW t \in Task, rows[t].status = "resume_pending"
               PROVE  RecoveryKey(rows[t].id) \in Key
    OBVIOUS
  <2>1. rows[t].id \in 1..MaxRows
    BY LearningAssumption DEF TypeOK, RowRecord
  <2> QED BY <2>1 DEF Key
<1> QED BY <1>1, <1>2, <1>3 DEF Standing

LEMMA TypeInit == Init => TypeOK
BY LearningAssumption DEF Init, TypeOK, NoTask, NoRow, NoScan, TaskRecord, RowRecord, ScanRecord

LEMMA TypeStep == TypeOK /\ [Next]_vars => TypeOK'
<1> SUFFICES ASSUME TypeOK, [Next]_vars PROVE TypeOK'
  OBVIOUS
<1> USE LearningAssumption
<1>1. ASSUME NEW s \in Scanner, ScanBegin(s) PROVE TypeOK'
  <2>1. [NoScan EXCEPT !.pc = "look", !.cursor = cursor] \in ScanRecord
    BY DEF NoScan, ScanRecord, TypeOK
  <2>2. disturbed' \in 0..MaxDisturbed
    BY <1>1 DEF ScanBegin, TypeOK
  <2>3. scan' \in [Scanner -> ScanRecord]
    BY <1>1, <2>1 DEF ScanBegin, TypeOK
  <2> QED BY <1>1, <2>2, <2>3 DEF ScanBegin, TypeOK, stores
<1>2. ASSUME NEW s \in Scanner, ScanLook(s) PROVE TypeOK'
  <2>1. Standing \ scan[s].cursor \in SUBSET Key
    BY StandingKeys
  <2>2. [scan[s] EXCEPT !.pc = "emit", !.todo = Standing \ scan[s].cursor] \in ScanRecord
    BY <2>1 DEF TypeOK, ScanRecord
  <2>3. scan' = [scan EXCEPT ![s] = [scan[s] EXCEPT !.pc = "emit",
                                                    !.todo = Standing \ scan[s].cursor]]
    BY <1>2 DEF ScanLook
  <2>4. scan' \in [Scanner -> ScanRecord]
    BY <2>2, <2>3 DEF TypeOK
  <2> QED BY <1>2, <2>4 DEF ScanLook, TypeOK, stores
<1>3. ASSUME NEW s \in Scanner, ScanEmit(s) PROVE TypeOK'
  <2>1. PICK k \in First(scan[s].todo) :
          /\ counted' = [counted EXCEPT ![k] = @ + 1]
          /\ scan' = [scan EXCEPT ![s].cursor = @ \cup {k}, ![s].todo = @ \ {k},
                                  ![s].emitted = TRUE]
    BY <1>3 DEF ScanEmit
  <2>2. k \in Key /\ scan[s].todo \subseteq Key /\ scan[s].cursor \subseteq Key
    BY DEF TypeOK, ScanRecord, First
  <2>3. counted' \in [Key -> Nat]
    BY <2>1, <2>2 DEF TypeOK
  <2>4. scan' \in [Scanner -> ScanRecord]
    <3>1. [scan[s] EXCEPT !.cursor = @ \cup {k}, !.todo = @ \ {k}, !.emitted = TRUE]
            \in ScanRecord
      BY <2>2 DEF TypeOK, ScanRecord
    <3>2. scan' = [scan EXCEPT ![s] = [scan[s] EXCEPT !.cursor = @ \cup {k},
                                                      !.todo = @ \ {k}, !.emitted = TRUE]]
      BY <2>1
    <3> QED BY <3>1, <3>2 DEF TypeOK
  <2> QED BY <1>3, <2>3, <2>4 DEF ScanEmit, TypeOK, stores
<1>4. ASSUME NEW s \in Scanner, ScanSave(s) PROVE TypeOK'
  <2>1. NoScan \in ScanRecord
    BY DEF NoScan, ScanRecord
  <2>2. cursor' \subseteq Key
    BY <1>4 DEF ScanSave, TypeOK, ScanRecord
  <2> QED BY <1>4, <2>1, <2>2 DEF ScanSave, TypeOK, stores
<1>5. ASSUME NEW s \in Scanner, ScanFail(s) PROVE TypeOK'
  <2>1. NoScan \in ScanRecord
    BY DEF NoScan, ScanRecord
  <2> QED BY <1>5, <2>1 DEF ScanFail, TypeOK, stores
<1>6. ASSUME NEW t \in Task, TickAsk(t) PROVE TypeOK'
  <2>1. tasks[t].attempts \in 0..MaxAttempts
    BY DEF TypeOK, TaskRecord
  <2> QED BY <1>6, <2>1 DEF TickAsk, TypeOK, TaskRecord
<1>7. ASSUME NEW t \in Task, TickRefused(t) PROVE TypeOK'
  <2>1. tasks[t].attempts \in 0..MaxAttempts
    BY DEF TypeOK, TaskRecord
  <2> QED BY <1>7, <2>1 DEF TickRefused, TypeOK, TaskRecord
<1>8. ASSUME NEW t \in Task, TickLaunch(t) PROVE TypeOK'
  <2>1. tasks[t].attempts + 1 \in 0..MaxAttempts
    BY <1>8 DEF TickLaunch, TypeOK, TaskRecord
  <2> QED BY <1>8, <2>1 DEF TickLaunch, TypeOK, TaskRecord
<1>9. ASSUME NEW t \in Task, Lost(t) PROVE TypeOK'
  <2>1. tasks' \in [Task -> TaskRecord]
    <3>1. [tasks EXCEPT ![t].status = "resume_pending"] \in [Task -> TaskRecord]
      BY DEF TypeOK, TaskRecord
    <3> QED BY <1>9, <3>1 DEF Lost, TypeOK
  <2>2. /\ rows' \in [Task -> RowRecord] /\ nextRow' \in 1..(MaxRows + 1)
        /\ \A u \in Task : /\ rows'[u].id < nextRow'
                           /\ rows'[u].id = 0 => rows'[u].status = "none"
    BY <1>9 DEF Lost, TypeOK, RowRecord
  <2> QED BY <1>9, <2>1, <2>2 DEF Lost, TypeOK
<1>10. \A t \in Task, status \in {"resumed", "cancelled"} :
         /\ Closed(t, status) \in [Task -> RowRecord]
         /\ \A u \in Task : /\ Closed(t, status)[u].id < nextRow
                            /\ Closed(t, status)[u].id = 0
                                 => Closed(t, status)[u].status = "none"
  BY DEF Closed, TypeOK, RowRecord
<1>11. ASSUME NEW t \in Task, Finished(t) PROVE TypeOK'
  <2>1. tasks' \in [Task -> TaskRecord]
    BY <1>11 DEF Finished, TypeOK, TaskRecord
  <2> QED BY <1>10, <1>11, <2>1 DEF Finished, TypeOK
<1>12. ASSUME NEW t \in Task, Enqueue(t) PROVE TypeOK'
  <2>1. tasks' \in [Task -> TaskRecord]
    BY <1>12 DEF Enqueue, TypeOK, NoTask, TaskRecord
  <2> QED BY <1>12, <2>1 DEF Enqueue, TypeOK
<1>13. ASSUME NEW t \in Task, Deny(t) PROVE TypeOK'
  BY <1>13 DEF Deny, TypeOK
<1>14. ASSUME NEW t \in Task, Cancel(t) PROVE TypeOK'
  <2>1. tasks' \in [Task -> TaskRecord]
    BY <1>14 DEF Cancel, TypeOK, TaskRecord
  <2> QED BY <1>10, <1>14, <2>1 DEF Cancel, TypeOK
<1>15. ASSUME NEW t \in Task, NEW new \in BOOLEAN, Retry(t, new) PROVE TypeOK'
  <2>1. tasks' \in [Task -> TaskRecord]
    BY <1>15 DEF Retry, TypeOK, TaskRecord
  <2>2. denials' \in [1..MaxDenials -> [task : Task \cup {0},
                                        status : {"none", "denied", "superseded"}]]
    BY <1>15 DEF Retry, TypeOK
  <2>3. /\ rows' \in [Task -> RowRecord]
        /\ \A u \in Task : /\ rows'[u].id < nextRow
                           /\ rows'[u].id = 0 => rows'[u].status = "none"
    BY <1>10, <1>15 DEF Retry, TypeOK
  <2> QED BY <1>15, <2>1, <2>2, <2>3 DEF Retry, TypeOK
<1>16. CASE UNCHANGED vars
  BY <1>16 DEF vars, stores, TypeOK
<1> QED BY <1>1, <1>2, <1>3, <1>4, <1>5, <1>6, <1>7, <1>8, <1>9, <1>11, <1>12, <1>13,
           <1>14, <1>15, <1>16 DEF Next, ScanStep

\* The stores, the cursor, every scan's copy of it and the histories keep
\* their shapes, and no two recovery rows share an id.
THEOREM TypeCorrect == Spec => []TypeOK
BY TypeInit, TypeStep, PTL DEF Spec

-----------------------------------------------------------------------------
(* No event is lost.  counted never falls, a key enters a scan's copy in    *)
(* the step that counts it, and every other copy is a copy of a backed one. *)

Backed(keys) == \A k \in keys : counted[k] > 0
AllBacked == Backed(cursor) /\ \A s \in Scanner : Backed(scan[s].cursor)

\* A step that is not a scan's leaves what the scans work on alone.
LEMMA ScansOnly ==
  [Next]_vars => \/ \E s \in Scanner : \/ ScanBegin(s) \/ ScanLook(s) \/ ScanEmit(s)
                                      \/ ScanSave(s) \/ ScanFail(s)
                 \/ UNCHANGED <<cursor, counted, scan, disturbed>>
BY DEF Next, vars, ScanStep, TickAsk, TickRefused, TickLaunch, Lost, Finished, Enqueue,
       Deny, Cancel, Retry

LEMMA BackedStep ==
  ASSUME TypeOK, AllBacked, [Next]_vars
  PROVE  AllBacked'
<1> USE DEF AllBacked
<1>1. ASSUME NEW s \in Scanner, ScanBegin(s) PROVE AllBacked'
  BY <1>1 DEF ScanBegin, Backed, TypeOK, NoScan
<1>2. ASSUME NEW s \in Scanner, ScanLook(s) PROVE AllBacked'
  BY <1>2 DEF ScanLook, Backed, TypeOK, ScanRecord
<1>3. ASSUME NEW s \in Scanner, ScanEmit(s) PROVE AllBacked'
  <2>1. PICK k \in First(scan[s].todo) :
          /\ counted' = [counted EXCEPT ![k] = @ + 1]
          /\ scan' = [scan EXCEPT ![s].cursor = @ \cup {k}, ![s].todo = @ \ {k},
                                  ![s].emitted = TRUE]
    BY <1>3 DEF ScanEmit
  <2>2. k \in Key /\ counted[k] \in Nat
    BY DEF TypeOK, ScanRecord, First
  <2>3. \A j \in Key : counted[j] > 0 => counted'[j] > 0
    BY <2>1, <2>2 DEF TypeOK
  <2>4. counted'[k] > 0
    BY <2>1, <2>2 DEF TypeOK
  <2>5. \A r \in Scanner : scan'[r].cursor \subseteq scan[r].cursor \cup {k}
    BY <2>1 DEF TypeOK, ScanRecord
  <2>6. cursor \subseteq Key /\ \A r \in Scanner : scan[r].cursor \subseteq Key
    BY DEF TypeOK, ScanRecord
  <2> QED BY <1>3, <2>3, <2>4, <2>5, <2>6 DEF ScanEmit, Backed
<1>4. ASSUME NEW s \in Scanner, ScanSave(s) PROVE AllBacked'
  BY <1>4 DEF ScanSave, Backed, TypeOK, NoScan
<1>5. ASSUME NEW s \in Scanner, ScanFail(s) PROVE AllBacked'
  BY <1>5 DEF ScanFail, Backed, TypeOK, NoScan
<1>6. CASE UNCHANGED <<cursor, counted, scan, disturbed>>
  BY <1>6 DEF Backed
<1> QED BY <1>1, <1>2, <1>3, <1>4, <1>5, <1>6, ScansOnly

\* No event is lost: a key the cursor on file or a scan's copy calls processed
\* was recorded, whatever fails and however scans overlap.
THEOREM CursorBackedAlways == Spec => []CursorBacked
<1> DEFINE IInv == TypeOK /\ AllBacked
<1>1. Init => IInv
  BY TypeInit DEF Init, AllBacked, Backed, NoScan
<1>2. IInv /\ [Next]_vars => IInv'
  BY TypeStep, BackedStep
<1>3. IInv => CursorBacked
  BY DEF AllBacked, Backed, CursorBacked
<1> QED BY <1>1, <1>2, <1>3, PTL DEF Spec

-----------------------------------------------------------------------------
(* How often an event is counted.  A scan under way whose copy lacks the    *)
(* key may still count it, and so may the next scan if neither the cursor   *)
(* on file has it nor a scan will save it: each of these is paid for by a   *)
(* scan that failed or overlapped another, except one.                      *)

MayCount(s, k) == IF Scanning(s) /\ k \notin scan[s].cursor THEN 1 ELSE 0
WillSave(s, k) == scan[s].emitted /\ k \in scan[s].cursor
Budgeted(k) ==
  /\ counted[k] + MayCount("tick", k) + MayCount("operator", k) <= 1 + disturbed
  /\ (k \notin cursor /\ \A s \in Scanner : ~WillSave(s, k)) => counted[k] <= disturbed
Budget == \A k \in Key : Budgeted(k)

\* A scan emits a key once, and one that is over has left nothing behind.
ScansFresh ==
  \A s \in Scanner : /\ scan[s].todo \cap scan[s].cursor = {}
                     /\ ~Scanning(s) => scan[s] = NoScan

LEMMA FreshStep ==
  ASSUME TypeOK, ScansFresh, [Next]_vars
  PROVE  ScansFresh'
<1> USE DEF ScansFresh, Scanning, NoScan
<1>1. ASSUME NEW s \in Scanner, ScanBegin(s) PROVE ScansFresh'
  BY <1>1 DEF ScanBegin, TypeOK
<1>2. ASSUME NEW s \in Scanner, ScanLook(s) PROVE ScansFresh'
  <2>1. \A r \in Scanner \ {s} : scan'[r] = scan[r]
    BY <1>2 DEF ScanLook, TypeOK
  <2>2. /\ scan'[s].pc = "emit" /\ scan'[s].cursor = scan[s].cursor
        /\ scan'[s].emitted = scan[s].emitted /\ scan'[s].todo = Standing \ scan[s].cursor
    BY <1>2 DEF ScanLook, TypeOK, ScanRecord
  <2> QED BY <2>1, <2>2
<1>3. ASSUME NEW s \in Scanner, ScanEmit(s) PROVE ScansFresh'
  <2>1. PICK j \in First(scan[s].todo) :
          scan' = [scan EXCEPT ![s].cursor = @ \cup {j}, ![s].todo = @ \ {j},
                               ![s].emitted = TRUE]
    BY <1>3 DEF ScanEmit
  <2>2. \A r \in Scanner \ {s} : scan'[r] = scan[r]
    BY <2>1 DEF TypeOK
  <2>3. /\ scan'[s].pc = "emit"
        /\ scan'[s].cursor = scan[s].cursor \cup {j} /\ scan'[s].todo = scan[s].todo \ {j}
    BY <1>3, <2>1 DEF ScanEmit, TypeOK, ScanRecord
  <2> QED BY <2>2, <2>3
<1>4. ASSUME NEW s \in Scanner, ScanSave(s) PROVE ScansFresh'
  BY <1>4 DEF ScanSave, TypeOK
<1>5. ASSUME NEW s \in Scanner, ScanFail(s) PROVE ScansFresh'
  BY <1>5 DEF ScanFail, TypeOK
<1>6. CASE UNCHANGED <<cursor, counted, scan, disturbed>>
  BY <1>6
<1> QED BY <1>1, <1>2, <1>3, <1>4, <1>5, <1>6, ScansOnly

LEMMA BudgetStep ==
  ASSUME TypeOK, ScansFresh, Budget, [Next]_vars
  PROVE  Budget'
<1> SUFFICES ASSUME NEW k \in Key PROVE Budgeted(k)'
  BY DEF Budget
<1> USE DEF Budgeted
<1>0. /\ counted[k] \in Nat /\ disturbed \in Nat
      /\ counted[k] + MayCount("tick", k) + MayCount("operator", k) <= 1 + disturbed
      /\ (k \notin cursor /\ \A s \in Scanner : ~WillSave(s, k)) => counted[k] <= disturbed
  BY LearningAssumption DEF TypeOK, Budget
<1>1. ASSUME NEW s \in Scanner, ScanBegin(s) PROVE Budgeted(k)'
  <2>1. \A r \in Scanner \ {s} : scan'[r] = scan[r]
    BY <1>1 DEF ScanBegin, TypeOK
  <2>2. ~Scanning(s) /\ scan[s] = NoScan
    BY <1>1 DEF ScanBegin, ScansFresh
  <2>3. scan'[s] = [NoScan EXCEPT !.pc = "look", !.cursor = cursor]
    BY <1>1 DEF ScanBegin, TypeOK
  <2>4. \A r \in Scanner : WillSave(r, k)' <=> WillSave(r, k)
    <3>1. ASSUME NEW r, r = s
          PROVE  ~WillSave(r, k) /\ ~WillSave(r, k)'
      <4>1. ~scan[r].emitted /\ ~scan'[r].emitted
        BY <2>2, <2>3, <3>1, Zenon DEF NoScan
      <4> QED BY <4>1, Zenon DEF WillSave
    <3>2. \A r \in Scanner \ {s} : WillSave(r, k)' <=> WillSave(r, k)
      BY <2>1, Zenon DEF WillSave
    <3>3. ASSUME NEW r \in Scanner
          PROVE  WillSave(r, k)' <=> WillSave(r, k)
      <4>1. CASE r = s
        BY <3>1, <4>1, Zenon
      <4>2. CASE r # s
        BY <3>2, <4>2, Zenon
      <4> QED BY <4>1, <4>2, Zenon
    <3> QED BY <3>3, Zenon
  <2>5. MayCount(s, k) = 0 /\ MayCount(s, k)' = IF k \in cursor THEN 0 ELSE 1
    BY <2>2, <2>3 DEF MayCount, Scanning, NoScan
  <2>6. \A r \in Scanner \ {s} : MayCount(r, k)' = MayCount(r, k)
    BY <2>1 DEF MayCount, Scanning
  <2>7. CASE \E r \in Scanner \ {s} : Scanning(r)
    <3>1. disturbed' = disturbed + 1 /\ counted' = counted /\ cursor' = cursor
      BY <1>1, <2>7 DEF ScanBegin
    <3> QED BY <1>0, <2>4, <2>5, <2>6, <3>1 DEF Scanner, MayCount
  <2>8. CASE ~\E r \in Scanner \ {s} : Scanning(r)
    <3>1. disturbed' = disturbed /\ counted' = counted /\ cursor' = cursor
      BY <1>1, <2>8 DEF ScanBegin
    <3>2. \A r \in Scanner : ~WillSave(r, k) /\ MayCount(r, k) = 0
      BY <2>2, <2>8 DEF ScansFresh, WillSave, MayCount, NoScan
    <3> QED BY <1>0, <2>4, <2>5, <2>6, <3>1, <3>2 DEF Scanner
  <2> QED BY <2>7, <2>8
<1>2. ASSUME NEW s \in Scanner, ScanLook(s) PROVE Budgeted(k)'
  <2>1. \A r \in Scanner : WillSave(r, k)' = WillSave(r, k) /\ MayCount(r, k)' = MayCount(r, k)
    BY <1>2 DEF ScanLook, TypeOK, ScanRecord, WillSave, MayCount, Scanning
  <2> QED BY <1>0, <1>2, <2>1 DEF ScanLook, Scanner
<1>3. ASSUME NEW s \in Scanner, ScanEmit(s) PROVE Budgeted(k)'
  <2>1. PICK j \in First(scan[s].todo) :
          /\ counted' = [counted EXCEPT ![j] = @ + 1]
          /\ scan' = [scan EXCEPT ![s].cursor = @ \cup {j}, ![s].todo = @ \ {j},
                                  ![s].emitted = TRUE]
    BY <1>3 DEF ScanEmit
  <2>2. j \in scan[s].todo /\ j \notin scan[s].cursor /\ j \in Key
    BY DEF TypeOK, ScanRecord, ScansFresh, First
  <2>3. disturbed' = disturbed /\ cursor' = cursor
    BY <1>3 DEF ScanEmit
  <2>4. \A r \in Scanner : WillSave(r, k) => WillSave(r, k)'
    BY <2>1 DEF WillSave, TypeOK, ScanRecord
  <2>5. \A r \in Scanner \ {s} : MayCount(r, k)' = MayCount(r, k)
    BY <2>1 DEF MayCount, Scanning, TypeOK
  <2>6. CASE j = k
    <3>1. MayCount(s, k) = 1 /\ MayCount(s, k)' = 0 /\ WillSave(s, k)'
      BY <1>3, <2>1, <2>2, <2>6 DEF ScanEmit, MayCount, Scanning, WillSave, TypeOK, ScanRecord
    <3>2. counted'[k] = counted[k] + 1
      BY <2>1, <2>2, <2>6 DEF TypeOK
    <3> QED BY <1>0, <2>3, <2>5, <3>1, <3>2 DEF Scanner, MayCount
  <2>7. CASE j # k
    <3>1. MayCount(s, k)' = MayCount(s, k)
      BY <2>1, <2>7 DEF MayCount, Scanning, TypeOK, ScanRecord
    <3>2. counted'[k] = counted[k]
      BY <2>1, <2>7 DEF TypeOK
    <3> QED BY <1>0, <2>3, <2>4, <2>5, <3>1, <3>2 DEF Scanner
  <2> QED BY <2>6, <2>7
<1>4. ASSUME NEW s \in Scanner, ScanSave(s) PROVE Budgeted(k)'
  <2>1. \A r \in Scanner \ {s} : scan'[r] = scan[r]
    BY <1>4 DEF ScanSave, TypeOK
  <2>2. scan'[s] = NoScan /\ disturbed' = disturbed /\ counted' = counted
    BY <1>4 DEF ScanSave, TypeOK
  <2>3. MayCount(s, k)' = 0 /\ ~WillSave(s, k)'
    BY <2>2 DEF MayCount, WillSave, Scanning, NoScan
  <2>4. \A r \in Scanner \ {s} : /\ MayCount(r, k)' = MayCount(r, k)
                                  /\ WillSave(r, k)' = WillSave(r, k)
    BY <2>1 DEF MayCount, WillSave, Scanning
  <2>5. CASE scan[s].emitted /\ k \notin scan[s].cursor
    <3>1. MayCount(s, k) = 1
      BY <1>4, <2>5 DEF ScanSave, MayCount, Scanning
    <3> QED BY <1>0, <2>2, <2>3, <2>4, <3>1 DEF Scanner, MayCount
  <2>6. CASE scan[s].emitted /\ k \in scan[s].cursor
    <3>1. k \in cursor'
      BY <1>4, <2>6 DEF ScanSave
    <3> QED BY <1>0, <2>2, <2>3, <2>4, <3>1 DEF Scanner, MayCount
  <2>7. CASE ~scan[s].emitted
    <3>1. cursor' = cursor /\ ~WillSave(s, k)
      BY <1>4, <2>7 DEF ScanSave, WillSave
    <3> QED BY <1>0, <2>2, <2>3, <2>4, <3>1 DEF Scanner, MayCount
  <2> QED BY <2>5, <2>6, <2>7
<1>5. ASSUME NEW s \in Scanner, ScanFail(s) PROVE Budgeted(k)'
  <2>1. \A r \in Scanner \ {s} : scan'[r] = scan[r]
    BY <1>5 DEF ScanFail, TypeOK
  <2>2. /\ scan'[s] = NoScan /\ disturbed' = disturbed + 1
        /\ counted' = counted /\ cursor' = cursor
    BY <1>5 DEF ScanFail, TypeOK
  <2>3. MayCount(s, k)' = 0
    BY <2>2 DEF MayCount, Scanning, NoScan
  <2>4. \A r \in Scanner \ {s} : MayCount(r, k)' = MayCount(r, k)
    BY <2>1 DEF MayCount, Scanning
  <2> QED BY <1>0, <2>2, <2>3, <2>4 DEF Scanner, MayCount
<1>6. CASE UNCHANGED <<cursor, counted, scan, disturbed>>
  BY <1>0, <1>6 DEF MayCount, WillSave, Scanning
<1> QED BY <1>1, <1>2, <1>3, <1>4, <1>5, <1>6, ScansOnly

\* Each event is counted once, and once more at most for each scan that failed
\* or overlapped another.
THEOREM RepeatsExplainedAlways == Spec => []RepeatsExplained
<1> DEFINE IInv == TypeOK /\ ScansFresh /\ Budget
<1>1. Init => IInv
  <2> SUFFICES ASSUME Init PROVE IInv
    OBVIOUS
  <2>1. ScansFresh
    BY DEF Init, ScansFresh, Scanning, NoScan
  <2>2. Budget
    BY DEF Init, Budget, Budgeted, MayCount, WillSave, Scanning, Scanner, NoScan
  <2> QED BY TypeInit, <2>1, <2>2
<1>2. IInv /\ [Next]_vars => IInv'
  BY TypeStep, FreshStep, BudgetStep
<1>3. IInv => RepeatsExplained
  BY LearningAssumption, SMTT(30) DEF TypeOK, Budget, Budgeted, MayCount, RepeatsExplained
<1> QED BY <1>1, <1>2, <1>3, PTL DEF Spec
=============================================================================
