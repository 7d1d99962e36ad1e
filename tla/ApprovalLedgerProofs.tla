------------------------ MODULE ApprovalLedgerProofs ------------------------
(***************************************************************************)
(* What ApprovalLedger guarantees for every set of keys and commands,      *)
(* every bound and both values of Overlap and Crashes: type correctness,   *)
(* one open record per request, and no action on an unapproved record.     *)
(*                                                                         *)
(* The argument.  A command either rewrites a copy so that no record opens *)
(* (Tightens), or appends one record for a key that it found without an    *)
(* open record at its own clock (OneAsked).  Its clock is never ahead of   *)
(* the present and records only run out as time passes, so what it found   *)
(* then still holds.  Copies overwrite one another as a whole, and every   *)
(* one of them satisfies the invariant.                                    *)
(***************************************************************************)
EXTENDS ApprovalLedger, TLAPS

OpenStatus == {"pending", "approved"}

\* g opens no record that f did not have open, and approves only what was
\* approved in f.
Tightens(f, g) ==
  \A i \in ApprovalId :
    /\ g[i].status \in OpenStatus =>
         /\ f[i].status \in OpenStatus
         /\ g[i].key = f[i].key
         /\ g[i].created = f[i].created
    /\ g[i].status = "approved" => f[i].status = "approved"

\* Closing records and leaving the others alone tightens.
LEMMA ExpireDueFacts ==
  ASSUME NEW f \in LedgerFile, NEW t \in Nat
  PROVE  ExpireDue(f, t) \in LedgerFile /\ Tightens(f, ExpireDue(f, t))
BY DEF ExpireDue, DueIds, LedgerFile, Approval, NoApproval, ApprovalStatus,
       Tightens, OpenStatus

LEMMA MarkFacts ==
  ASSUME NEW f \in LedgerFile, NEW i \in ApprovalId,
         NEW status \in ApprovalStatus \ {"absent"}, f[i].status # "absent"
  PROVE  /\ Mark(f, i, status) \in LedgerFile
         /\ status \notin OpenStatus => Tightens(f, Mark(f, i, status))
BY DEF Mark, LedgerFile, Approval, NoApproval, ApprovalStatus, Tightens, OpenStatus

LEMMA AskFacts ==
  ASSUME NEW f \in LedgerFile, NEW i \in ApprovalId, NEW k \in Key, NEW t \in Nat
  PROVE  AskOperator(f, i, k, t) \in LedgerFile
BY DEF AskOperator, LedgerFile, Approval, ApprovalStatus

LEMMA TightensTransitive ==
  ASSUME NEW f, NEW g, NEW h, Tightens(f, g), Tightens(g, h)
  PROVE  Tightens(f, h)
BY DEF Tightens

\* At most one open record per key, at a time t, in one copy.
OneOpenIn(f, t) == \A k \in Key : AtMostOneOpen(f, k, t)

LEMMA TightensKeepsOne ==
  ASSUME NEW f, NEW g, NEW t, Tightens(f, g), OneOpenIn(f, t)
  PROVE  OneOpenIn(g, t)
<1> SUFFICES ASSUME NEW k \in Key, NEW i \in OpenFor(g, k, t), NEW j \in OpenFor(g, k, t)
             PROVE  i = j
    BY DEF OneOpenIn, AtMostOneOpen
<1>1. i \in OpenFor(f, k, t) /\ j \in OpenFor(f, k, t)
    BY DEF Tightens, OpenFor, GrantsFor, PendingsFor, Covers, ExpiresAt, OpenStatus
<1> QED BY <1>1 DEF OneOpenIn, AtMostOneOpen

\* Records run out as time passes and never come back.
LEMMA OpenRunsOut ==
  ASSUME NEW f \in LedgerFile, NEW k, NEW t \in Nat, NEW u \in Nat, t <= u
  PROVE  OpenFor(f, k, u) \subseteq OpenFor(f, k, t)
BY BoundAssumption
   DEF OpenFor, GrantsFor, PendingsFor, Covers, ExpiresAt, LedgerFile, Approval,
       NoApproval

LEMMA TimeKeepsOne ==
  ASSUME NEW f \in LedgerFile, NEW t \in Nat, NEW u \in Nat, t <= u, OneOpenIn(f, t)
  PROVE  OneOpenIn(f, u)
BY OpenRunsOut DEF OneOpenIn, AtMostOneOpen

\* A record asked for at a time t that is not ahead of u, for a key that had
\* none open at t, is the only one of its key at u.
LEMMA OneAsked ==
  ASSUME NEW f \in LedgerFile, NEW i \in ApprovalId, NEW k \in Key,
         NEW t \in Nat, NEW u \in Nat, t <= u,
         OpenFor(f, k, t) = {}, OneOpenIn(f, u)
  PROVE  OneOpenIn(AskOperator(f, i, k, t), u)
<1> DEFINE g == AskOperator(f, i, k, t)
<1>1. OpenFor(f, k, u) = {}
    BY OpenRunsOut
<1>2. \A j \in ApprovalId : j # i => g[j] = f[j]
    BY DEF AskOperator, LedgerFile
<1>3. g[i].key = k
    BY DEF AskOperator, LedgerFile
<1>4. OpenFor(g, k, u) \subseteq {i}
    BY <1>1, <1>2 DEF OpenFor, GrantsFor, PendingsFor, Covers
<1>5. \A l \in Key : l # k => OpenFor(g, l, u) \subseteq OpenFor(f, l, u)
    BY <1>2, <1>3 DEF OpenFor, GrantsFor, PendingsFor, Covers
<1> QED BY <1>4, <1>5 DEF OneOpenIn, AtMostOneOpen

-----------------------------------------------------------------------------
\* Type correctness.

LEMMA OpenType ==
  ASSUME Typed, NEW c \in Command, NEW why \in PcValue \ {"gate"},
         Open(c, file, now, why)
  PROVE  /\ mem' \in [Command -> LedgerFile]
         /\ at' \in [Command -> 0..MaxTime]
         /\ queue' \in [Command -> SUBSET (ApprovalId \X ApprovalStatus)]
         /\ pc' \in [Command -> PcValue]
         /\ \A d \in Command : pc'[d] = "gate" => asked[d] \in GatedKey
<1>1. ExpireDue(file, now) \in LedgerFile
    BY ExpireDueFacts, ModeAssumption DEF Typed
<1>2. Lines(DueIds(file, now), "expired") \in SUBSET (ApprovalId \X ApprovalStatus)
    BY DEF Lines, DueIds, ApprovalStatus
<1> QED BY <1>1, <1>2 DEF Open, Typed

LEMMA ChangeType ==
  ASSUME Typed, NEW c \in Command, NEW i \in ApprovalId, Change(c, i, "superseded"),
         mem[c][i].status # "absent"
  PROVE  /\ mem' \in [Command -> LedgerFile]
         /\ queue' \in [Command -> SUBSET (ApprovalId \X ApprovalStatus)]
<1>1. Mark(mem[c], i, "superseded") \in LedgerFile
    BY MarkFacts DEF Typed, ApprovalStatus, OpenStatus
<1>2. <<i, "superseded">> \in ApprovalId \X ApprovalStatus
    BY DEF ApprovalStatus
<1> QED BY <1>1, <1>2 DEF Change, Typed

LEMMA UseType ==
  ASSUME NEW u \in [ApprovalId -> 0..2], NEW S
  PROVE  Use(u, S) \in [ApprovalId -> 0..2]
BY DEF Use

LEMMA IdleType ==
  ASSUME Typed, NEW c \in Command, Idle(c)
  PROVE  /\ pc' \in [Command -> PcValue]
         /\ mem' \in [Command -> LedgerFile]
         /\ at' \in [Command -> 0..MaxTime]
         /\ queue' \in [Command -> SUBSET (ApprovalId \X ApprovalStatus)]
         /\ asked' \in [Command -> Key \cup {NoKey}]
         /\ \A d \in Command : pc'[d] = "gate" => asked'[d] \in GatedKey
<1>1. EmptyFile \in LedgerFile
    BY DEF EmptyFile, NoApproval, LedgerFile, Approval, ApprovalStatus
<1> QED BY <1>1, ModeAssumption DEF Idle, Typed, PcValue

LEMMA WriteAuditType ==
  ASSUME Typed, NEW lines \in SUBSET (ApprovalId \X ApprovalStatus), WriteAudit(lines)
  PROVE  audit' \subseteq ApprovalId \X ApprovalStatus
BY DEF WriteAudit, Typed

\* The clock a command reads, and the present, are natural numbers.
LEMMA ClockType ==
  ASSUME Typed
  PROVE  now \in Nat /\ \A c \in Command : at[c] \in Nat
BY ModeAssumption DEF Typed

LEMMA TypeStep ==
  ASSUME Typed, [Next]_vars
  PROVE  Typed'
<1> USE ClockType
<1> DEFINE Lined == SUBSET (ApprovalId \X ApprovalStatus)
<1>1. ASSUME NEW c \in Command, BeginTick(c)
      PROVE  Typed'
    BY <1>1, OpenType DEF BeginTick, disk, history, Typed, PcValue
<1>2. ASSUME NEW c \in Command, BeginApply(c)
      PROVE  Typed'
    BY <1>2, OpenType DEF BeginApply, disk, history, Typed, PcValue
<1>3. ASSUME NEW c \in Command, RefuseApply(c)
      PROVE  Typed'
    BY <1>3, IdleType DEF RefuseApply, disk, history, Typed
<1>4. ASSUME NEW c \in Command, FlushSave(c)
      PROVE  Typed'
    BY <1>4, UseType DEF FlushSave, Typed, PcValue
<1>5. ASSUME NEW c \in Command, FlushAudit(c)
      PROVE  Typed'
    BY <1>5, IdleType DEF FlushAudit, history, Typed
<1>6. ASSUME NEW c \in Command, Die(c)
      PROVE  Typed'
  <2>1. audit' \in Lined
      BY <1>6 DEF Die, Typed
  <2> QED BY <1>6, <2>1, IdleType DEF Die, disk, history, Typed
<1>7. ASSUME NEW c \in Command, NEW k \in GatedKey, TickUseGrant(c, k)
      PROVE  Typed'
  <2>1. PICK i \in ApprovalId : /\ IsFirst(i, GrantsFor(mem[c], k, at[c]))
                               /\ Change(c, i, "superseded")
                               /\ uses' = Use(uses, {i})
      BY <1>7 DEF TickUseGrant
  <2>2. mem[c][i].status # "absent"
      BY <2>1 DEF IsFirst, GrantsFor, Covers
  <2> QED BY <1>7, <2>1, <2>2, ChangeType, UseType, KeyPartition
          DEF TickUseGrant, disk, Typed
<1>8. ASSUME NEW c \in Command, NEW k \in GatedKey, TickUnderBrief(c, k)
      PROVE  Typed'
    BY <1>8, KeyPartition DEF TickUnderBrief, disk, session, Typed
<1>9. ASSUME NEW c \in Command, NEW k \in GatedKey \cup FallbackKey, TickAsk(c, k)
      PROVE  Typed'
  <2>1. next \in ApprovalId /\ next' \in 1..(MaxApprovals + 1)
      BY <1>9, BoundAssumption DEF TickAsk, Ask, Typed, ApprovalId
  <2>2. AskOperator(mem[c], next, k, at[c]) \in LedgerFile
      BY <2>1, AskFacts, KeyPartition DEF Typed
  <2> QED BY <1>9, <2>1, <2>2
          DEF TickAsk, Ask, disk, history, Typed, ApprovalStatus
<1>10. ASSUME NEW c \in Command, NEW i \in ApprovalId, TickUseFallback(c, i)
       PROVE  Typed'
    BY <1>10, ChangeType DEF TickUseFallback, Covers, disk, history, Typed
<1>11. ASSUME NEW c \in Command, NEW i \in ApprovalId, CheckApply(c, i)
       PROVE  Typed'
  <2>1. CASE mem[c][i].status = "superseded"
      BY <1>11, <2>1, UseType DEF CheckApply, disk, Typed, PcValue
  <2>2. CASE mem[c][i].status # "superseded"
      BY <1>11, <2>2, ChangeType DEF CheckApply, disk, Typed, PcValue
  <2> QED BY <2>1, <2>2
<1>12. ASSUME NEW c \in Command, NEW k \in RetentionKey, BeginRequest(c, k)
       PROVE  Typed'
  <2> DEFINE f == ExpireDue(file, now)
  <2>1. next \in ApprovalId /\ next + 1 \in 1..(MaxApprovals + 1)
      BY <1>12, BoundAssumption DEF BeginRequest, Typed, ApprovalId
  <2>2. f \in LedgerFile
      BY ExpireDueFacts DEF Typed
  <2>3. AskOperator(f, next, k, now) \in LedgerFile
      BY <2>1, <2>2, AskFacts, KeyPartition DEF Typed
  <2>4. /\ Lines(DueIds(file, now), "expired") \in Lined
        /\ <<next, "pending">> \in ApprovalId \X ApprovalStatus
      BY <2>1 DEF Lines, DueIds, ApprovalStatus
  <2> HIDE DEF f
  <2> QED BY <1>12, <2>1, <2>2, <2>3, <2>4
          DEF BeginRequest, disk, history, Typed, PcValue, f
<1>13. ASSUME NEW c \in Command, NEW k \in GatedKey, GateCheck(c, k)
       PROVE  Typed'
    BY <1>13, KeyPartition DEF GateCheck, disk, history, Typed, PcValue
<1>14. ASSUME NEW c \in Command, GateUseGrant(c)
       PROVE  Typed'
  <2>1. PICK i \in ApprovalId :
          /\ IsFirst(i, GrantsFor(ExpireDue(file, at[c]), asked[c], at[c]))
          /\ file' = Mark(ExpireDue(file, at[c]), i, "superseded")
          /\ WriteAudit({<<i, "superseded">>})
          /\ uses' = Use(uses, {i})
      BY <1>14 DEF GateUseGrant
  <2>2. file' \in LedgerFile
      BY <2>1, ExpireDueFacts, MarkFacts
         DEF Typed, ApprovalStatus, IsFirst, GrantsFor, Covers
  <2>3. asked[c] \in Key
      BY <1>14, KeyPartition DEF GateUseGrant, Typed
  <2>4. audit' \in Lined
      BY <2>1, WriteAuditType DEF ApprovalStatus
  <2> QED BY <1>14, <2>1, <2>2, <2>3, <2>4, IdleType, UseType DEF GateUseGrant, Typed
<1>15. ASSUME NEW c \in Command, GateWait(c)
       PROVE  Typed'
    BY <1>15, ExpireDueFacts, IdleType DEF GateWait, history, Typed
<1>16. ASSUME NEW c \in Command, GateUnderBrief(c)
       PROVE  Typed'
    BY <1>16, ExpireDueFacts, IdleType, KeyPartition DEF GateUnderBrief, Typed
<1>17. ASSUME NEW c \in Command, GateAsk(c)
       PROVE  Typed'
  <2>1. next \in ApprovalId /\ next' \in 1..(MaxApprovals + 1)
      BY <1>17, BoundAssumption DEF GateAsk, Typed, ApprovalId
  <2>2. asked[c] \in Key
      BY <1>17, KeyPartition DEF GateAsk, Typed
  <2>3. file' \in LedgerFile
      BY <1>17, <2>1, <2>2, ExpireDueFacts, AskFacts DEF GateAsk, Typed
  <2>4. audit' \in Lined
      BY <1>17, <2>1, WriteAuditType DEF GateAsk, ApprovalStatus
  <2> QED BY <1>17, <2>1, <2>3, <2>4, IdleType DEF GateAsk, history, Typed
<1>18. ASSUME NEW status \in {"approved", "denied"}, Resolve(status)
       PROVE  Typed'
  <2> DEFINE f == ExpireDue(file, now)
  <2>1. f \in LedgerFile
      BY ExpireDueFacts DEF Typed
  <2>2. ASSUME NEW i \in ApprovalId, f[i].status = "pending",
               file' = Mark(f, i, status), WriteAudit({<<i, status>>}),
               IF status = "approved"
               THEN approved' = approved \cup {i} /\ UNCHANGED <<refused, ran>>
               ELSE /\ refused' = refused \cup {f[i].key}
                    /\ ran' = ran \ {f[i].key}
                    /\ UNCHANGED approved
        PROVE  Typed'
    <3>1. f[i].key \in Key
        BY <2>1, <2>2 DEF LedgerFile, Approval, NoApproval
    <3>2. file' \in LedgerFile
        BY <2>1, <2>2, MarkFacts DEF ApprovalStatus
    <3>3. audit' \in Lined
        BY <2>2, WriteAuditType DEF ApprovalStatus
    <3> HIDE DEF f
    <3> QED BY <1>18, <2>2, <3>1, <3>2, <3>3 DEF Resolve, session, Typed
  <2>3. CASE file' = f /\ UNCHANGED <<audit, approved, refused, ran>>
      BY <1>18, <2>1, <2>3 DEF Resolve, session, Typed
  <2> QED BY <1>18, <2>2, <2>3 DEF Resolve
<1>19. CASE ListPending
  <2>1. Lines(DueIds(file, now), "expired") \in Lined
      BY DEF Lines, DueIds, ApprovalStatus
  <2>2. audit' \in Lined
      BY <1>19, <2>1, WriteAuditType DEF ListPending
  <2> QED BY <1>19, <2>2, ExpireDueFacts DEF ListPending, session, history, Typed
<1>20. ASSUME NEW k \in GatedKey, NewApproval(k)
       PROVE  Typed'
  <2>1. file' \in LedgerFile
    <3>1. \A i \in ApprovalId : file[i] \in Approval
        BY DEF Typed, LedgerFile
    <3>2. ASSUME NEW a \in Approval, a.status = "denied"
          PROVE  [a EXCEPT !.status = "superseded"] \in Approval
        BY <3>2 DEF Approval, NoApproval, ApprovalStatus
    <3> QED BY <1>20, <3>1, <3>2 DEF NewApproval, LedgerFile
  <2>2. audit' \in Lined
      BY <1>20, WriteAuditType DEF NewApproval, Lines, ApprovalStatus
  <2> QED BY <1>20, <2>1, <2>2 DEF NewApproval, session, Typed
<1>21. CASE Advance
    BY <1>21, ModeAssumption DEF Advance, disk, session, history, Typed
<1>22. CASE UNCHANGED vars
    BY <1>22 DEF vars, Typed
<1> QED
    BY <1>1, <1>2, <1>3, <1>4, <1>5, <1>6, <1>7, <1>8, <1>9, <1>10, <1>11, <1>12,
       <1>13, <1>14, <1>15, <1>16, <1>17, <1>18, <1>19, <1>20, <1>21, <1>22
    DEF Next, SessionStep, GateStep, OperatorStep, Ok, Deny

LEMMA TypeInit == Init => Typed
BY BoundAssumption, ModeAssumption
   DEF Init, Typed, LedgerFile, Approval, EmptyFile, PcValue

-----------------------------------------------------------------------------
\* The clocks of the commands, and the dates of the records.

ClocksPast == \A c \in Command : at[c] <= now

LEMMA ClocksStep ==
  ASSUME Typed, ClocksPast, [Next]_vars
  PROVE  ClocksPast'
<1> USE ClockType DEF ClocksPast
<1>1. ASSUME NEW c \in Command, Idle(c), now' = now
      PROVE  ClocksPast'
    BY <1>1 DEF Idle, Typed
<1>2. ASSUME NEW c \in Command, SessionStep(c)
      PROVE  ClocksPast'
  <2>1. CASE BeginTick(c) \/ BeginApply(c) \/ \E k \in RetentionKey : BeginRequest(c, k)
      BY <2>1 DEF BeginTick, BeginApply, BeginRequest, Open, Typed
  <2>2. CASE RefuseApply(c) \/ FlushAudit(c) \/ Die(c)
      BY <1>1, <2>2 DEF RefuseApply, FlushAudit, Die
  <2>3. ASSUME UNCHANGED <<at, now>>
        PROVE  ClocksPast'
      BY <2>3
  <2>4. CASE FlushSave(c) \/ \E k \in GatedKey : TickUseGrant(c, k) \/ TickUnderBrief(c, k)
      BY <2>3, <2>4 DEF FlushSave, TickUseGrant, TickUnderBrief, session
  <2>5. CASE \E k \in GatedKey \cup FallbackKey : TickAsk(c, k)
      BY <2>3, <2>5 DEF TickAsk
  <2>6. CASE \E i \in ApprovalId : TickUseFallback(c, i) \/ CheckApply(c, i)
      BY <2>3, <2>6 DEF TickUseFallback, CheckApply
  <2> QED BY <1>2, <2>1, <2>2, <2>4, <2>5, <2>6 DEF SessionStep
<1>3. ASSUME NEW c \in Command, GateStep(c)
      PROVE  ClocksPast'
    BY <1>1, <1>3 DEF GateStep, GateCheck, GateUseGrant, GateWait, GateUnderBrief,
       GateAsk, Typed
<1>4. CASE OperatorStep
    BY <1>4 DEF OperatorStep, Ok, Deny, Resolve, ListPending, NewApproval, session
<1>5. CASE Advance
    BY <1>5 DEF Advance, session
<1>6. CASE UNCHANGED vars
    BY <1>6 DEF vars
<1> QED BY <1>2, <1>3, <1>4, <1>5, <1>6 DEF Next

\* No record of any copy is dated ahead of the present.
RecordsPast == NotAhead(file, now) /\ \A c \in Command : NotAhead(mem[c], now)

LEMMA DueNotAhead ==
  ASSUME NEW f \in LedgerFile, NEW t, NEW u, NotAhead(f, t)
  PROVE  NotAhead(ExpireDue(f, u), t)
BY DEF NotAhead, ExpireDue, DueIds, LedgerFile, Approval, NoApproval

LEMMA MarkNotAhead ==
  ASSUME NEW f \in LedgerFile, NEW t, NEW i \in ApprovalId, NEW status, NotAhead(f, t)
  PROVE  NotAhead(Mark(f, i, status), t)
BY DEF NotAhead, Mark, LedgerFile, Approval, NoApproval

LEMMA AskNotAhead ==
  ASSUME NEW f \in LedgerFile, NEW t, NEW i \in ApprovalId, NEW k, NEW u, u <= t,
         NotAhead(f, t)
  PROVE  NotAhead(AskOperator(f, i, k, u), t)
BY DEF NotAhead, AskOperator, LedgerFile

\* A step that does not move the clock may replace copies by copies like that.
LEMMA RedatedAll ==
  ASSUME RecordsPast, now' = now, file' = file \/ NotAhead(file', now),
         \A c \in Command : mem'[c] = mem[c] \/ NotAhead(mem'[c], now)
  PROVE  RecordsPast'
BY DEF RecordsPast, NotAhead

LEMMA IdleDates ==
  ASSUME Typed, NEW c \in Command, Idle(c)
  PROVE  \A d \in Command : mem'[d] = mem[d] \/ NotAhead(mem'[d], now)
<1>1. NotAhead(EmptyFile, now)
    BY ModeAssumption DEF NotAhead, EmptyFile, NoApproval, Typed
<1> QED BY <1>1 DEF Idle, Typed

LEMMA DatesStep ==
  ASSUME Typed, ClocksPast, RecordsPast, [Next]_vars
  PROVE  RecordsPast'
<1> USE ClockType
<1>0. /\ file \in LedgerFile /\ NotAhead(file, now)
      /\ \A c \in Command : mem[c] \in LedgerFile /\ NotAhead(mem[c], now) /\ at[c] <= now
      /\ next <= MaxApprovals => next \in ApprovalId
    BY BoundAssumption DEF RecordsPast, ClocksPast, Typed, ApprovalId
<1>1. \A t \in Nat : ExpireDue(file, t) \in LedgerFile /\ NotAhead(ExpireDue(file, t), now)
    BY <1>0, DueNotAhead, ExpireDueFacts
<1>2. ASSUME NEW c \in Command, BeginTick(c) \/ BeginApply(c)
      PROVE  RecordsPast'
    BY <1>1, <1>2, RedatedAll DEF BeginTick, BeginApply, Open, disk, Typed
<1>3. ASSUME NEW c \in Command, RefuseApply(c) \/ FlushAudit(c) \/ Die(c)
      PROVE  RecordsPast'
    BY <1>3, IdleDates, RedatedAll DEF RefuseApply, FlushAudit, Die, disk
<1>4. ASSUME NEW c \in Command, FlushSave(c)
      PROVE  RecordsPast'
    BY <1>0, <1>4, RedatedAll DEF FlushSave
<1>5. ASSUME NEW c \in Command, NEW i \in ApprovalId, Change(c, i, "superseded"),
             UNCHANGED <<file, now>>
      PROVE  RecordsPast'
    BY <1>0, <1>5, MarkNotAhead, RedatedAll DEF Change, Typed
<1>6. ASSUME NEW c \in Command, NEW k \in GatedKey, TickUseGrant(c, k)
      PROVE  RecordsPast'
    BY <1>5, <1>6 DEF TickUseGrant, disk, IsFirst, GrantsFor
<1>7. ASSUME NEW c \in Command, NEW k \in GatedKey, TickUnderBrief(c, k)
      PROVE  RecordsPast'
    BY <1>7, RedatedAll DEF TickUnderBrief, disk, session
<1>8. ASSUME NEW c \in Command, NEW k \in GatedKey \cup FallbackKey, TickAsk(c, k)
      PROVE  RecordsPast'
  <2>1. NotAhead(AskOperator(mem[c], next, k, at[c]), now)
      BY <1>0, <1>8, AskNotAhead DEF TickAsk, Ask
  <2> QED BY <1>8, <2>1, RedatedAll DEF TickAsk, Ask, disk, Typed
<1>9. ASSUME NEW c \in Command, NEW i \in ApprovalId, TickUseFallback(c, i)
      PROVE  RecordsPast'
    BY <1>5, <1>9 DEF TickUseFallback, disk
<1>10. ASSUME NEW c \in Command, NEW i \in ApprovalId, CheckApply(c, i)
       PROVE  RecordsPast'
  <2>1. CASE mem[c][i].status = "superseded"
      BY <1>10, <2>1, RedatedAll DEF CheckApply, disk
  <2>2. CASE mem[c][i].status # "superseded"
      BY <1>5, <1>10, <2>2 DEF CheckApply, disk
  <2> QED BY <2>1, <2>2
<1>11. ASSUME NEW c \in Command, NEW k \in RetentionKey, BeginRequest(c, k)
       PROVE  RecordsPast'
  <2>1. NotAhead(AskOperator(ExpireDue(file, now), next, k, now), now)
      BY <1>0, <1>1, <1>11, AskNotAhead DEF BeginRequest
  <2> QED BY <1>1, <1>11, <2>1, RedatedAll DEF BeginRequest, disk, Typed
<1>12. ASSUME NEW c \in Command, NEW k \in GatedKey, GateCheck(c, k)
       PROVE  RecordsPast'
    BY <1>12, RedatedAll DEF GateCheck, disk
<1>13. ASSUME NEW c \in Command, GateUseGrant(c)
       PROVE  RecordsPast'
  <2>1. NotAhead(file', now)
      BY <1>0, <1>1, <1>13, MarkNotAhead DEF GateUseGrant, IsFirst, GrantsFor
  <2> QED BY <1>13, <2>1, IdleDates, RedatedAll DEF GateUseGrant
<1>14. ASSUME NEW c \in Command, GateWait(c) \/ GateUnderBrief(c)
       PROVE  RecordsPast'
    BY <1>1, <1>14, IdleDates, RedatedAll DEF GateWait, GateUnderBrief
<1>15. ASSUME NEW c \in Command, GateAsk(c)
       PROVE  RecordsPast'
  <2>1. NotAhead(file', now)
      BY <1>0, <1>1, <1>15, AskNotAhead DEF GateAsk
  <2> QED BY <1>15, <2>1, IdleDates, RedatedAll DEF GateAsk
<1>16. ASSUME NEW status, Resolve(status)
       PROVE  RecordsPast'
  <2>1. NotAhead(file', now)
      BY <1>1, <1>16, MarkNotAhead DEF Resolve
  <2> QED BY <1>16, <2>1, RedatedAll DEF Resolve, session
<1>17. CASE ListPending
    BY <1>1, <1>17, RedatedAll DEF ListPending, session
<1>18. ASSUME NEW k \in GatedKey, NewApproval(k)
       PROVE  RecordsPast'
  <2>1. NotAhead(file', now)
      BY <1>0, <1>18 DEF NewApproval, NotAhead, LedgerFile, Approval, NoApproval
  <2> QED BY <1>18, <2>1, RedatedAll DEF NewApproval, session
<1>19. CASE Advance
  <2>1. now <= now' /\ now' \in Nat
      BY <1>19 DEF Advance
  <2>2. \A f \in LedgerFile : NotAhead(f, now) => NotAhead(f, now')
      BY <2>1 DEF NotAhead, LedgerFile, Approval, NoApproval
  <2> QED BY <1>0, <1>19, <2>2 DEF Advance, disk, session, RecordsPast
<1>20. CASE UNCHANGED vars
    BY <1>20, RedatedAll DEF vars, disk, session
<1> QED
    BY <1>2, <1>3, <1>4, <1>6, <1>7, <1>8, <1>9, <1>10, <1>11, <1>12, <1>13, <1>14,
       <1>15, <1>16, <1>17, <1>18, <1>19, <1>20
    DEF Next, SessionStep, GateStep, OperatorStep, Ok, Deny

LEMMA DatesInit == Init => ClocksPast /\ RecordsPast
BY ModeAssumption
   DEF Init, ClocksPast, RecordsPast, NotAhead, EmptyFile, NoApproval

\* Every variable of the ledger keeps its type, a gate command between its two
\* looks at the file remembers what it was asked, and whatever sessions write
\* back, no record and no command's clock is ahead of the present.
THEOREM TypeCorrect == Spec => []TypeOK
<1> DEFINE I == Typed /\ ClocksPast /\ RecordsPast
<1>1. Init => I
    BY TypeInit, DatesInit
<1>2. I /\ [Next]_vars => I'
    BY TypeStep, ClocksStep, DatesStep
<1>3. I => TypeOK
    BY DEF TypeOK, ClocksPast, RecordsPast
<1> QED BY <1>1, <1>2, <1>3, PTL DEF Spec

-----------------------------------------------------------------------------
\* One open record per request.

\* A step may replace copies by copies with one open record each.
LEMMA Rewritten ==
  ASSUME OneOpenRequest, now' = now,
         file' = file \/ OneOpenIn(file', now),
         \A c \in Command : mem'[c] = mem[c] \/ OneOpenIn(mem'[c], now)
  PROVE  OneOpenRequest'
BY DEF OneOpenRequest, OneOpenIn, AtMostOneOpen, OpenFor, GrantsFor, PendingsFor

LEMMA IdleCopies ==
  ASSUME Typed, NEW c \in Command, Idle(c)
  PROVE  \A d \in Command : mem'[d] = mem[d] \/ OneOpenIn(mem'[d], now)
<1>1. OneOpenIn(EmptyFile, now)
    BY DEF OneOpenIn, AtMostOneOpen, OpenFor, GrantsFor, PendingsFor, Covers,
           EmptyFile, NoApproval
<1> QED BY <1>1 DEF Idle, Typed

\* Rewriting a copy with one open record per key leaves it that way: by what
\* has fallen due, by closing a record, by asking for a key without one.
LEMMA DueOneOpen ==
  ASSUME NEW f \in LedgerFile, NEW t \in Nat, NEW u, OneOpenIn(f, u)
  PROVE  OneOpenIn(ExpireDue(f, t), u)
BY ExpireDueFacts, TightensKeepsOne

LEMMA ClosedOneOpen ==
  ASSUME NEW f \in LedgerFile, NEW i \in ApprovalId, NEW u, OneOpenIn(f, u),
         f[i].status # "absent"
  PROVE  OneOpenIn(Mark(f, i, "superseded"), u)
BY MarkFacts, TightensKeepsOne DEF ApprovalStatus, OpenStatus

\* The operator's answer closes a record or leaves it open as a grant.
LEMMA AnsweredOneOpen ==
  ASSUME NEW f \in LedgerFile, NEW i \in ApprovalId, NEW u, OneOpenIn(f, u),
         f[i].status = "pending", NEW status \in {"approved", "denied"}
  PROVE  OneOpenIn(Mark(f, i, status), u)
<1> DEFINE g == Mark(f, i, status)
<1>1. \A j \in ApprovalId : j # i => g[j] = f[j]
    BY DEF Mark, LedgerFile
<1>2. g[i].key = f[i].key /\ g[i].created = f[i].created
    BY DEF Mark, LedgerFile, Approval, NoApproval
<1>3. \A k \in Key : OpenFor(g, k, u) \subseteq OpenFor(f, k, u)
    BY <1>1, <1>2 DEF OpenFor, GrantsFor, PendingsFor, Covers, ExpiresAt
<1> QED BY <1>3 DEF OneOpenIn, AtMostOneOpen

LEMMA OneOpenStep ==
  ASSUME Typed, ClocksPast, OneOpenRequest, [Next]_vars
  PROVE  OneOpenRequest'
<1> USE ClockType
<1>0. /\ OneOpenIn(file, now) /\ file \in LedgerFile
      /\ \A c \in Command : OneOpenIn(mem[c], now) /\ mem[c] \in LedgerFile
    BY DEF OneOpenRequest, OneOpenIn, Typed
<1>1. \A t \in Nat : OneOpenIn(ExpireDue(file, t), now)
    BY <1>0, DueOneOpen
<1>2. ASSUME NEW c \in Command, BeginTick(c) \/ BeginApply(c)
      PROVE  OneOpenRequest'
    BY <1>1, <1>2, Rewritten DEF BeginTick, BeginApply, Open, disk, Typed
<1>3. ASSUME NEW c \in Command, RefuseApply(c) \/ FlushAudit(c) \/ Die(c)
      PROVE  OneOpenRequest'
    BY <1>3, IdleCopies, Rewritten DEF RefuseApply, FlushAudit, Die, disk
<1>4. ASSUME NEW c \in Command, FlushSave(c)
      PROVE  OneOpenRequest'
    BY <1>0, <1>4, Rewritten DEF FlushSave
<1>5. ASSUME NEW c \in Command, NEW i \in ApprovalId, Change(c, i, "superseded"),
             mem[c][i].status # "absent", UNCHANGED <<file, now>>
      PROVE  OneOpenRequest'
  <2>1. OneOpenIn(Mark(mem[c], i, "superseded"), now)
      BY <1>0, <1>5, ClosedOneOpen
  <2> QED BY <1>5, <2>1, Rewritten DEF Change, Typed
<1>6. ASSUME NEW c \in Command, NEW k \in GatedKey, TickUseGrant(c, k)
      PROVE  OneOpenRequest'
    BY <1>5, <1>6 DEF TickUseGrant, IsFirst, GrantsFor, Covers, disk
<1>7. ASSUME NEW c \in Command, NEW i \in ApprovalId, TickUseFallback(c, i)
      PROVE  OneOpenRequest'
    BY <1>5, <1>7 DEF TickUseFallback, Covers, disk
<1>8. ASSUME NEW c \in Command, NEW i \in ApprovalId, CheckApply(c, i)
      PROVE  OneOpenRequest'
    BY <1>5, <1>8, Rewritten DEF CheckApply, disk
<1>9. ASSUME NEW c \in Command, NEW k \in GatedKey, TickUnderBrief(c, k) \/ GateCheck(c, k)
      PROVE  OneOpenRequest'
    BY <1>9, Rewritten DEF TickUnderBrief, GateCheck, disk, session
<1>10. ASSUME NEW c \in Command, NEW k \in GatedKey \cup FallbackKey, TickAsk(c, k)
       PROVE  OneOpenRequest'
  <2>1. next \in ApprovalId /\ k \in Key
      BY <1>10, BoundAssumption, KeyPartition DEF TickAsk, Ask, Typed, ApprovalId
  <2>2. OneOpenIn(AskOperator(mem[c], next, k, at[c]), now)
      BY <1>0, <1>10, <2>1, OneAsked DEF TickAsk, ClocksPast
  <2> QED BY <1>10, <2>2, Rewritten DEF TickAsk, Ask, disk, Typed
<1>11. ASSUME NEW c \in Command, NEW k \in RetentionKey, BeginRequest(c, k)
       PROVE  OneOpenRequest'
  <2> DEFINE f == ExpireDue(file, now)
  <2>1. next \in ApprovalId /\ k \in Key
      BY <1>11, BoundAssumption, KeyPartition DEF BeginRequest, Typed, ApprovalId
  <2>2. f \in LedgerFile
      BY <1>0, ExpireDueFacts
  <2>3. OpenFor(f, k, now) = {} => OneOpenIn(AskOperator(f, next, k, now), now)
      BY <1>1, <2>1, <2>2, OneAsked
  <2> HIDE DEF f
  <2> QED BY <1>1, <1>11, <2>3, Rewritten DEF BeginRequest, disk, Typed, f
<1>12. ASSUME NEW c \in Command, GateUseGrant(c)
       PROVE  OneOpenRequest'
  <2> DEFINE f == ExpireDue(file, at[c])
  <2>1. PICK i \in ApprovalId : /\ IsFirst(i, GrantsFor(f, asked[c], at[c]))
                               /\ file' = Mark(f, i, "superseded")
      BY <1>12 DEF GateUseGrant
  <2>2. f \in LedgerFile /\ f[i].status # "absent"
      BY <1>0, <2>1, ExpireDueFacts DEF IsFirst, GrantsFor, Covers
  <2>3. OneOpenIn(file', now)
      BY <1>1, <2>1, <2>2, ClosedOneOpen
  <2> QED BY <1>12, <2>3, IdleCopies, Rewritten DEF GateUseGrant
<1>13. ASSUME NEW c \in Command, GateWait(c) \/ GateUnderBrief(c)
       PROVE  OneOpenRequest'
    BY <1>1, <1>13, IdleCopies, Rewritten DEF GateWait, GateUnderBrief
<1>14. ASSUME NEW c \in Command, GateAsk(c)
       PROVE  OneOpenRequest'
  <2> DEFINE f == ExpireDue(file, at[c])
  <2>1. next \in ApprovalId /\ asked[c] \in Key
      BY <1>14, BoundAssumption, KeyPartition DEF GateAsk, Typed, ApprovalId
  <2>2. f \in LedgerFile
      BY <1>0, ExpireDueFacts
  <2>3. OneOpenIn(file', now)
      BY <1>1, <1>14, <2>1, <2>2, OneAsked DEF GateAsk, ClocksPast
  <2> QED BY <1>14, <2>3, IdleCopies, Rewritten DEF GateAsk
<1>15. ASSUME NEW status \in {"approved", "denied"}, Resolve(status)
       PROVE  OneOpenRequest'
  <2> DEFINE f == ExpireDue(file, now)
  <2>1. f \in LedgerFile
      BY <1>0, ExpireDueFacts
  <2>2. OneOpenIn(file', now)
      BY <1>1, <1>15, <2>1, AnsweredOneOpen DEF Resolve
  <2> QED BY <1>15, <2>2, Rewritten DEF Resolve, session
<1>16. CASE ListPending
    BY <1>1, <1>16, Rewritten DEF ListPending, session
<1>17. ASSUME NEW k \in GatedKey, NewApproval(k)
       PROVE  OneOpenRequest'
  <2>1. Tightens(file, file')
      BY <1>0, <1>17
         DEF NewApproval, Tightens, OpenStatus, LedgerFile, Approval, NoApproval
  <2>2. OneOpenIn(file', now)
      BY <1>0, <2>1, TightensKeepsOne
  <2> QED BY <1>17, <2>2, Rewritten DEF NewApproval, session
<1>18. CASE Advance
  <2>1. OneOpenIn(file, now') /\ \A c \in Command : OneOpenIn(mem[c], now')
      BY <1>0, <1>18, TimeKeepsOne DEF Advance
  <2> QED BY <1>18, <2>1 DEF Advance, disk, session, OneOpenRequest, OneOpenIn
<1>19. CASE UNCHANGED vars
    BY <1>19, Rewritten DEF vars
<1> QED
    BY <1>2, <1>3, <1>4, <1>6, <1>7, <1>8, <1>9, <1>10, <1>11, <1>12, <1>13, <1>14,
       <1>15, <1>16, <1>17, <1>18, <1>19
    DEF Next, SessionStep, GateStep, OperatorStep, Ok, Deny

LEMMA OneOpenInit == Init => ClocksPast /\ OneOpenRequest
BY DEF Init, ClocksPast, OneOpenRequest, AtMostOneOpen, OpenFor, GrantsFor,
       PendingsFor, Covers, EmptyFile, NoApproval

\* begin_session and evaluate_action never leave a request with two records
\* to answer, in the file or in a session's copy.
THEOREM OneOpenAlways == Spec => []OneOpenRequest
<1> DEFINE I == Typed /\ ClocksPast /\ OneOpenRequest
<1>1. Init => I
    BY TypeInit, OneOpenInit
<1>2. I /\ [Next]_vars => I'
    BY TypeStep, ClocksStep, OneOpenStep
<1> QED BY <1>1, <1>2, PTL DEF Spec

-----------------------------------------------------------------------------
\* Nothing goes ahead on a record no operator approved.

\* A grant in any copy, and any consumption a session has queued, is of a
\* record the operator approved.
ApprovedIn(f, S) == \A i \in ApprovalId : f[i].status = "approved" => i \in S
QueuedOf(q, S) == \A i \in ApprovalId : <<i, "superseded">> \in q => i \in S
Backed ==
  /\ ApprovedIn(file, approved)
  /\ \A c \in Command : ApprovedIn(mem[c], approved) /\ QueuedOf(queue[c], approved)
  /\ UseNeedsApproval

LEMMA UsesBacked ==
  ASSUME Typed, UseNeedsApproval, NEW S, uses' = Use(uses, S),
         S \cap ApprovalId \subseteq approved, approved' = approved
  PROVE  UseNeedsApproval'
BY DEF UseNeedsApproval, Use, Typed

LEMMA TightensApproved ==
  ASSUME NEW f, NEW g, NEW S, Tightens(f, g), ApprovedIn(f, S)
  PROVE  ApprovedIn(g, S)
BY DEF Tightens, ApprovedIn

LEMMA AskApproved ==
  ASSUME NEW f \in LedgerFile, NEW i \in ApprovalId, NEW k, NEW t, NEW S, ApprovedIn(f, S)
  PROVE  ApprovedIn(AskOperator(f, i, k, t), S)
BY DEF ApprovedIn, AskOperator, LedgerFile

\* What a step must respect when no operator answers.
LEMMA StillBacked ==
  ASSUME Backed, approved' = approved,
         file' = file \/ ApprovedIn(file', approved),
         \A c \in Command : mem'[c] = mem[c] \/ ApprovedIn(mem'[c], approved),
         \A c \in Command : queue'[c] = queue[c] \/ QueuedOf(queue'[c], approved),
         uses' = uses \/ UseNeedsApproval'
  PROVE  Backed'
BY DEF Backed, ApprovedIn, QueuedOf, UseNeedsApproval

LEMMA IdleBacked ==
  ASSUME Typed, NEW c \in Command, Idle(c)
  PROVE  /\ \A d \in Command : mem'[d] = mem[d] \/ ApprovedIn(mem'[d], approved)
         /\ \A d \in Command : queue'[d] = queue[d] \/ QueuedOf(queue'[d], approved)
<1>1. ApprovedIn(EmptyFile, approved) /\ QueuedOf({}, approved)
    BY DEF ApprovedIn, QueuedOf, EmptyFile, NoApproval
<1> QED BY <1>1 DEF Idle, Typed

LEMMA BackedStep ==
  ASSUME Typed, Backed, [Next]_vars
  PROVE  Backed'
<1> USE ClockType
<1>0. /\ ApprovedIn(file, approved) /\ file \in LedgerFile /\ UseNeedsApproval
      /\ \A c \in Command : ApprovedIn(mem[c], approved) /\ mem[c] \in LedgerFile
      /\ \A c \in Command : QueuedOf(queue[c], approved)
    BY DEF Backed, Typed
<1>1. \A t \in Nat : ApprovedIn(ExpireDue(file, t), approved)
    BY <1>0, ExpireDueFacts, TightensApproved
<1>2. \A t \in Nat : QueuedOf(Lines(DueIds(file, t), "expired"), approved)
    BY DEF QueuedOf, Lines
<1>3. ASSUME NEW c \in Command, BeginTick(c) \/ BeginApply(c)
      PROVE  Backed'
    BY <1>1, <1>2, <1>3, StillBacked
       DEF BeginTick, BeginApply, Open, disk, history, Typed
<1>4. ASSUME NEW c \in Command, RefuseApply(c) \/ FlushAudit(c) \/ Die(c)
      PROVE  Backed'
    BY <1>4, IdleBacked, StillBacked DEF RefuseApply, FlushAudit, Die, disk, history
<1>5. ASSUME NEW c \in Command, FlushSave(c)
      PROVE  Backed'
  <2>1. UseNeedsApproval'
      BY <1>0, <1>5, UsesBacked DEF FlushSave, Spent, QueuedOf
  <2> QED BY <1>0, <1>5, <2>1, StillBacked DEF FlushSave
<1>6. ASSUME NEW c \in Command, NEW i \in approved \cap ApprovalId,
             Change(c, i, "superseded"), mem[c][i].status # "absent",
             UNCHANGED <<file, approved>>, uses' = uses \/ uses' = Use(uses, {i})
      PROVE  Backed'
  <2>1. ApprovedIn(Mark(mem[c], i, "superseded"), approved)
      BY <1>0, <1>6, MarkFacts, TightensApproved DEF ApprovalStatus, OpenStatus
  <2>2. QueuedOf(queue[c] \cup {<<i, "superseded">>}, approved)
      BY <1>0 DEF QueuedOf
  <2>3. uses' = uses \/ UseNeedsApproval'
      BY <1>0, <1>6, UsesBacked
  <2> QED BY <1>6, <2>1, <2>2, <2>3, StillBacked DEF Change, Typed
<1>7. ASSUME NEW c \in Command, NEW k \in GatedKey, TickUseGrant(c, k)
      PROVE  Backed'
    BY <1>0, <1>6, <1>7 DEF TickUseGrant, IsFirst, GrantsFor, Covers, ApprovedIn, disk
<1>8. ASSUME NEW c \in Command, NEW i \in ApprovalId, TickUseFallback(c, i)
      PROVE  Backed'
    BY <1>0, <1>6, <1>8 DEF TickUseFallback, Covers, ApprovedIn, disk, history
<1>9. ASSUME NEW c \in Command, NEW i \in ApprovalId, CheckApply(c, i)
      PROVE  Backed'
  <2>1. i \in approved
      BY <1>0, <1>9 DEF CheckApply, Covers, ApprovedIn
  <2>2. CASE mem[c][i].status = "superseded"
    <3>1. UseNeedsApproval'
        BY <1>0, <1>9, <2>1, <2>2, UsesBacked DEF CheckApply
    <3> QED BY <1>9, <2>2, <3>1, StillBacked DEF CheckApply, disk
  <2>3. CASE mem[c][i].status # "superseded"
      BY <1>6, <1>9, <2>1, <2>3 DEF CheckApply, disk
  <2> QED BY <2>2, <2>3
<1>10. ASSUME NEW c \in Command, NEW k \in GatedKey, TickUnderBrief(c, k) \/ GateCheck(c, k)
       PROVE  Backed'
    BY <1>10, StillBacked DEF TickUnderBrief, GateCheck, disk, session, history
<1>11. ASSUME NEW c \in Command, NEW k \in GatedKey \cup FallbackKey, TickAsk(c, k)
       PROVE  Backed'
  <2>1. next \in ApprovalId
      BY <1>11, BoundAssumption DEF TickAsk, Ask, Typed, ApprovalId
  <2>2. ApprovedIn(AskOperator(mem[c], next, k, at[c]), approved)
      BY <1>0, <2>1, AskApproved
  <2>3. QueuedOf(queue[c] \cup {<<next, "pending">>}, approved)
      BY <1>0 DEF QueuedOf
  <2> QED BY <1>11, <2>2, <2>3, StillBacked DEF TickAsk, Ask, disk, history, Typed
<1>12. ASSUME NEW c \in Command, NEW k \in RetentionKey, BeginRequest(c, k)
       PROVE  Backed'
  <2> DEFINE f == ExpireDue(file, now)
             expired == Lines(DueIds(file, now), "expired")
  <2>1. next \in ApprovalId
      BY <1>12, BoundAssumption DEF BeginRequest, Typed, ApprovalId
  <2>2. ApprovedIn(f, approved) /\ ApprovedIn(AskOperator(f, next, k, now), approved)
      BY <1>0, <1>1, <2>1, ExpireDueFacts, AskApproved
  <2>3. QueuedOf(expired, approved) /\ QueuedOf(expired \cup {<<next, "pending">>}, approved)
      BY <1>2 DEF QueuedOf
  <2> HIDE DEF f, expired
  <2> QED BY <1>12, <2>2, <2>3, StillBacked
          DEF BeginRequest, disk, history, Typed, f, expired
<1>13. ASSUME NEW c \in Command, GateUseGrant(c)
       PROVE  Backed'
  <2> DEFINE f == ExpireDue(file, at[c])
  <2>1. PICK i \in ApprovalId : /\ IsFirst(i, GrantsFor(f, asked[c], at[c]))
                               /\ file' = Mark(f, i, "superseded")
                               /\ uses' = Use(uses, {i})
      BY <1>13 DEF GateUseGrant
  <2>2. f \in LedgerFile /\ f[i].status = "approved"
      BY <1>0, <2>1, ExpireDueFacts DEF IsFirst, GrantsFor, Covers
  <2>3. i \in approved
      BY <1>1, <2>2 DEF ApprovedIn
  <2>4. ApprovedIn(file', approved)
      BY <1>1, <2>1, <2>2, MarkFacts, TightensApproved DEF ApprovalStatus, OpenStatus
  <2>5. UseNeedsApproval'
      BY <1>0, <1>13, <2>1, <2>3, UsesBacked DEF GateUseGrant
  <2> QED BY <1>13, <2>4, <2>5, IdleBacked, StillBacked DEF GateUseGrant
<1>14. ASSUME NEW c \in Command, GateWait(c) \/ GateUnderBrief(c)
       PROVE  Backed'
    BY <1>1, <1>14, IdleBacked, StillBacked DEF GateWait, GateUnderBrief, history
<1>15. ASSUME NEW c \in Command, GateAsk(c)
       PROVE  Backed'
  <2>1. next \in ApprovalId
      BY <1>15, BoundAssumption DEF GateAsk, Typed, ApprovalId
  <2>2. ApprovedIn(file', approved)
      BY <1>0, <1>1, <1>15, <2>1, ExpireDueFacts, AskApproved DEF GateAsk
  <2> QED BY <1>15, <2>2, IdleBacked, StillBacked DEF GateAsk, history
<1>16. ASSUME NEW status \in {"approved", "denied"}, Resolve(status)
       PROVE  Backed'
  <2> DEFINE f == ExpireDue(file, now)
  <2>1. f \in LedgerFile
      BY <1>0, ExpireDueFacts
  <2>2. ApprovedIn(file', approved') /\ approved \subseteq approved'
    <3>1. ASSUME NEW i \in ApprovalId, f[i].status = "pending", file' = Mark(f, i, status),
                 IF status = "approved" THEN approved' = approved \cup {i}
                 ELSE approved' = approved
          PROVE  ApprovedIn(file', approved') /\ approved \subseteq approved'
      <4>1. \A j \in ApprovalId : j # i => file'[j] = f[j]
          BY <2>1, <3>1 DEF Mark, LedgerFile
      <4>2. file'[i].status = status
          BY <2>1, <3>1 DEF Mark, LedgerFile, Approval, NoApproval
      <4> HIDE DEF f
      <4> QED BY <1>1, <3>1, <4>1, <4>2 DEF ApprovedIn, f
    <3> HIDE DEF f
    <3>2. CASE file' = f /\ approved' = approved
        BY <1>1, <3>2 DEF f
    <3> QED BY <1>16, <3>1, <3>2 DEF Resolve, f
  <2> QED BY <1>16, <2>2 DEF Backed, Resolve, session, ApprovedIn, QueuedOf, UseNeedsApproval
<1>17. CASE ListPending
    BY <1>1, <1>17, StillBacked DEF ListPending, session, history
<1>18. ASSUME NEW k \in GatedKey, NewApproval(k)
       PROVE  Backed'
  <2>1. ApprovedIn(file', approved)
      BY <1>0, <1>18 DEF NewApproval, ApprovedIn, LedgerFile, Approval, NoApproval
  <2> QED BY <1>18, <2>1, StillBacked DEF NewApproval, session
<1>19. CASE Advance
    BY <1>19, StillBacked DEF Advance, disk, session, history
<1>20. CASE UNCHANGED vars
    BY <1>20, StillBacked DEF vars
<1> QED
    BY <1>3, <1>4, <1>5, <1>7, <1>8, <1>9, <1>10, <1>11, <1>12, <1>13, <1>14, <1>15,
       <1>16, <1>17, <1>18, <1>19, <1>20
    DEF Next, SessionStep, GateStep, OperatorStep, Ok, Deny

LEMMA BackedInit == Init => Backed
BY DEF Init, Backed, ApprovedIn, QueuedOf, UseNeedsApproval, EmptyFile, NoApproval

\* A grant is consumed, and an action launched or applied on it, only for a
\* record that ok or approve_pending answered.
THEOREM UseNeedsApprovalAlways == Spec => []UseNeedsApproval
<1>1. Init => Typed /\ Backed
    BY TypeInit, BackedInit
<1>2. Typed /\ Backed /\ [Next]_vars => (Typed /\ Backed)'
    BY TypeStep, BackedStep
<1>3. Backed => UseNeedsApproval
    BY DEF Backed
<1> QED BY <1>1, <1>2, <1>3, PTL DEF Spec
=============================================================================
