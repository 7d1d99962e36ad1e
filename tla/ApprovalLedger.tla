--------------------------- MODULE ApprovalLedger ---------------------------
(***************************************************************************)
(* The approval ledger of a profile directory and everyone who rewrites    *)
(* it.  The file is shared without a lock: each command loads it whole,    *)
(* changes its copy and writes the whole copy back, then appends to the    *)
(* audit log.  Two kinds of reader keep their copy for long: the harness   *)
(* tick, which holds an ApprovalLedgerSession from its first step to its   *)
(* last, and the maintenance and retention commands, which open a session  *)
(* without the tick lock.                                                  *)
(*                                                                         *)
(* Overlap says whether commands may start while another one is between    *)
(* its steps; Crashes whether a process may die there.  Both off is the    *)
(* serial use the documents describe.                                      *)
(***************************************************************************)
EXTENDS Approvals

CONSTANTS
  GatedKey,       \* actions evaluated by the scheduler gate (dispatch, ...)
  EnvelopeKey,    \* gated actions whose risk an execution brief can cover
  FallbackKey,    \* dispatch.provider_fallback approvals
  RetentionKey,   \* artifact retention and maintenance approvals
  Command,        \* processes that keep state between two steps
  MaxTime,        \* bound on the clock
  Overlap, Crashes

ASSUME KeyPartition ==
  /\ Key = GatedKey \cup FallbackKey \cup RetentionKey
  /\ EnvelopeKey \subseteq GatedKey
  /\ GatedKey \cap (FallbackKey \cup RetentionKey) = {}
  /\ FallbackKey \cap RetentionKey = {}
ASSUME ModeAssumption == Overlap \in BOOLEAN /\ Crashes \in BOOLEAN /\ MaxTime \in Nat

VARIABLES
  file,      \* pending_action_approvals.json
  audit,     \* action_audit.jsonl: the set of <<record, status>> lines
  now,       \* the wall clock
  next,      \* the next unused record id
  pc,        \* what each command is doing
  mem,       \* a session's copy of the file
  at,        \* the clock as the command read it when it started
  queue,     \* a session's transitions; it is dirty when there are any
  asked,     \* the key of a gate command between its two looks at the file
  approved,  \* history: records an operator approved
  refused,   \* history: keys the operator denied, and not retried since
  uses,      \* history: how often an action went ahead on a record (0..2)
  ran        \* history: keys that went ahead since they were last denied

vars == <<file, audit, now, next, pc, mem, at, queue, asked, approved, refused, uses, ran>>
disk == <<file, audit>>
session == <<pc, mem, at, queue, asked>>
history == <<approved, refused, uses, ran>>

PcValue ==
  {"idle", "tick", "tickAppend", "apply", "ready", "append", "gate"}

Init ==
  /\ file = EmptyFile
  /\ audit = {}
  /\ now = 0
  /\ next = 1
  /\ pc = [c \in Command |-> "idle"]
  /\ mem = [c \in Command |-> EmptyFile]
  /\ at = [c \in Command |-> 0]
  /\ queue = [c \in Command |-> {}]
  /\ asked = [c \in Command |-> NoKey]
  /\ approved = {}
  /\ refused = {}
  /\ uses = [i \in ApprovalId |-> 0]
  /\ ran = {}

AllIdle == \A c \in Command : pc[c] = "idle"
MayStart == Overlap \/ AllIdle

Use(u, S) == [i \in ApprovalId |-> IF i \in S /\ u[i] < 2 THEN u[i] + 1 ELSE u[i]]
Lines(S, status) == {<<i, status>> : i \in S}

\* A command writes the file and then appends its lines; dying in between
\* leaves the file changed and the log short of some of them.
WriteAudit(lines) ==
  \E kept \in IF Crashes THEN SUBSET lines ELSE {lines} : audit' = audit \cup kept

-----------------------------------------------------------------------------
(* Sessions: begin_session, the operations on the copy, flush.             *)

Open(c, f, t, why) ==
  /\ pc[c] = "idle" /\ MayStart
  /\ mem' = [mem EXCEPT ![c] = ExpireDue(f, t)]
  /\ at' = [at EXCEPT ![c] = t]
  /\ queue' = [queue EXCEPT ![c] = Lines(DueIds(f, t), "expired")]
  /\ pc' = [pc EXCEPT ![c] = why]

\* The tick lock admits one tick session at a time.
BeginTick(c) ==
  /\ \A d \in Command : pc[d] \notin {"tick", "tickAppend"}
  /\ Open(c, file, now, "tick")
  /\ UNCHANGED <<disk, now, next, asked, history>>

\* Mutant: the transition is not queued, so the session is not dirty.
Change_Unqueued(c, i, status) ==
  /\ mem' = [mem EXCEPT ![c] = Mark(mem[c], i, status)]
  /\ UNCHANGED queue

Change(c, i, status) ==
  /\ mem' = [mem EXCEPT ![c] = Mark(mem[c], i, status)]
  /\ queue' = [queue EXCEPT ![c] = queue[c] \cup {<<i, status>>}]

\* ApprovalLedgerSession::evaluate_action behind the denial check of
\* evaluate_with_session: a grant is consumed, and the action launched, ...
TickUseGrant(c, k) ==
  /\ pc[c] = "tick" /\ ~Denies(mem[c], k)
  /\ \E i \in ApprovalId :
       /\ IsFirst(i, GrantsFor(mem[c], k, at[c]))
       /\ Change(c, i, "superseded")
       /\ uses' = Use(uses, {i})
  /\ ran' = ran \cup {k}
  /\ UNCHANGED <<disk, now, next, pc, at, asked, approved, refused>>

\* ... or the brief covers the action and nothing waits for it, ...
TickUnderBrief(c, k) ==
  /\ pc[c] = "tick" /\ k \in EnvelopeKey /\ ~Denies(mem[c], k)
  /\ OpenFor(mem[c], k, at[c]) = {}
  /\ ran' = ran \cup {k}
  /\ UNCHANGED <<disk, now, next, session, approved, refused, uses>>

Ask(c, k) ==
  /\ next <= MaxApprovals
  /\ mem' = [mem EXCEPT ![c] = AskOperator(mem[c], next, k, at[c])]
  /\ queue' = [queue EXCEPT ![c] = queue[c] \cup {<<next, "pending">>}]
  /\ next' = next + 1

\* Mutant: no look for a record that already waits.
TickAsk_Again(c, k) ==
  /\ pc[c] = "tick" /\ ~Denies(mem[c], k)
  /\ GrantsFor(mem[c], k, at[c]) = {}
  /\ Ask(c, k)
  /\ UNCHANGED <<disk, now, pc, at, asked, history>>

\* ... or the operator is asked.  ensure_pending_without_consuming_grant asks
\* under the same condition for a provider fallback.
TickAsk(c, k) ==
  /\ pc[c] = "tick" /\ ~Denies(mem[c], k)
  /\ OpenFor(mem[c], k, at[c]) = {}
  /\ Ask(c, k)
  /\ UNCHANGED <<disk, now, pc, at, asked, history>>

\* apply_approved_provider_fallbacks: the change it allows reaches the task
\* file after the flush.
TickUseFallback(c, i) ==
  /\ pc[c] = "tick"
  /\ \E k \in FallbackKey : Covers(mem[c][i], "approved", k, at[c])
  /\ Change(c, i, "superseded")
  /\ UNCHANGED <<disk, now, next, pc, at, asked, history>>

\* retention-request and the maintenance request: a session that asks at most
\* once.  A grant, a denial or a pending record of k ends it without a new one.
BeginRequest(c, k) ==
  /\ pc[c] = "idle" /\ MayStart /\ next <= MaxApprovals
  /\ LET f == ExpireDue(file, now)
         expired == Lines(DueIds(file, now), "expired")
         answered == Denies(f, k) \/ OpenFor(f, k, now) # {}
     IN  /\ mem' = [mem EXCEPT ![c] =
                       IF answered THEN f ELSE AskOperator(f, next, k, now)]
         /\ queue' = [queue EXCEPT ![c] =
                       IF answered THEN expired ELSE expired \cup {<<next, "pending">>}]
         /\ next' = IF answered THEN next ELSE next + 1
  /\ at' = [at EXCEPT ![c] = now]
  /\ pc' = [pc EXCEPT ![c] = "ready"]
  /\ UNCHANGED <<disk, now, asked, history>>

\* retention-apply opens its session first ...
BeginApply(c) ==
  /\ Open(c, file, now, "apply")
  /\ UNCHANGED <<disk, now, next, asked, history>>

\* Mutant: retention-apply takes any record it is given the id of.
CheckApply_AnyStatus(c, i) ==
  /\ pc[c] = "apply"
  /\ file[i].key \in RetentionKey
  /\ mem[c][i].status # "absent"
  /\ Change(c, i, "superseded")
  /\ pc' = [pc EXCEPT ![c] = "ready"]
  /\ UNCHANGED <<disk, now, next, at, asked, history>>

\* ... then judges the approval by a second look at the file, and consumes
\* the record of its own copy whatever that copy says of it.
CheckApply(c, i) ==
  /\ pc[c] = "apply"
  /\ \E k \in RetentionKey : Covers(file[i], "approved", k, at[c])
  /\ mem[c][i].status # "absent"
  /\ IF mem[c][i].status = "superseded"
     THEN uses' = Use(uses, {i}) /\ UNCHANGED <<mem, queue>>
     ELSE Change(c, i, "superseded") /\ UNCHANGED uses
  /\ pc' = [pc EXCEPT ![c] = "ready"]
  /\ UNCHANGED <<disk, now, next, at, asked, approved, refused, ran>>

Idle(c) ==
  /\ pc' = [pc EXCEPT ![c] = "idle"]
  /\ mem' = [mem EXCEPT ![c] = EmptyFile]
  /\ queue' = [queue EXCEPT ![c] = {}]
  /\ at' = [at EXCEPT ![c] = 0]
  /\ asked' = [asked EXCEPT ![c] = NoKey]

\* Any other look at the approval ends the command with its session unflushed.
RefuseApply(c) ==
  /\ pc[c] = "apply"
  /\ \E i \in ApprovalId :
       \/ ~ \E k \in RetentionKey : Covers(file[i], "approved", k, at[c])
       \/ mem[c][i].status = "absent"
  /\ Idle(c)
  /\ UNCHANGED <<disk, now, next, history>>

\* The approvals whose effect follows the flush: a fallback's task file, a
\* retention receipt.
Spent(c) ==
  {i \in ApprovalId :
     <<i, "superseded">> \in queue[c]
     /\ mem[c][i].key \in FallbackKey \cup RetentionKey}

\* flush, first half: the whole copy replaces the file if anything changed.
FlushSave(c) ==
  /\ pc[c] \in {"tick", "ready"}
  /\ file' = IF queue[c] = {} THEN file ELSE mem[c]
  /\ uses' = Use(uses, Spent(c))
  /\ pc' = [pc EXCEPT ![c] = IF pc[c] = "tick" THEN "tickAppend" ELSE "append"]
  /\ UNCHANGED <<audit, now, next, mem, at, queue, asked, approved, refused, ran>>

\* Mutant: the transitions are taken before the save and dropped.
FlushAudit_Dropped(c) ==
  /\ pc[c] \in {"tickAppend", "append"}
  /\ Idle(c)
  /\ UNCHANGED <<disk, now, next, history>>

\* flush, second half: the queued lines.
FlushAudit(c) ==
  /\ pc[c] \in {"tickAppend", "append"}
  /\ audit' = audit \cup queue[c]
  /\ Idle(c)
  /\ UNCHANGED <<file, now, next, history>>

\* The process dies, perhaps with some lines written; the tick lock goes too.
Die(c) ==
  /\ Crashes /\ pc[c] # "idle"
  /\ \E kept \in IF pc[c] \in {"tickAppend", "append"} THEN SUBSET queue[c] ELSE {{}} :
       audit' = audit \cup kept
  /\ Idle(c)
  /\ UNCHANGED <<file, now, next, history>>

-----------------------------------------------------------------------------
(* The gate and launch commands: the denial check loads the file, then      *)
(* ApprovalLedger::evaluate_action loads it again.                          *)

\* Mutant: the gate evaluates without looking for a denial.
GateCheck_NoDenial(c, k) ==
  /\ pc[c] = "idle" /\ MayStart
  /\ pc' = [pc EXCEPT ![c] = "gate"]
  /\ asked' = [asked EXCEPT ![c] = k]
  /\ at' = [at EXCEPT ![c] = now]
  /\ UNCHANGED <<disk, now, next, mem, queue, history>>

GateCheck(c, k) ==
  /\ pc[c] = "idle" /\ MayStart /\ ~Denies(file, k)
  /\ pc' = [pc EXCEPT ![c] = "gate"]
  /\ asked' = [asked EXCEPT ![c] = k]
  /\ at' = [at EXCEPT ![c] = now]
  /\ UNCHANGED <<disk, now, next, mem, queue, history>>

\* Mutant: the grant the gate found is not consumed.
GateUseGrant_Kept(c) ==
  /\ pc[c] = "gate"
  /\ LET f == ExpireDue(file, at[c]) IN
       \E i \in ApprovalId :
         /\ IsFirst(i, GrantsFor(f, asked[c], at[c]))
         /\ file' = f
         /\ uses' = Use(uses, {i})
  /\ ran' = ran \cup {asked[c]}
  /\ Idle(c)
  /\ UNCHANGED <<audit, now, next, approved, refused>>

GateUseGrant(c) ==
  /\ pc[c] = "gate"
  /\ LET f == ExpireDue(file, at[c]) IN
       \E i \in ApprovalId :
         /\ IsFirst(i, GrantsFor(f, asked[c], at[c]))
         /\ file' = Mark(f, i, "superseded")
         /\ WriteAudit({<<i, "superseded">>})
         /\ uses' = Use(uses, {i})
  /\ ran' = ran \cup {asked[c]}
  /\ Idle(c)
  /\ UNCHANGED <<now, next, approved, refused>>

GateWait(c) ==
  /\ pc[c] = "gate"
  /\ LET f == ExpireDue(file, at[c]) IN
       /\ GrantsFor(f, asked[c], at[c]) = {}
       /\ PendingsFor(f, asked[c], at[c]) # {}
       /\ file' = f
  /\ Idle(c)
  /\ UNCHANGED <<audit, now, next, history>>

GateUnderBrief(c) ==
  /\ pc[c] = "gate" /\ asked[c] \in EnvelopeKey
  /\ LET f == ExpireDue(file, at[c]) IN
       OpenFor(f, asked[c], at[c]) = {} /\ file' = f
  /\ ran' = ran \cup {asked[c]}
  /\ Idle(c)
  /\ UNCHANGED <<audit, now, next, approved, refused, uses>>

GateAsk(c) ==
  /\ pc[c] = "gate" /\ next <= MaxApprovals
  /\ LET f == ExpireDue(file, at[c]) IN
       /\ OpenFor(f, asked[c], at[c]) = {}
       /\ file' = AskOperator(f, next, asked[c], at[c])
       /\ WriteAudit({<<next, "pending">>})
  /\ next' = next + 1
  /\ Idle(c)
  /\ UNCHANGED <<now, history>>

-----------------------------------------------------------------------------
(* The operator's commands: one load and one save each.                     *)

\* resolve_pending, by id or the oldest; what it expires on the way is saved
\* and never written to the audit log.
Resolve(status) ==
  /\ MayStart
  /\ LET f == ExpireDue(file, now) IN
       \/ \E i \in ApprovalId :
            /\ f[i].status = "pending"
            /\ file' = Mark(f, i, status)
            /\ WriteAudit({<<i, status>>})
            /\ IF status = "approved"
               THEN approved' = approved \cup {i} /\ UNCHANGED <<refused, ran>>
               ELSE /\ refused' = refused \cup {f[i].key}
                    /\ ran' = ran \ {f[i].key}
                    /\ UNCHANGED approved
       \/ /\ file' = f
          /\ UNCHANGED <<audit, approved, refused, ran>>
  /\ UNCHANGED <<now, next, session, uses>>

Ok == Resolve("approved")
Deny == Resolve("denied")

\* offdesk pending: expire_due.
ListPending ==
  /\ MayStart
  /\ file' = ExpireDue(file, now)
  /\ WriteAudit(Lines(DueIds(file, now), "expired"))
  /\ UNCHANGED <<now, next, session, history>>

\* retry --new-approval: every denial of the task's action is superseded.
NewApproval(k) ==
  /\ MayStart
  /\ LET denied == {i \in ApprovalId : file[i].status = "denied" /\ file[i].key = k} IN
       /\ denied # {}
       /\ file' = [i \in ApprovalId |->
                     IF i \in denied THEN [file[i] EXCEPT !.status = "superseded"]
                     ELSE file[i]]
       /\ WriteAudit(Lines(denied, "superseded"))
  /\ refused' = refused \ {k}
  /\ UNCHANGED <<now, next, session, approved, uses, ran>>

Advance ==
  /\ MayStart /\ now < MaxTime
  /\ now' = now + 1
  /\ UNCHANGED <<disk, next, session, history>>

SessionStep(c) ==
  \/ BeginTick(c) \/ BeginApply(c) \/ RefuseApply(c)
  \/ FlushSave(c) \/ FlushAudit(c) \/ Die(c)
  \/ \E k \in GatedKey : TickUseGrant(c, k) \/ TickUnderBrief(c, k)
  \/ \E k \in GatedKey \cup FallbackKey : TickAsk(c, k)
  \/ \E i \in ApprovalId : TickUseFallback(c, i) \/ CheckApply(c, i)
  \/ \E k \in RetentionKey : BeginRequest(c, k)

GateStep(c) ==
  \/ \E k \in GatedKey : GateCheck(c, k)
  \/ GateUseGrant(c) \/ GateWait(c) \/ GateUnderBrief(c) \/ GateAsk(c)

OperatorStep ==
  Ok \/ Deny \/ ListPending \/ \E k \in GatedKey : NewApproval(k)

Next == (\E c \in Command : SessionStep(c) \/ GateStep(c)) \/ OperatorStep \/ Advance

Spec == Init /\ [][Next]_vars

-----------------------------------------------------------------------------
Typed ==
  /\ file \in LedgerFile
  /\ audit \subseteq ApprovalId \X ApprovalStatus
  /\ now \in 0..MaxTime
  /\ next \in 1..(MaxApprovals + 1)
  /\ pc \in [Command -> PcValue]
  /\ mem \in [Command -> LedgerFile]
  /\ at \in [Command -> 0..MaxTime]
  /\ queue \in [Command -> SUBSET (ApprovalId \X ApprovalStatus)]
  /\ asked \in [Command -> Key \cup {NoKey}]
  /\ \A c \in Command : pc[c] = "gate" => asked[c] \in GatedKey
  /\ approved \subseteq ApprovalId
  /\ refused \subseteq Key
  /\ uses \in [ApprovalId -> 0..2]
  /\ ran \subseteq Key

NotAhead(f, t) == \A i \in ApprovalId : f[i].created <= t

\* Every variable has its type, and no record, in the file or in a copy, and no
\* command's clock is ahead of the present: what a record says of its time can
\* be compared with any later look.
TypeOK ==
  /\ Typed
  /\ NotAhead(file, now)
  /\ \A c \in Command : NotAhead(mem[c], now) /\ at[c] <= now

\* A request never has two records the operator could answer or the harness
\* could use, in the file or in any copy a session will write back: not even
\* when sessions and commands overlap and die between their steps.  This is
\* what evaluate_action's look for a grant and for a pending record, after
\* expiring the due ones, is for.
OneOpenRequest ==
  \A k \in Key :
    /\ AtMostOneOpen(file, k, now)
    /\ \A c \in Command : AtMostOneOpen(mem[c], k, now)

\* Nothing goes ahead on a record that no operator approved, whatever copies
\* of the file overwrite one another.
UseNeedsApproval == \A i \in ApprovalId : uses[i] > 0 => i \in approved

\* One approval, one action: evaluate_action and supersede_approval consume
\* the grant they use.
GrantUsedOnce == \A i \in ApprovalId : uses[i] <= 1

\* What the operator refused stays refused on file and does not run until
\* retry --new-approval, though the denial check and the evaluation are two
\* separate steps of the gate.
DenialHolds == \A k \in refused : Denies(file, k) /\ k \notin ran

\* No later rewrite of the file undoes what it says of a record: a resolved
\* record is not pending again, a denial is not turned into a grant, and a
\* consumed, expired or superseded record stays closed.
Successors(status) ==
  CASE status = "absent"   -> ApprovalStatus
    [] status = "pending"  -> ApprovalStatus \ {"absent"}
    [] status = "approved" -> {"approved", "superseded"}
    [] status = "denied"   -> {"denied", "superseded"}
    [] OTHER               -> {status}
NothingUndone ==
  [][\A i \in ApprovalId : file'[i].status \in Successors(file[i].status)]_vars

\* Between commands the audit log has a line for every answer in the file.
AuditComplete ==
  AllIdle =>
    \A i \in ApprovalId :
      file[i].status \notin {"absent", "expired"} => <<i, file[i].status>> \in audit

-----------------------------------------------------------------------------
(* The ledger as LedgerPerKey sees it.  Under serial use at most one       *)
(* session is open; what it has not flushed yet counts already.            *)

InSession(c) == pc[c] \in {"tick", "apply", "ready", "tickAppend", "append"}
Current ==
  IF \E c \in Command : InSession(c)
  THEN mem[CHOOSE c \in Command : InSession(c)] ELSE file

\* A due record is already gone: whoever looks for it expires it first.
AnswerTo(k) ==
  IF Denies(Current, k) THEN "denied"
  ELSE IF GrantsFor(Current, k, now) # {} THEN "granted"
  ELSE IF PendingsFor(ExpireDue(Current, now), k, now) # {} THEN "waiting"
  ELSE "none"

PerKey == INSTANCE LedgerPerKey WITH answer <- [k \in Key |-> AnswerTo(k)]

\* With one command at a time the ledger is one answer per key: sessions,
\* their delayed flush, the two looks of the gate and of retention-apply, and
\* expiry on the way add nothing to it, and no grant is spent twice or comes
\* back with the file a session did not write.
ImplementsPerKey == PerKey!Spec
=============================================================================
