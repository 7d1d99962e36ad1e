----------------------------- MODULE Approvals -----------------------------
(***************************************************************************)
(* The file pending_action_approvals.json as data: what one record is,     *)
(* which records answer a request, and how a command rewrites the file.    *)
(* No state here; ApprovalLedger holds the file and its readers, and       *)
(* OffdeskTick uses the same operators for the harness tick.               *)
(*                                                                         *)
(* A key stands for ApprovalLookupKey: project, request, task, action and  *)
(* risk level together.  File order is id order: ids are handed out in the *)
(* order records are appended, and every copy of the file keeps that order.*)
(* The scope field is left out: pending_approval_from_request, the only    *)
(* place that creates a record, always writes Once.                        *)
(***************************************************************************)
EXTENDS Naturals

CONSTANTS
  Key,            \* what a request asks for
  NoKey,          \* the key of a record that does not exist yet
  MaxApprovals,   \* bound: records the model can create
  Ttl             \* ticks of the clock a record stays valid (request.ttl)

ASSUME KeyAssumption == NoKey \notin Key
ASSUME BoundAssumption == MaxApprovals \in Nat /\ Ttl \in Nat

ApprovalId == 1..MaxApprovals
ApprovalStatus ==
  {"absent", "pending", "approved", "denied", "expired", "superseded"}
NoApproval == [key |-> NoKey, status |-> "absent", created |-> 0]
Approval ==
  [key : Key, status : ApprovalStatus \ {"absent"}, created : Nat] \cup {NoApproval}
LedgerFile == [ApprovalId -> Approval]

EmptyFile == [i \in ApprovalId |-> NoApproval]

ExpiresAt(a) == a.created + Ttl

\* A record with the given status answers a request for k at time t.
Covers(a, status, k, t) ==
  a.status = status /\ a.key = k /\ ExpiresAt(a) >= t

GrantsFor(f, k, t)   == {i \in ApprovalId : Covers(f[i], "approved", k, t)}
PendingsFor(f, k, t) == {i \in ApprovalId : Covers(f[i], "pending", k, t)}

\* A denial answers whatever the time: it has no expiry.
Denies(f, k) == \E i \in ApprovalId : f[i].status = "denied" /\ f[i].key = k

IsFirst(i, S) == i \in S /\ \A j \in S : i <= j

\* Only records that still wait for the operator expire; a grant that has
\* run out keeps its status and merely stops covering requests.
DueIds(f, t) == {i \in ApprovalId : f[i].status = "pending" /\ ExpiresAt(f[i]) <= t}
\* Mutant: every record past its time expires, answered or not.
ExpireDue_AnyStatus(f, t) ==
  [i \in ApprovalId |->
     IF f[i].status # "absent" /\ ExpiresAt(f[i]) <= t
     THEN [f[i] EXCEPT !.status = "expired"] ELSE f[i]]
ExpireDue(f, t) ==
  [i \in ApprovalId |->
     IF i \in DueIds(f, t) THEN [f[i] EXCEPT !.status = "expired"] ELSE f[i]]

Mark(f, i, status) == [f EXCEPT ![i].status = status]
\* Mutant: the record is dated at its expiry, so that the ttl counts twice.
AskOperator_AtExpiry(f, i, k, t) ==
  [f EXCEPT ![i] = [key |-> k, status |-> "pending", created |-> t + Ttl]]
AskOperator(f, i, k, t) ==
  [f EXCEPT ![i] = [key |-> k, status |-> "pending", created |-> t]]

\* Records of k that can still lead to a proceed at time t.
OpenFor(f, k, t) == GrantsFor(f, k, t) \cup PendingsFor(f, k, t)
AtMostOneOpen(f, k, t) == \A i, j \in OpenFor(f, k, t) : i = j
=============================================================================
