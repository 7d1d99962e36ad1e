---------------------------- MODULE LedgerPerKey ----------------------------
(***************************************************************************)
(* What the approval ledger promises, one request at a time and without    *)
(* files, copies, records or clocks: a request has one answer, a grant     *)
(* lets one action go ahead, and a denial lets none until the operator     *)
(* asks for a new approval.  ApprovalLedger implements this when commands  *)
(* do not overlap.                                                         *)
(***************************************************************************)
CONSTANTS
  Key,          \* what can be asked for
  GatedKey,     \* the keys whose grant lets a task's action go ahead
  EnvelopeKey   \* gated keys an execution brief covers

VARIABLES
  answer,       \* what the ledger says of each key
  ran           \* gated keys that went ahead since they were last denied

vars == <<answer, ran>>

Answer == {"none", "waiting", "granted", "denied"}

Init ==
  /\ answer = [k \in Key |-> "none"]
  /\ ran = {}

Becomes(k, from, to) ==
  /\ answer[k] = from
  /\ answer' = [answer EXCEPT ![k] = to]

Ask(k) == Becomes(k, "none", "waiting") /\ UNCHANGED ran
Grant(k) == Becomes(k, "waiting", "granted") /\ UNCHANGED ran
Refuse(k) == Becomes(k, "waiting", "denied") /\ ran' = ran \ {k}
Reopen(k) == k \in GatedKey /\ Becomes(k, "denied", "none") /\ UNCHANGED ran

\* A grant is gone with the action it allows.
GoAhead(k) ==
  /\ Becomes(k, "granted", "none")
  /\ ran' = IF k \in GatedKey THEN ran \cup {k} ELSE ran

\* A brief stands in for a grant where nobody was asked or has answered.
GoUnderBrief(k) ==
  /\ k \in EnvelopeKey /\ answer[k] = "none"
  /\ ran' = ran \cup {k}
  /\ UNCHANGED answer

\* Questions and grants lapse, several at a time; denials do not.
Lapse ==
  /\ UNCHANGED ran
  /\ DOMAIN answer' = Key
  /\ \A k \in Key :
       \/ answer'[k] = answer[k]
       \/ answer[k] \in {"waiting", "granted"} /\ answer'[k] = "none"

Next ==
  \/ Lapse
  \/ \E k \in Key :
       \/ Ask(k) \/ Grant(k) \/ Refuse(k) \/ Reopen(k)
       \/ GoAhead(k) \/ GoUnderBrief(k)

Spec == Init /\ [][Next]_vars
=============================================================================
