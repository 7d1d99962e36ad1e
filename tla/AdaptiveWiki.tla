----------------------------- MODULE AdaptiveWiki -----------------------------
(***************************************************************************)
(* The adaptive wiki: candidates that operators promote to entries or      *)
(* reject, the entries' later changes, the audit log and the promotion     *)
(* receipts, the review queue with its decisions, and the projection of    *)
(* entries into the context of a run under an acknowledged strict policy.  *)
(*                                                                         *)
(* Every store operation holds the wiki's lock, and a file is replaced by  *)
(* a rename.  A command is several of them: it takes its time (`now') and  *)
(* looks, changes, and writes its audit line, and others come in between.  *)
(* Scope is "session" or "wide" (the project, artifact kind or everyone).  *)
(***************************************************************************)
EXTENDS Naturals, Sequences, FiniteSets, SequencesExt

CONSTANTS
  Claim,          \* what a candidate says
  Degree,         \* how candidates are recorded: the confidence, and with evidence or not
  Operator,       \* who may run commands at the same time
  Existing,       \* candidates promoted, with their horizon, before the start
  Waiting,        \* candidates on file at the start
  MaxCandidates,  \* bound: candidates ever recorded
  MaxCount,       \* bound: times one claim is recorded
  MaxEntries,     \* bound: entries ever promoted
  MaxCommands,    \* bound: commands ever begun
  MaxDecisions,   \* bound: decisions after which no other is begun
  MaxSelected,    \* the projection's entry budget
  MaxAcks,        \* bound: acknowledgements in force
  AckQuery,       \* bound: the queries acknowledgements are given for
  MaxCuts         \* bound: changes whose command dies before its audit line

Confidence == {"inferred", "explicit"}  \* "repeated" is as good as explicit here

ASSUME BoundAssumption ==
  /\ Degree \subseteq Confidence \X BOOLEAN
  /\ AckQuery \subseteq {"exact", "broad"}
  /\ {MaxCandidates, MaxCount, MaxEntries, MaxCommands, MaxDecisions, MaxSelected,
      MaxAcks, MaxCuts} \subseteq Nat
  /\ Existing \in 0..MaxEntries
  /\ Waiting \in Nat /\ Existing + Waiting <= MaxCandidates
  /\ Waiting <= Cardinality(Claim)

Candidate == 1..MaxCandidates
Time == 0..MaxCommands
Scope == {"session", "wide"}
Edits == {"rescope", "deprecate", "counterexample", "renew", "edit"}

VARIABLES
  candidates,  \* the candidate file
  entries,     \* the entry file, in the order of promotion
  audit,       \* the audit log
  receipts,    \* entries with a promotion receipt
  decisions,   \* the review proposal events
  acks,        \* the acknowledgements of the strict policy in force
  ops,         \* per operator, the command under way
  clock,       \* the time the last command took
  recorded,    \* candidates recorded so far
  changes,     \* history: what was changed, to be in the audit log
  cut,         \* history: changes whose command died before its audit line
  halved,      \* history: entries whose promotion died before the candidate went
  contended    \* history: last changed by a command that others overtook

files == <<candidates, entries, audit, receipts, decisions, acks>>
history == <<changes, cut, halved, contended>>
vars == <<files, ops, clock, recorded, history>>

Idle == [kind |-> "none", on |-> 0, arg |-> "none", now |-> 0, step |-> "begin"]
Free(o) == ops[o] = Idle
At(o, step) == ops[o].step = step
To(o, step) == ops' = [ops EXCEPT ![o].step = step]
Done(o) == ops' = [ops EXCEPT ![o] = Idle]
Ticked == clock < MaxCommands /\ clock' = clock + 1

\* A line of the audit log, and the change it is about.
Line(action, on, now) == [action |-> action, on |-> on, at |-> now]
Made(o, on) == Line(ops[o].kind, on, ops[o].now)

-----------------------------------------------------------------------------
(* The review queue: build_review_proposals.  A proposal is known by its    *)
(* action and its subject, whatever the grounds.                            *)

Proposal(action, kind, id) == [action |-> action, subject |-> <<kind, id>>]
Promoted == {e \in DOMAIN entries : entries[e].promoted}
Audited(e) == \E a \in audit : a.action = "promote" /\ a.on = e
Duplicates(e) ==
  {d \in Promoted : d > e /\ entries[d].claim = entries[e].claim
                          /\ entries[d].scope = entries[e].scope}

\* An entry is to be renewed when its horizon is reached, when it was inferred,
\* or when its promotion has no audit line.
Renewable(e) == entries[e].review = "due" \/ entries[e].confidence = "inferred" \/ ~Audited(e)
Proposals ==
  {Proposal("promote", "candidate", c.id) :
     c \in {d \in candidates : d.count >= 2 /\ d.evidence /\ d.confidence = "explicit"}}
  \cup {Proposal("renew", "entry", e) : e \in {f \in Promoted : Renewable(f)}}
  \cup {Proposal("deprecate", "entry", e) : e \in {f \in Promoted : ~entries[f].evidence}}
  \cup {Proposal("split", "entry", e) : e \in {f \in Promoted : entries[f].contested}}
  \cup {Proposal("merge", "entry", e) : e \in {f \in Promoted : Duplicates(f) # {}}}

CandidateOf(id) == CHOOSE c \in candidates : c.id = id
SubjectUpdated(p) ==
  IF p.subject[1] = "candidate" THEN CandidateOf(p.subject[2]).updated
  ELSE entries[p.subject[2]].updated
\* The times of the evidence refs that name a record.
EvidenceTimes(p) ==
  IF p.action # "merge" THEN {}
  ELSE {entries[d].updated : d \in Duplicates(p.subject[2])}

DecisionsOn(p) == {d \in decisions : d.on = p}
Latest(p) == CHOOSE d \in DecisionsOn(p) : \A x \in DecisionsOn(p) : x.at <= d.at
\* Mutant: only a record the proposal names as evidence makes it stale.
Stale_EvidenceOnly(p) == \E t \in EvidenceTimes(p) : t > Latest(p).at

\* stale_review_evidence_refs is not empty.
Stale(p) ==
  \/ SubjectUpdated(p) > Latest(p).at
  \/ \E t \in EvidenceTimes(p) : t > Latest(p).at

\* review_proposal_is_decided: not in the active queue.
Hidden(p) == DecisionsOn(p) # {} /\ ~Stale(p)

\* The subject whoever decides can look at.
Content(p) ==
  IF p.subject[1] = "candidate"
  THEN LET c == CandidateOf(p.subject[2]) IN <<c.count, c.confidence, c.evidence>>
  ELSE LET e == entries[p.subject[2]]
       IN  <<e.promoted, e.scope, e.contested, e.text, e.evidence>>
\* push_review_proposal keeps the first proposal with an id and drops the rest,
\* so only the first ground to renew an entry is shown.
FirstGround(e) ==
  IF entries[e].review = "due" THEN "due"
  ELSE IF entries[e].confidence = "inferred" THEN "inferred" ELSE "no audit line"
Grounds(p) ==
  CASE p.action = "renew" -> {FirstGround(p.subject[2])}
    [] p.action = "merge" -> {ToString(d) : d \in Duplicates(p.subject[2])}
    [] OTHER -> {}

-----------------------------------------------------------------------------
(* Projection under a query: the run's own ("exact"), or that without its   *)
(* session ("broad").                                                       *)

Matching(q) == {e \in Promoted : entries[e].scope = "wide" \/ q = "exact"}
Due(q) == {e \in Matching(q) : entries[e].review = "due"}
\* projection_order: session knowledge first, then by confidence and evidence,
\* then what changed last.
Before(a, b) ==
  LET x == entries[a]  y == entries[b] IN
  IF x.scope # y.scope THEN x.scope = "session"
  ELSE IF x.confidence # y.confidence THEN x.confidence = "explicit"
  ELSE IF x.evidence # y.evidence THEN x.evidence
  ELSE IF x.updated # y.updated THEN x.updated > y.updated
  ELSE a < b
Selected(q, policy) ==
  LET ids == IF policy = "strict" THEN Matching(q) \ Due(q) ELSE Matching(q)
      ordered == SetToSortSeq(ids, Before)
  IN  SubSeq(ordered, 1, IF Len(ordered) > MaxSelected THEN MaxSelected ELSE Len(ordered))

\* Mutant: the fingerprint is of what the strict policy selects.
Fingerprint_StrictOnly(q) == [query |-> q, strict |-> Selected(q, "strict")]

\* runtime_policy_comparison_hash.
Fingerprint(q) ==
  [query |-> q, warn |-> Selected(q, "warn"), strict |-> Selected(q, "strict"),
   excluded |-> Due(q)]

Live(q) == \E a \in acks : a.query = q /\ a.print = Fingerprint(q)
SessionKnowledge == \E e \in Matching("exact") : entries[e].scope = "session"

BroadApplies == Live("broad") /\ ~SessionKnowledge

\* runtime_projection_with_policy_acknowledgement: what is projected when the
\* strict policy is asked for.  NoReport when nobody acknowledged it.
NoReport == <<0>>
Resolution ==
  IF Live("exact") THEN Selected("exact", "strict")
  ELSE IF BroadApplies THEN Selected("broad", "strict")
  ELSE NoReport

-----------------------------------------------------------------------------
NewEntry(c, now) ==
  [from |-> c.id, claim |-> c.claim, scope |-> "wide", promoted |-> TRUE,
   contested |-> FALSE, text |-> "recorded", confidence |-> c.confidence,
   evidence |-> c.evidence, review |-> "none", updated |-> now]

NewCandidate(id, claim, degree, now) ==
  [id |-> id, claim |-> claim, count |-> 1, confidence |-> degree[1],
   evidence |-> degree[2], updated |-> now]

Init ==
  /\ \E claims \in [1..Existing -> Claim], degrees \in [1..Existing -> Degree] :
       entries = [e \in 1..Existing |->
         [NewEntry(NewCandidate(e, claims[e], degrees[e], 0), 0) EXCEPT !.review = "ahead"]]
  /\ \E claims \in [1..Waiting -> Claim], degrees \in [1..Waiting -> Degree] :
       /\ IsInjective(claims)
       /\ candidates = {NewCandidate(Existing + i, claims[i], degrees[i], 0) : i \in 1..Waiting}
  /\ audit = {Line("promote", e, 0) : e \in 1..Existing} /\ receipts = 1..Existing
  /\ decisions = {} /\ acks = {}
  /\ ops = [o \in Operator |-> Idle] /\ clock = 0 /\ recorded = Existing + Waiting
  /\ changes = audit /\ cut = {} /\ halved = {} /\ contended = {}

\* Others have begun since this command took its time.
Noted(o, subject) ==
  contended' = IF clock # ops[o].now THEN contended \cup {subject} ELSE contended \ {subject}

Begin(o, kind, on, arg) ==
  /\ Free(o) /\ Ticked
  /\ ops' = [ops EXCEPT ![o] =
       [kind |-> kind, on |-> on, arg |-> arg, now |-> clock + 1, step |-> "change"]]
  /\ UNCHANGED <<files, recorded, history>>

\* record-candidate, a denial, or a learning scan takes its time.
BeginRecord(o) == Begin(o, "record", 0, "none")

\* Mutant: a claim that is on file already is recorded again.
RecordCandidate_Again(o, claim, degree) ==
  LET id == recorded + 1 IN
  /\ At(o, "change") /\ ops[o].kind = "record" /\ id <= MaxCandidates
  /\ candidates' = candidates \cup {NewCandidate(id, claim, degree, ops[o].now)}
  /\ recorded' = id /\ Noted(o, <<"candidate", id>>) /\ Done(o)
  /\ UNCHANGED <<entries, audit, receipts, decisions, acks, clock, changes, cut, halved>>

\* record_candidate: the same claim again is one more occurrence.  A learning
\* scan records one candidate after the other with the time it began at.
RecordCandidate(o, claim, degree) ==
  LET now == ops[o].now  id == recorded + 1 IN
  /\ At(o, "change") /\ ops[o].kind = "record"
  /\ \/ \E c \in candidates :
          /\ c.claim = claim /\ c.count < MaxCount
          /\ candidates' = (candidates \ {c}) \cup
               {[c EXCEPT !.count = @ + 1, !.confidence = degree[1],
                          !.evidence = @ \/ degree[2], !.updated = now]}
          /\ Noted(o, <<"candidate", c.id>>)
          /\ UNCHANGED recorded
     \/ /\ \A c \in candidates : c.claim # claim
        /\ id <= MaxCandidates
        /\ candidates' = candidates \cup {NewCandidate(id, claim, degree, now)}
        /\ Noted(o, <<"candidate", id>>)
        /\ recorded' = id
  /\ Done(o) \/ UNCHANGED ops
  /\ UNCHANGED <<entries, audit, receipts, decisions, acks, clock, changes, cut, halved>>

\* wiki_promote, with a review horizon unless it was asked for none.
BeginPromote(o, horizon) ==
  /\ Len(entries) < MaxEntries
  /\ \E c \in candidates : Begin(o, "promote", c.id, IF horizon THEN "horizon" ELSE "none")

\* Mutant: the candidate that was found before the lock was taken is promoted.
PromoteChange_NotFoundAgain(o) ==
  LET e == Len(entries) + 1 IN
  /\ At(o, "change") /\ ops[o].kind = "promote" /\ e <= MaxEntries
  /\ entries' = Append(entries,
       NewEntry(NewCandidate(ops[o].on, CHOOSE c \in Claim : TRUE, <<"explicit", TRUE>>, 0),
                ops[o].now))
  /\ candidates' = {c \in candidates : c.id # ops[o].on}
  /\ changes' = changes \cup {Line("promote", e, ops[o].now)}
  /\ Noted(o, <<"entry", e>>)
  /\ ops' = [ops EXCEPT ![o].on = e,
                        ![o].step = IF ops[o].arg = "none" THEN "audit" ELSE "horizon"]
  /\ UNCHANGED <<audit, receipts, decisions, acks, clock, recorded, cut, halved>>

\* promote_candidate_scoped_with_agent_modes: entries are written first, then
\* the candidates.  The candidate may be gone by now.
PromoteChange(o) ==
  LET e == Len(entries) + 1 IN
  /\ At(o, "change") /\ ops[o].kind = "promote"
  /\ IF \A c \in candidates : c.id # ops[o].on
     THEN Done(o) /\ UNCHANGED <<files, history>>
     ELSE /\ e <= MaxEntries
          /\ entries' = Append(entries, NewEntry(CandidateOf(ops[o].on), ops[o].now))
          /\ changes' = changes \cup {Line("promote", e, ops[o].now)}
          /\ Noted(o, <<"entry", e>>)
          /\ \/ /\ candidates' = {c \in candidates : c.id # ops[o].on}
                /\ ops' = [ops EXCEPT ![o].on = e,
                             ![o].step = IF ops[o].arg = "none" THEN "audit" ELSE "horizon"]
                /\ UNCHANGED <<cut, halved>>
             \/ /\ Cardinality(cut) < MaxCuts /\ Done(o)
                /\ halved' = halved \cup {e}
                /\ cut' = cut \cup {Line("promote", e, ops[o].now)}
                /\ UNCHANGED candidates
          /\ UNCHANGED <<audit, receipts, decisions, acks>>
  /\ UNCHANGED <<clock, recorded>>

\* Every promotion carries a review horizon.
PromoteHorizon(o) ==
  /\ At(o, "horizon")
  /\ entries' = [entries EXCEPT ![ops[o].on].review = "ahead",
                                ![ops[o].on].updated = ops[o].now]
  /\ Noted(o, <<"entry", ops[o].on>>)
  /\ To(o, "audit")
  /\ UNCHANGED <<candidates, audit, receipts, decisions, acks, clock, recorded,
                 changes, cut, halved>>

BeginReject(o) == \E c \in candidates : Begin(o, "reject", c.id, "none")

\* reject_candidate.
RejectChange(o) ==
  /\ At(o, "change") /\ ops[o].kind = "reject"
  /\ IF \A c \in candidates : c.id # ops[o].on
     THEN Done(o) /\ UNCHANGED <<candidates, changes>>
     ELSE /\ candidates' = {c \in candidates : c.id # ops[o].on}
          /\ changes' = changes \cup {Made(o, ops[o].on)}
          /\ To(o, "audit")
  /\ UNCHANGED <<entries, audit, receipts, decisions, acks, clock, recorded, cut,
                 halved, contended>>

\* A further reference for an entry that has evidence is as good as an edit of
\* its text.
BeginEdit(o, kind) ==
  \E e \in DOMAIN entries :
    CASE kind = "rescope" -> \E s \in Scope \ {entries[e].scope} : Begin(o, kind, e, s)
      [] kind = "edit" -> \E what \in {"text", "evidence"} :
           (what = "evidence" => ~entries[e].evidence) /\ Begin(o, kind, e, what)
      [] OTHER -> Begin(o, kind, e, "none")

\* rescope_entry, deprecate_entry, add_counterexample, renew_review_after,
\* edit_entry, of a promoted or a deprecated entry alike.
Edited(entry, kind, arg) ==
  CASE kind = "rescope" -> [entry EXCEPT !.scope = arg]
    [] kind = "deprecate" -> [entry EXCEPT !.promoted = FALSE]
    [] kind = "counterexample" -> [entry EXCEPT !.contested = TRUE]
    [] kind = "renew" -> [entry EXCEPT !.review = "ahead"]
    [] kind = "edit" -> IF arg = "evidence" THEN [entry EXCEPT !.evidence = TRUE]
                        ELSE [entry EXCEPT !.text = "edited"]
EditChange(o) ==
  LET e == ops[o].on IN
  /\ At(o, "change") /\ ops[o].kind \in Edits
  /\ entries' = [entries EXCEPT ![e] =
       [Edited(@, ops[o].kind, ops[o].arg) EXCEPT !.updated = ops[o].now]]
  /\ changes' = changes \cup {Made(o, e)}
  /\ Noted(o, <<"entry", e>>)
  /\ To(o, "audit")
  /\ UNCHANGED <<candidates, audit, receipts, decisions, acks, clock, recorded, cut,
                 halved>>

\* Mutant: a promotion's line comes with its receipt only.
WriteAudit_NotPromotions(o) ==
  /\ At(o, "audit")
  /\ audit' = IF ops[o].kind = "promote" THEN audit ELSE audit \cup {Made(o, ops[o].on)}
  /\ IF ops[o].kind = "promote" THEN To(o, "receipt") ELSE Done(o)
  /\ UNCHANGED <<candidates, entries, receipts, decisions, acks, clock, recorded,
                 history>>

\* append_audit.
WriteAudit(o) ==
  /\ At(o, "audit")
  /\ audit' = audit \cup {Made(o, ops[o].on)}
  /\ IF ops[o].kind = "promote" THEN To(o, "receipt") ELSE Done(o)
  /\ UNCHANGED <<candidates, entries, receipts, decisions, acks, clock, recorded,
                 history>>

\* write_promotion_receipt.
WriteReceipt(o) ==
  /\ At(o, "receipt")
  /\ receipts' = receipts \cup {ops[o].on}
  /\ Done(o)
  /\ UNCHANGED <<candidates, entries, audit, decisions, acks, clock, recorded,
                 history>>

\* What whoever decides has seen; nothing, when the event is recorded by hand.
Look(p) == <<Content(p), Grounds(p)>>
ByHand == <<>>
MayDecide(o) == Free(o) /\ Cardinality(decisions) < MaxDecisions
BeginDecision(o, p, saw) ==
  /\ Ticked
  /\ ops' = [ops EXCEPT ![o] =
       [kind |-> "close", on |-> p, arg |-> saw, now |-> clock + 1, step |-> "append"]]
  /\ UNCHANGED <<files, recorded, history>>

\* wiki_close_proposal looks at the queue; a decided proposal needs --allow-decided.
BeginClose(o, allowDecided) ==
  /\ MayDecide(o)
  /\ \E p \in Proposals : (allowDecided \/ ~Hidden(p)) /\ BeginDecision(o, p, Look(p))

\* wiki_record_proposal_event takes the proposal's id as it is given.
BeginByHand(o) == MayDecide(o) /\ \E p \in Proposals : BeginDecision(o, p, ByHand)

\* append_review_proposal_event.
AppendDecision(o) ==
  /\ At(o, "append")
  /\ decisions' = decisions \cup {[on |-> ops[o].on, at |-> ops[o].now, saw |-> ops[o].arg]}
  /\ Done(o)
  /\ UNCHANGED <<candidates, entries, audit, receipts, acks, clock, recorded, history>>

\* The command is killed after its first write.  Unless only the receipt was
\* to come, what it changed has no audit line.
Die(o) ==
  /\ Done(o)
  /\ \/ At(o, "receipt") /\ UNCHANGED cut
     \/ /\ At(o, "horizon") \/ At(o, "audit")
        /\ Cardinality(cut) < MaxCuts
        /\ cut' = cut \cup {Made(o, ops[o].on)}
  /\ UNCHANGED <<files, clock, recorded, changes, halved, contended>>

\* Time passes: the review horizon of an entry is reached.
FallDue(e) ==
  /\ entries[e].review = "ahead"
  /\ entries' = [entries EXCEPT ![e].review = "due"]
  /\ UNCHANGED <<candidates, audit, receipts, decisions, acks, ops, clock, recorded,
                 history>>

\* acknowledge_runtime_strict_review_expired_policy; `shown' is what the
\* operator is told the strict policy leaves out.
Acknowledge(q) ==
  /\ Cardinality(acks) < MaxAcks
  /\ acks' = acks \cup {[query |-> q, print |-> Fingerprint(q), shown |-> Due(q)]}
  /\ UNCHANGED <<candidates, entries, audit, receipts, decisions, ops, clock, recorded,
                 history>>
\* An acknowledgement runs out.
AckExpires ==
  /\ \E a \in acks : acks' = acks \ {a}
  /\ UNCHANGED <<candidates, entries, audit, receipts, decisions, ops, clock, recorded,
                 history>>

Next ==
  \/ \E o \in Operator :
       \/ BeginRecord(o)
       \/ \E claim \in Claim, degree \in Degree : RecordCandidate(o, claim, degree)
       \/ BeginByHand(o)
       \/ \E b \in BOOLEAN : BeginPromote(o, b) \/ BeginClose(o, b)
       \/ PromoteChange(o) \/ PromoteHorizon(o) \/ BeginReject(o) \/ RejectChange(o)
       \/ \E kind \in Edits : BeginEdit(o, kind)
       \/ EditChange(o) \/ WriteAudit(o) \/ WriteReceipt(o) \/ AppendDecision(o) \/ Die(o)
  \/ \E e \in DOMAIN entries : FallDue(e)
  \/ \E q \in AckQuery : Acknowledge(q)
  \/ AckExpires

Spec == Init /\ [][Next]_vars

-----------------------------------------------------------------------------
(* Properties.                                                              *)

UnderWay == {Made(o, ops[o].on) : o \in {x \in Operator : At(x, "horizon") \/ At(x, "audit")}}
EntryRecord ==
  [from : Candidate, claim : Claim, scope : Scope, promoted : BOOLEAN, contested : BOOLEAN,
   text : {"recorded", "edited"}, confidence : Confidence, evidence : BOOLEAN,
   review : {"none", "ahead", "due"}, updated : Time]
CandidateRecord ==
  [id : Candidate, claim : Claim, count : Nat \ {0}, confidence : Confidence,
   evidence : BOOLEAN, updated : Time]

\* The files have the shapes the code gives them, and no two candidates make
\* the same claim.
TypeOK ==
  /\ candidates \subseteq CandidateRecord
  /\ \A c, d \in candidates : c.claim = d.claim => c = d
  /\ entries \in Seq(EntryRecord) /\ Len(entries) <= MaxEntries
  /\ receipts \subseteq DOMAIN entries
  /\ \A d \in decisions : d.at \in Time
  /\ \A o \in Operator :
       ops[o].step \in {"begin", "change", "horizon", "audit", "receipt", "append"}
  /\ clock \in Time /\ recorded \in 0..MaxCandidates

\* A candidate has one fate: it waits, or was rejected once, or promoted once,
\* whoever else was at it.  Only a promotion that died after it wrote the
\* entry and before it removed the candidate leaves one more.
OneFate ==
  \A c \in 1..recorded :
    Cardinality({e \in DOMAIN entries \ halved : entries[e].from = c})
      + Cardinality({d \in candidates : d.id = c})
      + Cardinality({x \in changes : x.action = "reject" /\ x.on = c}) = 1

\* The audit log has a line for every change and no other line, except for the
\* changes of commands that are under way or died; a receipt is never ahead of
\* its line.
AuditIsTrue ==
  /\ audit \subseteq changes
  /\ changes \subseteq audit \cup cut \cup UnderWay
  /\ \A e \in receipts : Audited(e)

\* A proposal that is out of the queue was decided by hand, or by someone who
\* saw its subject as it is and the grounds the queue would show now.  Two
\* exceptions the code has: a change by a command that was overtaken carries an
\* earlier time than the decision; and a horizon that is reached after the
\* decision changes no time, so a decision on another ground for renewal hides
\* it.  (A ground behind the first is shown to nobody, see FirstGround.)
HiddenWasSeen ==
  \A p \in Proposals :
    Hidden(p) =>
      \/ Latest(p).saw = ByHand
      \/ p.subject \in contended
      \/ p.action = "merge" /\ \E d \in Duplicates(p.subject[2]) : <<"entry", d>> \in contended
      \/ /\ Latest(p).saw[1] = Content(p)
         /\ \/ Grounds(p) \subseteq Latest(p).saw[2]
            \/ p.action = "renew" /\ Grounds(p) = {"due"}

\* The strict policy is in force only while all it leaves out was shown to the
\* operator who acknowledged it.
LeavesOutWhatWasShown ==
  Resolution # NoReport => \E a \in acks : Due("exact") \subseteq a.shown
=============================================================================
