-------------------------- MODULE AdaptiveWikiProofs --------------------------
(***************************************************************************)
(* What AdaptiveWiki guarantees for every number of claims, operators and  *)
(* commands.                                                               *)
(*                                                                         *)
(* A command is several operations on the store, so the argument follows   *)
(* the commands under way: what each has changed is in `changes' before    *)
(* its audit line is written, and the record it is about to look up may be *)
(* gone by then.  Every candidate id has exactly one of three fates.       *)
(***************************************************************************)
EXTENDS AdaptiveWiki, FiniteSetTheorems, SequenceTheorems, TLAPS

Fields(x) ==
  x = [kind |-> x.kind, on |-> x.on, arg |-> x.arg, now |-> x.now, step |-> x.step]

\* A command under way: it has taken its time; its subject is an id while it
\* looks for the candidate and an entry once it has one.
CommandOK(x) ==
  /\ Fields(x) /\ x.now \in Time
  /\ \/ x = Idle
     \/ x.kind = "record" /\ x.step = "change"
     \/ x.kind = "promote" /\ x.step = "change" /\ x.on \in 1..recorded
     \/ x.kind = "promote" /\ x.step \in {"horizon", "audit", "receipt"} /\ x.on \in DOMAIN entries
     \/ x.kind = "reject" /\ x.step \in {"change", "audit"} /\ x.on \in 1..recorded
     \/ /\ x.kind \in Edits /\ x.step \in {"change", "audit"} /\ x.on \in DOMAIN entries
        /\ x.kind = "rescope" => x.arg \in Scope
     \/ x.kind = "close" /\ x.step = "append"

StoreOK ==
  /\ candidates \subseteq CandidateRecord
  /\ \A c, d \in candidates : c.claim = d.claim => c = d
  /\ entries \in Seq(EntryRecord) /\ Len(entries) <= MaxEntries
  /\ receipts \subseteq DOMAIN entries /\ halved \subseteq DOMAIN entries
  /\ \A d \in decisions : d.at \in Time
  /\ clock \in Time /\ recorded \in 0..MaxCandidates
OpsOK == ops = [o \in Operator |-> ops[o]] /\ \A o \in Operator : CommandOK(ops[o])

\* No record, no entry and no rejection is of an id not yet given.
Given ==
  /\ \A c \in candidates : c.id <= recorded
  /\ \A e \in DOMAIN entries : entries[e].from \in 1..recorded
  /\ \A x \in changes : x.action = "reject" => x.on \in 1..recorded

\* Exactly one fate, as sets.
FromOf(c) == {e \in DOMAIN entries \ halved : entries[e].from = c}
WaitsAs(c) == {d \in candidates : d.id = c}
RejectsOf(c) == {x \in changes : x.action = "reject" /\ x.on = c}
Single(S) == \E x \in S : S = {x}
Fate(c) ==
  \/ Single(FromOf(c)) /\ WaitsAs(c) = {} /\ RejectsOf(c) = {}
  \/ FromOf(c) = {} /\ Single(WaitsAs(c)) /\ RejectsOf(c) = {}
  \/ FromOf(c) = {} /\ WaitsAs(c) = {} /\ Single(RejectsOf(c))
Fates == \A c \in 1..recorded : Fate(c)

\* What a command has changed is noted before its line is written, and its
\* receipt comes after its line.
Unwritten(x) == x.step \in {"horizon", "audit"}
LineOf(x) == Line(x.kind, x.on, x.now)
Noting ==
  /\ audit \subseteq changes
  /\ \A o \in Operator : Unwritten(ops[o]) => LineOf(ops[o]) \in changes
  /\ \A x \in changes :
       x \in audit \cup cut \/ \E o \in Operator : Unwritten(ops[o]) /\ LineOf(ops[o]) = x
  /\ \A o \in Operator : ops[o].step = "receipt" => LineOf(ops[o]) \in audit
  /\ \A e \in receipts : Audited(e)

\* An acknowledgement keeps what was shown when it was given.
Shown == \A a \in acks : a.shown = a.print.excluded

WInv == StoreOK /\ OpsOK /\ Given /\ Fates /\ Noting /\ Shown

\* What was seen of a proposal: by those who decided, and by those about to.
ViewOf(x) == [on |-> x.on, at |-> x.now, saw |-> x.arg]
Closing == {o \in Operator : ops[o].kind = "close"}
Views == decisions \cup {ViewOf(ops[o]) : o \in Closing}

\* No two commands have the same time, and none has a time yet to come.
Busy(x) == x.kind # "none"
Timely ==
  /\ \A o \in Operator : Busy(ops[o]) => ops[o].now <= clock
  /\ \A o, x \in Operator : o # x /\ Busy(ops[o]) /\ Busy(ops[x]) => ops[o].now # ops[x].now
  /\ \A d \in decisions :
       d.at <= clock /\ \A o \in Operator : Busy(ops[o]) => ops[o].now # d.at

Subjects ==
  \A v \in Views :
    \/ \E c \in 1..recorded : v.on.subject = <<"candidate", c>>
    \/ \E e \in DOMAIN entries : v.on.subject = <<"entry", e>>

\* Who looked after the last change saw what there is, unless that change came
\* from a command that others had overtaken, or who decided did not look.
Settled(e, time) == entries[e].updated <= time /\ <<"entry", e>> \notin contended
CandidateContent(c) == <<c.count, c.confidence, c.evidence>>
SawCandidate ==
  \A v \in Views, c \in candidates :
    v.on.subject = <<"candidate", c.id>> /\ v.saw # ByHand
        /\ c.updated <= v.at /\ <<"candidate", c.id>> \notin contended
      => v.saw[1] = CandidateContent(c)
EntryContent(x) == <<x.promoted, x.scope, x.contested, x.text, x.evidence>>
SawEntry ==
  \A v \in Views, e \in DOMAIN entries :
    v.on.subject = <<"entry", e>> /\ v.saw # ByHand /\ Settled(e, v.at)
      => v.saw[1] = EntryContent(entries[e])
\* Confidence is settled by the promotion, so the first ground to renew an entry
\* changes only when its horizon is reached.
SawRenewal ==
  \A v \in Views, e \in DOMAIN entries :
    v.on.subject = <<"entry", e>> /\ v.on.action = "renew" /\ v.saw # ByHand
        /\ Settled(e, v.at) /\ entries[e].review # "due"
      => v.saw[2] = {FirstGround(e)}
SawDuplicates ==
  \A v \in Views, e \in DOMAIN entries :
    v.on.subject = <<"entry", e>> /\ v.on.action = "merge" /\ v.saw # ByHand /\ Settled(e, v.at)
      => \A d \in Duplicates(e) : Settled(d, v.at) => ToString(d) \in v.saw[2]

\* Of the decisions on a proposal one is the last.
HasLast ==
  \A d \in decisions :
    \E m \in DecisionsOn(d.on) : \A x \in DecisionsOn(d.on) : x.at <= m.at

Saw == Timely /\ Subjects /\ SawCandidate /\ SawEntry /\ SawRenewal /\ SawDuplicates /\ HasLast

-----------------------------------------------------------------------------
\* What a step does to the command of its operator.

LEMMA SetFacts ==
  ASSUME OpsOK, NEW o \in Operator, NEW y, ops' = [ops EXCEPT ![o] = y]
  PROVE  /\ ops' = [x \in Operator |-> ops'[x]] /\ ops'[o] = y
         /\ \A x \in Operator : x # o => ops'[x] = ops[x]
BY DEF OpsOK

LEMMA IdleFacts ==
  /\ Idle.kind = "none" /\ Idle.step = "begin" /\ Idle.now = 0
  /\ Fields(Idle)
BY DEF Idle, Fields

LEMMA DoneFacts ==
  ASSUME OpsOK, NEW o \in Operator, Done(o)
  PROVE  /\ ops' = [x \in Operator |-> ops'[x]] /\ ops'[o] = Idle
         /\ \A x \in Operator : x # o => ops'[x] = ops[x]
BY SetFacts DEF Done

LEMMA ToFacts ==
  ASSUME OpsOK, NEW o \in Operator, NEW s, To(o, s)
  PROVE  /\ ops' = [x \in Operator |-> ops'[x]]
         /\ \A x \in Operator : x # o => ops'[x] = ops[x]
         /\ ops'[o] = [kind |-> ops[o].kind, on |-> ops[o].on, arg |-> ops[o].arg,
                       now |-> ops[o].now, step |-> s]
<1> DEFINE x == ops[o]
<1>1. x = [kind |-> x.kind, on |-> x.on, arg |-> x.arg, now |-> x.now, step |-> x.step]
    BY DEF OpsOK, CommandOK, Fields
<1>2. [x EXCEPT !.step = s] = [kind |-> x.kind, on |-> x.on, arg |-> x.arg, now |-> x.now,
                               step |-> s]
    BY <1>1
<1>3. ops' = [ops EXCEPT ![o] = [x EXCEPT !.step = s]]
    BY DEF To
<1> QED
    BY <1>2, <1>3, SetFacts

Entered(o) ==
  ops' = [ops EXCEPT ![o].on = Len(entries) + 1,
                     ![o].step = IF ops[o].arg = "none" THEN "audit" ELSE "horizon"]

LEMMA EnteredFacts ==
  ASSUME OpsOK, NEW o \in Operator, Entered(o)
  PROVE  /\ ops' = [x \in Operator |-> ops'[x]]
         /\ \A x \in Operator : x # o => ops'[x] = ops[x]
         /\ ops'[o] = [kind |-> ops[o].kind, on |-> Len(entries) + 1, arg |-> ops[o].arg,
                       now |-> ops[o].now,
                       step |-> IF ops[o].arg = "none" THEN "audit" ELSE "horizon"]
<1> DEFINE x == ops[o]
<1>1. PICK d, t : /\ d = Len(entries) + 1
                  /\ t = (IF x.arg = "none" THEN "audit" ELSE "horizon")
    OBVIOUS
<1>2. x = [kind |-> x.kind, on |-> x.on, arg |-> x.arg, now |-> x.now, step |-> x.step]
    BY DEF OpsOK, CommandOK, Fields
<1>3. PICK y : y = [x EXCEPT !.on = d]
    OBVIOUS
<1>4. y = [kind |-> x.kind, on |-> d, arg |-> x.arg, now |-> x.now, step |-> x.step]
    BY <1>2, <1>3
<1>5. [y EXCEPT !.step = t]
        = [kind |-> x.kind, on |-> d, arg |-> x.arg, now |-> x.now, step |-> t]
    BY <1>4
<1>6. ops' = [ops EXCEPT ![o].on = d, ![o].step = t]
    BY <1>1 DEF Entered
<1>7. ops' = [ops EXCEPT ![o] = [y EXCEPT !.step = t]]
    BY <1>3, <1>6 DEF OpsOK
<1> QED
    BY <1>1, <1>5, <1>7, SetFacts

LEMMA EditedFacts ==
  ASSUME NEW x \in EntryRecord, NEW kind \in Edits, NEW arg, kind = "rescope" => arg \in Scope,
         NEW now \in Time
  PROVE  /\ [Edited(x, kind, arg) EXCEPT !.updated = now] \in EntryRecord
         /\ [Edited(x, kind, arg) EXCEPT !.updated = now].from = x.from
         /\ [Edited(x, kind, arg) EXCEPT !.updated = now].updated = now
<1> DEFINE y == Edited(x, kind, arg)
<1>1. y \in EntryRecord /\ y.from = x.from
  <2>1. CASE kind = "rescope"
    <3>1. y = [x EXCEPT !.scope = arg]
        BY <2>1 DEF Edited
    <3> QED
        BY <2>1, <3>1 DEF EntryRecord
  <2>2. CASE kind = "deprecate"
    <3>1. y = [x EXCEPT !.promoted = FALSE]
        BY <2>2 DEF Edited
    <3> QED
        BY <3>1 DEF EntryRecord
  <2>3. CASE kind = "counterexample"
    <3>1. y = [x EXCEPT !.contested = TRUE]
        BY <2>3 DEF Edited
    <3> QED
        BY <3>1 DEF EntryRecord
  <2>4. CASE kind = "renew"
    <3>1. y = [x EXCEPT !.review = "ahead"]
        BY <2>4 DEF Edited
    <3> QED
        BY <3>1 DEF EntryRecord
  <2>5. CASE kind = "edit"
    <3>1. y = [x EXCEPT !.text = "edited"] \/ y = [x EXCEPT !.evidence = TRUE]
        BY <2>5 DEF Edited
    <3> QED
        BY <3>1 DEF EntryRecord
  <2> QED
      BY <2>1, <2>2, <2>3, <2>4, <2>5 DEF Edits
<1> HIDE DEF y
<1>2. /\ [y EXCEPT !.updated = now] \in EntryRecord
      /\ [y EXCEPT !.updated = now].from = y.from
      /\ [y EXCEPT !.updated = now].updated = now
    BY <1>1 DEF EntryRecord
<1> QED
    BY <1>1, <1>2 DEF y

LEMMA NewEntryFacts ==
  ASSUME NEW c, c.id \in Candidate, c.claim \in Claim, c.confidence \in Confidence,
         c.evidence \in BOOLEAN, NEW now \in Time
  PROVE  /\ NewEntry(c, now) \in EntryRecord /\ NewEntry(c, now).from = c.id
         /\ NewEntry(c, now).updated = now
BY DEF NewEntry, EntryRecord, Scope

LEMMA NewCandidateFacts ==
  ASSUME NEW id \in Candidate, NEW claim \in Claim, NEW degree \in Degree, NEW now \in Time
  PROVE  /\ NewCandidate(id, claim, degree, now) \in CandidateRecord
         /\ NewCandidate(id, claim, degree, now).id = id
         /\ NewCandidate(id, claim, degree, now).claim = claim
<1>1. degree[1] \in Confidence /\ degree[2] \in BOOLEAN
    BY BoundAssumption
<1> QED
    BY <1>1 DEF NewCandidate, CandidateRecord

-----------------------------------------------------------------------------
\* A command begins: it takes its time and changes nothing else.

Begins(o) ==
  /\ Free(o) /\ clock' = clock + 1 /\ clock' \in Time
  /\ UNCHANGED <<files, recorded, history>>
  /\ \E y : /\ CommandOK(y) /\ y.step \in {"change", "append"} /\ y.now = clock + 1
            /\ y.kind = "close" =>
                 \E p \in Proposals : y.on = p /\ y.arg \in {Look(p), ByHand}
            /\ ops' = [ops EXCEPT ![o] = y]

LEMMA BoundFacts ==
  /\ MaxCandidates \in Nat /\ MaxEntries \in Nat /\ MaxCommands \in Nat
  /\ Existing \in 0..MaxEntries /\ Waiting \in Nat /\ Existing + Waiting <= MaxCandidates
  /\ Degree \subseteq Confidence \X BOOLEAN
BY BoundAssumption

LEMMA BeginFacts ==
  ASSUME StoreOK, NEW o \in Operator, NEW kind, NEW on, NEW arg, Begin(o, kind, on, arg),
         \/ kind = "record"
         \/ kind = "promote" /\ on \in 1..recorded
         \/ kind = "reject" /\ on \in 1..recorded
         \/ /\ kind \in Edits /\ on \in DOMAIN entries
            /\ kind = "rescope" => arg \in Scope
  PROVE  Begins(o)
<1> DEFINE y == [kind |-> kind, on |-> on, arg |-> arg, now |-> clock + 1, step |-> "change"]
<1>1. clock' = clock + 1 /\ clock' \in Time /\ clock + 1 \in Time
    BY BoundFacts DEF Begin, Ticked, StoreOK, Time
<1>2. Fields(y) /\ y.now \in Time
    BY <1>1 DEF Fields
<1>3. CommandOK(y)
    BY <1>2 DEF CommandOK
<1>4. /\ y.step \in {"change", "append"} /\ ops' = [ops EXCEPT ![o] = y]
      /\ y.now = clock + 1 /\ y.kind # "close"
    BY DEF Begin, Edits
<1> HIDE DEF y
<1> QED
    BY <1>1, <1>3, <1>4 DEF Begin, Begins

LEMMA DecisionFacts ==
  ASSUME StoreOK, NEW o \in Operator, NEW p \in Proposals, NEW saw \in {Look(p), ByHand},
         MayDecide(o), BeginDecision(o, p, saw)
  PROVE  Begins(o)
<1> DEFINE y == [kind |-> "close", on |-> p, arg |-> saw, now |-> clock + 1, step |-> "append"]
<1>1. clock' = clock + 1 /\ clock' \in Time /\ clock + 1 \in Time
    BY BoundFacts DEF BeginDecision, Ticked, StoreOK, Time
<1>2. Fields(y) /\ y.now \in Time
    BY <1>1 DEF Fields
<1>3. CommandOK(y)
    BY <1>2 DEF CommandOK
<1>4. /\ y.step \in {"change", "append"} /\ ops' = [ops EXCEPT ![o] = y]
      /\ y.now = clock + 1 /\ y.on = p /\ y.arg = saw
    BY DEF BeginDecision
<1> HIDE DEF y
<1> QED
    BY <1>1, <1>3, <1>4 DEF MayDecide, BeginDecision, Begins

Records(o) == \E claim \in Claim, degree \in Degree : RecordCandidate(o, claim, degree)

LEMMA NextCases ==
  ASSUME StoreOK, Given, Next
  PROVE  \/ \E o \in Operator : Records(o)
         \/ \E o \in Operator :
              \/ Begins(o) \/ PromoteChange(o) \/ PromoteHorizon(o) \/ RejectChange(o)
              \/ EditChange(o) \/ WriteAudit(o) \/ WriteReceipt(o) \/ AppendDecision(o)
              \/ Die(o)
         \/ \E e \in DOMAIN entries : FallDue(e)
         \/ \E q \in AckQuery : Acknowledge(q)
         \/ AckExpires
<1>1. \A c \in candidates : c.id \in 1..recorded
    BY BoundFacts DEF StoreOK, Given, CandidateRecord, Candidate
<1>2. ASSUME NEW o \in Operator, NEW b \in BOOLEAN, BeginPromote(o, b)
      PROVE  Begins(o)
    BY <1>1, <1>2, BeginFacts DEF BeginPromote
<1>3. ASSUME NEW o \in Operator, BeginReject(o)
      PROVE  Begins(o)
    BY <1>1, <1>3, BeginFacts DEF BeginReject
<1>4. ASSUME NEW o \in Operator, NEW kind \in Edits, BeginEdit(o, kind)
      PROVE  Begins(o)
    BY <1>4, BeginFacts DEF BeginEdit
<1>5. ASSUME NEW o \in Operator, NEW b \in BOOLEAN, BeginClose(o, b) \/ BeginByHand(o)
      PROVE  Begins(o)
    BY <1>5, DecisionFacts DEF BeginClose, BeginByHand
<1>6. ASSUME NEW o \in Operator, BeginRecord(o)
      PROVE  Begins(o)
    BY <1>6, BeginFacts DEF BeginRecord
<1> QED
    BY <1>2, <1>3, <1>4, <1>5, <1>6 DEF Next, Records

\* What a promotion does, found or not.

LEMMA CandidateOfFacts ==
  ASSUME NEW id, \E c \in candidates : c.id = id
  PROVE  CandidateOf(id) \in candidates /\ CandidateOf(id).id = id
BY DEF CandidateOf

LEMMA EntriesFacts ==
  ASSUME StoreOK
  PROVE  /\ Len(entries) \in Nat /\ DOMAIN entries = 1..Len(entries)
         /\ \A e \in DOMAIN entries : entries[e] \in EntryRecord
BY LenProperties, ElementOfSeq DEF StoreOK

LEMMA PromoteFacts ==
  ASSUME StoreOK, OpsOK, NEW o \in Operator, PromoteChange(o)
  PROVE  \/ Done(o) /\ UNCHANGED <<files, history, clock, recorded>>
         \/ \E c \in candidates, r \in EntryRecord :
              /\ c.id = ops[o].on /\ r.from = c.id /\ r.updated = ops[o].now
              /\ Noted(o, <<"entry", Len(entries) + 1>>)
              /\ Len(entries) < MaxEntries /\ entries' = Append(entries, r)
              /\ changes' = changes \cup {Line("promote", Len(entries) + 1, ops[o].now)}
              /\ \/ /\ candidates' = {d \in candidates : d.id # ops[o].on}
                    /\ Entered(o) /\ UNCHANGED <<cut, halved>>
                 \/ /\ Done(o) /\ UNCHANGED candidates
                    /\ halved' = halved \cup {Len(entries) + 1}
                    /\ cut' = cut \cup {Line("promote", Len(entries) + 1, ops[o].now)}
              /\ UNCHANGED <<audit, receipts, decisions, acks, clock, recorded>>
<1>1. CASE \A c \in candidates : c.id # ops[o].on
    BY <1>1 DEF PromoteChange
<1>2. CASE \E c \in candidates : c.id = ops[o].on
  <2> DEFINE c == CandidateOf(ops[o].on)  r == NewEntry(c, ops[o].now)
  <2>1. c \in candidates /\ c.id = ops[o].on
      BY <1>2, CandidateOfFacts
  <2>2. ops[o].now \in Time
      BY DEF OpsOK, CommandOK
  <2>3. /\ c.id \in Candidate /\ c.claim \in Claim
        /\ c.confidence \in Confidence /\ c.evidence \in BOOLEAN
      BY <2>1 DEF StoreOK, CandidateRecord
  <2> HIDE DEF c
  <2>4. r \in EntryRecord /\ r.from = c.id /\ r.updated = ops[o].now
      BY <2>2, <2>3, NewEntryFacts
  <2> HIDE DEF r
  <2>5. Len(entries) < MaxEntries
      BY <1>2, EntriesFacts, BoundFacts DEF PromoteChange
  <2>6. entries' = Append(entries, r)
      BY <1>2 DEF PromoteChange, r, c
  <2> QED
      BY <1>2, <2>1, <2>4, <2>5, <2>6 DEF PromoteChange, Entered
<1> QED
    BY <1>1, <1>2

LEMMA EditFacts ==
  ASSUME StoreOK, OpsOK, NEW o \in Operator, EditChange(o)
  PROVE  \E r \in EntryRecord :
           /\ ops[o].on \in DOMAIN entries /\ r.from = entries[ops[o].on].from
           /\ r.updated = ops[o].now
           /\ entries' = [entries EXCEPT ![ops[o].on] = r]
<1> DEFINE x == ops[o]
           r == [Edited(entries[x.on], x.kind, x.arg) EXCEPT !.updated = x.now]
<1>1. /\ x.on \in DOMAIN entries /\ x.kind \in Edits /\ x.now \in Time
      /\ x.kind = "rescope" => x.arg \in Scope
    BY DEF OpsOK, CommandOK, EditChange, At, Idle, Edits
<1>2. entries[x.on] \in EntryRecord
    BY <1>1, EntriesFacts
<1>3. r \in EntryRecord /\ r.from = entries[x.on].from /\ r.updated = x.now
    BY <1>1, <1>2, EditedFacts
<1>4. entries' = [entries EXCEPT ![x.on] = r]
    BY DEF EditChange
<1> HIDE DEF r
<1> QED
    BY <1>1, <1>3, <1>4

LEMMA HorizonFacts ==
  ASSUME StoreOK, OpsOK, NEW o \in Operator, PromoteHorizon(o)
  PROVE  \E r \in EntryRecord :
           /\ ops[o].on \in DOMAIN entries /\ r.from = entries[ops[o].on].from
           /\ r.updated = ops[o].now
           /\ entries' = [entries EXCEPT ![ops[o].on] = r]
<1> DEFINE x == ops[o]
<1>1. x.on \in DOMAIN entries /\ x.now \in Time
    BY DEF OpsOK, CommandOK, PromoteHorizon, At, Idle
<1>2. entries[x.on] \in EntryRecord
    BY <1>1, EntriesFacts
<1>3. PICK y : y = [entries[x.on] EXCEPT !.review = "ahead"]
    OBVIOUS
<1>4. y \in EntryRecord /\ y.from = entries[x.on].from
    BY <1>2, <1>3 DEF EntryRecord
<1>5. PICK r : r = [y EXCEPT !.updated = x.now]
    OBVIOUS
<1>6. r \in EntryRecord /\ r.from = entries[x.on].from /\ r.updated = x.now
    BY <1>1, <1>4, <1>5 DEF EntryRecord
<1>7. entries' = [entries EXCEPT ![x.on] = r]
  <2>1. entries' = [entries EXCEPT ![x.on].review = "ahead", ![x.on].updated = x.now]
      BY DEF PromoteHorizon
  <2>2. [entries EXCEPT ![x.on].review = "ahead"] = [entries EXCEPT ![x.on] = y]
      BY <1>1, <1>3
  <2> QED
      BY <1>1, <1>3, <1>5, <2>1, <2>2
<1> QED
    BY <1>1, <1>6, <1>7

\* But for a horizon that is reached.
SameContent(r, s) ==
  /\ r.claim = s.claim /\ r.scope = s.scope /\ r.promoted = s.promoted
  /\ r.contested = s.contested /\ r.text = s.text /\ r.updated = s.updated
  /\ r.confidence = s.confidence /\ r.evidence = s.evidence
  /\ r.review = s.review \/ r.review = "due"

LEMMA DueFacts ==
  ASSUME StoreOK, NEW e \in DOMAIN entries, FallDue(e)
  PROVE  \E r \in EntryRecord :
           /\ r.from = entries[e].from /\ entries' = [entries EXCEPT ![e] = r]
           /\ SameContent(r, entries[e])
<1> DEFINE r == [entries[e] EXCEPT !.review = "due"]
<1>1. entries[e] \in EntryRecord
    BY EntriesFacts
<1>2. r \in EntryRecord /\ r.from = entries[e].from /\ SameContent(r, entries[e])
    BY <1>1 DEF EntryRecord, SameContent
<1>3. entries' = [entries EXCEPT ![e] = r]
    BY DEF FallDue
<1> HIDE DEF r
<1> QED
    BY <1>2, <1>3

\* Entries are changed where they stand, or one is appended.
LEMMA EntriesMove ==
  ASSUME StoreOK, OpsOK, Given, [Next]_vars
  PROVE  \/ UNCHANGED entries
         \/ \E e \in DOMAIN entries, r \in EntryRecord :
              r.from = entries[e].from /\ entries' = [entries EXCEPT ![e] = r]
         \/ \E r \in EntryRecord :
              Len(entries) < MaxEntries /\ entries' = Append(entries, r)
<1>1. CASE UNCHANGED vars
    BY <1>1 DEF vars, files
<1>2. CASE Next
  <2>1. ASSUME NEW o \in Operator, PromoteChange(o)
        PROVE  \/ UNCHANGED entries
               \/ \E r \in EntryRecord :
                    Len(entries) < MaxEntries /\ entries' = Append(entries, r)
      BY <2>1, PromoteFacts DEF files
  <2>2. ASSUME NEW o \in Operator, PromoteHorizon(o) \/ EditChange(o)
        PROVE  \E e \in DOMAIN entries, r \in EntryRecord :
                 r.from = entries[e].from /\ entries' = [entries EXCEPT ![e] = r]
      BY <2>2, HorizonFacts, EditFacts
  <2>3. ASSUME NEW o \in Operator,
               \/ Begins(o) \/ RejectChange(o) \/ WriteAudit(o) \/ WriteReceipt(o)
               \/ AppendDecision(o) \/ Die(o)
        PROVE  UNCHANGED entries
      BY <2>3 DEF Begins, RejectChange, WriteAudit, WriteReceipt, AppendDecision, Die, files
  <2>4. (\E o \in Operator : Records(o)) \/ AckExpires
          \/ (\E q \in AckQuery : Acknowledge(q)) => UNCHANGED entries
      BY DEF Records, RecordCandidate, AckExpires, Acknowledge
  <2> QED
      BY <1>2, <2>1, <2>2, <2>3, <2>4, NextCases, DueFacts
<1> QED
    BY <1>1, <1>2

LEMMA EntriesGrow ==
  ASSUME StoreOK, OpsOK, Given, [Next]_vars
  PROVE  /\ entries' \in Seq(EntryRecord) /\ Len(entries') <= MaxEntries
         /\ DOMAIN entries \subseteq DOMAIN entries'
         /\ \A e \in DOMAIN entries : entries'[e].from = entries[e].from
<1> USE EntriesFacts, BoundFacts
<1>1. CASE UNCHANGED entries
    BY <1>1 DEF StoreOK
<1>2. ASSUME NEW e \in DOMAIN entries, NEW r \in EntryRecord, r.from = entries[e].from,
             entries' = [entries EXCEPT ![e] = r]
      PROVE  /\ entries' \in Seq(EntryRecord) /\ Len(entries') <= MaxEntries
             /\ DOMAIN entries \subseteq DOMAIN entries'
             /\ \A d \in DOMAIN entries : entries'[d].from = entries[d].from
    BY <1>2, ExceptSeq DEF StoreOK
<1>3. ASSUME NEW r \in EntryRecord, Len(entries) < MaxEntries, entries' = Append(entries, r)
      PROVE  /\ entries' \in Seq(EntryRecord) /\ Len(entries') <= MaxEntries
             /\ DOMAIN entries \subseteq DOMAIN entries'
             /\ \A d \in DOMAIN entries : entries'[d].from = entries[d].from
    BY <1>3, AppendProperties DEF StoreOK
<1> QED
    BY <1>1, <1>2, <1>3, EntriesMove

\* The marks of one kind of subject do not change when another is noted.
SameMarks(kind) == \A k : <<kind, k>> \in contended' <=> <<kind, k>> \in contended

LEMMA OtherMarks ==
  ASSUME NEW o, NEW k, NEW kind, NEW other, kind # other, Noted(o, <<kind, k>>)
  PROVE  SameMarks(other)
BY DEF Noted, SameMarks

\* A claim that is on file is counted once more; a new one gets the next id;
\* otherwise candidates only go.  What is recorded has its command's time.
Recounted ==
  \E o \in Operator, c \in candidates, d \in CandidateRecord :
    /\ ops[o].kind = "record" /\ Noted(o, <<"candidate", c.id>>)
    /\ d.id = c.id /\ d.claim = c.claim /\ d.updated = ops[o].now
    /\ candidates' = (candidates \ {c}) \cup {d} /\ UNCHANGED recorded
NewOnFile ==
  \E o \in Operator, d \in CandidateRecord :
    /\ ops[o].kind = "record" /\ Noted(o, <<"candidate", d.id>>)
    /\ d.id = recorded + 1 /\ \A c \in candidates : c.claim # d.claim
    /\ candidates' = candidates \cup {d}
    /\ recorded < MaxCandidates /\ recorded' = recorded + 1
OnlyGo == candidates' \subseteq candidates /\ UNCHANGED recorded /\ SameMarks("candidate")

LEMMA RecordFacts ==
  ASSUME StoreOK, OpsOK, NEW o \in Operator, Records(o)
  PROVE  /\ Recounted \/ NewOnFile
         /\ ops[o].kind = "record" /\ ops[o].step = "change"
         /\ Done(o) \/ UNCHANGED ops
         /\ SameMarks("entry")
         /\ UNCHANGED <<entries, audit, receipts, decisions, acks, clock, changes, cut, halved>>
<1> DEFINE now == ops[o].now
<1>1. PICK claim \in Claim, degree \in Degree : RecordCandidate(o, claim, degree)
    BY DEF Records
<1>2. now \in Time
    BY DEF OpsOK, CommandOK
<1>3. degree[1] \in Confidence /\ degree[2] \in BOOLEAN
    BY BoundFacts
<1>4. ASSUME NEW c \in candidates, c.claim = claim, Noted(o, <<"candidate", c.id>>),
             candidates' = (candidates \ {c}) \cup
               {[c EXCEPT !.count = @ + 1, !.confidence = degree[1],
                          !.evidence = @ \/ degree[2], !.updated = now]},
             UNCHANGED recorded
      PROVE  Recounted /\ SameMarks("entry")
  <2>1. c \in CandidateRecord
      BY DEF StoreOK
  <2>2. PICK n, known : n = c.count + 1 /\ known = (c.evidence \/ degree[2])
      OBVIOUS
  <2>3. n \in Nat \ {0} /\ known \in BOOLEAN
      BY <2>1, <2>2 DEF CandidateRecord
  <2>4. PICK d : d = [c EXCEPT !.count = n, !.confidence = degree[1], !.evidence = known,
                               !.updated = now]
      OBVIOUS
  <2>5. d \in CandidateRecord /\ d.id = c.id /\ d.claim = c.claim /\ d.updated = now
      BY <1>2, <1>3, <2>1, <2>3, <2>4 DEF CandidateRecord
  <2>6. candidates' = (candidates \ {c}) \cup {d}
      BY <1>4, <2>2, <2>4
  <2>7. ops[o].kind = "record"
      BY <1>1 DEF RecordCandidate
  <2> QED
      BY <1>4, <2>5, <2>6, <2>7, OtherMarks DEF Recounted
<1>5. ASSUME \A c \in candidates : c.claim # claim, recorded + 1 <= MaxCandidates,
             candidates' = candidates \cup {NewCandidate(recorded + 1, claim, degree, now)},
             Noted(o, <<"candidate", recorded + 1>>), recorded' = recorded + 1
      PROVE  NewOnFile /\ SameMarks("entry")
  <2> DEFINE d == NewCandidate(recorded + 1, claim, degree, now)
  <2>1. recorded < MaxCandidates /\ recorded + 1 \in Candidate
      BY <1>5, BoundFacts DEF StoreOK, Candidate
  <2>2. d \in CandidateRecord /\ d.id = recorded + 1 /\ d.claim = claim
      BY <1>2, <1>3, <2>1 DEF NewCandidate, CandidateRecord
  <2>3. ops[o].kind = "record"
      BY <1>1 DEF RecordCandidate
  <2>4. candidates' = candidates \cup {d}
      BY <1>5
  <2> HIDE DEF d
  <2> QED
      BY <1>5, <2>1, <2>2, <2>3, <2>4, OtherMarks DEF NewOnFile
<1>6. /\ ops[o].kind = "record" /\ ops[o].step = "change"
      /\ Done(o) \/ UNCHANGED ops
      /\ UNCHANGED <<entries, audit, receipts, decisions, acks, clock, changes, cut, halved>>
    BY <1>1 DEF RecordCandidate, At
<1>7. (Recounted \/ NewOnFile) /\ SameMarks("entry")
    BY <1>1, <1>4, <1>5 DEF RecordCandidate
<1> QED
    BY <1>6, <1>7

LEMMA CandidatesMove ==
  ASSUME StoreOK, OpsOK, Given, [Next]_vars
  PROVE  Recounted \/ NewOnFile \/ OnlyGo
<1>1. CASE UNCHANGED vars
    BY <1>1 DEF vars, files, history, OnlyGo, SameMarks
<1>2. CASE Next
  <2>1. ASSUME NEW o \in Operator, PromoteChange(o)
        PROVE  OnlyGo
    <3>1. CASE UNCHANGED <<files, history, recorded>>
        BY <3>1 DEF files, history, OnlyGo, SameMarks
    <3>2. CASE /\ Noted(o, <<"entry", Len(entries) + 1>>) /\ UNCHANGED recorded
               /\ candidates' \subseteq candidates
        BY <3>2, OtherMarks DEF OnlyGo
    <3> QED
        BY <2>1, <3>1, <3>2, PromoteFacts
  <2>2. ASSUME NEW o \in Operator,
               \/ Begins(o) \/ RejectChange(o) \/ WriteAudit(o) \/ WriteReceipt(o)
               \/ AppendDecision(o) \/ Die(o)
        PROVE  OnlyGo
    <3>1. UNCHANGED <<recorded, contended>> /\ candidates' \subseteq candidates
        BY <2>2 DEF Begins, RejectChange, WriteAudit, WriteReceipt, AppendDecision, Die, files,
                    history
    <3> QED
        BY <3>1 DEF OnlyGo, SameMarks
  <2>3. ASSUME NEW o \in Operator, PromoteHorizon(o) \/ EditChange(o)
        PROVE  OnlyGo
    <3>1. UNCHANGED <<candidates, recorded>> /\ Noted(o, <<"entry", ops[o].on>>)
        BY <2>3 DEF PromoteHorizon, EditChange
    <3> QED
        BY <3>1, OtherMarks DEF OnlyGo
  <2>4. ASSUME \/ AckExpires \/ (\E q \in AckQuery : Acknowledge(q))
               \/ (\E e \in DOMAIN entries : FallDue(e))
        PROVE  OnlyGo
    <3>1. UNCHANGED <<candidates, recorded, contended>>
        BY <2>4 DEF AckExpires, Acknowledge, FallDue, history
    <3> QED
        BY <3>1 DEF OnlyGo, SameMarks
  <2> QED
      BY <1>2, <2>1, <2>2, <2>3, <2>4, NextCases, RecordFacts
<1> QED
    BY <1>1, <1>2

LEMMA RecordedGrows ==
  ASSUME StoreOK, OpsOK, Given, [Next]_vars
  PROVE  /\ recorded \in Nat /\ (recorded' = recorded \/ recorded' = recorded + 1)
         /\ 1..recorded \subseteq 1..recorded'
<1>1. recorded' = recorded \/ recorded' = recorded + 1
    BY CandidatesMove DEF Recounted, NewOnFile, OnlyGo
<1>2. recorded \in Nat
    BY BoundFacts DEF StoreOK
<1> QED
    BY <1>1, <1>2

LEMMA ClockMoves ==
  ASSUME StoreOK, OpsOK, Given, [Next]_vars
  PROVE  clock' \in Time
<1>1. CASE UNCHANGED vars
    BY <1>1 DEF vars, StoreOK
<1>2. CASE Next
  <2>1. ASSUME NEW o \in Operator,
               \/ Begins(o) \/ RejectChange(o) \/ WriteAudit(o) \/ WriteReceipt(o)
               \/ AppendDecision(o) \/ Die(o) \/ PromoteHorizon(o) \/ EditChange(o)
               \/ PromoteChange(o)
        PROVE  clock' \in Time
      BY <2>1 DEF Begins, RejectChange, WriteAudit, WriteReceipt, AppendDecision, Die, StoreOK,
             PromoteHorizon, EditChange, PromoteChange
  <2>2. AckExpires \/ (\E q \in AckQuery : Acknowledge(q)) \/ (\E e \in DOMAIN entries : FallDue(e))
          => UNCHANGED clock
      BY DEF AckExpires, Acknowledge, FallDue
  <2> QED
      BY <1>2, <2>1, <2>2, NextCases, RecordFacts DEF StoreOK
<1> QED
    BY <1>1, <1>2

\* What is written down of entries is of entries there are.
LEMMA MarksMove ==
  ASSUME StoreOK, OpsOK, Given, [Next]_vars
  PROVE  /\ receipts' \subseteq DOMAIN entries' /\ halved' \subseteq DOMAIN entries'
         /\ \A d \in decisions' : d.at \in Time
<1>0. DOMAIN entries \subseteq DOMAIN entries'
    BY EntriesGrow
<1>1. CASE UNCHANGED <<receipts, halved, decisions>>
    BY <1>0, <1>1 DEF StoreOK
<1>2. ASSUME NEW o \in Operator, PromoteChange(o)
      PROVE  UNCHANGED <<receipts, decisions>> /\ halved' \subseteq DOMAIN entries'
  <2>1. ASSUME NEW r \in EntryRecord, entries' = Append(entries, r)
        PROVE  Len(entries) + 1 \in DOMAIN entries'
      BY <2>1, AppendProperties, EntriesFacts DEF StoreOK
  <2> QED
      BY <1>0, <1>2, <2>1, PromoteFacts DEF files, history, StoreOK
<1>3. ASSUME NEW o \in Operator, WriteReceipt(o)
      PROVE  UNCHANGED <<halved, decisions, entries>> /\ receipts' \subseteq DOMAIN entries
    BY <1>3 DEF WriteReceipt, At, OpsOK, CommandOK, Idle, StoreOK, history
<1>4. ASSUME NEW o \in Operator, AppendDecision(o)
      PROVE  UNCHANGED <<receipts, halved>> /\ \A d \in decisions' : d.at \in Time
    BY <1>4 DEF AppendDecision, OpsOK, CommandOK, StoreOK, history
<1>5. ASSUME NEW o \in Operator,
             \/ Begins(o) \/ RejectChange(o) \/ WriteAudit(o)
             \/ Die(o) \/ PromoteHorizon(o) \/ EditChange(o)
      PROVE  UNCHANGED <<receipts, halved, decisions>>
    BY <1>5 DEF Begins, RejectChange, WriteAudit, Die, PromoteHorizon, EditChange, files, history
<1>6. ASSUME \/ AckExpires \/ (\E q \in AckQuery : Acknowledge(q))
             \/ (\E e \in DOMAIN entries : FallDue(e)) \/ UNCHANGED vars
      PROVE  UNCHANGED <<receipts, halved, decisions>>
    BY <1>6 DEF AckExpires, Acknowledge, FallDue, vars, files, history
<1>7. (\E o \in Operator : Records(o)) => UNCHANGED <<receipts, halved, decisions>>
    BY RecordFacts
<1> USE <1>0
<1>8. CASE UNCHANGED vars
    BY <1>1, <1>6, <1>8
<1>9. CASE Next
    BY <1>1, <1>2, <1>3, <1>4, <1>5, <1>6, <1>7, <1>9, NextCases DEF StoreOK
<1> QED
    BY <1>8, <1>9

LEMMA StoreStep == StoreOK /\ OpsOK /\ Given /\ [Next]_vars => StoreOK'
<1> SUFFICES ASSUME StoreOK, OpsOK, Given, [Next]_vars
             PROVE  StoreOK'
    OBVIOUS
<1>1. CASE Recounted
  <2>1. /\ candidates' \subseteq CandidateRecord
        /\ \A c, d \in candidates' : c.claim = d.claim => c = d
      BY <1>1 DEF Recounted, StoreOK
  <2> QED
      BY <1>1, <2>1, EntriesGrow, ClockMoves, MarksMove DEF StoreOK, Recounted
<1>2. CASE NewOnFile
  <2>1. /\ candidates' \subseteq CandidateRecord
        /\ \A c, d \in candidates' : c.claim = d.claim => c = d
      BY <1>2 DEF NewOnFile, StoreOK
  <2>2. recorded' \in 0..MaxCandidates
      BY <1>2, BoundFacts DEF NewOnFile, StoreOK
  <2> QED
      BY <2>1, <2>2, EntriesGrow, ClockMoves, MarksMove DEF StoreOK
<1>3. CASE OnlyGo
    BY <1>3, EntriesGrow, ClockMoves, MarksMove DEF StoreOK, OnlyGo
<1> QED
    BY <1>1, <1>2, <1>3, CandidatesMove

-----------------------------------------------------------------------------
\* Commands.  Ids and entries only come, so a command that is left alone is
\* still in order.

LEMMA CommandStays ==
  ASSUME StoreOK, OpsOK, Given, [Next]_vars, NEW y, CommandOK(y)
  PROVE  CommandOK(y)'
<1>1. DOMAIN entries \subseteq DOMAIN entries'
    BY EntriesGrow
<1>2. 1..recorded \subseteq 1..recorded'
    BY RecordedGrows
<1> QED
    BY <1>1, <1>2 DEF CommandOK

LEMMA OthersStay ==
  ASSUME StoreOK, OpsOK, Given, [Next]_vars, NEW o \in Operator,
         ops' = [x \in Operator |-> ops'[x]],
         \A x \in Operator : x # o => ops'[x] = ops[x],
         CommandOK(ops[o])' \/ \E y : CommandOK(y) /\ ops'[o] = y
  PROVE  OpsOK'
<1>1. ASSUME NEW x \in Operator, x # o
      PROVE  CommandOK(ops[x])'
  <2>1. PICK y : y = ops[x] /\ y = ops'[x] /\ CommandOK(y)
      BY <1>1 DEF OpsOK
  <2>2. CommandOK(y)'
      BY <2>1, CommandStays
  <2> QED
      BY <2>1, <2>2
<1>2. ASSUME NEW y, CommandOK(y), ops'[o] = y
      PROVE  CommandOK(ops[o])'
  <2>1. CommandOK(y)'
      BY <1>2, CommandStays
  <2> QED
      BY <1>2, <2>1
<1> QED
    BY <1>1, <1>2 DEF OpsOK

LEMMA IdleOK == CommandOK(Idle)
BY IdleFacts, BoundFacts DEF CommandOK, Time

LEMMA OpsStep == StoreOK /\ OpsOK /\ Given /\ [Next]_vars => OpsOK'
<1> SUFFICES ASSUME StoreOK, OpsOK, Given, [Next]_vars
             PROVE  OpsOK'
    OBVIOUS
<1>1. CASE UNCHANGED ops
  <2>1. ASSUME NEW x \in Operator
        PROVE  CommandOK(ops[x])'
    <3>1. PICK y : y = ops[x] /\ y = ops'[x] /\ CommandOK(y)
        BY <1>1 DEF OpsOK
    <3>2. CommandOK(y)'
        BY <3>1, CommandStays
    <3> QED
        BY <3>1, <3>2
  <2>2. ops' = [x \in Operator |-> ops'[x]]
      BY <1>1 DEF OpsOK
  <2> QED
      BY <2>1, <2>2 DEF OpsOK
<1>2. ASSUME NEW o \in Operator, Done(o)
      PROVE  OpsOK'
    BY <1>2, DoneFacts, OthersStay, IdleOK
<1>3. ASSUME NEW o \in Operator, Begins(o)
      PROVE  OpsOK'
  <2>1. PICK y : CommandOK(y) /\ ops' = [ops EXCEPT ![o] = y]
      BY <1>3 DEF Begins
  <2> QED
      BY <2>1, SetFacts, OthersStay
<1>4. ASSUME NEW o \in Operator, NEW s, To(o, s),
             \/ s = "audit" /\ ops[o].step \in {"change", "horizon"}
                  /\ ops[o].kind \in Edits \cup {"reject", "promote"}
                  /\ (ops[o].kind = "promote" => ops[o].step = "horizon")
             \/ s = "receipt" /\ ops[o].step = "audit" /\ ops[o].kind = "promote"
      PROVE  OpsOK'
  <2> DEFINE x == ops[o]
             y == [kind |-> x.kind, on |-> x.on, arg |-> x.arg, now |-> x.now, step |-> s]
  <2>1. Fields(y)
      BY DEF Fields
  <2>2. CommandOK(x)
      BY DEF OpsOK
  <2>3. CommandOK(y)
      BY <1>4, <2>1, <2>2 DEF CommandOK, Idle, Edits
  <2>4. ops'[o] = y
      BY <1>4, ToFacts
  <2> HIDE DEF y
  <2> QED
      BY <1>4, <2>3, <2>4, ToFacts, OthersStay
<1>5. ASSUME NEW o \in Operator, PromoteChange(o)
      PROVE  OpsOK'
  <2> DEFINE x == ops[o]  e == Len(entries) + 1
             s == IF x.arg = "none" THEN "audit" ELSE "horizon"
  <2>1. CASE Done(o)
      BY <2>1, <1>2
  <2>2. CASE Entered(o) /\ \E r \in EntryRecord : entries' = Append(entries, r)
    <3>1. /\ ops'[o] = [kind |-> x.kind, on |-> e, arg |-> x.arg, now |-> x.now, step |-> s]
          /\ ops' = [u \in Operator |-> ops'[u]]
          /\ \A u \in Operator : u # o => ops'[u] = ops[u]
        BY <2>2, EnteredFacts
    <3>2. e \in DOMAIN entries'
        BY <2>2, AppendProperties, EntriesFacts DEF StoreOK
    <3>3. x.kind = "promote" /\ x.now \in Time
        BY <1>5 DEF PromoteChange, OpsOK, CommandOK
    <3>4. /\ Fields(ops'[o]) /\ ops'[o].now \in Time /\ ops'[o].kind = "promote"
          /\ ops'[o].step \in {"horizon", "audit", "receipt"} /\ ops'[o].on = e
        BY <3>1, <3>3 DEF Fields
    <3>5. CommandOK(ops[o])'
        BY <3>2, <3>4 DEF CommandOK, Fields
    <3> QED
        BY <3>1, <3>5, OthersStay
  <2> QED
      BY <1>5, <2>1, <2>2, PromoteFacts
<1>6. ASSUME NEW o \in Operator, PromoteHorizon(o)
      PROVE  OpsOK'
  <2>1. ops[o].kind = "promote"
      BY <1>6 DEF PromoteHorizon, At, OpsOK, CommandOK, Idle
  <2> QED
      BY <1>4, <1>6, <2>1 DEF PromoteHorizon, At
<1>7. ASSUME NEW o \in Operator, RejectChange(o)
      PROVE  OpsOK'
    BY <1>2, <1>4, <1>7 DEF RejectChange, At
<1>8. ASSUME NEW o \in Operator, EditChange(o)
      PROVE  OpsOK'
    BY <1>4, <1>8 DEF EditChange, At, Edits
<1>9. ASSUME NEW o \in Operator, WriteAudit(o)
      PROVE  OpsOK'
    BY <1>2, <1>4, <1>9 DEF WriteAudit, At
<1>10. ASSUME NEW o \in Operator, WriteReceipt(o) \/ AppendDecision(o) \/ Die(o)
       PROVE  OpsOK'
    BY <1>2, <1>10 DEF WriteReceipt, AppendDecision, Die
<1>11. ASSUME \/ AckExpires \/ (\E q \in AckQuery : Acknowledge(q))
              \/ (\E e \in DOMAIN entries : FallDue(e)) \/ UNCHANGED vars
       PROVE  OpsOK'
  <2>1. UNCHANGED ops
      BY <1>11 DEF AckExpires, Acknowledge, FallDue, vars
  <2> QED
      BY <1>1, <2>1
<1>12. ASSUME NEW o \in Operator, Records(o)
       PROVE  OpsOK'
    BY <1>1, <1>2, <1>12, RecordFacts
<1>13. CASE Next
    BY <1>3, <1>5, <1>6, <1>7, <1>8, <1>9, <1>10, <1>11, <1>12, <1>13, NextCases
<1> QED
    BY <1>11, <1>13

-----------------------------------------------------------------------------
\* What is noted as changed.

LEMMA ChangesMove ==
  ASSUME StoreOK, OpsOK, Given, [Next]_vars
  PROVE  \/ UNCHANGED changes
         \/ \E o \in Operator :
              /\ ops[o].kind = "promote"
              /\ changes' = changes \cup {Line("promote", Len(entries) + 1, ops[o].now)}
         \/ \E o \in Operator :
              /\ ops[o].kind \in Edits \cup {"reject"}
              /\ ops[o].kind = "reject" => ops[o].on \in 1..recorded
              /\ changes' = changes \cup {LineOf(ops[o])}
<1>1. ASSUME NEW o \in Operator, PromoteChange(o)
      PROVE  \/ UNCHANGED changes
             \/ /\ ops[o].kind = "promote"
                /\ changes' = changes \cup {Line("promote", Len(entries) + 1, ops[o].now)}
    BY <1>1, PromoteFacts DEF history, PromoteChange
<1>2. ASSUME NEW o \in Operator, RejectChange(o)
      PROVE  \/ UNCHANGED changes
             \/ /\ ops[o].kind = "reject" /\ ops[o].on \in 1..recorded
                /\ changes' = changes \cup {LineOf(ops[o])}
    BY <1>2 DEF RejectChange, At, OpsOK, CommandOK, Idle, Edits, LineOf, Made
<1>3. ASSUME NEW o \in Operator, EditChange(o)
      PROVE  /\ ops[o].kind \in Edits /\ ops[o].kind # "reject"
             /\ changes' = changes \cup {LineOf(ops[o])}
    BY <1>3 DEF EditChange, Edits, LineOf, Made
<1>4. ASSUME NEW o \in Operator,
             \/ Begins(o) \/ WriteReceipt(o) \/ AppendDecision(o) \/ WriteAudit(o)
             \/ Die(o) \/ PromoteHorizon(o)
      PROVE  UNCHANGED changes
    BY <1>4 DEF Begins, WriteReceipt, AppendDecision, WriteAudit, Die, PromoteHorizon, history
<1>5. ASSUME \/ AckExpires \/ (\E q \in AckQuery : Acknowledge(q))
             \/ (\E e \in DOMAIN entries : FallDue(e)) \/ UNCHANGED vars
             \/ \E o \in Operator : Records(o)
      PROVE  UNCHANGED changes
    BY <1>5, RecordFacts DEF AckExpires, Acknowledge, FallDue, vars, history
<1>6. CASE Next
    BY <1>1, <1>2, <1>3, <1>4, <1>5, <1>6, NextCases
<1> QED
    BY <1>5, <1>6

LEMMA GivenStep == StoreOK /\ OpsOK /\ Given /\ [Next]_vars => Given'
<1> SUFFICES ASSUME StoreOK, OpsOK, Given, [Next]_vars
             PROVE  Given'
    OBVIOUS
<1>1. recorded \in Nat /\ recorded' \in Nat /\ recorded <= recorded'
    BY RecordedGrows
<1>2. \A c \in candidates' : c.id <= recorded'
  <2>1. \A c \in candidates : c.id \in Nat
      BY BoundFacts DEF StoreOK, CandidateRecord, Candidate
  <2>2. CASE Recounted
      BY <2>1, <2>2 DEF Recounted, Given
  <2>3. CASE NewOnFile
      BY <1>1, <2>1, <2>3 DEF NewOnFile, Given
  <2>4. CASE OnlyGo
      BY <2>4 DEF OnlyGo, Given
  <2> QED
      BY <2>2, <2>3, <2>4, CandidatesMove
<1>3. \A x \in changes' : x.action = "reject" => x.on \in 1..recorded'
    BY <1>1, ChangesMove DEF Given, Line, LineOf, Edits
<1>4. \A e \in DOMAIN entries' : entries'[e].from \in 1..recorded'
  <2>1. CASE UNCHANGED entries
      BY <1>1, <2>1 DEF Given
  <2>2. ASSUME NEW e \in DOMAIN entries, NEW r \in EntryRecord, r.from = entries[e].from,
               entries' = [entries EXCEPT ![e] = r]
        PROVE  \A d \in DOMAIN entries' : entries'[d].from \in 1..recorded'
      BY <1>1, <2>2, EntriesGrow DEF Given
  <2>3. ASSUME NEW o \in Operator, PromoteChange(o)
        PROVE  \A d \in DOMAIN entries' : entries'[d].from \in 1..recorded'
    <3>1. CASE UNCHANGED entries
        BY <1>1, <3>1 DEF Given
    <3>2. CASE \E c \in candidates, r \in EntryRecord :
                 r.from = c.id /\ entries' = Append(entries, r)
      <4>1. PICK c \in candidates, r \in EntryRecord :
                 r.from = c.id /\ entries' = Append(entries, r)
          BY <3>2
      <4>2. /\ DOMAIN entries' = 1..(Len(entries) + 1)
            /\ entries'[Len(entries) + 1] = r
            /\ \A d \in 1..Len(entries) : entries'[d] = entries[d]
            /\ Len(entries) \in Nat /\ DOMAIN entries = 1..Len(entries)
          BY <4>1, AppendProperties, EntriesFacts, LenProperties DEF StoreOK
      <4>3. c.id \in 1..recorded
          BY BoundFacts DEF StoreOK, Given, CandidateRecord, Candidate
      <4> QED
          BY <1>1, <4>1, <4>2, <4>3 DEF Given
    <3> QED
        BY <2>3, <3>1, <3>2, PromoteFacts DEF files
  <2>4. ASSUME NEW o \in Operator, PromoteHorizon(o) \/ EditChange(o)
        PROVE  \E e \in DOMAIN entries, r \in EntryRecord :
                 r.from = entries[e].from /\ entries' = [entries EXCEPT ![e] = r]
      BY <2>4, HorizonFacts, EditFacts
  <2>5. ASSUME NEW o \in Operator,
               \/ Begins(o) \/ RejectChange(o) \/ WriteAudit(o) \/ WriteReceipt(o)
               \/ AppendDecision(o) \/ Die(o)
        PROVE  UNCHANGED entries
      BY <2>5 DEF Begins, RejectChange, WriteAudit, WriteReceipt, AppendDecision, Die, files
  <2>6. ASSUME \/ AckExpires \/ (\E q \in AckQuery : Acknowledge(q)) \/ UNCHANGED vars
               \/ \E o \in Operator : Records(o)
        PROVE  UNCHANGED entries
      BY <2>6, RecordFacts DEF AckExpires, Acknowledge, vars, files
  <2>7. CASE Next
      BY <2>1, <2>2, <2>3, <2>4, <2>5, <2>6, <2>7, NextCases, DueFacts
  <2> QED
      BY <2>1, <2>6, <2>7
<1> QED
    BY <1>2, <1>3, <1>4 DEF Given

-----------------------------------------------------------------------------
\* The audit log.

LEMMA NotingStep == StoreOK /\ OpsOK /\ Given /\ Noting /\ [Next]_vars => Noting'
<1> SUFFICES ASSUME StoreOK, OpsOK, Given, Noting, [Next]_vars
             PROVE  Noting'
    OBVIOUS
<1>1. ASSUME UNCHANGED <<audit, changes, cut, ops, receipts>>
      PROVE  Noting'
    BY <1>1 DEF Noting, Audited
<1>2. ASSUME NEW o \in Operator, Done(o), ~Unwritten(ops[o]),
             UNCHANGED <<audit, changes, cut, receipts>>
      PROVE  Noting'
    BY <1>2, DoneFacts, IdleFacts DEF Noting, Audited, Unwritten
<1>3. ASSUME NEW o \in Operator, Begins(o)
      PROVE  Noting'
  <2>1. PICK y : /\ CommandOK(y) /\ y.step \in {"change", "append"}
                 /\ ops' = [ops EXCEPT ![o] = y]
      BY <1>3 DEF Begins
  <2>2. /\ ops'[o].step \in {"change", "append"}
        /\ \A x \in Operator : x # o => ops'[x] = ops[x]
      BY <2>1, SetFacts
  <2>3. UNCHANGED <<audit, changes, cut, receipts>> /\ ~Unwritten(ops[o])
      BY <1>3, IdleFacts DEF Begins, files, history, Free, Unwritten
  <2> QED
      BY <2>2, <2>3 DEF Noting, Audited, Unwritten
<1>4. ASSUME NEW o \in Operator, PromoteChange(o)
      PROVE  Noting'
  <2> DEFINE x == ops[o]  e == Len(entries) + 1  l == Line("promote", e, x.now)
  <2>0. x.step = "change" /\ x.kind = "promote"
      BY <1>4 DEF PromoteChange, At
  <2>1. CASE Done(o) /\ UNCHANGED <<files, history>>
      BY <1>2, <2>0, <2>1 DEF files, history, Unwritten
  <2>2. CASE /\ Done(o) /\ changes' = changes \cup {l} /\ cut' = cut \cup {l}
             /\ UNCHANGED <<audit, receipts>>
      BY <2>0, <2>2, DoneFacts, IdleFacts DEF Noting, Audited, Unwritten
  <2>3. CASE Entered(o) /\ changes' = changes \cup {l} /\ UNCHANGED <<audit, receipts, cut>>
    <3>1. /\ ops'[o] = [kind |-> x.kind, on |-> e, arg |-> x.arg, now |-> x.now,
                         step |-> IF x.arg = "none" THEN "audit" ELSE "horizon"]
          /\ \A u \in Operator : u # o => ops'[u] = ops[u]
        BY <2>3, EnteredFacts
    <3>2. LineOf(ops[o])' = l /\ Unwritten(ops[o])' /\ ops'[o].step # "receipt"
        BY <2>0, <3>1 DEF LineOf, Line, Unwritten
    <3>3. changes' = changes \cup {l} /\ UNCHANGED <<audit, receipts, cut>>
        BY <2>3
    <3>4. ~Unwritten(ops[o]) /\ \A u \in Operator : u # o => ops'[u] = ops[u]
        BY <2>0, <3>1 DEF Unwritten
    <3> HIDE DEF l
    <3> QED
        BY <3>2, <3>3, <3>4 DEF Noting, Audited, Unwritten
  <2> QED
      BY <1>4, <2>1, <2>2, <2>3, PromoteFacts
<1>5. ASSUME NEW o \in Operator, To(o, "audit"), ops[o].step \in {"change", "horizon"},
             changes' = changes \cup {LineOf(ops[o])}, UNCHANGED <<audit, cut, receipts>>
      PROVE  Noting'
  <2>1. /\ ops'[o] = [kind |-> ops[o].kind, on |-> ops[o].on, arg |-> ops[o].arg,
                       now |-> ops[o].now, step |-> "audit"]
        /\ \A x \in Operator : x # o => ops'[x] = ops[x]
      BY <1>5, ToFacts
  <2>2. LineOf(ops[o])' = LineOf(ops[o]) /\ Unwritten(ops[o])' /\ ops'[o].step # "receipt"
      BY <2>1 DEF LineOf, Line, Unwritten
  <2> QED
      BY <1>5, <2>1, <2>2 DEF Noting, Audited, Unwritten
<1>6. ASSUME NEW o \in Operator, PromoteHorizon(o)
      PROVE  Noting'
  <2>1. LineOf(ops[o]) \in changes
      BY <1>6 DEF PromoteHorizon, At, Noting, Unwritten
  <2>2. changes' = changes \cup {LineOf(ops[o])}
      BY <1>6, <2>1 DEF PromoteHorizon
  <2> QED
      BY <1>5, <1>6, <2>2 DEF PromoteHorizon, At
<1>7. ASSUME NEW o \in Operator, RejectChange(o)
      PROVE  Noting'
  <2>1. CASE Done(o) /\ UNCHANGED changes
      BY <1>2, <1>7, <2>1 DEF RejectChange, At, Unwritten
  <2>2. CASE To(o, "audit") /\ changes' = changes \cup {Made(o, ops[o].on)}
      BY <1>5, <1>7, <2>2 DEF RejectChange, At, LineOf, Made
  <2> QED
      BY <1>7, <2>1, <2>2 DEF RejectChange
<1>8. ASSUME NEW o \in Operator, EditChange(o)
      PROVE  Noting'
    BY <1>5, <1>8 DEF EditChange, At, LineOf, Made
<1>9. ASSUME NEW o \in Operator, WriteAudit(o)
      PROVE  Noting'
  <2>1. /\ ops[o].step = "audit" /\ audit' = audit \cup {LineOf(ops[o])}
        /\ LineOf(ops[o]) \in changes /\ UNCHANGED <<changes, cut, receipts>>
      BY <1>9 DEF WriteAudit, At, LineOf, Made, Noting, Unwritten, history
  <2>2. CASE Done(o)
      BY <2>1, <2>2, DoneFacts, IdleFacts DEF Noting, Audited, Unwritten
  <2>3. CASE To(o, "receipt")
    <3>1. /\ ops'[o] = [kind |-> ops[o].kind, on |-> ops[o].on, arg |-> ops[o].arg,
                         now |-> ops[o].now, step |-> "receipt"]
          /\ \A x \in Operator : x # o => ops'[x] = ops[x]
        BY <2>3, ToFacts
    <3>2. LineOf(ops[o])' = LineOf(ops[o]) /\ ~Unwritten(ops[o])'
        BY <3>1 DEF LineOf, Line, Unwritten
    <3> QED
        BY <2>1, <3>1, <3>2 DEF Noting, Audited, Unwritten
  <2> QED
      BY <1>9, <2>2, <2>3 DEF WriteAudit
<1>10. ASSUME NEW o \in Operator, WriteReceipt(o)
       PROVE  Noting'
  <2>1. /\ ops[o].step = "receipt" /\ receipts' = receipts \cup {ops[o].on} /\ Done(o)
        /\ UNCHANGED <<audit, changes, cut>> /\ LineOf(ops[o]) \in audit
      BY <1>10 DEF WriteReceipt, At, Noting, history
  <2>2. ops[o].kind = "promote"
      BY <2>1 DEF OpsOK, CommandOK, Idle
  <2>3. Audited(ops[o].on)
      BY <2>1, <2>2 DEF Audited, LineOf, Line
  <2>4. \A e \in receipts' : Audited(e)'
      BY <2>1, <2>3 DEF Noting, Audited
  <2> QED
      BY <2>1, <2>4, DoneFacts, IdleFacts DEF Noting, Unwritten
<1>11. ASSUME NEW o \in Operator, AppendDecision(o)
       PROVE  Noting'
    BY <1>2, <1>11 DEF AppendDecision, At, Unwritten, history
<1>12. ASSUME NEW o \in Operator, Die(o)
       PROVE  Noting'
  <2>1. CASE At(o, "receipt") /\ UNCHANGED cut
      BY <1>2, <1>12, <2>1 DEF Die, At, Unwritten, files
  <2>2. CASE cut' = cut \cup {Made(o, ops[o].on)}
      BY <1>12, <2>2, DoneFacts, IdleFacts
      DEF Die, Noting, Audited, Unwritten, files, LineOf, Made
  <2> QED
      BY <1>12, <2>1, <2>2 DEF Die
<1>13. ASSUME \/ AckExpires \/ (\E q \in AckQuery : Acknowledge(q))
              \/ (\E e \in DOMAIN entries : FallDue(e)) \/ UNCHANGED vars
       PROVE  Noting'
  <2>1. UNCHANGED <<audit, changes, cut, ops, receipts>>
      BY <1>13 DEF AckExpires, Acknowledge, FallDue, vars, history, files
  <2> QED
      BY <1>1, <2>1
<1>14. ASSUME NEW o \in Operator, Records(o)
       PROVE  Noting'
  <2>1. ~Unwritten(ops[o])
      BY <1>14, RecordFacts DEF Unwritten
  <2> QED
      BY <1>1, <1>2, <1>14, <2>1, RecordFacts
<1>15. CASE Next
    BY <1>3, <1>4, <1>6, <1>7, <1>8, <1>9, <1>10, <1>11, <1>12, <1>13, <1>14, <1>15, NextCases
<1> QED
    BY <1>13, <1>15

-----------------------------------------------------------------------------
\* Fates.

SameFrom == DOMAIN entries' = DOMAIN entries
            /\ \A e \in DOMAIN entries : entries'[e].from = entries[e].from

LEMMA FatesKept ==
  ASSUME Fates, UNCHANGED <<candidates, halved, recorded>>, SameFrom,
         \A c \in 1..recorded : RejectsOf(c)' = RejectsOf(c)
  PROVE  Fates'
<1> SUFFICES ASSUME NEW c \in 1..recorded
             PROVE  Fate(c)'
    BY DEF Fates
<1>1. FromOf(c)' = FromOf(c)
    BY DEF FromOf, SameFrom
<1>2. WaitsAs(c)' = WaitsAs(c)
    BY DEF WaitsAs
<1>3. Fate(c)
    BY DEF Fates
<1> QED
    BY <1>1, <1>2, <1>3 DEF Fate, Single

LEMMA SameFromFacts ==
  ASSUME StoreOK, NEW e \in DOMAIN entries, NEW r \in EntryRecord, r.from = entries[e].from,
         entries' = [entries EXCEPT ![e] = r]
  PROVE  SameFrom
BY DEF SameFrom

LEMMA FatesRecord ==
  ASSUME StoreOK, OpsOK, Given, Fates, NEW o \in Operator, Records(o)
  PROVE  Fates'
<1>1. UNCHANGED <<entries, halved, changes>> /\ (Recounted \/ NewOnFile)
    BY RecordFacts
<1>2. \A c : FromOf(c)' = FromOf(c) /\ RejectsOf(c)' = RejectsOf(c)
    BY <1>1 DEF FromOf, RejectsOf
<1>3. CASE Recounted
  <2>1. PICK c \in candidates, d \in CandidateRecord :
               /\ d.id = c.id
               /\ candidates' = (candidates \ {c}) \cup {d} /\ UNCHANGED recorded
      BY <1>3 DEF Recounted
  <2>2. ASSUME NEW k \in 1..recorded
        PROVE  Fate(k)'
    <3>1. Fate(k)
        BY DEF Fates
    <3>2. WaitsAs(k) = {} => WaitsAs(k)' = {}
        BY <2>1 DEF WaitsAs
    <3>3. ASSUME Single(WaitsAs(k))
          PROVE  Single(WaitsAs(k))'
      <4>1. PICK x \in WaitsAs(k) : WaitsAs(k) = {x}
          BY <3>3 DEF Single
      <4>2. CASE k = c.id
        <5>1. WaitsAs(k)' = {d}
            BY <2>1, <4>1, <4>2 DEF WaitsAs
        <5> QED
            BY <5>1 DEF Single
      <4>3. CASE k # c.id
        <5>1. WaitsAs(k)' = {x}
            BY <2>1, <4>1, <4>3 DEF WaitsAs
        <5> QED
            BY <5>1 DEF Single
      <4> QED
          BY <4>2, <4>3
    <3> QED
        BY <1>2, <3>1, <3>2, <3>3 DEF Fate, Single
  <2> QED
      BY <2>1, <2>2 DEF Fates
<1>4. CASE NewOnFile
  <2>1. PICK d \in CandidateRecord :
               /\ d.id = recorded + 1 /\ candidates' = candidates \cup {d}
               /\ recorded' = recorded + 1
      BY <1>4 DEF NewOnFile
  <2>2. recorded \in Nat
      BY BoundFacts DEF StoreOK
  <2>3. ASSUME NEW k \in 1..recorded
        PROVE  Fate(k)'
    <3>1. WaitsAs(k)' = WaitsAs(k)
        BY <2>1, <2>2 DEF WaitsAs
    <3> QED
        BY <1>2, <3>1 DEF Fates, Fate, Single
  <2>4. FromOf(recorded + 1) = {} /\ RejectsOf(recorded + 1) = {}
      BY <2>2 DEF FromOf, RejectsOf, Given
  <2>5. PICK k : k = recorded + 1
      OBVIOUS
  <2>6. WaitsAs(k)' = {d}
      BY <2>1, <2>2, <2>5, BoundFacts DEF WaitsAs, Given, StoreOK, CandidateRecord, Candidate
  <2>7. FromOf(k)' = {} /\ RejectsOf(k)' = {}
      BY <1>2, <2>4, <2>5
  <2>8. Fate(k)'
      BY <2>6, <2>7 DEF Fate, Single
  <2>9. 1..recorded' = 1..recorded \cup {k}
      BY <2>1, <2>2, <2>5
  <2> QED
      BY <2>3, <2>8, <2>9 DEF Fates
<1> QED
    BY <1>1, <1>3, <1>4

LEMMA FatesPromote ==
  ASSUME StoreOK, OpsOK, Given, Fates, NEW o \in Operator, PromoteChange(o)
  PROVE  Fates'
<1> DEFINE e == Len(entries) + 1
<1>1. CASE UNCHANGED <<files, history, recorded>>
  <2>1. SameFrom /\ \A c \in 1..recorded : RejectsOf(c)' = RejectsOf(c)
      BY <1>1 DEF files, history, SameFrom, RejectsOf
  <2> QED
      BY <1>1, <2>1, FatesKept DEF files, history
<1>2. ASSUME NEW c \in candidates, NEW r \in EntryRecord, c.id = ops[o].on, r.from = c.id,
             entries' = Append(entries, r), UNCHANGED recorded,
             changes' = changes \cup {Line("promote", e, ops[o].now)},
             \/ candidates' = {d \in candidates : d.id # ops[o].on} /\ UNCHANGED halved
             \/ UNCHANGED candidates /\ halved' = halved \cup {e}
      PROVE  Fates'
  <2>1. /\ DOMAIN entries' = DOMAIN entries \cup {e} /\ e \notin DOMAIN entries
        /\ entries'[e] = r /\ \A d \in DOMAIN entries : entries'[d] = entries[d]
      BY <1>2, AppendProperties, EntriesFacts, LenProperties DEF StoreOK
  <2>2. \A k : RejectsOf(k)' = RejectsOf(k)
      BY <1>2 DEF RejectsOf, Line
  <2>3. e \notin halved
      BY <2>1 DEF StoreOK
  <2> HIDE DEF e
  <2> SUFFICES ASSUME NEW k \in 1..recorded
               PROVE  Fate(k)'
      BY <1>2 DEF Fates
  <2>4. Fate(k)
      BY DEF Fates
  <2>5. CASE k # c.id
    <3>1. FromOf(k)' = FromOf(k) /\ WaitsAs(k)' = WaitsAs(k)
        BY <1>2, <2>1, <2>3, <2>5 DEF FromOf, WaitsAs
    <3> QED
        BY <2>2, <2>4, <3>1 DEF Fate, Single
  <2>6. CASE k = c.id
    <3>1. c \in WaitsAs(k)
        BY <2>6 DEF WaitsAs
    <3>2. FromOf(k) = {} /\ Single(WaitsAs(k)) /\ RejectsOf(k) = {}
        BY <2>4, <3>1 DEF Fate
    <3>3. CASE UNCHANGED halved /\ candidates' = {d \in candidates : d.id # ops[o].on}
      <4>1. FromOf(k)' = {e}
          BY <1>2, <2>1, <2>3, <2>6, <3>2, <3>3 DEF FromOf
      <4>2. WaitsAs(k)' = {}
          BY <1>2, <2>6, <3>3 DEF WaitsAs
      <4> QED
          BY <2>2, <3>2, <4>1, <4>2 DEF Fate, Single
    <3>4. CASE UNCHANGED candidates /\ halved' = halved \cup {e}
      <4>1. FromOf(k)' = {}
          BY <2>1, <3>2, <3>4 DEF FromOf
      <4>2. WaitsAs(k)' = WaitsAs(k)
          BY <3>4 DEF WaitsAs
      <4> QED
          BY <2>2, <3>2, <4>1, <4>2 DEF Fate, Single
    <3> QED
        BY <1>2, <3>3, <3>4
  <2> QED
      BY <2>5, <2>6
<1> QED
    BY <1>1, <1>2, PromoteFacts

LEMMA FatesReject ==
  ASSUME StoreOK, OpsOK, Given, Fates, NEW o \in Operator, RejectChange(o)
  PROVE  Fates'
<1>1. UNCHANGED <<entries, recorded, halved>> /\ ops[o].kind = "reject"
    BY DEF RejectChange
<1>2. CASE UNCHANGED <<candidates, changes>>
    BY <1>1, <1>2, FatesKept DEF SameFrom, RejectsOf
<1>3. CASE /\ \E c \in candidates : c.id = ops[o].on
           /\ candidates' = {c \in candidates : c.id # ops[o].on}
           /\ changes' = changes \cup {LineOf(ops[o])}
  <2> SUFFICES ASSUME NEW k \in 1..recorded
               PROVE  Fate(k)'
      BY <1>1 DEF Fates
  <2>1. Fate(k) /\ FromOf(k)' = FromOf(k)
      BY <1>1 DEF Fates, FromOf
  <2>2. CASE k # ops[o].on
    <3>1. WaitsAs(k)' = WaitsAs(k) /\ RejectsOf(k)' = RejectsOf(k)
        BY <1>3, <2>2 DEF WaitsAs, RejectsOf, LineOf, Line
    <3> QED
        BY <2>1, <3>1 DEF Fate, Single
  <2>3. CASE k = ops[o].on
    <3>1. WaitsAs(k) # {}
        BY <1>3, <2>3 DEF WaitsAs
    <3>2. FromOf(k) = {} /\ RejectsOf(k) = {}
        BY <2>1, <3>1 DEF Fate
    <3>3. WaitsAs(k)' = {} /\ RejectsOf(k)' = {LineOf(ops[o])}
        BY <1>1, <1>3, <2>3, <3>2 DEF WaitsAs, RejectsOf, LineOf, Line
    <3> QED
        BY <2>1, <3>2, <3>3 DEF Fate, Single
  <2> QED
      BY <2>2, <2>3
<1> QED
    BY <1>2, <1>3 DEF RejectChange, LineOf, Made

LEMMA FatesStep == StoreOK /\ OpsOK /\ Given /\ Fates /\ [Next]_vars => Fates'
<1> SUFFICES ASSUME StoreOK, OpsOK, Given, Fates, [Next]_vars
             PROVE  Fates'
    OBVIOUS
<1>1. ASSUME UNCHANGED <<candidates, halved, recorded, changes>>, SameFrom
      PROVE  Fates'
    BY <1>1, FatesKept DEF RejectsOf
<1>2. ASSUME NEW o \in Operator, EditChange(o)
      PROVE  Fates'
  <2>1. UNCHANGED <<candidates, halved, recorded>> /\ SameFrom
      BY <1>2, EditFacts, SameFromFacts DEF EditChange
  <2>2. \A c \in 1..recorded : RejectsOf(c)' = RejectsOf(c)
      BY <1>2 DEF EditChange, RejectsOf, Made, Line, Edits
  <2> QED
      BY <2>1, <2>2, FatesKept
<1>3. ASSUME NEW o \in Operator, PromoteHorizon(o)
      PROVE  Fates'
  <2>1. UNCHANGED <<candidates, halved, recorded, changes>> /\ SameFrom
      BY <1>3, HorizonFacts, SameFromFacts DEF PromoteHorizon
  <2> QED
      BY <1>1, <2>1
<1>4. ASSUME NEW e \in DOMAIN entries, FallDue(e)
      PROVE  Fates'
  <2>1. UNCHANGED <<candidates, halved, recorded, changes>> /\ SameFrom
      BY <1>4, DueFacts, SameFromFacts DEF FallDue, history
  <2> QED
      BY <1>1, <2>1
<1>5. ASSUME NEW o \in Operator,
             \/ Begins(o) \/ WriteReceipt(o) \/ AppendDecision(o) \/ WriteAudit(o) \/ Die(o)
      PROVE  Fates'
  <2>1. UNCHANGED <<candidates, entries, halved, recorded, changes>>
      BY <1>5 DEF Begins, WriteReceipt, AppendDecision, WriteAudit, Die, files, history
  <2> QED
      BY <1>1, <2>1 DEF SameFrom
<1>6. ASSUME AckExpires \/ (\E q \in AckQuery : Acknowledge(q)) \/ UNCHANGED vars
      PROVE  Fates'
  <2>1. UNCHANGED <<candidates, entries, halved, recorded, changes>>
      BY <1>6 DEF AckExpires, Acknowledge, vars, files, history
  <2> QED
      BY <1>1, <2>1 DEF SameFrom
<1>7. CASE Next
    BY <1>2, <1>3, <1>4, <1>5, <1>6, <1>7, NextCases, FatesRecord, FatesPromote, FatesReject
<1> QED
    BY <1>6, <1>7

-----------------------------------------------------------------------------
\* Acknowledgements.

LEMMA ShownStep == StoreOK /\ OpsOK /\ Given /\ Shown /\ [Next]_vars => Shown'
<1> SUFFICES ASSUME StoreOK, OpsOK, Given, Shown, [Next]_vars
             PROVE  Shown'
    OBVIOUS
<1>1. CASE UNCHANGED acks
    BY <1>1 DEF Shown
<1>2. ASSUME NEW q \in AckQuery, Acknowledge(q)
      PROVE  Shown'
  <2> DEFINE a == [query |-> q, print |-> Fingerprint(q), shown |-> Due(q)]
  <2>1. acks' = acks \cup {a}
      BY <1>2 DEF Acknowledge
  <2>2. a.shown = a.print.excluded
      BY DEF Fingerprint
  <2> HIDE DEF a
  <2> QED
      BY <2>1, <2>2 DEF Shown
<1>3. CASE AckExpires
    BY <1>3 DEF AckExpires, Shown
<1>4. ASSUME NEW o \in Operator, PromoteChange(o)
      PROVE  UNCHANGED acks
    BY <1>4 DEF PromoteChange, files
<1>5. ASSUME NEW o \in Operator,
             \/ Begins(o) \/ PromoteHorizon(o) \/ RejectChange(o) \/ EditChange(o)
             \/ WriteAudit(o) \/ WriteReceipt(o) \/ AppendDecision(o) \/ Die(o)
      PROVE  UNCHANGED acks
    BY <1>5 DEF Begins, PromoteHorizon, RejectChange, EditChange, WriteAudit, WriteReceipt,
                AppendDecision, Die, files
<1>6. ASSUME \/ \E o \in Operator : Records(o)
             \/ (\E e \in DOMAIN entries : FallDue(e)) \/ UNCHANGED vars
      PROVE  UNCHANGED acks
    BY <1>6, RecordFacts DEF FallDue, vars, files
<1>7. CASE Next
    BY <1>1, <1>2, <1>3, <1>4, <1>5, <1>6, <1>7, NextCases
<1> QED
    BY <1>1, <1>6, <1>7

-----------------------------------------------------------------------------
\* The invariant holds at the start.

LEMMA WInvInit == Init => WInv
<1> SUFFICES ASSUME Init
             PROVE  WInv
    OBVIOUS
<1> USE BoundFacts
<1>1. PICK said \in [1..Existing -> Claim], known \in [1..Existing -> Degree] :
        entries = [e \in 1..Existing |->
          [NewEntry(NewCandidate(e, said[e], known[e], 0), 0) EXCEPT !.review = "ahead"]]
    BY DEF Init
<1>2. PICK claims \in [1..Waiting -> Claim], degrees \in [1..Waiting -> Degree] :
        /\ IsInjective(claims)
        /\ candidates = {NewCandidate(Existing + i, claims[i], degrees[i], 0) : i \in 1..Waiting}
    BY DEF Init
<1>3. 0 \in Time
    BY DEF Time
<1>4. ASSUME NEW e \in 1..Existing
      PROVE  entries[e] \in EntryRecord /\ entries[e].from = e
  <2> DEFINE c == NewCandidate(e, said[e], known[e], 0)  n == NewEntry(c, 0)
  <2>1. c \in CandidateRecord /\ c.id = e
    <3>1. e \in Candidate /\ said[e] \in Claim /\ known[e] \in Degree
        BY DEF Candidate
    <3> QED
        BY <1>3, <3>1, NewCandidateFacts
  <2> HIDE DEF c
  <2>2. n \in EntryRecord /\ n.from = e
      BY <1>3, <2>1, NewEntryFacts DEF CandidateRecord
  <2>3. entries[e] = [n EXCEPT !.review = "ahead"]
      BY <1>1 DEF n, c
  <2> HIDE DEF n
  <2> QED
      BY <2>2, <2>3 DEF EntryRecord
<1>5. entries \in [1..Existing -> EntryRecord]
    BY <1>1, <1>4
<1>6. entries \in Seq(EntryRecord) /\ Len(entries) = Existing /\ DOMAIN entries = 1..Existing
  <2>1. entries \in Seq(EntryRecord)
      BY <1>5, SeqDef
  <2> QED
      BY <1>5, <2>1, LenProperties
<1>7. ASSUME NEW c \in candidates
      PROVE  /\ c \in CandidateRecord
             /\ \E i \in 1..Waiting :
                  /\ c = NewCandidate(Existing + i, claims[i], degrees[i], 0)
                  /\ c.id = Existing + i /\ c.claim = claims[i]
  <2>1. PICK i \in 1..Waiting : c = NewCandidate(Existing + i, claims[i], degrees[i], 0)
      BY <1>2
  <2>2. Existing + i \in Candidate /\ claims[i] \in Claim /\ degrees[i] \in Degree
      BY DEF Candidate
  <2> QED
      BY <1>3, <2>1, <2>2, NewCandidateFacts
<1>8. \A c, d \in candidates : c.claim = d.claim => c = d
  <2> SUFFICES ASSUME NEW c \in candidates, NEW d \in candidates, c.claim = d.claim
               PROVE  c = d
      OBVIOUS
  <2>1. PICK i \in 1..Waiting : /\ c = NewCandidate(Existing + i, claims[i], degrees[i], 0)
                                /\ c.claim = claims[i]
      BY <1>7
  <2>2. PICK j \in 1..Waiting : /\ d = NewCandidate(Existing + j, claims[j], degrees[j], 0)
                                /\ d.claim = claims[j]
      BY <1>7
  <2>3. claims[i] = claims[j]
      BY <2>1, <2>2
  <2>4. i = j
      BY <1>2, <2>3 DEF IsInjective
  <2> QED
      BY <2>1, <2>2, <2>4
<1>9. /\ decisions = {} /\ acks = {} /\ receipts = 1..Existing /\ halved = {} /\ cut = {}
      /\ clock = 0 /\ recorded = Existing + Waiting /\ changes = audit
      /\ audit = {Line("promote", e, 0) : e \in 1..Existing}
      /\ ops = [o \in Operator |-> Idle]
    BY DEF Init
<1>10. StoreOK
    BY <1>3, <1>6, <1>7, <1>8, <1>9 DEF StoreOK
<1>11. OpsOK
    BY <1>9, IdleOK DEF OpsOK
<1>12. Given
  <2>1. \A c \in candidates : c.id <= recorded
      BY <1>7, <1>9
  <2>2. \A e \in DOMAIN entries : entries[e].from \in 1..recorded
      BY <1>4, <1>6, <1>9
  <2>3. \A x \in changes : x.action # "reject"
      BY <1>9 DEF Line
  <2> QED
      BY <2>1, <2>2, <2>3 DEF Given
<1>13. Fates
  <2> SUFFICES ASSUME NEW k \in 1..recorded
               PROVE  Fate(k)
      BY DEF Fates
  <2>1. RejectsOf(k) = {}
      BY <1>9 DEF RejectsOf, Line
  <2>2. CASE k \in 1..Existing
    <3>1. FromOf(k) = {k}
        BY <1>4, <1>6, <1>9, <2>2 DEF FromOf
    <3>2. WaitsAs(k) = {}
        BY <1>7, <2>2 DEF WaitsAs
    <3> QED
        BY <2>1, <3>1, <3>2 DEF Fate, Single
  <2>3. CASE k \notin 1..Existing
    <3>1. PICK i \in 1..Waiting : k = Existing + i
      <4>1. k - Existing \in 1..Waiting /\ k = Existing + (k - Existing)
          BY <1>9, <2>3
      <4> QED
          BY <4>1
    <3>2. PICK c : c = NewCandidate(Existing + i, claims[i], degrees[i], 0)
        OBVIOUS
    <3>3. c \in candidates /\ c.id = k
        BY <1>2, <3>1, <3>2 DEF NewCandidate
    <3>4. ASSUME NEW d \in candidates, d.id = k
          PROVE  d = c
      <4>1. PICK j \in 1..Waiting : /\ d = NewCandidate(Existing + j, claims[j], degrees[j], 0)
                                    /\ d.id = Existing + j
          BY <1>7
      <4>2. i = j
          BY <3>1, <3>4, <4>1
      <4> QED
          BY <3>2, <4>1, <4>2
    <3>5. WaitsAs(k) = {c}
        BY <3>3, <3>4 DEF WaitsAs
    <3>6. FromOf(k) = {}
        BY <1>4, <1>6, <2>3 DEF FromOf
    <3> QED
        BY <2>1, <3>5, <3>6 DEF Fate, Single
  <2> QED
      BY <2>2, <2>3
<1>14. Noting
  <2>1. \A o \in Operator : ~Unwritten(ops[o]) /\ ops[o].step # "receipt"
      BY <1>9, IdleFacts DEF Unwritten
  <2>2. \A e \in receipts : Audited(e)
    <3> SUFFICES ASSUME NEW e \in 1..Existing
                 PROVE  Audited(e)
        BY <1>9
    <3>1. Line("promote", e, 0) \in audit
        BY <1>9
    <3> QED
        BY <3>1 DEF Audited, Line
  <2> QED
      BY <1>9, <2>1, <2>2 DEF Noting
<1>15. Shown
    BY <1>9 DEF Shown
<1> QED
    BY <1>10, <1>11, <1>12, <1>13, <1>14, <1>15 DEF WInv

-----------------------------------------------------------------------------
\* What was seen of the proposals that are hidden.

Leaves(o) == \A x \in Operator : x # o => ops'[x] = ops[x]
Ends(o) ==
  /\ ops'[o] = Idle /\ UNCHANGED clock
  /\ \/ UNCHANGED decisions
     \/ ops[o].kind = "close" /\ decisions' = decisions \cup {ViewOf(ops[o])}
GoesOn(o) ==
  /\ ops'[o].kind = ops[o].kind /\ ops'[o].now = ops[o].now /\ ops[o].kind # "close"
  /\ UNCHANGED <<clock, decisions>>
Fresh(p, saw) == [on |-> p, at |-> clock + 1, saw |-> saw]
Starts(o) ==
  /\ ops[o] = Idle /\ clock' = clock + 1 /\ ops'[o].now = clock + 1
  /\ ops'[o].kind = "close" =>
       \E p \in Proposals : \E saw \in {Look(p), ByHand} : ViewOf(ops'[o]) = Fresh(p, saw)
  /\ UNCHANGED <<files, history, recorded>>

LEMMA OpsMove ==
  ASSUME StoreOK, OpsOK, Given, [Next]_vars
  PROVE  \/ UNCHANGED <<ops, decisions, clock>>
         \/ \E o \in Operator : Leaves(o) /\ (Ends(o) \/ GoesOn(o) \/ Starts(o))
<1>1. ASSUME NEW o \in Operator, Done(o), UNCHANGED <<clock, decisions>>
      PROVE  Leaves(o) /\ Ends(o)
    BY <1>1, DoneFacts DEF Leaves, Ends
<1>2. ASSUME NEW o \in Operator, NEW s, To(o, s), ops[o].kind # "close",
             UNCHANGED <<clock, decisions>>
      PROVE  Leaves(o) /\ GoesOn(o)
  <2>1. /\ ops'[o] = [kind |-> ops[o].kind, on |-> ops[o].on, arg |-> ops[o].arg,
                       now |-> ops[o].now, step |-> s]
        /\ Leaves(o)
      BY <1>2, ToFacts DEF Leaves
  <2> QED
      BY <1>2, <2>1 DEF GoesOn
<1>3. ASSUME NEW o \in Operator, PromoteChange(o)
      PROVE  Leaves(o) /\ (Ends(o) \/ GoesOn(o))
  <2>1. UNCHANGED <<clock, decisions>> /\ ops[o].kind = "promote"
      BY <1>3, PromoteFacts DEF PromoteChange, files
  <2>2. CASE Done(o)
      BY <1>1, <2>1, <2>2
  <2>3. CASE Entered(o)
    <3>1. /\ ops'[o] = [kind |-> ops[o].kind, on |-> Len(entries) + 1, arg |-> ops[o].arg,
                         now |-> ops[o].now,
                         step |-> IF ops[o].arg = "none" THEN "audit" ELSE "horizon"]
          /\ Leaves(o)
        BY <2>3, EnteredFacts DEF Leaves
    <3> QED
        BY <2>1, <3>1 DEF GoesOn
  <2> QED
      BY <1>3, <2>2, <2>3, PromoteFacts
<1>4. ASSUME NEW o \in Operator, PromoteHorizon(o)
      PROVE  Leaves(o) /\ GoesOn(o)
  <2>1. ops[o].kind = "promote"
      BY <1>4 DEF PromoteHorizon, At, OpsOK, CommandOK, Idle
  <2> QED
      BY <1>2, <1>4, <2>1 DEF PromoteHorizon
<1>5. ASSUME NEW o \in Operator, RejectChange(o)
      PROVE  Leaves(o) /\ (Ends(o) \/ GoesOn(o))
    BY <1>1, <1>2, <1>5 DEF RejectChange
<1>6. ASSUME NEW o \in Operator, EditChange(o)
      PROVE  Leaves(o) /\ GoesOn(o)
    BY <1>2, <1>6 DEF EditChange, Edits
<1>7. ASSUME NEW o \in Operator, WriteAudit(o)
      PROVE  Leaves(o) /\ (Ends(o) \/ GoesOn(o))
    BY <1>1, <1>2, <1>7 DEF WriteAudit
<1>8. ASSUME NEW o \in Operator, WriteReceipt(o) \/ Die(o)
      PROVE  Leaves(o) /\ Ends(o)
    BY <1>1, <1>8 DEF WriteReceipt, Die, files
<1>9. ASSUME NEW o \in Operator, AppendDecision(o)
      PROVE  Leaves(o) /\ Ends(o)
  <2>1. ops[o].kind = "close"
      BY <1>9 DEF AppendDecision, At, OpsOK, CommandOK, Idle
  <2> QED
      BY <1>9, <2>1, DoneFacts DEF AppendDecision, Leaves, Ends, ViewOf
<1>10. ASSUME NEW o \in Operator, Begins(o)
       PROVE  Leaves(o) /\ Starts(o)
  <2>1. PICK y : /\ CommandOK(y) /\ y.step \in {"change", "append"} /\ y.now = clock + 1
                 /\ y.kind = "close" =>
                      \E p \in Proposals : y.on = p /\ y.arg \in {Look(p), ByHand}
                 /\ ops' = [ops EXCEPT ![o] = y]
      BY <1>10 DEF Begins
  <2>2. ops'[o] = y /\ Leaves(o)
      BY <2>1, SetFacts DEF Leaves
  <2> QED
      BY <1>10, <2>1, <2>2 DEF Begins, Starts, Free, ViewOf, Fresh
<1>11. ASSUME \/ AckExpires \/ (\E q \in AckQuery : Acknowledge(q))
              \/ (\E e \in DOMAIN entries : FallDue(e)) \/ UNCHANGED vars
       PROVE  UNCHANGED <<ops, decisions, clock>>
    BY <1>11 DEF AckExpires, Acknowledge, FallDue, vars, files
<1>12. ASSUME NEW o \in Operator, Records(o)
       PROVE  UNCHANGED <<ops, decisions, clock>> \/ (Leaves(o) /\ Ends(o))
    BY <1>1, <1>12, RecordFacts
<1>13. CASE Next
    BY <1>3, <1>4, <1>5, <1>6, <1>7, <1>8, <1>9, <1>10, <1>11, <1>12, <1>13, NextCases
<1> QED
    BY <1>11, <1>13

LEMMA TimesAreNat ==
  ASSUME StoreOK, OpsOK
  PROVE  /\ clock \in Nat /\ \A o \in Operator : ops[o].now \in Nat
         /\ \A d \in decisions : d.at \in Nat
BY BoundFacts DEF StoreOK, OpsOK, CommandOK, Time

LEMMA TimelyStep == StoreOK /\ OpsOK /\ Given /\ Timely /\ [Next]_vars => Timely'
<1> SUFFICES ASSUME StoreOK, OpsOK, Given, Timely, [Next]_vars
             PROVE  Timely'
    OBVIOUS
<1> USE TimesAreNat
<1>1. CASE UNCHANGED <<ops, decisions, clock>>
    BY <1>1 DEF Timely
<1>2. ASSUME NEW o \in Operator, Leaves(o), Ends(o)
      PROVE  Timely'
  <2>1. ~Busy(ops[o])'
      BY <1>2, IdleFacts DEF Ends, Busy
  <2>2. ops[o].kind = "close" => Busy(ops[o])
      BY DEF Busy
  <2>3. ViewOf(ops[o]).at = ops[o].now
      BY DEF ViewOf
  <2> QED
      BY <1>2, <2>1, <2>2, <2>3 DEF Timely, Leaves, Ends
<1>3. ASSUME NEW o \in Operator, Leaves(o), GoesOn(o)
      PROVE  Timely'
    BY <1>3 DEF Timely, Leaves, GoesOn, Busy
<1>4. ASSUME NEW o \in Operator, Leaves(o), Starts(o)
      PROVE  Timely'
    BY <1>4 DEF Timely, Leaves, Starts, files
<1> QED
    BY <1>1, <1>2, <1>3, <1>4, OpsMove

\* A view is of the past, and a view that comes is of what there is.
LEMMA ViewsMove ==
  ASSUME StoreOK, OpsOK, Given, [Next]_vars
  PROVE  \/ Views' \subseteq Views
         \/ /\ clock' = clock + 1 /\ UNCHANGED <<files, history, recorded>>
            /\ \E p \in Proposals : \E saw \in {Look(p), ByHand} :
                 Views' \subseteq Views \cup {Fresh(p, saw)}
<1>1. CASE UNCHANGED <<ops, decisions>>
    BY <1>1 DEF Views, Closing
<1>2. ASSUME NEW o \in Operator, Leaves(o), Ends(o)
      PROVE  Views' \subseteq Views
    BY <1>2, IdleFacts DEF Leaves, Ends, Views, Closing
<1>3. ASSUME NEW o \in Operator, Leaves(o), GoesOn(o)
      PROVE  Views' \subseteq Views
    BY <1>3 DEF Leaves, GoesOn, Views, Closing
<1>4. ASSUME NEW o \in Operator, Leaves(o), Starts(o)
      PROVE  \/ Views' \subseteq Views
             \/ \E p \in Proposals : \E saw \in {Look(p), ByHand} :
                  Views' \subseteq Views \cup {Fresh(p, saw)}
  <2>1. UNCHANGED decisions
      BY <1>4 DEF Starts, files
  <2>2. CASE ops'[o].kind = "close"
    <3>1. PICK p \in Proposals : \E saw \in {Look(p), ByHand} : ViewOf(ops'[o]) = Fresh(p, saw)
        BY <1>4, <2>2 DEF Starts
    <3> QED
        BY <1>4, <2>1, <3>1 DEF Leaves, Views, Closing
  <2>3. CASE ops'[o].kind # "close"
      BY <1>4, <2>1, <2>3 DEF Leaves, Views, Closing
  <2> QED
      BY <2>2, <2>3
<1>5. ASSUME NEW o \in Operator, Starts(o)
      PROVE  clock' = clock + 1 /\ UNCHANGED <<files, history, recorded>>
    BY <1>5 DEF Starts
<1> QED
    BY <1>1, <1>2, <1>3, <1>4, <1>5, OpsMove

LEMMA ViewsLooked ==
  ASSUME StoreOK, OpsOK, Given, [Next]_vars, NEW v \in Views', v.saw # ByHand
  PROVE  v \in Views \/ (UNCHANGED files /\ \E p \in Proposals : v = Fresh(p, Look(p)))
<1>1. ASSUME NEW p \in Proposals, v = Fresh(p, ByHand)
      PROVE  FALSE
    BY <1>1 DEF Fresh
<1> QED
    BY <1>1, ViewsMove

LEMMA ViewTimes ==
  ASSUME StoreOK, OpsOK, Timely, NEW v \in Views
  PROVE  v.at \in Nat /\ v.at <= clock
<1>1. CASE v \in decisions
    BY <1>1, TimesAreNat DEF Timely
<1>2. ASSUME NEW o \in Closing, v = ViewOf(ops[o])
      PROVE  v.at \in Nat /\ v.at <= clock
    BY <1>2, TimesAreNat DEF Timely, Closing, Busy, ViewOf
<1> QED
    BY <1>1, <1>2 DEF Views

\* A command that writes an entry gives it its own time, and notes the entry
\* when others have taken a later one.
Writes(o, e) ==
  /\ Busy(ops[o]) /\ ops[o].kind # "close" /\ UNCHANGED <<clock, decisions>>
  /\ entries'[e].updated = ops[o].now /\ Noted(o, <<"entry", e>>)
  /\ DOMAIN entries \subseteq DOMAIN entries' /\ DOMAIN entries' \subseteq DOMAIN entries \cup {e}
  /\ \A d \in DOMAIN entries : d # e => entries'[d] = entries[d]
Kept ==
  /\ DOMAIN entries' = DOMAIN entries /\ SameMarks("entry")
  /\ \A e \in DOMAIN entries : SameContent(entries'[e], entries[e])

LEMMA WrittenMove ==
  ASSUME StoreOK, OpsOK, Given, [Next]_vars
  PROVE  Kept \/ \E o \in Operator, e \in DOMAIN entries' : Writes(o, e)
<1>1. ASSUME UNCHANGED <<entries, contended>>
      PROVE  Kept
    BY <1>1 DEF Kept, SameContent, SameMarks
<1>2. ASSUME NEW o \in Operator, PromoteChange(o)
      PROVE  Kept \/ \E e \in DOMAIN entries' : Writes(o, e)
  <2>1. CASE UNCHANGED <<files, history>>
      BY <1>1, <2>1 DEF files, history
  <2>2. ASSUME NEW r \in EntryRecord, r.updated = ops[o].now,
               Noted(o, <<"entry", Len(entries) + 1>>), entries' = Append(entries, r),
               UNCHANGED <<clock, decisions>>
        PROVE  \E e \in DOMAIN entries' : Writes(o, e)
    <3>1. PICK e : e = Len(entries) + 1
        OBVIOUS
    <3>2. /\ DOMAIN entries' = DOMAIN entries \cup {e}
          /\ entries'[e] = r /\ \A d \in DOMAIN entries : entries'[d] = entries[d]
        BY <2>2, <3>1, AppendProperties, EntriesFacts, LenProperties DEF StoreOK
    <3>3. ops[o].kind = "promote"
        BY <1>2 DEF PromoteChange
    <3> QED
        BY <2>2, <3>1, <3>2, <3>3 DEF Writes, Busy
  <2> QED
      BY <1>2, <2>1, <2>2, PromoteFacts
<1>3. ASSUME NEW o \in Operator, EditChange(o)
      PROVE  \E e \in DOMAIN entries' : Writes(o, e)
  <2>1. PICK r \in EntryRecord :
           /\ ops[o].on \in DOMAIN entries /\ r.updated = ops[o].now
           /\ entries' = [entries EXCEPT ![ops[o].on] = r]
      BY <1>3, EditFacts
  <2>2. /\ Busy(ops[o]) /\ ops[o].kind # "close" /\ UNCHANGED <<clock, decisions>>
        /\ Noted(o, <<"entry", ops[o].on>>)
      BY <1>3 DEF EditChange, Busy, Edits
  <2> QED
      BY <2>1, <2>2 DEF Writes
<1>4. ASSUME NEW o \in Operator, PromoteHorizon(o)
      PROVE  \E e \in DOMAIN entries' : Writes(o, e)
  <2>1. PICK r \in EntryRecord :
           /\ ops[o].on \in DOMAIN entries /\ r.updated = ops[o].now
           /\ entries' = [entries EXCEPT ![ops[o].on] = r]
      BY <1>4, HorizonFacts
  <2>2. ops[o].kind = "promote"
      BY <1>4 DEF PromoteHorizon, At, OpsOK, CommandOK, Idle
  <2>3. /\ Busy(ops[o]) /\ ops[o].kind # "close" /\ UNCHANGED <<clock, decisions>>
        /\ Noted(o, <<"entry", ops[o].on>>)
      BY <1>4, <2>2 DEF PromoteHorizon, Busy
  <2> QED
      BY <2>1, <2>3 DEF Writes
<1>5. ASSUME NEW e \in DOMAIN entries, FallDue(e)
      PROVE  Kept
  <2>1. PICK r \in EntryRecord :
          entries' = [entries EXCEPT ![e] = r] /\ SameContent(r, entries[e])
      BY <1>5, DueFacts
  <2> QED
      BY <1>5, <2>1 DEF Kept, SameContent, SameMarks, FallDue, history
<1>6. ASSUME NEW o \in Operator,
             \/ Begins(o) \/ RejectChange(o) \/ WriteAudit(o) \/ WriteReceipt(o)
             \/ AppendDecision(o) \/ Die(o)
      PROVE  Kept
  <2>1. UNCHANGED <<entries, contended>>
      BY <1>6 DEF Begins, RejectChange, WriteAudit, WriteReceipt, AppendDecision, Die, files,
                  history
  <2> QED
      BY <1>1, <2>1
<1>7. ASSUME AckExpires \/ (\E q \in AckQuery : Acknowledge(q)) \/ UNCHANGED vars
      PROVE  Kept
  <2>1. UNCHANGED <<entries, contended>>
      BY <1>7 DEF AckExpires, Acknowledge, vars, files, history
  <2> QED
      BY <1>1, <2>1
<1>8. ASSUME NEW o \in Operator, Records(o)
      PROVE  Kept
    BY <1>8, RecordFacts DEF Kept, SameContent
<1>9. CASE Next
    BY <1>2, <1>3, <1>4, <1>5, <1>6, <1>7, <1>8, <1>9, NextCases
<1> QED
    BY <1>7, <1>9

\* What a command notes without a mark, it changes later than anyone looked.
LEMMA LaterThanViews ==
  ASSUME StoreOK, OpsOK, Timely, NEW o \in Operator, Busy(ops[o]), ops[o].kind # "close",
         NEW subject, Noted(o, subject), subject \notin contended', NEW v \in Views
  PROVE  ~(ops[o].now <= v.at)
<1>1. v.at \in Nat /\ v.at <= clock /\ clock \in Nat /\ ops[o].now \in Nat
    BY ViewTimes, TimesAreNat
<1>2. v.at # ops[o].now
  <2>1. CASE v \in decisions
      BY <2>1 DEF Timely
  <2>2. ASSUME NEW x \in Closing, v = ViewOf(ops[x])
        PROVE  v.at # ops[o].now
      BY <2>2 DEF Timely, Closing, Busy, ViewOf
  <2> QED
      BY <2>1, <2>2 DEF Views
<1>3. clock = ops[o].now
    BY DEF Noted
<1> QED
    BY <1>1, <1>2, <1>3

LEMMA Unsettled ==
  ASSUME StoreOK, OpsOK, Timely, NEW o \in Operator, NEW e, Writes(o, e), NEW v \in Views
  PROVE  ~Settled(e, v.at)'
<1>1. Busy(ops[o]) /\ ops[o].kind # "close" /\ Noted(o, <<"entry", e>>)
    BY DEF Writes
<1>2. <<"entry", e>> \notin contended' => ~(ops[o].now <= v.at)
    BY <1>1, LaterThanViews
<1>3. entries'[e].updated = ops[o].now
    BY DEF Writes
<1> QED
    BY <1>2, <1>3 DEF Settled

LEMMA OthersSettled ==
  ASSUME NEW o \in Operator, NEW e, Writes(o, e), NEW d \in DOMAIN entries, d # e, NEW t,
         Settled(d, t)'
  PROVE  Settled(d, t) /\ entries'[d] = entries[d]
<1>1. <<"entry", d>> # <<"entry", e>>
    OBVIOUS
<1>2. <<"entry", d>> \notin contended' => <<"entry", d>> \notin contended
    BY <1>1 DEF Writes, Noted
<1> QED
    BY <1>2 DEF Writes, Settled

LEMMA WritesKeepsViews ==
  ASSUME StoreOK, OpsOK, Given, [Next]_vars, NEW o \in Operator, NEW e, Writes(o, e)
  PROVE  Views' \subseteq Views
BY ViewsMove, TimesAreNat DEF Writes

LEMMA GroundsFacts ==
  ASSUME NEW p
  PROVE  /\ p.action = "renew" => Grounds(p) = {FirstGround(p.subject[2])}
         /\ p.action = "merge" => Grounds(p) = {ToString(d) : d \in Duplicates(p.subject[2])}
         /\ p.action \notin {"renew", "merge"} => Grounds(p) = {}
BY DEF Grounds

LEMMA ProposalFacts ==
  ASSUME NEW p \in Proposals
  PROVE  \/ /\ p.action = "promote"
            /\ \E c \in candidates : p.subject = <<"candidate", c.id>>
         \/ /\ p.action \in {"renew", "deprecate", "split", "merge"}
            /\ \E e \in Promoted : p.subject = <<"entry", e>>
BY DEF Proposals, Proposal

LEMMA SubjectsStep == StoreOK /\ OpsOK /\ Given /\ Subjects /\ [Next]_vars => Subjects'
<1> SUFFICES ASSUME StoreOK, OpsOK, Given, Subjects, [Next]_vars, NEW v \in Views'
             PROVE  \/ \E c \in 1..recorded' : v.on.subject = <<"candidate", c>>
                    \/ \E e \in DOMAIN entries' : v.on.subject = <<"entry", e>>
    BY DEF Subjects
<1>1. DOMAIN entries \subseteq DOMAIN entries' /\ 1..recorded \subseteq 1..recorded'
    BY EntriesGrow, RecordedGrows
<1>2. CASE v \in Views
    BY <1>1, <1>2 DEF Subjects
<1>3. ASSUME NEW p \in Proposals, NEW saw, v = Fresh(p, saw)
      PROVE  \/ \E c \in 1..recorded' : v.on.subject = <<"candidate", c>>
             \/ \E e \in DOMAIN entries' : v.on.subject = <<"entry", e>>
  <2>1. v.on = p
      BY <1>3 DEF Fresh
  <2>2. ASSUME NEW c \in candidates
        PROVE  c.id \in 1..recorded
      BY BoundFacts DEF StoreOK, Given, CandidateRecord, Candidate
  <2> QED
      BY <1>1, <2>1, <2>2, ProposalFacts DEF Promoted
<1> QED
    BY <1>2, <1>3, ViewsMove

LEMMA UniqueIds ==
  ASSUME Fates, NEW c \in candidates, NEW d \in candidates, c.id = d.id, c.id \in 1..recorded
  PROVE  c = d
<1>1. c \in WaitsAs(c.id) /\ d \in WaitsAs(c.id) /\ Fate(c.id)
    BY DEF WaitsAs, Fates
<1> QED
    BY <1>1 DEF Fate, Single

LEMMA SawCandidateStep ==
  StoreOK /\ OpsOK /\ Given /\ Fates /\ Timely /\ Subjects /\ SawCandidate /\ [Next]_vars
    => SawCandidate'
<1> SUFFICES ASSUME StoreOK, OpsOK, Given, Fates, Timely, Subjects, SawCandidate, [Next]_vars,
                    NEW v \in Views', NEW c \in candidates',
                    v.on.subject = <<"candidate", c.id>>, v.saw # ByHand,
                    c.updated <= v.at, <<"candidate", c.id>> \notin contended'
             PROVE  v.saw[1] = CandidateContent(c)
    BY Zenon DEF SawCandidate, CandidateContent, ByHand
<1>0. ASSUME v \in Views, c \in candidates, <<"candidate", c.id>> \notin contended
      PROVE  v.saw[1] = CandidateContent(c)
    BY <1>0 DEF SawCandidate
<1>1. CASE v \in Views
  <2>1. c.id \in 1..recorded /\ recorded \in Nat
    <3>1. \/ \E d \in 1..recorded : v.on.subject = <<"candidate", d>>
          \/ \E e \in DOMAIN entries : v.on.subject = <<"entry", e>>
        BY <1>1 DEF Subjects
    <3> QED
        BY <3>1, BoundFacts DEF StoreOK
  <2>2. CASE Recounted
    <3>1. PICK o \in Operator, d \in candidates, n \in CandidateRecord :
            /\ ops[o].kind = "record" /\ Noted(o, <<"candidate", d.id>>)
            /\ n.id = d.id /\ n.updated = ops[o].now
            /\ candidates' = (candidates \ {d}) \cup {n}
        BY <2>2 DEF Recounted
    <3>2. CASE c = n
      <4>1. Busy(ops[o]) /\ ops[o].kind # "close"
          BY <3>1 DEF Busy
      <4>2. <<"candidate", d.id>> \notin contended'
          BY <3>1, <3>2
      <4>3. ~(ops[o].now <= v.at)
          BY <1>1, <3>1, <4>1, <4>2, LaterThanViews
      <4> QED
          BY <3>1, <3>2, <4>3
    <3>3. CASE c # n
      <4>1. c \in candidates /\ c # d
          BY <3>1, <3>3
      <4>2. c.id # d.id
          BY <2>1, <4>1, UniqueIds
      <4>3. <<"candidate", c.id>> # <<"candidate", d.id>>
          BY <4>2
      <4>4. <<"candidate", c.id>> \notin contended
          BY <3>1, <4>3 DEF Noted
      <4> QED
          BY <1>0, <1>1, <4>1, <4>4
    <3> QED
        BY <3>2, <3>3
  <2>3. CASE NewOnFile
    <3>1. PICK o \in Operator, d \in CandidateRecord :
            /\ Noted(o, <<"candidate", d.id>>) /\ d.id = recorded + 1
            /\ candidates' = candidates \cup {d}
        BY <2>3 DEF NewOnFile
    <3>2. c.id # d.id
        BY <2>1, <3>1
    <3>3. c \in candidates /\ <<"candidate", c.id>> # <<"candidate", d.id>>
        BY <3>1, <3>2
    <3>4. <<"candidate", c.id>> \notin contended
        BY <3>1, <3>3 DEF Noted
    <3> QED
        BY <1>0, <1>1, <3>3, <3>4
  <2>4. CASE OnlyGo
      BY <1>0, <1>1, <2>4 DEF OnlyGo, SameMarks
  <2> QED
      BY <2>2, <2>3, <2>4, CandidatesMove
<1>2. ASSUME NEW p \in Proposals, v = Fresh(p, Look(p)), UNCHANGED candidates
      PROVE  v.saw[1] = CandidateContent(c)
  <2>1. p.subject = <<"candidate", c.id>> /\ v.saw[1] = Content(p)
      BY <1>2 DEF Fresh, Look
  <2>2. p.subject[1] = "candidate" /\ p.subject[2] = c.id
      BY <2>1
  <2>3. c \in candidates
      BY <1>2
  <2>4. CandidateOf(c.id) = c
    <3>1. CandidateOf(c.id) \in candidates /\ CandidateOf(c.id).id = c.id
        BY <2>3, CandidateOfFacts
    <3>2. c.id \in 1..recorded
        BY <2>3, BoundFacts DEF StoreOK, Given, CandidateRecord, Candidate
    <3> QED
        BY <2>3, <3>1, <3>2, UniqueIds
  <2> QED
      BY <2>1, <2>2, <2>4 DEF Content, CandidateContent
<1> QED
    BY <1>1, <1>2, ViewsLooked DEF files

LEMMA SawEntryStep ==
  StoreOK /\ OpsOK /\ Given /\ Timely /\ Subjects /\ SawEntry /\ [Next]_vars => SawEntry'
<1> SUFFICES ASSUME StoreOK, OpsOK, Given, Timely, Subjects, SawEntry, [Next]_vars,
                    NEW v \in Views', NEW e \in DOMAIN entries', v.saw # ByHand,
                    v.on.subject = <<"entry", e>>, Settled(e, v.at)'
             PROVE  v.saw[1] = EntryContent(entries'[e])
    BY DEF SawEntry, EntryContent, ByHand
<1>1. CASE v \in Views
  <2>1. e \in DOMAIN entries
    <3>1. \/ \E d \in 1..recorded : v.on.subject = <<"candidate", d>>
          \/ \E d \in DOMAIN entries : v.on.subject = <<"entry", d>>
        BY <1>1 DEF Subjects
    <3> QED
        BY <3>1
  <2>2. CASE Kept
      BY <1>1, <2>1, <2>2 DEF Kept, SameContent, SameMarks, SawEntry, Settled, EntryContent
  <2>3. ASSUME NEW o \in Operator, NEW x \in DOMAIN entries', Writes(o, x)
        PROVE  v.saw[1] = EntryContent(entries'[e])
    <3>1. e # x
        BY <1>1, <2>3, Unsettled
    <3>2. Settled(e, v.at) /\ entries'[e] = entries[e]
        BY <2>1, <2>3, <3>1, OthersSettled
    <3> QED
        BY <1>1, <2>1, <3>2 DEF SawEntry
  <2> QED
      BY <2>2, <2>3, WrittenMove
<1>2. ASSUME NEW p \in Proposals, v = Fresh(p, Look(p)), UNCHANGED entries
      PROVE  v.saw[1] = EntryContent(entries'[e])
  <2>1. p.subject = <<"entry", e>> /\ v.saw[1] = Content(p)
      BY <1>2 DEF Fresh, Look
  <2>2. p.subject[1] # "candidate" /\ p.subject[2] = e
      BY <2>1
  <2> QED
      BY <1>2, <2>1, <2>2 DEF Content, EntryContent
<1> QED
    BY <1>1, <1>2, ViewsLooked DEF files

LEMMA SawRenewalStep ==
  StoreOK /\ OpsOK /\ Given /\ Timely /\ Subjects /\ SawRenewal /\ [Next]_vars => SawRenewal'
<1> SUFFICES ASSUME StoreOK, OpsOK, Given, Timely, Subjects, SawRenewal, [Next]_vars,
                    NEW v \in Views', NEW e \in DOMAIN entries', v.saw # ByHand,
                    v.on.subject = <<"entry", e>>, v.on.action = "renew",
                    Settled(e, v.at)', entries'[e].review # "due"
             PROVE  v.saw[2] = {FirstGround(e)'}
    BY DEF SawRenewal, ByHand, FirstGround
<1>0. ASSUME entries'[e] = entries[e] \/ SameContent(entries'[e], entries[e])
      PROVE  entries[e].review # "due" /\ FirstGround(e)' = FirstGround(e)
    BY <1>0 DEF SameContent, FirstGround
<1>1. CASE v \in Views
  <2>1. e \in DOMAIN entries
    <3>1. \/ \E d \in 1..recorded : v.on.subject = <<"candidate", d>>
          \/ \E d \in DOMAIN entries : v.on.subject = <<"entry", d>>
        BY <1>1 DEF Subjects
    <3> QED
        BY <3>1
  <2>2. CASE Kept
    <3>1. Settled(e, v.at) /\ SameContent(entries'[e], entries[e])
        BY <2>1, <2>2 DEF Kept, SameContent, SameMarks, Settled
    <3> QED
        BY <1>0, <1>1, <2>1, <3>1 DEF SawRenewal
  <2>3. ASSUME NEW o \in Operator, NEW x \in DOMAIN entries', Writes(o, x)
        PROVE  v.saw[2] = {FirstGround(e)'}
    <3>1. e # x
        BY <1>1, <2>3, Unsettled
    <3>2. Settled(e, v.at) /\ entries'[e] = entries[e]
        BY <2>1, <2>3, <3>1, OthersSettled
    <3> QED
        BY <1>0, <1>1, <2>1, <3>2 DEF SawRenewal
  <2> QED
      BY <2>2, <2>3, WrittenMove
<1>2. ASSUME NEW p \in Proposals, v = Fresh(p, Look(p)), UNCHANGED entries
      PROVE  v.saw[2] = {FirstGround(e)'}
  <2>1. p.subject = <<"entry", e>> /\ p.action = "renew" /\ v.saw[2] = Grounds(p)
      BY <1>2 DEF Fresh, Look
  <2>2. p.subject[2] = e
      BY <2>1
  <2>3. v.saw[2] = {FirstGround(e)}
      BY <2>1, <2>2, GroundsFacts
  <2> QED
      BY <1>0, <1>2, <2>3
<1> QED
    BY <1>1, <1>2, ViewsLooked DEF files

LEMMA SawDuplicatesStep ==
  StoreOK /\ OpsOK /\ Given /\ Timely /\ Subjects /\ SawDuplicates /\ [Next]_vars => SawDuplicates'
<1> SUFFICES ASSUME StoreOK, OpsOK, Given, Timely, Subjects, SawDuplicates, [Next]_vars,
                    NEW v \in Views', NEW e \in DOMAIN entries',
                    v.on.subject = <<"entry", e>>, v.on.action = "merge", v.saw # ByHand,
                    Settled(e, v.at)',
                    NEW d \in Duplicates(e)', Settled(d, v.at)'
             PROVE  ToString(d) \in v.saw[2]
    BY DEF SawDuplicates, ByHand
<1>1. /\ d \in DOMAIN entries' /\ entries'[d].promoted /\ d > e
      /\ entries'[d].claim = entries'[e].claim /\ entries'[d].scope = entries'[e].scope
    BY DEF Duplicates, Promoted
<1>2. CASE v \in Views
  <2>1. e \in DOMAIN entries
    <3>1. \/ \E x \in 1..recorded : v.on.subject = <<"candidate", x>>
          \/ \E x \in DOMAIN entries : v.on.subject = <<"entry", x>>
        BY <1>2 DEF Subjects
    <3> QED
        BY <3>1
  <2>2. CASE Kept
    <3>1. d \in Duplicates(e) /\ Settled(e, v.at) /\ Settled(d, v.at)
        BY <1>1, <2>1, <2>2 DEF Kept, SameContent, SameMarks, Settled, Duplicates, Promoted
    <3> QED
        BY <1>2, <2>1, <3>1 DEF SawDuplicates
  <2>3. ASSUME NEW o \in Operator, NEW x \in DOMAIN entries', Writes(o, x)
        PROVE  ToString(d) \in v.saw[2]
    <3>1. e # x /\ d # x
        BY <1>2, <2>3, Unsettled
    <3>2. d \in DOMAIN entries
        BY <1>1, <2>3, <3>1 DEF Writes
    <3>3. Settled(e, v.at) /\ entries'[e] = entries[e]
        BY <2>1, <2>3, <3>1, OthersSettled
    <3>4. Settled(d, v.at) /\ entries'[d] = entries[d]
        BY <3>2, <2>3, <3>1, OthersSettled
    <3>5. d \in Duplicates(e)
        BY <1>1, <3>2, <3>3, <3>4 DEF Duplicates, Promoted
    <3> QED
        BY <1>2, <2>1, <3>3, <3>4, <3>5 DEF SawDuplicates
  <2> QED
      BY <2>2, <2>3, WrittenMove
<1>3. ASSUME NEW p \in Proposals, v = Fresh(p, Look(p)), UNCHANGED entries
      PROVE  ToString(d) \in v.saw[2]
  <2>1. p.subject = <<"entry", e>> /\ p.action = "merge" /\ v.saw[2] = Grounds(p)
      BY <1>3 DEF Fresh, Look
  <2>2. p.subject[2] = e
      BY <2>1
  <2>3. v.saw[2] = {ToString(x) : x \in Duplicates(e)}
      BY <2>1, <2>2, GroundsFacts
  <2>4. d \in Duplicates(e)
      BY <1>1, <1>3 DEF Duplicates, Promoted
  <2> QED
      BY <2>3, <2>4
<1> QED
    BY <1>2, <1>3, ViewsLooked DEF files

LEMMA HasLastStep == StoreOK /\ OpsOK /\ Given /\ HasLast /\ [Next]_vars => HasLast'
<1> SUFFICES ASSUME StoreOK, OpsOK, Given, HasLast, [Next]_vars
             PROVE  HasLast'
    OBVIOUS
<1>1. CASE UNCHANGED decisions
    BY <1>1 DEF HasLast, DecisionsOn
<1>2. ASSUME NEW n, n.at \in Nat, decisions' = decisions \cup {n}
      PROVE  HasLast'
  <2> SUFFICES ASSUME NEW d \in decisions'
               PROVE  \E m \in decisions' :
                        m.on = d.on /\ \A x \in decisions' : x.on = d.on => x.at <= m.at
      BY DEF HasLast, DecisionsOn
  <2>1. CASE \E x \in decisions : x.on = d.on
    <3>1. PICK m \in decisions :
            m.on = d.on /\ \A x \in decisions : x.on = d.on => x.at <= m.at
        BY <2>1 DEF HasLast, DecisionsOn
    <3>2. m.at \in Nat /\ \A x \in decisions : x.at \in Nat
        BY TimesAreNat
    <3>3. CASE n.on = d.on /\ m.at <= n.at
      <4>1. \A x \in decisions' : x.on = d.on => x.at <= n.at
          BY <1>2, <3>1, <3>2, <3>3
      <4> QED
          BY <1>2, <3>3, <4>1
    <3>4. CASE ~(n.on = d.on /\ m.at <= n.at)
      <4>1. \A x \in decisions' : x.on = d.on => x.at <= m.at
          BY <1>2, <3>1, <3>2, <3>4
      <4> QED
          BY <1>2, <3>1, <4>1
    <3> QED
        BY <3>3, <3>4
  <2>2. CASE ~\E x \in decisions : x.on = d.on
      BY <1>2, <2>2
  <2> QED
      BY <2>1, <2>2
<1>3. ASSUME NEW o \in Operator, Ends(o) \/ GoesOn(o) \/ Starts(o)
      PROVE  UNCHANGED decisions \/ decisions' = decisions \cup {ViewOf(ops[o])}
    BY <1>3 DEF Ends, GoesOn, Starts, files
<1>4. \A o \in Operator : ViewOf(ops[o]).at \in Nat
    BY TimesAreNat DEF ViewOf
<1> QED
    BY <1>1, <1>2, <1>3, <1>4, OpsMove

LEMMA SawInit == Init => Saw
<1> SUFFICES ASSUME Init
             PROVE  Saw
    OBVIOUS
<1>1. decisions = {} /\ \A o \in Operator : ops[o] = Idle
    BY DEF Init
<1>2. \A o \in Operator : ~Busy(ops[o]) /\ o \notin Closing
    BY <1>1, IdleFacts DEF Busy, Closing
<1>3. Views = {}
    BY <1>1, <1>2 DEF Views, Closing
<1> QED
    BY <1>1, <1>2, <1>3
    DEF Saw, Timely, Subjects, SawCandidate, SawEntry, SawRenewal, SawDuplicates, HasLast

-----------------------------------------------------------------------------
\* The invariant holds in every reachable state.
THEOREM WInvAlways == Spec => []WInv
<1>1. WInv /\ [Next]_vars => WInv'
    BY StoreStep, OpsStep, GivenStep, FatesStep, NotingStep, ShownStep DEF WInv
<1> QED
    BY WInvInit, <1>1, PTL DEF Spec

\* The files and the commands under way have the shapes the code gives them,
\* and no two candidates on file make the same claim (record_candidate).
THEOREM TypeCorrect == Spec => []TypeOK
<1>1. WInv => TypeOK
  <2> SUFFICES ASSUME WInv
               PROVE  TypeOK
      OBVIOUS
  <2>1. \A o \in Operator :
          ops[o].step \in {"begin", "change", "horizon", "audit", "receipt", "append"}
      BY IdleFacts DEF WInv, OpsOK, CommandOK
  <2> QED
      BY <2>1 DEF WInv, StoreOK, CandidateRecord, TypeOK
<1> QED
    BY WInvAlways, <1>1, PTL

\* Whatever commands of other operators come between, a candidate waits, was
\* promoted once, or was rejected once; no candidate is both, and none is lost
\* (promote_candidate_scoped_with_agent_modes, reject_candidate).
THEOREM OneFateAlways == Spec => []OneFate
<1>1. WInv => OneFate
  <2> SUFFICES ASSUME WInv, NEW c \in 1..recorded
               PROVE  Cardinality(FromOf(c)) + Cardinality(WaitsAs(c))
                        + Cardinality(RejectsOf(c)) = 1
      BY DEF OneFate, FromOf, WaitsAs, RejectsOf
  <2>1. Fate(c)
      BY DEF WInv, Fates
  <2>2. Cardinality({}) = 0
      BY FS_EmptySet
  <2>3. ASSUME NEW S, Single(S)
        PROVE  Cardinality(S) = 1
      BY <2>3, FS_Singleton DEF Single
  <2>4. CASE Single(FromOf(c)) /\ WaitsAs(c) = {} /\ RejectsOf(c) = {}
    <3>1. Cardinality(FromOf(c)) = 1
        BY <2>3, <2>4
    <3> QED
        BY <2>2, <2>4, <3>1
  <2>5. CASE FromOf(c) = {} /\ Single(WaitsAs(c)) /\ RejectsOf(c) = {}
    <3>1. Cardinality(WaitsAs(c)) = 1
        BY <2>3, <2>5
    <3> QED
        BY <2>2, <2>5, <3>1
  <2>6. CASE FromOf(c) = {} /\ WaitsAs(c) = {} /\ Single(RejectsOf(c))
    <3>1. Cardinality(RejectsOf(c)) = 1
        BY <2>3, <2>6
    <3> QED
        BY <2>2, <2>6, <3>1
  <2> QED
      BY <2>1, <2>4, <2>5, <2>6 DEF Fate
<1> QED
    BY WInvAlways, <1>1, PTL

\* Every change has its audit line, but for commands that are under way or
\* died before it; there is no line without a change, and no receipt without
\* its line (append_audit, write_promotion_receipt).
THEOREM AuditIsTrueAlways == Spec => []AuditIsTrue
<1>1. WInv => AuditIsTrue
  <2> SUFFICES ASSUME WInv
               PROVE  AuditIsTrue
      OBVIOUS
  <2>1. audit \subseteq changes /\ \A e \in receipts : Audited(e)
      BY DEF WInv, Noting
  <2>2. ASSUME NEW x \in changes, x \notin audit \cup cut
        PROVE  x \in UnderWay
    <3>1. PICK o \in Operator : Unwritten(ops[o]) /\ LineOf(ops[o]) = x
        BY <2>2 DEF WInv, Noting
    <3>2. At(o, "horizon") \/ At(o, "audit")
        BY <3>1 DEF Unwritten, At
    <3>3. x = Made(o, ops[o].on)
        BY <3>1 DEF LineOf, Made
    <3> QED
        BY <3>2, <3>3 DEF UnderWay
  <2> QED
      BY <2>1, <2>2 DEF AuditIsTrue
<1> QED
    BY WInvAlways, <1>1, PTL

\* The strict policy leaves out nothing its acknowledgement did not show, even
\* when the acknowledgement was given for the wider query
\* (runtime_projection_with_policy_acknowledgement).
THEOREM LeavesOutWhatWasShownAlways == Spec => []LeavesOutWhatWasShown
<1>1. WInv => LeavesOutWhatWasShown
  <2> SUFFICES ASSUME WInv, Resolution # NoReport
               PROVE  \E a \in acks : Due("exact") \subseteq a.shown
      BY DEF LeavesOutWhatWasShown
  <2>1. ASSUME NEW q, Live(q)
        PROVE  \E a \in acks : a.shown = Due(q)
      BY <2>1 DEF Live, Fingerprint, WInv, Shown
  <2>2. CASE Live("exact")
      BY <2>1, <2>2
  <2>3. CASE BroadApplies
    <3>1. Due("exact") \subseteq Due("broad")
      <4> SUFFICES ASSUME NEW e \in Due("exact")
                   PROVE  e \in Due("broad")
          OBVIOUS
      <4>1. e \in Promoted /\ e \in Matching("exact") /\ entries[e].review = "due"
          BY DEF Due, Matching
      <4>2. entries[e] \in EntryRecord
          BY <4>1, EntriesFacts DEF Promoted, WInv
      <4>3. entries[e].scope = "wide"
          BY <2>3, <4>1, <4>2 DEF BroadApplies, SessionKnowledge, EntryRecord, Scope
      <4> QED
          BY <4>1, <4>3 DEF Due, Matching
    <3> QED
        BY <2>1, <2>3, <3>1 DEF BroadApplies
  <2> QED
      BY <2>2, <2>3 DEF Resolution
<1> QED
    BY WInvAlways, <1>1, PTL

\* What was seen of a proposal stays true of its subject until that changes.
THEOREM SawAlways == Spec => [](WInv /\ Saw)
<1>1. Init => WInv /\ Saw
    BY WInvInit, SawInit
<1>2. WInv /\ Saw /\ [Next]_vars => (WInv /\ Saw)'
    BY StoreStep, OpsStep, GivenStep, FatesStep, NotingStep, ShownStep, TimelyStep, SubjectsStep,
       SawCandidateStep, SawEntryStep, SawRenewalStep, SawDuplicatesStep, HasLastStep
    DEF WInv, Saw
<1> QED
    BY <1>1, <1>2, PTL DEF Spec

\* A proposal is out of the queue only if it was decided by hand, or its last
\* decision was taken on its subject as it is and on the ground it has now, but
\* for changes by commands that were overtaken and for horizons that are reached
\* after a decision on another ground to renew the entry
\* (review_proposal_is_decided, stale_review_evidence_refs, push_review_proposal).
THEOREM HiddenWasSeenAlways == Spec => []HiddenWasSeen
<1>1. WInv /\ Saw => HiddenWasSeen
  <2> SUFFICES ASSUME WInv, Saw, NEW p \in Proposals, Hidden(p),
                      Latest(p).saw # ByHand, p.subject \notin contended,
                      p.action = "merge" =>
                        \A d \in Duplicates(p.subject[2]) : <<"entry", d>> \notin contended
               PROVE  /\ Latest(p).saw[1] = Content(p)
                      /\ \/ Grounds(p) \subseteq Latest(p).saw[2]
                         \/ p.action = "renew" /\ Grounds(p) = {"due"}
      BY DEF HiddenWasSeen
  <2> DEFINE l == Latest(p)
  <2>1. l \in DecisionsOn(p) /\ \A x \in DecisionsOn(p) : x.at <= l.at
    <3>1. PICK d \in decisions : d.on = p
        BY DEF Hidden, DecisionsOn
    <3>2. \E m \in DecisionsOn(p) : \A x \in DecisionsOn(p) : x.at <= m.at
        BY <3>1 DEF Saw, HasLast
    <3> QED
        BY <3>2 DEF Latest
  <2>2. l \in Views /\ l.on = p /\ l.at \in Nat /\ l.saw # ByHand
      BY <2>1, TimesAreNat DEF DecisionsOn, Views, WInv
  <2>3. ~Stale(p)
      BY DEF Hidden
  <2> HIDE DEF l
  <2>4. /\ ~(SubjectUpdated(p) > l.at)
        /\ \A t \in EvidenceTimes(p) : ~(t > l.at)
      BY <2>3 DEF Stale, l
  <2>5. CASE p.action = "promote"
    <3>1. PICK c \in candidates : p.subject = <<"candidate", c.id>>
        BY <2>5, ProposalFacts
    <3>2. p.subject[1] = "candidate" /\ p.subject[2] = c.id
        BY <3>1
    <3>3. CandidateOf(c.id) \in candidates /\ CandidateOf(c.id).id = c.id
        BY CandidateOfFacts
    <3>4. CandidateOf(c.id).updated \in Nat
        BY <3>3, BoundFacts DEF WInv, StoreOK, CandidateRecord, Time
    <3>5. CandidateOf(c.id).updated <= l.at
        BY <2>2, <2>4, <3>2, <3>4 DEF SubjectUpdated
    <3>6. p.subject = <<"candidate", CandidateOf(c.id).id>>
        BY <3>1, <3>3
    <3>7. l.saw[1] = CandidateContent(CandidateOf(c.id))
        BY <2>2, <3>3, <3>5, <3>6 DEF Saw, SawCandidate
    <3>8. Grounds(p) = {}
        BY <2>5, GroundsFacts
    <3> QED
        BY <3>2, <3>7, <3>8 DEF Content, CandidateContent, l
  <2>6. CASE p.action \in {"renew", "deprecate", "split", "merge"}
    <3>1. PICK e \in Promoted : p.subject = <<"entry", e>>
        BY <2>6, ProposalFacts
    <3>2. p.subject[1] # "candidate" /\ p.subject[2] = e /\ e \in DOMAIN entries
        BY <3>1 DEF Promoted
    <3>3. \A d \in DOMAIN entries : entries[d].updated \in Nat
        BY EntriesFacts, BoundFacts DEF WInv, EntryRecord, Time
    <3>4. Settled(e, l.at)
      <4>1. entries[e].updated <= l.at
          BY <2>2, <2>4, <3>2, <3>3 DEF SubjectUpdated
      <4> QED
          BY <3>1, <4>1 DEF Settled
    <3>5. l.saw[1] = Content(p)
      <4>1. l.saw[1] = EntryContent(entries[e])
          BY <2>2, <3>1, <3>2, <3>4 DEF Saw, SawEntry
      <4> QED
          BY <3>2, <4>1 DEF Content, EntryContent
    <3>6. CASE p.action = "renew"
      <4>1. Grounds(p) = {FirstGround(e)}
          BY <3>2, <3>6, GroundsFacts
      <4>2. CASE entries[e].review = "due"
        <5>1. Grounds(p) = {"due"}
            BY <4>1, <4>2 DEF FirstGround
        <5> QED
            BY <3>5, <3>6, <5>1 DEF l
      <4>3. CASE entries[e].review # "due"
        <5>1. l.saw[2] = {FirstGround(e)}
            BY <2>2, <3>1, <3>2, <3>4, <3>6, <4>3 DEF Saw, SawRenewal
        <5> QED
            BY <3>5, <4>1, <5>1 DEF l
      <4> QED
          BY <4>2, <4>3
    <3>7. CASE p.action = "merge"
      <4>1. Grounds(p) = {ToString(d) : d \in Duplicates(e)}
          BY <3>2, <3>7, GroundsFacts
      <4>2. ASSUME NEW d \in Duplicates(e)
            PROVE  ToString(d) \in l.saw[2]
        <5>1. d \in DOMAIN entries
            BY DEF Duplicates, Promoted
        <5>2. entries[d].updated \in EvidenceTimes(p)
            BY <3>2, <3>7 DEF EvidenceTimes
        <5>3. entries[d].updated <= l.at
            BY <2>2, <2>4, <3>3, <5>1, <5>2
        <5>4. Settled(d, l.at)
            BY <3>2, <3>7, <5>3 DEF Settled
        <5> QED
            BY <2>2, <3>1, <3>2, <3>4, <3>7, <5>4 DEF Saw, SawDuplicates
      <4> QED
          BY <3>5, <4>1, <4>2 DEF l
    <3>8. CASE p.action \in {"deprecate", "split"}
      <4>1. Grounds(p) = {}
          BY <3>8, GroundsFacts
      <4> QED
          BY <3>5, <4>1 DEF l
    <3> QED
        BY <2>6, <3>6, <3>7, <3>8
  <2> QED
      BY <2>5, <2>6, ProposalFacts
<1> QED
    BY SawAlways, <1>1, PTL
=============================================================================
