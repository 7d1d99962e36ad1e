---------------------------- MODULE MCAdaptiveWiki ----------------------------
(* Small instances of AdaptiveWiki.                                         *)
EXTENDS AdaptiveWiki, TLC

CONSTANTS c1, ann, bob

OneClaim == {c1}
\* What a denial or an operator records, and what a learning scan infers.
AnyDegree == {<<"explicit", TRUE>>, <<"inferred", FALSE>>}
TwoOperators == {ann, bob}
BroadOnly == {"broad"}
OperatorSymmetry == Permutations(TwoOperators)

\* A behaviour goes into fates and audit lines, into the projection or into the
\* review queue, in an instance that suits it.  Neither of the first two reads
\* decisions, and fates and audit lines no horizon that is reached; the review
\* queue reads no acknowledgements, the projection no candidate that waits.
Busy(kinds) == \E o \in Operator : ops[o].kind \in kinds
Sure(x) == x.confidence = "explicit"
Plain ==
  /\ decisions = {} /\ ~Busy({"close"})
  /\ \A e \in DOMAIN entries : Sure(entries[e])
  /\ \A c \in candidates : Sure(c) /\ c.count <= 2
NoneNew == cut = {} /\ recorded = Existing + Waiting

Fates == Plain /\ acks = {} /\ \A e \in DOMAIN entries : entries[e].review # "due"
Projecting ==
  /\ Plain /\ NoneNew /\ ~Busy({"record", "reject"})
  /\ clock <= 2 \/ \E o \in Operator : Free(o)
Reviewing ==
  /\ NoneNew /\ acks = {} /\ ~Busy({"reject"}) /\ ~Sure(entries[1])
  /\ \A c \in candidates : Sure(c) \/ c.count >= 2
OneOfThree == Fates \/ Projecting \/ Reviewing
===============================================================================
