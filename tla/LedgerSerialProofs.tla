------------------------- MODULE LedgerSerialProofs -------------------------
(***************************************************************************)
(* What ApprovalLedger guarantees when commands neither overlap nor die    *)
(* between their steps, for every set of keys and commands and every       *)
(* bound: a grant is used once, a denial holds, the audit log is complete, *)
(* no rewrite of the file undoes a record, and the ledger implements one   *)
(* answer per key (LedgerPerKey).                                          *)
(*                                                                         *)
(* The argument.  At most one command is busy, its clock is the present    *)
(* (OneBusy), and nobody else touches the file meanwhile.  A session's     *)
(* copy is then the file plus the transitions in its queue (DraftOf), so   *)
(* its flush undoes nothing, and what the flush will spend is closed in    *)
(* the copy and not spent yet (Unspent).  One predicate (Settled) holds of *)
(* the file and the log while no session is open, and of the session's     *)
(* copy and the log with its queue while one is.  Every step rewrites      *)
(* that pair in one of seven ways, and each of them keeps it Settled.      *)
(***************************************************************************)
EXTENDS ApprovalLedgerProofs

Serial == ~Overlap /\ ~Crashes

Writing(c) == pc[c] \in {"tickAppend", "append"}
NoSession == \A c \in Command : ~InSession(c)

\* At most one command is between its steps, and it started at this tick.
OneBusy ==
  /\ \A c, d \in Command : pc[c] # "idle" /\ pc[d] # "idle" => c = d
  /\ \A c \in Command : pc[c] # "idle" => at[c] = now

\* A copy f of the ledger and a log a, with what was used, refused and run:
\* a used record is closed and used once, every answer has its line, the
\* refusals are the denials in f, and nothing refused is open or ran.
Settled(f, a, u, r, w, n, t) ==
  /\ \A i \in ApprovalId : i >= n => f[i].status = "absent"
  /\ \A i \in ApprovalId : u[i] <= 1 /\ (u[i] > 0 => f[i].status = "superseded")
  /\ \A i \in ApprovalId :
       f[i].status \notin {"absent", "expired"} => <<i, f[i].status>> \in a
  /\ \A k \in Key : k \in r <=> Denies(f, k)
  /\ \A k \in r : k \notin w /\ OpenFor(f, k, t) = {}

\* g moves the records of f on, and neither adds nor drops a denial.
Follows(f, g) ==
  \A i \in ApprovalId :
    /\ g[i].status \in Successors(f[i].status)
    /\ f[i].status = "denied" \/ g[i].status = "denied" => g[i] = f[i]

\* A session's copy m is the file f and what the session has queued.
DraftOf(f, m, q) ==
  /\ Follows(f, m)
  /\ \A i \in ApprovalId : m[i] = f[i] \/ \E s \in ApprovalStatus : <<i, s>> \in q

\* What the session consumed is closed in its copy m, and what the flush of m
\* will spend was never spent.
Unspent(m, q, u) ==
  \A i \in ApprovalId :
    <<i, "superseded">> \in q =>
      /\ m[i].status = "superseded"
      /\ m[i].key \in FallbackKey \cup RetentionKey => u[i] = 0

FileSettled == Settled(file, audit, uses, refused, ran, next, now)
CopySettled(c) == Settled(mem[c], audit \cup queue[c], uses, refused, ran, next, now)

SessionOK(c) ==
  /\ CopySettled(c)
  /\ DraftOf(file, mem[c], queue[c])
  /\ ~Writing(c) => Unspent(mem[c], queue[c], uses)
  /\ Writing(c) => mem[c] = file
  /\ pc[c] = "apply" => mem[c] = ExpireDue(file, now) /\ FileSettled

SInv ==
  /\ OneBusy
  /\ NoSession => FileSettled
  /\ \A c \in Command : InSession(c) => SessionOK(c)
  /\ \A c \in Command : pc[c] = "gate" => ~Denies(file, asked[c])

-----------------------------------------------------------------------------
\* What a rewrite of a copy does to what is Settled.

LEMMA FollowsDenies ==
  ASSUME NEW f, NEW g, Follows(f, g), NEW k
  PROVE  Denies(g, k) <=> Denies(f, k)
BY DEF Follows, Denies

LEMMA FollowsSelf ==
  ASSUME NEW f \in LedgerFile
  PROVE  Follows(f, f)
BY DEF Follows, Successors, LedgerFile, Approval, NoApproval, ApprovalStatus

LEMMA FollowsTransitive ==
  ASSUME NEW f \in LedgerFile, NEW g \in LedgerFile, NEW h \in LedgerFile,
         Follows(f, g), Follows(g, h)
  PROVE  Follows(f, h)
<1> SUFFICES ASSUME NEW i \in ApprovalId
             PROVE  /\ h[i].status \in Successors(f[i].status)
                    /\ f[i].status = "denied" \/ h[i].status = "denied" => h[i] = f[i]
    BY DEF Follows
<1>1. /\ g[i].status \in Successors(f[i].status)
      /\ h[i].status \in Successors(g[i].status)
      /\ f[i].status = "denied" \/ g[i].status = "denied" => g[i] = f[i]
      /\ g[i].status = "denied" \/ h[i].status = "denied" => h[i] = g[i]
    BY DEF Follows
<1>2. h[i].status \in ApprovalStatus
    BY DEF LedgerFile, Approval, NoApproval, ApprovalStatus
<1>3. h[i].status \in Successors(f[i].status)
    BY <1>1, <1>2 DEF Successors, ApprovalStatus
<1> QED BY <1>1, <1>3

LEMMA TightensOpen ==
  ASSUME NEW f, NEW g, NEW k, NEW t, Tightens(f, g)
  PROVE  OpenFor(g, k, t) \subseteq OpenFor(f, k, t)
BY DEF Tightens, OpenFor, GrantsFor, PendingsFor, Covers, ExpiresAt, OpenStatus

\* Closing records whose lines are written, and no denial, keeps it Settled.
LEMMA ClosedSettled ==
  ASSUME NEW f, NEW g, NEW a, NEW b, NEW u, NEW v, NEW r, NEW w, NEW n, NEW t,
         Settled(f, a, u, r, w, n, t), Follows(f, g), Tightens(f, g), a \subseteq b,
         \A i \in ApprovalId : f[i].status = "absent" => g[i] = f[i],
         \A i \in ApprovalId : g[i] = f[i] \/ <<i, g[i].status>> \in b \/ g[i].status = "expired",
         \A i \in ApprovalId : v[i] <= 1 /\ (v[i] > 0 => g[i].status = "superseded")
  PROVE  Settled(g, b, v, r, w, n, t)
<1>1. \A i \in ApprovalId : i >= n => g[i].status = "absent"
    BY DEF Settled
<1>2. \A i \in ApprovalId :
         g[i].status \notin {"absent", "expired"} => <<i, g[i].status>> \in b
    BY DEF Settled
<1>3. \A k \in Key : k \in r <=> Denies(g, k)
    BY FollowsDenies DEF Settled
<1>4. \A k \in r : k \notin w /\ OpenFor(g, k, t) = {}
    BY TightensOpen DEF Settled
<1> QED BY <1>1, <1>2, <1>3, <1>4 DEF Settled

\* The records a rewrite by expire_due, or a mark, leaves behind.
LEMMA DueRecords ==
  ASSUME NEW f \in LedgerFile, NEW t, NEW i \in ApprovalId
  PROVE  \/ ExpireDue(f, t)[i] = f[i] /\ i \notin DueIds(f, t)
         \/ /\ i \in DueIds(f, t)
            /\ f[i].status = "pending" /\ ExpireDue(f, t)[i].status = "expired"
            /\ ExpireDue(f, t)[i].key = f[i].key
            /\ ExpireDue(f, t)[i].created = f[i].created
BY DEF ExpireDue, DueIds, LedgerFile, Approval, NoApproval

LEMMA MarkRecords ==
  ASSUME NEW f \in LedgerFile, NEW i \in ApprovalId, NEW s
  PROVE  /\ \A j \in ApprovalId : j # i => Mark(f, i, s)[j] = f[j]
         /\ Mark(f, i, s)[i].status = s
         /\ Mark(f, i, s)[i].key = f[i].key
         /\ Mark(f, i, s)[i].created = f[i].created
BY DEF Mark, LedgerFile, Approval, NoApproval

LEMMA AskRecords ==
  ASSUME NEW f \in LedgerFile, NEW i \in ApprovalId, NEW k, NEW t
  PROVE  /\ \A j \in ApprovalId : j # i => AskOperator(f, i, k, t)[j] = f[j]
         /\ AskOperator(f, i, k, t)[i].status = "pending"
         /\ AskOperator(f, i, k, t)[i].key = k
         /\ AskOperator(f, i, k, t)[i].created = t
BY DEF AskOperator, LedgerFile

LEMMA DueFollows ==
  ASSUME NEW f \in LedgerFile, NEW t
  PROVE  Follows(f, ExpireDue(f, t))
<1> SUFFICES ASSUME NEW i \in ApprovalId
             PROVE  LET g == ExpireDue(f, t) IN
                    /\ g[i].status \in Successors(f[i].status)
                    /\ f[i].status = "denied" \/ g[i].status = "denied" => g[i] = f[i]
    BY DEF Follows
<1>1. f[i].status \in ApprovalStatus
    BY DEF LedgerFile, Approval, NoApproval, ApprovalStatus
<1> QED BY <1>1, DueRecords DEF Successors, ApprovalStatus

LEMMA DueSettled ==
  ASSUME NEW f \in LedgerFile, NEW t \in Nat, NEW a, NEW b, NEW u, NEW r, NEW w, NEW n,
         Settled(f, a, u, r, w, n, t), a \subseteq b
  PROVE  Settled(ExpireDue(f, t), b, u, r, w, n, t)
<1> DEFINE g == ExpireDue(f, t)
<1>1. Follows(f, g) /\ Tightens(f, g)
    BY DueFollows, ExpireDueFacts
<1>2. \A i \in ApprovalId : f[i].status = "absent" => g[i] = f[i]
    BY DueRecords
<1>3. \A i \in ApprovalId : g[i] = f[i] \/ <<i, g[i].status>> \in b \/ g[i].status = "expired"
    BY DueRecords
<1>4. \A i \in ApprovalId : u[i] <= 1 /\ (u[i] > 0 => g[i].status = "superseded")
  <2> TAKE i \in ApprovalId
  <2>1. u[i] <= 1 /\ (u[i] > 0 => f[i].status = "superseded")
      BY DEF Settled
  <2> QED BY <2>1, DueRecords
<1> HIDE DEF g
<1>5. Settled(g, b, u, r, w, n, t)
    BY <1>1, <1>2, <1>3, <1>4, ClosedSettled
<1> QED BY <1>5 DEF g

\* A grant is consumed: what was used of it, once or not yet, is closed.
LEMMA ConsumedFollows ==
  ASSUME NEW f \in LedgerFile, NEW i \in ApprovalId, f[i].status = "approved"
  PROVE  /\ Mark(f, i, "superseded") \in LedgerFile
         /\ Follows(f, Mark(f, i, "superseded"))
<1> DEFINE g == Mark(f, i, "superseded")
<1>1. g \in LedgerFile
    BY MarkFacts DEF ApprovalStatus
<1>2. ASSUME NEW j \in ApprovalId
      PROVE  /\ g[j].status \in Successors(f[j].status)
             /\ f[j].status = "denied" \/ g[j].status = "denied" => g[j] = f[j]
  <2>1. f[j].status \in ApprovalStatus
      BY DEF LedgerFile, Approval, NoApproval, ApprovalStatus
  <2> QED BY <2>1, MarkRecords DEF Successors, ApprovalStatus
<1> QED BY <1>1, <1>2 DEF Follows

LEMMA ConsumedSettled ==
  ASSUME NEW f \in LedgerFile, NEW i \in ApprovalId, f[i].status = "approved",
         NEW a, NEW b, NEW u \in [ApprovalId -> 0..2], NEW v, NEW r, NEW w, NEW n, NEW t,
         Settled(f, a, u, r, w, n, t), a \cup {<<i, "superseded">>} \subseteq b,
         v = u \/ v = Use(u, {i})
  PROVE  Settled(Mark(f, i, "superseded"), b, v, r, w, n, t) /\ u[i] = 0
<1> DEFINE g == Mark(f, i, "superseded")
<1>1. Follows(f, g) /\ Tightens(f, g)
    BY ConsumedFollows, MarkFacts DEF ApprovalStatus, OpenStatus
<1>2. \A j \in ApprovalId : f[j].status = "absent" => g[j] = f[j]
    BY MarkRecords
<1>3. \A j \in ApprovalId : g[j] = f[j] \/ <<j, g[j].status>> \in b \/ g[j].status = "expired"
    BY MarkRecords
<1>4. u[i] = 0
    BY DEF Settled
<1>5. \A j \in ApprovalId : v[j] <= 1 /\ (v[j] > 0 => g[j].status = "superseded")
  <2> TAKE j \in ApprovalId
  <2>1. u[j] <= 1 /\ (u[j] > 0 => f[j].status = "superseded")
      BY DEF Settled
  <2>2. CASE j = i
      BY <1>4, <2>2, MarkRecords DEF Use
  <2>3. CASE j # i
      BY <2>1, <2>3, MarkRecords DEF Use
  <2> QED BY <2>2, <2>3
<1> HIDE DEF g
<1>6. Settled(g, b, v, r, w, n, t)
    BY <1>1, <1>2, <1>3, <1>5, ClosedSettled
<1> QED BY <1>4, <1>6 DEF g

\* The operator is asked, with a fresh record, for a key with no answer.
LEMMA AskedFollows ==
  ASSUME NEW f \in LedgerFile, NEW i \in ApprovalId, f[i].status = "absent",
         NEW k \in Key, NEW t \in Nat
  PROVE  /\ AskOperator(f, i, k, t) \in LedgerFile
         /\ Follows(f, AskOperator(f, i, k, t))
<1> DEFINE g == AskOperator(f, i, k, t)
<1>1. g \in LedgerFile
    BY AskFacts
<1>2. ASSUME NEW j \in ApprovalId
      PROVE  /\ g[j].status \in Successors(f[j].status)
             /\ f[j].status = "denied" \/ g[j].status = "denied" => g[j] = f[j]
  <2>1. f[j].status \in ApprovalStatus
      BY DEF LedgerFile, Approval, NoApproval, ApprovalStatus
  <2> QED BY <2>1, AskRecords DEF Successors, ApprovalStatus
<1> QED BY <1>1, <1>2 DEF Follows

LEMMA AskedSettled ==
  ASSUME NEW f \in LedgerFile, NEW n \in ApprovalId, NEW k \in Key, NEW t \in Nat,
         NEW a, NEW b, NEW u \in [ApprovalId -> 0..2], NEW r \in SUBSET Key, NEW w,
         Settled(f, a, u, r, w, n, t), a \cup {<<n, "pending">>} \subseteq b, ~Denies(f, k)
  PROVE  Settled(AskOperator(f, n, k, t), b, u, r, w, n + 1, t) /\ f[n].status = "absent"
<1> DEFINE g == AskOperator(f, n, k, t)
<1>0. n \in Nat
    BY BoundAssumption DEF ApprovalId
<1>1. f[n].status = "absent"
    BY <1>0 DEF Settled
<1>2. Follows(f, g)
    BY <1>1, AskedFollows
<1>3. \A i \in ApprovalId : i >= n + 1 => g[i].status = "absent"
    BY <1>0, AskRecords, BoundAssumption DEF Settled, ApprovalId
<1>4. \A i \in ApprovalId : u[i] <= 1 /\ (u[i] > 0 => g[i].status = "superseded")
    BY <1>1, AskRecords DEF Settled
<1>5. \A i \in ApprovalId :
        g[i].status \notin {"absent", "expired"} => <<i, g[i].status>> \in b
    BY AskRecords DEF Settled
<1>6. \A l \in Key : l \in r <=> Denies(g, l)
    BY <1>2, FollowsDenies DEF Settled
<1>7. k \notin r
    BY DEF Settled
<1>8. \A l \in r : l \notin w /\ OpenFor(g, l, t) = {}
  <2> TAKE l \in r
  <2>1. l \notin w /\ OpenFor(f, l, t) = {}
      BY DEF Settled
  <2>2. OpenFor(g, l, t) \subseteq OpenFor(f, l, t)
      BY <1>7, AskRecords DEF OpenFor, GrantsFor, PendingsFor, Covers
  <2> QED BY <2>1, <2>2
<1> HIDE DEF g
<1> QED BY <1>1, <1>3, <1>4, <1>5, <1>6, <1>8 DEF Settled, g

\* The operator's answer to the open record of its key.
LEMMA GrantedSettled ==
  ASSUME NEW f \in LedgerFile, NEW i \in ApprovalId, f[i].status = "pending",
         NEW a, NEW b, NEW u \in [ApprovalId -> 0..2], NEW r, NEW w, NEW n, NEW t \in Nat,
         Settled(f, a, u, r, w, n, t), a \cup {<<i, "approved">>} \subseteq b
  PROVE  Settled(Mark(f, i, "approved"), b, u, r, w, n, t)
<1> DEFINE g == Mark(f, i, "approved")
<1>1. \A j \in ApprovalId : j >= n => g[j].status = "absent"
    BY MarkRecords DEF Settled
<1>2. \A j \in ApprovalId : u[j] <= 1 /\ (u[j] > 0 => g[j].status = "superseded")
    BY MarkRecords DEF Settled
<1>3. \A j \in ApprovalId :
        g[j].status \notin {"absent", "expired"} => <<j, g[j].status>> \in b
    BY MarkRecords DEF Settled
<1>4. \A k : Denies(g, k) <=> Denies(f, k)
    BY MarkRecords DEF Denies
<1>5. \A k : OpenFor(g, k, t) \subseteq OpenFor(f, k, t)
    BY MarkRecords DEF OpenFor, GrantsFor, PendingsFor, Covers, ExpiresAt
<1> HIDE DEF g
<1> QED BY <1>1, <1>2, <1>3, <1>4, <1>5 DEF Settled, g

LEMMA DeniedSettled ==
  ASSUME NEW f \in LedgerFile, NEW i \in ApprovalId, f[i].status = "pending",
         NEW a, NEW b, NEW u \in [ApprovalId -> 0..2], NEW r, NEW w, NEW n, NEW t \in Nat,
         ExpiresAt(f[i]) >= t, OneOpenIn(f, t),
         Settled(f, a, u, r, w, n, t), a \cup {<<i, "denied">>} \subseteq b
  PROVE  Settled(Mark(f, i, "denied"), b, u, r \cup {f[i].key}, w \ {f[i].key}, n, t)
<1> DEFINE g == Mark(f, i, "denied")
           q == f[i].key
<1>1. \A j \in ApprovalId : j >= n => g[j].status = "absent"
    BY MarkRecords DEF Settled
<1>2. \A j \in ApprovalId : u[j] <= 1 /\ (u[j] > 0 => g[j].status = "superseded")
    BY MarkRecords DEF Settled
<1>3. \A j \in ApprovalId :
        g[j].status \notin {"absent", "expired"} => <<j, g[j].status>> \in b
    BY MarkRecords DEF Settled
<1>4. \A k \in Key : Denies(g, k) <=> Denies(f, k) \/ k = q
  <2> TAKE k \in Key
  <2>1. Denies(g, q)
      BY MarkRecords DEF Denies
  <2>2. Denies(f, k) => Denies(g, k)
      BY MarkRecords DEF Denies
  <2>3. Denies(g, k) /\ k # q => Denies(f, k)
      BY MarkRecords DEF Denies
  <2> QED BY <2>1, <2>2, <2>3
<1>5. \A k : OpenFor(g, k, t) \subseteq OpenFor(f, k, t) \ {i}
    BY MarkRecords DEF OpenFor, GrantsFor, PendingsFor, Covers, ExpiresAt
<1>6. q \in Key /\ i \in OpenFor(f, q, t)
    BY DEF LedgerFile, Approval, NoApproval, OpenFor, PendingsFor, Covers
<1>7. OpenFor(g, q, t) = {}
    BY <1>5, <1>6 DEF OneOpenIn, AtMostOneOpen
<1>8. \A k \in Key : k \in r \cup {q} <=> Denies(g, k)
    BY <1>4 DEF Settled
<1>9. \A k \in r \cup {q} : k \notin w \ {q} /\ OpenFor(g, k, t) = {}
    BY <1>5, <1>7 DEF Settled
<1> HIDE DEF g, q
<1> QED BY <1>1, <1>2, <1>3, <1>8, <1>9 DEF Settled, g, q

\* retry --new-approval closes every denial of the key.
ReopenedFile(f, k) ==
  [i \in ApprovalId |->
     IF f[i].status = "denied" /\ f[i].key = k
     THEN [f[i] EXCEPT !.status = "superseded"] ELSE f[i]]

LEMMA ReopenedRecords ==
  ASSUME NEW f \in LedgerFile, NEW k, NEW i \in ApprovalId
  PROVE  \/ ReopenedFile(f, k)[i] = f[i] /\ ~(f[i].status = "denied" /\ f[i].key = k)
         \/ /\ f[i].status = "denied" /\ f[i].key = k
            /\ ReopenedFile(f, k)[i].status = "superseded"
BY DEF ReopenedFile, LedgerFile, Approval, NoApproval

LEMMA ReopenedSettled ==
  ASSUME NEW f \in LedgerFile, NEW k \in Key,
         NEW a, NEW b, NEW u \in [ApprovalId -> 0..2], NEW r, NEW w, NEW n, NEW t \in Nat,
         Settled(f, a, u, r, w, n, t), a \subseteq b,
         \A i \in ApprovalId :
           f[i].status = "denied" /\ f[i].key = k => <<i, "superseded">> \in b
  PROVE  /\ Settled(ReopenedFile(f, k), b, u, r \ {k}, w, n, t)
         /\ \A l : OpenFor(ReopenedFile(f, k), l, t) = OpenFor(f, l, t)
         /\ \A l : Denies(ReopenedFile(f, k), l) <=> Denies(f, l) /\ l # k
<1> DEFINE g == ReopenedFile(f, k)
<1>1. \A j \in ApprovalId : j >= n => g[j].status = "absent"
    BY ReopenedRecords DEF Settled
<1>2. \A j \in ApprovalId : u[j] <= 1 /\ (u[j] > 0 => g[j].status = "superseded")
    BY ReopenedRecords DEF Settled
<1>3. \A j \in ApprovalId :
        g[j].status \notin {"absent", "expired"} => <<j, g[j].status>> \in b
    BY ReopenedRecords DEF Settled
<1>4. \A l : Denies(g, l) <=> Denies(f, l) /\ l # k
  <2> TAKE l
  <2>1. Denies(g, l) => Denies(f, l) /\ l # k
      BY ReopenedRecords DEF Denies
  <2>2. Denies(f, l) /\ l # k => Denies(g, l)
      BY ReopenedRecords DEF Denies
  <2> QED BY <2>1, <2>2
<1>5. \A l : OpenFor(g, l, t) = OpenFor(f, l, t)
    BY ReopenedRecords DEF OpenFor, GrantsFor, PendingsFor, Covers, ExpiresAt
<1> HIDE DEF g
<1>6. Settled(g, b, u, r \ {k}, w, n, t)
    BY <1>1, <1>2, <1>3, <1>4, <1>5 DEF Settled
<1> QED BY <1>4, <1>5, <1>6 DEF g

\* An action goes ahead on a key that is not denied; time passes; a flush
\* spends what its copy has closed.
LEMMA RanSettled ==
  ASSUME NEW f, NEW k \in Key, NEW a, NEW u, NEW r, NEW w, NEW n, NEW t,
         Settled(f, a, u, r, w, n, t), ~Denies(f, k)
  PROVE  Settled(f, a, u, r, w \cup {k}, n, t)
BY DEF Settled

LEMMA LaterSettled ==
  ASSUME NEW f \in LedgerFile, NEW a, NEW u, NEW r, NEW w, NEW n, NEW t \in Nat,
         Settled(f, a, u, r, w, n, t)
  PROVE  Settled(f, a, u, r, w, n, t + 1)
<1>1. \A k : OpenFor(f, k, t + 1) \subseteq OpenFor(f, k, t)
    BY OpenRunsOut
<1> QED BY <1>1 DEF Settled

LEMMA SpentSettled ==
  ASSUME NEW f, NEW a, NEW u \in [ApprovalId -> 0..2], NEW S, NEW r, NEW w, NEW n, NEW t,
         Settled(f, a, u, r, w, n, t),
         \A i \in S \cap ApprovalId : f[i].status = "superseded" /\ u[i] = 0
  PROVE  Settled(f, a, Use(u, S), r, w, n, t)
<1>1. \A i \in ApprovalId : Use(u, S)[i] <= 1 /\ (Use(u, S)[i] > 0 => f[i].status = "superseded")
    BY DEF Settled, Use
<1> QED BY <1>1 DEF Settled

LEMMA LongerLog ==
  ASSUME NEW f, NEW a, NEW b, NEW u, NEW r, NEW w, NEW n, NEW t,
         Settled(f, a, u, r, w, n, t), a \subseteq b
  PROVE  Settled(f, b, u, r, w, n, t)
BY DEF Settled

-----------------------------------------------------------------------------
\* The session's copy and its queue.

LEMMA OpenedDraft ==
  ASSUME NEW f \in LedgerFile, NEW t \in Nat, NEW u
  PROVE  /\ DraftOf(f, ExpireDue(f, t), Lines(DueIds(f, t), "expired"))
         /\ Unspent(ExpireDue(f, t), Lines(DueIds(f, t), "expired"), u)
<1>1. \A i \in ApprovalId : ExpireDue(f, t)[i] = f[i] \/ i \in DueIds(f, t)
    BY DueRecords
<1>2. \A i \in DueIds(f, t) : <<i, "expired">> \in Lines(DueIds(f, t), "expired")
    BY DEF Lines
<1>3. "expired" \in ApprovalStatus
    BY DEF ApprovalStatus
<1>4. \A i : <<i, "superseded">> \notin Lines(DueIds(f, t), "expired")
    BY DEF Lines
<1> QED BY <1>1, <1>2, <1>3, <1>4, DueFollows DEF DraftOf, Unspent

LEMMA ConsumedDraft ==
  ASSUME NEW f \in LedgerFile, NEW m \in LedgerFile, NEW q, NEW i \in ApprovalId,
         DraftOf(f, m, q), m[i].status = "approved",
         NEW u \in [ApprovalId -> 0..2], NEW v, u[i] = 0, Unspent(m, q, u),
         v = u \/ (v = Use(u, {i}) /\ m[i].key \in GatedKey)
  PROVE  /\ DraftOf(f, Mark(m, i, "superseded"), q \cup {<<i, "superseded">>})
         /\ Unspent(Mark(m, i, "superseded"), q \cup {<<i, "superseded">>}, v)
<1> DEFINE g == Mark(m, i, "superseded")
           p == q \cup {<<i, "superseded">>}
<1>1. Follows(f, g)
    BY ConsumedFollows, FollowsTransitive DEF DraftOf
<1>2. \A j \in ApprovalId : g[j] = f[j] \/ \E s \in ApprovalStatus : <<j, s>> \in p
  <2> TAKE j \in ApprovalId
  <2>1. CASE j = i
      BY <2>1 DEF ApprovalStatus
  <2>2. CASE j # i
      BY <2>2, MarkRecords DEF DraftOf
  <2> QED BY <2>1, <2>2
<1>3. ASSUME NEW j \in ApprovalId, <<j, "superseded">> \in p
      PROVE  /\ g[j].status = "superseded"
             /\ g[j].key \in FallbackKey \cup RetentionKey => v[j] = 0
  <2>1. CASE j = i
      BY <2>1, MarkRecords, KeyPartition
  <2>2. CASE j # i
    <3>1. <<j, "superseded">> \in q
        BY <1>3, <2>2
    <3> QED BY <2>2, <3>1, MarkRecords DEF Unspent, Use
  <2> QED BY <2>1, <2>2
<1> HIDE DEF g, p
<1>4. DraftOf(f, g, p) /\ Unspent(g, p, v)
    BY <1>1, <1>2, <1>3 DEF DraftOf, Unspent
<1> QED BY <1>4 DEF g, p

LEMMA AskedDraft ==
  ASSUME NEW f \in LedgerFile, NEW m \in LedgerFile, NEW q, NEW i \in ApprovalId,
         NEW k \in Key, NEW t \in Nat,
         DraftOf(f, m, q), m[i].status = "absent", NEW u, Unspent(m, q, u)
  PROVE  /\ DraftOf(f, AskOperator(m, i, k, t), q \cup {<<i, "pending">>})
         /\ Unspent(AskOperator(m, i, k, t), q \cup {<<i, "pending">>}, u)
<1> DEFINE g == AskOperator(m, i, k, t)
           p == q \cup {<<i, "pending">>}
<1>1. Follows(f, g)
    BY AskedFollows, FollowsTransitive DEF DraftOf
<1>2. \A j \in ApprovalId : g[j] = f[j] \/ \E s \in ApprovalStatus : <<j, s>> \in p
  <2> TAKE j \in ApprovalId
  <2>1. CASE j = i
      BY <2>1 DEF ApprovalStatus
  <2>2. CASE j # i
      BY <2>2, AskRecords DEF DraftOf
  <2> QED BY <2>1, <2>2
<1>3. ASSUME NEW j \in ApprovalId, <<j, "superseded">> \in p
      PROVE  /\ g[j].status = "superseded"
             /\ g[j].key \in FallbackKey \cup RetentionKey => u[j] = 0
  <2>1. <<j, "superseded">> \in q
      BY <1>3
  <2>2. j # i
      BY <2>1 DEF Unspent
  <2> QED BY <2>1, <2>2, AskRecords DEF Unspent
<1> HIDE DEF g, p
<1>4. DraftOf(f, g, p) /\ Unspent(g, p, u)
    BY <1>1, <1>2, <1>3 DEF DraftOf, Unspent
<1> QED BY <1>4 DEF g, p

-----------------------------------------------------------------------------
\* The invariant of serial use.

LEMMA Alone ==
  ASSUME SInv, NEW c \in Command, pc[c] # "idle"
  PROVE  at[c] = now /\ \A d \in Command : d # c => pc[d] = "idle"
BY DEF SInv, OneBusy

LEMMA StartsAlone ==
  ASSUME Serial, SInv, MayStart
  PROVE  AllIdle /\ FileSettled
BY DEF Serial, SInv, MayStart, AllIdle, NoSession, InSession

\* A step of c leaves every other command idle.
LEMMA OnlyBusy ==
  ASSUME NEW c \in Command,
         \A d \in Command : d # c => pc'[d] = "idle",
         pc'[c] # "idle" => at'[c] = now',
         IF InSession(c)' THEN SessionOK(c)' ELSE FileSettled',
         pc'[c] = "gate" => ~Denies(file', asked'[c])
  PROVE  SInv'
BY DEF SInv, OneBusy, NoSession, InSession

LEMMA OperatorOnly ==
  ASSUME SInv, AllIdle, UNCHANGED session, FileSettled'
  PROVE  SInv'
BY DEF SInv, OneBusy, AllIdle, NoSession, InSession, session

LEMMA SInvInit == Init => SInv
BY BoundAssumption
   DEF Init, SInv, OneBusy, NoSession, InSession, FileSettled, Settled, EmptyFile,
       NoApproval, Denies

\* c ends and leaves a settled file behind.
LEMMA Ends ==
  ASSUME Typed, SInv, NEW c \in Command, pc[c] # "idle", Idle(c), FileSettled'
  PROVE  SInv'
<1>1. pc'[c] = "idle" /\ \A d \in Command : d # c => pc'[d] = pc[d]
    BY DEF Idle, Typed
<1>2. ~InSession(c)'
    BY <1>1 DEF InSession
<1> QED BY <1>1, <1>2, Alone, OnlyBusy

LEMMA SerialLog ==
  ASSUME Serial, NEW lines, WriteAudit(lines)
  PROVE  audit' = audit \cup lines
BY DEF Serial, WriteAudit

\* begin_session, by a tick or a retention-apply.
LEMMA OpenStep ==
  ASSUME Serial, Typed, SInv, NEW c \in Command, NEW why \in {"tick", "apply"},
         Open(c, file, now, why), UNCHANGED <<disk, now, next, asked, history>>
  PROVE  SInv'
<1>1. AllIdle /\ FileSettled
    BY StartsAlone DEF Open
<1>2. /\ pc'[c] = why /\ \A d \in Command : d # c => pc'[d] = pc[d]
      /\ mem'[c] = ExpireDue(file, now) /\ at'[c] = now
      /\ queue'[c] = Lines(DueIds(file, now), "expired")
    BY DEF Open, Typed
<1>3. InSession(c)' /\ pc'[c] # "gate" /\ ~Writing(c)'
    BY <1>2 DEF InSession, Writing
<1>4. CopySettled(c)' /\ FileSettled'
    BY <1>1, <1>2, DueSettled, ClockType
       DEF CopySettled, FileSettled, disk, history, Typed
<1>5. DraftOf(file', mem'[c], queue'[c]) /\ Unspent(mem'[c], queue'[c], uses')
    BY <1>2, OpenedDraft, ClockType DEF disk, history, Typed
<1>6. mem'[c] = ExpireDue(file', now')
    BY <1>2 DEF disk
<1>7. SessionOK(c)'
    BY <1>3, <1>4, <1>5, <1>6 DEF SessionOK
<1> QED BY <1>1, <1>2, <1>3, <1>7, OnlyBusy DEF AllIdle

LEMMA BeginRequestStep ==
  ASSUME Serial, Typed, SInv, NEW c \in Command, NEW k \in RetentionKey, BeginRequest(c, k)
  PROVE  SInv'
<1> DEFINE f == ExpireDue(file, now)
           expired == Lines(DueIds(file, now), "expired")
<1>1. AllIdle /\ FileSettled
    BY StartsAlone DEF BeginRequest
<1>2. /\ pc'[c] = "ready" /\ \A d \in Command : d # c => pc'[d] = pc[d]
      /\ at'[c] = now
      /\ UNCHANGED <<file, audit, now, asked, uses, refused, ran>>
    BY DEF BeginRequest, Typed, disk, history
<1>3. InSession(c)' /\ pc'[c] \notin {"gate", "apply"} /\ ~Writing(c)'
    BY <1>2 DEF InSession, Writing
<1>4. /\ Settled(f, audit \cup expired, uses, refused, ran, next, now)
      /\ DraftOf(file, f, expired) /\ Unspent(f, expired, uses)
      /\ f \in LedgerFile
    BY <1>1, DueSettled, OpenedDraft, ExpireDueFacts, ClockType DEF FileSettled, Typed
<1>5. \/ mem'[c] = f /\ queue'[c] = expired /\ next' = next
      \/ /\ mem'[c] = AskOperator(f, next, k, now)
         /\ queue'[c] = expired \cup {<<next, "pending">>}
         /\ next' = next + 1
         /\ ~Denies(f, k) /\ OpenFor(f, k, now) = {}
    BY DEF BeginRequest, Typed
<1>6. next \in ApprovalId /\ k \in Key
    BY BoundAssumption, KeyPartition DEF BeginRequest, Typed, ApprovalId
<1> HIDE DEF f, expired
<1>7. /\ CopySettled(c)'
      /\ DraftOf(file', mem'[c], queue'[c]) /\ Unspent(mem'[c], queue'[c], uses')
  <2>1. CASE mem'[c] = f /\ queue'[c] = expired /\ next' = next
      BY <1>2, <1>4, <2>1 DEF CopySettled
  <2>2. CASE /\ mem'[c] = AskOperator(f, next, k, now)
             /\ queue'[c] = expired \cup {<<next, "pending">>}
             /\ next' = next + 1
             /\ ~Denies(f, k) /\ OpenFor(f, k, now) = {}
    <3>1. /\ Settled(AskOperator(f, next, k, now), audit \cup queue'[c], uses, refused,
                     ran, next + 1, now)
          /\ f[next].status = "absent"
      <4>1. (audit \cup expired) \cup {<<next, "pending">>} \subseteq audit \cup queue'[c]
          BY <2>2
      <4>2. uses \in [ApprovalId -> 0..2] /\ refused \in SUBSET Key /\ now \in Nat
          BY ClockType DEF Typed
      <4> QED BY <1>4, <1>6, <2>2, <4>1, <4>2, AskedSettled
    <3>2. /\ DraftOf(file, AskOperator(f, next, k, now), queue'[c])
          /\ Unspent(AskOperator(f, next, k, now), queue'[c], uses)
        BY <1>4, <1>6, <2>2, <3>1, AskedDraft, ClockType DEF Typed
    <3> QED BY <1>2, <2>2, <3>1, <3>2 DEF CopySettled
  <2> QED BY <1>5, <2>1, <2>2
<1>8. SessionOK(c)'
    BY <1>3, <1>7 DEF SessionOK
<1> QED BY <1>1, <1>2, <1>3, <1>8, OnlyBusy DEF AllIdle

\* A session consumes a grant of its copy, used at once or at the flush.
LEMMA ConsumeStep ==
  ASSUME Typed, SInv, NEW c \in Command, pc[c] \in {"tick", "apply"},
         NEW i \in ApprovalId, mem[c][i].status = "approved", Change(c, i, "superseded"),
         uses' = uses \/ (uses' = Use(uses, {i}) /\ mem[c][i].key \in GatedKey),
         pc' = pc \/ pc' = [pc EXCEPT ![c] = "ready"], pc'[c] \in {"tick", "ready"},
         UNCHANGED <<disk, now, next, at, asked, refused>>,
         ran' = ran \/ \E k \in Key : ran' = ran \cup {k} /\ ~Denies(mem[c], k)
  PROVE  SInv'
<1>1. /\ pc[c] # "idle" /\ InSession(c) /\ ~Writing(c)
      /\ InSession(c)' /\ pc'[c] \notin {"gate", "apply"} /\ ~Writing(c)'
    BY DEF InSession, Writing
<1>2. /\ at'[c] = now' /\ \A d \in Command : d # c => pc'[d] = "idle"
    BY <1>1, Alone DEF Typed
<1>3. /\ CopySettled(c) /\ DraftOf(file, mem[c], queue[c])
      /\ Unspent(mem[c], queue[c], uses)
    BY <1>1 DEF SInv, SessionOK
<1>4. /\ mem'[c] = Mark(mem[c], i, "superseded")
      /\ queue'[c] = queue[c] \cup {<<i, "superseded">>}
    BY DEF Change, Typed
<1>5. /\ Settled(mem'[c], audit \cup queue'[c], uses', refused, ran, next, now)
      /\ uses[i] = 0
  <2> DEFINE f == mem[c]  log == audit \cup queue[c]  after == audit \cup queue'[c]
             v == uses'
  <2>1. f \in LedgerFile /\ f[i].status = "approved" /\ uses \in [ApprovalId -> 0..2]
      BY DEF Typed
  <2>2. v = uses \/ v = Use(uses, {i})
      OBVIOUS
  <2>3. log \cup {<<i, "superseded">>} \subseteq after
      BY <1>4
  <2>4. Settled(f, log, uses, refused, ran, next, now)
      BY <1>3 DEF CopySettled
  <2> HIDE DEF f, log, after, v
  <2>5. Settled(Mark(f, i, "superseded"), after, v, refused, ran, next, now) /\ uses[i] = 0
      BY <2>1, <2>2, <2>3, <2>4, ConsumedSettled
  <2> QED BY <1>4, <2>5 DEF f, after, v
<1>6. Follows(mem[c], mem'[c])
    BY <1>4, ConsumedFollows DEF Typed
<1>7. CopySettled(c)'
    BY <1>5, <1>6, FollowsDenies, RanSettled DEF CopySettled, disk
<1>8. DraftOf(file, mem'[c], queue'[c]) /\ Unspent(mem'[c], queue'[c], uses')
  <2>1. /\ mem[c] \in LedgerFile /\ uses \in [ApprovalId -> 0..2] /\ file \in LedgerFile
        /\ uses' = uses \/ (uses' = Use(uses, {i}) /\ mem[c][i].key \in GatedKey)
      BY DEF Typed
  <2> DEFINE v == uses'
  <2>2. v = uses \/ (v = Use(uses, {i}) /\ mem[c][i].key \in GatedKey)
      BY <2>1
  <2> HIDE DEF v
  <2>3. /\ DraftOf(file, Mark(mem[c], i, "superseded"), queue[c] \cup {<<i, "superseded">>})
        /\ Unspent(Mark(mem[c], i, "superseded"), queue[c] \cup {<<i, "superseded">>}, v)
      BY <1>3, <1>5, <2>1, <2>2, ConsumedDraft
  <2> QED BY <1>4, <2>3 DEF v
<1>9. SessionOK(c)'
    BY <1>1, <1>7, <1>8 DEF SessionOK, disk
<1> QED BY <1>1, <1>2, <1>9, OnlyBusy

LEMMA TickAskStep ==
  ASSUME Typed, SInv, NEW c \in Command, NEW k \in GatedKey \cup FallbackKey, TickAsk(c, k)
  PROVE  SInv'
<1>1. /\ pc[c] # "idle" /\ InSession(c) /\ ~Writing(c)
      /\ InSession(c)' /\ pc'[c] \notin {"gate", "apply"} /\ ~Writing(c)'
    BY DEF TickAsk, InSession, Writing
<1>2. /\ at[c] = now /\ at'[c] = now'
      /\ \A d \in Command : d # c => pc'[d] = "idle"
    BY <1>1, Alone DEF TickAsk
<1>3. /\ CopySettled(c) /\ DraftOf(file, mem[c], queue[c])
      /\ Unspent(mem[c], queue[c], uses)
    BY <1>1 DEF SInv, SessionOK
<1>4. /\ mem'[c] = AskOperator(mem[c], next, k, now)
      /\ queue'[c] = queue[c] \cup {<<next, "pending">>}
      /\ next' = next + 1
      /\ UNCHANGED <<file, audit, now, uses, refused, ran>>
      /\ ~Denies(mem[c], k)
    BY <1>2 DEF TickAsk, Ask, Typed, disk, history
<1>5. /\ next \in ApprovalId /\ k \in Key /\ now \in Nat
      /\ mem[c] \in LedgerFile /\ file \in LedgerFile
      /\ uses \in [ApprovalId -> 0..2] /\ refused \in SUBSET Key
    BY BoundAssumption, KeyPartition, ClockType DEF TickAsk, Ask, Typed, ApprovalId
<1>6. /\ Settled(AskOperator(mem[c], next, k, now), audit \cup queue'[c], uses, refused,
                 ran, next + 1, now)
      /\ mem[c][next].status = "absent"
  <2>1. (audit \cup queue[c]) \cup {<<next, "pending">>} \subseteq audit \cup queue'[c]
      BY <1>4
  <2>2. Settled(mem[c], audit \cup queue[c], uses, refused, ran, next, now)
      BY <1>3 DEF CopySettled
  <2> QED BY <1>4, <1>5, <2>1, <2>2, AskedSettled
<1>7. /\ DraftOf(file, AskOperator(mem[c], next, k, now), queue[c] \cup {<<next, "pending">>})
      /\ Unspent(AskOperator(mem[c], next, k, now), queue[c] \cup {<<next, "pending">>}, uses)
    BY <1>3, <1>5, <1>6, AskedDraft
<1>8. SessionOK(c)'
    BY <1>1, <1>4, <1>6, <1>7 DEF SessionOK, CopySettled
<1> QED BY <1>1, <1>2, <1>8, OnlyBusy

LEMMA TickUnderBriefStep ==
  ASSUME Typed, SInv, NEW c \in Command, NEW k \in GatedKey, TickUnderBrief(c, k)
  PROVE  SInv'
<1>1. /\ pc[c] = "tick" /\ InSession(c) /\ InSession(c)' /\ pc'[c] = "tick"
      /\ ~Writing(c)
    BY DEF TickUnderBrief, InSession, session, Writing
<1>2. /\ at'[c] = now' /\ \A d \in Command : d # c => pc'[d] = "idle"
    BY <1>1, Alone DEF TickUnderBrief, session
<1>3. CopySettled(c)'
    BY <1>1, RanSettled, KeyPartition
       DEF TickUnderBrief, session, disk, CopySettled, SInv, SessionOK
<1>4. SessionOK(c)'
    BY <1>1, <1>3 DEF SessionOK, SInv, TickUnderBrief, session, disk, Writing
<1> QED BY <1>1, <1>2, <1>4, OnlyBusy

\* The two looks of retention-apply see the same file.
LEMMA CheckApplyConsumes ==
  ASSUME Typed, SInv, NEW c \in Command, NEW i \in ApprovalId, CheckApply(c, i)
  PROVE  /\ mem[c][i].status = "approved" /\ mem[c][i] = file[i]
         /\ Change(c, i, "superseded") /\ UNCHANGED uses
<1>1. InSession(c) /\ pc[c] = "apply"
    BY DEF CheckApply, InSession
<1>2. mem[c] = ExpireDue(file, now)
    BY <1>1 DEF SInv, SessionOK
<1>3. file[i].status = "approved"
    BY DEF CheckApply, Covers
<1>4. mem[c][i] = file[i]
    BY <1>2, <1>3, DueRecords DEF Typed
<1> QED BY <1>3, <1>4 DEF CheckApply

LEMMA RefuseApplyStep ==
  ASSUME Typed, SInv, NEW c \in Command, RefuseApply(c)
  PROVE  SInv'
<1>1. InSession(c) /\ pc[c] # "idle" /\ FileSettled
    BY DEF RefuseApply, InSession, SInv, SessionOK
<1>2. FileSettled'
    BY <1>1 DEF RefuseApply, disk, history, FileSettled
<1> QED BY <1>1, <1>2, Ends DEF RefuseApply

\* What FlushSave writes is the session's copy, which then is the file.
LEMMA FlushWrites ==
  ASSUME Typed, SInv, NEW c \in Command, FlushSave(c)
  PROVE  file' = mem[c] /\ Follows(file, mem[c])
<1>1. InSession(c)
    BY DEF FlushSave, InSession
<1>2. DraftOf(file, mem[c], queue[c])
    BY <1>1 DEF SInv, SessionOK
<1>3. queue[c] = {} => mem[c] = file
  <2> SUFFICES ASSUME queue[c] = {}
               PROVE  mem[c] = file
      OBVIOUS
  <2>1. \A i \in ApprovalId : mem[c][i] = file[i]
      BY <1>2 DEF DraftOf
  <2> QED BY <2>1 DEF Typed, LedgerFile
<1> QED BY <1>2, <1>3 DEF FlushSave, DraftOf

LEMMA FlushSaveStep ==
  ASSUME Typed, SInv, NEW c \in Command, FlushSave(c)
  PROVE  SInv'
<1>1. /\ InSession(c) /\ pc[c] # "idle" /\ ~Writing(c)
      /\ InSession(c)' /\ pc'[c] \notin {"idle", "gate", "apply"} /\ Writing(c)'
    BY DEF FlushSave, InSession, Writing, Typed
<1>2. /\ at'[c] = now' /\ \A d \in Command : d # c => pc'[d] = "idle"
    BY <1>1, Alone DEF FlushSave, Typed
<1>3. CopySettled(c) /\ Unspent(mem[c], queue[c], uses)
    BY <1>1 DEF SInv, SessionOK
<1>4. \A i \in Spent(c) \cap ApprovalId : mem[c][i].status = "superseded" /\ uses[i] = 0
    BY <1>3 DEF Unspent, Spent
<1>5. CopySettled(c)'
  <2>1. uses \in [ApprovalId -> 0..2]
      BY DEF Typed
  <2>2. Settled(mem[c], audit \cup queue[c], Use(uses, Spent(c)), refused, ran, next, now)
      BY <1>3, <1>4, <2>1, SpentSettled DEF CopySettled
  <2> QED BY <2>2 DEF CopySettled, FlushSave
<1>6. mem'[c] = file'
    BY FlushWrites DEF FlushSave
<1>7. DraftOf(file', mem'[c], queue'[c])
  <2>1. mem[c] \in LedgerFile
      BY DEF Typed
  <2>2. DraftOf(mem[c], mem[c], queue[c])
      BY <2>1, FollowsSelf DEF DraftOf
  <2> QED BY <1>6, <2>2 DEF FlushSave
<1>8. SessionOK(c)'
    BY <1>1, <1>5, <1>6, <1>7 DEF SessionOK
<1> QED BY <1>1, <1>2, <1>8, OnlyBusy

LEMMA FlushAuditStep ==
  ASSUME Typed, SInv, NEW c \in Command, FlushAudit(c)
  PROVE  SInv'
<1>1. InSession(c) /\ pc[c] # "idle" /\ Writing(c)
    BY DEF FlushAudit, InSession, Writing
<1>2. CopySettled(c) /\ mem[c] = file
    BY <1>1 DEF SInv, SessionOK
<1>3. FileSettled'
    BY <1>2 DEF CopySettled, FileSettled, FlushAudit, history
<1> QED BY <1>1, <1>3, Ends DEF FlushAudit

\* The gate: the file did not change between the look for a denial and the
\* evaluation, and what fell due on the way is settled too.
LEMMA GateView ==
  ASSUME Typed, SInv, NEW c \in Command, pc[c] = "gate"
  PROVE  /\ pc[c] # "idle" /\ at[c] = now /\ FileSettled
         /\ asked[c] \in GatedKey /\ asked[c] \in Key
         /\ ~Denies(file, asked[c]) /\ ~Denies(ExpireDue(file, now), asked[c])
         /\ ExpireDue(file, now) \in LedgerFile
         /\ \A b : audit \subseteq b =>
              Settled(ExpireDue(file, now), b, uses, refused, ran, next, now)
         /\ uses \in [ApprovalId -> 0..2] /\ refused \in SUBSET Key /\ now \in Nat
<1>1. at[c] = now /\ \A d \in Command : d # c => pc[d] = "idle"
    BY Alone
<1>2. FileSettled
    BY <1>1 DEF SInv, NoSession, InSession
<1>3. ~Denies(file, asked[c])
    BY DEF SInv
<1>4. file \in LedgerFile /\ now \in Nat
    BY ClockType DEF Typed
<1>5. ExpireDue(file, now) \in LedgerFile /\ Follows(file, ExpireDue(file, now))
    BY <1>4, ExpireDueFacts, DueFollows
<1>6. \A b : audit \subseteq b =>
        Settled(ExpireDue(file, now), b, uses, refused, ran, next, now)
    BY <1>2, <1>4, DueSettled DEF FileSettled
<1>7. ~Denies(ExpireDue(file, now), asked[c])
    BY <1>3, <1>5, FollowsDenies
<1>8. asked[c] \in GatedKey /\ asked[c] \in Key
    BY KeyPartition DEF Typed
<1> QED BY <1>1, <1>2, <1>3, <1>4, <1>5, <1>6, <1>7, <1>8 DEF Typed

LEMMA GateCheckStep ==
  ASSUME Serial, Typed, SInv, NEW c \in Command, NEW k \in GatedKey, GateCheck(c, k)
  PROVE  SInv'
<1>1. AllIdle /\ FileSettled
    BY StartsAlone DEF GateCheck
<1>2. pc'[c] = "gate" /\ at'[c] = now' /\ \A d \in Command : d # c => pc'[d] = "idle"
    BY <1>1 DEF GateCheck, AllIdle, Typed
<1>3. ~InSession(c)'
    BY <1>2 DEF InSession
<1>4. ~Denies(file', asked'[c])
    BY DEF GateCheck, disk, Typed
<1>5. FileSettled'
    BY <1>1 DEF GateCheck, FileSettled, disk, history
<1> QED BY <1>2, <1>3, <1>4, <1>5, OnlyBusy

LEMMA GateUseGrantStep ==
  ASSUME Serial, Typed, SInv, NEW c \in Command, GateUseGrant(c)
  PROVE  SInv'
<1> DEFINE f == ExpireDue(file, now)
<1>0. pc[c] = "gate"
    BY DEF GateUseGrant
<1>1. at[c] = now
    BY <1>0, GateView
<1>2. PICK i \in ApprovalId : /\ IsFirst(i, GrantsFor(f, asked[c], now))
                             /\ file' = Mark(f, i, "superseded")
                             /\ WriteAudit({<<i, "superseded">>})
                             /\ uses' = Use(uses, {i})
    BY <1>1 DEF GateUseGrant
<1>3. f[i].status = "approved"
    BY <1>2 DEF IsFirst, GrantsFor, Covers
<1>4. audit' = audit \cup {<<i, "superseded">>}
    BY <1>2, SerialLog
<1>5. /\ Settled(f, audit, uses, refused, ran, next, now) /\ f \in LedgerFile
      /\ uses \in [ApprovalId -> 0..2] /\ ~Denies(f, asked[c]) /\ asked[c] \in Key
    BY <1>0, GateView
<1> HIDE DEF f
<1>6. Settled(Mark(f, i, "superseded"), audit \cup {<<i, "superseded">>}, Use(uses, {i}),
              refused, ran, next, now)
    BY <1>3, <1>5, ConsumedSettled
<1>7. ~Denies(Mark(f, i, "superseded"), asked[c])
    BY <1>3, <1>5, ConsumedFollows, FollowsDenies
<1>8. Settled(Mark(f, i, "superseded"), audit \cup {<<i, "superseded">>}, Use(uses, {i}),
              refused, ran \cup {asked[c]}, next, now)
    BY <1>5, <1>6, <1>7, RanSettled
<1>9. FileSettled'
    BY <1>2, <1>4, <1>8 DEF FileSettled, GateUseGrant
<1> QED BY <1>0, <1>9, Ends DEF GateUseGrant

LEMMA GateWaitStep ==
  ASSUME Typed, SInv, NEW c \in Command, GateWait(c) \/ GateUnderBrief(c)
  PROVE  SInv'
<1>1. pc[c] = "gate" /\ Idle(c)
    BY DEF GateWait, GateUnderBrief
<1>2. /\ Settled(ExpireDue(file, now), audit, uses, refused, ran, next, now)
      /\ Settled(ExpireDue(file, now), audit, uses, refused, ran \cup {asked[c]}, next, now)
    BY <1>1, GateView, RanSettled
<1>3. FileSettled'
    BY <1>1, <1>2, GateView DEF FileSettled, GateWait, GateUnderBrief, history
<1> QED BY <1>1, <1>3, Ends

LEMMA GateAskStep ==
  ASSUME Serial, Typed, SInv, NEW c \in Command, GateAsk(c)
  PROVE  SInv'
<1> DEFINE f == ExpireDue(file, now)
<1>0. pc[c] = "gate" /\ Idle(c) /\ next \in ApprovalId
    BY BoundAssumption DEF GateAsk, Typed, ApprovalId
<1>1. at[c] = now
    BY <1>0, GateView
<1>2. /\ file' = AskOperator(f, next, asked[c], now)
      /\ audit' = audit \cup {<<next, "pending">>}
      /\ next' = next + 1
    BY <1>1, SerialLog DEF GateAsk
<1>3. /\ Settled(f, audit, uses, refused, ran, next, now) /\ f \in LedgerFile
      /\ uses \in [ApprovalId -> 0..2] /\ ~Denies(f, asked[c]) /\ asked[c] \in Key
      /\ refused \in SUBSET Key /\ now \in Nat
    BY <1>0, GateView
<1> HIDE DEF f
<1>4. Settled(AskOperator(f, next, asked[c], now), audit \cup {<<next, "pending">>}, uses,
              refused, ran, next + 1, now)
    BY <1>0, <1>3, AskedSettled
<1>5. FileSettled'
    BY <1>2, <1>4 DEF FileSettled, GateAsk, history
<1> QED BY <1>0, <1>5, Ends

\* The operator's commands find no command under way.
LEMMA ResolveStep ==
  ASSUME Serial, Typed, SInv, OneOpenIn(file, now),
         NEW status \in {"approved", "denied"}, Resolve(status)
  PROVE  SInv'
<1> DEFINE f == ExpireDue(file, now)
<1>1. AllIdle /\ FileSettled
    BY StartsAlone DEF Resolve
<1>2. /\ file \in LedgerFile /\ now \in Nat /\ uses \in [ApprovalId -> 0..2]
    BY ClockType DEF Typed
<1>3. f \in LedgerFile /\ OneOpenIn(f, now)
    BY <1>2, ExpireDueFacts, DueOneOpen
<1>4. Settled(f, audit, uses, refused, ran, next, now)
    BY <1>1, <1>2, DueSettled DEF FileSettled
<1>5. UNCHANGED session /\ UNCHANGED <<now, next, uses>>
    BY DEF Resolve
<1>6. ASSUME NEW i \in ApprovalId, f[i].status = "pending", file' = Mark(f, i, status),
             WriteAudit({<<i, status>>}),
             IF status = "approved" THEN UNCHANGED <<refused, ran>>
             ELSE refused' = refused \cup {f[i].key} /\ ran' = ran \ {f[i].key}
      PROVE  FileSettled'
  <2>1. audit' = audit \cup {<<i, status>>}
      BY <1>6, SerialLog
  <2>2. ExpiresAt(f[i]) >= now
    <3>1. f[i] = file[i] /\ i \notin DueIds(file, now)
        BY <1>2, <1>6, DueRecords
    <3>2. ExpiresAt(file[i]) \in Nat
        BY <1>2, BoundAssumption DEF LedgerFile, Approval, NoApproval, ExpiresAt
    <3> QED BY <1>2, <1>6, <3>1, <3>2 DEF DueIds
  <2> HIDE DEF f
  <2>3. CASE status = "approved"
    <3>1. Settled(Mark(f, i, "approved"), audit \cup {<<i, "approved">>}, uses, refused, ran,
                  next, now)
        BY <1>2, <1>3, <1>4, <1>6, GrantedSettled
    <3> QED BY <1>5, <1>6, <2>1, <2>3, <3>1 DEF FileSettled
  <2>4. CASE status = "denied"
    <3>1. Settled(Mark(f, i, "denied"), audit \cup {<<i, "denied">>}, uses,
                  refused \cup {f[i].key}, ran \ {f[i].key}, next, now)
        BY <1>2, <1>3, <1>4, <1>6, <2>2, DeniedSettled
    <3> QED BY <1>5, <1>6, <2>1, <2>4, <3>1 DEF FileSettled
  <2> QED BY <2>3, <2>4
<1>7. ASSUME file' = f, UNCHANGED <<audit, refused, ran>>
      PROVE  FileSettled'
    BY <1>4, <1>5, <1>7 DEF FileSettled
<1>8. FileSettled'
    BY <1>6, <1>7 DEF Resolve
<1> QED BY <1>1, <1>5, <1>8, OperatorOnly

LEMMA ListPendingStep ==
  ASSUME Serial, Typed, SInv, ListPending
  PROVE  SInv'
<1>1. AllIdle /\ FileSettled
    BY StartsAlone DEF ListPending
<1>2. audit' = audit \cup Lines(DueIds(file, now), "expired")
    BY SerialLog DEF ListPending
<1>3. Settled(ExpireDue(file, now), audit', uses, refused, ran, next, now)
    BY <1>1, <1>2, DueSettled, ClockType DEF FileSettled, Typed
<1>4. FileSettled'
    BY <1>3 DEF FileSettled, ListPending, history
<1> QED BY <1>1, <1>4, OperatorOnly DEF ListPending

LEMMA NewApprovalStep ==
  ASSUME Serial, Typed, SInv, NEW k \in GatedKey, NewApproval(k)
  PROVE  SInv' /\ file' = ReopenedFile(file, k)
<1> DEFINE denied == {i \in ApprovalId : file[i].status = "denied" /\ file[i].key = k}
<1>1. AllIdle /\ FileSettled
    BY StartsAlone DEF NewApproval
<1>2. file' = ReopenedFile(file, k)
    BY DEF NewApproval, ReopenedFile
<1>3. WriteAudit(Lines(denied, "superseded"))
    BY DEF NewApproval
<1>4. audit' = audit \cup Lines(denied, "superseded")
    BY <1>3, SerialLog
<1>5. \A i \in denied : <<i, "superseded">> \in Lines(denied, "superseded")
    BY DEF Lines
<1>6. k \in Key /\ file \in LedgerFile /\ now \in Nat /\ uses \in [ApprovalId -> 0..2]
    BY ClockType, KeyPartition DEF Typed
<1> DEFINE log == audit \cup Lines(denied, "superseded")
<1>7. /\ audit \subseteq log
      /\ \A i \in ApprovalId :
           file[i].status = "denied" /\ file[i].key = k => <<i, "superseded">> \in log
    BY <1>5
<1> HIDE DEF denied, log
<1>8. Settled(ReopenedFile(file, k), log, uses, refused \ {k}, ran, next, now)
    BY <1>1, <1>6, <1>7, ReopenedSettled DEF FileSettled
<1>9. FileSettled'
    BY <1>2, <1>4, <1>8 DEF FileSettled, NewApproval, log
<1> QED BY <1>1, <1>2, <1>9, OperatorOnly DEF NewApproval

LEMMA AdvanceStep ==
  ASSUME Serial, Typed, SInv, Advance
  PROVE  SInv'
<1>1. AllIdle /\ FileSettled
    BY StartsAlone DEF Advance
<1>2. Settled(file, audit, uses, refused, ran, next, now + 1)
    BY <1>1, LaterSettled, ClockType DEF FileSettled, Typed
<1>3. FileSettled'
    BY <1>2 DEF FileSettled, Advance, disk, history
<1> QED BY <1>1, <1>3, OperatorOnly DEF Advance

LEMMA SInvStep ==
  ASSUME Serial, Typed, OneOpenRequest, SInv, [Next]_vars
  PROVE  SInv'
<1>1. ASSUME NEW c \in Command, BeginTick(c) \/ BeginApply(c)
      PROVE  SInv'
    BY <1>1, OpenStep DEF BeginTick, BeginApply
<1>2. ASSUME NEW c \in Command, NEW k \in GatedKey, TickUseGrant(c, k)
      PROVE  SInv'
  <2>1. PICK i \in ApprovalId : /\ IsFirst(i, GrantsFor(mem[c], k, at[c]))
                               /\ Change(c, i, "superseded")
                               /\ uses' = Use(uses, {i})
      BY <1>2 DEF TickUseGrant
  <2>2. mem[c][i].status = "approved" /\ mem[c][i].key = k
      BY <2>1 DEF IsFirst, GrantsFor, Covers
  <2>3. k \in Key /\ ran' = ran \cup {k} /\ ~Denies(mem[c], k)
      BY <1>2, KeyPartition DEF TickUseGrant
  <2> QED BY <1>2, <2>1, <2>2, <2>3, ConsumeStep DEF TickUseGrant
<1>3. ASSUME NEW c \in Command, NEW i \in ApprovalId, TickUseFallback(c, i)
      PROVE  SInv'
    BY <1>3, ConsumeStep DEF TickUseFallback, Covers, history, disk
<1>4. ASSUME NEW c \in Command, NEW i \in ApprovalId, CheckApply(c, i)
      PROVE  SInv'
  <2>1. pc' = [pc EXCEPT ![c] = "ready"] /\ pc'[c] = "ready"
      BY <1>4 DEF CheckApply, Typed
  <2> QED BY <1>4, <2>1, CheckApplyConsumes, ConsumeStep DEF CheckApply
<1>5. ASSUME OperatorStep
      PROVE  SInv'
  <2>1. OneOpenIn(file, now)
      BY DEF OneOpenRequest, OneOpenIn
  <2> QED BY <1>5, <2>1, ResolveStep, ListPendingStep, NewApprovalStep
          DEF OperatorStep, Ok, Deny
<1>6. ASSUME NEW c \in Command, SessionStep(c)
      PROVE  SInv'
    BY <1>1, <1>2, <1>3, <1>4, <1>6, TickAskStep, TickUnderBriefStep, BeginRequestStep,
       RefuseApplyStep, FlushSaveStep, FlushAuditStep
    DEF SessionStep, Die, Serial
<1>7. ASSUME NEW c \in Command, GateStep(c)
      PROVE  SInv'
    BY <1>7, GateCheckStep, GateUseGrantStep, GateWaitStep, GateAskStep DEF GateStep
<1>8. CASE UNCHANGED vars
    BY <1>8 DEF vars, SInv, OneBusy, NoSession, InSession, FileSettled, SessionOK,
       CopySettled, Writing, Spent
<1> QED BY <1>5, <1>6, <1>7, <1>8, AdvanceStep DEF Next

-----------------------------------------------------------------------------
\* Serial use, for every set of keys and commands and every bound.

SerialInv == Typed /\ ClocksPast /\ OneOpenRequest /\ SInv

\* The invariant the theorems below rest on.
THEOREM SerialInvAlways ==
  ASSUME Serial
  PROVE  Spec => []SerialInv
<1>1. Init => SerialInv
    BY TypeInit, OneOpenInit, SInvInit DEF SerialInv
<1>2. SerialInv /\ [Next]_vars => SerialInv'
    BY TypeStep, ClocksStep, OneOpenStep, SInvStep DEF SerialInv
<1> QED BY <1>1, <1>2, PTL DEF Spec

\* With one command at a time, what consumes a grant (evaluate_action,
\* supersede_approval, a session and its flush) consumes it once.
THEOREM GrantUsedOnceAlways ==
  ASSUME Serial
  PROVE  Spec => []GrantUsedOnce
<1>1. SerialInv => GrantUsedOnce
  <2> SUFFICES ASSUME SerialInv
               PROVE  GrantUsedOnce
      OBVIOUS
  <2>1. CASE NoSession
      BY <2>1 DEF SerialInv, SInv, FileSettled, Settled, GrantUsedOnce
  <2>2. CASE \E c \in Command : InSession(c)
      BY <2>2 DEF SerialInv, SInv, SessionOK, CopySettled, Settled, GrantUsedOnce
  <2> QED BY <2>1, <2>2 DEF NoSession
<1> QED BY <1>1, SerialInvAlways, PTL

\* A denial stays on file and its key does not run until retry
\* --new-approval, though the gate looks for it and evaluates in two steps.
THEOREM DenialHoldsAlways ==
  ASSUME Serial
  PROVE  Spec => []DenialHolds
<1>1. SerialInv => DenialHolds
  <2> SUFFICES ASSUME SerialInv
               PROVE  DenialHolds
      OBVIOUS
  <2>1. refused \subseteq Key
      BY DEF SerialInv, Typed
  <2>2. CASE NoSession
      BY <2>1, <2>2 DEF SerialInv, SInv, FileSettled, Settled, DenialHolds
  <2>3. ASSUME NEW c \in Command, InSession(c)
        PROVE  DenialHolds
    <3>1. CopySettled(c) /\ Follows(file, mem[c])
        BY <2>3 DEF SerialInv, SInv, SessionOK, DraftOf
    <3>2. \A k \in refused : Denies(mem[c], k) /\ k \notin ran
        BY <2>1, <3>1 DEF CopySettled, Settled
    <3> QED BY <3>1, <3>2, FollowsDenies DEF DenialHolds
  <2> QED BY <2>2, <2>3 DEF NoSession
<1> QED BY <1>1, SerialInvAlways, PTL

\* Once the commands are done, the log has a line for every answer on file,
\* the ones a session flushed included.
THEOREM AuditCompleteAlways ==
  ASSUME Serial
  PROVE  Spec => []AuditComplete
<1>1. SerialInv => AuditComplete
    BY DEF SerialInv, SInv, FileSettled, Settled, AuditComplete, AllIdle, NoSession, InSession
<1> QED BY <1>1, SerialInvAlways, PTL

\* No step of serial use rewrites a record of the file against its history.
LEMMA FollowingStep ==
  ASSUME Serial, SerialInv, [Next]_vars
  PROVE  \A i \in ApprovalId : file'[i].status \in Successors(file[i].status)
<1> DEFINE Moves == \A i \in ApprovalId : file'[i].status \in Successors(file[i].status)
           f == ExpireDue(file, now)
<1> USE DEF SerialInv
<1>0. file \in LedgerFile /\ now \in Nat /\ f \in LedgerFile /\ Follows(file, f)
    BY ClockType, ExpireDueFacts, DueFollows DEF Typed
<1>1. ASSUME file' = file \/ Follows(file, file')
      PROVE  Moves
    BY <1>0, <1>1, FollowsSelf DEF Follows
<1>2. ASSUME file' \in LedgerFile, Follows(f, file')
      PROVE  Moves
    BY <1>0, <1>1, <1>2, FollowsTransitive
<1>3. ASSUME NEW c \in Command, SessionStep(c)
      PROVE  Moves
  <2>1. FlushSave(c) => Follows(file, file')
      BY FlushWrites
  <2>2. file' = file \/ FlushSave(c)
      BY <1>3 DEF SessionStep, BeginTick, BeginApply, RefuseApply, FlushAudit, Die,
         TickUseGrant, TickUnderBrief, TickAsk, TickUseFallback, CheckApply, BeginRequest, disk
  <2> QED BY <1>1, <2>1, <2>2
<1>4. ASSUME NEW c \in Command, GateStep(c)
      PROVE  Moves
  <2>1. CASE \E k \in GatedKey : GateCheck(c, k)
      BY <1>1, <2>1 DEF GateCheck, disk
  <2>2. CASE GateUseGrant(c)
    <3>1. PICK i \in ApprovalId : /\ IsFirst(i, GrantsFor(f, asked[c], now))
                                 /\ file' = Mark(f, i, "superseded")
        BY <2>2, GateView DEF GateUseGrant
    <3>2. f[i].status = "approved"
        BY <3>1 DEF IsFirst, GrantsFor, Covers
    <3> QED BY <1>0, <1>2, <3>1, <3>2, ConsumedFollows
  <2>3. CASE GateWait(c) \/ GateUnderBrief(c)
      BY <1>0, <1>1, <2>3, GateView DEF GateWait, GateUnderBrief
  <2>4. CASE GateAsk(c)
    <3>1. /\ next \in ApprovalId /\ asked[c] \in Key /\ ~Denies(f, asked[c])
          /\ Settled(f, audit, uses, refused, ran, next, now)
          /\ file' = AskOperator(f, next, asked[c], now)
        BY <2>4, GateView, BoundAssumption DEF GateAsk, Typed, ApprovalId
    <3>2. f[next].status = "absent"
        BY <3>1, BoundAssumption DEF Settled, ApprovalId
    <3> QED BY <1>0, <1>2, <3>1, <3>2, AskedFollows
  <2> QED BY <1>4, <2>1, <2>2, <2>3, <2>4 DEF GateStep
<1>5. ASSUME NEW status \in {"approved", "denied"}, Resolve(status)
      PROVE  Moves
  <2>1. ASSUME NEW i \in ApprovalId, f[i].status = "pending", file' = Mark(f, i, status)
        PROVE  Moves
    <3>1. \A j \in ApprovalId : j # i => file'[j] = f[j]
        BY <1>0, <2>1, MarkRecords
    <3>2. file'[i].status = status /\ file[i].status = "pending"
        BY <1>0, <2>1, MarkRecords, DueRecords
    <3>3. \A j \in ApprovalId : f[j].status \in Successors(file[j].status)
        BY <1>0 DEF Follows
    <3>4. file'[i].status \in Successors(file[i].status)
        BY <3>2 DEF Successors, ApprovalStatus
    <3> HIDE DEF f
    <3> QED BY <3>1, <3>3, <3>4
  <2>2. CASE file' = f
      BY <1>0, <1>1, <2>2
  <2> QED BY <1>5, <2>1, <2>2 DEF Resolve
<1>6. CASE ListPending
    BY <1>0, <1>1, <1>6 DEF ListPending
<1>7. ASSUME NEW k \in GatedKey, NewApproval(k)
      PROVE  Moves
  <2> TAKE i \in ApprovalId
  <2>1. file' = ReopenedFile(file, k)
      BY <1>7, NewApprovalStep
  <2>2. file[i].status \in ApprovalStatus
      BY <1>0 DEF LedgerFile, Approval, NoApproval, ApprovalStatus
  <2> QED BY <1>0, <2>1, <2>2, ReopenedRecords DEF Successors, ApprovalStatus
<1>8. CASE Advance \/ UNCHANGED vars
    BY <1>1, <1>8 DEF Advance, disk, vars
<1> HIDE DEF Moves
<1> QED BY <1>3, <1>4, <1>5, <1>6, <1>7, <1>8 DEF Next, OperatorStep, Ok, Deny, Moves

\* A resolved record is not pending again, a denial does not become a grant,
\* and a closed record stays closed, whichever command writes the file.
THEOREM NothingUndoneAlways ==
  ASSUME Serial
  PROVE  Spec => NothingUndone
<1>1. SerialInv /\ [Next]_vars
        => [\A i \in ApprovalId : file'[i].status \in Successors(file[i].status)]_vars
    BY FollowingStep
<1> QED BY <1>1, SerialInvAlways, PTL DEF Spec, NothingUndone

-----------------------------------------------------------------------------
\* One answer per key: the refinement of LedgerPerKey.

AnswerIn(f, k, t) ==
  IF Denies(f, k) THEN "denied"
  ELSE IF GrantsFor(f, k, t) # {} THEN "granted"
  ELSE IF PendingsFor(ExpireDue(f, t), k, t) # {} THEN "waiting"
  ELSE "none"

\* A record waits when it is pending and not due.
LEMMA StillWaiting ==
  ASSUME NEW f \in LedgerFile, NEW k, NEW t \in Nat
  PROVE  PendingsFor(ExpireDue(f, t), k, t)
           = {i \in ApprovalId : f[i].status = "pending" /\ f[i].key = k /\ ExpiresAt(f[i]) > t}
<1>1. \A i \in ApprovalId : f[i].status = "pending" => ExpiresAt(f[i]) \in Nat
    BY BoundAssumption DEF LedgerFile, Approval, NoApproval, ExpiresAt
<1>2. ASSUME NEW i \in ApprovalId
      PROVE  Covers(ExpireDue(f, t)[i], "pending", k, t)
               <=> f[i].status = "pending" /\ f[i].key = k /\ ExpiresAt(f[i]) > t
    BY <1>1, DueRecords DEF Covers, DueIds
<1> QED BY <1>2 DEF PendingsFor

\* What expires on the way was gone already.
LEMMA DueAnswers ==
  ASSUME NEW f \in LedgerFile, NEW t \in Nat, NEW k
  PROVE  AnswerIn(ExpireDue(f, t), k, t) = AnswerIn(f, k, t)
<1> DEFINE g == ExpireDue(f, t)
<1>1. g \in LedgerFile
    BY ExpireDueFacts
<1>2. Denies(g, k) <=> Denies(f, k)
    BY DueFollows, FollowsDenies
<1>3. GrantsFor(g, k, t) = GrantsFor(f, k, t)
    BY DueRecords DEF GrantsFor, Covers, ExpiresAt
<1>4. PendingsFor(ExpireDue(g, t), k, t) = PendingsFor(ExpireDue(f, t), k, t)
  <2>1. \A i \in ApprovalId :
          (g[i].status = "pending" /\ g[i].key = k /\ ExpiresAt(g[i]) > t)
            <=> (f[i].status = "pending" /\ f[i].key = k /\ ExpiresAt(f[i]) > t)
    <3>1. \A i \in ApprovalId : f[i].status = "pending" => ExpiresAt(f[i]) \in Nat
        BY BoundAssumption DEF LedgerFile, Approval, NoApproval, ExpiresAt
    <3> QED BY <3>1, DueRecords DEF DueIds
  <2> HIDE DEF g
  <2>2. PendingsFor(ExpireDue(g, t), k, t)
          = {i \in ApprovalId : g[i].status = "pending" /\ g[i].key = k /\ ExpiresAt(g[i]) > t}
      BY <1>1, StillWaiting
  <2>3. PendingsFor(ExpireDue(f, t), k, t)
          = {i \in ApprovalId : f[i].status = "pending" /\ f[i].key = k /\ ExpiresAt(f[i]) > t}
      BY StillWaiting
  <2> QED BY <2>1, <2>2, <2>3
<1> HIDE DEF g
<1>5. AnswerIn(g, k, t) = AnswerIn(f, k, t)
    BY <1>2, <1>3, <1>4 DEF AnswerIn
<1> QED BY <1>5 DEF g

\* Nothing open and no denial is no answer, and an open grant is one.
LEMMA NoneIn ==
  ASSUME NEW f \in LedgerFile, NEW k, NEW t \in Nat, OpenFor(f, k, t) = {}, ~Denies(f, k)
  PROVE  AnswerIn(f, k, t) = "none"
<1>1. GrantsFor(f, k, t) = {} /\ PendingsFor(f, k, t) = {}
    BY DEF OpenFor
<1>2. PendingsFor(ExpireDue(f, t), k, t) = {}
    BY <1>1, DueRecords DEF PendingsFor, Covers, ExpiresAt
<1> QED BY <1>1, <1>2 DEF AnswerIn

LEMMA GrantedIn ==
  ASSUME NEW f, NEW k, NEW t, NEW i \in ApprovalId, Covers(f[i], "approved", k, t), ~Denies(f, k)
  PROVE  AnswerIn(f, k, t) = "granted"
BY DEF AnswerIn, GrantsFor

\* A record that is closed takes the answer of its key with it, ...
LEMMA OthersKeep ==
  ASSUME NEW f \in LedgerFile, NEW g \in LedgerFile, NEW i \in ApprovalId, NEW l, NEW t \in Nat,
         \A j \in ApprovalId : j # i => g[j] = f[j],
         f[i].key # l \/ f[i].status = "absent", g[i].key # l
  PROVE  AnswerIn(g, l, t) = AnswerIn(f, l, t)
<1>1. Denies(g, l) <=> Denies(f, l)
    BY DEF Denies
<1>2. GrantsFor(g, l, t) = GrantsFor(f, l, t)
    BY DEF GrantsFor, Covers
<1>3. PendingsFor(ExpireDue(g, t), l, t) = PendingsFor(ExpireDue(f, t), l, t)
    BY StillWaiting
<1> QED BY <1>1, <1>2, <1>3 DEF AnswerIn

LEMMA ConsumedAnswers ==
  ASSUME NEW f \in LedgerFile, NEW i \in ApprovalId, NEW k \in Key, NEW t \in Nat,
         Covers(f[i], "approved", k, t), OneOpenIn(f, t), ~Denies(f, k)
  PROVE  /\ AnswerIn(f, k, t) = "granted"
         /\ AnswerIn(Mark(f, i, "superseded"), k, t) = "none"
         /\ \A l : l # k => AnswerIn(Mark(f, i, "superseded"), l, t) = AnswerIn(f, l, t)
<1> DEFINE g == Mark(f, i, "superseded")
<1>1. f[i].status = "approved" /\ f[i].key = k /\ i \in OpenFor(f, k, t)
    BY DEF Covers, OpenFor, GrantsFor
<1>2. g \in LedgerFile /\ Follows(f, g)
    BY <1>1, ConsumedFollows
<1>3. OpenFor(g, k, t) \subseteq OpenFor(f, k, t) \ {i}
    BY MarkRecords DEF OpenFor, GrantsFor, PendingsFor, Covers
<1>4. OpenFor(g, k, t) = {}
    BY <1>1, <1>3 DEF OneOpenIn, AtMostOneOpen
<1>5. ~Denies(g, k)
    BY <1>2, FollowsDenies
<1>6. (\A j \in ApprovalId : j # i => g[j] = f[j]) /\ g[i].key = k
    BY <1>1, MarkRecords
<1> HIDE DEF g
<1>7. AnswerIn(g, k, t) = "none"
    BY <1>2, <1>4, <1>5, NoneIn
<1>8. \A l : l # k => AnswerIn(g, l, t) = AnswerIn(f, l, t)
    BY <1>1, <1>2, <1>6, OthersKeep
<1> QED BY <1>7, <1>8, GrantedIn DEF g

\* ... asking gives its key one, unless the record is due at once, ...
LEMMA AskedAnswers ==
  ASSUME NEW f \in LedgerFile, NEW i \in ApprovalId, NEW k \in Key, NEW t \in Nat,
         f[i].status = "absent", OpenFor(f, k, t) = {}, ~Denies(f, k)
  PROVE  /\ AnswerIn(f, k, t) = "none"
         /\ AnswerIn(AskOperator(f, i, k, t), k, t) \in {"none", "waiting"}
         /\ \A l : l # k => AnswerIn(AskOperator(f, i, k, t), l, t) = AnswerIn(f, l, t)
<1> DEFINE g == AskOperator(f, i, k, t)
<1>1. g \in LedgerFile /\ Follows(f, g)
    BY AskedFollows
<1>2. GrantsFor(g, k, t) \subseteq GrantsFor(f, k, t)
    BY AskRecords DEF GrantsFor, Covers
<1>3. GrantsFor(g, k, t) = {} /\ ~Denies(g, k)
    BY <1>1, <1>2, FollowsDenies DEF OpenFor
<1>4. (\A j \in ApprovalId : j # i => g[j] = f[j]) /\ g[i].key = k
    BY AskRecords
<1> HIDE DEF g
<1>5. AnswerIn(g, k, t) \in {"none", "waiting"}
    BY <1>3 DEF AnswerIn
<1>6. \A l : l # k => AnswerIn(g, l, t) = AnswerIn(f, l, t)
    BY <1>1, <1>4, OthersKeep
<1> QED BY <1>5, <1>6, NoneIn DEF g

\* ... the operator's answer replaces the question, ...
LEMMA AnsweredAnswers ==
  ASSUME NEW f \in LedgerFile, NEW i \in ApprovalId, NEW k \in Key, NEW t \in Nat,
         f[i].status = "pending", f[i].key = k, ExpiresAt(f[i]) > t,
         OneOpenIn(f, t), Denies(f, k) => OpenFor(f, k, t) = {}
  PROVE  /\ AnswerIn(f, k, t) = "waiting"
         /\ AnswerIn(Mark(f, i, "approved"), k, t) = "granted"
         /\ AnswerIn(Mark(f, i, "denied"), k, t) = "denied"
         /\ \A l, s : l # k /\ s \in {"approved", "denied"}
              => AnswerIn(Mark(f, i, s), l, t) = AnswerIn(f, l, t)
<1>1. ExpiresAt(f[i]) \in Nat
    BY BoundAssumption DEF LedgerFile, Approval, NoApproval, ExpiresAt
<1>2. i \in OpenFor(f, k, t)
    BY <1>1 DEF OpenFor, PendingsFor, Covers
<1>3. ~Denies(f, k)
    BY <1>2
<1>4. GrantsFor(f, k, t) = {}
  <2> SUFFICES ASSUME NEW j \in GrantsFor(f, k, t)
               PROVE  FALSE
      OBVIOUS
  <2>1. j = i
      BY <1>2 DEF OneOpenIn, AtMostOneOpen, OpenFor
  <2> QED BY <2>1 DEF GrantsFor, Covers
<1>5. i \in PendingsFor(ExpireDue(f, t), k, t)
    BY StillWaiting
<1>6. AnswerIn(f, k, t) = "waiting"
    BY <1>3, <1>4, <1>5 DEF AnswerIn
<1>7. AnswerIn(Mark(f, i, "approved"), k, t) = "granted"
  <2>1. ~Denies(Mark(f, i, "approved"), k)
      BY <1>3, MarkRecords DEF Denies
  <2>2. Covers(Mark(f, i, "approved")[i], "approved", k, t)
      BY <1>1, MarkRecords DEF Covers, ExpiresAt
  <2> QED BY <2>1, <2>2, GrantedIn
<1>8. AnswerIn(Mark(f, i, "denied"), k, t) = "denied"
    BY MarkRecords DEF AnswerIn, Denies
<1>9. ASSUME NEW l, NEW s \in {"approved", "denied"}, l # k
      PROVE  AnswerIn(Mark(f, i, s), l, t) = AnswerIn(f, l, t)
    BY <1>9, MarkFacts, MarkRecords, OthersKeep DEF ApprovalStatus
<1> QED BY <1>6, <1>7, <1>8, <1>9

\* ... and time only takes questions and grants away.
LEMMA LaterAnswers ==
  ASSUME NEW f \in LedgerFile, NEW k \in Key, NEW t \in Nat, OneOpenIn(f, t)
  PROVE  \/ AnswerIn(f, k, t + 1) = AnswerIn(f, k, t)
         \/ AnswerIn(f, k, t) \in {"waiting", "granted"} /\ AnswerIn(f, k, t + 1) = "none"
<1>0. \A i \in ApprovalId :
        f[i].status \in {"pending", "approved"} => ExpiresAt(f[i]) \in Nat
    BY BoundAssumption DEF LedgerFile, Approval, NoApproval, ExpiresAt
<1>1. GrantsFor(f, k, t + 1) \subseteq GrantsFor(f, k, t)
    BY <1>0 DEF GrantsFor, Covers
<1>2. PendingsFor(ExpireDue(f, t + 1), k, t + 1) \subseteq PendingsFor(ExpireDue(f, t), k, t)
    BY <1>0, StillWaiting
<1>3. PendingsFor(ExpireDue(f, t), k, t) \subseteq OpenFor(f, k, t)
    BY <1>0, StillWaiting, SMTT(30) DEF OpenFor, PendingsFor, Covers
<1>4. GrantsFor(f, k, t) # {} => PendingsFor(ExpireDue(f, t), k, t) = {}
  <2> SUFFICES ASSUME NEW i \in GrantsFor(f, k, t),
                      NEW j \in PendingsFor(ExpireDue(f, t), k, t)
               PROVE  FALSE
      OBVIOUS
  <2>1. i = j
      BY <1>3 DEF OneOpenIn, AtMostOneOpen, OpenFor
  <2>2. f[i].status = "approved" /\ f[j].status = "pending"
      BY StillWaiting DEF GrantsFor, Covers
  <2> QED BY <2>1, <2>2
<1> QED BY <1>1, <1>2, <1>4 DEF AnswerIn

LEMMA ReopenedAnswers ==
  ASSUME NEW f \in LedgerFile, NEW k \in Key, NEW t \in Nat,
         Denies(f, k), OpenFor(f, k, t) = {}
  PROVE  /\ AnswerIn(f, k, t) = "denied"
         /\ AnswerIn(ReopenedFile(f, k), k, t) = "none"
         /\ \A l : l # k => AnswerIn(ReopenedFile(f, k), l, t) = AnswerIn(f, l, t)
<1> DEFINE g == ReopenedFile(f, k)
<1>1. g \in LedgerFile
  <2>1. \A i \in ApprovalId : f[i] \in Approval
      BY DEF LedgerFile
  <2>2. ASSUME NEW a \in Approval, a.status = "denied"
        PROVE  [a EXCEPT !.status = "superseded"] \in Approval
      BY <2>2 DEF Approval, NoApproval, ApprovalStatus
  <2> QED BY <2>1, <2>2 DEF ReopenedFile, LedgerFile
<1>2. \A i \in ApprovalId : g[i] = f[i] \/
        (f[i].status = "denied" /\ f[i].key = k /\ g[i].status = "superseded")
    BY ReopenedRecords
<1>3. ~Denies(g, k) /\ \A l : l # k => (Denies(g, l) <=> Denies(f, l))
  <2>1. ~Denies(g, k)
      BY ReopenedRecords DEF Denies
  <2>2. ASSUME NEW l, l # k
        PROVE  Denies(g, l) <=> Denies(f, l)
    <3>1. Denies(g, l) => Denies(f, l)
        BY <1>2 DEF Denies
    <3>2. Denies(f, l) => Denies(g, l)
        BY <1>2, <2>2 DEF Denies
    <3> QED BY <3>1, <3>2
  <2> QED BY <2>1, <2>2
<1> HIDE DEF g
<1>4. \A l : GrantsFor(g, l, t) = GrantsFor(f, l, t)
    BY <1>2 DEF GrantsFor, Covers
<1>5. \A l : PendingsFor(g, l, t) = PendingsFor(f, l, t)
    BY <1>2 DEF PendingsFor, Covers
<1>6. ASSUME NEW l
      PROVE  PendingsFor(ExpireDue(g, t), l, t) = PendingsFor(ExpireDue(f, t), l, t)
  <2>1. PendingsFor(ExpireDue(g, t), l, t)
          = {i \in ApprovalId : g[i].status = "pending" /\ g[i].key = l /\ ExpiresAt(g[i]) > t}
      BY <1>1, StillWaiting
  <2>2. PendingsFor(ExpireDue(f, t), l, t)
          = {i \in ApprovalId : f[i].status = "pending" /\ f[i].key = l /\ ExpiresAt(f[i]) > t}
      BY StillWaiting
  <2> QED BY <1>2, <2>1, <2>2
<1>7. AnswerIn(g, k, t) = "none"
    BY <1>1, <1>3, <1>4, <1>5, NoneIn DEF OpenFor
<1>8. \A l : l # k => AnswerIn(g, l, t) = AnswerIn(f, l, t)
    BY <1>3, <1>4, <1>6 DEF AnswerIn
<1> QED BY <1>7, <1>8 DEF AnswerIn, g

\* The copy that counts, and what it answers.
ViewOf(p, m, f) ==
  LET open == {"tick", "apply", "ready", "tickAppend", "append"} IN
  IF \E c \in Command : p[c] \in open
  THEN m[CHOOSE c \in Command : p[c] \in open] ELSE f

LEMMA ViewOpen ==
  ASSUME NEW p, NEW m, NEW f, NEW c \in Command,
         p[c] \in {"tick", "apply", "ready", "tickAppend", "append"},
         \A d \in Command : d # c => p[d] = "idle"
  PROVE  ViewOf(p, m, f) = m[c]
<1> DEFINE open == {"tick", "apply", "ready", "tickAppend", "append"}
<1>1. \A d \in Command : p[d] \in open => d = c
    BY DEF open
<1>2. (CHOOSE d \in Command : p[d] \in open) = c
    BY <1>1
<1> QED BY <1>2 DEF ViewOf

LEMMA ViewClosed ==
  ASSUME NEW p, NEW m, NEW f,
         \A d \in Command : p[d] \notin {"tick", "apply", "ready", "tickAppend", "append"}
  PROVE  ViewOf(p, m, f) = f
BY DEF ViewOf

LEMMA AnswersView ==
  /\ \A k : AnswerTo(k) = AnswerIn(ViewOf(pc, mem, file), k, now)
  /\ \A k : AnswerTo(k)' = AnswerIn(ViewOf(pc', mem', file'), k, now')
BY DEF AnswerTo, AnswerIn, Current, ViewOf, InSession

\* Before and after a step, from the copies that count.
LEMMA SessionAnswers ==
  ASSUME SInv, NEW c \in Command, InSession(c)
  PROVE  \A k : AnswerTo(k) = AnswerIn(mem[c], k, now)
<1>1. \A d \in Command : d # c => pc[d] = "idle"
    BY Alone DEF InSession
<1> QED BY <1>1, ViewOpen, AnswersView DEF InSession

LEMMA FileAnswers ==
  ASSUME NoSession
  PROVE  \A k : AnswerTo(k) = AnswerIn(file, k, now)
BY ViewClosed, AnswersView DEF NoSession, InSession

LEMMA SessionAnswersNext ==
  ASSUME NEW c \in Command, InSession(c)', \A d \in Command : d # c => pc'[d] = "idle"
  PROVE  \A k : AnswerTo(k)' = AnswerIn(mem'[c], k, now')
BY ViewOpen, AnswersView DEF InSession

LEMMA FileAnswersNext ==
  ASSUME NoSession'
  PROVE  \A k : AnswerTo(k)' = AnswerIn(file', k, now')
BY ViewClosed, AnswersView DEF NoSession, InSession

\* The moves of LedgerPerKey.
LEMMA BecomesOne ==
  ASSUME NEW k \in Key, NEW from, NEW to, AnswerTo(k) = from, AnswerTo(k)' = to,
         \A l \in Key : l # k => AnswerTo(l)' = AnswerTo(l)
  PROVE  PerKey!Becomes(k, from, to)
BY DEF PerKey!Becomes

LEMMA SameAnswers ==
  ASSUME \A l \in Key : AnswerTo(l)' = AnswerTo(l), ran' = ran
  PROVE  UNCHANGED PerKey!vars
BY DEF PerKey!vars

LEMMA AskMove ==
  ASSUME NEW f \in LedgerFile, NEW i \in ApprovalId, NEW k \in Key, now \in Nat,
         f[i].status = "absent", OpenFor(f, k, now) = {}, ~Denies(f, k),
         \A l : AnswerTo(l) = AnswerIn(f, l, now),
         \A l : AnswerTo(l)' = AnswerIn(AskOperator(f, i, k, now), l, now), ran' = ran
  PROVE  PerKey!Ask(k) \/ UNCHANGED PerKey!vars
<1> DEFINE g == AskOperator(f, i, k, now)
<1>1. /\ AnswerIn(f, k, now) = "none" /\ AnswerIn(g, k, now) \in {"none", "waiting"}
      /\ \A l : l # k => AnswerIn(g, l, now) = AnswerIn(f, l, now)
    BY AskedAnswers
<1> HIDE DEF g
<1>2. CASE AnswerIn(g, k, now) = "none"
    BY <1>1, <1>2, SameAnswers DEF g
<1>3. CASE AnswerIn(g, k, now) = "waiting"
    BY <1>1, <1>3, BecomesOne DEF g, PerKey!Ask
<1> QED BY <1>1, <1>2, <1>3

LEMMA GoMove ==
  ASSUME NEW f \in LedgerFile, NEW i \in ApprovalId, NEW k \in Key, now \in Nat,
         Covers(f[i], "approved", k, now), OneOpenIn(f, now), ~Denies(f, k),
         \A l : AnswerTo(l) = AnswerIn(f, l, now),
         \A l : AnswerTo(l)' = AnswerIn(Mark(f, i, "superseded"), l, now),
         ran' = IF k \in GatedKey THEN ran \cup {k} ELSE ran
  PROVE  PerKey!GoAhead(k)
<1> DEFINE g == Mark(f, i, "superseded")
<1>1. /\ AnswerIn(f, k, now) = "granted" /\ AnswerIn(g, k, now) = "none"
      /\ \A l : l # k => AnswerIn(g, l, now) = AnswerIn(f, l, now)
    BY ConsumedAnswers
<1> HIDE DEF g
<1>2. PerKey!Becomes(k, "granted", "none")
    BY <1>1, BecomesOne DEF g
<1> QED BY <1>2 DEF PerKey!GoAhead

LEMMA BriefMove ==
  ASSUME NEW f \in LedgerFile, NEW k \in EnvelopeKey, now \in Nat,
         OpenFor(f, k, now) = {}, ~Denies(f, k),
         \A l : AnswerTo(l) = AnswerIn(f, l, now),
         \A l : AnswerTo(l)' = AnswerIn(f, l, now), ran' = ran \cup {k}
  PROVE  k \in Key /\ PerKey!GoUnderBrief(k)
<1>1. k \in Key
    BY KeyPartition
<1>2. AnswerTo(k) = "none"
    BY NoneIn
<1> QED BY <1>1, <1>2 DEF PerKey!GoUnderBrief

\* What the copies are before a step: the one that counts has one open
\* record per key and nothing of a denied key is open in it.
LEMMA CountedCopy ==
  ASSUME SerialInv, NEW c \in Command, InSession(c)
  PROVE  /\ mem[c] \in LedgerFile /\ now \in Nat /\ OneOpenIn(mem[c], now)
         /\ \A k \in Key : Denies(mem[c], k) => OpenFor(mem[c], k, now) = {}
         /\ \A i \in ApprovalId : i >= next => mem[c][i].status = "absent"
<1>1. CopySettled(c)
    BY DEF SerialInv, SInv, SessionOK
<1> QED BY <1>1, ClockType
        DEF SerialInv, CopySettled, Settled, OneOpenRequest, OneOpenIn, Typed

LEMMA CountedFile ==
  ASSUME SerialInv, NoSession
  PROVE  /\ file \in LedgerFile /\ now \in Nat /\ OneOpenIn(file, now)
         /\ \A k \in Key : Denies(file, k) => OpenFor(file, k, now) = {}
         /\ ExpireDue(file, now) \in LedgerFile /\ OneOpenIn(ExpireDue(file, now), now)
         /\ \A k \in Key :
              /\ Denies(ExpireDue(file, now), k) <=> Denies(file, k)
              /\ Denies(file, k) => OpenFor(ExpireDue(file, now), k, now) = {}
         /\ \A i \in ApprovalId : i >= next => ExpireDue(file, now)[i].status = "absent"
         /\ \A k : AnswerTo(k) = AnswerIn(ExpireDue(file, now), k, now)
<1>1. FileSettled /\ file \in LedgerFile /\ now \in Nat
    BY ClockType DEF SerialInv, SInv, Typed
<1>2. /\ OneOpenIn(file, now)
      /\ \A k \in Key : Denies(file, k) => OpenFor(file, k, now) = {}
    BY <1>1 DEF FileSettled, Settled, SerialInv, OneOpenRequest, OneOpenIn
<1>3. ExpireDue(file, now) \in LedgerFile /\ OneOpenIn(ExpireDue(file, now), now)
    BY <1>1, <1>2, ExpireDueFacts, DueOneOpen
<1>4. Settled(ExpireDue(file, now), audit, uses, refused, ran, next, now)
    BY <1>1, DueSettled DEF FileSettled
<1>5. \A k : Denies(ExpireDue(file, now), k) <=> Denies(file, k)
    BY <1>1, DueFollows, FollowsDenies
<1>6. \A k : AnswerTo(k) = AnswerIn(ExpireDue(file, now), k, now)
    BY <1>1, FileAnswers, DueAnswers
<1> QED BY <1>1, <1>2, <1>3, <1>4, <1>5, <1>6 DEF Settled

LEMMA SessionBusy ==
  ASSUME SerialInv, NEW c \in Command, pc[c] # "idle"
  PROVE  /\ at[c] = now /\ \A d \in Command : d # c => pc[d] = "idle"
         /\ pc[c] = "gate" => NoSession
BY Alone DEF SerialInv, NoSession, InSession

\* What AnswerTo is after a step of c, or of nobody.
LEMMA AfterSession ==
  ASSUME SerialInv, NEW c \in Command, InSession(c), InSession(c)',
         pc' = pc \/ pc' = [pc EXCEPT ![c] = pc'[c]]
  PROVE  \A k : AnswerTo(k)' = AnswerIn(mem'[c], k, now')
<1>1. \A d \in Command : d # c => pc[d] = "idle"
    BY SessionBusy DEF InSession
<1>2. \A d \in Command : d # c => pc'[d] = "idle"
    BY <1>1 DEF SerialInv, Typed
<1> QED BY <1>2, SessionAnswersNext

LEMMA AfterIdle ==
  ASSUME SerialInv, NEW c \in Command, pc[c] # "idle", Idle(c)
  PROVE  \A k : AnswerTo(k)' = AnswerIn(file', k, now')
<1>1. \A d \in Command : d # c => pc[d] = "idle"
    BY SessionBusy
<1>2. \A d \in Command : pc'[d] = "idle"
    BY <1>1 DEF Idle, SerialInv, Typed
<1>3. NoSession'
    BY <1>2 DEF NoSession, InSession
<1> QED BY <1>3, FileAnswersNext

\* Every step of the ledger is a step of LedgerPerKey or changes no answer.
LEMMA SessionSimulates ==
  ASSUME Serial, SerialInv, NEW c \in Command, SessionStep(c)
  PROVE  [PerKey!Next]_(PerKey!vars)
<1> DEFINE f == ExpireDue(file, now)
<1>1. ASSUME BeginTick(c) \/ BeginApply(c) \/ \E k \in RetentionKey : BeginRequest(c, k)
      PROVE  /\ AllIdle /\ NoSession /\ ran' = ran /\ now' = now
             /\ InSession(c)' /\ \A d \in Command : d # c => pc'[d] = "idle"
             /\ \A k : AnswerTo(k)' = AnswerIn(mem'[c], k, now)
  <2>1. AllIdle /\ NoSession
      BY <1>1, StartsAlone
         DEF SerialInv, BeginTick, BeginApply, BeginRequest, Open, AllIdle, NoSession, InSession
  <2>2. /\ ran' = ran /\ now' = now
        /\ InSession(c)' /\ \A d \in Command : d # c => pc'[d] = "idle"
      BY <1>1, <2>1 DEF BeginTick, BeginApply, BeginRequest, Open, history, AllIdle,
         InSession, SerialInv, Typed
  <2> QED BY <2>1, <2>2, SessionAnswersNext
<1>2. ASSUME BeginTick(c) \/ BeginApply(c)
      PROVE  UNCHANGED PerKey!vars
  <2>1. mem'[c] = f
      BY <1>2 DEF BeginTick, BeginApply, Open, SerialInv, Typed
  <2> HIDE DEF f
  <2> QED BY <1>1, <1>2, <2>1, CountedFile, SameAnswers DEF f
<1>3. ASSUME NEW k \in RetentionKey, BeginRequest(c, k)
      PROVE  PerKey!Ask(k) \/ UNCHANGED PerKey!vars
  <2>1. \/ mem'[c] = f
        \/ /\ mem'[c] = AskOperator(f, next, k, now)
           /\ ~Denies(f, k) /\ OpenFor(f, k, now) = {}
      BY <1>3 DEF BeginRequest, SerialInv, Typed
  <2>2. /\ k \in Key /\ next \in ApprovalId /\ next >= next
      BY <1>3, KeyPartition, BoundAssumption DEF BeginRequest, SerialInv, Typed, ApprovalId
  <2>3. /\ f \in LedgerFile /\ now \in Nat /\ f[next].status = "absent"
        /\ \A l : AnswerTo(l) = AnswerIn(f, l, now)
      BY <1>1, <1>3, <2>2, CountedFile
  <2>4. ran' = ran /\ \A l : AnswerTo(l)' = AnswerIn(mem'[c], l, now)
      BY <1>1, <1>3
  <2> HIDE DEF f
  <2>5. CASE mem'[c] = f
      BY <2>3, <2>4, <2>5, SameAnswers
  <2>6. CASE /\ mem'[c] = AskOperator(f, next, k, now)
             /\ ~Denies(f, k) /\ OpenFor(f, k, now) = {}
    <3>1. \A l : AnswerTo(l)' = AnswerIn(AskOperator(f, next, k, now), l, now)
        BY <2>4, <2>6
    <3> QED BY <2>2, <2>3, <2>4, <2>6, <3>1, AskMove
  <2> QED BY <2>1, <2>5, <2>6
<1>4. ASSUME InSession(c)
      PROVE  \A l : AnswerTo(l) = AnswerIn(mem[c], l, now)
    BY <1>4, SessionAnswers DEF SerialInv
<1>5. ASSUME RefuseApply(c) \/ FlushAudit(c)
      PROVE  UNCHANGED PerKey!vars
  <2>1. InSession(c) /\ pc[c] # "idle" /\ Idle(c) /\ UNCHANGED <<file, now, ran>>
      BY <1>5 DEF RefuseApply, FlushAudit, InSession, disk, history
  <2>2. mem[c] = f \/ mem[c] = file
      BY <1>5 DEF RefuseApply, FlushAudit, InSession, Writing, SerialInv, SInv, SessionOK
  <2>3. \A l : AnswerIn(mem[c], l, now) = AnswerIn(file, l, now)
      BY <2>2, DueAnswers, ClockType DEF SerialInv, Typed
  <2>4. \A l : AnswerTo(l)' = AnswerIn(file, l, now)
      BY <2>1, AfterIdle
  <2> QED BY <1>4, <2>1, <2>3, <2>4, SameAnswers
<1>6. ASSUME FlushSave(c)
      PROVE  UNCHANGED PerKey!vars
  <2>1. /\ InSession(c) /\ InSession(c)' /\ mem'[c] = mem[c] /\ UNCHANGED <<now, ran>>
        /\ pc' = [pc EXCEPT ![c] = pc'[c]]
      BY <1>6 DEF FlushSave, InSession, SerialInv, Typed
  <2>2. \A l : AnswerTo(l)' = AnswerIn(mem[c], l, now)
      BY <2>1, AfterSession
  <2> QED BY <1>4, <2>1, <2>2, SameAnswers
<1>7. ASSUME NEW k \in Key, NEW i \in ApprovalId, InSession(c), InSession(c)',
             pc' = [pc EXCEPT ![c] = pc'[c]],
             Change(c, i, "superseded"), Covers(mem[c][i], "approved", k, now), now' = now,
             ran' = IF k \in GatedKey THEN ran \cup {k} ELSE ran
      PROVE  PerKey!GoAhead(k)
  <2>1. /\ mem[c] \in LedgerFile /\ now \in Nat /\ OneOpenIn(mem[c], now)
        /\ Denies(mem[c], k) => OpenFor(mem[c], k, now) = {}
      BY <1>7, CountedCopy
  <2>2. i \in OpenFor(mem[c], k, now)
      BY <1>7 DEF OpenFor, GrantsFor
  <2>3. mem'[c] = Mark(mem[c], i, "superseded")
      BY <1>7 DEF Change, SerialInv, Typed
  <2>4. \A l : AnswerTo(l)' = AnswerIn(mem'[c], l, now)
      BY <1>7, AfterSession
  <2>5. \A l : AnswerTo(l)' = AnswerIn(Mark(mem[c], i, "superseded"), l, now)
      BY <2>3, <2>4
  <2> QED BY <1>4, <1>7, <2>1, <2>2, <2>5, GoMove
<1>8. ASSUME NEW k \in GatedKey, TickUseGrant(c, k)
      PROVE  k \in Key /\ PerKey!GoAhead(k)
  <2>1. /\ k \in Key /\ InSession(c) /\ InSession(c)' /\ at[c] = now /\ now' = now
        /\ ran' = ran \cup {k} /\ pc' = [pc EXCEPT ![c] = pc'[c]]
      BY <1>8, KeyPartition, SessionBusy DEF TickUseGrant, InSession, SerialInv, Typed
  <2>2. PICK i \in ApprovalId : Change(c, i, "superseded") /\ Covers(mem[c][i], "approved", k, now)
      BY <1>8, <2>1 DEF TickUseGrant, IsFirst, GrantsFor
  <2> QED BY <1>7, <2>1, <2>2
<1>9. ASSUME NEW i \in ApprovalId, TickUseFallback(c, i)
      PROVE  \E k \in Key : PerKey!GoAhead(k)
  <2>1. /\ InSession(c) /\ InSession(c)' /\ at[c] = now /\ now' = now /\ ran' = ran
        /\ pc' = [pc EXCEPT ![c] = pc'[c]] /\ Change(c, i, "superseded")
      BY <1>9, SessionBusy DEF TickUseFallback, InSession, SerialInv, Typed, history
  <2>2. PICK k \in FallbackKey : Covers(mem[c][i], "approved", k, now)
      BY <1>9, <2>1 DEF TickUseFallback
  <2>3. k \in Key /\ k \notin GatedKey
      BY KeyPartition
  <2> QED BY <1>7, <2>1, <2>2, <2>3
<1>10. ASSUME NEW i \in ApprovalId, CheckApply(c, i)
       PROVE  \E k \in Key : PerKey!GoAhead(k)
  <2>1. /\ InSession(c) /\ InSession(c)' /\ at[c] = now /\ now' = now /\ ran' = ran
        /\ pc' = [pc EXCEPT ![c] = pc'[c]]
      BY <1>10, SessionBusy DEF CheckApply, InSession, SerialInv, Typed
  <2>2. PICK k \in RetentionKey : Covers(file[i], "approved", k, now)
      BY <1>10, <2>1 DEF CheckApply
  <2>3. k \in Key /\ k \notin GatedKey
      BY KeyPartition
  <2>4. mem[c][i] = file[i] /\ Change(c, i, "superseded")
      BY <1>10, CheckApplyConsumes DEF SerialInv
  <2> QED BY <1>7, <2>1, <2>2, <2>3, <2>4
<1>11. ASSUME NEW k \in GatedKey, TickUnderBrief(c, k)
       PROVE  k \in Key /\ PerKey!GoUnderBrief(k)
  <2>1. /\ InSession(c) /\ InSession(c)' /\ at[c] = now /\ now' = now
        /\ mem' = mem /\ pc' = pc /\ ran' = ran \cup {k} /\ k \in EnvelopeKey
        /\ ~Denies(mem[c], k) /\ OpenFor(mem[c], k, now) = {}
      BY <1>11, SessionBusy DEF TickUnderBrief, InSession, session
  <2>2. \A l : AnswerTo(l)' = AnswerIn(mem[c], l, now)
      BY <2>1, AfterSession
  <2>3. mem[c] \in LedgerFile /\ now \in Nat
      BY <2>1, CountedCopy
  <2> QED BY <1>4, <2>1, <2>2, <2>3, BriefMove
<1>12. ASSUME NEW k \in GatedKey \cup FallbackKey, TickAsk(c, k)
       PROVE  k \in Key /\ (PerKey!Ask(k) \/ UNCHANGED PerKey!vars)
  <2>1. /\ k \in Key /\ InSession(c) /\ InSession(c)' /\ at[c] = now /\ now' = now
        /\ ran' = ran /\ pc' = pc /\ ~Denies(mem[c], k) /\ OpenFor(mem[c], k, now) = {}
      BY <1>12, KeyPartition, SessionBusy DEF TickAsk, InSession, history
  <2>2. /\ next \in ApprovalId /\ next >= next
        /\ mem'[c] = AskOperator(mem[c], next, k, now)
      BY <1>12, <2>1, BoundAssumption DEF TickAsk, Ask, SerialInv, Typed, ApprovalId
  <2>3. \A l : AnswerTo(l)' = AnswerIn(AskOperator(mem[c], next, k, now), l, now)
      BY <2>1, <2>2, AfterSession
  <2>4. mem[c] \in LedgerFile /\ now \in Nat /\ mem[c][next].status = "absent"
      BY <2>1, <2>2, CountedCopy
  <2> QED BY <1>4, <2>1, <2>2, <2>3, <2>4, AskMove
<1> QED
    BY <1>2, <1>3, <1>5, <1>6, <1>8, <1>9, <1>10, <1>11, <1>12, KeyPartition
    DEF SessionStep, Die, Serial, PerKey!Next

LEMMA GateSimulates ==
  ASSUME Serial, SerialInv, NEW c \in Command, GateStep(c)
  PROVE  [PerKey!Next]_(PerKey!vars)
<1> DEFINE f == ExpireDue(file, now)
           k == asked[c]
<1>1. ASSUME NEW l \in GatedKey, GateCheck(c, l)
      PROVE  UNCHANGED PerKey!vars
  <2>1. AllIdle
      BY <1>1, StartsAlone DEF GateCheck, SerialInv
  <2>2. NoSession /\ NoSession'
      BY <1>1, <2>1 DEF GateCheck, AllIdle, NoSession, InSession, SerialInv, Typed
  <2>3. UNCHANGED <<file, now, ran>>
      BY <1>1 DEF GateCheck, disk, history
  <2> QED BY <2>2, <2>3, FileAnswers, FileAnswersNext, SameAnswers
<1>2. ASSUME pc[c] = "gate", Idle(c), now' = now
      PROVE  /\ at[c] = now /\ k \in Key /\ k \in GatedKey /\ ~Denies(f, k)
             /\ f \in LedgerFile /\ now \in Nat /\ OneOpenIn(f, now)
             /\ \A i \in ApprovalId : i >= next => f[i].status = "absent"
             /\ \A l : AnswerTo(l) = AnswerIn(f, l, now)
             /\ \A l : AnswerTo(l)' = AnswerIn(file', l, now)
  <2>1. pc[c] # "idle" /\ NoSession /\ at[c] = now
      BY <1>2, SessionBusy
  <2>2. k \in Key /\ k \in GatedKey /\ ~Denies(f, k)
      BY <1>2, GateView DEF SerialInv
  <2>3. \A l : AnswerTo(l)' = AnswerIn(file', l, now)
      BY <1>2, <2>1, AfterIdle
  <2>4. /\ f \in LedgerFile /\ now \in Nat /\ OneOpenIn(f, now)
        /\ \A i \in ApprovalId : i >= next => f[i].status = "absent"
        /\ \A l : AnswerTo(l) = AnswerIn(f, l, now)
      BY <2>1, CountedFile
  <2> QED BY <2>1, <2>2, <2>3, <2>4
<1> HIDE DEF f, k
<1>3. ASSUME GateUseGrant(c)
      PROVE  k \in Key /\ PerKey!GoAhead(k)
  <2>1. pc[c] = "gate" /\ Idle(c) /\ now' = now /\ ran' = ran \cup {k}
      BY <1>3 DEF GateUseGrant, k
  <2>2. PICK i \in ApprovalId : /\ IsFirst(i, GrantsFor(f, k, now))
                               /\ file' = Mark(f, i, "superseded")
      BY <1>2, <1>3, <2>1 DEF GateUseGrant, f, k
  <2>3. Covers(f[i], "approved", k, now)
      BY <2>2 DEF IsFirst, GrantsFor
  <2>4. \A l : AnswerTo(l)' = AnswerIn(Mark(f, i, "superseded"), l, now)
      BY <1>2, <2>1, <2>2
  <2> QED BY <1>2, <2>1, <2>3, <2>4, GoMove
<1>4. ASSUME GateWait(c)
      PROVE  UNCHANGED PerKey!vars
  <2>1. pc[c] = "gate" /\ Idle(c) /\ now' = now /\ ran' = ran
      BY <1>4 DEF GateWait, history
  <2>2. file' = f
      BY <1>2, <1>4, <2>1 DEF GateWait, f
  <2> QED BY <1>2, <2>1, <2>2, SameAnswers
<1>5. ASSUME GateUnderBrief(c)
      PROVE  k \in Key /\ PerKey!GoUnderBrief(k)
  <2>1. pc[c] = "gate" /\ Idle(c) /\ now' = now /\ ran' = ran \cup {k} /\ k \in EnvelopeKey
      BY <1>5 DEF GateUnderBrief, k
  <2>2. file' = f /\ OpenFor(f, k, now) = {}
      BY <1>2, <1>5, <2>1 DEF GateUnderBrief, f, k
  <2> QED BY <1>2, <2>1, <2>2, BriefMove
<1>6. ASSUME GateAsk(c)
      PROVE  k \in Key /\ (PerKey!Ask(k) \/ UNCHANGED PerKey!vars)
  <2>1. /\ pc[c] = "gate" /\ Idle(c) /\ now' = now /\ ran' = ran
        /\ next \in ApprovalId /\ next >= next
      BY <1>6, BoundAssumption DEF GateAsk, history, SerialInv, Typed, ApprovalId
  <2>2. file' = AskOperator(f, next, k, now) /\ OpenFor(f, k, now) = {}
      BY <1>2, <1>6, <2>1 DEF GateAsk, f, k
  <2>3. \A l : AnswerTo(l)' = AnswerIn(AskOperator(f, next, k, now), l, now)
      BY <1>2, <2>1, <2>2
  <2>4. f[next].status = "absent"
      BY <1>2, <2>1
  <2> QED BY <1>2, <2>1, <2>2, <2>3, <2>4, AskMove
<1> QED BY <1>1, <1>3, <1>4, <1>5, <1>6 DEF GateStep, PerKey!Next

LEMMA OperatorSimulates ==
  ASSUME Serial, SerialInv, OperatorStep \/ Advance
  PROVE  [PerKey!Next]_(PerKey!vars)
<1> DEFINE f == ExpireDue(file, now)
<1>1. AllIdle /\ UNCHANGED session
    BY StartsAlone DEF SerialInv, OperatorStep, Ok, Deny, Resolve, ListPending, NewApproval, Advance
<1>2. NoSession /\ NoSession'
    BY <1>1 DEF AllIdle, session, NoSession, InSession
<1>3. /\ \A l : AnswerTo(l) = AnswerIn(file, l, now)
      /\ \A l : AnswerTo(l) = AnswerIn(f, l, now)
      /\ \A l : AnswerTo(l)' = AnswerIn(file', l, now')
      /\ file \in LedgerFile /\ f \in LedgerFile /\ now \in Nat
      /\ OneOpenIn(file, now) /\ OneOpenIn(f, now)
      /\ \A k \in Key : Denies(file, k) => OpenFor(file, k, now) = {}
      /\ \A k \in Key : Denies(f, k) => OpenFor(f, k, now) = {}
    BY <1>2, FileAnswers, FileAnswersNext, CountedFile
<1>4. ASSUME NEW status \in {"approved", "denied"}, Resolve(status)
      PROVE  PerKey!Next \/ UNCHANGED PerKey!vars
  <2>1. now' = now
      BY <1>4 DEF Resolve
  <2>2. ASSUME NEW i \in ApprovalId, f[i].status = "pending", file' = Mark(f, i, status),
               IF status = "approved" THEN ran' = ran ELSE ran' = ran \ {f[i].key}
        PROVE  PerKey!Next
    <3>1. PICK k \in Key : k = f[i].key
        BY <1>3, <2>2 DEF LedgerFile, Approval, NoApproval
    <3>2. ExpiresAt(f[i]) > now
      <4>1. f[i] = file[i] /\ i \notin DueIds(file, now)
          BY <1>3, <2>2, DueRecords
      <4>2. ExpiresAt(file[i]) \in Nat
          BY <1>3, <2>2, <4>1, BoundAssumption DEF LedgerFile, Approval, NoApproval, ExpiresAt
      <4> QED BY <1>3, <2>2, <4>1, <4>2 DEF DueIds
    <3> HIDE DEF f
    <3>3. /\ AnswerIn(f, k, now) = "waiting"
          /\ AnswerIn(Mark(f, i, "approved"), k, now) = "granted"
          /\ AnswerIn(Mark(f, i, "denied"), k, now) = "denied"
          /\ \A l, s : l # k /\ s \in {"approved", "denied"}
               => AnswerIn(Mark(f, i, s), l, now) = AnswerIn(f, l, now)
        BY <1>3, <2>2, <3>1, <3>2, AnsweredAnswers
    <3>4. /\ AnswerTo(k) = "waiting" /\ \A l \in Key : l # k => AnswerTo(l)' = AnswerTo(l)
          /\ AnswerTo(k)' = AnswerIn(Mark(f, i, status), k, now)
      <4>1. \A l : AnswerTo(l)' = AnswerIn(Mark(f, i, status), l, now)
          BY <1>3, <2>1, <2>2
      <4> QED BY <1>3, <3>3, <4>1
    <3>5. CASE status = "approved"
      <4>1. PerKey!Becomes(k, "waiting", "granted")
          BY <3>1, <3>3, <3>4, <3>5, BecomesOne
      <4> QED BY <2>2, <3>1, <3>5, <4>1 DEF PerKey!Grant, PerKey!Next
    <3>6. CASE status = "denied"
      <4>1. PerKey!Becomes(k, "waiting", "denied")
          BY <3>1, <3>3, <3>4, <3>6, BecomesOne
      <4> QED BY <2>2, <3>1, <3>6, <4>1 DEF PerKey!Refuse, PerKey!Next
    <3> QED BY <3>5, <3>6
  <2>3. ASSUME file' = f, ran' = ran
        PROVE  UNCHANGED PerKey!vars
      BY <1>3, <2>1, <2>3, SameAnswers
  <2> QED BY <1>4, <2>2, <2>3 DEF Resolve
<1>5. ASSUME ListPending
      PROVE  UNCHANGED PerKey!vars
  <2>1. file' = f /\ UNCHANGED <<now, ran>>
      BY <1>5 DEF ListPending, history
  <2> QED BY <1>3, <2>1, SameAnswers
<1>6. ASSUME NEW k \in GatedKey, NewApproval(k)
      PROVE  k \in Key /\ PerKey!Reopen(k)
  <2>1. /\ k \in Key /\ UNCHANGED <<now, ran>> /\ file' = ReopenedFile(file, k)
      BY <1>6, KeyPartition, NewApprovalStep DEF NewApproval, SerialInv
  <2>2. Denies(file, k)
      BY <1>6 DEF NewApproval, Denies
  <2>3. PerKey!Becomes(k, "denied", "none")
      BY <1>3, <2>1, <2>2, ReopenedAnswers, BecomesOne
  <2> QED BY <2>1, <2>3 DEF PerKey!Reopen
<1>7. ASSUME Advance
      PROVE  PerKey!Lapse
  <2>1. now' = now + 1 /\ UNCHANGED <<file, ran>>
      BY <1>7 DEF Advance, disk, history
  <2>2. \A k \in Key :
          \/ AnswerTo(k)' = AnswerTo(k)
          \/ AnswerTo(k) \in {"waiting", "granted"} /\ AnswerTo(k)' = "none"
      BY <1>3, <2>1, LaterAnswers
  <2> QED BY <2>1, <2>2 DEF PerKey!Lapse
<1> QED BY <1>4, <1>5, <1>6, <1>7 DEF OperatorStep, Ok, Deny, PerKey!Next

\* One answer per key: whatever the sessions, their flush, the two looks of
\* the gate and expiry do in between, the ledger is LedgerPerKey.
THEOREM ImplementsPerKeyAlways ==
  ASSUME Serial
  PROVE  Spec => ImplementsPerKey
<1>1. Init => PerKey!Init
  <2> SUFFICES ASSUME Init
               PROVE  PerKey!Init
      OBVIOUS
  <2>1. NoSession /\ file = EmptyFile /\ now = 0 /\ ran = {}
      BY DEF Init, NoSession, InSession
  <2>2. \A k : OpenFor(EmptyFile, k, 0) = {} /\ ~Denies(EmptyFile, k)
      BY DEF OpenFor, GrantsFor, PendingsFor, Covers, Denies, EmptyFile, NoApproval
  <2>3. EmptyFile \in LedgerFile
      BY DEF EmptyFile, LedgerFile, Approval
  <2>4. \A k : AnswerTo(k) = "none"
      BY <2>1, <2>2, <2>3, FileAnswers, NoneIn
  <2> QED BY <2>1, <2>4 DEF PerKey!Init
<1>2. SerialInv /\ [Next]_vars => [PerKey!Next]_(PerKey!vars)
  <2>1. ASSUME SerialInv, UNCHANGED vars
        PROVE  UNCHANGED PerKey!vars
    <3>1. \A k : AnswerTo(k)' = AnswerTo(k)
        BY <2>1, AnswersView DEF vars
    <3> QED BY <2>1, <3>1, SameAnswers DEF vars
  <2> QED BY <2>1, SessionSimulates, GateSimulates, OperatorSimulates DEF Next
<1> QED BY <1>1, <1>2, SerialInvAlways, PTL DEF Spec, ImplementsPerKey, PerKey!Spec
=============================================================================
