-------------------------- MODULE RemoteOperatorProofs --------------------------
(***************************************************************************)
(* What RemoteOperator guarantees for every bound on updates, deaths and   *)
(* repairs: effects and confirmations at most once, no update passed over, *)
(* at most one reply owed, and only two ways to be stuck.                  *)
(*                                                                         *)
(* The argument.  The poll's copy of the state is the file, except between *)
(* the handler and the save (CopyIsFile); the update under way is the      *)
(* first one that is allowed from the offset on (OwnUpdate, AtOffset); and *)
(* journal and outbox say at every place of the poll how far its update    *)
(* came (RowsOfUpdate).  The offset never goes back, so a row that is      *)
(* compacted away below it is never begun again (RanBelow), and a          *)
(* confirmation is older than every update that can confirm it             *)
(* (PendingAsk, DoneBelow).                                                *)
(***************************************************************************)
EXTENDS RemoteOperator, FiniteSetTheorems, TLAPS

\* An update that is not allowed, and one that nothing is left to do for.
Foreign(u) == inbox[u].kind = "foreign"
Settled(u) == Foreign(u) \/ u \in closed \cup replied \/ Pending(u)

\* The poll works on an update that it fetched, not on a reply that was owed.
Own ==
  \/ poll.at \in {"begin", "handle", "save", "queue", "commit"}
  \/ poll.at \in {"send", "mark", "complete"} /\ poll.fresh

OwnUpdate ==
  Own => /\ poll.update \in state.offset..Len(inbox) /\ ~Foreign(poll.update)
         /\ \A v \in state.offset..(poll.update - 1) : Foreign(v)
AtOffset ==
  At("offset") => /\ poll.update \in state.offset..Len(inbox)
                  /\ \A v \in state.offset..poll.update : Settled(v)

\* The poll's copy of the state.
CopyIsFile ==
  /\ poll.at \notin {"down", "load", "compact", "save"} => poll.copy = state
  /\ At("save") =>
       /\ poll.copy.offset = state.offset
       /\ IF inbox[poll.update].kind = "ask" THEN poll.copy.pending = poll.update
          ELSE poll.copy.pending \in {None, state.pending}

\* How far journal and outbox say that the update under way came.
RowsOfUpdate ==
  /\ poll.at \in {"send", "mark", "complete"} => poll.update \in Update
  /\ poll.at \in {"save", "queue", "commit"} => poll.fresh
  /\ poll.at \in {"handle", "save", "queue", "commit"} => journal[poll.update] = "started"
  /\ poll.at \in {"send", "mark", "complete"} /\ poll.fresh
       => journal[poll.update] = "effect_committed"
  /\ poll.at \in {"commit", "send", "mark"} => outbox[poll.update] # "none"
  /\ poll.at \in {"send", "mark"} /\ ~poll.fresh => Pending(poll.update)
  /\ At("complete") => outbox[poll.update] = "delivered"
  /\ At("mark") => poll.update \in replied

\* At most one reply is owed, and none when a new update is handled.
OneOwed ==
  /\ \A u, v \in Update : Pending(u) /\ Pending(v) => u = v
  /\ poll.at \in {"fetch", "begin", "handle", "save", "queue"} => \A u \in Update : ~Pending(u)
  /\ poll.at \in {"commit", "send", "mark"} => \A u \in Update : Pending(u) => u = poll.update

\* What the last rows of an update prove.
RowsProve ==
  \A u \in Update :
    /\ outbox[u] = "delivered" => u \in replied
    /\ journal[u] = "completed" => u \in closed \cup replied

\* An update that can still be begun has no effect that was not authorised.
RanBelow ==
  \A u \in Update :
    /\ ran[u] <= 1 + retried[u]
    /\ journal[u] = "retry_authorized" => ran[u] <= retried[u]
    /\ journal[u] = "none" /\ u >= state.offset => ran[u] <= retried[u]
    /\ At("handle") /\ poll.update = u => ran[u] <= retried[u]

\* The pending confirmation is for an ask that no later update can be handled
\* before.
PendingAsk ==
  state.pending # None =>
    /\ state.pending \in 1..Len(inbox) /\ inbox[state.pending].kind = "ask"
    /\ \A v \in state.offset..(state.pending - 1) : Foreign(v)

DoneBelow ==
  /\ \A u \in Update : did[u] <= 1 + torn[u]
  /\ \A u \in Update : u >= state.offset => did[u] = 0
  /\ state.pending # None /\ ~Popped => did[state.pending] <= torn[state.pending]

\* How rows come to contradict each other.
StuckRows ==
  \A u \in Update :
    /\ outbox[u] # "none" /\ journal[u] = "none" /\ ~halved
         => At("compact") /\ outbox[u] = "delivered" /\ u < state.offset
    /\ journal[u] = "completed" /\ Pending(u) => u \in forced

OffsetInInbox == state.offset <= Len(inbox) + 1

IInv ==
  /\ TypeOK /\ OffsetInInbox /\ OwnUpdate /\ AtOffset /\ CopyIsFile /\ RowsOfUpdate
  /\ OneOwed /\ RowsProve /\ RanBelow /\ PendingAsk /\ DoneBelow /\ StuckRows /\ NoneSkipped

-----------------------------------------------------------------------------
\* What a step of the poll does to the record of the poll.

LEMMA ToFacts ==
  ASSUME Shapes, NEW step \in Place, To(step)
  PROVE  /\ poll' \in [at : Place, update : {None} \cup Update, fresh : BOOLEAN, copy : StateFile]
         /\ poll'.at = step /\ poll'.update = poll.update /\ poll'.fresh = poll.fresh
         /\ poll'.copy = poll.copy
BY DEF Shapes, To

LEMMA DownFacts ==
  /\ Down \in [at : Place, update : {None} \cup Update, fresh : BOOLEAN, copy : StateFile]
  /\ Down.at = "down" /\ Down.update = None /\ ~Down.fresh
BY BoundAssumption DEF Down, StateFile, Place, None, Update

LEMMA EndFacts ==
  ASSUME End
  PROVE  /\ poll' \in [at : Place, update : {None} \cup Update, fresh : BOOLEAN, copy : StateFile]
         /\ poll'.at = "load" /\ poll'.update = None /\ ~poll'.fresh
BY DownFacts, BoundAssumption DEF End, Down, StateFile, Place, None, Update

LEMMA InboxFacts ==
  ASSUME Shapes, NEW kind \in Kind, NEW token \in {None} \cup Update, Send(kind, token)
  PROVE  /\ inbox' \in Seq([kind : Kind, token : {None} \cup Update])
         /\ Len(inbox') = Len(inbox) + 1 /\ Len(inbox') <= MaxUpdates
         /\ \A u \in 1..Len(inbox) : inbox'[u] = inbox[u]
BY BoundAssumption DEF Shapes, Send

LEMMA ShapesInit == Init => Shapes
<1> SUFFICES ASSUME Init PROVE Shapes
    OBVIOUS
<1>1. MaxUpdates \in Nat /\ MaxDeaths \in Nat
    BY BoundAssumption
<1>2. inbox \in Seq([kind : Kind, token : {None} \cup Update]) /\ Len(inbox) <= MaxUpdates
    BY <1>1 DEF Init
<1>3. state \in StateFile
    BY <1>1 DEF Init, StateFile, None
<1>4. poll \in [at : Place, update : {None} \cup Update, fresh : BOOLEAN, copy : StateFile]
    BY DownFacts DEF Init
<1>5. /\ journal \in [Update ->
            {"none", "started", "effect_committed", "retry_authorized", "completed"}]
      /\ outbox \in [Update -> {"none", "queued", "failed", "delivered"}]
      /\ ran \in [Update -> Nat] /\ did \in [Update -> Nat]
      /\ retried \in [Update -> Nat] /\ torn \in [Update -> Nat]
    BY DEF Init
<1>6. /\ expired \cup replied \cup closed \cup forced \subseteq Update
      /\ deaths \in 0..MaxDeaths
    BY <1>1 DEF Init
<1>7. halved \in BOOLEAN
    BY Zenon DEF Init
<1> QED BY <1>2, <1>3, <1>4, <1>5, <1>6, <1>7 DEF Shapes

\* A counter of a history counts one more.
LEMMA CountFacts ==
  ASSUME NEW S, NEW f \in [S -> Nat], NEW x, NEW g, g = f \/ g = [f EXCEPT ![x] = @ + 1]
  PROVE  g \in [S -> Nat]
<1>1. CASE x \in S
    BY <1>1
<1>2. CASE x \notin S
    BY <1>2
<1> QED BY <1>1, <1>2

LEMMA UpdatesAreNat ==
  /\ MaxUpdates \in Nat /\ Update \subseteq Nat
  /\ Shapes => /\ Len(inbox) \in 0..MaxUpdates /\ state.offset \in 1..(MaxUpdates + 1)
               /\ poll.copy.offset \in 1..(MaxUpdates + 1)
BY BoundAssumption, SMTT(30) DEF Shapes, StateFile, Update

LEMMA OwnUpdateType ==
  ASSUME Shapes, OwnUpdate, AtOffset, Own \/ At("offset")
  PROVE  poll.update \in Update /\ poll.update <= Len(inbox)
BY UpdatesAreNat DEF OwnUpdate, AtOffset, Update

LEMMA PendingAfterType ==
  ASSUME Shapes, NEW u \in Update
  PROVE  PendingAfter(u) \in {None} \cup Update
BY DEF PendingAfter, Shapes, StateFile

LEMMA ShapesStep ==
  ASSUME Shapes, OwnUpdate, AtOffset, RowsOfUpdate, Next
  PROVE  Shapes'
<1> USE DEF history
<1>1. CASE \E kind \in Kind, token \in {None} \cup Update : Send(kind, token)
    BY <1>1, InboxFacts DEF Send, Shapes
<1>2. CASE \E u \in Update : Lapse(u)
    BY <1>2 DEF Lapse, Shapes
<1>3. CASE Start
    BY <1>3, ToFacts DEF Start, Shapes, Place
<1>4. CASE LoadState
  <2>1. poll' \in [at : Place, update : {None} \cup Update, fresh : BOOLEAN, copy : StateFile]
    BY <1>4 DEF LoadState, Shapes, Place
  <2> QED BY <1>4, <2>1 DEF LoadState, Shapes
<1>5. CASE Synchronize
  <2>1. journal' \in [Update ->
            {"none", "started", "effect_committed", "retry_authorized", "completed"}]
    BY <1>5 DEF Synchronize, Synchronized, Repaired, Shapes
  <2>2. poll' \in [at : Place, update : {None} \cup Update, fresh : BOOLEAN, copy : StateFile]
    BY <1>5, ToFacts, EndFacts DEF Synchronize, Shapes, Place
  <2> QED BY <1>5, <2>1, <2>2 DEF Synchronize, Shapes
<1>6. CASE Drain
  <2>1. poll' \in [at : Place, update : {None} \cup Update, fresh : BOOLEAN, copy : StateFile]
    BY <1>6, ToFacts DEF Drain, Shapes, Place
  <2> QED BY <1>6, <2>1 DEF Drain, Shapes
<1>7. CASE Fetch
  <2>1. poll' \in [at : Place, update : {None} \cup Update, fresh : BOOLEAN, copy : StateFile]
    <3>1. \/ End
          \/ \E u \in poll.copy.offset..Len(inbox) :
               poll' = [poll EXCEPT !.at = "begin", !.update = u]
          \/ /\ poll.copy.offset..Len(inbox) # {}
             /\ poll' = [poll EXCEPT !.at = "offset", !.update = Len(inbox)]
        BY <1>7 DEF Fetch
    <3>2. poll.copy.offset..Len(inbox) \subseteq Update /\ Len(inbox) \in {None} \cup Update
        BY UpdatesAreNat DEF Update, None
    <3> QED BY <3>1, <3>2, EndFacts DEF Shapes, Place
  <2> QED BY <1>7, <2>1 DEF Fetch, Shapes
<1>8. CASE Begin
  <2>0. journal[poll.update] \in
          {"none", "started", "effect_committed", "retry_authorized", "completed"}
    BY <1>8, OwnUpdateType DEF Begin, At, Own, Shapes
  <2>1. journal' \in [Update ->
            {"none", "started", "effect_committed", "retry_authorized", "completed"}]
    <3>1. \/ journal' = journal
          \/ journal' = [journal EXCEPT ![poll.update] = "started"]
        BY <1>8, <2>0 DEF Begin
    <3> QED BY <3>1 DEF Shapes
  <2>2. poll' \in [at : Place, update : {None} \cup Update, fresh : BOOLEAN, copy : StateFile]
    <3>1. To("offset") \/ End \/ To("handle")
        BY <1>8, <2>0 DEF Begin
    <3> QED BY <3>1, ToFacts, EndFacts DEF Place
  <2> QED BY <1>8, <2>1, <2>2 DEF Begin, Shapes
<1>9. CASE Handle
  <2>1. poll.update \in Update
    BY <1>9, OwnUpdateType DEF Handle, At, Own
  <2>2. poll' \in [at : Place, update : {None} \cup Update, fresh : BOOLEAN, copy : StateFile]
    BY <1>9, <2>1, PendingAfterType DEF Handle, Shapes, Place, StateFile
  <2>3. ran' \in [Update -> Nat] /\ did' \in [Update -> Nat]
    <3>1. ran' = ran \/ ran' = [ran EXCEPT ![poll.update] = @ + 1]
        BY <1>9 DEF Handle
    <3>2. did' = did \/ did' = [did EXCEPT ![poll.copy.pending] = @ + 1]
        BY <1>9 DEF Handle
    <3>3. ran' \in [Update -> Nat]
        BY <3>1, CountFacts DEF Shapes
    <3>4. did' \in [Update -> Nat]
        BY <3>2, CountFacts, SMTT(30) DEF Shapes
    <3> QED BY <3>3, <3>4
  <2> QED BY <1>9, <2>2, <2>3 DEF Handle, Shapes
<1>10. CASE SaveState
    BY <1>10, ToFacts DEF SaveState, Shapes, Place
<1>11. CASE QueueReply
  <2>1. outbox' \in [Update -> {"none", "queued", "failed", "delivered"}]
    <3>1. \/ outbox' = outbox
          \/ outbox' = [outbox EXCEPT ![poll.update] = "queued"]
        BY <1>11 DEF QueueReply
    <3> QED BY <3>1 DEF Shapes
  <2>2. poll' \in [at : Place, update : {None} \cup Update, fresh : BOOLEAN, copy : StateFile]
    BY <1>11, ToFacts, EndFacts DEF QueueReply, Shapes, Place
  <2> QED BY <1>11, <2>1, <2>2 DEF QueueReply, Shapes
<1>12. CASE MarkCommitted
    BY <1>12, ToFacts DEF MarkCommitted, Shapes, Place
<1>13. CASE SendTaken
  <2>1. poll.update \in Update
    BY <1>13 DEF SendTaken, At, RowsOfUpdate
  <2> QED BY <1>13, <2>1, ToFacts DEF SendTaken, Shapes, Place
<1>14. CASE SendFails
  <2>1. poll' \in [at : Place, update : {None} \cup Update, fresh : BOOLEAN, copy : StateFile]
    BY <1>14, ToFacts, EndFacts DEF SendFails, Shapes, Place
  <2> QED BY <1>14, <2>1 DEF SendFails, Shapes
<1>15. CASE MarkDelivered
    BY <1>15, ToFacts DEF MarkDelivered, Shapes, Place
<1>16. CASE CompleteUpdate
  <2>1. journal' \in [Update ->
            {"none", "started", "effect_committed", "retry_authorized", "completed"}]
    <3>1. \/ journal' = journal
          \/ journal' = [journal EXCEPT ![poll.update] = "completed"]
        BY <1>16 DEF CompleteUpdate
    <3> QED BY <3>1 DEF Shapes
  <2>2. poll' \in [at : Place, update : {None} \cup Update, fresh : BOOLEAN, copy : StateFile]
    BY <1>16, ToFacts, EndFacts DEF CompleteUpdate, Shapes, Place
  <2> QED BY <1>16, <2>1, <2>2 DEF CompleteUpdate, Shapes
<1>17. CASE SaveOffset
  <2>1. state' \in StateFile
    <3>1. poll.update + 1 \in 1..(MaxUpdates + 1) /\ poll.copy \in StateFile
        BY BoundAssumption DEF Shapes, Update, None
    <3>2. state' = [poll.copy EXCEPT !.offset = poll.update + 1]
        BY <1>17 DEF SaveOffset
    <3> QED BY <3>1, <3>2 DEF StateFile
  <2> QED BY <1>17, <2>1, EndFacts DEF SaveOffset, Shapes
<1>18. CASE Die
  <2>1. halved' \in BOOLEAN
    BY <1>18, Zenon DEF Die
  <2>2. torn' \in [Update -> Nat]
    <3>1. torn' = torn \/ torn' = [torn EXCEPT ![state.pending] = @ + 1]
        BY <1>18 DEF Die
    <3> QED BY <3>1, CountFacts, SMTT(30) DEF Shapes
  <2>3. deaths' \in 0..MaxDeaths
    BY <1>18, BoundAssumption DEF Die, Shapes
  <2> QED BY <1>18, <2>1, <2>2, <2>3, DownFacts DEF Die, Shapes
<1>19. CASE CompactJournal
  <2>1. journal' \in [Update ->
            {"none", "started", "effect_committed", "retry_authorized", "completed"}]
    <3>1. Synchronized \in [Update ->
              {"none", "started", "effect_committed", "retry_authorized", "completed"}]
      BY DEF Synchronized, Repaired, Shapes
    <3> QED BY <1>19, <3>1 DEF CompactJournal
  <2>2. poll' \in [at : Place, update : {None} \cup Update, fresh : BOOLEAN, copy : StateFile]
    BY <1>19, ToFacts DEF CompactJournal, Shapes, Place
  <2> QED BY <1>19, <2>1, <2>2 DEF CompactJournal, Shapes
<1>20. CASE CompactOutbox
    BY <1>20, DownFacts DEF CompactOutbox, Shapes
<1>21. CASE \E u \in Update, resolution \in {"retry", "complete"} : Reconcile(u, resolution)
  <2>1. PICK u \in Update, resolution \in {"retry", "complete"} : Reconcile(u, resolution)
    BY <1>21
  <2>2. \/ journal' = [journal EXCEPT ![u] = "retry_authorized"]
        \/ journal' = [journal EXCEPT ![u] = "completed"]
    BY <2>1 DEF Reconcile
  <2>3. retried' = retried \/ retried' = [retried EXCEPT ![u] = @ + 1]
    BY <2>1 DEF Reconcile
  <2>4. closed' \subseteq closed \cup {u} /\ forced' \subseteq forced \cup {u}
    BY <2>1 DEF Reconcile
  <2>5. retried' \in [Update -> Nat]
    BY <2>3, CountFacts DEF Shapes
  <2>6. journal' \in [Update ->
            {"none", "started", "effect_committed", "retry_authorized", "completed"}]
    BY <2>2 DEF Shapes
  <2>7. expired' \cup replied' \cup closed' \cup forced' \subseteq Update
    BY <2>1, <2>4 DEF Reconcile, Shapes
  <2>8. UNCHANGED <<inbox, state, outbox, poll, deaths, ran, did, torn, halved>>
    BY <2>1 DEF Reconcile
  <2> QED BY <2>5, <2>6, <2>7, <2>8 DEF Shapes
<1> QED BY <1>1, <1>2, <1>3, <1>4, <1>5, <1>6, <1>7, <1>8, <1>9, <1>10, <1>11, <1>12, <1>13,
           <1>14, <1>15, <1>16, <1>17, <1>18, <1>19, <1>20, <1>21 DEF Next, Poll

-----------------------------------------------------------------------------
\* The inbox only grows, and the files are written in few places.

LEMMA InboxGrows ==
  ASSUME Shapes, Next
  PROVE  /\ Len(inbox) <= Len(inbox')
         /\ \A u \in 1..Len(inbox) : inbox'[u] = inbox[u]
<1>1. CASE \E kind \in Kind, token \in {None} \cup Update : Send(kind, token)
    BY <1>1, InboxFacts, UpdatesAreNat
<1>2. CASE inbox' = inbox
    BY <1>2, UpdatesAreNat
<1>3. (\E kind \in Kind, token \in {None} \cup Update : Send(kind, token)) \/ inbox' = inbox
    BY DEF Next, Poll, Lapse, Start, LoadState, Synchronize, Drain, Fetch, Begin, Handle,
           SaveState, QueueReply, MarkCommitted, SendTaken, SendFails, MarkDelivered,
           CompleteUpdate, SaveOffset, Die, CompactJournal, CompactOutbox, Reconcile
<1> QED BY <1>1, <1>2, <1>3

LEMMA StateWritten ==
  ASSUME Next, ~SaveState, ~SaveOffset
  PROVE  state' = state
BY DEF Next, Poll, Send, Lapse, Start, LoadState, Synchronize, Drain, Fetch, Begin, Handle,
       QueueReply, MarkCommitted, SendTaken, SendFails, MarkDelivered, CompleteUpdate, Die,
       CompactJournal, CompactOutbox, Reconcile

LEMMA OutboxWritten ==
  ASSUME Next, ~QueueReply, ~SendFails, ~MarkDelivered, ~CompactOutbox
  PROVE  outbox' = outbox
BY DEF Next, Poll, Send, Lapse, Start, LoadState, Synchronize, Drain, Fetch, Begin, Handle,
       SaveState, MarkCommitted, SendTaken, CompleteUpdate, SaveOffset, Die, CompactJournal,
       Reconcile

LEMMA JournalWritten ==
  ASSUME Next, ~Synchronize, ~Begin, ~MarkCommitted, ~CompleteUpdate, ~CompactJournal,
         ~(\E u \in Update, resolution \in {"retry", "complete"} : Reconcile(u, resolution))
  PROVE  journal' = journal
BY DEF Next, Poll, Send, Lapse, Start, LoadState, Drain, Fetch, Handle, SaveState, QueueReply,
       SendTaken, SendFails, MarkDelivered, SaveOffset, Die, CompactOutbox

\* The step leaves the poll where it stands.
Outside ==
  \/ \E kind \in Kind, token \in {None} \cup Update : Send(kind, token)
  \/ \E u \in Update : Lapse(u)
  \/ \E u \in Update, resolution \in {"retry", "complete"} : Reconcile(u, resolution)

LEMMA OutsideFacts ==
  ASSUME Outside
  PROVE  poll' = poll /\ state' = state
BY DEF Outside, Send, Lapse, Reconcile

\* Steps that begin or end a poll, or are a tool's.
Turn == Start \/ LoadState \/ Die \/ SaveOffset \/ CompactJournal \/ CompactOutbox

LEMMA TurnFacts ==
  ASSUME Shapes, Turn
  PROVE  \/ poll'.at \in {"down", "load", "compact"}
         \/ poll'.at = "sync" /\ poll'.copy = state /\ state' = state
<1>1. CASE CompactJournal
  <2>1. poll' = poll \/ To("compact")
    BY <1>1 DEF CompactJournal
  <2> QED BY <1>1, <2>1, ToFacts DEF CompactJournal, At, Place
<1>2. CASE LoadState
    BY <1>2 DEF LoadState, Shapes
<1> QED BY <1>1, <1>2, ToFacts, DownFacts, EndFacts
        DEF Turn, Start, Die, SaveOffset, CompactOutbox, Place

\* The steps of a poll that works.
Work ==
  \/ Synchronize \/ Drain \/ Fetch \/ Begin \/ Handle \/ SaveState \/ QueueReply
  \/ MarkCommitted \/ SendTaken \/ SendFails \/ MarkDelivered \/ CompleteUpdate

LEMMA NextCases ==
  ASSUME Next
  PROVE  Outside \/ Turn \/ Work
BY DEF Next, Poll, Outside, Turn, Work

LEMMA WorkAt ==
  /\ (Synchronize => poll.at = "sync") /\ (Drain => poll.at = "drain")
  /\ (Fetch => poll.at = "fetch") /\ (Begin => poll.at = "begin")
  /\ (Handle => poll.at = "handle") /\ (SaveState => poll.at = "save")
  /\ (QueueReply => poll.at = "queue") /\ (MarkCommitted => poll.at = "commit")
  /\ (SendTaken \/ SendFails => poll.at = "send") /\ (MarkDelivered => poll.at = "mark")
  /\ (CompleteUpdate => poll.at = "complete") /\ (SaveOffset => poll.at = "offset")
BY DEF At, Synchronize, Drain, Fetch, Begin, Handle, SaveState, QueueReply, MarkCommitted,
       SendTaken, SendFails, MarkDelivered, CompleteUpdate, SaveOffset

\* The poll is over, or goes on with the same update and copy.
Ends == poll'.at = "load" /\ ~poll'.fresh
Goes(step) ==
  /\ poll'.at = step
  /\ poll'.fresh = poll.fresh /\ poll'.copy = poll.copy /\ poll'.update = poll.update

\* Where each step of the work takes the poll.
LEMMA SynchronizeMoves ==
  ASSUME Shapes, Synchronize PROVE Ends \/ (Goes("drain") /\ ~Stuck)
BY ToFacts, EndFacts DEF Synchronize, Ends, Goes, Place

LEMMA DrainMoves ==
  ASSUME Shapes, Drain
  PROVE  \/ Goes("fetch") /\ \A u \in Update : ~Pending(u)
         \/ /\ poll'.at = "send" /\ ~poll'.fresh /\ poll'.copy = poll.copy
            /\ poll'.update \in Update /\ Pending(poll'.update)
<1>1. CASE \E u \in Update :
             Pending(u) /\ poll' = [poll EXCEPT !.at = "send", !.fresh = FALSE, !.update = u]
    BY <1>1 DEF Shapes
<1>2. CASE (\A u \in Update : ~Pending(u)) /\ To("fetch")
    BY <1>2, ToFacts DEF Goes, Place
<1> QED BY <1>1, <1>2 DEF Drain

LEMMA FetchMoves ==
  ASSUME Shapes, Fetch
  PROVE  \/ Ends
         \/ /\ poll'.copy = poll.copy
            /\ poll'.update \in poll.copy.offset..Len(inbox)
            /\ \A v \in poll.copy.offset..(poll'.update - 1) : Foreign(v)
            /\ \/ Foreign(poll'.update) /\ poll'.at = "offset"
               \/ ~Foreign(poll'.update) /\ poll'.at = "begin"
<1> DEFINE seen == poll.copy.offset..Len(inbox)
           allowed == {u \in seen : inbox[u].kind # "foreign"}
<1>1. CASE End
    BY <1>1, EndFacts DEF Ends
<1>2. ASSUME NEW u \in allowed, \A v \in allowed : u <= v,
             poll' = [poll EXCEPT !.at = "begin", !.update = u]
      PROVE  /\ poll'.copy = poll.copy /\ poll'.update \in seen /\ poll'.at = "begin"
             /\ ~Foreign(poll'.update)
             /\ \A v \in poll.copy.offset..(poll'.update - 1) : Foreign(v)
  <2>1. poll'.copy = poll.copy /\ poll'.update = u /\ poll'.at = "begin"
    BY <1>2 DEF Shapes
  <2>2. u \in Nat /\ u <= Len(inbox)
    BY UpdatesAreNat
  <2>3. ASSUME NEW v \in poll.copy.offset..(u - 1)
        PROVE  Foreign(v)
    BY <1>2, <2>2, <2>3, UpdatesAreNat DEF Foreign
  <2> QED BY <2>1, <2>2, <2>3 DEF Foreign
<1>3. ASSUME allowed = {}, seen # {},
             poll' = [poll EXCEPT !.at = "offset", !.update = Len(inbox)]
      PROVE  /\ poll'.copy = poll.copy /\ poll'.update \in seen /\ poll'.at = "offset"
             /\ Foreign(poll'.update)
             /\ \A v \in poll.copy.offset..(poll'.update - 1) : Foreign(v)
  <2>1. poll'.copy = poll.copy /\ poll'.update = Len(inbox) /\ poll'.at = "offset"
    BY <1>3 DEF Shapes
  <2>2. \A v \in seen : Foreign(v)
    BY <1>3 DEF Foreign
  <2> QED BY <1>3, <2>1, <2>2, UpdatesAreNat
<1> QED BY <1>1, <1>2, <1>3 DEF Fetch

LEMMA BeginMoves ==
  ASSUME Shapes, OwnUpdate, AtOffset, Begin
  PROVE  \/ Ends /\ journal' = journal
         \/ Goes("offset") /\ journal' = journal /\ journal[poll.update] = "completed"
         \/ /\ Goes("handle") /\ journal[poll.update] \in {"none", "retry_authorized"}
            /\ journal' = [journal EXCEPT ![poll.update] = "started"]
<1>1. poll.update \in Update
    BY OwnUpdateType DEF Begin, At, Own
<1>2. \/ End /\ journal' = journal
      \/ To("offset") /\ journal' = journal /\ journal[poll.update] = "completed"
      \/ /\ To("handle") /\ journal[poll.update] \in {"none", "retry_authorized"}
         /\ journal' = [journal EXCEPT ![poll.update] = "started"]
    BY <1>1 DEF Begin, Shapes
<1> QED BY <1>2, ToFacts, EndFacts DEF Ends, Goes, Place

LEMMA HandleMoves ==
  ASSUME Shapes, Handle
  PROVE  /\ poll'.at = "save" /\ poll'.fresh = TRUE /\ poll'.update = poll.update
         /\ poll'.copy.offset = poll.copy.offset
         /\ poll'.copy.pending = PendingAfter(poll.update)
BY DEF Handle, Shapes, StateFile

LEMMA SaveStateMoves ==
  ASSUME Shapes, SaveState PROVE Goes("queue")
BY ToFacts DEF SaveState, Goes, Place

LEMMA QueueReplyMoves ==
  ASSUME Shapes, QueueReply PROVE Ends \/ Goes("commit")
<1>1. To("commit") \/ End
    BY DEF QueueReply
<1> QED BY <1>1, ToFacts, EndFacts DEF Ends, Goes, Place

LEMMA MarkCommittedMoves ==
  ASSUME Shapes, MarkCommitted PROVE Goes("send")
BY ToFacts DEF MarkCommitted, Goes, Place

LEMMA SendTakenMoves ==
  ASSUME Shapes, SendTaken PROVE Goes("mark")
BY ToFacts DEF SendTaken, Goes, Place

LEMMA SendFailsMoves ==
  ASSUME Shapes, SendFails PROVE Ends \/ (Goes("offset") /\ poll.fresh)
<1>1. (poll.fresh /\ To("offset")) \/ End
    BY DEF SendFails
<1> QED BY <1>1, ToFacts, EndFacts DEF Ends, Goes, Place

LEMMA MarkDeliveredMoves ==
  ASSUME Shapes, MarkDelivered PROVE Goes("complete")
BY ToFacts DEF MarkDelivered, Goes, Place

LEMMA CompleteUpdateMoves ==
  ASSUME Shapes, CompleteUpdate
  PROVE  Ends \/ (Goes("offset") /\ poll.fresh) \/ (Goes("drain") /\ ~poll.fresh)
<1>1. (poll.fresh /\ To("offset")) \/ (~poll.fresh /\ To("drain")) \/ End
    BY DEF CompleteUpdate
<1> QED BY <1>1, ToFacts, EndFacts DEF Ends, Goes, Place

-----------------------------------------------------------------------------
\* The update under way.

\* The offset is never set back, and only the last step of a poll moves it.
LEMMA OffsetKept ==
  ASSUME Shapes, CopyIsFile, Next, ~SaveOffset
  PROVE  state'.offset = state.offset
BY StateWritten DEF SaveState, CopyIsFile, At

LEMMA OffsetSaved ==
  ASSUME Shapes, AtOffset, CopyIsFile, SaveOffset
  PROVE  /\ state'.offset = poll.update + 1 /\ state'.pending = state.pending
         /\ state'.offset >= state.offset /\ state'.offset <= Len(inbox') + 1
         /\ inbox' = inbox
BY UpdatesAreNat DEF SaveOffset, AtOffset, CopyIsFile, At, Shapes, StateFile

LEMMA OffsetStep ==
  ASSUME Shapes, AtOffset, CopyIsFile, OffsetInInbox, Next
  PROVE  OffsetInInbox' /\ state'.offset >= state.offset
<1>1. CASE SaveOffset
    BY <1>1, OffsetSaved, UpdatesAreNat DEF OffsetInInbox
<1>2. CASE ~SaveOffset
    BY <1>2, OffsetKept, InboxGrows, UpdatesAreNat, ShapesStep DEF OffsetInInbox
<1> QED BY <1>1, <1>2

LEMMA OwnUpdateStep ==
  ASSUME Shapes, Shapes', OwnUpdate, AtOffset, CopyIsFile, Next
  PROVE  OwnUpdate'
<1> SUFFICES ASSUME Own'
             PROVE  /\ poll'.update \in state'.offset..Len(inbox')
                    /\ inbox'[poll'.update].kind # "foreign"
                    /\ \A v \in state'.offset..(poll'.update - 1) : inbox'[v].kind = "foreign"
    BY DEF OwnUpdate, Foreign
<1>1. ~Turn
    BY TurnFacts DEF Own
<1>2. state'.offset = state.offset
    BY <1>1, OffsetKept DEF Turn
<1>3. /\ poll'.update \in state.offset..Len(inbox) /\ ~Foreign(poll'.update)
      /\ \A v \in state.offset..(poll'.update - 1) : Foreign(v)
  <2>1. CASE Outside
    BY <2>1, OutsideFacts DEF OwnUpdate, Own
  <2>2. CASE Work
    <3>1. CASE Fetch
        BY <3>1, FetchMoves, WorkAt DEF Ends, Own, CopyIsFile
    <3>2. CASE ~Fetch
      <4>1. Own /\ poll'.update = poll.update
        BY <3>2, <2>2, WorkAt, SynchronizeMoves, DrainMoves, BeginMoves, HandleMoves,
           SaveStateMoves, QueueReplyMoves, MarkCommittedMoves, SendTakenMoves,
           SendFailsMoves, MarkDeliveredMoves, CompleteUpdateMoves DEF Work, Ends, Goes, Own
      <4> QED BY <4>1 DEF OwnUpdate
    <3> QED BY <3>1, <3>2
  <2> QED BY <1>1, <2>1, <2>2, NextCases
<1>4. poll'.update \in 1..Len(inbox)
    BY <1>3, UpdatesAreNat
<1>5. Len(inbox') \in Nat /\ state.offset \in Nat \ {0}
    BY UpdatesAreNat, SMTT(30) DEF Shapes
<1>6. \A v \in state.offset..(poll'.update - 1) : v \in 1..Len(inbox)
    BY <1>4, <1>5
<1> QED BY <1>2, <1>3, <1>4, <1>5, <1>6, InboxGrows DEF Foreign

LEMMA CopyIsFileStep ==
  ASSUME Shapes, Shapes', OwnUpdate, AtOffset, CopyIsFile, Next
  PROVE  CopyIsFile'
<1>1. CASE Outside
  <2>1. poll' = poll /\ state' = state
    BY <1>1, OutsideFacts
  <2>2. At("save") => inbox'[poll.update] = inbox[poll.update]
    BY InboxGrows, UpdatesAreNat DEF OwnUpdate, Own, At
  <2> QED BY <2>1, <2>2 DEF CopyIsFile, At
<1>2. CASE Turn
    BY <1>2, TurnFacts DEF CopyIsFile, At
<1>3. CASE Handle
  <2>1. /\ poll'.at = "save" /\ poll'.update = poll.update /\ poll.copy = state
        /\ poll'.copy.offset = poll.copy.offset /\ poll'.copy.pending = PendingAfter(poll.update)
    BY <1>3, HandleMoves, WorkAt DEF CopyIsFile
  <2>2. inbox' = inbox /\ state' = state
    BY <1>3 DEF Handle
  <2>3. IF inbox[poll.update].kind = "ask" THEN PendingAfter(poll.update) = poll.update
        ELSE PendingAfter(poll.update) \in {None, poll.copy.pending}
    BY DEF PendingAfter, Matches
  <2> QED BY <2>1, <2>2, <2>3 DEF CopyIsFile, At
<1>4. CASE SaveState
  <2>1. poll'.at = "queue" /\ poll'.copy = poll.copy
    BY <1>4, SaveStateMoves DEF Goes
  <2> QED BY <1>4, <2>1 DEF SaveState, CopyIsFile, At
<1>5. CASE Work /\ ~Handle /\ ~SaveState
  <2>1. state' = state
    BY <1>5, StateWritten, WorkAt DEF Work
  <2>2. \/ poll'.at = "load"
        \/ poll'.copy = poll.copy /\ poll.at \notin {"down", "load", "compact", "save"}
             /\ poll'.at # "save"
    BY <1>5, WorkAt, SynchronizeMoves, DrainMoves, FetchMoves, BeginMoves, QueueReplyMoves,
       MarkCommittedMoves, SendTakenMoves, SendFailsMoves, MarkDeliveredMoves,
       CompleteUpdateMoves DEF Work, Ends, Goes
  <2> QED BY <2>1, <2>2 DEF CopyIsFile, At
<1> QED BY <1>1, <1>2, <1>3, <1>4, <1>5, NextCases

-----------------------------------------------------------------------------
\* Journal and outbox.

LEMMA RowsOfUpdateStep ==
  ASSUME Shapes, Shapes', OwnUpdate, AtOffset, RowsOfUpdate, OneOwed, Next
  PROVE  RowsOfUpdate'
<1>1. CASE Outside
  <2>1. poll' = poll /\ outbox' = outbox /\ replied' = replied
    BY <1>1 DEF Outside, Send, Lapse, Reconcile, history
  <2>2. journal' = journal \/ At("down")
    BY <1>1 DEF Outside, Send, Lapse, Reconcile
  <2> QED BY <2>1, <2>2 DEF RowsOfUpdate, At, Pending
<1>2. CASE Turn
    BY <1>2, TurnFacts DEF RowsOfUpdate, At
<1>3. CASE Work /\ poll'.at \in {"load", "drain", "fetch", "begin", "offset"}
    BY <1>3 DEF RowsOfUpdate, At
<1>4. CASE Drain /\ poll'.at = "send"
  <2>1. poll'.update \in Update /\ Pending(poll'.update) /\ ~poll'.fresh
    BY <1>4, DrainMoves DEF Goes
  <2> QED BY <1>4, <2>1 DEF Drain, RowsOfUpdate, Pending, At
<1>5. CASE Begin /\ poll'.at = "handle"
  <2>1. poll.update \in Update /\ poll'.update = poll.update
    BY <1>5, OwnUpdateType, BeginMoves, WorkAt DEF Ends, Goes, Own
  <2>2. journal' = [journal EXCEPT ![poll.update] = "started"]
    BY <1>5, BeginMoves DEF Ends, Goes
  <2>3. journal'[poll'.update] = "started"
    BY <2>1, <2>2 DEF Shapes
  <2> QED BY <1>5, <2>3 DEF RowsOfUpdate, At
<1>6. CASE Handle \/ SaveState
  <2>1. poll'.update = poll.update /\ poll'.at \in {"save", "queue"} /\ poll'.fresh
    BY <1>6, HandleMoves, SaveStateMoves, WorkAt DEF Goes, RowsOfUpdate
  <2>2. journal' = journal
    BY <1>6 DEF Handle, SaveState
  <2> QED BY <1>6, <2>1, <2>2, WorkAt DEF RowsOfUpdate, At
<1>7. CASE QueueReply /\ poll'.at = "commit"
  <2>1. poll.update \in Update /\ poll'.update = poll.update /\ poll'.fresh
    BY <1>7, OwnUpdateType, QueueReplyMoves, WorkAt DEF Ends, Goes, Own, RowsOfUpdate
  <2>2. outbox'[poll.update] # "none" /\ journal' = journal
    BY <1>7, <2>1 DEF QueueReply, Shapes
  <2> QED BY <1>7, <2>1, <2>2, WorkAt DEF RowsOfUpdate, At
<1>8. CASE MarkCommitted
  <2>1. poll.update \in Update
    BY <1>8, OwnUpdateType, WorkAt DEF Own
  <2>2. poll'.update = poll.update /\ poll'.at = "send" /\ poll'.fresh
    BY <1>8, MarkCommittedMoves, WorkAt DEF Goes, RowsOfUpdate
  <2>3. outbox' = outbox /\ journal'[poll.update] = "effect_committed"
    BY <1>8, <2>1 DEF MarkCommitted, Shapes
  <2> QED BY <1>8, <2>1, <2>2, <2>3, WorkAt DEF RowsOfUpdate, At
<1>9. CASE SendTaken
  <2>1. poll.update \in Update
    BY <1>9, WorkAt DEF RowsOfUpdate
  <2>2. poll'.update = poll.update /\ poll'.at = "mark" /\ poll'.fresh = poll.fresh
    BY <1>9, SendTakenMoves DEF Goes
  <2>3. outbox' = outbox /\ journal' = journal /\ poll.update \in replied'
    BY <1>9 DEF SendTaken
  <2> QED BY <1>9, <2>1, <2>2, <2>3, WorkAt DEF RowsOfUpdate, At, Pending
<1>10. CASE MarkDelivered
  <2>1. poll.update \in Update
    BY <1>10, WorkAt DEF RowsOfUpdate
  <2>2. poll'.update = poll.update /\ poll'.at = "complete" /\ poll'.fresh = poll.fresh
    BY <1>10, MarkDeliveredMoves DEF Goes
  <2>3. outbox'[poll.update] = "delivered" /\ journal' = journal
    BY <1>10, <2>1 DEF MarkDelivered, Shapes
  <2> QED BY <1>10, <2>1, <2>2, <2>3, WorkAt DEF RowsOfUpdate, At, Pending
<1> QED BY <1>1, <1>2, <1>3, <1>4, <1>5, <1>6, <1>7, <1>8, <1>9, <1>10, NextCases,
        SynchronizeMoves, DrainMoves, FetchMoves, BeginMoves, QueueReplyMoves, SendFailsMoves,
        CompleteUpdateMoves DEF Work, Ends, Goes

LEMMA OneOwedStep ==
  ASSUME Shapes, Shapes', OwnUpdate, AtOffset, RowsOfUpdate, OneOwed, Next
  PROVE  OneOwed'
<1>1. CASE QueueReply
  <2>1. /\ \A u \in Update : ~Pending(u)
        /\ Ends \/ Goes("commit")
        /\ poll.update \in Update
    BY <1>1, WorkAt, QueueReplyMoves, OwnUpdateType DEF OneOwed, Own
  <2>2. \A u \in Update : u # poll.update => outbox'[u] = outbox[u]
    BY <1>1 DEF QueueReply, Shapes
  <2> QED BY <2>1, <2>2 DEF OneOwed, Pending, Ends, Goes
<1>2. CASE SendFails
  <2>1. /\ \A u \in Update : Pending(u) => u = poll.update
        /\ Ends \/ Goes("offset")
    BY <1>2, WorkAt, SendFailsMoves DEF OneOwed
  <2>2. \A u \in Update : u # poll.update => outbox'[u] = outbox[u]
    BY <1>2 DEF SendFails, Shapes
  <2> QED BY <2>1, <2>2 DEF OneOwed, Pending, Ends, Goes
<1>3. CASE MarkDelivered
  <2>1. /\ \A u \in Update : Pending(u) => u = poll.update
        /\ Goes("complete")
    BY <1>3, WorkAt, MarkDeliveredMoves DEF OneOwed
  <2>2. \A u \in Update : u # poll.update => outbox'[u] = outbox[u]
    BY <1>3 DEF MarkDelivered, Shapes
  <2> QED BY <2>1, <2>2 DEF OneOwed, Pending, Goes
<1>4. CASE CompactOutbox
  <2>1. poll'.at = "down"
    BY <1>4, DownFacts DEF CompactOutbox
  <2>2. \A u \in Update : outbox'[u] \in {outbox[u], "none"}
    BY <1>4 DEF CompactOutbox
  <2> QED BY <2>1, <2>2 DEF OneOwed, Pending
<1>5. CASE ~QueueReply /\ ~SendFails /\ ~MarkDelivered /\ ~CompactOutbox
  <2>1. outbox' = outbox
    BY <1>5, OutboxWritten
  <2>2. CASE Outside
    BY <2>1, <2>2, OutsideFacts DEF OneOwed, Pending
  <2>3. CASE Turn
    BY <2>1, <2>3, TurnFacts DEF OneOwed, Pending
  <2>4. CASE Work
    BY <1>5, <2>1, <2>4, WorkAt, SynchronizeMoves, DrainMoves, FetchMoves, BeginMoves,
       HandleMoves, SaveStateMoves, MarkCommittedMoves, SendTakenMoves, CompleteUpdateMoves
       DEF Work, Ends, Goes, OneOwed, Pending
  <2> QED BY <2>2, <2>3, <2>4, NextCases
<1> QED BY <1>1, <1>2, <1>3, <1>4, <1>5

\* Nothing that was answered or closed is forgotten.
LEMMA HistoryGrows ==
  ASSUME Next
  PROVE  replied \subseteq replied' /\ closed \subseteq closed' /\ forced \subseteq forced'
<1>1. CASE \E u \in Update, resolution \in {"retry", "complete"} : Reconcile(u, resolution)
    BY <1>1 DEF Reconcile
<1>2. CASE SendTaken
    BY <1>2 DEF SendTaken
<1>3. (\E u \in Update, resolution \in {"retry", "complete"} : Reconcile(u, resolution))
        \/ SendTaken \/ (replied' = replied /\ closed' = closed /\ forced' = forced)
    BY DEF Next, Poll, Send, Lapse, Start, LoadState, Synchronize, Drain, Fetch, Begin, Handle,
           SaveState, QueueReply, MarkCommitted, SendFails, MarkDelivered, CompleteUpdate,
           SaveOffset, Die, CompactJournal, CompactOutbox, history
<1> QED BY <1>1, <1>2, <1>3

\* What the repair of the journal from the outbox may do to a row.
LEMMA SynchronizedFacts ==
  ASSUME Shapes, NEW u \in Update
  PROVE  \/ Synchronized[u] = journal[u]
         \/ outbox[u] = "delivered" /\ Synchronized[u] = "completed"
              /\ journal[u] \in {"started", "effect_committed"}
         \/ Pending(u) /\ journal[u] = "started" /\ Synchronized[u] = "effect_committed"
BY DEF Synchronized, Repaired

LEMMA JournalTo ==
  ASSUME Shapes, OwnUpdate, AtOffset, RowsOfUpdate, Next, NEW u \in Update
  PROVE  \/ journal'[u] = journal[u]
         \/ /\ Synchronize \/ CompactJournal
            /\ outbox[u] = "delivered" /\ journal'[u] = "completed"
            /\ journal[u] \in {"started", "effect_committed"}
         \/ /\ Synchronize \/ CompactJournal
            /\ Pending(u) /\ journal[u] = "started" /\ journal'[u] = "effect_committed"
         \/ /\ Begin /\ poll'.at = "handle" /\ u = poll.update
            /\ journal[u] \in {"none", "retry_authorized"} /\ journal'[u] = "started"
         \/ MarkCommitted /\ u = poll.update /\ journal'[u] = "effect_committed"
         \/ /\ CompleteUpdate /\ u = poll.update /\ outbox[u] = "delivered"
            /\ journal'[u] = "completed" /\ journal[u] # "none"
         \/ Reconcile(u, "retry") /\ journal'[u] = "retry_authorized"
         \/ Reconcile(u, "complete") /\ journal'[u] = "completed" /\ u \in closed'
              /\ (outbox[u] # "none" => u \in forced')
         \/ /\ CompactJournal /\ At("down") /\ poll'.at = "compact" /\ ~Stuck
            /\ u < state.offset /\ Synchronized[u] = "completed" /\ journal'[u] = "none"
<1>1. CASE Synchronize
    BY <1>1, SynchronizedFacts DEF Synchronize
<1>2. CASE Begin
    BY <1>2, BeginMoves DEF Goes, Shapes
<1>3. CASE MarkCommitted
    BY <1>3 DEF MarkCommitted, Shapes
<1>4. CASE CompleteUpdate
  <2>1. outbox[poll.update] = "delivered" /\ poll.update \in Update
    BY <1>4, WorkAt DEF RowsOfUpdate, At
  <2>2. \/ journal' = journal
        \/ /\ journal[poll.update] \in {"effect_committed", "completed"}
           /\ journal' = [journal EXCEPT ![poll.update] = "completed"]
    BY <1>4 DEF CompleteUpdate
  <2> QED BY <1>4, <2>1, <2>2 DEF Shapes
<1>5. CASE CompactJournal
  <2>1. CASE Stuck
    BY <1>5, <2>1, SynchronizedFacts DEF CompactJournal
  <2>2. CASE ~Stuck
    <3>1. poll'.at = "compact" /\ At("down")
        BY <1>5, <2>2, ToFacts DEF CompactJournal, Place
    <3>2. journal'[u] = IF Synchronized[u] = "completed" /\ u < state.offset THEN "none"
                        ELSE Synchronized[u]
        BY <1>5, <2>2 DEF CompactJournal
    <3> QED BY <1>5, <2>2, <3>1, <3>2, SynchronizedFacts
  <2> QED BY <2>1, <2>2
<1>6. CASE \E v \in Update, resolution \in {"retry", "complete"} : Reconcile(v, resolution)
  <2>1. PICK v \in Update, resolution \in {"retry", "complete"} : Reconcile(v, resolution)
    BY <1>6
  <2>2. u # v => journal'[u] = journal[u]
    BY <2>1 DEF Reconcile, Shapes
  <2>3. resolution = "retry" => journal'[v] = "retry_authorized"
    BY <2>1 DEF Reconcile, Shapes
  <2>4. resolution = "complete"
          => /\ journal'[v] = "completed" /\ v \in closed' /\ (outbox[v] # "none" => v \in forced')
    BY <2>1 DEF Reconcile, Shapes
  <2> QED BY <2>1, <2>2, <2>3, <2>4
<1> QED BY <1>1, <1>2, <1>3, <1>4, <1>5, <1>6, JournalWritten

\* How a row of the outbox may change.
LEMMA OutboxTo ==
  ASSUME Shapes, OwnUpdate, AtOffset, RowsOfUpdate, Next, NEW u \in Update
  PROVE  \/ outbox'[u] = outbox[u]
         \/ /\ QueueReply /\ u = poll.update /\ outbox[u] = "none" /\ outbox'[u] = "queued"
            /\ journal[u] = "started"
         \/ /\ SendFails /\ u = poll.update /\ outbox[u] # "none" /\ outbox'[u] = "failed"
            /\ Pending(u) \/ journal[u] = "effect_committed"
         \/ /\ MarkDelivered /\ u = poll.update /\ outbox[u] # "none"
            /\ outbox'[u] = "delivered" /\ u \in replied
         \/ /\ CompactOutbox /\ outbox[u] = "delivered" /\ u < state.offset
            /\ outbox'[u] = "none"
<1>1. CASE QueueReply
    BY <1>1, WorkAt DEF QueueReply, RowsOfUpdate, Shapes
<1>2. CASE SendFails
    BY <1>2, WorkAt DEF SendFails, RowsOfUpdate, Shapes, Pending
<1>3. CASE MarkDelivered
    BY <1>3, WorkAt DEF MarkDelivered, RowsOfUpdate, At, Shapes
<1>4. CASE CompactOutbox
    BY <1>4, UpdatesAreNat DEF CompactOutbox, Outlives
<1> QED BY <1>1, <1>2, <1>3, <1>4, OutboxWritten

LEMMA RowsProveStep ==
  ASSUME Shapes, OwnUpdate, AtOffset, RowsOfUpdate, RowsProve, Next
  PROVE  RowsProve'
<1> SUFFICES ASSUME NEW u \in Update
             PROVE  /\ outbox'[u] = "delivered" => u \in replied'
                    /\ journal'[u] = "completed" => u \in closed' \cup replied'
    BY DEF RowsProve
<1>1. outbox'[u] = "delivered" => u \in replied'
    BY OutboxTo, HistoryGrows DEF RowsProve
<1>2. journal'[u] = "completed" => u \in closed' \cup replied'
    BY JournalTo, HistoryGrows DEF RowsProve
<1> QED BY <1>1, <1>2

LEMMA StuckRowsStep ==
  ASSUME Shapes, Shapes', OwnUpdate, AtOffset, CopyIsFile, OffsetInInbox, RowsOfUpdate,
         StuckRows, Next
  PROVE  StuckRows'
<1> SUFFICES ASSUME NEW u \in Update
             PROVE  /\ outbox'[u] # "none" /\ journal'[u] = "none" /\ ~halved'
                         => /\ poll'.at = "compact"
                            /\ outbox'[u] = "delivered" /\ u < state'.offset
                    /\ journal'[u] = "completed" /\ outbox'[u] \in {"queued", "failed"}
                         => u \in forced'
    BY DEF StuckRows, At, Pending
<1>1. ASSUME outbox'[u] # "none", journal'[u] = "none", ~halved'
      PROVE  poll'.at = "compact" /\ outbox'[u] = "delivered" /\ u < state'.offset
  <2>1. CASE CompactJournal
    <3>1. outbox' = outbox /\ state' = state /\ halved' = halved /\ poll.at = "down"
        BY <2>1 DEF CompactJournal, At, history
    <3>2. journal[u] # "none"
        BY <1>1, <3>1 DEF StuckRows, At
    <3>3. /\ poll'.at = "compact" /\ ~Stuck /\ u < state.offset
          /\ Synchronized[u] = "completed"
        BY <1>1, <2>1, <3>2, JournalTo
    <3>4. ~Pending(u)
        BY <3>3, SynchronizedFacts DEF Stuck, Raises, Pending
    <3> QED BY <1>1, <3>1, <3>3, <3>4 DEF Pending, Shapes
  <2>2. CASE CompactOutbox
    <3>1. outbox'[u] = outbox[u] /\ outbox[u] # "none" /\ journal' = journal /\ halved' = halved
        BY <1>1, <2>2 DEF CompactOutbox, history
    <3>2. outbox[u] = "delivered" /\ u < state.offset
        BY <1>1, <3>1 DEF StuckRows
    <3> QED BY <1>1, <2>2, <3>2, UpdatesAreNat DEF CompactOutbox, Outlives
  <2>3. CASE Die
    <3>1. ~At("compact") /\ ~halved /\ journal' = journal /\ outbox' = outbox
        BY <1>1, <2>3 DEF Die
    <3> QED BY <1>1, <3>1 DEF StuckRows
  <2>4. CASE ~CompactJournal /\ ~CompactOutbox /\ ~Die
    <3>1. outbox[u] # "none" /\ journal[u] = "none"
        BY <1>1, <2>4, JournalTo, OutboxTo
    <3>2. ~halved
        BY <1>1, <2>4 DEF Next, Poll, Send, Lapse, Start, LoadState, Synchronize, Drain, Fetch,
           Begin, Handle, SaveState, QueueReply, MarkCommitted, SendTaken, SendFails,
           MarkDelivered, CompleteUpdate, SaveOffset, Reconcile, history
    <3>3. At("compact") /\ outbox[u] = "delivered" /\ u < state.offset
        BY <3>1, <3>2 DEF StuckRows
    <3>4. Outside
        BY <2>4, <3>3, NextCases, WorkAt DEF Turn, Work, Start, LoadState, SaveOffset, At
    <3> QED BY <3>3, <3>4, OutsideFacts DEF Outside, Send, Lapse, Reconcile, At
  <2> QED BY <2>1, <2>2, <2>3, <2>4
<1>2. ASSUME journal'[u] = "completed", outbox'[u] \in {"queued", "failed"}
      PROVE  u \in forced'
  <2>1. CASE journal[u] = "completed"
    BY <1>2, <2>1, OutboxTo, HistoryGrows DEF StuckRows, Pending
  <2>2. CASE journal[u] # "completed"
    <3>1. ~QueueReply /\ ~SendFails /\ ~MarkDelivered /\ ~CompactOutbox
        BY <1>2, <2>2 DEF QueueReply, SendFails, MarkDelivered, CompactOutbox
    <3>2. outbox' = outbox
        BY <3>1, OutboxWritten
    <3> QED BY <1>2, <2>2, <3>2, JournalTo
  <2> QED BY <2>1, <2>2
<1> QED BY <1>1, <1>2

-----------------------------------------------------------------------------
\* The offset passes what is settled.

LEMMA SettledStays ==
  ASSUME Shapes, OwnUpdate, AtOffset, RowsOfUpdate, Next, NEW u \in 1..Len(inbox), Settled(u)
  PROVE  Settled(u)'
<1>1. inbox'[u] = inbox[u] /\ u \in Update
    BY InboxGrows, UpdatesAreNat DEF Update
<1>2. Pending(u) => outbox'[u] \in {"queued", "failed"} \/ u \in replied
    BY <1>1, OutboxTo DEF Pending
<1> QED BY <1>1, <1>2, HistoryGrows DEF Settled, Foreign, Pending

LEMMA AtOffsetStep ==
  ASSUME Shapes, Shapes', OwnUpdate, AtOffset, CopyIsFile, RowsOfUpdate, RowsProve, Next
  PROVE  AtOffset'
<1> SUFFICES ASSUME NEW w, w = poll'.update, poll'.at = "offset"
             PROVE  /\ w \in state'.offset..Len(inbox')
                    /\ \A v \in state'.offset..w : Settled(v)'
    BY DEF AtOffset, At
<1>1. ~Turn
    BY TurnFacts
<1>2. state'.offset = state.offset
    BY <1>1, OffsetKept DEF Turn
<1>3. /\ w \in state.offset..Len(inbox)
      /\ \A v \in state.offset..(w - 1) : Settled(v)'
      /\ Settled(w)'
  <2>1. CASE Outside
    <3>1. At("offset") /\ w = poll.update
        BY <2>1, OutsideFacts DEF At
    <3>2. poll.update \in state.offset..Len(inbox)
        BY <3>1 DEF AtOffset
    <3>3. \A v \in state.offset..poll.update : v \in 1..Len(inbox) /\ Settled(v)
        BY <3>1, <3>2, UpdatesAreNat DEF AtOffset
    <3>4. \A v \in state.offset..poll.update : Settled(v)'
        BY <3>3, SettledStays
    <3> QED BY <3>1, <3>2, <3>4, UpdatesAreNat
  <2>2. CASE Fetch
    <3>1. /\ w \in state.offset..Len(inbox)
          /\ \A v \in state.offset..(w - 1) : Foreign(v)
          /\ Foreign(w)
        BY <2>2, FetchMoves, WorkAt DEF Ends, CopyIsFile
    <3>2. \A v \in state.offset..w : v \in 1..Len(inbox) /\ Settled(v)
        BY <3>1, UpdatesAreNat DEF Settled
    <3>3. \A v \in state.offset..w : Settled(v)'
        BY <3>2, SettledStays
    <3> QED BY <3>1, <3>3, UpdatesAreNat
  <2>3. CASE Work /\ ~Fetch
    <3>1. /\ Own /\ w = poll.update
          /\ \/ Begin /\ journal[poll.update] = "completed"
             \/ SendFails /\ poll.fresh
             \/ CompleteUpdate /\ poll.fresh
        BY <2>3, WorkAt, SynchronizeMoves, DrainMoves, BeginMoves, HandleMoves, SaveStateMoves,
           QueueReplyMoves, MarkCommittedMoves, SendTakenMoves, SendFailsMoves,
           MarkDeliveredMoves, CompleteUpdateMoves DEF Work, Ends, Goes, Own
    <3>2. /\ poll.update \in state.offset..Len(inbox) /\ poll.update \in Update
          /\ \A v \in state.offset..(poll.update - 1) : Foreign(v)
        BY <3>1, OwnUpdateType DEF OwnUpdate
    <3>3. \A v \in state.offset..(poll.update - 1) : v \in 1..Len(inbox) /\ Settled(v)
        BY <3>2, UpdatesAreNat DEF Settled
    <3>4. \A v \in state.offset..(poll.update - 1) : Settled(v)'
        BY <3>3, SettledStays
    <3>5. Settled(w)'
      <4>1. CASE Begin /\ journal[poll.update] = "completed"
        BY <3>1, <3>2, <4>1, HistoryGrows DEF RowsProve, Settled
      <4>2. CASE SendFails
        <5>1. outbox'[poll.update] = "failed"
            BY <3>2, <4>2 DEF SendFails, Shapes
        <5> QED BY <3>1, <5>1 DEF Settled, Pending
      <4>3. CASE CompleteUpdate
        <5>1. outbox[poll.update] = "delivered"
            BY <4>3, WorkAt DEF RowsOfUpdate, At
        <5> QED BY <3>1, <3>2, <5>1, HistoryGrows DEF RowsProve, Settled
      <4> QED BY <3>1, <4>1, <4>2, <4>3
    <3> QED BY <3>1, <3>2, <3>4, <3>5
  <2> QED BY <1>1, <2>1, <2>2, <2>3, NextCases
<1>4. Len(inbox') \in Nat
    BY DEF Shapes
<1> QED BY <1>2, <1>3, <1>4, InboxGrows, UpdatesAreNat

LEMMA NoneSkippedStep ==
  ASSUME Shapes, Shapes', OwnUpdate, AtOffset, CopyIsFile, OffsetInInbox, RowsOfUpdate,
         NoneSkipped, Next
  PROVE  NoneSkipped'
<1>1. \A v \in 1..(state.offset - 1) : v \in 1..Len(inbox) /\ Settled(v)
    BY UpdatesAreNat DEF NoneSkipped, OffsetInInbox, Settled, Foreign
<1>2. \A v \in 1..(state.offset - 1) : Settled(v)'
    BY <1>1, SettledStays
<1>3. CASE ~SaveOffset
    BY <1>2, <1>3, OffsetKept DEF NoneSkipped, Settled, Foreign
<1>4. CASE SaveOffset
  <2>1. poll.update \in state.offset..Len(inbox) /\ state'.offset = poll.update + 1
    BY <1>4, WorkAt, OffsetSaved DEF AtOffset, At
  <2>2. \A v \in state.offset..poll.update : v \in 1..Len(inbox) /\ Settled(v)
    BY <1>4, <2>1, WorkAt, UpdatesAreNat DEF AtOffset, At
  <2>3. \A v \in state.offset..poll.update : Settled(v)'
    BY <2>2, SettledStays
  <2>4. \A v \in 1..(state'.offset - 1) :
           v \in 1..(state.offset - 1) \/ v \in state.offset..poll.update
    BY <2>1, UpdatesAreNat
  <2>5. \A v \in 1..(state'.offset - 1) : Settled(v)'
    BY <1>2, <2>3, <2>4
  <2> QED BY <2>5 DEF NoneSkipped, Settled, Foreign
<1> QED BY <1>3, <1>4

-----------------------------------------------------------------------------
\* Effects.

\* The counts that EffectOnce compares are kept by all but two steps.
LEMMA EffectsCounted ==
  ASSUME Shapes, OwnUpdate, AtOffset, Next, NEW u \in Update
  PROVE  \/ ran'[u] = ran[u] /\ retried'[u] >= retried[u]
         \/ Handle /\ u = poll.update /\ ran'[u] = ran[u] + 1 /\ retried'[u] = retried[u]
<1>1. CASE Handle
  <2>1. poll.update \in Update
    BY <1>1, WorkAt, OwnUpdateType DEF Own
  <2>2. ran' = ran \/ ran' = [ran EXCEPT ![poll.update] = @ + 1]
    BY <1>1 DEF Handle
  <2>3. retried' = retried
    BY <1>1 DEF Handle
  <2>4. ran[u] \in Nat /\ retried[u] \in Nat
    BY DEF Shapes
  <2>5. ran'[u] = ran[u] \/ (u = poll.update /\ ran'[u] = ran[u] + 1)
    BY <2>1, <2>2 DEF Shapes
  <2> QED BY <1>1, <2>3, <2>4, <2>5
<1>2. CASE \E v \in Update, resolution \in {"retry", "complete"} : Reconcile(v, resolution)
  <2>1. PICK v \in Update, resolution \in {"retry", "complete"} : Reconcile(v, resolution)
    BY <1>2
  <2>2. retried' = retried \/ retried' = [retried EXCEPT ![v] = @ + 1]
    BY <2>1 DEF Reconcile
  <2>3. ran' = ran
    BY <2>1 DEF Reconcile
  <2>4. retried[u] \in Nat
    BY DEF Shapes
  <2>5. retried'[u] = retried[u] \/ retried'[u] = retried[u] + 1
    BY <2>2 DEF Shapes
  <2> QED BY <2>3, <2>4, <2>5
<1>3. CASE ~Handle /\ ~(\E v \in Update, resolution \in {"retry", "complete"} :
                           Reconcile(v, resolution))
  <2>1. ran' = ran /\ retried' = retried
    BY <1>3 DEF Next, Poll, Send, Lapse, Start, LoadState, Synchronize, Drain, Fetch, Begin,
       SaveState, QueueReply, MarkCommitted, SendTaken, SendFails, MarkDelivered,
       CompleteUpdate, SaveOffset, Die, CompactJournal, CompactOutbox, history
  <2>2. retried[u] \in Nat
    BY DEF Shapes
  <2> QED BY <2>1, <2>2
<1> QED BY <1>1, <1>2, <1>3

LEMMA RetryCounted ==
  ASSUME Shapes, NEW u \in Update, Reconcile(u, "retry")
  PROVE  ran'[u] = ran[u] /\ retried'[u] = retried[u] + 1
BY DEF Reconcile, Shapes

LEMMA RanBelowStep ==
  ASSUME Shapes, OwnUpdate, AtOffset, CopyIsFile, OffsetInInbox, RowsOfUpdate, RanBelow, Next
  PROVE  RanBelow'
<1> SUFFICES ASSUME NEW u \in Update
             PROVE  /\ ran'[u] <= 1 + retried'[u]
                    /\ journal'[u] = "retry_authorized" => ran'[u] <= retried'[u]
                    /\ journal'[u] = "none" /\ u >= state'.offset => ran'[u] <= retried'[u]
                    /\ poll'.at = "handle" /\ poll'.update = u => ran'[u] <= retried'[u]
    BY DEF RanBelow, At
<1>1. u \in Nat /\ ran[u] \in Nat /\ retried[u] \in Nat /\ state.offset \in Nat
    BY UpdatesAreNat, SMTT(30) DEF Shapes
<1>2. CASE Handle
  <2>1. journal' = journal /\ poll'.at = "save"
    BY <1>2, HandleMoves DEF Handle
  <2>2. state' = state /\ journal[poll.update] = "started"
    BY <1>2, WorkAt DEF Handle, RowsOfUpdate
  <2>3. u = poll.update => ran[u] <= retried[u]
    BY <1>2, WorkAt DEF RanBelow, At
  <2>4. \/ ran'[u] = ran[u] /\ retried'[u] = retried[u]
        \/ u = poll.update /\ ran'[u] = ran[u] + 1 /\ retried'[u] = retried[u]
    <3>1. retried' = retried
        BY <1>2 DEF Handle
    <3> QED BY <3>1, EffectsCounted
  <2> QED BY <1>1, <2>1, <2>2, <2>3, <2>4 DEF RanBelow
<1>3. CASE ~Handle
  <2>1. ran'[u] = ran[u] /\ retried'[u] >= retried[u]
    BY <1>3, EffectsCounted
  <2>2. retried'[u] \in Nat
    BY ShapesStep DEF Shapes
  <2>3. ran'[u] <= 1 + retried'[u]
    BY <1>1, <2>1, <2>2 DEF RanBelow
  <2>4. journal'[u] = "retry_authorized" => ran'[u] <= retried'[u]
    <3>1. CASE journal[u] = "retry_authorized"
        BY <1>1, <2>1, <2>2, <3>1 DEF RanBelow
    <3>2. CASE Reconcile(u, "retry")
        BY <1>1, <3>2, RetryCounted DEF RanBelow
    <3> QED BY <3>1, <3>2, JournalTo
  <2>5. journal'[u] = "none" /\ u >= state'.offset => ran'[u] <= retried'[u]
    <3> SUFFICES ASSUME journal'[u] = "none", u >= state'.offset
                 PROVE  ran'[u] <= retried'[u]
        OBVIOUS
    <3>1. state'.offset >= state.offset
        BY OffsetStep
    <3>2. u >= state.offset
      <4>1. state' \in StateFile
        BY ShapesStep DEF Shapes
      <4>2. state'.offset \in Nat
        BY <4>1, UpdatesAreNat DEF StateFile
      <4> QED BY <1>1, <3>1, <4>2
    <3>3. journal[u] = "none"
        BY <1>1, <3>2, JournalTo
    <3> QED BY <1>1, <2>1, <2>2, <3>2, <3>3 DEF RanBelow
  <2>6. poll'.at = "handle" /\ poll'.update = u => ran'[u] <= retried'[u]
    <3> SUFFICES ASSUME poll'.at = "handle", poll'.update = u
                 PROVE  ran'[u] <= retried'[u]
        OBVIOUS
    <3>1. CASE Outside
        BY <1>1, <2>1, <2>2, <3>1, OutsideFacts DEF RanBelow, At
    <3>2. CASE Begin
      <4>1. poll.update = u /\ journal[u] \in {"none", "retry_authorized"} /\ u >= state.offset
        BY <3>2, BeginMoves, WorkAt, UpdatesAreNat DEF Ends, Goes, OwnUpdate, Own
      <4> QED BY <1>1, <2>1, <2>2, <4>1 DEF RanBelow
    <3>3. Outside \/ Begin
        BY <1>3, NextCases, TurnFacts, WorkAt, SynchronizeMoves, DrainMoves, FetchMoves,
           SaveStateMoves, QueueReplyMoves, MarkCommittedMoves, SendTakenMoves,
           SendFailsMoves, MarkDeliveredMoves, CompleteUpdateMoves DEF Work, Ends, Goes
    <3> QED BY <3>1, <3>2, <3>3
  <2> QED BY <2>3, <2>4, <2>5, <2>6
<1> QED BY <1>2, <1>3

LEMMA PendingAskStep ==
  ASSUME Shapes, Shapes', OwnUpdate, AtOffset, CopyIsFile, PendingAsk, Next
  PROVE  PendingAsk'
<1> SUFFICES ASSUME NEW p, p = state'.pending, p # None
             PROVE  /\ p \in 1..Len(inbox') /\ inbox'[p].kind = "ask"
                    /\ \A v \in state'.offset..(p - 1) : inbox'[v].kind = "foreign"
    BY DEF PendingAsk, Foreign
<1>1. /\ p \in 1..Len(inbox) /\ inbox[p].kind = "ask"
      /\ \A v \in state.offset..(p - 1) : Foreign(v)
  <2>1. CASE p = state.pending
    BY <2>1 DEF PendingAsk
  <2>2. CASE p # state.pending
    <3>1. SaveState
        BY <2>2, StateWritten, OffsetSaved
    <3>2. p = poll.copy.pending /\ At("save") /\ Own
        BY <3>1, WorkAt DEF SaveState, Own, At
    <3>3. p = poll.update /\ inbox[p].kind = "ask"
        BY <2>2, <3>2 DEF CopyIsFile
    <3> QED BY <3>2, <3>3, UpdatesAreNat DEF OwnUpdate
  <2> QED BY <2>1, <2>2
<1>2. state'.offset >= state.offset /\ state'.offset \in Nat
  <2>1. CASE SaveOffset
    BY <2>1, OffsetSaved, UpdatesAreNat DEF AtOffset, At, SaveOffset
  <2>2. CASE ~SaveOffset
    BY <2>2, OffsetKept, UpdatesAreNat
  <2> QED BY <2>1, <2>2
<1>3. Len(inbox') \in Nat
    BY DEF Shapes
<1>4. \A v \in state'.offset..(p - 1) : v \in state.offset..(p - 1) /\ v \in 1..Len(inbox)
    BY <1>1, <1>2, UpdatesAreNat
<1>5. Len(inbox) <= Len(inbox') /\ \A v \in 1..Len(inbox) : inbox'[v] = inbox[v]
    BY InboxGrows
<1>6. p \in 1..Len(inbox') /\ inbox'[p].kind = "ask"
    BY <1>1, <1>3, <1>5, UpdatesAreNat
<1>7. \A v \in state'.offset..(p - 1) : inbox'[v].kind = "foreign"
    BY <1>1, <1>4, <1>5 DEF Foreign
<1> QED BY <1>6, <1>7

\* A confirm is younger than the ask whose confirmation is pending.
LEMMA ConfirmIsYounger ==
  ASSUME Shapes, OwnUpdate, AtOffset, CopyIsFile, PendingAsk, At("handle"), Matches(poll.update)
  PROVE  /\ poll.copy.pending = state.pending /\ state.pending \in Update
         /\ state.pending < state.offset
<1>1. poll.copy.pending = state.pending /\ state.pending # None
    BY DEF CopyIsFile, At, Matches
<1>2. /\ poll.update \in state.offset..Len(inbox) /\ ~Foreign(poll.update)
      /\ \A v \in state.offset..(poll.update - 1) : Foreign(v)
    BY DEF OwnUpdate, Own, At
<1>3. inbox[poll.update].kind = "confirm"
    BY DEF Matches
<1>4. /\ state.pending \in 1..Len(inbox) /\ inbox[state.pending].kind = "ask"
      /\ \A v \in state.offset..(state.pending - 1) : Foreign(v)
    BY <1>1 DEF PendingAsk
<1>5. state.pending \in Update
    BY <1>4, UpdatesAreNat DEF Update
<1>6. ~(state.pending >= state.offset)
  <2> SUFFICES ASSUME state.pending >= state.offset PROVE FALSE
    OBVIOUS
  <2>1. state.pending # poll.update
    BY <1>3, <1>4
  <2>2. ~(state.pending < poll.update)
    BY <1>2, <1>4, UpdatesAreNat DEF Foreign
  <2>3. ~(poll.update < state.pending)
    BY <1>2, <1>4, UpdatesAreNat DEF Foreign
  <2> QED BY <1>2, <1>4, <2>1, <2>2, <2>3, UpdatesAreNat
<1> QED BY <1>1, <1>4, <1>5, <1>6, UpdatesAreNat

LEMMA DoneBelowStep ==
  ASSUME Shapes, Shapes', OwnUpdate, AtOffset, CopyIsFile, OffsetInInbox, PendingAsk, DoneBelow,
         Next
  PROVE  DoneBelow'
<1>1. CASE Handle
  <2>1. /\ state' = state /\ torn' = torn /\ inbox' = inbox /\ poll'.at = "save"
        /\ poll'.update = poll.update /\ poll'.copy.pending = PendingAfter(poll.update)
    BY <1>1, HandleMoves DEF Handle
  <2>2. ~Popped
    BY <1>1, WorkAt DEF Popped, At
  <2>3. CASE did' = did
    <3>1. state.pending # None => did[state.pending] <= torn[state.pending]
        BY <2>2 DEF DoneBelow
    <3> QED BY <2>1, <2>3, <3>1 DEF DoneBelow
  <2>4. CASE Matches(poll.update) /\ did' = [did EXCEPT ![poll.copy.pending] = @ + 1]
    <3>1. /\ poll.copy.pending = state.pending /\ state.pending \in Update
          /\ state.pending < state.offset
        BY <1>1, <2>4, WorkAt, ConfirmIsYounger DEF At
    <3>2. did[state.pending] <= torn[state.pending]
        BY <2>2, <3>1, UpdatesAreNat DEF DoneBelow, None, Update
    <3>3. /\ did'[state.pending] = did[state.pending] + 1
          /\ \A u \in Update : u # state.pending => did'[u] = did[u]
        BY <2>4, <3>1 DEF Shapes
    <3>4. PendingAfter(poll.update) = None /\ inbox[poll.update].kind = "confirm"
        BY <2>4 DEF PendingAfter, Matches
    <3>5. Popped'
        BY <2>1, <3>1, <3>4, UpdatesAreNat DEF Popped, At, None, Update
    <3>6. did[state.pending] \in Nat /\ torn[state.pending] \in Nat /\ state.pending \in Nat
        BY <3>1, UpdatesAreNat DEF Shapes
    <3>7. \A u \in Update : did'[u] <= 1 + torn'[u]
        BY <2>1, <3>2, <3>3, <3>6 DEF DoneBelow
    <3>8. \A u \in Update : u >= state'.offset => did'[u] = 0
      <4> SUFFICES ASSUME NEW u \in Update, u >= state.offset PROVE did'[u] = 0
        BY <2>1
      <4>1. u # state.pending
        BY <3>1, <3>6, UpdatesAreNat
      <4> QED BY <3>3, <4>1 DEF DoneBelow
    <3> QED BY <3>5, <3>7, <3>8 DEF DoneBelow
  <2> QED BY <1>1, <2>3, <2>4 DEF Handle
<1>2. CASE SaveState
  <2>1. /\ state'.offset = state.offset /\ state'.pending = poll.copy.pending
        /\ did' = did /\ torn' = torn /\ At("save")
    BY <1>2, WorkAt DEF SaveState, CopyIsFile, At, history
  <2>2. state'.pending # None => did'[state'.pending] <= torn'[state'.pending]
    <3> SUFFICES ASSUME state'.pending # None
                 PROVE  did[poll.copy.pending] <= torn[poll.copy.pending]
        BY <2>1
    <3>1. CASE inbox[poll.update].kind = "ask"
      <4>1. poll.copy.pending = poll.update /\ poll.update \in Update
            /\ poll.update >= state.offset
        BY <2>1, <3>1, OwnUpdateType, UpdatesAreNat DEF CopyIsFile, OwnUpdate, Own, At
      <4>2. did[poll.update] = 0 /\ torn[poll.update] \in Nat
        BY <4>1 DEF DoneBelow, Shapes
      <4> QED BY <4>1, <4>2
    <3>2. CASE inbox[poll.update].kind # "ask"
      <4>1. poll.copy.pending = state.pending /\ state.pending # None
        BY <2>1, <3>2 DEF CopyIsFile
      <4> QED BY <4>1 DEF DoneBelow, Popped
    <3> QED BY <3>1, <3>2
  <2> QED BY <2>1, <2>2 DEF DoneBelow
<1>3. CASE SaveOffset
  <2>1. /\ state'.offset >= state.offset /\ state'.pending = state.pending /\ state'.offset \in Nat
        /\ did' = did /\ torn' = torn /\ ~Popped
    BY <1>3, WorkAt, OffsetSaved, UpdatesAreNat DEF SaveOffset, AtOffset, At, Popped, history
  <2>2. \A u \in Update : u >= state'.offset => u >= state.offset
    <3>1. state.offset \in Nat /\ Update \subseteq Nat
        BY UpdatesAreNat
    <3> QED BY <2>1, <3>1
  <2> QED BY <2>1, <2>2 DEF DoneBelow
<1>4. CASE Die
  <2>1. state' = state /\ did' = did
    BY <1>4 DEF Die
  <2>2. CASE Popped
    <3>1. torn' = [torn EXCEPT ![state.pending] = @ + 1]
        BY <1>4, <2>2 DEF Die
    <3>2. state.pending # None
        BY <2>2 DEF Popped, CopyIsFile, At
    <3>3. state.pending \in Update
        BY <3>2 DEF Shapes, StateFile
    <3>4. /\ torn'[state.pending] = torn[state.pending] + 1
          /\ \A u \in Update : u # state.pending => torn'[u] = torn[u]
        BY <3>1, <3>3 DEF Shapes
    <3>5. \A u \in Update : did[u] \in Nat /\ torn[u] \in Nat
        BY DEF Shapes
    <3>6. \A u \in Update : torn'[u] >= torn[u] /\ torn'[u] \in Nat
        BY <3>4, <3>5
    <3> QED BY <2>1, <3>3, <3>4, <3>5, <3>6 DEF DoneBelow
  <2>3. CASE ~Popped
    <3>1. torn' = torn
        BY <1>4, <2>3 DEF Die
    <3> QED BY <2>1, <2>3, <3>1 DEF DoneBelow
  <2> QED BY <2>2, <2>3
<1>5. CASE ~Handle /\ ~SaveState /\ ~SaveOffset /\ ~Die
  <2>1. state' = state /\ did' = did /\ torn' = torn
    BY <1>5 DEF Next, Poll, Send, Lapse, Start, LoadState, Synchronize, Drain, Fetch, Begin,
       QueueReply, MarkCommitted, SendTaken, SendFails, MarkDelivered, CompleteUpdate,
       CompactJournal, CompactOutbox, Reconcile, history
  <2>2. Popped => Popped'
    <3> SUFFICES ASSUME Popped PROVE Popped'
        OBVIOUS
    <3>1. At("save")
        BY DEF Popped
    <3>2. Outside
        BY <1>5, <3>1, NextCases, WorkAt
           DEF Turn, Work, Start, LoadState, CompactJournal, CompactOutbox, At
    <3>3. inbox'[poll.update] = inbox[poll.update]
        BY <3>1, InboxGrows, UpdatesAreNat DEF OwnUpdate, Own, At
    <3> QED BY <2>1, <3>2, <3>3, OutsideFacts DEF Popped, At
  <2> QED BY <2>1, <2>2 DEF DoneBelow
<1> QED BY <1>1, <1>2, <1>3, <1>4, <1>5

-----------------------------------------------------------------------------
\* Together.

LEMMA OneCardinality ==
  ASSUME NEW S, \A x, y \in S : x = y
  PROVE  Cardinality(S) <= 1
<1>1. CASE S = {}
    BY <1>1, FS_EmptySet
<1>2. CASE S # {}
  <2>1. PICK x : S = {x}
    BY <1>2
  <2>2. Cardinality(S) = 1
    BY <2>1, FS_Singleton
  <2> QED BY <2>2
<1> QED BY <1>1, <1>2

LEMMA IInvInit == Init => IInv
<1> SUFFICES ASSUME Init PROVE IInv
    OBVIOUS
<1>1. Shapes
    BY ShapesInit
<1>2. /\ poll.at = "down" /\ Len(inbox) = 0 /\ inbox = <<>>
      /\ state.offset = 1 /\ state.pending = None
    BY DownFacts DEF Init
<1>3. \A u \in Update : ~Pending(u) /\ outbox[u] = "none" /\ journal[u] = "none"
    BY DEF Init, Pending
<1>4. Cardinality({u \in Update : Pending(u)}) <= 1
    BY <1>3, OneCardinality
<1>5. \A u \in Update : ran[u] = 0 /\ did[u] = 0 /\ retried[u] = 0 /\ torn[u] = 0
    BY DEF Init
<1>6. OffsetInInbox /\ OwnUpdate /\ AtOffset /\ CopyIsFile /\ RowsOfUpdate
    BY <1>2 DEF OffsetInInbox, OwnUpdate, Own, AtOffset, CopyIsFile, RowsOfUpdate, At
<1>7. OneOwed /\ RowsProve /\ StuckRows
    BY <1>2, <1>3 DEF OneOwed, RowsProve, StuckRows, At
<1>8. RanBelow /\ DoneBelow
    BY <1>2, <1>5 DEF RanBelow, DoneBelow
<1>9. PendingAsk /\ NoneSkipped
    BY <1>2 DEF PendingAsk, NoneSkipped
<1> QED BY <1>1, <1>4, <1>6, <1>7, <1>8, <1>9 DEF IInv, TypeOK

LEMMA IInvStutters ==
  ASSUME IInv, UNCHANGED vars
  PROVE  IInv'
BY SMTT(30) DEF IInv, TypeOK, Shapes, OffsetInInbox, OwnUpdate, Own, AtOffset, Settled, Foreign,
       CopyIsFile, RowsOfUpdate, OneOwed, RowsProve, RanBelow, PendingAsk, DoneBelow, Popped,
       StuckRows, NoneSkipped, Pending, At, vars, history

LEMMA IInvStep ==
  ASSUME IInv, [Next]_vars
  PROVE  IInv'
<1>1. CASE UNCHANGED vars
    BY <1>1, IInvStutters
<1>2. CASE Next
  <2> USE <1>2 DEF IInv, TypeOK
  <2>1. Shapes'
    BY ShapesStep
  <2>2. OffsetInInbox'
    BY OffsetStep
  <2>3. OwnUpdate'
    BY <2>1, OwnUpdateStep
  <2>4. AtOffset'
    BY <2>1, AtOffsetStep
  <2>5. CopyIsFile'
    BY <2>1, CopyIsFileStep
  <2>6. RowsOfUpdate'
    BY <2>1, RowsOfUpdateStep
  <2>7. OneOwed'
    BY <2>1, OneOwedStep
  <2>8. RowsProve'
    BY RowsProveStep
  <2>9. RanBelow'
    BY RanBelowStep
  <2>10. PendingAsk'
    BY <2>1, PendingAskStep
  <2>11. DoneBelow'
    BY <2>1, DoneBelowStep
  <2>12. StuckRows'
    BY <2>1, StuckRowsStep
  <2>13. NoneSkipped'
    BY <2>1, NoneSkippedStep
  <2>14. (Cardinality({u \in Update : Pending(u)}) <= 1)'
    <3> DEFINE owed == {u \in Update : outbox'[u] \in {"queued", "failed"}}
    <3>1. \A u, v \in owed : u = v
        BY <2>7 DEF OneOwed, Pending
    <3>2. Cardinality(owed) <= 1
        BY <3>1, OneCardinality
    <3> QED BY <3>2 DEF Pending
  <2> QED BY <2>1, <2>2, <2>3, <2>4, <2>5, <2>6, <2>7, <2>8, <2>9, <2>10, <2>11, <2>12, <2>13,
             <2>14
<1> QED BY <1>1, <1>2

\* The inductive invariant the theorems below rest on: at every place of
\* run_once, how far the journal, the outbox and the state file say that its
\* update has come.
THEOREM IInvAlways == Spec => []IInv
<1> QED BY IInvInit, IInvStep, PTL DEF Spec

\* Files and poll keep their shapes, and at most one reply is owed.
THEOREM TypeCorrect == Spec => []TypeOK
<1>1. IInv => TypeOK
    BY DEF IInv
<1> QED BY <1>1, IInvAlways, PTL

\* An update has its effect at most once, and once more for each retry the
\* operator authorised, wherever the listener dies and whatever is compacted.
THEOREM EffectOnceAlways == Spec => []EffectOnce
<1>1. IInv => EffectOnce
    BY DEF IInv, RanBelow, EffectOnce
<1> QED BY <1>1, IInvAlways, PTL

\* What was asked for is done once, and once more for each death that left the
\* confirmation in the state file.
THEOREM ConfirmedOnceAlways == Spec => []ConfirmedOnce
<1>1. IInv => ConfirmedOnce
    BY DEF IInv, DoneBelow, ConfirmedOnce
<1> QED BY <1>1, IInvAlways, PTL

\* The offset passes no update that was neither answered, closed nor foreign.
THEOREM NoneSkippedAlways == Spec => []NoneSkipped
<1>1. IInv => NoneSkipped
    BY DEF IInv
<1> QED BY <1>1, IInvAlways, PTL

\* A poll stops at the outbox only after an update was completed by hand with
\* its reply queued, or a compaction died between its two files.
THEOREM StuckExplainedAlways == Spec => []StuckExplained
<1>1. IInv => StuckExplained
    BY DEF IInv, StuckRows, StuckExplained, Stuck, Raises
<1> QED BY <1>1, IInvAlways, PTL
===============================================================================
