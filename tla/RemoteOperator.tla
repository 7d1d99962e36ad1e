---------------------------- MODULE RemoteOperator ----------------------------
(***************************************************************************)
(* The Telegram listener of the remote operator: one poll after the other, *)
(* each of which first delivers the reply that is still owed and then      *)
(* handles at most one update.  Three files make a guarded effect survive  *)
(* a crash at any point: the state file (the offset and the pending        *)
(* confirmation), the update journal and the reply outbox; journal and     *)
(* outbox are append-only and the last row of an update counts.  The       *)
(* operator repairs and compacts them while the listener is down.          *)
(*                                                                         *)
(* There is one chat.  An "ask" stores a confirmation, a "confirm" with or *)
(* without its token does what it is for, a "pause" acts at once.          *)
(***************************************************************************)
EXTENDS Naturals, Sequences, FiniteSets, SequencesExt

CONSTANTS
  Kind,        \* the kinds of update sent: ask, confirm, cancel, pause, foreign
  MaxUpdates,  \* bound: updates ever sent
  MaxDeaths,   \* bound: times the listener or a tool dies
  MaxRepairs   \* bound: times the operator reconciles an update

ASSUME KindAssumption == Kind \subseteq {"ask", "confirm", "cancel", "pause", "foreign"}
ASSUME BoundAssumption == {MaxUpdates, MaxDeaths, MaxRepairs} \subseteq Nat

Update == 1..MaxUpdates
None == 0

VARIABLES
  inbox,     \* the updates sent, in order; Telegram keeps those from the offset on
  state,     \* the state file
  journal,   \* the last status of each update in the journal
  outbox,    \* the last status of each reply in the outbox
  poll,      \* the poll or the tool under way, its update and its copy of the state
  expired,   \* confirmations whose time is up
  deaths,    \* deaths so far
  ran,       \* history: how often each update had its effect
  did,       \* history: how often what an update asked for was done
  replied,   \* history: updates whose reply Telegram took
  retried,   \* history: how often the operator authorised a retry
  closed,    \* history: updates the operator completed by hand
  torn,      \* history: how often a listener died between doing it and the state file
  forced,    \* history: updates completed by hand with their reply in the outbox
  halved     \* history: a compaction died between its two files

history == <<ran, did, replied, retried, closed, torn, forced, halved>>
vars == <<inbox, state, journal, outbox, poll, expired, deaths, history>>

StateFile == [offset : 1..(MaxUpdates + 1), pending : {None} \cup Update]
\* Where a poll or a tool stands: the step it takes next.
Place == {"down", "load", "sync", "drain", "fetch", "begin", "handle", "save", "queue",
          "commit", "send", "mark", "complete", "offset", "compact"}
Down == [at |-> "down", update |-> None, fresh |-> FALSE,
         copy |-> [offset |-> 1, pending |-> None]]
At(step) == poll.at = step
To(step) == poll' = [poll EXCEPT !.at = step]
\* The poll ends; the next one begins with loading the state again.
End == poll' = [Down EXCEPT !.at = "load"]

Pending(u) == outbox[u] \in {"queued", "failed"}
\* Rows that no poll gets past: synchronize_reply_delivery_journal raises.
Raises(u) ==
  /\ outbox[u] # "none"
  /\ journal[u] = "none" \/ (journal[u] = "completed" /\ Pending(u))
Stuck == \E u \in Update : Raises(u)

Init ==
  /\ inbox = <<>> /\ state = [offset |-> 1, pending |-> None]
  /\ journal = [u \in Update |-> "none"] /\ outbox = [u \in Update |-> "none"]
  /\ poll = Down /\ expired = {} /\ deaths = 0
  /\ ran = [u \in Update |-> 0] /\ did = [u \in Update |-> 0]
  /\ retried = [u \in Update |-> 0] /\ torn = [u \in Update |-> 0]
  /\ replied = {} /\ closed = {} /\ forced = {} /\ halved = FALSE

-----------------------------------------------------------------------------
(* Telegram and the operator's phone.                                       *)

\* A message.  A confirm names the ask whose card it answers, or none.
Send(kind, token) ==
  /\ Len(inbox) < MaxUpdates
  /\ token # None => kind = "confirm" /\ token \in DOMAIN inbox /\ inbox[token].kind = "ask"
  /\ inbox' = Append(inbox, [kind |-> kind, token |-> token])
  /\ UNCHANGED <<state, journal, outbox, poll, expired, deaths, history>>

\* The lifetime of a confirmation is over.
Lapse(u) ==
  /\ u \in {state.pending, poll.copy.pending} /\ u \notin expired
  /\ expired' = expired \cup {u}
  /\ UNCHANGED <<inbox, state, journal, outbox, poll, deaths, history>>

-----------------------------------------------------------------------------
(* run_once.                                                                *)

Start ==
  /\ At("down") /\ To("load")
  /\ UNCHANGED <<inbox, state, journal, outbox, expired, deaths, history>>

LoadState ==
  /\ At("load")
  /\ poll' = [poll EXCEPT !.at = "sync", !.copy = state]
  /\ UNCHANGED <<inbox, state, journal, outbox, expired, deaths, history>>

\* Mutant: a row that is only started is left as it is.
Repaired_Started(u) ==
  IF outbox[u] = "delivered" /\ journal[u] = "effect_committed" THEN "completed"
  ELSE journal[u]

\* What a row in the outbox proves about its update.
Repaired(u) ==
  CASE outbox[u] = "delivered" /\ journal[u] \in {"started", "effect_committed"} -> "completed"
    [] Pending(u) /\ journal[u] = "started" -> "effect_committed"
    [] OTHER -> journal[u]
\* synchronize_reply_delivery_journal: up to the first row it raises at.
Synchronized ==
  [u \in Update |-> IF \E v \in 1..u : Raises(v) THEN journal[u] ELSE Repaired(u)]
Synchronize ==
  /\ At("sync")
  /\ journal' = Synchronized
  /\ IF Stuck THEN End ELSE To("drain")
  /\ UNCHANGED <<inbox, state, outbox, expired, deaths, history>>

\* drain_reply_outbox: the replies that are owed, first come first served.
Drain ==
  /\ At("drain")
  /\ \/ \E u \in Update :
          /\ Pending(u) /\ \A v \in 1..(u - 1) : ~Pending(v)
          /\ poll' = [poll EXCEPT !.at = "send", !.fresh = FALSE, !.update = u]
     \/ (\A u \in Update : ~Pending(u)) /\ To("fetch")
  /\ UNCHANGED <<inbox, state, journal, outbox, expired, deaths, history>>

\* getUpdates fails, or has updates from the offset on; those that are not
\* allowed are passed over.
Fetch ==
  /\ At("fetch")
  /\ LET seen == poll.copy.offset..Len(inbox)
         allowed == {u \in seen : inbox[u].kind # "foreign"}
     IN  \/ End
         \/ \E u \in allowed :
              /\ \A v \in allowed : u <= v
              /\ poll' = [poll EXCEPT !.at = "begin", !.update = u]
         \/ /\ allowed = {} /\ seen # {}
            /\ poll' = [poll EXCEPT !.at = "offset", !.update = Len(inbox)]
  /\ UNCHANGED <<inbox, state, journal, outbox, expired, deaths, history>>

\* Mutant: an update that was begun and not finished is begun again.
Begin_Again ==
  /\ At("begin")
  /\ IF journal[poll.update] = "completed" THEN To("offset") /\ UNCHANGED journal
     ELSE /\ journal' = [journal EXCEPT ![poll.update] = "started"]
          /\ To("handle")
  /\ UNCHANGED <<inbox, state, outbox, expired, deaths, history>>

\* begin_update.
Begin ==
  /\ At("begin")
  /\ CASE journal[poll.update] = "completed" -> To("offset") /\ UNCHANGED journal
       [] journal[poll.update] \in {"started", "effect_committed"} -> End /\ UNCHANGED journal
       [] journal[poll.update] \in {"none", "retry_authorized"} ->
            /\ journal' = [journal EXCEPT ![poll.update] = "started"]
            /\ To("handle")
  /\ UNCHANGED <<inbox, state, outbox, expired, deaths, history>>

\* pop_confirmation: does this confirm match what is pending?
Matches(u) ==
  /\ inbox[u].kind = "confirm" /\ poll.copy.pending # None
  /\ inbox[u].token \in {None, poll.copy.pending}

\* store_confirmation, clear_confirmation, pop_confirmation.
PendingAfter(u) ==
  CASE inbox[u].kind = "ask" -> u
    [] inbox[u].kind = "cancel" \/ Matches(u) -> None
    [] OTHER -> poll.copy.pending
\* The handler: its effect is the work of a forager command, the rest is in
\* memory.
Handle ==
  LET u == poll.update
      confirmed == Matches(u) /\ poll.copy.pending \notin expired
  IN  /\ At("handle")
      /\ ran' = IF confirmed \/ inbox[u].kind = "pause" THEN [ran EXCEPT ![u] = @ + 1] ELSE ran
      /\ did' = IF confirmed THEN [did EXCEPT ![poll.copy.pending] = @ + 1] ELSE did
      /\ poll' = [poll EXCEPT !.at = "save", !.fresh = TRUE, !.copy.pending = PendingAfter(u)]
      /\ UNCHANGED <<inbox, state, journal, outbox, expired, deaths, replied, retried, closed,
                     torn, forced, halved>>

\* Mutant: the state is saved as it was loaded, with the offset at the end only.
SaveState_NotPending ==
  /\ At("save")
  /\ To("queue")
  /\ UNCHANGED <<inbox, state, journal, outbox, expired, deaths, history>>

SaveState ==
  /\ At("save")
  /\ state' = poll.copy
  /\ To("queue")
  /\ UNCHANGED <<inbox, journal, outbox, expired, deaths, history>>

\* queue_reply.  A row of an earlier attempt stands if it has the same text;
\* otherwise the poll ends with an error.
QueueReply ==
  /\ At("queue")
  /\ IF outbox[poll.update] = "none"
     THEN outbox' = [outbox EXCEPT ![poll.update] = "queued"] /\ To("commit")
     ELSE UNCHANGED outbox /\ (To("commit") \/ End)
  /\ UNCHANGED <<inbox, state, journal, expired, deaths, history>>

\* mark_effect_committed.
MarkCommitted ==
  /\ At("commit")
  /\ journal' = [journal EXCEPT ![poll.update] = "effect_committed"]
  /\ To("send")
  /\ UNCHANGED <<inbox, state, outbox, expired, deaths, history>>

\* attempt_reply_delivery, of a reply that is new or owed.
SendTaken ==
  /\ At("send")
  /\ replied' = replied \cup {poll.update}
  /\ To("mark")
  /\ UNCHANGED <<inbox, state, journal, outbox, expired, deaths, ran, did, retried, closed,
                 torn, forced, halved>>

\* Mutant: the update is completed whether its reply went out or not.
SendFails_Completed ==
  /\ At("send")
  /\ outbox' = [outbox EXCEPT ![poll.update] = "failed"]
  /\ journal' = [journal EXCEPT ![poll.update] = "completed"]
  /\ IF poll.fresh THEN To("offset") ELSE End
  /\ UNCHANGED <<inbox, state, expired, deaths, history>>

\* Mutant: after an owed reply that fails again the poll goes on.
SendFails_GoesOn ==
  /\ At("send")
  /\ outbox' = [outbox EXCEPT ![poll.update] = "failed"]
  /\ To(IF poll.fresh THEN "offset" ELSE "fetch")
  /\ UNCHANGED <<inbox, state, journal, expired, deaths, history>>

SendFails ==
  /\ At("send")
  /\ outbox' = [outbox EXCEPT ![poll.update] = "failed"]
  /\ IF poll.fresh THEN To("offset") ELSE End
  /\ UNCHANGED <<inbox, state, journal, expired, deaths, history>>
MarkDelivered ==
  /\ At("mark")
  /\ outbox' = [outbox EXCEPT ![poll.update] = "delivered"]
  /\ To("complete")
  /\ UNCHANGED <<inbox, state, journal, expired, deaths, history>>

\* complete_update raises for an update that was not committed.
CompleteUpdate ==
  /\ At("complete")
  /\ IF journal[poll.update] \in {"effect_committed", "completed"}
     THEN /\ journal' = [journal EXCEPT ![poll.update] = "completed"]
          /\ To(IF poll.fresh THEN "offset" ELSE "drain")
     ELSE End /\ UNCHANGED journal
  /\ UNCHANGED <<inbox, state, outbox, expired, deaths, history>>

\* Mutant: the offset passes every update that was fetched.
SaveOffset_Batch ==
  /\ At("offset")
  /\ state' = [poll.copy EXCEPT !.offset = Len(inbox) + 1]
  /\ End
  /\ UNCHANGED <<inbox, journal, outbox, expired, deaths, history>>

SaveOffset ==
  /\ At("offset")
  /\ state' = [poll.copy EXCEPT !.offset = poll.update + 1]
  /\ End
  /\ UNCHANGED <<inbox, journal, outbox, expired, deaths, history>>

-----------------------------------------------------------------------------
(* The process dies or is stopped, at any point.  A handler or save_state   *)
(* that raises after the effect leaves the same files and is one of these.  *)
\* The confirmation was taken out of memory and not yet out of the state file.
Popped ==
  /\ At("save") /\ inbox[poll.update].kind = "confirm"
  /\ poll.copy.pending # state.pending
Die ==
  /\ ~At("down") /\ deaths < MaxDeaths
  /\ deaths' = deaths + 1
  /\ poll' = Down
  /\ torn' = IF Popped
             THEN [torn EXCEPT ![state.pending] = @ + 1] ELSE torn
  /\ halved' = (halved \/ At("compact"))
  /\ UNCHANGED <<inbox, state, journal, outbox, expired, ran, did, replied, retried, closed,
                 forced>>

(* The tools take the listener's lock.                                      *)

RepairsLeft == Cardinality(closed) + FoldFunction(+, 0, retried) < MaxRepairs
\* journal-reconcile.
Reconcile(u, resolution) ==
  /\ At("down") /\ journal[u] = "started" /\ RepairsLeft
  /\ \/ /\ resolution = "retry"
        /\ journal' = [journal EXCEPT ![u] = "retry_authorized"]
        /\ retried' = [retried EXCEPT ![u] = @ + 1]
        /\ UNCHANGED <<closed, forced>>
     \/ /\ resolution = "complete"
        /\ journal' = [journal EXCEPT ![u] = "completed"]
        /\ closed' = closed \cup {u}
        /\ forced' = IF outbox[u] = "none" THEN forced ELSE forced \cup {u}
        /\ UNCHANGED retried
  /\ UNCHANGED <<inbox, state, outbox, poll, expired, deaths, ran, did, replied, torn, halved>>

\* journal-compact: synchronize, then the journal below the offset.
CompactJournal ==
  LET synced == Synchronized IN
  /\ At("down")
  /\ IF Stuck THEN journal' = synced /\ UNCHANGED poll
     ELSE /\ journal' = [u \in Update |->
               IF synced[u] = "completed" /\ u < state.offset THEN "none" ELSE synced[u]]
          /\ To("compact")
  /\ UNCHANGED <<inbox, state, outbox, expired, deaths, history>>

\* compact_reply_outbox keeps what is not delivered.
Outlives(u) == outbox[u] # "delivered" \/ u >= state.offset
CompactOutbox ==
  /\ At("compact")
  /\ outbox' = [u \in Update |-> IF Outlives(u) THEN outbox[u] ELSE "none"]
  /\ poll' = Down
  /\ UNCHANGED <<inbox, state, journal, expired, deaths, history>>

-----------------------------------------------------------------------------
Poll ==
  \/ Start \/ LoadState \/ Synchronize \/ Drain \/ Fetch \/ Begin \/ Handle
  \/ SaveState \/ QueueReply \/ MarkCommitted \/ SendTaken \/ SendFails \/ MarkDelivered
  \/ CompleteUpdate \/ SaveOffset

Next ==
  \/ \E kind \in Kind, token \in {None} \cup Update : Send(kind, token)
  \/ \E u \in Update : Lapse(u)
  \/ Poll \/ Die \/ CompactJournal \/ CompactOutbox
  \/ \E u \in Update, resolution \in {"retry", "complete"} : Reconcile(u, resolution)

Spec == Init /\ [][Next]_vars

\* The service manager starts the listener again, however often it is down for
\* maintenance, and it polls on; Telegram does not fail for ever.
FairSpec ==
  /\ Spec /\ WF_vars(Poll) /\ WF_vars(CompactOutbox) /\ SF_vars(Start)
  /\ SF_vars(SendTaken) /\ SF_vars(Fetch /\ ~At("load")')

-----------------------------------------------------------------------------
(* Properties.                                                              *)

Shapes ==
  /\ inbox \in Seq([kind : Kind, token : {None} \cup Update]) /\ Len(inbox) <= MaxUpdates
  /\ state \in StateFile
  /\ journal \in [Update ->
       {"none", "started", "effect_committed", "retry_authorized", "completed"}]
  /\ outbox \in [Update -> {"none", "queued", "failed", "delivered"}]
  /\ poll \in [at : Place, update : {None} \cup Update, fresh : BOOLEAN, copy : StateFile]
  /\ ran \in [Update -> Nat] /\ did \in [Update -> Nat]
  /\ retried \in [Update -> Nat] /\ torn \in [Update -> Nat]
  /\ expired \cup replied \cup closed \cup forced \subseteq Update
  /\ deaths \in 0..MaxDeaths /\ halved \in BOOLEAN

\* The files and the poll have the shapes the code gives them, and at most one
\* reply is owed at any time, so the outbox's retry limit never matters.
TypeOK == Shapes /\ Cardinality({u \in Update : Pending(u)}) <= 1

\* An update has its effect at most once, and once more for each retry the
\* operator authorised ("at-most-once guarded mutations").
EffectOnce == \A u \in Update : ran[u] <= 1 + retried[u]

\* What was asked for is done once, whatever confirms follow, in a bare tap or
\* with its token.  Only a listener that dies between the effect and the state
\* file leaves the confirmation behind for one more; a handler or save_state that
\* raises after the effect leaves the same files, and counts as a death here.
ConfirmedOnce == \A u \in Update : did[u] <= 1 + torn[u]

\* The offset passes an update only when it was handled, when a listener
\* stopped at it and the operator closed it, or when it is not allowed.
NoneSkipped ==
  \A u \in 1..(state.offset - 1) :
    inbox[u].kind = "foreign" \/ u \in closed \cup replied \/ Pending(u)

\* A poll stops at the outbox for ever only after one of two things: the
\* operator completed an update by hand that had its reply queued, or a
\* compaction died between journal and outbox.
StuckExplained == Stuck /\ ~At("compact") => forced # {} \/ halved

\* A message is answered, unless an update is left for the operator: it was
\* started and nothing in the outbox says how far it came, or the poll is stuck.
LeftForOperator ==
  \/ Stuck
  \/ /\ \E u \in Update : journal[u] = "started" /\ outbox[u] = "none"
     /\ poll.at \notin {"handle", "save", "queue"}
Answered ==
  \A u \in Update :
    (u <= Len(inbox) /\ inbox[u].kind # "foreign")
      ~> (u \in replied \cup closed \/ LeftForOperator)
===============================================================================
