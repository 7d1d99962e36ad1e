# A TLA+ model of forager

forager runs AI coding agents in tmux sessions (the terminal UI and its session
commands) and, in its *Offdesk* half, runs queued tasks while the operator is
away: a harness tick launches background workers under approvals the operator
gave, watches them and reconciles what they left; a Telegram listener takes the
operator's decisions; an adaptive wiki keeps what was learned. Both halves make
promises ("one approval, one action", "denied until a new approval", "sessions
only get removed when you explicitly delete them", "at-most-once guarded
mutations"), and in both several processes or threads work on copies of the same
files. This directory models the parts that carry those promises, checks them
with TLC and proves their safety properties with TLAPS. Paths below are those of the repository.

## 1. Inventory

### 1.1 State and operations

State is in files of a profile directory. A store is loaded whole, changed in
memory and written back whole; only three things lock: the tick against other
ticks, each single operation of the wiki, and the Telegram listener against
itself and its tools.

| component | file | operations |
|---|---|---|
| approval ledger (`offdesk/approval.rs`) | `pending_action_approvals.json`, `action_audit.jsonl` | evaluate_action, session (begin, evaluate, ensure, supersede, flush), ok, deny, pending, retry `--new-approval` |
| scheduler gate (`offdesk/scheduler.rs`) | none | evaluate: capability, artifacts, provider cooldown, denial, approval or brief |
| task queue (`offdesk/task_queue.rs`) | `offdesk_tasks.json` | enqueue, cancel, retry, resume, abandon; load and save by the tick |
| harness tick (`offdesk/control_loop.rs`, `tick_lock.rs`) | the tick lock | run_offdesk_tick: session, poll, reconcile, fallbacks, dispatch, flush, save, learning scan |
| background runner (`offdesk/runner.rs`, `background.rs`) | `background_runs.json`, logs, result files | launch, upsert, poll, evaluate, acknowledge |
| resume store (`offdesk/resume.rs`) | `task_resume_state.json` | mark pending, clear after recovery, cancel, abandon |
| operator pause (`offdesk/operator_pause.rs`) | `offdesk_operator_pause.json` | pause, unpause, load |
| provider capacity (`offdesk/provider.rs`) | provider capacity file | record a cooldown, match, recommend a fallback |
| retention approvals (`cli/artifact_index.rs`) | the ledger, retention receipts | retention-request, retention-apply |
| learning signals (`offdesk/learning_signals.rs`) | a cursor file, wiki candidates | scan_and_emit_learning_signals |
| adaptive wiki (`offdesk/adaptive_wiki.rs`, wiki commands of `cli/offdesk.rs`) | entries, candidates, audit log, promotion receipts, review decisions, policy acknowledgements | record, promote, reject, rescope, edit, deprecate, renew, counterexample, close-proposal, acknowledge, runtime projection |
| remote operator (`scripts/offdesk_remote_operator_telegram.py`, `scripts/telegram_operator`) | state file, update journal, reply outbox | run_once, queue_reply, drain, reconcile, compact |
| session storage (`session/storage.rs`, `groups.rs`), CLI session commands | `sessions.json`, `groups.json` | load, save; add, remove, move, rename, group create and delete |
| home view and its pollers (`tui/home`, `tui/creation_poller.rs`, `deletion_poller.rs`) | a copy of the list, selection, dialogs, request and result channels | create, delete, rename, move, reload, apply results |
| decisions, mutations, closeout, plans, packets | append-only or whole-file JSON | record, resolve, snapshot, verify |
| tmux, git, processes, containers | none of their own | calls out |

`PROJECT.json` lists every component with its status and the reason.

### 1.2 How they interact

* The **tick** is the only component that launches queued work. It begins an
  approval session (a copy of the ledger), loads the tasks (a copy), polls the
  probes (load, look, save), reads the pause switch once, reconciles its task
  copy with the poll (writing resume rows to disk on the way), applies approved
  provider fallbacks, dispatches at most `--limit` tasks, flushes the ledger,
  and saves the tasks.
* **Commands** (`ok`, `cancel-task`, `pause`, `poll`, ...) run in their own
  processes at any time and take no lock. The Telegram operator runs the same
  commands.
* **Workers** are child processes or tmux sessions. The only callback is the
  result file they leave and that they are there or not.
* **Timers** run a tick every ten minutes while autonomy is armed
  (`docs/remote-operator.md:784`).
* The **home view** is one event loop. A key, or one look at each channel, is one
  step of it; two threads build and remove what sessions have outside the files
  and answer through channels. The CLI's session commands load and save the same
  two files from other processes.
* The **Telegram listener** handles one update per poll: effect, state file, reply
  row, commit, send, offset, each a write of its own; its tools run while it is
  down.
* **Wiki commands** are several locked operations: find, change, audit line,
  receipt. The projection of a run reads entries and acknowledgements.

### 1.3 What is hard

* *Stale copies.* The tick works for as long as its launches take on copies of
  two files everyone else may rewrite, and then writes them back.
* *Interruption.* A tick writes probes, resume rows, the ledger and the tasks in
  that order; it can die, or return an error, between any two.
* *Evidence order.* A run is judged by two looks (process, result file) at a
  worker that ends meanwhile.
* *One-shot permissions.* Approvals, denials and fallbacks must be used once, or
  hold until superseded, through expiry, retry, re-enqueue and error returns.
* *Bounded service.* The limit counts tasks that only wait.
* *Selection behind a dialog.* Results and reloads change the list, the cursor and
  the selection while a dialog that named a session is open.
* *One flag for many requests.* Creation has one "pending" and one "cancelled".
* *Effect before record.* The listener acts before it can write that it did.
* *Time taken before the lock.* A wiki command's timestamp, that of recording a
  candidate included, may be older than a decision that its change should make
  stale.
* *One id for several grounds.* A review proposal is its action and its subject;
  the queue shows the first ground and a decision hides the others.

`PROJECT.json` "hazards" has the ones that matter most, each at its line with the
properties that watch it; section 6 names those nothing here covers.

### 1.4 What makes each component correct

* ledger: at most one open record per request; nothing runs on a record no
  operator approved; a grant is used once; a denial holds; a closed record stays
  closed; the audit log covers every answer;
* tick and queue: a worker is always supervised by its task; no task has two
  workers; cancel and pause hold; a scoped tick touches nothing else; what is
  queued is served and what is finished is seen;
* runner: a finished run is never called lost; a ticket can be polled;
* resume store: a task that waits for recovery has its row;
* session list: what the view shows is what the next start shows; every worktree
  or tmux session has a row, a request or a result that answers for it; a row
  that says deleting is being deleted; a spinner ends;
* listener: an update has its effect at most once, none is skipped, a message is
  answered or left for the operator, and only known causes stop it for good;
* wiki: a candidate has one fate; the audit log is true; a decided proposal
  comes back when its subject changed; a policy leaves out only what was shown.

## 2. Modules

| module | models | state |
|---|---|---|
| `Approvals` | the ledger file as data: cover, expiry, ask, mark | none |
| `ApprovalLedger` | everyone who rewrites the ledger: the tick's session, gates, retention commands, the operator's commands, crashes | file, audit log, clock, each command's place and copy |
| `ApprovalLedgerProofs` | theorems about `ApprovalLedger` that hold under overlap and crashes | |
| `LedgerSerialProofs` | theorems about `ApprovalLedger` with one command at a time, and that it then implements `LedgerPerKey` | |
| `OffdeskTick` | the tick, the queue, probes, resume rows, pause, providers, workers and the commands that touch them | the five stores, the world (processes, result files, cooldown), the tick's copies and place |
| `OffdeskTickProofs` | theorems about `OffdeskTick` | |
| `LearningSignals` | the learning scan of the tick and of the operator, its cursor, what it records, and the events | the three stores as far as the scan reads them, the cursor, the counts, each scan's place and copy |
| `LearningSignalsProofs` | theorems about `LearningSignals` | |
| `LedgerPerKey` | what the ledger promises, per key, without files or clocks | one answer per key |
| `SessionList` | the session files, the home view with its threads, the session commands | the files, the view, its dialog and channels, what sessions have outside |
| `SessionListProofs` | theorems about `SessionList` | |
| `AdaptiveWiki` | candidates, entries, audit, receipts, decisions, acknowledgements and the commands on them | the files, each operator's command |
| `AdaptiveWikiProofs` | theorems about `AdaptiveWiki` | |
| `RemoteOperator` | the Telegram listener, its three files, its tools | the files, the poll and its copy of the state |
| `RemoteOperatorProofs` | theorems about `RemoteOperator` | |
| `MCApprovalLedger`, `MCOffdeskTick`, `MCSessionList`, `MCAdaptiveWiki` | small instances | |

### 2.1 ApprovalLedger

A *key* is `ApprovalLookupKey` (project, request, task, action, risk). Keys fall
into three classes by who asks: gated actions, provider fallbacks, retention.
A record is its key, status and time of creation; ids are given in file order.

The code's two kinds of access are kept apart. `GateCheck` and the `Gate...`
actions are `SchedulerGate::evaluate`: one load for the denial check, another
for the evaluation. `BeginTick`, `TickUseGrant`, `TickUnderBrief`, `TickAsk`,
`TickUseFallback`, `FlushSave`, `FlushAudit` are an `ApprovalLedgerSession`:
one load, many evaluations on the copy, a save if something changed, then the
audit lines. `BeginRequest` is retention-request (a short session outside the
tick lock), `BeginApply`, `CheckApply`, `RefuseApply` are retention-apply.
`Ok`, `Deny`, `ListPending`, `NewApproval` load, change and save in one step,
and `Die` ends a command between two of its steps.

`Overlap` lets commands run while another is between its steps; `Crashes` lets
commands die there. Both off is the serial use the documents describe. `approved`,
`refused`, `uses` and `ran` are history: no action reads them.

`TypeOK` has the types of all variables (`Typed`) and that no record, in the file or
in a copy, and no command's clock is ahead of the present (`NotAhead`). Expiry and
reuse compare a record's time with a later look, so a record dated at its expiry,
which its mutant writes, would live twice its ttl.

`LedgerPerKey` is the abstract specification: each key has one answer (none,
waiting, granted, denied), a grant is gone with the action it allows, a denial
stays until it is reopened. `ImplementsPerKey` says that with one command at a
time `ApprovalLedger` implements it; the mapping takes the copy of the session
that is open, or the file, and reads the key's answer off its records. It is not
true of overlapping commands: that is what `ledger_lost_denial` shows.

Left out: session-scope grants, which no command creates, and `Safe` actions,
which make no record.

### 2.2 OffdeskTick

The tick is a sequence of steps in the order of `run_offdesk_tick`:

| step | code |
|---|---|
| `TickBegin` | begin_session, load the tasks, choose the scope |
| `TickLook`, `TickPoll` | poll_background_runs: load the probes and ask for the processes; then ask for the results, decide, save |
| `TickApply` | read the pause; apply_background_outcome for each task, resume rows on disk |
| `TickRetarget` | apply_approved_provider_fallbacks |
| `TickPass` | a task the loop skips (filter, pause, limit, not dispatchable) |
| `TickBlocked`, `TickDenied`, `TickWait` | the gate says cooldown, denied, wait |
| `TickLaunch`, `TickRecord` | start the worker; then upsert its probe and mark the task |
| `TickAbort`, `TickGiveUp` | dispatch_task fails; flush and return the error |
| `TickFlush`, `TickSave` | flush the ledger; save the tasks |
| `TickCrash` | the process dies; the lock goes with it |

Commands are one step each (`Enqueue`, `CancelTask`, `AbandonTask`, `RetryTask`,
`Resolve`, `SetPause`, `Poll`, `BackgroundAck`); with `Crashes` one that writes
two files may stop after the first. `WorkerWrites`, `WorkerExits`, `Lapse` and
`Cooldown` are the world.

A task row is its status, ticket, provider and whether `not_before` is set. The
ledger is, per task and action, the answer that covers its request; that this is
enough is `OneOpenRequest` of `ApprovalLedger`. The phases StaleLostCallback,
StaleNoAck, Reconstructable and Failed, which the tick treats alike, are one
phase `lost`; nothing in the program writes `worker_heartbeat_at`, so a local
run is lost exactly when its process is gone and there is no result.

`released`, `stopped` and `credit` are history: runs whose task the operator
cancelled or replaced, tasks he cancelled and did not queue again, approvals not
used up.

Left out: the project filter (it is the task filter with a larger scope),
notification counters, remote runners once launched (a queued task cannot launch
one, see finding `tick_twice`), the `launch` command that bypasses the queue, the
learning scan (`LearningSignals`), the work-slice receipts a poll may write,
torn file writes.

### 2.3 LearningSignals

A scan is `ScanBegin` (load the cursor), `ScanLook` (load the three stores),
`ScanEmit` once per new event (`record_candidate`, which has a lock of its own)
and `ScanSave`, which writes the cursor if something was emitted; `ScanFail` is
an error or a death at any of these places. Two processes scan: the tick, within
its lock, and `learning-scan`, under no lock. The events are rows: a denied
approval, a failed task, a row that waits for recovery, each with the key the
code gives it (`approval_denial_key`, `task_failure_key`, `resume_pending_key`).
`TickAsk`, `TickRefused`, `TickLaunch`, `Lost`, `Finished` and the operator's
`Enqueue`, `Deny`, `Retry`, `Cancel` are what makes and removes such rows; they
are the actions of `OffdeskTick` cut down to status and attempt count. `Lost`
may leave its row without its task, as an interrupted tick does.

All events are of one project and runner, so that their candidates merge into
one claim per source, and `counted` is how often each event was added to its
claim. `disturbed` counts scans that failed or overlapped another; it is history.
The wording of claims and redaction are left out; the review of candidates is
`AdaptiveWiki`.

### 2.4 SessionList

`file` is `sessions.json` and `groups.json`: rows (id, group, status) in order,
and group paths. The view is `rows`, `groups`, `cursor` and `selected`; the
flattened list is computed (`Flat`), as `flatten_tree` does; what a filter leaves of
a list is a recursive function of the number of rows looked at (`Those`, `Listed`).
`Enter` is
`HomeView::new`, `Leave` quitting or switching the profile, which drops the
channels. Keys are `MoveCursor`, `OpenNew`, `OpenDelete`, `OpenRename`,
`SaveList` (collapse a group, start a terminal), and the dialogs' answers
`CreateNow`, `RequestCreation`, `CancelNew`, `SubmitDelete`, `SubmitGroup`,
`SubmitGroupAndSessions`, `Regroup`, `MoveAway`, `Dismiss`. They are enabled as
`handle_key` orders them: an open dialog takes every key. `Build` and
`RunRemoval` are the threads, which take requests in order and may fail.
`ApplyCreated`, `ApplyCancelled`, `ApplyBuildError`, `ApplyRemoved`,
`ApplyRemoveError` are the loop's looks at the channels. `SaveAndReload` is the
save of the view's copy and the `reload` that every change ends with: rows keep
the view's status, the cursor is clamped, the selection recomputed.

Commands are two steps, `CliLoad` and then one of the saving actions or
`CliFail`, because `add` runs hooks and `remove` waits for an answer in between.

`resources` has the sessions whose worktree or tmux session exists and that the
program still means to remove. `adrift` (made and never read because the view was
left, or half moved between profiles) and `inherited` (on file as deleting when
the view was entered) are history and appear only as exceptions in properties.

Left out: nested groups and parents, the orchestrator session that some settings
add to a new one, the search filter, titles, the question whether to register a
project and whether to trust hooks, status and preview polling, and which of
branch, container and worktree a failed removal left.

### 2.5 AdaptiveWiki

A command takes its time (`Begin...`, `now`), changes a file under the lock
(`RecordCandidate`, `PromoteChange`, `RejectChange`, `EditChange`), and for a
promotion sets the review horizon (`PromoteHorizon`), writes its audit line
(`WriteAudit`) and its receipt (`WriteReceipt`); `Die` ends it between two of these,
and `PromoteChange` itself may die between the entry file and the candidate file.
Recording is such a command too: record-candidate and a denial take their time
before the lock (`cli/offdesk.rs:3868`), and a learning scan records one candidate
after the other with the time its tick began at, so `RecordCandidate` may repeat
within one command.

A candidate is its claim, its count, its confidence, whether it has evidence and
when it was last updated; an entry what it was promoted from, its scope (session or
wider), its confidence, whether it has evidence, is promoted, contested, edited, its
horizon and its time. Confidence is "inferred" or not: "repeated" is treated as
"explicit" is, everywhere in the review queue.

`Proposals` is `build_review_proposals`: promote a candidate counted twice, with
evidence and not inferred; renew an entry whose horizon is reached, that was
inferred, or whose promotion has no audit line; deprecate one without evidence;
split a contested one; merge duplicates. A proposal is its action and subject, and
`push_review_proposal` drops a second one with the same id, so whoever looks sees
the first ground only (`FirstGround`). `Hidden` says that the latest decision on it
is newer than its subject and its evidence (`Stale`). `BeginClose` and
`AppendDecision` are close-proposal, which remembers what whoever decided could see
(`Look`); `BeginByHand` is record-proposal-event, which looks at nothing.

`HiddenWasSeen` has the exceptions the code has. A decision by hand saw nothing. A
change by a command that others overtook carries an older time than a decision it
should make stale (`contended`), recording included. And a horizon that is reached
changes no time, so a decision taken when the ground was another one, as for every
entry promoted from an inferred candidate, goes on hiding the proposal.

`Selected` is the projection under a query and a policy, in `projection_order`
(scope, confidence, evidence, then time), `Fingerprint` the hash an acknowledgement
is bound to, `Resolution` what a run that asks for the strict policy gets: the
acknowledgement for its own query, else the one for project and artifact if no
session knowledge is involved.

Left out of the review queue: reject proposals (empty claims, candidates not seen
for long), the proposals that come from usage (deprecated entries still used, under
the id of `deprecate` but of an entry that is no longer promoted), from audit
evidence (a counterexample for a candidate) and from corrections that recur
(rescope); conflicts between instructions, which share the id of `split`; the second
ground of `deprecate`, an empty instruction (commands refuse an empty claim, which
stands in for it); incomplete snapshots as a further ground to renew, which only
lines of an older version have; decisions "unknown". Evidence is some or none:
counts of references, which only order the projection further, are left out, and
evidence and source references, which the commands fill together, are one; an edit
that changes claim or kind, and with it what is a duplicate, is an edit of the text.
Left out altogether: usage, corrections and episodes as reports, tags, agent modes
and runbook references, budgets in characters, the markdown and graph exports, scope
overrides at promotion.

### 2.6 RemoteOperator

`poll.at` is the place in `run_once`, in its order: `LoadState`, `Synchronize`
(what the outbox proves about the journal), `Drain` (replies that are owed),
`Fetch`, `Begin`, `Handle` (the effect and the pending confirmation, in memory),
`SaveState`, `QueueReply`, `MarkCommitted`, `SendTaken` or `SendFails`,
`MarkDelivered`, `CompleteUpdate`, `SaveOffset`. Where the code raises, the poll
ends and the next one begins. `Die` may come at every step; `Reconcile`,
`CompactJournal` and `CompactOutbox` are the operator's tools, which take the
listener's lock and so run while it is down.

Journal and outbox are append-only and the last row of an update counts, so each
is a status per update. `torn` counts the deaths between doing what was asked
and the state file that no longer has the confirmation (`Popped`). A handler or a
`save_state` that raises after the effect leaves the same files and also ends the
poll: such an end stands in the model as a death there, so `ConfirmedOnce` promises
no more for it than for a crash. The messages are kinds: an `ask` stores a
confirmation, a `confirm` does what is pending if its token matches or it has none,
`cancel` clears it, `pause` acts at once, `foreign` is from a chat that is not
allowed.

Left out: autonomy proposals, attention and session cards, plan sessions and chat
context in the state file, several chats, `--once` beside the service, journal
rows of the first version.

## 3. Runs

| run | asks | result |
|---|---|---|
| `ledger_serial` | one command at a time: do all promises of the ledger hold, and does it implement `LedgerPerKey`? | yes |
| `ledger_overlap` | which of them survive any interleaving and crash? | OneOpenRequest, UseNeedsApproval |
| `ledger_lost_denial` | a denial given while a session is open | violated |
| `tick_serial` | commands between ticks, workers at any time: supervision, approvals, cancel, pause; is a result seen and a queued task served? | hold |
| `tick_faults` | cooldowns, fallback approvals, error returns in the loop, scoped ticks: is an approval used once, does a scoped tick leave the rest alone? | yes |
| `tick_crash` | death between any two writes: recovery rows and probes | hold |
| `tick_twice` | no task is launched twice, with a task whose dispatch always fails | violated |
| `learn_overlap` | two scans that fail and overlap each other and the commands: is an event lost, or counted too often? | neither |
| `session_serial` | the view with its threads, left and entered again, failing moves, commands before and after: screen and files, orphans, deleting rows, spinners | hold |
| `session_wrong_row` | is only that deleted which the dialog named? | violated |
| `wiki_curation` | two operators' overlapping, dying commands on explicit and inferred claims: fates, audit, acknowledged policy; does a decision hide what nobody was shown? | hold; only in the ways 2.5 tells |
| `remote_listener` | death anywhere, failing sends, repairs and compaction: effects, offsets, answers | hold |

Each violated property quotes a document in `PROJECT.json` "findings". They have
three roots: whole-file write-back without a lock and reads long before use
(`ledger_lost_denial`), a write order in which the effect comes before its record
(`tick_twice`), and a selection read when a dialog is answered and not when it
was opened (`session_wrong_row`: the dialog names session 2, the deletion of
session 1 arrives and shifts the list, the confirmation deletes session 3).

Other differences between code and documents the models contain, without a run of
their own:

* The tick saves its copy of all tasks (`control_loop.rs:227`): a cancel-task given
  while it runs is undone, though `docs/remote-operator.md:839` says it "marks the
  durable task cancelled so the harness stops continuing or resuming it".
  `CancelHolds` fails with `Overlap` on.
* A tick that dies between launching on a grant and flushing its session leaves
  the grant for another launch (`approval.rs:1018`; `docs/hermes-pattern-review.md:69`
  says one matching action). `GrantUsedOnce` fails with `Crashes` on.
* A failure's key has the attempt count, which only launches increment
  (`learning_signals.rs:165`), so a task that is denied, retried and denied again
  has the same key, though the comment there wants a later failed retry to be new.
* The pause switch is read once, before the dispatch loop, so a pause given during
  a tick holds from the next one on (`docs/remote-operator.md:848` calls it
  immediate), and `--limit 0` is raised to 1 (`docs/remote-operator.md:1257` says
  it dispatches nothing).
* The listener has two states no poll gets out of (`StuckExplained`): an update
  completed by hand while its reply was queued, and a compaction that died between
  journal and outbox. `synchronize_reply_delivery_journal` raises in both.
* A confirmation survives a listener that dies, or raises, between the effect and
  the state file (`ConfirmedOnce`), though `docs/remote-operator.md:838` calls it single-use.
* A deletion that failed, or that the view was left during, can leave "deleting" on
  file; the next view shows it and refuses every key on that row
  (`DeletingIsUnderWay`, `inherited`).

`QueuedIsServed` is checked with a limit that is no smaller than the number of
tasks, and depends on it: a task that waits for its approval counts against the
limit in every tick, so with a smaller limit the tasks behind it are not served.
In the same run ticks are over all tasks: a scoped tick may be what takes every
turn of the lock, and nothing is assumed of who asks for one.

### 3.1 Bounds

* Ledger: three records, two clock steps and a lifetime of one step let a record
  be asked for, expire and be asked for again while another is approved. Three
  keys give one of each class; `ledger_overlap` has two commands, which is what
  every interleaving hazard found so far needs. `LedgerView` leaves the audit
  log and two histories out of the fingerprint in runs whose properties do not
  mention them; no action reads them. `TickView` does the same for `released` and
  `stopped` in `tick_faults` and `tick_crash`.
* Tick: two tasks (in `tick_faults` one that launches and one whose command cannot
  start, in `tick_twice` one that launches and one with a remote runner) and two
  runs, which cover one task run twice and two tasks run once. `Room` keeps a task from being queued when no
  run is left for it, so the bound never blocks a serial tick; with errors and
  crashes a task can need more runs than that, and those runs switch the
  deadlock check off. `Commands` limits the commands an instance gives:
  `tick_faults` uses enqueue, ok and deny only, since cooldowns at every step
  multiply the states. Scoped ticks are in `tick_faults` (`ScopedTask`), where
  their shared load and save meet cooldowns and error returns.
* Learning: one task, one denial, one recovery row and one launch give one event
  of each kind and a failure with and without a launch before it; two disturbed
  scans are enough for a failed scan to be followed by an overlapping one, in
  either order. Rows of several tasks do not meet: each has its own key, which is
  what `TypeOK` (ids of rows) and the theorems establish for every number of them.

* Sessions: two sessions, one group, two requests under way (`session_serial`), so
  that one is created while another is deleted, a group is emptied while it is
  joined, and a cancelled creation overlaps the next; three sessions and three
  requests, and no faults, in `session_wrong_row`. The deadlock check is off: ids
  run out. `ListView` leaves out what a dialog was opened on, which only
  `DeletesWhatItNamed` reads. With `Overlap` on (a command beside the view)
  `ScreenIsFile` and `NoOrphans` fail at once: the view's next save undoes the
  command.
* Wiki: two operators, one claim, one entry and one candidate on file, two entries,
  three commands, one death, one acknowledgement. The projection takes one entry, so
  that an edit changes what is selected. Only "broad" acknowledgements are given: for
  a run's own query the property holds because hash and projection are of the same
  query. The properties read different parts of the state, and the constraint
  `OneOfThree` lets a behaviour go into one of three. `Fates`: explicit claims, new
  candidates and deaths; no decisions, no acknowledgements and no horizon that is
  reached, which `OneFate` and `AuditIsTrue` do not read. `Projecting`: explicit
  claims, acknowledgements; two commands that overlap, or three of which at most one
  is under way when the third has begun; no decisions, and candidates only promoted.
  `Reviewing`: an entry that was inferred and has no evidence, two decisions, and a
  candidate that is recorded up to three times, as explicit or inferred, so that it
  is recorded again after a decision to promote it; no deaths, rejections or
  acknowledgements. A promotion that is under way is what gives the review an entry
  without an audit line. Of the exceptions of `HiddenWasSeen` all are reached but
  the one for a duplicate whose own change was overtaken: that takes a third entry,
  and only the theorem has it. The operators are symmetric.
* Listener: three updates, one death, one repair. An ask, its confirm and one more
  confirm are the shortest way to do something twice; a death between the effect
  and the state file followed by a repair needs no more.

### 3.2 Fairness

`FairSpec` assumes weak fairness of `TickBegin` over all tasks (the timer) and
of the steps of a tick that has begun (the process runs on). Nothing is assumed
of the operator, the workers, the expiry of records or the providers.
`QueuedIsServed` is conditional on the pause being off from some point on.

In `LearningSignals` it is weak fairness of the tick's `ScanBegin` (every tick
scans, and the timer's ticks come again) and of the steps of each scan that has
begun. Scans may fail only `MaxDisturbed` times: `Learned` says that an event
that stays is learned once scans stop failing, not that it is learned if all do.

In `SessionList` it is weak fairness of the creation thread (`Build`) and of the
loop's look at its channel (the three actions together): the thread is a loop over
its requests, and `App::run` looks again whenever fifty milliseconds pass without
input. Nothing is assumed of the user, the deletion thread or the commands.

In `RemoteOperator` it is weak fairness of the poll's steps and of a compaction
that has begun, and strong fairness of three things that come again and again:
`Start` (the service manager restarts the listener, however often it is taken down
for a repair), a send that Telegram takes, and a fetch that does not fail.
`Answered` excepts what the code leaves to the operator: an update that was
started and of which nothing proves how far it came, and a poll that is stuck.

### 3.3 Mutants

Every property of a passing run has a mutant: a definition of the code changed
the way a plausible bug would, next to the original and marked `Mutant`.

## 4. Proofs

Every invariant, every action property and the refinement that a passing run
checks is also a theorem, for every value of the constants, where a run that fixes
a mode (commands beside the tick, crashes, ...) has a theorem that assumes the same
mode:

| theorems about | assume | as in |
|---|---|---|
| `TypeOK` of every module; `OneOpenRequest`, `UseNeedsApproval`; `CursorBacked`, `RepeatsExplained`; `NoFalseLoss`, `TicketHasProbe`; all of `AdaptiveWiki` and of `RemoteOperator` | nothing: all modes, overlap and crashes included | all runs |
| `GrantUsedOnce`, `DenialHolds`, `AuditComplete`, `NothingUndone`, `ImplementsPerKey` | `Serial == ~Overlap /\ ~Crashes` | `ledger_serial` |
| `NoLaunchWhilePaused`, `ScopeRespected`, `CancelHolds`, `ResumeRecorded` | `Alone == ~Overlap` | `tick_serial`, `tick_faults`, `tick_crash` |
| `CreditHolds` | `Steady == ~Overlap /\ ~Crashes` | `tick_serial`, `tick_faults` |
| `Supervised`, `OneLiveRun` | `Handled`: `Steady`, and no task's dispatch ends in an error | `tick_serial` |
| `ScreenIsFile`, `NoOrphans`, `DeletingIsUnderWay` | `Alone == ~Overlap` | `session_serial` |

The modes are constants that the code's environment chooses, not restrictions of
the code; where a theorem needs one, a run or section 3 says what happens without
it (`ledger_lost_denial` for `Serial`, `tick_twice` for `Handled`, the list in
section 3 for the others). Apart from the modes the theorems assume only the named
assumptions of the modules: the key classes partition the keys, the bounds are
natural numbers, the group paths are a sequence without the empty one.

### 4.1 The ledger

`ApprovalLedgerProofs`, with `Overlap` and `Crashes` on or off:

* `TypeCorrect`: `Spec => []TypeOK`. The types alone are inductive; that nothing is
  ahead of the present is proved on top of them: a record is dated by the clock of the
  command that asks (`RecordsPast`), and clocks and files only move to the present
  (`DatesStep`);
* `OneOpenAlways`: `Spec => []OneOpenRequest`. It is not inductive alone: a
  session evaluates at the time it began, and a record that is open then may be
  due now. The invariant adds that every command's clock is in the past
  (`ClocksPast`); rewriting a file only *tightens* it (an open record stays as it
  is or closes) or adds one record for a key that has none open, and time only
  closes records (`TightensKeepsOne`, `TimeKeepsOne`, `OneAsked`);
* `UseNeedsApprovalAlways`: `Spec => []UseNeedsApproval`, from `Backed`: every
  approved record, in the file and in every copy, is one an operator approved,
  and so is every record that was used. Copies overwrite one another, but each
  came from the file.

`LedgerSerialProofs`, under `Serial`. `GrantUsedOnce` and the rest say what is true
of the file, but what a session does is visible in the file only after its flush,
so they are not inductive. The invariant `SerialInv` says:

* at most one command is busy, and its clock is the present (`OneBusy`);
* one predicate, `Settled`, of a copy of the ledger and a log: used records are
  closed and used once, every answer has its line, what was refused is what is
  denied, and nothing refused is open or ran. It holds of file and audit log when
  no session is open, and of a session's copy with the log plus its queue when one
  is;
* a session's copy is the file moved on by what its queue says (`DraftOf`), and what
  its flush will spend is closed in the copy and was never spent (`Unspent`).

A step changes the pair in one of seven ways (records expire; one is asked for, granted,
denied, consumed or reopened; an action runs), and a lemma for each shows that it stays
`Settled` (`DueSettled`, `AskedSettled`, ...).

`ImplementsPerKeyAlways` is the refinement, step by step: `AnswerIn` reads a key's
answer off a copy; lemmas say what each of the seven ways does to the answers of
its key and that it leaves the other keys' alone; then each action of a session
(`SessionSimulates`), of a gate (`GateSimulates`) and of the operator
(`OperatorSimulates`) is an action of `LedgerPerKey` or changes no answer, and the
clock is its `Lapse`.

### 4.2 The tick

`OffdeskTickProofs` proves in four layers.

* `Base` holds in every mode. A probe is written before a task points at its ticket
  (`Launching`, `Tickets`), so a ticket that is found has a probe, in the stores and
  in the tick's copies (`TicketHasProbeAlways`). A run that is called lost, in the
  store, in the loaded copy or among the outcomes, is one whose process is gone and
  that left no result (`LostGone`, `PollTrue`), because the process is looked for
  before the result (`NoFalseLossAlways`). `TypeCorrect` rests on the same
  invariant: the count of dispatches stays below the position in the loop.
* `Alone`: the copies are still true when they are written. The pause that was read
  is the pause on file (`PauseRead`), tasks out of scope are copied as they are
  (`ScopeCopied`), a cancelled task is cancelled in the copy (`StopsCopied`), a row
  that waits for recovery has its resume row or a result (`RowsCopied`). This gives
  `NoLaunchWhilePaused`, `ScopeRespected`, `CancelHolds` and `ResumeRecorded`,
  with deaths at any place: a tick that dies leaves the files it had written, and
  each of these clauses is about file and copy separately.
* `Steady`: an approval in the ledger, or in the session's copy while one is open, is
  backed by a credit that is not used up (`Credits`). A death between the launch and
  the flush breaks it, as section 3 says.
* `Handled`: every live run that was not released is the one its task names, or the
  one that was just launched and is about to be recorded (`Watched`). From it follow
  `SupervisedAlways` and `OneLiveRunAlways`. `Watched` needs that the tick never
  ends in an error: that is where `tick_twice` finds its second worker.

### 4.3 Learning signals

`LearningSignalsProofs`, for every number of tasks, denials, rows, launches and
disturbed scans, with `Overlap` on or off:

* `TypeCorrect`: `Spec => []TypeOK`, which includes that every recovery row's id
  is below the next one to be given, so that a new row's id is its own;
* `CursorBackedAlways`: `Spec => []CursorBacked`. A scan adds a key to its copy
  of the cursor in the step that counts it, and the file is only ever replaced by
  such a copy;
* `RepeatsExplainedAlways`: `Spec => []RepeatsExplained`. The bound on counts is
  a budget, per key. A scan under way *may count* the key once if its cursor does
  not have it; a scan that has emitted and has the key in its cursor *will save*
  it. The invariant: the count plus what the two scans may count is at most one
  more than `disturbed`; and if the cursor on file does not have the key and no
  scan will save it, the count is at most `disturbed`, which leaves room for the
  next scan. A scan that overlaps another or fails adds to `disturbed` what it
  adds to the left-hand side.

### 4.4 The session list

`SessionListProofs` first says what the operators on lists do (`ThoseRows`,
`SetStatusFacts`, `KnownAsFacts`, `FlatType`, ...), then reduces the actions to
kinds of change: the view's list with one row more, one less or other groups
(`Reshaped`), rows marked for deletion (`Marked`), a command's save (`CliSaved`). A
step is of one of 22 kinds (`NextKinds`), and the invariants are taken through the
kinds.

* `Base`, with commands beside the view as well: no list has an id twice (`Once`),
  every id is below the next one (`Fresh`), and what is being made has no row and no
  deletion request (`Apart`). `Apart` is what makes the row that a creation result
  adds a new one; without it `TypeOK`'s "as many ids as rows" is not inductive.
* `Mirror` (`Alone`): the files and the view have the same sessions and groups row by
  row, and a command under way has the files as its copy. It gives `ScreenIsFile`.
* `Owned` (`Alone`): a resource belongs to a row on file, another profile, a result or
  the history `adrift`; a session that is still being built has none, nor has one
  whose build failed or whose removal succeeded. The last three are what
  `NoOrphans` lacks: a result may be dropped because nothing is there to remove.
* `Underway` (`Alone`): rows that say deleting are asked for or answered; a reload
  keeps the view's status, and by `Mirror` it finds no row the view does not have.

Recursive functions (`Those`, `Listed`, `Flat`) need induction, which the library
states with operator parameters. `Climb` does it with a set instead: a subset of
`0..m` that has 0 and with each number the next has `m`, by the pigeonhole
principle. `RecursiveExists` then shows that such functions exist, so that what
their equations say of them can be used.

### 4.5 The wiki

`AdaptiveWikiProofs`, for every number of claims, operators, candidates, entries and
commands that die anywhere. `WInv` has, besides the types of files and commands:

* `Fates`: of the entries made from a candidate, the row that waits and its
  rejections, exactly one set has one member and the others none. The half-written
  promotion, an entry whose candidate is still on file, is excepted by history;
* `Noting`: a change is in the log, was cut short, or belongs to a command that is
  about to write its line;
* `Shown`: an acknowledgement keeps what was shown when it was given.

They give `OneFate`, `AuditIsTrue` and `LeavesOutWhatWasShown`. `HiddenWasSeen` needs
a second invariant, `Saw`: no two commands have the same time and none has one yet to
come (`Timely`), so that of the decisions on a proposal one is the last; and whoever
looked, and decided or is about to, at a time not before a subject's last change saw
it as it is, unless that change came from a command others had overtaken
(`SawCandidate`, `SawEntry`, `SawDuplicates`), and saw the ground to renew it that it
has now, unless its horizon was reached since (`SawRenewal`). `LaterThanViews` is the
reason: a change that leaves no mark is later than every look.

### 4.6 The Telegram listener

`RemoteOperatorProofs`, for every number of updates, deaths and repairs. `IInv` says at
every place of the poll how far journal and outbox say its update came
(`RowsOfUpdate`), that the copy of the state is the file except between handler and
save (`CopyIsFile`), and that the update under way is the first allowed one from the
offset on (`OwnUpdate`). Then: an update that can still be begun has had no effect it
was not authorised for (`RanBelow`), which with the offset that never goes back gives
`EffectOnce` although compaction removes rows; the pending confirmation is older than
every update that can confirm it (`PendingAsk`, `DoneBelow`), which gives
`ConfirmedOnce`; what is below the offset is settled, which gives `NoneSkipped`; and
rows contradict each other in two ways only (`StuckRows`), which gives
`StuckExplained`.

### 4.7 Only model-checked

* Liveness under fairness, which the prover does not reach: `ResultIsSeen`,
  `QueuedIsServed`, `Learned`, `SpinnerEnds`, `Answered`.
* What the runs that expect a violation show: there is nothing to prove, and
  `OneLiveRun` is proved where it holds. `DeletesWhatItNamed` fails in every mode in
  which the list can change behind a dialog.

## 5. Plan

Every module of the first plan is written, checked and proved as far as the prover
goes. What could be added:

1. *More of the system*: probes polled in two steps by several commands at once and
   remote runners; the capacity records of providers; closeout, decision and mutation
   receipts as protocols over append-only files; the trust decision on repository
   hooks.
2. *Between the modules*: `OffdeskTick` has, per task and action, the answer that
   covers its request, and relies on `OneOpenRequest` for that. A mapping of its
   `ledger` to `LedgerPerKey` would state the connection as a refinement.
3. *Weaker modes*: which of the serial tick's promises hold with commands that write
   only one store.

## 6. Not modelled

* Hazards known and not covered: `ok` and `deny` expire records without an audit
  line (`approval.rs:735`); `poll` saves the probes it loaded (`runner.rs:301`); the
  ledger is flushed before the tasks are saved, which can use up a fallback approval
  whose retargeting is lost (`control_loop.rs:225`); stores are rewritten in place
  with `fs::write` (`task_queue.rs:1186`); a recycled process number keeps a dead run
  alive (`runner.rs:671`); a cancelled creation's flag is reset by the next request
  (`tui/home/mod.rs:687`); a repository that cannot be opened makes a deletion count
  as done (`deletion_poller.rs:86`); `add --worktree` creates the worktree before it
  can bail out (`cli/add.rs:117`); `runtime_projection` reads the entries twice
  (`adaptive_wiki.rs:1964`); `--once` takes no listener lock.
* Read-only work: redaction, rendering, the workstation and review surfaces, ondesk
  and project exports, orchestration summaries, mode contracts, remote session
  contracts, packet validation. They compute documents from files and change none
  that others act on, which is also why most of the source has no action here.
* Calls to git, tmux, docker and the network: their outcomes are choices.
* Closeout, plan registry, decision ledger, mutation snapshots: append-only records
  written by one command at a time and validated when read.
* Configuration merging, migrations, the update check, the website.
