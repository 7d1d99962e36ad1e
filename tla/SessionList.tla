----------------------------- MODULE SessionList -----------------------------
(***************************************************************************)
(* The session list of a profile: sessions.json and groups.json, the home  *)
(* view that shows them and works on a copy, its creation and deletion     *)
(* threads, and the commands that rewrite the same files.                  *)
(*                                                                         *)
(* The view's event loop is one thread: a key, or one look at each of the  *)
(* result channels, is one step.  A thread takes its requests in order and *)
(* answers each.  `resources' is what a session has outside the files, its *)
(* worktree and its tmux session, for as long as the program means to      *)
(* clean it up: what a user chose to keep, and what a cleanup could not    *)
(* remove and only warned of, is no longer counted.                        *)
(***************************************************************************)
EXTENDS Naturals, Sequences, FiniteSets, SequencesExt

CONSTANTS
  MaxSessions,   \* bound: sessions ever created
  GroupOrder,    \* group paths, in the order of their names
  NoGroup,       \* the empty group path
  Existing,      \* sessions on file at the start
  MaxRequests,   \* bound: deletions under way
  Overlap,       \* commands run while the view is up
  Faults         \* a move between profiles may fail half way

Group == ToSet(GroupOrder)
ASSUME GroupAssumption == GroupOrder \in Seq(Group) /\ NoGroup \notin Group
ASSUME BoundAssumption ==
  /\ MaxSessions \in Nat /\ MaxRequests \in Nat
  /\ Existing \in 0..MaxSessions
ASSUME ModeAssumption == Overlap \in BOOLEAN /\ Faults \in BOOLEAN

Id == 1..MaxSessions
Place == Group \cup {NoGroup}

VARIABLES
  file,       \* sessions.json and groups.json
  moved,      \* sessions on file in another profile
  up,         \* the view is running on this profile
  rows,       \* its instances
  groups,     \* its groups, as of the last reload
  cursor,     \* its position in the flattened list
  selected,   \* what update_selected last found there
  dialog,     \* the open dialog and what was selected when it was opened
  building,   \* creation requests the thread has not answered
  built,      \* creation results the view has not read
  pending,    \* CreationPoller.pending
  cancelled,  \* creation_cancelled
  removing,   \* deletion requests the thread has not answered
  removed,    \* deletion results the view has not read
  resources,  \* sessions whose worktree or tmux session exists
  next,       \* the next session id
  cli,        \* the copy a command has loaded, if one is under way
  adrift,     \* history: made but unread when the view was left, or half moved
  inherited   \* history: on file as deleting when the view was entered

disk == <<file, moved>>
view == <<up, rows, groups, cursor, selected, inherited>>
making == <<building, built, pending, cancelled>>
deleting == <<removing, removed>>
world == <<resources, next, adrift>>
vars == <<disk, view, dialog, making, deleting, world, cli>>

-----------------------------------------------------------------------------
(* The files and the flattened list.                                       *)

Row(id, group, status) == [id |-> id, group |-> group, status |-> status]
RowType == [id : Id, group : Place, status : {"idle", "deleting", "error"}]

Ids(list) == {list[i].id : i \in DOMAIN list}
RowOf(list, id) == CHOOSE r \in ToSet(list) : r.id = id
In(list, group) == {id \in Ids(list) : RowOf(list, id).group = group}
\* The rows of the sessions in S, in their order.
Those(list, S) ==
  LET upTo[n \in 0..Len(list)] ==
        IF n = 0 THEN <<>>
        ELSE IF list[n].id \in S THEN Append(upTo[n - 1], list[n]) ELSE upTo[n - 1]
  IN  upTo[Len(list)]
Without(list, id) == Those(list, Ids(list) \ {id})
SetStatus(list, S, status) ==
  [i \in DOMAIN list |->
     IF list[i].id \in S THEN [list[i] EXCEPT !.status = status] ELSE list[i]]
SetGroup(list, S, group) ==
  [i \in DOMAIN list |->
     IF list[i].id \in S THEN [list[i] EXCEPT !.group = group] ELSE list[i]]

\* GroupTree::new_with_groups: the groups given and those of the rows.
TreeOf(list, known) == (known \cup {list[i].group : i \in DOMAIN list}) \ {NoGroup}

Saved(list, tree) == [rows |-> list, groups |-> tree]

\* flatten_tree: the ungrouped sessions, then each group and its sessions.
Item(kind, x) == [kind |-> kind, of |-> x]
SessionItem(id) == Item("session", id)
GroupItem(g) == Item("group", g)
Nothing == Item("none", NoGroup)

Listed(list, group) ==
  LET upTo[n \in 0..Len(list)] ==
        IF n = 0 THEN <<>>
        ELSE IF list[n].group = group THEN Append(upTo[n - 1], SessionItem(list[n].id))
        ELSE upTo[n - 1]
  IN  upTo[Len(list)]
Flat(list, tree) ==
  LET upTo[n \in 0..Len(GroupOrder)] ==
        IF n = 0 THEN Listed(list, NoGroup)
        ELSE IF GroupOrder[n] \notin tree THEN upTo[n - 1]
        ELSE upTo[n - 1] \o <<GroupItem(GroupOrder[n])>> \o Listed(list, GroupOrder[n])
  IN  upTo[Len(GroupOrder)]

Clamp(c, items) == IF c > Len(items) /\ items # <<>> THEN Len(items) ELSE c
\* update_selected; an index past the end leaves the selection as it was.
At(items, c, before) == IF c \in DOMAIN items THEN items[c] ELSE before

\* HomeView::reload of files that hold f: rows the view has (mine) keep their
\* status, rows new to it take the file's.  A session to attach to is selected.
KnownAs(mine, list) ==
  [i \in DOMAIN list |->
     IF list[i].id \in Ids(mine)
     THEN [list[i] EXCEPT !.status = RowOf(mine, list[i].id).status] ELSE list[i]]
ReloadedOn(f, mine, target, before) ==
  LET list  == KnownAs(mine, f.rows)
      items == Flat(list, TreeOf(list, f.groups))
      c     == IF target \in ToSet(items)
               THEN CHOOSE i \in DOMAIN items : items[i] = target
               ELSE Clamp(cursor, items)
  IN  /\ rows' = list
      /\ groups' = f.groups
      /\ cursor' = c
      /\ selected' = At(items, c, before)
      /\ UNCHANGED <<up, inherited>>
Reloaded(f, mine) == ReloadedOn(f, mine, Nothing, selected)

\* save_with_groups of the view's rows, then reload.
SaveAndReload(list, tree, target) ==
  /\ file' = Saved(list, tree)
  /\ ReloadedOn(Saved(list, tree), list, target, selected)

-----------------------------------------------------------------------------
InitialRows == [i \in 1..Existing |-> Row(i, NoGroup, "idle")]
Init ==
  /\ file = Saved(InitialRows, {})
  /\ moved = {}
  /\ up = FALSE /\ rows = <<>> /\ groups = {} /\ cursor = 1 /\ selected = Nothing
  /\ inherited = {}
  /\ dialog = [kind |-> "none", on |-> Nothing]
  /\ building = <<>> /\ built = <<>> /\ pending = FALSE /\ cancelled = FALSE
  /\ removing = <<>> /\ removed = <<>>
  /\ resources = 1..Existing /\ next = Existing + 1
  /\ cli = <<>>
  /\ adrift = {}

Close == dialog' = [kind |-> "none", on |-> Nothing]
Open(kind) == dialog' = [kind |-> kind, on |-> selected]
OpenPlain(kind) == dialog' = [kind |-> kind, on |-> Nothing]
InDialog(kinds) == up /\ dialog.kind \in kinds
Listening == InDialog({"none"})

\* HomeView::new, on entering the program or switching to the profile.
Enter ==
  /\ ~up /\ (Overlap \/ cli = <<>>)
  /\ LET items == Flat(file.rows, TreeOf(file.rows, file.groups)) IN
       selected' = At(items, 1, Nothing)
  /\ up' = TRUE /\ rows' = file.rows /\ groups' = file.groups /\ cursor' = 1
  /\ inherited' = {id \in Ids(file.rows) : RowOf(file.rows, id).status = "deleting"}
  /\ UNCHANGED <<disk, dialog, making, deleting, world, cli>>

\* Quitting or switching the profile drops the view and its channels.  The
\* threads may still do, or be stopped before, what they were asked.
InFlight(queue) == {queue[i].id : i \in DOMAIN queue}
Leave ==
  /\ Listening
  /\ up' = FALSE /\ rows' = <<>> /\ groups' = {} /\ cursor' = 1 /\ selected' = Nothing
  /\ inherited' = {}
  /\ building' = <<>> /\ built' = <<>> /\ pending' = FALSE /\ cancelled' = FALSE
  /\ removing' = <<>> /\ removed' = <<>>
  /\ \E made \in SUBSET InFlight(building), gone \in SUBSET InFlight(removing) :
       /\ resources' = (resources \cup made) \ gone
       /\ adrift' = adrift \cup made \cup (InFlight(built) \cap resources)
  /\ UNCHANGED <<disk, dialog, next, cli>>

MoveCursor ==
  /\ Listening
  /\ LET items == Flat(rows, TreeOf(rows, groups)) IN
       \E c \in DOMAIN items : cursor' = c /\ selected' = items[c]
  /\ UNCHANGED <<disk, up, rows, groups, inherited, dialog, making, deleting, world, cli>>

\* The five-second refresh.
Reload ==
  /\ up
  /\ Reloaded(file, rows)
  /\ UNCHANGED <<disk, dialog, making, deleting, world, cli>>

\* toggle_group_collapsed and start_terminal: the view's list is saved as is.
SaveList ==
  /\ Listening
  /\ file' = Saved(rows, TreeOf(rows, groups))
  /\ UNCHANGED <<moved, view, dialog, making, deleting, world, cli>>

Dismiss ==
  /\ InDialog({"delete", "group", "deleteGroup", "rename"})
  /\ Close
  /\ UNCHANGED <<disk, view, making, deleting, world, cli>>

-----------------------------------------------------------------------------
(* Creation.                                                               *)

OpenNew ==
  /\ Listening /\ OpenPlain("new")
  /\ UNCHANGED <<disk, view, making, deleting, world, cli>>

\* create_session: no hooks, so at once, and then attach.
CreateNow(g) ==
  /\ InDialog({"new"}) /\ next <= MaxSessions
  /\ LET list == Append(rows, Row(next, g, "idle")) IN
       SaveAndReload(list, TreeOf(list, groups), SessionItem(next))
  /\ Close
  /\ resources' = resources \cup {next} /\ next' = next + 1
  /\ UNCHANGED <<moved, making, deleting, adrift, cli>>

\* request_creation: hooks may be slow, so by the thread.
RequestCreation(g) ==
  /\ InDialog({"new"}) /\ next <= MaxSessions
  /\ building' = Append(building, [id |-> next, group |-> g])
  /\ pending' = TRUE /\ cancelled' = FALSE
  /\ OpenPlain("loading")
  /\ next' = next + 1
  /\ UNCHANGED <<disk, view, built, deleting, resources, adrift, cli>>

\* Esc: cancel_creation when a creation is pending, this dialog's or not.
CancelNew ==
  /\ InDialog({"new", "loading"})
  /\ Close
  /\ cancelled' = (cancelled \/ pending)
  /\ UNCHANGED <<disk, view, building, built, pending, deleting, world, cli>>

\* The thread: build_instance and the hooks, which clean up when they fail.
Build ==
  /\ building # <<>>
  /\ building' = Tail(building)
  /\ \E ok \in BOOLEAN :
       /\ built' = Append(built, [id |-> Head(building).id, group |-> Head(building).group,
                                  ok |-> ok])
       /\ resources' = IF ok THEN resources \cup {Head(building).id} ELSE resources
  /\ UNCHANGED <<disk, view, dialog, pending, cancelled, deleting, next, adrift, cli>>

\* Mutant: a cancelled creation is dropped without cleanup_instance.
ApplyCancelled_NoCleanup ==
  /\ up /\ built # <<>> /\ cancelled
  /\ built' = Tail(built) /\ pending' = FALSE /\ cancelled' = FALSE
  /\ UNCHANGED <<disk, view, dialog, building, deleting, world, cli>>

\* apply_creation_results when the user cancelled: whichever result is first.
ApplyCancelled ==
  /\ up /\ built # <<>> /\ cancelled
  /\ built' = Tail(built) /\ pending' = FALSE /\ cancelled' = FALSE
  /\ resources' = IF Head(built).ok THEN resources \ {Head(built).id} ELSE resources
  /\ UNCHANGED <<disk, view, dialog, building, deleting, next, adrift, cli>>

\* Mutant: the group of the new session is created in the view only.
ApplyCreated_GroupNotSaved ==
  /\ up /\ built # <<>> /\ ~cancelled /\ Head(built).ok
  /\ built' = Tail(built) /\ pending' = FALSE
  /\ LET b == Head(built)
         list == Append(rows, Row(b.id, b.group, "idle"))
     IN  SaveAndReload(list, groups, SessionItem(b.id))
  /\ IF dialog.kind \in {"new", "loading"} THEN Close ELSE UNCHANGED dialog
  /\ UNCHANGED <<moved, building, cancelled, deleting, world, cli>>

\* Mutant: the result is read and stays in the channel.
ApplyCreated_Peeked ==
  /\ up /\ built # <<>> /\ ~cancelled /\ Head(built).ok
  /\ pending' = FALSE
  /\ LET b == Head(built)
         list == Append(rows, Row(b.id, b.group, "idle"))
     IN  SaveAndReload(list, TreeOf(list, groups), SessionItem(b.id))
  /\ IF dialog.kind \in {"new", "loading"} THEN Close ELSE UNCHANGED dialog
  /\ UNCHANGED <<moved, building, built, cancelled, deleting, world, cli>>

\* ... a session: saved, reloaded and attached to; ...
ApplyCreated ==
  /\ up /\ built # <<>> /\ ~cancelled /\ Head(built).ok
  /\ built' = Tail(built) /\ pending' = FALSE
  /\ LET b == Head(built)
         list == Append(rows, Row(b.id, b.group, "idle"))
     IN  SaveAndReload(list, TreeOf(list, groups), SessionItem(b.id))
  /\ IF dialog.kind \in {"new", "loading"} THEN Close ELSE UNCHANGED dialog
  /\ UNCHANGED <<moved, building, cancelled, deleting, world, cli>>

\* Mutant: the error is shown but the dialog is still loading.
ApplyBuildError_StillLoading ==
  /\ up /\ built # <<>> /\ ~cancelled /\ ~Head(built).ok
  /\ built' = Tail(built) /\ pending' = FALSE
  /\ UNCHANGED <<disk, view, dialog, building, cancelled, deleting, world, cli>>

\* ... or an error for the dialog to show.
ApplyBuildError ==
  /\ up /\ built # <<>> /\ ~cancelled /\ ~Head(built).ok
  /\ built' = Tail(built) /\ pending' = FALSE
  /\ dialog' = IF dialog.kind = "loading" THEN [dialog EXCEPT !.kind = "new"] ELSE dialog
  /\ UNCHANGED <<disk, view, building, cancelled, deleting, world, cli>>

-----------------------------------------------------------------------------
(* Deletion.                                                               *)

\* The d key: which dialog opens depends on what is selected.
OpenDelete ==
  /\ Listening
  /\ \/ /\ selected.kind = "session"
        /\ selected.of \in Ids(rows) => RowOf(rows, selected.of).status # "deleting"
        /\ Open("delete")
     \/ /\ selected.kind = "group"
        /\ Open(IF In(rows, selected.of) # {} THEN "group" ELSE "deleteGroup")
  /\ UNCHANGED <<disk, view, making, deleting, world, cli>>

Asked(list, g) == [i \in DOMAIN list |-> [id |-> list[i].id, group |-> g]]

\* delete_selected: of what is selected now, not when the dialog was opened.
Room(n) == Len(removing \o removed) + n <= MaxRequests
SubmitDelete ==
  /\ InDialog({"delete"}) /\ Room(1) /\ Close
  /\ IF selected.kind = "session" /\ selected.of \in Ids(rows)
     THEN /\ rows' = SetStatus(rows, {selected.of}, "deleting")
          /\ removing' = Append(removing, [id |-> selected.of, group |-> NoGroup])
     ELSE UNCHANGED <<rows, removing>>
  /\ UNCHANGED <<disk, up, groups, cursor, selected, inherited, making, removed, world, cli>>

\* delete_group_with_sessions: a request for each session of the group, also
\* for one that is being deleted already.
SubmitGroupAndSessions ==
  /\ InDialog({"group"}) /\ Room(Len(rows)) /\ Close
  /\ IF selected.kind = "group"
     THEN LET g == selected.of IN
              /\ rows' = SetStatus(rows, In(rows, g), "deleting")
              /\ removing' = removing \o Asked(Those(rows, In(rows, g)), g)
              /\ selected' = Nothing
     ELSE UNCHANGED <<rows, removing, selected>>
  /\ UNCHANGED <<disk, up, groups, cursor, inherited, making, removed, world, cli>>

\* delete_selected_group: its sessions are moved out of it.
SubmitGroup ==
  /\ InDialog({"group", "deleteGroup"}) /\ Close
  /\ IF selected.kind = "group"
     THEN LET list == SetGroup(rows, In(rows, selected.of), NoGroup) IN
            SaveAndReload(list, TreeOf(list, groups) \ {selected.of}, Nothing)
     ELSE UNCHANGED <<file, view>>
  /\ UNCHANGED <<moved, making, deleting, world, cli>>

\* perform_deletion: a worktree, branch or container that it cannot remove
\* makes it a failure.
RunRemoval ==
  /\ removing # <<>>
  /\ removing' = Tail(removing)
  /\ \E ok \in BOOLEAN :
       /\ removed' = Append(removed, [id |-> Head(removing).id,
                                      group |-> Head(removing).group, ok |-> ok])
       /\ resources' = IF ok THEN resources \ {Head(removing).id} ELSE resources
  /\ UNCHANGED <<disk, view, dialog, making, next, adrift, cli>>

\* apply_deletion_results: the row goes, and the group of a group deletion
\* when no session is left in it; ...
ApplyRemoved ==
  /\ up /\ removed # <<>> /\ Head(removed).ok
  /\ removed' = Tail(removed)
  /\ LET list == Without(rows, Head(removed).id)
         g == Head(removed).group
         tree == TreeOf(list, groups)
     IN  SaveAndReload(list, IF In(list, g) = {} THEN tree \ {g} ELSE tree, Nothing)
  /\ UNCHANGED <<moved, dialog, making, removing, world, cli>>

\* Mutant: a failed deletion leaves its row as it is.
ApplyRemoveError_Silent ==
  /\ up /\ removed # <<>> /\ ~Head(removed).ok
  /\ removed' = Tail(removed)
  /\ UNCHANGED <<disk, view, dialog, making, removing, world, cli>>

\* ... a failure keeps the row and shows the error.
ApplyRemoveError ==
  /\ up /\ removed # <<>> /\ ~Head(removed).ok
  /\ removed' = Tail(removed)
  /\ rows' = SetStatus(rows, {Head(removed).id}, "error")
  /\ UNCHANGED <<disk, up, groups, cursor, selected, inherited, dialog, making, removing, world,
                 cli>>

-----------------------------------------------------------------------------
(* Renaming: another group, or another profile.                            *)

OpenRename ==
  /\ Listening /\ selected.kind = "session" /\ selected.of \in Ids(rows)
  /\ RowOf(rows, selected.of).status # "deleting"
  /\ Open("rename")
  /\ UNCHANGED <<disk, view, making, deleting, world, cli>>

Regroup(g) ==
  /\ InDialog({"rename"}) /\ Close
  /\ IF selected.kind = "session"
     THEN LET list == SetGroup(rows, {selected.of}, g) IN
            SaveAndReload(list, (TreeOf(list, groups) \cup {g}) \ {NoGroup}, Nothing)
     ELSE UNCHANGED <<file, view>>
  /\ UNCHANGED <<moved, making, deleting, world, cli>>

\* The source profile is saved without the row, then the target with it; the
\* second part may fail.
MoveAway(done) ==
  /\ InDialog({"rename"}) /\ Close
  /\ selected.kind = "session" /\ selected.of \in Ids(rows)
  /\ done \/ Faults
  /\ LET list == Without(rows, selected.of)
         tree == TreeOf(list, groups)
     IN  IF done
         THEN /\ file' = Saved(list, tree)
              /\ ReloadedOn(Saved(list, tree), list, Nothing, Nothing)
              /\ moved' = moved \cup {selected.of}
              /\ UNCHANGED adrift
         ELSE /\ file' = Saved(list, tree)
              /\ rows' = list
              /\ adrift' = adrift \cup {selected.of}
              /\ UNCHANGED <<moved, up, groups, cursor, selected, inherited>>
  /\ UNCHANGED <<making, deleting, resources, next, cli>>

-----------------------------------------------------------------------------
(* Commands: load, and later save what was loaded with one change.  add runs *)
(* hooks in between, remove waits for an answer.                            *)

CliLoad ==
  /\ cli = <<>> /\ (Overlap \/ ~up)
  /\ cli' = <<file>>
  /\ UNCHANGED <<disk, view, dialog, making, deleting, world>>

CliSave(list, known) ==
  /\ cli # <<>>
  /\ file' = Saved(list, TreeOf(list, known))
  /\ cli' = <<>>
  /\ UNCHANGED <<moved, view, dialog, making, deleting, adrift>>

CliAdd(g) ==
  /\ cli # <<>> /\ next <= MaxSessions
  /\ CliSave(Append(cli[1].rows, Row(next, g, "idle")), cli[1].groups)
  /\ resources' = resources \cup {next} /\ next' = next + 1

\* A command may end without having saved: a bad name, a failed hook.
CliFail ==
  /\ cli # <<>> /\ cli' = <<>>
  /\ UNCHANGED <<disk, view, dialog, making, deleting, world>>

\* remove warns of what it cannot remove and drops the row all the same.
CliRemove(id) ==
  /\ cli # <<>> /\ id \in Ids(cli[1].rows)
  /\ CliSave(Without(cli[1].rows, id), cli[1].groups)
  /\ resources' = resources \ {id}
  /\ UNCHANGED next

\* group move and session rename.
CliMove(id, g) ==
  /\ cli # <<>> /\ id \in Ids(cli[1].rows)
  /\ CliSave(SetGroup(cli[1].rows, {id}, g), cli[1].groups)
  /\ UNCHANGED <<resources, next>>

CliCreateGroup(g) ==
  /\ cli # <<>> /\ g \notin TreeOf(cli[1].rows, cli[1].groups)
  /\ CliSave(cli[1].rows, cli[1].groups \cup {g})
  /\ UNCHANGED <<resources, next>>

\* group delete --force.
CliDeleteGroup(g) ==
  /\ cli # <<>> /\ g \in TreeOf(cli[1].rows, cli[1].groups)
  /\ CliSave(SetGroup(cli[1].rows, In(cli[1].rows, g), NoGroup), cli[1].groups \ {g})
  /\ UNCHANGED <<resources, next>>

-----------------------------------------------------------------------------
Keys ==
  \/ MoveCursor \/ SaveList \/ Dismiss \/ OpenNew \/ CancelNew
  \/ OpenDelete \/ SubmitDelete \/ SubmitGroupAndSessions \/ SubmitGroup \/ OpenRename
  \/ \E g \in Place : CreateNow(g) \/ RequestCreation(g) \/ Regroup(g)
  \/ \E done \in BOOLEAN : MoveAway(done)
Apply == ApplyCancelled \/ ApplyCreated \/ ApplyBuildError \/ ApplyRemoved \/ ApplyRemoveError
Threads == Build \/ RunRemoval
Cli ==
  \/ CliLoad \/ CliFail
  \/ \E g \in Place : CliAdd(g) \/ \E id \in Id : CliMove(id, g)
  \/ \E id \in Id : CliRemove(id)
  \/ \E g \in Group : CliCreateGroup(g) \/ CliDeleteGroup(g)

Next == Enter \/ Leave \/ Keys \/ Apply \/ Threads \/ Reload \/ Cli

Spec == Init /\ [][Next]_vars

\* The creation thread runs on, and the event loop looks at its channel
\* whenever no key is waiting: again and again unless the user never pauses.
FairSpec ==
  /\ Spec
  /\ WF_vars(Build)
  /\ WF_vars(ApplyCancelled \/ ApplyCreated \/ ApplyBuildError)

-----------------------------------------------------------------------------
Items == [kind : {"session"}, of : Id] \cup [kind : {"group"}, of : Group] \cup {Nothing}
Result == [id : Id, group : Place, ok : BOOLEAN]
Request == [id : Id, group : Place]
TypeOK ==
  /\ file.rows \in Seq(RowType) /\ file.groups \subseteq Group
  /\ rows \in Seq(RowType) /\ groups \subseteq Group
  /\ \A list \in {file.rows, rows} : Cardinality(Ids(list)) = Len(list)
  /\ moved \subseteq Id /\ adrift \subseteq Id /\ inherited \subseteq Id
  /\ up \in BOOLEAN /\ cursor \in Nat \ {0} /\ selected \in Items
  /\ dialog.kind \in {"none", "new", "loading", "delete", "group", "deleteGroup", "rename"}
  /\ dialog.on \in Items
  /\ building \in Seq(Request) /\ built \in Seq(Result)
  /\ removing \in Seq(Request) /\ removed \in Seq(Result)
  /\ pending \in BOOLEAN /\ cancelled \in BOOLEAN
  /\ resources \subseteq Id /\ next \in 1..(MaxSessions + 1)
  /\ \A i \in DOMAIN cli : cli[i].rows \in Seq(RowType) /\ cli[i].groups \subseteq Group

\* What the user sees is what the next start will show: without commands at
\* the same time, every key and every result leaves the files with the rows
\* and groups of the view.
ScreenIsFile ==
  up => /\ Ids(file.rows) = Ids(rows)
        /\ \A id \in Ids(rows) : RowOf(file.rows, id).group = RowOf(rows, id).group
        /\ file.groups = TreeOf(rows, groups)

\* A worktree or a tmux session always has someone who will remove it: a row,
\* a row of another profile, a request or a result; cancelled and failed
\* creations are cleaned up, a failed deletion and one cut short keep their
\* row.  Only what was made and not read when the view was left, or half
\* moved, is adrift.
NoOrphans ==
  resources \subseteq
    Ids(file.rows) \cup moved \cup InFlight(building \o built \o removing \o removed) \cup adrift

\* A row says deleting only while its deletion is under way: the keys refuse
\* to touch such a row.  The exception is a status an earlier run of the view
\* left on file: nobody answers for it.
DeletingIsUnderWay ==
  up => \A i \in DOMAIN rows :
    rows[i].status = "deleting" => rows[i].id \in InFlight(removing \o removed) \cup inherited

\* Whoever waits before a spinner is answered, also when the answer to an
\* earlier, cancelled request comes first.
SpinnerEnds == (dialog.kind = "loading") ~> (dialog.kind # "loading")

\* The threads are asked to delete only what the dialog named: the session it
\* was opened on, or the sessions of the group it was opened on, however the
\* list changed behind it.
Named(id) ==
  \/ dialog.on = SessionItem(id)
  \/ dialog.on.kind = "group" /\ id \in In(rows, dialog.on.of)
DeletesWhatItNamed ==
  [][\A id \in InFlight(removing') \ InFlight(removing) : Named(id)]_vars
=============================================================================
