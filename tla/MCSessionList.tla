--------------------------- MODULE MCSessionList ---------------------------
(* Small instances of SessionList.                                          *)
EXTENDS SessionList

CONSTANT work

OneGroup == <<work>>

\* No action reads what a dialog was opened on: runs whose properties do not
\* mention it explore the rest of the state only.
ListView == <<disk, view, dialog.kind, making, deleting, world, cli>>
=============================================================================
