-------------------------- MODULE MCApprovalLedger --------------------------
(* Small instances of ApprovalLedger.                                       *)
EXTENDS ApprovalLedger, TLC

CONSTANTS c1, c2

Commands == {c1, c2}
OneCommand == {c1}
CommandSymmetry == Permutations(Commands)

(* No action reads the audit log, refused or ran: runs whose properties do  *)
(* not mention them explore the rest of the state only.                     *)
LedgerView == <<file, now, next, pc, mem, at, queue, asked, approved, uses>>
=============================================================================
