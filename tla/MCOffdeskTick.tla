---------------------------- MODULE MCOffdeskTick ----------------------------
(* Small instances of OffdeskTick.                                          *)
EXTENDS OffdeskTick

\* The first task in file order, the second, the first two, none.
First == {1}
Second == {2}
Both == {1, 2}
Nobody == {}

AllCommands == {"enqueue", "stop", "retry", "resolve", "pause", "poll", "ack"}
QueueAndResolve == {"enqueue", "resolve"}

\* No action reads released or stopped: runs whose properties do not mention
\* them explore the rest of the state only.
TickView == <<store, world, runs, pc, copies, credit>>
=============================================================================
