------------------------------ MODULE MCSched ------------------------------
(***************************************************************************)
(* Sched with three processes: process 0 never blocks, as taskTTY, and the *)
(* priorities differ, as those of tasks and of user processes do.          *)
(***************************************************************************)
EXTENDS Sched

MCPriority == <<2, 2, 1>>
MCPriorityOf == [p \in 0 .. 2 |-> MCPriority[p + 1]]
=============================================================================
