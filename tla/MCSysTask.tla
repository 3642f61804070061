----------------------------- MODULE MCSysTask -----------------------------
(***************************************************************************)
(* SysTask with three clients: one being answered, two in the queue.       *)
(***************************************************************************)
EXTENDS SysTask

MCBodies == [type : {"ZERO", "GET_TICKS"}, RETVAL : 0 .. MaxTicks]
MCZero   == [type |-> "ZERO", RETVAL |-> 0]
=============================================================================
