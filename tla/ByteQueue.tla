----------------------------- MODULE ByteQueue -----------------------------
(***************************************************************************)
(* What the keyboard's buffer promises: scan codes are taken in the order  *)
(* they came, each once; when Size of them wait, those that come are lost. *)
(***************************************************************************)
EXTENDS Naturals, Sequences

CONSTANTS Size, Bytes

VARIABLES
  queue,  \* the scan codes that wait, oldest first
  taken   \* the last one that was taken

Init == queue = <<>> /\ taken \in Bytes

Arrive(b) == Len(queue) < Size /\ queue' = Append(queue, b) /\ UNCHANGED taken

Take == queue # <<>> /\ taken' = Head(queue) /\ queue' = Tail(queue)

Next == Take \/ \E b \in Bytes : Arrive(b)

Spec == Init /\ [][Next]_<<queue, taken>>
=============================================================================
