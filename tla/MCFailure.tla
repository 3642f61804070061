----------------------------- MODULE MCFailure -----------------------------
(***************************************************************************)
(* Failure with one task and two user processes on two terminals, and an   *)
(* int of 8 bits.  One process prints numbers at the edges of that range   *)
(* in every conversion, one a text with a %% and a directive the code does *)
(* not know, and the task the text of which printx says that it halts.     *)
(* The buffer holds four characters and the 0: as many as the longest text *)
(* has but two, a number in a field of five and a panic with a long tail.  *)
(* The format of one more ends in %.                                       *)
(***************************************************************************)
EXTENDS Failure

Call(fmt, args) == [fmt |-> fmt, args |-> args]

MCNumbers ==
  {Call(<<Wide("d", FALSE, 3)>>, <<n>>) : n \in {-128, -127, 0, 127}}
    \cup {Call(<<Wide("d", TRUE, 3)>>, <<n>>) : n \in {-9, 99}}
    \cup {Call(<<Lit(120), Directive("x")>>, <<n>>) : n \in {-1, 15, 16}}
    \cup {Call(<<Wide("d", FALSE, 5)>>, <<0>>), Call(<<Directive("cut")>>, <<>>)}

MCCalls ==
  [p \in 0 .. 2 |->
     CASE p = 0 -> {Call(<<Directive("c")>>, <<MAG_CH_ASSERT>>)}
       [] p = 1 -> {Call(<<Lit(37), Wide("?", TRUE, 1), Directive("s"), Directive("c")>>, << <<>>, 0>>)}
       [] p = 2 -> MCNumbers]

MCTtyOf == [p \in 0 .. 2 |-> IF p = 2 THEN 1 ELSE 0]
MCTails == {<<2>>, <<33, 33, 33>>}
=============================================================================
