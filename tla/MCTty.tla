------------------------------ MODULE MCTty ------------------------------
(* A screen of two lines of three columns, in a memory that is, like the   *)
(* real one (15 lines of 80 in 8192 cells), not a whole number of lines.   *)
EXTENDS Tty

MCStrings == {<<"x", "x">>, <<"newline">>}
MCLines == {<<"x", "newline">>}
=============================================================================
