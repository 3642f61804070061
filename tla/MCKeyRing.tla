----------------------------- MODULE MCKeyRing -----------------------------
(* A ring of three bytes: full, empty and rolled over in few steps.  Three *)
(* scan codes tell first, last and middle apart.                           *)
EXTENDS KeyRing
=============================================================================
