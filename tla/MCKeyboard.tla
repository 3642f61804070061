---------------------------- MODULE MCKeyboard ----------------------------
(* One key of each kind keyboardRead() tells apart.                        *)
EXTENDS Keyboard
=============================================================================
