------------------------------- MODULE MCIpc -------------------------------
(***************************************************************************)
(* Ipc and its refinement on the process table the kernel is built with.   *)
(* The callers are interchangeable: nothing in Ipc orders them, so         *)
(* permuting them is a sound symmetry for its safety properties.           *)
(***************************************************************************)
EXTENDS IpcRefinement, TLC

CallerSymmetry == Permutations(Callers)
=============================================================================
