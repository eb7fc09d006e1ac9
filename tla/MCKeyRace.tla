------------------------------ MODULE MCKeyRace ------------------------------
(***************************************************************************)
(* Symmetry for the safety runs of KeyRace: the goroutines that call the   *)
(* manager are interchangeable.                                            *)
(***************************************************************************)
EXTENDS KeyRace, TLC

ThreadSymmetry == Permutations(Threads)
=============================================================================
