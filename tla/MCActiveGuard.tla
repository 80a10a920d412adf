---------------------------- MODULE MCActiveGuard ----------------------------
(***************************************************************************)
(* Instances of ActiveGuard for TLC.  Runs that are all given the override *)
(* or all not given it, and cleanups likewise, are interchangeable.        *)
(***************************************************************************)
EXTENDS ActiveGuard, TLC

Symmetry == Permutations(Runs \ Allow) \cup Permutations(Cleanups \ Allow)
=============================================================================
