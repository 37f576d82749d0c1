---------------------------- MODULE MCScreenshots ----------------------------
(***************************************************************************)
(* Model-checking instance of Screenshots: requests and screenshots are    *)
(* interchangeable.                                                        *)
(***************************************************************************)
EXTENDS Screenshots, TLC

Symmetry == Permutations(Procs) \cup Permutations(Shots)

=============================================================================
