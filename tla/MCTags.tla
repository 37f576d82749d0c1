------------------------------- MODULE MCTags --------------------------------
(***************************************************************************)
(* Model-checking instance of Tags: requests are interchangeable.          *)
(***************************************************************************)
EXTENDS Tags, TLC

Symmetry == Permutations(Procs)

=============================================================================
