------------------------------ MODULE MCAccounts -----------------------------
(***************************************************************************)
(* Accounts for model checking: requests are interchangeable, and so are   *)
(* addresses.                                                              *)
(***************************************************************************)
EXTENDS Accounts, TLC

Interchangeable == Permutations(Procs) \cup Permutations(Addresses)

=============================================================================
