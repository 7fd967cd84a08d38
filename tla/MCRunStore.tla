----------------------------- MODULE MCRunStore -----------------------------
(* RunStore with two writers on small tables. *)
EXTENDS RunStore, TLC

StoreSymmetry == Permutations(Writer) \cup Permutations(Run) \cup Permutations(Turn)
=============================================================================
