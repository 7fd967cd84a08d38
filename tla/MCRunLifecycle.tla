--------------------------- MODULE MCRunLifecycle ---------------------------
(* RunLifecycle on small sets of runs, keys and connections. *)
EXTENDS RunLifecycle, TLC

RunSymmetry == Permutations(Run)
=============================================================================
