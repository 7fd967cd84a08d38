----------------------------- MODULE MCSessions -----------------------------
(* Sessions on small sets of connections and sessions. *)
EXTENDS Sessions, TLC

SessionSymmetry == Permutations(Session)
=============================================================================
