--------------------------- MODULE MCHostSession ----------------------------
(* HostSession with one host. *)
EXTENDS HostSession
=============================================================================
