--------------------------- MODULE MCConversation ---------------------------
(* Conversation on small sets of clients and sessions. *)
EXTENDS Conversation, TLC

IdSymmetry == Permutations(Client) \cup Permutations(Session)

\* The properties say nothing of what follows the first loss.
NothingLost == lost = {}
=============================================================================
