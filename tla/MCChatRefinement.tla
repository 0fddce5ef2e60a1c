-------------------------- MODULE MCChatRefinement --------------------------
(* Instances of ChatRefinement for TLC. *)
EXTENDS ChatRefinement

Symmetry == Permutations(Registered) \cup Permutations(Chats)

=============================================================================
