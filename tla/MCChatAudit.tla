----------------------------- MODULE MCChatAudit ----------------------------
(* Instances of ChatAudit for TLC. *)
EXTENDS ChatAudit, TLC

Symmetry == Permutations(Users) \cup Permutations(Procs)

=============================================================================
