----------------------------- MODULE MCMessages -----------------------------
(* Instances of Messages for TLC. *)
EXTENDS Messages, TLC

Symmetry == Permutations(Users) \cup Permutations(Chats) \cup Permutations(Msgs)
            \cup Permutations(Emojis)
            \cup Permutations(Procs)

=============================================================================
