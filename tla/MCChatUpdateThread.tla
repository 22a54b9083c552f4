-------------------------- MODULE MCChatUpdateThread --------------------------
(* Instances of ChatUpdateThread for TLC. *)
EXTENDS ChatUpdateThread, TLC

Symmetry == Permutations(Worker) \cup Permutations(Msg)

=============================================================================
