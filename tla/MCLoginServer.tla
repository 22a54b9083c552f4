----------------------------- MODULE MCLoginServer ----------------------------
(* Instances of LoginServer for TLC: the account table. *)
EXTENDS LoginServer, TLC

CONSTANTS a1, a2, k1, k2

(* Every row has the key k1. *)
OneKey == [a \in Account |-> k1]

Symmetry == Permutations(Session) \cup Permutations(Player) \cup Permutations(Conn)

=============================================================================
