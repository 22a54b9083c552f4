---------------------------- MODULE MCLoginHandshake --------------------------
(* Instances of LoginHandshake for TLC: the account table. *)
EXTENDS LoginHandshake, TLC

CONSTANTS k1, k2

(* Every row has the key k1. *)
OneKey == [a \in Account |-> k1]

Symmetry == Permutations(Session) \cup Permutations(Player) \cup Permutations(Conn)

=============================================================================
