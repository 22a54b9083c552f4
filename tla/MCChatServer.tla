----------------------------- MODULE MCChatServer -----------------------------
(* Instances of ChatServer for TLC: the packets the clients may send. *)
EXTENDS ChatServer, TLC

CONSTANTS a1, k1, k2

Pkt(type, account, key, x, y) ==
  [type |-> type, account |-> account, key |-> key, x |-> x, y |-> y]

Moves(account, cells) ==
  {Pkt("SECTOR_MOVE", account, k1, c[1], c[2]) : c \in cells}

(* A 3 x 2 grid: two opposite corners, a sector next to both, and one step *)
(* off each edge; moves and chats under account number 0 as well.          *)
SectorPackets ==
  {Pkt("LOGIN", a1, k1, 0, 0), Pkt("HEARTBEAT", a1, k1, 0, 0),
   Pkt("UNKNOWN", a1, k1, 0, 0)}
  \cup {Pkt("MESSAGE", a, k1, 0, 0) : a \in Account}
  \cup Moves(a1, {<<0, 0>>, <<1, 1>>, <<2, 1>>, <<3, 0>>, <<0, 2>>, <<-1, 0>>})
  \cup Moves(NoAccount, {<<0, 0>>, <<3, 0>>})

(* Logins under both account numbers, each with a key of its own. *)
LoginPackets == {Pkt("LOGIN", a1, k1, 0, 0), Pkt("LOGIN", NoAccount, k2, 0, 0)}

SilencePackets == {Pkt("LOGIN", a1, k1, 0, 0), Pkt("HEARTBEAT", a1, k1, 0, 0)}

CountPackets == {Pkt("LOGIN", a, k1, 0, 0) : a \in Account}

Symmetry == Permutations(Session) \cup Permutations(Player)

=============================================================================
