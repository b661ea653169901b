--------------------------- MODULE MCTransactions ---------------------------
(* Clients that compete for fewer connections. *)
EXTENDS Transactions, TLC

Symmetric == Permutations(Clients) \cup Permutations(Connections)
=============================================================================
