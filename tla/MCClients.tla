----------------------------- MODULE MCClients -----------------------------
(* Clients for TLC: threads and logins are interchangeable.                *)
EXTENDS Clients, TLC

Symmetry == Permutations(Threads) \cup Permutations(Logins)
=============================================================================
