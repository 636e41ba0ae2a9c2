----------------------------- MODULE MCSecurity -----------------------------
(***************************************************************************)
(* Security for TLC: three clients for a limiter that tracks two, so that  *)
(* a third evicts; buckets that refill half a token (a client) and a whole *)
(* token (all clients) per tick; one token in circulation, for a plain     *)
(* user id or for one with a colon in it, valid for one tick, so that it   *)
(* expires before the clock stops.                                         *)
(***************************************************************************)
EXTENDS Security

CONSTANTS c1, c2, c3

MCClients == {c1, c2, c3}

MCUsers == {<<"alice">>, <<"bob", "admin">>}

\* Nothing orders or names the clients.
ClientSymmetry == Permutations(MCClients)

=============================================================================
