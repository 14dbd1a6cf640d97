----------------------------- MODULE MCReactor ------------------------------
(* Three clients, so that two can leave in one pass and one stay; a first  *)
(* array of two slots, so that it grows.                                   *)
EXTENDS Reactor, TLC

CONSTANTS c1, c2, c3

MCClients == {c1, c2, c3}

Symmetry == Permutations(MCClients)
=============================================================================
