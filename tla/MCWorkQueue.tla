----------------------------- MODULE MCWorkQueue ----------------------------
(* Two producers with two calls each, two consumers, and fewer nodes than  *)
(* tasks: the list becomes empty and refills, nodes are freed and handed   *)
(* out again, and malloc runs out.                                         *)
EXTENDS WorkQueue, TLC

CONSTANTS p1, p2, c1, c2, n1, n2, n3

MCProducers == {p1, p2}
MCConsumers == {c1, c2}
MCNodes == {n1, n2, n3}

Symmetry == Permutations(MCProducers) \cup Permutations(MCConsumers)
              \cup Permutations(MCNodes)
=============================================================================
