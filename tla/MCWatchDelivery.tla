--------------------------- MODULE MCWatchDelivery ---------------------------
(* Two documents, watched and unwatched by one session whose connection is  *)
(* lost, beside passes that fail.                                           *)
EXTENDS WatchDelivery, TLC
CONSTANTS d1, d2
Some == SUBSET Docs \ {{}}
Symmetry == Permutations(Docs)
=============================================================================
