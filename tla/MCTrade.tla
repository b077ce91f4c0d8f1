------------------------------ MODULE MCTrade ------------------------------
(* A lot of at most two articles, and one on deposit; a term of one letter and a longer one. *)
EXTENDS Trade

CONSTANTS d1, a1, a2, letter, word, r1, r2

\* The order of the API: the newest first, those of a lot by identifier.
InOrder == <<a1, a2, d1>>

Symmetric == Permutations(Requests)
=============================================================================
