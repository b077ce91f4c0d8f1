---------------------------- MODULE MCReferences ----------------------------
(* Two depositors of the same name, one of them from before the codes.     *)
EXTENDS References, TLC

CONSTANTS martin, sophie, MAR, MA2

TwoMartins == [d \in {martin, sophie} |-> <<MAR, MA2>>]

\* Nothing tells the articles apart.
Symmetric == Permutations(Products)
=============================================================================
