----------------------------- MODULE MCCatalog -----------------------------
(* Catalog on a small company: the identifiers are interchangeable.        *)
EXTENDS Catalog, TLC

Interchangeable ==
  Permutations(Categories) \cup Permutations(Attributes) \cup Permutations(Options)
=============================================================================
