------------------------------- MODULE Tables -------------------------------
(***************************************************************************)
(* Tables written entry by entry: those of the routes and of the screens.  *)
(* The two operators are those of the module TLC, which the provers take   *)
(* as they are; defined here, what they compute can be proved, away from   *)
(* the large tables they make.                                             *)
(***************************************************************************)

key :> entry == [k \in {key} |-> entry]

\* Two tables side by side; the first wins.
one @@ other ==
  [k \in DOMAIN one \cup DOMAIN other |-> IF k \in DOMAIN one THEN one[k] ELSE other[k]]

\* A table of one entry: its only key, and what is at it.
LEMMA OneEntry ==
  \A key, entry : /\ \A k : k \in DOMAIN (key :> entry) <=> k = key
                  /\ (key :> entry)[key] = entry
  BY DEF :>

\* Two tables: the keys of both, and what is at each.
LEMMA SideBySide ==
  \A one, other :
    /\ \A k : k \in DOMAIN (one @@ other) <=> k \in DOMAIN one \/ k \in DOMAIN other
    /\ \A k : k \in DOMAIN one => (one @@ other)[k] = one[k]
    /\ \A k : k \in DOMAIN other /\ k \notin DOMAIN one => (one @@ other)[k] = other[k]
  BY DEF @@
=============================================================================
