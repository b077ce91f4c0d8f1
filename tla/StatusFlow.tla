----------------------------- MODULE StatusFlow -----------------------------
(***************************************************************************)
(* The statuses of the company and the arrows drawn between them.  The     *)
(* rules rest on the flags of a status, never on its name, so a flag is    *)
(* the set of the statuses that carry it.                                  *)
(***************************************************************************)
CONSTANTS Statuses,
          DefaultStatus,  \* isDefault: the status of a product created without one
          IsSale,         \* the product is sold
          BlocksSale,     \* the product can no longer be sold
          LeavesStock,    \* the product is no longer in the stock
          IsOnlineSale,   \* the sale was made on the site
          Transitions     \* the arrows, as <<source, target>>

ASSUME StatusFlowAssumption ==
  /\ DefaultStatus \in Statuses
  /\ IsSale \subseteq Statuses
  /\ BlocksSale \subseteq Statuses
  /\ LeavesStock \subseteq Statuses
  /\ IsOnlineSale \subseteq Statuses
  /\ Transitions \subseteq Statuses \X Statuses

\* The move s -> t is allowed.  A company with no arrow at all allows every move.
Drawn(s, t) == Transitions = {} \/ <<s, t>> \in Transitions

\* Mutant: the flags alone decide.
MayFollowFlags(s, t) == ~(s \in BlocksSale /\ t \in IsSale)

\* The move s -> t respects the flow and, on top of it, the flags.
MayFollow(s, t) == Drawn(s, t) /\ ~(s \in BlocksSale /\ t \in IsSale)
=============================================================================
