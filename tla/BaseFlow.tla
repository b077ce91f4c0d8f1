------------------------------ MODULE BaseFlow ------------------------------
(***************************************************************************)
(* The seven statuses and the twenty arrows every company receives when it *)
(* is created.                                                             *)
(***************************************************************************)
InStock == {"En stock", "En rayon", "Reserve"}
Sales   == {"Vendu", "Vendu en ligne"}
Endings == {"Rendu au client", "Retire"}

BaseStatuses     == InStock \cup Sales \cup Endings
BaseDefault      == "En stock"
BaseIsSale       == Sales
BaseBlocksSale   == Endings
BaseLeavesStock  == Sales \cup Endings
BaseIsOnlineSale == {"Vendu en ligne"}

\* The stock moves freely, anything in stock can be sold or go, and a sale is
\* undone by putting the article back on the rack.
BaseTransitions ==
  { a \in InStock \X InStock : a[1] # a[2] }
    \cup InStock \X (Sales \cup Endings)
    \cup Sales \X {"En rayon"}
=============================================================================
