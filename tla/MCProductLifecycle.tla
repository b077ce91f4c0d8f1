------------------------ MODULE MCProductLifecycle ------------------------
(***************************************************************************)
(* Instances of ProductLifecycle for TLC.                                  *)
(***************************************************************************)
EXTENDS ProductLifecycle, BaseFlow, TLC

CONSTANTS s1, s2, c1, c2, gerant, vendeur, web

\* One rate per contract, the same.
OneRate == 40
OneCommission == [c \in Contracts |-> OneRate]

\* A flow of four statuses: an article on the rack is sold in the shop or on
\* the site, or given back; a sale can be undone.
SmallStatuses == {"rayon", "vendu", "enligne", "rendu"}
SmallSales == {"vendu", "enligne"}
SmallEndings == {"rendu"}
SmallLeaves == SmallSales \cup SmallEndings
SmallOnline == {"enligne"}
SmallFlow == {"rayon"} \X SmallLeaves \cup SmallSales \X {"rayon"}

\* A counter and nothing else: an article on the rack is sold, a sale is undone.
CounterStatuses == {"rayon", "vendu"}
CounterSales == {"vendu"}
CounterFlow == {<<"rayon", "vendu">>, <<"vendu", "rayon">>}

\* The flow of four statuses where an article is reserved instead of given back: a
\* move within the stock.
ShelfStatuses == {"rayon", "reserve", "vendu", "enligne"}
ShelfFlow ==
  {<<"rayon", "reserve">>, <<"rayon", "vendu">>, <<"rayon", "enligne">>,
   <<"reserve", "vendu">>, <<"reserve", "enligne">>, <<"vendu", "rayon">>, <<"enligne", "rayon">>}

\* A seller in the first shop, and someone who manages the site and sees the
\* products of the second one.
StaffAccess ==
  {[user |-> vendeur, shop |-> s1, permissions |-> {"products.view", "products.changeStatus"}],
   [user |-> web, shop |-> s1, permissions |-> {"online.manage"}],
   [user |-> web, shop |-> s2, permissions |-> {"products.view", "online.manage", "products.manage"}]}

NoAccess == {}

Symmetric == Permutations(Workers)
===========================================================================
