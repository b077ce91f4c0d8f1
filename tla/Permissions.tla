---------------------------- MODULE Permissions ----------------------------
(***************************************************************************)
(* Who may call what.  A manager may do everything; an employee holds      *)
(* permissions shop by shop, in the rows of the table ShopAccess, passed   *)
(* to every operator as `access`.  A row is                                *)
(* [user |-> u, shop |-> s, permissions |-> set].                          *)
(*                                                                         *)
(* A single company is modelled: the companyId filters every query carries *)
(* are left out.                                                           *)
(***************************************************************************)
CONSTANTS Null,      \* SQL NULL; as a shop, the central stock
          Users,
          Managers,  \* the users whose isManager is true
          Shops

ASSUME ManagersAreUsers == Managers \subseteq Users
ASSUME NullIsNoShop == Null \notin Shops

AllPermissions ==
  {"products.view", "products.manage", "products.delete", "products.changeStatus",
   "online.manage", "categories.manage", "attributes.manage", "depositors.manage",
   "deposits.manage", "stats.view", "stock.view", "export.csv"}

\* Permissions about the company, not about one of its shops: held somewhere
\* is held everywhere.
CompanyPermissions ==
  {"categories.manage", "attributes.manage", "depositors.manage", "deposits.manage",
   "online.manage"}

AccessRows == [user: Users, shop: Shops, permissions: SUBSET AllPermissions]

\* The employee holds `perm` where it counts: anywhere for a permission of the
\* company or for the central stock, on the shop itself otherwise.
Holds(access, u, perm, shop) ==
  \E a \in access :
    /\ a.user = u
    /\ perm \in a.permissions
    /\ shop = Null \/ perm \in CompanyPermissions \/ a.shop = shop

\* The route guard of a route that one of `perms` opens, on a given shop.
MayCall(access, u, perms, shop) ==
  u \in Managers \/ \E perm \in perms : Holds(access, u, perm, shop)

\* The services' own check that the employee has a row on the product's shop,
\* whatever its permissions.
HasShopAccess(access, u, shop) ==
  \/ u \in Managers
  \/ shop = Null
  \/ \E a \in access : a.user = u /\ a.shop = shop

\* Mutant: "online.manage" opens every status, as the route does.
MayTargetAny(access, u, shop, isOnlineSale) ==
  \/ u \in Managers
  \/ Holds(access, u, "products.changeStatus", shop)
  \/ Holds(access, u, "online.manage", shop)

\* Which status changes the service lets a user make: selling online is all that
\* "online.manage" opens.
MayTarget(access, u, shop, isOnlineSale) ==
  \/ u \in Managers
  \/ Holds(access, u, "products.changeStatus", shop)
  \/ isOnlineSale /\ Holds(access, u, "online.manage", shop)
=============================================================================
