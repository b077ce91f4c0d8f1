------------------------------ MODULE Screens ------------------------------
(***************************************************************************)
(* The screens of the web application: what the session must hold to be    *)
(* shown one, what it loads from the API, where it leads and what it lets  *)
(* do.  Every call goes through the server of the web application, which   *)
(* attaches the session: a screen that loads what the API refuses ends on  *)
(* the page of errors, one that only asks for it shows what right is       *)
(* missing.                                                                *)
(*                                                                         *)
(* A gate is a set of permissions, any of which is enough; {} is no gate.  *)
(* The manager passes them all.                                            *)
(***************************************************************************)
EXTENDS Routes

ForManager == {"manager"}

Screen(gate, loads, asks, links, actions) ==
  [gate |-> gate, loads |-> loads, asks |-> asks, links |-> links, actions |-> actions]

\* Links and actions shown behind a gate.
Behind(gate, doors) == {[gate |-> gate, to |-> door] : door \in doors}
Open(doors) == Behind({}, doors)
-----------------------------------------------------------------------------
(* The session (GET /auth/me): its permissions shop by shop.               *)

hasPermission(access, u, perm) ==
  u \in Managers \/ \E a \in access : a.user = u /\ perm \in a.permissions

hasPermissionOnShop(access, u, perm, shop) ==
  \/ u \in Managers
  \/ shop = Null /\ hasPermission(access, u, perm)
  \/ \E a \in access : a.user = u /\ a.shop = shop /\ perm \in a.permissions

Passes(access, u, gate) ==
  gate = {} \/ u \in Managers \/ \E perm \in gate : hasPermission(access, u, perm)
-----------------------------------------------------------------------------
(* The server actions, and the route each one calls.                       *)

StockActions ==
     "createProduct" :> "POST/products"
  @@ "createLot" :> "POST/products/lot"

SaleActions ==
     "sellBasket" :> "POST/products/sale"
  @@ "changeStatus" :> "PUT/products/:id/status"
  @@ "assignShop" :> "PUT/products/:id/assign-shop"
  @@ "deleteProduct" :> "DELETE/products/:id"

SheetActions ==
     "updateProduct" :> "PUT/products/:id"
  @@ "updateSale" :> "PUT/products/:id/sale"
  @@ "setOnline" :> "PUT/products/:id/online"

RemovalActions ==
     "markRemovalDone" :> "PUT/products/:id/removal-done"
  @@ "markRemovalsDone" :> "PUT/products/removals-done"
  @@ "toggleDepositorPayment" :> "PUT/products/:id/depositor-payment"

ContractActions ==
     "createContract" :> "POST/deposit-contracts"
  @@ "updateContract" :> "PUT/deposit-contracts/:id"
  @@ "attachProducts" :> "POST/deposit-contracts/:id/products"
  @@ "detachProduct" :> "DELETE/deposit-contracts/:id/products/:productId"
  @@ "deleteContract" :> "DELETE/deposit-contracts/:id"
  @@ "runDeadlines" :> "POST/deposit-contracts/deadlines"

DepositorActions ==
     "createDepositor" :> "POST/depositors"
  @@ "updateDepositor" :> "PUT/depositors/:id"
  @@ "deleteDepositor" :> "DELETE/depositors/:id"

CategoryActions ==
     "createCategory" :> "POST/categories"
  @@ "updateCategory" :> "PUT/categories/:id"
  @@ "deleteCategory" :> "DELETE/categories/:id"
  @@ "setAttributes" :> "PUT/categories/:id/attributes"

AttributeActions ==
     "cloneTemplate" :> "POST/attributes/from-template/:templateId"
  @@ "createAttribute" :> "POST/attributes"
  @@ "renameAttribute" :> "PUT/attributes/:id"
  @@ "setOptions" :> "PUT/attributes/:id/options"
  @@ "deleteAttribute" :> "DELETE/attributes/:id"

ShopActions ==
     "createShop" :> "POST/shops"
  @@ "updateShop" :> "PUT/shops/:id"
  @@ "deleteShop" :> "DELETE/shops/:id"

UserActions ==
     "inviteEmployee" :> "POST/users/invite"
  @@ "saveAccess" :> "PUT/users/:id/access"
  @@ "deleteEmployee" :> "DELETE/users/:id"

ProfileActions ==
     "updateProfile" :> "PUT/auth/profile"
  @@ "changePassword" :> "PUT/auth/password"
  @@ "deleteAccount" :> "DELETE/auth/account"

LayoutAction == "saveDashboardLayout" :> "PUT/stats/layout"
ReadAction == "markRead" :> "PUT/notifications/:id/read"

\* The relays: the browser calls them, they call the API with the session.
ExportRelay == "export" :> "GET/products/export"
PdfRelay == "pdf" :> "GET/deposit-contracts/:id/pdf"
PhotoRelay == "sendPhoto" :> "POST/uploads/photo"
AttributesRelay == "attributesOf" :> "GET/categories/:id/attributes"

RouteOf ==
  StockActions @@ SaleActions @@ SheetActions @@ RemovalActions @@ ContractActions
  @@ DepositorActions @@ CategoryActions @@ AttributeActions @@ ShopActions @@ UserActions
  @@ ProfileActions @@ LayoutAction @@ ReadAction @@ ExportRelay @@ PdfRelay @@ PhotoRelay
  @@ AttributesRelay
-----------------------------------------------------------------------------
(* What the components let do.                                             *)

\* The bell of notifications, on every screen.
NotificationBell == Open({"markRead"})

StatusChange == Open({"changeStatus"})
SaleCorrection == Open({"updateSale"})
DepositorPayment == Open({"toggleDepositorPayment"})
DetailActions == Open({"assignShop", "deleteProduct"})
OnlineSale == Behind({"online.manage"}, {"setOnline"})
PendingRemoval == Open({"markRemovalDone"})
DynamicAttributes == Open({"attributesOf"})
PhotoField == Open({"sendPhoto"})

\* The sheet of a product, read or edited in place.
ProductSheet ==
  Open({"updateProduct"}) \cup StatusChange \cup SaleCorrection \cup DepositorPayment
  \cup DetailActions \cup OnlineSale \cup PendingRemoval \cup DynamicAttributes

ContractManagement == Open({"updateContract", "attachProducts", "detachProduct", "deleteContract"})
DeadlinesButton == Behind(ForManager, {"runDeadlines"})
DepositorForms == Open({"createDepositor", "updateDepositor", "deleteDepositor"})
CategoryTree == Open({"createCategory", "updateCategory", "deleteCategory"})
CategoryAttributes == Open({"setAttributes"})
AttributeForms ==
  Open({"cloneTemplate", "createAttribute", "renameAttribute", "setOptions", "deleteAttribute"})
ShopForms == Behind(ForManager, {"createShop", "updateShop", "deleteShop"})
UserForms == Behind(ForManager, {"inviteEmployee", "saveAccess", "deleteEmployee"})
ProfileForms == Open({"updateProfile", "changePassword"})
DangerZone == Behind(ForManager, {"deleteAccount"})
RemovalList(gate) == Behind(gate, {"markRemovalDone", "markRemovalsDone"})
RemovalsCard(gate) == Behind(gate, {"markRemovalDone"})
ContractForm(gate) == Behind(gate, {"createContract"})
ProductForm(gate) == Behind(gate, {"createProduct"})
LotForm(gate) == Behind(gate, {"createLot"})
-----------------------------------------------------------------------------
(* The screens.                                                            *)

\* Its blocks are those the API sends: the removals for whoever may do some, the best sales
\* for whoever may see the figures.
Dashboard ==
  LET gate == {"online.manage", "products.manage"} IN
  "/dashboard" :> Screen({}, {"GET/stats/dashboard", "GET/statuses", "GET/stats/layout"}, {},
    Behind(gate, {"/removals"}) \cup Behind(gate \cup {"stats.view"}, {"/products/:id"}),
    RemovalsCard(gate) \cup Open({"saveDashboardLayout"}))

ProductsScreen ==
  "/products" :> Screen({}, {"GET/shops", "GET/categories", "GET/statuses"}, {"GET/products"},
    Behind({"products.manage"}, {"/products/lot", "/products/new"})
      \cup Open({"/products/:id", "/products/:id/edit"}),
    Behind({"export.csv"}, {"export"}) \cup DetailActions)

NewProductScreen ==
  LET gate == {"products.manage"} IN
  "/products/new" :> Screen(gate, {"GET/categories/tree", "GET/shops"}, {}, {},
    ProductForm(gate) \cup PhotoField)

LotScreen ==
  LET gate == {"products.manage"} IN
  "/products/lot" :> Screen(gate, {"GET/categories/tree", "GET/shops", "GET/attributes"}, {},
    {}, LotForm(gate))

SheetLoads == {"GET/products/:id", "GET/statuses", "GET/shops", "GET/categories/tree"}

ProductScreen == "/products/:id" :> Screen({}, SheetLoads, {}, {}, ProductSheet)
EditScreen == "/products/:id/edit" :> Screen({}, SheetLoads, {}, {}, ProductSheet)

RemovalsScreen ==
  LET gate == {"online.manage", "products.manage"} IN
  "/removals" :> Screen(gate, {"GET/products/removals"}, {}, Open({"/products/:id"}),
    RemovalList(gate))

ContractsScreen ==
  "/deposit-contracts" :> Screen({}, {}, {"GET/deposit-contracts", "GET/depositors"},
    Behind({"products.manage"}, {"/deposit-contracts/new"}) \cup Open({"/deposit-contracts/:id"}),
    DeadlinesButton \cup Open({"pdf"}))

\* Without the products, the list of those to attach is empty.
ContractScreen ==
  "/deposit-contracts/:id" :> Screen({}, {}, {"GET/deposit-contracts/:id"},
    Open({"/deposit-contracts", "/products/:id"}), ContractManagement \cup Open({"pdf"}))

NewContractScreen ==
  LET gate == {"products.manage"} IN
  "/deposit-contracts/new" :> Screen(gate,
    {"GET/categories/tree", "GET/shops", "GET/attributes"}, {"GET/depositors"},
    {}, ContractForm(gate))

DepositorsScreen ==
  "/depositors" :> Screen({}, {}, {"GET/depositors"}, Open({"/depositors/:id"}), DepositorForms)

\* Without the contracts, the statement stays.
DepositorScreen ==
  "/depositors/:id" :> Screen({}, {}, {"GET/depositors/:id", "GET/depositors/:id/statement"},
    Open({"/deposit-contracts/:id"}), DepositorForms)

CategoriesScreen ==
  "/categories" :> Screen({}, {"GET/categories/tree", "GET/attributes"}, {}, {},
    CategoryTree \cup CategoryAttributes)

AttributesScreen ==
  "/attributes" :> Screen({}, {"GET/attributes", "GET/attributes/templates",
                               "GET/categories/tree"}, {}, {}, AttributeForms)

ShopsScreen == "/shops" :> Screen({}, {"GET/shops"}, {}, {}, ShopForms)
UsersScreen == "/users" :> Screen(ForManager, {"GET/users", "GET/shops"}, {}, {}, UserForms)

\* The summary of the account is loaded for the manager only, with the zone that shows it.
ProfileScreen == "/profile" :> Screen({}, {}, {}, {}, ProfileForms \cup DangerZone)

ScreenAt ==
  Dashboard @@ ProductsScreen @@ NewProductScreen @@ LotScreen @@ ProductScreen @@ EditScreen
  @@ RemovalsScreen @@ ContractsScreen @@ ContractScreen @@ NewContractScreen
  @@ DepositorsScreen @@ DepositorScreen @@ CategoriesScreen @@ AttributesScreen
  @@ ShopsScreen @@ UsersScreen @@ ProfileScreen

\* The menu, with the gate of each entry; the profile is behind the user's name.
Navigation ==
  Open({"/dashboard", "/categories", "/attributes", "/shops", "/profile"})
  \cup Behind({"products.view"}, {"/products"})
  \cup Behind({"depositors.manage"}, {"/depositors"})
  \cup Behind({"deposits.manage"}, {"/deposit-contracts"})
  \cup Behind({"online.manage", "products.manage"}, {"/removals"})
  \cup Behind(ForManager, {"/users"})

\* The frame of every screen.
FrameLoads == {"GET/auth/me", "GET/notifications"}
-----------------------------------------------------------------------------
(* What happens when somebody follows a link.                              *)

Refused(access, u, routes, shop) == {r \in routes : ~Accepts(access, u, r, shop)}

\* Nobody without a session gets past the login; a load that is refused is an error.
Outcome(access, u, page, shop) ==
  LET screen == ScreenAt[page] IN
  IF u = Null THEN "login"
  ELSE IF ~Passes(access, u, screen.gate) THEN "denied"
  ELSE IF Refused(access, u, FrameLoads \cup screen.loads, shop) # {} THEN "error"
  ELSE IF Refused(access, u, screen.asks, shop) # {} THEN "denied"
  ELSE "shown"

\* The counter on the dashboard: the one of a shop, of all of them (Null), or the site's.
Counter(access, u, shop, online) ==
  \/ online /\ hasPermission(access, u, "online.manage")
  \/ hasPermissionOnShop(access, u, "products.changeStatus", IF online THEN Null ELSE shop)
=============================================================================
