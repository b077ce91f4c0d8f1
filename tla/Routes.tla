------------------------------- MODULE Routes -------------------------------
(***************************************************************************)
(* Every route of the API, with the rule its decorators attach to it, and  *)
(* the three guards a request goes through: the session, the manager, the  *)
(* permissions.  A route is named by its method and its path, in one word. *)
(*                                                                         *)
(* A rule says who may call: "anyone", a "member" of the company (any      *)
(* session), the "manager", or an employee who holds "all" or "any" of     *)
(* some permissions.  Those are looked for on a shop: the shop of the      *)
(* product in the path where there is one, else the shop the request       *)
(* names, if any.                                                          *)
(***************************************************************************)
EXTENDS Permissions, Tables

Rule(who, permissions) == [who |-> who, permissions |-> permissions]

Anyone == Rule("anyone", {})
Member == Rule("member", {})
ManagerOnly == Rule("manager", {})
RequirePermission(permissions) == Rule("all", permissions)
RequireAnyPermission(permissions) == Rule("any", permissions)
-----------------------------------------------------------------------------
ProductReads ==
     "GET/products"           :> RequirePermission({"products.view"})
  @@ "GET/products/export"    :> RequirePermission({"export.csv"})
  @@ "GET/products/removals"  :> RequireAnyPermission({"online.manage", "products.manage"})
  @@ "GET/products/:id"       :> RequirePermission({"products.view"})

ProductWrites ==
     "POST/products"          :> RequirePermission({"products.manage"})
  @@ "POST/products/lot"      :> RequirePermission({"products.manage"})
  @@ "POST/products/sale"     :> RequireAnyPermission({"products.changeStatus", "online.manage"})
  @@ "PUT/products/removals-done" :>
        RequireAnyPermission({"online.manage", "products.manage"})

ProductActs ==
     "PUT/products/:id"              :> RequirePermission({"products.manage"})
  @@ "PUT/products/:id/assign-shop"  :> RequirePermission({"products.manage"})
  @@ "PUT/products/:id/sale"         :> RequirePermission({"products.manage"})
  @@ "PUT/products/:id/depositor-payment" :> RequirePermission({"deposits.manage"})
  @@ "PUT/products/:id/online"       :> RequirePermission({"online.manage"})
  @@ "PUT/products/:id/removal-done" :>
        RequireAnyPermission({"online.manage", "products.manage"})
  @@ "PUT/products/:id/status"       :>
        RequireAnyPermission({"products.changeStatus", "online.manage"})
  @@ "DELETE/products/:id"           :> RequirePermission({"products.delete"})

ContractRoutes ==
     "GET/deposit-contracts"         :> RequirePermission({"deposits.manage"})
  @@ "GET/deposit-contracts/:id"     :> RequirePermission({"deposits.manage"})
  @@ "GET/deposit-contracts/:id/pdf" :> RequirePermission({"deposits.manage"})
  @@ "POST/deposit-contracts"        :> RequirePermission({"deposits.manage", "products.manage"})
  @@ "POST/deposit-contracts/deadlines"     :> ManagerOnly
  @@ "POST/deposit-contracts/:id/products"  :> RequirePermission({"deposits.manage"})
  @@ "DELETE/deposit-contracts/:id/products/:productId" :>
        RequirePermission({"deposits.manage"})
  @@ "PUT/deposit-contracts/:id"     :> RequirePermission({"deposits.manage"})
  @@ "DELETE/deposit-contracts/:id"  :> RequirePermission({"deposits.manage"})

\* Mutant: reading the depositors is for those who manage them.
DepositorsForTheirManagers ==
     [route \in {"GET/depositors", "GET/depositors/:id", "GET/depositors/:id/products",
                 "GET/depositors/:id/statement", "POST/depositors", "PUT/depositors/:id",
                 "DELETE/depositors/:id"} |-> RequirePermission({"depositors.manage"})]

DepositorRoutes ==
     [route \in {"GET/depositors", "GET/depositors/:id", "GET/depositors/:id/products",
                 "GET/depositors/:id/statement"} |->
        RequireAnyPermission({"depositors.manage", "deposits.manage"})]
  @@ [route \in {"POST/depositors", "PUT/depositors/:id", "DELETE/depositors/:id"} |->
        RequirePermission({"depositors.manage"})]

CategoryRoutes ==
     [route \in {"GET/categories", "GET/categories/tree", "GET/categories/:id",
                 "GET/categories/:id/attributes"} |-> Member]
  @@ "PUT/categories/:id/attributes" :> RequirePermission({"attributes.manage"})
  @@ [route \in {"POST/categories", "PUT/categories/:id", "DELETE/categories/:id"} |->
        RequirePermission({"categories.manage"})]

AttributeRoutes ==
     [route \in {"GET/attributes/templates", "GET/attributes", "GET/attributes/:id"} |-> Member]
  @@ [route \in {"POST/attributes", "POST/attributes/from-template/:templateId",
                 "PUT/attributes/:id", "PUT/attributes/:id/options",
                 "PUT/attributes/:id/categories", "DELETE/attributes/:id"} |->
        RequirePermission({"attributes.manage"})]

ShopRoutes ==
     [route \in {"GET/shops", "GET/shops/:id"} |-> Member]
  @@ [route \in {"POST/shops", "PUT/shops/:id", "DELETE/shops/:id"} |-> ManagerOnly]

UserRoutes ==
  [route \in {"GET/users", "POST/users/invite", "PUT/users/:id/access", "DELETE/users/:id"} |->
     ManagerOnly]

StatsRoutes ==
  [route \in {"GET/stats/dashboard", "GET/stats/layout", "PUT/stats/layout"} |-> Member]

UploadRoutes ==
     "POST/uploads/photo" :> RequirePermission({"products.manage"})
  @@ "GET/uploads/photo/*key" :> Member

NotificationRoutes ==
  [route \in {"GET/notifications", "PUT/notifications/read-all", "PUT/notifications/:id/read"} |->
     Member]

StatusRoutes == "GET/statuses" :> Member

AuthRoutes ==
     [route \in {"POST/auth/register", "POST/auth/login"} |-> Anyone]
  @@ [route \in {"GET/auth/me", "PUT/auth/profile", "PUT/auth/password"} |-> Member]
  @@ [route \in {"GET/auth/account", "DELETE/auth/account"} |-> ManagerOnly]

HealthRoutes == "GET/health" :> Anyone

RuleOf ==
  ProductReads @@ ProductWrites @@ ProductActs @@ ContractRoutes @@ DepositorRoutes
  @@ CategoryRoutes @@ AttributeRoutes @@ ShopRoutes @@ UserRoutes @@ StatsRoutes
  @@ UploadRoutes @@ NotificationRoutes @@ StatusRoutes @@ AuthRoutes @@ HealthRoutes
-----------------------------------------------------------------------------
(* The guards, in their order.  `session` is Null without a valid token.   *)

JwtAuthGuard(rule, session) == rule.who = "anyone" \/ session # Null

ManagerGuard(rule, session) == rule.who = "manager" => session \in Managers

\* The shop of a product that is in the central stock, or of no product, is Null: the
\* permission counts wherever it is held.
PermissionsGuard(access, rule, session, shop) ==
  \/ rule.permissions = {}
  \/ session \in Managers
  \/ rule.who = "all" /\ \A perm \in rule.permissions : Holds(access, session, perm, shop)
  \/ rule.who = "any" /\ \E perm \in rule.permissions : Holds(access, session, perm, shop)

\* A request on `shop`: the one of the product, or the one the request names.
Accepts(access, session, route, shop) ==
  LET rule == RuleOf[route] IN
  /\ JwtAuthGuard(rule, session)
  /\ ManagerGuard(rule, session)
  /\ PermissionsGuard(access, rule, session, shop)
=============================================================================
