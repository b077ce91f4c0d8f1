-------------------------- MODULE ProductLifecycle --------------------------
(***************************************************************************)
(* The life of the products of a shop, as the API writes it: every request *)
(* that creates, changes or deletes a product, and the requests on deposit *)
(* contracts that touch their products.                                    *)
(*                                                                         *)
(* A request that changes an existing product has two steps.  Its service  *)
(* first reads the rows (loadForWrite, findMany), checks its rules on what *)
(* it read and computes what it will write; later a transaction writes     *)
(* that, by primary key, without reading the product again.  Postgres runs *)
(* at READ COMMITTED and no row is locked or versioned, so other requests  *)
(* may commit in between.  Each worker of Workers is a request in flight;  *)
(* with a single worker the requests come one after the other.             *)
(*                                                                         *)
(* A refused request changes nothing: it is no step of the specification.  *)
(***************************************************************************)
EXTENDS Naturals, Sequences, Records, Permissions, StatusFlow

CONSTANTS Products,    \* the identifiers (cuid) of the products to come; never reused
          Contracts,   \* the same for the deposit contracts
          Prices, Rates,
          Blank,       \* what a request may give for a price or a rate and is neither: the null
                       \* of JSON, kept apart from the Null of a column nobody wrote
          Commission,  \* the commission agreed in each contract
          ShopAccess,  \* the rows of the employees' accesses, fixed here
          Workers,
          MaxHistory   \* bound on the status history of one product

ASSUME DataAssumption ==
  /\ Null \notin Contracts
  /\ Null \notin Prices
  /\ Null \notin Rates
  /\ Null \notin {"paid", "unpaid"}
  /\ Null \notin Statuses
  /\ Null \notin Blank
  /\ Products \cap Contracts = {}
  /\ Commission \in [Contracts -> Rates]
  /\ ShopAccess \subseteq AccessRows
  /\ MaxHistory \in Nat \ {0}

VARIABLES life,     \* of each product and contract: not created yet, in the database, deleted
          product,  \* the rows of the table product
          history,  \* the rows of the table status_history of each product, oldest first
          req       \* what the request of each worker will write

vars == <<life, product, history, req>>

SaleTypes == {"RESALE", "CONSIGNMENT"}

Row ==
  [status: Statuses,
   saleType: SaleTypes,
   depositContract: Contracts \cup {Null},
   shop: Shops \cup {Null},
   soldPrice: Prices \cup Blank \cup {Null},
   appliedCommission: Rates \cup Blank \cup {Null},
   depositorPaid: {"paid", "unpaid", Null},
   isOnline: BOOLEAN,
   pendingRemoval: BOOLEAN]

HistoryRow == [status: Statuses, by: Users]

Present(x) == life[x] = "present"

\* Mutant: every new product owes its depositor.
NewRowAlwaysOwing(saleType, contract, shop, status) ==
  [status |-> status, saleType |-> saleType, depositContract |-> contract, shop |-> shop,
   soldPrice |-> Null, appliedCommission |-> Null, depositorPaid |-> "unpaid",
   isOnline |-> FALSE, pendingRemoval |-> FALSE]

\* The row createWith inserts.  No rule looks at the status: it may be any.
NewRow(saleType, contract, shop, status) ==
  [status |-> status,
   saleType |-> saleType,
   depositContract |-> contract,
   shop |-> shop,
   soldPrice |-> Null,
   appliedCommission |-> Null,
   depositorPaid |-> IF saleType = "CONSIGNMENT" THEN "unpaid" ELSE Null,
   isOnline |-> FALSE,
   pendingRemoval |-> FALSE]

\* What stands in `product` for an identifier that has no row.
NoRow == NewRow("RESALE", Null, Null, DefaultStatus)

(***************************************************************************)
(* The requests in flight.  `writes` is the Prisma `data` of each product  *)
(* to update, `needs` the contracts that must still exist when it is       *)
(* written; updateMany, unlike update, does not mind that a row is gone.   *)
(***************************************************************************)
Idle == [kind |-> "idle"]

Update(u, writes, needs) ==
  [kind |-> "update", by |-> u, writes |-> writes, needs |-> needs, many |-> FALSE]

UpdateMany(u, writes) ==
  [kind |-> "update", by |-> u, writes |-> writes, needs |-> {}, many |-> TRUE]

Deletion(x) == [kind |-> "delete", target |-> x]

IsWrite(data) ==
  DOMAIN data \subseteq DOMAIN NoRow /\ (data ++ NoRow) \in Row

IsRequest(r) ==
  \/ r = Idle
  \/ \E x \in Products \cup Contracts : r = Deletion(x)
  \/ /\ r = [kind |-> "update", by |-> r.by, writes |-> r.writes,
             needs |-> r.needs, many |-> r.many]
     /\ r.by \in Users
     /\ r.needs \subseteq Contracts
     /\ r.many \in BOOLEAN
     /\ DOMAIN r.writes \subseteq Products
     /\ \A p \in DOMAIN r.writes : IsWrite(r.writes[p])

\* Every row, every line of history and every pending write has the types of the
\* schema; a commission is never read from a contract that a product does not have.
TypeOK ==
  /\ life \in [Products \cup Contracts -> {"unborn", "present", "deleted"}]
  /\ product \in [Products -> Row]
  /\ history \in [Products -> Seq(HistoryRow)]
  /\ DOMAIN req = Workers
  /\ \A w \in Workers : IsRequest(req[w])

Init ==
  /\ life = [x \in Products \cup Contracts |-> "unborn"]
  /\ product = [p \in Products |-> NoRow]
  /\ history = [p \in Products |-> <<>>]
  /\ req = [w \in Workers |-> Idle]

-----------------------------------------------------------------------------
(***************************************************************************)
(* Creations: a single transaction, which reads nothing that another       *)
(* request changes.  Still the request of some worker, idle before and     *)
(* after it.                                                               *)
(***************************************************************************)

\* Mutant: a deposited product may come without a contract.
CheckSaleTypeLoosely(saleType, contract) ==
  IF saleType = "RESALE" THEN contract = Null
  ELSE contract = Null \/ (contract \in Contracts /\ Present(contract))

\* RESALE refuses a contract, CONSIGNMENT requires one that exists.
CheckSaleType(saleType, contract) ==
  IF saleType = "RESALE" THEN contract = Null ELSE contract \in Contracts /\ Present(contract)

\* Inserts `rows`, with the first line of their history, and what else is `born`.
Insert(w, u, rows, born) ==
  /\ req[w] = Idle
  /\ \A p \in DOMAIN rows : life[p] = "unborn"
  /\ life' = [x \in DOMAIN life |-> IF x \in DOMAIN rows \cup born THEN "present" ELSE life[x]]
  /\ product' = rows ++ product
  /\ history' = [p \in DOMAIN rows |-> <<[status |-> rows[p].status, by |-> u]>>] ++ history
  /\ UNCHANGED req

Create(w, u, p, saleType, contract, shop, status) ==
  /\ MayCall(ShopAccess, u, {"products.manage"}, shop)
  /\ CheckSaleType(saleType, contract)
  /\ Insert(w, u, [q \in {p} |-> NewRow(saleType, contract, shop, status)], {})

\* A lot bought for one price: all its articles or none.
CreateLot(w, u, shop, statusOf) ==
  /\ MayCall(ShopAccess, u, {"products.manage"}, shop)
  /\ Insert(w, u, [p \in DOMAIN statusOf |-> NewRow("RESALE", Null, shop, statusOf[p])], {})

\* A contract and the articles deposited under it, all or none; each article has
\* a shop of its own, which the route guard does not look at.
CreateContract(w, u, c, shopOf, statusOf) ==
  /\ \A perm \in {"deposits.manage", "products.manage"} : MayCall(ShopAccess, u, {perm}, Null)
  /\ life[c] = "unborn"
  /\ Insert(w, u, [p \in DOMAIN statusOf |-> NewRow("CONSIGNMENT", c, shopOf[p], statusOf[p])], {c})
-----------------------------------------------------------------------------
(***************************************************************************)
(* Requests on existing products, first step: what the service reads, the  *)
(* rules it checks and what it will write.                                 *)
(***************************************************************************)
Start(w, r) ==
  /\ req[w] = Idle
  /\ req' = [req EXCEPT ![w] = r]
  /\ UNCHANGED <<life, product, history>>

\* One product is read, in a shop the user reaches, by a route one of `perms` opens.
Reads(u, p, perms) ==
  /\ Present(p)
  /\ MayCall(ShopAccess, u, perms, product[p].shop)
  /\ HasShopAccess(ShopAccess, u, product[p].shop)

One(p, data) == [q \in {p} |-> data]

(***************************************************************************)
(* An optional field of a request is {} when it is left out, {x} when it   *)
(* is x.  A null passes the validation of an optional field, and is not    *)
(* `undefined`: a price or a rate may thus be given, and be blank.         *)
(***************************************************************************)
Optional(S) == {{}} \cup {{x} : x \in S}

Given(arg, default) == IF arg = {} THEN default ELSE CHOOSE x \in arg : TRUE

\* Mutant: the price of a sale is optional.
MayChangeStatusForFree(u, row, t, priceArg) ==
  /\ MayTarget(ShopAccess, u, row.shop, t \in IsOnlineSale)
  /\ MayFollow(row.status, t)
  /\ priceArg # {} => t \in IsSale

\* Mutant: the flow is not consulted.
MayChangeStatusAnyhow(u, row, t, priceArg) ==
  /\ MayTarget(ShopAccess, u, row.shop, t \in IsOnlineSale)
  /\ t \in IsSale <=> priceArg # {}

\* The rules of a status change.
MayChangeStatus(u, row, t, priceArg) ==
  /\ MayTarget(ShopAccess, u, row.shop, t \in IsOnlineSale)
  /\ MayFollow(row.status, t)
  /\ row.status \in BlocksSale => priceArg = {}
  /\ t \in IsSale <=> priceArg # {}

\* The commission is frozen when a deposited product is sold.
Freezes(row, t) == t \in IsSale /\ row.saleType = "CONSIGNMENT" /\ row.depositContract # Null

\* Mutant: only a sale leaves something to do, not a return.
LeavesChoreOnSale(row, t) ==
  /\ t \in IsSale
  /\ IF t \in IsOnlineSale THEN row.shop # Null ELSE row.isOnline

\* Mutant: any status change of a listed product leaves something to do.
LeavesChoreAlways(row, t) ==
  IF t \in IsOnlineSale THEN row.shop # Null ELSE row.isOnline

\* Something is left to do on the other channel: take the garment off the rack
\* of a shop after an online sale, take the listing down otherwise.
LeavesChore(row, t) ==
  /\ t \in LeavesStock
  /\ IF t \in IsOnlineSale THEN row.shop # Null ELSE row.isOnline

StatusData(row, t, priceArg) ==
  [status |-> t]
    ++ When(t \in IsSale, [soldPrice |-> Given(priceArg, Null)])
    ++ When(Freezes(row, t), [appliedCommission |-> Commission[row.depositContract]])
    ++ When(LeavesChore(row, t), [pendingRemoval |-> TRUE])
    ++ When(t \in IsOnlineSale \cap LeavesStock, [isOnline |-> FALSE])

\* Mutant: the contract is looked up without asking whether there is one.
ReadContractsOfAll(S, t) == {product[p].depositContract : p \in S}

ReadContracts(S, t) == {product[p].depositContract : p \in {q \in S : Freezes(product[q], t)}}

ChangeStatus(w, u, p, t, priceArg) ==
  /\ Reads(u, p, {"products.changeStatus", "online.manage"})
  /\ MayChangeStatus(u, product[p], t, priceArg)
  /\ Start(w, Update(u, One(p, StatusData(product[p], t, priceArg)), ReadContracts({p}, t)))

\* A basket: every product is read before the transaction that sells them all.
SellMany(w, u, priceOf, t) ==
  /\ MayCall(ShopAccess, u, {"products.changeStatus", "online.manage"}, Null)
  /\ \A p \in DOMAIN priceOf :
       /\ Present(p)
       /\ HasShopAccess(ShopAccess, u, product[p].shop)
       /\ MayChangeStatus(u, product[p], t, {priceOf[p]})
  /\ Start(w, Update(u, [p \in DOMAIN priceOf |-> StatusData(product[p], t, {priceOf[p]})],
                     ReadContracts(DOMAIN priceOf, t)))

\* The product form.
UpdateProduct(w, u, p, saleTypeArg, contractArg, shopArg) ==
  LET row == product[p]
      saleType == Given(saleTypeArg, row.saleType)
      contract == Given(contractArg, IF saleType = "CONSIGNMENT" THEN row.depositContract ELSE Null)
  IN /\ Reads(u, p, {"products.manage"})
     /\ CheckSaleType(saleType, contract)
     /\ Start(w, Update(u,
          One(p, [depositContract |-> contract]
                   ++ When(saleTypeArg # {}, [saleType |-> saleType])
                   ++ When(shopArg # {}, [shop |-> Given(shopArg, Null)])
                   ++ When(saleType = "RESALE", [depositorPaid |-> Null])
                   ++ When(saleType = "CONSIGNMENT" /\ row.depositorPaid = Null,
                           [depositorPaid |-> "unpaid"])),
          {contract} \ {Null}))

AssignShop(w, u, p, shop) ==
  /\ Reads(u, p, {"products.manage"})
  /\ Start(w, Update(u, One(p, [shop |-> shop]), {}))

\* Corrects the price or the commission of a recorded sale.
UpdateSale(w, u, p, priceArg, rateArg) ==
  /\ Reads(u, p, {"products.manage"})
  /\ product[p].status \in IsSale \ BlocksSale
  /\ rateArg # {} => product[p].saleType = "CONSIGNMENT"
  /\ Start(w, Update(u, One(p, When(priceArg # {}, [soldPrice |-> Given(priceArg, Null)])
                                 ++ When(rateArg # {}, [appliedCommission |-> Given(rateArg, Null)])),
                     {}))

\* Mutant: the depositor can be paid before the sale.
ToggleDepositorPaymentEarly(w, u, p, paid) ==
  /\ Reads(u, p, {"deposits.manage"})
  /\ product[p].saleType = "CONSIGNMENT"
  /\ Start(w, Update(u, One(p, [depositorPaid |-> IF paid THEN "paid" ELSE "unpaid"]), {}))

ToggleDepositorPayment(w, u, p, paid) ==
  /\ Reads(u, p, {"deposits.manage"})
  /\ product[p].saleType = "CONSIGNMENT"
  /\ product[p].status \in IsSale
  /\ Start(w, Update(u, One(p, [depositorPaid |-> IF paid THEN "paid" ELSE "unpaid"]), {}))

\* Mutant: only what can no longer be sold cannot be published.
SetOnlineUnlessBlocked(w, u, p, isOnline) ==
  /\ Reads(u, p, {"online.manage"})
  /\ isOnline => product[p].status \notin BlocksSale
  /\ Start(w, Update(u, One(p, [isOnline |-> isOnline]
                                 ++ When(~isOnline, [pendingRemoval |-> FALSE])), {}))

\* Publishes the product on the site, or takes the listing down and its chore with it.
SetOnline(w, u, p, isOnline) ==
  /\ Reads(u, p, {"online.manage"})
  /\ isOnline => product[p].status \notin LeavesStock
  /\ Start(w, Update(u, One(p, [isOnline |-> isOnline]
                                 ++ When(~isOnline, [pendingRemoval |-> FALSE])), {}))

\* Mutant: the removal is confirmed, the listing stays.
RemovalDoneStillListed == [pendingRemoval |-> FALSE]

RemovalDone == [pendingRemoval |-> FALSE, isOnline |-> FALSE]

MarkRemovalDone(w, u, p) ==
  /\ Reads(u, p, {"online.manage", "products.manage"})
  /\ product[p].pendingRemoval
  /\ Start(w, Update(u, One(p, RemovalDone), {}))

\* Of the products asked for, those still pending; nothing is written if none is.
MarkRemovalsDone(w, u, S) ==
  LET pending == {p \in S : Present(p) /\ product[p].pendingRemoval}
  IN /\ MayCall(ShopAccess, u, {"online.manage", "products.manage"}, Null)
     /\ \A p \in pending : HasShopAccess(ShopAccess, u, product[p].shop)
     /\ Start(w, UpdateMany(u, [p \in pending |-> RemovalDone]))

Delete(w, u, p) ==
  /\ Reads(u, p, {"products.delete"})
  /\ Start(w, Deletion(p))

AttachProducts(w, u, c, S) ==
  /\ MayCall(ShopAccess, u, {"deposits.manage"}, Null)
  /\ Present(c)
  /\ \A p \in S : /\ Present(p)
                  /\ product[p].depositContract \in {Null, c}
                  /\ product[p].status \notin IsSale
  /\ Start(w, Update(u, [p \in S |-> [depositContract |-> c,
                                      saleType |-> "CONSIGNMENT",
                                      depositorPaid |-> "unpaid"]], {c}))

DetachProduct(w, u, c, p) ==
  /\ MayCall(ShopAccess, u, {"deposits.manage"}, Null)
  /\ Present(c) /\ Present(p)
  /\ product[p].depositContract = c
  /\ product[p].status \notin IsSale
  /\ Start(w, Update(u, One(p, [depositContract |-> Null,
                                saleType |-> "RESALE",
                                depositorPaid |-> Null]), {}))

\* A contract can be deleted once its last product has been detached.
DeleteContract(w, u, c) ==
  /\ MayCall(ShopAccess, u, {"deposits.manage"}, Null)
  /\ Present(c)
  /\ \A p \in Products : Present(p) => product[p].depositContract # c
  /\ Start(w, Deletion(c))

-----------------------------------------------------------------------------
(***************************************************************************)
(* Second step: the transaction.                                           *)
(***************************************************************************)
Finish(w) == req' = [req EXCEPT ![w] = Idle]

\* Mutant: only sales are written to the history.
MovedToSale(writes) ==
  {p \in DOMAIN writes : "status" \in DOMAIN writes[p] /\ writes[p].status \in IsSale}

\* The products of a request whose status is among the fields it writes.
Moved(writes) == {p \in DOMAIN writes : "status" \in DOMAIN writes[p]}

\* Writes every product of the request, and a line of history for those moved.
CommitUpdate(w) ==
  LET r == req[w]
      written == {p \in DOMAIN r.writes : Present(p)}
      moved == Moved(r.writes) \cap written
  IN /\ r.kind = "update"
     /\ r.many \/ written = DOMAIN r.writes
     /\ \A c \in r.needs : Present(c)
     /\ \A p \in moved : Len(history[p]) < MaxHistory
     /\ product' = [p \in Products |-> IF p \in written THEN r.writes[p] ++ product[p]
                                       ELSE product[p]]
     /\ history' = [p \in Products |->
                      IF p \in moved
                      THEN Append(history[p], [status |-> r.writes[p].status, by |-> r.by])
                      ELSE history[p]]
     /\ Finish(w)
     /\ UNCHANGED life

\* The database takes the history away with a product, and the contract out of
\* its products with a contract.
CommitDelete(w) ==
  LET x == req[w].target
  IN /\ req[w].kind = "delete"
     /\ Present(x)
     /\ life' = [life EXCEPT ![x] = "deleted"]
     /\ product' = [p \in Products |->
                      IF p = x THEN NoRow
                      ELSE IF product[p].depositContract = x
                           THEN [depositContract |-> Null] ++ product[p]
                           ELSE product[p]]
     /\ history' = [p \in Products |-> IF p = x THEN <<>> ELSE history[p]]
     /\ Finish(w)

\* The request ends without writing: a row it counts on is gone, the database
\* refuses, the process stops.
Fail(w) ==
  /\ req[w] # Idle
  /\ Finish(w)
  /\ UNCHANGED <<life, product, history>>
-----------------------------------------------------------------------------
Some(S) == SUBSET S \ {{}}
Places == Shops \cup {Null}

Insertion(w, u) ==
  \/ \E p \in Products, saleType \in SaleTypes, contract \in Contracts \cup {Null},
        shop \in Places, status \in Statuses : Create(w, u, p, saleType, contract, shop, status)
  \/ \E S \in Some(Products), shop \in Places :
       \E statusOf \in [S -> Statuses] : CreateLot(w, u, shop, statusOf)
  \/ \E c \in Contracts, S \in Some(Products) :
       \E shopOf \in [S -> Places], statusOf \in [S -> Statuses] :
         CreateContract(w, u, c, shopOf, statusOf)

ProductRequest(w, u, p) ==
  \/ \E t \in Statuses, priceArg \in Optional(Prices \cup Blank) : ChangeStatus(w, u, p, t, priceArg)
  \/ \E saleTypeArg \in Optional(SaleTypes), contractArg \in Optional(Contracts),
        shopArg \in Optional(Places) : UpdateProduct(w, u, p, saleTypeArg, contractArg, shopArg)
  \/ \E shop \in Places : AssignShop(w, u, p, shop)
  \/ \E priceArg \in Optional(Prices \cup Blank), rateArg \in Optional(Rates \cup Blank) :
       UpdateSale(w, u, p, priceArg, rateArg)
  \/ \E paid \in BOOLEAN : ToggleDepositorPayment(w, u, p, paid)
  \/ \E isOnline \in BOOLEAN : SetOnline(w, u, p, isOnline)
  \/ MarkRemovalDone(w, u, p)
  \/ Delete(w, u, p)

GroupRequest(w, u) ==
  \/ \E S \in Some(Products), t \in Statuses :
       \E priceOf \in [S -> Prices] : SellMany(w, u, priceOf, t)
  \/ \E S \in Some(Products) : MarkRemovalsDone(w, u, S)

ContractRequest(w, u, c) ==
  \/ \E S \in Some(Products) : AttachProducts(w, u, c, S)
  \/ \E p \in Products : DetachProduct(w, u, c, p)
  \/ DeleteContract(w, u, c)

Next ==
  \E w \in Workers :
    \/ \E u \in Users : Insertion(w, u) \/ GroupRequest(w, u)
    \/ \E u \in Users, p \in Products : ProductRequest(w, u, p)
    \/ \E u \in Users, c \in Contracts : ContractRequest(w, u, c)
    \/ CommitUpdate(w)
    \/ CommitDelete(w)
    \/ Fail(w)

Spec == Init /\ [][Next]_vars

-----------------------------------------------------------------------------
(***************************************************************************)
(* Properties that hold however the requests overlap.                      *)
(***************************************************************************)

\* The last line of a product's history is the status it has: changeStatusWith
\* and createWith write both in one transaction, and nothing else writes either.
HistoryTellsStatus ==
  \A p \in Products : Present(p) =>
    /\ history[p] # <<>>
    /\ product[p].status = history[p][Len(history[p])].status

\* Every status a product took was allowed from a status it had had before: a
\* check made on a stale row is still made on a row that existed.
EveryMoveWasAllowed ==
  \A p \in Products : \A i \in 2..Len(history[p]) :
    \E j \in 1..(i - 1) : MayFollow(history[p][j].status, history[p][i].status)

\* The statuses of a history h include one of S.
WasEver(h, S) == \E i \in 1..Len(h) : h[i].status \in S

\* A price cashed, a frozen commission or a depositor paid: the product has been
\* sold at some time, whatever has happened to it since.
MoneyOnlyAfterASale ==
  \A p \in Products :
    \/ product[p].soldPrice # Null
    \/ product[p].appliedCommission # Null
    \/ product[p].depositorPaid = "paid"
    => WasEver(history[p], IsSale)

\* The history has a sale recorded by a status change.
SaleIsRecorded(p) == \E i \in 2..Len(history[p]) : history[p][i].status \in IsSale

\* A sale recorded by a status change keeps what a request gave for its price,
\* were it blank: no move, undone sale, payment or form that crosses it leaves the
\* column as if nobody had ever sold the product.
RecordedSaleKeepsItsPrice ==
  \A p \in Products : SaleIsRecorded(p) => product[p].soldPrice # Null

\* A removal is only ever pending on a product that has left the stock once.
ChoreOnlyAfterLeaving ==
  \A p \in Products : product[p].pendingRemoval => WasEver(history[p], LeavesStock)

\* A pending removal never goes away with the listing still up: what clears the
\* one takes down the other, even on a product changed in between.
ChoreEndsUnlisted ==
  [][\A p \in Products :
       product[p].pendingRemoval /\ ~product'[p].pendingRemoval => ~product'[p].isOnline]_vars

\* An employee who may nowhere change a status, but manages the site, has only
\* ever moved products to online sales, sold one by one or in a basket.
SiteStaffOnlySellOnline ==
  \A p \in Products : \A i \in 2..Len(history[p]) :
    LET u == history[p][i].by
    IN \/ u \in Managers
       \/ \E shop \in Shops : Holds(ShopAccess, u, "products.changeStatus", shop)
       \/ history[p][i].status \in IsOnlineSale

-----------------------------------------------------------------------------
(***************************************************************************)
(* Properties that the checks of the services establish when requests do   *)
(* not overlap.                                                            *)
(***************************************************************************)

\* A deposited product belongs to a contract that exists, a bought one to none,
\* through every way of entering, leaving or losing a contract.
ContractMatchesSaleType ==
  \A p \in Products : Present(p) =>
    IF product[p].saleType = "CONSIGNMENT"
    THEN product[p].depositContract # Null /\ Present(product[p].depositContract)
    ELSE product[p].depositContract = Null

\* There is a debt to a depositor, settled or not, exactly on deposited products.
DebtMatchesSaleType ==
  \A p \in Products : Present(p) =>
    (product[p].saleType = "CONSIGNMENT" <=> product[p].depositorPaid # Null)

\* A listing left up for a product that is gone is on the list of removals to
\* make, so that someone takes it down.
ForgottenListing(p) ==
  /\ Present(p)
  /\ product[p].status \in LeavesStock
  /\ product[p].isOnline
  /\ ~product[p].pendingRemoval

NoForgottenListing == \A p \in Products : ~ForgottenListing(p)

\* A product sold on the site is no longer announced there.
OnlineSaleIsUnlisted ==
  \A p \in Products :
    product[p].status \in IsOnlineSale \cap LeavesStock => ~product[p].isOnline

\* A product given back or withdrawn is never sold again.
NeverSoldOnceBlocked ==
  \A p \in Products : \A i, j \in 1..Len(history[p]) :
    i < j /\ history[p][i].status \in BlocksSale => history[p][j].status \notin IsSale

\* The abstract specification: every request takes effect as a whole.
Ledger ==
  INSTANCE StatusLedger
    WITH Absent <- Null,
         stage <- [p \in Products |-> IF Present(p) THEN product[p].status ELSE Null]

\* One request at a time, the statuses are those of the ledger.
ImplementsLedger == Ledger!Spec

-----------------------------------------------------------------------------
(***************************************************************************)
(* What the documentation says and the code does not ensure.               *)
(***************************************************************************)

\* « Un statut isSale exige un prix vendu »: a sale recorded by a status change
\* has a price.
RecordedSaleHasPrice == \A p \in Products : SaleIsRecorded(p) => product[p].soldPrice \in Prices

\* A product that is sold, by a change of status, changes neither contract nor
\* sale type.
SoldKeepsContract ==
  [][\A p \in Products :
       /\ Len(history[p]) > 1
       /\ Present(p) /\ product[p].status \in IsSale
       /\ Present(p)' /\ product'[p].status \in IsSale
       => /\ product'[p].depositContract = product[p].depositContract
          /\ product'[p].saleType = product[p].saleType]_vars
=============================================================================
