----------------------- MODULE ProductLifecycleProofs -----------------------
(***************************************************************************)
(* Theorems about ProductLifecycle, for every flow of statuses, every set  *)
(* of products, contracts, users and rights, and any number of requests in *)
(* flight.                                                                 *)
(***************************************************************************)
EXTENDS ProductLifecycle, TLAPS

-----------------------------------------------------------------------------
(* Rows and the fragments laid over them. *)

\* A new row has the types of the schema.
LEMMA NewRowTyped ==
  ASSUME NEW saleType \in SaleTypes, NEW contract \in Contracts \cup {Null},
         NEW shop \in Shops \cup {Null}, NEW status \in Statuses
  PROVE  NewRow(saleType, contract, shop, status) \in Row
BY DEF NewRow, Row

\* So has the row that stands for none.
LEMMA NoRowTyped == NoRow \in Row
BY NewRowTyped, StatusFlowAssumption DEF NoRow, SaleTypes

\* What the database writes over a row is a row.
LEMMA WriteKeepsRow ==
  ASSUME NEW row \in Row, NEW data, IsWrite(data)
  PROVE  (data ++ row) \in Row
BY DEF IsWrite, ++, Row, NoRow, NewRow

\* A value a request gives is one it may give.
LEMMA GivenTyped ==
  ASSUME NEW S, NEW arg \in Optional(S), NEW default, arg # {}
  PROVE  Given(arg, default) \in S
<1>1. PICK x \in S : arg = {x}
  BY DEF Optional
<1>. QED
  BY <1>1 DEF Given

\* The price or the rate a request gives, if it gives one.
LEMMA PriceGiven ==
  /\ \A arg \in Optional(Prices \cup Blank) :
       /\ Given(arg, Null) \in Prices \cup Blank \cup {Null}
       /\ arg # {} => Given(arg, Null) # Null
  /\ \A arg \in Optional(Rates \cup Blank) : Given(arg, Null) \in Rates \cup Blank \cup {Null}
<1>1. ASSUME NEW S, NEW arg \in Optional(S)
      PROVE  /\ Given(arg, Null) \in S \cup {Null}
             /\ arg # {} => Given(arg, Null) \in S
  <2>1. CASE arg = {}
    BY <2>1 DEF Given
  <2>2. CASE arg # {}
    BY <2>2, GivenTyped
  <2>. QED
    BY <2>1, <2>2
<1>. QED
  BY <1>1, DataAssumption

\* Fragments compose: spreading a fragment, or one after another, is a fragment.
LEMMA OverIsWrite ==
  ASSUME NEW a, NEW b, IsWrite(a), IsWrite(b)
  PROVE  IsWrite(a ++ b)
<1>1. /\ DOMAIN (a ++ b) = DOMAIN a \cup DOMAIN b
      /\ \A f \in DOMAIN a : (a ++ b)[f] = a[f]
      /\ \A f \in DOMAIN b \ DOMAIN a : (a ++ b)[f] = b[f]
  BY DEF ++
<1>2. /\ (b ++ NoRow) \in Row
      /\ DOMAIN a \subseteq DOMAIN NoRow /\ DOMAIN b \subseteq DOMAIN NoRow
      /\ IsWrite(a)
  BY DEF IsWrite
<1>3. (a ++ (b ++ NoRow)) \in Row
  BY <1>2, WriteKeepsRow
<1>4. (a ++ b) ++ NoRow = a ++ (b ++ NoRow)
  BY <1>1, <1>2 DEF ++
<1>. QED
  BY <1>1, <1>2, <1>3, <1>4 DEF IsWrite

\* A fragment spread in under a condition writes fields of the row, or none.
LEMMA WhenIsWrite ==
  ASSUME NEW cond, NEW data, cond => IsWrite(data)
  PROVE  IsWrite(When(cond, data))
<1>1. IsWrite(NoField)
  <2>1. DOMAIN NoField = {}
    BY DEF NoField
  <2>2. NoField ++ NoRow = NoRow
    BY <2>1, NoRowTyped DEF ++, Row
  <2>. QED
    BY <2>1, <2>2, NoRowTyped DEF IsWrite
<1>. QED
  BY <1>1 DEF When

\* A value of the right type for one field is a fragment.
LEMMA FieldIsWrite ==
  /\ \A v \in Statuses : IsWrite([status |-> v])
  /\ \A v \in SaleTypes : IsWrite([saleType |-> v])
  /\ \A v \in Contracts \cup {Null} : IsWrite([depositContract |-> v])
  /\ \A v \in Shops \cup {Null} : IsWrite([shop |-> v])
  /\ \A v \in Prices \cup Blank \cup {Null} : IsWrite([soldPrice |-> v])
  /\ \A v \in Rates \cup Blank \cup {Null} : IsWrite([appliedCommission |-> v])
  /\ \A v \in {"paid", "unpaid", Null} : IsWrite([depositorPaid |-> v])
  /\ \A v \in BOOLEAN : IsWrite([isOnline |-> v])
  /\ \A v \in BOOLEAN : IsWrite([pendingRemoval |-> v])
  /\ \A v \in Contracts \cup {Null}, st \in SaleTypes, paid \in {"unpaid", Null} :
       IsWrite([depositContract |-> v, saleType |-> st, depositorPaid |-> paid])
  /\ IsWrite(RemovalDone)
<1>. USE NoRowTyped DEF IsWrite, ++, Row, NoRow, NewRow
<1>1. \A v \in Statuses : IsWrite([status |-> v])
  OBVIOUS
<1>2. \A v \in SaleTypes : IsWrite([saleType |-> v])
  OBVIOUS
<1>3. \A v \in Contracts \cup {Null} : IsWrite([depositContract |-> v])
  OBVIOUS
<1>4. \A v \in Shops \cup {Null} : IsWrite([shop |-> v])
  OBVIOUS
<1>5. \A v \in Prices \cup Blank \cup {Null} : IsWrite([soldPrice |-> v])
  OBVIOUS
<1>6. \A v \in Rates \cup Blank \cup {Null} : IsWrite([appliedCommission |-> v])
  OBVIOUS
<1>7. \A v \in {"paid", "unpaid", Null} : IsWrite([depositorPaid |-> v])
  OBVIOUS
<1>8. \A v \in BOOLEAN : IsWrite([isOnline |-> v])
  OBVIOUS
<1>9. \A v \in BOOLEAN : IsWrite([pendingRemoval |-> v])
  OBVIOUS
<1>10. \A v \in Contracts \cup {Null}, st \in SaleTypes, paid \in {"unpaid", Null} :
       IsWrite([depositContract |-> v, saleType |-> st, depositorPaid |-> paid])
  OBVIOUS
<1>11. IsWrite(RemovalDone)
  BY DEF RemovalDone
<1>. QED
  BY <1>1, <1>2, <1>3, <1>4, <1>5, <1>6, <1>7, <1>8, <1>9, <1>10, <1>11

\* A status change writes a fragment: a commission is read from a contract only.
LEMMA StatusDataTyped ==
  ASSUME NEW row \in Row, NEW t \in Statuses, NEW priceArg \in Optional(Prices \cup Blank)
  PROVE  IsWrite(StatusData(row, t, priceArg))
<1>1. Freezes(row, t) => Commission[row.depositContract] \in Rates
  BY DataAssumption DEF Freezes, Row
<1>2. IsWrite([status |-> t])
  BY FieldIsWrite
<1>3. IsWrite(When(t \in IsSale, [soldPrice |-> Given(priceArg, Null)]))
  <2>1. Given(priceArg, Null) \in Prices \cup Blank \cup {Null}
    BY PriceGiven
  <2>. QED
    BY <2>1, FieldIsWrite, WhenIsWrite
<1>4. IsWrite(When(Freezes(row, t), [appliedCommission |-> Commission[row.depositContract]]))
  BY <1>1, FieldIsWrite, WhenIsWrite DEF Freezes
<1>5. IsWrite(When(LeavesChore(row, t), [pendingRemoval |-> TRUE]))
  BY FieldIsWrite, WhenIsWrite DEF LeavesChore, Row
<1>6. IsWrite(When(t \in IsOnlineSale \cap LeavesStock, [isOnline |-> FALSE]))
  BY FieldIsWrite, WhenIsWrite
<1>. QED
  BY <1>2, <1>3, <1>4, <1>5, <1>6, OverIsWrite DEF StatusData

-----------------------------------------------------------------------------
(***************************************************************************)
(* The inductive invariant.  What a request will write was decided on rows *)
(* read earlier, so the invariant remembers what remains true of that      *)
(* decision whatever else commits in between.                              *)
(***************************************************************************)
Gives(data, f) == f \in DOMAIN data

\* The write moves the product to a status of S.
MovesTo(data, S) == Gives(data, "status") /\ data.status \in S

\* A status it moves to was allowed from one of the history h.
AllowedMove(h, data) ==
  Gives(data, "status") => \E j \in 1..Len(h) : MayFollow(h[j].status, data.status)

\* Money comes with a sale, or to a product sold before.
JustifiedMoney(h, data) ==
  \/ Gives(data, "soldPrice")
  \/ Gives(data, "appliedCommission")
  \/ Gives(data, "depositorPaid") /\ data.depositorPaid = "paid"
  => WasEver(h, IsSale) \/ MovesTo(data, IsSale)

\* A sale comes with what its request gave for a price, and nothing unwrites that.
PricedSale(data) ==
  /\ Gives(data, "soldPrice") => data.soldPrice # Null
  /\ MovesTo(data, IsSale) => Gives(data, "soldPrice")

\* A removal to make comes with a product leaving the stock, or that has left it.
JustifiedChore(h, data) ==
  Gives(data, "pendingRemoval") /\ data.pendingRemoval =>
    WasEver(h, LeavesStock) \/ MovesTo(data, LeavesStock)

\* A removal done takes the listing down.
UnlistingRemoval(data) ==
  Gives(data, "pendingRemoval") /\ ~data.pendingRemoval =>
    Gives(data, "isOnline") /\ ~data.isOnline

Justified(h, data) ==
  /\ AllowedMove(h, data)
  /\ JustifiedMoney(h, data)
  /\ PricedSale(data)
  /\ JustifiedChore(h, data)
  /\ UnlistingRemoval(data)

RequestOK(r) ==
  r.kind = "update" =>
    \A p \in DOMAIN r.writes :
      life[p] # "unborn" /\ (Present(p) => Justified(history[p], r.writes[p]))

RequestsJustified == \A w \in Workers : RequestOK(req[w])

\* What EveryMoveWasAllowed, MoneyOnlyAfterASale, RecordedSaleKeepsItsPrice
\* and ChoreOnlyAfterLeaving say of one product.
MovesAllowed(h) ==
  \A i \in 2..Len(h) : \E j \in 1..(i - 1) : MayFollow(h[j].status, h[i].status)

MoneyEarned(row, h) ==
  row.soldPrice # Null \/ row.appliedCommission # Null \/ row.depositorPaid = "paid"
    => WasEver(h, IsSale)

SalePriced(row, h) ==
  (\E i \in 2..Len(h) : h[i].status \in IsSale) => row.soldPrice # Null

ChoreEarned(row, h) == row.pendingRemoval => WasEver(h, LeavesStock)

RowOK(row, h) ==
  MovesAllowed(h) /\ MoneyEarned(row, h) /\ SalePriced(row, h) /\ ChoreEarned(row, h)

IInv ==
  /\ TypeOK
  /\ HistoryTellsStatus
  /\ \A p \in Products : RowOK(product[p], history[p])
  /\ RequestsJustified

-----------------------------------------------------------------------------
(* What each request asks is typed and justified. *)

Asks(w) == \E r : IsRequest(r) /\ RequestOK(r) /\ Start(w, r)

\* A request of justified writes on present products keeps the invariant once started.
LEMMA UpdateJustified ==
  ASSUME NEW u \in Users, NEW writes, NEW needs \in SUBSET Contracts,
         DOMAIN writes \subseteq Products,
         \A p \in DOMAIN writes : IsWrite(writes[p]) /\ Present(p) /\ Justified(history[p], writes[p])
  PROVE  /\ IsRequest(Update(u, writes, needs)) /\ RequestOK(Update(u, writes, needs))
         /\ IsRequest(UpdateMany(u, writes)) /\ RequestOK(UpdateMany(u, writes))
<1>1. \A p \in DOMAIN writes : life[p] # "unborn"
  BY DEF Present
<1>. QED
  BY <1>1 DEF IsRequest, RequestOK, Update, UpdateMany

\* The same for a single product.
LEMMA OneJustified ==
  ASSUME NEW u \in Users, NEW p \in Products, NEW data, NEW needs \in SUBSET Contracts,
         IsWrite(data), Present(p), Justified(history[p], data)
  PROVE  /\ IsRequest(Update(u, One(p, data), needs))
         /\ RequestOK(Update(u, One(p, data), needs))
<1>1. /\ DOMAIN One(p, data) = {p}
      /\ One(p, data)[p] = data
  BY DEF One
<1>. QED
  BY <1>1, UpdateJustified

\* A deletion has nothing to justify.
LEMMA DeletionJustified ==
  ASSUME NEW x \in Products \cup Contracts
  PROVE  IsRequest(Deletion(x)) /\ RequestOK(Deletion(x))
BY DEF IsRequest, RequestOK, Deletion

\* What a status change writes was decided on the row as it is now.
LEMMA StatusDataJustified ==
  ASSUME IInv, NEW p \in Products, Present(p), NEW u, NEW t \in Statuses,
         NEW priceArg \in Optional(Prices \cup Blank), MayChangeStatus(u, product[p], t, priceArg),
         NEW data, data = StatusData(product[p], t, priceArg)
  PROVE  IsWrite(data) /\ Justified(history[p], data)
<1>1. product[p] \in Row /\ history[p] \in Seq(HistoryRow)
  BY DEF IInv, TypeOK
<1>2. MayFollow(product[p].status, t) /\ (t \in IsSale => priceArg # {})
  BY DEF MayChangeStatus
<1>3. MayFollow(history[p][Len(history[p])].status, t) /\ Len(history[p]) \in 1..Len(history[p])
  BY <1>1, <1>2 DEF IInv, HistoryTellsStatus
<1>4. IsWrite(data)
  BY <1>1, StatusDataTyped
<1>5. /\ Gives(data, "status") /\ data.status = t
      /\ t \in IsSale => Gives(data, "soldPrice") /\ data.soldPrice = Given(priceArg, Null)
      /\ Gives(data, "soldPrice") \/ Gives(data, "appliedCommission") => t \in IsSale
      /\ ~Gives(data, "depositorPaid")
      /\ Gives(data, "pendingRemoval") => data.pendingRemoval = TRUE /\ t \in LeavesStock
  <2>. USE DEF StatusData, ++, When, NoField, Gives
  <2>1. Gives(data, "status") /\ data.status = t
    OBVIOUS
  <2>2. t \in IsSale => Gives(data, "soldPrice") /\ data.soldPrice = Given(priceArg, Null)
    OBVIOUS
  <2>3. Gives(data, "soldPrice") \/ Gives(data, "appliedCommission") => t \in IsSale
    BY DEF Freezes
  <2>4. ~Gives(data, "depositorPaid")
    OBVIOUS
  <2>5. Gives(data, "pendingRemoval") => data.pendingRemoval = TRUE /\ t \in LeavesStock
    BY DEF LeavesChore
  <2>. QED
    BY <2>1, <2>2, <2>3, <2>4, <2>5
<1>6. AllowedMove(history[p], data)
  BY <1>3, <1>5 DEF AllowedMove
<1>7. JustifiedMoney(history[p], data) /\ PricedSale(data)
  BY <1>2, <1>5, PriceGiven DEF JustifiedMoney, PricedSale, MovesTo
<1>8. JustifiedChore(history[p], data) /\ UnlistingRemoval(data)
  BY <1>5 DEF JustifiedChore, UnlistingRemoval, MovesTo
<1>. QED
  BY <1>4, <1>6, <1>7, <1>8 DEF Justified

\* A status the product has now is one it has had.
LEMMA PresentStatusWas ==
  ASSUME IInv, NEW p \in Products, Present(p), NEW S, product[p].status \in S
  PROVE  WasEver(history[p], S)
BY DEF IInv, TypeOK, HistoryTellsStatus, WasEver

\* The commissions are read from contracts.
LEMMA ReadContractsTyped ==
  ASSUME IInv, NEW S \in SUBSET Products, NEW t
  PROVE  ReadContracts(S, t) \subseteq Contracts
BY DEF IInv, TypeOK, ReadContracts, Freezes, Row

\* changeStatus.
LEMMA ChangeStatusAsks ==
  ASSUME IInv, NEW w \in Workers, NEW u \in Users, NEW p \in Products, NEW t \in Statuses,
         NEW priceArg \in Optional(Prices \cup Blank), ChangeStatus(w, u, p, t, priceArg)
  PROVE  Asks(w)
<1>1. Present(p) /\ MayChangeStatus(u, product[p], t, priceArg)
  BY DEF ChangeStatus, Reads
<1>2. ReadContracts({p}, t) \in SUBSET Contracts
  BY ReadContractsTyped
<1>. QED
  BY <1>1, <1>2, StatusDataJustified, OneJustified DEF ChangeStatus, Asks

\* sellMany.
LEMMA SellManyAsks ==
  ASSUME IInv, NEW w \in Workers, NEW u \in Users, NEW S \in SUBSET Products, NEW t \in Statuses,
         NEW priceOf \in [S -> Prices], SellMany(w, u, priceOf, t)
  PROVE  Asks(w)
<1>. DEFINE writes == [p \in DOMAIN priceOf |-> StatusData(product[p], t, {priceOf[p]})]
<1>1. ReadContracts(DOMAIN priceOf, t) \in SUBSET Contracts
  BY ReadContractsTyped
<1>2. DOMAIN writes = S
  OBVIOUS
<1>3. \A p \in S : IsWrite(writes[p]) /\ Present(p) /\ Justified(history[p], writes[p])
  <2>1. TAKE p \in S
  <2>2. Present(p) /\ MayChangeStatus(u, product[p], t, {priceOf[p]})
    BY DEF SellMany
  <2>3. {priceOf[p]} \in Optional(Prices \cup Blank)
    BY DEF Optional
  <2>. QED
    BY <2>2, <2>3, StatusDataJustified
<1>4. IsRequest(Update(u, writes, ReadContracts(DOMAIN priceOf, t)))
      /\ RequestOK(Update(u, writes, ReadContracts(DOMAIN priceOf, t)))
  BY <1>1, <1>2, <1>3, UpdateJustified
<1>. QED
  BY <1>4 DEF SellMany, Asks

\* A write that touches neither the status, nor the money, nor the removal to make.
LEMMA PlainJustified ==
  ASSUME NEW h, NEW data,
         DOMAIN data \cap {"status", "soldPrice", "appliedCommission", "pendingRemoval"} = {},
         Gives(data, "depositorPaid") => data.depositorPaid # "paid"
  PROVE  Justified(h, data)
BY DEF Justified, AllowedMove, JustifiedMoney, PricedSale, JustifiedChore, UnlistingRemoval,
       MovesTo, Gives

\* update.
LEMMA UpdateProductAsks ==
  ASSUME IInv, NEW w \in Workers, NEW u \in Users, NEW p \in Products,
         NEW saleTypeArg \in Optional(SaleTypes), NEW contractArg \in Optional(Contracts),
         NEW shopArg \in Optional(Places),
         UpdateProduct(w, u, p, saleTypeArg, contractArg, shopArg)
  PROVE  Asks(w)
<1>. DEFINE row == product[p]
            saleType == Given(saleTypeArg, row.saleType)
            contract == Given(contractArg,
                              IF saleType = "CONSIGNMENT" THEN row.depositContract ELSE Null)
            shop == Given(shopArg, Null)
            a == [depositContract |-> contract]
            b == When(saleTypeArg # {}, [saleType |-> saleType])
            c == When(shopArg # {}, [shop |-> shop])
            d == When(saleType = "RESALE", [depositorPaid |-> Null])
            e == When(saleType = "CONSIGNMENT" /\ row.depositorPaid = Null,
                      [depositorPaid |-> "unpaid"])
            data == a ++ b ++ c ++ d ++ e
<1>1. row \in Row
  BY DEF IInv, TypeOK
<1>2. contract \in Contracts \cup {Null}
  <2>1. CASE contractArg = {}
    BY <1>1, <2>1 DEF Row, Given
  <2>2. CASE contractArg # {}
    BY <2>2, GivenTyped
  <2>. QED
    BY <2>1, <2>2
<1>3. IsWrite(a)
  BY <1>2, FieldIsWrite
<1>4. IsWrite(b)
  <2>1. saleTypeArg # {} => IsWrite([saleType |-> saleType])
    BY GivenTyped, FieldIsWrite
  <2>. QED
    BY <2>1, WhenIsWrite
<1>5. IsWrite(c)
  BY FieldIsWrite, WhenIsWrite, GivenTyped DEF Places
<1>6. IsWrite(d) /\ IsWrite(e)
  BY FieldIsWrite, WhenIsWrite
<1>7. IsWrite(data)
  BY <1>3, <1>4, <1>5, <1>6, OverIsWrite
<1>8. /\ DOMAIN data \cap {"status", "soldPrice", "appliedCommission", "pendingRemoval"} = {}
      /\ Gives(data, "depositorPaid") => data.depositorPaid # "paid"
  BY DataAssumption DEF ++, When, NoField, Gives
<1>9. Justified(history[p], data)
  BY <1>8, PlainJustified
<1>10. {contract} \ {Null} \in SUBSET Contracts
  BY <1>2
<1>11. Present(p) /\ Start(w, Update(u, One(p, data), {contract} \ {Null}))
  BY DEF UpdateProduct, Reads
<1>. QED
  BY <1>7, <1>9, <1>10, <1>11, OneJustified DEF Asks

\* assignShop.
LEMMA AssignShopAsks ==
  ASSUME IInv, NEW w \in Workers, NEW u \in Users, NEW p \in Products, NEW shop \in Places,
         AssignShop(w, u, p, shop)
  PROVE  Asks(w)
<1>1. IsWrite([shop |-> shop])
  BY FieldIsWrite DEF Places
<1>2. Justified(history[p], [shop |-> shop])
  BY PlainJustified DEF Gives
<1>3. Present(p) /\ Start(w, Update(u, One(p, [shop |-> shop]), {}))
  BY DEF AssignShop, Reads
<1>. QED
  BY <1>1, <1>2, <1>3, OneJustified DEF Asks

\* updateSale.
LEMMA UpdateSaleAsks ==
  ASSUME IInv, NEW w \in Workers, NEW u \in Users, NEW p \in Products,
         NEW priceArg \in Optional(Prices \cup Blank), NEW rateArg \in Optional(Rates \cup Blank),
         UpdateSale(w, u, p, priceArg, rateArg)
  PROVE  Asks(w)
<1>. DEFINE a == When(priceArg # {}, [soldPrice |-> Given(priceArg, Null)])
            b == When(rateArg # {}, [appliedCommission |-> Given(rateArg, Null)])
            data == a ++ b
<1>1. /\ Present(p) /\ product[p].status \in IsSale
      /\ Start(w, Update(u, One(p, data), {}))
  BY DEF UpdateSale, Reads
<1>2. IsWrite(a) /\ IsWrite(b)
  BY FieldIsWrite, WhenIsWrite, PriceGiven
<1>3. IsWrite(data)
  BY <1>2, OverIsWrite
<1>4. WasEver(history[p], IsSale)
  BY <1>1, PresentStatusWas
<1>5. /\ DOMAIN data \subseteq {"soldPrice", "appliedCommission"}
      /\ Gives(data, "soldPrice") => data.soldPrice = Given(priceArg, Null) /\ priceArg # {}
  BY DEF ++, When, NoField, Gives
<1>6. Gives(data, "soldPrice") => data.soldPrice # Null
  BY <1>5, PriceGiven
<1>7. Justified(history[p], data)
  <2>. HIDE DEF data
  <2>. QED
    BY <1>4, <1>5, <1>6 DEF Justified, AllowedMove, JustifiedMoney, PricedSale, JustifiedChore,
                           UnlistingRemoval, MovesTo, Gives
<1>. QED
  BY <1>1, <1>3, <1>7, OneJustified DEF Asks

\* toggleDepositorPayment.
LEMMA ToggleDepositorPaymentAsks ==
  ASSUME IInv, NEW w \in Workers, NEW u \in Users, NEW p \in Products, NEW paid \in BOOLEAN,
         ToggleDepositorPayment(w, u, p, paid)
  PROVE  Asks(w)
<1>. DEFINE data == [depositorPaid |-> IF paid THEN "paid" ELSE "unpaid"]
<1>1. /\ Present(p) /\ product[p].status \in IsSale
      /\ Start(w, Update(u, One(p, data), {}))
  BY DEF ToggleDepositorPayment, Reads
<1>2. IsWrite(data)
  BY FieldIsWrite
<1>3. WasEver(history[p], IsSale)
  BY <1>1, PresentStatusWas
<1>4. Justified(history[p], data)
  BY <1>3 DEF Justified, AllowedMove, JustifiedMoney, PricedSale, JustifiedChore,
              UnlistingRemoval, MovesTo, Gives
<1>. QED
  BY <1>1, <1>2, <1>4, OneJustified DEF Asks

\* setOnline.
LEMMA SetOnlineAsks ==
  ASSUME IInv, NEW w \in Workers, NEW u \in Users, NEW p \in Products, NEW isOnline \in BOOLEAN,
         SetOnline(w, u, p, isOnline)
  PROVE  Asks(w)
<1>. DEFINE data == [isOnline |-> isOnline] ++ When(~isOnline, [pendingRemoval |-> FALSE])
<1>1. Present(p) /\ Start(w, Update(u, One(p, data), {}))
  BY DEF SetOnline, Reads
<1>2. IsWrite([isOnline |-> isOnline]) /\ IsWrite(When(~isOnline, [pendingRemoval |-> FALSE]))
  BY FieldIsWrite, WhenIsWrite
<1>3. IsWrite(data)
  BY <1>2, OverIsWrite
<1>4. /\ DOMAIN data \subseteq {"isOnline", "pendingRemoval"}
      /\ Gives(data, "pendingRemoval") => data.pendingRemoval = FALSE
      /\ UnlistingRemoval(data)
  BY DEF ++, When, NoField, Gives, UnlistingRemoval
<1>5. Justified(history[p], data)
  <2>. HIDE DEF data
  <2>. QED
    BY <1>4 DEF Justified, AllowedMove, JustifiedMoney, PricedSale, JustifiedChore, MovesTo, Gives
<1>. QED
  BY <1>1, <1>3, <1>5, OneJustified DEF Asks

\* A removal done takes the listing down with the chore.
LEMMA RemovalDoneJustified ==
  ASSUME NEW h
  PROVE  IsWrite(RemovalDone) /\ Justified(h, RemovalDone)
<1>1. Justified(h, RemovalDone)
  BY DEF RemovalDone, Justified, AllowedMove, JustifiedMoney, PricedSale, JustifiedChore,
         UnlistingRemoval, MovesTo, Gives
<1>. QED
  BY <1>1, FieldIsWrite

\* markRemovalDone.
LEMMA MarkRemovalDoneAsks ==
  ASSUME NEW w \in Workers, NEW u \in Users, NEW p \in Products, MarkRemovalDone(w, u, p)
  PROVE  Asks(w)
<1>1. Present(p) /\ Start(w, Update(u, One(p, RemovalDone), {}))
  BY DEF MarkRemovalDone, Reads
<1>. QED
  BY <1>1, RemovalDoneJustified, OneJustified DEF Asks

\* markRemovalsDone.
LEMMA MarkRemovalsDoneAsks ==
  ASSUME NEW w \in Workers, NEW u \in Users, NEW S \in SUBSET Products,
         MarkRemovalsDone(w, u, S)
  PROVE  Asks(w)
<1>. DEFINE pending == {p \in S : Present(p) /\ product[p].pendingRemoval}
            writes == [p \in pending |-> RemovalDone]
<1>1. Start(w, UpdateMany(u, writes))
  BY DEF MarkRemovalsDone
<1>2. DOMAIN writes \subseteq Products
  OBVIOUS
<1>3. \A p \in DOMAIN writes : IsWrite(writes[p]) /\ Present(p) /\ Justified(history[p], writes[p])
  BY RemovalDoneJustified
<1>4. IsRequest(UpdateMany(u, writes)) /\ RequestOK(UpdateMany(u, writes))
  <2>. HIDE DEF writes
  <2>. QED
    BY <1>2, <1>3, UpdateJustified
<1>. QED
  BY <1>1, <1>4 DEF Asks

\* The deletions of a product and of a contract.
LEMMA DeletesAsk ==
  ASSUME NEW w \in Workers, NEW u \in Users
  PROVE  /\ \A p \in Products : Delete(w, u, p) => Asks(w)
         /\ \A c \in Contracts : DeleteContract(w, u, c) => Asks(w)
<1>1. ASSUME NEW p \in Products, Delete(w, u, p) PROVE Asks(w)
  BY <1>1, DeletionJustified DEF Delete, Asks
<1>2. ASSUME NEW c \in Contracts, DeleteContract(w, u, c) PROVE Asks(w)
  BY <1>2, DeletionJustified DEF DeleteContract, Asks
<1>. QED
  BY <1>1, <1>2

\* attachProducts.
LEMMA AttachProductsAsks ==
  ASSUME NEW w \in Workers, NEW u \in Users, NEW c \in Contracts, NEW S \in SUBSET Products,
         AttachProducts(w, u, c, S)
  PROVE  Asks(w)
<1>. DEFINE data == [depositContract |-> c, saleType |-> "CONSIGNMENT", depositorPaid |-> "unpaid"]
            writes == [p \in S |-> data]
<1>1. Start(w, Update(u, writes, {c})) /\ \A p \in S : Present(p)
  BY DEF AttachProducts
<1>2. IsWrite(data)
  BY FieldIsWrite DEF SaleTypes
<1>3. \A p \in S : Justified(history[p], data)
  BY PlainJustified DEF Gives
<1>4. \A p \in DOMAIN writes : IsWrite(writes[p]) /\ Present(p) /\ Justified(history[p], writes[p])
  <2>. HIDE DEF data
  <2>. QED
    BY <1>1, <1>2, <1>3
<1>5. DOMAIN writes \subseteq Products /\ {c} \in SUBSET Contracts
  OBVIOUS
<1>6. IsRequest(Update(u, writes, {c})) /\ RequestOK(Update(u, writes, {c}))
  <2>. HIDE DEF writes
  <2>. QED
    BY <1>4, <1>5, UpdateJustified
<1>. QED
  BY <1>1, <1>6 DEF Asks

\* detachProduct.
LEMMA DetachProductAsks ==
  ASSUME NEW w \in Workers, NEW u \in Users, NEW c \in Contracts, NEW p \in Products,
         DetachProduct(w, u, c, p)
  PROVE  Asks(w)
<1>. DEFINE data == [depositContract |-> Null, saleType |-> "RESALE", depositorPaid |-> Null]
<1>1. Present(p) /\ Start(w, Update(u, One(p, data), {}))
  BY DEF DetachProduct
<1>2. IsWrite(data)
  BY FieldIsWrite DEF SaleTypes
<1>3. Justified(history[p], data)
  BY PlainJustified, DataAssumption DEF Gives
<1>. QED
  BY <1>1, <1>2, <1>3, OneJustified DEF Asks

-----------------------------------------------------------------------------
(* What a creation inserts, and the five kinds of steps there are. *)

FreshRow(row) ==
  /\ row \in Row
  /\ row.soldPrice = Null /\ row.appliedCommission = Null /\ row.depositorPaid # "paid"
  /\ row.isOnline = FALSE /\ row.pendingRemoval = FALSE

Inserts(w) ==
  \E u \in Users, born \in SUBSET Contracts : \E rows :
    /\ DOMAIN rows \subseteq Products
    /\ \A p \in DOMAIN rows : FreshRow(rows[p])
    /\ Insert(w, u, rows, born)

\* A new row has no money, no listing and no removal to make.
LEMMA NewRowFresh ==
  ASSUME NEW saleType \in SaleTypes, NEW contract \in Contracts \cup {Null},
         NEW shop \in Places, NEW status \in Statuses
  PROVE  FreshRow(NewRow(saleType, contract, shop, status))
<1>1. NewRow(saleType, contract, shop, status) \in Row
  BY NewRowTyped DEF Places
<1>. QED
  BY <1>1, DataAssumption DEF FreshRow, NewRow

\* Nor has the row that stands for none.
LEMMA NoRowFresh == FreshRow(NoRow)
BY NewRowFresh, StatusFlowAssumption DEF NoRow, SaleTypes, Places

\* create, createLot and the creation of a contract.
LEMMA InsertionInserts ==
  ASSUME NEW w \in Workers, NEW u \in Users, Insertion(w, u)
  PROVE  Inserts(w)
<1>1. ASSUME NEW p \in Products, NEW saleType \in SaleTypes, NEW contract \in Contracts \cup {Null},
             NEW shop \in Places, NEW status \in Statuses,
             Create(w, u, p, saleType, contract, shop, status)
      PROVE  Inserts(w)
  <2>. DEFINE rows == [q \in {p} |-> NewRow(saleType, contract, shop, status)]
  <2>1. DOMAIN rows \subseteq Products /\ \A q \in DOMAIN rows : FreshRow(rows[q])
    BY NewRowFresh
  <2>2. Insert(w, u, rows, {})
    BY <1>1 DEF Create
  <2>. HIDE DEF rows
  <2>. QED
    BY <2>1, <2>2 DEF Inserts
<1>2. ASSUME NEW S \in SUBSET Products, NEW shop \in Places, NEW statusOf \in [S -> Statuses],
             CreateLot(w, u, shop, statusOf)
      PROVE  Inserts(w)
  <2>. DEFINE rows == [p \in DOMAIN statusOf |-> NewRow("RESALE", Null, shop, statusOf[p])]
  <2>1. DOMAIN rows \subseteq Products /\ \A q \in DOMAIN rows : FreshRow(rows[q])
    BY NewRowFresh DEF SaleTypes
  <2>2. Insert(w, u, rows, {})
    BY <1>2 DEF CreateLot
  <2>. HIDE DEF rows
  <2>. QED
    BY <2>1, <2>2 DEF Inserts
<1>3. ASSUME NEW c \in Contracts, NEW S \in SUBSET Products, NEW shopOf \in [S -> Places],
             NEW statusOf \in [S -> Statuses], CreateContract(w, u, c, shopOf, statusOf)
      PROVE  Inserts(w)
  <2>. DEFINE rows == [p \in DOMAIN statusOf |-> NewRow("CONSIGNMENT", c, shopOf[p], statusOf[p])]
  <2>1. DOMAIN rows \subseteq Products /\ \A q \in DOMAIN rows : FreshRow(rows[q])
    BY NewRowFresh DEF SaleTypes
  <2>2. Insert(w, u, rows, {c})
    BY <1>3 DEF CreateContract
  <2>. HIDE DEF rows
  <2>. QED
    BY <2>1, <2>2 DEF Inserts
<1>. QED
  BY <1>1, <1>2, <1>3 DEF Insertion, Some

\* The requests on one product.
LEMMA ProductRequestAsks ==
  ASSUME IInv, NEW w \in Workers, NEW u \in Users, NEW p \in Products, ProductRequest(w, u, p)
  PROVE  Asks(w)
BY ChangeStatusAsks, UpdateProductAsks, AssignShopAsks, UpdateSaleAsks, ToggleDepositorPaymentAsks,
   SetOnlineAsks, MarkRemovalDoneAsks, DeletesAsk
   DEF ProductRequest

\* The requests on several products.
LEMMA GroupRequestAsks ==
  ASSUME IInv, NEW w \in Workers, NEW u \in Users, GroupRequest(w, u)
  PROVE  Asks(w)
BY SellManyAsks, MarkRemovalsDoneAsks DEF GroupRequest, Some

\* The requests on a contract.
LEMMA ContractRequestAsks ==
  ASSUME NEW w \in Workers, NEW u \in Users, NEW c \in Contracts, ContractRequest(w, u, c)
  PROVE  Asks(w)
BY AttachProductsAsks, DetachProductAsks, DeletesAsk DEF ContractRequest, Some

\* Whatever the request, a step is of one of five kinds.
LEMMA NextCases ==
  ASSUME IInv, Next
  PROVE  \E w \in Workers :
           Inserts(w) \/ Asks(w) \/ CommitUpdate(w) \/ CommitDelete(w) \/ Fail(w)
BY InsertionInserts, ProductRequestAsks, GroupRequestAsks, ContractRequestAsks DEF Next

-----------------------------------------------------------------------------
(* What a step does to one product. *)

\* The history of a product only grows, one line at a time.
Grows(h, h2) == h2 = h \/ \E line \in HistoryRow : h2 = Append(h, line)

\* What a product has been, it stays for ever.
LEMMA WasEverGrows ==
  ASSUME NEW h \in Seq(HistoryRow), NEW h2, Grows(h, h2), NEW S, WasEver(h, S)
  PROVE  WasEver(h2, S)
BY DEF Grows, WasEver

\* What was justified remains so.
LEMMA JustifiedGrows ==
  ASSUME NEW h \in Seq(HistoryRow), NEW h2, Grows(h, h2), NEW data, Justified(h, data)
  PROVE  Justified(h2, data)
<1>1. AllowedMove(h2, data)
  BY DEF Justified, AllowedMove, Grows
<1>2. JustifiedMoney(h2, data)
  BY WasEverGrows DEF Justified, JustifiedMoney
<1>3. JustifiedChore(h2, data)
  BY WasEverGrows DEF Justified, JustifiedChore
<1>. QED
  BY <1>1, <1>2, <1>3 DEF Justified

\* Field by field, what a write leaves of a row.
LEMMA OverFields ==
  ASSUME NEW row \in Row, NEW data, IsWrite(data)
  PROVE  \A f \in DOMAIN NoRow : (data ++ row)[f] = IF Gives(data, f) THEN data[f] ELSE row[f]
BY DEF IsWrite, ++, Gives, Row, NoRow, NewRow

\* A fresh row, with the one line of its history or without any.
LEMMA FreshRowOK ==
  ASSUME NEW row, FreshRow(row), NEW h \in Seq(HistoryRow), Len(h) < 2
  PROVE  RowOK(row, h)
BY DEF FreshRow, RowOK, MovesAllowed, MoneyEarned, SalePriced, ChoreEarned

-----------------------------------------------------------------------------
\* A justified write keeps what the invariant says of a product.
LEMMA WriteKeepsRowOK ==
  ASSUME NEW row \in Row, NEW h \in Seq(HistoryRow), RowOK(row, h),
         NEW data, IsWrite(data), Justified(h, data), NEW u \in Users,
         NEW h2, h2 = IF Gives(data, "status")
                      THEN Append(h, [status |-> data.status, by |-> u]) ELSE h
  PROVE  RowOK(data ++ row, h2) /\ Grows(h, h2)
<1>. DEFINE new == data ++ row
<1>1. /\ new.status = IF Gives(data, "status") THEN data.status ELSE row.status
      /\ new.soldPrice = IF Gives(data, "soldPrice") THEN data.soldPrice ELSE row.soldPrice
      /\ new.appliedCommission =
           IF Gives(data, "appliedCommission") THEN data.appliedCommission ELSE row.appliedCommission
      /\ new.depositorPaid =
           IF Gives(data, "depositorPaid") THEN data.depositorPaid ELSE row.depositorPaid
      /\ new.pendingRemoval =
           IF Gives(data, "pendingRemoval") THEN data.pendingRemoval ELSE row.pendingRemoval
  BY OverFields DEF NoRow, NewRow
<1>2. new \in Row
  BY WriteKeepsRow
<1>3. Grows(h, h2)
  BY <1>1, <1>2 DEF Grows, HistoryRow, Row
<1>4. \A S : WasEver(h, S) \/ MovesTo(data, S) => WasEver(h2, S)
  <2>1. TAKE S
  <2>2. WasEver(h, S) => WasEver(h2, S)
    BY <1>3, WasEverGrows
  <2>3. MovesTo(data, S) => WasEver(h2, S)
    BY DEF MovesTo, WasEver, Gives
  <2>. QED
    BY <2>2, <2>3
<1>. HIDE DEF new
<1>5. MovesAllowed(h2)
  BY DEF RowOK, MovesAllowed, Justified, AllowedMove, Gives
<1>6. MoneyEarned(new, h2)
  BY <1>1, <1>4 DEF RowOK, MoneyEarned, Justified, JustifiedMoney
<1>7. SalePriced(new, h2)
  <2>1. CASE Gives(data, "status") /\ data.status \in IsSale
    BY <1>1, <2>1 DEF Justified, PricedSale, MovesTo, SalePriced
  <2>2. CASE ~(Gives(data, "status") /\ data.status \in IsSale)
    <3>1. (\E i \in 2..Len(h2) : h2[i].status \in IsSale)
            => \E i \in 2..Len(h) : h[i].status \in IsSale
      BY <2>2
    <3>. QED
      BY <1>1, <3>1 DEF RowOK, SalePriced, Justified, PricedSale
  <2>. QED
    BY <2>1, <2>2
<1>8. ChoreEarned(new, h2)
  BY <1>1, <1>4 DEF RowOK, ChoreEarned, Justified, JustifiedChore
<1>. QED
  BY <1>3, <1>5, <1>6, <1>7, <1>8 DEF RowOK, new

-----------------------------------------------------------------------------
(* Every kind of step keeps the invariant. *)

\* The action behind ChoreEndsUnlisted.
ChoresEndUnlisted ==
  \A p \in Products :
    product[p].pendingRemoval /\ ~product'[p].pendingRemoval => ~product'[p].isOnline

\* The invariant holds at first.
LEMMA InitIInv == ASSUME Init PROVE IInv
<1>1. TypeOK
  BY NoRowTyped DEF Init, TypeOK, IsRequest
<1>2. HistoryTellsStatus
  BY DEF Init, HistoryTellsStatus, Present
<1>3. \A p \in Products : RowOK(product[p], history[p])
  <2>1. RowOK(NoRow, <<>>)
    <3>1. <<>> \in Seq(HistoryRow) /\ Len(<<>>) < 2
      OBVIOUS
    <3>. QED
      BY <3>1, NoRowFresh, FreshRowOK
  <2>. QED
    BY <2>1 DEF Init
<1>4. RequestsJustified
  BY DEF Init, RequestsJustified, RequestOK, Idle
<1>. QED
  BY <1>1, <1>2, <1>3, <1>4 DEF IInv

\* Reading and checking writes nothing yet.
LEMMA StartKeeps ==
  ASSUME IInv, NEW w \in Workers, Asks(w)
  PROVE  IInv' /\ ChoresEndUnlisted
<1>1. PICK r : IsRequest(r) /\ RequestOK(r) /\ Start(w, r)
  BY DEF Asks
<1>2. UNCHANGED <<life, product, history>> /\ req' = [req EXCEPT ![w] = r]
  BY <1>1 DEF Start
<1>3. TypeOK'
  BY <1>1, <1>2 DEF IInv, TypeOK
<1>4. HistoryTellsStatus'
  BY <1>2 DEF IInv, HistoryTellsStatus, Present
<1>5. \A p \in Products : RowOK(product'[p], history'[p])
  BY <1>2 DEF IInv
<1>6. RequestsJustified'
  BY <1>1, <1>2 DEF IInv, TypeOK, RequestsJustified, RequestOK, Present
<1>7. ChoresEndUnlisted
  BY <1>2 DEF ChoresEndUnlisted
<1>. QED
  BY <1>3, <1>4, <1>5, <1>6, <1>7 DEF IInv

\* A request that ends without writing changes nothing.
LEMMA FailKeeps ==
  ASSUME IInv, NEW w \in Workers, Fail(w)
  PROVE  IInv' /\ ChoresEndUnlisted
<1>1. UNCHANGED <<life, product, history>> /\ req' = [req EXCEPT ![w] = Idle]
  BY DEF Fail, Finish
<1>2. TypeOK'
  BY <1>1 DEF IInv, TypeOK, IsRequest
<1>3. HistoryTellsStatus'
  BY <1>1 DEF IInv, HistoryTellsStatus, Present
<1>4. \A p \in Products : RowOK(product'[p], history'[p])
  BY <1>1 DEF IInv
<1>5. RequestsJustified'
  BY <1>1 DEF IInv, TypeOK, RequestsJustified, RequestOK, Present, Idle
<1>6. ChoresEndUnlisted
  BY <1>1 DEF ChoresEndUnlisted
<1>. QED
  BY <1>2, <1>3, <1>4, <1>5, <1>6 DEF IInv

\* Products come without money and without chores.
LEMMA InsertKeeps ==
  ASSUME IInv, NEW w \in Workers, Inserts(w)
  PROVE  IInv' /\ ChoresEndUnlisted
<1>0. PICK u \in Users, born \in SUBSET Contracts : \E rows :
        /\ DOMAIN rows \subseteq Products
        /\ \A p \in DOMAIN rows : FreshRow(rows[p])
        /\ Insert(w, u, rows, born)
  BY DEF Inserts
<1>1. PICK rows :
        /\ DOMAIN rows \subseteq Products
        /\ \A p \in DOMAIN rows : FreshRow(rows[p])
        /\ Insert(w, u, rows, born)
  BY <1>0
<1>. DEFINE S == DOMAIN rows
<1>2. TypeOK
  BY DEF IInv
<1>3. /\ life' = [x \in Products \cup Contracts |->
                   IF x \in S \cup born THEN "present" ELSE life[x]]
      /\ \A p \in S : life[p] = "unborn"
      /\ req' = req
  BY <1>1, <1>2 DEF Insert, TypeOK
<1>4. product' = [p \in Products |-> IF p \in S THEN rows[p] ELSE product[p]]
  BY <1>1, <1>2 DEF Insert, ++, TypeOK
<1>5. history' = [p \in Products |-> IF p \in S THEN <<[status |-> rows[p].status, by |-> u]>>
                                     ELSE history[p]]
  BY <1>1, <1>2 DEF Insert, ++, TypeOK
<1>6. \A p \in S : FreshRow(rows[p]) /\ <<[status |-> rows[p].status, by |-> u]>> \in Seq(HistoryRow)
  BY <1>1 DEF FreshRow, Row, HistoryRow
<1>7. TypeOK'
  BY <1>2, <1>3, <1>4, <1>5, <1>6 DEF TypeOK, FreshRow
<1>8. HistoryTellsStatus'
  <2>1. ASSUME NEW p \in Products, Present(p)'
        PROVE  (history[p] # <<>> /\ product[p].status = history[p][Len(history[p])].status)'
    <3>1. CASE p \in S
      BY <1>4, <1>5, <3>1
    <3>2. CASE p \notin S
      <4>1. Present(p)
        BY <1>3, <2>1, <3>2, DataAssumption DEF Present
      <4>. QED
        BY <1>4, <1>5, <3>2, <4>1 DEF IInv, HistoryTellsStatus
    <3>. QED
      BY <3>1, <3>2
  <2>. QED
    BY <2>1 DEF HistoryTellsStatus
<1>9. \A p \in Products : RowOK(product'[p], history'[p])
  <2>1. TAKE p \in Products
  <2>2. CASE p \in S
    <3>. DEFINE line == <<[status |-> rows[p].status, by |-> u]>>
    <3>1. line \in Seq(HistoryRow) /\ Len(line) < 2
      BY <1>6, <2>2
    <3>2. RowOK(rows[p], line)
      <4>. HIDE DEF line
      <4>. QED
        BY <1>6, <2>2, <3>1, FreshRowOK
    <3>. QED
      BY <1>4, <1>5, <2>2, <3>2
  <2>3. CASE p \notin S
    BY <1>4, <1>5, <2>3 DEF IInv
  <2>. QED
    BY <2>2, <2>3
<1>10. RequestsJustified'
  <2>1. ASSUME NEW v \in Workers, req[v].kind = "update", NEW p \in DOMAIN req[v].writes
        PROVE  /\ life'[p] # "unborn"
               /\ life'[p] = "present" => Justified(history'[p], req[v].writes[p])
    <3>1. /\ p \in Products
          /\ life[p] # "unborn"
          /\ life[p] = "present" => Justified(history[p], req[v].writes[p])
      BY <2>1 DEF IInv, TypeOK, IsRequest, Idle, Deletion, RequestsJustified, RequestOK, Present
    <3>2. p \notin S /\ life'[p] = life[p] /\ history'[p] = history[p]
      BY <1>3, <1>5, <3>1, DataAssumption
    <3>. QED
      BY <3>1, <3>2
  <2>. QED
    BY <1>3, <2>1 DEF RequestsJustified, RequestOK, Present
<1>11. ChoresEndUnlisted
  BY <1>4, <1>6 DEF ChoresEndUnlisted, FreshRow
<1>. QED
  BY <1>7, <1>8, <1>9, <1>10, <1>11 DEF IInv

\* A write, however old what it was decided on, keeps the invariant.
LEMMA CommitUpdateKeeps ==
  ASSUME IInv, NEW w \in Workers, CommitUpdate(w)
  PROVE  IInv' /\ ChoresEndUnlisted
<1>. DEFINE r == req[w]
            written == {p \in DOMAIN r.writes : Present(p)}
            moved == Moved(r.writes) \cap written
            line(p) == [status |-> r.writes[p].status, by |-> r.by]
<1>1. TypeOK
  BY DEF IInv
<1>2. /\ r.kind = "update"
      /\ product' = [p \in Products |-> IF p \in written THEN r.writes[p] ++ product[p]
                                        ELSE product[p]]
      /\ history' = [p \in Products |-> IF p \in moved THEN Append(history[p], line(p))
                                        ELSE history[p]]
      /\ req' = [req EXCEPT ![w] = Idle]
      /\ life' = life
  BY DEF CommitUpdate, Finish
<1>3. r.by \in Users /\ \A p \in DOMAIN r.writes : p \in Products /\ IsWrite(r.writes[p])
  BY <1>1, <1>2 DEF TypeOK, IsRequest, Idle, Deletion
<1>4. \A p \in written : Justified(history[p], r.writes[p])
  BY <1>2 DEF IInv, RequestsJustified, RequestOK
<1>5. \A p \in Products :
        /\ RowOK(product'[p], history'[p])
        /\ Grows(history[p], history'[p])
        /\ product'[p] \in Row
  <2>1. TAKE p \in Products
  <2>2. product[p] \in Row /\ history[p] \in Seq(HistoryRow) /\ RowOK(product[p], history[p])
    BY <1>1 DEF IInv, TypeOK
  <2>3. CASE p \in written
    <3>. DEFINE data == r.writes[p]
                h2 == IF Gives(data, "status")
                      THEN Append(history[p], [status |-> data.status, by |-> r.by])
                      ELSE history[p]
    <3>1. IsWrite(data) /\ Justified(history[p], data)
      BY <1>3, <1>4, <2>3
    <3>2. product'[p] = data ++ product[p] /\ history'[p] = h2
      BY <1>2, <2>3 DEF Moved, Gives
    <3>. HIDE DEF data, h2, r
    <3>3. RowOK(data ++ product[p], h2) /\ Grows(history[p], h2)
      BY <1>3, <2>2, <3>1, WriteKeepsRowOK DEF h2
    <3>4. (data ++ product[p]) \in Row
      BY <2>2, <3>1, WriteKeepsRow
    <3>. QED
      BY <3>2, <3>3, <3>4
  <2>4. CASE p \notin written
    BY <1>2, <2>2, <2>4 DEF Grows
  <2>. QED
    BY <2>3, <2>4
<1>6. TypeOK'
  <2>1. ASSUME NEW p \in Products PROVE history'[p] \in Seq(HistoryRow)
    <3>1. history[p] \in Seq(HistoryRow) /\ Grows(history[p], history'[p])
      BY <1>1, <1>5 DEF TypeOK
    <3>. QED
      BY <3>1 DEF Grows
  <2>2. \A v \in Workers : IsRequest(req'[v])
    BY <1>1, <1>2 DEF TypeOK, IsRequest
  <2>. QED
    BY <1>1, <1>2, <1>5, <2>1, <2>2 DEF TypeOK
<1>7. HistoryTellsStatus'
  <2>1. ASSUME NEW p \in Products, Present(p)
        PROVE  history'[p] # <<>> /\ product'[p].status = history'[p][Len(history'[p])].status
    <3>1. /\ product[p] \in Row /\ history[p] \in Seq(HistoryRow)
          /\ history[p] # <<>> /\ product[p].status = history[p][Len(history[p])].status
      BY <1>1, <2>1 DEF IInv, TypeOK, HistoryTellsStatus
    <3>2. CASE p \in moved
      <4>1. history'[p] = Append(history[p], line(p)) /\ product'[p] = r.writes[p] ++ product[p]
        BY <1>2, <3>2
      <4>2. product'[p].status = r.writes[p].status
        BY <3>2, <4>1 DEF ++, Moved
      <4>. QED
        BY <3>1, <4>1, <4>2
    <3>3. CASE p \in written \ moved
      <4>1. history'[p] = history[p] /\ product'[p] = r.writes[p] ++ product[p]
        BY <1>2, <3>3
      <4>2. product'[p].status = product[p].status
        BY <3>1, <3>3, <4>1 DEF ++, Moved, Row
      <4>. QED
        BY <3>1, <4>1, <4>2
    <3>4. CASE p \notin written
      BY <1>2, <3>1, <3>4
    <3>. QED
      BY <3>2, <3>3, <3>4
  <2>. QED
    BY <1>2, <2>1 DEF HistoryTellsStatus, Present
<1>8. RequestsJustified'
  <2>1. ASSUME NEW v \in Workers, v # w, req[v].kind = "update", NEW p \in DOMAIN req[v].writes
        PROVE  /\ life[p] # "unborn"
               /\ life[p] = "present" => Justified(history'[p], req[v].writes[p])
    <3>1. /\ p \in Products /\ history[p] \in Seq(HistoryRow)
          /\ life[p] # "unborn"
          /\ life[p] = "present" => Justified(history[p], req[v].writes[p])
      BY <1>1, <2>1 DEF IInv, TypeOK, IsRequest, Idle, Deletion, RequestsJustified, RequestOK, Present
    <3>. QED
      BY <1>5, <3>1, JustifiedGrows
  <2>2. ASSUME NEW v \in Workers PROVE RequestOK(req[v])'
    <3>1. CASE v = w
      BY <1>1, <1>2, <3>1 DEF TypeOK, RequestOK, Idle
    <3>2. CASE v # w
      <4>1. req'[v] = req[v]
        BY <1>2, <1>1, <3>2 DEF TypeOK
      <4>. QED
        BY <1>2, <2>1, <3>2, <4>1 DEF RequestOK, Present
    <3>. QED
      BY <3>1, <3>2
  <2>. QED
    BY <2>2 DEF RequestsJustified
<1>9. ChoresEndUnlisted
  <2>1. ASSUME NEW p \in Products, product[p].pendingRemoval, ~product'[p].pendingRemoval
        PROVE  ~product'[p].isOnline
    <3>1. p \in written /\ product'[p] = r.writes[p] ++ product[p] /\ product[p] \in Row
      BY <1>1, <1>2, <2>1 DEF TypeOK
    <3>2. /\ IsWrite(r.writes[p]) /\ UnlistingRemoval(r.writes[p])
      BY <1>3, <1>4, <3>1 DEF Justified
    <3>3. \A f \in {"pendingRemoval", "isOnline"} :
            product'[p][f] = IF Gives(r.writes[p], f) THEN r.writes[p][f] ELSE product[p][f]
      BY <3>1, <3>2, OverFields DEF NoRow, NewRow
    <3>. QED
      BY <2>1, <3>2, <3>3 DEF UnlistingRemoval
  <2>. QED
    BY <2>1 DEF ChoresEndUnlisted
<1>. QED
  BY <1>5, <1>6, <1>7, <1>8, <1>9 DEF IInv

\* A deletion takes a product away with all that is said of it.
LEMMA CommitDeleteKeeps ==
  ASSUME IInv, NEW w \in Workers, CommitDelete(w)
  PROVE  IInv' /\ ChoresEndUnlisted
<1>. DEFINE x == req[w].target
<1>1. TypeOK
  BY DEF IInv
<1>2. /\ req[w].kind = "delete"
      /\ life' = [life EXCEPT ![x] = "deleted"]
      /\ product' = [p \in Products |->
                       IF p = x THEN NoRow
                       ELSE IF product[p].depositContract = x
                            THEN [depositContract |-> Null] ++ product[p]
                            ELSE product[p]]
      /\ history' = [p \in Products |-> IF p = x THEN <<>> ELSE history[p]]
      /\ req' = [req EXCEPT ![w] = Idle]
  BY DEF CommitDelete, Finish
<1>3. x \in Products \cup Contracts
  BY <1>1, <1>2 DEF TypeOK, IsRequest, Idle, Deletion
<1>4. /\ <<>> \in Seq(HistoryRow) /\ Len(<<>>) < 2
      /\ IsWrite([depositContract |-> Null])
  BY FieldIsWrite
<1>5. ASSUME NEW p \in Products, p # x
      PROVE  /\ history'[p] = history[p] /\ life'[p] = life[p] /\ product'[p] \in Row
             /\ \A f \in DOMAIN NoRow : f # "depositContract" => product'[p][f] = product[p][f]
  <2>1. product[p] \in Row /\ history'[p] = history[p] /\ life'[p] = life[p]
    BY <1>1, <1>2, <1>5 DEF TypeOK
  <2>2. CASE product[p].depositContract = x
    <3>1. product'[p] = [depositContract |-> Null] ++ product[p]
      BY <1>2, <1>5, <2>2
    <3>2. product'[p] \in Row
      BY <1>4, <2>1, <3>1, WriteKeepsRow
    <3>. QED
      BY <1>4, <2>1, <3>1, <3>2, OverFields DEF Gives
  <2>3. CASE product[p].depositContract # x
    BY <1>2, <1>5, <2>1, <2>3
  <2>. QED
    BY <2>1, <2>2, <2>3
<1>6. ASSUME NEW p \in Products, p # x
      PROVE  /\ product'[p].status = product[p].status
             /\ product'[p].soldPrice = product[p].soldPrice
             /\ product'[p].appliedCommission = product[p].appliedCommission
             /\ product'[p].depositorPaid = product[p].depositorPaid
             /\ product'[p].pendingRemoval = product[p].pendingRemoval
  BY <1>5, <1>6 DEF NoRow, NewRow
<1>7. TypeOK'
  <2>1. life' \in [Products \cup Contracts -> {"unborn", "present", "deleted"}]
    BY <1>1, <1>2 DEF TypeOK
  <2>2. product' \in [Products -> Row]
    <3>1. \A p \in Products : product'[p] \in Row
      BY <1>2, <1>5, NoRowTyped
    <3>. QED
      BY <1>2, <3>1
  <2>3. history' \in [Products -> Seq(HistoryRow)]
    BY <1>1, <1>2, <1>4 DEF TypeOK
  <2>4. DOMAIN req' = Workers /\ \A v \in Workers : IsRequest(req'[v])
    BY <1>1, <1>2 DEF TypeOK, IsRequest
  <2>. QED
    BY <2>1, <2>2, <2>3, <2>4 DEF TypeOK
<1>8. HistoryTellsStatus'
  <2>1. ASSUME NEW p \in Products, life'[p] = "present"
        PROVE  history'[p] # <<>> /\ product'[p].status = history'[p][Len(history'[p])].status
    <3>1. p # x
      BY <1>1, <1>2, <1>3, <2>1 DEF TypeOK
    <3>. QED
      BY <1>5, <1>6, <2>1, <3>1 DEF IInv, HistoryTellsStatus, Present
  <2>. QED
    BY <2>1 DEF HistoryTellsStatus, Present
<1>9. \A p \in Products : RowOK(product'[p], history'[p])
  <2>1. TAKE p \in Products
  <2>2. CASE p = x
    BY <1>2, <1>4, <2>2, NoRowFresh, FreshRowOK
  <2>3. CASE p # x
    <3>1. RowOK(product[p], history[p])
      BY DEF IInv
    <3>. QED
      BY <1>5, <1>6, <2>3, <3>1 DEF RowOK, MoneyEarned, SalePriced, ChoreEarned
  <2>. QED
    BY <2>2, <2>3
<1>10. RequestsJustified'
  <2>1. ASSUME NEW v \in Workers, v # w, req[v].kind = "update", NEW p \in DOMAIN req[v].writes
        PROVE  /\ life'[p] # "unborn"
               /\ life'[p] = "present" => Justified(history'[p], req[v].writes[p])
    <3>1. /\ p \in Products
          /\ life[p] # "unborn"
          /\ life[p] = "present" => Justified(history[p], req[v].writes[p])
      BY <1>1, <2>1 DEF IInv, TypeOK, IsRequest, Idle, Deletion, RequestsJustified, RequestOK, Present
    <3>2. CASE p = x
      BY <1>1, <1>2, <1>3, <3>2 DEF TypeOK
    <3>3. CASE p # x
      BY <1>5, <3>1, <3>3
    <3>. QED
      BY <3>2, <3>3
  <2>2. ASSUME NEW v \in Workers PROVE RequestOK(req[v])'
    <3>1. CASE v = w
      BY <1>1, <1>2, <3>1 DEF TypeOK, RequestOK, Idle
    <3>2. CASE v # w
      <4>1. req'[v] = req[v]
        BY <1>1, <1>2, <3>2 DEF TypeOK
      <4>. QED
        BY <2>1, <3>2, <4>1 DEF RequestOK, Present
    <3>. QED
      BY <3>1, <3>2
  <2>. QED
    BY <2>2 DEF RequestsJustified
<1>11. ChoresEndUnlisted
  <2>1. ASSUME NEW p \in Products, product[p].pendingRemoval, ~product'[p].pendingRemoval
        PROVE  ~product'[p].isOnline
    <3>1. p = x
      BY <1>6, <2>1
    <3>2. product'[p] = NoRow
      BY <1>2, <3>1
    <3>. QED
      BY <3>2, NoRowFresh DEF FreshRow
  <2>. QED
    BY <2>1 DEF ChoresEndUnlisted
<1>. QED
  BY <1>7, <1>8, <1>9, <1>10, <1>11 DEF IInv

\* Nor does a step of something else matter.
LEMMA StutterKeeps ==
  ASSUME IInv, UNCHANGED vars
  PROVE  IInv' /\ ChoresEndUnlisted
<1>1. TypeOK'
  BY DEF IInv, TypeOK, vars
<1>2. HistoryTellsStatus'
  BY DEF IInv, HistoryTellsStatus, Present, vars
<1>3. \A p \in Products : RowOK(product'[p], history'[p])
  BY DEF IInv, vars
<1>4. RequestsJustified'
  BY DEF IInv, RequestsJustified, RequestOK, Present, vars
<1>. QED
  BY <1>1, <1>2, <1>3, <1>4 DEF IInv, ChoresEndUnlisted, vars

\* Every step keeps the invariant, and ends no chore with the listing still up.
LEMMA NextKeeps ==
  ASSUME IInv, [Next]_vars
  PROVE  IInv' /\ ChoresEndUnlisted
BY NextCases, InsertKeeps, StartKeeps, CommitUpdateKeeps, CommitDeleteKeeps, FailKeeps, StutterKeeps

-----------------------------------------------------------------------------
(* The theorems. *)

\* The strengthened invariant, from which the others follow.
THEOREM Invariance == Spec => []IInv
<1>1. Init => IInv
  BY InitIInv
<1>2. IInv /\ [Next]_vars => IInv'
  BY NextKeeps
<1>. QED
  BY <1>1, <1>2, PTL DEF Spec

\* Whatever the requests in flight, every row, every line of history and every
\* pending write keeps the types of the schema: no update of a service writes a
\* value its column cannot hold, nor a commission read from no contract.
THEOREM TypeCorrect == Spec => []TypeOK
<1>1. IInv => TypeOK
  BY DEF IInv
<1>. QED
  BY <1>1, Invariance, PTL

\* The history and the product never disagree about the status, for any number
\* of overlapping changes, baskets, updates and deletions.
THEOREM HistoryIsFaithful == Spec => []HistoryTellsStatus
<1>1. IInv => HistoryTellsStatus
  BY DEF IInv
<1>. QED
  BY <1>1, Invariance, PTL

\* The check of the flow, made on a row that may be stale, still ensures that a
\* status is reached from one the product had earlier by an arrow of the flow.
THEOREM MovesAreAllowed == Spec => []EveryMoveWasAllowed
<1>1. IInv => EveryMoveWasAllowed
  BY DEF IInv, RowOK, MovesAllowed, EveryMoveWasAllowed
<1>. QED
  BY <1>1, Invariance, PTL

\* No price, no commission and no payment of a depositor without a sale in the
\* history, whatever changed between the reading and the writing of a request.
THEOREM MoneyIsEarned == Spec => []MoneyOnlyAfterASale
<1>1. IInv => MoneyOnlyAfterASale
  BY DEF IInv, RowOK, MoneyEarned, MoneyOnlyAfterASale
<1>. QED
  BY <1>1, Invariance, PTL

\* However requests overlap, and whatever they give for a price, what the last
\* recorded sale or correction gave stays on the row.
THEOREM SalesKeepTheirPrice == Spec => []RecordedSaleKeepsItsPrice
<1>1. IInv => RecordedSaleKeepsItsPrice
  BY DEF IInv, RowOK, SalePriced, SaleIsRecorded, RecordedSaleKeepsItsPrice
<1>. QED
  BY <1>1, Invariance, PTL

\* A removal is never asked for a product that never left the stock.
THEOREM ChoresAreEarned == Spec => []ChoreOnlyAfterLeaving
<1>1. IInv => ChoreOnlyAfterLeaving
  BY DEF IInv, RowOK, ChoreEarned, ChoreOnlyAfterLeaving
<1>. QED
  BY <1>1, Invariance, PTL

\* No step of any request, however stale, clears a pending removal and leaves the
\* listing up.
THEOREM ChoresTakeListingsDown == Spec => ChoreEndsUnlisted
<1>1. IInv /\ [Next]_vars =>
        [\A p \in Products :
           product[p].pendingRemoval /\ ~product'[p].pendingRemoval => ~product'[p].isOnline]_vars
  BY NextKeeps DEF ChoresEndUnlisted
<1>. QED
  BY <1>1, Invariance, PTL DEF Spec, ChoreEndsUnlisted

=============================================================================
