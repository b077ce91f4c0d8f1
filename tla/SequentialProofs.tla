-------------------------- MODULE SequentialProofs --------------------------
(***************************************************************************)
(* More theorems about ProductLifecycle: who moved a product, with any     *)
(* number of requests in flight; and, where no two requests are in flight  *)
(* together, that the checks of the services suffice, and that the         *)
(* statuses behave as in the ledger.                                       *)
(***************************************************************************)
EXTENDS ProductLifecycleProofs, BaseFlow

\* At most one request is in flight.
OneAtATime == \A v, w \in Workers : v = w

-----------------------------------------------------------------------------
(* What holds of a row when nothing overlaps.                              *)

\* A deposited product is on a contract that exists, a bought one on none.
Belongs(row) ==
  IF row.saleType = "CONSIGNMENT"
  THEN row.depositContract # Null /\ Present(row.depositContract)
  ELSE row.depositContract = Null

\* There is a debt exactly on what is deposited.
Owes(row) == row.saleType = "CONSIGNMENT" <=> row.depositorPaid # Null

\* The listing of what has left is to be taken down; a sale on the site leaves none.
Announced(row) ==
  row.status \in LeavesStock /\ row.isOnline => row.pendingRemoval /\ row.status \notin IsOnlineSale

Settled(row) == Belongs(row) /\ Owes(row) /\ Announced(row)

AllSettled == \A p \in Products : IF Present(p) THEN Settled(product[p]) ELSE product[p] = NoRow

-----------------------------------------------------------------------------
(* What a request says of itself when it starts.                           *)

\* u may move a product to t: everywhere, in some shop, or on the site only.
StaffMay(u, t) ==
  \/ u \in Managers
  \/ \E shop \in Shops : Holds(ShopAccess, u, "products.changeStatus", shop)
  \/ t \in IsOnlineSale

\* Whoever makes the request may make its moves.
ByStaff(r) ==
  r.kind = "update" =>
    \A p \in DOMAIN r.writes : Gives(r.writes[p], "status") => StaffMay(r.by, r.writes[p].status)

\* All the products of the request are there, and move together or not at all.
MovesTogether(writes) ==
  \/ \A p \in DOMAIN writes : ~Gives(writes[p], "status")
  \/ \E t \in Statuses : \A p \in DOMAIN writes :
       Gives(writes[p], "status") /\ writes[p].status = t /\ MayFollow(product[p].status, t)

\* What the request is about to do suits the rows as they are now.
Current(r) ==
  /\ r.kind = "update" =>
       /\ \A p \in DOMAIN r.writes : Present(p) /\ Settled(r.writes[p] ++ product[p])
       /\ MovesTogether(r.writes)
  /\ r.kind = "delete" /\ r.target \in Contracts =>
       \A p \in Products : Present(p) => product[p].depositContract # r.target

Declares(w) == \E r : Start(w, r) /\ ByStaff(r) /\ (AllSettled => Current(r))

-----------------------------------------------------------------------------
(* Lemmas on the requests.                                                 *)

\* Field by field, what a write leaves of a row, as far as Settled is concerned.
LEMMA FieldsOver ==
  ASSUME NEW row \in Row, NEW data, IsWrite(data)
  PROVE  LET new == data ++ row IN
         /\ new.status = IF Gives(data, "status") THEN data.status ELSE row.status
         /\ new.saleType = IF Gives(data, "saleType") THEN data.saleType ELSE row.saleType
         /\ new.depositContract = IF Gives(data, "depositContract") THEN data.depositContract
                                  ELSE row.depositContract
         /\ new.depositorPaid = IF Gives(data, "depositorPaid") THEN data.depositorPaid
                                ELSE row.depositorPaid
         /\ new.isOnline = IF Gives(data, "isOnline") THEN data.isOnline ELSE row.isOnline
         /\ new.pendingRemoval = IF Gives(data, "pendingRemoval") THEN data.pendingRemoval
                                 ELSE row.pendingRemoval
BY OverFields DEF NoRow, NewRow

\* A request that starts is the one whose writes were shown to be typed.
LEMMA WritesTyped ==
  ASSUME IInv, NEW w \in Workers, Asks(w), NEW u, NEW writes, NEW needs, NEW many,
         Start(w, [kind |-> "update", by |-> u, writes |-> writes, needs |-> needs, many |-> many])
  PROVE  \A p \in DOMAIN writes : p \in Products /\ IsWrite(writes[p]) /\ product[p] \in Row
<1>. DEFINE r == [kind |-> "update", by |-> u, writes |-> writes, needs |-> needs, many |-> many]
<1>1. PICK s : IsRequest(s) /\ Start(w, s)
  BY DEF Asks
<1>2. DOMAIN req = Workers
  BY DEF IInv, TypeOK
<1>3. s = r
  BY <1>1, <1>2 DEF Start
<1>4. IsRequest(r) /\ r.kind = "update" /\ r.writes = writes
  BY <1>1, <1>3
<1>5. \A p \in DOMAIN writes : p \in Products /\ IsWrite(writes[p])
  <2>. HIDE DEF r
  <2>. QED
    BY <1>4 DEF IsRequest, Idle, Deletion
<1>. QED
  BY <1>5 DEF IInv, TypeOK

\* The right to move a product is held in some shop.
LEMMA TargetIsStaff ==
  ASSUME NEW u, NEW shop, NEW t, MayTarget(ShopAccess, u, shop, t \in IsOnlineSale)
  PROVE  StaffMay(u, t)
BY DataAssumption DEF MayTarget, Holds, StaffMay, AccessRows

\* A status change leaves the contract and the debt, and sees to the listing.
LEMMA StatusDataSettles ==
  ASSUME NEW row \in Row, NEW t \in Statuses, NEW priceArg, IsWrite(StatusData(row, t, priceArg)),
         Settled(row)
  PROVE  Settled(StatusData(row, t, priceArg) ++ row)
<1>. DEFINE data == StatusData(row, t, priceArg)
            new == data ++ row
<1>0. IsWrite(data)
  OBVIOUS
<1>1. /\ Gives(data, "status") /\ data.status = t
      /\ ~Gives(data, "saleType") /\ ~Gives(data, "depositContract") /\ ~Gives(data, "depositorPaid")
      /\ Gives(data, "isOnline") <=> t \in IsOnlineSale \cap LeavesStock
      /\ Gives(data, "isOnline") => data.isOnline = FALSE
      /\ Gives(data, "pendingRemoval") <=> LeavesChore(row, t)
      /\ Gives(data, "pendingRemoval") => data.pendingRemoval = TRUE
  <2>. USE DEF StatusData, ++, When, NoField, Gives
  <2>1. Gives(data, "status") /\ data.status = t
    OBVIOUS
  <2>2. ~Gives(data, "saleType") /\ ~Gives(data, "depositContract") /\ ~Gives(data, "depositorPaid")
    OBVIOUS
  <2>3. Gives(data, "isOnline") <=> t \in IsOnlineSale \cap LeavesStock
    OBVIOUS
  <2>4. Gives(data, "isOnline") => data.isOnline = FALSE
    OBVIOUS
  <2>5. Gives(data, "pendingRemoval") <=> LeavesChore(row, t)
    OBVIOUS
  <2>6. Gives(data, "pendingRemoval") => data.pendingRemoval = TRUE
    OBVIOUS
  <2>. QED
    BY <2>1, <2>2, <2>3, <2>4, <2>5, <2>6
<1>2. /\ new.status = t /\ new.saleType = row.saleType
      /\ new.depositContract = row.depositContract /\ new.depositorPaid = row.depositorPaid
      /\ new.isOnline = IF t \in IsOnlineSale \cap LeavesStock THEN FALSE ELSE row.isOnline
      /\ LeavesChore(row, t) => new.pendingRemoval = TRUE
      /\ ~LeavesChore(row, t) => new.pendingRemoval = row.pendingRemoval
  <2>. HIDE DEF data
  <2>1. /\ new.status = IF Gives(data, "status") THEN data.status ELSE row.status
        /\ new.saleType = IF Gives(data, "saleType") THEN data.saleType ELSE row.saleType
        /\ new.depositContract = IF Gives(data, "depositContract") THEN data.depositContract
                                 ELSE row.depositContract
        /\ new.depositorPaid = IF Gives(data, "depositorPaid") THEN data.depositorPaid
                               ELSE row.depositorPaid
        /\ new.isOnline = IF Gives(data, "isOnline") THEN data.isOnline ELSE row.isOnline
        /\ new.pendingRemoval = IF Gives(data, "pendingRemoval") THEN data.pendingRemoval
                                ELSE row.pendingRemoval
    BY <1>0, FieldsOver
  <2>. HIDE DEF new
  <2>2. new.isOnline = IF t \in IsOnlineSale \cap LeavesStock THEN FALSE ELSE row.isOnline
    BY <1>1, <2>1
  <2>3. /\ LeavesChore(row, t) => new.pendingRemoval = TRUE
        /\ ~LeavesChore(row, t) => new.pendingRemoval = row.pendingRemoval
    BY <1>1, <2>1
  <2>. QED
    BY <1>1, <2>1, <2>2, <2>3
<1>. HIDE DEF new, data
<1>3. Belongs(new) /\ Owes(new)
  BY <1>2 DEF Settled, Belongs, Owes
<1>4. Announced(new)
  BY <1>2 DEF Settled, Announced, LeavesChore, Row
<1>. QED
  BY <1>3, <1>4 DEF Settled, new, data

\* What is written to one product declares itself if the row it leaves is settled.
LEMMA OneDeclares ==
  ASSUME NEW w, NEW u, NEW p, NEW data, NEW needs, Start(w, Update(u, One(p, data), needs)),
         Present(p), ~Gives(data, "status"), p \in Products,
         AllSettled => Settled(data ++ product[p])
  PROVE  Declares(w)
<1>1. /\ DOMAIN One(p, data) = {p}
      /\ One(p, data)[p] = data
  BY DEF One
<1>. DEFINE r == Update(u, One(p, data), needs)
<1>2. r.kind = "update" /\ r.writes = One(p, data)
  BY DEF Update
<1>. HIDE DEF r
<1>3. ByStaff(r) /\ MovesTogether(r.writes)
  BY <1>1, <1>2 DEF ByStaff, MovesTogether
<1>4. AllSettled => Current(r)
  BY <1>1, <1>2, <1>3 DEF Current
<1>. QED
  BY <1>3, <1>4 DEF Declares, r

\* changeStatus.
LEMMA ChangeStatusDeclares ==
  ASSUME IInv, NEW w \in Workers, NEW u \in Users, NEW p \in Products, NEW t \in Statuses,
         NEW priceArg \in Optional(Prices \cup Blank), ChangeStatus(w, u, p, t, priceArg)
  PROVE  Declares(w)
<1>. DEFINE data == StatusData(product[p], t, priceArg)
            r == Update(u, One(p, data), ReadContracts({p}, t))
<1>1. /\ Present(p) /\ MayChangeStatus(u, product[p], t, priceArg) /\ Start(w, r)
      /\ product[p] \in Row
  BY DEF ChangeStatus, Reads, IInv, TypeOK
<1>2. IsWrite(data) /\ Gives(data, "status") /\ data.status = t
  <2>1. IsWrite(data)
    BY <1>1, StatusDataTyped
  <2>2. Gives(data, "status") /\ data.status = t
    BY DEF StatusData, ++, When, NoField, Gives
  <2>. QED
    BY <2>1, <2>2
<1>3. AllSettled => Settled(data ++ product[p])
  BY <1>1, <1>2, StatusDataSettles DEF AllSettled
<1>4. StaffMay(u, t) /\ MayFollow(product[p].status, t)
  BY <1>1, TargetIsStaff DEF MayChangeStatus
<1>. HIDE DEF data
<1>5. /\ r.kind = "update" /\ DOMAIN r.writes = {p} /\ r.writes[p] = data /\ r.by = u
  BY DEF Update, One
<1>. HIDE DEF r
<1>6. ByStaff(r) /\ MovesTogether(r.writes)
  BY <1>2, <1>4, <1>5 DEF ByStaff, MovesTogether
<1>7. AllSettled => Current(r)
  BY <1>1, <1>3, <1>5, <1>6 DEF Current
<1>. QED
  BY <1>1, <1>6, <1>7 DEF Declares

\* sellMany.
LEMMA SellManyDeclares ==
  ASSUME IInv, NEW w \in Workers, NEW u \in Users, NEW S \in SUBSET Products, NEW t \in Statuses,
         NEW priceOf \in [S -> Prices], SellMany(w, u, priceOf, t)
  PROVE  Declares(w)
<1>. DEFINE writes == [p \in DOMAIN priceOf |-> StatusData(product[p], t, {priceOf[p]})]
            r == Update(u, writes, ReadContracts(DOMAIN priceOf, t))
<1>1. Start(w, r) /\ DOMAIN writes = S
  BY DEF SellMany
<1>2. ASSUME NEW p \in S
      PROVE  /\ Present(p) /\ Gives(writes[p], "status") /\ writes[p].status = t
             /\ StaffMay(u, t) /\ MayFollow(product[p].status, t)
             /\ AllSettled => Settled(writes[p] ++ product[p])
  <2>1. Present(p) /\ MayChangeStatus(u, product[p], t, {priceOf[p]}) /\ product[p] \in Row
    BY DEF SellMany, IInv, TypeOK
  <2>2. {priceOf[p]} \in Optional(Prices \cup Blank)
    BY DEF Optional
  <2>3. writes[p] = StatusData(product[p], t, {priceOf[p]})
    OBVIOUS
  <2>. HIDE DEF writes
  <2>4. Gives(writes[p], "status") /\ writes[p].status = t
    BY <2>3 DEF StatusData, ++, When, NoField, Gives
  <2>5. AllSettled => Settled(writes[p] ++ product[p])
    BY <2>1, <2>2, <2>3, StatusDataTyped, StatusDataSettles DEF AllSettled
  <2>. QED
    BY <2>1, <2>4, <2>5, TargetIsStaff DEF MayChangeStatus
<1>. HIDE DEF writes
<1>3. r.kind = "update" /\ r.writes = writes /\ r.by = u
  BY DEF Update
<1>. HIDE DEF r
<1>4. ByStaff(r) /\ MovesTogether(r.writes)
  BY <1>1, <1>2, <1>3 DEF ByStaff, MovesTogether
<1>5. AllSettled => Current(r)
  BY <1>1, <1>2, <1>3, <1>4 DEF Current
<1>. QED
  BY <1>1, <1>4, <1>5 DEF Declares

\* Fields that Settled does not look at.
LEMMA PlainSettles ==
  ASSUME NEW row \in Row, NEW data, IsWrite(data), Settled(row),
         DOMAIN data \cap {"status", "saleType", "depositContract", "depositorPaid",
                          "isOnline", "pendingRemoval"} = {}
  PROVE  Settled(data ++ row)
BY FieldsOver DEF Settled, Belongs, Owes, Announced, Gives

\* update.
LEMMA UpdateProductDeclares ==
  ASSUME IInv, NEW w \in Workers, NEW u \in Users, NEW p \in Products,
         NEW saleTypeArg \in Optional(SaleTypes), NEW contractArg \in Optional(Contracts),
         NEW shopArg \in Optional(Places),
         UpdateProduct(w, u, p, saleTypeArg, contractArg, shopArg)
  PROVE  Declares(w)
<1>. DEFINE row == product[p]
            saleType == Given(saleTypeArg, row.saleType)
            contract == Given(contractArg,
                              IF saleType = "CONSIGNMENT" THEN row.depositContract ELSE Null)
            data == [depositContract |-> contract]
                      ++ When(saleTypeArg # {}, [saleType |-> saleType])
                      ++ When(shopArg # {}, [shop |-> Given(shopArg, Null)])
                      ++ When(saleType = "RESALE", [depositorPaid |-> Null])
                      ++ When(saleType = "CONSIGNMENT" /\ row.depositorPaid = Null,
                              [depositorPaid |-> "unpaid"])
            needs == {contract} \ {Null}
            new == data ++ row
<1>1. /\ Present(p) /\ CheckSaleType(saleType, contract)
      /\ Start(w, Update(u, One(p, data), needs))
      /\ row \in Row
  BY DEF UpdateProduct, Reads, IInv, TypeOK
<1>2. saleType \in SaleTypes /\ (saleTypeArg = {} => saleType = row.saleType)
  <2>1. CASE saleTypeArg = {}
    BY <1>1, <2>1 DEF Row, Given
  <2>2. CASE saleTypeArg # {}
    BY <2>2, GivenTyped
  <2>. QED
    BY <2>1, <2>2
<1>3. /\ data.depositContract = contract /\ Gives(data, "depositContract")
      /\ Gives(data, "saleType") <=> saleTypeArg # {}
      /\ Gives(data, "saleType") => data.saleType = saleType
      /\ Gives(data, "depositorPaid") <=> saleType = "RESALE" \/ row.depositorPaid = Null
      /\ Gives(data, "depositorPaid") =>
           data.depositorPaid = IF saleType = "RESALE" THEN Null ELSE "unpaid"
      /\ ~Gives(data, "status") /\ ~Gives(data, "isOnline") /\ ~Gives(data, "pendingRemoval")
  <2>1. saleType = "RESALE" \/ saleType = "CONSIGNMENT"
    BY <1>2 DEF SaleTypes
  <2>. HIDE DEF saleType, contract, row
  <2>. USE DEF ++, When, NoField, Gives
  <2>2. data.depositContract = contract /\ Gives(data, "depositContract")
    OBVIOUS
  <2>3. Gives(data, "saleType") <=> saleTypeArg # {}
    OBVIOUS
  <2>4. Gives(data, "saleType") => data.saleType = saleType
    OBVIOUS
  <2>5. Gives(data, "depositorPaid") <=> saleType = "RESALE" \/ row.depositorPaid = Null
    BY <2>1
  <2>6. Gives(data, "depositorPaid") =>
           data.depositorPaid = IF saleType = "RESALE" THEN Null ELSE "unpaid"
    BY <2>1
  <2>7. ~Gives(data, "status") /\ ~Gives(data, "isOnline") /\ ~Gives(data, "pendingRemoval")
    OBVIOUS
  <2>. QED
    BY <2>2, <2>3, <2>4, <2>5, <2>6, <2>7
<1>. HIDE DEF saleType, contract, data, needs
<1>4. IsWrite(data)
  <2>1. DOMAIN One(p, data) = {p} /\ One(p, data)[p] = data
    BY DEF One
  <2>. QED
    BY <1>1, <2>1, UpdateProductAsks, WritesTyped DEF Update
<1>5. ASSUME Settled(row) PROVE Settled(new)
  <2>1. /\ new.saleType = saleType /\ new.depositContract = contract
        /\ new.depositorPaid = IF saleType = "RESALE" THEN Null
                               ELSE IF row.depositorPaid = Null THEN "unpaid" ELSE row.depositorPaid
        /\ new.status = row.status /\ new.isOnline = row.isOnline
        /\ new.pendingRemoval = row.pendingRemoval
    <3>. HIDE DEF row
    <3>. QED
      BY <1>1, <1>2, <1>3, <1>4, FieldsOver
  <2>. HIDE DEF new, row
  <2>. QED
    BY <1>1, <1>2, <1>5, <2>1, DataAssumption
       DEF Settled, Belongs, Owes, Announced, CheckSaleType, SaleTypes
<1>6. AllSettled => Settled(new)
  BY <1>1, <1>5 DEF AllSettled
<1>. QED
  BY <1>1, <1>3, <1>6, OneDeclares

\* assignShop and updateSale.
LEMMA PlainDeclares ==
  ASSUME IInv, NEW w \in Workers, NEW u \in Users, NEW p \in Products, Present(p), Asks(w),
         NEW data, Start(w, Update(u, One(p, data), {})),
         DOMAIN data \subseteq {"shop", "soldPrice", "appliedCommission"}
  PROVE  Declares(w)
<1>1. IsWrite(data) /\ product[p] \in Row
  <2>1. DOMAIN One(p, data) = {p} /\ One(p, data)[p] = data
    BY DEF One
  <2>. QED
    BY <2>1, WritesTyped DEF Update
<1>2. AllSettled => Settled(data ++ product[p])
  BY <1>1, PlainSettles DEF AllSettled
<1>. QED
  BY <1>2, OneDeclares DEF Gives

\* assignShop.
LEMMA AssignShopDeclares ==
  ASSUME IInv, NEW w \in Workers, NEW u \in Users, NEW p \in Products, NEW shop \in Places,
         AssignShop(w, u, p, shop)
  PROVE  Declares(w)
<1>1. Present(p) /\ Start(w, Update(u, One(p, [shop |-> shop]), {}))
  BY DEF AssignShop, Reads
<1>. QED
  BY <1>1, AssignShopAsks, PlainDeclares

\* updateSale.
LEMMA UpdateSaleDeclares ==
  ASSUME IInv, NEW w \in Workers, NEW u \in Users, NEW p \in Products,
         NEW priceArg \in Optional(Prices \cup Blank), NEW rateArg \in Optional(Rates \cup Blank),
         UpdateSale(w, u, p, priceArg, rateArg)
  PROVE  Declares(w)
<1>. DEFINE data == When(priceArg # {}, [soldPrice |-> Given(priceArg, Null)])
                      ++ When(rateArg # {}, [appliedCommission |-> Given(rateArg, Null)])
<1>1. Present(p) /\ Start(w, Update(u, One(p, data), {}))
  BY DEF UpdateSale, Reads
<1>2. DOMAIN data \subseteq {"soldPrice", "appliedCommission"}
  BY DEF ++, When, NoField
<1>. HIDE DEF data
<1>. QED
  BY <1>1, <1>2, UpdateSaleAsks, PlainDeclares

\* toggleDepositorPayment.
LEMMA ToggleDepositorPaymentDeclares ==
  ASSUME IInv, NEW w \in Workers, NEW u \in Users, NEW p \in Products, NEW paid \in BOOLEAN,
         ToggleDepositorPayment(w, u, p, paid)
  PROVE  Declares(w)
<1>. DEFINE data == [depositorPaid |-> IF paid THEN "paid" ELSE "unpaid"]
<1>1. /\ Present(p) /\ product[p].saleType = "CONSIGNMENT" /\ product[p] \in Row
      /\ Start(w, Update(u, One(p, data), {}))
  BY DEF ToggleDepositorPayment, Reads, IInv, TypeOK
<1>2. IsWrite(data)
  BY FieldIsWrite
<1>3. /\ DOMAIN data = {"depositorPaid"} /\ data.depositorPaid # Null
  BY DataAssumption
<1>. HIDE DEF data
<1>4. AllSettled => Settled(data ++ product[p])
  BY <1>1, <1>2, <1>3, FieldsOver DEF AllSettled, Settled, Belongs, Owes, Announced, Gives
<1>. QED
  BY <1>1, <1>3, <1>4, OneDeclares DEF Gives

\* setOnline: what has left the stock is not published.
LEMMA SetOnlineDeclares ==
  ASSUME IInv, NEW w \in Workers, NEW u \in Users, NEW p \in Products, NEW isOnline \in BOOLEAN,
         SetOnline(w, u, p, isOnline)
  PROVE  Declares(w)
<1>. DEFINE data == [isOnline |-> isOnline] ++ When(~isOnline, [pendingRemoval |-> FALSE])
<1>1. /\ Present(p) /\ (isOnline => product[p].status \notin LeavesStock) /\ product[p] \in Row
      /\ Start(w, Update(u, One(p, data), {}))
  BY DEF SetOnline, Reads, IInv, TypeOK
<1>2. IsWrite([isOnline |-> isOnline]) /\ IsWrite(When(~isOnline, [pendingRemoval |-> FALSE]))
  BY FieldIsWrite, WhenIsWrite
<1>3. IsWrite(data)
  BY <1>2, OverIsWrite
<1>4. /\ DOMAIN data \subseteq {"isOnline", "pendingRemoval"}
      /\ Gives(data, "isOnline") /\ data.isOnline = isOnline
  BY DEF ++, When, NoField, Gives
<1>. HIDE DEF data
<1>5. AllSettled => Settled(data ++ product[p])
  BY <1>1, <1>3, <1>4, FieldsOver DEF AllSettled, Settled, Belongs, Owes, Announced, Gives
<1>. QED
  BY <1>1, <1>4, <1>5, OneDeclares DEF Gives

\* A removal done leaves nothing on the site.
LEMMA RemovalDoneSettles ==
  ASSUME NEW row \in Row, Settled(row)
  PROVE  Settled(RemovalDone ++ row)
<1>1. /\ DOMAIN RemovalDone = {"pendingRemoval", "isOnline"}
      /\ RemovalDone.isOnline = FALSE /\ IsWrite(RemovalDone)
  BY FieldIsWrite DEF RemovalDone
<1>. QED
  BY <1>1, FieldsOver DEF Settled, Belongs, Owes, Announced, Gives

\* markRemovalDone.
LEMMA MarkRemovalDoneDeclares ==
  ASSUME IInv, NEW w \in Workers, NEW u \in Users, NEW p \in Products, MarkRemovalDone(w, u, p)
  PROVE  Declares(w)
<1>1. Present(p) /\ Start(w, Update(u, One(p, RemovalDone), {})) /\ product[p] \in Row
  BY DEF MarkRemovalDone, Reads, IInv, TypeOK
<1>2. ~Gives(RemovalDone, "status")
  BY DEF RemovalDone, Gives
<1>. QED
  BY <1>1, <1>2, RemovalDoneSettles, OneDeclares DEF AllSettled

\* markRemovalsDone.
LEMMA MarkRemovalsDoneDeclares ==
  ASSUME IInv, NEW w \in Workers, NEW u \in Users, NEW S \in SUBSET Products,
         MarkRemovalsDone(w, u, S)
  PROVE  Declares(w)
<1>. DEFINE pending == {p \in S : Present(p) /\ product[p].pendingRemoval}
            writes == [p \in pending |-> RemovalDone]
            r == UpdateMany(u, writes)
<1>1. Start(w, r)
  BY DEF MarkRemovalsDone
<1>2. \A p \in DOMAIN writes : /\ p \in Products /\ product[p] \in Row /\ Present(p)
                              /\ writes[p] = RemovalDone
  BY DEF IInv, TypeOK
<1>3. ~Gives(RemovalDone, "status")
  BY DEF RemovalDone, Gives
<1>. HIDE DEF writes
<1>4. r.kind = "update" /\ r.writes = writes
  BY DEF UpdateMany
<1>. HIDE DEF r
<1>5. ByStaff(r) /\ MovesTogether(r.writes)
  BY <1>2, <1>3, <1>4 DEF ByStaff, MovesTogether
<1>6. AllSettled => Current(r)
  BY <1>2, <1>4, <1>5, RemovalDoneSettles DEF Current, AllSettled
<1>. QED
  BY <1>1, <1>5, <1>6 DEF Declares

\* remove, and the deletion of a contract, which no product must be on.
LEMMA DeletesDeclare ==
  ASSUME NEW w \in Workers, NEW u \in Users
  PROVE  /\ \A p \in Products : Delete(w, u, p) => Declares(w)
         /\ \A c \in Contracts : DeleteContract(w, u, c) => Declares(w)
<1>1. ASSUME NEW p \in Products, Delete(w, u, p) PROVE Declares(w)
  <2>1. Start(w, Deletion(p))
    BY <1>1 DEF Delete
  <2>2. ByStaff(Deletion(p)) /\ Current(Deletion(p))
    BY DataAssumption DEF Deletion, ByStaff, Current
  <2>. QED
    BY <2>1, <2>2 DEF Declares
<1>2. ASSUME NEW c \in Contracts, DeleteContract(w, u, c) PROVE Declares(w)
  <2>1. Start(w, Deletion(c))
    BY <1>2 DEF DeleteContract
  <2>2. ByStaff(Deletion(c)) /\ Current(Deletion(c))
    BY <1>2 DEF Deletion, ByStaff, Current, DeleteContract
  <2>. QED
    BY <2>1, <2>2 DEF Declares
<1>. QED
  BY <1>1, <1>2

\* attachProducts.
LEMMA AttachProductsDeclares ==
  ASSUME IInv, NEW w \in Workers, NEW u \in Users, NEW c \in Contracts, NEW S \in SUBSET Products,
         AttachProducts(w, u, c, S)
  PROVE  Declares(w)
<1>. DEFINE data == [depositContract |-> c, saleType |-> "CONSIGNMENT", depositorPaid |-> "unpaid"]
            writes == [p \in S |-> data]
            r == Update(u, writes, {c})
<1>1. Start(w, r) /\ Present(c) /\ \A p \in S : Present(p) /\ product[p] \in Row
  BY DEF AttachProducts, IInv, TypeOK
<1>2. IsWrite(data)
  BY FieldIsWrite DEF SaleTypes
<1>3. /\ DOMAIN data = {"depositContract", "saleType", "depositorPaid"}
      /\ data.depositContract = c /\ data.saleType = "CONSIGNMENT" /\ data.depositorPaid = "unpaid"
  OBVIOUS
<1>. HIDE DEF data
<1>4. ASSUME NEW row \in Row, Settled(row) PROVE Settled(data ++ row)
  BY <1>1, <1>2, <1>3, <1>4, FieldsOver, DataAssumption
     DEF Settled, Belongs, Owes, Announced, Gives
<1>5. DOMAIN writes = S /\ \A p \in S : writes[p] = data
  OBVIOUS
<1>. HIDE DEF writes
<1>6. r.kind = "update" /\ r.writes = writes
  BY DEF Update
<1>. HIDE DEF r
<1>7. ByStaff(r) /\ MovesTogether(r.writes)
  BY <1>3, <1>5, <1>6 DEF ByStaff, MovesTogether, Gives
<1>8. AllSettled => Current(r)
  BY <1>1, <1>4, <1>5, <1>6, <1>7 DEF Current, AllSettled
<1>. QED
  BY <1>1, <1>7, <1>8 DEF Declares

\* detachProduct.
LEMMA DetachProductDeclares ==
  ASSUME IInv, NEW w \in Workers, NEW u \in Users, NEW c \in Contracts, NEW p \in Products,
         DetachProduct(w, u, c, p)
  PROVE  Declares(w)
<1>. DEFINE data == [depositContract |-> Null, saleType |-> "RESALE", depositorPaid |-> Null]
<1>1. Present(p) /\ Start(w, Update(u, One(p, data), {})) /\ product[p] \in Row
  BY DEF DetachProduct, IInv, TypeOK
<1>2. IsWrite(data)
  BY FieldIsWrite DEF SaleTypes
<1>3. /\ DOMAIN data = {"depositContract", "saleType", "depositorPaid"}
      /\ data.depositContract = Null /\ data.saleType = "RESALE" /\ data.depositorPaid = Null
  OBVIOUS
<1>. HIDE DEF data
<1>4. AllSettled => Settled(data ++ product[p])
  BY <1>1, <1>2, <1>3, FieldsOver DEF AllSettled, Settled, Belongs, Owes, Announced, Gives
<1>. QED
  BY <1>1, <1>3, <1>4, OneDeclares DEF Gives

-----------------------------------------------------------------------------
(* The five kinds of steps again, with what each brings.                   *)

\* A row that comes in suits the contracts there are, or that come with it.
Suits(row, born) ==
  IF row.saleType = "CONSIGNMENT"
  THEN /\ row.depositContract \in Contracts
       /\ Present(row.depositContract) \/ row.depositContract \in born
       /\ row.depositorPaid # Null
  ELSE row.depositContract = Null /\ row.depositorPaid = Null

Brings(w) ==
  \E u \in Users, born \in SUBSET Contracts : \E rows :
    /\ DOMAIN rows \subseteq Products
    /\ \A p \in DOMAIN rows : FreshRow(rows[p]) /\ Suits(rows[p], born)
    /\ Insert(w, u, rows, born)

\* A new row suits its contract.
LEMMA NewRowSuits ==
  ASSUME NEW saleType \in SaleTypes, NEW contract, NEW shop, NEW status, NEW born,
         IF saleType = "RESALE" THEN contract = Null
         ELSE contract \in Contracts /\ (Present(contract) \/ contract \in born)
  PROVE  Suits(NewRow(saleType, contract, shop, status), born)
BY DataAssumption DEF Suits, NewRow, SaleTypes

\* create, createLot and the creation of a contract.
LEMMA InsertionBrings ==
  ASSUME NEW w \in Workers, NEW u \in Users, Insertion(w, u)
  PROVE  Brings(w)
<1>1. ASSUME NEW p \in Products, NEW saleType \in SaleTypes, NEW contract \in Contracts \cup {Null},
             NEW shop \in Places, NEW status \in Statuses,
             Create(w, u, p, saleType, contract, shop, status)
      PROVE  Brings(w)
  <2>. DEFINE rows == [q \in {p} |-> NewRow(saleType, contract, shop, status)]
  <2>1. CheckSaleType(saleType, contract) /\ Insert(w, u, rows, {})
    BY <1>1 DEF Create
  <2>2. FreshRow(NewRow(saleType, contract, shop, status))
    BY NewRowFresh
  <2>3. Suits(NewRow(saleType, contract, shop, status), {})
    BY <2>1, NewRowSuits DEF CheckSaleType
  <2>4. DOMAIN rows \subseteq Products /\ \A q \in DOMAIN rows : FreshRow(rows[q]) /\ Suits(rows[q], {})
    BY <2>2, <2>3
  <2>. HIDE DEF rows
  <2>. QED
    BY <2>1, <2>4 DEF Brings
<1>2. ASSUME NEW S \in SUBSET Products, NEW shop \in Places, NEW statusOf \in [S -> Statuses],
             CreateLot(w, u, shop, statusOf)
      PROVE  Brings(w)
  <2>. DEFINE rows == [p \in DOMAIN statusOf |-> NewRow("RESALE", Null, shop, statusOf[p])]
  <2>1. Insert(w, u, rows, {})
    BY <1>2 DEF CreateLot
  <2>2. ASSUME NEW p \in S PROVE FreshRow(rows[p]) /\ Suits(rows[p], {})
    BY NewRowFresh, NewRowSuits DEF SaleTypes
  <2>3. DOMAIN rows = S
    OBVIOUS
  <2>. HIDE DEF rows
  <2>. QED
    BY <2>1, <2>2, <2>3 DEF Brings
<1>3. ASSUME NEW c \in Contracts, NEW S \in SUBSET Products, NEW shopOf \in [S -> Places],
             NEW statusOf \in [S -> Statuses], CreateContract(w, u, c, shopOf, statusOf)
      PROVE  Brings(w)
  <2>. DEFINE rows == [p \in DOMAIN statusOf |-> NewRow("CONSIGNMENT", c, shopOf[p], statusOf[p])]
  <2>1. Insert(w, u, rows, {c})
    BY <1>3 DEF CreateContract
  <2>2. ASSUME NEW p \in S PROVE FreshRow(rows[p]) /\ Suits(rows[p], {c})
    BY NewRowFresh, NewRowSuits DEF SaleTypes
  <2>3. DOMAIN rows = S
    OBVIOUS
  <2>. HIDE DEF rows
  <2>. QED
    BY <2>1, <2>2, <2>3 DEF Brings
<1>. QED
  BY <1>1, <1>2, <1>3 DEF Insertion, Some

\* What comes in settled is also what IInv asks.
LEMMA BringsInserts ==
  ASSUME NEW w, Brings(w)
  PROVE  Inserts(w)
BY DEF Brings, Inserts

\* Whatever the request, a step is of one of five kinds.
LEMMA NextKinds ==
  ASSUME IInv, Next
  PROVE  \E w \in Workers :
           Brings(w) \/ Declares(w) \/ CommitUpdate(w) \/ CommitDelete(w) \/ Fail(w)
<1>1. ASSUME NEW w \in Workers, NEW u \in Users, NEW p \in Products, ProductRequest(w, u, p)
      PROVE  Declares(w)
  BY <1>1, ChangeStatusDeclares, UpdateProductDeclares, AssignShopDeclares, UpdateSaleDeclares,
     ToggleDepositorPaymentDeclares, SetOnlineDeclares, MarkRemovalDoneDeclares, DeletesDeclare
     DEF ProductRequest
<1>2. ASSUME NEW w \in Workers, NEW u \in Users, GroupRequest(w, u)
      PROVE  Declares(w)
  BY <1>2, SellManyDeclares, MarkRemovalsDoneDeclares DEF GroupRequest, Some
<1>3. ASSUME NEW w \in Workers, NEW u \in Users, NEW c \in Contracts, ContractRequest(w, u, c)
      PROVE  Declares(w)
  BY <1>3, AttachProductsDeclares, DetachProductDeclares, DeletesDeclare DEF ContractRequest, Some
<1>. QED
  BY <1>1, <1>2, <1>3, InsertionBrings DEF Next

\* What a creation leaves, product by product.
Leaves(w, u, rows, born) ==
  /\ req[w] = Idle /\ req' = req
  /\ \A x \in DOMAIN rows : life[x] = "unborn"
  /\ life' = [x \in Products \cup Contracts |->
               IF x \in DOMAIN rows \cup born THEN "present" ELSE life[x]]
  /\ product' = [p \in Products |-> IF p \in DOMAIN rows THEN rows[p] ELSE product[p]]
  /\ history' = [p \in Products |->
                  IF p \in DOMAIN rows THEN <<[status |-> rows[p].status, by |-> u]>>
                  ELSE history[p]]

LEMMA BringsLeaves ==
  ASSUME TypeOK, NEW w, Brings(w)
  PROVE  \E u \in Users, born \in SUBSET Contracts : \E rows :
           /\ DOMAIN rows \subseteq Products
           /\ \A p \in DOMAIN rows : FreshRow(rows[p]) /\ Suits(rows[p], born)
           /\ Leaves(w, u, rows, born)
<1>1. PICK u \in Users, born \in SUBSET Contracts : \E rows :
        /\ DOMAIN rows \subseteq Products
        /\ \A p \in DOMAIN rows : FreshRow(rows[p]) /\ Suits(rows[p], born)
        /\ Insert(w, u, rows, born)
  BY DEF Brings
<1>2. PICK rows :
        /\ DOMAIN rows \subseteq Products
        /\ \A p \in DOMAIN rows : FreshRow(rows[p]) /\ Suits(rows[p], born)
        /\ Insert(w, u, rows, born)
  BY <1>1
<1>3. Leaves(w, u, rows, born)
  <2>1. DOMAIN rows \subseteq Products /\ Insert(w, u, rows, born)
    BY <1>2
  <2>. QED
    BY <2>1 DEF Insert, ++, TypeOK, Leaves
<1>. QED
  BY <1>2, <1>3

-----------------------------------------------------------------------------
(* Who moved a product, however the requests overlap.                      *)

\* What SiteStaffOnlySellOnline says of one product.
MovedByStaff(h) == \A i \in 2..Len(h) : StaffMay(h[i].by, h[i].status)

StaffInv ==
  /\ \A p \in Products : MovedByStaff(history[p])
  /\ \A w \in Workers : ByStaff(req[w])

\* Every step keeps it.
LEMMA NextKeepsStaff ==
  ASSUME IInv, StaffInv, [Next]_vars
  PROVE  StaffInv'
<1>. USE DEF StaffInv
<1>1. TypeOK
  BY DEF IInv
<1>2. ASSUME NEW w \in Workers, Brings(w) PROVE StaffInv'
  <2>1. PICK u \in Users, born \in SUBSET Contracts : \E rows : Leaves(w, u, rows, born)
    BY <1>1, <1>2, BringsLeaves
  <2>2. PICK rows : Leaves(w, u, rows, born)
    BY <2>1
  <2>3. /\ req' = req
        /\ history' = [p \in Products |->
                         IF p \in DOMAIN rows THEN <<[status |-> rows[p].status, by |-> u]>>
                         ELSE history[p]]
    BY <2>2 DEF Leaves
  <2>4. \A p \in Products : MovedByStaff(history'[p])
    BY <2>3 DEF MovedByStaff
  <2>. QED
    BY <2>3, <2>4
<1>3. ASSUME NEW w \in Workers, Declares(w) PROVE StaffInv'
  <2>1. PICK r : Start(w, r) /\ ByStaff(r)
    BY <1>3 DEF Declares
  <2>2. history' = history /\ req' = [req EXCEPT ![w] = r]
    BY <2>1 DEF Start
  <2>3. \A v \in Workers : ByStaff(req'[v])
    BY <1>1, <2>1, <2>2 DEF TypeOK
  <2>. QED
    BY <2>2, <2>3
<1>4. ByStaff(Idle)
  BY DEF ByStaff, Idle
<1>5. ASSUME NEW w \in Workers, Finish(w) PROVE \A v \in Workers : ByStaff(req'[v])
  BY <1>1, <1>4, <1>5 DEF Finish, TypeOK
<1>6. ASSUME NEW w \in Workers, CommitUpdate(w) PROVE StaffInv'
  <2>. DEFINE r == req[w]
  <2>1. ByStaff(r) /\ r.kind = "update" /\ Finish(w)
    BY <1>6 DEF CommitUpdate
  <2>2. ASSUME NEW p \in Products PROVE MovedByStaff(history'[p])
    <3>1. history[p] \in Seq(HistoryRow) /\ MovedByStaff(history[p])
      BY <1>1 DEF TypeOK
    <3>2. \/ history'[p] = history[p]
          \/ /\ p \in DOMAIN r.writes /\ Gives(r.writes[p], "status")
             /\ history'[p] = Append(history[p], [status |-> r.writes[p].status, by |-> r.by])
      BY <1>6 DEF CommitUpdate, Moved, Gives
    <3>3. CASE history'[p] # history[p]
      <4>1. StaffMay(r.by, r.writes[p].status)
        BY <2>1, <3>2, <3>3 DEF ByStaff
      <4>. HIDE DEF r
      <4>. QED
        BY <3>1, <3>2, <3>3, <4>1 DEF MovedByStaff
    <3>. QED
      BY <3>1, <3>3
  <2>. QED
    BY <1>5, <2>1, <2>2
<1>7. ASSUME NEW w \in Workers, CommitDelete(w) PROVE StaffInv'
  <2>1. \A p \in Products : history'[p] \in {<<>>, history[p]}
    BY <1>7 DEF CommitDelete
  <2>2. \A p \in Products : MovedByStaff(history'[p])
    BY <2>1 DEF MovedByStaff
  <2>. QED
    BY <1>5, <1>7, <2>2 DEF CommitDelete
<1>8. ASSUME NEW w \in Workers, Fail(w) PROVE StaffInv'
  BY <1>5, <1>8 DEF Fail
<1>9. CASE UNCHANGED vars
  BY <1>9 DEF vars
<1>. QED
  BY <1>2, <1>3, <1>6, <1>7, <1>8, <1>9, NextKinds

\* Whoever moved a product could: a manager, an employee who may change statuses
\* in some shop, or one selling on the site; in a basket as one by one, and with
\* any number of requests in flight.
THEOREM SiteStaffSellsOnline == Spec => []SiteStaffOnlySellOnline
<1>1. Init => StaffInv
  BY DEF Init, StaffInv, MovedByStaff, ByStaff, Idle
<1>2. IInv /\ StaffInv /\ [Next]_vars => StaffInv'
  BY NextKeepsStaff
<1>3. StaffInv => SiteStaffOnlySellOnline
  BY DEF StaffInv, MovedByStaff, StaffMay, SiteStaffOnlySellOnline
<1>. QED
  BY <1>1, <1>2, <1>3, Invariance, PTL DEF Spec

-----------------------------------------------------------------------------
(* One request at a time: nothing comes between its two steps, so that what *)
(* it was decided on is still there when it is written.                     *)

AloneInv == AllSettled /\ \A w \in Workers : Current(req[w])

\* One of the products of S moves to t, or all of them do.
MovesAll(S, t, u) ==
  /\ life' = life
  /\ \A p \in S : Present(p) /\ MayFollow(product[p].status, t)
  /\ \A p \in Products :
       /\ product'[p].status = IF p \in S THEN t ELSE product[p].status
       /\ history'[p] = IF p \in S THEN Append(history[p], [status |-> t, by |-> u])
                        ELSE history[p]

\* No request is left once one is done, and nothing else was in flight.
LEMMA AloneFinish ==
  ASSUME OneAtATime, TypeOK, NEW w \in Workers, Finish(w)
  PROVE  \A v \in Workers : req'[v] = Idle
BY DEF OneAtATime, TypeOK, Finish

\* A request that is alone writes what suits the rows, and moves products
\* together along the flow.
LEMMA AloneUpdate ==
  ASSUME IInv, AloneInv, NEW w \in Workers, CommitUpdate(w)
  PROVE  /\ AllSettled'
         /\ \E S \in SUBSET Products, t \in Statuses, u \in Users : MovesAll(S, t, u)
<1>. DEFINE r == req[w]
            written == {p \in DOMAIN r.writes : Present(p)}
            moved == Moved(r.writes) \cap written
<1>1. TypeOK
  BY DEF IInv
<1>2. /\ r.kind = "update" /\ life' = life
      /\ product' = [p \in Products |-> IF p \in written THEN r.writes[p] ++ product[p]
                                        ELSE product[p]]
      /\ history' = [p \in Products |->
                       IF p \in moved THEN Append(history[p], [status |-> r.writes[p].status, by |-> r.by])
                       ELSE history[p]]
  BY DEF CommitUpdate
<1>3. /\ \A p \in DOMAIN r.writes : Present(p) /\ Settled(r.writes[p] ++ product[p])
      /\ MovesTogether(r.writes)
  BY <1>2 DEF AloneInv, Current
<1>4. /\ r.by \in Users
      /\ \A p \in DOMAIN r.writes : p \in Products /\ IsWrite(r.writes[p])
  BY <1>1, <1>2 DEF TypeOK, IsRequest, Idle, Deletion
<1>5. written = DOMAIN r.writes /\ moved = Moved(r.writes)
  BY <1>3 DEF Moved
<1>6. AllSettled'
  <2>1. \A p \in Products : IF Present(p) THEN Settled(product'[p]) ELSE product'[p] = NoRow
    BY <1>2, <1>3, <1>5 DEF AloneInv, AllSettled
  <2>. QED
    BY <1>2, <2>1 DEF AllSettled, Settled, Belongs, Owes, Announced, Present
<1>7. ASSUME NEW p \in Products
      PROVE  product'[p].status = IF p \in moved THEN r.writes[p].status ELSE product[p].status
  <2>1. product[p] \in Row
    BY <1>1 DEF TypeOK
  <2>2. CASE p \in written
    <3>1. product'[p] = r.writes[p] ++ product[p] /\ IsWrite(r.writes[p])
      BY <1>2, <1>4, <2>2
    <3>2. Gives(r.writes[p], "status") <=> p \in moved
      BY <1>5, <2>2 DEF Gives, Moved
    <3>. HIDE DEF moved
    <3>. QED
      BY <2>1, <3>1, <3>2, FieldsOver
  <2>3. CASE p \notin written
    BY <1>2, <2>3
  <2>. QED
    BY <2>2, <2>3
<1>8. CASE \A p \in DOMAIN r.writes : ~Gives(r.writes[p], "status")
  <2>1. moved = {}
    BY <1>8 DEF Moved, Gives
  <2>2. MovesAll({}, DefaultStatus, r.by)
    <3>. HIDE DEF moved
    <3>. QED
      BY <1>2, <1>7, <2>1 DEF MovesAll
  <2>. QED
    BY <1>4, <1>6, <2>2, StatusFlowAssumption
<1>9. CASE \E t \in Statuses : \A p \in DOMAIN r.writes :
             Gives(r.writes[p], "status") /\ r.writes[p].status = t /\ MayFollow(product[p].status, t)
  <2>1. PICK t \in Statuses : \A p \in DOMAIN r.writes :
          Gives(r.writes[p], "status") /\ r.writes[p].status = t /\ MayFollow(product[p].status, t)
    BY <1>9
  <2>2. moved = DOMAIN r.writes
    BY <1>5, <2>1 DEF Moved, Gives
  <2>3. MovesAll(moved, t, r.by) /\ moved \in SUBSET Products
    <3>. HIDE DEF moved
    <3>. QED
      BY <1>2, <1>3, <1>4, <1>7, <2>1, <2>2 DEF MovesAll
  <2>. QED
    BY <1>4, <1>6, <2>3
<1>. QED
  BY <1>3, <1>8, <1>9 DEF MovesTogether

\* A deletion that is alone takes no contract away from a product.
LEMMA AloneDelete ==
  ASSUME IInv, AloneInv, NEW w \in Workers, CommitDelete(w)
  PROVE  AllSettled'
<1>. DEFINE x == req[w].target
<1>1. TypeOK /\ AllSettled
  BY DEF IInv, AloneInv
<1>2. /\ req[w].kind = "delete" /\ Present(x)
      /\ life' = [life EXCEPT ![x] = "deleted"]
      /\ product' = [p \in Products |->
                       IF p = x THEN NoRow
                       ELSE IF product[p].depositContract = x
                            THEN [depositContract |-> Null] ++ product[p]
                            ELSE product[p]]
  BY DEF CommitDelete
<1>3. x \in Products \cup Contracts
  BY <1>1, <1>2 DEF TypeOK, IsRequest, Idle, Deletion
<1>4. x \in Contracts => \A p \in Products : Present(p) => product[p].depositContract # x
  BY <1>2 DEF AloneInv, Current
<1>5. ASSUME NEW p \in Products, Present(p), p # x
      PROVE  product'[p] = product[p] /\ (product[p].depositContract \in Contracts => product[p].depositContract # x)
  <2>1. product[p] \in Row
    BY <1>1 DEF TypeOK
  <2>2. CASE product[p].depositContract = x
    <3>1. x = Null
      BY <1>3, <1>4, <1>5, <2>1, <2>2, DataAssumption DEF Row
    <3>2. [depositContract |-> Null] ++ product[p] = product[p]
      BY <2>1, <2>2, <3>1 DEF ++, Row
    <3>. QED
      BY <1>2, <1>5, <2>2, <3>1, <3>2, DataAssumption
  <2>3. CASE product[p].depositContract # x
    BY <1>2, <1>5, <2>3
  <2>. QED
    BY <2>2, <2>3
<1>6. ASSUME NEW p \in Products
      PROVE  IF life'[p] = "present" THEN Settled(product[p])' ELSE product'[p] = NoRow
  <2>1. product[p] \in Row
    BY <1>1 DEF TypeOK
  <2>2. CASE p = x
    BY <1>1, <1>2, <2>2 DEF TypeOK
  <2>3. CASE p # x /\ Present(p)
    <3>1. Settled(product[p]) /\ life'[p] = "present"
      BY <1>1, <1>2, <2>3 DEF AllSettled, Present, TypeOK
    <3>2. product'[p] = product[p]
      BY <1>5, <2>3
    <3>3. product[p].saleType = "CONSIGNMENT" => life'[product[p].depositContract] = "present"
      BY <1>1, <1>2, <1>5, <2>1, <2>3, <3>1 DEF Settled, Belongs, Present, Row, TypeOK
    <3>. QED
      BY <3>1, <3>2, <3>3 DEF Settled, Belongs, Owes, Announced, Present
  <2>4. CASE p # x /\ ~Present(p)
    <3>1. product[p] = NoRow /\ life'[p] # "present"
      BY <1>1, <1>2, <2>4 DEF AllSettled, Present, TypeOK
    <3>2. [depositContract |-> Null] ++ NoRow = NoRow
      BY NoRowTyped DEF ++, NoRow, NewRow, Row
    <3>. QED
      BY <1>2, <2>4, <3>1, <3>2
  <2>. QED
    BY <2>2, <2>3, <2>4
<1>. QED
  BY <1>6 DEF AllSettled, Present

\* What comes in is settled, and takes nothing away from what was.
LEMMA AloneInsert ==
  ASSUME IInv, AloneInv, NEW w \in Workers, Brings(w)
  PROVE  AllSettled'
<1>1. TypeOK /\ AllSettled
  BY DEF IInv, AloneInv
<1>2. PICK u \in Users, born \in SUBSET Contracts : \E rows :
        /\ DOMAIN rows \subseteq Products
        /\ \A p \in DOMAIN rows : FreshRow(rows[p]) /\ Suits(rows[p], born)
        /\ Leaves(w, u, rows, born)
  BY <1>1, BringsLeaves
<1>3. PICK rows :
        /\ DOMAIN rows \subseteq Products
        /\ \A p \in DOMAIN rows : FreshRow(rows[p]) /\ Suits(rows[p], born)
        /\ Leaves(w, u, rows, born)
  BY <1>2
<1>4. /\ life' = [x \in Products \cup Contracts |->
                   IF x \in DOMAIN rows \cup born THEN "present" ELSE life[x]]
      /\ product' = [p \in Products |-> IF p \in DOMAIN rows THEN rows[p] ELSE product[p]]
  BY <1>3 DEF Leaves
<1>5. \A c \in Contracts : Present(c) \/ c \in born => life'[c] = "present"
  BY <1>4 DEF Present
<1>6. ASSUME NEW p \in Products
      PROVE  IF life'[p] = "present" THEN Settled(product[p])' ELSE product'[p] = NoRow
  <2>1. product[p] \in Row
    BY <1>1 DEF TypeOK
  <2>2. CASE p \in DOMAIN rows
    <3>1. product'[p] = rows[p] /\ life'[p] = "present"
      BY <1>4, <2>2
    <3>2. FreshRow(rows[p]) /\ Suits(rows[p], born)
      BY <1>3, <2>2
    <3>. QED
      BY <1>5, <3>1, <3>2, DataAssumption
         DEF Settled, Belongs, Owes, Announced, FreshRow, Suits, Present
  <2>3. CASE p \notin DOMAIN rows /\ Present(p)
    <3>1. product'[p] = product[p] /\ life'[p] = "present" /\ Settled(product[p])
      BY <1>1, <1>4, <2>3 DEF AllSettled, Present
    <3>2. product[p].saleType = "CONSIGNMENT" => life'[product[p].depositContract] = "present"
      BY <1>5, <2>1, <3>1 DEF Settled, Belongs, Row
    <3>. QED
      BY <3>1, <3>2 DEF Settled, Belongs, Owes, Announced, Present
  <2>4. CASE p \notin DOMAIN rows /\ ~Present(p)
    <3>1. p \notin born
      BY DataAssumption
    <3>. QED
      BY <1>1, <1>4, <2>4, <3>1 DEF AllSettled, Present
  <2>. QED
    BY <2>2, <2>3, <2>4
<1>. QED
  BY <1>6 DEF AllSettled, Present

\* Every step keeps the rows settled, and the request in flight up to date.
LEMMA NextKeepsAlone ==
  ASSUME OneAtATime, IInv, AloneInv, [Next]_vars
  PROVE  AloneInv'
<1>1. TypeOK /\ AllSettled
  BY DEF IInv, AloneInv
<1>2. ASSUME \A v \in Workers : req'[v] = Idle
      PROVE  \A v \in Workers : Current(req[v])'
  BY <1>2 DEF Current, Idle
<1>3. ASSUME NEW w \in Workers, Brings(w) PROVE AloneInv'
  <2>1. PICK u \in Users, born \in SUBSET Contracts : \E rows :
          DOMAIN rows \subseteq Products /\ Insert(w, u, rows, born)
    BY <1>3 DEF Brings
  <2>2. req[w] = Idle /\ req' = req
    BY <2>1 DEF Insert
  <2>3. \A v \in Workers : req'[v] = Idle
    BY <2>2 DEF OneAtATime
  <2>. QED
    BY <1>2, <1>3, <2>3, AloneInsert DEF AloneInv
<1>4. ASSUME NEW w \in Workers, Declares(w) PROVE AloneInv'
  <2>1. PICK r : Start(w, r) /\ Current(r)
    BY <1>1, <1>4 DEF Declares
  <2>2. UNCHANGED <<life, product>> /\ req' = [req EXCEPT ![w] = r]
    BY <2>1 DEF Start
  <2>3. \A v \in Workers : req'[v] = r
    BY <1>1, <2>2 DEF OneAtATime, TypeOK
  <2>4. AllSettled'
    BY <1>1, <2>2 DEF AllSettled, Settled, Belongs, Owes, Announced, Present
  <2>5. \A v \in Workers : Current(req[v])'
    BY <2>1, <2>2, <2>3
       DEF Current, MovesTogether, Settled, Belongs, Owes, Announced, Present
  <2>. QED
    BY <2>4, <2>5 DEF AloneInv
<1>5. ASSUME NEW w \in Workers, CommitUpdate(w) PROVE AloneInv'
  <2>1. AllSettled'
    BY <1>5, AloneUpdate
  <2>2. \A v \in Workers : req'[v] = Idle
    BY <1>1, <1>5, AloneFinish DEF CommitUpdate
  <2>. QED
    BY <1>2, <2>1, <2>2 DEF AloneInv
<1>6. ASSUME NEW w \in Workers, CommitDelete(w) PROVE AloneInv'
  <2>1. \A v \in Workers : req'[v] = Idle
    BY <1>1, <1>6, AloneFinish DEF CommitDelete
  <2>. QED
    BY <1>2, <1>6, <2>1, AloneDelete DEF AloneInv
<1>7. ASSUME NEW w \in Workers, Fail(w) PROVE AloneInv'
  <2>1. UNCHANGED <<life, product>> /\ \A v \in Workers : req'[v] = Idle
    BY <1>1, <1>7, AloneFinish DEF Fail
  <2>2. AllSettled'
    BY <1>1, <2>1 DEF AllSettled, Settled, Belongs, Owes, Announced, Present
  <2>. QED
    BY <1>2, <2>1, <2>2 DEF AloneInv
<1>8. CASE UNCHANGED vars
  <2>1. life' = life /\ product' = product /\ req' = req
    BY <1>8 DEF vars
  <2>2. AllSettled'
    BY <1>1, <2>1 DEF AllSettled, Settled, Belongs, Owes, Announced, Present
  <2>3. \A v \in Workers : Current(req[v])'
    BY <2>1 DEF AloneInv, Current, MovesTogether, Settled, Belongs, Owes, Announced, Present
  <2>. QED
    BY <2>2, <2>3 DEF AloneInv
<1>. QED
  BY <1>3, <1>4, <1>5, <1>6, <1>7, <1>8, NextKinds

\* Nothing is there at first, and no request.
LEMMA InitAlone == ASSUME Init PROVE AloneInv
BY DEF Init, AloneInv, AllSettled, Current, Present, Idle

-----------------------------------------------------------------------------
(* The theorems about requests that come one at a time.                    *)

\* The invariant behind them.
THEOREM SettledInvariance ==
  ASSUME OneAtATime
  PROVE  Spec => [](IInv /\ AloneInv)
<1>1. Init => AloneInv
  BY InitAlone
<1>2. IInv /\ AloneInv /\ [Next]_vars => AloneInv'
  BY NextKeepsAlone
<1>. QED
  BY <1>1, <1>2, Invariance, PTL DEF Spec

\* A deposited product always belongs to a contract that exists and a bought one
\* to none, whatever is attached, detached, retyped or deleted.
THEOREM ContractsMatch ==
  ASSUME OneAtATime
  PROVE  Spec => []ContractMatchesSaleType
<1>1. AloneInv => ContractMatchesSaleType
  BY DEF AloneInv, AllSettled, Settled, Belongs, ContractMatchesSaleType
<1>. QED
  BY <1>1, SettledInvariance, PTL

\* There is a debt to a depositor exactly on what is deposited.
THEOREM DebtsMatch ==
  ASSUME OneAtATime
  PROVE  Spec => []DebtMatchesSaleType
<1>1. AloneInv => DebtMatchesSaleType
  BY DEF AloneInv, AllSettled, Settled, Owes, DebtMatchesSaleType
<1>. QED
  BY <1>1, SettledInvariance, PTL

\* No listing is left up for a product that is gone without someone being told.
THEOREM ListingsAreNotForgotten ==
  ASSUME OneAtATime
  PROVE  Spec => []NoForgottenListing
<1>1. AloneInv => NoForgottenListing
  BY DEF AloneInv, AllSettled, Settled, Announced, NoForgottenListing, ForgottenListing
<1>. QED
  BY <1>1, SettledInvariance, PTL

\* A product sold on the site is no longer announced there.
THEOREM OnlineSalesAreUnlisted ==
  ASSUME OneAtATime
  PROVE  Spec => []OnlineSaleIsUnlisted
<1>1. AloneInv => OnlineSaleIsUnlisted
  BY NoRowFresh DEF AloneInv, AllSettled, Settled, Announced, OnlineSaleIsUnlisted, FreshRow
<1>. QED
  BY <1>1, SettledInvariance, PTL

-----------------------------------------------------------------------------
(* Statuses: what is blocked stays so, and the ledger.                     *)

\* No arrow leads out of the statuses that forbid a sale.
BlockedForGood == \A s \in BlocksSale, t \in Statuses : Drawn(s, t) => t \in BlocksSale

\* The flow every company receives is such a flow: no arrow at all leaves what is
\* given back or withdrawn.
THEOREM BaseFlowBlocksForGood ==
  ASSUME Statuses = BaseStatuses, BlocksSale = BaseBlocksSale, Transitions = BaseTransitions
  PROVE  BlockedForGood
<1>1. <<"En rayon", "En stock">> \in Transitions
  BY DEF BaseTransitions, InStock
<1>2. ASSUME NEW s \in BlocksSale, NEW t PROVE <<s, t>> \notin Transitions
  <2>1. s \notin InStock /\ s \notin Sales
    BY DEF BaseBlocksSale, InStock, Sales, Endings
  <2>. QED
    BY <2>1 DEF BaseTransitions
<1>. QED
  BY <1>1, <1>2 DEF BlockedForGood, Drawn

\* Once blocked, blocked and unsold.
BlockedStays(h) ==
  \A i, j \in 1..Len(h) :
    i < j /\ h[i].status \in BlocksSale => h[j].status \in BlocksSale \ IsSale

AllBlockedStay == \A p \in Products : BlockedStays(history[p])

\* A move along the flow, from the status the product has.
LEMMA MoveKeepsBlocked ==
  ASSUME BlockedForGood, NEW h \in Seq(HistoryRow), h # <<>>, BlockedStays(h),
         NEW t \in Statuses, NEW u, MayFollow(h[Len(h)].status, t)
  PROVE  BlockedStays(Append(h, [status |-> t, by |-> u]))
<1>. DEFINE n == Len(h)
            h2 == Append(h, [status |-> t, by |-> u])
<1>1. /\ n \in Nat /\ n > 0 /\ Len(h2) = n + 1
      /\ \A i \in 1..n : h2[i] = h[i]
      /\ h2[n + 1].status = t
  OBVIOUS
<1>2. h[n].status \in BlocksSale => t \in BlocksSale \ IsSale
  BY DEF MayFollow, BlockedForGood
<1>3. ASSUME NEW i \in 1..Len(h2), NEW j \in 1..Len(h2), i < j, h2[i].status \in BlocksSale
      PROVE  h2[j].status \in BlocksSale \ IsSale
  <2>1. i \in 1..n /\ h[i].status \in BlocksSale
    BY <1>1, <1>3
  <2>2. CASE j \in 1..n
    BY <1>1, <1>3, <2>1, <2>2 DEF BlockedStays
  <2>3. CASE j = n + 1
    <3>1. h[n].status \in BlocksSale
      BY <1>1, <2>1 DEF BlockedStays
    <3>. QED
      BY <1>1, <1>2, <2>3, <3>1
  <2>. QED
    BY <1>1, <2>2, <2>3
<1>. QED
  BY <1>3 DEF BlockedStays

\* What a step does to the history of a product: a first line, one more that the
\* flow allows from the last, or none.
LEMMA NextKeepsBlocked ==
  ASSUME OneAtATime, BlockedForGood, IInv, AloneInv, AllBlockedStay, [Next]_vars
  PROVE  AllBlockedStay'
<1>. SUFFICES ASSUME NEW p \in Products PROVE BlockedStays(history'[p])
  BY DEF AllBlockedStay
<1>1. TypeOK /\ BlockedStays(history[p]) /\ history[p] \in Seq(HistoryRow)
  BY DEF IInv, TypeOK, AllBlockedStay
<1>2. ASSUME NEW h, Len(h) \in {0, 1} PROVE BlockedStays(h)
  BY <1>2 DEF BlockedStays
<1>3. ASSUME NEW w \in Workers, Brings(w) PROVE BlockedStays(history'[p])
  <2>1. PICK u \in Users, born \in SUBSET Contracts : \E rows : Leaves(w, u, rows, born)
    BY <1>1, <1>3, BringsLeaves
  <2>2. PICK rows : Leaves(w, u, rows, born)
    BY <2>1
  <2>3. history'[p] \in {<<[status |-> rows[p].status, by |-> u]>>, history[p]}
    BY <2>2 DEF Leaves
  <2>4. Len(<<[status |-> rows[p].status, by |-> u]>>) = 1
    OBVIOUS
  <2>. QED
    BY <1>1, <1>2, <2>3, <2>4
<1>4. ASSUME NEW w \in Workers, CommitUpdate(w) PROVE BlockedStays(history'[p])
  <2>1. PICK S \in SUBSET Products, t \in Statuses, u \in Users : MovesAll(S, t, u)
    BY <1>4, AloneUpdate
  <2>2. CASE p \in S
    <3>1. /\ MayFollow(product[p].status, t) /\ Present(p)
          /\ history'[p] = Append(history[p], [status |-> t, by |-> u])
      BY <2>1, <2>2 DEF MovesAll
    <3>2. history[p] # <<>> /\ product[p].status = history[p][Len(history[p])].status
      BY <3>1 DEF IInv, HistoryTellsStatus
    <3>. QED
      BY <1>1, <3>1, <3>2, MoveKeepsBlocked
  <2>3. CASE p \notin S
    BY <1>1, <2>1, <2>3 DEF MovesAll
  <2>. QED
    BY <2>2, <2>3
<1>5. ASSUME NEW w \in Workers, CommitDelete(w) PROVE BlockedStays(history'[p])
  <2>1. history'[p] \in {<<>>, history[p]}
    BY <1>5 DEF CommitDelete
  <2>2. Len(<<>>) = 0
    OBVIOUS
  <2>. QED
    BY <1>1, <1>2, <2>1, <2>2
<1>6. ASSUME history' = history PROVE BlockedStays(history'[p])
  BY <1>1, <1>6
<1>. QED
  BY <1>3, <1>4, <1>5, <1>6, NextKinds DEF Declares, Start, Fail, vars

\* A product given back or withdrawn is never sold again: the flag forbids the
\* sale, and the flow must offer no way back to a status without the flag.
THEOREM BlockedIsNeverSold ==
  ASSUME OneAtATime, BlockedForGood
  PROVE  Spec => []NeverSoldOnceBlocked
<1>1. Init => AllBlockedStay
  BY DEF Init, AllBlockedStay, BlockedStays
<1>2. IInv /\ AloneInv /\ AllBlockedStay /\ [Next]_vars => AllBlockedStay'
  BY NextKeepsBlocked
<1>3. AllBlockedStay => NeverSoldOnceBlocked
  BY DEF AllBlockedStay, BlockedStays, NeverSoldOnceBlocked
<1>. QED
  BY <1>1, <1>2, <1>3, SettledInvariance, PTL DEF Spec

\* What the ledger knows of the products.
Stage == [p \in Products |-> IF Present(p) THEN product[p].status ELSE Null]

\* Every step of the services is one of the ledger, or leaves it as it is.
LEMMA StepsImplement ==
  ASSUME OneAtATime, IInv, AloneInv, [Next]_vars
  PROVE  [Ledger!Next]_Stage
<1>1. TypeOK /\ Stage \in [Products -> Statuses \cup {Null}]
  BY DEF IInv, TypeOK, Stage, Row
<1>2. ASSUME NEW w \in Workers, Brings(w) PROVE Ledger!Next
  <2>1. PICK u \in Users, born \in SUBSET Contracts : \E rows :
          /\ DOMAIN rows \subseteq Products
          /\ \A p \in DOMAIN rows : FreshRow(rows[p])
          /\ Leaves(w, u, rows, born)
    BY <1>1, <1>2, BringsLeaves
  <2>2. PICK rows : /\ DOMAIN rows \subseteq Products
                    /\ \A p \in DOMAIN rows : FreshRow(rows[p])
                    /\ Leaves(w, u, rows, born)
    BY <2>1
  <2>. DEFINE S == DOMAIN rows
              statusOf == [p \in S |-> rows[p].status]
  <2>3. S \subseteq Products /\ Leaves(w, u, rows, born)
    BY <2>2
  <2>4. /\ \A p \in S : life[p] = "unborn"
        /\ life' = [x \in Products \cup Contracts |->
                     IF x \in S \cup born THEN "present" ELSE life[x]]
        /\ product' = [p \in Products |-> IF p \in S THEN rows[p] ELSE product[p]]
    BY <2>3 DEF Leaves
  <2>5. statusOf \in [S -> Statuses]
    BY <2>2 DEF FreshRow, Row
  <2>6. \A p \in S : Stage[p] = Null
    BY <2>3, <2>4 DEF Stage, Present
  <2>7. Stage' = [p \in Products |-> IF p \in S THEN statusOf[p] ELSE Stage[p]]
    BY <2>3, <2>4, DataAssumption DEF Stage, Present
  <2>8. Ledger!Enter(S)
    BY <2>5, <2>6, <2>7 DEF Ledger!Enter, Stage
  <2>. QED
    BY <2>3, <2>8 DEF Ledger!Next
<1>3. ASSUME NEW w \in Workers, CommitUpdate(w) PROVE Ledger!Next
  <2>1. PICK S \in SUBSET Products, t \in Statuses, u \in Users : MovesAll(S, t, u)
    BY <1>3, AloneUpdate
  <2>2. \A p \in S : Stage[p] # Null /\ Stage[p] = product[p].status /\ MayFollow(Stage[p], t)
    BY <1>1, <2>1, DataAssumption DEF MovesAll, Stage, TypeOK, Row
  <2>3. Stage' = [p \in Products |-> IF p \in S THEN t ELSE Stage[p]]
    BY <2>1 DEF MovesAll, Stage, Present
  <2>4. Ledger!Move(S, t)
    BY <2>2, <2>3 DEF Ledger!Move, Ledger!MayFollow, Ledger!Drawn, MayFollow, Drawn, Stage
  <2>. QED
    BY <2>4 DEF Ledger!Next
<1>4. ASSUME NEW w \in Workers, CommitDelete(w) PROVE Ledger!Next \/ Stage' = Stage
  <2>0. req[w].target \in Products \cup Contracts
    BY <1>1, <1>4 DEF CommitDelete, TypeOK, IsRequest, Idle, Deletion
  <2>1. PICK x \in Products \cup Contracts : x = req[w].target
    BY <2>0
  <2>2. /\ Present(x)
        /\ life' = [life EXCEPT ![x] = "deleted"]
        /\ \A p \in Products : p # x =>
             product'[p] \in {product[p], [depositContract |-> Null] ++ product[p]}
    BY <1>4, <2>1 DEF CommitDelete
  <2>3. ASSUME NEW p \in Products, p # x
        PROVE  product'[p].status = product[p].status /\ life'[p] = life[p]
    <3>1. ([depositContract |-> Null] ++ product[p]).status = product[p].status
      BY <1>1 DEF ++, TypeOK, Row
    <3>. QED
      BY <1>1, <2>2, <2>3, <3>1 DEF TypeOK
  <2>4. CASE x \in Products
    <3>1. Stage' = [Stage EXCEPT ![x] = Null]
      BY <1>1, <2>2, <2>3, <2>4 DEF Stage, Present, TypeOK
    <3>2. Stage[x] # Null
      BY <1>1, <2>2, <2>4, DataAssumption DEF Stage, TypeOK, Row
    <3>3. Ledger!Leave(x)
      BY <3>1, <3>2 DEF Ledger!Leave, Stage
    <3>. QED
      BY <2>4, <3>3 DEF Ledger!Next
  <2>5. CASE x \in Contracts
    <3>1. \A p \in Products : p # x
      BY <2>5, DataAssumption
    <3>. QED
      BY <2>3, <3>1 DEF Stage, Present
  <2>. QED
    BY <2>4, <2>5
<1>5. ASSUME UNCHANGED <<life, product>> PROVE Stage' = Stage
  BY <1>5 DEF Stage, Present
<1>. QED
  BY <1>2, <1>3, <1>4, <1>5, NextKinds DEF Declares, Start, Fail, vars

\* One request at a time, the services implement the ledger: products enter with
\* a status, move along the flow, those of a basket together, and leave.
THEOREM LedgerIsImplemented ==
  ASSUME OneAtATime
  PROVE  Spec => ImplementsLedger
<1>1. Init => Ledger!Init
  BY DEF Init, Ledger!Init, Present
<1>2. IInv /\ AloneInv /\ [Next]_vars => [Ledger!Next]_Stage
  BY StepsImplement
<1>. QED
  BY <1>1, <1>2, SettledInvariance, PTL DEF Spec, ImplementsLedger, Ledger!Spec, Stage
=============================================================================
