\* One request at a time: what a sale is recorded at when its price is given as null.
SPECIFICATION Spec
CONSTANTS
  Null = Null
  s1 = s1
  s2 = s2
  c1 = c1
  c2 = c2
  gerant = gerant
  vendeur = vendeur
  web = web
  Users = {gerant}
  Managers = {gerant}
  Shops = {}
  Products = {p1}
  Contracts = {c1}
  Prices = {10}
  Rates = {40}
  Blank = {blank}
  Commission <- OneCommission
  ShopAccess <- NoAccess
  Workers = {w1}
  MaxHistory = 2
  Statuses <- SmallStatuses
  DefaultStatus = "rayon"
  IsSale <- SmallSales
  BlocksSale <- SmallEndings
  LeavesStock <- SmallLeaves
  IsOnlineSale <- SmallOnline
  Transitions <- SmallFlow
INVARIANTS
  RecordedSaleHasPrice
