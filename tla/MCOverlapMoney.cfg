\* Two requests in flight, at a counter: contracts and money.
SPECIFICATION Spec
CONSTANTS
  Null = Null
  s1 = s1
  s2 = s2
  c1 = c1
  c2 = c2
  gerant = gerant
  vendeur = vendeur
  web = web
  Users = {gerant}
  Managers = {gerant}
  Shops = {}
  Products = {p1}
  Contracts = {c1}
  Prices = {10}
  Rates = {40}
  Blank = {blank}
  Commission <- OneCommission
  ShopAccess <- NoAccess
  Workers = {w1, w2}
  MaxHistory = 3
  Statuses <- CounterStatuses
  DefaultStatus = "rayon"
  IsSale <- CounterSales
  BlocksSale = {}
  LeavesStock <- CounterSales
  IsOnlineSale = {}
  Transitions <- CounterFlow
INVARIANTS
  HistoryTellsStatus
  MoneyOnlyAfterASale
  
SYMMETRY Symmetric
