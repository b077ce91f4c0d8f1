\* One request at a time, over the flow every company receives.
SPECIFICATION Spec
CONSTANTS
  Null = Null
  s1 = s1
  s2 = s2
  c1 = c1
  c2 = c2
  gerant = gerant
  vendeur = vendeur
  web = web
  Users = {gerant}
  Managers = {gerant}
  Shops = {s1}
  Products = {p1}
  Contracts = {c1, c2}
  Prices = {10}
  Rates = {40}
  Blank = {}
  Commission <- OneCommission
  ShopAccess <- NoAccess
  Workers = {w1}
  MaxHistory = 4
  Statuses <- BaseStatuses
  DefaultStatus <- BaseDefault
  IsSale <- BaseIsSale
  BlocksSale <- BaseBlocksSale
  LeavesStock <- BaseLeavesStock
  IsOnlineSale <- BaseIsOnlineSale
  Transitions <- BaseTransitions
INVARIANTS
  TypeOK
  ContractMatchesSaleType
  DebtMatchesSaleType
  NoForgottenListing
  OnlineSaleIsUnlisted
  NeverSoldOnceBlocked
PROPERTIES
  ImplementsLedger
