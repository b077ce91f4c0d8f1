\* Two requests in flight, of a seller and of whoever manages the site, on the shelf and the listing.
SPECIFICATION Spec
CONSTANTS
  Null = Null
  s1 = s1
  s2 = s2
  c1 = c1
  c2 = c2
  gerant = gerant
  vendeur = vendeur
  web = web
  Users = {vendeur, web}
  Managers = {}
  Shops = {s1, s2}
  Products = {p1}
  Contracts = {}
  Prices = {10}
  Rates = {40}
  Blank = {}
  Commission <- OneCommission
  ShopAccess <- StaffAccess
  Workers = {w1, w2}
  MaxHistory = 3
  Statuses <- ShelfStatuses
  DefaultStatus = "rayon"
  IsSale <- SmallSales
  BlocksSale = {}
  LeavesStock <- SmallSales
  IsOnlineSale <- SmallOnline
  Transitions <- ShelfFlow
INVARIANTS
  ChoreOnlyAfterLeaving
  EveryMoveWasAllowed
  SiteStaffOnlySellOnline
PROPERTIES
  ChoreEndsUnlisted
SYMMETRY Symmetric
