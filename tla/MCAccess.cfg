SPECIFICATION Spec
CONSTANTS
  Null = Null
  Users = {"manager", "employee"}
  Managers = {"manager"}
  Shops = {"s1", "s2"}
  Tabs = {"t1", "t2"}
  ShopChoices = {{}, {"products.view", "products.manage"}, {"products.changeStatus"}}
  CompanyChoices = {{}, {"online.manage"}, {"deposits.manage"}}
  MaxSaves = 2
INVARIANTS
  TypeOK
  ListsAreWhole
  ShownChoresCanBeDone
  NoClosedDoor
