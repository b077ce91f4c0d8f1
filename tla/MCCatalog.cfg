\* Three categories, two attributes, two options, one product; two requests in flight.
SPECIFICATION Spec
SYMMETRY Interchangeable
CONSTANTS
  Null = Null
  Categories = {k1, k2, k3}
  Attributes = {a1, a2}
  Options = {o1, o2}
  Products = {p1}
  MaxWrites = 4
  Together = 2
INVARIANTS
  TypeOK
  EveryCategoryShows
PROPERTIES
  NoValueIsLost
CHECK_DEADLOCK FALSE
