\* A lot, then the counter, its proposals and its basket.
SPECIFICATION Spec
CONSTANTS
  Null = Null
  Nothing = Nothing
  Junk = Junk
  d1 = d1
  a1 = a1
  a2 = a2
  letter = letter
  word = word
  r1 = r1
  r2 = r2
  Articles <- InOrder
  Deposited = {d1}
  Rate = 50
  Labels = {3}
  PriceCells = {Null, Junk, 2}
  CountCells = {Null, 2}
  PaidCells = {1}
  MaxLines = 3
  MaxLots = 1
  MaxStrokes = 3
  Vague = {letter, word}
  Short = {letter}
  Places = {"shop", "online"}
  Prices = {Null, 5}
  Totals = {Null, 3}
  PerPage = 2
  Requests = {r1, r2}
  MaxBasket = 2
INVARIANTS
  TypeOK
  PreviewTellsTheCost
  CustomerPaysTheTotal
  NoTwinsInBasket
  BooksAgree
PROPERTIES
  SoldOnceUnlessCrossed
SYMMETRY
  Symmetric
