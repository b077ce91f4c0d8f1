\* Two articles, two depositors who wish the same code, numbers up to two.
SPECIFICATION Spec
CONSTANTS
  Null = Null
  Bought = Bought
  martin = martin
  sophie = sophie
  MAR = MAR
  MA2 = MA2
  Products = {p1, p2}
  Depositors = {martin, sophie}
  Legacy = {martin}
  Candidates <- TwoMartins
  MaxNumber = 2
  MaxTyped = 1
INVARIANTS
  TypeOK
  LabelsTellArticles
  NumbersHaveNoHole
  BlockedOnlyByHand
  CodeIsGivenOnce
SYMMETRY Symmetric
CHECK_DEADLOCK FALSE
