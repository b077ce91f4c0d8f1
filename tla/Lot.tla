-------------------------------- MODULE Lot --------------------------------
(***************************************************************************)
(* The purchase of a lot: the table one types it in, the costs this table  *)
(* shows as one types, and the articles the API makes of it.               *)
(*                                                                         *)
(* A line is a model of article: whether it has a name, its sale price and *)
(* how many there are.  A cell is Null when it is empty and Junk when it   *)
(* does not read as a number; categories, references and attributes are    *)
(* left out: what they add is reasons for the API to refuse.               *)
(***************************************************************************)
EXTENDS Books

CONSTANTS Junk, PriceCells, CountCells, PaidCells,
          MaxLines   \* bound on the lines of the table

VARIABLES lines,   \* the table; Null when the page is not open
          paid     \* what was typed as the price of the whole lot

BlankLine == [named |-> FALSE, price |-> Null, count |-> Null]

\* The page opens on two blank lines.
OpenTable == lines' = <<BlankLine, BlankLine>> /\ paid' = Null

Reads(cell) == cell \notin {Null, Junk}
-----------------------------------------------------------------------------
(* What the table shows.                                                   *)

prix(cell) == IF Reads(cell) /\ cell >= 0 THEN cell ELSE Null
exemplaires(cell) == IF Reads(cell) /\ cell > 0 THEN cell ELSE 1
ShownPaid == IF Reads(paid) /\ paid > 0 THEN paid ELSE 0

\* One weight for each article: the copies of the lines that have a name.
Weights(active) ==
  FlattenSeq([k \in DOMAIN active |->
                [n \in 1 .. exemplaires(active[k].count) |-> prix(active[k].price)]])

\* For each line with a name: how many articles, and what they cost together.
Repartition ==
  LET active == Among(lines, {l \in Range(lines) : l.named})
      parts == SplitCost(ShownPaid, Weights(active))
      upTo[k \in 0 .. Len(active)] ==
        IF k = 0 THEN 0 ELSE upTo[k - 1] + exemplaires(active[k].count)
  IN  [k \in DOMAIN active |->
         [copies |-> exemplaires(active[k].count),
          cost |-> Total(SubSeq(parts, upTo[k - 1] + 1, upTo[k]))]]
-----------------------------------------------------------------------------
(* The gestures.                                                           *)

\* A line is always left at the bottom to go on with.
WithBlankEnd(table) ==
  IF Last(table).named \/ Last(table).price # Null THEN Append(table, BlankLine) ELSE table

Patch(i, line) ==
  /\ i \in DOMAIN lines /\ line # lines[i]
  /\ lines' = WithBlankEnd([lines EXCEPT ![i] = line])
  /\ UNCHANGED <<paid, article>>

AddLine == lines' = Append(lines, BlankLine) /\ UNCHANGED <<paid, article>>

RemoveLine(i) ==
  /\ i \in DOMAIN lines /\ Len(lines) > 1
  /\ lines' = RemoveAt(lines, i)
  /\ UNCHANGED <<paid, article>>

TypePaid(cell) == paid' = cell /\ UNCHANGED <<lines, article>>
-----------------------------------------------------------------------------
(* What is sent, and what the API makes of it.                             *)

isBlank(line) == ~line.named /\ line.price = Null /\ line.count = Null

\* The lines somebody typed something in.
UsableLines == Among(lines, {l \in Range(lines) : ~isBlank(l)})

cellNumber(cell) == IF Reads(cell) THEN cell ELSE Null
SentPaid == IF Reads(paid) THEN paid ELSE 0

\* The web server wants a name on each and at least one; the API, prices that are not
\* negative and at least one copy.
Acceptable ==
  /\ UsableLines # <<>> /\ SentPaid >= 0
  /\ \A k \in DOMAIN UsableLines :
       LET line == UsableLines[k] IN
       /\ line.named
       /\ cellNumber(line.price) # Null => line.price >= 0
       /\ cellNumber(line.count) # Null => line.count >= 1

Copies(line) == IF cellNumber(line.count) = Null THEN 1 ELSE line.count

\* The articles of the lot, each with the line it comes from.
LotArticles ==
  FlattenSeq([k \in DOMAIN UsableLines |->
    [n \in 1 .. Copies(UsableLines[k]) |->
       [index |-> k, label |-> cellNumber(UsableLines[k].price)]]])

\* Mutant: an article without a price counts for nothing in the lot.
SplitAsFree ==
  SplitCost(SentPaid, [n \in DOMAIN LotArticles |->
    IF LotArticles[n].label = Null THEN 0 ELSE LotArticles[n].label])

\* What each of them is said to have cost.
LotParts == SplitCost(SentPaid, [n \in DOMAIN LotArticles |-> LotArticles[n].label])

Fresh == Among(Articles, Range(Articles) \ Known)

Bought(label, cost) ==
  [label |-> label, cost |-> cost, sold |-> Null, paid |-> FALSE, listed |-> FALSE]

\* The page is left once the lot is made, or by whoever gives up.
Leave == lines' = Null /\ paid' = Null

CreateLot ==
  /\ Acceptable /\ Len(LotArticles) <= Len(Fresh)
  /\ LET new == [n \in DOMAIN LotArticles |-> Fresh[n]] IN
     article' = [a \in Known \cup Range(new) |->
                   IF a \in Known THEN article[a]
                   ELSE LET n == CHOOSE n \in DOMAIN new : new[n] = a
                        IN  Bought(LotArticles[n].label, LotParts[n])]
  /\ Leave

GiveUp == Leave /\ UNCHANGED article
=============================================================================
