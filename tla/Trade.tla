------------------------------- MODULE Trade -------------------------------
(***************************************************************************)
(* Somebody buys a lot, then sells at the counter, on one tab of the web   *)
(* application: what the articles cost, what the customers pay, what the   *)
(* depositor is owed and what the dashboard says.                          *)
(***************************************************************************)
EXTENDS Lot, Till

CONSTANTS MaxLots,      \* bound on the times the page of a lot is opened
          MaxStrokes    \* bound on what is typed, chosen, sold and paid

ASSUME TradeAssumption ==
  /\ Null \notin Int /\ MaxLots \in Nat /\ MaxStrokes \in Nat
  /\ Articles \in Seq(Range(Articles)) /\ Deposited \subseteq Range(Articles)
  /\ Labels \cup Totals \cup Prices \subseteq Nat \cup {Null} /\ Null \in Prices
  /\ PriceCells \cup CountCells \cup PaidCells \subseteq Int \cup {Null, Junk}

VARIABLES lots, strokes

vars == <<article, lines, paid, lots, strokes, till>>

Init ==
  /\ article \in [Deposited -> {[label |-> l, cost |-> Null, sold |-> Null, paid |-> FALSE,
                                 listed |-> TRUE] : l \in Labels}]
  /\ lines = Null /\ paid = Null /\ lots = 0 /\ strokes = 0
  /\ Empty

\* From one page to the other; a sale that is awaited is awaited first.
OpenLot ==
  /\ lines = Null /\ lots < MaxLots /\ sending = Null
  /\ lots' = lots + 1
  /\ OpenTable /\ Clear
  /\ UNCHANGED <<article, place, api, strokes>>

LotGesture ==
  /\ lines # Null
  /\ \/ \E i \in DOMAIN lines :
          \/ \E named \in BOOLEAN : Patch(i, [lines[i] EXCEPT !.named = named])
          \/ \E cell \in PriceCells : Patch(i, [lines[i] EXCEPT !.price = cell])
          \/ \E cell \in CountCells : Patch(i, [lines[i] EXCEPT !.count = cell])
     \/ AddLine \/ \E i \in DOMAIN lines : RemoveLine(i)
     \/ \E p \in PaidCells : TypePaid(p)
     \/ CreateLot \/ GiveUp
  /\ lines' # Null => Len(lines') <= MaxLines
  /\ UNCHANGED <<till, lots, strokes>>

Sale ==
  /\ lines = Null
  /\ \/ (Glance \/ Bargain \/ Network) /\ UNCHANGED strokes
     \/ /\ strokes < MaxStrokes /\ strokes' = strokes + 1
        /\ Keystroke \/ \E r \in Requests, a \in Known : OtherSells(r, a)
  /\ UNCHANGED <<lines, paid, lots>>

\* The API goes on with the sales it has, whatever page is open.
Api ==
  /\ \E r \in Requests : Serves(r)
  /\ UNCHANGED <<lines, paid, lots, strokes>>

\* The page is loaded again.
Reload ==
  /\ lines = Null /\ sending = Null
  /\ Clear
  /\ UNCHANGED <<article, lines, paid, lots, strokes, place, api>>

Pay ==
  /\ lines = Null /\ strokes < MaxStrokes
  /\ strokes' = strokes + 1
  /\ \E a \in Known : ToggleDepositorPayment(a)
  /\ UNCHANGED <<lines, paid, lots, till>>

Next == OpenLot \/ LotGesture \/ Sale \/ Api \/ Reload \/ Pay

Spec == Init /\ [][Next]_vars
-----------------------------------------------------------------------------
(* Types: the rows, the table of the lot, the counter and the sales.       *)
Row == [label: Nat \cup {Null}, cost: Nat \cup {Null}, sold: Nat \cup {Null},
        paid: BOOLEAN, listed: BOOLEAN]

TypeOK ==
  /\ Known \subseteq Range(Articles) /\ \A a \in Known : article[a] \in Row
  /\ lots \in 0 .. MaxLots /\ strokes \in 0 .. MaxStrokes /\ place \in Places
  /\ typed \in Terms \cup {Nothing}
  /\ \A s \in {proposals, Shown} : Range(s) \subseteq Known
  /\ Active \in -1 .. Len(Shown) - 1 /\ asked \in (Terms \ Short) \cup {Null}
  /\ \A i \in DOMAIN basket : basket[i] \in [article: Known, price: Prices]
  /\ Range(Charged) \subseteq Nat /\ cashed \in Nat
  /\ sending \in Requests \cup {Null, "sold", "refused"} /\ crossed \subseteq Sold
  /\ \A r \in Requests : sale[r] # Null => Lines(r) \subseteq [article: Known, price: Nat]

(* « Les deux doivent rendre les mêmes centimes, sinon l'aperçu ment »:    *)
(* whenever the API takes the lot, each line of the table shows as many    *)
(* articles and the same cost as the rows it is about to insert, and the   *)
(* lot costs what was paid for it (repartition, createLot, splitCost).     *)
PreviewTellsTheCost ==
  lines # Null /\ Acceptable =>
    /\ Total(LotParts) = SentPaid
    /\ \A k \in DOMAIN UsableLines :
         LET mine == {n \in DOMAIN LotArticles : LotArticles[n].index = k} IN
         Repartition[k] = [copies |-> Cardinality(mine),
                           cost |-> Sum(mine, LAMBDA n : LotParts[n])]

(* A negotiated total is shared to the cent, in proportion to the prices,  *)
(* each line within a cent of its exact share (encaisses, splitCost).      *)
CustomerPaysTheTotal ==
  basket # <<>> /\ Negotiated =>
    /\ Displayed = total
    /\ \A i \in DOMAIN basket :
         LET gap == Charged[i] * Total(Raw) - total * Raw[i] IN
         Total(Raw) > 0 => gap < Total(Raw) /\ -gap < Total(Raw)

(* No article twice in a basket, however the answers of an Enter and the   *)
(* clicks interleave: the API would refuse the whole basket (ajouter).     *)
NoTwinsInBasket == Cardinality(InBasket) = Len(basket)

(* A basket sent again because its answer was lost, or an article that     *)
(* another counter sells meanwhile, rewrites nothing, unless both sales    *)
(* were checked before either was written (sellMany).                      *)
SoldOnceUnlessCrossed ==
  [][\A a \in Sold \ crossed :
       a \in DOMAIN article' /\ article'[a].sold = article[a].sold]_vars

(* The readings of the money agree: the dashboard never counts more than   *)
(* was cashed in, and counts all of it unless two sales crossed on an      *)
(* article (the later one takes the place of the former); the statement    *)
(* shares out every price, what is paid and what is owed; the margin of    *)
(* the dashboard, rounded once, is that of the statements, rounded line by *)
(* line, to half a cent a line (salesBlock, statement).                    *)
BooksAgree ==
  LET bought == Sold \ OnDeposit
      kept == Statement.shopShare + Sum(bought, LAMBDA a : Price(a) - article[a].cost)
      gap == 2 * (SalesBlock.margin - kept)
      slack == Cardinality(Sold \cap OnDeposit) + 1
  IN  /\ SalesBlock.revenue <= cashed
      /\ crossed = {} => SalesBlock.revenue = cashed
      /\ Statement.shopShare + Sum(Sold \cap OnDeposit, DepositorShare) = Statement.soldTotal
      /\ Statement.alreadyPaid + Statement.outstanding = Statement.depositorShare
      /\ gap \in -slack .. slack
      /\ StockBlock.active + Cardinality(Sold) = Cardinality(Known)

(* « Une référence exacte ajoute l'article sans un clic »: what Enter adds *)
(* when the reference of an article on sale is typed, and no proposal is   *)
(* pointed at, is that article (valider).                                  *)
ExactReferenceAddsItsArticle ==
  [][LET term == IF entering = Null THEN typed ELSE entering.term IN
     /\ Active < 0 /\ Len(basket') > Len(basket)
     /\ term \in Range(Search(place, term))
     => Last(basket').article = term]_vars
=============================================================================
