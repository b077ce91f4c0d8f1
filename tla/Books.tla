------------------------------- MODULE Books -------------------------------
(***************************************************************************)
(* What the money of the articles adds up to: the statement of the         *)
(* depositor and the figures of the dashboard, two readings of the same    *)
(* rows.  The commission is frozen at the sale; here it does not change.   *)
(***************************************************************************)
EXTENDS Money, FiniteSetsExt

CONSTANTS Articles,   \* identifiers, each used once; a sequence, in the order they are given
          Deposited,  \* those that were on deposit to begin with
          Rate,       \* the commission of the shop on them, in percent
          Labels      \* the prices an article on deposit may have been labelled

ASSUME RateIsPercent == Rate \in 0 .. 100

VARIABLE article      \* [identifier -> its row], of the articles there are

Known == DOMAIN article
Sold == {a \in Known : article[a].sold # Null}
InStock == Known \ Sold
OnDeposit == {a \in Known : article[a].cost = Null}

Sum(S, Of(_)) == SumFunction([a \in S |-> Of(a)])

Sell(row, price) == [row EXCEPT !.sold = price]
Price(a) == article[a].sold
-----------------------------------------------------------------------------
(* The statement of the depositor: one line for each sold article.         *)

\* Mutant: both shares are rounded.
RoundedShare(a) == Round(Price(a) * (100 - Rate), 100)

ShopShare(a) == Round(Price(a) * Rate, 100)
DepositorShare(a) == Price(a) - ShopShare(a)

Statement ==
  LET lines == Sold \cap OnDeposit
      paid == {a \in lines : article[a].paid}
  IN  [soldTotal |-> Sum(lines, Price),
       shopShare |-> Sum(lines, ShopShare),
       depositorShare |-> Sum(lines, DepositorShare),
       alreadyPaid |-> Sum(paid, DepositorShare),
       outstanding |-> Sum(lines \ paid, DepositorShare)]
-----------------------------------------------------------------------------
(* The dashboard.                                                          *)

\* What the shop keeps of an article, in hundredths of a cent: the commission on one that
\* was deposited, the margin on one that was bought.
MargeDe(a) ==
  IF a \in OnDeposit THEN Price(a) * Rate ELSE 100 * (Price(a) - article[a].cost)

SalesBlock == [revenue |-> Sum(Sold, Price), margin |-> Round(Sum(Sold, MargeDe), 100)]

Label(a) == IF article[a].label = Null THEN 0 ELSE article[a].label
StockBlock == [active |-> Cardinality(InStock), activeValue |-> Sum(InStock, Label)]
-----------------------------------------------------------------------------
\* PUT /products/:id/depositor-payment.
ToggleDepositorPayment(a) ==
  /\ a \in Sold \cap OnDeposit
  /\ article' = [article EXCEPT ![a].paid = ~@]
=============================================================================
