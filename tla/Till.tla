-------------------------------- MODULE Till --------------------------------
(***************************************************************************)
(* The counter of the dashboard: one types a reference, the application    *)
(* proposes articles as one types, Enter adds one to the basket, the total *)
(* may be negotiated, and the basket is sold at once.                      *)
(*                                                                         *)
(* Three answers may be awaited at a time, and everything goes on          *)
(* meanwhile: the proposals for what is typed, given up as soon as it      *)
(* changes; the search of an Enter, which nothing gives up; and the sale.  *)
(* An answer may never come, whether the API has done the work, is at it or *)
(* never will be: the web server then reports an error.                    *)
(*                                                                         *)
(* The API takes a sale in two steps: it reads the articles and checks     *)
(* them, then a transaction writes each by its identifier, without reading *)
(* it again.  Other sales may be read or written in between: those of      *)
(* another counter, or the same basket sent again.                         *)
(*                                                                         *)
(* The reference of an article is its identifier; a term is a reference,   *)
(* or something several articles match.                                    *)
(***************************************************************************)
EXTENDS Books

CONSTANTS Nothing,     \* the field, when it is empty
          Vague,       \* terms every article matches: the beginning of a name
          Short,       \* those that are too short for proposals
          Places,      \* what the counter sells: the shop, or what is on the site
          Prices,      \* what may be typed as the price of a line,
          Totals,      \* and as the negotiated total
          PerPage,     \* how many articles a search is answered with at most
          Requests,    \* the sales the API may have on its hands at a time
          MaxBasket    \* bound on the basket

ASSUME FieldsDiffer ==
  /\ Short \subseteq Vague /\ "online" \in Places /\ PerPage \in Nat
  /\ Requests \cap {Null, "sold", "refused"} = {}

VARIABLES place, typed, proposals, hovered, basket, total,
          asked,      \* the term whose proposals are awaited, or Null
          entering,   \* the Enter whose search is awaited, or Null
          sending,    \* the sale whose answer is awaited, that answer, or Null
          sale,       \* [request -> the sale the API has on its hands, or Null]
          cashed,     \* ghost: what the sales recorded asked of their customers
          crossed     \* ghost: the articles a sale recorded while another one had
                      \* checked them too and not yet written

field == <<typed, proposals, hovered, asked>>
counter == <<place, field, basket, total, entering>>
api == <<sale, cashed, crossed>>
till == <<counter, sending, api>>

Empty ==
  /\ place \in Places
  /\ typed = Nothing /\ proposals = <<>> /\ hovered = -1
  /\ basket = <<>> /\ total = Null
  /\ asked = Null /\ entering = Null /\ sending = Null
  /\ sale = [r \in Requests |-> Null] /\ cashed = 0 /\ crossed = {}

\* The counter loses everything when its page is left.
Clear ==
  /\ typed' = Nothing /\ proposals' = <<>> /\ hovered' = -1
  /\ basket' = <<>> /\ total' = Null
  /\ asked' = Null /\ entering' = Null /\ sending' = Null

Terms == Range(Articles) \cup Vague
Matches(term, a) == term = a \/ term \in Vague

\* The articles of a place that match a term, in the order of the API: one page of them.
Page(from, term) ==
  LET found == Among(Articles,
                 {a \in Known : Matches(term, a) /\ (from = "online" => article[a].listed)})
  IN  SubSeq(found, 1, IF Len(found) < PerPage THEN Len(found) ELSE PerPage)

\* Those of the page that are still in stock: the others are taken out of it, not replaced.
Search(from, term) == Among(Page(from, term), InStock)

InBasket == {basket[i].article : i \in DOMAIN basket}
Without(found, taken) == Among(found, Range(found) \ taken)
Shown == IF typed \in Short \cup {Nothing} THEN <<>> ELSE Without(proposals, InBasket)

\* Mutant: the proposal that is pointed at is not looked for among those that are left.
ActiveAnyhow == hovered

Active == IF hovered >= Len(Shown) THEN -1 ELSE hovered

Awaited(term) == IF term \in Short \cup {Nothing} THEN Null ELSE term
-----------------------------------------------------------------------------
(* The prices.                                                             *)

\* A line without a price of its own is at the price of the label, or free.
Raw == [i \in DOMAIN basket |->
          IF basket[i].price = Null THEN Label(basket[i].article) ELSE basket[i].price]

Negotiated == total # Null /\ total > 0

Charged == IF Negotiated THEN SplitCost(total, Raw) ELSE Raw

Displayed == Total(Charged)
-----------------------------------------------------------------------------
(* The field and its proposals.                                            *)

Type(term) ==
  /\ term # typed
  /\ typed' = term /\ hovered' = -1 /\ asked' = Awaited(term)
  /\ UNCHANGED <<place, proposals, basket, total, entering, sending, api, article>>

\* The proposals arrive, or none if the search is refused; or nothing does.
Propose ==
  /\ asked # Null
  /\ asked' = Null
  /\ proposals' \in {Search(place, asked), <<>>, proposals}
  /\ UNCHANGED <<place, typed, hovered, basket, total, entering, sending, api, article>>

\* The arrows go round, the field itself being one of the stops; the mouse points.
Arrow(step) ==
  /\ Shown # <<>>
  /\ hovered' = ((hovered + 1 + step + Len(Shown) + 1) % (Len(Shown) + 1)) - 1
  /\ UNCHANGED <<place, typed, proposals, basket, total, asked, entering, sending, api, article>>

Point(i) ==
  /\ i \in DOMAIN Shown /\ hovered # i - 1
  /\ hovered' = i - 1
  /\ UNCHANGED <<place, typed, proposals, basket, total, asked, entering, sending, api, article>>

Escape ==
  /\ Shown # <<>>
  /\ proposals' = <<>> /\ hovered' = -1
  /\ UNCHANGED <<place, typed, basket, total, asked, entering, sending, api, article>>

\* Mutant: an article that is in the basket is not looked for again.
Appended(a) == Append(basket, [article |-> a, price |-> Null])

Added(a) ==
  IF a \in InBasket THEN basket ELSE Append(basket, [article |-> a, price |-> Null])

Ajouter(a) ==
  /\ basket' = Added(a)
  /\ typed' = Nothing /\ proposals' = <<>> /\ hovered' = -1 /\ asked' = Null

\* What Enter does of the articles found: the exact reference, or the only one, is added;
\* several are proposed.
Decide(term, found, taken) ==
  LET free == Without(found, taken)
      exact == Among(free, {term})
  IN  \/ exact # <<>> /\ Ajouter(Head(exact))
      \/ exact = <<>> /\ Len(free) = 1 /\ Ajouter(Head(free))
      \/ /\ exact = <<>> /\ Len(free) # 1
         /\ proposals' = IF free = <<>> THEN <<>> ELSE found
         /\ UNCHANGED <<typed, hovered, asked, basket>>

\* Enter, or a click: the proposal that is pointed at, else the proposals there are,
\* whatever they were made for; a search if there are none.
Enter ==
  /\ typed # Nothing /\ entering = Null /\ Len(basket) < MaxBasket
  /\ \/ Active >= 0 /\ Ajouter(Shown[Active + 1]) /\ UNCHANGED entering
     \/ /\ Active < 0 /\ proposals # <<>>
        /\ Decide(typed, proposals, InBasket) /\ UNCHANGED entering
     \/ /\ Active < 0 /\ proposals = <<>>
        /\ entering' = [term |-> typed, taken |-> InBasket, place |-> place]
        /\ UNCHANGED <<field, basket>>
  /\ UNCHANGED <<place, total, sending, api, article>>

Click ==
  /\ entering # Null /\ Active >= 0 /\ Len(basket) < MaxBasket
  /\ Ajouter(Shown[Active + 1])
  /\ UNCHANGED <<place, total, entering, sending, api, article>>

\* The search of an Enter comes back, with the place and the basket of that moment; or
\* fails and says so.
FinishEntering ==
  /\ entering # Null /\ Len(basket) < MaxBasket
  /\ entering' = Null
  /\ \/ Decide(entering.term, Search(entering.place, entering.term), entering.taken)
     \/ UNCHANGED <<field, basket>>
  /\ UNCHANGED <<place, total, sending, api, article>>

\* Another shop, or the site, in the selector of the dashboard: the counter stays as it
\* is, its basket with it.
ChangePlace(p) ==
  /\ p # place
  /\ place' = p /\ asked' = Awaited(typed)
  /\ UNCHANGED <<typed, proposals, hovered, basket, total, entering, sending, api, article>>
-----------------------------------------------------------------------------
(* The basket and the sale.                                                *)

EditPrice(i, price) ==
  /\ i \in DOMAIN basket /\ basket[i].price # price
  /\ basket' = [basket EXCEPT ![i].price = price]
  /\ UNCHANGED <<place, field, total, entering, sending, api, article>>

RemoveFromBasket(i) ==
  /\ i \in DOMAIN basket
  /\ basket' = RemoveAt(basket, i)
  /\ UNCHANGED <<place, field, total, entering, sending, api, article>>

Negotiate(t) ==
  /\ basket # <<>> /\ t # total
  /\ total' = t
  /\ UNCHANGED <<place, field, basket, entering, sending, api, article>>

Submit(r) ==
  /\ basket # <<>> /\ sending = Null /\ sale[r] = Null
  /\ sending' = r
  /\ sale' = [sale EXCEPT ![r] =
       [lines |-> [i \in DOMAIN basket |->
                     [article |-> basket[i].article, price |-> Charged[i]]],
        due |-> IF Negotiated THEN total ELSE Total(Raw),
        checked |-> FALSE]]
  /\ UNCHANGED <<counter, cashed, crossed, article>>

\* The basket is emptied, with whatever was put in it in the meantime; on an error it is
\* kept.
Answered ==
  /\ sending \in {"sold", "refused"}
  /\ sending' = Null
  /\ IF sending = "sold"
       THEN /\ basket' = <<>> /\ total' = Null
            /\ typed' = Nothing /\ proposals' = <<>> /\ asked' = Null
            /\ UNCHANGED hovered
       ELSE UNCHANGED <<field, basket, total>>
  /\ UNCHANGED <<place, entering, api, article>>

\* The answer is lost, or too late: the API may have sold, be about to, or never be.
Unanswered ==
  /\ sending # Null
  /\ sending' = Null
  /\ UNCHANGED <<counter, api, article>>
-----------------------------------------------------------------------------
(* The sales, at the API: PUT /products/sale, all the lines or none.       *)

Lines(r) == Range(sale[r].lines)
Sells(r) == {l.article : l \in Lines(r)}
Checked(r) == sale[r] # Null /\ sale[r].checked

\* Mutant: the API does not look at the status of the articles.
SaleIsNew(r) == Lines(r) # {}

\* No article twice, and none that has left: no arrow of the flow every company receives
\* goes from a sale to a sale.
SaleIsLegal(r) ==
  /\ Cardinality(Sells(r)) = Len(sale[r].lines)
  /\ Sells(r) \subseteq InStock

\* The request is done with; its answer goes to whoever still awaits it.
Answer(r, answer) ==
  /\ sale' = [sale EXCEPT ![r] = Null]
  /\ sending' = IF sending = r THEN answer ELSE sending

\* The articles are read, outside of any transaction, and the rest is decided on that.
SellMany(r) ==
  /\ sale[r] # Null /\ ~Checked(r)
  /\ \/ SaleIsLegal(r) /\ sale' = [sale EXCEPT ![r].checked = TRUE] /\ UNCHANGED sending
     \/ ~SaleIsLegal(r) /\ Answer(r, "refused")
  /\ UNCHANGED <<counter, cashed, crossed, article>>

\* The transaction: each line is written, whatever its article has become.
CommitSale(r) ==
  /\ Checked(r)
  /\ article' = [a \in Known |->
       IF a \in Sells(r)
         THEN Sell(article[a], (CHOOSE l \in Lines(r) : l.article = a).price)
         ELSE article[a]]
  /\ cashed' = cashed + sale[r].due
  /\ crossed' = crossed \cup
       UNION {Sells(r) \cap Sells(q) : q \in {o \in Requests \ {r} : Checked(o)}}
  /\ Answer(r, "sold")
  /\ UNCHANGED counter

\* The database refuses, or the process stops: nothing is written.
FailSale(r) ==
  /\ sale[r] # Null
  /\ Answer(r, "refused")
  /\ UNCHANGED <<counter, cashed, crossed, article>>

\* Another counter sells an article, at the price of its label.
OtherSells(r, a) ==
  /\ sale[r] = Null
  /\ sale' = [sale EXCEPT ![r] = [lines |-> <<[article |-> a, price |-> Label(a)]>>,
                                  due |-> Label(a), checked |-> FALSE]]
  /\ UNCHANGED <<counter, sending, cashed, crossed, article>>
-----------------------------------------------------------------------------
\* What is done to the field and to the basket with the arrows and the mouse, or in the
\* cells of the basket; what is typed, chosen and sold.
Glance ==
  \/ \E step \in {1, -1} : Arrow(step)
  \/ \E i \in DOMAIN Shown : Point(i)
  \/ Escape \/ Enter \/ Click

Bargain ==
  \/ \E i \in DOMAIN basket : RemoveFromBasket(i) \/ \E p \in Prices : EditPrice(i, p)
  \/ \E t \in Totals : Negotiate(t)

Keystroke ==
  \/ \E term \in Terms \cup {Nothing} : Type(term)
  \/ \E p \in Places : ChangePlace(p)
  \/ \E r \in Requests : Submit(r)

Network == Propose \/ FinishEntering \/ Answered \/ Unanswered

Serves(r) == SellMany(r) \/ CommitSale(r) \/ FailSale(r)
=============================================================================
