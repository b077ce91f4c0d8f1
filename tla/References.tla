----------------------------- MODULE References -----------------------------
(***************************************************************************)
(* The references of products and the codes of depositors.                 *)
(*                                                                         *)
(* A product without a reference of its own takes the next number of the   *)
(* company when it was bought, and the next number of its depositor, with  *)
(* the depositor's code, when it was deposited.  The counters are          *)
(* incremented by the database in the transaction of the creation, which   *)
(* orders concurrent creations and takes the number back when one fails.   *)
(* The codes are read before they are written, outside any lock.           *)
(*                                                                         *)
(* A reference is [code |-> Bought or a depositor's code, number |-> n].   *)
(***************************************************************************)
EXTENDS Naturals, Sequences

CONSTANTS Null,
          Bought,       \* the A of A-0042
          Products,     \* each identifier is used once
          Depositors,   \* the same
          Legacy,       \* depositors registered before codes existed
          Candidates,   \* for each depositor, the codes freeCode tries, in order
          MaxNumber,    \* bound on the numbers
          MaxTyped      \* bound on the references typed and the codes edited

Codes == UNION {{Candidates[d][i] : i \in DOMAIN Candidates[d]} : d \in Depositors}

ASSUME BoughtIsNoCode == Bought \notin Codes
ASSUME LegacyAreDepositors == Legacy \subseteq Depositors
ASSUME CandidatesAreCodes ==
  \A d \in Depositors : Candidates[d] \in Seq(Codes) /\ Candidates[d] # <<>>
ASSUME BoundsAreNat == MaxNumber \in Nat /\ MaxTyped \in Nat

References == [code: Codes \cup {Bought}, number: 1 .. MaxNumber]

VARIABLES
  counter,     \* company.productCounter
  depositor,   \* the rows of depositor, Null before creation and after deletion
  product,     \* the rows of product
  used,        \* the identifiers given out, of products and depositors
  newcomers,   \* depositors whose code is computed and who are not inserted yet
  deposits,    \* first deposits that have read a depositor without code
  crossed,     \* history: depositors whose first deposits have crossed
  typed,       \* how many references have been typed and codes edited
  labels       \* history: what was ever written on a label, and where it came from

vars == <<counter, depositor, product, used, newcomers, deposits, crossed, typed, labels>>

Init ==
  /\ counter = 0
  /\ depositor = [d \in Depositors |->
                    IF d \in Legacy THEN [code |-> Null, counter |-> 0] ELSE Null]
  /\ product = [p \in Products |-> Null]
  /\ used = Legacy
  /\ newcomers = {}
  /\ deposits = {}
  /\ crossed = {}
  /\ typed = 0
  /\ labels = {}

Registered == {d \in Depositors : depositor[d] # Null}
Live == {p \in Products : product[p] # Null}

\* @@unique([companyId, reference]) and @@unique([companyId, code]).
InUse(ref) == \E p \in Live : product[p].ref = ref
Taken(code) == \E d \in Registered : depositor[d].code = code

\* A label is written: by hand, or with the number of a counter (the depositor's,
\* or the company's).
Label(p, ref, from) == labels' = labels \cup {[product |-> p, ref |-> ref, from |-> from]}

ByHand == "hand"

ASSUME NamesApart == Null \notin Depositors \cup Codes /\ ByHand \notin Depositors \cup {Null}

Typing == typed < MaxTyped /\ typed' = typed + 1
-----------------------------------------------------------------------------
(* Codes and numbers.                                                      *)

\* freeCode: the first candidate nobody holds, the wished one when all are taken.
FreeCode(d) ==
  LET free == {i \in DOMAIN Candidates[d] : ~Taken(Candidates[d][i])}
  IN  Candidates[d][IF free = {} THEN 1 ELSE CHOOSE i \in free : \A j \in free : i <= j]

\* Mutant: the code is computed for each deposit.
CodeAnew(d) == FreeCode(d)

\* The code in the references of a depositor: the one he has, or the one assignCode
\* gives him the first time.
CodeOf(d) == IF depositor[d].code = Null THEN FreeCode(d) ELSE depositor[d].code

CodeIsFree(d) == depositor[d].code = Null => ~Taken(FreeCode(d))

\* Mutant: the number after the highest one in use, read then written.
AfterHighest(d) ==
  LET code == IF d = Null THEN Bought ELSE CodeOf(d)
      numbers == {product[p].ref.number : p \in {p \in Live : product[p].ref.code = code}}
  IN  CHOOSE n \in 1 .. MaxNumber + 1 : (\A m \in numbers : m < n) /\ n - 1 \in numbers \cup {0}

\* The value of the counter once the database has incremented it.
NextNumber(d) == IF d = Null THEN counter + 1 ELSE depositor[d].counter + 1

\* Mutant: a depositor from before the codes is not given one.
WithoutCode(d) ==
  [code |-> IF d = Null THEN Bought ELSE depositor[d].code, number |-> NextNumber(d)]

\* nextReference, for the depositor of the contract or for none.
NextReference(d) ==
  [code |-> IF d = Null THEN Bought ELSE CodeOf(d), number |-> NextNumber(d)]

\* Mutant: the number is read and nothing is written.
DoNotCount(d) == UNCHANGED <<counter, depositor>>

\* The counter moves with the row that takes its number.
Count(d) ==
  IF d = Null
  THEN counter' = NextNumber(d) /\ UNCHANGED depositor
  ELSE /\ depositor' = [depositor EXCEPT ![d] = [code |-> CodeOf(d), counter |-> NextNumber(d)]]
       /\ UNCHANGED counter

\* Mutant: the increment is not part of the transaction.
KeptNumber(d) == Count(d)

\* A transaction that fails takes its increment back.
TakenBack(d) == UNCHANGED <<counter, depositor>>

\* A row written with a new number of d's counter; on a number that is in use the
\* whole transaction fails.
Numbered(p, d, row) ==
  LET ref == NextReference(d)
      free == ~InUse(ref) /\ (d # Null => CodeIsFree(d))
  IN
  /\ ref.number <= MaxNumber
  /\ \/ /\ free
        /\ Count(d)
        /\ product' = [product EXCEPT ![p] = [row EXCEPT !.ref = ref]]
        /\ Label(p, ref, d)
     \/ /\ ~free
        /\ TakenBack(d)
        /\ UNCHANGED <<product, labels>>
  /\ used' = used \cup {p}
-----------------------------------------------------------------------------
(* Products.                                                               *)

NewRow(d) == [ref |-> Null, depositor |-> d]

\* POST /products without a reference, of a bought product (d = Null) or of one a
\* depositor with a code leaves.
Create(p, d) ==
  /\ p \notin used
  /\ d # Null => d \in Registered /\ depositor[d].code # Null
  /\ Numbered(p, d, NewRow(d))
  /\ UNCHANGED <<newcomers, deposits, crossed, typed>>

\* POST /products with a reference of its own.
CreateTyped(p, d, ref) ==
  /\ Typing
  /\ p \notin used
  /\ d # Null => d \in Registered
  /\ ~InUse(ref)
  /\ product' = [product EXCEPT ![p] = [ref |-> ref, depositor |-> d]]
  /\ Label(p, ref, ByHand)
  /\ used' = used \cup {p}
  /\ UNCHANGED <<counter, depositor, crossed, newcomers, deposits>>

\* The form of a product: the reference is written as typed.
EditReference(p, ref) ==
  /\ Typing
  /\ p \in Live
  /\ ~InUse(ref)
  /\ product' = [product EXCEPT ![p].ref = ref]
  /\ Label(p, ref, ByHand)
  /\ UNCHANGED <<counter, depositor, used, crossed, newcomers, deposits>>

Delete(p) ==
  /\ p \in Live
  /\ product' = [product EXCEPT ![p] = Null]
  /\ UNCHANGED <<counter, depositor, used, newcomers, deposits, labels, crossed, typed>>

\* A product changes hands: it keeps its reference unless a new one is asked for.
Renumber(p, d) == Numbered(p, d, [product[p] EXCEPT !.depositor = d])
Keep(p, d) ==
  /\ product' = [product EXCEPT ![p].depositor = d]
  /\ UNCHANGED <<counter, depositor, used, labels>>

\* POST /deposit-contracts/:id/products: a free product, or one already there.
Attach(p, d, renumber) ==
  /\ p \in Live
  /\ d \in Registered
  /\ product[p].depositor \in {Null, d}
  /\ IF renumber THEN Renumber(p, d) ELSE Keep(p, d)
  /\ UNCHANGED <<newcomers, deposits, crossed, typed>>

\* DELETE /deposit-contracts/:id/products/:productId.
Detach(p, renumber) ==
  /\ p \in Live
  /\ product[p].depositor # Null
  /\ IF renumber THEN Renumber(p, Null) ELSE Keep(p, Null)
  /\ UNCHANGED <<newcomers, deposits, crossed, typed>>
-----------------------------------------------------------------------------
(* Depositors.                                                             *)

\* POST /depositors computes the code (uniqueCode), or takes the one that was typed...
Suggest(d, code) ==
  /\ d \notin used
  /\ newcomers' = newcomers \cup {[depositor |-> d, code |-> code]}
  /\ used' = used \cup {d}
  /\ UNCHANGED <<counter, depositor, product, deposits, labels, crossed, typed>>

\* ...then inserts the row, or answers that the code is taken.
Register(request) ==
  /\ request \in newcomers
  /\ newcomers' = newcomers \ {request}
  /\ depositor' = IF Taken(request.code) THEN depositor
                  ELSE [depositor EXCEPT ![request.depositor] =
                          [code |-> request.code, counter |-> 0]]
  /\ UNCHANGED <<counter, product, used, deposits, labels, crossed, typed>>

\* PUT /depositors/:id with a code.
EditCode(d, code) ==
  /\ Typing
  /\ d \in Registered
  /\ ~Taken(code)
  /\ depositor' = [depositor EXCEPT ![d].code = code]
  /\ UNCHANGED <<counter, product, used, crossed, newcomers, deposits, labels>>

\* DELETE /depositors/:id, once nothing is left on its contracts.
DeleteDepositor(d) ==
  /\ d \in Registered
  /\ \A p \in Live : product[p].depositor # d
  /\ depositor' = [depositor EXCEPT ![d] = Null]
  /\ UNCHANGED <<counter, product, used, newcomers, deposits, labels, crossed, typed>>

\* The first deposit of a depositor without code reads that there is none...
BeginDeposit(p, d) ==
  /\ p \notin used
  /\ d \in Registered
  /\ depositor[d].code = Null
  /\ deposits' = deposits \cup {[product |-> p, depositor |-> d, code |-> Null]}
  /\ used' = used \cup {p}
  /\ UNCHANGED <<counter, depositor, product, newcomers, labels, crossed, typed>>

\* ...then reads the codes in use and chooses one (assignCode)...
ReadCodes(request) ==
  /\ request \in deposits /\ request.code = Null
  /\ deposits' = (deposits \ {request})
                 \cup {[request EXCEPT !.code = FreeCode(request.depositor)]}
  /\ UNCHANGED <<counter, depositor, product, used, newcomers, labels, crossed, typed>>

\* ...then writes it, whatever another request has assigned since, and goes on with
\* the creation; it fails on a code or a number that is taken.
FinishDeposit(request) ==
  /\ request \in deposits /\ request.code # Null
  /\ deposits' = deposits \ {request}
  /\ LET d == request.depositor
         p == request.product
         code == request.code
         ref == [code |-> code, number |-> depositor[d].counter + 1]
     IN  IF d \in Registered /\ (Taken(code) => depositor[d].code = code) /\ ~InUse(ref)
         THEN /\ ref.number <= MaxNumber
              /\ depositor' = [depositor EXCEPT ![d] = [code |-> code, counter |-> ref.number]]
              /\ product' = [product EXCEPT ![p] = [ref |-> ref, depositor |-> d]]
              /\ Label(p, ref, d)
         ELSE UNCHANGED <<depositor, product, labels>>
  /\ crossed' = crossed \cup
       {d \in {request.depositor} \cap Registered : depositor[d].code # Null}
  /\ UNCHANGED <<counter, used, newcomers, typed>>
-----------------------------------------------------------------------------
Next ==
  \/ \E p \in Products, d \in Depositors \cup {Null} :
       Create(p, d) \/ \E ref \in References : CreateTyped(p, d, ref)
  \/ \E p \in Products, ref \in References : EditReference(p, ref)
  \/ \E p \in Products : Delete(p)
  \/ \E p \in Products, renumber \in BOOLEAN :
       Detach(p, renumber) \/ \E d \in Depositors : Attach(p, d, renumber)
  \/ \E p \in Products, d \in Depositors : BeginDeposit(p, d)
  \/ \E request \in deposits : ReadCodes(request) \/ FinishDeposit(request)
  \/ \E d \in Depositors, code \in Codes :
       Suggest(d, FreeCode(d)) \/ Suggest(d, code) \/ EditCode(d, code)
  \/ \E request \in newcomers : Register(request)
  \/ \E d \in Depositors : DeleteDepositor(d)

Spec == Init /\ [][Next]_vars
-----------------------------------------------------------------------------
\* The types: counters, rows, requests in flight and labels.
TypeOK ==
  /\ counter \in 0 .. MaxNumber
  /\ depositor \in [Depositors -> {Null} \cup [code: Codes \cup {Null}, counter: 0 .. MaxNumber]]
  /\ product \in [Products -> {Null} \cup [ref: References, depositor: Depositors \cup {Null}]]
  /\ used \subseteq Products \cup Depositors
  /\ newcomers \subseteq [depositor: Depositors, code: Codes]
  /\ deposits \subseteq [product: Products, depositor: Depositors, code: Codes \cup {Null}]
  /\ crossed \subseteq Depositors
  /\ typed \in 0 .. MaxTyped
  /\ labels \subseteq [product: Products, ref: References,
                       from: Depositors \cup {Null, ByHand}]

\* An old label never designates another article one day (nextReference): a number
\* two products have worn was written by hand at least once, or came from two
\* counters, the code having gone from a depositor to another.
LabelsTellArticles ==
  \A l, m \in labels :
    l.ref = m.ref /\ l.product # m.product
      => ByHand \in {l.from, m.from} \/ l.from # m.from

\* A depositor's numbers have no hole, a missing one shows (references.ts): each
\* number up to its counter is on a label its counter gave, whatever creations
\* failed in between; the same for the company.
NumbersHaveNoHole ==
  /\ \A d \in Registered : \A n \in 1 .. depositor[d].counter :
       \E l \in labels : l.from = d /\ l.ref.number = n
  /\ \A n \in 1 .. counter : \E l \in labels : l.from = Null /\ l.ref.number = n

\* A creation without a reference fails only by somebody's hand: the next number is
\* in use because it was typed, or because its code was another depositor's.
BlockedOnlyByHand ==
  \A d \in Registered \cup {Null} :
    \A p \in Live :
      product[p].ref = NextReference(d) =>
        \E l \in labels : l.product = p /\ l.ref = product[p].ref /\ l.from # d

\* A depositor's code is computed once and for all (assignCode): all the numbers of
\* its counter carry one code, until somebody edits it, or two first deposits cross.
CodeIsGivenOnce ==
  \A l, m \in labels :
    l.from = m.from /\ l.from # ByHand /\ l.ref.code # m.ref.code
      => typed > 0 \/ l.from \in crossed
=============================================================================
