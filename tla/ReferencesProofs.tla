-------------------------- MODULE ReferencesProofs --------------------------
(***************************************************************************)
(* Theorems about References, for any number of products, depositors and   *)
(* codes: every number of a counter goes to one article and leaves no      *)
(* hole, and a code is given once.                                         *)
(***************************************************************************)
EXTENDS References, TLAPS, WellFoundedInduction

From(d) == {l \in labels : l.from = d}

\* No label of a counter is ahead of it, and the company's bear its own code.
CountersAhead ==
  /\ \A l \in From(Null) : l.ref.number <= counter /\ l.ref.code = Bought
  /\ \A d \in Registered : \A l \in From(d) : l.ref.number <= depositor[d].counter

\* A number of a counter went to one product.
OneProductEach ==
  \A l, m \in labels :
    l.from = m.from /\ l.from # ByHand /\ l.ref.number = m.ref.number => l.product = m.product

\* What has an identifier that was never given out, or whose row is not inserted yet,
\* has left no trace.
Traceless(d) == depositor[d] = Null /\ From(d) = {}

NobodyComesBack ==
  /\ \A d \in Depositors \ used : Traceless(d)
  /\ \A q \in newcomers : q.depositor \in used /\ Traceless(q.depositor)
  /\ \A q, w \in newcomers : q.depositor = w.depositor => q = w

EveryProductIsLabelled ==
  \A p \in Live : \E l \in labels : l.product = p /\ l.ref = product[p].ref

\* The labels of a depositor bear the code they have now.
OneCode ==
  \A d \in Registered :
    /\ depositor[d].code = Null => From(d) = {}
    /\ typed = 0 /\ d \notin crossed => \A l \in From(d) : l.ref.code = depositor[d].code

IInv ==
  /\ TypeOK /\ CountersAhead /\ OneProductEach /\ NobodyComesBack
  /\ EveryProductIsLabelled /\ OneCode /\ NumbersHaveNoHole /\ CodeIsGivenOnce
-----------------------------------------------------------------------------
(* The codes.                                                              *)

\* freeCode returns one of the candidates.
LEMMA FreeCodeIsCode == ASSUME NEW d \in Depositors PROVE FreeCode(d) \in Codes
<1> DEFINE free == {i \in DOMAIN Candidates[d] : ~Taken(Candidates[d][i])}
<1>1. Candidates[d] \in Seq(Codes) /\ Candidates[d] # <<>>
  BY CandidatesAreCodes
<1>2. DOMAIN Candidates[d] = 1 .. Len(Candidates[d]) /\ 1 \in DOMAIN Candidates[d]
  BY <1>1
<1>3. ASSUME free # {} PROVE \E i \in free : \A j \in free : i <= j
  <2>1. free \subseteq Nat
    BY <1>2
  <2>2. PICK i \in free : \A j \in free : ~(<<j, i>> \in OpToRel(<, Nat))
    BY <1>3, <2>1, NatLessThanWellFounded, WFMin
  <2>3. ASSUME NEW j \in free PROVE i <= j
    <3>1. i \in Nat /\ j \in Nat
      BY <2>1
    <3>2. ~(<<j, i>> \in {ss \in Nat \X Nat : ss[1] < ss[2]})
      BY <2>2 DEF OpToRel
    <3>3. ~(j < i)
      BY <3>1, <3>2
    <3> QED
      BY <3>1, <3>3
  <2> QED
    BY <2>3
<1> DEFINE first == IF free = {} THEN 1 ELSE CHOOSE i \in free : \A j \in free : i <= j
<1>4. first \in DOMAIN Candidates[d]
  BY <1>2, <1>3
<1>5. FreeCode(d) = Candidates[d][first]
  BY DEF FreeCode
<1> HIDE DEF first
<1> QED
  BY <1>1, <1>2, <1>4, <1>5

LEMMA CodeOfIsCode ==
  ASSUME TypeOK, NEW d \in Registered PROVE CodeOf(d) \in Codes
<1>1. d \in Depositors /\ depositor[d] \in [code: Codes \cup {Null}, counter: 0 .. MaxNumber]
  BY DEF TypeOK, Registered
<1>2. depositor[d].code \in Codes \cup {Null}
  BY <1>1
<1> QED
  BY <1>1, <1>2, FreeCodeIsCode DEF CodeOf
-----------------------------------------------------------------------------
LEMMA InitHolds == Init => IInv
<1> SUFFICES ASSUME Init PROVE IInv
  OBVIOUS
<1> USE DEF Init
<1>1. \A d \in Registered : depositor[d] = [code |-> Null, counter |-> 0]
  BY DEF Registered
<1>2. TypeOK
  BY BoundsAreNat, LegacyAreDepositors DEF TypeOK
<1>3. CountersAhead /\ OneProductEach /\ EveryProductIsLabelled /\ OneCode /\ CodeIsGivenOnce
  BY DEF CountersAhead, OneProductEach, EveryProductIsLabelled, OneCode, CodeIsGivenOnce, From, Live
<1>4. NobodyComesBack
  BY DEF NobodyComesBack, Traceless, From
<1>5. NumbersHaveNoHole
  <2> HIDE DEF Init
  <2>1. \A n \in 1 .. 0 : FALSE
    OBVIOUS
  <2>2. \A d \in Registered : depositor[d].counter = 0
    BY <1>1
  <2> QED
    BY <2>1, <2>2 DEF NumbersHaveNoHole, Init
<1> QED
  BY <1>2, <1>3, <1>4, <1>5 DEF IInv
-----------------------------------------------------------------------------
(* What the operations have in common.                                     *)

\* No label is written and no counter moves.
LEMMA QuietKeeps ==
  ASSUME IInv, TypeOK', UNCHANGED <<labels, counter, depositor, newcomers>>,
         used \subseteq used', crossed \subseteq crossed', typed <= typed',
         \A p \in Live' : p \in Live /\ product'[p].ref = product[p].ref
  PROVE  IInv'
<1> USE DEF IInv
<1>1. CountersAhead' /\ OneProductEach' /\ NumbersHaveNoHole'
  BY DEF CountersAhead, OneProductEach, NumbersHaveNoHole, From, Registered
<1>2. NobodyComesBack'
  BY DEF NobodyComesBack, Traceless, From
<1>3. EveryProductIsLabelled'
  BY DEF EveryProductIsLabelled
<1>4. typed' = 0 => typed = 0
  BY DEF TypeOK
<1>5. OneCode' /\ CodeIsGivenOnce'
  BY <1>4 DEF OneCode, CodeIsGivenOnce, From, Registered, TypeOK
<1> QED
  BY <1>1, <1>2, <1>3, <1>5

\* A reference is written by hand.
LEMMA HandKeeps ==
  ASSUME IInv, TypeOK', NEW p \in Products, NEW ref \in References, NEW holder,
         Typing, Label(p, ref, ByHand), UNCHANGED <<counter, depositor, newcomers, crossed>>,
         used \subseteq used',
         product' = [product EXCEPT ![p] = [ref |-> ref, depositor |-> holder]]
  PROVE  IInv'
<1> USE DEF IInv
<1> DEFINE new == [product |-> p, ref |-> ref, from |-> ByHand]
<1>1. labels' = labels \cup {new}
  BY DEF Label
<1>2. \A d \in Depositors \cup {Null} : From(d)' = From(d)
  BY <1>1, NamesApart DEF From
<1>3. CountersAhead' /\ NobodyComesBack'
  BY <1>2 DEF CountersAhead, NobodyComesBack, Traceless, Registered, TypeOK
<1>4. OneProductEach'
  BY <1>1 DEF OneProductEach
<1>5. EveryProductIsLabelled'
  <2>1. new.product = p /\ new.ref = ref /\ product'[p].ref = ref
    BY DEF TypeOK
  <2>2. \A other \in Live' \ {p} : other \in Live /\ product'[other] = product[other]
    BY DEF Live, TypeOK
  <2> HIDE DEF new
  <2> QED
    BY <1>1, <2>1, <2>2 DEF EveryProductIsLabelled
<1>6. typed' > 0 /\ typed' # 0
  BY DEF Typing, TypeOK
<1>7. OneCode'
  BY <1>2, <1>6 DEF OneCode, Registered
<1>8. NumbersHaveNoHole' /\ CodeIsGivenOnce'
  BY <1>1, <1>6 DEF NumbersHaveNoHole, CodeIsGivenOnce, Registered
<1> QED
  BY <1>3, <1>4, <1>5, <1>7, <1>8

\* The company's counter gives its next number.
LEMMA CompanyGives ==
  ASSUME IInv, TypeOK', NEW p \in Products, NEW holder,
         labels' = labels \cup {[product |-> p, from |-> Null,
                                 ref |-> [code |-> Bought, number |-> counter + 1]]},
         counter' = counter + 1, UNCHANGED <<depositor, newcomers, crossed, typed>>,
         used \subseteq used',
         product' = [product EXCEPT ![p] =
           [ref |-> [code |-> Bought, number |-> counter + 1], depositor |-> holder]]
  PROVE  IInv'
<1> USE DEF IInv
<1> DEFINE ref == [code |-> Bought, number |-> counter + 1]
           new == [product |-> p, from |-> Null, ref |-> ref]
<1>1. /\ new.product = p /\ new.from = Null /\ new.ref = ref
      /\ ref.number = counter + 1 /\ ref.code = Bought
  OBVIOUS
<1>2. labels' = labels \cup {new} /\ counter \in Nat
  BY BoundsAreNat DEF TypeOK
<1>3. \A l \in labels : l.ref.number \in Nat
  BY DEF TypeOK, References
<1> HIDE DEF ref, new
<1>4. \A l \in From(Null) : l.ref.number <= counter /\ l.ref.code = Bought
  BY DEF CountersAhead
<1>5. \A d \in Depositors : From(d)' = From(d)
  BY <1>1, <1>2, NamesApart DEF From
<1>6. CountersAhead'
  <2>1. \A l \in From(Null)' : l.ref.number <= counter' /\ l.ref.code = Bought
    BY <1>1, <1>2, <1>3, <1>4 DEF From
  <2> QED
    BY <1>5, <2>1 DEF CountersAhead, Registered
<1>7. NobodyComesBack'
  BY <1>5 DEF NobodyComesBack, Traceless, TypeOK
<1>8. OneProductEach'
  <2>1. \A l \in labels : l.from = Null => l.ref.number # new.ref.number
    BY <1>1, <1>2, <1>3, <1>4 DEF From
  <2> QED
    BY <1>1, <1>2, <2>1 DEF OneProductEach
<1>9. EveryProductIsLabelled'
  BY <1>1, <1>2 DEF EveryProductIsLabelled, Live, TypeOK, ref
<1>10. OneCode'
  BY <1>5 DEF OneCode, Registered
<1>11. NumbersHaveNoHole'
  <2>1. \A n \in 1 .. counter' : n \in 1 .. counter \/ n = counter + 1
    BY <1>2
  <2> QED
    BY <1>1, <1>2, <2>1 DEF NumbersHaveNoHole, Registered
<1>12. CodeIsGivenOnce'
  BY <1>1, <1>2, <1>4 DEF CodeIsGivenOnce, From
<1> QED
  BY <1>6, <1>7, <1>8, <1>9, <1>10, <1>11, <1>12

\* A depositor's counter gives its next number, with their code or with their first one.
LEMMA DepositorGives ==
  ASSUME IInv, TypeOK', NEW p \in Products, NEW d \in Registered, NEW code \in Codes,
         labels' = labels \cup {[product |-> p, from |-> d,
                                 ref |-> [code |-> code, number |-> depositor[d].counter + 1]]},
         depositor' = [depositor EXCEPT ![d] =
                         [code |-> code, counter |-> depositor[d].counter + 1]],
         UNCHANGED <<counter, newcomers, typed>>,
         used \subseteq used', crossed \subseteq crossed',
         d \in crossed' \/ depositor[d].code \in {Null, code},
         product' = [product EXCEPT ![p] =
           [ref |-> [code |-> code, number |-> depositor[d].counter + 1], depositor |-> d]]
  PROVE  IInv'
<1> USE DEF IInv
<1> DEFINE last == depositor[d].counter
           ref == [code |-> code, number |-> last + 1]
           new == [product |-> p, from |-> d, ref |-> ref]
<1>1. /\ new.product = p /\ new.from = d /\ new.ref = ref
      /\ ref.number = last + 1 /\ ref.code = code
  OBVIOUS
<1>2. labels' = labels \cup {new}
  OBVIOUS
<1>3. d \in Depositors /\ d # Null /\ d # ByHand /\ last \in Nat
  <2>1. depositor[d] \in [code: Codes \cup {Null}, counter: 0 .. MaxNumber]
    BY DEF TypeOK, Registered
  <2> QED
    BY <2>1, NamesApart, BoundsAreNat DEF Registered
<1>4. \A l \in labels : l.ref.number \in Nat
  BY DEF TypeOK, References
<1>5. depositor'[d].code = code /\ depositor'[d].counter = last + 1
      /\ \A other \in Depositors \ {d} : depositor'[other] = depositor[other]
  BY <1>3 DEF TypeOK
<1>6. Registered' \subseteq Registered
  BY <1>5 DEF Registered
<1> HIDE DEF ref, new, last
<1>7. \A other \in (Depositors \cup {Null}) \ {d} : From(other)' = From(other)
  BY <1>1, <1>2 DEF From
<1>8. From(d)' = From(d) \cup {new}
  BY <1>1, <1>2 DEF From
<1>9. \A l \in From(d) : l.ref.number <= last
  BY DEF CountersAhead, last
<1>10. CountersAhead'
  <2>1. \A l \in From(d)' : l.ref.number <= depositor'[d].counter
    BY <1>1, <1>3, <1>4, <1>5, <1>8, <1>9 DEF From
  <2>2. \A other \in Registered' \ {d} : \A l \in From(other)' :
          l.ref.number <= depositor'[other].counter
    BY <1>5, <1>6, <1>7 DEF CountersAhead, Registered
  <2>3. From(Null)' = From(Null)
    BY <1>3, <1>7
  <2> QED
    BY <2>1, <2>2, <2>3 DEF CountersAhead
<1>11. NobodyComesBack'
  <2>1. depositor[d] # Null
    BY DEF Registered
  <2>2. d \in used /\ \A q \in newcomers : q.depositor # d
    BY <1>3, <2>1 DEF NobodyComesBack, Traceless
  <2>3. \A other \in Depositors \ {d} : Traceless(other) => Traceless(other)'
    BY <1>5, <1>7 DEF Traceless
  <2>4. \A q \in newcomers : q.depositor \in Depositors
    BY DEF TypeOK
  <2> QED
    BY <2>2, <2>3, <2>4 DEF NobodyComesBack
<1>12. OneProductEach'
  <2>1. \A l \in labels : l.from = d => l.ref.number # new.ref.number
    BY <1>1, <1>3, <1>4, <1>9 DEF From
  <2> QED
    BY <1>1, <1>2, <2>1 DEF OneProductEach
<1>13. EveryProductIsLabelled'
  BY <1>1, <1>2 DEF EveryProductIsLabelled, Live, TypeOK, ref, last
<1>14. ASSUME typed' = 0, d \notin crossed' PROVE \A l \in From(d) : l.ref.code = code
  BY <1>14 DEF OneCode
<1>15. OneCode'
  <2>1. code # Null
    BY NamesApart
  <2>2. typed' = 0 /\ d \notin crossed' => \A l \in From(d)' : l.ref.code = depositor'[d].code
    BY <1>1, <1>5, <1>8, <1>14
  <2>3. ASSUME NEW other \in Registered' \ {d}
        PROVE  /\ depositor'[other].code = Null => From(other)' = {}
               /\ typed' = 0 /\ other \notin crossed' =>
                    \A l \in From(other)' : l.ref.code = depositor'[other].code
    BY <1>5, <1>6, <1>7 DEF OneCode, Registered
  <2> QED
    BY <1>5, <2>1, <2>2, <2>3 DEF OneCode
<1>16. NumbersHaveNoHole'
  <2>1. \A n \in 1 .. last + 1 : n \in 1 .. last \/ n = last + 1
    BY <1>3
  <2>2. \A n \in 1 .. last : \E l \in labels : l.from = d /\ l.ref.number = n
    BY DEF NumbersHaveNoHole, last
  <2>3. \A n \in 1 .. depositor'[d].counter : \E l \in labels' : l.from = d /\ l.ref.number = n
    BY <1>1, <1>2, <1>5, <2>1, <2>2
  <2>4. \A other \in Registered' \ {d} : \A n \in 1 .. depositor'[other].counter :
          \E l \in labels' : l.from = other /\ l.ref.number = n
    BY <1>2, <1>5, <1>6 DEF NumbersHaveNoHole, Registered
  <2> QED
    BY <1>2, <2>3, <2>4 DEF NumbersHaveNoHole
<1>17. CodeIsGivenOnce'
  <2>1. ASSUME NEW l \in labels, l.from = d, l.ref.code # code PROVE typed' > 0 \/ d \in crossed'
    BY <1>14, <2>1 DEF From, TypeOK
  <2> QED
    BY <1>1, <1>2, <2>1 DEF CodeIsGivenOnce
<1> QED
  BY <1>10, <1>11, <1>12, <1>13, <1>15, <1>16, <1>17
-----------------------------------------------------------------------------
(* One lemma for each operation.                                           *)

LEMMA NumberedKeeps ==
  ASSUME IInv, NEW p \in Products, NEW d \in Registered \cup {Null},
         NEW row \in [ref: References \cup {Null}, depositor: Depositors \cup {Null}],
         row.depositor = d, Numbered(p, d, row), UNCHANGED <<newcomers, deposits, crossed, typed>>
  PROVE  IInv'
<1> USE DEF IInv
<1> DEFINE ref == NextReference(d)
<1>1. ref.number <= MaxNumber /\ used' = used \cup {p}
  BY DEF Numbered
<1>2. CASE Count(d) /\ Label(p, ref, d) /\ product' = [product EXCEPT ![p] = [row EXCEPT !.ref = ref]]
  <2>1. [row EXCEPT !.ref = ref] = [ref |-> ref, depositor |-> d]
    OBVIOUS
  <2>2. labels' = labels \cup {[product |-> p, from |-> d, ref |-> ref]}
    BY <1>2 DEF Label
  <2>3. product' = [product EXCEPT ![p] = [ref |-> ref, depositor |-> d]]
    BY <1>2, <2>1
  <2>4. CASE d = Null
    <3>1. ref = [code |-> Bought, number |-> counter + 1]
      BY <2>4 DEF NextReference, NextNumber
    <3>2. counter' = counter + 1 /\ UNCHANGED depositor
      BY <1>2, <2>4 DEF Count, NextNumber
    <3>3. counter \in 0 .. MaxNumber /\ counter + 1 <= MaxNumber
      BY <1>1, <3>1 DEF TypeOK
    <3>4. ref \in References
      BY <3>1, <3>3, BoundsAreNat DEF References
    <3>5. TypeOK'
      BY <1>1, <2>2, <2>3, <2>4, <3>2, <3>3, <3>4, BoundsAreNat DEF TypeOK
    <3> HIDE DEF ref
    <3> QED
      BY <1>1, <2>2, <2>3, <2>4, <3>1, <3>2, <3>5, CompanyGives
  <2>5. CASE d \in Registered
    <3>1. d \in Depositors /\ depositor[d] \in [code: Codes \cup {Null}, counter: 0 .. MaxNumber]
          /\ d # Null
      BY <2>5, NamesApart DEF TypeOK, Registered
    <3>2. CodeOf(d) \in Codes
      BY <2>5, CodeOfIsCode
    <3>3. ref = [code |-> CodeOf(d), number |-> depositor[d].counter + 1]
      BY <3>1 DEF NextReference, NextNumber
    <3>4. depositor' = [depositor EXCEPT ![d] =
                          [code |-> CodeOf(d), counter |-> depositor[d].counter + 1]]
          /\ UNCHANGED counter
      BY <1>2, <3>1 DEF Count, NextNumber
    <3>5. depositor[d].counter \in 0 .. MaxNumber /\ depositor[d].counter + 1 <= MaxNumber
      BY <1>1, <3>1, <3>3
    <3>6. ref \in References
      BY <3>2, <3>3, <3>5, BoundsAreNat DEF References
    <3>7. TypeOK'
      <4>1. [code |-> CodeOf(d), counter |-> depositor[d].counter + 1]
              \in [code: Codes \cup {Null}, counter: 0 .. MaxNumber]
        BY <3>2, <3>5, BoundsAreNat
      <4> QED
        BY <1>1, <2>2, <2>3, <3>1, <3>4, <3>6, <4>1 DEF TypeOK
    <3>8. depositor[d].code \in {Null, CodeOf(d)}
      BY DEF CodeOf
    <3> HIDE DEF ref
    <3> QED
      BY <1>1, <2>2, <2>3, <2>5, <3>2, <3>3, <3>4, <3>7, <3>8, DepositorGives
  <2> QED
    BY <2>4, <2>5
<1>3. CASE TakenBack(d) /\ UNCHANGED <<product, labels>>
  <2>1. TypeOK'
    BY <1>1, <1>3 DEF TakenBack, TypeOK
  <2> QED
    BY <1>1, <1>3, <2>1, QuietKeeps DEF TakenBack, Live, TypeOK
<1> QED
  BY <1>2, <1>3 DEF Numbered

LEMMA CreateKeeps ==
  ASSUME IInv, NEW p \in Products, NEW d \in Depositors \cup {Null}, Create(p, d) PROVE IInv'
<1>1. NewRow(d) \in [ref: References \cup {Null}, depositor: Depositors \cup {Null}]
      /\ NewRow(d).depositor = d
  BY DEF NewRow
<1> QED
  BY <1>1, NumberedKeeps DEF Create

LEMMA CreateTypedKeeps ==
  ASSUME IInv, NEW p \in Products, NEW d \in Depositors \cup {Null}, NEW ref \in References,
         CreateTyped(p, d, ref)
  PROVE  IInv'
<1>1. TypeOK'
  BY BoundsAreNat DEF IInv, TypeOK, CreateTyped, Typing, Label
<1> QED
  BY <1>1, HandKeeps DEF CreateTyped

LEMMA EditReferenceKeeps ==
  ASSUME IInv, NEW p \in Products, NEW ref \in References, EditReference(p, ref) PROVE IInv'
<1>1. p \in Live /\ product[p] \in [ref: References, depositor: Depositors \cup {Null}]
  BY DEF EditReference, Live, IInv, TypeOK
<1>2. [product[p] EXCEPT !.ref = ref] = [ref |-> ref, depositor |-> product[p].depositor]
  BY <1>1
<1>3. product' = [product EXCEPT ![p] = [ref |-> ref, depositor |-> product[p].depositor]]
  BY <1>2 DEF EditReference
<1>4. TypeOK'
  BY <1>1, <1>3, BoundsAreNat DEF IInv, TypeOK, EditReference, Typing, Label
<1> QED
  BY <1>3, <1>4, HandKeeps DEF EditReference

LEMMA DeleteKeeps == ASSUME IInv, NEW p \in Products, Delete(p) PROVE IInv'
<1>1. TypeOK'
  BY DEF IInv, TypeOK, Delete
<1> QED
  BY <1>1, QuietKeeps DEF Delete, Live, IInv, TypeOK

\* A product changes hands and keeps its reference.
LEMMA KeepKeeps ==
  ASSUME IInv, NEW p \in Live, NEW d \in Depositors \cup {Null}, Keep(p, d),
         UNCHANGED <<newcomers, deposits, crossed, typed>>
  PROVE  IInv'
<1>1. p \in Products /\ product[p] \in [ref: References, depositor: Depositors \cup {Null}]
  BY DEF Live, IInv, TypeOK
<1> DEFINE row == [ref |-> product[p].ref, depositor |-> d]
<1>2. [product[p] EXCEPT !.depositor = d] = row
  BY <1>1
<1>3. row \in [ref: References, depositor: Depositors \cup {Null}] /\ row.ref = product[p].ref
  BY <1>1
<1>4. product' = [product EXCEPT ![p] = row]
  BY <1>2 DEF Keep
<1> HIDE DEF row
<1>5. TypeOK'
  BY <1>1, <1>3, <1>4 DEF IInv, TypeOK, Keep
<1>6. \A q \in Live' : q \in Live /\ product'[q].ref = product[q].ref
  BY <1>1, <1>3, <1>4 DEF Live, IInv, TypeOK
<1> QED
  BY <1>5, <1>6, QuietKeeps DEF Keep, IInv, TypeOK

\* A product changes hands and takes a new reference.
LEMMA RenumberKeeps ==
  ASSUME IInv, NEW p \in Live, NEW d \in Registered \cup {Null}, Renumber(p, d),
         UNCHANGED <<newcomers, deposits, crossed, typed>>
  PROVE  IInv'
<1>1. p \in Products /\ product[p] \in [ref: References, depositor: Depositors \cup {Null}]
      /\ d \in Depositors \cup {Null}
  BY DEF Live, IInv, TypeOK, Registered
<1>2. [product[p] EXCEPT !.depositor = d] = [ref |-> product[p].ref, depositor |-> d]
  BY <1>1
<1> DEFINE row == [product[p] EXCEPT !.depositor = d]
<1>3. row \in [ref: References \cup {Null}, depositor: Depositors \cup {Null}] /\ row.depositor = d
  BY <1>1, <1>2
<1>4. Numbered(p, d, row)
  BY DEF Renumber
<1> HIDE DEF row
<1> QED
  BY <1>1, <1>3, <1>4, NumberedKeeps

LEMMA AttachKeeps ==
  ASSUME IInv, NEW p \in Products, NEW d \in Depositors, NEW renumber \in BOOLEAN,
         Attach(p, d, renumber)
  PROVE  IInv'
  BY KeepKeeps, RenumberKeeps DEF Attach

LEMMA DetachKeeps ==
  ASSUME IInv, NEW p \in Products, NEW renumber \in BOOLEAN, Detach(p, renumber)
  PROVE  IInv'
  BY KeepKeeps, RenumberKeeps DEF Detach

LEMMA SuggestKeeps ==
  ASSUME IInv, NEW d \in Depositors, NEW code \in Codes, Suggest(d, code) PROVE IInv'
<1> USE DEF IInv, Suggest
<1>1. TypeOK'
  BY DEF TypeOK
<1>2. NobodyComesBack'
  BY DEF NobodyComesBack, Traceless, From
<1>3. CountersAhead' /\ OneProductEach' /\ EveryProductIsLabelled' /\ OneCode'
      /\ NumbersHaveNoHole' /\ CodeIsGivenOnce'
  BY DEF CountersAhead, OneProductEach, EveryProductIsLabelled, OneCode, NumbersHaveNoHole,
         CodeIsGivenOnce, From, Registered, Live
<1> QED
  BY <1>1, <1>2, <1>3

LEMMA RegisterKeeps == ASSUME IInv, NEW q \in newcomers, Register(q) PROVE IInv'
<1> USE DEF IInv
<1> DEFINE d == q.depositor
           row == [code |-> q.code, counter |-> 0]
<1>1. d \in Depositors /\ q.code \in Codes /\ q.code # Null /\ d # Null
  BY NamesApart DEF TypeOK
<1>2. newcomers' = newcomers \ {q} /\ UNCHANGED <<counter, product, used, deposits, labels, crossed, typed>>
  BY DEF Register
<1>3. row.code = q.code /\ row.counter = 0
      /\ row \in [code: Codes \cup {Null}, counter: 0 .. MaxNumber]
  BY <1>1, BoundsAreNat
<1>4. depositor' = depositor \/ depositor' = [depositor EXCEPT ![d] = row]
  BY DEF Register
<1> HIDE DEF row
<1>5. depositor'[d] = row \/ depositor' = depositor
  BY <1>1, <1>4 DEF TypeOK
<1>6. \A other \in Depositors \ {d} : depositor'[other] = depositor[other]
  BY <1>4 DEF TypeOK
<1>7. depositor[d] = Null /\ From(d) = {} /\ d \in used
  BY DEF NobodyComesBack, Traceless
<1>8. TypeOK'
  BY <1>1, <1>2, <1>3, <1>4 DEF TypeOK
<1>9. From(Null)' = From(Null) /\ \A other \in Depositors : From(other)' = From(other)
  BY <1>2 DEF From
<1>10. \A other \in Registered' :
          \/ other \in Registered \ {d} /\ depositor'[other] = depositor[other]
          \/ other = d /\ depositor'[other] = row
  <2>1. \A other \in Registered' : other # d => other \in Registered /\ depositor'[other] = depositor[other]
    BY <1>6 DEF Registered
  <2>2. d \in Registered' => depositor'[d] = row
    BY <1>5, <1>7 DEF Registered
  <2> QED
    BY <2>1, <2>2
<1>11. CountersAhead' /\ OneCode'
  BY <1>1, <1>2, <1>3, <1>7, <1>9, <1>10 DEF CountersAhead, OneCode, Registered
<1>12. NobodyComesBack'
  <2>1. \A other \in Depositors \ {d} : Traceless(other) => Traceless(other)'
    BY <1>6, <1>9 DEF Traceless
  <2>2. \A w \in newcomers' : w.depositor \in Depositors \ {d}
    BY <1>2 DEF NobodyComesBack, TypeOK
  <2> QED
    BY <1>2, <1>7, <2>1, <2>2 DEF NobodyComesBack
<1>13. OneProductEach' /\ EveryProductIsLabelled' /\ CodeIsGivenOnce'
  BY <1>2 DEF OneProductEach, EveryProductIsLabelled, CodeIsGivenOnce, Live
<1>14. NumbersHaveNoHole'
  <2>1. \A n \in 1 .. 0 : FALSE
    OBVIOUS
  <2>2. \A other \in Registered' : \A n \in 1 .. depositor'[other].counter :
          \E l \in labels : l.from = other /\ l.ref.number = n
    BY <1>3, <1>10, <2>1 DEF NumbersHaveNoHole
  <2> QED
    BY <1>2, <2>2 DEF NumbersHaveNoHole
<1> QED
  BY <1>8, <1>11, <1>12, <1>13, <1>14

LEMMA EditCodeKeeps ==
  ASSUME IInv, NEW d \in Depositors, NEW code \in Codes, EditCode(d, code) PROVE IInv'
<1> USE DEF IInv
<1>1. d \in Registered /\ depositor[d] \in [code: Codes \cup {Null}, counter: 0 .. MaxNumber]
  BY DEF EditCode, Registered, TypeOK
<1>2. UNCHANGED <<counter, product, used, crossed, newcomers, deposits, labels>>
  BY DEF EditCode
<1>3. typed \in 0 .. MaxTyped /\ typed' = typed + 1 /\ typed < MaxTyped
  BY DEF EditCode, Typing, TypeOK
<1> DEFINE row == [code |-> code, counter |-> depositor[d].counter]
<1>4. depositor' = [depositor EXCEPT ![d] = row]
  <2>1. [depositor[d] EXCEPT !.code = code] = row
    BY <1>1
  <2> QED
    BY <2>1 DEF EditCode
<1>5. row \in [code: Codes \cup {Null}, counter: 0 .. MaxNumber] /\ row.code = code
      /\ row.counter = depositor[d].counter /\ code # Null
  BY <1>1, NamesApart
<1> HIDE DEF row
<1>6. \A other \in Registered' :
        /\ other \in Registered /\ depositor'[other].counter = depositor[other].counter
        /\ depositor'[other].code # Null \/ depositor'[other].code = depositor[other].code
  BY <1>1, <1>4, <1>5 DEF Registered, TypeOK
<1>7. TypeOK'
  BY <1>2, <1>3, <1>4, <1>5, BoundsAreNat DEF TypeOK
<1>8. typed' # 0 /\ typed' > 0
  BY <1>3, BoundsAreNat
<1>9. CountersAhead' /\ OneCode' /\ NumbersHaveNoHole'
  BY <1>2, <1>6, <1>8 DEF CountersAhead, OneCode, NumbersHaveNoHole, From
<1>10. OneProductEach' /\ EveryProductIsLabelled' /\ CodeIsGivenOnce'
  BY <1>2, <1>8 DEF OneProductEach, EveryProductIsLabelled, CodeIsGivenOnce, Live
<1>11. NobodyComesBack'
  <2>1. \A other \in Depositors : Traceless(other) => other # d /\ Traceless(other)'
    BY <1>1, <1>2, <1>4 DEF Traceless, From, Registered, TypeOK
  <2> QED
    BY <1>2, <2>1 DEF NobodyComesBack, TypeOK
<1> QED
  BY <1>7, <1>9, <1>10, <1>11

LEMMA DeleteDepositorKeeps ==
  ASSUME IInv, NEW d \in Depositors, DeleteDepositor(d) PROVE IInv'
<1> USE DEF IInv
<1>1. depositor' = [depositor EXCEPT ![d] = Null]
      /\ UNCHANGED <<counter, product, used, newcomers, deposits, labels, crossed, typed>>
  BY DEF DeleteDepositor
<1>2. TypeOK'
  BY <1>1 DEF TypeOK
<1>3. \A other \in Registered' : other \in Registered /\ depositor'[other] = depositor[other]
  BY <1>1 DEF Registered, TypeOK
<1>4. CountersAhead' /\ OneCode' /\ NumbersHaveNoHole'
  BY <1>1, <1>3 DEF CountersAhead, OneCode, NumbersHaveNoHole, From
<1>5. OneProductEach' /\ EveryProductIsLabelled' /\ CodeIsGivenOnce'
  BY <1>1 DEF OneProductEach, EveryProductIsLabelled, CodeIsGivenOnce, Live
<1>6. NobodyComesBack'
  <2>1. \A other \in Depositors : Traceless(other) => Traceless(other)'
    BY <1>1 DEF Traceless, From, TypeOK
  <2> QED
    BY <1>1, <2>1 DEF NobodyComesBack, TypeOK
<1> QED
  BY <1>2, <1>4, <1>5, <1>6

LEMMA BeginDepositKeeps ==
  ASSUME IInv, NEW p \in Products, NEW d \in Depositors, BeginDeposit(p, d) PROVE IInv'
<1>1. TypeOK'
  BY DEF IInv, TypeOK, BeginDeposit
<1> QED
  BY <1>1, QuietKeeps DEF BeginDeposit, Live, IInv, TypeOK

LEMMA ReadCodesKeeps ==
  ASSUME IInv, NEW q \in deposits, ReadCodes(q) PROVE IInv'
<1>1. [q EXCEPT !.code = FreeCode(q.depositor)]
        \in [product: Products, depositor: Depositors, code: Codes \cup {Null}]
  <2>1. q \in [product: Products, depositor: Depositors, code: Codes \cup {Null}]
    BY DEF IInv, TypeOK
  <2> QED
    BY <2>1, FreeCodeIsCode
<1>2. TypeOK'
  BY <1>1 DEF IInv, TypeOK, ReadCodes
<1> QED
  BY <1>2, QuietKeeps DEF ReadCodes, Live, IInv, TypeOK

LEMMA FinishDepositKeeps ==
  ASSUME IInv, NEW q \in deposits, FinishDeposit(q) PROVE IInv'
<1> USE DEF IInv
<1> DEFINE d == q.depositor
           p == q.product
           code == q.code
           ref == [code |-> code, number |-> depositor[d].counter + 1]
<1>1. d \in Depositors /\ p \in Products /\ code \in Codes
  BY DEF TypeOK, FinishDeposit
<1>2. /\ deposits' = deposits \ {q} /\ UNCHANGED <<counter, used, newcomers, typed>>
      /\ crossed' = crossed \cup {x \in {d} \cap Registered : depositor[x].code # Null}
  BY DEF FinishDeposit
<1>3. crossed \subseteq crossed' /\ crossed' \subseteq Depositors
  BY <1>1, <1>2 DEF TypeOK
<1>4. CASE d \in Registered /\ (Taken(code) => depositor[d].code = code) /\ ~InUse(ref)
  <2>1. /\ ref.number <= MaxNumber
        /\ depositor' = [depositor EXCEPT ![d] = [code |-> code, counter |-> ref.number]]
        /\ product' = [product EXCEPT ![p] = [ref |-> ref, depositor |-> d]]
        /\ Label(p, ref, d)
    BY <1>4 DEF FinishDeposit
  <2>2. depositor[d] \in [code: Codes \cup {Null}, counter: 0 .. MaxNumber]
    BY <1>1, <1>4 DEF Registered, TypeOK
  <2>3. depositor[d].counter \in 0 .. MaxNumber /\ depositor[d].counter + 1 <= MaxNumber
    BY <2>1, <2>2
  <2>4. ref \in References
    BY <1>1, <2>3, BoundsAreNat DEF References
  <2>5. depositor' = [depositor EXCEPT ![d] =
                        [code |-> code, counter |-> depositor[d].counter + 1]]
    BY <2>1
  <2>6. TypeOK'
    <3>1. [code |-> code, counter |-> depositor[d].counter + 1]
            \in [code: Codes \cup {Null}, counter: 0 .. MaxNumber]
      BY <1>1, <2>3, BoundsAreNat
    <3> QED
      BY <1>1, <1>2, <1>3, <2>1, <2>4, <2>5, <3>1 DEF TypeOK, Label
  <2>7. d \in crossed' \/ depositor[d].code \in {Null, code}
    BY <1>2, <1>4
  <2>8. labels' = labels \cup {[product |-> p, from |-> d, ref |-> ref]}
    BY <2>1 DEF Label
  <2> HIDE DEF d, p, code
  <2> QED
    BY <1>1, <1>2, <1>3, <1>4, <2>1, <2>5, <2>6, <2>7, <2>8, DepositorGives
<1>5. CASE UNCHANGED <<depositor, product, labels>>
  <2>1. TypeOK'
    BY <1>2, <1>3, <1>5 DEF TypeOK
  <2> QED
    BY <1>2, <1>3, <1>5, <2>1, QuietKeeps DEF Live, TypeOK
<1> QED
  BY <1>4, <1>5 DEF FinishDeposit
-----------------------------------------------------------------------------
LEMMA NextHolds == IInv /\ [Next]_vars => IInv'
<1> SUFFICES ASSUME IInv, [Next]_vars PROVE IInv'
  OBVIOUS
<1>1. CASE UNCHANGED vars
  <2>1. TypeOK'
    BY <1>1 DEF vars, IInv, TypeOK
  <2> QED
    BY <1>1, <2>1, QuietKeeps DEF vars, Live, IInv, TypeOK
<1>2. CASE Next
  BY <1>2, FreeCodeIsCode, CreateKeeps, CreateTypedKeeps, EditReferenceKeeps, DeleteKeeps,
     AttachKeeps, DetachKeeps, SuggestKeeps, RegisterKeeps, EditCodeKeeps,
     DeleteDepositorKeeps, BeginDepositKeeps, ReadCodesKeeps, FinishDepositKeeps DEF Next
<1> QED
  BY <1>1, <1>2

\* The inductive invariant, of which the properties below are consequences.
THEOREM NumberingHolds == Spec => []IInv
<1> QED
  BY InitHolds, NextHolds, PTL DEF Spec

\* The counters, the rows and the labels have their types, whatever creations fail.
THEOREM NumberingTypeCorrect == Spec => []TypeOK
<1>1. IInv => TypeOK
  BY DEF IInv
<1> QED
  BY <1>1, NumberingHolds, PTL

\* nextReference: a number of a counter never designates two articles.
THEOREM NumbersNeverReused == Spec => []LabelsTellArticles
<1>1. IInv => LabelsTellArticles
  BY DEF IInv, OneProductEach, LabelsTellArticles
<1> QED
  BY <1>1, NumberingHolds, PTL

\* references.ts: the numbers of a depositor, and those of the company, have no hole.
THEOREM NumbersFollowOn == Spec => []NumbersHaveNoHole
<1>1. IInv => NumbersHaveNoHole
  BY DEF IInv
<1> QED
  BY <1>1, NumberingHolds, PTL

\* Whoever bears the next number of a counter did not take it there.
LEMMA NextNumberIsNew == IInv => BlockedOnlyByHand
<1> SUFFICES ASSUME IInv PROVE BlockedOnlyByHand
  OBVIOUS
<1> USE DEF IInv
<1> SUFFICES ASSUME NEW d \in Registered \cup {Null}, NEW p \in Live,
                    product[p].ref = NextReference(d)
             PROVE  \E l \in labels : l.product = p /\ l.ref = product[p].ref /\ l.from # d
  BY DEF BlockedOnlyByHand
<1>1. PICK l \in labels : l.product = p /\ l.ref = product[p].ref
  BY DEF EveryProductIsLabelled
<1>2. l.ref.number = NextNumber(d)
  BY <1>1 DEF NextReference
<1>3. CASE d = Null
  BY <1>1, <1>2, <1>3, BoundsAreNat DEF CountersAhead, From, NextNumber, TypeOK
<1>4. CASE d \in Registered
  <2>1. d # Null /\ depositor[d] \in [code: Codes \cup {Null}, counter: 0 .. MaxNumber]
    BY <1>4, NamesApart DEF Registered, TypeOK
  <2>2. depositor[d].counter \in Nat /\ l.ref.number = depositor[d].counter + 1
    BY <1>2, <2>1, BoundsAreNat DEF NextNumber
  <2> QED
    BY <1>1, <1>4, <2>2 DEF CountersAhead, From
<1> QED
  BY <1>3, <1>4

\* A creation without a reference meets a number in use only if the counter did not
\* give it.
THEOREM OnlyAHandBlocks == Spec => []BlockedOnlyByHand
<1> QED
  BY NextNumberIsNew, NumberingHolds, PTL

\* assignCode: unless somebody types, or two first deposits cross, all the numbers of a
\* depositor carry one code.
THEOREM OneCodeForAll == Spec => []CodeIsGivenOnce
<1>1. IInv => CodeIsGivenOnce
  BY DEF IInv
<1> QED
  BY <1>1, NumberingHolds, PTL
=============================================================================
