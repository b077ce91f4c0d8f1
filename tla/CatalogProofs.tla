--------------------------- MODULE CatalogProofs ---------------------------
(***************************************************************************)
(* Theorems about Catalog, for any number of categories, attributes,       *)
(* options, products and requests in flight: no row points at what is not  *)
(* there, no option a product uses is deleted under it, and every category *)
(* hangs from a root.                                                      *)
(***************************************************************************)
EXTENDS Catalog, FiniteSetTheorems, WellFoundedInduction, TLAPS

Rows == \A p \in DOMAIN product : product[p] \in [category: Categories, chosen: SUBSET Options]

\* Identifiers are given once; an option a list is about to add is nobody's yet.
NewAreNew ==
  /\ DOMAIN options \subseteq used /\ Owned \subseteq used
  /\ \A r \in pending : r \in Lists =>
       /\ r.new \subseteq used /\ r.new \cap Owned = {}
       /\ \A s \in pending : s \in Lists /\ s # r => s.new \cap r.new = {}

\* A deletion under way finds on the products only options chosen since it looked.
DeletionsLooked ==
  \A r \in pending, p \in DOMAIN product : \A o \in product[p].chosen :
    Deletes(r, o) => o \in late

IInv == TypeOK /\ Rows /\ NewAreNew /\ DeletionsLooked

\* The kinds tell the requests apart.
LEMMA KindsApart ==
  ASSUME NEW r \in Requests
  PROVE  /\ r \in Moves => r \notin Lists \cup Erasures
         /\ r \in Removals => r \notin Lists \cup Erasures
         /\ r \in Sheets => r \notin Lists \cup Erasures
         /\ r \in Erasures => r \notin Lists
  BY DEF Moves, Removals, Erasures, Lists, Sheets

LEMMA InitHolds == Init => IInv
<1> SUFFICES ASSUME Init PROVE IInv
  OBVIOUS
<1>1. PICK c \in Categories, a \in Attributes, o \in Options :
        /\ parent = [x \in {c} |-> Null] /\ options = [x \in {a} |-> {o}]
        /\ links = {<<c, a>>} /\ product = [p \in {} |-> Null] /\ used = {c, a, o} /\ pending = {}
  BY DEF Init
<1>2. TypeOK
  BY <1>1 DEF TypeOK, Tree, Owned
<1>3. Owned = {o}
  BY <1>1 DEF Owned
<1> QED
  BY <1>1, <1>2, <1>3 DEF IInv, Rows, NewAreNew, DeletionsLooked
-----------------------------------------------------------------------------
(* What the operations have in common.                                     *)

\* Neither an option nor a sheet is written.
LEMMA QuietKeeps ==
  ASSUME IInv, TypeOK', UNCHANGED <<options, product, late>>,
         pending' \subseteq pending, used \subseteq used'
  PROVE  IInv'
  BY DEF IInv, Rows, NewAreNew, DeletionsLooked, Owned, Deletes

\* A request is let through.
LEMMA AskKeeps ==
  ASSUME IInv, NEW request \in Requests, Ask(request), used \subseteq used',
         request \in Lists => request.new \cap used = {} /\ request.new \subseteq used',
         \A p \in DOMAIN product : \A o \in product[p].chosen : ~Deletes(request, o)
  PROVE  IInv'
<1> USE DEF IInv
<1>1. pending' = pending \cup {request} /\ UNCHANGED <<parent, options, links, product, late>>
  BY DEF Ask
<1>2. TypeOK' /\ Rows'
  BY <1>1 DEF TypeOK, Rows, Tree, Owned
<1>3. NewAreNew'
  <2>1. Owned' = Owned
    BY <1>1 DEF Owned
  <2>2. \A r \in pending : r \in Lists => r.new \subseteq used'
    BY DEF NewAreNew
  <2>3. ASSUME NEW r \in pending', NEW s \in pending', r \in Lists, s \in Lists, s # r
        PROVE  s.new \cap r.new = {}
    BY <1>1, <2>3 DEF NewAreNew
  <2> QED
    BY <1>1, <2>1, <2>2, <2>3 DEF NewAreNew
<1>4. DeletionsLooked'
  BY <1>1 DEF DeletionsLooked, Deletes
<1> QED
  BY <1>2, <1>3, <1>4

\* Options go and others come; what points at those that go is taken off.
LEMMA OptionsKeep ==
  ASSUME IInv, NEW new \in SUBSET Options, TypeOK', Rows',
         UNCHANGED late, pending' \subseteq pending, used \subseteq used',
         \A p \in DOMAIN product' : p \in DOMAIN product /\ product'[p].chosen \subseteq product[p].chosen,
         new \cap Owned = {}, DOMAIN options' \cup new \subseteq used',
         \A a \in DOMAIN options' :
           options'[a] \subseteq new \cup (IF a \in DOMAIN options THEN options[a] ELSE {}),
         \A r \in pending' : r \in Lists => r.new \cap new = {}
  PROVE  IInv'
<1> USE DEF IInv
<1>1. Owned' \subseteq Owned \cup new
  BY DEF Owned
<1>2. NewAreNew'
  BY <1>1 DEF NewAreNew
<1>3. DeletionsLooked'
  <2> SUFFICES ASSUME NEW r \in pending', NEW p \in DOMAIN product', NEW o \in product'[p].chosen,
                      Deletes(r, o)'
               PROVE  o \in late
    BY DEF DeletionsLooked
  <2>1. p \in DOMAIN product /\ o \in product[p].chosen /\ o \in Owned
    BY DEF TypeOK
  <2>2. Deletes(r, o)
    BY <2>1 DEF Deletes, Owned
  <2> QED
    BY <2>1, <2>2 DEF DeletionsLooked
<1> QED
  BY <1>2, <1>3
-----------------------------------------------------------------------------
(* One lemma for each operation.                                           *)

LEMMA CreateCategoryKeeps ==
  ASSUME IInv, NEW c \in Categories, NEW to \in Categories \cup {Null}, CreateCategory(c, to)
  PROVE  IInv'
<1>1. Tree' = Tree \cup {c} /\ \A x \in Tree' : parent'[x] \in Tree' \cup {Null}
  BY DEF CreateCategory, With, Tree, IInv, TypeOK
<1>2. TypeOK'
  BY <1>1 DEF IInv, TypeOK, CreateCategory, Owned
<1> QED
  BY <1>2, QuietKeeps DEF CreateCategory

LEMMA AskMoveKeeps ==
  ASSUME IInv, NEW c \in Categories, NEW to \in Categories \cup {Null}, AskMove(c, to)
  PROVE  IInv'
<1> DEFINE request == [kind |-> "move", category |-> c, to |-> to]
<1>1. request \in Moves /\ request \in Requests
  BY DEF Moves, Requests
<1>2. request \notin Lists \cup Erasures
  BY <1>1, KindsApart
<1>3. Ask(request) /\ UNCHANGED used
  BY DEF AskMove
<1> HIDE DEF request
<1> QED
  BY <1>1, <1>2, <1>3, AskKeeps DEF Deletes

LEMMA MoveKeeps == ASSUME IInv, NEW request \in pending, Move(request) PROVE IInv'
<1>1. \/ UNCHANGED parent
      \/ /\ parent' = With(parent, request.category, request.to)
         /\ request.category \in Tree /\ request.to \in Tree \cup {Null}
  BY DEF Move
<1>2. Tree' = Tree /\ \A x \in Tree : parent'[x] \in Tree \cup {Null}
  BY <1>1 DEF With, Tree, IInv, TypeOK
<1>3. pending' \subseteq pending /\ UNCHANGED <<options, links, product, used, late>>
  BY DEF Move, Answer
<1>4. TypeOK'
  BY <1>2, <1>3 DEF IInv, TypeOK, Owned
<1> QED
  BY <1>3, <1>4, QuietKeeps

LEMMA AskRemovalKeeps == ASSUME IInv, NEW c \in Categories, AskRemoval(c) PROVE IInv'
<1> DEFINE request == [kind |-> "remove", category |-> c]
<1>1. request \in Removals /\ request \in Requests
  BY DEF Removals, Requests
<1>2. request \notin Lists \cup Erasures
  BY <1>1, KindsApart
<1>3. Ask(request) /\ UNCHANGED used
  BY DEF AskRemoval
<1> HIDE DEF request
<1> QED
  BY <1>1, <1>2, <1>3, AskKeeps DEF Deletes

LEMMA RemoveKeeps == ASSUME IInv, NEW request \in pending, Remove(request) PROVE IInv'
<1> DEFINE c == request.category
<1>1. pending' \subseteq pending /\ UNCHANGED <<options, product, used, late>>
  BY DEF Remove, Answer
<1>2. CASE UNCHANGED <<parent, links>>
  <2>1. TypeOK'
    BY <1>1, <1>2 DEF IInv, TypeOK, Tree, Owned
  <2> QED
    BY <1>1, <2>1, QuietKeeps
<1>3. CASE /\ c \in Tree /\ NothingHangs(c)
           /\ parent' = Less(parent, c) /\ links' = {l \in links : l[1] # c}
  <2>1. Tree' = Tree \ {c} /\ \A x \in Tree' : parent'[x] \in Tree' \cup {Null}
    BY <1>3 DEF Less, Tree, NothingHangs, Children, IInv, TypeOK
  <2>2. \A p \in DOMAIN product : product[p].category \in Tree'
    BY <1>3, <2>1 DEF NothingHangs, ProductsOf, IInv, TypeOK
  <2>3. links' \subseteq Tree' \X DOMAIN options
    BY <1>3, <2>1 DEF IInv, TypeOK
  <2>4. TypeOK'
    BY <1>1, <2>1, <2>2, <2>3 DEF IInv, TypeOK, Owned
  <2> QED
    BY <1>1, <2>4, QuietKeeps
<1> QED
  BY <1>2, <1>3 DEF Remove

LEMMA SetAttributesKeeps ==
  ASSUME IInv, NEW c \in Categories, NEW S \in SUBSET Attributes, SetAttributes(c, S) PROVE IInv'
<1>1. TypeOK'
  BY DEF IInv, TypeOK, SetAttributes, Tree, Owned
<1> QED
  BY <1>1, QuietKeeps DEF SetAttributes

LEMMA SetCategoriesKeeps ==
  ASSUME IInv, NEW a \in Attributes, NEW S \in SUBSET Categories, SetCategories(a, S) PROVE IInv'
<1>1. TypeOK'
  BY DEF IInv, TypeOK, SetCategories, Tree, Owned
<1> QED
  BY <1>1, QuietKeeps DEF SetCategories

LEMMA CreateAttributeKeeps ==
  ASSUME IInv, NEW a \in Attributes, NEW new \in SUBSET Options, CreateAttribute(a, new)
  PROVE  IInv'
<1> USE DEF IInv
<1>1. /\ a \notin used /\ new \cap used = {} /\ used' = used \cup {a} \cup new
      /\ options' = With(options, a, new)
      /\ UNCHANGED <<parent, links, product, pending, late>>
  BY DEF CreateAttribute
<1>2. DOMAIN options' = DOMAIN options \cup {a} /\ options'[a] = new
      /\ \A b \in DOMAIN options \ {a} : options'[b] = options[b]
  BY <1>1 DEF With
<1>3. \A b \in DOMAIN options' :
        options'[b] \subseteq new \cup (IF b \in DOMAIN options THEN options[b] ELSE {})
  BY <1>2
<1>4. new \cap Owned = {} /\ \A r \in pending : r \in Lists => r.new \cap new = {}
  BY <1>1 DEF NewAreNew
<1>5. a \notin DOMAIN options /\ DOMAIN options' \cup new \subseteq used'
  BY <1>1, <1>2 DEF NewAreNew
<1>6. Owned \subseteq Owned'
  BY <1>2, <1>5 DEF Owned
<1>7. TypeOK' /\ Rows'
  BY <1>1, <1>2, <1>6 DEF TypeOK, Rows, Tree
<1> QED
  BY <1>1, <1>3, <1>4, <1>5, <1>7, OptionsKeep

LEMMA AskErasureKeeps == ASSUME IInv, NEW a \in Attributes, AskErasure(a) PROVE IInv'
<1> DEFINE request == [kind |-> "erase", attribute |-> a]
<1>1. request \in Erasures /\ request \in Requests /\ request.attribute = a
  BY DEF Erasures, Requests
<1>2. request \notin Lists
  BY <1>1, KindsApart
<1>3. Ask(request) /\ UNCHANGED used
  BY DEF AskErasure
<1>4. \A p \in DOMAIN product : \A o \in product[p].chosen : o \notin options[a]
  BY DEF AskErasure, Filled
<1> HIDE DEF request
<1> QED
  BY <1>1, <1>2, <1>3, <1>4, AskKeeps DEF Deletes

LEMMA EraseKeeps == ASSUME IInv, NEW request \in pending, Erase(request) PROVE IInv'
<1> USE DEF IInv
<1> DEFINE a == request.attribute
<1>1. pending' \subseteq pending /\ UNCHANGED <<parent, used, late>>
  BY DEF Erase, Answer
<1>2. CASE UNCHANGED <<options, links, product>>
  <2>1. TypeOK'
    BY <1>1, <1>2 DEF TypeOK, Tree, Owned
  <2> QED
    BY <1>1, <1>2, <2>1, QuietKeeps
<1>3. CASE /\ a \in DOMAIN options /\ options' = Less(options, a)
           /\ links' = {l \in links : l[2] # a} /\ Cascade(options[a])
  <2>1. DOMAIN options' = DOMAIN options \ {a} /\ \A b \in DOMAIN options' : options'[b] = options[b]
    BY <1>3 DEF Less
  <2>2. /\ DOMAIN product' = DOMAIN product
        /\ \A p \in DOMAIN product :
             product'[p] = [product[p] EXCEPT !.chosen = product[p].chosen \ options[a]]
    BY <1>3 DEF Cascade
  <2>3. \A p \in DOMAIN product :
          /\ product'[p] \in [category: Categories, chosen: SUBSET Options]
          /\ product'[p].category = product[p].category
          /\ product'[p].chosen = product[p].chosen \ options[a]
    BY <2>2 DEF Rows
  <2>4. Owned \ options[a] \subseteq Owned'
    BY <2>1 DEF Owned
  <2>5. links' \subseteq Tree \X DOMAIN options'
    BY <1>3, <2>1 DEF TypeOK
  <2>6. TypeOK' /\ Rows'
    BY <1>1, <2>1, <2>2, <2>3, <2>4, <2>5 DEF TypeOK, Rows, Tree
  <2>7. \A b \in DOMAIN options' :
          options'[b] \subseteq {} \cup (IF b \in DOMAIN options THEN options[b] ELSE {})
    BY <2>1
  <2>8. {} \in SUBSET Options /\ {} \cap Owned = {} /\ DOMAIN options' \cup {} \subseteq used'
        /\ \A r \in pending' : r \in Lists => r.new \cap {} = {}
    BY <1>1, <2>1 DEF NewAreNew
  <2>9. \A p \in DOMAIN product' : p \in DOMAIN product /\ product'[p].chosen \subseteq product[p].chosen
    BY <2>2, <2>3
  <2> QED
    BY <1>1, <2>6, <2>7, <2>8, <2>9, OptionsKeep
<1> QED
  BY <1>2, <1>3 DEF Erase

LEMMA AskListKeeps ==
  ASSUME IInv, NEW a \in Attributes, NEW kept \in SUBSET Options, NEW new \in SUBSET Options,
         AskList(a, kept, new)
  PROVE  IInv'
<1> DEFINE gone == options[a] \ kept
           request == [kind |-> "list", attribute |-> a, kept |-> kept, gone |-> gone, new |-> new]
<1>1. gone \in SUBSET Options
  BY DEF AskList, IInv, TypeOK
<1>2. request \in Lists /\ request \in Requests /\ request.attribute = a /\ request.new = new
      /\ request.gone = gone
  BY <1>1 DEF Lists, Requests
<1>3. request \notin Erasures
  BY <1>2, KindsApart
<1>4. Ask(request) /\ new \cap used = {} /\ used' = used \cup new
  BY DEF AskList
<1>5. \A p \in DOMAIN product : \A o \in product[p].chosen : o \notin gone
  BY DEF AskList, Filled, Blocking
<1> HIDE DEF request, gone
<1> QED
  BY <1>2, <1>3, <1>4, <1>5, AskKeeps DEF Deletes

LEMMA SetOptionsKeeps == ASSUME IInv, NEW request \in pending, SetOptions(request) PROVE IInv'
<1> USE DEF IInv
<1> DEFINE a == request.attribute
           new == request.new
<1>1. pending' = pending \ {request} /\ request \in Lists /\ UNCHANGED <<parent, links, used, late>>
  BY DEF SetOptions, Answer
<1>2. CASE UNCHANGED <<options, product>>
  <2>1. TypeOK'
    BY <1>1, <1>2 DEF TypeOK, Tree, Owned
  <2> QED
    BY <1>1, <1>2, <2>1, QuietKeeps
<1>3. CASE /\ a \in DOMAIN options
           /\ options' = [options EXCEPT ![a] = (@ \ request.gone) \cup new]
           /\ Cascade(options[a] \cap request.gone)
  <2> DEFINE gone == options[a] \cap request.gone
  <2>1. DOMAIN options' = DOMAIN options /\ options'[a] = (options[a] \ gone) \cup new
        /\ \A b \in DOMAIN options \ {a} : options'[b] = options[b]
    BY <1>3
  <2>2. /\ DOMAIN product' = DOMAIN product
        /\ \A p \in DOMAIN product :
             product'[p] = [product[p] EXCEPT !.chosen = product[p].chosen \ gone]
    BY <1>3 DEF Cascade
  <2>3. \A p \in DOMAIN product :
          /\ product'[p] \in [category: Categories, chosen: SUBSET Options]
          /\ product'[p].category = product[p].category
          /\ product'[p].chosen = product[p].chosen \ gone
    BY <2>2 DEF Rows
  <2>4. Owned \ gone \subseteq Owned'
    BY <2>1 DEF Owned
  <2>5. new \in SUBSET Options /\ new \cap Owned = {} /\ DOMAIN options' \cup new \subseteq used'
    BY <1>1, <2>1 DEF NewAreNew, Lists
  <2>6. TypeOK' /\ Rows'
    BY <1>1, <2>1, <2>2, <2>3, <2>4, <2>5 DEF TypeOK, Rows, Tree
  <2>7. \A b \in DOMAIN options' :
          options'[b] \subseteq new \cup (IF b \in DOMAIN options THEN options[b] ELSE {})
    BY <2>1
  <2>8. \A r \in pending' : r \in Lists => r.new \cap new = {}
    BY <1>1 DEF NewAreNew
  <2>9. \A p \in DOMAIN product' : p \in DOMAIN product /\ product'[p].chosen \subseteq product[p].chosen
    BY <2>2, <2>3
  <2> HIDE DEF gone, new
  <2> QED
    BY <1>1, <2>5, <2>6, <2>7, <2>8, <2>9, OptionsKeep
<1> QED
  BY <1>2, <1>3 DEF SetOptions

LEMMA AskSheetKeeps ==
  ASSUME IInv, NEW p \in Products, NEW c \in Categories, NEW chosen \in SUBSET Options,
         AskSheet(p, c, chosen)
  PROVE  IInv'
<1> DEFINE request == [kind |-> "sheet", product |-> p, category |-> c, chosen |-> chosen]
<1>1. request \in Sheets /\ request \in Requests
  BY DEF Sheets, Requests
<1>2. request \notin Lists \cup Erasures
  BY <1>1, KindsApart
<1>3. Ask(request) /\ UNCHANGED used
  BY DEF AskSheet
<1> HIDE DEF request
<1> QED
  BY <1>1, <1>2, <1>3, AskKeeps DEF Deletes

LEMMA WriteSheetKeeps == ASSUME IInv, NEW request \in pending, WriteSheet(request) PROVE IInv'
<1> USE DEF IInv
<1> DEFINE row == [category |-> request.category, chosen |-> request.chosen]
           p == request.product
<1>1. pending' = pending \ {request} /\ request \in Sheets /\ UNCHANGED <<parent, options, links, used>>
  BY DEF WriteSheet, Answer
<1>2. CASE UNCHANGED <<product, late>>
  <2>1. TypeOK'
    BY <1>1, <1>2 DEF TypeOK, Tree, Owned
  <2> QED
    BY <1>1, <1>2, <2>1, QuietKeeps
<1>3. CASE /\ request.category \in Tree /\ request.chosen \subseteq Owned
           /\ product' = With(product, p, row)
           /\ late' = late \cup {o \in request.chosen : \E other \in pending : Deletes(other, o)}
  <2>1. p \in Products /\ row \in [category: Categories, chosen: SUBSET Options]
        /\ row.category = request.category /\ row.chosen = request.chosen
    BY <1>1 DEF Sheets
  <2>2. DOMAIN product' = DOMAIN product \cup {p} /\ product'[p] = row
        /\ \A q \in DOMAIN product \ {p} : product'[q] = product[q]
    BY <1>3 DEF With
  <2> HIDE DEF row
  <2>3. TypeOK' /\ Rows'
    BY <1>1, <1>3, <2>1, <2>2 DEF TypeOK, Rows, Tree, Owned
  <2>4. NewAreNew'
    BY <1>1 DEF NewAreNew, Owned
  <2>5. DeletionsLooked'
    <3> SUFFICES ASSUME NEW r \in pending', NEW q \in DOMAIN product', NEW o \in product'[q].chosen,
                        Deletes(r, o)
                 PROVE  o \in late'
      BY <1>1 DEF DeletionsLooked, Deletes
    <3>1. CASE q = p
      BY <1>1, <1>3, <2>1, <2>2, <3>1
    <3>2. CASE q # p
      BY <1>1, <1>3, <2>2, <3>2 DEF DeletionsLooked
    <3> QED
      BY <3>1, <3>2
  <2> QED
    BY <2>3, <2>4, <2>5
<1> QED
  BY <1>2, <1>3 DEF WriteSheet

LEMMA DeleteProductKeeps == ASSUME IInv, NEW p \in Products, DeleteProduct(p) PROVE IInv'
<1> USE DEF IInv
<1>1. UNCHANGED <<parent, options, links, used, pending, late>>
      /\ DOMAIN product' = DOMAIN product \ {p}
      /\ \A q \in DOMAIN product' : product'[q] = product[q]
  BY DEF DeleteProduct, Less
<1>2. TypeOK' /\ Rows' /\ NewAreNew' /\ DeletionsLooked'
  BY <1>1 DEF TypeOK, Rows, NewAreNew, DeletionsLooked, Deletes, Tree, Owned
<1> QED
  BY <1>2
-----------------------------------------------------------------------------
LEMMA NextHolds == IInv /\ [Next]_vars => IInv'
<1> SUFFICES ASSUME IInv, [Next]_vars PROVE IInv'
  OBVIOUS
<1>1. CASE UNCHANGED vars
  BY <1>1 DEF vars, IInv, TypeOK, Rows, NewAreNew, DeletionsLooked, Deletes, Tree, Owned
<1>2. CASE Next
  BY <1>2, CreateCategoryKeeps, AskMoveKeeps, MoveKeeps, AskRemovalKeeps, RemoveKeeps,
     SetAttributesKeeps, SetCategoriesKeeps, CreateAttributeKeeps, AskErasureKeeps, EraseKeeps,
     AskListKeeps, SetOptionsKeeps, AskSheetKeeps, WriteSheetKeeps, DeleteProductKeeps DEF Next
<1> QED
  BY <1>1, <1>2

\* The inductive invariant, of which the properties below are consequences.
THEOREM CatalogHolds == Spec => []IInv
<1> QED
  BY InitHolds, NextHolds, PTL DEF Spec

\* No row of the catalogue points at what is not there: the checks of the services and the
\* foreign keys, with any number of requests between a check and its write.
THEOREM CatalogTypeCorrect == Spec => []TypeOK
<1>1. IInv => TypeOK
  BY DEF IInv
<1> QED
  BY <1>1, CatalogHolds, PTL

\* AttributesService.delete and setOptions take no option from under a product, unless its
\* sheet was written after they had looked.
THEOREM ValuesAreSafe == Spec => NoValueIsLost
<1>1. IInv /\ [Next]_vars =>
        [\A p \in DOMAIN product : p \in DOMAIN product' =>
           \A o \in product[p].chosen \ product'[p].chosen :
             \/ o \in late
             \/ \E r \in pending \ pending' : r \in Sheets /\ r.product = p]_vars
  <2> SUFFICES ASSUME IInv, Next, NEW p \in DOMAIN product, p \in DOMAIN product',
                      NEW o \in product[p].chosen, o \notin product'[p].chosen
               PROVE  o \in late \/ \E r \in pending \ pending' : r \in Sheets /\ r.product = p
    OBVIOUS
  <2>1. product' # product
    OBVIOUS
  <2>2. PICK r : \/ r \in pending /\ (Erase(r) \/ SetOptions(r) \/ WriteSheet(r))
                 \/ DeleteProduct(r)
    BY <2>1 DEF Next, CreateCategory, AskMove, Ask, AskRemoval, SetAttributes, SetCategories,
                AskErasure, CreateAttribute, AskList, AskSheet, Move, Remove
  <2>3. ~DeleteProduct(r)
    BY DEF DeleteProduct, Less
  <2>4. r \in pending /\ r \notin pending'
    BY <2>2, <2>3 DEF Erase, SetOptions, WriteSheet, Answer
  <2>5. CASE Erase(r)
    <3>1. r.attribute \in DOMAIN options /\ Cascade(options[r.attribute]) /\ r \in Erasures
      BY <2>1, <2>5 DEF Erase
    <3>2. product'[p] = [product[p] EXCEPT !.chosen = product[p].chosen \ options[r.attribute]]
      BY <3>1 DEF Cascade
    <3>3. o \in options[r.attribute]
      BY <3>2 DEF IInv, Rows
    <3>4. Deletes(r, o)
      BY <3>1, <3>3 DEF Deletes
    <3> QED
      BY <2>4, <3>4 DEF IInv, DeletionsLooked
  <2>6. CASE SetOptions(r)
    <3>1. r.attribute \in DOMAIN options /\ Cascade(options[r.attribute] \cap r.gone) /\ r \in Lists
      BY <2>1, <2>6 DEF SetOptions
    <3>2. product'[p] = [product[p] EXCEPT
                           !.chosen = product[p].chosen \ (options[r.attribute] \cap r.gone)]
      BY <3>1 DEF Cascade
    <3>3. o \in options[r.attribute] \cap r.gone
      BY <3>2 DEF IInv, Rows
    <3>4. Deletes(r, o)
      BY <3>1, <3>3 DEF Deletes
    <3> QED
      BY <2>4, <3>4 DEF IInv, DeletionsLooked
  <2>7. CASE WriteSheet(r)
    <3>1. r \in Sheets
      BY <2>7 DEF WriteSheet
    <3>2. r.product = p
      BY <2>1, <2>7 DEF WriteSheet, With
    <3> QED
      BY <2>4, <3>1, <3>2
  <2> QED
    BY <2>2, <2>3, <2>5, <2>6, <2>7
<1> QED
  BY <1>1, CatalogHolds, PTL DEF Spec, NoValueIsLost
-----------------------------------------------------------------------------
(* The tree.  Ancestry climbs until it finds nothing new, which it does    *)
(* before it has climbed as many times as there are categories.            *)

\* Every set of numbers has a least one.
LEMMA Least ==
  ASSUME NEW S \in SUBSET Nat, S # {}
  PROVE  \E n \in S : \A m \in S : n <= m
<1>1. PICK n \in S : \A m \in S : ~(<<m, n>> \in OpToRel(<, Nat))
  BY NatLessThanWellFounded, WFMin
<1>2. ASSUME NEW m \in S PROVE n <= m
  <2>1. ~(<<m, n>> \in {ss \in Nat \X Nat : ss[1] < ss[2]})
    BY <1>1 DEF OpToRel
  <2>. QED
    BY <2>1
<1>. QED
  BY <1>2

\* The categories of S and their parents.
Up(S) == S \cup {parent[x] : x \in {x \in S \cap Tree : parent[x] # Null}}

Climbs(g, c, m) == g = [n \in 0 .. m |-> IF n = 0 THEN {c} ELSE Up(g[n - 1])]

\* The parents of the categories of S are in S.
Closed(S) == S \subseteq Tree /\ \A x \in S : parent[x] \in S \cup {Null}

\* Such a climb, step by step.
LEMMA ClimbRule ==
  ASSUME NEW c, NEW m \in Nat, NEW g, Climbs(g, c, m)
  PROVE  DOMAIN g = 0 .. m /\ g[0] = {c} /\ \A n \in 1 .. m : g[n] = Up(g[n - 1])
<1>1. DOMAIN g = 0 .. m
  BY DEF Climbs
<1>2. ASSUME NEW n \in 0 .. m PROVE g[n] = IF n = 0 THEN {c} ELSE Up(g[n - 1])
  <2>. DEFINE F(i) == IF i = 0 THEN {c} ELSE Up(g[i - 1])
  <2>1. g = [i \in 0 .. m |-> F(i)]
    BY DEF Climbs
  <2>. HIDE DEF F
  <2>2. g[n] = F(n)
    BY <2>1
  <2>. QED
    BY <2>2 DEF F
<1>3. 0 \in 0 .. m /\ \A n \in 1 .. m : n \in 0 .. m /\ n # 0
  OBVIOUS
<1>. QED
  BY <1>1, <1>2, <1>3

\* One can climb as high as one likes.
LEMMA ClimbExists ==
  ASSUME NEW c, NEW m \in Nat
  PROVE  \E g : Climbs(g, c, m)
<1>. DEFINE bad == {n \in Nat : ~ \E g : Climbs(g, c, n)}
<1>1. SUFFICES ASSUME bad # {} PROVE FALSE
  OBVIOUS
<1>2. PICK n \in bad : \A i \in bad : n <= i
  <2>1. bad \in SUBSET Nat
    OBVIOUS
  <2>. HIDE DEF bad
  <2>. QED
    BY <1>1, <2>1, Least
<1>3. CASE n = 0
  <2>. DEFINE g == [i \in 0 .. 0 |-> {c}]
  <2>1. Climbs(g, c, 0)
    BY DEF Climbs
  <2>. QED
    BY <1>3, <2>1
<1>4. CASE n # 0
  <2>1. n \in Nat /\ n - 1 \in Nat /\ n - 1 \notin bad
    BY <1>2, <1>4
  <2>2. PICK g : Climbs(g, c, n - 1)
    BY <2>1
  <2>. DEFINE h == [i \in 0 .. n |-> IF i = n THEN Up(g[n - 1]) ELSE g[i]]
  <2>3. DOMAIN g = 0 .. (n - 1) /\ g[0] = {c}
        /\ \A i \in 1 .. (n - 1) : g[i] = Up(g[i - 1])
    <3>1. PICK k \in Nat : k = n - 1
      BY <2>1
    <3>2. Climbs(g, c, k)
      BY <2>2, <3>1
    <3>3. DOMAIN g = 0 .. k /\ g[0] = {c} /\ \A i \in 1 .. k : g[i] = Up(g[i - 1])
      BY <3>2, ClimbRule
    <3>. QED
      BY <3>1, <3>3
  <2>4. ASSUME NEW i \in 0 .. n PROVE h[i] = IF i = 0 THEN {c} ELSE Up(h[i - 1])
    <3>1. CASE i = 0
      BY <1>4, <2>1, <2>3, <3>1
    <3>2. CASE i \in 1 .. (n - 1)
      <4>1. i # n /\ i - 1 # n /\ i # 0 /\ i - 1 \in 0 .. n
        BY <2>1, <3>2
      <4>2. h[i] = g[i] /\ h[i - 1] = g[i - 1]
        BY <4>1
      <4>3. g[i] = Up(g[i - 1])
        BY <2>3, <3>2
      <4>. QED
        BY <4>1, <4>2, <4>3
    <3>3. CASE i = n
      <4>1. n - 1 # n /\ n - 1 \in 0 .. n
        BY <2>1
      <4>2. h[n] = Up(g[n - 1]) /\ h[n - 1] = g[n - 1]
        BY <2>1, <4>1
      <4>. QED
        BY <1>4, <3>3, <4>2
    <3>. QED
      BY <2>1, <3>1, <3>2, <3>3
  <2>5. Climbs(h, c, n)
    <3>1. h = [i \in 0 .. n |-> h[i]]
      OBVIOUS
    <3>. HIDE DEF h
    <3>. QED
      BY <2>4, <3>1 DEF Climbs
  <2>. QED
    BY <2>5
<1>. QED
  BY <1>3, <1>4

Depth == Cardinality(Categories)

\* Ancestry is such a climb.
LEMMA AncestryClimbs ==
  ASSUME NEW c
  PROVE  \E g : Climbs(g, c, Depth) /\ Ancestry(c) = g[Depth]
<1>. DEFINE climb == CHOOSE g : Climbs(g, c, Depth)
<1>1. Depth \in Nat
  BY CategoriesAssumption, FS_CardinalityType DEF Depth
<1>2. Climbs(climb, c, Depth)
  BY <1>1, ClimbExists
<1>3. Ancestry(c) = climb[Depth]
  BY DEF Ancestry, Climbs, Up, Depth
<1>. QED
  BY <1>2, <1>3

\* A step up stays in the tree; it finds a new category unless there is none.
LEMMA UpGrows ==
  ASSUME TypeOK, NEW S \in SUBSET Tree
  PROVE  /\ S \subseteq Up(S) /\ Up(S) \subseteq Tree
         /\ Closed(S) => Up(S) = S
         /\ ~Closed(S) => Cardinality(Up(S)) > Cardinality(S)
<1>1. S \subseteq Up(S) /\ Up(S) \subseteq Tree
  BY DEF Up, TypeOK
<1>2. Closed(S) => Up(S) = S
  BY DEF Up, Closed
<1>3. Up(S) = S => Closed(S)
  BY DEF Up, Closed, TypeOK
<1>4. IsFiniteSet(Up(S))
  BY <1>1, CategoriesAssumption, FS_Subset DEF TypeOK
<1>5. Up(S) # S => Cardinality(Up(S)) > Cardinality(S)
  <2>1. /\ IsFiniteSet(S) /\ Cardinality(S) <= Cardinality(Up(S))
        /\ Cardinality(Up(S)) = Cardinality(S) => Up(S) = S
    BY <1>1, <1>4, FS_Subset
  <2>2. Cardinality(S) \in Nat /\ Cardinality(Up(S)) \in Nat
    BY <1>4, <2>1, FS_CardinalityType
  <2>. QED
    BY <2>1, <2>2
<1>. QED
  BY <1>1, <1>2, <1>3, <1>5

\* The ancestors of a category: a part of the tree that holds its own parents.
LEMMA AncestryCloses ==
  ASSUME TypeOK, NEW c \in Tree
  PROVE  c \in Ancestry(c) /\ Closed(Ancestry(c))
<1>1. PICK g : Climbs(g, c, Depth) /\ Ancestry(c) = g[Depth]
  BY AncestryClimbs
<1>2. Depth \in Nat
  BY CategoriesAssumption, FS_CardinalityType DEF Depth
<1>3. g[0] = {c} /\ \A n \in 1 .. Depth : g[n] = Up(g[n - 1])
  BY <1>1, <1>2, ClimbRule
<1>. DEFINE Good(n) == /\ c \in g[n] /\ g[n] \subseteq Tree
                       /\ Closed(g[n]) \/ Cardinality(g[n]) > n
            bad == {n \in 0 .. Depth : ~Good(n)}
<1>4. bad = {}
  <2>1. SUFFICES ASSUME bad # {} PROVE FALSE
    OBVIOUS
  <2>2. PICK n \in bad : \A i \in bad : n <= i
    <3>1. bad \in SUBSET Nat
      BY <1>2
    <3>. HIDE DEF bad
    <3>. QED
      BY <2>1, <3>1, Least
  <2>3. CASE n = 0
    <3>1. Cardinality({c}) = 1
      BY FS_Singleton
    <3>. QED
      BY <1>3, <2>2, <2>3, <3>1
  <2>4. CASE n # 0
    <3>1. n \in 1 .. Depth /\ n - 1 \in 0 .. Depth /\ n - 1 \notin bad
      BY <1>2, <2>2, <2>4
    <3>2. Good(n - 1) /\ g[n] = Up(g[n - 1])
      BY <1>3, <3>1
    <3>. DEFINE S == g[n - 1]
    <3>3. c \in S /\ S \subseteq Tree /\ (Closed(S) \/ Cardinality(S) > n - 1)
      BY <3>2
    <3>4. IsFiniteSet(S) /\ IsFiniteSet(Up(S))
      BY <3>3, UpGrows, CategoriesAssumption, FS_Subset DEF TypeOK
    <3>5. Cardinality(S) \in Nat /\ Cardinality(Up(S)) \in Nat
      BY <3>4, FS_CardinalityType
    <3>6. /\ c \in Up(S) /\ Up(S) \subseteq Tree
          /\ Closed(Up(S)) \/ Cardinality(Up(S)) > n
      <4>. HIDE DEF S
      <4>1. CASE Closed(S)
        BY <3>3, <4>1, UpGrows
      <4>2. CASE ~Closed(S)
        <5>1. Cardinality(Up(S)) > Cardinality(S) /\ S \subseteq Up(S) /\ Up(S) \subseteq Tree
          BY <3>3, <4>2, UpGrows
        <5>. QED
          BY <3>1, <3>3, <3>5, <4>2, <5>1
      <4>. QED
        BY <4>1, <4>2
    <3>. QED
      BY <2>2, <3>2, <3>6
  <2>. QED
    BY <2>3, <2>4
<1>5. Good(Depth)
  BY <1>2, <1>4
<1>6. ~(Cardinality(g[Depth]) > Depth)
  <2>1. g[Depth] \subseteq Categories
    BY <1>5 DEF TypeOK
  <2>2. IsFiniteSet(g[Depth]) /\ Cardinality(g[Depth]) <= Depth
    BY <2>1, CategoriesAssumption, FS_Subset DEF Depth
  <2>3. Cardinality(g[Depth]) \in Nat
    BY <2>2, FS_CardinalityType
  <2>. QED
    BY <1>2, <2>2, <2>3
<1>. QED
  BY <1>1, <1>5, <1>6

-----------------------------------------------------------------------------
(* Why no loop appears: a move goes under a part of the tree that holds     *)
(* its own parents and not the category that moves, and it keeps this part  *)
(* from its check to its write, if no other move is written in between.     *)

\* Whatever part of the tree, some category of it has its parent elsewhere.
Loopless == \A S \in SUBSET Tree : S # {} => \E x \in S : parent[x] \notin S

Sure(r) == r.to \in Tree => \E A : Closed(A) /\ r.to \in A /\ r.category \notin A

TreeInv ==
  /\ Tree \subseteq used
  /\ \A r \in pending : r \in Moves => r.to \in used \cup {Null}
  /\ crossed \/ (Loopless /\ \A r \in pending : r \in Moves => Sure(r))

\* No category moves, comes or goes.
LEMMA TreeRests ==
  ASSUME TreeInv, UNCHANGED <<parent, crossed>>, used \subseteq used',
         \A r \in pending' : r \in Moves => r \in pending
  PROVE  TreeInv'
<1>1. Tree' = Tree
  BY DEF Tree
<1>2. Loopless => Loopless'
  BY <1>1 DEF Loopless
<1>3. \A r \in pending : Sure(r) => Sure(r)'
  BY <1>1 DEF Sure, Closed
<1>4. Tree' \subseteq used' /\ \A r \in pending' : r \in Moves => r.to \in used' \cup {Null}
  BY <1>1 DEF TreeInv
<1>5. crossed' \/ (Loopless' /\ \A r \in pending' : r \in Moves => Sure(r)')
  BY <1>2, <1>3 DEF TreeInv
<1>. QED
  BY <1>4, <1>5 DEF TreeInv

\* A new category is a leaf, and no request knows it.
LEMMA CreateCategoryKeepsTree ==
  ASSUME TypeOK, TreeInv, NEW c \in Categories, NEW to \in Categories \cup {Null},
         CreateCategory(c, to)
  PROVE  TreeInv'
<1>1. /\ c \notin used /\ used' = used \cup {c} /\ UNCHANGED <<pending, crossed>>
      /\ parent' = With(parent, c, to) /\ to \in Tree \cup {Null}
  BY DEF CreateCategory
<1>2. Tree' = Tree \cup {c} /\ parent'[c] = to /\ \A x \in Tree : parent'[x] = parent[x]
  BY <1>1 DEF With, Tree, TreeInv
<1>3. c \notin Tree /\ c # Null
  BY <1>1, CategoriesAssumption DEF TreeInv
<1>4. ASSUME Loopless, NEW S \in SUBSET Tree', S # {} PROVE \E x \in S : parent'[x] \notin S
  <2>1. CASE S = {c}
    BY <1>1, <1>2, <1>3, <2>1
  <2>2. CASE S # {c}
    <3>1. PICK x \in S \ {c} : parent[x] \notin S \ {c}
      <4>1. S \ {c} \in SUBSET Tree /\ S \ {c} # {}
        BY <1>2, <1>4, <2>2
      <4>. QED
        BY <1>4, <4>1 DEF Loopless
    <3>2. x \in Tree /\ parent[x] \in Tree \cup {Null}
      BY <1>2, <3>1 DEF TypeOK
    <3>. QED
      BY <1>2, <1>3, <3>1, <3>2
  <2>. QED
    BY <2>1, <2>2
<1>5. ASSUME NEW r \in pending, r \in Moves, Sure(r) PROVE Sure(r)'
  <2>. SUFFICES ASSUME r.to \in Tree'
                PROVE  \E A : Closed(A)' /\ r.to \in A /\ r.category \notin A
    BY DEF Sure
  <2>1. r.to # c
    BY <1>1, <1>3, <1>5 DEF TreeInv
  <2>2. PICK A : Closed(A) /\ r.to \in A /\ r.category \notin A
    BY <1>2, <1>5, <2>1 DEF Sure
  <2>. QED
    BY <1>2, <2>2 DEF Closed
<1>6. Tree' \subseteq used' /\ \A r \in pending' : r \in Moves => r.to \in used' \cup {Null}
  BY <1>1, <1>2 DEF TreeInv
<1>7. crossed' \/ (Loopless' /\ \A r \in pending' : r \in Moves => Sure(r)')
  BY <1>1, <1>4, <1>5 DEF TreeInv, Loopless
<1>. QED
  BY <1>6, <1>7 DEF TreeInv

\* The check of a move: the new parent and its ancestors are such a part.
LEMMA AskMoveKeepsTree ==
  ASSUME TypeOK, TreeInv, NEW c \in Categories, NEW to \in Categories \cup {Null}, AskMove(c, to)
  PROVE  TreeInv'
<1>. DEFINE request == [kind |-> "move", category |-> c, to |-> to]
<1>1. /\ pending' = pending \cup {request} /\ UNCHANGED <<parent, crossed, used>>
      /\ to \in Tree \cup {Null} /\ (to # Null => c \notin Ancestry(to))
  BY DEF AskMove, Ask
<1>2. Tree' = Tree
  BY <1>1 DEF Tree
<1>3. Sure(request)
  <2>1. request.to = to /\ request.category = c
    OBVIOUS
  <2>. HIDE DEF request
  <2>2. ASSUME to \in Tree PROVE \E A : Closed(A) /\ to \in A /\ c \notin A
    <3>1. to # Null
      BY <2>2, CategoriesAssumption DEF TypeOK
    <3>. QED
      BY <1>1, <2>2, <3>1, AncestryCloses
  <2>. QED
    BY <2>1, <2>2 DEF Sure
<1>4. request.to \in used \cup {Null}
  BY <1>1 DEF TreeInv
<1>. HIDE DEF request
<1>5. Loopless => Loopless'
  BY <1>1, <1>2 DEF Loopless
<1>6. \A r : Sure(r) => Sure(r)'
  BY <1>1, <1>2 DEF Sure, Closed
<1>7. Tree' \subseteq used' /\ \A r \in pending' : r \in Moves => r.to \in used' \cup {Null}
  BY <1>1, <1>2, <1>4 DEF TreeInv
<1>8. crossed' \/ (Loopless' /\ \A r \in pending' : r \in Moves => Sure(r)')
  BY <1>1, <1>3, <1>5, <1>6 DEF TreeInv
<1>. QED
  BY <1>7, <1>8 DEF TreeInv

\* The write of a move that is alone.
LEMMA MoveKeepsTree ==
  ASSUME TypeOK, TreeInv, NEW r \in pending, Move(r)
  PROVE  TreeInv'
<1>. DEFINE c == r.category
            to == r.to
<1>1. /\ r \in Moves /\ pending' = pending \ {r} /\ used' = used
      /\ crossed' = (crossed \/ \E other \in pending \ {r} : other \in Moves)
      /\ \/ parent' = parent
         \/ c \in Tree /\ to \in Tree \cup {Null} /\ parent' = With(parent, c, to)
  BY DEF Move, Answer
<1>2. Tree' = Tree
  BY <1>1 DEF With, Tree
<1>3. Tree' \subseteq used' /\ \A s \in pending' : s \in Moves => s.to \in used' \cup {Null}
  BY <1>1, <1>2 DEF TreeInv
<1>4. ASSUME ~crossed' PROVE ~crossed /\ \A s \in pending' : s \notin Moves
  BY <1>1, <1>4
<1>5. ASSUME Loopless, Sure(r), NEW S \in SUBSET Tree, S # {}
      PROVE  \E x \in S : parent'[x] \notin S
  <2>1. PICK y \in S : parent[y] \notin S
    BY <1>5 DEF Loopless
  <2>2. CASE parent' = parent
    BY <2>1, <2>2
  <2>3. CASE c \in Tree /\ to \in Tree \cup {Null} /\ parent' = With(parent, c, to)
    <3>1. parent'[c] = to /\ \A x \in Tree \ {c} : parent'[x] = parent[x]
      BY <2>3 DEF With, Tree
    <3>. HIDE DEF c, to
    <3>2. CASE c \notin S
      BY <2>1, <3>1, <3>2
    <3>3. CASE c \in S /\ to = Null
      BY <3>1, <3>3, CategoriesAssumption DEF TypeOK
    <3>4. CASE c \in S /\ to \in Tree
      <4>1. PICK A : Closed(A) /\ to \in A /\ c \notin A
        BY <1>5, <3>4 DEF Sure, c, to
      <4>2. CASE S \cap A = {}
        BY <3>1, <3>4, <4>1, <4>2
      <4>3. CASE S \cap A # {}
        <5>1. PICK x \in S \cap A : parent[x] \notin S \cap A
          BY <1>5, <4>3 DEF Loopless
        <5>2. parent[x] \in A \cup {Null} /\ Null \notin S /\ x # c
          BY <4>1, <5>1, CategoriesAssumption DEF Closed, TypeOK
        <5>. QED
          BY <3>1, <5>1, <5>2
      <4>. QED
        BY <4>2, <4>3
    <3>. QED
      BY <2>3, <3>2, <3>3, <3>4 DEF c, to
  <2>. QED
    BY <1>1, <2>2, <2>3
<1>6. crossed' \/ (Loopless' /\ \A s \in pending' : s \in Moves => Sure(s)')
  <2>. SUFFICES ASSUME ~crossed' PROVE Loopless' /\ \A s \in pending' : s \in Moves => Sure(s)'
    OBVIOUS
  <2>1. Loopless /\ Sure(r)
    BY <1>1, <1>4 DEF TreeInv
  <2>2. Loopless'
    BY <1>2, <1>5, <2>1 DEF Loopless
  <2>. QED
    BY <1>4, <2>2
<1>. QED
  BY <1>3, <1>6 DEF TreeInv

\* A category that goes is a leaf.
LEMMA RemoveKeepsTree ==
  ASSUME TypeOK, TreeInv, NEW r \in pending, Remove(r)
  PROVE  TreeInv'
<1>. DEFINE c == r.category
<1>1. pending' = pending \ {r} /\ used' = used /\ crossed' = crossed
  BY DEF Remove, Answer
<1>2. CASE parent' = parent
  BY <1>1, <1>2, TreeRests
<1>3. CASE c \in Tree /\ NothingHangs(c) /\ parent' = Less(parent, c)
  <2>1. /\ Tree' = Tree \ {c} /\ \A x \in Tree' : parent'[x] = parent[x]
        /\ \A x \in Tree : parent[x] # c
    BY <1>3 DEF Less, Tree, NothingHangs, Children
  <2>. HIDE DEF c
  <2>2. Loopless => Loopless'
    BY <2>1 DEF Loopless
  <2>3. ASSUME NEW s, Sure(s) PROVE Sure(s)'
    <3>. SUFFICES ASSUME s.to \in Tree'
                  PROVE  \E A : Closed(A)' /\ s.to \in A /\ s.category \notin A
      BY DEF Sure
    <3>1. PICK A : Closed(A) /\ s.to \in A /\ s.category \notin A
      BY <2>1, <2>3 DEF Sure
    <3>2. Closed(A \ {c})'
      BY <2>1, <3>1 DEF Closed
    <3>3. s.to \in A \ {c} /\ s.category \notin A \ {c}
      BY <2>1, <3>1
    <3>. QED
      BY <3>2, <3>3
  <2>4. Tree' \subseteq used' /\ \A s \in pending' : s \in Moves => s.to \in used' \cup {Null}
    BY <1>1, <2>1 DEF TreeInv
  <2>5. crossed' \/ (Loopless' /\ \A s \in pending' : s \in Moves => Sure(s)')
    BY <1>1, <2>2, <2>3 DEF TreeInv
  <2>. QED
    BY <2>4, <2>5 DEF TreeInv
<1>. QED
  BY <1>2, <1>3 DEF Remove

\* The other operations leave the tree as it is.
LEMMA NextKeepsTree == TypeOK /\ TreeInv /\ [Next]_vars => TreeInv'
<1>. SUFFICES ASSUME TypeOK, TreeInv, [Next]_vars PROVE TreeInv'
  OBVIOUS
<1>1. ASSUME NEW request, request.kind # "move", Ask(request), used \subseteq used'
      PROVE  TreeInv'
  <2>1. request \notin Moves
    BY <1>1 DEF Moves
  <2>. QED
    BY <1>1, <2>1, TreeRests DEF Ask
<1>2. CASE UNCHANGED vars
  BY <1>2, TreeRests DEF vars
<1>3. ASSUME NEW c \in Categories, AskRemoval(c) PROVE TreeInv'
  BY <1>1, <1>3 DEF AskRemoval
<1>4. ASSUME NEW a \in Attributes, AskErasure(a) PROVE TreeInv'
  BY <1>1, <1>4 DEF AskErasure
<1>5. ASSUME NEW a \in Attributes, NEW kept, NEW new, AskList(a, kept, new) PROVE TreeInv'
  BY <1>1, <1>5 DEF AskList
<1>6. ASSUME NEW p, NEW c, NEW chosen, AskSheet(p, c, chosen) PROVE TreeInv'
  BY <1>1, <1>6 DEF AskSheet
<1>7. ASSUME NEW r \in pending, Erase(r) \/ SetOptions(r) \/ WriteSheet(r) PROVE TreeInv'
  BY <1>7, TreeRests DEF Erase, SetOptions, WriteSheet, Answer
<1>8. ASSUME NEW c, NEW S, SetAttributes(c, S) \/ SetCategories(c, S) \/ CreateAttribute(c, S)
      PROVE  TreeInv'
  BY <1>8, TreeRests DEF SetAttributes, SetCategories, CreateAttribute
<1>9. ASSUME NEW p, DeleteProduct(p) PROVE TreeInv'
  BY <1>9, TreeRests DEF DeleteProduct
<1>. QED
  BY <1>2, <1>3, <1>4, <1>5, <1>6, <1>7, <1>8, <1>9, CreateCategoryKeepsTree, AskMoveKeepsTree,
     MoveKeepsTree, RemoveKeepsTree DEF Next

\* The check of CategoriesService.update suffices, whatever else is created, moved or
\* removed: every category hangs from a root, in a tree of any size, as long as no two
\* moves were both checked before either was written.
THEOREM CategoriesShow == Spec => []EveryCategoryShows
<1>1. Init => TreeInv
  <2>. SUFFICES ASSUME Init PROVE TreeInv
    OBVIOUS
  <2>1. PICK c \in Categories, a \in Attributes, o \in Options :
          parent = [x \in {c} |-> Null] /\ used = {c, a, o} /\ pending = {}
    BY DEF Init
  <2>2. Tree = {c} /\ parent[c] = Null /\ c # Null
    BY <2>1, CategoriesAssumption DEF Tree
  <2>3. Loopless
    BY <2>2 DEF Loopless
  <2>. QED
    BY <2>1, <2>2, <2>3 DEF TreeInv
<1>2. TypeOK /\ TreeInv => EveryCategoryShows
  <2>. SUFFICES ASSUME TypeOK, Loopless, NEW c \in Tree
                PROVE  \E root \in Ancestry(c) : parent[root] = Null
    BY DEF TreeInv, EveryCategoryShows
  <2>1. c \in Ancestry(c) /\ Closed(Ancestry(c))
    BY AncestryCloses
  <2>2. PICK root \in Ancestry(c) : parent[root] \notin Ancestry(c)
    BY <2>1 DEF Loopless, Closed
  <2>. QED
    BY <2>1, <2>2 DEF Closed
<1>. QED
  BY <1>1, <1>2, NextKeepsTree, CatalogTypeCorrect, PTL DEF Spec
=============================================================================
