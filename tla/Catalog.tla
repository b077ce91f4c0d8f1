------------------------------ MODULE Catalog ------------------------------
(***************************************************************************)
(* The catalogue of a company: its tree of categories, its attributes with *)
(* their options, which attribute applies to which category, and what the  *)
(* products fill in.                                                       *)
(*                                                                         *)
(* Every service checks first and writes after, with other requests in     *)
(* between: a request is an action that reads and refuses, then a write.   *)
(* What the database itself guarantees holds at the write: Restrict keeps  *)
(* a category that has children or products, Cascade takes the values of a *)
(* product with the option they point at.                                  *)
(*                                                                         *)
(* The attributes here are those that carry options; names and positions   *)
(* are left out, and so are the free values (text, number, yes or no),     *)
(* which the service checks one by one against the type of the attribute.  *)
(***************************************************************************)
EXTENDS Naturals, FiniteSets

CONSTANTS Null,
          Categories, Attributes, Options, Products,
          MaxWrites,  \* bound on the requests answered
          Together    \* bound on the requests in flight together

\* Identifiers are never null, and rejectCycle climbs a tree that has an end.
ASSUME CategoriesAssumption == IsFiniteSet(Categories) /\ Null \notin Categories

VARIABLES
  parent,   \* [category -> its parent], of the categories there are
  options,  \* [attribute -> its options], of the attributes there are
  links,    \* the rows of category_attribute
  product,  \* [product -> its category and the options it fills in]
  used,     \* the identifiers given out
  pending,  \* the requests that have been checked and have not written
  writes,   \* how many requests have been answered
  crossed,  \* history: two moves of categories were in flight together
  late      \* history: options a product chose while a deletion of theirs was under way

vars == <<parent, options, links, product, used, pending, writes, crossed, late>>

Tree == DOMAIN parent
Owned == UNION {options[a] : a \in DOMAIN options}

\* What the requests carry from their checks to their writes.
Moves == [kind: {"move"}, category: Categories, to: Categories \cup {Null}]
Removals == [kind: {"remove"}, category: Categories]
Erasures == [kind: {"erase"}, attribute: Attributes]
Lists == [kind: {"list"}, attribute: Attributes, kept: SUBSET Options,
          gone: SUBSET Options, new: SUBSET Options]
Sheets == [kind: {"sheet"}, product: Products, category: Categories, chosen: SUBSET Options]
Requests == Moves \cup Removals \cup Erasures \cup Lists \cup Sheets

\* The catalogue of a company that has begun: one category, one attribute with one
\* option, linked.
Init ==
  \E c \in Categories, a \in Attributes, o \in Options :
    /\ parent = [x \in {c} |-> Null]
    /\ options = [x \in {a} |-> {o}]
    /\ links = {<<c, a>>}
    /\ product = [p \in {} |-> Null]
    /\ used = {c, a, o}
    /\ pending = {}
    /\ writes = 0
    /\ crossed = FALSE
    /\ late = {}

With(f, x, v) == [y \in DOMAIN f \cup {x} |-> IF y = x THEN v ELSE f[y]]
Less(f, x) == [y \in DOMAIN f \ {x} |-> f[y]]

Children(c) == {x \in Tree : parent[x] = c}
ProductsOf(c) == {p \in DOMAIN product : product[p].category = c}
Filled(o) == {p \in DOMAIN product : o \in product[p].chosen}

\* A request is checked, or refused and then leaves no trace.
Ask(request) ==
  /\ Cardinality(pending) < Together
  /\ pending' = pending \cup {request}
  /\ UNCHANGED <<parent, options, links, product, writes, crossed, late>>

Answer(request) ==
  /\ request \in pending
  /\ pending' = pending \ {request}
  /\ writes < MaxWrites
  /\ writes' = writes + 1
-----------------------------------------------------------------------------
(* Categories.                                                             *)

\* Mutant: only the new parent itself is looked at.
ParentOnly(c) == {c}

\* c and its ancestors, which rejectCycle climbs one by one: the depth of the tree
\* bounds the climb, unless the tree has a loop.
Ancestry(c) ==
  LET climb[n \in 0 .. Cardinality(Categories)] ==
        IF n = 0 THEN {c}
        ELSE climb[n - 1] \cup
             {parent[x] : x \in {x \in climb[n - 1] \cap Tree : parent[x] # Null}}
  IN  climb[Cardinality(Categories)]

CreateCategory(c, to) ==
  /\ c \notin used
  /\ to \in Tree \cup {Null}
  /\ used' = used \cup {c}
  /\ parent' = With(parent, c, to)
  /\ writes < MaxWrites /\ writes' = writes + 1
  /\ UNCHANGED <<options, links, product, pending, crossed, late>>

\* PUT /categories/:id with a parent: a category does not go under itself, nor under
\* one of its descendants.  The root asks for no check.
AskMove(c, to) ==
  /\ c \in Tree
  /\ to \in Tree \cup {Null}
  /\ to # Null => c \notin Ancestry(to)
  /\ Ask([kind |-> "move", category |-> c, to |-> to]) /\ UNCHANGED used

\* The write fails if either category has gone in between.
Move(request) ==
  /\ request \in Moves
  /\ Answer(request)
  /\ parent' = IF request.category \in Tree /\ request.to \in Tree \cup {Null}
               THEN With(parent, request.category, request.to) ELSE parent
  /\ crossed' = (crossed \/ \E other \in pending \ {request} : other \in Moves)
  /\ UNCHANGED <<options, links, product, used, late>>

\* DELETE /categories/:id counts children and products.
AskRemoval(c) ==
  /\ c \in Tree
  /\ Children(c) = {} /\ ProductsOf(c) = {}
  /\ Ask([kind |-> "remove", category |-> c]) /\ UNCHANGED used

\* Mutant: the database does not restrict.
NothingHolds(c) == TRUE

\* onDelete: Restrict, on the children and on the products.
NothingHangs(c) == Children(c) = {} /\ ProductsOf(c) = {}

Remove(request) ==
  /\ request \in Removals
  /\ Answer(request)
  /\ LET c == request.category IN
     IF c \in Tree /\ NothingHangs(c)
     THEN parent' = Less(parent, c) /\ links' = {l \in links : l[1] # c}
     ELSE UNCHANGED <<parent, links>>
  /\ UNCHANGED <<options, product, used, crossed, late>>

\* PUT /categories/:id/attributes and PUT /attributes/:id/categories: the two sides of
\* one table, each replaces its list.
SetAttributes(c, attributes) ==
  /\ c \in Tree /\ attributes \subseteq DOMAIN options
  /\ links' = {l \in links : l[1] # c} \cup {<<c, a>> : a \in attributes}
  /\ writes < MaxWrites /\ writes' = writes + 1
  /\ UNCHANGED <<parent, options, product, used, pending, crossed, late>>

SetCategories(a, categories) ==
  /\ a \in DOMAIN options /\ categories \subseteq Tree
  /\ links' = {l \in links : l[2] # a} \cup {<<c, a>> : c \in categories}
  /\ writes < MaxWrites /\ writes' = writes + 1
  /\ UNCHANGED <<parent, options, product, used, pending, crossed, late>>
-----------------------------------------------------------------------------
(* Attributes.                                                             *)

\* Options that go, with the values that point at them (onDelete: Cascade).
Cascade(gone) ==
  product' = [p \in DOMAIN product |-> [product[p] EXCEPT !.chosen = @ \ gone]]

\* POST /attributes, or a clone of a template: at least one option.
CreateAttribute(a, new) ==
  /\ a \notin used /\ new \cap used = {}
  /\ new # {}
  /\ used' = used \cup {a} \cup new
  /\ options' = With(options, a, new)
  /\ writes < MaxWrites /\ writes' = writes + 1
  /\ UNCHANGED <<parent, links, product, pending, crossed, late>>

\* DELETE /attributes/:id counts the products that fill it in.
AskErasure(a) ==
  /\ a \in DOMAIN options
  /\ \A o \in options[a] : Filled(o) = {}
  /\ Ask([kind |-> "erase", attribute |-> a]) /\ UNCHANGED used

Erase(request) ==
  /\ request \in Erasures
  /\ Answer(request)
  /\ LET a == request.attribute IN
     IF a \in DOMAIN options
     THEN /\ options' = Less(options, a)
          /\ links' = {l \in links : l[2] # a}
          /\ Cascade(options[a])
     ELSE UNCHANGED <<options, links, product>>
  /\ UNCHANGED <<parent, used, crossed, late>>

\* Mutant: the options that go are not looked for on the products.
AnyOption(gone) == {}

\* The options of the list that products still use.
Blocking(gone) == {o \in gone : Filled(o) # {}}

\* PUT /attributes/:id/options: a list that is not empty, of its own options and of new
\* ones; those left out go, unless a product uses them.
AskList(a, kept, new) ==
  /\ a \in DOMAIN options
  /\ kept \subseteq options[a]
  /\ kept \cup new # {}
  /\ new \cap used = {} /\ used' = used \cup new
  /\ LET gone == options[a] \ kept IN
     /\ Blocking(gone) = {}
     /\ Ask([kind |-> "list", attribute |-> a, kept |-> kept, gone |-> gone, new |-> new])

\* The list is written over the options as the check saw them: an option another
\* request has added since stays, one it has removed makes the whole list fail.
SetOptions(request) ==
  /\ request \in Lists
  /\ Answer(request)
  /\ LET a == request.attribute IN
     IF a \in DOMAIN options /\ request.kept \subseteq options[a]
     THEN /\ options' = [options EXCEPT ![a] = (@ \ request.gone) \cup request.new]
          /\ Cascade(options[a] \cap request.gone)
     ELSE UNCHANGED <<options, product>>
  /\ UNCHANGED <<parent, links, used, crossed, late>>
-----------------------------------------------------------------------------
(* Products.                                                               *)

\* The options a product of category c may choose: those of the attributes linked to c.
Applicable(c) == UNION {options[a] : a \in {a \in DOMAIN options : <<c, a>> \in links}}

\* POST and PUT /products: the values are validated against the category, current
\* values included when only the category changes.
AskSheet(p, c, chosen) ==
  /\ c \in Tree
  /\ chosen \subseteq Applicable(c)
  /\ Ask([kind |-> "sheet", product |-> p, category |-> c, chosen |-> chosen])
  /\ UNCHANGED used

Deletes(request, o) ==
  \/ request \in Erasures /\ request.attribute \in DOMAIN options
     /\ o \in options[request.attribute]
  \/ request \in Lists /\ request.attribute \in DOMAIN options
     /\ o \in options[request.attribute] \cap request.gone

\* The values are replaced in one transaction, which fails on a category or on an
\* option that has gone.
WriteSheet(request) ==
  /\ request \in Sheets
  /\ Answer(request)
  /\ IF request.category \in Tree /\ request.chosen \subseteq Owned
     THEN /\ product' = With(product, request.product,
                             [category |-> request.category, chosen |-> request.chosen])
          /\ late' = late \cup
               {o \in request.chosen : \E other \in pending : Deletes(other, o)}
     ELSE UNCHANGED <<product, late>>
  /\ UNCHANGED <<parent, options, links, used, crossed>>

DeleteProduct(p) ==
  /\ p \in DOMAIN product
  /\ product' = Less(product, p)
  /\ UNCHANGED <<parent, options, links, used, pending, writes, crossed, late>>
-----------------------------------------------------------------------------
Next ==
  \/ \E c \in Categories, to \in Categories \cup {Null} :
       CreateCategory(c, to) \/ AskMove(c, to)
  \/ \E c \in Categories : AskRemoval(c)
  \/ \E c \in Categories, S \in SUBSET Attributes : SetAttributes(c, S)
  \/ \E a \in Attributes, S \in SUBSET Categories : SetCategories(a, S)
  \/ \E a \in Attributes : AskErasure(a)
  \/ \E a \in Attributes, new \in SUBSET Options :
       CreateAttribute(a, new) \/ \E kept \in SUBSET Options : AskList(a, kept, new)
  \/ \E p \in Products, c \in Categories, chosen \in SUBSET Options : AskSheet(p, c, chosen)
  \/ \E r \in pending : Move(r) \/ Remove(r) \/ Erase(r) \/ SetOptions(r) \/ WriteSheet(r)
  \/ \E p \in Products : DeleteProduct(p)

Spec == Init /\ [][Next]_vars
-----------------------------------------------------------------------------
\* The types, and what the foreign keys keep: a parent, a category or an option that a
\* row points at is there.
TypeOK ==
  /\ Tree \subseteq Categories
  /\ \A c \in Tree : parent[c] \in Tree \cup {Null}
  /\ DOMAIN options \subseteq Attributes
  /\ \A a \in DOMAIN options : options[a] \subseteq Options
  /\ links \subseteq Tree \X DOMAIN options
  /\ DOMAIN product \subseteq Products
  /\ \A p \in DOMAIN product : product[p].category \in Tree /\ product[p].chosen \subseteq Owned
  /\ pending \subseteq Requests

\* Every category hangs from a root, so that the tree shows it and rejectCycle comes to
\* an end: the check against the descendants is enough, except for two moves that were
\* both checked before either was written (CategoriesService.update).
EveryCategoryShows ==
  crossed \/ \A c \in Tree : \E root \in Ancestry(c) : parent[root] = Null

\* What a product fills in is lost only with the product or by its own sheet: an option
\* in use is not deleted, unless the sheet was written after the deletion had looked for
\* it (AttributesService.delete, setOptions).
NoValueIsLost ==
  [][\A p \in DOMAIN product : p \in DOMAIN product' =>
       \A o \in product[p].chosen \ product'[p].chosen :
         \/ o \in late
         \/ \E r \in pending \ pending' : r \in Sheets /\ r.product = p]_vars
=============================================================================
