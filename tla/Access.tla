------------------------------- MODULE Access -------------------------------
(***************************************************************************)
(* The company, its shops, its employees and their rights, as the manager  *)
(* edits them from several pages at once; and what the rights of the       *)
(* moment show to an employee: lists, chores, screens.                     *)
(*                                                                         *)
(* A save of the rights of an employee replaces all of their rows: it      *)
(* checks the shops it names, then deletes and inserts in one transaction  *)
(* under READ COMMITTED.  It misses the rows another save commits between  *)
(* its delete and its insert, and meets them in the unique index on        *)
(* (user, shop) if they are about a shop it names.                         *)
(***************************************************************************)
EXTENDS Screens, Integers, FiniteSets

CONSTANTS Tabs,           \* pages of the manager open on the rights of somebody
          ShopChoices,    \* the sets of rights one may tick for a shop,
          CompanyChoices, \* and for the whole company
          MaxSaves        \* bound: forms sent

ASSUME SomebodyManages == Null \notin Users /\ Managers # {}
ASSUME BoundIsNat == MaxSaves \in Nat
ASSUME ChoicesAreRights ==
  /\ \A choice \in ShopChoices : choice \subseteq AllPermissions \ CompanyPermissions
  /\ \A choice \in CompanyChoices : choice \subseteq CompanyPermissions

VARIABLES members,  \* the users of the company; none before it registers
          shops,
          access,   \* the table ShopAccess
          shopOf,   \* the shop of an article of the company
          leaving,  \* the shops whose deletion counted no article, to be deleted
          tab,      \* what each page is at
          saves,
          saved,    \* ghost: the rows of the last list stored for each user,
          asked,    \* and the shops that list was made on
          crossed   \* ghost: the users whose last list was stored beside another

vars == <<members, shops, access, shopOf, leaving, tab, saves, saved, asked, crossed>>

Closed == [step |-> "closed", user |-> Null, on |-> {}, wanted |-> {}, seen |-> {}, met |-> FALSE]

RowsOf(u) == {row \in access : row.user = u}
ShopsOf(rows) == {row.shop : row \in rows}

Start ==
  /\ members = {} /\ shops = {} /\ access = {} /\ shopOf = Null /\ leaving = {}
  /\ tab = [t \in Tabs |-> Closed]
  /\ saved = [u \in Users |-> {}] /\ asked = [u \in Users |-> {}] /\ crossed = {}

Init == Start /\ saves = 0
-----------------------------------------------------------------------------
(* The account.                                                            *)

Register(u) ==
  /\ members = {} /\ u \in Managers
  /\ members' = {u}
  /\ UNCHANGED <<shops, access, shopOf, leaving, tab, saves, saved, asked, crossed>>

\* Products, categories, then the company and, by cascade, everything else; the pages
\* that are open have no account to work on any more.
DeleteAccount ==
  /\ members # {}
  /\ members' = {} /\ shops' = {} /\ access' = {} /\ shopOf' = Null /\ leaving' = {}
  /\ tab' = [t \in Tabs |-> Closed]
  /\ saved' = [u \in Users |-> {}] /\ asked' = [u \in Users |-> {}] /\ crossed' = {}
  /\ UNCHANGED saves

Invite(u) ==
  /\ members # {} /\ u \notin members \cup Managers
  /\ \A t \in Tabs : tab[t].user # u       \* a new account is not one that was deleted
  /\ members' = members \cup {u}
  /\ UNCHANGED <<shops, access, shopOf, leaving, tab, saves, saved, asked, crossed>>

DeleteEmployee(u) ==
  /\ u \in members \ Managers
  /\ members' = members \ {u}
  /\ access' = access \ RowsOf(u)
  /\ saved' = [saved EXCEPT ![u] = {}] /\ asked' = [asked EXCEPT ![u] = {}]
  /\ UNCHANGED <<shops, shopOf, leaving, tab, saves, crossed>>
-----------------------------------------------------------------------------
(* The shops, and the article in one of them.                              *)

CreateShop(s) ==
  /\ members # {} /\ s \notin shops
  /\ \A t \in Tabs : s \notin tab[t].on    \* a new shop is not one that was deleted
  /\ shops' = shops \cup {s}
  /\ UNCHANGED <<members, access, shopOf, leaving, tab, saves, saved, asked, crossed>>

AssignShop(s) ==
  /\ s \in shops \cup {Null}
  /\ shopOf' = s
  /\ UNCHANGED <<members, shops, access, leaving, tab, saves, saved, asked, crossed>>

\* Refused while articles are in the shop.
CountArticles(s) ==
  /\ s \in shops \ leaving /\ shopOf # s
  /\ leaving' = leaving \cup {s}
  /\ UNCHANGED <<members, shops, access, shopOf, tab, saves, saved, asked, crossed>>

\* The rows of the shop go with it, and what came in meanwhile to the central stock.
DeleteShop(s) ==
  /\ s \in leaving
  /\ leaving' = leaving \ {s} /\ shops' = shops \ {s}
  /\ access' = {row \in access : row.shop # s}
  /\ shopOf' = IF shopOf = s THEN Null ELSE shopOf
  /\ saved' = [u \in Users |-> {row \in saved[u] : row.shop # s}]
  /\ asked' = [u \in Users |-> asked[u] \ {s}]
  /\ UNCHANGED <<members, tab, saves, crossed>>
-----------------------------------------------------------------------------
(* The rights of an employee.                                              *)

\* The form shows the shops of the moment, and cannot be sent without any.
OpenForm(t, u) ==
  /\ tab[t] = Closed /\ u \in members \ Managers /\ shops # {} /\ saves < MaxSaves
  /\ saves' = saves + 1
  /\ tab' = [tab EXCEPT ![t] = [Closed EXCEPT !.step = "form", !.user = u, !.on = shops]]
  /\ UNCHANGED <<members, shops, access, shopOf, leaving, saved, asked, crossed>>

Row(u, s, permissions) == [user |-> u, shop |-> s, permissions |-> permissions]

\* Mutant: the rights of the company go with those of a shop only.
CopiedWhereOneWorks(u, ticked, company) ==
  {Row(u, s, ticked[s] \cup company) : s \in {s \in DOMAIN ticked : ticked[s] # {}}}

\* The rights of the company are copied on every shop of the form; a shop without any
\* right is not an access.
List(u, ticked, company) ==
  {Row(u, s, ticked[s] \cup company) :
     s \in {s \in DOMAIN ticked : ticked[s] \cup company # {}}}

\* setAccess refuses whoever left, and a shop that is not one of the company's.
Send(t) ==
  /\ tab[t].step = "form"
  /\ \E ticked \in [tab[t].on -> ShopChoices], company \in CompanyChoices :
       LET wanted == List(tab[t].user, ticked, company) IN
       tab' = [tab EXCEPT ![t] =
                 IF tab[t].user \in members /\ ShopsOf(wanted) \subseteq shops
                   THEN [@ EXCEPT !.step = "checked", !.wanted = wanted]
                   ELSE Closed]
  /\ UNCHANGED <<members, shops, access, shopOf, leaving, saves, saved, asked, crossed>>

\* Mutant: the transaction deletes the rows of the shops it names.
RowsItNames(t) == {row \in RowsOf(tab[t].user) : row.shop \in ShopsOf(tab[t].wanted)}

\* What the delete of the transaction takes.
RowsItSees(t) == RowsOf(tab[t].user)

Meets(t, other) == other # t /\ tab[other].step = "cleared" /\ tab[other].user = tab[t].user

Clear(t) ==
  /\ tab[t].step = "checked"
  /\ tab' = [other \in Tabs |->
       IF other = t THEN [tab[t] EXCEPT !.step = "cleared", !.seen = RowsItSees(t),
                                        !.met = \E o \in Tabs : Meets(t, o)]
       ELSE IF Meets(t, other) THEN [tab[other] EXCEPT !.met = TRUE]
       ELSE tab[other]]
  /\ UNCHANGED <<members, shops, access, shopOf, leaving, saves, saved, asked, crossed>>

\* Mutant: nothing stops two rows on one shop.
NeverRefused(t) == TRUE

\* The foreign keys and the unique index.
Insertable(t) ==
  /\ tab[t].user \in members
  /\ ShopsOf(tab[t].wanted) \subseteq shops
  /\ ShopsOf(tab[t].wanted) \cap ShopsOf(RowsOf(tab[t].user) \ tab[t].seen) = {}

\* The transaction commits, or leaves everything as it was.
Store(t) ==
  LET u == tab[t].user IN
  /\ tab[t].step = "cleared"
  /\ tab' = [tab EXCEPT ![t] = Closed]
  /\ IF Insertable(t)
       THEN /\ access' = (access \ tab[t].seen) \cup tab[t].wanted
            /\ saved' = [saved EXCEPT ![u] = tab[t].wanted]
            /\ asked' = [asked EXCEPT ![u] = tab[t].on \cap shops]
            /\ crossed' = IF tab[t].met THEN crossed \cup {u} ELSE crossed \ {u}
       ELSE UNCHANGED <<access, saved, asked, crossed>>
  /\ UNCHANGED <<members, shops, shopOf, leaving, saves>>
-----------------------------------------------------------------------------
Next ==
  \/ DeleteAccount
  \/ \E u \in Users : Register(u) \/ Invite(u) \/ DeleteEmployee(u)
  \/ \E s \in Shops : CreateShop(s) \/ CountArticles(s) \/ DeleteShop(s)
  \/ \E s \in Shops \cup {Null} : AssignShop(s)
  \/ \E t \in Tabs : \/ \E u \in Users : OpenForm(t, u)
                     \/ Send(t) \/ Clear(t) \/ Store(t)

Spec == Init /\ [][Next]_vars
-----------------------------------------------------------------------------
(* What the rights of the moment show.                                     *)

\* The shops an employee is listed, where they have any right at all.
ListedShops(u) == {s \in shops : u \in Managers \/ s \in ShopsOf(RowsOf(u))}

\* The articles an employee is listed: the central stock, and the shops whose products
\* they may see.
ListedProducts(u) ==
  {Null} \cup {s \in shops : u \in Managers \/ hasPermissionOnShop(access, u, "products.view", s)}

\* The chores: listings to take down everywhere, clothes to take off the racks where one
\* both sees and handles the products.
DelistScope(u) == IF hasPermission(access, u, "online.manage") THEN shops \cup {Null} ELSE {}

PullScope(u) ==
  LET own == {s \in shops : \/ u \in Managers
                            \/ \E row \in RowsOf(u) : /\ row.shop = s
                                                      /\ {"products.manage", "products.view"}
                                                           \subseteq row.permissions}
  IN  IF u \in Managers \/ own # {} THEN own \cup {Null} ELSE {}

ListedRemovals(u) == DelistScope(u) \cup PullScope(u)

\* The route of a chore, then the service.
MayMarkRemovalDone(u, s) ==
  Accepts(access, u, "PUT/products/:id/removal-done", s) /\ HasShopAccess(access, u, s)

Menu(u) == {entry.to : entry \in {e \in Navigation : Passes(access, u, e.gate)}}
Links(u, page) == {door.to : door \in {d \in ScreenAt[page].links : Passes(access, u, d.gate)}}
Offers(u, page) ==
  {door.to : door \in {d \in ScreenAt[page].actions : d.gate # {} /\ Passes(access, u, d.gate)}}
Sheets == {"/products/:id", "/products/:id/edit"}
-----------------------------------------------------------------------------
(* Types, the foreign keys and the unique index of the rows, and no more   *)
(* than one manager: setAccess, delete and the cascades together.          *)
TypeOK ==
  /\ members \subseteq Users /\ (members # {} => Cardinality(members \cap Managers) = 1)
  /\ shops \subseteq Shops /\ leaving \subseteq shops /\ shopOf \in shops \cup {Null}
  /\ access \subseteq AccessRows
  /\ \A row \in access : row.user \in members \ Managers /\ row.shop \in shops
                         /\ row.permissions # {}
  /\ \A a, b \in access : a.user = b.user /\ a.shop = b.shop => a = b
  /\ saves \in 0 .. MaxSaves /\ crossed \subseteq Users
  /\ \A t \in Tabs : tab[t].step \in {"closed", "form", "checked", "cleared"}

(* « Remplace intégralement les accès d'un employé »: unless another save  *)
(* was being written at the same time, the rights of an employee are those *)
(* of the last list stored, whole, on the shops that are left: a right     *)
(* unticked is gone, a shop opened since has none.                         *)
ListsAreWhole == \A u \in members \ (Managers \cup crossed) : RowsOf(u) = saved[u]

(* A chore is not listed to somebody who cannot mark it done: removalScopes*)
(* decides by the rights, the route by others, markRemovalDone by the row  *)
(* of the shop, on every shop there was when the rights were last saved.   *)
ShownChoresCanBeDone ==
  \A u \in members \ crossed : \A s \in ListedRemovals(u) :
    u \in Managers \/ s \in asked[u] \cup {Null} => MayMarkRemovalDone(u, s)

(* « Sert uniquement à ne pas proposer ce qui sera refusé »: what the web  *)
(* application shows behind a right, the API accepts.  Every entry of the  *)
(* menu opens, so does every link of these screens behind a right, so does *)
(* the sheet of every listed product; every action offered behind a right  *)
(* is accepted, and so is the sale at the counter of every shop.           *)
NoClosedDoor ==
  \A u \in members :
    /\ \A page \in Menu(u) :
         /\ Outcome(access, u, page, Null) = "shown"
         /\ \A next \in Links(u, page) \ Sheets : Outcome(access, u, next, Null) = "shown"
         /\ \A seen \in {page} \cup Links(u, page) : \A action \in Offers(u, seen) :
              Accepts(access, u, RouteOf[action], Null)
    /\ "/products" \in Menu(u) =>
         \A s \in ListedProducts(u), sheet \in Sheets : Outcome(access, u, sheet, s) = "shown"
    /\ \A s \in ListedShops(u) \cup {Null}, online \in BOOLEAN :
         Counter(access, u, s, online) =>
           LET at == IF online THEN Null ELSE s IN
           /\ Accepts(access, u, "POST/products/sale", at)
           /\ MayTarget(access, u, at, online)
           /\ HasShopAccess(access, u, at)
=============================================================================
