---------------------------- MODULE AccessProofs ----------------------------
(***************************************************************************)
(* Theorems about Access, for any number of users, shops and pages: the    *)
(* types with what the foreign keys and the unique index keep; that the    *)
(* rights of an employee are those of one save, whole; that a right of the *)
(* company is held on every shop of the last save, so that whoever is      *)
(* shown a chore may do it; and that the screens offer behind a right      *)
(* nothing the API refuses, whatever rights are given.                     *)
(***************************************************************************)
EXTENDS Access, TLAPS, FiniteSetTheorems

Steps == {"closed", "form", "checked", "cleared"}

TabType ==
  [step: Steps, user: Users \cup {Null}, on: SUBSET Shops,
   wanted: SUBSET AccessRows, seen: SUBSET AccessRows, met: BOOLEAN]

Types ==
  /\ members \in SUBSET Users /\ shops \in SUBSET Shops
  /\ access \in SUBSET AccessRows
  /\ leaving \in SUBSET shops /\ shopOf \in shops \cup {Null}
  /\ tab \in [Tabs -> TabType]
  /\ saves \in 0 .. MaxSaves
  /\ saved \in [Users -> SUBSET AccessRows] /\ asked \in [Users -> SUBSET Shops]
  /\ crossed \in SUBSET Users

OneManager == members # {} => Cardinality(members \cap Managers) = 1

\* The rows of access: the foreign keys, the unique index, no empty right.
RowsOK(rows, users, places) ==
  /\ \A row \in rows : /\ row.user \in users \ Managers /\ row.shop \in places
                       /\ row.permissions # {}
  /\ \A a, b \in rows : a.user = b.user /\ a.shop = b.shop => a = b

KeysHold == RowsOK(access, members, shops)

\* What a page is about to store is about its employee.
PageOK(p) ==
  /\ p.step # "closed" => p.user \in Users \ Managers
  /\ RowsOK(p.wanted, {p.user}, Shops)
  /\ \A row \in p.seen : row.user = p.user

PagesOK == \A t \in Tabs : PageOK(tab[t])

\* Two transactions on one employee know of each other; one that knows of none has seen
\* all the rows there are.
TransactionsMeet ==
  \A t \in Tabs : tab[t].step = "cleared" /\ ~tab[t].met =>
    /\ RowsOf(tab[t].user) \subseteq tab[t].seen
    /\ \A o \in Tabs : ~Meets(t, o)

Whole == \A u \in Users \ crossed : RowsOf(u) = saved[u]

IInv == Types /\ OneManager /\ KeysHold /\ PagesOK /\ TransactionsMeet /\ Whole
-----------------------------------------------------------------------------
LEMMA InitHolds == Init => IInv
<1> SUFFICES ASSUME Init PROVE IInv
  OBVIOUS
<1> USE DEF Init, Start
<1>1. Types
  BY BoundIsNat DEF Types, TabType, Closed, Steps
<1>2. OneManager /\ KeysHold /\ Whole
  BY DEF OneManager, KeysHold, RowsOK, Whole, RowsOf
<1>3. PagesOK /\ TransactionsMeet
  BY DEF PagesOK, PageOK, TransactionsMeet, RowsOK, Closed
<1> QED
  BY <1>1, <1>2, <1>3 DEF IInv

\* What the form sends is one row for each shop where something was ticked.
LEMMA ListOK ==
  ASSUME NEW u \in Users \ Managers, NEW on \in SUBSET Shops,
         NEW ticked \in [on -> ShopChoices], NEW company \in CompanyChoices
  PROVE  /\ List(u, ticked, company) \in SUBSET AccessRows
         /\ RowsOK(List(u, ticked, company), {u}, Shops)
<1> DEFINE list == List(u, ticked, company)
<1>1. \A row \in list : \E s \in on :
        /\ row = [user |-> u, shop |-> s, permissions |-> ticked[s] \cup company]
        /\ ticked[s] \cup company # {}
  BY DEF List, Row
<1>2. \A s \in on : ticked[s] \cup company \in SUBSET AllPermissions
  <2> SUFFICES ASSUME NEW s \in on PROVE ticked[s] \cup company \in SUBSET AllPermissions
    OBVIOUS
  <2>1. ticked[s] \in ShopChoices
    OBVIOUS
  <2>2. ticked[s] \subseteq AllPermissions
    BY <2>1, ChoicesAreRights
  <2>3. company \subseteq AllPermissions
    BY ChoicesAreRights DEF AllPermissions, CompanyPermissions
  <2> QED
    BY <2>2, <2>3
<1> HIDE DEF list
<1>3. list \in SUBSET AccessRows
  BY <1>1, <1>2 DEF AccessRows
<1>4. RowsOK(list, {u}, Shops)
  <2>1. \A row \in list : row.user = u /\ row.shop \in Shops /\ row.permissions # {}
    BY <1>1
  <2>2. ASSUME NEW a \in list, NEW b \in list, a.shop = b.shop PROVE a = b
    <3>1. PICK s \in on : a = [user |-> u, shop |-> s, permissions |-> ticked[s] \cup company]
      BY <1>1
    <3>2. PICK z \in on : b = [user |-> u, shop |-> z, permissions |-> ticked[z] \cup company]
      BY <1>1
    <3> QED
      BY <2>2, <3>1, <3>2
  <2> QED
    BY <2>1, <2>2 DEF RowsOK
<1> QED
  BY <1>3, <1>4 DEF list
-----------------------------------------------------------------------------
(* One lemma for each operation.                                           *)

LEMMA RegisterKeeps == ASSUME IInv, NEW u \in Users, Register(u) PROVE IInv'
<1> USE DEF IInv, Register
<1>1. Types'
  BY DEF Types, TabType
<1>2. OneManager'
  <2>1. members' \cap Managers = {u}
    OBVIOUS
  <2> QED
    BY <2>1, FS_Singleton DEF OneManager
<1>3. KeysHold' /\ Whole'
  BY DEF KeysHold, RowsOK, Whole, RowsOf
<1>4. PagesOK' /\ TransactionsMeet'
  BY DEF PagesOK, PageOK, RowsOK, TransactionsMeet, Meets, RowsOf
<1> QED
  BY <1>1, <1>2, <1>3, <1>4

LEMMA DeleteAccountKeeps == ASSUME IInv, DeleteAccount PROVE IInv'
<1> USE DEF IInv, DeleteAccount
<1>1. Types'
  BY DEF Types, TabType, Closed, Steps
<1>2. OneManager' /\ KeysHold' /\ Whole'
  BY DEF OneManager, KeysHold, RowsOK, Whole, RowsOf
<1>3. PagesOK' /\ TransactionsMeet'
  BY DEF PagesOK, PageOK, RowsOK, TransactionsMeet, Closed
<1> QED
  BY <1>1, <1>2, <1>3

LEMMA InviteKeeps == ASSUME IInv, NEW u \in Users, Invite(u) PROVE IInv'
<1> USE DEF IInv, Invite
<1>1. Types'
  BY DEF Types, TabType
<1>2. OneManager'
  <2>1. members' \cap Managers = members \cap Managers
    OBVIOUS
  <2> QED
    BY <2>1 DEF OneManager
<1>3. KeysHold' /\ Whole'
  BY DEF KeysHold, RowsOK, Whole, RowsOf
<1>4. PagesOK' /\ TransactionsMeet'
  BY DEF PagesOK, PageOK, RowsOK, TransactionsMeet, Meets, RowsOf
<1> QED
  BY <1>1, <1>2, <1>3, <1>4

LEMMA DeleteEmployeeKeeps == ASSUME IInv, NEW u \in Users, DeleteEmployee(u) PROVE IInv'
<1> USE DEF IInv, DeleteEmployee
<1>1. Types'
  BY DEF Types, TabType
<1>2. OneManager'
  <2>1. members' \cap Managers = members \cap Managers
    OBVIOUS
  <2> QED
    BY <2>1 DEF OneManager
<1>3. KeysHold'
  BY DEF KeysHold, RowsOK, RowsOf
<1>4. Whole'
  BY DEF Whole, RowsOf, Types
<1>5. PagesOK' /\ TransactionsMeet'
  BY DEF PagesOK, PageOK, RowsOK, TransactionsMeet, Meets, RowsOf
<1> QED
  BY <1>1, <1>2, <1>3, <1>4, <1>5

LEMMA CreateShopKeeps == ASSUME IInv, NEW s \in Shops, CreateShop(s) PROVE IInv'
<1> USE DEF IInv, CreateShop
<1>1. Types' /\ OneManager'
  BY DEF Types, TabType, OneManager
<1>2. KeysHold' /\ Whole'
  BY DEF KeysHold, RowsOK, Whole, RowsOf
<1>3. PagesOK' /\ TransactionsMeet'
  BY DEF PagesOK, PageOK, RowsOK, TransactionsMeet, Meets, RowsOf
<1> QED
  BY <1>1, <1>2, <1>3

LEMMA AssignShopKeeps == ASSUME IInv, NEW s \in Shops \cup {Null}, AssignShop(s) PROVE IInv'
<1> USE DEF IInv, AssignShop
<1>1. Types' /\ OneManager'
  BY DEF Types, TabType, OneManager
<1>2. KeysHold' /\ Whole'
  BY DEF KeysHold, RowsOK, Whole, RowsOf
<1>3. PagesOK' /\ TransactionsMeet'
  BY DEF PagesOK, PageOK, RowsOK, TransactionsMeet, Meets, RowsOf
<1> QED
  BY <1>1, <1>2, <1>3

LEMMA CountArticlesKeeps == ASSUME IInv, NEW s \in Shops, CountArticles(s) PROVE IInv'
<1> USE DEF IInv, CountArticles
<1>1. Types' /\ OneManager'
  BY DEF Types, TabType, OneManager
<1>2. KeysHold' /\ Whole'
  BY DEF KeysHold, RowsOK, Whole, RowsOf
<1>3. PagesOK' /\ TransactionsMeet'
  BY DEF PagesOK, PageOK, RowsOK, TransactionsMeet, Meets, RowsOf
<1> QED
  BY <1>1, <1>2, <1>3

LEMMA DeleteShopKeeps == ASSUME IInv, NEW s \in Shops, DeleteShop(s) PROVE IInv'
<1> USE DEF IInv, DeleteShop
<1>1. Types'
  <2>1. saved' \in [Users -> SUBSET AccessRows] /\ asked' \in [Users -> SUBSET Shops]
    BY DEF Types
  <2> QED
    BY <2>1 DEF Types, TabType
<1>2. OneManager' /\ KeysHold'
  BY DEF OneManager, KeysHold, RowsOK
<1>3. Whole'
  BY DEF Whole, RowsOf, Types
<1>4. PagesOK' /\ TransactionsMeet'
  BY DEF PagesOK, PageOK, RowsOK, TransactionsMeet, Meets, RowsOf
<1> QED
  BY <1>1, <1>2, <1>3, <1>4

LEMMA FormIsTab ==
  ASSUME NEW u \in Users, NEW on \in SUBSET Shops
  PROVE  [Closed EXCEPT !.step = "form", !.user = u, !.on = on] \in TabType
<1>1. Closed \in [step: Steps, user: Users \cup {Null}, on: SUBSET Shops,
                  wanted: SUBSET AccessRows, seen: SUBSET AccessRows, met: BOOLEAN]
  BY DEF Closed, Steps
<1>2. "form" \in Steps
  BY DEF Steps
<1> QED
  BY <1>1, <1>2 DEF TabType

LEMMA OpenFormKeeps ==
  ASSUME IInv, NEW t \in Tabs, NEW u \in Users, OpenForm(t, u) PROVE IInv'
<1> USE DEF IInv, OpenForm
<1>1. Types'
  <2>1. shops \in SUBSET Shops
    BY DEF Types
  <2>2. [Closed EXCEPT !.step = "form", !.user = u, !.on = shops] \in TabType
    BY <2>1, FormIsTab
  <2>3. tab' \in [Tabs -> TabType]
    BY <2>2 DEF Types
  <2> QED
    BY <2>3, BoundIsNat DEF Types
<1>2. OneManager' /\ KeysHold' /\ Whole'
  BY DEF OneManager, KeysHold, RowsOK, Whole, RowsOf
<1>3. PagesOK'
  BY DEF PagesOK, PageOK, RowsOK, Types, Closed
<1>4. TransactionsMeet'
  BY DEF TransactionsMeet, Meets, RowsOf, Types, Closed
<1> QED
  BY <1>1, <1>2, <1>3, <1>4

LEMMA SendKeeps == ASSUME IInv, NEW t \in Tabs, Send(t) PROVE IInv'
<1> USE DEF IInv
<1>1. tab[t] \in TabType /\ PageOK(tab[t]) /\ tab[t].user \in Users \ Managers
  BY DEF Types, PagesOK, PageOK, Send
<1>2. \A o \in Tabs \ {t} : tab'[o] = tab[o]
  BY DEF Types, Send
<1>3. PICK wanted \in SUBSET AccessRows :
        /\ RowsOK(wanted, {tab[t].user}, Shops)
        /\ tab' = [tab EXCEPT ![t] =
                     IF tab[t].user \in members /\ ShopsOf(wanted) \subseteq shops
                       THEN [@ EXCEPT !.step = "checked", !.wanted = wanted]
                       ELSE Closed]
  <2>1. PICK ticked \in [tab[t].on -> ShopChoices], company \in CompanyChoices :
          tab' = [tab EXCEPT ![t] =
                    IF tab[t].user \in members
                       /\ ShopsOf(List(tab[t].user, ticked, company)) \subseteq shops
                      THEN [@ EXCEPT !.step = "checked",
                                     !.wanted = List(tab[t].user, ticked, company)]
                      ELSE Closed]
    BY DEF Send
  <2>2. tab[t].on \in SUBSET Shops
    BY <1>1 DEF TabType
  <2>3. /\ List(tab[t].user, ticked, company) \in SUBSET AccessRows
        /\ RowsOK(List(tab[t].user, ticked, company), {tab[t].user}, Shops)
    BY <1>1, <2>2, ListOK
  <2> QED
    BY <2>1, <2>3
<1>4. tab'[t] = [tab[t] EXCEPT !.step = "checked", !.wanted = wanted] \/ tab'[t] = Closed
  BY <1>3 DEF Types
<1>5. tab'[t] \in TabType /\ tab'[t].step # "cleared" /\ PageOK(tab'[t])
  <2>1. CASE tab'[t] = Closed
    BY <2>1 DEF TabType, Closed, Steps, PageOK, RowsOK
  <2>2. CASE tab'[t] = [tab[t] EXCEPT !.step = "checked", !.wanted = wanted]
    <3>1. tab'[t] = [step |-> "checked", user |-> tab[t].user, on |-> tab[t].on,
                     wanted |-> wanted, seen |-> tab[t].seen, met |-> tab[t].met]
      BY <1>1, <2>2 DEF TabType
    <3> QED
      BY <1>1, <1>3, <3>1 DEF TabType, Steps, PageOK
  <2> QED
    BY <1>4, <2>1, <2>2
<1>6. Types'
  BY <1>3, <1>5, <1>2 DEF Types, Send
<1>7. OneManager' /\ KeysHold' /\ Whole'
  BY DEF OneManager, KeysHold, RowsOK, Whole, RowsOf, Send
<1>9. PagesOK'
  BY <1>2, <1>5 DEF PagesOK
<1>10. TransactionsMeet'
  BY <1>2, <1>5 DEF TransactionsMeet, Meets, RowsOf, Send
<1> QED
  BY <1>6, <1>7, <1>9, <1>10

LEMMA ClearKeeps == ASSUME IInv, NEW t \in Tabs, Clear(t) PROVE IInv'
<1> USE DEF IInv
<1>1. tab[t] \in TabType /\ PageOK(tab[t]) /\ tab[t].user \in Users \ Managers
  BY DEF Types, PagesOK, PageOK, Clear
<1>2. tab'[t] = [tab[t] EXCEPT !.step = "cleared", !.seen = RowsOf(tab[t].user),
                               !.met = \E o \in Tabs : Meets(t, o)]
  BY DEF RowsItSees, Clear
<1>3. \A o \in Tabs \ {t} :
        tab'[o] = IF Meets(t, o) THEN [tab[o] EXCEPT !.met = TRUE] ELSE tab[o]
  BY DEF Clear
<1>4. RowsOf(tab[t].user) \in SUBSET AccessRows
  BY DEF RowsOf, Types
<1>5. tab'[t] \in TabType
  BY <1>1, <1>2, <1>4 DEF TabType, Steps
<1>6. \A o \in Tabs : tab'[o] \in TabType
  BY <1>3, <1>5 DEF Types, TabType
<1>7. Types'
  BY <1>6 DEF Types, Clear
<1>8. OneManager' /\ KeysHold' /\ Whole'
  BY DEF OneManager, KeysHold, RowsOK, Whole, RowsOf, Clear
<1>9. \A o \in Tabs \ {t} : /\ tab'[o].user = tab[o].user /\ tab'[o].wanted = tab[o].wanted
                             /\ tab'[o].step = tab[o].step /\ tab'[o].seen = tab[o].seen
                             /\ tab'[o].met = (tab[o].met \/ Meets(t, o))
  <2> SUFFICES ASSUME NEW o \in Tabs \ {t}
               PROVE  /\ tab'[o].user = tab[o].user /\ tab'[o].wanted = tab[o].wanted
                      /\ tab'[o].step = tab[o].step /\ tab'[o].seen = tab[o].seen
                      /\ tab'[o].met = (tab[o].met \/ Meets(t, o))
    OBVIOUS
  <2>1. tab[o] \in TabType
    BY DEF Types
  <2>2. CASE Meets(t, o)
    BY <1>3, <2>1, <2>2 DEF TabType
  <2>3. CASE ~Meets(t, o)
    BY <1>3, <2>1, <2>3 DEF TabType
  <2> QED
    BY <2>2, <2>3
<1>10. tab'[t].step = "cleared" /\ tab'[t].seen = RowsOf(tab[t].user)
       /\ (~tab'[t].met => \A o \in Tabs : ~Meets(t, o))
       /\ tab'[t].user = tab[t].user /\ tab'[t].wanted = tab[t].wanted
  <2> DEFINE met == \E o \in Tabs : Meets(t, o)
             seen == RowsOf(tab[t].user)
  <2>1. tab'[t] = [tab[t] EXCEPT !.step = "cleared", !.seen = seen, !.met = met]
    BY <1>2
  <2>2. ~met => \A o \in Tabs : ~Meets(t, o)
    OBVIOUS
  <2> HIDE DEF met, seen
  <2>3. /\ tab'[t].step = "cleared" /\ tab'[t].seen = seen /\ tab'[t].met = met
        /\ tab'[t].user = tab[t].user /\ tab'[t].wanted = tab[t].wanted
    BY <1>1, <2>1 DEF TabType
  <2> QED
    BY <2>2, <2>3 DEF seen
<1>11. \A o \in Tabs : tab'[o].user = tab[o].user /\ tab'[o].wanted = tab[o].wanted
  BY <1>9, <1>10
<1>12. UNCHANGED access
  BY DEF Clear
<1>13. PagesOK'
  <2>1. PageOK(tab'[t])
    BY <1>1, <1>10, <1>11 DEF PageOK, RowsOf
  <2>2. \A o \in Tabs \ {t} : PageOK(tab'[o])
    BY <1>9, <1>11 DEF PagesOK, PageOK
  <2> QED
    BY <2>1, <2>2 DEF PagesOK
<1>14. TransactionsMeet'
  <2> SUFFICES ASSUME NEW o \in Tabs, tab'[o].step = "cleared", ~tab'[o].met
               PROVE  /\ {row \in access : row.user = tab'[o].user} \subseteq tab'[o].seen
                      /\ \A z \in Tabs : ~Meets(o, z)'
    BY <1>12 DEF TransactionsMeet, RowsOf, Meets
  <2>1. CASE o = t
    <3>1. \A z \in Tabs : ~Meets(t, z)
      BY <1>10, <2>1
    <3> QED
      BY <1>9, <1>10, <1>11, <2>1, <3>1 DEF Meets, RowsOf
  <2>2. CASE o # t
    <3>1. tab[o].step = "cleared" /\ ~tab[o].met /\ ~Meets(t, o)
      BY <1>9, <2>2
    <3>2. RowsOf(tab[o].user) \subseteq tab[o].seen /\ \A z \in Tabs : ~Meets(o, z)
      BY <3>1 DEF TransactionsMeet
    <3>3. tab[o].user # tab[t].user
      BY <2>2, <3>1 DEF Meets
    <3> QED
      BY <1>11, <1>9, <2>2, <3>2, <3>3 DEF Meets, RowsOf
  <2> QED
    BY <2>1, <2>2
<1> QED
  BY <1>7, <1>8, <1>13, <1>14

LEMMA StoreKeeps == ASSUME IInv, NEW t \in Tabs, Store(t) PROVE IInv'
<1> DEFINE u == tab[t].user
           wanted == tab[t].wanted
           seen == tab[t].seen
<1> USE DEF IInv
<1>1. tab[t] \in TabType /\ PageOK(tab[t]) /\ u \in Users \ Managers
  BY DEF Types, PagesOK, PageOK, Store
<1>2. wanted \in SUBSET AccessRows /\ RowsOK(wanted, {u}, Shops)
      /\ \A row \in seen : row.user = u
  BY <1>1 DEF TabType, PageOK
<1>3. tab' = [tab EXCEPT ![t] = Closed]
      /\ UNCHANGED <<members, shops, shopOf, leaving, saves>>
  BY DEF Store
<1>4. (\A o \in Tabs \ {t} : tab'[o] = tab[o]) /\ tab'[t] = Closed
  BY <1>3 DEF Types
<1>5. Closed \in TabType /\ PageOK(Closed)
  BY DEF TabType, Closed, Steps, PageOK, RowsOK
<1>6. tab' \in [Tabs -> TabType]
  BY <1>3, <1>5 DEF Types
<1>7. PagesOK'
  BY <1>4, <1>5 DEF PagesOK
<1>8. CASE Insertable(t)
  <2>1. /\ access' = (access \ seen) \cup wanted
        /\ saved' = [saved EXCEPT ![u] = wanted]
        /\ asked' = [asked EXCEPT ![u] = tab[t].on \cap shops]
        /\ crossed' = IF tab[t].met THEN crossed \cup {u} ELSE crossed \ {u}
    BY <1>8 DEF Store
  <2>2. Types'
    <3>1. access' \in SUBSET AccessRows
      BY <1>2, <2>1 DEF Types
    <3>2. saved' \in [Users -> SUBSET AccessRows] /\ asked' \in [Users -> SUBSET Shops]
      BY <1>1, <1>2, <2>1 DEF Types, TabType
    <3>3. crossed' \in SUBSET Users
      BY <1>1, <2>1 DEF Types
    <3> QED
      BY <1>3, <1>6, <3>1, <3>2, <3>3 DEF Types
  <2>3. KeysHold'
    <3>1. ASSUME NEW row \in access'
          PROVE row.user \in members \ Managers /\ row.shop \in shops /\ row.permissions # {}
      <4>1. CASE row \in access
        BY <4>1 DEF KeysHold, RowsOK
      <4>2. CASE row \in wanted
        BY <1>1, <1>2, <1>8, <4>2 DEF RowsOK, Insertable, ShopsOf
      <4> QED
        BY <2>1, <4>1, <4>2
    <3>2. ASSUME NEW a \in access', NEW b \in access', a.user = b.user, a.shop = b.shop
          PROVE a = b
      <4>1. CASE a \in access /\ b \in access
        BY <3>2, <4>1 DEF KeysHold, RowsOK
      <4>2. CASE a \in wanted /\ b \in wanted
        BY <1>2, <3>2, <4>2 DEF RowsOK
      <4>3. ASSUME NEW old \in access \ seen, NEW new \in wanted, old.user = new.user
            PROVE old.shop # new.shop
        BY <1>2, <1>8, <4>3 DEF RowsOK, Insertable, ShopsOf, RowsOf
      <4> QED
        BY <2>1, <3>2, <4>1, <4>2, <4>3
    <3> QED
      BY <1>3, <3>1, <3>2 DEF KeysHold, RowsOK
  <2>4. \A v \in Users \ {u} : {row \in access' : row.user = v} = RowsOf(v) /\ saved'[v] = saved[v]
    BY <1>2, <2>1 DEF RowsOf, RowsOK, Types
  <2>5. ~tab[t].met => {row \in access' : row.user = u} = wanted /\ saved'[u] = wanted
    <3>1. ~tab[t].met => RowsOf(u) \subseteq seen
      BY DEF TransactionsMeet, Store
    <3>2. saved'[u] = wanted
      BY <1>1, <2>1 DEF Types
    <3>3. \A row \in wanted : row.user = u
      BY <1>2 DEF RowsOK
    <3>4. RowsOf(u) \subseteq seen => {row \in access' : row.user = u} = wanted
      BY <2>1, <3>3 DEF RowsOf
    <3> QED
      BY <3>1, <3>2, <3>4
  <2>6. Whole'
    BY <1>1, <2>1, <2>4, <2>5 DEF Whole, RowsOf
  <2>7. TransactionsMeet'
    <3> SUFFICES ASSUME NEW o \in Tabs, tab'[o].step = "cleared", ~tab'[o].met
                 PROVE  /\ {row \in access' : row.user = tab'[o].user} \subseteq tab'[o].seen
                        /\ \A z \in Tabs : ~Meets(o, z)'
      BY DEF TransactionsMeet, RowsOf, Meets
    <3>1. o # t /\ tab'[o] = tab[o]
      BY <1>4 DEF Closed
    <3>2. tab[o].user # u
      BY <3>1 DEF TransactionsMeet, Meets, Store
    <3>3. tab[o].user \in Users
      BY <3>1 DEF PagesOK, PageOK
    <3>4. {row \in access' : row.user = tab'[o].user} \subseteq tab'[o].seen
      BY <2>4, <3>1, <3>2, <3>3 DEF TransactionsMeet
    <3>5. \A z \in Tabs : ~Meets(o, z)'
      BY <1>4, <3>1 DEF TransactionsMeet, Meets, Closed
    <3> QED
      BY <3>4, <3>5
  <2> QED
    BY <1>3, <1>7, <2>2, <2>3, <2>6, <2>7 DEF OneManager
<1>9. CASE ~Insertable(t)
  <2>1. UNCHANGED <<access, saved, asked, crossed>>
    BY <1>9 DEF Store
  <2>2. Types' /\ OneManager' /\ KeysHold' /\ Whole'
    BY <1>3, <1>6, <2>1 DEF Types, OneManager, KeysHold, RowsOK, Whole, RowsOf
  <2>3. TransactionsMeet'
    BY <1>4, <2>1 DEF TransactionsMeet, Meets, RowsOf, Closed
  <2> QED
    BY <1>7, <2>2, <2>3
<1> QED
  BY <1>8, <1>9
-----------------------------------------------------------------------------
LEMMA NextHolds == IInv /\ [Next]_vars => IInv'
<1> SUFFICES ASSUME IInv, [Next]_vars PROVE IInv'
  OBVIOUS
<1>1. CASE UNCHANGED vars
  BY <1>1 DEF vars, IInv, Types, OneManager, KeysHold, RowsOK, PagesOK, PageOK,
              TransactionsMeet, Meets, RowsOf, Whole
<1>2. CASE Next
  BY <1>2, RegisterKeeps, DeleteAccountKeeps, InviteKeeps, DeleteEmployeeKeeps,
     CreateShopKeeps, AssignShopKeeps, CountArticlesKeeps, DeleteShopKeeps, OpenFormKeeps,
     SendKeeps, ClearKeeps, StoreKeeps DEF Next
<1> QED
  BY <1>1, <1>2

\* The inductive invariant, of which the two properties below are consequences.
THEOREM InvariantHolds == Spec => []IInv
<1> QED
  BY InitHolds, NextHolds, PTL DEF Spec

\* The types, the foreign keys and the unique index of the rows of access, and one
\* manager: Register, setAccess, delete and the cascades, for any number of pages open.
THEOREM AccessTypeCorrect == Spec => []TypeOK
<1>1. IInv => TypeOK
  BY DEF IInv, Types, TabType, Steps, OneManager, KeysHold, RowsOK, TypeOK
<1> QED
  BY <1>1, InvariantHolds, PTL

\* « Remplace intégralement les accès d'un employé »: the rights of whoever no two saves
\* crossed on are those of the last list setAccess stored, whole.
THEOREM RightsAreOneList == Spec => []ListsAreWhole
<1>1. IInv => ListsAreWhole
  BY DEF IInv, Types, Whole, ListsAreWhole
<1> QED
  BY <1>1, InvariantHolds, PTL
-----------------------------------------------------------------------------
(* The routes and the screens: the keys of each table, then what is at     *)
(* those the screens use.                                                  *)

LEMMA ReadsKeys ==
  \A k : k \in DOMAIN ProductReads <=>
    k \in {"GET/products", "GET/products/export", "GET/products/removals",
            "GET/products/:id"}
  BY OneEntry, SideBySide DEF ProductReads

LEMMA WritesKeys ==
  \A k : k \in DOMAIN ProductWrites <=>
    k \in {"POST/products", "POST/products/lot", "POST/products/sale",
            "PUT/products/removals-done"}
  BY OneEntry, SideBySide DEF ProductWrites

LEMMA ActsKeys ==
  \A k : k \in DOMAIN ProductActs <=>
    k \in {"PUT/products/:id", "PUT/products/:id/assign-shop", "PUT/products/:id/sale",
            "PUT/products/:id/depositor-payment", "PUT/products/:id/online",
            "PUT/products/:id/removal-done", "PUT/products/:id/status", "DELETE/products/:id"}
  BY OneEntry, SideBySide DEF ProductActs

LEMMA ContractKeys ==
  \A k : k \in DOMAIN ContractRoutes <=>
    k \in {"GET/deposit-contracts", "GET/deposit-contracts/:id",
            "GET/deposit-contracts/:id/pdf", "POST/deposit-contracts",
            "POST/deposit-contracts/deadlines", "POST/deposit-contracts/:id/products",
            "DELETE/deposit-contracts/:id/products/:productId", "PUT/deposit-contracts/:id",
            "DELETE/deposit-contracts/:id"}
  BY OneEntry, SideBySide DEF ContractRoutes

LEMMA DepositorKeys ==
  \A k : k \in DOMAIN DepositorRoutes <=>
    k \in {"GET/depositors", "GET/depositors/:id", "GET/depositors/:id/products",
            "GET/depositors/:id/statement", "POST/depositors", "PUT/depositors/:id",
            "DELETE/depositors/:id"}
  BY OneEntry, SideBySide DEF DepositorRoutes

LEMMA CategoryKeys ==
  \A k : k \in DOMAIN CategoryRoutes <=>
    k \in {"GET/categories", "GET/categories/tree", "GET/categories/:id",
            "GET/categories/:id/attributes", "PUT/categories/:id/attributes",
            "POST/categories", "PUT/categories/:id", "DELETE/categories/:id"}
  BY OneEntry, SideBySide DEF CategoryRoutes

LEMMA AttributeKeys ==
  \A k : k \in DOMAIN AttributeRoutes <=>
    k \in {"GET/attributes/templates", "GET/attributes", "GET/attributes/:id",
            "POST/attributes", "POST/attributes/from-template/:templateId",
            "PUT/attributes/:id", "PUT/attributes/:id/options",
            "PUT/attributes/:id/categories", "DELETE/attributes/:id"}
  BY OneEntry, SideBySide DEF AttributeRoutes

LEMMA ShopKeys ==
  \A k : k \in DOMAIN ShopRoutes <=>
    k \in {"GET/shops", "GET/shops/:id", "POST/shops", "PUT/shops/:id", "DELETE/shops/:id"}
  BY OneEntry, SideBySide DEF ShopRoutes

LEMMA UserKeys ==
  \A k : k \in DOMAIN UserRoutes <=>
    k \in {"GET/users", "POST/users/invite", "PUT/users/:id/access", "DELETE/users/:id"}
  BY OneEntry, SideBySide DEF UserRoutes

LEMMA StatsKeys ==
  \A k : k \in DOMAIN StatsRoutes <=>
    k \in {"GET/stats/dashboard", "GET/stats/layout", "PUT/stats/layout"}
  BY OneEntry, SideBySide DEF StatsRoutes

LEMMA UploadKeys ==
  \A k : k \in DOMAIN UploadRoutes <=>
    k \in {"POST/uploads/photo", "GET/uploads/photo/*key"}
  BY OneEntry, SideBySide DEF UploadRoutes

LEMMA NotificationKeys ==
  \A k : k \in DOMAIN NotificationRoutes <=>
    k \in {"GET/notifications", "PUT/notifications/read-all", "PUT/notifications/:id/read"}
  BY OneEntry, SideBySide DEF NotificationRoutes

LEMMA StatusKeys ==
  \A k : k \in DOMAIN StatusRoutes <=>
    k \in {"GET/statuses"}
  BY OneEntry, SideBySide DEF StatusRoutes

LEMMA AuthKeys ==
  \A k : k \in DOMAIN AuthRoutes <=>
    k \in {"POST/auth/register", "POST/auth/login", "GET/auth/me", "PUT/auth/profile",
            "PUT/auth/password", "GET/auth/account", "DELETE/auth/account"}
  BY OneEntry, SideBySide DEF AuthRoutes

\* The rule of a route is the one its controller gives it: no two tables name the same.
LEMMA RuleAt ==
  \A k :
    /\ k \in DOMAIN ProductReads => RuleOf[k] = ProductReads[k]
    /\ k \in DOMAIN ProductWrites => RuleOf[k] = ProductWrites[k]
    /\ k \in DOMAIN ProductActs => RuleOf[k] = ProductActs[k]
    /\ k \in DOMAIN ContractRoutes => RuleOf[k] = ContractRoutes[k]
    /\ k \in DOMAIN DepositorRoutes => RuleOf[k] = DepositorRoutes[k]
    /\ k \in DOMAIN CategoryRoutes => RuleOf[k] = CategoryRoutes[k]
    /\ k \in DOMAIN AttributeRoutes => RuleOf[k] = AttributeRoutes[k]
    /\ k \in DOMAIN ShopRoutes => RuleOf[k] = ShopRoutes[k]
    /\ k \in DOMAIN UserRoutes => RuleOf[k] = UserRoutes[k]
    /\ k \in DOMAIN StatsRoutes => RuleOf[k] = StatsRoutes[k]
    /\ k \in DOMAIN NotificationRoutes => RuleOf[k] = NotificationRoutes[k]
    /\ k \in DOMAIN StatusRoutes => RuleOf[k] = StatusRoutes[k]
    /\ k \in DOMAIN AuthRoutes => RuleOf[k] = AuthRoutes[k]
<1>1. ASSUME NEW k \in DOMAIN ProductReads PROVE RuleOf[k] = ProductReads[k]
  BY SideBySide DEF RuleOf
<1>2. ASSUME NEW k \in DOMAIN ProductWrites PROVE RuleOf[k] = ProductWrites[k]
  <2>1. k \notin DOMAIN ProductReads
    BY ReadsKeys, WritesKeys
  <2> QED
    BY <2>1, SideBySide DEF RuleOf
<1>3. ASSUME NEW k \in DOMAIN ProductActs PROVE RuleOf[k] = ProductActs[k]
  <2>1. k \notin DOMAIN ProductReads \cup DOMAIN ProductWrites
    BY ReadsKeys, WritesKeys, ActsKeys
  <2> QED
    BY <2>1, SideBySide DEF RuleOf
<1>4. ASSUME NEW k \in DOMAIN ContractRoutes PROVE RuleOf[k] = ContractRoutes[k]
  <2>1. k \notin DOMAIN ProductReads \cup DOMAIN ProductWrites \cup DOMAIN ProductActs
    BY ReadsKeys, WritesKeys, ActsKeys, ContractKeys
  <2> QED
    BY <2>1, SideBySide DEF RuleOf
<1>5. ASSUME NEW k \in DOMAIN DepositorRoutes PROVE RuleOf[k] = DepositorRoutes[k]
  <2>1. k \notin DOMAIN ProductReads \cup DOMAIN ProductWrites \cup DOMAIN ProductActs
                  \cup DOMAIN ContractRoutes
    BY ReadsKeys, WritesKeys, ActsKeys, ContractKeys, DepositorKeys
  <2> QED
    BY <2>1, SideBySide DEF RuleOf
<1>6. ASSUME NEW k \in DOMAIN CategoryRoutes PROVE RuleOf[k] = CategoryRoutes[k]
  <2>1. k \notin DOMAIN ProductReads \cup DOMAIN ProductWrites \cup DOMAIN ProductActs
                  \cup DOMAIN ContractRoutes \cup DOMAIN DepositorRoutes
    BY ReadsKeys, WritesKeys, ActsKeys, ContractKeys, DepositorKeys, CategoryKeys
  <2> QED
    BY <2>1, SideBySide DEF RuleOf
<1>7. ASSUME NEW k \in DOMAIN AttributeRoutes PROVE RuleOf[k] = AttributeRoutes[k]
  <2>1. k \notin DOMAIN ProductReads \cup DOMAIN ProductWrites \cup DOMAIN ProductActs
                  \cup DOMAIN ContractRoutes \cup DOMAIN DepositorRoutes
                  \cup DOMAIN CategoryRoutes
    BY ReadsKeys, WritesKeys, ActsKeys, ContractKeys, DepositorKeys, CategoryKeys, AttributeKeys
  <2> QED
    BY <2>1, SideBySide DEF RuleOf
<1>8. ASSUME NEW k \in DOMAIN ShopRoutes PROVE RuleOf[k] = ShopRoutes[k]
  <2>1. k \notin DOMAIN ProductReads \cup DOMAIN ProductWrites \cup DOMAIN ProductActs
                  \cup DOMAIN ContractRoutes \cup DOMAIN DepositorRoutes
                  \cup DOMAIN CategoryRoutes \cup DOMAIN AttributeRoutes
    BY ReadsKeys, WritesKeys, ActsKeys, ContractKeys, DepositorKeys, CategoryKeys,
       AttributeKeys, ShopKeys
  <2> QED
    BY <2>1, SideBySide DEF RuleOf
<1>9. ASSUME NEW k \in DOMAIN UserRoutes PROVE RuleOf[k] = UserRoutes[k]
  <2>1. k \notin DOMAIN ProductReads \cup DOMAIN ProductWrites \cup DOMAIN ProductActs
                  \cup DOMAIN ContractRoutes \cup DOMAIN DepositorRoutes
                  \cup DOMAIN CategoryRoutes \cup DOMAIN AttributeRoutes
                  \cup DOMAIN ShopRoutes
    BY ReadsKeys, WritesKeys, ActsKeys, ContractKeys, DepositorKeys, CategoryKeys,
       AttributeKeys, ShopKeys, UserKeys
  <2> QED
    BY <2>1, SideBySide DEF RuleOf
<1>10. ASSUME NEW k \in DOMAIN StatsRoutes PROVE RuleOf[k] = StatsRoutes[k]
  <2>1. k \notin DOMAIN ProductReads \cup DOMAIN ProductWrites \cup DOMAIN ProductActs
                  \cup DOMAIN ContractRoutes \cup DOMAIN DepositorRoutes
                  \cup DOMAIN CategoryRoutes \cup DOMAIN AttributeRoutes
                  \cup DOMAIN ShopRoutes \cup DOMAIN UserRoutes
    BY ReadsKeys, WritesKeys, ActsKeys, ContractKeys, DepositorKeys, CategoryKeys,
       AttributeKeys, ShopKeys, UserKeys, StatsKeys
  <2> QED
    BY <2>1, SideBySide DEF RuleOf
<1>11. ASSUME NEW k \in DOMAIN NotificationRoutes PROVE RuleOf[k] = NotificationRoutes[k]
  <2>1. k \notin DOMAIN ProductReads \cup DOMAIN ProductWrites \cup DOMAIN ProductActs
                  \cup DOMAIN ContractRoutes \cup DOMAIN DepositorRoutes
                  \cup DOMAIN CategoryRoutes \cup DOMAIN AttributeRoutes
                  \cup DOMAIN ShopRoutes \cup DOMAIN UserRoutes \cup DOMAIN StatsRoutes
                  \cup DOMAIN UploadRoutes
    BY ReadsKeys, WritesKeys, ActsKeys, ContractKeys, DepositorKeys, CategoryKeys,
       AttributeKeys, ShopKeys, UserKeys, StatsKeys, UploadKeys, NotificationKeys
  <2> QED
    BY <2>1, SideBySide DEF RuleOf
<1>12. ASSUME NEW k \in DOMAIN StatusRoutes PROVE RuleOf[k] = StatusRoutes[k]
  <2>1. k \notin DOMAIN ProductReads \cup DOMAIN ProductWrites \cup DOMAIN ProductActs
                  \cup DOMAIN ContractRoutes \cup DOMAIN DepositorRoutes
                  \cup DOMAIN CategoryRoutes \cup DOMAIN AttributeRoutes
                  \cup DOMAIN ShopRoutes \cup DOMAIN UserRoutes \cup DOMAIN StatsRoutes
                  \cup DOMAIN UploadRoutes \cup DOMAIN NotificationRoutes
    BY ReadsKeys, WritesKeys, ActsKeys, ContractKeys, DepositorKeys, CategoryKeys,
       AttributeKeys, ShopKeys, UserKeys, StatsKeys, UploadKeys, NotificationKeys, StatusKeys
  <2> QED
    BY <2>1, SideBySide DEF RuleOf
<1>13. ASSUME NEW k \in DOMAIN AuthRoutes PROVE RuleOf[k] = AuthRoutes[k]
  <2>1. k \notin DOMAIN ProductReads \cup DOMAIN ProductWrites \cup DOMAIN ProductActs
                  \cup DOMAIN ContractRoutes \cup DOMAIN DepositorRoutes
                  \cup DOMAIN CategoryRoutes \cup DOMAIN AttributeRoutes
                  \cup DOMAIN ShopRoutes \cup DOMAIN UserRoutes \cup DOMAIN StatsRoutes
                  \cup DOMAIN UploadRoutes \cup DOMAIN NotificationRoutes
                  \cup DOMAIN StatusRoutes
    BY ReadsKeys, WritesKeys, ActsKeys, ContractKeys, DepositorKeys, CategoryKeys,
       AttributeKeys, ShopKeys, UserKeys, StatsKeys, UploadKeys, NotificationKeys, StatusKeys,
       AuthKeys
  <2> QED
    BY <2>1, SideBySide DEF RuleOf
<1> QED
  BY <1>1, <1>2, <1>3, <1>4, <1>5, <1>6, <1>7, <1>8, <1>9, <1>10, <1>11, <1>12, <1>13

\* The rules of the routes the screens call behind a right, and of a chore.
LEMMA RuleIs ==
  /\ \A r \in {"GET/auth/me", "GET/notifications", "GET/stats/dashboard", "GET/stats/layout",
               "GET/statuses", "GET/categories", "GET/categories/tree", "GET/attributes",
               "GET/attributes/templates", "GET/shops"} : RuleOf[r] = Member
  /\ \A r \in {"GET/users", "POST/users/invite", "PUT/users/:id/access", "DELETE/users/:id",
               "POST/shops", "PUT/shops/:id", "DELETE/shops/:id", "DELETE/auth/account",
               "POST/deposit-contracts/deadlines"} : RuleOf[r] = ManagerOnly
  /\ \A r \in {"GET/products", "GET/products/:id"} :
       RuleOf[r] = RequirePermission({"products.view"})
  /\ RuleOf["GET/products/export"] = RequirePermission({"export.csv"})
  /\ \A r \in {"POST/products", "POST/products/lot"} :
       RuleOf[r] = RequirePermission({"products.manage"})
  /\ RuleOf["PUT/products/:id/online"] = RequirePermission({"online.manage"})
  /\ \A r \in {"GET/deposit-contracts", "GET/deposit-contracts/:id"} :
       RuleOf[r] = RequirePermission({"deposits.manage"})
  /\ RuleOf["POST/deposit-contracts"]
       = RequirePermission({"deposits.manage", "products.manage"})
  /\ \A r \in {"GET/products/removals", "PUT/products/:id/removal-done",
               "PUT/products/removals-done"} :
       RuleOf[r] = RequireAnyPermission({"online.manage", "products.manage"})
  /\ RuleOf["POST/products/sale"] = RequireAnyPermission({"products.changeStatus", "online.manage"})
  /\ \A r \in {"GET/depositors", "GET/depositors/:id", "GET/depositors/:id/statement"} :
       RuleOf[r] = RequireAnyPermission({"depositors.manage", "deposits.manage"})
<1>1. /\ RuleOf["GET/auth/me"] = Member
      /\ RuleOf["DELETE/auth/account"] = ManagerOnly
  BY RuleAt, AuthKeys, OneEntry, SideBySide DEF AuthRoutes
<1>2. RuleOf["GET/notifications"] = Member /\ RuleOf["GET/statuses"] = Member
  BY RuleAt, NotificationKeys, StatusKeys, OneEntry DEF NotificationRoutes, StatusRoutes
<1>3. RuleOf["GET/stats/dashboard"] = Member /\ RuleOf["GET/stats/layout"] = Member
  BY RuleAt, StatsKeys DEF StatsRoutes
<1>4. RuleOf["GET/categories"] = Member /\ RuleOf["GET/categories/tree"] = Member
  BY RuleAt, CategoryKeys, OneEntry, SideBySide DEF CategoryRoutes
<1>5. RuleOf["GET/attributes"] = Member /\ RuleOf["GET/attributes/templates"] = Member
  BY RuleAt, AttributeKeys, OneEntry, SideBySide DEF AttributeRoutes
<1>6. /\ RuleOf["GET/shops"] = Member
      /\ \A r \in {"POST/shops", "PUT/shops/:id", "DELETE/shops/:id"} : RuleOf[r] = ManagerOnly
  BY RuleAt, ShopKeys, SideBySide DEF ShopRoutes
<1>7. \A r \in {"GET/users", "POST/users/invite", "PUT/users/:id/access", "DELETE/users/:id"} :
        RuleOf[r] = ManagerOnly
  BY RuleAt, UserKeys DEF UserRoutes
<1>8. /\ RuleOf["GET/products"] = RequirePermission({"products.view"})
      /\ RuleOf["GET/products/:id"] = RequirePermission({"products.view"})
      /\ RuleOf["GET/products/export"] = RequirePermission({"export.csv"})
      /\ RuleOf["GET/products/removals"]
           = RequireAnyPermission({"online.manage", "products.manage"})
  BY RuleAt, ReadsKeys, OneEntry, SideBySide DEF ProductReads
<1>9. /\ RuleOf["POST/products"] = RequirePermission({"products.manage"})
      /\ RuleOf["POST/products/lot"] = RequirePermission({"products.manage"})
      /\ RuleOf["POST/products/sale"]
           = RequireAnyPermission({"products.changeStatus", "online.manage"})
      /\ RuleOf["PUT/products/removals-done"]
           = RequireAnyPermission({"online.manage", "products.manage"})
  BY RuleAt, WritesKeys, OneEntry, SideBySide DEF ProductWrites
<1>10. /\ RuleOf["PUT/products/:id/online"] = RequirePermission({"online.manage"})
       /\ RuleOf["PUT/products/:id/removal-done"]
            = RequireAnyPermission({"online.manage", "products.manage"})
  BY RuleAt, ActsKeys, OneEntry, SideBySide DEF ProductActs
<1>11. /\ RuleOf["GET/deposit-contracts"] = RequirePermission({"deposits.manage"})
       /\ RuleOf["GET/deposit-contracts/:id"] = RequirePermission({"deposits.manage"})
       /\ RuleOf["POST/deposit-contracts"]
            = RequirePermission({"deposits.manage", "products.manage"})
       /\ RuleOf["POST/deposit-contracts/deadlines"] = ManagerOnly
  BY RuleAt, ContractKeys, OneEntry, SideBySide DEF ContractRoutes
<1>12. \A r \in {"GET/depositors", "GET/depositors/:id", "GET/depositors/:id/statement"} :
         RuleOf[r] = RequireAnyPermission({"depositors.manage", "deposits.manage"})
  BY RuleAt, DepositorKeys, SideBySide DEF DepositorRoutes
<1> QED
  BY <1>1, <1>2, <1>3, <1>4, <1>5, <1>6, <1>7, <1>8, <1>9, <1>10, <1>11, <1>12

\* What the guards make of each kind of rule, for somebody who is logged in.
LEMMA GuardsOf ==
  ASSUME NEW u \in Users, NEW r, NEW s
  PROVE  /\ RuleOf[r] = Member => Accepts(access, u, r, s)
         /\ RuleOf[r] = ManagerOnly => (Accepts(access, u, r, s) <=> u \in Managers)
         /\ \A p : RuleOf[r] = RequirePermission({p}) =>
              (Accepts(access, u, r, s) <=> u \in Managers \/ Holds(access, u, p, s))
         /\ \A p, q : RuleOf[r] = RequirePermission({p, q}) =>
              (Accepts(access, u, r, s)
                 <=> u \in Managers \/ (Holds(access, u, p, s) /\ Holds(access, u, q, s)))
         /\ \A p, q : RuleOf[r] = RequireAnyPermission({p, q}) =>
              (Accepts(access, u, r, s)
                 <=> u \in Managers \/ Holds(access, u, p, s) \/ Holds(access, u, q, s))
<1> USE SomebodyManages DEF Accepts, JwtAuthGuard, ManagerGuard, PermissionsGuard, Rule
<1>1. RuleOf[r] = Member => Accepts(access, u, r, s)
  BY DEF Member
<1>2. RuleOf[r] = ManagerOnly => (Accepts(access, u, r, s) <=> u \in Managers)
  BY DEF ManagerOnly
<1>3. ASSUME NEW p, RuleOf[r] = RequirePermission({p})
      PROVE  Accepts(access, u, r, s) <=> u \in Managers \/ Holds(access, u, p, s)
  BY <1>3 DEF RequirePermission
<1>4. ASSUME NEW p, NEW q, RuleOf[r] = RequirePermission({p, q})
      PROVE  Accepts(access, u, r, s)
               <=> u \in Managers \/ (Holds(access, u, p, s) /\ Holds(access, u, q, s))
  BY <1>4 DEF RequirePermission
<1>5. ASSUME NEW p, NEW q, RuleOf[r] = RequireAnyPermission({p, q})
      PROVE  Accepts(access, u, r, s)
               <=> u \in Managers \/ Holds(access, u, p, s) \/ Holds(access, u, q, s)
  BY <1>5 DEF RequireAnyPermission
<1> QED
  BY <1>1, <1>2, <1>3, <1>4, <1>5

\* Each screen is where the menu and the links say.
LEMMA ScreenIs ==
  /\ ScreenAt["/dashboard"] = Dashboard["/dashboard"]
  /\ ScreenAt["/products"] = ProductsScreen["/products"]
  /\ ScreenAt["/products/new"] = NewProductScreen["/products/new"]
  /\ ScreenAt["/products/lot"] = LotScreen["/products/lot"]
  /\ ScreenAt["/products/:id"] = ProductScreen["/products/:id"]
  /\ ScreenAt["/products/:id/edit"] = EditScreen["/products/:id/edit"]
  /\ ScreenAt["/removals"] = RemovalsScreen["/removals"]
  /\ ScreenAt["/deposit-contracts"] = ContractsScreen["/deposit-contracts"]
  /\ ScreenAt["/deposit-contracts/:id"] = ContractScreen["/deposit-contracts/:id"]
  /\ ScreenAt["/deposit-contracts/new"] = NewContractScreen["/deposit-contracts/new"]
  /\ ScreenAt["/depositors"] = DepositorsScreen["/depositors"]
  /\ ScreenAt["/depositors/:id"] = DepositorScreen["/depositors/:id"]
  /\ ScreenAt["/categories"] = CategoriesScreen["/categories"]
  /\ ScreenAt["/attributes"] = AttributesScreen["/attributes"]
  /\ ScreenAt["/shops"] = ShopsScreen["/shops"]
  /\ ScreenAt["/users"] = UsersScreen["/users"]
  /\ ScreenAt["/profile"] = ProfileScreen["/profile"]
<1> DEFINE first == Dashboard @@ ProductsScreen @@ NewProductScreen @@ LotScreen
                      @@ ProductScreen @@ EditScreen
           second == first @@ RemovalsScreen @@ ContractsScreen @@ ContractScreen
                       @@ NewContractScreen @@ DepositorsScreen @@ DepositorScreen
<1>1. ScreenAt = second @@ CategoriesScreen @@ AttributesScreen @@ ShopsScreen
                       @@ UsersScreen @@ ProfileScreen
  BY DEF ScreenAt
<1>2. /\ \A k : k \in DOMAIN first <=>
           k \in {"/dashboard", "/products", "/products/new", "/products/lot",
                 "/products/:id", "/products/:id/edit"}
      /\ first["/dashboard"] = Dashboard["/dashboard"]
      /\ first["/products"] = ProductsScreen["/products"]
      /\ first["/products/new"] = NewProductScreen["/products/new"]
      /\ first["/products/lot"] = LotScreen["/products/lot"]
      /\ first["/products/:id"] = ProductScreen["/products/:id"]
      /\ first["/products/:id/edit"] = EditScreen["/products/:id/edit"]
  BY OneEntry, SideBySide DEF Dashboard, ProductsScreen, NewProductScreen, LotScreen,
                              ProductScreen, EditScreen
<1> HIDE DEF first
<1>3. /\ \A k : k \in DOMAIN second <=>
           k \in {"/dashboard", "/products", "/products/new", "/products/lot",
                 "/products/:id", "/products/:id/edit", "/removals", "/deposit-contracts",
                 "/deposit-contracts/:id", "/deposit-contracts/new", "/depositors",
                 "/depositors/:id"}
      /\ second["/removals"] = RemovalsScreen["/removals"]
      /\ second["/deposit-contracts"] = ContractsScreen["/deposit-contracts"]
      /\ second["/deposit-contracts/:id"] = ContractScreen["/deposit-contracts/:id"]
      /\ second["/deposit-contracts/new"] = NewContractScreen["/deposit-contracts/new"]
      /\ second["/depositors"] = DepositorsScreen["/depositors"]
      /\ second["/depositors/:id"] = DepositorScreen["/depositors/:id"]
      /\ \A k \in DOMAIN first : second[k] = first[k]
  BY <1>2, OneEntry, SideBySide DEF RemovalsScreen, ContractsScreen, ContractScreen,
                              NewContractScreen, DepositorsScreen, DepositorScreen
<1> HIDE DEF second
<1>4. /\ ScreenAt["/categories"] = CategoriesScreen["/categories"]
      /\ ScreenAt["/attributes"] = AttributesScreen["/attributes"]
      /\ ScreenAt["/shops"] = ShopsScreen["/shops"]
      /\ ScreenAt["/users"] = UsersScreen["/users"]
      /\ ScreenAt["/profile"] = ProfileScreen["/profile"]
      /\ \A k \in DOMAIN second : ScreenAt[k] = second[k]
  BY <1>1, <1>3, OneEntry, SideBySide DEF CategoriesScreen, AttributesScreen, ShopsScreen,
     UsersScreen,
                              ProfileScreen
<1> QED
  BY <1>2, <1>3, <1>4

\* The routes of the actions that are offered behind a right.
LEMMA RouteIs ==
  /\ RouteOf["createProduct"] = "POST/products"
  /\ RouteOf["createLot"] = "POST/products/lot"
  /\ RouteOf["setOnline"] = "PUT/products/:id/online"
  /\ RouteOf["markRemovalDone"] = "PUT/products/:id/removal-done"
  /\ RouteOf["markRemovalsDone"] = "PUT/products/removals-done"
  /\ RouteOf["createContract"] = "POST/deposit-contracts"
  /\ RouteOf["runDeadlines"] = "POST/deposit-contracts/deadlines"
  /\ RouteOf["createShop"] = "POST/shops"
  /\ RouteOf["updateShop"] = "PUT/shops/:id"
  /\ RouteOf["deleteShop"] = "DELETE/shops/:id"
  /\ RouteOf["inviteEmployee"] = "POST/users/invite"
  /\ RouteOf["saveAccess"] = "PUT/users/:id/access"
  /\ RouteOf["deleteEmployee"] = "DELETE/users/:id"
  /\ RouteOf["deleteAccount"] = "DELETE/auth/account"
  /\ RouteOf["export"] = "GET/products/export"
<1> DEFINE first == StockActions @@ SaleActions @@ SheetActions @@ RemovalActions
                    @@ ContractActions
           second == first @@ DepositorActions @@ CategoryActions @@ AttributeActions
                     @@ ShopActions @@ UserActions
           third == second @@ ProfileActions @@ LayoutAction @@ ReadAction @@ ExportRelay
<1>1. /\ \A k : k \in DOMAIN StockActions <=>
          k \in {"createProduct", "createLot"}
      /\ StockActions["createProduct"] = "POST/products"
      /\ StockActions["createLot"] = "POST/products/lot"
  BY OneEntry, SideBySide DEF StockActions
<1>2. /\ \A k : k \in DOMAIN SaleActions <=>
          k \in {"sellBasket", "changeStatus", "assignShop", "deleteProduct"}
  BY OneEntry, SideBySide DEF SaleActions
<1>3. /\ \A k : k \in DOMAIN SheetActions <=>
          k \in {"updateProduct", "updateSale", "setOnline"}
      /\ SheetActions["setOnline"] = "PUT/products/:id/online"
  BY OneEntry, SideBySide DEF SheetActions
<1>4. /\ \A k : k \in DOMAIN RemovalActions <=>
          k \in {"markRemovalDone", "markRemovalsDone", "toggleDepositorPayment"}
      /\ RemovalActions["markRemovalDone"] = "PUT/products/:id/removal-done"
      /\ RemovalActions["markRemovalsDone"] = "PUT/products/removals-done"
  BY OneEntry, SideBySide DEF RemovalActions
<1>5. /\ \A k : k \in DOMAIN ContractActions <=>
          k \in {"createContract", "updateContract", "attachProducts", "detachProduct",
                 "deleteContract", "runDeadlines"}
      /\ ContractActions["createContract"] = "POST/deposit-contracts"
      /\ ContractActions["runDeadlines"] = "POST/deposit-contracts/deadlines"
  BY OneEntry, SideBySide DEF ContractActions
<1>6. /\ \A k : k \in DOMAIN DepositorActions <=>
          k \in {"createDepositor", "updateDepositor", "deleteDepositor"}
  BY OneEntry, SideBySide DEF DepositorActions
<1>7. /\ \A k : k \in DOMAIN CategoryActions <=>
          k \in {"createCategory", "updateCategory", "deleteCategory", "setAttributes"}
  BY OneEntry, SideBySide DEF CategoryActions
<1>8. /\ \A k : k \in DOMAIN AttributeActions <=>
          k \in {"cloneTemplate", "createAttribute", "renameAttribute", "setOptions",
                 "deleteAttribute"}
  BY OneEntry, SideBySide DEF AttributeActions
<1>9. /\ \A k : k \in DOMAIN ShopActions <=>
          k \in {"createShop", "updateShop", "deleteShop"}
      /\ ShopActions["createShop"] = "POST/shops"
      /\ ShopActions["updateShop"] = "PUT/shops/:id"
      /\ ShopActions["deleteShop"] = "DELETE/shops/:id"
  BY OneEntry, SideBySide DEF ShopActions
<1>10. /\ \A k : k \in DOMAIN UserActions <=>
          k \in {"inviteEmployee", "saveAccess", "deleteEmployee"}
      /\ UserActions["inviteEmployee"] = "POST/users/invite"
      /\ UserActions["saveAccess"] = "PUT/users/:id/access"
      /\ UserActions["deleteEmployee"] = "DELETE/users/:id"
  BY OneEntry, SideBySide DEF UserActions
<1>11. /\ \A k : k \in DOMAIN ProfileActions <=>
          k \in {"updateProfile", "changePassword", "deleteAccount"}
      /\ ProfileActions["deleteAccount"] = "DELETE/auth/account"
  BY OneEntry, SideBySide DEF ProfileActions
<1>12. /\ \A k : k \in DOMAIN LayoutAction <=>
          k \in {"saveDashboardLayout"}
  BY OneEntry, SideBySide DEF LayoutAction
<1>13. /\ \A k : k \in DOMAIN ReadAction <=>
          k \in {"markRead"}
  BY OneEntry, SideBySide DEF ReadAction
<1>14. /\ \A k : k \in DOMAIN ExportRelay <=>
          k \in {"export"}
      /\ ExportRelay["export"] = "GET/products/export"
  BY OneEntry, SideBySide DEF ExportRelay
<1>15. RouteOf = third @@ PdfRelay @@ PhotoRelay @@ AttributesRelay
  BY DEF RouteOf
<1>16. /\ \A k : k \in DOMAIN first <=>
            k \in {"createProduct", "createLot", "sellBasket", "changeStatus", "assignShop",
                   "deleteProduct", "updateProduct", "updateSale", "setOnline",
                   "markRemovalDone", "markRemovalsDone", "toggleDepositorPayment",
                   "createContract", "updateContract", "attachProducts", "detachProduct",
                   "deleteContract", "runDeadlines"}
       /\ first["createProduct"] = "POST/products"
       /\ first["createLot"] = "POST/products/lot"
       /\ first["setOnline"] = "PUT/products/:id/online"
       /\ first["markRemovalDone"] = "PUT/products/:id/removal-done"
       /\ first["markRemovalsDone"] = "PUT/products/removals-done"
       /\ first["createContract"] = "POST/deposit-contracts"
       /\ first["runDeadlines"] = "POST/deposit-contracts/deadlines"
  BY <1>1, <1>2, <1>3, <1>4, <1>5, SideBySide
<1> HIDE DEF first
<1>17. /\ \A k : k \in DOMAIN second <=>
            k \in {"createProduct", "createLot", "sellBasket", "changeStatus", "assignShop",
                   "deleteProduct", "updateProduct", "updateSale", "setOnline",
                   "markRemovalDone", "markRemovalsDone", "toggleDepositorPayment",
                   "createContract", "updateContract", "attachProducts", "detachProduct",
                   "deleteContract", "runDeadlines", "createDepositor", "updateDepositor",
                   "deleteDepositor", "createCategory", "updateCategory", "deleteCategory",
                   "setAttributes", "cloneTemplate", "createAttribute", "renameAttribute",
                   "setOptions", "deleteAttribute", "createShop", "updateShop", "deleteShop",
                   "inviteEmployee", "saveAccess", "deleteEmployee"}
       /\ second["createShop"] = "POST/shops"
       /\ second["updateShop"] = "PUT/shops/:id"
       /\ second["deleteShop"] = "DELETE/shops/:id"
       /\ second["inviteEmployee"] = "POST/users/invite"
       /\ second["saveAccess"] = "PUT/users/:id/access"
       /\ second["deleteEmployee"] = "DELETE/users/:id"
       /\ \A k \in DOMAIN first : second[k] = first[k]
  BY <1>16, <1>6, <1>7, <1>8, <1>9, <1>10, SideBySide
<1> HIDE DEF second
<1>18. /\ \A k : k \in DOMAIN third <=>
            k \in {"createProduct", "createLot", "sellBasket", "changeStatus", "assignShop",
                   "deleteProduct", "updateProduct", "updateSale", "setOnline",
                   "markRemovalDone", "markRemovalsDone", "toggleDepositorPayment",
                   "createContract", "updateContract", "attachProducts", "detachProduct",
                   "deleteContract", "runDeadlines", "createDepositor", "updateDepositor",
                   "deleteDepositor", "createCategory", "updateCategory", "deleteCategory",
                   "setAttributes", "cloneTemplate", "createAttribute", "renameAttribute",
                   "setOptions", "deleteAttribute", "createShop", "updateShop", "deleteShop",
                   "inviteEmployee", "saveAccess", "deleteEmployee", "updateProfile",
                   "changePassword", "deleteAccount", "saveDashboardLayout", "markRead",
                   "export"}
       /\ third["deleteAccount"] = "DELETE/auth/account"
       /\ third["export"] = "GET/products/export"
       /\ \A k \in DOMAIN second : third[k] = second[k]
  BY <1>17, <1>11, <1>12, <1>13, <1>14, SideBySide
<1> HIDE DEF third
<1>19. \A k \in DOMAIN third : RouteOf[k] = third[k]
  BY <1>15, SideBySide
<1> QED
  BY <1>16, <1>17, <1>18, <1>19
-----------------------------------------------------------------------------
(* The rights of the company, copied on every shop of the form.            *)

Everywhere(rows, places) ==
  \A perm \in CompanyPermissions : (\E row \in rows : perm \in row.permissions) =>
    \A s \in places : \E row \in rows : row.shop = s /\ perm \in row.permissions

\* What a page is about to store, and what was last stored.
CopiesEverywhere ==
  /\ \A t \in Tabs : Everywhere(tab[t].wanted, tab[t].on)
  /\ \A u \in Users : Everywhere(saved[u], asked[u])

LEMMA ClosedIsEverywhere == Everywhere(Closed.wanted, Closed.on)
  BY DEF Everywhere, Closed

\* Taking a shop off the rows and off the form, or shops off the form, changes nothing.
LEMMA EverywhereLess ==
  ASSUME NEW rows, NEW places, Everywhere(rows, places)
  PROVE  /\ \A less : Everywhere(rows, places \cap less)
         /\ \A s : Everywhere({row \in rows : row.shop # s}, places \ {s})
  BY DEF Everywhere

\* The list that is sent has every right of the company on every shop of the form.
LEMMA ListIsEverywhere ==
  ASSUME NEW u, NEW on, NEW ticked \in [on -> ShopChoices], NEW company \in CompanyChoices
  PROVE  Everywhere(List(u, ticked, company), on)
<1> SUFFICES ASSUME NEW perm \in CompanyPermissions,
                    NEW row \in List(u, ticked, company), perm \in row.permissions,
                    NEW s \in on
             PROVE  \E other \in List(u, ticked, company) :
                      other.shop = s /\ perm \in other.permissions
  BY DEF Everywhere
<1>1. PICK z \in on :
        row = [user |-> u, shop |-> z, permissions |-> ticked[z] \cup company]
  BY DEF List, Row
<1>2. ticked[z] \in ShopChoices
  OBVIOUS
<1>3. perm \in company
  BY <1>1, <1>2, ChoicesAreRights
<1>4. [user |-> u, shop |-> s, permissions |-> ticked[s] \cup company]
        \in List(u, ticked, company)
  BY <1>3 DEF List, Row
<1> QED
  BY <1>3, <1>4

LEMMA InitCopies == Init => CopiesEverywhere
  BY ClosedIsEverywhere DEF Init, Start, CopiesEverywhere, Everywhere

LEMMA SendCopies ==
  ASSUME IInv, CopiesEverywhere, NEW t \in Tabs, Send(t) PROVE CopiesEverywhere'
<1>1. \A o \in Tabs \ {t} : tab'[o] = tab[o]
  BY DEF Send, IInv, Types
<1>2. PICK ticked \in [tab[t].on -> ShopChoices], company \in CompanyChoices :
        tab' = [tab EXCEPT ![t] =
                  IF tab[t].user \in members
                     /\ ShopsOf(List(tab[t].user, ticked, company)) \subseteq shops
                    THEN [@ EXCEPT !.step = "checked",
                                   !.wanted = List(tab[t].user, ticked, company)]
                    ELSE Closed]
  BY DEF Send
<1> DEFINE wanted == List(tab[t].user, ticked, company)
<1>3. Everywhere(wanted, tab[t].on)
  BY ListIsEverywhere
<1>4. \/ tab'[t] = [tab[t] EXCEPT !.step = "checked", !.wanted = wanted]
      \/ tab'[t] = Closed
  BY <1>2 DEF IInv, Types
<1> HIDE DEF wanted
<1>5. tab[t] \in TabType
  BY DEF IInv, Types
<1>6. Everywhere(tab'[t].wanted, tab'[t].on)
  <2>1. CASE tab'[t] = Closed
    BY <2>1, ClosedIsEverywhere
  <2>2. CASE tab'[t] = [tab[t] EXCEPT !.step = "checked", !.wanted = wanted]
    <3>1. tab'[t].wanted = wanted /\ tab'[t].on = tab[t].on
      BY <1>5, <2>2 DEF TabType
    <3> QED
      BY <1>3, <3>1
  <2> QED
    BY <1>4, <2>1, <2>2
<1>7. \A o \in Tabs : Everywhere(tab'[o].wanted, tab'[o].on)
  BY <1>1, <1>6 DEF CopiesEverywhere
<1> QED
  BY <1>7 DEF CopiesEverywhere, Send

LEMMA ClearCopies ==
  ASSUME IInv, CopiesEverywhere, NEW t \in Tabs, Clear(t) PROVE CopiesEverywhere'
<1>1. ASSUME NEW o \in Tabs
      PROVE  tab'[o].wanted = tab[o].wanted /\ tab'[o].on = tab[o].on
  <2>1. tab[o] \in TabType
    BY DEF IInv, Types
  <2>2. \/ tab'[o] = [tab[o] EXCEPT !.step = "cleared", !.seen = RowsItSees(t),
                                    !.met = \E z \in Tabs : Meets(t, z)]
        \/ tab'[o] = [tab[o] EXCEPT !.met = TRUE]
        \/ tab'[o] = tab[o]
    BY DEF Clear
  <2> QED
    BY <2>1, <2>2 DEF TabType
<1> QED
  BY <1>1 DEF CopiesEverywhere, Clear

LEMMA StoreCopies ==
  ASSUME IInv, CopiesEverywhere, NEW t \in Tabs, Store(t) PROVE CopiesEverywhere'
<1> DEFINE u == tab[t].user
<1>1. tab' = [tab EXCEPT ![t] = Closed]
  BY DEF Store
<1>2. \A o \in Tabs : Everywhere(tab'[o].wanted, tab'[o].on)
  BY <1>1, ClosedIsEverywhere DEF CopiesEverywhere, IInv, Types
<1>3. CASE Insertable(t)
  <2>1. /\ saved' = [saved EXCEPT ![u] = tab[t].wanted]
        /\ asked' = [asked EXCEPT ![u] = tab[t].on \cap shops]
    BY <1>3 DEF Store
  <2>2. Everywhere(tab[t].wanted, tab[t].on \cap shops)
    BY EverywhereLess DEF CopiesEverywhere
  <2>3. \A v \in Users : Everywhere(saved'[v], asked'[v])
    BY <2>1, <2>2 DEF CopiesEverywhere, IInv, Types
  <2> QED
    BY <1>2, <2>3 DEF CopiesEverywhere
<1>4. CASE ~Insertable(t)
  BY <1>2, <1>4 DEF CopiesEverywhere, Store
<1> QED
  BY <1>3, <1>4

LEMMA DeleteEmployeeCopies ==
  ASSUME IInv, CopiesEverywhere, NEW u \in Users, DeleteEmployee(u) PROVE CopiesEverywhere'
<1>1. \A v \in Users : Everywhere(saved'[v], asked'[v])
  BY DEF CopiesEverywhere, DeleteEmployee, IInv, Types, Everywhere
<1> QED
  BY <1>1 DEF CopiesEverywhere, DeleteEmployee

LEMMA DeleteShopCopies ==
  ASSUME IInv, CopiesEverywhere, NEW s \in Shops, DeleteShop(s) PROVE CopiesEverywhere'
<1>1. ASSUME NEW u \in Users PROVE Everywhere(saved'[u], asked'[u])
  <2>1. Everywhere(saved[u], asked[u])
    BY DEF CopiesEverywhere
  <2>2. saved'[u] = {row \in saved[u] : row.shop # s} /\ asked'[u] = asked[u] \ {s}
    BY DEF DeleteShop
  <2>3. Everywhere({row \in saved[u] : row.shop # s}, asked[u] \ {s})
    BY <2>1, EverywhereLess
  <2> QED
    BY <2>2, <2>3
<1> QED
  BY <1>1 DEF CopiesEverywhere, DeleteShop

LEMMA OpenFormCopies ==
  ASSUME IInv, CopiesEverywhere, NEW t \in Tabs, NEW u \in Users, OpenForm(t, u)
  PROVE  CopiesEverywhere'
<1>1. tab' = [tab EXCEPT ![t] = [Closed EXCEPT !.step = "form", !.user = u, !.on = shops]]
  BY DEF OpenForm
<1>2. tab'[t].wanted = {} /\ \A o \in Tabs \ {t} : tab'[o] = tab[o]
  BY <1>1 DEF IInv, Types, Closed
<1>3. \A o \in Tabs : Everywhere(tab'[o].wanted, tab'[o].on)
  BY <1>2 DEF CopiesEverywhere, Everywhere
<1> QED
  BY <1>3 DEF CopiesEverywhere, OpenForm

LEMMA NextCopies == IInv /\ CopiesEverywhere /\ [Next]_vars => CopiesEverywhere'
<1> SUFFICES ASSUME IInv, CopiesEverywhere, [Next]_vars PROVE CopiesEverywhere'
  OBVIOUS
<1>1. CASE UNCHANGED <<tab, saved, asked>>
  BY <1>1 DEF CopiesEverywhere
<1>2. CASE DeleteAccount
  BY <1>2, ClosedIsEverywhere DEF DeleteAccount, CopiesEverywhere, Everywhere
<1>3. ASSUME NEW u \in Users, Register(u) \/ Invite(u) PROVE UNCHANGED <<tab, saved, asked>>
  BY <1>3 DEF Register, Invite
<1>4. ASSUME NEW s \in Shops, CreateShop(s) \/ CountArticles(s)
      PROVE UNCHANGED <<tab, saved, asked>>
  BY <1>4 DEF CreateShop, CountArticles
<1>5. ASSUME NEW s \in Shops \cup {Null}, AssignShop(s) PROVE UNCHANGED <<tab, saved, asked>>
  BY <1>5 DEF AssignShop
<1> QED
  BY <1>1, <1>2, <1>3, <1>4, <1>5, DeleteEmployeeCopies, DeleteShopCopies, OpenFormCopies,
     SendCopies, ClearCopies, StoreCopies DEF Next, vars

\* A right of the company that the last list stored gave somewhere, it gave on every shop
\* there was on its form: setAccess stores what the form of the employees copied.
THEOREM CompanyRightsAreEverywhere == Spec => []CopiesEverywhere
<1> QED
  BY InvariantHolds, InitCopies, NextCopies, PTL DEF Spec

\* A chore is not listed to somebody who cannot mark it done: the scopes of removalScopes,
\* the guards of the route and the row markRemovalDone asks for agree on every shop there
\* was when the rights were last saved.
THEOREM ShownChoresAreDoable == Spec => []ShownChoresCanBeDone
<1>1. ASSUME IInv, CopiesEverywhere PROVE ShownChoresCanBeDone
  <2> DEFINE route == "PUT/products/:id/removal-done"
  <2> SUFFICES ASSUME NEW u \in members \ crossed, NEW s \in ListedRemovals(u),
                      u \in Managers \/ s \in asked[u] \cup {Null}
               PROVE  MayMarkRemovalDone(u, s)
    BY DEF ShownChoresCanBeDone
  <2>1. u \in Users
    BY <1>1 DEF IInv, Types
  <2>2. Accepts(access, u, route, s)
          <=> u \in Managers \/ Holds(access, u, "online.manage", s)
                             \/ Holds(access, u, "products.manage", s)
    BY <2>1, GuardsOf, RuleIs
  <2>3. CASE u \in Managers
    BY <2>2, <2>3 DEF MayMarkRemovalDone, HasShopAccess
  <2>4. CASE u \notin Managers
    <3>1. /\ Everywhere(RowsOf(u), asked[u])
          /\ \A row \in RowsOf(u) : row \in access /\ row.user = u
      BY <1>1, <2>1 DEF CopiesEverywhere, IInv, Whole, RowsOf
    <3>2. CASE s \in DelistScope(u)
      <4>1. PICK held \in RowsOf(u) : "online.manage" \in held.permissions
        BY <2>4, <3>2 DEF DelistScope, hasPermission, RowsOf
      <4>2. "online.manage" \in CompanyPermissions
        BY DEF CompanyPermissions
      <4>3. Holds(access, u, "online.manage", s)
        BY <3>1, <4>1, <4>2 DEF Holds
      <4>4. HasShopAccess(access, u, s)
        BY <2>4, <3>1, <4>1, <4>2 DEF Everywhere, HasShopAccess
      <4> QED
        BY <2>2, <4>3, <4>4 DEF MayMarkRemovalDone
    <3>3. CASE s \in PullScope(u)
      <4>1. PICK row \in RowsOf(u) : /\ s = Null \/ row.shop = s
                                     /\ "products.manage" \in row.permissions
        BY <2>4, <3>3 DEF PullScope
      <4>2. Holds(access, u, "products.manage", s) /\ HasShopAccess(access, u, s)
        BY <3>1, <4>1 DEF Holds, HasShopAccess
      <4> QED
        BY <2>2, <4>2 DEF MayMarkRemovalDone
    <3> QED
      BY <3>2, <3>3 DEF ListedRemovals
  <2> QED
    BY <2>3, <2>4
<1> QED
  BY <1>1, InvariantHolds, CompanyRightsAreEverywhere, PTL
-----------------------------------------------------------------------------
(* What is shown behind a right.                                           *)

\* Where the guard looks for no shop, it asks what the session shows.
LEMMA AtNoShop ==
  \A u, perm : (u \in Managers \/ Holds(access, u, perm, Null)) <=> hasPermission(access, u, perm)
  BY DEF Holds, hasPermission

\* Who passes a gate: "manager" is no permission a row may have.
LEMMA Gates ==
  ASSUME access \in SUBSET AccessRows, NEW u
  PROVE  /\ Passes(access, u, {})
         /\ Passes(access, u, ForManager) <=> u \in Managers
         /\ \A p : Passes(access, u, {p}) <=> hasPermission(access, u, p)
         /\ \A p, q : Passes(access, u, {p, q})
                        <=> hasPermission(access, u, p) \/ hasPermission(access, u, q)
<1>1. hasPermission(access, u, "manager") <=> u \in Managers
  BY DEF hasPermission, AccessRows, AllPermissions
<1> QED
  BY <1>1 DEF Passes, ForManager, hasPermission

\* The guards of the routes the screens call, for a request that names no shop.
LEMMA Opens ==
  ASSUME NEW u \in Users
  PROVE  /\ \A r \in {"GET/auth/me", "GET/notifications", "GET/stats/dashboard",
                      "GET/stats/layout", "GET/statuses", "GET/categories",
                      "GET/categories/tree", "GET/attributes", "GET/attributes/templates",
                      "GET/shops"} : \A s : Accepts(access, u, r, s)
         /\ \A r \in {"GET/users", "POST/users/invite", "PUT/users/:id/access",
                      "DELETE/users/:id", "POST/shops", "PUT/shops/:id", "DELETE/shops/:id",
                      "DELETE/auth/account", "POST/deposit-contracts/deadlines"} : \A s :
              Accepts(access, u, r, s) <=> u \in Managers
         /\ Accepts(access, u, "GET/products", Null) <=> hasPermission(access, u, "products.view")
         /\ Accepts(access, u, "GET/products/export", Null)
              <=> hasPermission(access, u, "export.csv")
         /\ \A r \in {"POST/products", "POST/products/lot"} :
              Accepts(access, u, r, Null) <=> hasPermission(access, u, "products.manage")
         /\ Accepts(access, u, "PUT/products/:id/online", Null)
              <=> hasPermission(access, u, "online.manage")
         /\ \A r \in {"GET/deposit-contracts", "GET/deposit-contracts/:id"} :
              Accepts(access, u, r, Null) <=> hasPermission(access, u, "deposits.manage")
         /\ Accepts(access, u, "POST/deposit-contracts", Null)
              <=> /\ hasPermission(access, u, "deposits.manage")
                  /\ hasPermission(access, u, "products.manage")
         /\ \A r \in {"GET/products/removals", "PUT/products/:id/removal-done",
                      "PUT/products/removals-done"} :
              Accepts(access, u, r, Null)
                <=> \/ hasPermission(access, u, "online.manage")
                    \/ hasPermission(access, u, "products.manage")
         /\ \A r \in {"GET/depositors", "GET/depositors/:id", "GET/depositors/:id/statement"} :
              Accepts(access, u, r, Null)
                <=> \/ hasPermission(access, u, "depositors.manage")
                    \/ hasPermission(access, u, "deposits.manage")
<1>1. \A r, s : /\ RuleOf[r] = Member => Accepts(access, u, r, s)
                /\ RuleOf[r] = ManagerOnly => (Accepts(access, u, r, s) <=> u \in Managers)
  BY GuardsOf
<1>2. \A r, p : RuleOf[r] = RequirePermission({p}) =>
        (Accepts(access, u, r, Null) <=> hasPermission(access, u, p))
  BY GuardsOf, AtNoShop
<1>3. \A r, p, q : RuleOf[r] = RequirePermission({p, q}) =>
        (Accepts(access, u, r, Null)
           <=> hasPermission(access, u, p) /\ hasPermission(access, u, q))
  BY GuardsOf, AtNoShop
<1>4. \A r, p, q : RuleOf[r] = RequireAnyPermission({p, q}) =>
        (Accepts(access, u, r, Null)
           <=> hasPermission(access, u, p) \/ hasPermission(access, u, q))
  BY GuardsOf, AtNoShop
<1>5. \A r \in {"GET/auth/me", "GET/notifications", "GET/stats/dashboard", "GET/stats/layout",
                "GET/statuses", "GET/categories", "GET/categories/tree", "GET/attributes",
                "GET/attributes/templates", "GET/shops"} : \A s : Accepts(access, u, r, s)
  BY <1>1, RuleIs
<1>6. \A r \in {"GET/users", "POST/users/invite", "PUT/users/:id/access", "DELETE/users/:id",
                "POST/shops", "PUT/shops/:id", "DELETE/shops/:id", "DELETE/auth/account",
                "POST/deposit-contracts/deadlines"} : \A s :
        Accepts(access, u, r, s) <=> u \in Managers
  BY <1>1, RuleIs
<1>7. /\ Accepts(access, u, "GET/products", Null) <=> hasPermission(access, u, "products.view")
      /\ Accepts(access, u, "GET/products/export", Null) <=> hasPermission(access, u, "export.csv")
      /\ \A r \in {"POST/products", "POST/products/lot"} :
           Accepts(access, u, r, Null) <=> hasPermission(access, u, "products.manage")
      /\ Accepts(access, u, "PUT/products/:id/online", Null)
           <=> hasPermission(access, u, "online.manage")
      /\ \A r \in {"GET/deposit-contracts", "GET/deposit-contracts/:id"} :
           Accepts(access, u, r, Null) <=> hasPermission(access, u, "deposits.manage")
  BY <1>2, RuleIs
<1>8. Accepts(access, u, "POST/deposit-contracts", Null)
        <=> /\ hasPermission(access, u, "deposits.manage")
            /\ hasPermission(access, u, "products.manage")
  BY <1>3, RuleIs
<1>9. \A r \in {"GET/products/removals", "PUT/products/:id/removal-done",
                "PUT/products/removals-done"} :
        Accepts(access, u, r, Null)
          <=> \/ hasPermission(access, u, "online.manage")
              \/ hasPermission(access, u, "products.manage")
  BY <1>4, RuleIs
<1>10. \A r \in {"GET/depositors", "GET/depositors/:id", "GET/depositors/:id/statement"} :
         Accepts(access, u, r, Null)
           <=> \/ hasPermission(access, u, "depositors.manage")
               \/ hasPermission(access, u, "deposits.manage")
  BY <1>4, RuleIs
<1> QED
  BY <1>5, <1>6, <1>7, <1>8, <1>9, <1>10

\* A screen is shown to whoever passes its gate and is accepted in what it loads.
LEMMA ShownWhen ==
  ASSUME NEW u \in Users, NEW page, NEW s,
         Passes(access, u, ScreenAt[page].gate),
         \A r \in ScreenAt[page].loads \cup ScreenAt[page].asks : Accepts(access, u, r, s)
  PROVE  Outcome(access, u, page, s) = "shown"
<1>1. u # Null
  BY SomebodyManages
<1>2. \A r \in FrameLoads : Accepts(access, u, r, s)
  BY Opens DEF FrameLoads
<1> QED
  BY <1>1, <1>2 DEF Outcome, Refused

\* What each screen asks of whoever opens it, and loads.
LEMMA NeedsOf ==
  /\ ScreenAt["/dashboard"].gate = {}
  /\ ScreenAt["/dashboard"].loads \cup ScreenAt["/dashboard"].asks
       = {"GET/stats/dashboard", "GET/statuses", "GET/stats/layout"}
  /\ ScreenAt["/products"].gate = {}
  /\ ScreenAt["/products"].loads \cup ScreenAt["/products"].asks
       = {"GET/shops", "GET/categories", "GET/statuses", "GET/products"}
  /\ ScreenAt["/products/new"].gate = {"products.manage"}
  /\ ScreenAt["/products/new"].loads \cup ScreenAt["/products/new"].asks
       = {"GET/categories/tree", "GET/shops"}
  /\ ScreenAt["/products/lot"].gate = {"products.manage"}
  /\ ScreenAt["/products/lot"].loads \cup ScreenAt["/products/lot"].asks
       = {"GET/categories/tree", "GET/shops", "GET/attributes"}
  /\ ScreenAt["/products/:id"].gate = {}
  /\ ScreenAt["/products/:id"].loads \cup ScreenAt["/products/:id"].asks
       = SheetLoads
  /\ ScreenAt["/products/:id/edit"].gate = {}
  /\ ScreenAt["/products/:id/edit"].loads \cup ScreenAt["/products/:id/edit"].asks
       = SheetLoads
  /\ ScreenAt["/removals"].gate = {"online.manage", "products.manage"}
  /\ ScreenAt["/removals"].loads \cup ScreenAt["/removals"].asks
       = {"GET/products/removals"}
  /\ ScreenAt["/deposit-contracts"].gate = {}
  /\ ScreenAt["/deposit-contracts"].loads \cup ScreenAt["/deposit-contracts"].asks
       = {"GET/deposit-contracts", "GET/depositors"}
  /\ ScreenAt["/deposit-contracts/:id"].gate = {}
  /\ ScreenAt["/deposit-contracts/:id"].loads \cup ScreenAt["/deposit-contracts/:id"].asks
       = {"GET/deposit-contracts/:id"}
  /\ ScreenAt["/deposit-contracts/new"].gate = {"products.manage"}
  /\ ScreenAt["/deposit-contracts/new"].loads \cup ScreenAt["/deposit-contracts/new"].asks
       = {"GET/categories/tree", "GET/shops", "GET/attributes", "GET/depositors"}
  /\ ScreenAt["/depositors"].gate = {}
  /\ ScreenAt["/depositors"].loads \cup ScreenAt["/depositors"].asks
       = {"GET/depositors"}
  /\ ScreenAt["/depositors/:id"].gate = {}
  /\ ScreenAt["/depositors/:id"].loads \cup ScreenAt["/depositors/:id"].asks
       = {"GET/depositors/:id", "GET/depositors/:id/statement"}
  /\ ScreenAt["/categories"].gate = {}
  /\ ScreenAt["/categories"].loads \cup ScreenAt["/categories"].asks
       = {"GET/categories/tree", "GET/attributes"}
  /\ ScreenAt["/attributes"].gate = {}
  /\ ScreenAt["/attributes"].loads \cup ScreenAt["/attributes"].asks
       = {"GET/attributes", "GET/attributes/templates", "GET/categories/tree"}
  /\ ScreenAt["/shops"].gate = {}
  /\ ScreenAt["/shops"].loads \cup ScreenAt["/shops"].asks
       = {"GET/shops"}
  /\ ScreenAt["/users"].gate = ForManager
  /\ ScreenAt["/users"].loads \cup ScreenAt["/users"].asks
       = {"GET/users", "GET/shops"}
  /\ ScreenAt["/profile"].gate = {}
  /\ ScreenAt["/profile"].loads \cup ScreenAt["/profile"].asks
       = {}
<1> USE ScreenIs, OneEntry DEF Screen
<1>1. /\ ScreenAt["/dashboard"].gate = {}
     /\ ScreenAt["/dashboard"].loads \cup ScreenAt["/dashboard"].asks
          = {"GET/stats/dashboard", "GET/statuses", "GET/stats/layout"}
  BY DEF Dashboard
<1>2. /\ ScreenAt["/products"].gate = {}
     /\ ScreenAt["/products"].loads \cup ScreenAt["/products"].asks
          = {"GET/shops", "GET/categories", "GET/statuses", "GET/products"}
  BY DEF ProductsScreen
<1>3. /\ ScreenAt["/products/new"].gate = {"products.manage"}
     /\ ScreenAt["/products/new"].loads \cup ScreenAt["/products/new"].asks
          = {"GET/categories/tree", "GET/shops"}
  BY DEF NewProductScreen
<1>4. /\ ScreenAt["/products/lot"].gate = {"products.manage"}
     /\ ScreenAt["/products/lot"].loads \cup ScreenAt["/products/lot"].asks
          = {"GET/categories/tree", "GET/shops", "GET/attributes"}
  BY DEF LotScreen
<1>5. /\ ScreenAt["/products/:id"].gate = {}
     /\ ScreenAt["/products/:id"].loads \cup ScreenAt["/products/:id"].asks
          = SheetLoads
  BY DEF ProductScreen
<1>6. /\ ScreenAt["/products/:id/edit"].gate = {}
     /\ ScreenAt["/products/:id/edit"].loads \cup ScreenAt["/products/:id/edit"].asks
          = SheetLoads
  BY DEF EditScreen
<1>7. /\ ScreenAt["/removals"].gate = {"online.manage", "products.manage"}
     /\ ScreenAt["/removals"].loads \cup ScreenAt["/removals"].asks
          = {"GET/products/removals"}
  BY DEF RemovalsScreen
<1>8. /\ ScreenAt["/deposit-contracts"].gate = {}
     /\ ScreenAt["/deposit-contracts"].loads \cup ScreenAt["/deposit-contracts"].asks
          = {"GET/deposit-contracts", "GET/depositors"}
  BY DEF ContractsScreen
<1>9. /\ ScreenAt["/deposit-contracts/:id"].gate = {}
     /\ ScreenAt["/deposit-contracts/:id"].loads \cup ScreenAt["/deposit-contracts/:id"].asks
          = {"GET/deposit-contracts/:id"}
  BY DEF ContractScreen
<1>10. /\ ScreenAt["/deposit-contracts/new"].gate = {"products.manage"}
      /\ ScreenAt["/deposit-contracts/new"].loads \cup ScreenAt["/deposit-contracts/new"].asks
          = {"GET/categories/tree", "GET/shops", "GET/attributes", "GET/depositors"}
  BY DEF NewContractScreen
<1>11. /\ ScreenAt["/depositors"].gate = {}
      /\ ScreenAt["/depositors"].loads \cup ScreenAt["/depositors"].asks
          = {"GET/depositors"}
  BY DEF DepositorsScreen
<1>12. /\ ScreenAt["/depositors/:id"].gate = {}
      /\ ScreenAt["/depositors/:id"].loads \cup ScreenAt["/depositors/:id"].asks
          = {"GET/depositors/:id", "GET/depositors/:id/statement"}
  BY DEF DepositorScreen
<1>13. /\ ScreenAt["/categories"].gate = {}
      /\ ScreenAt["/categories"].loads \cup ScreenAt["/categories"].asks
          = {"GET/categories/tree", "GET/attributes"}
  BY DEF CategoriesScreen
<1>14. /\ ScreenAt["/attributes"].gate = {}
      /\ ScreenAt["/attributes"].loads \cup ScreenAt["/attributes"].asks
          = {"GET/attributes", "GET/attributes/templates", "GET/categories/tree"}
  BY DEF AttributesScreen
<1>15. /\ ScreenAt["/shops"].gate = {}
      /\ ScreenAt["/shops"].loads \cup ScreenAt["/shops"].asks
          = {"GET/shops"}
  BY DEF ShopsScreen
<1>16. /\ ScreenAt["/users"].gate = ForManager
      /\ ScreenAt["/users"].loads \cup ScreenAt["/users"].asks
          = {"GET/users", "GET/shops"}
  BY DEF UsersScreen
<1>17. /\ ScreenAt["/profile"].gate = {}
      /\ ScreenAt["/profile"].loads \cup ScreenAt["/profile"].asks
          = {}
  BY DEF ProfileScreen
<1> QED
  BY <1>1, <1>2, <1>3, <1>4, <1>5, <1>6, <1>7, <1>8, <1>9, <1>10, <1>11, <1>12, <1>13, <1>14,
     <1>15, <1>16, <1>17

\* The screens with no gate, shown to any member: what they load is for any session.
LEMMA OpenScreens ==
  ASSUME access \in SUBSET AccessRows, NEW u \in Users
  PROVE  \A page \in {"/dashboard", "/categories", "/attributes", "/shops", "/profile"} :
           Outcome(access, u, page, Null) = "shown"
<1>1. Outcome(access, u, "/dashboard", Null) = "shown"
  <2>1. ScreenAt["/dashboard"].gate = {} /\ Passes(access, u, {})
    BY NeedsOf, Gates
  <2>2. \A r \in ScreenAt["/dashboard"].loads \cup ScreenAt["/dashboard"].asks :
          Accepts(access, u, r, Null)
    BY NeedsOf, Opens
  <2> QED
    BY <2>1, <2>2, ShownWhen
<1>2. Outcome(access, u, "/categories", Null) = "shown"
  <2>1. ScreenAt["/categories"].gate = {} /\ Passes(access, u, {})
    BY NeedsOf, Gates
  <2>2. \A r \in ScreenAt["/categories"].loads \cup ScreenAt["/categories"].asks :
          Accepts(access, u, r, Null)
    BY NeedsOf, Opens
  <2> QED
    BY <2>1, <2>2, ShownWhen
<1>3. Outcome(access, u, "/attributes", Null) = "shown"
  <2>1. ScreenAt["/attributes"].gate = {} /\ Passes(access, u, {})
    BY NeedsOf, Gates
  <2>2. \A r \in ScreenAt["/attributes"].loads \cup ScreenAt["/attributes"].asks :
          Accepts(access, u, r, Null)
    BY NeedsOf, Opens
  <2> QED
    BY <2>1, <2>2, ShownWhen
<1>4. Outcome(access, u, "/shops", Null) = "shown"
  <2>1. ScreenAt["/shops"].gate = {} /\ Passes(access, u, {})
    BY NeedsOf, Gates
  <2>2. \A r \in ScreenAt["/shops"].loads \cup ScreenAt["/shops"].asks :
          Accepts(access, u, r, Null)
    BY NeedsOf, Opens
  <2> QED
    BY <2>1, <2>2, ShownWhen
<1>5. Outcome(access, u, "/profile", Null) = "shown"
  <2>1. ScreenAt["/profile"].gate = {} /\ Passes(access, u, {})
    BY NeedsOf, Gates
  <2>2. \A r \in ScreenAt["/profile"].loads \cup ScreenAt["/profile"].asks :
          Accepts(access, u, r, Null)
    BY NeedsOf, Opens
  <2> QED
    BY <2>1, <2>2, ShownWhen
<1> QED
  BY <1>1, <1>2, <1>3, <1>4, <1>5

\* The screens of the menu that are behind a right, and those they lead to.
LEMMA GatedScreens ==
  ASSUME access \in SUBSET AccessRows, NEW u \in Users
  PROVE  /\ hasPermission(access, u, "products.view") =>
              Outcome(access, u, "/products", Null) = "shown"
         /\ \/ hasPermission(access, u, "online.manage")
            \/ hasPermission(access, u, "products.manage")
            => Outcome(access, u, "/removals", Null) = "shown"
         /\ hasPermission(access, u, "deposits.manage") =>
              /\ Outcome(access, u, "/deposit-contracts", Null) = "shown"
              /\ Outcome(access, u, "/deposit-contracts/:id", Null) = "shown"
         /\ hasPermission(access, u, "depositors.manage") =>
              /\ Outcome(access, u, "/depositors", Null) = "shown"
              /\ Outcome(access, u, "/depositors/:id", Null) = "shown"
         /\ u \in Managers => Outcome(access, u, "/users", Null) = "shown"
<1>1. ASSUME hasPermission(access, u, "products.view")
      PROVE  Outcome(access, u, "/products", Null) = "shown"
  <2>1. ScreenAt["/products"].gate = {} /\ Passes(access, u, {})
    BY <1>1, NeedsOf, Gates
  <2>2. \A r \in ScreenAt["/products"].loads \cup ScreenAt["/products"].asks :
          Accepts(access, u, r, Null)
    BY <1>1, NeedsOf, Opens
  <2> QED
    BY <2>1, <2>2, ShownWhen
<1>2. ASSUME \/ hasPermission(access, u, "online.manage")
             \/ hasPermission(access, u, "products.manage")
      PROVE  Outcome(access, u, "/removals", Null) = "shown"
  <2>1. /\ ScreenAt["/removals"].gate = {"online.manage", "products.manage"}
        /\ Passes(access, u, {"online.manage", "products.manage"})
    BY <1>2, NeedsOf, Gates
  <2>2. \A r \in ScreenAt["/removals"].loads \cup ScreenAt["/removals"].asks :
          Accepts(access, u, r, Null)
    BY <1>2, NeedsOf, Opens
  <2> QED
    BY <2>1, <2>2, ShownWhen
<1>3. ASSUME hasPermission(access, u, "deposits.manage")
      PROVE  Outcome(access, u, "/deposit-contracts", Null) = "shown"
  <2>1. ScreenAt["/deposit-contracts"].gate = {} /\ Passes(access, u, {})
    BY <1>3, NeedsOf, Gates
  <2>2. \A r \in ScreenAt["/deposit-contracts"].loads \cup ScreenAt["/deposit-contracts"].asks :
          Accepts(access, u, r, Null)
    BY <1>3, NeedsOf, Opens
  <2> QED
    BY <2>1, <2>2, ShownWhen
<1>4. ASSUME hasPermission(access, u, "deposits.manage")
      PROVE  Outcome(access, u, "/deposit-contracts/:id", Null) = "shown"
  <2>1. ScreenAt["/deposit-contracts/:id"].gate = {} /\ Passes(access, u, {})
    BY <1>4, NeedsOf, Gates
  <2>2. \A r \in ScreenAt["/deposit-contracts/:id"].loads
                   \cup ScreenAt["/deposit-contracts/:id"].asks :
          Accepts(access, u, r, Null)
    BY <1>4, NeedsOf, Opens
  <2> QED
    BY <2>1, <2>2, ShownWhen
<1>5. ASSUME hasPermission(access, u, "depositors.manage")
      PROVE  Outcome(access, u, "/depositors", Null) = "shown"
  <2>1. ScreenAt["/depositors"].gate = {} /\ Passes(access, u, {})
    BY <1>5, NeedsOf, Gates
  <2>2. \A r \in ScreenAt["/depositors"].loads \cup ScreenAt["/depositors"].asks :
          Accepts(access, u, r, Null)
    BY <1>5, NeedsOf, Opens
  <2> QED
    BY <2>1, <2>2, ShownWhen
<1>6. ASSUME hasPermission(access, u, "depositors.manage")
      PROVE  Outcome(access, u, "/depositors/:id", Null) = "shown"
  <2>1. ScreenAt["/depositors/:id"].gate = {} /\ Passes(access, u, {})
    BY <1>6, NeedsOf, Gates
  <2>2. \A r \in ScreenAt["/depositors/:id"].loads \cup ScreenAt["/depositors/:id"].asks :
          Accepts(access, u, r, Null)
    BY <1>6, NeedsOf, Opens
  <2> QED
    BY <2>1, <2>2, ShownWhen
<1>7. ASSUME u \in Managers
      PROVE  Outcome(access, u, "/users", Null) = "shown"
  <2>1. ScreenAt["/users"].gate = ForManager /\ Passes(access, u, ForManager)
    BY <1>7, NeedsOf, Gates
  <2>2. \A r \in ScreenAt["/users"].loads \cup ScreenAt["/users"].asks :
          Accepts(access, u, r, Null)
    BY <1>7, NeedsOf, Opens
  <2> QED
    BY <2>1, <2>2, ShownWhen
<1> QED
  BY <1>1, <1>2, <1>3, <1>4, <1>5, <1>6, <1>7

\* The forms behind the right to handle products.
LEMMA FormScreens ==
  ASSUME access \in SUBSET AccessRows, NEW u \in Users, hasPermission(access, u, "products.manage")
  PROVE  /\ Outcome(access, u, "/products/new", Null) = "shown"
         /\ Outcome(access, u, "/products/lot", Null) = "shown"
         /\ hasPermission(access, u, "deposits.manage") =>
              Outcome(access, u, "/deposit-contracts/new", Null) = "shown"
<1>1. Outcome(access, u, "/products/new", Null) = "shown"
  <2>1. /\ ScreenAt["/products/new"].gate = {"products.manage"}
        /\ Passes(access, u, {"products.manage"})
    BY NeedsOf, Gates
  <2>2. \A r \in ScreenAt["/products/new"].loads \cup ScreenAt["/products/new"].asks :
          Accepts(access, u, r, Null)
    BY NeedsOf, Opens
  <2> QED
    BY <2>1, <2>2, ShownWhen
<1>2. Outcome(access, u, "/products/lot", Null) = "shown"
  <2>1. /\ ScreenAt["/products/lot"].gate = {"products.manage"}
        /\ Passes(access, u, {"products.manage"})
    BY NeedsOf, Gates
  <2>2. \A r \in ScreenAt["/products/lot"].loads \cup ScreenAt["/products/lot"].asks :
          Accepts(access, u, r, Null)
    BY NeedsOf, Opens
  <2> QED
    BY <2>1, <2>2, ShownWhen
<1>3. ASSUME hasPermission(access, u, "deposits.manage")
      PROVE  Outcome(access, u, "/deposit-contracts/new", Null) = "shown"
  <2>1. /\ ScreenAt["/deposit-contracts/new"].gate = {"products.manage"}
        /\ Passes(access, u, {"products.manage"})
    BY <1>3, NeedsOf, Gates
  <2>2. \A r \in ScreenAt["/deposit-contracts/new"].loads
                   \cup ScreenAt["/deposit-contracts/new"].asks :
          Accepts(access, u, r, Null)
    BY <1>3, NeedsOf, Opens
  <2> QED
    BY <2>1, <2>2, ShownWhen
<1> QED
  BY <1>1, <1>2, <1>3

\* What is seen of some doors, and offered among them.
Through(u, doors) == {door.to : door \in {d \in doors : Passes(access, u, d.gate)}}
Offered(u, doors) ==
  {door.to : door \in {d \in doors : d.gate # {} /\ Passes(access, u, d.gate)}}

LEMMA ThroughIs ==
  ASSUME NEW u
  PROVE  /\ \A gate, doors, x : x \in Through(u, Behind(gate, doors))
                                   <=> x \in doors /\ Passes(access, u, gate)
         /\ \A doors, x : x \in Through(u, Open(doors)) => x \in doors
         /\ \A one, other, x : x \in Through(u, one \cup other)
                                  <=> x \in Through(u, one) \/ x \in Through(u, other)
         /\ \A x : x \notin Through(u, {})
<1>1. \A gate, doors, x : x \in Through(u, Behind(gate, doors))
                             <=> x \in doors /\ Passes(access, u, gate)
  <2> SUFFICES ASSUME NEW gate, NEW doors, NEW x
               PROVE  x \in Through(u, Behind(gate, doors))
                        <=> x \in doors /\ Passes(access, u, gate)
    OBVIOUS
  <2>1. x \in Through(u, Behind(gate, doors))
          <=> \E door \in Behind(gate, doors) : door.to = x /\ Passes(access, u, door.gate)
    BY DEF Through
  <2>2. \A door : door \in Behind(gate, doors)
                   <=> \E y \in doors : door = [gate |-> gate, to |-> y]
    BY DEF Behind
  <2>3. x \in doors => [gate |-> gate, to |-> x] \in Behind(gate, doors)
    BY <2>2
  <2> QED
    BY <2>1, <2>2, <2>3
<1>2. \A one, other, x : x \in Through(u, one \cup other)
                            <=> x \in Through(u, one) \/ x \in Through(u, other)
  BY DEF Through
<1>3. \A x : x \notin Through(u, {})
  BY DEF Through
<1> QED
  BY <1>1, <1>2, <1>3 DEF Open

LEMMA OfferedIs ==
  ASSUME NEW u
  PROVE  /\ \A gate, doors, x : x \in Offered(u, Behind(gate, doors))
                                   <=> gate # {} /\ x \in doors /\ Passes(access, u, gate)
         /\ \A doors, x : x \notin Offered(u, Open(doors))
         /\ \A one, other, x : x \in Offered(u, one \cup other)
                                  <=> x \in Offered(u, one) \/ x \in Offered(u, other)
<1>1. \A gate, doors, x : x \in Offered(u, Behind(gate, doors))
                             <=> gate # {} /\ x \in doors /\ Passes(access, u, gate)
  <2> SUFFICES ASSUME NEW gate, NEW doors, NEW x
               PROVE  x \in Offered(u, Behind(gate, doors))
                        <=> gate # {} /\ x \in doors /\ Passes(access, u, gate)
    OBVIOUS
  <2>1. x \in Offered(u, Behind(gate, doors))
          <=> \E door \in Behind(gate, doors) :
                door.to = x /\ door.gate # {} /\ Passes(access, u, door.gate)
    BY DEF Offered
  <2>2. \A door : door \in Behind(gate, doors)
                   <=> \E y \in doors : door = [gate |-> gate, to |-> y]
    BY DEF Behind
  <2>3. x \in doors => [gate |-> gate, to |-> x] \in Behind(gate, doors)
    BY <2>2
  <2> QED
    BY <2>1, <2>2, <2>3
<1>2. \A one, other, x : x \in Offered(u, one \cup other)
                            <=> x \in Offered(u, one) \/ x \in Offered(u, other)
  BY DEF Offered
<1> QED
  BY <1>1, <1>2 DEF Open

\* Where each screen of the menu leads, and what every screen lets do.
LEMMA DoorsOf ==
  /\ ScreenAt["/dashboard"].links
       = Behind({"online.manage", "products.manage"}, {"/removals"})
         \cup Behind({"online.manage", "products.manage"} \cup {"stats.view"},
                     {"/products/:id"})
  /\ ScreenAt["/categories"].links = {}
  /\ ScreenAt["/attributes"].links = {}
  /\ ScreenAt["/shops"].links = {}
  /\ ScreenAt["/profile"].links = {}
  /\ ScreenAt["/users"].links = {}
  /\ ScreenAt["/products"].links
       = Behind({"products.manage"}, {"/products/lot", "/products/new"})
         \cup Open({"/products/:id", "/products/:id/edit"})
  /\ ScreenAt["/removals"].links = Open({"/products/:id"})
  /\ ScreenAt["/deposit-contracts"].links
       = Behind({"products.manage"}, {"/deposit-contracts/new"})
         \cup Open({"/deposit-contracts/:id"})
  /\ ScreenAt["/depositors"].links = Open({"/depositors/:id"})
  /\ ScreenAt["/dashboard"].actions
       = RemovalsCard({"online.manage", "products.manage"}) \cup Open({"saveDashboardLayout"})
  /\ ScreenAt["/products"].actions = Behind({"export.csv"}, {"export"}) \cup DetailActions
  /\ ScreenAt["/products/new"].actions = ProductForm({"products.manage"}) \cup PhotoField
  /\ ScreenAt["/products/lot"].actions = LotForm({"products.manage"})
  /\ ScreenAt["/products/:id"].actions = ProductSheet
  /\ ScreenAt["/products/:id/edit"].actions = ProductSheet
  /\ ScreenAt["/removals"].actions = RemovalList({"online.manage", "products.manage"})
  /\ ScreenAt["/deposit-contracts"].actions = DeadlinesButton \cup Open({"pdf"})
  /\ ScreenAt["/deposit-contracts/:id"].actions = ContractManagement \cup Open({"pdf"})
  /\ ScreenAt["/deposit-contracts/new"].actions = ContractForm({"products.manage"})
  /\ ScreenAt["/depositors"].actions = DepositorForms
  /\ ScreenAt["/depositors/:id"].actions = DepositorForms
  /\ ScreenAt["/categories"].actions = CategoryTree \cup CategoryAttributes
  /\ ScreenAt["/attributes"].actions = AttributeForms
  /\ ScreenAt["/shops"].actions = ShopForms
  /\ ScreenAt["/users"].actions = UserForms
  /\ ScreenAt["/profile"].actions = ProfileForms \cup DangerZone
<1> USE ScreenIs, OneEntry DEF Screen
<1>1. /\ ScreenAt["/dashboard"].actions
          = RemovalsCard({"online.manage", "products.manage"})
            \cup Open({"saveDashboardLayout"})
     /\ ScreenAt["/dashboard"].links
          = Behind({"online.manage", "products.manage"}, {"/removals"})
            \cup Behind({"online.manage", "products.manage"} \cup {"stats.view"},
                        {"/products/:id"})
  BY DEF Dashboard
<1>2. /\ ScreenAt["/products"].actions = Behind({"export.csv"}, {"export"}) \cup DetailActions
     /\ ScreenAt["/products"].links
          = Behind({"products.manage"}, {"/products/lot", "/products/new"})
            \cup Open({"/products/:id", "/products/:id/edit"})
  BY DEF ProductsScreen
<1>3. /\ ScreenAt["/products/new"].actions = ProductForm({"products.manage"}) \cup PhotoField
  BY DEF NewProductScreen
<1>4. /\ ScreenAt["/products/lot"].actions = LotForm({"products.manage"})
  BY DEF LotScreen
<1>5. /\ ScreenAt["/products/:id"].actions = ProductSheet
  BY DEF ProductScreen
<1>6. /\ ScreenAt["/products/:id/edit"].actions = ProductSheet
  BY DEF EditScreen
<1>7. /\ ScreenAt["/removals"].actions = RemovalList({"online.manage", "products.manage"})
     /\ ScreenAt["/removals"].links = Open({"/products/:id"})
  BY DEF RemovalsScreen
<1>8. /\ ScreenAt["/deposit-contracts"].actions = DeadlinesButton \cup Open({"pdf"})
     /\ ScreenAt["/deposit-contracts"].links
          = Behind({"products.manage"}, {"/deposit-contracts/new"})
            \cup Open({"/deposit-contracts/:id"})
  BY DEF ContractsScreen
<1>9. /\ ScreenAt["/deposit-contracts/:id"].actions = ContractManagement \cup Open({"pdf"})
  BY DEF ContractScreen
<1>10. /\ ScreenAt["/deposit-contracts/new"].actions = ContractForm({"products.manage"})
  BY DEF NewContractScreen
<1>11. /\ ScreenAt["/depositors"].actions = DepositorForms
      /\ ScreenAt["/depositors"].links = Open({"/depositors/:id"})
  BY DEF DepositorsScreen
<1>12. /\ ScreenAt["/depositors/:id"].actions = DepositorForms
  BY DEF DepositorScreen
<1>13. /\ ScreenAt["/categories"].actions = CategoryTree \cup CategoryAttributes
      /\ ScreenAt["/categories"].links = {}
  BY DEF CategoriesScreen
<1>14. /\ ScreenAt["/attributes"].actions = AttributeForms
      /\ ScreenAt["/attributes"].links = {}
  BY DEF AttributesScreen
<1>15. /\ ScreenAt["/shops"].actions = ShopForms
      /\ ScreenAt["/shops"].links = {}
  BY DEF ShopsScreen
<1>16. /\ ScreenAt["/users"].actions = UserForms
      /\ ScreenAt["/users"].links = {}
  BY DEF UsersScreen
<1>17. /\ ScreenAt["/profile"].actions = ProfileForms \cup DangerZone
      /\ ScreenAt["/profile"].links = {}
  BY DEF ProfileScreen
<1> QED
  BY <1>1, <1>2, <1>3, <1>4, <1>5, <1>6, <1>7, <1>8, <1>9, <1>10, <1>11, <1>12, <1>13, <1>14,
     <1>15, <1>16, <1>17

\* Where the screens of the menu lead.
LEMMA LinksOf ==
  ASSUME access \in SUBSET AccessRows, NEW u
  PROVE  /\ \A page \in {"/categories", "/attributes", "/shops", "/profile", "/users"} :
              Links(u, page) = {}
         /\ \A next \in Links(u, "/dashboard") :
              \/ next \in Sheets
              \/ /\ next = "/removals"
                 /\ \/ hasPermission(access, u, "online.manage")
                    \/ hasPermission(access, u, "products.manage")
         /\ \A next \in Links(u, "/products") :
              \/ next \in Sheets
              \/ /\ next \in {"/products/new", "/products/lot"}
                 /\ hasPermission(access, u, "products.manage")
         /\ Links(u, "/removals") \subseteq Sheets
         /\ \A next \in Links(u, "/deposit-contracts") :
              \/ next = "/deposit-contracts/:id"
              \/ next = "/deposit-contracts/new" /\ hasPermission(access, u, "products.manage")
         /\ Links(u, "/depositors") \subseteq {"/depositors/:id"}
<1>1. \A page : Links(u, page) = Through(u, ScreenAt[page].links)
  BY DEF Links, Through
<1>2. Passes(access, u, {"products.manage"}) <=> hasPermission(access, u, "products.manage")
  BY Gates
<1>3. \A page \in {"/categories", "/attributes", "/shops", "/profile", "/users"} :
        Links(u, page) = {}
  <2>1. \A page \in {"/categories", "/attributes", "/shops", "/profile", "/users"} :
          ScreenAt[page].links = {}
    BY DoorsOf
  <2>2. Through(u, {}) = {}
    BY ThroughIs
  <2> QED
    BY <1>1, <2>1, <2>2
<1>4. ASSUME NEW next \in Links(u, "/products")
      PROVE  \/ next \in Sheets
             \/ /\ next \in {"/products/new", "/products/lot"}
                /\ hasPermission(access, u, "products.manage")
  <2> DEFINE forms == Behind({"products.manage"}, {"/products/lot", "/products/new"})
             read == Open({"/products/:id", "/products/:id/edit"})
  <2>1. ScreenAt["/products"].links = forms \cup read
    BY DoorsOf
  <2>2. next \in Through(u, forms) => /\ next \in {"/products/lot", "/products/new"}
                                     /\ hasPermission(access, u, "products.manage")
    BY <1>2, ThroughIs
  <2>3. next \in Through(u, read) => next \in {"/products/:id", "/products/:id/edit"}
    BY ThroughIs
  <2> HIDE DEF forms, read
  <2>4. next \in Through(u, forms) \/ next \in Through(u, read)
    BY <1>1, <2>1, ThroughIs
  <2> QED
    BY <2>2, <2>3, <2>4 DEF Sheets
<1>5. Links(u, "/removals") \subseteq Sheets
  <2>1. Links(u, "/removals") = Through(u, Open({"/products/:id"}))
    BY <1>1, DoorsOf
  <2> QED
    BY <2>1, ThroughIs DEF Sheets
<1>6. ASSUME NEW next \in Links(u, "/deposit-contracts")
      PROVE  \/ next = "/deposit-contracts/:id"
             \/ next = "/deposit-contracts/new" /\ hasPermission(access, u, "products.manage")
  <2> DEFINE forms == Behind({"products.manage"}, {"/deposit-contracts/new"})
             read == Open({"/deposit-contracts/:id"})
  <2>1. ScreenAt["/deposit-contracts"].links = forms \cup read
    BY DoorsOf
  <2>2. next \in Through(u, forms) => /\ next \in {"/deposit-contracts/new"}
                                     /\ hasPermission(access, u, "products.manage")
    BY <1>2, ThroughIs
  <2>3. next \in Through(u, read) => next \in {"/deposit-contracts/:id"}
    BY ThroughIs
  <2> HIDE DEF forms, read
  <2>4. next \in Through(u, forms) \/ next \in Through(u, read)
    BY <1>1, <2>1, ThroughIs
  <2> QED
    BY <2>2, <2>3, <2>4 DEF Sheets
<1>7. Links(u, "/depositors") \subseteq {"/depositors/:id"}
  <2>1. Links(u, "/depositors") = Through(u, Open({"/depositors/:id"}))
    BY <1>1, DoorsOf
  <2> QED
    BY <2>1, ThroughIs
<1>8. ASSUME NEW next \in Links(u, "/dashboard")
      PROVE  \/ next \in Sheets
             \/ /\ next = "/removals"
                /\ \/ hasPermission(access, u, "online.manage")
                   \/ hasPermission(access, u, "products.manage")
  <2> DEFINE gate == {"online.manage", "products.manage"}
             more == gate \cup {"stats.view"}
             card == Behind(gate, {"/removals"})
             read == Behind(more, {"/products/:id"})
  <2>1. ScreenAt["/dashboard"].links = card \cup read
    BY DoorsOf
  <2>2. Passes(access, u, gate) <=> \/ hasPermission(access, u, "online.manage")
                                   \/ hasPermission(access, u, "products.manage")
    BY Gates
  <2> HIDE DEF gate, more
  <2>3. next \in Through(u, card) => next \in {"/removals"} /\ Passes(access, u, gate)
    BY ThroughIs
  <2>4. next \in Through(u, read) => next \in {"/products/:id"}
    BY ThroughIs
  <2> HIDE DEF card, read
  <2>5. next \in Through(u, card) \/ next \in Through(u, read)
    BY <1>1, <2>1, ThroughIs
  <2> QED
    BY <2>2, <2>3, <2>4, <2>5 DEF Sheets
<1> QED
  BY <1>3, <1>4, <1>5, <1>6, <1>7, <1>8

\* What each screen offers behind a right, the API accepts from whoever is offered it.
LEMMA OffersOf ==
  ASSUME access \in SUBSET AccessRows, NEW u \in Users
  PROVE  /\ \A page \in {"/dashboard", "/products", "/products/new", "/products/lot",
                         "/products/:id", "/products/:id/edit", "/removals",
                         "/deposit-contracts", "/deposit-contracts/:id", "/depositors",
                         "/depositors/:id", "/categories", "/attributes", "/shops", "/users",
                         "/profile"} :
              \A action \in Offers(u, page) : Accepts(access, u, RouteOf[action], Null)
         /\ hasPermission(access, u, "deposits.manage") =>
              \A action \in Offers(u, "/deposit-contracts/new") :
                Accepts(access, u, RouteOf[action], Null)
<1>1. \A page : Offers(u, page) = Offered(u, ScreenAt[page].actions)
  BY DEF Offers, Offered
<1>2. \A page \in {"/deposit-contracts/:id", "/depositors", "/depositors/:id",
                   "/categories", "/attributes"} : Offers(u, page) = {}
  <2>1. \A doors : Offered(u, Open(doors)) = {}
    BY OfferedIs
  <2>2. \A one, other : Offered(u, Open(one) \cup Open(other)) = {}
    BY <2>1, OfferedIs
  <2>4. Offers(u, "/deposit-contracts/:id") = {}
    BY <1>1, <2>2, DoorsOf DEF ContractManagement
  <2>5. Offers(u, "/depositors") = {} /\ Offers(u, "/depositors/:id") = {}
    BY <1>1, <2>1, DoorsOf DEF DepositorForms
  <2>6. Offers(u, "/categories") = {}
    BY <1>1, <2>2, DoorsOf DEF CategoryTree, CategoryAttributes
  <2>7. Offers(u, "/attributes") = {}
    BY <1>1, <2>1, DoorsOf DEF AttributeForms
  <2> QED
    BY <2>4, <2>5, <2>6, <2>7
<1>3. ASSUME NEW action \in Offers(u, "/products")
      PROVE  Accepts(access, u, RouteOf[action], Null)
  <2>1. ScreenAt["/products"].actions = Behind({"export.csv"}, {"export"}) \cup DetailActions
    BY DoorsOf
  <2>2. action \notin Offered(u, DetailActions)
    BY OfferedIs DEF DetailActions
  <2>3. action \in Offered(u, Behind({"export.csv"}, {"export"}))
    BY <1>1, <2>1, <2>2, OfferedIs
  <2>4. action = "export" /\ Passes(access, u, {"export.csv"})
    BY <2>3, OfferedIs
  <2> QED
    BY <2>4, Gates, Opens, RouteIs
<1>4. ASSUME NEW action \in Offers(u, "/products/new")
      PROVE  Accepts(access, u, RouteOf[action], Null)
  <2>1. ScreenAt["/products/new"].actions = ProductForm({"products.manage"}) \cup PhotoField
    BY DoorsOf
  <2>2. action \notin Offered(u, PhotoField)
    BY OfferedIs DEF PhotoField
  <2>3. action \in Offered(u, ProductForm({"products.manage"}))
    BY <1>1, <2>1, <2>2, OfferedIs
  <2>4. action = "createProduct" /\ Passes(access, u, {"products.manage"})
    BY <2>3, OfferedIs DEF ProductForm
  <2> QED
    BY <2>4, Gates, Opens, RouteIs
<1>5. ASSUME NEW action \in Offers(u, "/products/lot")
      PROVE  Accepts(access, u, RouteOf[action], Null)
  <2>1. action \in Offered(u, LotForm({"products.manage"}))
    BY <1>1, DoorsOf
  <2>2. action = "createLot" /\ Passes(access, u, {"products.manage"})
    BY <2>1, OfferedIs DEF LotForm
  <2> QED
    BY <2>2, Gates, Opens, RouteIs
<1>6. ASSUME NEW sheet \in {"/products/:id", "/products/:id/edit"},
             NEW action \in Offers(u, sheet)
      PROVE  Accepts(access, u, RouteOf[action], Null)
  <2>1. ScreenAt[sheet].actions = ProductSheet
    BY DoorsOf
  <2>2. PICK door \in ProductSheet :
          door.to = action /\ door.gate # {} /\ Passes(access, u, door.gate)
    BY <2>1 DEF Offers
  <2>3. \A doors : door \notin Open(doors)
    BY <2>2 DEF Open, Behind
  <2>4. door \in OnlineSale
    BY <2>2, <2>3 DEF ProductSheet, StatusChange, SaleCorrection, DepositorPayment,
                      DetailActions, PendingRemoval, DynamicAttributes
  <2>5. action = "setOnline" /\ Passes(access, u, {"online.manage"})
    BY <2>2, <2>4 DEF OnlineSale, Behind
  <2> QED
    BY <2>5, Gates, Opens, RouteIs
<1>7. ASSUME NEW action \in Offers(u, "/removals")
      PROVE  Accepts(access, u, RouteOf[action], Null)
  <2>1. action \in Offered(u, RemovalList({"online.manage", "products.manage"}))
    BY <1>1, DoorsOf
  <2>2. /\ action \in {"markRemovalDone", "markRemovalsDone"}
        /\ Passes(access, u, {"online.manage", "products.manage"})
    BY <2>1, OfferedIs DEF RemovalList
  <2> QED
    BY <2>2, Gates, Opens, RouteIs
<1>8. ASSUME NEW action \in Offers(u, "/deposit-contracts")
      PROVE  Accepts(access, u, RouteOf[action], Null)
  <2>1. ScreenAt["/deposit-contracts"].actions = DeadlinesButton \cup Open({"pdf"})
    BY DoorsOf
  <2>2. action \in Offered(u, DeadlinesButton) \/ action \in Offered(u, Open({"pdf"}))
    BY <1>1, <2>1, OfferedIs
  <2>3. action \in Offered(u, DeadlinesButton)
    BY <2>2, OfferedIs
  <2>4. action = "runDeadlines" /\ Passes(access, u, ForManager)
    BY <2>3, OfferedIs DEF DeadlinesButton
  <2> QED
    BY <2>4, Gates, Opens, RouteIs
<1>9. ASSUME hasPermission(access, u, "deposits.manage"),
             NEW action \in Offers(u, "/deposit-contracts/new")
      PROVE  Accepts(access, u, RouteOf[action], Null)
  <2>1. action \in Offered(u, ContractForm({"products.manage"}))
    BY <1>1, DoorsOf
  <2>2. action = "createContract" /\ Passes(access, u, {"products.manage"})
    BY <2>1, OfferedIs DEF ContractForm
  <2> QED
    BY <1>9, <2>2, Gates, Opens, RouteIs
<1>10. ASSUME NEW action \in Offers(u, "/shops")
       PROVE  Accepts(access, u, RouteOf[action], Null)
  <2>1. action \in Offered(u, ShopForms)
    BY <1>1, DoorsOf
  <2>2. action \in {"createShop", "updateShop", "deleteShop"} /\ Passes(access, u, ForManager)
    BY <2>1, OfferedIs DEF ShopForms
  <2> QED
    BY <2>2, Gates, Opens, RouteIs
<1>11. ASSUME NEW action \in Offers(u, "/users")
       PROVE  Accepts(access, u, RouteOf[action], Null)
  <2>1. action \in Offered(u, UserForms)
    BY <1>1, DoorsOf
  <2>2. /\ action \in {"inviteEmployee", "saveAccess", "deleteEmployee"}
        /\ Passes(access, u, ForManager)
    BY <2>1, OfferedIs DEF UserForms
  <2> QED
    BY <2>2, Gates, Opens, RouteIs
<1>12. ASSUME NEW action \in Offers(u, "/profile")
       PROVE  Accepts(access, u, RouteOf[action], Null)
  <2>1. ScreenAt["/profile"].actions = ProfileForms \cup DangerZone
    BY DoorsOf
  <2>2. action \notin Offered(u, ProfileForms)
    BY OfferedIs DEF ProfileForms
  <2>3. action \in Offered(u, DangerZone)
    BY <1>1, <2>1, <2>2, OfferedIs
  <2>4. action = "deleteAccount" /\ Passes(access, u, ForManager)
    BY <2>3, OfferedIs DEF DangerZone
  <2> QED
    BY <2>4, Gates, Opens, RouteIs
<1>13. ASSUME NEW action \in Offers(u, "/dashboard")
       PROVE  Accepts(access, u, RouteOf[action], Null)
  <2> DEFINE card == RemovalsCard({"online.manage", "products.manage"})
             layout == Open({"saveDashboardLayout"})
  <2>1. ScreenAt["/dashboard"].actions = card \cup layout
    BY DoorsOf
  <2>2. action \in Offered(u, card) =>
          /\ action \in {"markRemovalDone"}
          /\ Passes(access, u, {"online.manage", "products.manage"})
    BY OfferedIs DEF RemovalsCard
  <2>3. action \notin Offered(u, layout)
    BY OfferedIs
  <2> HIDE DEF card, layout
  <2>4. action \in Offered(u, card)
    BY <1>1, <2>1, <2>3, OfferedIs
  <2> QED
    BY <2>2, <2>4, Gates, Opens, RouteIs
<1> QED
  BY <1>2, <1>3, <1>4, <1>5, <1>6, <1>7, <1>8, <1>9, <1>10, <1>11, <1>12, <1>13

\* Who sees which entry of the menu.
LEMMA MenuOf ==
  ASSUME access \in SUBSET AccessRows, NEW u, NEW page \in Menu(u)
  PROVE  \/ page \in {"/dashboard", "/categories", "/attributes", "/shops", "/profile"}
         \/ page = "/products" /\ hasPermission(access, u, "products.view")
         \/ page = "/depositors" /\ hasPermission(access, u, "depositors.manage")
         \/ page = "/deposit-contracts" /\ hasPermission(access, u, "deposits.manage")
         \/ /\ page = "/removals"
            /\ \/ hasPermission(access, u, "online.manage")
               \/ hasPermission(access, u, "products.manage")
         \/ page = "/users" /\ u \in Managers
<1>1. PICK door \in Navigation : door.to = page /\ Passes(access, u, door.gate)
  BY DEF Menu
<1>2. \A gate, doors : door \in Behind(gate, doors) => door.gate = gate /\ page \in doors
  BY <1>1 DEF Behind
<1>3. CASE door \in Open({"/dashboard", "/categories", "/attributes", "/shops", "/profile"})
  BY <1>2, <1>3 DEF Open
<1>4. CASE door \in Behind({"products.view"}, {"/products"})
  <2>1. page = "/products" /\ Passes(access, u, {"products.view"})
    BY <1>1, <1>2, <1>4
  <2> QED
    BY <2>1, Gates
<1>5. CASE door \in Behind({"depositors.manage"}, {"/depositors"})
  <2>1. page = "/depositors" /\ Passes(access, u, {"depositors.manage"})
    BY <1>1, <1>2, <1>5
  <2> QED
    BY <2>1, Gates
<1>6. CASE door \in Behind({"deposits.manage"}, {"/deposit-contracts"})
  <2>1. page = "/deposit-contracts" /\ Passes(access, u, {"deposits.manage"})
    BY <1>1, <1>2, <1>6
  <2> QED
    BY <2>1, Gates
<1>7. CASE door \in Behind({"online.manage", "products.manage"}, {"/removals"})
  <2>1. page = "/removals" /\ Passes(access, u, {"online.manage", "products.manage"})
    BY <1>1, <1>2, <1>7
  <2> QED
    BY <2>1, Gates
<1>8. CASE door \in Behind(ForManager, {"/users"})
  <2>1. page = "/users" /\ Passes(access, u, ForManager)
    BY <1>1, <1>2, <1>8
  <2> QED
    BY <2>1, Gates
<1> QED
  BY <1>1, <1>3, <1>4, <1>5, <1>6, <1>7, <1>8 DEF Navigation

\* What the session shows on a shop, the guard finds, and a row on that shop with it.
LEMMA OnShop ==
  \A u, perm, s : hasPermissionOnShop(access, u, perm, s) =>
    /\ u \in Managers \/ Holds(access, u, perm, s)
    /\ HasShopAccess(access, u, s)
  BY DEF hasPermissionOnShop, hasPermission, Holds, HasShopAccess

\* The sheet of a listed product opens.
LEMMA SheetsOpen ==
  ASSUME access \in SUBSET AccessRows, NEW u \in Users, "/products" \in Menu(u),
         NEW s \in ListedProducts(u), NEW sheet \in Sheets
  PROVE  Outcome(access, u, sheet, s) = "shown"
<1>1. hasPermission(access, u, "products.view")
  BY MenuOf
<1>2. u \in Managers \/ Holds(access, u, "products.view", s)
  BY <1>1, AtNoShop, OnShop DEF ListedProducts
<1>3. Accepts(access, u, "GET/products/:id", s)
  BY <1>2, GuardsOf, RuleIs
<1>4. \A r \in SheetLoads : Accepts(access, u, r, s)
  BY <1>3, Opens DEF SheetLoads
<1>5. /\ ScreenAt[sheet].gate = {} /\ Passes(access, u, {})
      /\ ScreenAt[sheet].loads \cup ScreenAt[sheet].asks = SheetLoads
  BY NeedsOf, Gates DEF Sheets
<1> QED
  BY <1>4, <1>5, ShownWhen

\* The sale of a counter that is shown goes through the guards and the service.
LEMMA CountersSell ==
  ASSUME NEW u \in Users, NEW s, NEW online \in BOOLEAN, Counter(access, u, s, online)
  PROVE  LET at == IF online THEN Null ELSE s
         IN  /\ Accepts(access, u, "POST/products/sale", at)
             /\ MayTarget(access, u, at, online)
             /\ HasShopAccess(access, u, at)
<1> DEFINE at == IF online THEN Null ELSE s
<1>1. \/ online /\ at = Null /\ (u \in Managers \/ Holds(access, u, "online.manage", Null))
      \/ hasPermissionOnShop(access, u, "products.changeStatus", at)
  BY AtNoShop DEF Counter
<1>2. online => at = Null
  OBVIOUS
<1> HIDE DEF at
<1>3. \/ u \in Managers \/ Holds(access, u, "products.changeStatus", at)
      \/ online /\ Holds(access, u, "online.manage", at)
  BY <1>1, OnShop
<1>4. HasShopAccess(access, u, at)
  BY <1>1, OnShop DEF HasShopAccess
<1>5. Accepts(access, u, "POST/products/sale", at)
  BY <1>3, GuardsOf, RuleIs
<1>6. MayTarget(access, u, at, online)
  BY <1>3 DEF MayTarget
<1> QED
  BY <1>4, <1>5, <1>6 DEF at

\* « Sert uniquement à ne pas proposer ce qui sera refusé »: every entry of the menu opens,
\* every link and every action the screens of the menu show behind a right is accepted, so
\* are the sheet of a listed product and the sale of every counter: what the layout, the
\* pages and the session decide agrees with the guards of the API and with the services.
THEOREM NoDoorIsClosed == Spec => []NoClosedDoor
<1>1. ASSUME Types PROVE NoClosedDoor
  <2>1. access \in SUBSET AccessRows /\ members \subseteq Users
    BY <1>1 DEF Types
  <2>2. ASSUME NEW u \in Users, NEW page \in Menu(u)
        PROVE  /\ Outcome(access, u, page, Null) = "shown"
               /\ \A next \in Links(u, page) \ Sheets : Outcome(access, u, next, Null) = "shown"
               /\ \A seen \in {page} \cup Links(u, page) : \A action \in Offers(u, seen) :
                    Accepts(access, u, RouteOf[action], Null)
    <3>1. CASE page \in {"/categories", "/attributes", "/shops", "/profile"}
      BY <2>1, <3>1, OpenScreens, LinksOf, OffersOf
    <3>2. CASE page = "/products" /\ hasPermission(access, u, "products.view")
      <4>1. \A next \in Links(u, page) \ Sheets :
              /\ next \in {"/products/new", "/products/lot"}
              /\ hasPermission(access, u, "products.manage")
        BY <2>1, <3>2, LinksOf
      <4>2. \A next \in Links(u, page) \ Sheets : Outcome(access, u, next, Null) = "shown"
        BY <2>1, <4>1, FormScreens
      <4>3. \A seen \in {page} \cup Links(u, page) :
              seen \in {"/products", "/products/new", "/products/lot"} \cup Sheets
        BY <3>2, <4>1
      <4>4. \A seen \in {page} \cup Links(u, page) : \A action \in Offers(u, seen) :
              Accepts(access, u, RouteOf[action], Null)
        BY <2>1, <4>3, OffersOf DEF Sheets
      <4> QED
        BY <2>1, <3>2, <4>2, <4>4, GatedScreens
    <3>3. CASE page = "/depositors" /\ hasPermission(access, u, "depositors.manage")
      BY <2>1, <3>3, GatedScreens, LinksOf, OffersOf
    <3>4. CASE page = "/deposit-contracts" /\ hasPermission(access, u, "deposits.manage")
      <4>1. \A next \in Links(u, page) :
              \/ next = "/deposit-contracts/:id"
              \/ /\ next = "/deposit-contracts/new"
                 /\ hasPermission(access, u, "products.manage")
        BY <2>1, <3>4, LinksOf
      <4>2. \A next \in Links(u, page) : Outcome(access, u, next, Null) = "shown"
        BY <2>1, <3>4, <4>1, GatedScreens, FormScreens
      <4>3. \A seen \in {page} \cup Links(u, page) : \A action \in Offers(u, seen) :
              Accepts(access, u, RouteOf[action], Null)
        BY <2>1, <3>4, <4>1, OffersOf
      <4> QED
        BY <2>1, <3>4, <4>2, <4>3, GatedScreens
    <3>5. CASE /\ page = "/removals"
               /\ \/ hasPermission(access, u, "online.manage")
                  \/ hasPermission(access, u, "products.manage")
      <4>1. Links(u, page) \subseteq Sheets
        BY <2>1, <3>5, LinksOf
      <4>2. \A seen \in {page} \cup Links(u, page) : \A action \in Offers(u, seen) :
              Accepts(access, u, RouteOf[action], Null)
        BY <2>1, <3>5, <4>1, OffersOf DEF Sheets
      <4> QED
        BY <2>1, <3>5, <4>1, <4>2, GatedScreens
    <3>6. CASE page = "/users" /\ u \in Managers
      BY <2>1, <3>6, GatedScreens, LinksOf, OffersOf
    <3>7. CASE page = "/dashboard"
      <4>1. \A next \in Links(u, page) \ Sheets : Outcome(access, u, next, Null) = "shown"
        BY <2>1, <3>7, LinksOf, GatedScreens
      <4>2. Links(u, page) \subseteq {"/removals"} \cup Sheets
        BY <2>1, <3>7, LinksOf
      <4>3. \A seen \in {page} \cup Links(u, page) : \A action \in Offers(u, seen) :
              Accepts(access, u, RouteOf[action], Null)
        BY <2>1, <3>7, <4>2, OffersOf DEF Sheets
      <4> QED
        BY <2>1, <3>7, <4>1, <4>3, OpenScreens
    <3> QED
      BY <2>1, <3>1, <3>2, <3>3, <3>4, <3>5, <3>6, <3>7, MenuOf
  <2>3. ASSUME NEW u \in Users
        PROVE  "/products" \in Menu(u) =>
                 \A s \in ListedProducts(u), sheet \in Sheets :
                   Outcome(access, u, sheet, s) = "shown"
    BY <2>1, SheetsOpen
  <2> QED
    BY <2>1, <2>2, <2>3, CountersSell DEF NoClosedDoor
<1>2. IInv => Types
  BY DEF IInv
<1> QED
  BY <1>1, <1>2, InvariantHolds, PTL
=============================================================================
