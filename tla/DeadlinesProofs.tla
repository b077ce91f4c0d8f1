-------------------------- MODULE DeadlinesProofs --------------------------
(***************************************************************************)
(* Theorems about Deadlines, for any number of contracts, depositors, days *)
(* and saves: one edition of a contract is announced once, a mark stands   *)
(* for an alert, and the job takes no contract out of the hands of the     *)
(* manager, for as long as no run held the contract meanwhile.             *)
(***************************************************************************)
EXTENDS Deadlines, TLAPS

CopyType == [id: Contracts, end: Ends, notice: Notices, notified: BOOLEAN, edition: 0 .. MaxSaves]

RunType == [at: Contracts \cup {Null}, todo: SUBSET CopyType]

\* The contract as it now stands.
Now(c) == <<c, contract[c].edition>>

Holds(r, c) == run[r].at = c \/ \E copy \in run[r].todo : copy.id = c

Types ==
  /\ TypeOK
  /\ run \in [Runs -> RunType]
  /\ \A r \in Runs, c \in Contracts : Holds(r, c) => c \in used

\* Editions are numbered as they come, and those to come have no alert.
EditionsInOrder ==
  /\ \A c \in Live : contract[c].edition <= saves
  /\ \A r \in Runs : \A copy \in run[r].todo : copy.edition <= saves
  /\ \A c \in Contracts, n \in 0 .. MaxSaves : c \notin Live \/ n > saves => told[<<c, n>>] = 0

\* A run comes once to a contract; what two runs hold is recorded.
Apart ==
  /\ \A r \in Runs : \A x \in run[r].todo :
       x.id # run[r].at /\ \A y \in run[r].todo : x.id = y.id => x = y
  /\ \A r, s \in Runs : \A x \in run[r].todo, y \in run[s].todo :
       r # s /\ x.id \in Live /\ x.id = y.id /\ x.edition = y.edition => <<x.id, x.edition>> \in raced
  /\ \A r, s \in Runs, c \in Live : r # s /\ Holds(r, c) /\ Holds(s, c) => Now(c) \in raced

\* What is held is what the contract still is.
Faithful ==
  \A r \in Runs, c \in Live : Now(c) \notin raced =>
    /\ \A x \in run[r].todo : x.id = c =>
         x.edition = contract[c].edition /\ x.end = contract[c].end /\ contract[c].status = "ACTIVE"
    /\ run[r].at = c => contract[c].status = "ACTIVE" /\ contract[c].end <= today

\* An edition has one alert at most, and none as long as a run is about to write one.
Alerts ==
  \A c \in Live, n \in 0 .. MaxSaves : <<c, n>> \notin raced =>
    /\ told[<<c, n>>] <= 1
    /\ \A r \in Runs : \A x \in run[r].todo :
         x.id = c /\ x.edition = n /\ ~x.notified => told[<<c, n>>] = 0

\* The mark says whether there is an alert.
Marks ==
  \A c \in Live : Now(c) \notin raced =>
    /\ contract[c].notified => told[Now(c)] > 0
    /\ ~contract[c].notified => told[Now(c)] = 0

IInv == Types /\ EditionsInOrder /\ Apart /\ Faithful /\ Alerts /\ Marks
-----------------------------------------------------------------------------
LEMMA InitHolds == Init => IInv
<1> SUFFICES ASSUME Init PROVE IInv
  OBVIOUS
<1> USE DEF Init
<1>1. Live = {} /\ \A r \in Runs : run[r] = Idle
  BY DEF Live
<1>2. \A r \in Runs : run[r].todo = {} /\ run[r].at = Null
  BY <1>1 DEF Idle
<1>3. Types
  <2>1. TypeOK
    <3>1. today \in Days /\ saves \in 0 .. MaxSaves /\ incidents \in 0 .. MaxIncidents
      BY DaysAreCounted, BoundsAreNat DEF Days
    <3>2. contract \in [Contracts -> Rows \cup {Null}] /\ told \in [Editions -> Nat]
      OBVIOUS
    <3>3. depositors \subseteq Depositors /\ leaving \subseteq depositors /\ Live \subseteq used
          /\ used \subseteq Contracts /\ raced \subseteq Editions
      BY <1>1
    <3>4. \A r \in Runs : run[r].at \in Contracts \cup {Null}
      BY <1>2
    <3>5. fired \in BOOLEAN
      OBVIOUS
    <3> QED
      BY <3>1, <3>2, <3>3, <3>4, <3>5 DEF TypeOK
  <2>2. Idle \in RunType
    BY DEF Idle, RunType
  <2>3. \A r \in Runs, c \in Contracts : ~Holds(r, c)
    BY <1>2, NullIsNoContract DEF Holds
  <2> QED
    BY <2>1, <2>2, <2>3 DEF Types
<1>4. EditionsInOrder /\ Apart
  BY <1>1, <1>2 DEF EditionsInOrder, Apart, Editions
<1>5. Faithful /\ Alerts /\ Marks
  BY <1>1 DEF Faithful, Alerts, Marks
<1> QED
  BY <1>3, <1>4, <1>5 DEF IInv
-----------------------------------------------------------------------------
(* One lemma for each operation.                                           *)

LEMMA CreateKeeps ==
  ASSUME IInv, NEW c \in Contracts, NEW d \in Depositors, NEW end \in Ends, NEW notice \in Notices,
         Create(c, d, end, notice)
  PROVE  IInv'
<1> USE DEF IInv
<1> DEFINE row == [depositor |-> d, end |-> end, notice |-> notice, status |-> "ACTIVE",
                   notified |-> FALSE, edition |-> 0]
<1>1. /\ c \notin used /\ d \in depositors /\ used' = used \cup {c}
      /\ contract' = [contract EXCEPT ![c] = row]
      /\ UNCHANGED <<today, fired, depositors, leaving, run, told, saves, incidents, raced>>
  BY DEF Create
<1>2. row \in Rows /\ row.edition = 0 /\ row.notified = FALSE
  BY BoundsAreNat DEF Rows, Statuses
<1> HIDE DEF row
<1>3. c \notin Live /\ \A r \in Runs : ~Holds(r, c)
  BY <1>1 DEF Types, TypeOK
<1>4. \A o \in Contracts \ {c} : contract'[o] = contract[o] /\ (o \in Live <=> o \in Live')
  BY <1>1 DEF Types, TypeOK, Live
<1>5. contract'[c] = row /\ saves \in Nat
  BY <1>1, BoundsAreNat DEF Types, TypeOK
<1>6. Types'
  <2>1. contract' \in [Contracts -> Rows \cup {Null}]
    BY <1>1, <1>2 DEF Types, TypeOK
  <2>2. Live' \subseteq used'
    BY <1>1, <1>4 DEF Types, TypeOK, Live
  <2> QED
    BY <1>1, <2>1, <2>2 DEF Types, TypeOK, Holds
<1>7. \A n \in 0 .. MaxSaves : told[<<c, n>>] = 0
  BY <1>3 DEF EditionsInOrder
<1>8. EditionsInOrder'
  BY <1>1, <1>2, <1>4, <1>5, <1>7 DEF EditionsInOrder, Live
<1>9. Apart'
  BY <1>1, <1>3, <1>4 DEF Apart, Holds, Now, Live
<1>10. Faithful'
  BY <1>1, <1>3, <1>4 DEF Faithful, Holds, Now, Live
<1>11. Alerts'
  BY <1>1, <1>3, <1>4, <1>7 DEF Alerts, Holds, Live
<1>12. Marks'
  <2>1. told'[<<c, 0>>] = 0
    BY <1>1, <1>7, BoundsAreNat
  <2> QED
    BY <1>1, <1>2, <1>4, <1>5, <2>1 DEF Marks, Now, Live
<1> QED
  BY <1>6, <1>8, <1>9, <1>10, <1>11, <1>12

LEMMA SavedRow ==
  ASSUME NEW old \in Rows, NEW end \in Ends, NEW notice \in Notices, NEW status \in Statuses,
         NEW edition \in 0 .. MaxSaves
  PROVE  LET row == Saved(old, [end |-> end, notice |-> notice, status |-> status, edition |-> edition])
         IN  row \in Rows /\ row.edition = edition /\ ~row.notified
  BY DEF Saved, Rows

LEMMA SaveKeeps ==
  ASSUME IInv, NEW c \in Contracts, NEW end \in Ends, NEW notice \in Notices, NEW status \in Statuses,
         Save(c, end, notice, status)
  PROVE  IInv'
<1> USE DEF IInv
<1> DEFINE row == Saved(contract[c], [end |-> end, notice |-> notice, status |-> status,
                                      edition |-> saves + 1])
<1>1. contract[c] \in Rows /\ c \in Live /\ saves \in Nat /\ saves < MaxSaves /\ saves' = saves + 1
  BY BoundsAreNat DEF Save, Live, Types, TypeOK
<1>2. /\ contract' = [contract EXCEPT ![c] = row]
      /\ UNCHANGED <<today, fired, depositors, leaving, used, run, told, incidents>>
  BY <1>1 DEF Save
<1>3. raced' = IF Held(c) = {} THEN raced ELSE raced \cup {<<c, saves + 1>>}
  BY <1>1 DEF Save
<1>4. row \in Rows /\ row.edition = saves + 1 /\ ~row.notified
  <2>1. saves + 1 \in 0 .. MaxSaves
    BY <1>1, BoundsAreNat
  <2> QED
    BY <1>1, <2>1, SavedRow
<1> HIDE DEF row
<1>5. contract'[c] = row /\ row # Null
  BY <1>1, <1>2, <1>4, NullIsNoRow DEF Types, TypeOK
<1>6. \A o \in Contracts \ {c} : contract'[o] = contract[o] /\ (o \in Live <=> o \in Live')
  BY <1>2 DEF Types, TypeOK, Live
<1>7. Live' = Live
  BY <1>1, <1>5, <1>6 DEF Live
<1>8. raced \subseteq raced' /\ raced' \subseteq raced \cup {<<c, saves + 1>>}
  BY <1>3
<1>9. \A r \in Runs : Holds(r, c) => <<c, saves + 1>> \in raced'
  BY <1>3 DEF Held, Holds
<1>10. Types'
  <2>1. contract' \in [Contracts -> Rows \cup {Null}]
    BY <1>2, <1>4 DEF Types, TypeOK
  <2>2. raced' \subseteq Editions
    BY <1>1, <1>8, BoundsAreNat DEF Types, TypeOK, Editions
  <2> QED
    BY <1>1, <1>2, <1>7, <2>1, <2>2, BoundsAreNat DEF Types, TypeOK, Holds
<1>11. \A n \in 0 .. MaxSaves : n > saves => told[<<c, n>>] = 0
  BY DEF EditionsInOrder
<1>12. EditionsInOrder'
  <2>1. \A o \in Live' : contract'[o].edition <= saves'
    BY <1>1, <1>4, <1>5, <1>6, <1>7 DEF EditionsInOrder, Live, Types, TypeOK, Rows
  <2>2. \A r \in Runs : \A copy \in run'[r].todo : copy.edition <= saves'
    BY <1>1, <1>2 DEF EditionsInOrder, Types, RunType, CopyType
  <2>3. \A o \in Contracts, n \in 0 .. MaxSaves :
          o \notin Live' \/ n > saves' => told'[<<o, n>>] = 0
    BY <1>1, <1>2, <1>7 DEF EditionsInOrder
  <2> QED
    BY <2>1, <2>2, <2>3 DEF EditionsInOrder
<1>13. \A o \in Live \ {c} : Now(o)' = Now(o) /\ (Now(o) \in raced' <=> Now(o) \in raced)
  BY <1>3, <1>6 DEF Now, Live
<1>14. Now(c)' = <<c, saves + 1>>
  BY <1>4, <1>5 DEF Now
<1>15. Apart'
  <2>1. \A r, s \in Runs, o \in Live : r # s /\ Holds(r, o) /\ Holds(s, o) => Now(o)' \in raced'
    BY <1>9, <1>13, <1>14 DEF Apart
  <2> QED
    BY <1>2, <1>7, <1>8, <2>1 DEF Apart, Holds
<1>16. Faithful'
  <2> SUFFICES ASSUME NEW r \in Runs, NEW o \in Live, Now(o)' \notin raced'
               PROVE  /\ \A x \in run[r].todo : x.id = o =>
                           /\ x.edition = contract'[o].edition /\ x.end = contract'[o].end
                           /\ contract'[o].status = "ACTIVE"
                      /\ run[r].at = o => contract'[o].status = "ACTIVE" /\ contract'[o].end <= today
    BY <1>2, <1>7 DEF Faithful
  <2>1. CASE o = c
    BY <1>9, <1>14, <2>1 DEF Holds
  <2>2. CASE o # c
    BY <1>6, <1>13, <2>2 DEF Faithful, Live
  <2> QED
    BY <2>1, <2>2
<1>17. Alerts'
  BY <1>2, <1>7, <1>8 DEF Alerts
<1>18. Marks'
  <2>1. told[<<c, saves + 1>>] = 0
    BY <1>1, <1>11, BoundsAreNat
  <2>2. ~contract'[c].notified /\ told'[Now(c)'] = 0
    BY <1>2, <1>4, <1>5, <1>14, <2>1
  <2>3. ASSUME NEW o \in Live \ {c}, Now(o)' \notin raced'
        PROVE  /\ contract'[o].notified => told'[Now(o)'] > 0
               /\ ~contract'[o].notified => told'[Now(o)'] = 0
    BY <1>2, <1>6, <1>13, <2>3 DEF Marks, Live
  <2> QED
    BY <1>7, <2>2, <2>3 DEF Marks
<1> QED
  BY <1>10, <1>12, <1>15, <1>16, <1>17, <1>18

\* A save that keeps the end hands on what the former edition was told and raced.
LEMMA AdjustKeeps ==
  ASSUME IInv, NEW c \in Contracts, NEW notice \in Notices, NEW status \in Statuses,
         Adjust(c, notice, status)
  PROVE  IInv'
<1> USE DEF IInv
<1> DEFINE row == Adjusted(contract[c], [notice |-> notice, status |-> status, edition |-> saves + 1])
           new == <<c, saves + 1>>
<1>1. contract[c] \in Rows /\ c \in Live /\ saves \in Nat /\ saves < MaxSaves /\ saves' = saves + 1
  BY BoundsAreNat DEF Adjust, Live, Types, TypeOK
<1>2. /\ contract' = [contract EXCEPT ![c] = row]
      /\ told' = [told EXCEPT ![new] = told[Now(c)]]
      /\ UNCHANGED <<today, fired, depositors, leaving, used, run, incidents>>
  BY <1>1 DEF Adjust, Now
<1>3. raced' = IF Held(c) = {} /\ Now(c) \notin raced THEN raced ELSE raced \cup {new}
  BY <1>1 DEF Adjust, Now
<1>4. row \in Rows /\ row.edition = saves + 1 /\ row.notified = contract[c].notified
  <2>1. saves + 1 \in 0 .. MaxSaves
    BY <1>1, BoundsAreNat
  <2> QED
    BY <1>1, <2>1 DEF Adjusted, Rows
<1> HIDE DEF row
<1>5. contract'[c] = row /\ row # Null
  BY <1>1, <1>2, <1>4, NullIsNoRow DEF Types, TypeOK
<1>6. \A o \in Contracts \ {c} : contract'[o] = contract[o] /\ (o \in Live <=> o \in Live')
  BY <1>2 DEF Types, TypeOK, Live
<1>7. Live' = Live
  BY <1>1, <1>5, <1>6 DEF Live
<1>8. raced \subseteq raced' /\ raced' \subseteq raced \cup {new}
  BY <1>3
<1>9. \A r \in Runs : Holds(r, c) => new \in raced'
  BY <1>3 DEF Held, Holds
<1>10. new \in Editions /\ Now(c) \in Editions /\ contract[c].edition \in 0 .. saves
  BY <1>1, BoundsAreNat DEF Editions, Now, EditionsInOrder, Rows
<1>11. /\ told'[new] = told[Now(c)] /\ told' \in [Editions -> Nat]
       /\ \A o \in Contracts, n \in 0 .. MaxSaves : <<o, n>> # new => told'[<<o, n>>] = told[<<o, n>>]
  <2>1. \A o \in Contracts, n \in 0 .. MaxSaves : <<o, n>> \in Editions
    BY DEF Editions
  <2> HIDE DEF new
  <2>2. told \in [Editions -> Nat]
    BY DEF Types, TypeOK
  <2> QED
    BY <1>2, <1>10, <2>1, <2>2
<1>12. Types'
  <2>1. contract' \in [Contracts -> Rows \cup {Null}]
    BY <1>2, <1>4 DEF Types, TypeOK
  <2>2. raced' \subseteq Editions
    BY <1>8, <1>10 DEF Types, TypeOK
  <2> QED
    BY <1>1, <1>2, <1>7, <1>11, <2>1, <2>2, BoundsAreNat DEF Types, TypeOK, Holds
<1>13. EditionsInOrder'
  <2>1. \A o \in Live' : contract'[o].edition <= saves'
    BY <1>1, <1>4, <1>5, <1>6, <1>7 DEF EditionsInOrder, Live, Types, TypeOK, Rows
  <2>2. \A r \in Runs : \A copy \in run'[r].todo : copy.edition <= saves'
    BY <1>1, <1>2 DEF EditionsInOrder, Types, RunType, CopyType
  <2>3. ASSUME NEW o \in Contracts, NEW n \in 0 .. MaxSaves, o \notin Live' \/ n > saves'
        PROVE  told'[<<o, n>>] = 0
    <3>1. <<o, n>> # new /\ (o \notin Live \/ n > saves)
      BY <1>1, <1>7, <2>3
    <3> QED
      BY <1>11, <3>1 DEF EditionsInOrder
  <2> QED
    BY <2>1, <2>2, <2>3 DEF EditionsInOrder
<1>14. \A o \in Live \ {c} : /\ Now(o)' = Now(o) /\ (Now(o) \in raced' <=> Now(o) \in raced)
                             /\ told'[Now(o)'] = told[Now(o)]
  <2> SUFFICES ASSUME NEW o \in Live \ {c}
               PROVE  /\ Now(o)' = Now(o) /\ (Now(o) \in raced' <=> Now(o) \in raced)
                      /\ told'[Now(o)'] = told[Now(o)]
    OBVIOUS
  <2>1. Now(o)' = Now(o) /\ Now(o) # new
    BY <1>6 DEF Now, Live
  <2>2. contract[o].edition \in 0 .. MaxSaves /\ o \in Contracts
    BY DEF Live, Types, TypeOK, Rows
  <2> QED
    BY <1>8, <1>11, <2>1, <2>2 DEF Now
<1>15. Now(c)' = new
  BY <1>4, <1>5 DEF Now
<1>16. Apart'
  <2>1. \A r, s \in Runs, o \in Live : r # s /\ Holds(r, o) /\ Holds(s, o) => Now(o)' \in raced'
    BY <1>9, <1>14, <1>15 DEF Apart
  <2> QED
    BY <1>2, <1>7, <1>8, <2>1 DEF Apart, Holds
<1>17. Faithful'
  <2> SUFFICES ASSUME NEW r \in Runs, NEW o \in Live, Now(o)' \notin raced'
               PROVE  /\ \A x \in run[r].todo : x.id = o =>
                           /\ x.edition = contract'[o].edition /\ x.end = contract'[o].end
                           /\ contract'[o].status = "ACTIVE"
                      /\ run[r].at = o => contract'[o].status = "ACTIVE" /\ contract'[o].end <= today
    BY <1>2, <1>7 DEF Faithful
  <2>1. CASE o = c
    BY <1>9, <1>15, <2>1 DEF Holds
  <2>2. CASE o # c
    BY <1>6, <1>14, <2>2 DEF Faithful, Live
  <2> QED
    BY <2>1, <2>2
<1>18. new \notin raced' => Now(c) \notin raced /\ \A r \in Runs : ~Holds(r, c)
  BY <1>3, <1>9
<1>19. Alerts'
  <2> SUFFICES ASSUME NEW o \in Live, NEW n \in 0 .. MaxSaves, <<o, n>> \notin raced'
               PROVE  /\ told'[<<o, n>>] <= 1
                      /\ \A r \in Runs : \A x \in run[r].todo :
                           x.id = o /\ x.edition = n /\ ~x.notified => told'[<<o, n>>] = 0
    BY <1>2, <1>7 DEF Alerts
  <2>1. CASE <<o, n>> = new
    <3>1. told[Now(c)] <= 1
      BY <1>1, <1>10, <1>18, <2>1, BoundsAreNat DEF Alerts, Now
    <3> QED
      BY <1>11, <1>18, <2>1, <3>1 DEF Holds
  <2>2. CASE <<o, n>> # new
    BY <1>8, <1>11, <2>2 DEF Alerts, Live
  <2> QED
    BY <2>1, <2>2
<1>20. Marks'
  <2>1. ASSUME NEW o \in Live, Now(o)' \notin raced'
        PROVE  /\ contract'[o].notified => told'[Now(o)'] > 0
               /\ ~contract'[o].notified => told'[Now(o)'] = 0
    <3>1. CASE o = c
      BY <1>4, <1>5, <1>11, <1>15, <1>18, <2>1, <3>1 DEF Marks
    <3>2. CASE o # c
      BY <1>6, <1>14, <2>1, <3>2 DEF Marks, Live
    <3> QED
      BY <3>1, <3>2
  <2> QED
    BY <1>7, <2>1 DEF Marks
<1> QED
  BY <1>12, <1>13, <1>16, <1>17, <1>19, <1>20

\* Rows and their alerts go together.
LEMMA WithoutKeeps ==
  ASSUME IInv, NEW S \in SUBSET Live, Without(S), UNCHANGED <<today, fired, used, run, saves, incidents>>,
         depositors' \subseteq Depositors, leaving' \subseteq depositors'
  PROVE  IInv'
<1> USE DEF IInv
<1>1. \A c \in Contracts : contract'[c] = IF c \in S THEN Null ELSE contract[c]
  BY DEF Without
<1>2. Live' = Live \ S /\ \A c \in Live' : contract'[c] = contract[c] /\ c \notin S
  BY <1>1 DEF Live
<1>3. \A c \in Contracts, n \in 0 .. MaxSaves :
        told'[<<c, n>>] = IF c \in S THEN 0 ELSE told[<<c, n>>]
  <2> SUFFICES ASSUME NEW c \in Contracts, NEW n \in 0 .. MaxSaves
               PROVE  told'[<<c, n>>] = IF c \in S THEN 0 ELSE told[<<c, n>>]
    OBVIOUS
  <2>1. <<c, n>> \in Editions /\ <<c, n>>[1] = c
    BY DEF Editions
  <2> QED
    BY <2>1 DEF Without
<1>4. raced' \subseteq raced /\ \A c \in Live', n \in 0 .. MaxSaves : <<c, n>> \in raced' <=> <<c, n>> \in raced
  BY <1>2 DEF Without
<1>5. \A c \in Live' : contract[c].edition \in 0 .. MaxSaves
  BY <1>2 DEF Live, Types, TypeOK, Rows
<1>6. Types'
  <2>1. contract' \in [Contracts -> Rows \cup {Null}] /\ told' \in [Editions -> Nat]
    BY DEF Without, Types, TypeOK
  <2> QED
    BY <1>2, <1>4, <2>1 DEF Types, TypeOK, Holds
<1>7. EditionsInOrder'
  BY <1>2, <1>3 DEF EditionsInOrder
<1>8. \A c \in Live' : Now(c)' = Now(c) /\ (Now(c) \in raced' <=> Now(c) \in raced)
  BY <1>2, <1>4, <1>5 DEF Now
<1>9. Apart'
  <2>1. \A q \in Runs : \A x \in run[q].todo : x.edition \in 0 .. MaxSaves
    BY DEF Types, RunType, CopyType
  <2>2. \A q, t \in Runs : \A x \in run[q].todo, y \in run[t].todo :
          q # t /\ x.id \in Live' /\ x.id = y.id /\ x.edition = y.edition => <<x.id, x.edition>> \in raced'
    BY <1>2, <1>4, <2>1 DEF Apart
  <2>3. \A q, t \in Runs, c \in Live' : q # t /\ Holds(q, c) /\ Holds(t, c) => Now(c)' \in raced'
    BY <1>2, <1>8 DEF Apart
  <2> QED
    BY <2>2, <2>3 DEF Apart, Holds
<1>10. Faithful'
  BY <1>2, <1>8 DEF Faithful
<1>11. Alerts'
  BY <1>2, <1>3, <1>4 DEF Alerts, Live
<1>12. Marks'
  <2>1. \A c \in Live' : told'[Now(c)'] = told[Now(c)]
    BY <1>2, <1>3, <1>5, <1>8 DEF Now, Live
  <2> QED
    BY <1>2, <1>8, <2>1 DEF Marks
<1> QED
  BY <1>6, <1>7, <1>9, <1>10, <1>11, <1>12

LEMMA DeleteKeeps == ASSUME IInv, NEW c \in Contracts, Delete(c) PROVE IInv'
  BY WithoutKeeps DEF Delete, IInv, Types, TypeOK

LEMMA DeleteDepositorKeeps ==
  ASSUME IInv, NEW d \in Depositors, DeleteDepositor(d) PROVE IInv'
<1>1. ContractsOf(d) \in SUBSET Live
  BY DEF ContractsOf
<1>2. depositors' \subseteq Depositors /\ leaving' \subseteq depositors'
  BY DEF DeleteDepositor, IInv, Types, TypeOK
<1> QED
  BY <1>1, <1>2, WithoutKeeps DEF DeleteDepositor

LEMMA CountContractsKeeps ==
  ASSUME IInv, NEW d \in Depositors, CountContracts(d) PROVE IInv'
  BY DEF CountContracts, IInv, Types, TypeOK, Live, Holds, EditionsInOrder, Apart, Faithful,
         Alerts, Marks, Now

\* The list of a run.
LEMMA StartKeeps ==
  ASSUME IInv, NEW r \in Runs, Start(r), fired' \in BOOLEAN, incidents' \in 0 .. MaxIncidents
  PROVE  IInv'
<1> USE DEF IInv
<1>1. run' = [run EXCEPT ![r].todo = {Copy(c) : c \in Listed}] /\ run[r] = Idle
      /\ UNCHANGED <<today, depositors, leaving, contract, used, told, saves>>
  BY DEF Start, IsIdle
<1> DEFINE list == {Copy(c) : c \in Listed}
<1>2. run'[r] = [at |-> Null, todo |-> list] /\ \A s \in Runs \ {r} : run'[s] = run[s]
  BY <1>1 DEF Types, Idle
<1>3. \A x \in list : /\ x.id \in Live /\ contract[x.id] \in Rows
                      /\ contract[x.id].status = "ACTIVE"
                      /\ x.edition = contract[x.id].edition /\ x.end = contract[x.id].end
                      /\ x.notified = contract[x.id].notified
                      /\ x = Copy(x.id)
  BY DEF Copy, Listed, Live, Types, TypeOK
<1>4. list \in SUBSET CopyType
  BY DEF Copy, Listed, Live, Types, TypeOK, CopyType, Rows
<1> HIDE DEF list
<1>5. run'[r].at = Null /\ run'[r].todo = list
  BY <1>2
<1>6. Live' = Live /\ Live \subseteq Contracts /\ Null \notin Live
  BY <1>1, NullIsNoContract DEF Live
<1>7. /\ raced \subseteq raced' /\ raced' \subseteq Editions
      /\ \A c \in Listed : Held(c) # {} => Now(c) \in raced'
  BY DEF Start, Now, Types, TypeOK, Editions, Listed, Live, Rows
<1>8. \A s \in Runs \ {r}, c \in Contracts : Holds(s, c)' = Holds(s, c)
  BY <1>2 DEF Holds
<1>9. \A c \in Live : Holds(r, c)' => c \in Listed /\ \E x \in list : x.id = c
  BY <1>3, <1>5, <1>6 DEF Holds, Listed
<1>10. \A s \in Runs \ {r}, c \in Live : Holds(s, c) /\ c \in Listed => Now(c) \in raced'
  BY <1>7 DEF Held, Holds
<1>11. Types'
  <2>1. run' \in [Runs -> RunType]
    BY <1>1, <1>2, <1>4 DEF Types, RunType
  <2>2. \A s \in Runs, c \in Contracts : Holds(s, c)' => c \in used
    BY <1>3, <1>5, <1>6, <1>8, NullIsNoContract DEF Types, TypeOK, Holds
  <2> QED
    BY <1>1, <1>6, <1>7, <2>1, <2>2 DEF Types, TypeOK, RunType
<1>12. EditionsInOrder'
  BY <1>1, <1>2, <1>3, <1>5, <1>6 DEF EditionsInOrder
<1>13. Apart'
  <2>1. \A s \in Runs : \A x \in run'[s].todo :
          x.id # run'[s].at /\ \A y \in run'[s].todo : x.id = y.id => x = y
    BY <1>2, <1>3, <1>5, <1>6 DEF Apart
  <2>2. \A s \in Runs \ {r} : \A x \in run'[s].todo, y \in list :
          x.id \in Live /\ x.id = y.id /\ x.edition = y.edition => <<x.id, x.edition>> \in raced'
    <3> SUFFICES ASSUME NEW s \in Runs \ {r}, NEW x \in run[s].todo, NEW y \in list,
                        x.id \in Live, x.id = y.id, x.edition = y.edition
                 PROVE  <<x.id, x.edition>> \in raced'
      BY <1>2
    <3>1. Holds(s, x.id) /\ x.id \in Listed /\ x.edition = contract[x.id].edition
      BY <1>3 DEF Holds, Listed
    <3> QED
      BY <1>10, <3>1 DEF Now
  <2>3. \A s, t \in Runs : \A x \in run'[s].todo, y \in run'[t].todo :
          s # t /\ x.id \in Live /\ x.id = y.id /\ x.edition = y.edition => <<x.id, x.edition>> \in raced'
    BY <1>2, <1>5, <1>7, <2>2 DEF Apart
  <2>4. \A s, t \in Runs, c \in Live : s # t /\ Holds(s, c)' /\ Holds(t, c)' => Now(c) \in raced'
    BY <1>6, <1>7, <1>8, <1>9, <1>10 DEF Apart
  <2>5. \A c \in Live : Now(c)' = Now(c)
    BY <1>1 DEF Now
  <2> QED
    BY <1>6, <2>1, <2>3, <2>4, <2>5 DEF Apart
<1>14. Faithful'
  BY <1>1, <1>2, <1>3, <1>5, <1>6, <1>7 DEF Faithful, Now
<1>15. Alerts'
  <2> SUFFICES ASSUME NEW c \in Live, NEW n \in 0 .. MaxSaves, <<c, n>> \notin raced
               PROVE  /\ told[<<c, n>>] <= 1
                      /\ \A s \in Runs : \A x \in run'[s].todo :
                           x.id = c /\ x.edition = n /\ ~x.notified => told[<<c, n>>] = 0
    BY <1>1, <1>6, <1>7 DEF Alerts
  <2>1. \A x \in list : x.id = c /\ x.edition = n /\ ~x.notified => told[<<c, n>>] = 0
    BY <1>3 DEF Marks, Now
  <2> QED
    BY <1>2, <1>5, <2>1 DEF Alerts
<1>16. Marks'
  BY <1>1, <1>6, <1>7 DEF Marks, Now
<1> QED
  BY <1>11, <1>12, <1>13, <1>14, <1>15, <1>16

\* A run goes on without writing, or is lost.
LEMMA GoesOnKeeps ==
  ASSUME IInv, UNCHANGED <<depositors, leaving, contract, used, told, saves, raced>>,
         today' \in Days, today <= today', fired' \in BOOLEAN, incidents' \in 0 .. MaxIncidents,
         run' \in [Runs -> RunType],
         \A r \in Runs :
           /\ run'[r].todo \subseteq run[r].todo
           /\ \/ run'[r].at \in {run[r].at, Null}
              \/ \E x \in run[r].todo \ run'[r].todo : run'[r].at = x.id /\ x.end <= today
  PROVE  IInv'
<1> USE DEF IInv
<1>1. Live' = Live /\ Live \subseteq Contracts /\ Null \notin Live /\ \A c \in Live : Now(c)' = Now(c)
  BY NullIsNoContract DEF Live, Now
<1>2. \A r \in Runs, c \in Contracts : Holds(r, c)' => Holds(r, c)
  BY NullIsNoContract DEF Holds
<1>3. Types'
  BY <1>1, <1>2 DEF Types, TypeOK, RunType
<1>4. EditionsInOrder'
  BY <1>1 DEF EditionsInOrder
<1>5. Apart'
  <2>1. \A r \in Runs : \A x \in run[r].todo : x.id # Null
    BY NullIsNoContract DEF Types, RunType, CopyType
  <2>2. \A r \in Runs : \A x \in run'[r].todo :
          x.id # run'[r].at /\ \A y \in run'[r].todo : x.id = y.id => x = y
    BY <2>1 DEF Apart
  <2>3. \A r, s \in Runs : \A x \in run'[r].todo, y \in run'[s].todo :
          r # s /\ x.id \in Live /\ x.id = y.id /\ x.edition = y.edition => <<x.id, x.edition>> \in raced
    BY DEF Apart
  <2>4. \A r, s \in Runs, c \in Live : r # s /\ Holds(r, c)' /\ Holds(s, c)' => Now(c) \in raced
    BY <1>1, <1>2 DEF Apart
  <2> QED
    BY <1>1, <2>2, <2>3, <2>4 DEF Apart
<1>6. Faithful'
  <2> SUFFICES ASSUME NEW r \in Runs, NEW c \in Live, Now(c) \notin raced
               PROVE  /\ \A x \in run'[r].todo : x.id = c =>
                           /\ x.edition = contract[c].edition /\ x.end = contract[c].end
                           /\ contract[c].status = "ACTIVE"
                      /\ run'[r].at = c => contract[c].status = "ACTIVE" /\ contract[c].end <= today'
    BY <1>1 DEF Faithful
  <2>1. today \in Nat /\ today' \in Nat /\ contract[c].end \in Nat
    BY DaysAreCounted DEF Types, TypeOK, Days, Live, Rows, Ends
  <2> QED
    BY <1>1, <2>1 DEF Faithful
<1>7. Alerts' /\ Marks'
  BY <1>1 DEF Alerts, Marks
<1> QED
  BY <1>3, <1>4, <1>5, <1>6, <1>7

\* The next contract of a run: declared expired next, or left there.
LEMMA NextHeld ==
  ASSUME IInv, NEW r \in Runs, NEW copy \in run[r].todo,
         run' = [run EXCEPT ![r] = [at |-> IF Past(copy) THEN copy.id ELSE Null,
                                    todo |-> run[r].todo \ {copy}]]
  PROVE  /\ run' \in [Runs -> RunType]
         /\ \A s \in Runs \ {r} : run'[s] = run[s]
         /\ run'[r].todo = run[r].todo \ {copy}
         /\ run'[r].at = Null \/ (run'[r].at = copy.id /\ copy.end <= today)
<1> DEFINE next == [at |-> IF Past(copy) THEN copy.id ELSE Null, todo |-> run[r].todo \ {copy}]
<1>1. copy \in CopyType /\ run[r].todo \in SUBSET CopyType /\ run \in [Runs -> RunType]
  BY DEF IInv, Types, RunType
<1>2. next \in RunType
  BY <1>1 DEF RunType, CopyType
<1>3. copy.end \in Nat /\ today \in Nat
  BY <1>1, DaysAreCounted DEF CopyType, Ends, IInv, Types, TypeOK, Days
<1>4. next.todo = run[r].todo \ {copy}
      /\ (next.at = Null \/ (next.at = copy.id /\ copy.end <= today))
  BY <1>3 DEF Past
<1> HIDE DEF next
<1>5. run' = [run EXCEPT ![r] = next]
  BY DEF next
<1> QED
  BY <1>1, <1>2, <1>4, <1>5

LEMMA HandleKeeps == ASSUME IInv, NEW r \in Runs, Handle(r) PROVE IInv'
<1> USE DEF IInv
<1>1. PICK copy \in run[r].todo :
        LET c == copy.id
            next == [at |-> IF Past(copy) THEN c ELSE Null, todo |-> run[r].todo \ {copy}]
        IN  \/ /\ Due(copy)
               /\ c \in Live
               /\ told' = [told EXCEPT ![<<c, copy.edition>>] = @ + 1]
               /\ contract' = [contract EXCEPT ![c].notified = TRUE]
               /\ run' = [run EXCEPT ![r] = next]
            \/ Due(copy) /\ c \notin Live /\ Abort(r)
            \/ /\ ~Due(copy)
               /\ run' = [run EXCEPT ![r] = next]
               /\ UNCHANGED <<contract, told>>
  BY DEF Handle
<1> DEFINE c == copy.id
           next == [at |-> IF Past(copy) THEN c ELSE Null, todo |-> run[r].todo \ {copy}]
<1>2. UNCHANGED <<today, fired, depositors, leaving, used, saves, incidents, raced>>
  BY DEF Handle
<1>3. today \in Days /\ today <= today /\ fired \in BOOLEAN /\ incidents \in 0 .. MaxIncidents
      /\ run \in [Runs -> RunType]
  BY DaysAreCounted DEF Types, TypeOK, Days
<1>4. CASE ~Due(copy) /\ run' = [run EXCEPT ![r] = next] /\ UNCHANGED <<contract, told>>
  <2>1. /\ run' \in [Runs -> RunType]
        /\ \A s \in Runs \ {r} : run'[s] = run[s]
        /\ run'[r].todo = run[r].todo \ {copy}
        /\ run'[r].at = Null \/ (run'[r].at = copy.id /\ copy.end <= today)
    BY <1>4, NextHeld
  <2> QED
    BY <1>2, <1>3, <1>4, <2>1, GoesOnKeeps
<1>5. CASE Due(copy) /\ c \notin Live /\ Abort(r)
  <2>1. run' = [run EXCEPT ![r] = Idle] /\ UNCHANGED <<contract, told>>
    BY <1>5 DEF Abort
  <2>2. Idle \in RunType /\ Idle.todo = {} /\ Idle.at = Null
    BY DEF Idle, RunType
  <2>3. run' \in [Runs -> RunType] /\ run'[r] = Idle /\ \A s \in Runs \ {r} : run'[s] = run[s]
    BY <1>3, <2>1, <2>2
  <2> QED
    BY <1>2, <1>3, <2>1, <2>2, <2>3, GoesOnKeeps
<1>6. CASE /\ Due(copy)
           /\ c \in Live
           /\ told' = [told EXCEPT ![<<c, copy.edition>>] = @ + 1]
           /\ contract' = [contract EXCEPT ![c].notified = TRUE]
           /\ run' = [run EXCEPT ![r] = next]
  <2>1. /\ run' \in [Runs -> RunType]
        /\ \A s \in Runs \ {r} : run'[s] = run[s]
        /\ run'[r].todo = run[r].todo \ {copy}
        /\ run'[r].at = Null \/ (run'[r].at = copy.id /\ copy.end <= today)
    BY <1>6, NextHeld
  <2>2. ~copy.notified /\ copy \in CopyType /\ c \in Contracts /\ contract[c] \in Rows
    BY <1>3, <1>6 DEF Due, RunType, Live, Types, TypeOK
  <2> DEFINE row == [contract[c] EXCEPT !.notified = TRUE]
             n == copy.edition
  <2>3. row \in Rows /\ row.edition = contract[c].edition /\ row.end = contract[c].end
        /\ row.status = contract[c].status /\ row.notified
    BY <2>2 DEF Rows
  <2>4. contract' = [contract EXCEPT ![c] = row]
    BY <1>6
  <2> HIDE DEF row, next
  <2>5. n \in 0 .. MaxSaves /\ n <= saves /\ saves \in Nat /\ told[<<c, n>>] \in Nat
    BY <2>2, BoundsAreNat DEF CopyType, EditionsInOrder, Types, TypeOK, Editions
  <2>6. contract'[c] = row /\ \A o \in Contracts \ {c} : contract'[o] = contract[o]
    BY <2>2, <2>4 DEF Types, TypeOK
  <2>7. Live' = Live /\ Live \subseteq Contracts /\ Null \notin Live
    BY <1>6, <2>3, <2>6, NullIsNoRow, NullIsNoContract DEF Live
  <2>8. \A o \in Live : Now(o)' = Now(o)
    BY <2>3, <2>6, <2>7 DEF Now
  <2>9. told'[<<c, n>>] = told[<<c, n>>] + 1
        /\ \A o \in Contracts, m \in 0 .. MaxSaves : o # c \/ m # n => told'[<<o, m>>] = told[<<o, m>>]
    <3>1. <<c, n>> \in Editions
      BY <2>2, <2>5 DEF Editions
    <3>2. \A o \in Contracts, m \in 0 .. MaxSaves : <<o, m>> \in Editions
      BY DEF Editions
    <3>3. \A o \in Contracts, m \in 0 .. MaxSaves : o # c \/ m # n => <<o, m>> # <<c, n>>
      OBVIOUS
    <3> HIDE DEF n, c
    <3> QED
      BY <1>6, <3>1, <3>2, <3>3 DEF Types, TypeOK, n, c
  <2>10. \A s \in Runs, o \in Live : Holds(s, o)' => Holds(s, o)
    BY <2>1, <2>7 DEF Holds
  <2>11. Types'
    <3>1. contract' \in [Contracts -> Rows \cup {Null}]
      BY <2>3, <2>4 DEF Types, TypeOK
    <3>2. told' \in [Editions -> Nat]
      <4>1. told \in [Editions -> Nat] /\ told[<<c, n>>] + 1 \in Nat
        BY <2>5 DEF Types, TypeOK
      <4>2. told' = [told EXCEPT ![<<c, n>>] = told[<<c, n>>] + 1]
        BY <1>6
      <4> HIDE DEF n, c
      <4> QED
        BY <4>1, <4>2
    <3>3. \A s \in Runs, o \in Contracts : Holds(s, o)' => o \in used
      BY <2>1, NullIsNoContract DEF Types, Holds
    <3> QED
      BY <1>2, <2>1, <2>7, <3>1, <3>2, <3>3 DEF Types, TypeOK, RunType
  <2>12. EditionsInOrder'
    <3>1. \A o \in Live : contract'[o].edition <= saves
      BY <2>3, <2>6, <2>7 DEF EditionsInOrder
    <3>2. \A s \in Runs : \A x \in run'[s].todo : x.edition <= saves
      BY <2>1 DEF EditionsInOrder
    <3>3. \A o \in Contracts, m \in 0 .. MaxSaves : o \notin Live \/ m > saves => told'[<<o, m>>] = 0
      BY <1>6, <2>5, <2>9 DEF EditionsInOrder
    <3> QED
      BY <1>2, <2>7, <3>1, <3>2, <3>3 DEF EditionsInOrder
  <2>13. Apart'
    <3>1. \A s \in Runs : \A x \in run'[s].todo :
            x.id # run'[s].at /\ \A y \in run'[s].todo : x.id = y.id => x = y
      <4>1. \A x \in run'[r].todo : x.id # Null
        BY <2>1, NullIsNoContract DEF RunType, CopyType
      <4> QED
        BY <2>1, <4>1 DEF Apart
    <3>2. \A s, t \in Runs : \A x \in run'[s].todo, y \in run'[t].todo :
            s # t /\ x.id \in Live /\ x.id = y.id /\ x.edition = y.edition => <<x.id, x.edition>> \in raced
      BY <2>1 DEF Apart
    <3>3. \A s, t \in Runs, o \in Live : s # t /\ Holds(s, o)' /\ Holds(t, o)' => Now(o) \in raced
      BY <2>10 DEF Apart
    <3> QED
      BY <1>2, <2>7, <2>8, <3>1, <3>2, <3>3 DEF Apart
  <2>14. \A o \in Live : contract'[o].end = contract[o].end /\ contract'[o].status = contract[o].status
                        /\ contract'[o].edition = contract[o].edition
    BY <2>3, <2>6, <2>7
  <2>15. Faithful'
    <3> SUFFICES ASSUME NEW s \in Runs, NEW o \in Live, Now(o) \notin raced
                 PROVE  /\ \A x \in run'[s].todo : x.id = o =>
                             /\ x.edition = contract[o].edition /\ x.end = contract[o].end
                             /\ contract[o].status = "ACTIVE"
                        /\ run'[s].at = o => contract[o].status = "ACTIVE" /\ contract[o].end <= today
      BY <1>2, <2>7, <2>8, <2>14 DEF Faithful
    <3> QED
      BY <2>1, <2>7 DEF Faithful
  <2>16. Alerts'
    <3> SUFFICES ASSUME NEW o \in Live, NEW m \in 0 .. MaxSaves, <<o, m>> \notin raced
                 PROVE  /\ told'[<<o, m>>] <= 1
                        /\ \A s \in Runs : \A x \in run'[s].todo :
                             x.id = o /\ x.edition = m /\ ~x.notified => told'[<<o, m>>] = 0
      BY <1>2, <2>7 DEF Alerts
    <3>1. CASE o = c /\ m = n
      <4>1. told[<<c, n>>] = 0
        BY <2>2, <3>1 DEF Alerts
      <4>2. \A s \in Runs : \A x \in run'[s].todo : ~(x.id = c /\ x.edition = n)
        BY <2>1, <3>1 DEF Apart
      <4> QED
        BY <2>9, <3>1, <4>1, <4>2
    <3>2. CASE o # c \/ m # n
      BY <2>1, <2>7, <2>9, <3>2 DEF Alerts
    <3> QED
      BY <3>1, <3>2
  <2>17. Marks'
    <3> SUFFICES ASSUME NEW o \in Live, Now(o) \notin raced
                 PROVE  /\ contract'[o].notified => told'[Now(o)] > 0
                        /\ ~contract'[o].notified => told'[Now(o)] = 0
      BY <1>2, <2>7, <2>8 DEF Marks
    <3>1. CASE o = c
      <4>1. n = contract[c].edition
        BY <3>1 DEF Faithful
      <4>2. told'[Now(c)] > 0
        BY <2>5, <2>9, <4>1 DEF Now
      <4> QED
        BY <2>3, <2>6, <3>1, <4>2
    <3>2. CASE o # c
      <4>1. contract[o].edition \in 0 .. MaxSaves
        BY DEF Live, Types, TypeOK, Rows
      <4>2. told'[Now(o)] = told[Now(o)]
        BY <2>7, <2>9, <3>2, <4>1 DEF Now
      <4> QED
        BY <2>6, <2>7, <3>2, <4>2 DEF Marks
    <3> QED
      BY <3>1, <3>2
  <2> QED
    BY <2>11, <2>12, <2>13, <2>15, <2>16, <2>17
<1> QED
  BY <1>1, <1>4, <1>5, <1>6

LEMMA ExpireKeeps == ASSUME IInv, NEW r \in Runs, Expire(r) PROVE IInv'
<1> USE DEF IInv
<1> DEFINE c == run[r].at
<1>1. UNCHANGED <<today, fired, depositors, leaving, used, saves, incidents, raced, told>> /\ c # Null
  BY DEF Expire, Abort
<1>2. today \in Days /\ today <= today /\ fired \in BOOLEAN /\ incidents \in 0 .. MaxIncidents
      /\ run \in [Runs -> RunType] /\ run[r] \in RunType
  BY DaysAreCounted DEF Types, TypeOK, Days
<1>3. CASE c \notin Live /\ Abort(r)
  <2>1. run' = [run EXCEPT ![r] = Idle] /\ UNCHANGED <<contract, told>>
    BY <1>3 DEF Abort
  <2>2. Idle \in RunType /\ Idle.todo = {} /\ Idle.at = Null
    BY DEF Idle, RunType
  <2>3. run' \in [Runs -> RunType] /\ run'[r] = Idle /\ \A s \in Runs \ {r} : run'[s] = run[s]
    BY <1>2, <2>1, <2>2
  <2> QED
    BY <1>1, <1>2, <2>1, <2>2, <2>3, GoesOnKeeps
<1>4. CASE /\ c \in Live
           /\ contract' = [contract EXCEPT ![c].status = "EXPIRED"]
           /\ run' = [run EXCEPT ![r].at = Null]
  <2> DEFINE next == [at |-> Null, todo |-> run[r].todo]
             row == [contract[c] EXCEPT !.status = "EXPIRED"]
  <2>1. contract[c] \in Rows /\ c \in Contracts
    BY <1>4 DEF Live, Types, TypeOK
  <2>2. row \in Rows /\ row.edition = contract[c].edition /\ row.notified = contract[c].notified
    BY <2>1 DEF Rows, Statuses
  <2>3. contract' = [contract EXCEPT ![c] = row]
    BY <1>4
  <2>4. [run[r] EXCEPT !.at = Null] = next
    BY <1>2 DEF RunType
  <2>5. run' = [run EXCEPT ![r] = next] /\ next \in RunType
    BY <1>2, <1>4, <2>4 DEF RunType
  <2>6. run' \in [Runs -> RunType] /\ run'[r].at = Null /\ run'[r].todo = run[r].todo
        /\ \A s \in Runs \ {r} : run'[s] = run[s]
    BY <1>2, <2>5
  <2> HIDE DEF next, row
  <2>7. contract'[c] = row /\ \A o \in Contracts \ {c} : contract'[o] = contract[o]
    BY <2>1, <2>3 DEF Types, TypeOK
  <2>8. Live' = Live /\ Live \subseteq Contracts /\ Null \notin Live
    BY <1>4, <2>2, <2>7, NullIsNoRow, NullIsNoContract DEF Live
  <2>9. \A o \in Live : /\ Now(o)' = Now(o) /\ contract'[o].edition = contract[o].edition
                        /\ contract'[o].notified = contract[o].notified
    BY <2>2, <2>7, <2>8 DEF Now
  <2>10. \A s \in Runs, o \in Contracts : Holds(s, o)' => Holds(s, o)
    BY <2>6, NullIsNoContract DEF Holds
  <2>11. Types'
    <3>1. contract' \in [Contracts -> Rows \cup {Null}]
      BY <2>2, <2>3 DEF Types, TypeOK
    <3> QED
      BY <1>1, <2>6, <2>8, <2>10, <3>1 DEF Types, TypeOK, RunType
  <2>12. EditionsInOrder'
    BY <1>1, <2>6, <2>8, <2>9 DEF EditionsInOrder
  <2>13. Apart'
    <3>1. \A x \in run[r].todo : x.id # Null
      BY <1>2, NullIsNoContract DEF RunType, CopyType
    <3>2. \A s, t \in Runs, o \in Live : s # t /\ Holds(s, o)' /\ Holds(t, o)' => Now(o) \in raced
      BY <2>8, <2>10 DEF Apart
    <3>3. \A s \in Runs : \A x \in run'[s].todo :
            x.id # run'[s].at /\ \A y \in run'[s].todo : x.id = y.id => x = y
      BY <2>6, <3>1 DEF Apart
    <3>4. \A s, t \in Runs : \A x \in run'[s].todo, y \in run'[t].todo :
            s # t /\ x.id \in Live /\ x.id = y.id /\ x.edition = y.edition => <<x.id, x.edition>> \in raced
      BY <2>6 DEF Apart
    <3> QED
      BY <1>1, <2>8, <2>9, <3>2, <3>3, <3>4 DEF Apart
  <2>14. Faithful'
    <3> SUFFICES ASSUME NEW s \in Runs, NEW o \in Live, Now(o) \notin raced
                 PROVE  /\ \A x \in run'[s].todo : x.id = o =>
                             /\ x.edition = contract'[o].edition /\ x.end = contract'[o].end
                             /\ contract'[o].status = "ACTIVE"
                        /\ run'[s].at = o =>
                             contract'[o].status = "ACTIVE" /\ contract'[o].end <= today
      BY <1>1, <2>8, <2>9 DEF Faithful
    <3>1. CASE o = c
      <4>1. \A t \in Runs \ {r} : ~Holds(t, c)
        BY <1>4, <3>1 DEF Apart, Holds
      <4>2. \A x \in run[r].todo : x.id # c
        BY DEF Apart
      <4> QED
        BY <1>1, <2>6, <3>1, <4>1, <4>2 DEF Holds
    <3>2. CASE o # c
      BY <2>6, <2>7, <2>8, <3>2 DEF Faithful
    <3> QED
      BY <3>1, <3>2
  <2>15. Alerts' /\ Marks'
    BY <1>1, <2>6, <2>8, <2>9 DEF Alerts, Marks
  <2> QED
    BY <2>11, <2>12, <2>13, <2>14, <2>15
<1> QED
  BY <1>3, <1>4 DEF Expire
-----------------------------------------------------------------------------
LEMMA StopKeeps == ASSUME IInv, Stop PROVE IInv'
<1>1. Idle \in RunType /\ Idle.todo = {} /\ Idle.at = Null
  BY DEF Idle, RunType
<1>2. run' \in [Runs -> RunType] /\ \A r \in Runs : run'[r] = Idle
  BY <1>1 DEF Stop
<1>3. today \in Days /\ today <= today /\ incidents' \in 0 .. MaxIncidents
  BY DaysAreCounted, BoundsAreNat DEF Stop, IInv, Types, TypeOK, Days
<1>4. fired' \in BOOLEAN
  <2>1. fired \in BOOLEAN /\ fired' \in {fired, TRUE}
    BY DEF Stop, IInv, Types, TypeOK
  <2> QED
    BY <2>1
<1> QED
  BY <1>1, <1>2, <1>3, <1>4, GoesOnKeeps DEF Stop

LEMMA TickKeeps == ASSUME IInv, Tick PROVE IInv'
<1>1. today' \in Days /\ today <= today'
  BY DaysAreCounted DEF Tick, IInv, Types, TypeOK, Days
<1>2. run \in [Runs -> RunType] /\ incidents \in 0 .. MaxIncidents
  BY DEF IInv, Types, TypeOK
<1>3. fired' \in BOOLEAN
  BY DEF Tick
<1> QED
  BY <1>1, <1>2, <1>3, GoesOnKeeps DEF Tick

LEMMA StartsKeep == ASSUME IInv, StartDaily \/ StartManual PROVE IInv'
<1>1. incidents \in 0 .. MaxIncidents /\ fired \in BOOLEAN
  BY DEF IInv, Types, TypeOK
<1>2. CASE StartDaily
  <2>1. fired' \in BOOLEAN
    BY <1>2 DEF StartDaily
  <2> QED
    BY <1>1, <1>2, <2>1, StartKeeps DEF StartDaily, Runs
<1>3. CASE StartManual
  <2>1. incidents' \in 0 .. MaxIncidents
    BY <1>1, <1>3, BoundsAreNat DEF StartManual
  <2> QED
    BY <1>1, <1>3, <2>1, StartKeeps DEF StartManual, Runs
<1> QED
  BY <1>2, <1>3

LEMMA NextHolds == IInv /\ [Next]_vars => IInv'
<1> SUFFICES ASSUME IInv, [Next]_vars PROVE IInv'
  OBVIOUS
<1>1. CASE UNCHANGED vars
  BY <1>1 DEF vars, IInv, Types, TypeOK, Live, Holds, EditionsInOrder, Apart, Faithful,
         Alerts, Marks, Now
<1>2. CASE Manage
  BY <1>2, CreateKeeps, SaveKeeps, AdjustKeeps, DeleteKeeps, CountContractsKeeps, DeleteDepositorKeeps DEF Manage
<1>3. ASSUME NEW r \in Runs, Work(r) PROVE IInv'
  BY <1>3, HandleKeeps, ExpireKeeps DEF Work
<1> QED
  BY <1>1, <1>2, <1>3, StartsKeep, StopKeeps, TickKeeps DEF Next

\* The inductive invariant, of which the properties below are consequences.
THEOREM AlertsHold == Spec => []IInv
<1> QED
  BY InitHolds, NextHolds, PTL DEF Spec

\* The rows, the two runs and the alerts have their types, stops and overlaps included.
THEOREM DeadlinesTypeCorrect == Spec => []TypeOK
<1>1. IInv => TypeOK
  BY DEF IInv, Types
<1> QED
  BY <1>1, AlertsHold, PTL

\* DeadlinesJob.run announces an edition of a contract once, however many runs there are,
\* if no second run and no save met it in the hands of a run.
THEOREM OneAlert == Spec => []OneAlertPerEdition
<1>1. IInv => OneAlertPerEdition
  <2> SUFFICES ASSUME IInv, NEW e \in Editions \ raced PROVE told[e] <= 1
    BY DEF OneAlertPerEdition
  <2>1. PICK c \in Contracts, n \in 0 .. MaxSaves : e = <<c, n>>
    BY DEF Editions
  <2> QED
    BY <2>1 DEF IInv, EditionsInOrder, Alerts
<1> QED
  BY <1>1, AlertsHold, PTL

\* notifiedAt stands for an alert on the contract as it now is: the two writes of the
\* job are one transaction, and update() arms the alert again.
THEOREM NoSilentMark == Spec => []MarkedMeansAnnounced
<1>1. IInv => MarkedMeansAnnounced
  BY DEF IInv, Marks, MarkedMeansAnnounced, Now
<1> QED
  BY <1>1, AlertsHold, PTL

\* What a step does to the status of a contract a run is about to declare expired.
LEMMA StatusKept ==
  ASSUME IInv, Next, NEW c \in Contracts, NEW r \in Runs,
         run[r].at = c, run'[r] # run[r], contract[c] # Null, contract'[c] # Null,
         contract[c].status # contract'[c].status
  PROVE  \/ contract[c].status = "ACTIVE" /\ contract[c].end <= today
         \/ <<c, contract[c].edition>> \in raced
<1>1. run' # run /\ contract' # contract /\ c \in Live /\ contract \in [Contracts -> Rows \cup {Null}]
  BY DEF Live, IInv, Types, TypeOK
<1>2. ~Manage /\ ~StartDaily /\ ~StartManual /\ ~Stop /\ ~Tick
  BY <1>1 DEF Manage, Create, Save, Adjust, Delete, CountContracts, DeleteDepositor, StartDaily,
              StartManual, Start, Stop, Tick
<1>3. PICK s \in Runs : Work(s)
  BY <1>2 DEF Next
<1>4. ~Handle(s)
  <2> SUFFICES ASSUME Handle(s) PROVE FALSE
    OBVIOUS
  <2>1. PICK copy \in run[s].todo : contract' = [contract EXCEPT ![copy.id].notified = TRUE]
    BY <1>1 DEF Handle, Abort
  <2>2. contract'[c] = contract[c] \/ contract'[c] = [contract[c] EXCEPT !.notified = TRUE]
    BY <1>1, <2>1
  <2>3. contract[c] \in Rows
    BY <1>1
  <2> QED
    BY <2>2, <2>3 DEF Rows
<1>5. run[s].at = c
  <2>1. contract' = [contract EXCEPT ![run[s].at].status = "EXPIRED"]
    BY <1>1, <1>3, <1>4 DEF Work, Expire, Abort
  <2> QED
    BY <1>1, <2>1
<1>6. CASE Now(c) \in raced
  BY <1>6 DEF Now
<1>7. CASE Now(c) \notin raced
  BY <1>1, <1>7 DEF IInv, Faithful
<1> QED
  BY <1>6, <1>7

\* DeadlinesJob.run declares expired only what is active and past its end, unless the
\* contract was saved or listed again in its hands.
THEOREM ManagerRespected == Spec => JobRespectsTheManager
<1>1. IInv /\ [Next]_vars =>
        [\A c \in Contracts, r \in Runs :
           (/\ run[r].at = c /\ run'[r] # run[r] /\ {contract[c], contract'[c]} \cap {Null} = {}
            /\ contract[c].status # contract'[c].status
            /\ contract'[c].edition = contract[c].edition)
             => \/ contract[c].status = "ACTIVE" /\ contract[c].end <= today
                \/ <<c, contract[c].edition>> \in raced]_vars
  BY StatusKept
<1> QED
  BY <1>1, AlertsHold, PTL DEF Spec, JobRespectsTheManager
=============================================================================
