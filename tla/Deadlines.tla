----------------------------- MODULE Deadlines -----------------------------
(***************************************************************************)
(* The life of a deposit contract and of its alerts: the form a manager    *)
(* saves, the depositor who leaves, and the job that goes over the active  *)
(* contracts every morning at seven, or when a manager asks.               *)
(*                                                                         *)
(* A run of the job reads all the active contracts at once, then writes    *)
(* contract by contract from what it read.  Runs may overlap, the server   *)
(* may stop between two writes, and an error ends the run: nothing is      *)
(* kept of a run but what it wrote.                                        *)
(*                                                                         *)
(* Time goes by in days.  The screens send the dates as midnight and the   *)
(* job runs at seven, so that on the day of its end a contract is past it. *)
(***************************************************************************)
EXTENDS Naturals, FiniteSets

CONSTANTS Null,
          Contracts,   \* the identifiers of contracts, each used once
          Depositors,
          Notices,     \* the values of notifyBeforeDays
          LastDay,     \* bound: on the last day the clock stays, the job goes on
          MaxSaves,    \* bound on the saves of contracts
          MaxIncidents \* bound on the stops of the server and the runs asked by hand

ASSUME DaysAreCounted == LastDay \in Nat \ {0} /\ Notices \subseteq Nat
ASSUME BoundsAreNat == MaxSaves \in Nat /\ MaxIncidents \in Nat
ASSUME NullIsNoContract == Null \notin Contracts

Statuses == {"ACTIVE", "EXPIRED", "CLOSED"}
Days == 0 .. LastDay
\* create() and update() ask for an end after the start; day 0 is the start.
Ends == 1 .. LastDay

Runs == {"daily", "manual"}

VARIABLES
  today,
  fired,       \* the scheduler has had its seven o'clock today
  depositors,  \* the depositors that are registered
  leaving,     \* those whose deletion has counted no contract and is about to delete
  contract,    \* the rows of deposit_contract, Null before creation and after deletion
  used,        \* the identifiers given out
  run,         \* each run of the job: what it read and has still to handle
  told,        \* how many alerts (rows of notification) each edition of a contract has
  saves,       \* how many saves there have been
  incidents,   \* how many stops and runs asked by hand there have been
  raced        \* history: the editions saved, or listed twice, while a run held the contract;
               \* a save without an end hands it on

vars == <<today, fired, depositors, leaving, contract, used, run, told, saves, incidents, raced>>

Rows == [depositor: Depositors, end: Ends, notice: Notices, status: Statuses,
         notified: BOOLEAN, edition: 0 .. MaxSaves]

ASSUME NullIsNoRow == Null \notin Rows

\* `edition` is the save the row comes from, 0 for its creation; an alert announces the one its run
\* read, its text carries that end.
Editions == Contracts \X (0 .. MaxSaves)

Live == {c \in Contracts : contract[c] # Null}

\* A run at rest has nothing left to do.  `at` is the contract it is about to
\* declare expired, `todo` holds the copies of those it has not come to.
Idle == [at |-> Null, todo |-> {}]

IsIdle(r) == run[r] = Idle

Held(c) == {r \in Runs : run[r].at = c \/ \E copy \in run[r].todo : copy.id = c}

Init ==
  /\ today = 0
  /\ fired = FALSE
  /\ depositors = Depositors
  /\ leaving = {}
  /\ contract = [c \in Contracts |-> Null]
  /\ used = {}
  /\ run = [r \in Runs |-> Idle]
  /\ told = [e \in Editions |-> 0]
  /\ saves = 0
  /\ incidents = 0
  /\ raced = {}
-----------------------------------------------------------------------------
(* The contracts.                                                          *)

\* POST /deposit-contracts.  The default notice is one of Notices.
Create(c, d, end, notice) ==
  /\ c \notin used
  /\ d \in depositors
  /\ contract' = [contract EXCEPT ![c] =
       [depositor |-> d, end |-> end, notice |-> notice, status |-> "ACTIVE",
        notified |-> FALSE, edition |-> 0]]
  /\ used' = used \cup {c}
  /\ UNCHANGED <<today, fired, depositors, leaving, run, told, saves, incidents, raced>>

\* Mutant: a new end leaves notifiedAt as it is.
ForgetToRearm(row, data) ==
  [row EXCEPT !.end = data.end, !.notice = data.notice, !.status = data.status,
              !.edition = data.edition]

\* Mutant: the end and the notice are swapped.
SwapFields(row, data) ==
  [row EXCEPT !.end = data.notice, !.notice = data.end, !.status = data.status,
              !.notified = FALSE, !.edition = data.edition]

\* What update() writes when an end comes with the save: the alert is armed again,
\* whatever the field that changed.
Saved(row, data) ==
  [row EXCEPT !.end = data.end, !.notice = data.notice, !.status = data.status,
              !.notified = FALSE, !.edition = data.edition]

\* What it writes when the field of the end was emptied: the end stays, the mark too.
Adjusted(row, data) ==
  [row EXCEPT !.notice = data.notice, !.status = data.status, !.edition = data.edition]

\* PUT /deposit-contracts/:id, from the form: a field the user did not touch goes
\* back to what it was when the page was rendered, so that any value may come.
Save(c, end, notice, status) ==
  /\ c \in Live
  /\ saves < MaxSaves
  /\ saves' = saves + 1
  /\ contract' = [contract EXCEPT ![c] =
       Saved(@, [end |-> end, notice |-> notice, status |-> status, edition |-> saves'])]
  /\ raced' = IF Held(c) = {} THEN raced
              ELSE raced \cup {<<c, saves'>>}
  /\ UNCHANGED <<today, fired, depositors, leaving, used, run, told, incidents>>

\* The same without an end: the alerts of the former edition are those of the new one.
Adjust(c, notice, status) ==
  LET former == <<c, contract[c].edition>> IN
  /\ c \in Live
  /\ saves < MaxSaves
  /\ saves' = saves + 1
  /\ contract' = [contract EXCEPT ![c] =
       Adjusted(@, [notice |-> notice, status |-> status, edition |-> saves'])]
  /\ told' = [told EXCEPT ![<<c, saves'>>] = told[former]]
  /\ raced' = IF Held(c) = {} /\ former \notin raced THEN raced
              ELSE raced \cup {<<c, saves'>>}
  /\ UNCHANGED <<today, fired, depositors, leaving, used, run, incidents>>

\* Rows of contracts deleted together: their alerts go with them.
Without(S) ==
  /\ contract' = [c \in Contracts |-> IF c \in S THEN Null ELSE contract[c]]
  /\ told' = [e \in Editions |-> IF e[1] \in S THEN 0 ELSE told[e]]
  /\ raced' = {e \in raced : e[1] \notin S}

\* DELETE /deposit-contracts/:id, of a contract without products.
Delete(c) ==
  /\ c \in Live
  /\ Without({c})
  /\ UNCHANGED <<today, fired, depositors, leaving, used, run, saves, incidents>>

ContractsOf(d) == {c \in Live : contract[c].depositor = d}

\* DELETE /depositors/:id counts the contracts, then deletes; a contract created
\* in between goes with its depositor.
CountContracts(d) ==
  /\ d \in depositors \ leaving
  /\ ContractsOf(d) = {}
  /\ leaving' = leaving \cup {d}
  /\ UNCHANGED <<today, fired, depositors, contract, used, run, told, saves, incidents, raced>>

DeleteDepositor(d) ==
  /\ d \in leaving
  /\ depositors' = depositors \ {d}
  /\ leaving' = leaving \ {d}
  /\ Without(ContractsOf(d))
  /\ UNCHANGED <<today, fired, used, run, saves, incidents>>
-----------------------------------------------------------------------------
(* The job.                                                                *)

\* Mutant: a run lists only the contracts that have not been announced.
ListedUnannounced == {c \in Live : contract[c].status = "ACTIVE" /\ ~contract[c].notified}

\* Mutant: a run lists every contract.
ListedAll == Live

\* The contracts a run reads.
Listed == {c \in Live : contract[c].status = "ACTIVE"}

Copy(c) == [id |-> c, end |-> contract[c].end, notice |-> contract[c].notice,
            notified |-> contract[c].notified, edition |-> contract[c].edition]

\* run(): the list is read once.
Start(r) ==
  /\ IsIdle(r)
  /\ run' = [run EXCEPT ![r].todo = {Copy(c) : c \in Listed}]
  /\ raced' = raced \cup {<<c, contract[c].edition>> : c \in {c \in Listed : Held(c) # {}}}
  /\ UNCHANGED <<today, depositors, leaving, contract, used, told, saves>>

\* The scheduler's seven o'clock, and POST /deposit-contracts/deadlines.
StartDaily == ~fired /\ fired' = TRUE /\ UNCHANGED incidents /\ Start("daily")
StartManual ==
  /\ incidents < MaxIncidents
  /\ incidents' = incidents + 1
  /\ UNCHANGED fired
  /\ Start("manual")

\* Mutant: the alert goes out on the day of the threshold, not from that day on.
DueThatDay(copy) == ~copy.notified /\ today + copy.notice = copy.end

\* Mutant: the mark is not looked at.
DueAgain(copy) == today + copy.notice >= copy.end

\* now >= endDate - notifyBeforeDays, and no alert yet.
Due(copy) == ~copy.notified /\ today + copy.notice >= copy.end

\* now > endDate, at seven o'clock.
Past(copy) == today >= copy.end

\* A write on a contract that is gone throws: the run stops there and then.
Abort(r) ==
  /\ run' = [run EXCEPT ![r] = Idle]
  /\ UNCHANGED <<contract, told>>

\* The next contract of the loop: the alert and its mark in one transaction, from
\* the copy; then the run is about to declare the contract expired, or moves on.
Handle(r) ==
  /\ run[r].at = Null
  /\ \E copy \in run[r].todo :
       LET c == copy.id
           next == [at |-> IF Past(copy) THEN c ELSE Null, todo |-> run[r].todo \ {copy}]
       IN  \/ /\ Due(copy)
              /\ c \in Live
              /\ told' = [told EXCEPT ![<<c, copy.edition>>] = @ + 1]
              /\ contract' = [contract EXCEPT ![c].notified = TRUE]
              /\ run' = [run EXCEPT ![r] = next]
           \/ Due(copy) /\ c \notin Live /\ Abort(r)
           \/ /\ ~Due(copy)
              /\ run' = [run EXCEPT ![r] = next]
              /\ UNCHANGED <<contract, told>>
  /\ UNCHANGED <<today, fired, depositors, leaving, used, saves, incidents, raced>>

\* The second write, by identifier alone: whatever the contract has become.
Expire(r) ==
  /\ run[r].at # Null
  /\ \/ /\ run[r].at \in Live
        /\ contract' = [contract EXCEPT ![run[r].at].status = "EXPIRED"]
        /\ run' = [run EXCEPT ![r].at = Null]
        /\ UNCHANGED told
     \/ run[r].at \notin Live /\ Abort(r)
  /\ UNCHANGED <<today, fired, depositors, leaving, used, saves, incidents, raced>>

\* The server stops: both runs are lost, and if it was down at seven the
\* scheduler does not make up for it.
Stop ==
  /\ incidents < MaxIncidents
  /\ incidents' = incidents + 1
  /\ run' = [r \in Runs |-> Idle]
  /\ fired' \in {fired, TRUE}
  /\ UNCHANGED <<today, depositors, leaving, contract, used, told, saves, raced>>

\* A day goes by; a run does not last until the next one.
Tick ==
  /\ fired
  /\ \A r \in Runs : IsIdle(r)
  /\ today' = IF today = LastDay THEN today ELSE today + 1
  /\ fired' = FALSE
  /\ UNCHANGED <<depositors, leaving, contract, used, run, told, saves, incidents, raced>>
-----------------------------------------------------------------------------
Manage ==
  \/ \E c \in Contracts :
       \/ \E d \in Depositors, end \in Ends, notice \in Notices : Create(c, d, end, notice)
       \/ \E end \in Ends, notice \in Notices, status \in Statuses :
            Save(c, end, notice, status)
       \/ \E notice \in Notices, status \in Statuses : Adjust(c, notice, status)
       \/ Delete(c)
  \/ \E d \in Depositors : CountContracts(d) \/ DeleteDepositor(d)

Work(r) == Handle(r) \/ Expire(r)

Next ==
  \/ Manage
  \/ StartDaily \/ StartManual
  \/ \E r \in Runs : Work(r)
  \/ Stop \/ Tick

\* The clock goes on, the scheduler fires, and a run that has begun takes its
\* steps.  Nobody has to save, to delete or to read anything.
Fairness == WF_vars(Tick) /\ WF_vars(StartDaily) /\ \A r \in Runs : WF_vars(Work(r))

Spec == Init /\ [][Next]_vars /\ Fairness
-----------------------------------------------------------------------------
\* The types: rows, the two runs, the told and the history.
TypeOK ==
  /\ today \in Days
  /\ fired \in BOOLEAN
  /\ depositors \subseteq Depositors /\ leaving \subseteq depositors
  /\ contract \in [Contracts -> Rows \cup {Null}]
  /\ Live \subseteq used /\ used \subseteq Contracts
  /\ \A r \in Runs : run[r].at \in Contracts \cup {Null}
  /\ told \in [Editions -> Nat]
  /\ saves \in 0 .. MaxSaves
  /\ incidents \in 0 .. MaxIncidents
  /\ raced \subseteq Editions

\* "notifiedAt" is a lock: however often the job runs, incidents or starts again, one
\* edition of a contract is announced once.  Only a contract saved, or listed by a
\* second run, while a run holds a copy of it escapes (DeadlinesJob.run reads the
\* mark once, at the start).
OneAlertPerEdition ==
  \A e \in Editions \ raced : told[e] <= 1

\* A contract marked as announced has been announced as it now stands: no stop
\* between the two writes and no save leaves a mark that silences a new deadline,
\* unless a run was holding the former edition (DeadlinesJob.run, update).
MarkedMeansAnnounced ==
  \A c \in Live :
    LET row == contract[c] IN
    row.notified => told[<<c, row.edition>>] > 0 \/ <<c, row.edition>> \in raced

\* The job never overrules the manager: it takes to EXPIRED only an active contract
\* whose end is past, unless it was saved under the run (DeadlinesJob.run writes the
\* status by identifier alone).
JobRespectsTheManager ==
  [][\A c \in Contracts, r \in Runs :
       (/\ run[r].at = c /\ run'[r] # run[r] /\ {contract[c], contract'[c]} \cap {Null} = {}
        /\ contract[c].status # contract'[c].status
        /\ contract'[c].edition = contract[c].edition)
         => \/ contract[c].status = "ACTIVE" /\ contract[c].end <= today
            \/ <<c, contract[c].edition>> \in raced]_vars

\* Edition e of contract c is active, due and not announced.
Awaits(c, e) ==
  /\ contract[c] # Null
  /\ contract[c].edition = e
  /\ contract[c].status = "ACTIVE"
  /\ Due(contract[c])

\* A deadline is not missed: an active contract that enters its notice is announced,
\* or is saved again or deleted first, in spite of stops, missed mornings and runs
\* that an error cut short.  It is not declared expired in silence (DeadlinesJob.run).
DueIsAnnounced ==
  \A c \in Contracts, e \in 0 .. MaxSaves :
    Awaits(c, e) ~> (\/ told[<<c, e>>] > 0 \/ <<c, e>> \in raced
                     \/ contract[c] = Null
                     \/ contract[c] # Null /\ contract[c].edition # e)

\* Nothing stays ACTIVE for ever: an active contract past its end stops being so
\* (README: "sans quoi rien ne sortirait jamais de ACTIVE").
Overdue(c) == c \in Live /\ contract[c].status = "ACTIVE" /\ Past(contract[c])

OverdueExpires == \A c \in Contracts : Overdue(c) ~> ~Overdue(c)
=============================================================================
