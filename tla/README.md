# Formal model of fripstock

fripstock keeps the stock of second-hand shops: products that are bought or deposited,
their statuses, their sale in a shop or on a site, the contracts of the depositors. It is a
NestJS API over Postgres (through Prisma), a Next.js application in front of it and a
bucket of photos beside it. This directory holds TLA+ models of both applications, configurations
that check them with TLC, and theorems proved with TLAPS.

To parse, check and prove:

    tlasany ProductLifecycle.tla
    tlc -workers 2 -config MCSequential.cfg MCProductLifecycle.tla
    tlapm ProductLifecycleProofs.tla

`PROJECT.json` lists the components, the runs, the lines of code each definition models,
the hazards and the theorems.

## 1. Inventory of the system

Paths are relative to `src/apps/api/src` unless they start otherwise.

| Component | State | Operations | What makes it correct |
|---|---|---|---|
| Products (`products/products.service.ts`) | tables `product`, `status_history`, attribute values | create, create a lot, form, assign to a shop, change status, sell a basket, correct a sale, pay the depositor, publish, confirm removals, delete | history tells the status; moves follow the flow and the flags; a sale has its price and its frozen commission; no listing is forgotten |
| Statuses (`statuses/`) | `status`, `status_transition`, written when the company is created | list, checkTransition, defaults | the default flow lets every garment in stock be sold and nothing returned be sold |
| Permissions (`common/`, the decorators of every controller) | `shop_access` | three guards, the services' requireShopAccess and requireStatusRight | an employee acts only where and how the manager said |
| Deposit contracts (`deposit-contracts/`) | `deposit_contract` | create with its products, update, attach, detach, delete, PDF | a deposited product is on one existing contract, a bought one on none |
| Deadline job (`deposit-contracts/deadlines.job.ts`) | `notified_at`, `status` of contracts, `notification` | daily run, run asked by hand | each deadline is announced once, and always; what ends is declared so |
| References (`products/references.ts`, nextReference) | counters of the company and of each depositor, depositor codes | number a product, renumber, choose, assign and edit a code | a label never comes to name another article |
| Categories, attributes (`categories/`, `attributes/`, `products/attributes.validation.ts`) | category tree, definitions, options, links, values | edit, move, delete, validate | the tree has no cycle; a value used is never lost |
| Depositors (`depositors/`) | `depositor` | create, update, delete, statement | the statement agrees with the frozen commissions |
| Shops, users, accounts (`shops/`, `users/`, `auth/`) | `shop`, `user`, `shop_access`, `company` | open, close, invite, grant, register, delete the account | rights are those of the last save, whole |
| Lot split (`products/lot-split.ts`, `src/apps/web/lib/lot-split.ts`) | none | splitCost, twice | the parts add up to the price paid |
| Lot (`src/apps/web/app/dashboard/products/lot/`) | the table one types in | type, add and remove lines, send | the preview tells the costs the API writes |
| Counter (`src/apps/web/app/dashboard/counter.tsx`) | field, proposals, basket, total, three requests in flight | type, point, Enter, negotiate, sell | what is typed is what is added; what is shown is what is paid; what is retried is not done twice |
| Screens (`src/apps/web`) | none but the session | pages, menu, server actions, relays | no door that the API closes |
| Statistics (`stats/`) | none | sums over the rows | sums agree with the rows and with the statements |
| Notifications (partly in `Deadlines`), uploads, arrangement of the dashboard, CSV, PDF | bucket of photos; flags; a preference | | see Not modelled |

The components meet in the database. A request of the API loads rows, checks its rules in
the service and writes; services call each other inside one transaction where several rows
must change together (`createWith`, `changeStatusWith`, `nextReference`). Postgres runs at
READ COMMITTED, no query locks a row, no row carries a version: **everything checked on a
row read before the transaction may be stale when the transaction writes**. The screens add
a second delay: they are rendered by the server of the web application, and what they send
was decided on what they showed. This is where the hard behaviours are (`PROJECT.json`,
"hazards"): checks on stale rows, deletions that count first and delete later, counters and
unique references, a daily job against the edition of the contracts, lists replaced as a
whole by two pages, answers that come late at the counter, sequences of legal requests
(sell, pay, undo, sell again) whose result is not what any single request intends.

## 2. Modules

| Module | What it is |
|---|---|
| `Records` | Prisma's partial `data` objects: laying fields over a row |
| `Permissions` | what the route guard and the services allow, from the rows of `shop_access` |
| `StatusFlow` | statuses, flags, arrows; when a move is allowed |
| `BaseFlow` | the seven statuses and twenty arrows of a new company |
| `StatusLedger` | the abstract specification: products enter, move along the flow, leave, each request at one instant |
| `ProductLifecycle` | every request that writes a product, with requests in flight |
| `MCProductLifecycle` | its instances for TLC |
| `ProductLifecycleProofs`, `SequentialProofs` | its theorems: with requests that overlap; when they do not, with the refinement of `StatusLedger` |
| `References`, `MCReferences`, `ReferencesProofs` | numbers, codes and labels; its theorems |
| `Catalog`, `MCCatalog`, `CatalogProofs` | categories, attributes, options, and what the products fill in; its theorems |
| `Deadlines`, `DeadlinesProofs` | contracts in time, and the job of the deadlines; its theorems |
| `Routes` | every route with its rule, and the guards (over `Permissions`) |
| `Screens` | every screen: gate, loads, links, actions (over `Routes`) |
| `Access`, `AccessProofs` | the company, its shops, its employees and their rights, and what these show (over `Screens`); its theorems, those of `Routes` and `Screens` included |
| `Tables` | tables written entry by entry, and what one finds in them |
| `Money` | the split of a price, the rounding, sums and filters |
| `Books` | the rows of the articles as money: statement and dashboard (over `Money`) |
| `Lot`, `Till` | the purchase of a lot; the counter (both over `Books`) |
| `Trade`, `MCTrade`, `TradeProofs` | one tab of the application that buys a lot, then sells (composes `Lot` and `Till`); its theorems, those of `Money` included |

The modules share tables of the database, each with the columns its questions need: a product is
its status, contract and debt in `ProductLifecycle`, its reference in `References`, its category
and its options in `Catalog`, its shop in `Access`, its prices in `Books`. The columns of one are
read by the rules of no other, except the status, which `Books` reduces to sold or in stock.

### How `ProductLifecycle` corresponds to the code

- `product[p]` is the row of `product`, with the columns some rule reads: `status`,
  `saleType`, `depositContract`, `shop`, `soldPrice`, `appliedCommission`, `depositorPaid`,
  `isOnline`, `pendingRemoval`. `history[p]` are its rows of `status_history`, oldest first,
  with the author. `life[x]` says whether an identifier is unused, in the database or
  deleted (identifiers are cuids, never reused; the same is done for contracts).
- A **request on existing rows has two steps**. The first (`ChangeStatus`, `SellMany`,
  `UpdateProduct`, `AssignShop`, `UpdateSale`, `ToggleDepositorPayment`, `SetOnline`,
  `MarkRemovalDone`, `MarkRemovalsDone`, `Delete`, `AttachProducts`, `DetachProduct`,
  `DeleteContract`) is the method of the service up to its write: the guard of the route,
  `loadForWrite` or `findMany`, every check, and the `data` it computes, kept in `req[w]`.
  The second (`CommitUpdate`, `CommitDelete`) is the write: it lays that `data` over whatever
  the row has become, adds the lines of history, applies the `onDelete` rules of the schema,
  and is refused when a row it names by primary key is gone. `Fail` ends a request without
  writing: the database refused, or the process stopped. Since the write is one
  transaction, a failure half-way through a basket is `Fail`.
- The worker `w` is a request in flight. With one worker requests never overlap; with two,
  any other request may commit between the two steps of the first.
- Creations (`Create`, `CreateLot`, `CreateContract`) read nothing that another request
  modelled here can change except the contract, which a foreign key rechecks, so they are
  one step.
- A refused request is no step.
- An optional field of a body is `{}` when absent and `{x}` when given. `Blank` holds what may be given
  for a price or a rate and is neither, the JSON null: class-validator's `@IsOptional` lets it through,
  and `null !== undefined`. Its member is kept apart from `Null`, the column that nobody wrote, so
  that a property can tell a sale given a null from one given nothing. It is `{blank}` in `overlap_money`
  and in the runs that refute, and `{}` in `sequential` and `overlap_shelf`, where no property reads a
  price or a rate.

Abstractions, all in the data or in who runs the code:

- one company: every query filters on `companyId`, which the guard takes from the session;
- `Statuses`, the flags, `Transitions`, `ShopAccess`, `Shops` and the commission of each
  contract are constants. The API changes the first three nowhere after registration; the
  others it does change, and later modules take them up;
- what a transaction reads (status, contract, commission) is read at the first step; a
  contract deleted since then is caught by `needs`, which is what `findUniqueOrThrow` and the
  foreign key do;
- the guard and the service each read the product's shop; the model reads it once;
- names, references, attributes, photos, dates, purchase and sale prices are left out: no
  rule above reads them.

### `Deadlines`

`contract[c]` is a row of `deposit_contract`; `edition` is a ghost, the save the row comes from.
`run[r]` is what a run of the job holds: the copies (`todo`) of the contracts it read at once, and
the contract it is about to declare expired (`at`). `Handle` is one turn of the loop up to the
transaction that inserts the alert and marks the contract; `Expire` is the second write, by
identifier alone. A write on a deleted contract throws and ends the run (`Abort`). `Stop` is the
process that stops: both runs are lost, and if seven o'clock goes by meanwhile nothing makes up for
it. A save from the form of the contract comes with an end (`Save`), and then arms the alert again
whatever the field that changed; or its end was emptied (`Adjust`), and the end and the mark stay: the new
edition starts with the alerts of the former one. Both come with a status, which may be the one of the page as it was
rendered. `told` counts the rows of `notification`, which go with their contract. `raced` names the editions that were
saved, or listed a second time, while a run held the contract, and those that keep the end of such a
one: there the code gives up, and the properties say so. Time is in days, one run of the scheduler each.

### `References`

A reference is a code and a number. A creation increments its counter in its transaction
(`Numbered`), which orders concurrent creations: one step. A first deposit of a depositor without
code is three, since the depositor and then the codes in use are read outside any lock (`BeginDeposit`,
`ReadCodes`, `FinishDeposit`): two that read the same codes choose the same one, and the unique index
refuses the second. The registration of a depositor is two (`Suggest`, `Register`). `Candidates` stands for what `freeCode`
tries: the letters of a name, then suffixes. `labels` is a ghost: every reference any product ever
wore, and which counter, or which hand, it came from.

### `Catalog`

Every request that checks before it writes is two steps, `Ask...` and the write, and `pending`
holds those in between with what they carry: a list of options carries the options its check
found to delete. What Postgres guarantees is at the write: `Restrict`, `Cascade`, a foreign key that
refuses. `crossed` and `late` are ghosts that name the two races the code does not exclude: two moves
of categories in flight together, and a sheet written after a deletion had looked for its values.

### `Routes`, `Screens`, `Access`

`RuleOf` is the table of the decorators and `Accepts` the three guards in their order. A screen is a
record: the gate its page or its component tests, what it loads with `apiFetch` (a refusal is the page
of errors), what it asks for with `tolerantApiFetch` (a refusal is shown), the links it shows and the
actions it offers, each behind a gate. `RouteOf` says which route each server action or relay
calls. The best sales and the removals of the dashboard link to the sheets of articles, which
somebody without `products.view` may follow and be refused: `NoClosedDoor` speaks of the sheets
of the articles one is listed, and of the other links. `Access` makes the rights they depend on move: `OpenForm`, `Send`, `Clear` and `Store` are
the form of an employee, the check of `setAccess`, and the two statements of its transaction. The
delete takes the rows it sees; the insert meets the rows another save committed since in the unique
index. `saved` and `asked` are ghosts: the last list stored, and the shops it was made on; `crossed`
names the employees whose last list was stored beside another.

### `Money`, `Books`, `Lot`, `Till`, `Trade`

Prices are integers (cents), quotients exact. `article[a]` is an article as money: label, cost, price
of its sale, whether its depositor was paid, whether it is on the site; an article on deposit has no
cost. `Lot` is the table of the purchase: what a cell reads as in the preview (`prix`, `exemplaires`) is
not what is sent (`cellNumber`), and a line is `active` in one and not blank in the other; this is
what `PreviewTellsTheCost` compares.

`Till` is the counter: `asked` is the search behind the
proposals, given up when the field changes, `entering` the search of an Enter, which nothing gives
up, `sending` the sale whose answer is awaited. A search is answered with one page (`PerPage`), from which what has left is then taken
out, so an article on sale may be on no page. `Unanswered` loses an answer and nothing else: the request may not have
reached the API, or may have been done, or be halfway, and the same basket may be sent again meanwhile.

`sale[r]` is what the API has on its hands. `SellMany` reads the articles, outside any transaction, and
decides; `CommitSale` writes each line by the identifier of its article, whatever it has become since; `FailSale` is the database
that refuses or the process that stops. Other counters (`OtherSells`) make requests like any other. Two
sales of an article, both checked before either is written, are both recorded, and the later price takes the place of the former:
`crossed` is a ghost that names the articles this happened to. `cashed` is a ghost too: what the recorded
sales asked of their customers. A basket sent again while the first one was halfway counts twice in it, though
its customer pays once. The commission, frozen by the sale in `ProductLifecycle`, is one rate here.

## 3. Runs

Every pass run ends with the whole state space explored.

| Run | Instance | Question |
|---|---|---|
| `sequential` | base flow, one product, two contracts, one shop and the central stock, one worker, four lines of history | do the checks of the services suffice when requests do not overlap? |
| `overlap_money` | one product, one contract, two workers, a flow of two statuses, three lines of history | what of the history, the money and the debt survives stale checks? |
| `overlap_shelf` | one product, two shops, a seller and a site manager, no manager, two workers; a flow where the article may be reserved on its way to a sale | the same of moves, removals and rights |
| `deadlines` | two contracts of one depositor, two days, one save, one stop or run by hand | is every deadline announced, once, and every end recorded? |
| `references` | two products, two depositors of one name, one of them without a code, numbers to two, one typed reference or code | what does a label name for ever? |
| `catalog` | three categories, two attributes, two options, one product, four writes, two requests in flight | do the tree and the values survive deletions and moves? |
| `access` | a manager, an employee, two shops, two pages, two saves | are the rights those of one save, and does the web application offer what the API accepts? |
| `trade` | one article on deposit, a lot of up to two, three lines, a negotiated total, two sales at a time at the API, pages of two articles, three strokes and any number of corrections of the basket | do the preview, the basket, the till and the books agree? |
| `sold_once_blocked`, `sold_keeps_contract`, `sale_without_price`, `wrong_article` | as above | see Findings |

What holds:

- without overlap: `ContractMatchesSaleType`, `DebtMatchesSaleType` (contract, sale type and
  debt agree), `NoForgottenListing`, `OnlineSaleIsUnlisted` (a listing of a product that is
  gone is on the list of removals, and an online sale leaves none), `NeverSoldOnceBlocked`
  (nothing returned is sold), and `ImplementsLedger`: with `Absent` for products that are not in
  the database, the statuses behave as in `StatusLedger`, a basket being one move of several products.
  These say nothing of requests that overlap, which do break them (`PROJECT.json`, hazards at lines
  585 and 905 of `products.service.ts` and 184 of `deposit-contracts.service.ts`);
- with overlap: `HistoryTellsStatus`, `EveryMoveWasAllowed` (every status was reachable
  from *some* earlier one: the weakest thing a stale check still gives),
  `MoneyOnlyAfterASale`, `RecordedSaleKeepsItsPrice` (a sale that no price came with was
  given a null, and has not lost a price since), `ChoreOnlyAfterLeaving`,
  `ChoreEndsUnlisted`, `SiteStaffOnlySellOnline`.

- `deadlines`: `OneAlertPerEdition`, `MarkedMeansAnnounced` (a mark that silences an alert comes from
  an alert on the contract as it stands), `JobRespectsTheManager` (only an active contract past its end
  is taken to EXPIRED), `DueIsAnnounced` and `OverdueExpires` (liveness), each up to the editions that
  were changed under a run;
- `references`: `LabelsTellArticles` (two articles wear one label only through a hand or through a code
  that went to another counter), `NumbersHaveNoHole`, `BlockedOnlyByHand` (a generated creation
  fails only on a label from elsewhere), `CodeIsGivenOnce`;
- `catalog`: `EveryCategoryShows` (every category hangs from a root, which is also what ends the climb
  of `rejectCycle` and the leaf by leaf deletion of the account), `NoValueIsLost`;
- `access`: `ListsAreWhole`, `ShownChoresCanBeDone`, `NoClosedDoor`;
- `trade`: `PreviewTellsTheCost`, `CustomerPaysTheTotal`, `NoTwinsInBasket`, `SoldOnceUnlessCrossed`
  (a sale rewrites another only when both were checked before either was written), `BooksAgree` (what was cashed
  is what the dashboard counts, unless two sales crossed; the statements and the dashboard agree whatever happens).

Bounds. `MaxHistory` (in the guards of `CommitUpdate`) bounds the only thing that grows in
`ProductLifecycle`.
Four lines let a product be sold, undone, sold again and undone; three are the fewest on
which two overlapping moves break the flow, which `sold_once_blocked` shows by being violated
with three lines. The runs have one product: that a basket or a lot keeps to the properties
of `sequential` and of `overlap_money` is in the theorems, for any number of products. Two workers suffice for a stale check, since a request has only one gap. One
price and one rate: properties compare prices only with null. `SmallFlow` keeps one
status of each combination of flags, so overlapping runs stay small; the base flow differs
from it by two more statuses in stock and one more ending. `CounterFlow` has a sale and
its undoing: that is what the money depends on. `ShelfFlow` has a move within the
stock instead of the return, the move that must leave no removal to do. Workers are symmetric in the overlapping runs.

`LastDay` = 2 has a contract enter its notice, end and outlive its end; two contracts are the
fewest for which an error on one delays another; one save and one incident are the fewest that race
a run, and the ghost `raced` needs no second one. `MaxNumber` = 2 and two products are the fewest on
which a number could come twice; `MaxTyped` = 1 allows one reference in the way or one code to
change hands. Three categories are the fewest on which a cycle is longer than the two
categories of a crossing; `Together` = 2 is a race of two requests, and four writes let a link,
a value, a deletion and a move follow one another. Two pages and two saves are the fewest that
cross; the choices of rights are one that sees and handles, one that only sells, and two of the
company. A lot of two articles, one without a price, and one cent or three to share leave cents to
hand out; three strokes (a term, a place, a sale sent, a payment) are enough to type, sell, lose the answer and sell again, or meet another counter;
pointing, bargaining and taking lines out are not counted; two
sales at a time are the fewest that cross, and pages of two leave one of the three articles out.
Deadlock is checked except in `references` and `catalog`, whose identifiers and writes run out, where
the code would go on.

Fairness is assumed in `Deadlines` only: weak fairness of the day that ends (`Tick`), of the scheduler
(`StartDaily`: `@Cron` fires every day the process is up) and of each step of a run that has begun
(`Work`: a loop of awaits that the event loop goes on with). Nobody has to save, delete or ask for a
run, and stops are bounded by `MaxIncidents`: a server that stops every morning announces nothing.
The other properties are about safety: no request of the other components must eventually happen.

## 4. Findings

1. `sold_once_blocked`: the status is checked on the row read before the transaction, so a
   sale checked before a return and written after it sells a returned product; the code says it
   never becomes sellable again.
2. `sold_keeps_contract`: the product form (`update`) changes the contract and the sale type
   of a sold product, which the documentation forbids and attach and detach refuse.
3. `sale_without_price`: the API asks for the price of a sale by comparing it with undefined, and a
   price given as null passes; the sale is recorded without a price, which the documentation and the
   comment of the field forbid.
4. `wrong_article`: at the counter, a reference typed whole, with Enter before the proposals have
   followed (200 ms and an answer), adds the article that an earlier term proposed, if it is the only
   one left; the comment of the component says an exact reference adds its article, and expects a
   scanner to type it.

One more disagreement is stated as a hazard, with the property it breaks on another instance than
those of the runs: a sale and a publication that overlap leave a listing nobody is asked to take down
(`NoForgottenListing` with two workers).

## 5. Theorems

Every safety invariant and every action property that the passing runs check is a theorem, and so is
the refinement of `StatusLedger`. Each is `Spec => []IInv` for an inductive invariant `IInv`, proved
with one lemma for each action of `Next` (or for each variable), and what follows from it.

| Module | Theorems | Any number of |
|---|---|---|
| `ProductLifecycleProofs` | `Invariance`; `TypeCorrect`, `HistoryIsFaithful`, `MovesAreAllowed`, `MoneyIsEarned`, `SalesKeepTheirPrice`, `ChoresAreEarned`, `ChoresTakeListingsDown` | products, contracts, users, shops, requests in flight; any flow, any rights |
| `SequentialProofs` | `SiteStaffSellsOnline`, with any number of requests in flight | the same |
| | `SettledInvariance`, `ContractsMatch`, `DebtsMatch`, `ListingsAreNotForgotten`, `OnlineSalesAreUnlisted`, `LedgerIsImplemented` (if `OneAtATime`), `BlockedIsNeverSold` (if moreover `BlockedForGood`), `BaseFlowBlocksForGood` | the same, with one worker |
| `ReferencesProofs` | `NumberingHolds`; `NumberingTypeCorrect`, `NumbersNeverReused`, `NumbersFollowOn`, `OnlyAHandBlocks`, `OneCodeForAll` | products, depositors, codes, numbers, typed references |
| `DeadlinesProofs` | `AlertsHold`; `DeadlinesTypeCorrect`, `OneAlert`, `NoSilentMark`, `ManagerRespected` | contracts, depositors, days, saves, incidents (two runs) |
| `CatalogProofs` | `CatalogHolds`; `CatalogTypeCorrect`, `ValuesAreSafe`, `CategoriesShow` | categories, attributes, options, products, requests in flight |
| `AccessProofs` | `InvariantHolds`, `CompanyRightsAreEverywhere`; `AccessTypeCorrect`, `RightsAreOneList`, `ShownChoresAreDoable`, `NoDoorIsClosed` | users, shops, pages, saves; any rights |
| `TradeProofs` | `SplitIsExact`; `TradeTypeCorrect`, `ArticlesAreSoldOnce`, `BasketHasNoTwins`, `NegotiatedTotalIsPaid`, `PreviewIsTrue`, `BooksAlwaysAgree` | articles, amounts, terms, places, lots, strokes |

Assumptions. `Null` is none of the values in all of them. `DataAssumption`, `StatusFlowAssumption`,
`ManagersAreUsers`, `NullIsNoShop` for the products;
`BoughtIsNoCode`, `LegacyAreDepositors`, `CandidatesAreCodes`, `BoundsAreNat`, `NamesApart`
(the code of the company is no depositor's, a name has a candidate for a code, `ByHand` is no
depositor) for the numbers; `DaysAreCounted`, `BoundsAreNat`, `NullIsNoContract`, `NullIsNoRow`
for the deadlines; `CategoriesAssumption` (finitely many categories) for the catalogue; `SomebodyManages`,
`BoundIsNat`, `ChoicesAreRights` (what the form offers are rows of rights) for the accesses;
`RateIsPercent`, `FieldsDiffer`, `TradeAssumption` (amounts are whole cents; a cell of a table reads as a whole
number, nothing or junk; prices and negotiated totals are not negative) for the sales. TLC evaluates all of them in the
runs. Two hypotheses are not assumptions on the constants: `OneAtATime` (there is one worker at most), which the
code does not guarantee: those theorems are about what its checks achieve by themselves, and `BlockedForGood` (no arrow leaves the statuses that forbid
a sale), which `BaseFlowBlocksForGood` shows of the flow every company receives.

### The arguments

**Products.** A check made by a request is true of the row it read, not of the row it writes to, so no
property of the table alone is inductive. What is: `RequestsJustified`, which
says of every request in flight that what it *will* write is justified by the history of the
product *now* — a status it moves to is allowed from some line of that history, a price
comes with a sale or from a product that was sold, a pending removal with a status that leaves
the stock, and so on. Histories only grow while a product lives, and identifiers are not
reused, so whatever commits in between, a justification stays one. `IInv` adds the types,
`HistoryTellsStatus` and `RowOK`, the same facts of a row and its own history.

**One request at a time.** `Current` says of the request at work what overlapping requests break: the
rows it is about to write are still there, a new status may follow the status of *now*, and once its
fields are laid over the row, the row is `Settled`, that is, its contract, debt and listing are as its type and
status want them. With one worker nothing commits between the two steps, so it holds when the write comes. Each step of the service
is then, on `Stage`, a move of the ledger that the flow allows from the status the products have, or a stutter. The flow
comes in for `NeverSoldOnceBlocked` only: `BlockedStays` says that a product whose history holds a blocking status is in
one, from which `MayFollow` leads to no sale.
`StaffInv` needs no such thing: who asks is written with what is asked.

**Numbers.** A label is what is printed on an article, so the property is about labels that no
row wears any more. `CountersAhead` says that no label of a counter has a number beyond it, which makes
the next number new; `OneProductEach`, that a number of a counter went to one product;
`NobodyComesBack`, that an identifier not yet in use has left no label, without which a
depositor being registered could meet numbers of its own; `OneCode`, that while nobody types, the labels
of a depositor bear the code of its row; `EveryProductIsLabelled`, that what blocks a creation is itself among the labels, which
gives `BlockedOnlyByHand`. `NumbersHaveNoHole` is kept because a counter labels an article in
the step that increments it, and a depositor begins with none.

**Deadlines.** The job works on copies. `Faithful` says of an edition that was not raced that each
copy of it a run still holds agrees with the row, `Apart` that a run comes once to a contract
and that whatever two runs hold is in `raced`, `Alerts` that an edition has one alert at most, and none
while a copy that would write it waits. `Marks` ties `notifiedAt` to the alerts. The ghost `raced`
enters whenever a save or a second listing meets a held contract; the proof shows that nothing else
disturbs the four.

**Catalogue.** `DeletionsLooked` says of every deletion between its check and its write that the options
it is about to delete are on no product, unless a sheet put them there since (`late`): the check is
turned into a fact about the present, which every other request keeps. `NewAreNew` says that options
about to be added are nobody's yet, so that what a list replaces is what its check saw.

That every category hangs from a root is proved without chains of parents. `Loopless` says that every nonempty set of
categories has one whose parent is outside it; a move about to be written is `Sure`: a set closed under parents
holds its destination and not the category that moves, which is what the climb of `rejectCycle` found. While no two moves
cross, these sets stay closed, so the write makes no loop; and a category that hung from no root would be in a set
that `Loopless` forbids.

**Rights.** `TransactionsMeet` says that two transactions which have deleted and not yet inserted, on
one employee, know of each other; one that knows of none has seen all the rows there are, so the
rows after its insert are its list and nothing else (`Whole`). `CopiesEverywhere` says that a right of the company
is in a list on every shop of its form or on none, which is what makes a chore that is listed through one shop doable in
another.

**Screens.** `NoClosedDoor` compares two large tables for any rights. The rules of the routes are computed once,
part by part (`Tables`, then one lemma a part), and summed up by what the three guards ask of each route a screen uses; then each
page of the menu has its step: what the gate of the page gives is what its loads, links and actions ask.

**Sums.** `SumFunction` and `FoldLeft` are recursive, and induction is done by hand: of the sets for which a claim
fails, one has the fewest elements (`SetInduction`, from the well-foundedness of the numbers). `SumRules` gives the sum of a set
from that of the set less an element; additivity, scaling, bounds, renaming and counting follow. `AmongRule` and
`FlattenLays` do the same for filters and for lists laid end to end.

**Prices.** `SplitIsExact` says that the parts of a price add up to it and are each within a cent of their exact share. The shares
rounded down leave less than one cent an article (Euclid's division, summed), the cents left are fewer than the articles
with a remainder, and the ranks of the remainders are all different (`FirstOnes`), so that exactly as many articles get one more.
`NegotiatedTotalIsPaid` follows; `PreviewIsTrue` needs that the page and the API give `SplitCost` the
same weights in the same order: a line the page calls active is one that is sent, a line of `n` copies is `n` articles, and
the articles of a line are a block of the list laid end to end.

**Books.** The inductive invariant of the trade is `TradeTyped`, `DueHolds` (a sale at the API says of itself what it takes),
`CheckedHolds` (an article of a checked sale is still in stock, or was sold since by another and is `crossed`) and `RevenueHolds`
(the prices of what is sold add up to what was cashed, less the prices that were written over). A sale
that the API takes names each article once, so its lines are terms of that sum: new ones, unless the article is `crossed`. A retry that comes after
the write finds the articles sold, is refused, and adds nothing. The statement and the dashboard sum the same rows with different roundings, whose gap is at most half a
cent a line, summed by `SumBounds`.

### Only model-checked

- `DueIsAnnounced`, `OverdueExpires`: liveness under fairness, and `ENABLED`, are out of the prover's reach. The safety
  part of both (no alert lost to a mark, no contract wrongly expired) is proved.
- The four properties that the code breaks (section 4) are refuted by TLC, each on its run.
- That the quotients of the code, in floating point, round as exact ones do is an abstraction of `Money`, neither
  checked nor proved.
- Theorems with `OneAtATime` say nothing of overlapping requests; what those break is in the findings and the hazards.

## 6. Plan

Done: every module of section 2, its runs and the theorems above. Left, by order of interest:

1. the exact set of overlaps that the properties of one worker survive: two requests on different products, or one that
   only reads the contract, as a theorem with a weaker hypothesis than `OneAtATime`;
2. the page that is still shown when a right is taken back: which of its actions the API then refuses;
3. the periods of the statistics (a sale at midnight, in which month), on top of `Books`;
4. photos: the row, the file, and a failure between the two.

## 7. Not modelled

- **Uploads**: type and size of a file, then a call to the bucket. Rows and files that part ways
  are in the list of hazards.
- **Notifications**: those of the job are in `Deadlines`; the flag that says one was read is left out, nothing
  depends on it.
- **Arrangement of the dashboard**: a personal preference, one row replaced as a whole; the loss of hidden
  modules is in the list of hazards.
- **Statistics**: periods, turnover, rankings; what is summed in money is in `Books`.
- **Free values of attributes** (text, number, boolean): checked one by one against a type, without
  state. Options are in `Catalog`.
- **Profile, password, session**: hashing and tokens are libraries; the company and whether one is
  a manager travel in the session, and the API changes neither for a user who stays. The rights
  themselves are read at each request.
- **Screens**: layout, texts and fields of the forms, except for the counter, the lot and the
  form of an employee, whose state matters.
- **CSV, PDF, seed, build and deployment**: no state to check.
- **Prisma, Postgres, the browser, the bucket** are external: the models take from them what the code
  relies on (transactions at READ COMMITTED, unique indexes, foreign keys and their `onDelete`
  rules, cookies and answers that come late or never).
