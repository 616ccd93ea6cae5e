# Avito Kuhnya in TLA+

Specifications of the order platform in this repository: the `core` service
(client API, venue API, PostgreSQL) and `restaurant-service`, the example of a
venue's backend. They say what the program does when its requests, its
processes and its failures interleave, and what holds all the same.

## The system

| Component | State | Operations | Talks to |
|---|---|---|---|
| order status machine (`core/internal/domain/models.go`) | none | `CanTransition` | everything that changes a status |
| status changes (`usecase/order.go` `ChangeStatus`, `CancelOrder`) | local: the status read | SELECT, check, UPDATE, INSERT | order repository |
| checkout (`usecase/order.go` `CreateOrder`) | local: items read, order lines, total | read venue, lock items, validate, insert, commit, notify | all repositories, notifier |
| venue menu (`usecase/venue_menu.go`, `menu_repo.go`) | `menu_items`, `menu_categories` | create item, set availability, update item | checkouts, through row locks |
| catalog (`usecase/catalog.go`) | none | list venues, read a menu | repositories |
| repositories, transactions, pool (`repository/postgres`) | the tables, row locks, connections | one SQL statement each | PostgreSQL |
| notifier (`infrastructure/webhook`) | deliveries under way | one POST in a goroutine | `restaurant-service` |
| handlers, error mapping (`transport/http`) | none | decode, call, answer | clients, venues |
| authentication, middleware (`transport/http/middleware`) | the status written | check the key, log, recover from a panic | venues, the log |
| core process (`core/cmd/core/main.go`) | the listener, the pool | start, serve, drain, close, exit | the operating system, all requests |
| webhook handler (`restaurant-service/internal/webhook`) | none | start a pipeline | kitchen emulator |
| kitchen emulator (`restaurant-service/internal/kitchen`) | `seen`, goroutines | poll, run a pipeline | core client |
| core client (`restaurant-service/internal/coreclient`) | none | list, accept, update status, 5 s timeout | venue API |

What is hard here is between the components:

* A status change is three statements in three transactions. Requests of the
  client and of the venue interleave between them, and each may fail between
  any two. What protects an order is one `WHERE status = $2`.
* A checkout holds row locks and a connection while others wait for both; the
  venue edits the rows it reads; it must leave nothing behind on any of its
  ways out, and tell nobody of an order before there is one.
* `restaurant-service` learns of an order twice, or late, or again after a
  restart, and its calls may fail or time out after they had their effect.
* A client orders from a menu that was read in three statements, from which
  nothing is held, and which the venue changes all the time.
* Core stops while requests are being served: they are waited for, but not for
  ever, and the pool closes under those that are late. A panic must leave
  nothing behind that the other requests or the stop would wait for.

What makes the components correct is listed with the runs below; the hazards
they guard against, each at its line, are in `PROJECT.json`.

## Modules

```
OrderStatus            the status machine
 |-- StatusContract    what a status change promises, in one step
 |    `-- Kitchen      restaurant-service, clients, and core by its contract
 |         `-- KitchenProofs
 `-- OrderLifecycle    ChangeStatus in three statements; implements StatusContract
      `-- OrderLifecycleProofs
Sale                   what placing an order promises, in one step
 |-- Checkout           CreateOrder against an edited menu, locks and the pool;
 |    |                 implements Sale
 |    `-- CheckoutProofs
 |         `-- TotalProofs
 `-- Storefront         list, menu and order of a client, and the venue's menu
      `-- StorefrontProofs
Server                 the process of core: middleware, pool, start and stop
 `-- ServerProofs
MCOrderLifecycle, MCCheckout, MCKitchen, MCStorefront, MCServer
                       instances for TLC
```

**OrderStatus** is `models.go`: the statuses, `allowedTransitions`,
`CanTransition`. `Rank` and `Final` are ours, for the properties.

**StatusContract** is the abstract specification of `ChangeStatus`: a call has
at most one effect, one allowed transition in one step (`Effect`), and its
answer is true of it: 204 after the effect, 400 and 404 without one, 500 says
nothing. `Kitchen` is built on it, so what is shown of `Kitchen` rests on the
refinement that `OrderLifecycle` checks and `OrderLifecycleProofs` proves
(`RefinesContract`).

**OrderLifecycle** is the code of `ChangeStatus`. `orders` is the status column,
`journal` the table `order_status_history` in the order of its inserts, `calls`
the local variables of the requests being served. A call is `idle`, before its
UPDATE, or before its INSERT. `Read`, `ReadRefused`, `ReadNotFound` and
`ReadFailed` are the ways through `GetByID` and `CanTransition`; `Update` and
`UpdateMissed` the two outcomes of the compare-and-set; `AppendHistory` inserts
the row; `UpdateFailed` and `AppendFailed` end the call in between, which is
also what a crash of core does, call by call. An answer of the database that is
lost after the statement was executed is covered: after the UPDATE by
`AppendFailed`, after the INSERT by the second answer of `AppendHistory`. `lost`
is an auxiliary variable: the rows whose INSERT never happened.

**Sale** is the abstract specification of `CreateOrder`, as its client sees it. A
request is `open` until it is `sold` or answered. `Sell` takes every price and
every availability from the menu of that one moment; `Refuse` has a reason that
is true when the refusal is given, but for an item that was missing when the
rows were looked up: the request is `doomed` then, and stays so when the item
appears. `Lapse` is 500 at any time. `Alter` and `List` are all a venue can do to
its menu. Checkout implements Sale (`SaleSpec`): the refinement (`salePhase`,
`saleWish`, `saleAnswer`, `saleSold`) maps the steps up to the row locks to
`open`, those in the transaction to `open` or `doomed`, and the commit to `Sell`.

**Checkout** is `CreateOrder` with the rows of `menu_items`, the row locks and
the pool. One request goes through `Receive` (the handler), `FindVenue`, `Begin`,
`LockRow` (one row at a time, in any order: the query has no ORDER BY),
`Validate`, `InsertOrder`, `AppendHistory`, `Commit`, `Notify`, after which the
answer is 201, or 500 when the request ends first. Every early return is a
`Rollback`. `CreateItem`, `SetAvailability` and `UpdateItem` are the
venue's statements. PostgreSQL is modelled as far as the code uses it and the
module's head says how: READ COMMITTED, row locks held to the end of the
transaction, a row that was waited for is read again, a deadlock ends one
transaction. Names, categories, currencies and ids carry no property and are
left out; an order is named by the request that makes it, and `NoOrder` stands
where there is none. `Word` is the number
of values of an `int64` and `MaxInt4` the largest `int4`, so that wrap-around
and a refused quantity are within reach of small numbers.

**Kitchen** is `restaurant-service`: `ReceiveHook` (the webhook handler), `Poll`
(a tick of `StartPoller`: newest page of CREATED orders, `seen`), `Request`,
`Answered` and `TimeOut` (a call of a pipeline), `Restart`. A pipeline is the
goroutine of one `HandleNewOrder`. The goroutine's delays are the time between
two steps. A page of the venue API is a set of places in `placed` (`ListByVenue`)
of which `Newest` takes the last. `placed` is the order of `created_at`, which is when the transaction
began: an order may be listed below one that was committed before it.

**Storefront** is built on Sale as Kitchen is on StatusContract: what is shown of
it rests on the refinement that `Checkout` checks and `CheckoutProofs` proves
(`RefinesSale`). `ListVenues` is one statement, of all venues or of those of a
city, and shows a `Page`, always the first; a menu is three, `OpenMenu` (`GetByID`), `ListCategories` and `ListItems`, with
`VisitFails` between them; then `OrderFromMenu` orders what was shown as
available. `OrderUnseen` is a client that sends any cart without looking. `visits`
is what each client has been shown; its fields `known` and `since` are history
variables for the properties. `CreateItem`, `SetAvailability`, `UpdateItem` and
`CreateCategory` are `VenueMenuUseCase`. `SetActive` is an operator's statement:
the schema has the flag, the code reads it in the list and in `VenueAuth`, and
nothing writes it.

**Server** is `main.go` and the middleware. `proc` follows `main`: `Start`,
`Signal`, then `Drained` or, after the 10 seconds of `Shutdown`, `Deadline`, then
`Exit` when the deferred `pool.Close` has every connection back; `Kill` at any
time. A request goes through `Accept`, its statements (`Acquire`, then the
statement; a transaction keeps its connection from `FillOrder` to `Commit`),
`LogRequest` and `Deliver`. `WaitFails`, `StatementFails` and `Panic` end it early.
Of its answer `status` is what `statusWriter` notes for the log, at every
`WriteHeader`, and `sent` what `net/http` sends, the first. A status
change stands for the venue API, behind `Authenticate`; a checkout for the client
API; reads are the same with a refusal in the middle. `pgxpool` and `net/http` are
external and modelled from how `main.go` uses them: `Shutdown` cancels no request
and closes no connection in use, `Close` refuses new connections and waits for
those that are out, an answer this small is sent when the handler has returned.

Operators introduced as a *slip* are variants of actions with an error a
programmer might make. No specification uses them: each shows that a property
notices.

## What is checked

| Run | Instance | Shows |
|---|---|---|
| `OrderLifecycle` | 1 order, 3 calls, 43 836 states (with symmetry) | `TypeOK`, `OneWinner`, `WrittenOnce`, `HistoryExplainsStatus`, `StatusFollowsTable`, `ContractSpec` |
| `Checkout` | 2 requests, 2 items, 2 venues, 298 856 states | `TypeOK`, `LocksFollowTransactions`, `AnswersAreTrue`, `OrdersAreSound`, `SoldAsOffered`, `SaleSpec` |
| `CheckoutLive` | 3 requests, 2 connections, 31 264 states | `EveryRequestAnswered` |
| `Kitchen` | 1 order, 1 client, 2 lives, 2 faults, 57 030 states | `TypeOK`, `CookedOnce`, `PipelineInStep`, `NotCookedWhenCancelled`, `OrderDiscovered`, `OrderFinishesUnlessFault` |
| `KitchenPair` | 2 orders, pages of 1, 98 125 states | `OrderFinishesUnlessFault` |
| `Storefront` | 1 client, 2 items, 2 venues, 1 category, pages of 1, 254 996 states (with symmetry) | `TypeOK`, `CategoriesExplainItems`, `OnlyChangesSurprise` |
| `Server` | 1 change, 2 checkouts, 1 connection, 150 601 states | `TypeOK`, `AnswersAreLoggedAndTrue`, `StopIsGraceful`, `StopEnds`, `RequestsEnd` |
| `HistoryLoss` | 1 order, 1 call | a violation of `ChangeIsJournaled` |
| `CancelRefused` | 1 order, 2 calls | a violation of `CancelWhileAllowed` |
| `KitchenStranded` | 1 order, 1 fault | a violation of `OrderFinishes` |
| `KitchenStarved` | 2 orders, pages of 1, 1 fault | a violation of `OrderDiscovered` |
| `ServerKey` | 1 change | a violation of `UnauthorizedMeansBadKey` |

The properties, in short:

* `OneWinner`: no two moves of an order leave the same status. `WrittenOnce`: a
  move is in the history once. `HistoryExplainsStatus`: the moves in the
  history, on their way and lost form a path from the creation to the status.
  `StatusFollowsTable`: every change is a transition of the table.
  `ContractSpec`: the three statements implement `StatusContract`.
* `SoldAsOffered`: when an order is committed, its items are on the menu of its
  venue, available, at its prices. `OrdersAreSound`: its total is the price of
  its lines wherever an `int64` can hold it. `AnswersAreTrue`: 201 and a webhook
  only for an order that exists, 4xx only for none.
  `LocksFollowTransactions`: no lock outlives its transaction.
  `EveryRequestAnswered`: neither row locks nor the pool block for ever.
  `SaleSpec`: the transaction implements `Sale`.
* `OnlyChangesSurprise`: a client that orders what its menu showed is refused, or
  pays another price, only where the venue has written one of its items since.
  `CategoriesExplainItems`: the categories and the items of a menu fit together,
  up to a category of another venue or one that is newer than the categories.
* `AnswersAreLoggedAndTrue`: every answer has its line in the log with the status
  that was sent, also after a panic; 2xx for work done to the end, 4xx for none.
  `StopIsGraceful`: a stop within its 10 seconds disturbs no request.
  `StopEnds`: the process ends after a signal. `RequestsEnd`: an accepted request
  is answered, whatever other requests did to the pool.
* `CookedOnce`: of the pipelines of an order at most one gets past the accept.
  `NotCookedWhenCancelled`: an order whose COOKING was granted is not cancelled.
  `PipelineInStep`: a running pipeline and its order's status agree up to the
  answer under way. `OrderDiscovered`: a pipeline is started for every order
  that stays CREATED, and once more when a restart has killed it. `OrderFinishesUnlessFault`: without faults every order is
  completed or cancelled.

Why the bounds are enough: orders do not interact in `OrderLifecycle`, and the
status machine has no cycle, so one order with three calls shows the race of
two winners while a third still works with a status two changes old; a slot of
`Calls` is used again after it returns, so the number of calls in a row is not
bounded. Two checkouts and two items are enough for a deadlock, a price that
changes during a wait, an item of another venue and a total that wraps (`Word`
is 16); three requests and two connections are enough for waiting on rows and on
the pool at once. In `Kitchen` the webhook's pipeline and those of two lives of
the poller meet one client's cancel, and two faults let a call fail before and
after a restart; a page of one makes two orders compete. In `Storefront` the
clients do not meet:
one is enough for every order of its statements and the venues' writes; two items
make a cart of which only one line has changed, and two venues a page that is full. It leaves with its answer, so its
visit is forgotten then. In `Server` one connection makes every two requests
compete for the pool, at any stage, with a transaction open or not.

Fairness. In `Checkout` each request is weakly fair: a goroutine that can run
does, PostgreSQL answers a statement that need not wait and breaks deadlocks
(`deadlock_timeout`). In `Kitchen` the poller's ticks, the pipelines and the
calls core has begun are weakly fair. In `Server` the steps of a request are, and
those of `main`: the database answers, `Shutdown` polls and has a timer. A
request that waits for row locks is one that the database answers in the end
(`EveryRequestAnswered`). Nothing is assumed of clients, signals, venues,
webhooks or failures. `Poll` stands for a poll that succeeds: the ticker comes
back after one that fails, so that weak fairness says that not every poll fails.

Deadlock is checked in all passing runs but `KitchenPair`, which has no cancel
that could still be refused once both orders are completed, and `Server`, which
ends with its process.

## What the checks found

* **A status change can go unrecorded** (`HistoryLoss`). The UPDATE and the
  INSERT of `ChangeStatus` are not in one transaction. What holds is weaker:
  the history has gaps, and never a row of a change that was not made.
* **A cancel can be refused while it is allowed** (`CancelRefused`). A cancel
  that is overtaken by the accept answers 400 with the order ACCEPTED.
* **An order can be left unfinished for ever** (`KitchenStranded`). A pipeline
  ends at its first failed call, and nothing takes the order on.
* **An order can stay undiscovered** (`KitchenStarved`). Stuck orders that are
  newer fill the one page the poller reads.
* **A valid key can be called invalid** (`ServerKey`). `VenueAuth` answers 401 to
  any error of its query, so a venue is told that its key is wrong while the
  database is away, where every other error is a 500.

Plain from the code, without a run: `GET /venues` has one page, the first 20 by
name (`client/handlers.go:58`), while `avito-kuhnya-plan.md:374-375` calls the
client API implemented in full and lists the pagination of this endpoint.

Not counted as findings, because nothing in the repository says otherwise: a
history whose rows were inserted in another order than the changes were made in
(each call inserts its own, so the row of a cancel can come before that of the
accept it follows; `HistoryExplainsStatus` and `WrittenOnce` take the rows as a
set, as no code reads their order); `PATCH status` accepts every status of the table where the API lists four; a
total beyond an `int64` that wraps to a wrong number which is not negative
(`OrdersAreSound` excludes it); an order that exists although its client was
told 500; no reservation of stock (README.md disclaims it); an item under a
category of another venue, which its menu does not show
(`CategoriesExplainItems` has the exception); orders for a venue that is
deactivated; a process that keeps waiting for
a signal after its listener has failed (`deaf`); the row of a status change that
is lost when a stop takes longer than 10 seconds.

## What is proved

With TLAPS, for every value of the constants that satisfies the assumption of its
module. Every safety property of the passing runs is a theorem: every invariant,
every action property and both refinements. The assumptions say that `None` is no
venue and no request, that sizes are positive numbers, that carts are sequences
of items with integer quantities and prices are natural numbers, that a call is
one of a pipeline or of a client (`Kitchen`), a request a change or a checkout
(`Server`), and that `VenuesByName` lists the venues and `CityOf` has a city for
each (`Storefront`).
`OrderLifecycle` assumes nothing.

| Module | Theorem | States |
|---|---|---|
| `OrderLifecycleProofs` | `TypeCorrect`, `RaceHasOneWinner`, `HistoryWrittenOnce`, `HistoryIsAPath` | `TypeOK`, `OneWinner`, `WrittenOnce`, `HistoryExplainsStatus` |
| | `StatusNeverLeavesTable`, `RefinesContract` | `StatusFollowsTable`, `ContractSpec` |
| `CheckoutProofs` | `TypeCorrect`, `LocksAreReleased`, `AnswersNeverLie` | `TypeOK`, `LocksFollowTransactions`, `AnswersAreTrue` |
| | `CommittedAsOffered`, `RefinesSale` | `SoldAsOffered`, `SaleSpec` |
| `TotalProofs` | `TotalsStayExact` | `OrdersAreSound` |
| `KitchenProofs` | `TypeCorrect`, `CookedAtMostOnce`, `StaysInStep`, `NoCookingForCancelled` | `TypeOK`, `CookedOnce`, `PipelineInStep`, `NotCookedWhenCancelled` |
| `ServerProofs` | `TypeCorrect`, `AnswersLoggedAndTrue`, `StopsGracefully` | `TypeOK`, `AnswersAreLoggedAndTrue`, `StopIsGraceful` |
| `StorefrontProofs` | `TypeCorrect`, `MenusFitTogether`, `OnlyTheVenueSurprises` | `TypeOK`, `CategoriesExplainItems`, `OnlyChangesSurprise` |

The theorems of `Kitchen` are about `KitchenSpec`, without fairness; the others
about `Spec`. In each module `IInv` is the inductive invariant and `Invariance`
the theorem that it holds; there is one lemma per action (`...Keeps`), and the
properties follow. TLC found each `IInv` to hold on the instances of the runs
before it was proved.

**OrderLifecycle.** `IInv == TypeOK /\ CallsSound /\ OneWinner /\ WrittenOnce /\
HistoryExplainsStatus`. None of the safety properties is inductive alone. An
UPDATE keeps `OneWinner` because no earlier move left the present status; that is
so because every move left a status of lower rank than the present one, which is
part of `HistoryExplainsStatus`; and that stays true because `CallsSound`, an
invariant of the proof alone, says that the row a call is about to write is a
transition of the table, which raises the rank (`TableAdvances`). `AppendHistoryKeeps` and `AppendFailedKeeps` are cases
of `SettledKeeps` (a row changes from owed to written or lost, and the moves stay
what they are), and `QuietStep` is for the steps that touch neither table. The
refinement maps an idle call to `idle`, one before its UPDATE to `pending`, one
before its INSERT to `applied`, and shows every step to be a step of the
contract or, for `AppendHistory`, its end.

**Checkout.** `IInv` says of each request what it may rely on at its stage.
`LocksSound`: a row it has locked it is still using, and has read *as the row is
now*; that is what the venue's UPDATE, which waits for the lock, can not break,
and what `SoldAsOffered` needs at the commit, when no row of the order is missing
from the locks. `WishSound` keeps the outcome of the validation until then, and
`OutcomeSound` ties answers, webhooks and orders to the stage. The refinement
needs all three: a refusal must be true of the menu *when it is given*, which for
the locked rows is `LocksSound`; for a row that was not there at the lookup it is
`doomed`, and `Phase` becomes `doomed` in the same step, `Begin`, in which the
item is missing from the menu.

**The total.** `TotalIsSum` says that `Total`, which wraps after each product and
each sum, is the mathematical `Sum` of the lines when twice that is below `Word`:
the lines cost no less than 0, so every partial sum and every product is below
the whole. It is an induction over the lines, made by a least counterexample
(`Least`, `Induction`) as the library's rules of induction take an operator; the
recursive functions are shown to exist first (`RunExists`, `TotalRuns`,
`SumRuns`). `Totalled` then says that a committed order keeps the total that was
computed of its lines.

**Kitchen.** `Level` of a pipeline is what core has granted it, whether it has
heard so or not. `Unique`: of the pipelines of one order only one has a level
above 0, since the first grant is the transition to ACCEPTED, which leaves
CREATED for ever. `GrantSound`: an order with a pipeline of level *n* has a status
of its course from *n* on, or is CANCELLED when *n* is 1, so neither another
pipeline nor a client can move it past what the running pipeline asks for.
`StartSound` says that no pipeline is started twice: a webhook is delivered once,
and a poller of this life has what it started in `seen`.

**Server.** `RequestSound` says what a request has made visible at its stage, that
it holds a connection only for a statement or a transaction, and that what it is
about to answer is true. `PoolSound` counts the connections. `StopSound`: a stop in
time leaves the requests of before nothing to do, and none of them was cut.

**Storefront.** `ItemsSound`: an item that a menu showed as available is still the
venue's, and as it was shown unless the item is in `since`, for an item never
leaves its venue. `CategoriesSound`: a category that was there when they were read
is on the menu or another venue's, for ever. `OrderSound`: what is ordered was seen
available; so nothing dooms such an order, nothing in it is foreign, and a line
that lacks was written since (`OnlyTouchedIsRefused`).

Only model-checked: the liveness properties `EveryRequestAnswered`,
`OrderDiscovered`, `OrderFinishesUnlessFault`, `StopEnds` and `RequestsEnd`, since
liveness under fairness is out of reach of the proof system, as is anything that
says an action is ENABLED; and the violations, each of which is a behaviour of one
small instance.

## What is not modelled

`getOrder`, a read of one order by its id; request ids and the text of log lines,
configuration, generated types; `GetItem`, which nothing calls. The HTTP server
and the shutdown of `restaurant-service`: a stop of it is a `Restart` in `Kitchen`,
which forgets the same; `RejectOrder` of its client is called by nothing. Clients
do not retry a checkout: a second POST is another request, and what a client may
conclude before it repeats one is what `AnswersAreTrue` says. Time is not measured:
a timeout is a step that may be taken at any moment, which covers every ratio of
the 3, 5 and 10 seconds in the code.

## Plan

Order of work, the most important behaviour first. All steps are done.

1. `OrderStatus`, `StatusContract`, `OrderLifecycle`: status changes, the heart of
   the platform; runs `OrderLifecycle`, `HistoryLoss`, `CancelRefused`.
2. `OrderLifecycleProofs`: the inductive invariant, its theorems, the refinement.
3. `Checkout`: runs `Checkout`, `CheckoutLive`.
4. `Kitchen` on top of `StatusContract`: four runs.
5. `Sale`, and `Checkout` shown to implement it (in the run `Checkout`).
6. `Storefront` on top of `Sale`.
7. `Server`: the process, its pool and its middleware; runs `Server`, `ServerKey`.
8. `CheckoutProofs`: the locks, the answers, `SoldAsOffered`, and the refinement of
   `Sale`; `TotalProofs` for the sum.
9. `ServerProofs`: the stop and the answers.
10. `KitchenProofs`: one pipeline per order, and no food for a cancelled one.
11. `StorefrontProofs`: what can surprise a client.
