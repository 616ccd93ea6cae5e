------------------------------- MODULE Checkout -------------------------------
(***************************************************************************)
(* OrderUseCase.CreateOrder: requests of clients that order from the menu  *)
(* while venues edit it.                                                   *)
(*                                                                         *)
(* A request reads the venue, opens a transaction, locks the rows of the   *)
(* menu items in its cart (SELECT ... WHERE id = ANY($1) FOR UPDATE),      *)
(* validates what it has read, inserts the order, its lines and the first  *)
(* row of its history, commits, and only then notifies the venue.  The     *)
(* deferred Rollback ends the transaction on every other way out.          *)
(*                                                                         *)
(* PostgreSQL, from how the code uses it: READ COMMITTED; a statement sees *)
(* the rows that existed when it began, locks them one at a time, in any   *)
(* order as there is no ORDER BY, waits for a row that is locked and then  *)
(* reads its newest version; a deadlock is broken by an error in one of    *)
(* the transactions; a write that is not committed is seen by nobody.      *)
(*                                                                         *)
(* A request is used once.  It can end with "500" between any two steps:   *)
(* a statement fails, the context is cancelled, or core stops.             *)
(***************************************************************************)
EXTENDS Integers, FiniteSets, SequencesExt

CONSTANTS Requests,  \* POST /orders requests
          Items,     \* ids of menu_items
          Venues,    \* ids of venues
          Callbacks, \* the venues that have a callback_url
          Prices,    \* values of price_kopecks
          Carts,     \* what clients may ask for: sequences of [item, quantity]
          PoolSize,  \* connections of the pgx pool
          MaxInt4,   \* the largest quantity the column takes
          Word,      \* 2^64: total is an int64
          None       \* no venue, no holder

ASSUME CheckoutAssumption ==
  /\ Callbacks \subseteq Venues /\ None \notin Venues \cup Requests
  /\ Prices \subseteq Nat
  /\ Carts \subseteq Seq([item : Items, quantity : Int])
  /\ PoolSize \in Nat \ {0} /\ MaxInt4 \in Nat /\ Word \in Nat \ {0}

VARIABLES items,   \* Items -> the row of menu_items, NoItem where there is none
          locks,   \* Items -> the request whose transaction has locked the row
          reqs,    \* Requests -> the local state of CreateOrder
          orders,  \* Requests -> the order the request has committed, or NoOrder
          hooks    \* the requests whose order the venue was notified of

vars == <<items, locks, reqs, orders, hooks>>

Row == [venue : Venues \cup {None}, price : Prices \cup {0}, available : BOOLEAN]
NoItem == [venue |-> None, price |-> 0, available |-> FALSE]
Exists(i) == items[i].venue # None

NoOrder == [venue |-> None, lines |-> <<>>, total |-> 0]

New == [pc |-> "new", venue |-> None, cart |-> <<>>, found |-> {},
        read |-> [i \in Items |-> NoItem], answer |-> "none"]

Init ==
  /\ items \in [Items -> {NoItem} \cup
                  [venue : Venues, price : Prices, available : {TRUE}]]
  /\ locks = [i \in Items |-> None]
  /\ reqs = [r \in Requests |-> New]
  /\ orders = [r \in Requests |-> NoOrder]
  /\ hooks = {}

Goto(r, pc) == reqs' = [reqs EXCEPT ![r].pc = pc]

\* A request that is answered: of its local state only the answer is left.
Answer(r, a) == reqs' = [reqs EXCEPT ![r] =
                  [New EXCEPT !.pc = "done", !.answer = a]]

\* The end of the transaction frees the rows it has locked.
Unlock(r) == locks' = [i \in Items |-> IF locks[i] = r THEN None ELSE locks[i]]

\* A slip: there is no deferred Rollback.
RollbackForgotten(r, a) == Answer(r, a) /\ UNCHANGED <<items, locks, orders, hooks>>

\* The deferred Rollback: nothing the transaction wrote was visible.
Rollback(r, a) == Answer(r, a) /\ Unlock(r) /\ UNCHANGED <<items, orders, hooks>>

\* A transaction keeps its connection from Begin to its end; every other
\* statement takes one from the pool and gives it back.
InTx == {"lock", "insert", "history", "commit"}
ConnectionFree == Cardinality({r \in Requests : reqs[r].pc \in InTx}) < PoolSize
-----------------------------------------------------------------------------
\* Slips: operators below as an error in the code would make them.  They are no
\* part of the specification; each breaks one of its properties.

\* total += item.PriceKopecks.
TotalOfPrices(lines) == FoldLeft(LAMBDA total, l : total + l.price, 0, lines)

\* AppendStatusHistory(ctx, nil, ...): another connection, out of the pool.
AppendHistoryFromPool(r) ==
  /\ reqs[r].pc = "history"
  /\ ConnectionFree
  /\ Goto(r, "commit")
  /\ UNCHANGED <<items, locks, orders, hooks>>

\* The venue is notified before the commit.
AppendHistoryAndNotify(r) ==
  /\ reqs[r].pc = "history"
  /\ Goto(r, "commit")
  /\ hooks' = IF reqs[r].venue \in Callbacks THEN hooks \cup {r} ELSE hooks
  /\ UNCHANGED <<items, locks, orders>>

\* The handler answers 200 where the API says 201.
NotifyAnswers200(r) ==
  /\ reqs[r].pc = "notify"
  /\ hooks' = IF reqs[r].venue \in Callbacks THEN hooks \cup {r} ELSE hooks
  /\ Answer(r, "200")
  /\ UNCHANGED <<items, locks, orders>>
-----------------------------------------------------------------------------
\* Steps of CreateOrder.

Receive(r, v, cart) ==
  /\ reqs[r].pc = "new"
  /\ IF cart = <<>>
       THEN Answer(r, "400")
       ELSE reqs' = [reqs EXCEPT ![r].pc = "venue", ![r].venue = v, ![r].cart = cart]
  /\ UNCHANGED <<items, locks, orders, hooks>>

\* venues.GetByID; None stands for an id that no venue has.
FindVenue(r) ==
  /\ reqs[r].pc = "venue"
  /\ ConnectionFree
  /\ IF reqs[r].venue = None THEN Answer(r, "404") ELSE Goto(r, "begin")
  /\ UNCHANGED <<items, locks, orders, hooks>>

\* tx.Begin, and GetItemsForUpdate begins: the rows it will return are those
\* that exist now.
Begin(r) ==
  /\ reqs[r].pc = "begin"
  /\ ConnectionFree
  /\ reqs' = [reqs EXCEPT ![r].pc = "lock",
       ![r].found = {i \in Items : /\ Exists(i)
                                   /\ \E n \in DOMAIN reqs[r].cart :
                                        reqs[r].cart[n].item = i}]
  /\ UNCHANGED <<items, locks, orders, hooks>>

Missing(r) == {i \in reqs[r].found : locks[i] # r}

\* GetItemsForUpdate locks one more row and reads it as it is now.
LockRow(r, i) ==
  /\ reqs[r].pc = "lock"
  /\ i \in Missing(r)
  /\ locks[i] = None
  /\ locks' = [locks EXCEPT ![i] = r]
  /\ reqs' = [reqs EXCEPT ![r].read[i] = items[i]]
  /\ UNCHANGED <<items, orders, hooks>>

\* The validation loop.  An item of another venue ends it at once; an item
\* that is not found, not available or asked for in no quantity is collected.
OtherVenue(r) ==
  \E n \in DOMAIN reqs[r].cart :
    LET i == reqs[r].cart[n].item IN
    i \in reqs[r].found /\ reqs[r].read[i].venue # reqs[r].venue

Unavailable(r) ==
  {n \in DOMAIN reqs[r].cart :
     LET i == reqs[r].cart[n].item IN
     \/ i \notin reqs[r].found
     \/ ~reqs[r].read[i].available
     \/ reqs[r].cart[n].quantity <= 0}

\* A slip: GetItemsForUpdate queries the pool and not the transaction, so that
\* the rows are unlocked as soon as they are read.
ValidateUnlocked(r) ==
  /\ reqs[r].pc = "lock"
  /\ Missing(r) = {}
  /\ IF OtherVenue(r) \/ Unavailable(r) # {}
       THEN Rollback(r, "409")
       ELSE Goto(r, "insert") /\ Unlock(r) /\ UNCHANGED <<items, orders, hooks>>

\* A slip: an item of another venue is reported with the unavailable ones.
ValidateTogether(r) ==
  /\ reqs[r].pc = "lock"
  /\ Missing(r) = {}
  /\ IF OtherVenue(r) \/ Unavailable(r) # {}
       THEN Rollback(r, "409")
       ELSE Goto(r, "insert") /\ UNCHANGED <<items, locks, orders, hooks>>

\* GetItemsForUpdate has every row: validate them.
Validate(r) ==
  /\ reqs[r].pc = "lock"
  /\ Missing(r) = {}
  /\ \/ OtherVenue(r) /\ Rollback(r, "400")
     \/ ~OtherVenue(r) /\ Unavailable(r) # {} /\ Rollback(r, "409")
     \/ /\ ~OtherVenue(r) /\ Unavailable(r) = {}
        /\ Goto(r, "insert")
        /\ UNCHANGED <<items, locks, orders, hooks>>

Wrap(n) == LET m == n % Word IN IF 2 * m < Word THEN m ELSE m - Word

\* total += item.PriceKopecks * int64(in.Quantity), line after line.
Total(lines) ==
  LET total[n \in 0..Len(lines)] ==
        IF n = 0 THEN 0
                 ELSE Wrap(total[n - 1] + Wrap(lines[n].price * lines[n].quantity))
  IN  total[Len(lines)]

\* The order and its lines, with the price that was read under the lock.
Lines(r) ==
  [n \in DOMAIN reqs[r].cart |->
     [item     |-> reqs[r].cart[n].item,
      price    |-> reqs[r].read[reqs[r].cart[n].item].price,
      quantity |-> reqs[r].cart[n].quantity]]

Order(r) == [venue |-> reqs[r].venue, lines |-> Lines(r), total |-> Total(Lines(r))]

\* orders.Create: the INSERTs fail where a CHECK or the width of a column does.
InsertOrder(r) ==
  /\ reqs[r].pc = "insert"
  /\ IF /\ Order(r).total >= 0
        /\ \A n \in DOMAIN Lines(r) : Lines(r)[n].quantity \in 1..MaxInt4
       THEN Goto(r, "history") /\ UNCHANGED <<items, locks, orders, hooks>>
       ELSE Rollback(r, "500")

\* AppendStatusHistory on the transaction's own connection.
AppendHistory(r) ==
  /\ reqs[r].pc = "history"
  /\ Goto(r, "commit")
  /\ UNCHANGED <<items, locks, orders, hooks>>

\* The order becomes visible; when the answer to COMMIT is lost the client is
\* told "500" and the venue is told nothing.
Commit(r) ==
  /\ reqs[r].pc = "commit"
  /\ orders' = [orders EXCEPT ![r] = Order(r)]
  /\ Unlock(r)
  /\ \/ Goto(r, "notify")
     \/ Answer(r, "500")
  /\ UNCHANGED <<items, hooks>>

\* NotifyNewOrder starts a delivery and waits for nothing; then 201, unless the
\* request ends before it is answered.
Notify(r) ==
  /\ reqs[r].pc = "notify"
  /\ hooks' = IF reqs[r].venue \in Callbacks THEN hooks \cup {r} ELSE hooks
  /\ \/ Answer(r, "201")
     \/ Answer(r, "500")
  /\ UNCHANGED <<items, locks, orders>>

\* The request ends early; what it has committed stays.
Fail(r) ==
  /\ reqs[r].pc \notin {"new", "done"}
  /\ Rollback(r, "500")

\* Every request of a set waits for rows that others of the set have locked.
Deadlocked(r) ==
  \E S \in SUBSET Requests :
    /\ r \in S
    /\ \A s \in S : /\ reqs[s].pc = "lock" /\ Missing(s) # {}
                    /\ \A i \in Missing(s) : locks[i] \in S \ {s}

DeadlockAbort(r) == Deadlocked(r) /\ Rollback(r, "500")
-----------------------------------------------------------------------------
\* Statements of the venue API, each a transaction of its own that waits for
\* the lock of its row.  UpdateItem has no route yet.

CreateItem(i, v, price) ==
  /\ ~Exists(i)
  /\ items' = [items EXCEPT ![i] = [venue |-> v, price |-> price, available |-> TRUE]]
  /\ UNCHANGED <<locks, reqs, orders, hooks>>

SetAvailability(i, available) ==
  /\ Exists(i) /\ locks[i] = None
  /\ items' = [items EXCEPT ![i].available = available]
  /\ UNCHANGED <<locks, reqs, orders, hooks>>

UpdateItem(i, price) ==
  /\ Exists(i) /\ locks[i] = None
  /\ items' = [items EXCEPT ![i].price = price]
  /\ UNCHANGED <<locks, reqs, orders, hooks>>
-----------------------------------------------------------------------------
Step(r) == \/ FindVenue(r) \/ Begin(r) \/ (\E i \in Items : LockRow(r, i))
           \/ Validate(r) \/ InsertOrder(r) \/ AppendHistory(r)
           \/ Commit(r) \/ Notify(r) \/ DeadlockAbort(r)

EditMenu ==
  \E i \in Items :
    \/ \E v \in Venues, price \in Prices : CreateItem(i, v, price)
    \/ \E available \in BOOLEAN : SetAvailability(i, available)
    \/ \E price \in Prices : UpdateItem(i, price)

Next ==
  \/ \E r \in Requests, v \in Venues \cup {None}, cart \in Carts : Receive(r, v, cart)
  \/ \E r \in Requests : Step(r) \/ Fail(r)
  \/ EditMenu

Spec == Init /\ [][Next]_vars

\* A goroutine that can run does, and PostgreSQL answers a statement that need
\* not wait and breaks deadlocks; clients, venues and failures owe nothing.
FairSpec == Spec /\ \A r \in Requests : WF_vars(Step(r))
-----------------------------------------------------------------------------
\* Every variable keeps its shape.
TypeOK ==
  /\ items \in [Items -> Row]
  /\ locks \in [Items -> Requests \cup {None}]
  /\ \A r \in Requests :
       /\ reqs[r].pc \in {"new", "venue", "begin", "notify", "done"} \cup InTx
       /\ reqs[r].venue \in Venues \cup {None}
       /\ reqs[r].cart \in Carts \cup {<<>>}
       /\ reqs[r].found \subseteq Items
       /\ reqs[r].read \in [Items -> Row]
       /\ reqs[r].answer \in {"none", "201", "400", "404", "409", "500"}
       /\ orders[r] # NoOrder => orders[r].venue \in Venues
  /\ hooks \subseteq Requests

\* A row stays locked only as long as the transaction that locked it is open,
\* on every way out of CreateOrder, and that transaction holds every row it has
\* read from the moment it has validated them.
LocksFollowTransactions ==
  /\ \A i \in Items : locks[i] # None =>
       reqs[locks[i]].pc \in InTx /\ i \in reqs[locks[i]].found
  /\ \A r \in Requests : reqs[r].pc \in InTx \ {"lock"} => Missing(r) = {}

\* What comment 2 of CreateOrder is about: at the moment an order is committed
\* each of its items is on the menu of the order's venue, is available, and
\* costs what the order says, however long ago the client looked at the menu
\* and whatever the venue has changed since.
SoldAsOffered ==
  [][\A r \in Requests : orders'[r] # orders[r] =>
       \A n \in DOMAIN orders'[r].lines :
         LET l == orders'[r].lines[n] IN
         items[l.item] = [venue |-> orders'[r].venue, price |-> l.price,
                          available |-> TRUE]]_vars

\* The answer to the client and the notification of the venue are true of what
\* is committed: 201 and a webhook only for an order that exists, 4xx only when
\* there is none.  Only "500" leaves the client in doubt.
AnswersAreTrue ==
  \A r \in Requests :
    /\ reqs[r].answer = "201" \/ r \in hooks => orders[r] # NoOrder
    /\ reqs[r].answer \in {"400", "404", "409"} => orders[r] = NoOrder

\* No line of a committed order is for more or less than the client may ask for,
\* there is one, and the total is not negative.
OrdersKeepChecks ==
  \A r \in Requests : orders[r] # NoOrder =>
    /\ orders[r].lines # <<>>
    /\ \A n \in DOMAIN orders[r].lines : orders[r].lines[n].quantity \in 1..MaxInt4
    /\ orders[r].total >= 0

Sum(lines) ==
  LET sum[n \in 0..Len(lines)] ==
        IF n = 0 THEN 0 ELSE sum[n - 1] + lines[n].price * lines[n].quantity
  IN  sum[Len(lines)]

\* The total of a committed order is the price of its lines wherever an int64
\* can hold it.
TotalsAreExact ==
  \A r \in Requests :
    orders[r] # NoOrder /\ 2 * Sum(orders[r].lines) < Word =>
      orders[r].total = Sum(orders[r].lines)

\* What the database and the client may rely on in a committed order.
OrdersAreSound == OrdersKeepChecks /\ TotalsAreExact

\* CreateOrder is a sale in one step.  What its client sees of a request: it is
\* open until it is sold or answered, and doomed once the rows to be locked are
\* too few for its cart.
Phase(r) ==
  CASE reqs[r].pc \in {"venue", "begin"} -> "open"
    [] reqs[r].pc \in InTx ->
         IF \A n \in DOMAIN reqs[r].cart : reqs[r].cart[n].item \in reqs[r].found
           THEN "open" ELSE "doomed"
    [] reqs[r].pc = "notify" -> "sold"
    [] OTHER -> reqs[r].pc

salePhase  == [r \in Requests |-> Phase(r)]
saleWish   == [r \in Requests |-> [venue |-> reqs[r].venue, cart |-> reqs[r].cart]]
saleAnswer == [r \in Requests |-> reqs[r].answer]
saleSold   == [r \in Requests |-> [venue |-> orders[r].venue, lines |-> orders[r].lines]]

AtOnce == INSTANCE Sale WITH menu <- items, phase <- salePhase, wish <- saleWish,
                             answer <- saleAnswer, sold <- saleSold, told <- hooks

\* CreateOrder implements Sale: each order is as if it had been placed in one
\* step against the menu of that moment, each refusal has its reason, which is
\* still there when the client is refused, and nothing else can be seen.
SaleSpec == AtOnce!SaleSpec

\* Every request that core has received is answered: no two transactions wait
\* for each other's rows for ever, and none waits for a connection that only
\* waiting requests hold.
EveryRequestAnswered ==
  \A r \in Requests : reqs[r].pc # "new" ~> reqs[r].pc = "done"
==============================================================================
