------------------------------- MODULE Kitchen --------------------------------
(***************************************************************************)
(* restaurant-service at work on the orders of its venue: the webhook      *)
(* handler, the poller, and the pipelines that accept an order and take it *)
(* from status to status, against core and against clients that cancel.    *)
(* Of core this module needs what StatusContract promises of a status      *)
(* change, the list of new orders and the notification after a checkout.   *)
(*                                                                         *)
(* A pipeline is the goroutine of one HandleNewOrder.  The webhook, which  *)
(* core sends once, starts at most one per order, and so does the poller   *)
(* in each life of the process: what it has seen is in memory only.  So a  *)
(* pipeline is named <<order, 0>> for the webhook's and <<order, life>>    *)
(* for a poller's, and makes its calls to core one after the other.        *)
(*                                                                         *)
(* Webhooks may get lost freely, a poll may fail and is then repeated.     *)
(* Everything else that goes wrong is a fault and counted: a call that     *)
(* fails in core, a call whose answer does not arrive within 5 seconds     *)
(* while core goes on with it, a restart of restaurant-service.            *)
(***************************************************************************)
EXTENDS StatusContract, SequencesExt, Integers

CONSTANTS Clients,    \* clients that cancel, each by a call of its own
          PageSize,   \* orders that GET /orders returns at most
          Lives,      \* bound: runs of the process restaurant-service
          MaxFaults   \* bound: faults

Pipelines == Orders \X (0..Lives)

ASSUME KitchenAssumption ==
  /\ PageSize \in Nat \ {0} /\ Lives \in Nat \ {0} /\ MaxFaults \in Nat
  /\ Calls = Pipelines \cup Clients
  /\ Pipelines \cap Clients = {}

VARIABLES placed,    \* the orders of the venue, as their created_at sorts them
          hooks,     \* notifications under way
          life,      \* the present run of the process
          seen,      \* the poller's map of orders it has handed on
          pipeline,  \* Pipelines -> how far HandleNewOrder is
          faults     \* faults so far

kitchenVars == <<placed, hooks, life, seen, pipeline, faults>>
vars == <<contractVars, kitchenVars>>

\* A slip, no part of the specification: the last status is forgotten.
CourseUnfinished == <<"ACCEPTED", "COOKING", "READY", "DELIVERING">>

\* What a pipeline asks of core, in this order.
Course == <<"ACCEPTED", "COOKING", "READY", "DELIVERING", "COMPLETED">>

\* done: the requests that core has answered with 204.
Pipeline == [state : {"none", "ready", "waiting", "returned", "failed", "killed"},
             done  : 0..Len(Course)]

OrderOf(p) == p[1]
Asked(p) == Course[pipeline[p].done + 1]
Alive(p) == pipeline[p].state \in {"ready", "waiting"}

KitchenInit ==
  /\ Init
  /\ placed = <<>> /\ hooks = {} /\ life = 1 /\ seen = {} /\ faults = 0
  /\ pipeline = [p \in Pipelines |-> [state |-> "none", done |-> 0]]

Goto(p, state) == pipeline' = [pipeline EXCEPT ![p].state = state]

Fault == faults < MaxFaults /\ faults' = faults + 1
-----------------------------------------------------------------------------
\* Core.

\* CreateOrder commits, and notifies a venue that has a callback_url.  The
\* created_at of the order is the beginning of its transaction, so it may sort
\* before orders that were committed earlier.
PlaceOrder(o) ==
  /\ Create(o)
  /\ \E n \in 1..Len(placed) + 1 : placed' = InsertAt(placed, n, o)
  /\ hooks' \in {hooks, hooks \cup {o}}
  /\ UNCHANGED <<life, seen, pipeline, faults>>

\* The goroutine of NotifyNewOrder fails or core stops: there is no retry.
LoseHook(o) ==
  /\ o \in hooks
  /\ hooks' = hooks \ {o}
  /\ UNCHANGED <<contractVars, placed, life, seen, pipeline, faults>>

\* A call to ChangeStatus goes on.
CoreStep(c) == (Overtaken(c) \/ Effect(c) \/ Succeed(c)) /\ UNCHANGED kitchenVars

\* A call fails in core, before or after it had its effect.
CoreFails(c) ==
  /\ Fault /\ Fail(c)
  /\ UNCHANGED <<placed, hooks, life, seen, pipeline>>

\* A client cancels.
ClientCancel(c, o) ==
  /\ Invoke(c, o, "CANCELLED") \/ Refuse(c, o, "CANCELLED")
  /\ UNCHANGED kitchenVars
-----------------------------------------------------------------------------
\* restaurant-service.

\* The webhook handler starts a pipeline without asking what the poller has
\* seen; it answers 202 at once.
ReceiveHook(o) ==
  /\ o \in hooks
  /\ hooks' = hooks \ {o}
  /\ Goto(<<o, 0>>, "ready")
  /\ UNCHANGED <<contractVars, placed, life, seen, faults>>

\* The orders of the venue that have the status, by their places in the order of
\* created_at, and the page of the newest of them.
ListByVenue(s) == {n \in DOMAIN placed : status[placed[n]] = s}

Newest(list) ==
  {placed[n] : n \in {m \in list : Cardinality({k \in list : k > m}) < PageSize}}

\* GET /orders?status=CREATED: the newest orders, one page of them.
NewOrders == Newest(ListByVenue("CREATED"))

\* A slip: the poller takes every order so far for seen, on the page or not.
PollMarksAll ==
  /\ NewOrders \ seen # {}
  /\ seen' = {placed[n] : n \in DOMAIN placed}
  /\ pipeline' = [p \in Pipelines |->
       IF OrderOf(p) \in NewOrders \ seen /\ p[2] = life
         THEN [state |-> "ready", done |-> 0] ELSE pipeline[p]]
  /\ UNCHANGED <<contractVars, placed, hooks, life, faults>>

\* A tick of the poller: every order of the page it has not seen yet is marked
\* as seen and gets a pipeline.
Poll ==
  /\ NewOrders \ seen # {}
  /\ seen' = seen \cup NewOrders
  /\ pipeline' = [p \in Pipelines |->
       IF OrderOf(p) \in NewOrders \ seen /\ p[2] = life
         THEN [state |-> "ready", done |-> 0] ELSE pipeline[p]]
  /\ UNCHANGED <<contractVars, placed, hooks, life, faults>>

\* AcceptOrder, or UpdateStatus after its delay.
Request(p) ==
  /\ pipeline[p].state = "ready"
  /\ Goto(p, "waiting")
  /\ \/ /\ Invoke(p, OrderOf(p), Asked(p)) \/ Refuse(p, OrderOf(p), Asked(p))
        /\ UNCHANGED faults
     \/ Fault /\ FailEarly(p)
  /\ UNCHANGED <<placed, hooks, life, seen>>

\* Slips: the loop over the statuses runs once too often; the status of the
\* response is not looked at.
AnsweredOnceMore(p) ==
  /\ pipeline[p].state = "waiting"
  /\ call[p].phase = "idle"
  /\ IF call[p].answer = "204"
       THEN pipeline' = [pipeline EXCEPT ![p] =
              [state |-> "ready", done |-> pipeline[p].done + 1]]
       ELSE Goto(p, "failed")
  /\ UNCHANGED <<contractVars, placed, hooks, life, seen, faults>>

AnsweredUnchecked(p) ==
  /\ pipeline[p].state = "waiting"
  /\ call[p].phase = "idle"
  /\ LET done == pipeline[p].done + 1 IN
     pipeline' = [pipeline EXCEPT ![p] =
       [state |-> IF done = Len(Course) THEN "returned" ELSE "ready",
        done  |-> done]]
  /\ UNCHANGED <<contractVars, placed, hooks, life, seen, faults>>

\* The answer: 204 takes the pipeline on, and to its end after COMPLETED; any
\* other status ends it.
Answered(p) ==
  /\ pipeline[p].state = "waiting"
  /\ call[p].phase = "idle"
  /\ IF call[p].answer = "204"
       THEN LET done == pipeline[p].done + 1 IN
            pipeline' = [pipeline EXCEPT ![p] =
              [state |-> IF done = Len(Course) THEN "returned" ELSE "ready",
               done  |-> done]]
       ELSE Goto(p, "failed")
  /\ UNCHANGED <<contractVars, placed, hooks, life, seen, faults>>

\* A slip: an error of the transport is logged and the loop goes on.
TimeOutIgnored(p) ==
  /\ Fault
  /\ pipeline[p].state = "waiting"
  /\ pipeline[p].done + 1 < Len(Course)
  /\ pipeline' = [pipeline EXCEPT ![p] =
       [state |-> "ready", done |-> pipeline[p].done + 1]]
  /\ UNCHANGED <<contractVars, placed, hooks, life, seen>>

\* The client's 5 seconds are over, or the connection is lost.
TimeOut(p) ==
  /\ Fault
  /\ pipeline[p].state = "waiting"
  /\ Goto(p, "failed")
  /\ UNCHANGED <<contractVars, placed, hooks, life, seen>>

\* A slip: what the poller has seen outlives the process, the pipelines do not.
RestartRemembers ==
  /\ Fault
  /\ life < Lives
  /\ life' = life + 1
  /\ pipeline' = [p \in Pipelines |->
       IF Alive(p) THEN [pipeline[p] EXCEPT !.state = "killed"] ELSE pipeline[p]]
  /\ UNCHANGED <<contractVars, placed, hooks, seen>>

\* The process ends, with its goroutines and the poller's map, and starts anew.
Restart ==
  /\ Fault
  /\ life < Lives
  /\ life' = life + 1
  /\ seen' = {}
  /\ pipeline' = [p \in Pipelines |->
       IF Alive(p) THEN [pipeline[p] EXCEPT !.state = "killed"] ELSE pipeline[p]]
  /\ UNCHANGED <<contractVars, placed, hooks>>
-----------------------------------------------------------------------------
KitchenNext ==
  \/ \E o \in Orders : PlaceOrder(o) \/ LoseHook(o) \/ ReceiveHook(o)
  \/ \E c \in Calls : CoreStep(c) \/ CoreFails(c)
  \/ \E c \in Clients, o \in Orders : ClientCancel(c, o)
  \/ \E p \in Pipelines : Request(p) \/ Answered(p) \/ TimeOut(p)
  \/ Poll
  \/ Restart

KitchenSpec == KitchenInit /\ [][KitchenNext]_vars

\* The ticker ticks and some poll succeeds, core answers the calls it has
\* begun, and a goroutine that can run does.  Nobody has to order, to cancel,
\* to deliver a webhook or to fail.
Fairness ==
  /\ WF_vars(Poll)
  /\ \A c \in Calls : WF_vars(CoreStep(c))
  /\ \A p \in Pipelines : WF_vars(Request(p)) /\ WF_vars(Answered(p))

FairSpec == KitchenSpec /\ Fairness
-----------------------------------------------------------------------------
\* Every variable keeps its type, and a pipeline that runs has something left to
\* ask for.
TypeOK ==
  /\ status \in [Orders -> OrderStatuses \cup {NoStatus}]
  /\ call \in [Calls -> Call]
  /\ placed \in Seq(Orders)
  /\ hooks \subseteq Orders /\ seen \subseteq Orders
  /\ life \in 1..Lives /\ faults \in 0..MaxFaults
  /\ pipeline \in [Pipelines -> Pipeline]
  /\ \A p \in Pipelines : Alive(p) => pipeline[p].done < Len(Course)

\* Webhook and poller may both find an order, and the pollers of two lives, but
\* at most one of their pipelines gets past the accept: nobody cooks an order
\* twice.
CookedOnce ==
  \A p, q \in Pipelines :
    OrderOf(p) = OrderOf(q) /\ pipeline[p].done > 0 /\ pipeline[q].done > 0
    => p = q

\* A pipeline that still runs and the status of its order keep in step: the
\* status is what the pipeline was told last, or what it is asking for now, or
\* the client has cancelled before COOKING was granted.
PipelineInStep ==
  \A p \in Pipelines : Alive(p) /\ pipeline[p].done > 0 =>
    \/ status[OrderOf(p)] = Course[pipeline[p].done]
    \/ pipeline[p].state = "waiting" /\ status[OrderOf(p)] = Asked(p)
    \/ pipeline[p].done = 1 /\ status[OrderOf(p)] = "CANCELLED"

\* No food for a cancelled order: once a pipeline was told to cook, whatever
\* became of it, the order is not cancelled.
NotCookedWhenCancelled ==
  \A p \in Pipelines :
    pipeline[p].done > 1 => status[OrderOf(p)] # "CANCELLED"

\* What the comments of OrderNotifier and NotifyNewOrder say: the venue learns
\* of a new order, by polling if not by its webhook.  As long as the order is new
\* a pipeline that a restart has killed does not count: it is found once more.
OrderDiscovered ==
  \A o \in Orders :
    status[o] = "CREATED" ~>
      \/ status[o] # "CREATED"
      \/ \E p \in Pipelines :
           OrderOf(p) = o /\ pipeline[p].state \notin {"none", "killed"}

\* As long as nothing fails, restaurant-service takes every order through the
\* statuses to the end, or its client has cancelled it: neither the race of the
\* two pipelines of an order nor a page full of other orders leaves it behind.
OrderFinishesUnlessFault ==
  \A o \in Orders : status[o] = "CREATED" ~> status[o] \in Final \/ faults > 0

\* What the README says of an order placed at the demo venue, and the client's
\* journey of every order: restaurant-service takes it through the statuses by
\* itself, until it is completed or the client has cancelled it.
OrderFinishes ==
  \A o \in Orders : status[o] = "CREATED" ~> status[o] \in Final
==============================================================================
