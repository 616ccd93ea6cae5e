--------------------------------- MODULE Sale ---------------------------------
(***************************************************************************)
(* What placing an order promises a client, without transactions, locks or *)
(* connections.  An order is sold in one step, against the menu of that    *)
(* moment: every line is on the menu of the venue, available, at the price *)
(* it has then.  A request is refused only for a reason, and it may lapse  *)
(* at any time with "500", after which nobody but the database knows       *)
(* whether the order was sold.  Checkout implements this specification and *)
(* Storefront is built on it.                                              *)
(***************************************************************************)
EXTENDS Integers, Sequences

CONSTANTS Requests,  \* POST /orders requests
          Items,     \* ids of menu_items
          Venues,    \* ids of venues
          Callbacks, \* the venues that have a callback_url
          Prices,    \* values of price_kopecks
          Carts,     \* what clients may ask for: sequences of [item, quantity]
          None       \* no venue

VARIABLES menu,     \* Items -> what the venue offers, NoItem where there is none
          phase,    \* Requests -> how far the request has come
          wish,     \* Requests -> what an open request asks for, else Nothing
          answer,   \* Requests -> the status it was answered, or "none"
          sold,     \* Requests -> what was sold to it, or Unsold
          told      \* the requests whose order the venue was notified of

sale == <<menu, phase, wish, answer, sold, told>>

NoItem == [venue |-> None, price |-> 0, available |-> FALSE]
OnMenu(i) == menu[i].venue # None

Nothing == [venue |-> None, cart |-> <<>>]
Unsold == [venue |-> None, lines |-> <<>>]

Answer(r, a) ==
  /\ phase' = [phase EXCEPT ![r] = "done"]
  /\ wish' = [wish EXCEPT ![r] = Nothing]
  /\ answer' = [answer EXCEPT ![r] = a]

\* "doomed" is a request that can no longer be sold: an item was missing.
Turn(r, p) == phase' = [phase EXCEPT ![r] = p] /\ UNCHANGED <<wish, answer>>

SaleInit ==
  /\ menu \in [Items -> {NoItem} \cup
                 [venue : Venues, price : Prices, available : {TRUE}]]
  /\ phase = [r \in Requests |-> "new"]
  /\ wish = [r \in Requests |-> Nothing]
  /\ answer = [r \in Requests |-> "none"]
  /\ sold = [r \in Requests |-> Unsold]
  /\ told = {}

\* A request comes in; an empty one is answered at once.
Come(r, v, cart) ==
  /\ phase[r] = "new"
  /\ \/ cart = <<>> /\ Answer(r, "400")
     \/ /\ cart # <<>>
        /\ phase' = [phase EXCEPT ![r] = "open"]
        /\ wish' = [wish EXCEPT ![r] = [venue |-> v, cart |-> cart]]
        /\ UNCHANGED answer
  /\ UNCHANGED <<menu, sold, told>>

NoVenue(r) ==
  /\ phase[r] = "open"
  /\ wish[r].venue = None
  /\ Answer(r, "404")
  /\ UNCHANGED <<menu, sold, told>>

\* The lines of the cart that can not be sold now.
Lacking(r) ==
  {n \in DOMAIN wish[r].cart :
     LET line == wish[r].cart[n] IN
     ~OnMenu(line.item) \/ ~menu[line.item].available \/ line.quantity <= 0}

Foreign(r) ==
  \E n \in DOMAIN wish[r].cart :
    LET i == wish[r].cart[n].item IN
    OnMenu(i) /\ menu[i].venue # wish[r].venue

\* What is missing when the items are looked up stays missing for the request.
Doom(r) ==
  /\ phase[r] = "open"
  /\ \E n \in DOMAIN wish[r].cart : ~OnMenu(wish[r].cart[n].item)
  /\ Turn(r, "doomed")
  /\ UNCHANGED <<menu, sold, told>>

Refuse(r) ==
  /\ phase[r] \in {"open", "doomed"}
  /\ \/ Foreign(r) /\ Answer(r, "400")
     \/ phase[r] = "doomed" /\ Answer(r, "409")
     \/ ~Foreign(r) /\ Lacking(r) # {} /\ Answer(r, "409")
  /\ UNCHANGED <<menu, sold, told>>

Offer(r) ==
  [venue |-> wish[r].venue,
   lines |-> [n \in DOMAIN wish[r].cart |->
                LET line == wish[r].cart[n] IN
                [item |-> line.item, price |-> menu[line.item].price,
                 quantity |-> line.quantity]]]

Sell(r) ==
  /\ phase[r] = "open"
  /\ ~Foreign(r) /\ Lacking(r) = {}
  /\ sold' = [sold EXCEPT ![r] = Offer(r)]
  /\ \/ Turn(r, "sold")
     \/ Answer(r, "500")
  /\ UNCHANGED <<menu, told>>

Confirm(r) ==
  /\ phase[r] = "sold"
  /\ told' = IF wish[r].venue \in Callbacks THEN told \cup {r} ELSE told
  /\ \/ Answer(r, "201")
     \/ Answer(r, "500")
  /\ UNCHANGED <<menu, sold>>

Lapse(r) ==
  /\ phase[r] \notin {"new", "done"}
  /\ Answer(r, "500")
  /\ UNCHANGED <<menu, sold, told>>

\* The venue may do anything to its menu but take an item away or give it to
\* another venue.
List(i, v, price) ==
  /\ ~OnMenu(i)
  /\ menu' = [menu EXCEPT ![i] = [venue |-> v, price |-> price, available |-> TRUE]]

Alter(i, price, available) ==
  /\ OnMenu(i)
  /\ menu' = [menu EXCEPT ![i].price = price, ![i].available = available]

Edit ==
  /\ UNCHANGED <<phase, wish, answer, sold, told>>
  /\ \E i \in Items, price \in Prices :
       \/ \E v \in Venues : List(i, v, price)
       \/ \E available \in BOOLEAN : Alter(i, price, available)

Settle(r) == NoVenue(r) \/ Doom(r) \/ Refuse(r) \/ Sell(r) \/ Confirm(r) \/ Lapse(r)

SaleNext ==
  \/ \E r \in Requests :
       /\ phase[r] = "new"
       /\ \E v \in Venues \cup {None}, cart \in Carts : Come(r, v, cart)
  \/ \E r \in Requests : Settle(r)
  \/ Edit

SaleSpec == SaleInit /\ [][SaleNext]_sale
==============================================================================
