---------------------------- MODULE CheckoutProofs ----------------------------
(***************************************************************************)
(* Theorems about Checkout for any requests, items, venues, prices, carts  *)
(* and sizes.                                                              *)
(*                                                                         *)
(* The inductive invariant says of every request on its own what it may    *)
(* rely on at its stage: a step of one request changes nothing that        *)
(* another one relies on, and the venue changes no row that is locked.     *)
(***************************************************************************)
EXTENDS Checkout, TLAPS

Stages == {"new", "venue", "begin", "notify", "done"} \cup InTx
Replies == {"none", "201", "400", "404", "409", "500"}

Request == [pc : Stages, venue : Venues \cup {None}, cart : Carts \cup {<<>>},
            found : SUBSET Items, read : [Items -> Row], answer : Replies]

\* The types the steps of the proof need; TypeOK follows.
Typed ==
  /\ items \in [Items -> Row]
  /\ locks \in [Items -> Requests \cup {None}]
  /\ reqs \in [Requests -> Request]
  /\ DOMAIN orders = Requests
  /\ hooks \subseteq Requests

\* An item that exists has a price.
Priced == \A i \in Items : Exists(i) => items[i].price \in Prices

\* What a request has locked it is still using, and has read as it is now.
LocksSound(r) ==
  /\ \A i \in Items : locks[i] = r =>
       reqs[r].pc \in InTx /\ i \in reqs[r].found /\ reqs[r].read[i] = items[i]
  /\ reqs[r].pc \in InTx \ {"lock"} => Missing(r) = {}
  /\ \A i \in reqs[r].found : Exists(i)

\* What a request asks for, and that its validation has found it sound.
WishSound(r) ==
  /\ reqs[r].pc \in {"new", "done"} => reqs[r].venue = None /\ reqs[r].cart = <<>>
  /\ reqs[r].pc \notin {"new", "done"} => reqs[r].cart # <<>>
  /\ reqs[r].pc \in {"begin", "notify"} \cup InTx => reqs[r].venue # None
  /\ reqs[r].pc \in {"insert", "history", "commit"} =>
       ~OtherVenue(r) /\ Unavailable(r) = {}
  /\ reqs[r].pc \in {"history", "commit"} =>
       /\ Order(r).total >= 0
       /\ \A n \in DOMAIN Lines(r) : Lines(r)[n].quantity \in 1..MaxInt4

\* An order is there from the commit on, and answers come after that.
OutcomeSound(r) ==
  /\ reqs[r].pc # "done" => reqs[r].answer = "none"
  /\ reqs[r].pc \in {"new", "venue", "begin"} \cup InTx => orders[r] = NoOrder
  /\ reqs[r].pc = "notify" => orders[r] # NoOrder
  /\ reqs[r].answer = "201" \/ r \in hooks => orders[r] # NoOrder
  /\ reqs[r].answer \in {"400", "404", "409"} => orders[r] = NoOrder
  /\ orders[r] # NoOrder =>
       /\ orders[r].venue \in Venues
       /\ orders[r].lines # <<>>
       /\ \A n \in DOMAIN orders[r].lines :
            orders[r].lines[n].quantity \in 1..MaxInt4
       /\ orders[r].total >= 0

RequestSound(r) == LocksSound(r) /\ WishSound(r) /\ OutcomeSound(r)

IInv == Typed /\ Priced /\ \A r \in Requests : RequestSound(r)
-----------------------------------------------------------------------------
\* A request that goes to another stage keeps everything else.
LEMMA GotoFields ==
  ASSUME Typed, NEW r \in Requests, NEW p \in Stages, Goto(r, p)
  PROVE  /\ reqs' \in [Requests -> Request]
         /\ reqs'[r] = [reqs[r] EXCEPT !.pc = p]
         /\ reqs'[r].pc = p
         /\ reqs'[r].venue = reqs[r].venue /\ reqs'[r].cart = reqs[r].cart
         /\ reqs'[r].found = reqs[r].found /\ reqs'[r].read = reqs[r].read
         /\ reqs'[r].answer = reqs[r].answer
         /\ \A q \in Requests \ {r} : reqs'[q] = reqs[q]
BY DEF Typed, Request, Goto

\* A row that is not there is a row.
LEMMA NoItemIsRow == NoItem \in Row
BY DEF NoItem, Row

\* Of a request that is answered only the answer is left.
LEMMA AnswerFields ==
  ASSUME Typed, NEW r \in Requests, NEW a \in Replies, Answer(r, a)
  PROVE  /\ reqs' \in [Requests -> Request]
         /\ reqs'[r].pc = "done" /\ reqs'[r].answer = a
         /\ reqs'[r].venue = None /\ reqs'[r].cart = <<>> /\ reqs'[r].found = {}
         /\ \A q \in Requests \ {r} : reqs'[q] = reqs[q]
<1> DEFINE new == [New EXCEPT !.pc = "done", !.answer = a]
<1>1. new \in Request
  BY NoItemIsRow DEF New, Request, Stages
<1>2. /\ new.pc = "done" /\ new.answer = a /\ new.venue = None
      /\ new.cart = <<>> /\ new.found = {}
  BY DEF New
<1>3. reqs' = [reqs EXCEPT ![r] = new]
  BY DEF Answer
<1> HIDE DEF new
<1> QED  BY <1>1, <1>2, <1>3 DEF Typed

\* What a step of request r leaves alone.
Others(r) ==
  /\ items' = items
  /\ \A q \in Requests \ {r} :
       /\ reqs'[q] = reqs[q] /\ orders'[q] = orders[q]
       /\ q \in hooks' <=> q \in hooks
       /\ \A i \in Items : locks'[i] = q <=> locks[i] = q

\* What a request relies on is disturbed by no step of another one.
LEMMA OthersKeep ==
  ASSUME IInv, NEW r \in Requests, Typed', Others(r), RequestSound(r)'
  PROVE  IInv'
<1> SUFFICES ASSUME NEW q \in Requests, q # r PROVE RequestSound(q)'
  BY DEF IInv, Priced, Exists, Others
<1>1. /\ reqs'[q] = reqs[q] /\ orders'[q] = orders[q] /\ items' = items
      /\ q \in hooks' <=> q \in hooks
      /\ \A i \in Items : locks'[i] = q <=> locks[i] = q
  BY DEF Others
<1>2. RequestSound(q) /\ reqs[q].found \subseteq Items
  BY DEF IInv, Typed, Request
<1>3. LocksSound(q)'
  BY <1>1, <1>2 DEF RequestSound, LocksSound, Missing, Exists
<1>4. WishSound(q)'
  BY <1>1, <1>2 DEF RequestSound, WishSound, OtherVenue, Unavailable, Order, Lines
<1>5. OutcomeSound(q)'
  BY <1>1, <1>2 DEF RequestSound, OutcomeSound
<1> QED  BY <1>3, <1>4, <1>5 DEF RequestSound
-----------------------------------------------------------------------------
\* A request that has no transaction open has no row locked.
LEMMA NothingLocked ==
  ASSUME IInv, NEW r \in Requests, reqs[r].pc \notin InTx
  PROVE  \A i \in Items : locks[i] # r
BY DEF IInv, RequestSound, LocksSound

\* A request without a transaction may be answered as its outcome allows.
LEMMA AnswerKeeps ==
  ASSUME IInv, NEW r \in Requests, NEW a \in Replies \ {"none"}, Answer(r, a),
         reqs[r].pc \notin InTx, UNCHANGED <<items, locks, orders>>,
         hooks' \subseteq hooks \cup {r}, hooks \subseteq hooks',
         a = "201" \/ r \in hooks' => orders[r] # NoOrder,
         a \in {"400", "404", "409"} => orders[r] = NoOrder
  PROVE  IInv'
<1>1. Typed /\ RequestSound(r)
  BY DEF IInv
<1>2. /\ reqs' \in [Requests -> Request]
      /\ reqs'[r].pc = "done" /\ reqs'[r].answer = a
      /\ reqs'[r].venue = None /\ reqs'[r].cart = <<>> /\ reqs'[r].found = {}
      /\ \A q \in Requests \ {r} : reqs'[q] = reqs[q]
  BY <1>1, AnswerFields
<1>3. Typed'
  BY <1>1, <1>2 DEF Typed
<1>4. Others(r)
  BY <1>2 DEF Others
<1>5. LocksSound(r)'
  BY <1>2, NothingLocked DEF LocksSound, InTx
<1>6. WishSound(r)'
  BY <1>2 DEF WishSound, InTx
<1>7. OutcomeSound(r)'
  BY <1>1, <1>2 DEF OutcomeSound, RequestSound, InTx
<1> QED  BY <1>3, <1>4, <1>5, <1>6, <1>7, OthersKeep DEF RequestSound

\* The end of a transaction frees the rows of its request and no other.
LEMMA UnlockFields ==
  ASSUME Typed, CheckoutAssumption, NEW r \in Requests, Unlock(r)
  PROVE  /\ locks' \in [Items -> Requests \cup {None}]
         /\ \A i \in Items : /\ locks'[i] # r
                             /\ \A q \in Requests \ {r} : locks'[i] = q <=> locks[i] = q
BY DEF Typed, Unlock, CheckoutAssumption

\* The deferred Rollback leaves no lock and no order behind.
LEMMA RollbackKeeps ==
  ASSUME IInv, CheckoutAssumption, NEW r \in Requests,
         NEW a \in {"400", "404", "409", "500"}, Rollback(r, a),
         a # "500" => orders[r] = NoOrder
  PROVE  IInv'
<1>1. Typed /\ RequestSound(r) /\ a \in Replies
  BY DEF IInv, Replies
<1>2. Answer(r, a) /\ Unlock(r) /\ UNCHANGED <<items, orders, hooks>>
  BY DEF Rollback
<1>3. /\ reqs' \in [Requests -> Request]
      /\ reqs'[r].pc = "done" /\ reqs'[r].answer = a
      /\ reqs'[r].venue = None /\ reqs'[r].cart = <<>> /\ reqs'[r].found = {}
      /\ \A q \in Requests \ {r} : reqs'[q] = reqs[q]
  BY <1>1, <1>2, AnswerFields
<1>4. /\ locks' \in [Items -> Requests \cup {None}]
      /\ \A i \in Items : /\ locks'[i] # r
                          /\ \A q \in Requests \ {r} : locks'[i] = q <=> locks[i] = q
  BY <1>1, <1>2, UnlockFields
<1>5. Typed'
  BY <1>1, <1>2, <1>3, <1>4 DEF Typed
<1>6. Others(r)
  BY <1>2, <1>3, <1>4 DEF Others
<1>7. LocksSound(r)'
  BY <1>3, <1>4 DEF LocksSound, InTx
<1>8. WishSound(r)'
  BY <1>3 DEF WishSound, InTx
<1>9. OutcomeSound(r)'
  BY <1>1, <1>2, <1>3 DEF OutcomeSound, RequestSound, InTx
<1> QED  BY <1>5, <1>6, <1>7, <1>8, <1>9, OthersKeep DEF RequestSound

\* A request goes to a stage whose promises about it hold, and nothing else
\* happens.
LEMMA GotoKeeps ==
  ASSUME IInv, NEW r \in Requests, NEW p \in Stages \ {"new", "notify", "done"},
         Goto(r, p), UNCHANGED <<items, locks, orders, hooks>>,
         reqs[r].pc \in Stages \ {"new", "notify", "done"},
         reqs[r].pc \in InTx => p \in InTx,
         p \in InTx \ {"lock"} => reqs[r].pc \in InTx /\ Missing(r) = {},
         p \in {"begin"} \cup InTx => reqs[r].venue # None,
         p \in {"insert", "history", "commit"} =>
           ~OtherVenue(r) /\ Unavailable(r) = {},
         p \in {"history", "commit"} =>
           /\ Order(r).total >= 0
           /\ \A n \in DOMAIN Lines(r) : Lines(r)[n].quantity \in 1..MaxInt4
  PROVE  IInv'
<1>1. Typed /\ RequestSound(r) /\ p \in Stages
  BY DEF IInv
<1>2. /\ reqs' \in [Requests -> Request]
      /\ reqs'[r].pc = p
      /\ reqs'[r].venue = reqs[r].venue /\ reqs'[r].cart = reqs[r].cart
      /\ reqs'[r].found = reqs[r].found /\ reqs'[r].read = reqs[r].read
      /\ reqs'[r].answer = reqs[r].answer
      /\ \A q \in Requests \ {r} : reqs'[q] = reqs[q]
  BY <1>1, GotoFields
<1>3. Typed'
  BY <1>1, <1>2 DEF Typed
<1>4. Others(r)
  BY <1>2 DEF Others
<1>5. LocksSound(r)'
  BY <1>1, <1>2 DEF RequestSound, LocksSound, Missing, Exists
<1>6. /\ OtherVenue(r)' <=> OtherVenue(r)
      /\ Unavailable(r)' = Unavailable(r)
      /\ Order(r)' = Order(r) /\ Lines(r)' = Lines(r)
  BY <1>2 DEF OtherVenue, Unavailable, Order, Lines
<1>7. WishSound(r)'
  BY <1>1, <1>2, <1>6 DEF RequestSound, WishSound, Stages, InTx
<1>8. OutcomeSound(r)'
  BY <1>1, <1>2 DEF RequestSound, OutcomeSound, Stages, InTx
<1> QED  BY <1>3, <1>4, <1>5, <1>7, <1>8, OthersKeep DEF RequestSound
-----------------------------------------------------------------------------
\* An empty cart is answered at once, any other is taken in.
LEMMA ReceiveKeeps ==
  ASSUME IInv, CheckoutAssumption, NEW r \in Requests,
         NEW v \in Venues \cup {None}, NEW cart \in Carts, Receive(r, v, cart)
  PROVE  IInv'
<1>1. /\ Typed /\ RequestSound(r) /\ reqs[r].pc = "new" /\ reqs[r].pc \notin InTx
      /\ UNCHANGED <<items, locks, orders, hooks>>
  BY DEF IInv, Receive, InTx
<1>2. orders[r] = NoOrder
  BY <1>1 DEF RequestSound, OutcomeSound
<1>3. CASE cart = <<>>
  <2>1. Answer(r, "400")
    BY <1>3 DEF Receive
  <2>2. r \notin hooks'
    BY <1>1, <1>2 DEF RequestSound, OutcomeSound
  <2> QED  BY <1>1, <1>2, <2>1, <2>2, AnswerKeeps DEF Replies
<1>4. CASE cart # <<>>
  <2>1. reqs' = [reqs EXCEPT ![r].pc = "venue", ![r].venue = v, ![r].cart = cart]
    BY <1>4 DEF Receive
  <2>2. /\ reqs' \in [Requests -> Request]
        /\ reqs'[r].pc = "venue" /\ reqs'[r].cart = cart
        /\ reqs'[r].found = reqs[r].found /\ reqs'[r].read = reqs[r].read
        /\ reqs'[r].answer = reqs[r].answer
        /\ \A q \in Requests \ {r} : reqs'[q] = reqs[q]
    <3> DEFINE new == [reqs[r] EXCEPT !.pc = "venue", !.venue = v, !.cart = cart]
    <3>1. reqs \in [Requests -> Request] /\ reqs' = [reqs EXCEPT ![r] = new]
      BY <1>1, <2>1 DEF Typed
    <3>2. reqs[r] \in Request
      BY <3>1
    <3>3. /\ new \in Request /\ new.pc = "venue" /\ new.cart = cart
          /\ new.found = reqs[r].found /\ new.read = reqs[r].read
          /\ new.answer = reqs[r].answer
      BY <3>2 DEF Request, Stages
    <3> HIDE DEF new
    <3> QED  BY <3>1, <3>3
  <2>3. Typed'
    BY <1>1, <2>2 DEF Typed
  <2>4. Others(r)
    BY <1>1, <2>2 DEF Others
  <2>5. LocksSound(r)'
    BY <1>1, <2>2 DEF RequestSound, LocksSound, Exists, InTx
  <2>6. WishSound(r)'
    BY <1>4, <2>2 DEF WishSound, InTx
  <2>7. OutcomeSound(r)'
    BY <1>1, <2>2 DEF RequestSound, OutcomeSound
  <2> QED  BY <2>3, <2>4, <2>5, <2>6, <2>7, OthersKeep DEF RequestSound
<1> QED  BY <1>3, <1>4

\* Without a venue the request is answered, and there is no order yet.
LEMMA FindVenueKeeps ==
  ASSUME IInv, CheckoutAssumption, NEW r \in Requests, FindVenue(r)
  PROVE  IInv'
<1>1. /\ Typed /\ RequestSound(r) /\ reqs[r].pc = "venue" /\ reqs[r].pc \notin InTx
      /\ UNCHANGED <<items, locks, orders, hooks>>
  BY DEF IInv, FindVenue, InTx
<1>2. orders[r] = NoOrder /\ r \notin hooks
  BY <1>1 DEF RequestSound, OutcomeSound
<1>3. CASE reqs[r].venue = None
  <2>1. Answer(r, "404")
    BY <1>3 DEF FindVenue
  <2> QED  BY <1>1, <1>2, <2>1, AnswerKeeps DEF Replies
<1>4. CASE reqs[r].venue # None
  <2>1. Goto(r, "begin")
    BY <1>4 DEF FindVenue
  <2> QED  BY <1>1, <1>4, <2>1, GotoKeeps DEF Stages, InTx
<1> QED  BY <1>3, <1>4

\* The rows found are rows that exist, and none of them is locked yet.
LEMMA BeginKeeps ==
  ASSUME IInv, NEW r \in Requests, Begin(r)
  PROVE  IInv'
<1> DEFINE found == {i \in Items : /\ Exists(i)
                                   /\ \E n \in DOMAIN reqs[r].cart :
                                        reqs[r].cart[n].item = i}
<1>1. /\ Typed /\ RequestSound(r) /\ reqs[r].pc = "begin" /\ reqs[r].pc \notin InTx
      /\ UNCHANGED <<items, locks, orders, hooks>>
      /\ reqs' = [reqs EXCEPT ![r].pc = "lock", ![r].found = found]
  BY DEF IInv, Begin, InTx
<1>2. found \subseteq Items /\ \A i \in found : Exists(i)
  OBVIOUS
<1> HIDE DEF found
<1>3. /\ reqs' \in [Requests -> Request]
      /\ reqs'[r].pc = "lock" /\ reqs'[r].found = found
      /\ reqs'[r].venue = reqs[r].venue /\ reqs'[r].cart = reqs[r].cart
      /\ reqs'[r].answer = reqs[r].answer
      /\ \A q \in Requests \ {r} : reqs'[q] = reqs[q]
  BY <1>1, <1>2 DEF Typed, Request, Stages, InTx
<1>4. Typed'
  BY <1>1, <1>3 DEF Typed
<1>5. Others(r)
  BY <1>1, <1>3 DEF Others
<1>6. LocksSound(r)'
  BY <1>1, <1>2, <1>3, NothingLocked DEF LocksSound, Exists
<1>7. WishSound(r)'
  BY <1>1, <1>3 DEF RequestSound, WishSound
<1>8. OutcomeSound(r)'
  BY <1>1, <1>3 DEF RequestSound, OutcomeSound, InTx
<1> QED  BY <1>4, <1>5, <1>6, <1>7, <1>8, OthersKeep DEF RequestSound

\* A row is read when it is locked, as it is then.
LEMMA LockRowKeeps ==
  ASSUME IInv, CheckoutAssumption, NEW r \in Requests, NEW i \in Items, LockRow(r, i)
  PROVE  IInv'
<1>1. /\ Typed /\ RequestSound(r) /\ reqs[r].pc = "lock"
      /\ i \in reqs[r].found /\ locks[i] = None /\ None \notin Requests
      /\ UNCHANGED <<items, orders, hooks>>
      /\ locks' = [locks EXCEPT ![i] = r]
      /\ reqs' = [reqs EXCEPT ![r].read[i] = items[i]]
  BY DEF IInv, LockRow, Missing, CheckoutAssumption
<1>2. items[i] \in Row
  BY <1>1 DEF Typed
<1>3. /\ reqs' \in [Requests -> Request]
      /\ reqs'[r].pc = "lock" /\ reqs'[r].found = reqs[r].found
      /\ reqs'[r].venue = reqs[r].venue /\ reqs'[r].cart = reqs[r].cart
      /\ reqs'[r].answer = reqs[r].answer
      /\ reqs'[r].read = [reqs[r].read EXCEPT ![i] = items[i]]
      /\ \A q \in Requests \ {r} : reqs'[q] = reqs[q]
  <2> DEFINE read == [reqs[r].read EXCEPT ![i] = items[i]]
             new == [reqs[r] EXCEPT !.read = read]
  <2>1. reqs \in [Requests -> Request] /\ reqs[r] \in Request
    BY <1>1 DEF Typed
  <2>2. reqs' = [reqs EXCEPT ![r] = new]
    BY <1>1, <2>1
  <2>3. read \in [Items -> Row]
    BY <1>2, <2>1 DEF Request
  <2>4. /\ new \in Request /\ new.pc = reqs[r].pc /\ new.found = reqs[r].found
        /\ new.venue = reqs[r].venue /\ new.cart = reqs[r].cart
        /\ new.answer = reqs[r].answer /\ new.read = read
    <3> HIDE DEF read
    <3> QED  BY <2>1, <2>3 DEF Request
  <2> HIDE DEF new
  <2> QED  BY <1>1, <2>1, <2>2, <2>4
<1>4. /\ locks' \in [Items -> Requests \cup {None}] /\ locks'[i] = r
      /\ \A j \in Items \ {i} : locks'[j] = locks[j]
  BY <1>1 DEF Typed
<1>5. Typed'
  BY <1>1, <1>3, <1>4 DEF Typed
<1>6. Others(r)
  BY <1>1, <1>3, <1>4 DEF Others
<1>7. LocksSound(r)'
  <2>1. reqs[r].read \in [Items -> Row]
    BY <1>1 DEF Typed, Request
  <2>2. /\ reqs'[r].read[i] = items[i]
        /\ \A j \in Items \ {i} : reqs'[r].read[j] = reqs[r].read[j]
    BY <1>3, <2>1
  <2>3. \A j \in Items : locks'[j] = r =>
          /\ reqs'[r].pc \in InTx /\ j \in reqs'[r].found
          /\ reqs'[r].read[j] = items'[j]
    BY <1>1, <1>3, <1>4, <2>2 DEF RequestSound, LocksSound, InTx
  <2> QED  BY <1>1, <1>3, <2>3 DEF RequestSound, LocksSound, Exists
<1>8. WishSound(r)'
  BY <1>1, <1>3 DEF RequestSound, WishSound
<1>9. OutcomeSound(r)'
  BY <1>1, <1>3 DEF RequestSound, OutcomeSound
<1> QED  BY <1>5, <1>6, <1>7, <1>8, <1>9, OthersKeep DEF RequestSound

\* In a transaction there is no order yet.
LEMMA NoOrderYet ==
  ASSUME IInv, NEW r \in Requests, reqs[r].pc \in InTx
  PROVE  orders[r] = NoOrder /\ reqs[r].venue # None
BY DEF IInv, RequestSound, OutcomeSound, WishSound

LEMMA ValidateKeeps ==
  ASSUME IInv, CheckoutAssumption, NEW r \in Requests, Validate(r)
  PROVE  IInv'
<1>1. reqs[r].pc = "lock" /\ reqs[r].pc \in InTx /\ Missing(r) = {}
  BY DEF Validate, InTx
<1>2. CASE Rollback(r, "400") \/ Rollback(r, "409")
  BY <1>1, <1>2, NoOrderYet, RollbackKeeps
<1>3. CASE /\ ~OtherVenue(r) /\ Unavailable(r) = {}
           /\ Goto(r, "insert")
           /\ UNCHANGED <<items, locks, orders, hooks>>
  BY <1>1, <1>3, NoOrderYet, GotoKeeps DEF Stages, InTx
<1> QED  BY <1>2, <1>3 DEF Validate

LEMMA InsertOrderKeeps ==
  ASSUME IInv, CheckoutAssumption, NEW r \in Requests, InsertOrder(r)
  PROVE  IInv'
<1>1. reqs[r].pc = "insert" /\ reqs[r].pc \in InTx
  BY DEF InsertOrder, InTx
<1>2. Missing(r) = {} /\ ~OtherVenue(r) /\ Unavailable(r) = {}
  BY <1>1 DEF IInv, RequestSound, LocksSound, WishSound
<1>3. CASE /\ Order(r).total >= 0
           /\ \A n \in DOMAIN Lines(r) : Lines(r)[n].quantity \in 1..MaxInt4
  <2>1. Goto(r, "history") /\ UNCHANGED <<items, locks, orders, hooks>>
    BY <1>3 DEF InsertOrder
  <2> QED  BY <1>1, <1>2, <1>3, <2>1, NoOrderYet, GotoKeeps DEF Stages, InTx
<1>4. CASE Rollback(r, "500")
  BY <1>4, RollbackKeeps
<1> QED  BY <1>3, <1>4 DEF InsertOrder

LEMMA AppendHistoryKeeps ==
  ASSUME IInv, CheckoutAssumption, NEW r \in Requests, AppendHistory(r)
  PROVE  IInv'
<1>1. /\ reqs[r].pc = "history" /\ reqs[r].pc \in InTx /\ Goto(r, "commit")
      /\ UNCHANGED <<items, locks, orders, hooks>>
  BY DEF AppendHistory, InTx
<1>2. /\ Missing(r) = {} /\ ~OtherVenue(r) /\ Unavailable(r) = {}
      /\ Order(r).total >= 0
      /\ \A n \in DOMAIN Lines(r) : Lines(r)[n].quantity \in 1..MaxInt4
  BY <1>1 DEF IInv, RequestSound, LocksSound, WishSound
<1> QED  BY <1>1, <1>2, NoOrderYet, GotoKeeps DEF Stages, InTx

\* What Commit makes visible keeps the checks of the tables.
LEMMA CommittedOrder ==
  ASSUME IInv, CheckoutAssumption, NEW r \in Requests, Commit(r)
  PROVE  /\ DOMAIN orders' = Requests
         /\ orders'[r] = Order(r)
         /\ \A q \in Requests \ {r} : orders'[q] = orders[q]
         /\ Order(r) # NoOrder /\ Order(r).venue \in Venues
         /\ Order(r).lines # <<>> /\ Order(r).total >= 0
         /\ \A n \in DOMAIN Order(r).lines :
              Order(r).lines[n].quantity \in 1..MaxInt4
<1>1. /\ Typed /\ RequestSound(r) /\ reqs[r].pc = "commit" /\ reqs[r].pc \in InTx
      /\ reqs[r] \in Request
      /\ orders' = [orders EXCEPT ![r] = Order(r)]
  BY DEF IInv, Commit, InTx, Typed
<1>2. /\ DOMAIN orders' = Requests
      /\ orders'[r] = Order(r)
      /\ \A q \in Requests \ {r} : orders'[q] = orders[q]
  BY <1>1 DEF Typed
<1>3. /\ reqs[r].venue \in Venues /\ reqs[r].venue # None
      /\ reqs[r].cart \in Carts /\ reqs[r].cart # <<>>
      /\ Order(r).total >= 0
      /\ \A n \in DOMAIN Lines(r) : Lines(r)[n].quantity \in 1..MaxInt4
  BY <1>1 DEF RequestSound, WishSound, Request
<1>4. Order(r).venue = reqs[r].venue /\ Order(r).lines = Lines(r)
  BY DEF Order
<1>5. Lines(r) # <<>>
  <2>1. reqs[r].cart \in Seq([item : Items, quantity : Int])
    BY <1>3 DEF CheckoutAssumption
  <2>2. 1 \in DOMAIN reqs[r].cart
    BY <1>3, <2>1
  <2>3. 1 \in DOMAIN Lines(r)
    BY <2>2 DEF Lines
  <2> QED  BY <2>3
<1>6. Order(r) # NoOrder
  BY <1>3, <1>4 DEF NoOrder
<1> QED  BY <1>2, <1>3, <1>4, <1>5, <1>6

LEMMA CommitKeeps ==
  ASSUME IInv, CheckoutAssumption, NEW r \in Requests, Commit(r)
  PROVE  IInv'
<1>1. /\ Typed /\ RequestSound(r) /\ reqs[r].pc = "commit" /\ reqs[r].pc \in InTx
      /\ Unlock(r) /\ items' = items /\ hooks' = hooks
      /\ Goto(r, "notify") \/ Answer(r, "500")
  BY DEF IInv, Commit, InTx
<1>2. /\ DOMAIN orders' = Requests
      /\ orders'[r] = Order(r)
      /\ \A q \in Requests \ {r} : orders'[q] = orders[q]
      /\ Order(r) # NoOrder /\ Order(r).venue \in Venues
      /\ Order(r).lines # <<>> /\ Order(r).total >= 0
      /\ \A n \in DOMAIN Order(r).lines : Order(r).lines[n].quantity \in 1..MaxInt4
  BY CommittedOrder
<1>3. /\ locks' \in [Items -> Requests \cup {None}]
      /\ \A i \in Items : /\ locks'[i] # r
                          /\ \A q \in Requests \ {r} : locks'[i] = q <=> locks[i] = q
  BY <1>1, UnlockFields
<1>4. /\ reqs' \in [Requests -> Request]
      /\ \A q \in Requests \ {r} : reqs'[q] = reqs[q]
      /\ \A i \in reqs'[r].found : Exists(i)
      /\ \/ /\ reqs'[r].pc = "notify" /\ reqs'[r].cart # <<>> /\ reqs'[r].venue # None
            /\ reqs'[r].answer = "none"
         \/ /\ reqs'[r].pc = "done" /\ reqs'[r].answer = "500"
            /\ reqs'[r].venue = None /\ reqs'[r].cart = <<>>
  <2>1. /\ reqs[r].cart # <<>> /\ reqs[r].venue # None /\ reqs[r].answer = "none"
        /\ \A i \in reqs[r].found : Exists(i)
    BY <1>1 DEF RequestSound, LocksSound, WishSound, OutcomeSound
  <2>2. CASE Goto(r, "notify")
    BY <1>1, <2>1, <2>2, GotoFields DEF Stages
  <2>3. CASE Answer(r, "500")
    BY <1>1, <2>3, AnswerFields DEF Replies
  <2> QED  BY <1>1, <2>2, <2>3
<1>5. Typed'
  BY <1>1, <1>2, <1>3, <1>4 DEF Typed
<1>6. Others(r)
  BY <1>1, <1>2, <1>3, <1>4 DEF Others
<1>7. LocksSound(r)'
  BY <1>1, <1>3, <1>4 DEF LocksSound, InTx, Exists
<1>8. WishSound(r)'
  BY <1>4 DEF WishSound, InTx
<1>9. OutcomeSound(r)'
  BY <1>2, <1>4 DEF OutcomeSound, InTx
<1> QED  BY <1>5, <1>6, <1>7, <1>8, <1>9, OthersKeep DEF RequestSound

\* The order is there when the venue is notified, whatever the client is told.
LEMMA NotifyKeeps ==
  ASSUME IInv, NEW r \in Requests, Notify(r)
  PROVE  IInv'
<1>1. /\ reqs[r].pc = "notify" /\ reqs[r].pc \notin InTx
      /\ UNCHANGED <<items, locks, orders>>
      /\ hooks' \subseteq hooks \cup {r} /\ hooks \subseteq hooks'
  BY DEF Notify, InTx
<1>2. orders[r] # NoOrder
  BY <1>1 DEF IInv, RequestSound, OutcomeSound
<1>3. CASE Answer(r, "201")
  BY <1>1, <1>2, <1>3, AnswerKeeps DEF Replies
<1>4. CASE Answer(r, "500")
  BY <1>1, <1>2, <1>4, AnswerKeeps DEF Replies
<1> QED  BY <1>3, <1>4 DEF Notify

\* The venue writes a row that no transaction has locked, or that is new and
\* was found by none.
LEMMA EditKeeps ==
  ASSUME IInv, CheckoutAssumption, NEW i \in Items, NEW row \in Row,
         row.venue # None, row.price \in Prices, Exists(i) => locks[i] = None,
         items' = [items EXCEPT ![i] = row], UNCHANGED <<locks, reqs, orders, hooks>>
  PROVE  IInv'
<1>1. /\ items' \in [Items -> Row] /\ items'[i] = row
      /\ \A j \in Items \ {i} : items'[j] = items[j]
      /\ Typed
  BY DEF IInv, Typed
<1>2. ASSUME NEW r \in Requests
      PROVE  RequestSound(r)'
  <2>1. RequestSound(r) /\ reqs[r].found \subseteq Items
    BY DEF IInv, Typed, Request
  <2>2. locks[i] # r
    <3>1. CASE Exists(i)
      BY <3>1 DEF CheckoutAssumption
    <3>2. CASE ~Exists(i)
      BY <2>1, <3>2 DEF RequestSound, LocksSound
    <3> QED  BY <3>1, <3>2
  <2>3. LocksSound(r)'
    BY <1>1, <2>1, <2>2 DEF RequestSound, LocksSound, Missing, Exists
  <2>4. WishSound(r)'
    BY <2>1 DEF RequestSound, WishSound, OtherVenue, Unavailable, Order, Lines
  <2>5. OutcomeSound(r)'
    BY <2>1 DEF RequestSound, OutcomeSound
  <2> QED  BY <2>3, <2>4, <2>5 DEF RequestSound
<1>3. Typed'
  BY <1>1 DEF Typed
<1>4. Priced'
  BY <1>1 DEF IInv, Priced, Exists
<1> QED  BY <1>2, <1>3, <1>4 DEF IInv

LEMMA EditMenuKeeps ==
  ASSUME IInv, CheckoutAssumption, EditMenu
  PROVE  IInv'
<1> SUFFICES ASSUME NEW i \in Items,
                    \/ \E v \in Venues, price \in Prices : CreateItem(i, v, price)
                    \/ \E available \in BOOLEAN : SetAvailability(i, available)
                    \/ \E price \in Prices : UpdateItem(i, price)
             PROVE  IInv'
  BY DEF EditMenu
<1>1. items \in [Items -> Row] /\ items[i] \in Row
  BY DEF IInv, Typed
<1>2. ASSUME NEW v \in Venues, NEW price \in Prices, CreateItem(i, v, price)
      PROVE  IInv'
  <2>1. [venue |-> v, price |-> price, available |-> TRUE] \in Row /\ v # None
    BY DEF Row, CheckoutAssumption
  <2> QED  BY <1>2, <2>1, EditKeeps DEF CreateItem
<1>3. ASSUME NEW available \in BOOLEAN, SetAvailability(i, available)
      PROVE  IInv'
  <2> DEFINE row == [items[i] EXCEPT !.available = available]
  <2>1. row \in Row /\ row.venue = items[i].venue /\ row.price = items[i].price
    BY <1>1 DEF Row
  <2>2. items' = [items EXCEPT ![i] = row]
    BY <1>1, <1>3 DEF SetAvailability
  <2>3. row.venue # None /\ row.price \in Prices /\ locks[i] = None
    BY <1>3, <2>1 DEF SetAvailability, Exists, IInv, Priced
  <2> HIDE DEF row
  <2> QED  BY <1>3, <2>1, <2>2, <2>3, EditKeeps DEF SetAvailability
<1>4. ASSUME NEW price \in Prices, UpdateItem(i, price)
      PROVE  IInv'
  <2> DEFINE row == [items[i] EXCEPT !.price = price]
  <2>1. row \in Row /\ row.venue = items[i].venue /\ row.price = price
    BY <1>1 DEF Row
  <2>2. items' = [items EXCEPT ![i] = row]
    BY <1>1, <1>4 DEF UpdateItem
  <2> HIDE DEF row
  <2>3. row.venue # None /\ row.price \in Prices /\ locks[i] = None
    BY <1>4, <2>1 DEF UpdateItem, Exists
  <2> QED  BY <1>4, <2>1, <2>2, <2>3, EditKeeps DEF UpdateItem
<1> QED  BY <1>2, <1>3, <1>4
-----------------------------------------------------------------------------
LEMMA InitEstablishes == CheckoutAssumption /\ Init => IInv
<1> SUFFICES ASSUME CheckoutAssumption, Init PROVE IInv
  OBVIOUS
<1>1. New \in Request /\ New.pc = "new" /\ New.venue = None /\ New.cart = <<>>
      /\ New.found = {} /\ New.answer = "none"
  BY NoItemIsRow DEF New, Request, Stages, Replies
<1>2. items \in [Items -> Row]
  BY NoItemIsRow DEF Init, Row
<1>3. /\ \A i \in Items : locks[i] = None
      /\ \A r \in Requests : reqs[r] = New /\ orders[r] = NoOrder /\ r \notin hooks
  BY DEF Init
<1>4. Typed
  BY <1>1, <1>2 DEF Init, Typed
<1>5. ASSUME NEW r \in Requests
      PROVE  RequestSound(r)
  <2>1. LocksSound(r)
    BY <1>1, <1>3 DEF LocksSound, InTx, CheckoutAssumption
  <2>2. WishSound(r)
    BY <1>1, <1>3 DEF WishSound, InTx
  <2>3. OutcomeSound(r)
    BY <1>1, <1>3 DEF OutcomeSound
  <2> QED  BY <2>1, <2>2, <2>3 DEF RequestSound
<1>6. Priced
  <2> SUFFICES ASSUME NEW i \in Items, items[i].venue # None
               PROVE  items[i].price \in Prices
    BY DEF Priced, Exists
  <2>1. items[i] \in {NoItem} \cup [venue : Venues, price : Prices, available : {TRUE}]
    BY DEF Init
  <2>2. NoItem.venue = None
    BY DEF NoItem
  <2> QED  BY <2>1, <2>2
<1> QED  BY <1>4, <1>5, <1>6 DEF IInv

\* Every step of the specification keeps the inductive invariant.
LEMMA NextKeeps == CheckoutAssumption /\ IInv /\ [Next]_vars => IInv'
<1> SUFFICES ASSUME CheckoutAssumption, IInv, [Next]_vars PROVE IInv'
  OBVIOUS
<1>1. ASSUME NEW r \in Requests, NEW v \in Venues \cup {None}, NEW cart \in Carts,
             Receive(r, v, cart)
      PROVE  IInv'
  BY <1>1, ReceiveKeeps
<1>2. ASSUME NEW r \in Requests, Step(r)
      PROVE  IInv'
  <2>1. ASSUME NEW i \in Items, LockRow(r, i) PROVE IInv'
    BY <2>1, LockRowKeeps
  <2>2. ASSUME DeadlockAbort(r) PROVE IInv'
    BY <2>2, RollbackKeeps DEF DeadlockAbort
  <2> QED  BY <1>2, <2>1, <2>2, FindVenueKeeps, BeginKeeps, ValidateKeeps,
              InsertOrderKeeps, AppendHistoryKeeps, CommitKeeps, NotifyKeeps DEF Step
<1>3. ASSUME NEW r \in Requests, Fail(r)
      PROVE  IInv'
  BY <1>3, RollbackKeeps DEF Fail
<1>4. CASE EditMenu
  BY <1>4, EditMenuKeeps
<1>5. CASE UNCHANGED vars
  <2>1. /\ items' = items /\ locks' = locks /\ reqs' = reqs
        /\ orders' = orders /\ hooks' = hooks
    BY <1>5 DEF vars
  <2>2. Typed'
    BY <2>1 DEF IInv, Typed
  <2>3. ASSUME NEW r \in Requests PROVE RequestSound(r)'
    <3>1. RequestSound(r)
      BY DEF IInv
    <3>2. LocksSound(r)'
      BY <2>1, <3>1 DEF RequestSound, LocksSound, Missing, Exists
    <3>3. WishSound(r)'
      BY <2>1, <3>1 DEF RequestSound, WishSound, OtherVenue, Unavailable, Order, Lines
    <3>4. OutcomeSound(r)'
      BY <2>1, <3>1 DEF RequestSound, OutcomeSound
    <3> QED  BY <3>2, <3>3, <3>4 DEF RequestSound
  <2>4. Priced'
    BY <2>1 DEF IInv, Priced, Exists
  <2> QED  BY <2>2, <2>3, <2>4 DEF IInv
<1> QED  BY <1>1, <1>2, <1>3, <1>4, <1>5 DEF Next
-----------------------------------------------------------------------------
\* What every request relies on is invariant.
THEOREM Invariance == Spec => []IInv
BY CheckoutAssumption, InitEstablishes, NextKeeps, PTL DEF Spec

\* Every variable keeps its shape.
THEOREM TypeCorrect == Spec => []TypeOK
<1>1. IInv => TypeOK
  BY DEF IInv, Typed, RequestSound, OutcomeSound, Request, Stages, Replies, TypeOK
<1> QED  BY <1>1, Invariance, PTL

\* The deferred Rollback and Commit are enough: no row is locked by a request
\* whose transaction is over, and a transaction that has validated its rows
\* holds them all.
THEOREM LocksAreReleased == Spec => []LocksFollowTransactions
<1>1. IInv => LocksFollowTransactions
  <2> SUFFICES ASSUME IInv PROVE LocksFollowTransactions
    OBVIOUS
  <2>1. ASSUME NEW i \in Items, locks[i] # None
        PROVE  reqs[locks[i]].pc \in InTx /\ i \in reqs[locks[i]].found
    BY <2>1 DEF IInv, Typed, RequestSound, LocksSound
  <2>2. ASSUME NEW r \in Requests, reqs[r].pc \in InTx \ {"lock"}
        PROVE  Missing(r) = {}
    BY <2>2 DEF IInv, RequestSound, LocksSound
  <2> QED  BY <2>1, <2>2 DEF LocksFollowTransactions
<1> QED  BY <1>1, Invariance, PTL

\* 201 and the webhook are for an order that is committed, 4xx for none, in
\* whatever way the request ends.
THEOREM AnswersNeverLie == Spec => []AnswersAreTrue
<1>1. IInv => AnswersAreTrue
  BY DEF IInv, RequestSound, OutcomeSound, AnswersAreTrue
<1> QED  BY <1>1, Invariance, PTL

\* A committed order has lines, each of a quantity that may be asked for, and
\* no negative total, even when the sum has wrapped.
THEOREM OrdersStaySound == Spec => []OrdersKeepChecks
<1>1. IInv => OrdersKeepChecks
  BY DEF IInv, RequestSound, OutcomeSound, OrdersKeepChecks
<1> QED  BY <1>1, Invariance, PTL
-----------------------------------------------------------------------------
\* The elements of a sequence over a set are in the set.
LEMMA LineOfSeq ==
  ASSUME NEW S, NEW s \in Seq(S), NEW n \in DOMAIN s
  PROVE  s[n] \in S
OBVIOUS

\* The rows a transaction has validated are those of the menu as it is now.
LEMMA ValidatedRows ==
  ASSUME IInv, CheckoutAssumption, NEW r \in Requests,
         reqs[r].pc \in {"insert", "history", "commit"}, NEW n \in DOMAIN reqs[r].cart
  PROVE  /\ reqs[r].cart[n].item \in Items
         /\ reqs[r].cart[n].item \in reqs[r].found
         /\ reqs[r].read[reqs[r].cart[n].item] = items[reqs[r].cart[n].item]
         /\ items[reqs[r].cart[n].item].venue = reqs[r].venue
         /\ items[reqs[r].cart[n].item].available = TRUE
         /\ reqs[r].cart[n].quantity > 0
<1> DEFINE i == reqs[r].cart[n].item
<1>1. /\ Missing(r) = {} /\ ~OtherVenue(r) /\ Unavailable(r) = {}
      /\ reqs[r].found \subseteq Items /\ items \in [Items -> Row]
      /\ reqs[r].cart \in Carts \cup {<<>>} /\ reqs[r].cart # <<>>
  BY DEF IInv, Typed, RequestSound, LocksSound, WishSound, Request, InTx
<1>2. reqs[r].cart \in Seq([item : Items, quantity : Int])
  BY <1>1 DEF CheckoutAssumption
<1>3. reqs[r].cart[n] \in [item : Items, quantity : Int]
  BY <1>2, LineOfSeq
<1>4. /\ i \in reqs[r].found /\ reqs[r].read[i].available
      /\ reqs[r].cart[n].quantity > 0
  <2>1. reqs[r].cart[n].quantity \in Int
    BY <1>3
  <2>2. ~(\/ i \notin reqs[r].found \/ ~reqs[r].read[i].available
          \/ reqs[r].cart[n].quantity <= 0)
    <3>1. n \notin Unavailable(r)
      BY <1>1
    <3> QED  BY <3>1 DEF Unavailable
  <2>3. ~(reqs[r].cart[n].quantity <= 0)
    BY <2>2
  <2>4. reqs[r].cart[n].quantity > 0
    BY <2>1, <2>3
  <2> QED  BY <2>2, <2>4
<1>5. reqs[r].read[i].venue = reqs[r].venue
  BY <1>1, <1>4 DEF OtherVenue
<1>6. i \in Items /\ locks[i] = r
  BY <1>1, <1>4 DEF Missing
<1>7. reqs[r].read[i] = items[i]
  BY <1>6 DEF IInv, RequestSound, LocksSound
<1>8. items[i].available \in BOOLEAN
  BY <1>1, <1>6 DEF Row
<1> QED  BY <1>4, <1>5, <1>6, <1>7, <1>8

\* Nothing but its own commit changes the order of a request.
LEMMA OnlyCommitSells ==
  ASSUME IInv, CheckoutAssumption, [Next]_vars, NEW r \in Requests,
         orders'[r] # orders[r]
  PROVE  Commit(r)
<1>1. ASSUME NEW q \in Requests, Commit(q) PROVE q = r
  BY <1>1, CommittedOrder
<1>2. ASSUME NEW q \in Requests, Step(q), ~Commit(q) PROVE orders' = orders
  BY <1>2 DEF Step, FindVenue, Begin, LockRow, Validate, InsertOrder, AppendHistory,
              Notify, DeadlockAbort, Rollback
<1>3. ASSUME NEW q \in Requests, Fail(q) PROVE orders' = orders
  BY <1>3 DEF Fail, Rollback
<1>4. ASSUME NEW q \in Requests, NEW v, NEW cart, Receive(q, v, cart)
      PROVE  orders' = orders
  BY <1>4 DEF Receive
<1>5. ASSUME EditMenu PROVE orders' = orders
  BY <1>5 DEF EditMenu, CreateItem, SetAvailability, UpdateItem
<1>6. ASSUME UNCHANGED vars PROVE orders' = orders
  BY <1>6 DEF vars
<1> QED  BY <1>1, <1>2, <1>3, <1>4, <1>5, <1>6 DEF Next

\* At its commit an order has what is on the menu of its venue at that moment,
\* available and at that price: the row locks outlast whatever the venue does.
THEOREM CommittedAsOffered == Spec => SoldAsOffered
<1> DEFINE Offered == \A r \in Requests : orders'[r] # orders[r] =>
      \A n \in DOMAIN orders'[r].lines :
        items[orders'[r].lines[n].item] =
          [venue |-> orders'[r].venue, price |-> orders'[r].lines[n].price,
           available |-> TRUE]
<1>1. IInv /\ [Next]_vars => Offered
  <2> SUFFICES ASSUME IInv, [Next]_vars, NEW r \in Requests, orders'[r] # orders[r],
                      NEW n \in DOMAIN orders'[r].lines
               PROVE  items[orders'[r].lines[n].item] =
                        [venue |-> orders'[r].venue,
                         price |-> orders'[r].lines[n].price, available |-> TRUE]
    OBVIOUS
  <2>1. Commit(r)
    BY CheckoutAssumption, OnlyCommitSells
  <2>2. orders'[r] = Order(r) /\ reqs[r].pc = "commit"
    BY <2>1, CheckoutAssumption, CommittedOrder DEF Commit
  <2> DEFINE i == reqs[r].cart[n].item
  <2>3. /\ n \in DOMAIN reqs[r].cart
        /\ orders'[r].lines[n].item = i
        /\ orders'[r].lines[n].price = reqs[r].read[i].price
        /\ orders'[r].venue = reqs[r].venue
    <3>1. orders'[r].lines = Lines(r) /\ orders'[r].venue = reqs[r].venue
      BY <2>2 DEF Order
    <3>2. n \in DOMAIN Lines(r)
      BY <3>1
    <3>3. n \in DOMAIN reqs[r].cart
      BY <3>2 DEF Lines
    <3>4. Lines(r)[n] = [item |-> i, price |-> reqs[r].read[i].price,
                         quantity |-> reqs[r].cart[n].quantity]
      BY <3>3 DEF Lines
    <3> QED  BY <3>1, <3>3, <3>4
  <2>4. /\ i \in Items /\ reqs[r].read[i] = items[i]
        /\ items[i].venue = reqs[r].venue /\ items[i].available = TRUE
    BY <2>2, <2>3, CheckoutAssumption, ValidatedRows
  <2>5. items[i] \in Row
    BY <2>4 DEF IInv, Typed
  <2> QED  BY <2>3, <2>4, <2>5 DEF Row
<1>2. IInv /\ [Next]_vars => [Offered]_vars
  BY <1>1
<1> QED  BY <1>2, Invariance, PTL DEF Spec, SoldAsOffered
-----------------------------------------------------------------------------
\* The mapping to Sale, and what each step of a request looks like under it.

\* What Sale sees of a request.
LEMMA SaleFields ==
  ASSUME NEW r \in Requests
  PROVE  /\ salePhase[r] = Phase(r)
         /\ saleWish[r].venue = reqs[r].venue /\ saleWish[r].cart = reqs[r].cart
         /\ saleAnswer[r] = reqs[r].answer
BY DEF salePhase, saleWish, saleAnswer

\* All rows the cart asks for were found.
Complete(r) == \A n \in DOMAIN reqs[r].cart : reqs[r].cart[n].item \in reqs[r].found

LEMMA PhaseCases ==
  ASSUME NEW r \in Requests
  PROVE  /\ reqs[r].pc \in {"venue", "begin"} => Phase(r) = "open"
         /\ reqs[r].pc \in InTx /\ Complete(r) => Phase(r) = "open"
         /\ reqs[r].pc \in InTx /\ ~Complete(r) => Phase(r) = "doomed"
         /\ reqs[r].pc = "notify" => Phase(r) = "sold"
         /\ reqs[r].pc \in {"new", "done"} => Phase(r) = reqs[r].pc
BY DEF Phase, Complete, InTx

\* A request that goes on in its transaction is as open as it was.
LEMMA PhaseKept ==
  ASSUME NEW r \in Requests, reqs[r].pc \in InTx, reqs'[r].pc \in InTx,
         reqs'[r].cart = reqs[r].cart, reqs'[r].found = reqs[r].found
  PROVE  Phase(r)' = Phase(r)
BY DEF Phase, InTx

\* A step of one request leaves the phases of the others.
LEMMA PhaseOfOthers ==
  ASSUME NEW q \in Requests, reqs'[q] = reqs[q]
  PROVE  Phase(q)' = Phase(q)
BY DEF Phase

\* A step that is seen in the phase of one request only.
LEMMA TurnMaps ==
  ASSUME NEW r \in Requests, NEW p, Phase(r)' = p,
         reqs'[r].venue = reqs[r].venue, reqs'[r].cart = reqs[r].cart,
         reqs'[r].answer = reqs[r].answer,
         \A q \in Requests \ {r} : reqs'[q] = reqs[q]
  PROVE  /\ salePhase' = [salePhase EXCEPT ![r] = p]
         /\ saleWish' = saleWish /\ saleAnswer' = saleAnswer
<1>1. \A q \in Requests \ {r} : Phase(q)' = Phase(q)
  BY PhaseOfOthers
<1>2. salePhase' = [salePhase EXCEPT ![r] = p]
  BY <1>1 DEF salePhase
<1>3. saleWish' = saleWish
  BY DEF saleWish
<1>4. saleAnswer' = saleAnswer
  BY DEF saleAnswer
<1> QED  BY <1>2, <1>3, <1>4

\* A step that Sale does not see.
LEMMA StutterMaps ==
  ASSUME NEW r \in Requests, Phase(r)' = Phase(r),
         reqs'[r].venue = reqs[r].venue, reqs'[r].cart = reqs[r].cart,
         reqs'[r].answer = reqs[r].answer,
         \A q \in Requests \ {r} : reqs'[q] = reqs[q],
         UNCHANGED <<items, orders, hooks>>
  PROVE  UNCHANGED AtOnce!sale
<1>1. /\ salePhase' = [salePhase EXCEPT ![r] = Phase(r)]
      /\ saleWish' = saleWish /\ saleAnswer' = saleAnswer
  BY TurnMaps
<1>2. salePhase' = salePhase
  BY <1>1 DEF salePhase
<1>3. saleSold' = saleSold
  BY DEF saleSold
<1> QED  BY <1>1, <1>2, <1>3 DEF AtOnce!sale

\* A request that is answered is answered in Sale.
LEMMA AnswerMaps ==
  ASSUME Typed, NEW r \in Requests, NEW a \in Replies, Answer(r, a)
  PROVE  AtOnce!Answer(r, a)
<1>1. /\ reqs'[r].pc = "done" /\ reqs'[r].answer = a
      /\ reqs'[r].venue = None /\ reqs'[r].cart = <<>>
      /\ \A q \in Requests \ {r} : reqs'[q] = reqs[q]
  BY AnswerFields
<1>2. Phase(r)' = "done"
  BY <1>1 DEF Phase, InTx
<1>3. \A q \in Requests \ {r} : Phase(q)' = Phase(q)
  BY <1>1, PhaseOfOthers
<1>4. salePhase' = [salePhase EXCEPT ![r] = "done"]
  BY <1>2, <1>3 DEF salePhase
<1>5. saleWish' = [saleWish EXCEPT ![r] = AtOnce!Nothing]
  BY <1>1 DEF saleWish, AtOnce!Nothing
<1>6. saleAnswer' = [saleAnswer EXCEPT ![r] = a]
  BY <1>1 DEF saleAnswer
<1> QED  BY <1>4, <1>5, <1>6 DEF AtOnce!Answer

\* A request may be rolled back whenever it has begun: it lapses.
LEMMA LapseMaps ==
  ASSUME IInv, NEW r \in Requests, reqs[r].pc \notin {"new", "done"},
         Rollback(r, "500")
  PROVE  AtOnce!Lapse(r)
<1>1. Typed /\ Answer(r, "500") /\ UNCHANGED <<items, orders, hooks>>
  BY DEF IInv, Rollback
<1>2. AtOnce!Answer(r, "500")
  BY <1>1, AnswerMaps DEF Replies
<1>3. reqs[r] \in Request
  BY <1>1 DEF Typed
<1>4. salePhase[r] \notin {"new", "done"}
  BY <1>3, SaleFields, PhaseCases DEF Request, Stages
<1>5. saleSold' = saleSold
  BY <1>1 DEF saleSold
<1> QED  BY <1>1, <1>2, <1>4, <1>5 DEF AtOnce!Lapse

LEMMA ReceiveMaps ==
  ASSUME IInv, NEW r \in Requests, NEW v \in Venues \cup {None}, NEW cart \in Carts,
         Receive(r, v, cart)
  PROVE  salePhase[r] = "new" /\ AtOnce!Come(r, v, cart)
<1>1. /\ Typed /\ reqs[r].pc = "new" /\ UNCHANGED <<items, orders, hooks>>
      /\ reqs \in [Requests -> Request]
  BY DEF IInv, Receive, Typed
<1>2. salePhase[r] = "new"
  BY <1>1, SaleFields, PhaseCases
<1>3. saleSold' = saleSold
  BY <1>1 DEF saleSold
<1>4. CASE cart = <<>>
  <2>1. AtOnce!Answer(r, "400")
    BY <1>1, <1>4, AnswerMaps DEF Receive, Replies
  <2> QED  BY <1>1, <1>2, <1>3, <1>4, <2>1 DEF AtOnce!Come
<1>5. CASE cart # <<>>
  <2>1. reqs' = [reqs EXCEPT ![r].pc = "venue", ![r].venue = v, ![r].cart = cart]
    BY <1>5 DEF Receive
  <2>2. /\ reqs'[r].pc = "venue" /\ reqs'[r].venue = v /\ reqs'[r].cart = cart
        /\ reqs'[r].answer = reqs[r].answer
        /\ \A q \in Requests \ {r} : reqs'[q] = reqs[q]
    <3> DEFINE new == [reqs[r] EXCEPT !.pc = "venue", !.venue = v, !.cart = cart]
    <3>1. reqs' = [reqs EXCEPT ![r] = new]
      BY <1>1, <2>1
    <3>2. reqs[r] \in Request
      BY <1>1
    <3>3. /\ new.pc = "venue" /\ new.venue = v /\ new.cart = cart
          /\ new.answer = reqs[r].answer
      BY <3>2 DEF Request
    <3> HIDE DEF new
    <3> QED  BY <1>1, <3>1, <3>3
  <2>3. Phase(r)' = "open"
    BY <2>2 DEF Phase, InTx
  <2>4. salePhase' = [salePhase EXCEPT ![r] = "open"]
    BY <2>2, <2>3, PhaseOfOthers DEF salePhase
  <2>5. saleWish' = [saleWish EXCEPT ![r] = [venue |-> v, cart |-> cart]]
    BY <2>2 DEF saleWish
  <2>6. saleAnswer' = saleAnswer
    BY <2>2 DEF saleAnswer
  <2> QED  BY <1>1, <1>2, <1>3, <1>5, <2>4, <2>5, <2>6 DEF AtOnce!Come
<1> QED  BY <1>2, <1>4, <1>5

LEMMA FindVenueMaps ==
  ASSUME IInv, NEW r \in Requests, FindVenue(r)
  PROVE  AtOnce!NoVenue(r) \/ UNCHANGED AtOnce!sale
<1>1. Typed /\ reqs[r].pc = "venue" /\ UNCHANGED <<items, orders, hooks>>
  BY DEF IInv, FindVenue
<1>2. CASE reqs[r].venue = None
  <2>1. salePhase[r] = "open" /\ saleWish[r].venue = None
    BY <1>1, <1>2, SaleFields, PhaseCases
  <2>2. AtOnce!Answer(r, "404")
    BY <1>1, <1>2, AnswerMaps DEF FindVenue, Replies
  <2>3. saleSold' = saleSold
    BY <1>1 DEF saleSold
  <2> QED  BY <1>1, <2>1, <2>2, <2>3 DEF AtOnce!NoVenue
<1>3. CASE reqs[r].venue # None
  <2>1. Goto(r, "begin")
    BY <1>3 DEF FindVenue
  <2>2. /\ reqs'[r].pc = "begin" /\ reqs'[r].venue = reqs[r].venue
        /\ reqs'[r].cart = reqs[r].cart /\ reqs'[r].answer = reqs[r].answer
        /\ \A q \in Requests \ {r} : reqs'[q] = reqs[q]
    BY <1>1, <2>1, GotoFields DEF Stages
  <2>3. Phase(r)' = Phase(r)
    BY <1>1, <2>2 DEF Phase, InTx
  <2> QED  BY <1>1, <2>2, <2>3, StutterMaps
<1> QED  BY <1>2, <1>3

\* What a cart asks for is an item.
LEMMA CartItems ==
  ASSUME IInv, CheckoutAssumption, NEW r \in Requests, NEW n \in DOMAIN reqs[r].cart
  PROVE  reqs[r].cart[n] \in [item : Items, quantity : Int]
<1>1. reqs[r].cart \in Carts \cup {<<>>}
  BY DEF IInv, Typed, Request
<1>2. reqs[r].cart # <<>>
  OBVIOUS
<1>3. reqs[r].cart \in Seq([item : Items, quantity : Int])
  BY <1>1, <1>2 DEF CheckoutAssumption
<1> QED  BY <1>3, LineOfSeq

\* Begin finds the rows that exist: when one is missing the request is doomed.
LEMMA BeginMaps ==
  ASSUME IInv, CheckoutAssumption, NEW r \in Requests, Begin(r)
  PROVE  AtOnce!Doom(r) \/ UNCHANGED AtOnce!sale
<1> DEFINE found == {i \in Items : /\ Exists(i)
                                   /\ \E n \in DOMAIN reqs[r].cart :
                                        reqs[r].cart[n].item = i}
<1>1. /\ reqs[r].pc = "begin" /\ UNCHANGED <<items, orders, hooks>>
      /\ reqs' = [reqs EXCEPT ![r].pc = "lock", ![r].found = found]
      /\ reqs \in [Requests -> Request]
  BY DEF IInv, Typed, Begin
<1>2. /\ reqs'[r].pc = "lock" /\ reqs'[r].found = found
      /\ reqs'[r].venue = reqs[r].venue /\ reqs'[r].cart = reqs[r].cart
      /\ reqs'[r].answer = reqs[r].answer
      /\ \A q \in Requests \ {r} : reqs'[q] = reqs[q]
  <2> DEFINE new == [reqs[r] EXCEPT !.pc = "lock", !.found = found]
  <2> HIDE DEF found
  <2>1. reqs' = [reqs EXCEPT ![r] = new]
    BY <1>1
  <2>2. /\ new.pc = "lock" /\ new.found = found /\ new.venue = reqs[r].venue
        /\ new.cart = reqs[r].cart /\ new.answer = reqs[r].answer
    BY <1>1 DEF Request
  <2> HIDE DEF new
  <2> QED  BY <1>1, <2>1, <2>2
<1>3. salePhase[r] = "open"
  BY <1>1, SaleFields, PhaseCases
<1>4. \A n \in DOMAIN reqs[r].cart :
        reqs[r].cart[n].item \in found <=> Exists(reqs[r].cart[n].item)
  <2> SUFFICES ASSUME NEW n \in DOMAIN reqs[r].cart
               PROVE  reqs[r].cart[n].item \in found <=> Exists(reqs[r].cart[n].item)
    OBVIOUS
  <2>1. reqs[r].cart[n] \in [item : Items, quantity : Int]
    BY CartItems
  <2>2. reqs[r].cart[n].item \in Items
    BY <2>1
  <2> QED  BY <2>2
<1>5. CASE \A n \in DOMAIN reqs[r].cart : Exists(reqs[r].cart[n].item)
  <2>1. Phase(r)' = "open"
    BY <1>2, <1>4, <1>5 DEF Phase, InTx
  <2>2. Phase(r)' = Phase(r)
    BY <1>3, <2>1, SaleFields
  <2> QED  BY <1>1, <1>2, <2>2, StutterMaps
<1>6. CASE \E n \in DOMAIN reqs[r].cart : ~Exists(reqs[r].cart[n].item)
  <2>1. Phase(r)' = "doomed"
    BY <1>2, <1>4, <1>6 DEF Phase, InTx
  <2>2. /\ salePhase' = [salePhase EXCEPT ![r] = "doomed"]
        /\ saleWish' = saleWish /\ saleAnswer' = saleAnswer
    BY <1>2, <2>1, TurnMaps
  <2>3. \E n \in DOMAIN saleWish[r].cart : ~AtOnce!OnMenu(saleWish[r].cart[n].item)
    BY <1>6, SaleFields DEF AtOnce!OnMenu, Exists
  <2>4. saleSold' = saleSold
    BY <1>1 DEF saleSold
  <2> QED  BY <1>1, <1>3, <2>2, <2>3, <2>4 DEF AtOnce!Doom, AtOnce!Turn
<1> QED  BY <1>5, <1>6

\* A request that goes on in its transaction is not seen by Sale.
LEMMA GotoMaps ==
  ASSUME IInv, NEW r \in Requests, NEW p \in InTx, Goto(r, p), reqs[r].pc \in InTx,
         UNCHANGED <<items, orders, hooks>>
  PROVE  UNCHANGED AtOnce!sale
<1>1. Typed /\ p \in Stages
  BY DEF IInv, Stages
<1>2. /\ reqs'[r].pc = p /\ reqs'[r].venue = reqs[r].venue
      /\ reqs'[r].cart = reqs[r].cart /\ reqs'[r].found = reqs[r].found
      /\ reqs'[r].answer = reqs[r].answer
      /\ \A q \in Requests \ {r} : reqs'[q] = reqs[q]
  BY <1>1, GotoFields
<1>3. Phase(r)' = Phase(r)
  BY <1>2, PhaseKept
<1> QED  BY <1>2, <1>3, StutterMaps

LEMMA LockRowMaps ==
  ASSUME IInv, NEW r \in Requests, NEW i \in Items, LockRow(r, i)
  PROVE  UNCHANGED AtOnce!sale
<1>1. /\ reqs[r].pc = "lock" /\ UNCHANGED <<items, orders, hooks>>
      /\ reqs' = [reqs EXCEPT ![r].read[i] = items[i]]
      /\ reqs \in [Requests -> Request]
  BY DEF IInv, Typed, LockRow
<1>2. /\ reqs'[r].pc = "lock" /\ reqs'[r].venue = reqs[r].venue
      /\ reqs'[r].cart = reqs[r].cart /\ reqs'[r].found = reqs[r].found
      /\ reqs'[r].answer = reqs[r].answer
      /\ \A q \in Requests \ {r} : reqs'[q] = reqs[q]
  BY <1>1 DEF Request
<1>3. Phase(r)' = Phase(r)
  BY <1>1, <1>2, PhaseKept DEF InTx
<1> QED  BY <1>1, <1>2, <1>3, StutterMaps

\* The rows a transaction has read when it has locked them all are the menu's.
LEMMA LockedRows ==
  ASSUME IInv, NEW r \in Requests, reqs[r].pc \in InTx, Missing(r) = {},
         NEW i \in reqs[r].found
  PROVE  i \in Items /\ reqs[r].read[i] = items[i] /\ Exists(i)
BY DEF IInv, Typed, Request, RequestSound, LocksSound, Missing

\* The validation refuses a request only for a reason that is there still.
LEMMA ValidateMaps ==
  ASSUME IInv, CheckoutAssumption, NEW r \in Requests, Validate(r)
  PROVE  AtOnce!Refuse(r) \/ UNCHANGED AtOnce!sale
<1>1. reqs[r].pc = "lock" /\ reqs[r].pc \in InTx /\ Missing(r) = {} /\ Typed
  BY DEF IInv, Validate, InTx
<1>2. salePhase[r] = IF Complete(r) THEN "open" ELSE "doomed"
  BY <1>1, SaleFields, PhaseCases
<1>3. ASSUME NEW n \in DOMAIN reqs[r].cart,
             reqs[r].cart[n].item \in reqs[r].found
      PROVE  /\ reqs[r].read[reqs[r].cart[n].item] = items[reqs[r].cart[n].item]
             /\ items[reqs[r].cart[n].item].venue # None
  BY <1>1, <1>3, LockedRows DEF Exists
<1>4. ASSUME NEW a \in Replies, Rollback(r, a)
      PROVE  AtOnce!Answer(r, a) /\ UNCHANGED <<items, saleSold, hooks>>
  <2>1. Answer(r, a) /\ UNCHANGED <<items, orders, hooks>>
    BY <1>4 DEF Rollback
  <2> QED  BY <1>1, <2>1, AnswerMaps DEF saleSold
<1>5. CASE OtherVenue(r) /\ Rollback(r, "400")
  <2>1. AtOnce!Foreign(r)
    <3>1. PICK n \in DOMAIN reqs[r].cart :
            /\ reqs[r].cart[n].item \in reqs[r].found
            /\ reqs[r].read[reqs[r].cart[n].item].venue # reqs[r].venue
      BY <1>5 DEF OtherVenue
    <3>2. /\ items[reqs[r].cart[n].item].venue # None
          /\ items[reqs[r].cart[n].item].venue # reqs[r].venue
      BY <1>3, <3>1
    <3> QED  BY <3>2, SaleFields DEF AtOnce!Foreign, AtOnce!OnMenu
  <2> QED  BY <1>2, <1>4, <1>5, <2>1 DEF AtOnce!Refuse, Replies
<1>6. CASE ~OtherVenue(r) /\ Unavailable(r) # {} /\ Rollback(r, "409")
  <2>1. AtOnce!Answer(r, "409") /\ UNCHANGED <<items, saleSold, hooks>>
    BY <1>4, <1>6 DEF Replies
  <2>2. CASE ~Complete(r)
    BY <1>2, <2>1, <2>2 DEF AtOnce!Refuse
  <2>3. CASE Complete(r)
    <3>1. ~AtOnce!Foreign(r)
      <4> SUFFICES ASSUME NEW n \in DOMAIN reqs[r].cart
                   PROVE  items[reqs[r].cart[n].item].venue = reqs[r].venue
        BY SaleFields DEF AtOnce!Foreign, AtOnce!OnMenu
      <4>1. reqs[r].cart[n].item \in reqs[r].found
        BY <2>3 DEF Complete
      <4> QED  BY <1>3, <1>6, <4>1 DEF OtherVenue
    <3>2. AtOnce!Lacking(r) # {}
      <4>1. PICK n \in DOMAIN reqs[r].cart :
              \/ reqs[r].cart[n].item \notin reqs[r].found
              \/ ~reqs[r].read[reqs[r].cart[n].item].available
              \/ reqs[r].cart[n].quantity <= 0
        BY <1>6 DEF Unavailable
      <4>2. reqs[r].cart[n].item \in reqs[r].found
        BY <2>3 DEF Complete
      <4>3. \/ ~items[reqs[r].cart[n].item].available
            \/ reqs[r].cart[n].quantity <= 0
        BY <1>3, <4>1, <4>2
      <4> QED  BY <4>3, SaleFields DEF AtOnce!Lacking
    <3> QED  BY <1>2, <2>1, <2>3, <3>1, <3>2 DEF AtOnce!Refuse
  <2> QED  BY <2>2, <2>3
<1>7. CASE Goto(r, "insert") /\ UNCHANGED <<items, locks, orders, hooks>>
  BY <1>1, <1>7, GotoMaps DEF InTx
<1> QED  BY <1>5, <1>6, <1>7 DEF Validate

LEMMA InsertOrderMaps ==
  ASSUME IInv, NEW r \in Requests, InsertOrder(r)
  PROVE  AtOnce!Lapse(r) \/ UNCHANGED AtOnce!sale
<1>1. reqs[r].pc = "insert" /\ reqs[r].pc \in InTx
  BY DEF InsertOrder, InTx
<1>2. CASE Rollback(r, "500")
  BY <1>1, <1>2, LapseMaps
<1>3. CASE Goto(r, "history") /\ UNCHANGED <<items, locks, orders, hooks>>
  BY <1>1, <1>3, GotoMaps DEF InTx
<1> QED  BY <1>2, <1>3 DEF InsertOrder

LEMMA AppendHistoryMaps ==
  ASSUME IInv, NEW r \in Requests, AppendHistory(r)
  PROVE  UNCHANGED AtOnce!sale
BY GotoMaps DEF AppendHistory, InTx

\* What is validated is for sale, and the order is what is on offer.
LEMMA ValidatedIsOffered ==
  ASSUME IInv, CheckoutAssumption, NEW r \in Requests, reqs[r].pc = "commit"
  PROVE  /\ salePhase[r] = "open"
         /\ ~AtOnce!Foreign(r) /\ AtOnce!Lacking(r) = {}
         /\ AtOnce!Offer(r) = [venue |-> Order(r).venue, lines |-> Order(r).lines]
<1>1. reqs[r].pc \in InTx /\ reqs[r].venue # None
  BY NoOrderYet DEF InTx
<1>2. ASSUME NEW n \in DOMAIN reqs[r].cart
      PROVE  /\ reqs[r].cart[n].item \in reqs[r].found
             /\ reqs[r].read[reqs[r].cart[n].item] = items[reqs[r].cart[n].item]
             /\ items[reqs[r].cart[n].item].venue = reqs[r].venue
             /\ items[reqs[r].cart[n].item].available = TRUE
             /\ reqs[r].cart[n].quantity > 0 /\ reqs[r].cart[n].quantity \in Int
  BY CartItems, ValidatedRows
<1>3. salePhase[r] = "open"
  BY <1>1, <1>2, SaleFields, PhaseCases DEF Complete
<1>4. ~AtOnce!Foreign(r)
  BY <1>2, SaleFields DEF AtOnce!Foreign
<1>5. AtOnce!Lacking(r) = {}
  <2> SUFFICES ASSUME NEW n \in DOMAIN reqs[r].cart
               PROVE  /\ AtOnce!OnMenu(reqs[r].cart[n].item)
                      /\ items[reqs[r].cart[n].item].available
                      /\ ~(reqs[r].cart[n].quantity <= 0)
    BY SaleFields DEF AtOnce!Lacking
  <2>1. AtOnce!OnMenu(reqs[r].cart[n].item)
    BY <1>1, <1>2 DEF AtOnce!OnMenu
  <2>2. items[reqs[r].cart[n].item].available
    BY <1>2
  <2>3. ~(reqs[r].cart[n].quantity <= 0)
    <3>1. reqs[r].cart[n].quantity > 0 /\ reqs[r].cart[n].quantity \in Int
      BY <1>2
    <3> QED  BY <3>1
  <2> QED  BY <2>1, <2>2, <2>3
<1>6. AtOnce!Offer(r) = [venue |-> Order(r).venue, lines |-> Order(r).lines]
  <2>1. [n \in DOMAIN reqs[r].cart |->
           [item |-> reqs[r].cart[n].item, price |-> items[reqs[r].cart[n].item].price,
            quantity |-> reqs[r].cart[n].quantity]] = Lines(r)
    BY <1>2 DEF Lines
  <2>2. Order(r).venue = reqs[r].venue /\ Order(r).lines = Lines(r)
    BY DEF Order
  <2> QED  BY <2>1, <2>2, SaleFields DEF AtOnce!Offer
<1> QED  BY <1>3, <1>4, <1>5, <1>6

LEMMA CommitMaps ==
  ASSUME IInv, CheckoutAssumption, NEW r \in Requests, Commit(r)
  PROVE  AtOnce!Sell(r)
<1>1. /\ Typed /\ reqs[r].pc = "commit" /\ UNCHANGED <<items, hooks>>
      /\ Goto(r, "notify") \/ Answer(r, "500")
  BY DEF IInv, Commit
<1>2. saleSold' = [saleSold EXCEPT ![r] = AtOnce!Offer(r)]
  <2>1. /\ orders'[r] = Order(r)
        /\ \A q \in Requests \ {r} : orders'[q] = orders[q]
    BY CommittedOrder
  <2>2. AtOnce!Offer(r) = [venue |-> orders'[r].venue, lines |-> orders'[r].lines]
    BY <1>1, <2>1, ValidatedIsOffered
  <2> QED  BY <2>1, <2>2 DEF saleSold
<1>3. AtOnce!Turn(r, "sold") \/ AtOnce!Answer(r, "500")
  <2>1. CASE Goto(r, "notify")
    <3>1. /\ reqs'[r].pc = "notify" /\ reqs'[r].venue = reqs[r].venue
          /\ reqs'[r].cart = reqs[r].cart /\ reqs'[r].answer = reqs[r].answer
          /\ \A q \in Requests \ {r} : reqs'[q] = reqs[q]
      BY <1>1, <2>1, GotoFields DEF Stages
    <3>2. Phase(r)' = "sold"
      BY <3>1 DEF Phase, InTx
    <3> QED  BY <3>1, <3>2, TurnMaps DEF AtOnce!Turn
  <2>2. CASE Answer(r, "500")
    BY <1>1, <2>2, AnswerMaps DEF Replies
  <2> QED  BY <1>1, <2>1, <2>2
<1> QED  BY <1>1, <1>2, <1>3, ValidatedIsOffered DEF AtOnce!Sell

LEMMA NotifyMaps ==
  ASSUME IInv, NEW r \in Requests, Notify(r)
  PROVE  AtOnce!Confirm(r)
<1>1. /\ Typed /\ reqs[r].pc = "notify"
      /\ hooks' = IF reqs[r].venue \in Callbacks THEN hooks \cup {r} ELSE hooks
      /\ UNCHANGED <<items, orders>>
  BY DEF IInv, Notify
<1>2. AtOnce!Answer(r, "201") \/ AtOnce!Answer(r, "500")
  <2>1. CASE Answer(r, "201")
    BY <1>1, <2>1, AnswerMaps DEF Replies
  <2>2. CASE Answer(r, "500")
    BY <1>1, <2>2, AnswerMaps DEF Replies
  <2> QED  BY <2>1, <2>2 DEF Notify
<1>3. salePhase[r] = "sold" /\ saleWish[r].venue = reqs[r].venue
  BY <1>1, SaleFields, PhaseCases
<1>4. saleSold' = saleSold
  BY <1>1 DEF saleSold
<1> QED  BY <1>1, <1>2, <1>3, <1>4 DEF AtOnce!Confirm

\* The statements of the venue API are those of Sale.
LEMMA EditMenuMaps ==
  ASSUME IInv, CheckoutAssumption, EditMenu
  PROVE  AtOnce!Edit
<1>1. Typed /\ Priced /\ items \in [Items -> Row]
  BY DEF IInv, Typed
<1>2. PICK i \in Items :
        \/ \E v \in Venues, price \in Prices : CreateItem(i, v, price)
        \/ \E available \in BOOLEAN : SetAvailability(i, available)
        \/ \E price \in Prices : UpdateItem(i, price)
  BY DEF EditMenu
<1>3. /\ salePhase' = salePhase /\ saleWish' = saleWish /\ saleAnswer' = saleAnswer
      /\ saleSold' = saleSold /\ hooks' = hooks
  <2>1. reqs' = reqs /\ orders' = orders /\ hooks' = hooks
    BY <1>2 DEF CreateItem, SetAvailability, UpdateItem
  <2>2. \A q \in Requests : Phase(q)' = Phase(q)
    BY <2>1, PhaseOfOthers
  <2>3. salePhase' = salePhase
    BY <2>2 DEF salePhase
  <2> QED  BY <2>1, <2>3 DEF saleWish, saleAnswer, saleSold
<1>4. \E price \in Prices :
        \/ \E v \in Venues : AtOnce!List(i, v, price)
        \/ \E available \in BOOLEAN : AtOnce!Alter(i, price, available)
  <2>1. ASSUME NEW v \in Venues, NEW price \in Prices, CreateItem(i, v, price)
        PROVE  AtOnce!List(i, v, price)
    BY <2>1 DEF CreateItem, AtOnce!List, AtOnce!OnMenu, Exists
  <2>2. ASSUME NEW available \in BOOLEAN, SetAvailability(i, available)
        PROVE  items[i].price \in Prices /\ AtOnce!Alter(i, items[i].price, available)
    <3>1. AtOnce!OnMenu(i) /\ items' = [items EXCEPT ![i].available = available]
      BY <2>2 DEF SetAvailability, AtOnce!OnMenu, Exists
    <3>2. items[i].price \in Prices
      BY <1>1, <3>1 DEF Priced, AtOnce!OnMenu, Exists
    <3>3. items' = [items EXCEPT ![i].price = items[i].price, ![i].available = available]
      BY <1>1, <3>1 DEF Row
    <3> QED  BY <3>1, <3>2, <3>3 DEF AtOnce!Alter
  <2>3. ASSUME NEW price \in Prices, UpdateItem(i, price)
        PROVE  AtOnce!Alter(i, price, items[i].available) /\ items[i].available \in BOOLEAN
    <3>1. AtOnce!OnMenu(i) /\ items' = [items EXCEPT ![i].price = price]
      BY <2>3 DEF UpdateItem, AtOnce!OnMenu, Exists
    <3>2. items' = [items EXCEPT ![i].price = price, ![i].available = items[i].available]
      BY <1>1, <3>1 DEF Row
    <3> QED  BY <1>1, <3>1, <3>2 DEF AtOnce!Alter, Row
  <2>4. CASE \E v \in Venues, price \in Prices : CreateItem(i, v, price)
    BY <2>1, <2>4
  <2>5. CASE \E available \in BOOLEAN : SetAvailability(i, available)
    BY <2>2, <2>5
  <2>6. CASE \E price \in Prices : UpdateItem(i, price)
    BY <2>3, <2>6
  <2> QED  BY <1>2, <2>4, <2>5, <2>6
<1> QED  BY <1>3, <1>4 DEF AtOnce!Edit

\* Every step of Checkout is a step of Sale, or not seen by it.
LEMMA StepMaps ==
  ASSUME IInv, CheckoutAssumption, [Next]_vars
  PROVE  [AtOnce!SaleNext]_(AtOnce!sale)
<1>1. ASSUME NEW r \in Requests, NEW v \in Venues \cup {None}, NEW cart \in Carts,
             Receive(r, v, cart)
      PROVE  AtOnce!SaleNext
  BY <1>1, ReceiveMaps DEF AtOnce!SaleNext
<1>2. ASSUME NEW r \in Requests, Step(r)
      PROVE  AtOnce!Settle(r) \/ UNCHANGED AtOnce!sale
  <2>1. CASE FindVenue(r)
    BY <2>1, FindVenueMaps DEF AtOnce!Settle
  <2>2. CASE Begin(r)
    BY <2>2, BeginMaps DEF AtOnce!Settle
  <2>3. CASE \E i \in Items : LockRow(r, i)
    BY <2>3, LockRowMaps
  <2>4. CASE Validate(r)
    BY <2>4, ValidateMaps DEF AtOnce!Settle
  <2>5. CASE InsertOrder(r)
    BY <2>5, InsertOrderMaps DEF AtOnce!Settle
  <2>6. CASE AppendHistory(r)
    BY <2>6, AppendHistoryMaps
  <2>7. CASE Commit(r)
    BY <2>7, CommitMaps DEF AtOnce!Settle
  <2>8. CASE Notify(r)
    BY <2>8, NotifyMaps DEF AtOnce!Settle
  <2>9. CASE DeadlockAbort(r)
    <3>1. reqs[r].pc = "lock" /\ Rollback(r, "500")
      BY <2>9 DEF DeadlockAbort, Deadlocked
    <3> QED  BY <3>1, LapseMaps DEF AtOnce!Settle
  <2> QED  BY <1>2, <2>1, <2>2, <2>3, <2>4, <2>5, <2>6, <2>7, <2>8, <2>9 DEF Step
<1>3. ASSUME NEW r \in Requests, Fail(r)
      PROVE  AtOnce!Settle(r)
  BY <1>3, LapseMaps DEF Fail, AtOnce!Settle
<1>4. CASE EditMenu
  BY <1>4, EditMenuMaps DEF AtOnce!SaleNext
<1>5. CASE UNCHANGED vars
  <2>1. UNCHANGED <<items, reqs, orders, hooks>>
    BY <1>5 DEF vars
  <2>2. \A q \in Requests : Phase(q)' = Phase(q)
    BY <2>1, PhaseOfOthers
  <2>3. salePhase' = salePhase
    BY <2>2 DEF salePhase
  <2> QED  BY <2>1, <2>3 DEF saleWish, saleAnswer, saleSold, AtOnce!sale
<1> QED  BY <1>1, <1>2, <1>3, <1>4, <1>5 DEF Next, AtOnce!SaleNext

LEMMA InitMaps == Init => AtOnce!SaleInit
<1> SUFFICES ASSUME Init PROVE AtOnce!SaleInit
  OBVIOUS
<1>1. /\ New.pc = "new" /\ New.venue = None /\ New.cart = <<>>
      /\ New.answer = "none"
      /\ NoOrder.venue = None /\ NoOrder.lines = <<>>
  BY DEF New, NoOrder
<1>2. \A r \in Requests : reqs[r] = New /\ orders[r] = NoOrder
  BY DEF Init
<1>3. salePhase = [r \in Requests |-> "new"]
  BY <1>1, <1>2, PhaseCases DEF salePhase
<1>4. saleWish = [r \in Requests |-> AtOnce!Nothing]
  BY <1>1, <1>2 DEF saleWish, AtOnce!Nothing
<1>5. saleAnswer = [r \in Requests |-> "none"]
  BY <1>1, <1>2 DEF saleAnswer
<1>6. saleSold = [r \in Requests |-> AtOnce!Unsold]
  BY <1>1, <1>2 DEF saleSold, AtOnce!Unsold
<1>7. items \in [Items -> {AtOnce!NoItem} \cup
                   [venue : Venues, price : Prices, available : {TRUE}]]
  BY DEF Init, NoItem, AtOnce!NoItem
<1> QED  BY <1>3, <1>4, <1>5, <1>6, <1>7 DEF Init, AtOnce!SaleInit

\* CreateOrder is a sale in one step, for any number of clients, items and
\* venues: the transaction, its row locks, its rollbacks and the venues' edits
\* between its statements can not be told from an order placed at once.
THEOREM RefinesSale == Spec => SaleSpec
<1>1. Init => AtOnce!SaleInit
  BY InitMaps
<1>2. IInv /\ [Next]_vars => [AtOnce!SaleNext]_(AtOnce!sale)
  BY CheckoutAssumption, StepMaps
<1> QED  BY <1>1, <1>2, Invariance, PTL DEF Spec, SaleSpec, AtOnce!SaleSpec
==============================================================================
