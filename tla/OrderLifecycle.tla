---------------------------- MODULE OrderLifecycle ----------------------------
(***************************************************************************)
(* OrderUseCase.ChangeStatus, statement by statement, run concurrently by  *)
(* the handlers of the client API (cancel) and of the venue API (accept,   *)
(* reject, PATCH status) against the tables orders and                     *)
(* order_status_history.                                                   *)
(*                                                                         *)
(* One call is three statements, each on a connection of its own from the  *)
(* pool and each its own transaction:                                      *)
(*    SELECT status                       GetByID, then CanTransition      *)
(*    UPDATE ... WHERE status = from      UpdateStatus, a compare-and-set  *)
(*    INSERT INTO order_status_history    AppendStatusHistory(nil tx)      *)
(* Calls interleave between the statements, and a call can end after any   *)
(* of them: the connection is lost, the request's context is cancelled, or *)
(* core is killed, which ends every call, one after the other.  The answer *)
(* is then "500", standing for a call that the caller sees fail.           *)
(***************************************************************************)
EXTENDS OrderStatus, Sequences

CONSTANTS Orders,  \* order ids
          Calls    \* requests core serves at the same time; a slot is reused

VARIABLES orders,   \* Orders -> orders.status, NoStatus where there is no row
          journal,  \* Orders -> the rows of order_status_history, as inserted
          calls,    \* Calls -> the local state of an invocation
          lost      \* auxiliary: Orders -> the rows whose INSERT never happened

vars == <<orders, journal, calls, lost>>

Parties  == {"CLIENT", "VENUE"}
Statuses == OrderStatuses \cup {NoStatus}

Row == [from : Statuses, to : OrderStatuses, by : Parties]
NoRow == [from |-> NoStatus, to |-> NoStatus, by |-> "NONE"]

\* cancelOrder.
ClientRequests == {[to |-> "CANCELLED", by |-> "CLIENT"]}

\* acceptOrder, rejectOrder, and updateOrderStatus, which hands on whatever
\* status the body names (a name that is no status at all fails CanTransition
\* like one that is not allowed).
VenueRequests == [to : OrderStatuses, by : {"VENUE"}]

Requests == ClientRequests \cup VenueRequests

Call == [pc     : {"idle", "update", "append"},
         order  : Orders \cup {NoStatus},
         row    : Row \cup {NoRow},
         answer : {"none", "204", "400", "404", "500"}]

Idle(answer) == [pc |-> "idle", order |-> NoStatus, row |-> NoRow,
                 answer |-> answer]

\* writeError: ErrOrderNotFound is 404, ErrInvalidTransition 400, the rest 500.
Return(c, answer) == calls' = [calls EXCEPT ![c] = Idle(answer)]

Init ==
  /\ orders = [o \in Orders |-> NoStatus]
  /\ journal = [o \in Orders |-> <<>>]
  /\ calls = [c \in Calls |-> Idle("none")]
  /\ lost = [o \in Orders |-> {}]

-----------------------------------------------------------------------------
\* Slips: the actions below as an error in the code would make them.  They are
\* no part of the specification; each breaks one of its properties.

\* The first row of the history is signed with the party that never acts.
CreateOrderBySystem(o) ==
  /\ orders[o] = NoStatus
  /\ orders' = [orders EXCEPT ![o] = "CREATED"]
  /\ journal' = [journal EXCEPT ![o] =
       Append(@, [from |-> NoStatus, to |-> "CREATED", by |-> "SYSTEM"])]
  /\ UNCHANGED <<calls, lost>>

\* CanTransition is not asked.
ReadUnchecked(c, o, r) ==
  /\ calls[c].pc = "idle"
  /\ orders[o] # NoStatus
  /\ calls' = [calls EXCEPT ![c] =
       [pc |-> "update", order |-> o,
        row |-> [from |-> orders[o], to |-> r.to, by |-> r.by],
        answer |-> "none"]]
  /\ UNCHANGED <<orders, journal, lost>>

\* UPDATE without AND status = $2.
UpdateBlind(c) ==
  /\ calls[c].pc = "update"
  /\ orders' = [orders EXCEPT ![calls[c].order] = calls[c].row.to]
  /\ calls' = [calls EXCEPT ![c].pc = "append"]
  /\ UNCHANGED <<journal, lost>>

\* RowsAffected is not looked at.
UpdateMissedUnnoticed(c) ==
  /\ calls[c].pc = "update"
  /\ orders[calls[c].order] # calls[c].row.from
  /\ calls' = [calls EXCEPT ![c].pc = "append"]
  /\ UNCHANGED <<orders, journal, lost>>

\* No row updated is taken for nothing to do.
UpdateMissedIsFine(c) ==
  /\ calls[c].pc = "update"
  /\ orders[calls[c].order] # calls[c].row.from
  /\ Return(c, "204")
  /\ UNCHANGED <<orders, journal, lost>>

\* An INSERT whose answer is lost is tried again.
AppendHistoryRetried(c) ==
  /\ calls[c].pc = "append"
  /\ Len(journal[calls[c].order]) < 4
  /\ journal' = [journal EXCEPT ![calls[c].order] = Append(@, calls[c].row)]
  /\ \/ Return(c, "204")
     \/ UNCHANGED calls
  /\ UNCHANGED <<orders, lost>>
-----------------------------------------------------------------------------
\* CreateOrder commits the order and the first row of its history in one
\* transaction (module Checkout has the steps before the commit).
CreateOrder(o) ==
  /\ orders[o] = NoStatus
  /\ orders' = [orders EXCEPT ![o] = "CREATED"]
  /\ journal' = [journal EXCEPT ![o] =
       Append(@, [from |-> NoStatus, to |-> "CREATED", by |-> "CLIENT"])]
  /\ UNCHANGED <<calls, lost>>

\* ChangeStatus up to CanTransition, ending there.
ReadNotFound(c, o) ==
  /\ calls[c].pc = "idle"
  /\ orders[o] = NoStatus
  /\ Return(c, "404")
  /\ UNCHANGED <<orders, journal, lost>>

ReadRefused(c, o, r) ==
  /\ calls[c].pc = "idle"
  /\ orders[o] # NoStatus
  /\ ~CanTransition(orders[o], r.to)
  /\ Return(c, "400")
  /\ UNCHANGED <<orders, journal, lost>>

\* Either of GetByID's two queries fails.
ReadFailed(c) ==
  /\ calls[c].pc = "idle"
  /\ Return(c, "500")
  /\ UNCHANGED <<orders, journal, lost>>

\* ChangeStatus up to CanTransition, going on with the status it has read.
Read(c, o, r) ==
  /\ calls[c].pc = "idle"
  /\ orders[o] # NoStatus
  /\ CanTransition(orders[o], r.to)
  /\ calls' = [calls EXCEPT ![c] =
       [pc |-> "update", order |-> o,
        row |-> [from |-> orders[o], to |-> r.to, by |-> r.by],
        answer |-> "none"]]
  /\ UNCHANGED <<orders, journal, lost>>

\* UpdateStatus: a row is updated where the status is still the one read.
Update(c) ==
  LET o == calls[c].order IN
  /\ calls[c].pc = "update"
  /\ orders[o] = calls[c].row.from
  /\ orders' = [orders EXCEPT ![o] = calls[c].row.to]
  /\ calls' = [calls EXCEPT ![c].pc = "append"]
  /\ UNCHANGED <<journal, lost>>

\* UpdateStatus: no row was updated, ErrInvalidTransition.
UpdateMissed(c) ==
  /\ calls[c].pc = "update"
  /\ orders[calls[c].order] # calls[c].row.from
  /\ Return(c, "400")
  /\ UNCHANGED <<orders, journal, lost>>

\* The call ends before its UPDATE is executed.
UpdateFailed(c) ==
  /\ calls[c].pc = "update"
  /\ Return(c, "500")
  /\ UNCHANGED <<orders, journal, lost>>

\* AppendStatusHistory inserts the row; the answer reaches the call or not.
AppendHistory(c) ==
  LET o == calls[c].order IN
  /\ calls[c].pc = "append"
  /\ journal' = [journal EXCEPT ![o] = Append(@, calls[c].row)]
  /\ \/ Return(c, "204")
     \/ Return(c, "500")
  /\ UNCHANGED <<orders, lost>>

\* The call ends after its UPDATE was executed and before its INSERT is: the
\* INSERT fails, core stops, or the answer to the UPDATE itself is lost.
AppendFailed(c) ==
  LET o == calls[c].order IN
  /\ calls[c].pc = "append"
  /\ Return(c, "500")
  /\ lost' = [lost EXCEPT ![o] = @ \cup {calls[c].row}]
  /\ UNCHANGED <<orders, journal>>

Step(c) == \/ ReadFailed(c) \/ Update(c) \/ UpdateMissed(c) \/ UpdateFailed(c)
           \/ AppendHistory(c) \/ AppendFailed(c)

Next ==
  \/ \E o \in Orders : CreateOrder(o)
  \/ \E c \in Calls : Step(c)
  \/ \E c \in Calls, o \in Orders : ReadNotFound(c, o)
  \/ \E c \in Calls, o \in Orders, r \in Requests :
       ReadRefused(c, o, r) \/ Read(c, o, r)

Spec == Init /\ [][Next]_vars
-----------------------------------------------------------------------------
\* Every variable keeps its shape.
TypeOK ==
  /\ orders \in [Orders -> Statuses]
  /\ journal \in [Orders -> Seq(Row)]
  /\ calls \in [Calls -> Call]
  /\ lost \in [Orders -> SUBSET Row]

\* The moves an order has made: the rows of its history, those that calls are
\* about to insert, and those that were never inserted.
Written(o) == {journal[o][i] : i \in 1..Len(journal[o])}
Owed(o) == {calls[c].row : c \in {d \in Calls : /\ calls[d].pc = "append"
                                                /\ calls[d].order = o}}
Moves(o) == Written(o) \cup Owed(o) \cup lost[o]

\* Of the calls that race from one status, at most one has an effect: no two
\* moves of an order leave the same status, not the venue's accept and the
\* client's cancel, not the same accept sent twice.
OneWinner ==
  \A o \in Orders :
    /\ \A r, s \in Moves(o) : r.from = s.from => r = s
    /\ \A c, d \in Calls : /\ calls[c].pc = "append" /\ calls[d].pc = "append"
                           /\ calls[c].order = o /\ calls[d].order = o
                           => c = d \/ calls[c].row.from # calls[d].row.from

\* A move is entered in the history once at most, and never by two parties:
\* what a call owes or has lost is not in the history already.
WrittenOnce ==
  \A o \in Orders :
    /\ \A i, j \in 1..Len(journal[o]) :
         journal[o][i].from = journal[o][j].from => i = j
    /\ Written(o) \cap (Owed(o) \cup lost[o]) = {}
    /\ Owed(o) \cap lost[o] = {}

\* The moves of an order form one path of the state machine, from its creation
\* to the status its row now has: the history, once completed by the rows that
\* calls owe it and by those it lost, explains the status, and holds no row of
\* a change that was not made.
Explained(o) ==
  /\ orders[o] # NoStatus => \E r \in Moves(o) : r.from = NoStatus
  /\ \A r \in Moves(o) :
       /\ Rank[r.from] < Rank[orders[o]]
       /\ IF r.from = NoStatus THEN r.to = "CREATED"
                               ELSE CanTransition(r.from, r.to)
       /\ r.to = orders[o] \/ \E s \in Moves(o) : s.from = r.to

HistoryExplainsStatus == \A o \in Orders : Explained(o)

\* An order only moves along the table, whoever moves it and however stale the
\* status was that the call had read; so a final status is never left.
StatusFollowsTable ==
  [][\A o \in Orders : orders'[o] # orders[o] =>
       IF orders[o] = NoStatus THEN orders'[o] = "CREATED"
                               ELSE CanTransition(orders[o], orders'[o])]_vars

\* ChangeStatus keeps the promise of StatusContract: one effect at most, in
\* one step, and an answer that says whether there was one.
PhaseOf == [idle |-> "idle", update |-> "pending", append |-> "applied"]

contractCall ==
  [c \in Calls |->
     [phase  |-> PhaseOf[calls[c].pc],
      order  |-> calls[c].order,
      from   |-> calls[c].row.from,
      to     |-> calls[c].row.to,
      answer |-> calls[c].answer]]

Contract == INSTANCE StatusContract WITH status <- orders, call <- contractCall

ContractSpec == Contract!Spec
-----------------------------------------------------------------------------
\* What the comment of ChangeStatus says: changedBy ends up in
\* order_status_history.  When no call is running, the row of the change that
\* gave an order its status is in the history.
ChangeIsJournaled ==
  (\A c \in Calls : calls[c].pc = "idle") =>
    \A o \in Orders : orders[o] # NoStatus =>
      \E r \in Written(o) : r.to = orders[o]

\* What the client API says of cancel: it is available while the order is
\* CREATED or ACCEPTED.  A cancel is not refused with 400 in such a status.
CancelWhileAllowed ==
  [][\A c \in Calls :
       /\ calls[c].pc = "update" /\ calls[c].row.by = "CLIENT"
       /\ calls'[c].answer = "400"
       => ~CanTransition(orders[calls[c].order], "CANCELLED")]_vars
==============================================================================
