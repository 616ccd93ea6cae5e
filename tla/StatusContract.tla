---------------------------- MODULE StatusContract ----------------------------
(***************************************************************************)
(* What OrderUseCase.ChangeStatus promises to the two APIs that call it,   *)
(* whatever the interleaving of the calls: a call has at most one effect,  *)
(* one allowed transition made in one step, and its HTTP answer says what  *)
(* happened:                                                               *)
(*   204  the transition was made, by this call                            *)
(*   400  this call changed nothing, and the transition was not allowed or *)
(*        somebody else moved the order while the call was running         *)
(*   404  there is no such order                                           *)
(*   500  nothing is said: the effect may or may not have happened         *)
(* OrderLifecycle shows that the three SQL statements of the code keep     *)
(* this promise; Kitchen uses it as its picture of core.                   *)
(***************************************************************************)
EXTENDS OrderStatus

CONSTANTS Orders,  \* order ids
          Calls    \* concurrent invocations of ChangeStatus

VARIABLES status,  \* Orders -> the status column, NoStatus where no row is
          call     \* Calls -> what the call is about and how far it is

contractVars == <<status, call>>

Phases  == {"idle", "pending", "applied"}
Answers == {"none", "204", "400", "404", "500"}

Call == [phase  : Phases,
         order  : Orders \cup {NoStatus},
         from   : OrderStatuses \cup {NoStatus},
         to     : OrderStatuses \cup {NoStatus},
         answer : Answers]

\* A call that has returned: only its answer is left of it.
Idle(answer) == [phase |-> "idle", order |-> NoStatus, from |-> NoStatus,
                 to |-> NoStatus, answer |-> answer]

Return(c, answer) == call' = [call EXCEPT ![c] = Idle(answer)]

Init ==
  /\ status = [o \in Orders |-> NoStatus]
  /\ call = [c \in Calls |-> Idle("none")]

Create(o) ==
  /\ status[o] = NoStatus
  /\ status' = [status EXCEPT ![o] = "CREATED"]
  /\ UNCHANGED call

\* The call found no order, or an order that may not go to the status asked.
Refuse(c, o, to) ==
  /\ call[c].phase = "idle"
  /\ \/ status[o] = NoStatus /\ Return(c, "404")
     \/ status[o] # NoStatus /\ ~CanTransition(status[o], to) /\ Return(c, "400")
  /\ UNCHANGED status

Invoke(c, o, to) ==
  /\ call[c].phase = "idle"
  /\ status[o] # NoStatus
  /\ CanTransition(status[o], to)
  /\ call' = [call EXCEPT ![c] = [phase |-> "pending", order |-> o,
                                  from |-> status[o], to |-> to,
                                  answer |-> "none"]]
  /\ UNCHANGED status

\* The order was moved by somebody else after this call looked at it.
Overtaken(c) ==
  /\ call[c].phase = "pending"
  /\ status[call[c].order] # call[c].from
  /\ Return(c, "400")
  /\ UNCHANGED status

Effect(c) ==
  /\ call[c].phase = "pending"
  /\ CanTransition(status[call[c].order], call[c].to)
  /\ status' = [status EXCEPT ![call[c].order] = call[c].to]
  /\ call' = [call EXCEPT ![c].phase = "applied"]

Succeed(c) ==
  /\ call[c].phase = "applied"
  /\ Return(c, "204")
  /\ UNCHANGED status

Fail(c) ==
  /\ call[c].phase # "idle"
  /\ Return(c, "500")
  /\ UNCHANGED status

\* A failure before the call has looked at the order.
FailEarly(c) ==
  /\ call[c].phase = "idle"
  /\ Return(c, "500")
  /\ UNCHANGED status

Step(c) == Overtaken(c) \/ Effect(c) \/ Succeed(c) \/ Fail(c) \/ FailEarly(c)

Next ==
  \/ \E o \in Orders : Create(o)
  \/ \E c \in Calls : Step(c)
  \/ \E c \in Calls, o \in Orders, to \in OrderStatuses :
       Refuse(c, o, to) \/ Invoke(c, o, to)

Spec == Init /\ [][Next]_contractVars
==============================================================================
