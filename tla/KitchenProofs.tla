---------------------------- MODULE KitchenProofs -----------------------------
(***************************************************************************)
(* Theorems about Kitchen for any orders, clients and sizes.               *)
(*                                                                         *)
(* The inductive invariant counts what core has granted a pipeline, known  *)
(* to the pipeline yet or not: the first grant is the transition to        *)
(* ACCEPTED, which the order makes once, and from then on only that        *)
(* pipeline and a client that cancels can move the order.                  *)
(***************************************************************************)
EXTENDS Kitchen, TLAPS

\* Core has granted what the pipeline asked for, and it has not heard yet.
Granted(p) ==
  \/ call[p].phase = "applied"
  \/ /\ pipeline[p].state = "waiting"
     /\ call[p].phase = "idle" /\ call[p].answer = "204"

Level(p) == pipeline[p].done + (IF Granted(p) THEN 1 ELSE 0)

\* The statuses of an order after a pipeline was granted n.
From(n) == {Course[m] : m \in n..Len(Course)} \cup (IF n = 1 THEN {"CANCELLED"} ELSE {})

Typed ==
  /\ status \in [Orders -> OrderStatuses \cup {NoStatus}]
  /\ call \in [Calls -> Call]
  /\ placed \in Seq(Orders)
  /\ hooks \subseteq Orders /\ seen \subseteq Orders
  /\ life \in 1..Lives /\ faults \in 0..MaxFaults
  /\ pipeline \in [Pipelines -> Pipeline]

\* A pipeline makes one call at a time, and for the next status of its course.
CallSound(p) ==
  /\ call[p].phase # "idle" =>
       /\ pipeline[p].state \notin {"none", "ready"}
       /\ pipeline[p].done < Len(Course)
       /\ call[p].order = OrderOf(p) /\ call[p].to = Course[pipeline[p].done + 1]
  /\ pipeline[p].state = "none" => pipeline[p].done = 0
  /\ Alive(p) => pipeline[p].done < Len(Course)

\* Clients do nothing but cancel, and only orders that are there.
ClientSound(c) == call[c].phase # "idle" =>
  /\ call[c].order \in Orders /\ status[call[c].order] # NoStatus
  /\ call[c].to = "CANCELLED"

\* A pipeline is started at most once, and not before its order is there.
StartSound(p) ==
  /\ status[OrderOf(p)] = NoStatus => pipeline[p].state = "none"
  /\ p[2] = 0 /\ OrderOf(p) \in hooks => pipeline[p].state = "none"
  /\ p[2] > life => pipeline[p].state = "none"
  /\ p[2] = life /\ pipeline[p].state # "none" => OrderOf(p) \in seen

HooksSound == \A o \in Orders : o \in hooks => status[o] # NoStatus

\* The order has what the pipeline was granted, and while the pipeline runs it
\* has nothing more, unless it is cancelled or an answer says nothing.
GrantSound(p) == Level(p) > 0 =>
  /\ status[OrderOf(p)] \in From(Level(p))
  /\ Alive(p) =>
       \/ status[OrderOf(p)] = Course[Level(p)]
       \/ Level(p) = 1 /\ status[OrderOf(p)] = "CANCELLED"
       \/ /\ pipeline[p].state = "waiting" /\ call[p].phase = "idle" /\ ~Granted(p)
          /\ status[OrderOf(p)] = Asked(p)

\* Only one pipeline of an order is granted anything.
Unique ==
  \A p, q \in Pipelines :
    OrderOf(p) = OrderOf(q) /\ Level(p) > 0 /\ Level(q) > 0 => p = q

IInv ==
  /\ Typed /\ HooksSound /\ Unique
  /\ \A p \in Pipelines : CallSound(p) /\ StartSound(p) /\ GrantSound(p)
  /\ \A c \in Clients : ClientSound(c)
-----------------------------------------------------------------------------
\* The course of an order, and what may follow each of its statuses.
LEMMA CourseFacts ==
  /\ Len(Course) = 5
  /\ Course[1] = "ACCEPTED" /\ Course[2] = "COOKING" /\ Course[3] = "READY"
  /\ Course[4] = "DELIVERING" /\ Course[5] = "COMPLETED"
BY DEF Course

LEMMA FromFacts ==
  ASSUME NEW n \in 1..5
  PROVE  /\ Course[n] \in From(n)
         /\ "CREATED" \notin From(n) /\ NoStatus \notin From(n)
         /\ "CANCELLED" \in From(n) <=> n = 1
         /\ "ACCEPTED" \in From(n) => n = 1
         /\ n > 1 => From(n) \subseteq From(n - 1)
<1>1. \A s : s \in From(n) <=>
             (\E m \in n..5 : s = Course[m]) \/ (n = 1 /\ s = "CANCELLED")
  BY CourseFacts DEF From
<1>2. \A m \in 1..5 : Course[m] \notin {"CREATED", "CANCELLED", NoStatus}
  <2> SUFFICES ASSUME NEW m \in 1..5
               PROVE  Course[m] \notin {"CREATED", "CANCELLED", NoStatus}
    OBVIOUS
  <2>1. m = 1 \/ m = 2 \/ m = 3 \/ m = 4 \/ m = 5
    OBVIOUS
  <2> QED  BY <2>1, CourseFacts DEF NoStatus
<1>3. \A m \in 2..5 : Course[m] # "ACCEPTED"
  BY CourseFacts
<1>4. ASSUME n > 1 PROVE From(n) \subseteq From(n - 1)
  <2>1. \A s \in From(n) : \E m \in (n - 1)..5 : s = Course[m]
    BY <1>1, <1>4
  <2> QED  BY <2>1, CourseFacts DEF From
<1>5. /\ Course[n] \in From(n)
      /\ "CREATED" \notin From(n) /\ NoStatus \notin From(n)
  <2>1. NoStatus # "CANCELLED"
    BY DEF NoStatus
  <2> QED  BY <1>1, <1>2, <2>1
<1>6. ("CANCELLED" \in From(n) <=> n = 1) /\ ("ACCEPTED" \in From(n) => n = 1)
  BY <1>1, <1>2, <1>3
<1> QED  BY <1>4, <1>5, <1>6

\* Only a new order is accepted, and only one that is not cooked is cancelled.
LEMMA TransitionFacts ==
  ASSUME NEW s \in OrderStatuses
  PROVE  /\ CanTransition(s, "ACCEPTED") => s = "CREATED"
         /\ CanTransition(s, "CANCELLED") => s \in {"CREATED", "ACCEPTED"}
BY DEF CanTransition, allowedTransitions, OrderStatuses

\* The names of pipelines.
LEMMA PipelineNames ==
  ASSUME NEW p \in Pipelines
  PROVE  OrderOf(p) \in Orders /\ p[2] \in 0..Lives /\ p = <<OrderOf(p), p[2]>>
BY DEF Pipelines, OrderOf

\* The fields of a pipeline.
LEMMA PipelineFields ==
  ASSUME Typed, NEW p \in Pipelines
  PROVE  /\ pipeline[p] \in Pipeline
         /\ pipeline[p].done \in 0..5 /\ pipeline[p].done \in Int
         /\ pipeline[p].state \in {"none", "ready", "waiting", "returned", "failed", "killed"}
         /\ Level(p) = IF Granted(p) THEN pipeline[p].done + 1 ELSE pipeline[p].done
BY CourseFacts DEF Typed, Pipeline, Level

\* A pipeline can only be granted what is on its course.
LEMMA LevelRange ==
  ASSUME Typed, NEW p \in Pipelines, CallSound(p)
  PROVE  Level(p) \in 0..5
<1>1. CASE Granted(p)
  <2>1. pipeline[p].done < 5
    BY <1>1, CourseFacts DEF Granted, CallSound, Alive
  <2> QED  BY <1>1, <2>1, PipelineFields
<1>2. CASE ~Granted(p)
  BY <1>2, PipelineFields
<1> QED  BY <1>1, <1>2
-----------------------------------------------------------------------------
\* What is the same for a pipeline whose state, call and status are the same.
LEMMA SamePipeline ==
  ASSUME NEW p \in Pipelines, pipeline'[p] = pipeline[p], call'[p] = call[p]
  PROVE  /\ Granted(p)' <=> Granted(p)
         /\ Level(p)' = Level(p)
         /\ CallSound(p) => CallSound(p)'
         /\ GrantSound(p) /\ status'[OrderOf(p)] = status[OrderOf(p)] => GrantSound(p)'
<1>1. Granted(p)' <=> Granted(p)
  BY DEF Granted
<1>2. Level(p)' = Level(p)
  BY <1>1 DEF Level
<1>3. CallSound(p) => CallSound(p)'
  BY DEF CallSound, Alive
<1>4. ASSUME GrantSound(p), status'[OrderOf(p)] = status[OrderOf(p)]
      PROVE  GrantSound(p)'
  BY <1>1, <1>2, <1>4 DEF GrantSound, Alive, Asked
<1> QED  BY <1>1, <1>2, <1>3, <1>4

\* Nobody is granted anything anew.
LEMMA UniqueKeeps ==
  ASSUME Unique, \A p \in Pipelines : Level(p)' > 0 => Level(p) > 0
  PROVE  Unique'
BY DEF Unique, OrderOf

\* A step of one pipeline that moves no order.
LEMMA OnePipelineKeeps ==
  ASSUME IInv, KitchenAssumption, NEW p \in Pipelines, Typed',
         UNCHANGED <<status, placed, hooks, life, seen>>,
         \A q \in Pipelines \ {p} : pipeline'[q] = pipeline[q],
         \A c \in Calls \ {p} : call'[c] = call[c],
         pipeline[p].state # "none", pipeline'[p].state # "none",
         CallSound(p)', GrantSound(p)', Level(p)' > 0 => Level(p) > 0
  PROVE  IInv'
<1>1. ASSUME NEW q \in Pipelines, q # p
      PROVE  CallSound(q)' /\ GrantSound(q)' /\ Level(q)' = Level(q)
  <2>1. q \in Calls
    BY DEF KitchenAssumption
  <2> QED  BY <1>1, <2>1, SamePipeline DEF IInv
<1>2. ASSUME NEW q \in Pipelines PROVE StartSound(q)'
  <2>1. StartSound(q)
    BY DEF IInv
  <2>2. pipeline'[q].state = "none" <=> pipeline[q].state = "none"
    OBVIOUS
  <2> QED  BY <2>1, <2>2 DEF StartSound
<1>3. ASSUME NEW c \in Clients PROVE ClientSound(c)'
  <2>1. c # p /\ c \in Calls
    BY DEF KitchenAssumption
  <2> QED  BY <2>1 DEF IInv, ClientSound
<1>4. Unique'
  BY <1>1, UniqueKeeps DEF IInv
<1>5. HooksSound'
  BY DEF IInv, HooksSound
<1> QED  BY <1>1, <1>2, <1>3, <1>4, <1>5 DEF IInv
-----------------------------------------------------------------------------
\* The fields of a call that returns.
LEMMA ReturnFields ==
  ASSUME Typed, NEW c \in Calls, NEW a \in Answers, Return(c, a)
  PROVE  /\ call' \in [Calls -> Call]
         /\ call'[c].phase = "idle" /\ call'[c].answer = a
         /\ \A d \in Calls \ {c} : call'[d] = call[d]
<1> DEFINE new == Idle(a)
<1>1. new \in Call /\ new.phase = "idle" /\ new.answer = a
  BY DEF Idle, Call, Phases
<1>2. call \in [Calls -> Call] /\ call' = [call EXCEPT ![c] = new]
  BY DEF Typed, Return
<1> HIDE DEF new
<1> QED  BY <1>1, <1>2

\* The call of a pipeline returns: 204 only when it had its effect.
LEMMA PipelineReturnKeeps ==
  ASSUME IInv, KitchenAssumption, NEW p \in Pipelines, NEW a \in Answers,
         call[p].phase # "idle", a = "204" => call[p].phase = "applied",
         Return(p, a), UNCHANGED <<status, placed, hooks, life, seen, pipeline>>,
         faults' \in 0..MaxFaults
  PROVE  IInv'
<1>1. Typed /\ p \in Calls /\ CallSound(p) /\ GrantSound(p)
  BY DEF IInv, KitchenAssumption
<1>2. /\ call' \in [Calls -> Call]
      /\ call'[p].phase = "idle" /\ call'[p].answer = a
      /\ \A c \in Calls \ {p} : call'[c] = call[c]
  BY <1>1, ReturnFields
<1>3. Typed'
  BY <1>1, <1>2 DEF Typed
<1>4. CallSound(p)'
  BY <1>1, <1>2 DEF CallSound, Alive
<1>5. /\ pipeline[p].state \notin {"none", "ready"} /\ pipeline[p].done \in 0..5
      /\ pipeline[p].done < 5
  BY <1>1, PipelineFields, CourseFacts DEF CallSound
<1>6. Granted(p)' => Granted(p)
  BY <1>2 DEF Granted
<1>7. Level(p)' > 0 => Level(p) > 0
  BY <1>5, <1>6 DEF Level
<1>8. GrantSound(p)'
  <2>1. CASE Granted(p)' <=> Granted(p)
    <3>1. Level(p)' = Level(p)
      BY <2>1 DEF Level
    <3>2. ~(call[p].phase = "idle")
      OBVIOUS
    <3> QED  BY <1>1, <2>1, <3>1, <3>2 DEF GrantSound, Alive
  <2>2. CASE Granted(p) /\ ~Granted(p)'
    <3>1. Level(p) = pipeline[p].done + 1 /\ Level(p)' = pipeline[p].done
      BY <1>5, <2>2 DEF Level
    <3> SUFFICES ASSUME pipeline[p].done > 0 PROVE GrantSound(p)'
      BY <3>1 DEF GrantSound
    <3>2. status[OrderOf(p)] \in From(pipeline[p].done + 1)
      BY <1>1, <1>5, <3>1 DEF GrantSound
    <3>3. From(pipeline[p].done + 1) \subseteq From(pipeline[p].done)
      BY <1>5, FromFacts
    <3>4. Alive(p) => /\ pipeline[p].state = "waiting"
                      /\ status[OrderOf(p)] = Asked(p)
      <4>1. Alive(p) => pipeline[p].state = "waiting"
        BY <1>5 DEF Alive
      <4>2. Alive(p) => status[OrderOf(p)] = Course[Level(p)]
        BY <1>1, <1>5, <2>2, <3>1 DEF GrantSound
      <4> QED  BY <3>1, <4>1, <4>2 DEF Asked
    <3>5. Alive(p)' => /\ pipeline'[p].state = "waiting" /\ call'[p].phase = "idle"
                       /\ status'[OrderOf(p)] = Asked(p)'
      BY <1>2, <3>4 DEF Alive, Asked
    <3>6. status'[OrderOf(p)] \in From(Level(p)')
      BY <3>1, <3>2, <3>3
    <3> QED  BY <2>2, <3>5, <3>6 DEF GrantSound
  <2> QED  BY <1>6, <2>1, <2>2
<1> QED  BY <1>2, <1>3, <1>4, <1>5, <1>7, <1>8, OnePipelineKeeps

\* A pipeline that ends, be it in the middle of a call.
LEMMA EndFields ==
  ASSUME Typed, NEW p \in Pipelines, CallSound(p), GrantSound(p),
         NEW s \in {"failed", "killed"}, Alive(p),
         pipeline'[p] = [pipeline[p] EXCEPT !.state = s],
         call'[p] = call[p], status' = status
  PROVE  /\ pipeline'[p] \in Pipeline
         /\ pipeline'[p].state = s /\ pipeline'[p].done = pipeline[p].done
         /\ CallSound(p)' /\ GrantSound(p)' /\ (Level(p)' > 0 => Level(p) > 0)
<1>1. /\ pipeline'[p] \in Pipeline
      /\ pipeline'[p].state = s /\ pipeline'[p].done = pipeline[p].done
  BY PipelineFields DEF Pipeline
<1>2. CallSound(p)'
  BY <1>1 DEF CallSound, Alive
<1>3. ~Alive(p)'
  BY <1>1 DEF Alive
<1>4. Granted(p)' => Granted(p)
  BY <1>1 DEF Granted
<1>5. pipeline[p].done \in 0..5 /\ pipeline[p].done < 5
  BY PipelineFields, CourseFacts DEF CallSound
<1>6. Level(p)' > 0 => Level(p) > 0
  BY <1>1, <1>4, <1>5 DEF Level
<1>7. GrantSound(p)'
  <2> SUFFICES ASSUME Level(p)' > 0 PROVE status[OrderOf(p)] \in From(Level(p)')
    BY <1>3 DEF GrantSound
  <2>1. CASE Level(p)' = Level(p)
    BY <2>1 DEF GrantSound
  <2>2. CASE Level(p)' # Level(p)
    <3>1. Level(p)' = pipeline[p].done /\ Level(p) = pipeline[p].done + 1
      BY <1>1, <1>4, <1>5, <2>2 DEF Level
    <3>2. pipeline[p].done \in 1..4
      BY <1>5, <3>1
    <3>3. From(pipeline[p].done + 1) \subseteq From(pipeline[p].done)
      BY <3>2, FromFacts
    <3> QED  BY <1>6, <3>1, <3>3 DEF GrantSound
  <2> QED  BY <2>1, <2>2
<1> QED  BY <1>1, <1>2, <1>6, <1>7

\* The state of one pipeline changes.
LEMMA GotoFields ==
  ASSUME Typed, NEW p \in Pipelines,
         NEW s \in {"none", "ready", "waiting", "returned", "failed", "killed"},
         Goto(p, s)
  PROVE  /\ pipeline' \in [Pipelines -> Pipeline]
         /\ pipeline'[p] = [pipeline[p] EXCEPT !.state = s]
         /\ pipeline'[p].state = s /\ pipeline'[p].done = pipeline[p].done
         /\ \A q \in Pipelines \ {p} : pipeline'[q] = pipeline[q]
BY DEF Typed, Pipeline, Goto

\* A pipeline asks for the next status of its course.
LEMMA RequestKeeps ==
  ASSUME IInv, KitchenAssumption, NEW p \in Pipelines, Request(p)
  PROVE  IInv'
<1>1. /\ Typed /\ CallSound(p) /\ GrantSound(p) /\ p \in Calls
      /\ pipeline[p].state = "ready" /\ Goto(p, "waiting")
      /\ UNCHANGED <<status, placed, hooks, life, seen>>
  BY DEF IInv, KitchenAssumption, Request, Invoke, Refuse, FailEarly
<1>2. /\ pipeline' \in [Pipelines -> Pipeline]
      /\ pipeline'[p].state = "waiting" /\ pipeline'[p].done = pipeline[p].done
      /\ \A q \in Pipelines \ {p} : pipeline'[q] = pipeline[q]
  BY <1>1, GotoFields
<1>3. call[p].phase = "idle" /\ pipeline[p].done < 5 /\ pipeline[p].done \in 0..5
  BY <1>1, PipelineFields, CourseFacts DEF CallSound, Alive
<1>4. faults' \in 0..MaxFaults
  BY <1>1 DEF Request, Fault, Typed, KitchenAssumption
<1> DEFINE Asks ==
      /\ call' \in [Calls -> Call] /\ \A c \in Calls \ {p} : call'[c] = call[c]
      /\ call'[p].phase # "applied"
      /\ call'[p].phase = "idle" => call'[p].answer # "204"
      /\ call'[p].phase # "idle" =>
           call'[p].order = OrderOf(p) /\ call'[p].to = Course[pipeline[p].done + 1]
<1>5. Asks
  <2>1. CASE Invoke(p, OrderOf(p), Asked(p))
    <3> DEFINE new == [phase |-> "pending", order |-> OrderOf(p),
                       from |-> status[OrderOf(p)], to |-> Asked(p), answer |-> "none"]
    <3>1. new \in Call
      <4>1. Asked(p) \in OrderStatuses
        <5>1. \A m \in 1..5 : Course[m] \in OrderStatuses
          <6> SUFFICES ASSUME NEW m \in 1..5 PROVE Course[m] \in OrderStatuses
            OBVIOUS
          <6>1. m = 1 \/ m = 2 \/ m = 3 \/ m = 4 \/ m = 5
            OBVIOUS
          <6> QED  BY <6>1, CourseFacts DEF OrderStatuses
        <5> QED  BY <1>3, <5>1 DEF Asked
      <4>2. OrderOf(p) \in Orders /\ status[OrderOf(p)] \in OrderStatuses \cup {NoStatus}
        BY <1>1, PipelineNames DEF Typed
      <4> QED  BY <4>1, <4>2 DEF Call, Phases, Answers
    <3>2. new.phase = "pending" /\ new.order = OrderOf(p) /\ new.to = Asked(p)
      OBVIOUS
    <3>3. call' = [call EXCEPT ![p] = new]
      BY <2>1 DEF Invoke
    <3> HIDE DEF new
    <3> QED  BY <1>1, <3>1, <3>2, <3>3 DEF Typed, Asked
  <2>2. ASSUME NEW a \in {"400", "404", "500"}, Return(p, a)
        PROVE  Asks
    <3>1. a \in Answers /\ a # "204"
      BY DEF Answers
    <3> QED  BY <1>1, <2>2, <3>1, ReturnFields
  <2> QED  BY <2>1, <2>2 DEF Request, Refuse, FailEarly
<1>6. Typed'
  BY <1>1, <1>2, <1>4, <1>5 DEF Typed
<1>7. CallSound(p)'
  BY <1>2, <1>3, <1>5, CourseFacts DEF CallSound, Alive
<1>8. ~Granted(p) /\ ~Granted(p)'
  BY <1>1, <1>3, <1>5 DEF Granted
<1>9. Level(p)' = Level(p)
  BY <1>2, <1>8 DEF Level
<1>10. GrantSound(p)'
  <2>1. Level(p) > 0 => /\ status[OrderOf(p)] \in From(Level(p))
                        /\ \/ status[OrderOf(p)] = Course[Level(p)]
                           \/ Level(p) = 1 /\ status[OrderOf(p)] = "CANCELLED"
    BY <1>1 DEF GrantSound, Alive
  <2> QED  BY <1>1, <1>9, <2>1 DEF GrantSound
<1> QED  BY <1>1, <1>2, <1>5, <1>6, <1>7, <1>9, <1>10, OnePipelineKeeps

\* An answer takes the pipeline on, or ends it.
LEMMA AnsweredKeeps ==
  ASSUME IInv, KitchenAssumption, NEW p \in Pipelines, Answered(p)
  PROVE  IInv'
<1>1. /\ Typed /\ CallSound(p) /\ GrantSound(p) /\ p \in Calls
      /\ pipeline[p].state = "waiting" /\ call[p].phase = "idle" /\ Alive(p)
      /\ UNCHANGED <<call, status, placed, hooks, life, seen, faults>>
  BY DEF IInv, KitchenAssumption, Answered, contractVars, Alive
<1>2. CASE call[p].answer = "204"
  <2> DEFINE done == pipeline[p].done + 1
             new == [state |-> IF done = Len(Course) THEN "returned" ELSE "ready",
                     done |-> done]
  <2>1. done \in 1..5
    BY <1>1, PipelineFields, CourseFacts DEF CallSound
  <2>2. /\ new \in Pipeline /\ new.done = done /\ new.state \in {"returned", "ready"}
        /\ new.state = "ready" => done < 5
    BY <2>1, CourseFacts DEF Pipeline
  <2>3. pipeline' = [pipeline EXCEPT ![p] = new]
    BY <1>2 DEF Answered
  <2> HIDE DEF new
  <2>4. /\ pipeline' \in [Pipelines -> Pipeline] /\ pipeline'[p] = new
        /\ \A q \in Pipelines \ {p} : pipeline'[q] = pipeline[q]
    BY <1>1, <2>2, <2>3 DEF Typed
  <2>5. Typed'
    BY <1>1, <2>4 DEF Typed
  <2>6. CallSound(p)'
    BY <1>1, <2>1, <2>2, <2>4, CourseFacts DEF CallSound, Alive
  <2>7. Granted(p) /\ ~Granted(p)'
    BY <1>1, <1>2, <2>2, <2>4 DEF Granted
  <2>8. Level(p)' = Level(p)
    BY <2>1, <2>2, <2>4, <2>7 DEF Level
  <2>9. GrantSound(p)'
    BY <1>1, <2>7, <2>8 DEF GrantSound
  <2> QED  BY <1>1, <2>2, <2>4, <2>5, <2>6, <2>8, <2>9, OnePipelineKeeps
<1>3. CASE call[p].answer # "204"
  <2>1. Goto(p, "failed")
    BY <1>3 DEF Answered
  <2>2. /\ pipeline' \in [Pipelines -> Pipeline]
        /\ pipeline'[p] = [pipeline[p] EXCEPT !.state = "failed"]
        /\ pipeline'[p].state = "failed"
        /\ \A q \in Pipelines \ {p} : pipeline'[q] = pipeline[q]
    BY <1>1, <2>1, GotoFields
  <2>3. Typed'
    BY <1>1, <2>2 DEF Typed
  <2>4. CallSound(p)' /\ GrantSound(p)' /\ (Level(p)' > 0 => Level(p) > 0)
    BY <1>1, <2>2, EndFields
  <2> QED  BY <1>1, <2>2, <2>3, <2>4, OnePipelineKeeps
<1> QED  BY <1>2, <1>3

LEMMA TimeOutKeeps ==
  ASSUME IInv, KitchenAssumption, NEW p \in Pipelines, TimeOut(p)
  PROVE  IInv'
<1>1. /\ Typed /\ CallSound(p) /\ GrantSound(p)
      /\ pipeline[p].state = "waiting" /\ Alive(p) /\ Goto(p, "failed")
      /\ UNCHANGED <<call, status, placed, hooks, life, seen>>
  BY DEF IInv, TimeOut, contractVars, Alive
<1>2. faults' \in 0..MaxFaults
  BY <1>1 DEF TimeOut, Fault, Typed, KitchenAssumption
<1>3. /\ pipeline' \in [Pipelines -> Pipeline]
      /\ pipeline'[p] = [pipeline[p] EXCEPT !.state = "failed"]
      /\ pipeline'[p].state = "failed"
      /\ \A q \in Pipelines \ {p} : pipeline'[q] = pipeline[q]
  BY <1>1, GotoFields
<1>4. Typed'
  BY <1>1, <1>2, <1>3 DEF Typed
<1>5. CallSound(p)' /\ GrantSound(p)' /\ (Level(p)' > 0 => Level(p) > 0)
  BY <1>1, <1>3, EndFields
<1> QED  BY <1>1, <1>3, <1>4, <1>5, OnePipelineKeeps
-----------------------------------------------------------------------------
\* Calls of clients touch no pipeline.
LEMMA ClientCallKeeps ==
  ASSUME IInv, KitchenAssumption, NEW c \in Clients,
         call' \in [Calls -> Call], \A d \in Calls \ {c} : call'[d] = call[d],
         ClientSound(c)', UNCHANGED <<status, placed, hooks, life, seen, pipeline>>,
         faults' \in 0..MaxFaults
  PROVE  IInv'
<1>1. Typed'
  BY DEF IInv, Typed
<1>2. ASSUME NEW p \in Pipelines
      PROVE  CallSound(p)' /\ GrantSound(p)' /\ StartSound(p)' /\ Level(p)' = Level(p)
  <2>1. p \in Calls /\ p # c
    BY DEF KitchenAssumption
  <2>2. StartSound(p)'
    BY DEF IInv, StartSound
  <2> QED  BY <2>1, <2>2, SamePipeline DEF IInv
<1>3. ASSUME NEW d \in Clients, d # c PROVE ClientSound(d)'
  BY <1>3 DEF IInv, ClientSound, KitchenAssumption
<1>4. Unique'
  BY <1>2, UniqueKeeps DEF IInv
<1>5. HooksSound'
  BY DEF IInv, HooksSound
<1> QED  BY <1>1, <1>2, <1>3, <1>4, <1>5 DEF IInv

LEMMA ClientCancelKeeps ==
  ASSUME IInv, KitchenAssumption, NEW c \in Clients, NEW o \in Orders,
         ClientCancel(c, o)
  PROVE  IInv'
<1>1. /\ Typed /\ c \in Calls
      /\ UNCHANGED <<status, placed, hooks, life, seen, pipeline, faults>>
  BY DEF IInv, KitchenAssumption, ClientCancel, Invoke, Refuse, kitchenVars
<1>2. CASE Invoke(c, o, "CANCELLED")
  <2> DEFINE new == [phase |-> "pending", order |-> o, from |-> status[o],
                     to |-> "CANCELLED", answer |-> "none"]
  <2>1. new \in Call /\ new.order = o /\ new.to = "CANCELLED"
    BY <1>1 DEF Typed, Call, Phases, Answers, OrderStatuses
  <2>2. call' = [call EXCEPT ![c] = new]
    BY <1>2 DEF Invoke
  <2> HIDE DEF new
  <2>3. /\ call' \in [Calls -> Call] /\ call'[c] = new
        /\ \A d \in Calls \ {c} : call'[d] = call[d]
    BY <1>1, <2>1, <2>2 DEF Typed
  <2>4. ClientSound(c)'
    BY <1>1, <1>2, <2>1, <2>3 DEF ClientSound, Invoke
  <2> QED  BY <1>1, <2>3, <2>4, ClientCallKeeps DEF Typed
<1>3. ASSUME NEW a \in {"400", "404"}, Return(c, a) PROVE IInv'
  <2>1. a \in Answers
    BY DEF Answers
  <2>2. /\ call' \in [Calls -> Call] /\ call'[c].phase = "idle"
        /\ \A d \in Calls \ {c} : call'[d] = call[d]
    BY <1>1, <1>3, <2>1, ReturnFields
  <2>3. ClientSound(c)'
    BY <2>2 DEF ClientSound
  <2> QED  BY <1>1, <2>2, <2>3, ClientCallKeeps DEF Typed
<1> QED  BY <1>2, <1>3 DEF ClientCancel, Refuse

\* Any call returns.
LEMMA ReturnKeeps ==
  ASSUME IInv, KitchenAssumption, NEW c \in Calls,
         Overtaken(c) \/ Succeed(c) \/ Fail(c),
         UNCHANGED <<placed, hooks, life, seen, pipeline>>, faults' \in 0..MaxFaults
  PROVE  IInv'
<1>1. PICK a \in {"204", "400", "500"} :
        /\ Return(c, a) /\ call[c].phase # "idle"
        /\ a = "204" => call[c].phase = "applied"
  BY DEF Overtaken, Succeed, Fail
<1>2. status' = status /\ a \in Answers
  BY DEF Overtaken, Succeed, Fail, Answers
<1>3. CASE c \in Pipelines
  BY <1>1, <1>2, <1>3, PipelineReturnKeeps
<1>4. CASE c \in Clients
  <2>1. Typed
    BY DEF IInv
  <2>2. /\ call' \in [Calls -> Call] /\ call'[c].phase = "idle"
        /\ \A d \in Calls \ {c} : call'[d] = call[d]
    BY <1>1, <1>2, <2>1, ReturnFields
  <2>3. ClientSound(c)'
    BY <2>2 DEF ClientSound
  <2> QED  BY <1>2, <1>4, <2>2, <2>3, ClientCallKeeps
<1> QED  BY <1>3, <1>4 DEF KitchenAssumption
-----------------------------------------------------------------------------
\* The fields of a call that takes effect.
LEMMA EffectFields ==
  ASSUME Typed, NEW c \in Calls, Effect(c), call[c].order \in Orders
  PROVE  /\ call' \in [Calls -> Call]
         /\ call'[c].phase = "applied"
         /\ call'[c].order = call[c].order /\ call'[c].to = call[c].to
         /\ \A d \in Calls \ {c} : call'[d] = call[d]
         /\ status'[call[c].order] = call[c].to
         /\ \A o \in Orders \ {call[c].order} : status'[o] = status[o]
<1> DEFINE new == [call[c] EXCEPT !.phase = "applied"]
<1>1. /\ call \in [Calls -> Call] /\ call' = [call EXCEPT ![c] = new]
      /\ DOMAIN status = Orders
      /\ status' = [status EXCEPT ![call[c].order] = call[c].to]
  BY DEF Typed, Effect
<1>2. /\ new \in Call /\ new.phase = "applied"
      /\ new.order = call[c].order /\ new.to = call[c].to
  BY <1>1 DEF Call, Phases
<1> HIDE DEF new
<1> QED  BY <1>1, <1>2

\* A call takes effect on an order that is there, and to a status.
LEMMA EffectTyped ==
  ASSUME IInv, KitchenAssumption, NEW c \in Calls, Effect(c)
  PROVE  /\ call[c].order \in Orders
         /\ status[call[c].order] \in OrderStatuses /\ call[c].to \in OrderStatuses
         /\ CanTransition(status[call[c].order], call[c].to)
<1>1. Typed /\ call[c] \in Call /\ call[c].phase = "pending"
      /\ CanTransition(status[call[c].order], call[c].to)
  BY DEF IInv, Typed, Effect
<1>2. call[c].order \in Orders /\ status[call[c].order] # NoStatus
  <2>1. CASE c \in Clients
    BY <1>1, <2>1 DEF IInv, ClientSound
  <2>2. CASE c \in Pipelines
    <3>1. call[c].order = OrderOf(c) /\ pipeline[c].state # "none"
      BY <1>1, <2>2 DEF IInv, CallSound
    <3> QED  BY <2>2, <3>1, PipelineNames DEF IInv, StartSound
  <2> QED  BY <2>1, <2>2 DEF KitchenAssumption
<1>3. status[call[c].order] \in OrderStatuses
  BY <1>1, <1>2 DEF Typed
<1>4. call[c].to \in OrderStatuses
  BY <1>1, <1>3 DEF CanTransition, allowedTransitions, OrderStatuses
<1> QED  BY <1>1, <1>2, <1>3, <1>4

\* What an effect leaves to be shown: the grants.
LEMMA EffectFrame ==
  ASSUME IInv, KitchenAssumption, NEW c \in Calls, Effect(c),
         UNCHANGED <<placed, hooks, life, seen, pipeline, faults>>,
         \A p \in Pipelines : GrantSound(p)', Unique'
  PROVE  IInv'
<1>1. /\ Typed /\ call[c].order \in Orders /\ call[c].to \in OrderStatuses
      /\ call[c].phase # "idle" /\ status[call[c].order] \in OrderStatuses
  BY EffectTyped DEF IInv, Effect
<1>2. /\ call' \in [Calls -> Call] /\ call'[c].phase = "applied"
      /\ call'[c].order = call[c].order /\ call'[c].to = call[c].to
      /\ \A d \in Calls \ {c} : call'[d] = call[d]
      /\ status'[call[c].order] = call[c].to
      /\ \A o \in Orders \ {call[c].order} : status'[o] = status[o]
  BY <1>1, EffectFields
<1>3. Typed'
  <2>1. status' \in [Orders -> OrderStatuses \cup {NoStatus}]
    BY <1>1 DEF Typed, Effect
  <2> QED  BY <1>1, <1>2, <2>1 DEF Typed
<1>4. NoStatus \notin OrderStatuses
  BY DEF NoStatus, OrderStatuses
<1>5. \A o \in Orders : status'[o] = NoStatus => status[o] = NoStatus
  BY <1>1, <1>2, <1>4
<1>6. ASSUME NEW p \in Pipelines PROVE CallSound(p)' /\ StartSound(p)'
  <2>1. p \in Calls /\ OrderOf(p) \in Orders /\ CallSound(p) /\ StartSound(p)
    BY PipelineNames DEF IInv, KitchenAssumption
  <2>2. /\ call'[p].phase # "idle" => call[p].phase # "idle"
        /\ call'[p].order = call[p].order /\ call'[p].to = call[p].to
    BY <1>1, <1>2, <2>1
  <2>3. CallSound(p)'
    BY <2>1, <2>2 DEF CallSound, Alive
  <2>4. StartSound(p)'
    BY <1>5, <2>1 DEF StartSound
  <2> QED  BY <2>3, <2>4
<1>7. ASSUME NEW d \in Clients PROVE ClientSound(d)'
  <2>1. ClientSound(d) /\ d \in Calls
    BY DEF IInv, KitchenAssumption
  <2>2. /\ call'[d].phase # "idle" => call[d].phase # "idle"
        /\ call'[d].order = call[d].order /\ call'[d].to = call[d].to
    BY <1>1, <1>2, <2>1
  <2> QED  BY <1>5, <2>1, <2>2 DEF ClientSound
<1>8. HooksSound'
  BY <1>5 DEF IInv, HooksSound
<1> QED  BY <1>3, <1>6, <1>7, <1>8 DEF IInv

\* A client cancels at most what was only accepted.
LEMMA ClientEffectKeeps ==
  ASSUME IInv, KitchenAssumption, NEW c \in Clients, Effect(c),
         UNCHANGED <<placed, hooks, life, seen, pipeline, faults>>
  PROVE  IInv'
<1>1. /\ Typed /\ c \in Calls /\ call[c].phase # "idle"
      /\ call[c].order \in Orders /\ call[c].to = "CANCELLED"
  BY DEF IInv, KitchenAssumption, Effect, ClientSound
<1>2. status[call[c].order] \in {"CREATED", "ACCEPTED"}
  BY <1>1, EffectTyped, TransitionFacts
<1>3. /\ \A d \in Calls \ {c} : call'[d] = call[d]
      /\ status'[call[c].order] = "CANCELLED"
      /\ \A o \in Orders \ {call[c].order} : status'[o] = status[o]
  BY <1>1, EffectFields
<1>4. ASSUME NEW p \in Pipelines PROVE GrantSound(p)' /\ Level(p)' = Level(p)
  <2>1. p \in Calls /\ p # c /\ OrderOf(p) \in Orders /\ GrantSound(p) /\ CallSound(p)
    BY PipelineNames DEF IInv, KitchenAssumption
  <2>2. call'[p] = call[p] /\ pipeline'[p] = pipeline[p]
    BY <1>3, <2>1
  <2>3. Level(p)' = Level(p) /\ Level(p) \in 0..5
    BY <1>1, <2>1, <2>2, SamePipeline, LevelRange
  <2>4. CASE OrderOf(p) = call[c].order
    <3> SUFFICES ASSUME Level(p) > 0 PROVE GrantSound(p)'
      BY <2>3 DEF GrantSound
    <3>1. Level(p) = 1
      BY <1>2, <2>1, <2>3, <2>4, FromFacts DEF GrantSound
    <3>2. "CANCELLED" \in From(1)
      BY FromFacts
    <3> QED  BY <1>3, <2>3, <2>4, <3>1, <3>2 DEF GrantSound
  <2>5. CASE OrderOf(p) # call[c].order
    BY <1>3, <2>1, <2>2, <2>3, <2>5, SamePipeline
  <2> QED  BY <2>3, <2>4, <2>5
<1>5. Unique'
  BY <1>4, UniqueKeeps DEF IInv
<1> QED  BY <1>1, <1>4, <1>5, EffectFrame

\* A pipeline is granted what it asks for: no other pipeline of the order was.
LEMMA PipelineEffectKeeps ==
  ASSUME IInv, KitchenAssumption, NEW q \in Pipelines, Effect(q),
         UNCHANGED <<placed, hooks, life, seen, pipeline, faults>>
  PROVE  IInv'
<1> DEFINE o == OrderOf(q)
           done == pipeline[q].done
<1>1. /\ Typed /\ Unique /\ q \in Calls /\ call[q].phase = "pending"
      /\ call[q].order = o /\ o \in Orders /\ CallSound(q)
      /\ call[q].to = Course[done + 1] /\ done < 5 /\ done \in 0..5
  BY PipelineNames, PipelineFields, CourseFacts DEF IInv, KitchenAssumption, Effect, CallSound
<1>2. ~Granted(q) /\ Level(q) = done
  BY <1>1, PipelineFields DEF Granted
<1>3. /\ call'[q].phase = "applied"
      /\ \A d \in Calls \ {q} : call'[d] = call[d]
      /\ status'[o] = Course[done + 1]
      /\ \A x \in Orders \ {o} : status'[x] = status[x]
  BY <1>1, EffectFields
<1>4. Granted(q)' /\ Level(q)' = done + 1
  BY <1>1, <1>3 DEF Granted, Level
<1>5. GrantSound(q)'
  <2>1. status'[o] = Course[Level(q)'] /\ Level(q)' \in 1..5
    BY <1>1, <1>3, <1>4
  <2>2. status'[o] \in From(Level(q)')
    BY <2>1, FromFacts
  <2> QED  BY <2>1, <2>2 DEF GrantSound
<1>6. ASSUME NEW p \in Pipelines, p # q
      PROVE  /\ GrantSound(p)' /\ Level(p)' = Level(p)
             /\ OrderOf(p) = o => Level(p) = 0
  <2>1. p \in Calls /\ OrderOf(p) \in Orders /\ GrantSound(p) /\ CallSound(p)
    BY PipelineNames DEF IInv, KitchenAssumption
  <2>2. call'[p] = call[p] /\ pipeline'[p] = pipeline[p]
    BY <1>3, <1>6, <2>1
  <2>3. Level(p)' = Level(p) /\ Level(p) \in 0..5
    BY <1>1, <2>1, <2>2, SamePipeline, LevelRange
  <2>4. OrderOf(p) = o => Level(p) = 0
    <3>1. CASE done > 0
      BY <1>1, <1>2, <1>6, <2>3, <3>1 DEF Unique
    <3>2. CASE done = 0
      <4>1. status[o] = "CREATED"
        BY <1>1, <3>2, EffectTyped, TransitionFacts, CourseFacts
      <4> QED  BY <2>1, <2>3, <4>1, FromFacts DEF GrantSound
    <3> QED  BY <1>1, <3>1, <3>2
  <2>5. GrantSound(p)'
    <3>1. CASE OrderOf(p) = o
      BY <2>3, <2>4, <3>1 DEF GrantSound
    <3>2. CASE OrderOf(p) # o
      BY <1>3, <2>1, <2>2, <3>2, SamePipeline
    <3> QED  BY <3>1, <3>2
  <2> QED  BY <2>3, <2>4, <2>5
<1>7. Unique'
  <2> SUFFICES ASSUME NEW p1 \in Pipelines, NEW p2 \in Pipelines,
                      OrderOf(p1) = OrderOf(p2), Level(p1)' > 0, Level(p2)' > 0
               PROVE  p1 = p2
    BY DEF Unique, OrderOf
  <2>1. CASE p1 = q \/ p2 = q
    BY <1>6, <2>1
  <2>2. CASE p1 # q /\ p2 # q
    BY <1>1, <1>6, <2>2 DEF Unique
  <2> QED  BY <2>1, <2>2
<1> QED  BY <1>1, <1>5, <1>6, <1>7, EffectFrame
-----------------------------------------------------------------------------
\* The page a poll returns is of orders that are new.
LEMMA NewOrdersAreNew ==
  ASSUME Typed, NEW o \in NewOrders
  PROVE  o \in Orders /\ status[o] = "CREATED"
<1>1. PICK n \in ListByVenue("CREATED") : o = placed[n]
  BY DEF NewOrders, Newest
<1>2. n \in DOMAIN placed /\ status[placed[n]] = "CREATED"
  BY <1>1 DEF ListByVenue
<1>3. placed[n] \in Orders
  BY <1>2 DEF Typed
<1> QED  BY <1>1, <1>2, <1>3

\* A pipeline that starts was granted nothing.
LEMMA StartFields ==
  ASSUME Typed, NEW p \in Pipelines, CallSound(p), pipeline[p].state = "none",
         pipeline'[p].state = "ready", pipeline'[p].done = 0, call'[p] = call[p]
  PROVE  CallSound(p)' /\ GrantSound(p)' /\ Level(p)' = 0
<1>1. call'[p].phase = "idle"
  BY DEF CallSound
<1>2. CallSound(p)'
  BY <1>1, CourseFacts DEF CallSound, Alive
<1>3. ~Granted(p)'
  BY <1>1 DEF Granted
<1>4. Level(p)' = 0
  BY <1>3 DEF Level
<1> QED  BY <1>2, <1>4 DEF GrantSound

\* Steps of restaurant-service that start or kill pipelines.
LEMMA ServiceKeeps ==
  ASSUME IInv, Typed', UNCHANGED <<contractVars, placed>>, hooks' \subseteq hooks,
         \A p \in Pipelines : /\ CallSound(p)' /\ GrantSound(p)' /\ StartSound(p)'
                              /\ Level(p)' > 0 => Level(p) > 0
  PROVE  IInv'
<1>1. Unique'
  BY UniqueKeeps DEF IInv
<1>2. HooksSound'
  BY DEF IInv, HooksSound, contractVars
<1>3. \A c \in Clients : ClientSound(c)'
  BY DEF IInv, ClientSound, contractVars
<1> QED  BY <1>1, <1>2, <1>3 DEF IInv

LEMMA ReceiveHookKeeps ==
  ASSUME IInv, KitchenAssumption, NEW o \in Orders, ReceiveHook(o)
  PROVE  IInv'
<1> DEFINE w == <<o, 0>>
<1>1. /\ Typed /\ o \in hooks /\ hooks' = hooks \ {o} /\ Goto(w, "ready")
      /\ UNCHANGED <<contractVars, placed, life, seen, faults>>
  BY DEF IInv, ReceiveHook
<1>2. w \in Pipelines /\ OrderOf(w) = o /\ w[2] = 0
  BY DEF Pipelines, OrderOf, KitchenAssumption
<1> HIDE DEF w
<1>3. /\ CallSound(w) /\ pipeline[w].state = "none" /\ pipeline[w].done = 0
      /\ status[o] # NoStatus
  BY <1>1, <1>2 DEF IInv, CallSound, StartSound, HooksSound
<1>4. /\ pipeline' \in [Pipelines -> Pipeline]
      /\ pipeline'[w].state = "ready" /\ pipeline'[w].done = 0
      /\ \A p \in Pipelines \ {w} : pipeline'[p] = pipeline[p]
  BY <1>1, <1>2, <1>3, GotoFields
<1>5. Typed'
  BY <1>1, <1>4 DEF Typed, contractVars
<1>6. ASSUME NEW p \in Pipelines
      PROVE  /\ CallSound(p)' /\ GrantSound(p)' /\ StartSound(p)'
             /\ Level(p)' > 0 => Level(p) > 0
  <2>1. CASE p = w
    <3>1. call'[w] = call[w]
      BY <1>1 DEF contractVars
    <3>2. CallSound(w)' /\ GrantSound(w)' /\ Level(w)' = 0
      BY <1>1, <1>2, <1>3, <1>4, <3>1, StartFields
    <3>3. StartSound(w)'
      BY <1>1, <1>2, <1>3 DEF StartSound, contractVars, Typed, KitchenAssumption
    <3> QED  BY <2>1, <3>2, <3>3
  <2>2. CASE p # w
    <3>1. /\ CallSound(p) /\ GrantSound(p) /\ StartSound(p)
          /\ pipeline'[p] = pipeline[p] /\ call'[p] = call[p] /\ status' = status
      BY <1>1, <1>4, <2>2 DEF IInv, contractVars
    <3>2. StartSound(p)'
      BY <1>1, <3>1 DEF StartSound
    <3> QED  BY <3>1, <3>2, SamePipeline
  <2> QED  BY <2>1, <2>2
<1> QED  BY <1>1, <1>5, <1>6, ServiceKeeps

LEMMA PollKeeps ==
  ASSUME IInv, KitchenAssumption, Poll
  PROVE  IInv'
<1> DEFINE Starts(p) == OrderOf(p) \in NewOrders \ seen /\ p[2] = life
<1>1. /\ Typed /\ seen' = seen \cup NewOrders
      /\ UNCHANGED <<contractVars, placed, hooks, life, faults>>
      /\ pipeline' = [p \in Pipelines |->
           IF Starts(p) THEN [state |-> "ready", done |-> 0] ELSE pipeline[p]]
  BY DEF IInv, Poll
<1>2. [state |-> "ready", done |-> 0] \in Pipeline
  BY CourseFacts DEF Pipeline
<1>3. Typed'
  <2>1. pipeline' \in [Pipelines -> Pipeline]
    BY <1>1, <1>2 DEF Typed
  <2>2. seen' \subseteq Orders
    BY <1>1, NewOrdersAreNew DEF Typed
  <2> QED  BY <1>1, <2>1, <2>2 DEF Typed, contractVars
<1>4. ASSUME NEW p \in Pipelines
      PROVE  /\ CallSound(p)' /\ GrantSound(p)' /\ StartSound(p)'
             /\ Level(p)' > 0 => Level(p) > 0
  <2>1. /\ CallSound(p) /\ GrantSound(p) /\ StartSound(p)
        /\ call'[p] = call[p] /\ status' = status
    BY <1>1 DEF IInv, contractVars
  <2>2. CASE Starts(p)
    <3>1. /\ OrderOf(p) \in NewOrders /\ OrderOf(p) \notin seen /\ p[2] = life
          /\ life \in 1..Lives /\ Lives \in Nat
      BY <1>1, <2>2 DEF Typed, KitchenAssumption
    <3>2. pipeline[p].state = "none"
      BY <2>1, <3>1 DEF StartSound
    <3>3. pipeline'[p].state = "ready" /\ pipeline'[p].done = 0
      BY <1>1, <2>2
    <3>4. CallSound(p)' /\ GrantSound(p)' /\ Level(p)' = 0
      BY <1>1, <2>1, <3>2, <3>3, StartFields
    <3>5. StartSound(p)'
      <4>1. status[OrderOf(p)] # NoStatus
        BY <1>1, <3>1, NewOrdersAreNew DEF NoStatus
      <4>2. p[2] # 0 /\ ~(p[2] > life) /\ OrderOf(p) \in seen'
        BY <1>1, <3>1
      <4> QED  BY <1>1, <2>1, <4>1, <4>2 DEF StartSound
    <3> QED  BY <3>4, <3>5
  <2>3. CASE ~Starts(p)
    <3>1. pipeline'[p] = pipeline[p]
      BY <1>1, <2>3
    <3>2. StartSound(p)'
      BY <1>1, <2>1, <3>1 DEF StartSound
    <3> QED  BY <2>1, <3>1, <3>2, SamePipeline
  <2> QED  BY <2>2, <2>3
<1> QED  BY <1>1, <1>3, <1>4, ServiceKeeps

\* What is killed was granted no more than before, and the new life has started
\* nothing yet.
LEMMA RestartKeeps ==
  ASSUME IInv, KitchenAssumption, Restart
  PROVE  IInv'
<1>1. /\ Typed /\ life < Lives /\ life' = life + 1 /\ seen' = {}
      /\ UNCHANGED <<contractVars, placed, hooks>>
      /\ pipeline' = [p \in Pipelines |->
           IF Alive(p) THEN [pipeline[p] EXCEPT !.state = "killed"] ELSE pipeline[p]]
  BY DEF IInv, Restart
<1>2. life \in 1..Lives /\ life' \in 1..Lives /\ faults' \in 0..MaxFaults
  BY <1>1 DEF Restart, Fault, Typed, KitchenAssumption
<1>3. ASSUME NEW p \in Pipelines
      PROVE  /\ pipeline'[p] \in Pipeline
             /\ CallSound(p)' /\ GrantSound(p)' /\ StartSound(p)'
             /\ Level(p)' > 0 => Level(p) > 0
  <2>1. /\ CallSound(p) /\ GrantSound(p) /\ StartSound(p) /\ pipeline[p] \in Pipeline
        /\ call'[p] = call[p] /\ status' = status
    BY <1>1 DEF IInv, Typed, contractVars
  <2>2. p[2] \in Int /\ life \in Int
    BY <1>2, PipelineNames
  <2>3. CASE Alive(p)
    <3>1. pipeline'[p] = [pipeline[p] EXCEPT !.state = "killed"]
      BY <1>1, <2>3
    <3>2. /\ pipeline'[p] \in Pipeline
          /\ CallSound(p)' /\ GrantSound(p)' /\ (Level(p)' > 0 => Level(p) > 0)
      BY <1>1, <2>1, <2>3, <3>1, EndFields
    <3>3. pipeline[p].state # "none"
      BY <2>3 DEF Alive
    <3>4. StartSound(p)'
      BY <1>1, <2>1, <2>2, <3>3 DEF StartSound
    <3> QED  BY <3>2, <3>4
  <2>4. CASE ~Alive(p)
    <3>1. pipeline'[p] = pipeline[p]
      BY <1>1, <2>4
    <3>2. StartSound(p)'
      <4>1. p[2] > life' \/ p[2] = life' => p[2] > life
        BY <1>1, <2>2
      <4>2. p[2] > life => pipeline[p].state = "none"
        BY <2>1 DEF StartSound
      <4> QED  BY <1>1, <2>1, <3>1, <4>1, <4>2 DEF StartSound
    <3> QED  BY <2>1, <3>1, <3>2, SamePipeline
  <2> QED  BY <2>3, <2>4
<1>4. Typed'
  <2>1. pipeline' \in [Pipelines -> Pipeline]
    BY <1>1, <1>3
  <2> QED  BY <1>1, <1>2, <2>1 DEF Typed, contractVars
<1> QED  BY <1>1, <1>3, <1>4, ServiceKeeps
-----------------------------------------------------------------------------
\* A new order has been granted to nobody.
LEMMA PlaceOrderKeeps ==
  ASSUME IInv, KitchenAssumption, NEW o \in Orders, PlaceOrder(o)
  PROVE  IInv'
<1>1. /\ Typed /\ status[o] = NoStatus /\ status' = [status EXCEPT ![o] = "CREATED"]
      /\ hooks \subseteq hooks' /\ hooks' \subseteq hooks \cup {o}
      /\ UNCHANGED <<call, life, seen, pipeline, faults>>
  BY DEF IInv, PlaceOrder, Create
<1>2. /\ status' \in [Orders -> OrderStatuses \cup {NoStatus}]
      /\ status'[o] = "CREATED" /\ "CREATED" # NoStatus
      /\ \A x \in Orders \ {o} : status'[x] = status[x]
  BY <1>1 DEF Typed, OrderStatuses, NoStatus
<1>3. placed' \in Seq(Orders)
  BY <1>1 DEF PlaceOrder, InsertAt, Typed
<1>4. Typed'
  BY <1>1, <1>2, <1>3 DEF Typed
<1>5. ASSUME NEW p \in Pipelines
      PROVE  CallSound(p)' /\ GrantSound(p)' /\ StartSound(p)' /\ Level(p)' = Level(p)
  <2>1. /\ CallSound(p) /\ GrantSound(p) /\ StartSound(p) /\ OrderOf(p) \in Orders
        /\ call'[p] = call[p] /\ pipeline'[p] = pipeline[p]
    BY <1>1, PipelineNames DEF IInv
  <2>2. CallSound(p)' /\ Level(p)' = Level(p) /\ Level(p) \in 0..5
    BY <1>1, <2>1, SamePipeline, LevelRange
  <2>3. CASE OrderOf(p) = o
    <3>1. Level(p) = 0
      BY <1>1, <2>1, <2>2, <2>3, FromFacts DEF GrantSound
    <3>2. GrantSound(p)'
      BY <2>2, <3>1 DEF GrantSound
    <3>3. StartSound(p)'
      BY <1>1, <2>1, <2>3 DEF StartSound
    <3> QED  BY <2>2, <3>2, <3>3
  <2>4. CASE OrderOf(p) # o
    <3>1. status'[OrderOf(p)] = status[OrderOf(p)]
      BY <1>2, <2>1, <2>4
    <3>2. StartSound(p)'
      BY <1>1, <2>1, <2>4, <3>1 DEF StartSound
    <3> QED  BY <2>1, <2>2, <3>1, <3>2, SamePipeline
  <2> QED  BY <2>3, <2>4
<1>6. ASSUME NEW c \in Clients PROVE ClientSound(c)'
  <2>1. ClientSound(c) /\ call'[c] = call[c]
    BY <1>1 DEF IInv
  <2> QED  BY <1>1, <1>2, <2>1 DEF ClientSound
<1>7. Unique'
  BY <1>5, UniqueKeeps DEF IInv
<1>8. HooksSound'
  BY <1>1, <1>2 DEF IInv, HooksSound
<1> QED  BY <1>4, <1>5, <1>6, <1>7, <1>8 DEF IInv

LEMMA LoseHookKeeps ==
  ASSUME IInv, NEW o \in Orders, LoseHook(o)
  PROVE  IInv'
<1>1. /\ Typed /\ hooks' = hooks \ {o}
      /\ UNCHANGED <<contractVars, placed, life, seen, pipeline, faults>>
  BY DEF IInv, LoseHook
<1>2. Typed'
  BY <1>1 DEF Typed, contractVars
<1>3. ASSUME NEW p \in Pipelines
      PROVE  CallSound(p)' /\ GrantSound(p)' /\ StartSound(p)' /\ Level(p)' = Level(p)
  <2>1. /\ CallSound(p) /\ GrantSound(p) /\ StartSound(p)
        /\ call'[p] = call[p] /\ pipeline'[p] = pipeline[p] /\ status' = status
    BY <1>1 DEF IInv, contractVars
  <2>2. StartSound(p)'
    BY <1>1, <2>1 DEF StartSound
  <2> QED  BY <2>1, <2>2, SamePipeline
<1> QED  BY <1>1, <1>2, <1>3, ServiceKeeps

\* A call that core goes on with returns or takes effect.
LEMMA CoreStepKeeps ==
  ASSUME IInv, KitchenAssumption, NEW c \in Calls, CoreStep(c)
  PROVE  IInv'
<1>1. UNCHANGED <<placed, hooks, life, seen, pipeline, faults>>
  BY DEF CoreStep, kitchenVars
<1>2. CASE Overtaken(c) \/ Succeed(c)
  BY <1>1, <1>2, ReturnKeeps DEF IInv, Typed
<1>3. CASE Effect(c)
  BY <1>1, <1>3, ClientEffectKeeps, PipelineEffectKeeps DEF KitchenAssumption
<1> QED  BY <1>2, <1>3 DEF CoreStep

LEMMA CoreFailsKeeps ==
  ASSUME IInv, KitchenAssumption, NEW c \in Calls, CoreFails(c)
  PROVE  IInv'
<1>1. faults' \in 0..MaxFaults
  BY DEF CoreFails, Fault, IInv, Typed, KitchenAssumption
<1> QED  BY <1>1, ReturnKeeps DEF CoreFails

LEMMA InitEstablishes == KitchenAssumption /\ KitchenInit => IInv
<1> SUFFICES ASSUME KitchenAssumption, KitchenInit PROVE IInv
  OBVIOUS
<1> DEFINE idle == Idle("none")
<1>1. idle \in Call /\ idle.phase = "idle" /\ idle.answer = "none"
  BY DEF Idle, Call, Phases, Answers
<1>2. /\ status = [o \in Orders |-> NoStatus] /\ call = [c \in Calls |-> idle]
      /\ placed = <<>> /\ hooks = {} /\ life = 1 /\ seen = {} /\ faults = 0
      /\ pipeline = [p \in Pipelines |-> [state |-> "none", done |-> 0]]
  BY DEF KitchenInit, Init
<1> HIDE DEF idle
<1>3. [state |-> "none", done |-> 0] \in Pipeline
  BY CourseFacts DEF Pipeline
<1>4. Typed
  BY <1>1, <1>2, <1>3 DEF Typed, KitchenAssumption
<1>5. ASSUME NEW p \in Pipelines
      PROVE  CallSound(p) /\ StartSound(p) /\ Level(p) = 0
  <2>1. /\ pipeline[p].state = "none" /\ pipeline[p].done = 0
        /\ call[p].phase = "idle"
    BY <1>1, <1>2 DEF KitchenAssumption
  <2>2. ~Granted(p)
    BY <2>1 DEF Granted
  <2>3. Level(p) = 0
    BY <2>1, <2>2 DEF Level
  <2>4. CallSound(p)
    BY <2>1 DEF CallSound, Alive
  <2>5. StartSound(p)
    BY <2>1 DEF StartSound
  <2> QED  BY <2>3, <2>4, <2>5
<1>6. \A p \in Pipelines : GrantSound(p)
  BY <1>5 DEF GrantSound
<1>7. Unique
  BY <1>5 DEF Unique
<1>8. \A c \in Clients : ClientSound(c)
  BY <1>1, <1>2 DEF ClientSound, KitchenAssumption
<1>9. HooksSound
  BY <1>2 DEF HooksSound
<1> QED  BY <1>4, <1>5, <1>6, <1>7, <1>8, <1>9 DEF IInv

LEMMA NextKeeps == KitchenAssumption /\ IInv /\ [KitchenNext]_vars => IInv'
<1> SUFFICES ASSUME KitchenAssumption, IInv, [KitchenNext]_vars PROVE IInv'
  OBVIOUS
<1>1. ASSUME NEW o \in Orders, PlaceOrder(o) \/ LoseHook(o) \/ ReceiveHook(o)
      PROVE  IInv'
  BY <1>1, PlaceOrderKeeps, LoseHookKeeps, ReceiveHookKeeps
<1>2. ASSUME NEW c \in Calls, CoreStep(c) \/ CoreFails(c) PROVE IInv'
  BY <1>2, CoreStepKeeps, CoreFailsKeeps
<1>3. ASSUME NEW c \in Clients, NEW o \in Orders, ClientCancel(c, o) PROVE IInv'
  BY <1>3, ClientCancelKeeps
<1>4. ASSUME NEW p \in Pipelines, Request(p) \/ Answered(p) \/ TimeOut(p) PROVE IInv'
  BY <1>4, RequestKeeps, AnsweredKeeps, TimeOutKeeps
<1>5. CASE UNCHANGED vars
  <2>1. /\ UNCHANGED <<contractVars, placed, hooks, life, seen, pipeline, faults>>
        /\ call' = call /\ status' = status
    BY <1>5 DEF vars, kitchenVars, contractVars
  <2>2. Typed'
    BY <2>1 DEF IInv, Typed
  <2>3. ASSUME NEW p \in Pipelines
        PROVE  CallSound(p)' /\ GrantSound(p)' /\ StartSound(p)' /\ Level(p)' = Level(p)
    <3>1. CallSound(p) /\ GrantSound(p) /\ StartSound(p)
      BY DEF IInv
    <3>2. StartSound(p)'
      BY <2>1, <3>1 DEF StartSound
    <3> QED  BY <2>1, <3>1, <3>2, SamePipeline
  <2> QED  BY <2>1, <2>2, <2>3, ServiceKeeps
<1> QED  BY <1>1, <1>2, <1>3, <1>4, <1>5, PollKeeps, RestartKeeps DEF KitchenNext

\* The invariant the theorems below follow from.
THEOREM Invariance == KitchenSpec => []IInv
BY KitchenAssumption, InitEstablishes, NextKeeps, PTL DEF KitchenSpec

\* Every variable keeps its type, and a pipeline that runs has something left to
\* ask for.
THEOREM TypeCorrect == KitchenSpec => []TypeOK
<1>1. IInv => TypeOK
  BY DEF IInv, Typed, CallSound, TypeOK
<1> QED  BY <1>1, Invariance, PTL

\* However many webhooks, polls and lives of restaurant-service find an order,
\* one pipeline at most gets it accepted and goes on to cook it.
THEOREM CookedAtMostOnce == KitchenSpec => []CookedOnce
<1>1. IInv => CookedOnce
  <2> SUFFICES ASSUME IInv, NEW p \in Pipelines, NEW q \in Pipelines,
                      OrderOf(p) = OrderOf(q),
                      pipeline[p].done > 0, pipeline[q].done > 0
               PROVE  p = q
    BY DEF CookedOnce
  <2>1. Level(p) > 0 /\ Level(q) > 0
    BY PipelineFields DEF IInv
  <2> QED  BY <2>1 DEF IInv, Unique
<1> QED  BY <1>1, Invariance, PTL

\* A pipeline that runs is in step with its order, whatever other pipelines,
\* clients, failures and lost answers do.
THEOREM StaysInStep == KitchenSpec => []PipelineInStep
<1>1. IInv => PipelineInStep
  <2> SUFFICES ASSUME IInv, NEW p \in Pipelines, Alive(p), pipeline[p].done > 0
               PROVE  \/ status[OrderOf(p)] = Course[pipeline[p].done]
                      \/ /\ pipeline[p].state = "waiting"
                         /\ status[OrderOf(p)] = Asked(p)
                      \/ pipeline[p].done = 1 /\ status[OrderOf(p)] = "CANCELLED"
    BY DEF PipelineInStep
  <2>1. Typed /\ CallSound(p) /\ GrantSound(p) /\ pipeline[p].done \in 0..5
    BY PipelineFields DEF IInv
  <2>2. CASE Granted(p)
    <3>1. Level(p) = pipeline[p].done + 1
      BY <2>2 DEF Level
    <3>2. status[OrderOf(p)] = Course[pipeline[p].done + 1]
      BY <2>1, <2>2, <3>1 DEF GrantSound
    <3>3. pipeline[p].state = "waiting"
      BY <2>1, <2>2 DEF Granted, CallSound, Alive
    <3> QED  BY <3>2, <3>3 DEF Asked
  <2>3. CASE ~Granted(p)
    <3>1. Level(p) = pipeline[p].done
      BY <2>1, <2>3, PipelineFields
    <3> QED  BY <2>1, <3>1 DEF GrantSound
  <2> QED  BY <2>2, <2>3
<1> QED  BY <1>1, Invariance, PTL

\* An order that a pipeline was told to cook is never cancelled, not even when
\* the pipeline has failed or was killed since.
THEOREM NoCookingForCancelled == KitchenSpec => []NotCookedWhenCancelled
<1>1. IInv => NotCookedWhenCancelled
  <2> SUFFICES ASSUME IInv, NEW p \in Pipelines, pipeline[p].done > 1
               PROVE  status[OrderOf(p)] # "CANCELLED"
    BY DEF NotCookedWhenCancelled
  <2>1. Typed /\ CallSound(p) /\ GrantSound(p)
    BY DEF IInv
  <2>2. Level(p) \in 0..5 /\ Level(p) > 1
    BY <2>1, LevelRange, PipelineFields
  <2>3. status[OrderOf(p)] \in From(Level(p))
    BY <2>1, <2>2 DEF GrantSound
  <2> QED  BY <2>2, <2>3, FromFacts
<1> QED  BY <1>1, Invariance, PTL
==============================================================================
