----------------------------- MODULE ServerProofs -----------------------------
(***************************************************************************)
(* Theorems about Server for any requests, be they infinitely many, and a  *)
(* pool of any size.                                                       *)
(*                                                                         *)
(* The inductive invariant follows the work of each request: what its      *)
(* stage says of the database, of its connection and of its answer; and it *)
(* says what main may rely on while it stops.                              *)
(***************************************************************************)
EXTENDS Server, FiniteSetTheorems, TLAPS

Request == [pc : InHandler \cup {"idle", "log", "flush", "done"},
            key : BOOLEAN, conn : BOOLEAN,
            status : Answers \cup {"200"}, sent : Answers \cup {"none"}]

Effects == SUBSET {"status", "history", "order"}

Typed ==
  /\ proc \in {"starting", "serving", "deaf", "draining", "closing", "exited"}
  /\ how \in {"well", "late", "killed"}
  /\ reqs \in [Requests -> Request]
  /\ effect \in [Requests -> Effects]
  /\ cut \subseteq Requests
  /\ log \in [Requests -> Answers \cup {"none"}]
  /\ got \in [Requests -> Answers \cup {"none"}]

\* What a handler has made visible when it comes to a stage.
EffectAt(pc) == IF pc = "append" THEN {"status"}
                ELSE IF pc = "notify" THEN {"order"} ELSE {}

\* The answers that say something of the database.
Truthful(status, e) ==
  /\ status = "204" => e = {"status", "history"}
  /\ status = "201" => e = {"order"}
  /\ status \in {"400", "401", "404", "409"} => e = {}

RequestSound(r) ==
  /\ reqs[r].conn => reqs[r].pc \in Statements \cup {"commit"}
  /\ reqs[r].pc \in InHandler \cup {"idle"} =>
       effect[r] = EffectAt(reqs[r].pc) /\ reqs[r].sent = "none"
  /\ reqs[r].pc \in {"log", "flush", "done"} =>
       /\ reqs[r].sent \in Answers /\ reqs[r].status = reqs[r].sent
       /\ Truthful(reqs[r].sent, effect[r])
  /\ reqs[r].pc \in {"flush", "done"} => log[r] = reqs[r].sent
  /\ got[r] = IF reqs[r].pc = "done" THEN reqs[r].sent ELSE "none"

\* The pool has handed out no more than it has.
PoolSound == IsFiniteSet(Holders) /\ Cardinality(Holders) <= PoolSize

\* Nothing is under way before main serves, nor after it has stopped well.
StopSound ==
  /\ proc = "starting" => \A r \in Requests : reqs[r].pc = "idle"
  /\ how = "well" => cut = {}
  /\ how = "well" /\ proc \in {"closing", "exited"} => Unanswered = {}

IInv == Typed /\ (\A r \in Requests : RequestSound(r)) /\ PoolSound /\ StopSound
-----------------------------------------------------------------------------
\* A subset of a finite set is finite and no larger.
LEMMA Smaller ==
  ASSUME NEW S, NEW T, T \subseteq S, IsFiniteSet(S), NEW n \in Nat,
         Cardinality(S) <= n
  PROVE  IsFiniteSet(T) /\ Cardinality(T) <= n
<1>1. /\ IsFiniteSet(T) /\ Cardinality(T) <= Cardinality(S)
  BY FS_Subset
<1>2. Cardinality(S) \in Nat /\ Cardinality(T) \in Nat
  BY <1>1, FS_CardinalityType
<1> QED  BY <1>1, <1>2

\* A step of request r: what it does to the others, and to main.
OnlyFor(r) ==
  /\ \A q \in Requests \ {r} :
       /\ reqs'[q] = reqs[q] /\ effect'[q] = effect[q]
       /\ log'[q] = log[q] /\ got'[q] = got[q]
  /\ UNCHANGED <<proc, how>>

\* No request disturbs another.
LEMMA OthersKeep ==
  ASSUME IInv, NEW r \in Requests, OnlyFor(r), Typed', RequestSound(r)',
         PoolSound', StopSound'
  PROVE  IInv'
<1> SUFFICES ASSUME NEW q \in Requests, q # r PROVE RequestSound(q)'
  BY DEF IInv
<1>1. RequestSound(q)
  BY DEF IInv
<1> QED  BY <1>1 DEF RequestSound, OnlyFor

\* A request that takes no connection leaves the pool as sound as it was.
LEMMA PoolKeeps ==
  ASSUME PoolSound, ServerAssumption, NEW r \in Requests,
         \A q \in Requests \ {r} : reqs'[q] = reqs[q],
         reqs'[r].conn => reqs[r].conn
  PROVE  PoolSound'
<1>1. Holders' \subseteq Holders
  BY DEF Holders
<1>2. PoolSize \in Nat
  BY DEF ServerAssumption
<1>3. IsFiniteSet(Holders') /\ Cardinality(Holders') <= PoolSize
  BY <1>1, <1>2, Smaller DEF PoolSound
<1> QED  BY <1>3 DEF PoolSound

\* A request that is at work is not answered yet, so main has not stopped well.
LEMMA AtWork ==
  ASSUME IInv, NEW r \in Requests, Alive(r), reqs[r].pc # "done"
  PROVE  proc \notin {"starting", "exited"} /\ (proc = "closing" => how # "well")
BY DEF IInv, StopSound, Alive, Unanswered

LEMMA StopKeeps ==
  ASSUME IInv, NEW r \in Requests, Alive(r), reqs[r].pc # "done",
         UNCHANGED <<proc, how>>, how = "well" => cut' = cut
  PROVE  StopSound'
BY AtWork DEF IInv, StopSound
-----------------------------------------------------------------------------
\* The fields of a request that goes on, and of one that is answered.
LEMMA GotoFields ==
  ASSUME Typed, NEW r \in Requests, NEW pc \in InHandler \cup {"flush", "done"},
         NEW conn \in BOOLEAN, Goto(r, pc, conn)
  PROVE  /\ reqs' \in [Requests -> Request]
         /\ reqs'[r].pc = pc /\ reqs'[r].conn = conn
         /\ reqs'[r].status = reqs[r].status /\ reqs'[r].sent = reqs[r].sent
         /\ \A q \in Requests \ {r} : reqs'[q] = reqs[q]
<1> DEFINE new == [reqs[r] EXCEPT !.pc = pc, !.conn = conn]
<1>1. reqs \in [Requests -> Request] /\ reqs' = [reqs EXCEPT ![r] = new]
  BY DEF Typed, Goto
<1>2. /\ new \in Request /\ new.pc = pc /\ new.conn = conn
      /\ new.status = reqs[r].status /\ new.sent = reqs[r].sent
  BY <1>1 DEF Request
<1> HIDE DEF new
<1> QED  BY <1>1, <1>2

\* What is written first is what is sent, and what is written last is logged.
LEMMA HeaderFields ==
  ASSUME NEW req \in Request, NEW a \in Answers, req.sent = "none"
  PROVE  /\ WriteHeader(req, a) \in Request
         /\ WriteHeader(req, a).status = a /\ WriteHeader(req, a).sent = a
BY DEF WriteHeader, Request

LEMMA WriteFields ==
  ASSUME Typed, NEW r \in Requests, NEW a \in Answers, Write(r, a),
         reqs[r].sent = "none"
  PROVE  /\ reqs' \in [Requests -> Request]
         /\ reqs'[r].pc = "log" /\ reqs'[r].conn = FALSE
         /\ reqs'[r].status = a /\ reqs'[r].sent = a
         /\ \A q \in Requests \ {r} : reqs'[q] = reqs[q]
<1> DEFINE written == WriteHeader(reqs[r], a)
           new == [written EXCEPT !.pc = "log", !.conn = FALSE]
<1>1. reqs \in [Requests -> Request] /\ reqs' = [reqs EXCEPT ![r] = new]
  BY DEF Typed, Write
<1>2. written \in Request /\ written.status = a /\ written.sent = a
  BY <1>1, HeaderFields
<1> HIDE DEF written
<1>3. /\ new \in Request /\ new.pc = "log" /\ new.conn = FALSE
      /\ new.status = a /\ new.sent = a
  BY <1>2 DEF Request
<1> HIDE DEF new
<1> QED  BY <1>1, <1>3

\* A handler may go on when it has made visible what its next stage expects.
LEMMA GotoKeeps ==
  ASSUME IInv, ServerAssumption, NEW r \in Requests, Alive(r),
         NEW pc \in InHandler, NEW conn \in BOOLEAN, Goto(r, pc, conn),
         reqs[r].pc \in InHandler,
         conn => reqs[r].conn /\ pc \in Statements \cup {"commit"},
         effect' \in [Requests -> Effects], effect'[r] = EffectAt(pc),
         \A q \in Requests \ {r} : effect'[q] = effect[q],
         UNCHANGED <<proc, how, log, got, cut>>
  PROVE  IInv'
<1>1. Typed /\ PoolSound /\ RequestSound(r)
  BY DEF IInv
<1>2. /\ reqs' \in [Requests -> Request]
      /\ reqs'[r].pc = pc /\ reqs'[r].conn = conn /\ reqs'[r].sent = reqs[r].sent
      /\ \A q \in Requests \ {r} : reqs'[q] = reqs[q]
  BY <1>1, GotoFields
<1>3. Typed'
  BY <1>1, <1>2 DEF Typed
<1>4. pc \notin {"idle", "log", "flush", "done"} /\ reqs[r].pc # "done"
  BY DEF InHandler, Statements
<1>5. RequestSound(r)'
  BY <1>1, <1>2, <1>4 DEF RequestSound
<1>6. PoolSound'
  BY <1>1, <1>2, PoolKeeps
<1>7. StopSound'
  BY <1>4, StopKeeps
<1> QED  BY <1>2, <1>3, <1>5, <1>6, <1>7, OthersKeep DEF OnlyFor

\* A handler may write an answer that is true of what it has made visible.
LEMMA WriteKeeps ==
  ASSUME IInv, ServerAssumption, NEW r \in Requests, Alive(r), NEW a \in Answers,
         Write(r, a), reqs[r].pc \in InHandler,
         effect' \in [Requests -> Effects], Truthful(a, effect'[r]),
         \A q \in Requests \ {r} : effect'[q] = effect[q],
         cut' \subseteq Requests, how = "well" => cut' = cut,
         UNCHANGED <<proc, how, log, got>>
  PROVE  IInv'
<1>1. Typed /\ PoolSound /\ RequestSound(r) /\ reqs[r].sent = "none"
  BY DEF IInv, RequestSound
<1>2. /\ reqs' \in [Requests -> Request]
      /\ reqs'[r].pc = "log" /\ reqs'[r].conn = FALSE
      /\ reqs'[r].status = a /\ reqs'[r].sent = a
      /\ \A q \in Requests \ {r} : reqs'[q] = reqs[q]
  BY <1>1, WriteFields
<1>3. Typed'
  BY <1>1, <1>2 DEF Typed
<1>4. "log" \notin InHandler /\ reqs[r].pc # "done"
  BY DEF InHandler, Statements
<1>5. RequestSound(r)'
  BY <1>1, <1>2, <1>4 DEF RequestSound
<1>6. PoolSound'
  BY <1>1, <1>2, PoolKeeps
<1>7. StopSound'
  BY <1>4, StopKeeps
<1> QED  BY <1>2, <1>3, <1>5, <1>6, <1>7, OthersKeep DEF OnlyFor
-----------------------------------------------------------------------------
LEMMA AcquireKeeps ==
  ASSUME IInv, ServerAssumption, NEW r \in Requests, Acquire(r)
  PROVE  IInv'
<1>1. /\ Typed /\ RequestSound(r) /\ Alive(r) /\ reqs[r].pc \in Statements
      /\ Cardinality(Holders) < PoolSize /\ Goto(r, reqs[r].pc, TRUE)
      /\ UNCHANGED <<proc, how, effect, log, got, cut>>
  BY DEF IInv, Acquire
<1>2. reqs[r].pc \in InHandler /\ reqs[r].pc \notin {"log", "flush", "done"}
  BY <1>1 DEF InHandler, Statements
<1>3. /\ reqs' \in [Requests -> Request]
      /\ reqs'[r].pc = reqs[r].pc /\ reqs'[r].conn = TRUE
      /\ reqs'[r].sent = reqs[r].sent
      /\ \A q \in Requests \ {r} : reqs'[q] = reqs[q]
  BY <1>1, <1>2, GotoFields
<1>4. Typed'
  BY <1>1, <1>3 DEF Typed
<1>5. RequestSound(r)'
  BY <1>1, <1>2, <1>3 DEF RequestSound
<1>6. PoolSound'
  <2>1. Holders' = Holders \cup {r}
    BY <1>3 DEF Holders
  <2>2. IsFiniteSet(Holders) /\ Cardinality(Holders) \in Nat /\ PoolSize \in Nat
    BY FS_CardinalityType DEF IInv, PoolSound, ServerAssumption
  <2>3. /\ IsFiniteSet(Holders \cup {r})
        /\ \/ Cardinality(Holders \cup {r}) = Cardinality(Holders)
           \/ Cardinality(Holders \cup {r}) = Cardinality(Holders) + 1
    BY <2>2, FS_AddElement
  <2>4. Cardinality(Holders \cup {r}) <= PoolSize
    BY <1>1, <2>2, <2>3
  <2> QED  BY <2>1, <2>3, <2>4 DEF PoolSound
<1>7. StopSound'
  BY <1>1, <1>2, StopKeeps
<1> QED  BY <1>1, <1>3, <1>4, <1>5, <1>6, <1>7, OthersKeep DEF OnlyFor

\* An error says nothing but at VenueAuth, where nothing is visible yet.
LEMMA ErrorIsTrue ==
  ASSUME IInv, ServerAssumption, NEW r \in Requests, Alive(r), Error(r),
         reqs[r].pc \in InHandler, effect' \in [Requests -> Effects],
         reqs[r].pc = "auth" => effect'[r] = effect[r],
         \A q \in Requests \ {r} : effect'[q] = effect[q],
         cut' \subseteq Requests, how = "well" => cut' = cut,
         UNCHANGED <<proc, how, log, got>>
  PROVE  IInv'
<1>1. CASE reqs[r].pc = "auth"
  <2>1. effect'[r] = {}
    BY <1>1 DEF IInv, RequestSound, EffectAt, InHandler, Statements
  <2>2. Truthful("401", effect'[r]) /\ "401" \in Answers
    BY <2>1 DEF Truthful, Answers
  <2> QED  BY <1>1, <2>2, WriteKeeps DEF Error
<1>2. CASE reqs[r].pc # "auth"
  <2>1. Truthful("500", effect'[r]) /\ "500" \in Answers
    BY DEF Truthful, Answers
  <2> QED  BY <1>2, <2>1, WriteKeeps DEF Error
<1> QED  BY <1>1, <1>2

\* A request finds the pool closed only when main stops late.
LEMMA AcquireFailsKeeps ==
  ASSUME IInv, ServerAssumption, NEW r \in Requests, AcquireFails(r)
  PROVE  IInv'
<1>1. /\ Alive(r) /\ reqs[r].pc \in Statements /\ proc \in {"closing", "exited"}
      /\ Error(r) /\ cut' = cut \cup {r} /\ UNCHANGED <<proc, how, effect, log, got>>
  BY DEF AcquireFails, PoolOpen
<1>2. reqs[r].pc \in InHandler /\ reqs[r].pc # "done"
  BY <1>1 DEF InHandler, Statements
<1>3. how # "well"
  BY <1>1, <1>2, AtWork DEF Alive
<1>4. effect' \in [Requests -> Effects] /\ cut' \subseteq Requests
  BY <1>1 DEF IInv, Typed
<1> QED  BY <1>1, <1>2, <1>3, <1>4, ErrorIsTrue

LEMMA StatementFailsKeeps ==
  ASSUME IInv, ServerAssumption, NEW r \in Requests, StatementFails(r)
  PROVE  IInv'
<1>1. /\ Typed /\ Alive(r) /\ reqs[r].conn /\ Error(r)
      /\ UNCHANGED <<proc, how, log, got, cut>>
  BY DEF IInv, StatementFails
<1>2. reqs[r].pc \in InHandler
  BY <1>1 DEF IInv, RequestSound, InHandler
<1>3. PICK done \in SUBSET Undone(r) : effect' = [effect EXCEPT ![r] = @ \cup done]
  BY DEF StatementFails
<1>4. effect[r] \in Effects /\ done \in Effects
  BY <1>1 DEF Typed, Undone, Effects
<1>5. /\ effect' \in [Requests -> Effects] /\ effect'[r] = effect[r] \cup done
      /\ \A q \in Requests \ {r} : effect'[q] = effect[q]
  BY <1>1, <1>3, <1>4 DEF Typed, Effects
<1>6. reqs[r].pc = "auth" => effect'[r] = effect[r]
  BY <1>5 DEF Undone
<1>7. cut' = cut /\ cut' \subseteq Requests
  BY <1>1 DEF Typed
<1> QED  BY <1>1, <1>2, <1>5, <1>6, <1>7, ErrorIsTrue

LEMMA WaitFailsKeeps ==
  ASSUME IInv, ServerAssumption, NEW r \in Requests, WaitFails(r)
  PROVE  IInv'
<1>1. /\ Alive(r) /\ reqs[r].pc \in Statements /\ Error(r)
      /\ UNCHANGED <<proc, how, effect, log, got, cut>>
  BY DEF WaitFails
<1>2. reqs[r].pc \in InHandler
  BY <1>1 DEF InHandler
<1>3. effect' \in [Requests -> Effects] /\ cut' \subseteq Requests
  BY <1>1 DEF IInv, Typed
<1> QED  BY <1>1, <1>2, <1>3, ErrorIsTrue

\* An effect is of one request only.
LEMMA EffectFields ==
  ASSUME Typed, NEW r \in Requests, NEW e \in {"status", "history", "order"},
         Effect(r, e)
  PROVE  /\ effect' \in [Requests -> Effects] /\ effect'[r] = effect[r] \cup {e}
         /\ \A q \in Requests \ {r} : effect'[q] = effect[q]
BY DEF Typed, Effect, Effects

\* What nothing was made visible for may be refused.
LEMMA RefuseKeeps ==
  ASSUME IInv, ServerAssumption, NEW r \in Requests, Alive(r),
         NEW a \in {"400", "401", "404", "409"}, Write(r, a),
         reqs[r].pc \in InHandler, EffectAt(reqs[r].pc) = {},
         UNCHANGED <<proc, how, effect, log, got, cut>>
  PROVE  IInv'
<1>1. effect'[r] = {} /\ effect' \in [Requests -> Effects] /\ cut' \subseteq Requests
  BY DEF IInv, Typed, RequestSound
<1>2. Truthful(a, effect'[r]) /\ a \in Answers
  BY <1>1 DEF Truthful, Answers
<1> QED  BY <1>1, <1>2, WriteKeeps

\* A stage that leads to the next one with nothing made visible.
LEMMA ProceedKeeps ==
  ASSUME IInv, ServerAssumption, NEW r \in Requests, Alive(r),
         NEW pc \in InHandler, NEW conn \in BOOLEAN, Goto(r, pc, conn),
         reqs[r].pc \in InHandler, EffectAt(reqs[r].pc) = EffectAt(pc),
         conn => reqs[r].conn /\ pc \in Statements \cup {"commit"},
         UNCHANGED <<proc, how, effect, log, got, cut>>
  PROVE  IInv'
<1>1. effect'[r] = EffectAt(pc) /\ effect' \in [Requests -> Effects]
  BY DEF IInv, Typed, RequestSound
<1> QED  BY <1>1, GotoKeeps

\* The statements of a request, one after the other.
LEMMA ExecuteKeeps ==
  ASSUME IInv, ServerAssumption, NEW r \in Requests, Execute(r)
  PROVE  IInv'
<1>1. Typed /\ RequestSound(r) /\ Alive(r) /\ UNCHANGED <<proc, how, log, got, cut>>
  BY DEF IInv, Execute
<1>2. CASE Authenticate(r)
  <2>1. reqs[r].pc = "auth" /\ effect' = effect
    BY <1>2 DEF Authenticate
  <2>2. CASE Goto(r, "read", FALSE)
    BY <1>1, <2>1, <2>2, ProceedKeeps DEF EffectAt, InHandler, Statements
  <2>3. CASE Write(r, "401")
    BY <1>1, <2>1, <2>3, RefuseKeeps DEF EffectAt, InHandler, Statements
  <2> QED  BY <1>2, <2>2, <2>3 DEF Authenticate
<1>3. CASE ReadOrder(r)
  <2>1. reqs[r].pc = "read" /\ effect' = effect
    BY <1>3 DEF ReadOrder
  <2>2. CASE Goto(r, "update", FALSE)
    BY <1>1, <2>1, <2>2, ProceedKeeps DEF EffectAt, InHandler, Statements
  <2>3. CASE Write(r, "400") \/ Write(r, "404")
    BY <1>1, <2>1, <2>3, RefuseKeeps DEF EffectAt, InHandler, Statements
  <2> QED  BY <1>3, <2>2, <2>3 DEF ReadOrder
<1>4. CASE UpdateStatus(r)
  <2>1. reqs[r].pc = "update" /\ reqs[r].pc \in InHandler /\ "append" \in InHandler
    BY <1>4 DEF UpdateStatus, InHandler, Statements
  <2>2. effect[r] = {}
    BY <1>1, <2>1 DEF RequestSound, EffectAt
  <2>3. CASE Goto(r, "append", FALSE) /\ Effect(r, "status")
    <3>1. /\ effect' \in [Requests -> Effects]
          /\ effect'[r] = effect[r] \cup {"status"}
          /\ \A q \in Requests \ {r} : effect'[q] = effect[q]
      BY <1>1, <2>3, EffectFields
    <3>2. effect'[r] = EffectAt("append")
      BY <2>2, <3>1 DEF EffectAt
    <3> QED  BY <1>1, <2>1, <2>3, <3>1, <3>2, GotoKeeps
  <2>4. CASE Write(r, "400") /\ UNCHANGED effect
    BY <1>1, <2>1, <2>4, RefuseKeeps DEF EffectAt
  <2> QED  BY <1>4, <2>3, <2>4 DEF UpdateStatus
<1>5. CASE AppendHistory(r)
  <2>1. /\ reqs[r].pc = "append" /\ reqs[r].pc \in InHandler
        /\ Write(r, "204") /\ Effect(r, "history")
    BY <1>5 DEF AppendHistory, InHandler, Statements
  <2>2. effect[r] = {"status"}
    BY <1>1, <2>1 DEF RequestSound, EffectAt
  <2>3. /\ effect' \in [Requests -> Effects]
        /\ effect'[r] = effect[r] \cup {"history"}
        /\ \A q \in Requests \ {r} : effect'[q] = effect[q]
    BY <1>1, <2>1, EffectFields
  <2>4. Truthful("204", effect'[r]) /\ "204" \in Answers
    BY <2>2, <2>3 DEF Truthful, Answers
  <2>5. cut' \subseteq Requests
    BY <1>1 DEF Typed
  <2> QED  BY <1>1, <2>1, <2>3, <2>4, <2>5, WriteKeeps
<1>6. CASE FindVenue(r)
  <2>1. reqs[r].pc = "venue" /\ effect' = effect
    BY <1>6 DEF FindVenue
  <2>2. CASE Goto(r, "begin", FALSE)
    BY <1>1, <2>1, <2>2, ProceedKeeps DEF EffectAt, InHandler, Statements
  <2>3. CASE Write(r, "404")
    BY <1>1, <2>1, <2>3, RefuseKeeps DEF EffectAt, InHandler, Statements
  <2> QED  BY <1>6, <2>2, <2>3 DEF FindVenue
<1>7. CASE FillOrder(r)
  <2>1. reqs[r].pc = "begin" /\ reqs[r].conn /\ effect' = effect
    BY <1>7 DEF FillOrder
  <2>2. CASE Goto(r, "commit", TRUE)
    BY <1>1, <2>1, <2>2, ProceedKeeps DEF EffectAt, InHandler, Statements
  <2>3. CASE Write(r, "400") \/ Write(r, "409")
    BY <1>1, <2>1, <2>3, RefuseKeeps DEF EffectAt, InHandler, Statements
  <2> QED  BY <1>7, <2>2, <2>3 DEF FillOrder
<1>8. CASE Commit(r)
  <2>1. /\ reqs[r].pc = "commit" /\ reqs[r].pc \in InHandler /\ "notify" \in InHandler
        /\ Goto(r, "notify", FALSE) /\ Effect(r, "order")
    BY <1>8 DEF Commit, InHandler
  <2>2. effect[r] = {}
    BY <1>1, <2>1 DEF RequestSound, EffectAt
  <2>3. /\ effect' \in [Requests -> Effects] /\ effect'[r] = effect[r] \cup {"order"}
        /\ \A q \in Requests \ {r} : effect'[q] = effect[q]
    BY <1>1, <2>1, EffectFields
  <2>4. effect'[r] = EffectAt("notify")
    BY <2>2, <2>3 DEF EffectAt
  <2> QED  BY <1>1, <2>1, <2>3, <2>4, GotoKeeps
<1> QED  BY <1>2, <1>3, <1>4, <1>5, <1>6, <1>7, <1>8 DEF Execute

\* 201 is written when the order is there, and a panic promises nothing.
LEMMA NotifyKeeps ==
  ASSUME IInv, ServerAssumption, NEW r \in Requests, Notify(r)
  PROVE  IInv'
<1>1. /\ Alive(r) /\ reqs[r].pc = "notify" /\ reqs[r].pc \in InHandler
      /\ Write(r, "201") /\ UNCHANGED <<proc, how, effect, log, got, cut>>
  BY DEF Notify, InHandler
<1>2. /\ effect'[r] = {"order"} /\ effect' \in [Requests -> Effects]
      /\ cut' \subseteq Requests
  BY <1>1 DEF IInv, Typed, RequestSound, EffectAt
<1>3. Truthful("201", effect'[r]) /\ "201" \in Answers
  BY <1>2 DEF Truthful, Answers
<1> QED  BY <1>1, <1>2, <1>3, WriteKeeps

LEMMA PanicKeeps ==
  ASSUME IInv, ServerAssumption, NEW r \in Requests, Panic(r)
  PROVE  IInv'
<1>1. /\ Alive(r) /\ reqs[r].pc \in InHandler
      /\ Write(r, "500") /\ UNCHANGED <<proc, how, effect, log, got, cut>>
  BY DEF Panic
<1>2. effect' \in [Requests -> Effects] /\ cut' \subseteq Requests
  BY <1>1 DEF IInv, Typed
<1>3. Truthful("500", effect'[r]) /\ "500" \in Answers
  BY DEF Truthful, Answers
<1> QED  BY <1>1, <1>2, <1>3, WriteKeeps

\* An answer is logged, and then delivered.
LEMMA LogRequestKeeps ==
  ASSUME IInv, ServerAssumption, NEW r \in Requests, LogRequest(r)
  PROVE  IInv'
<1>1. /\ Typed /\ PoolSound /\ RequestSound(r) /\ Alive(r) /\ reqs[r].pc = "log"
      /\ log' = [log EXCEPT ![r] = reqs[r].status]
      /\ Goto(r, "flush", reqs[r].conn)
      /\ UNCHANGED <<proc, how, effect, got, cut>>
  BY DEF IInv, LogRequest
<1>2. /\ reqs[r] \in Request
      /\ reqs[r].sent \in Answers /\ reqs[r].status = reqs[r].sent
  BY <1>1 DEF Typed, RequestSound
<1>3. reqs[r].conn = FALSE
  BY <1>1, <1>2 DEF RequestSound, Statements, Request
<1>4. /\ reqs' \in [Requests -> Request]
      /\ reqs'[r].pc = "flush" /\ reqs'[r].conn = FALSE
      /\ reqs'[r].status = reqs[r].status /\ reqs'[r].sent = reqs[r].sent
      /\ \A q \in Requests \ {r} : reqs'[q] = reqs[q]
  BY <1>1, <1>3, GotoFields
<1>5. /\ log' \in [Requests -> Answers \cup {"none"}] /\ log'[r] = reqs[r].sent
      /\ \A q \in Requests \ {r} : log'[q] = log[q]
  BY <1>1, <1>2 DEF Typed, Answers
<1>6. Typed'
  BY <1>1, <1>4, <1>5 DEF Typed
<1>7. RequestSound(r)'
  BY <1>1, <1>4, <1>5 DEF RequestSound, InHandler, Statements
<1>8. PoolSound'
  BY <1>1, <1>4, PoolKeeps
<1>9. StopSound'
  BY <1>1, StopKeeps
<1> QED  BY <1>1, <1>4, <1>5, <1>6, <1>7, <1>8, <1>9, OthersKeep DEF OnlyFor

LEMMA DeliverKeeps ==
  ASSUME IInv, ServerAssumption, NEW r \in Requests, Deliver(r)
  PROVE  IInv'
<1>1. /\ Typed /\ PoolSound /\ RequestSound(r) /\ Alive(r) /\ reqs[r].pc = "flush"
      /\ got' = [got EXCEPT ![r] = IF reqs[r].sent = "none" THEN "200" ELSE reqs[r].sent]
      /\ Goto(r, "done", reqs[r].conn)
      /\ UNCHANGED <<proc, how, effect, log, cut>>
  BY DEF IInv, Deliver
<1>2. /\ reqs[r] \in Request
      /\ reqs[r].sent \in Answers /\ reqs[r].status = reqs[r].sent
  BY <1>1 DEF Typed, RequestSound
<1>3. reqs[r].conn = FALSE
  BY <1>1, <1>2 DEF RequestSound, Statements, Request
<1>4. /\ reqs' \in [Requests -> Request]
      /\ reqs'[r].pc = "done" /\ reqs'[r].conn = FALSE
      /\ reqs'[r].status = reqs[r].status /\ reqs'[r].sent = reqs[r].sent
      /\ \A q \in Requests \ {r} : reqs'[q] = reqs[q]
  BY <1>1, <1>3, GotoFields
<1>5. /\ got' \in [Requests -> Answers \cup {"none"}] /\ got'[r] = reqs[r].sent
      /\ \A q \in Requests \ {r} : got'[q] = got[q]
  BY <1>1, <1>2 DEF Typed, Answers
<1>6. Typed'
  BY <1>1, <1>4, <1>5 DEF Typed
<1>7. RequestSound(r)'
  BY <1>1, <1>4, <1>5 DEF RequestSound, InHandler, Statements
<1>8. PoolSound'
  BY <1>1, <1>4, PoolKeeps
<1>9. StopSound'
  BY <1>1, StopKeeps
<1> QED  BY <1>1, <1>4, <1>5, <1>6, <1>7, <1>8, <1>9, OthersKeep DEF OnlyFor

\* A request that comes in has done nothing yet.
LEMMA AcceptKeeps ==
  ASSUME IInv, ServerAssumption, NEW r \in Requests,
         NEW key \in {"missing", "invalid", "valid"}, Accept(r, key)
  PROVE  IInv'
<1> DEFINE new == IF r \in Checkouts THEN [Idle EXCEPT !.pc = "venue"]
                  ELSE IF key = "missing" THEN [WriteHeader(Idle, "401") EXCEPT !.pc = "log"]
                  ELSE [Idle EXCEPT !.pc = "auth", !.key = (key = "valid")]
<1>1. /\ Typed /\ PoolSound /\ RequestSound(r) /\ StopSound
      /\ proc = "serving" /\ reqs[r].pc = "idle"
      /\ reqs' = [reqs EXCEPT ![r] = new]
      /\ UNCHANGED <<proc, how, effect, log, got, cut>>
  BY DEF IInv, Accept
<1>2. /\ new \in Request /\ new.conn = FALSE
      /\ \/ new.pc \in {"venue", "auth"} /\ new.sent = "none"
         \/ new.pc = "log" /\ new.status = "401" /\ new.sent = "401"
  BY DEF Idle, WriteHeader, Request, InHandler, Statements, Answers
<1> HIDE DEF new
<1>3. /\ reqs' \in [Requests -> Request] /\ reqs'[r] = new
      /\ \A q \in Requests \ {r} : reqs'[q] = reqs[q]
  BY <1>1, <1>2 DEF Typed
<1>4. Typed'
  BY <1>1, <1>3 DEF Typed
<1>5. RequestSound(r)'
  <2>1. effect'[r] = {} /\ got'[r] = "none"
    BY <1>1 DEF RequestSound, EffectAt
  <2>2. CASE new.pc \in {"venue", "auth"} /\ new.sent = "none"
    <3>1. EffectAt(new.pc) = {} /\ new.pc \notin {"log", "flush", "done"}
      BY <2>2 DEF EffectAt
    <3> QED  BY <1>2, <1>3, <2>1, <3>1 DEF RequestSound
  <2>3. CASE new.pc = "log" /\ new.status = "401" /\ new.sent = "401"
    <3>1. Truthful("401", {}) /\ "401" \in Answers /\ "log" \notin InHandler \cup {"idle"}
      BY DEF Truthful, InHandler, Statements, Answers
    <3> QED  BY <1>2, <1>3, <2>1, <2>3, <3>1 DEF RequestSound
  <2> QED  BY <1>2, <2>2, <2>3
<1>6. PoolSound'
  BY <1>1, <1>2, <1>3, PoolKeeps
<1>7. StopSound'
  BY <1>1 DEF StopSound
<1> QED  BY <1>1, <1>3, <1>4, <1>5, <1>6, <1>7, OthersKeep DEF OnlyFor

\* What main does touches no request.
LEMMA QuietKeeps ==
  ASSUME IInv, Quiet, StopSound',
         proc' \in {"starting", "serving", "deaf", "draining", "closing", "exited"},
         how' \in {"well", "late", "killed"}
  PROVE  IInv'
<1>1. Typed'
  BY DEF IInv, Typed, Quiet
<1>2. ASSUME NEW r \in Requests PROVE RequestSound(r)'
  BY DEF IInv, RequestSound, Quiet
<1>3. PoolSound'
  <2>1. Holders' = Holders
    BY DEF Holders, Quiet
  <2> QED  BY <2>1 DEF IInv, PoolSound
<1> QED  BY <1>1, <1>2, <1>3 DEF IInv

LEMMA MainKeeps ==
  ASSUME IInv, Start \/ Signal \/ Drained \/ Deadline \/ Exit \/ Kill
  PROVE  IInv'
<1>1. Typed /\ StopSound /\ Quiet /\ Unanswered' = Unanswered /\ Holders' = Holders
  BY DEF IInv, Start, Signal, Drained, Deadline, Exit, Kill, Quiet, Unanswered, Holders
<1>2. CASE Start
  <2>1. proc = "starting" /\ proc' \in {"serving", "deaf", "exited"} /\ how' = how
    BY <1>2 DEF Start
  <2>2. \A r \in Requests : reqs[r].pc = "idle"
    BY <1>1, <2>1 DEF StopSound
  <2>3. Unanswered = {} /\ Holders = {}
    BY <2>2 DEF Unanswered, Holders, IInv, RequestSound, Statements
  <2>4. StopSound'
    BY <1>1, <2>1, <2>3 DEF StopSound, Quiet
  <2> QED  BY <1>1, <2>1, <2>4, QuietKeeps DEF Typed
<1>3. CASE Signal
  <2>1. proc' = "draining" /\ how' = how
    BY <1>3 DEF Signal
  <2>2. StopSound'
    BY <1>1, <2>1 DEF StopSound, Quiet
  <2> QED  BY <1>1, <2>1, <2>2, QuietKeeps DEF Typed
<1>4. CASE Drained
  <2>1. proc' = "closing" /\ how' = how /\ Unanswered = {}
    BY <1>4 DEF Drained
  <2>2. StopSound'
    BY <1>1, <2>1 DEF StopSound, Quiet
  <2> QED  BY <1>1, <2>1, <2>2, QuietKeeps DEF Typed
<1>5. CASE Deadline
  <2>1. proc' = "closing" /\ how' = "late"
    BY <1>5 DEF Deadline
  <2>2. StopSound'
    BY <1>1, <2>1 DEF StopSound
  <2> QED  BY <1>1, <2>1, <2>2, QuietKeeps
<1>6. CASE Exit
  <2>1. proc = "closing" /\ proc' = "exited" /\ how' = how /\ Holders = {}
    BY <1>6 DEF Exit
  <2>2. StopSound'
    BY <1>1, <2>1 DEF StopSound, Quiet
  <2> QED  BY <1>1, <2>1, <2>2, QuietKeeps DEF Typed
<1>7. CASE Kill
  <2>1. proc' = "exited" /\ how' = "killed"
    BY <1>7 DEF Kill
  <2>2. StopSound'
    BY <2>1 DEF StopSound
  <2> QED  BY <1>1, <2>1, <2>2, QuietKeeps
<1> QED  BY <1>2, <1>3, <1>4, <1>5, <1>6, <1>7
-----------------------------------------------------------------------------
LEMMA InitEstablishes == ServerAssumption /\ Init => IInv
<1> SUFFICES ASSUME ServerAssumption, Init PROVE IInv
  OBVIOUS
<1>1. /\ Idle \in Request /\ Idle.pc = "idle" /\ Idle.conn = FALSE
      /\ Idle.sent = "none"
  BY DEF Idle, Request
<1>2. \A r \in Requests : reqs[r] = Idle /\ effect[r] = {} /\ got[r] = "none"
  BY DEF Init
<1>3. Typed
  BY <1>1 DEF Init, Typed, Effects
<1>4. ASSUME NEW r \in Requests PROVE RequestSound(r)
  BY <1>1, <1>2 DEF RequestSound, EffectAt
<1>5. PoolSound
  <2>1. Holders = {}
    BY <1>1, <1>2 DEF Holders
  <2>2. IsFiniteSet({}) /\ Cardinality({}) = 0
    BY FS_EmptySet
  <2> QED  BY <2>1, <2>2 DEF PoolSound, ServerAssumption
<1>6. StopSound
  BY <1>1, <1>2 DEF Init, StopSound
<1> QED  BY <1>3, <1>4, <1>5, <1>6 DEF IInv

LEMMA NextKeeps == ServerAssumption /\ IInv /\ [Next]_vars => IInv'
<1> SUFFICES ASSUME ServerAssumption, IInv, [Next]_vars PROVE IInv'
  OBVIOUS
<1>1. ASSUME NEW r \in Requests, Work(r) PROVE IInv'
  BY <1>1, AcquireKeeps, AcquireFailsKeeps, ExecuteKeeps, NotifyKeeps,
     LogRequestKeeps, DeliverKeeps DEF Work
<1>2. ASSUME NEW r \in Requests, StatementFails(r) \/ WaitFails(r) \/ Panic(r)
      PROVE  IInv'
  BY <1>2, StatementFailsKeeps, WaitFailsKeeps, PanicKeeps
<1>3. ASSUME NEW r \in Requests, NEW key \in {"missing", "invalid", "valid"},
             Accept(r, key)
      PROVE  IInv'
  BY <1>3, AcceptKeeps
<1>4. CASE UNCHANGED vars
  <2>1. Quiet /\ StopSound' /\ proc' = proc /\ how' = how
    BY <1>4 DEF vars, Quiet, StopSound, Unanswered, Holders, IInv
  <2> QED  BY <2>1, QuietKeeps DEF IInv, Typed
<1> QED  BY <1>1, <1>2, <1>3, <1>4, MainKeeps DEF Next

\* The invariant the theorems below follow from.
THEOREM Invariance == Spec => []IInv
BY ServerAssumption, InitEstablishes, NextKeeps, PTL DEF Spec

\* Every variable keeps its shape, and no more connections are out than the
\* pool has.
THEOREM TypeCorrect == Spec => []TypeOK
<1>1. IInv => TypeOK
  BY DEF IInv, Typed, PoolSound, Request, Effects, TypeOK
<1> QED  BY <1>1, Invariance, PTL

\* Whatever fails or panics on the way, an answer that reached its client is in
\* the log, and is true of the database.
THEOREM AnswersLoggedAndTrue == Spec => []AnswersAreLoggedAndTrue
<1>1. IInv => AnswersAreLoggedAndTrue
  <2> SUFFICES ASSUME IInv, NEW r \in Requests, got[r] # "none"
               PROVE  /\ log[r] = got[r]
                      /\ got[r] = "204" => effect[r] = {"status", "history"}
                      /\ got[r] = "201" => effect[r] = {"order"}
                      /\ got[r] \in {"400", "401", "404", "409"} => effect[r] = {}
    BY DEF AnswersAreLoggedAndTrue
  <2> QED  BY DEF IInv, RequestSound, Truthful
<1> QED  BY <1>1, Invariance, PTL

\* A stop that is in time cuts nobody off: no request finds the pool closed, and
\* none is left without its answer.
THEOREM StopsGracefully == Spec => []StopIsGraceful
<1>1. IInv => StopIsGraceful
  BY DEF IInv, StopSound, StopIsGraceful
<1> QED  BY <1>1, Invariance, PTL
==============================================================================
