-------------------------------- MODULE Server --------------------------------
(***************************************************************************)
(* The process of core: how it starts, serves, and stops (main.go), and    *)
(* what the middleware makes of a request.                                 *)
(*                                                                         *)
(* Two kinds of requests stand for all: a change of a status, through      *)
(* VenueAuth and then three statements that each take a connection of the  *)
(* pool, and a checkout, which keeps its connection for a transaction.  A  *)
(* read is either of them, cut short by a refusal.                         *)
(*                                                                         *)
(* On a signal Shutdown closes the listener and waits for the requests     *)
(* that were accepted, at most 10 seconds; it cancels none of them.  Then  *)
(* main returns: the deferred pool.Close refuses further connections and   *)
(* waits for those that are out, and the process ends with every goroutine *)
(* that is left, the notifier's too.                                       *)
(*                                                                         *)
(* net/http buffers an answer of this size until the handler returns, so   *)
(* the client gets it after Logging has written its line.                  *)
(***************************************************************************)
EXTENDS Naturals, FiniteSets

CONSTANTS Changes,   \* requests of the venue API
          Checkouts, \* requests of the client API
          PoolSize   \* connections of the pgx pool

ASSUME ServerAssumption == Changes \cap Checkouts = {} /\ PoolSize \in Nat \ {0}

VARIABLES proc,   \* what main is doing
          how,    \* history: whether it stopped "late" or "killed", else "well"
          reqs,   \* Requests -> the goroutine of the request
          effect, \* Requests -> what it has made visible in the database
          log,    \* Requests -> the status in its line of the log
          got,    \* Requests -> the status its client got
          cut     \* history: the requests that found the pool closed

vars == <<proc, how, reqs, effect, log, got, cut>>

Requests == Changes \cup Checkouts

\* status is what statusWriter keeps for the log, 200 at first and then what was
\* written last; sent is the status of the answer, what was written first.
Idle == [pc |-> "idle", key |-> FALSE, conn |-> FALSE, status |-> "200", sent |-> "none"]

Init ==
  /\ proc = "starting" /\ how = "well"
  /\ reqs = [r \in Requests |-> Idle]
  /\ effect = [r \in Requests |-> {}]
  /\ cut = {}
  /\ log = [r \in Requests |-> "none"]
  /\ got = [r \in Requests |-> "none"]

\* Stages of a request that start with a connection, and those of its handler.
Statements == {"auth", "read", "update", "append", "venue", "begin"}
InHandler == Statements \cup {"commit", "notify"}

Alive(r) == proc \notin {"starting", "exited"} /\ reqs[r].pc # "idle"
Holders == {r \in Requests : reqs[r].conn}

Goto(r, pc, conn) == reqs' = [reqs EXCEPT ![r].pc = pc, ![r].conn = conn]

\* WriteHeader: statusWriter notes every call, net/http heeds the first.
WriteHeader(req, status) ==
  [req EXCEPT !.status = status, !.sent = IF @ = "none" THEN status ELSE @]

\* The handler writes its answer and returns, without a connection.
Write(r, status) ==
  reqs' = [reqs EXCEPT ![r] =
             [WriteHeader(reqs[r], status) EXCEPT !.pc = "log", !.conn = FALSE]]

Effect(r, e) == effect' = [effect EXCEPT ![r] = @ \cup {e}]

-----------------------------------------------------------------------------
\* Slips: no part of the specification, each breaks one of its properties.

\* Recover is mounted before Logging: the panic passes Logging by.
PanicPastLogging(r) ==
  /\ Alive(r) /\ reqs[r].pc \in InHandler
  /\ reqs[r].conn => reqs[r].pc = "commit"
  /\ reqs' = [reqs EXCEPT ![r] = [@ EXCEPT !.pc = "flush", !.conn = FALSE, !.sent = "500"]]
  /\ UNCHANGED <<proc, how, effect, log, got, cut>>

\* Rollback is called on the returns of CreateOrder and is not deferred.
PanicInTransaction(r) ==
  /\ Alive(r) /\ reqs[r].pc \in InHandler
  /\ reqs[r].conn => reqs[r].pc = "commit"
  /\ reqs' = [reqs EXCEPT ![r] = [WriteHeader(@, "500") EXCEPT !.pc = "log"]]
  /\ UNCHANGED <<proc, how, effect, log, got, cut>>

\* The handler returns on an error without WriteError: net/http answers 200.
ErrorUnwritten(r) == Goto(r, "log", FALSE)

\* VenueAuth does not return after its 401, and hands the request on.
AuthenticateGoesOn(r) ==
  /\ reqs[r].pc = "auth" /\ reqs[r].conn
  /\ LET judged == IF reqs[r].key THEN reqs[r] ELSE WriteHeader(reqs[r], "401") IN
     reqs' = [reqs EXCEPT ![r] = [judged EXCEPT !.pc = "read", !.conn = FALSE]]
  /\ UNCHANGED effect

\* A goroutine closes the pool as soon as the context of main is done.
PoolOpenUntilSignal == proc = "serving"
-----------------------------------------------------------------------------
\* Every error is a 500, but VenueAuth makes a 401 of any.
Error(r) == Write(r, IF reqs[r].pc = "auth" THEN "401" ELSE "500")

\* The pool.

PoolOpen == proc \notin {"closing", "exited"}

Acquire(r) ==
  /\ Alive(r) /\ reqs[r].pc \in Statements /\ ~reqs[r].conn
  /\ PoolOpen /\ Cardinality(Holders) < PoolSize
  /\ Goto(r, reqs[r].pc, TRUE)
  /\ UNCHANGED <<proc, how, effect, log, got, cut>>

AcquireFails(r) ==
  /\ Alive(r) /\ reqs[r].pc \in Statements /\ ~reqs[r].conn
  /\ ~PoolOpen
  /\ Error(r)
  /\ cut' = cut \cup {r}
  /\ UNCHANGED <<proc, how, effect, log, got>>
-----------------------------------------------------------------------------
\* A status change: VenueAuth, then ChangeStatus.

Authenticate(r) ==
  /\ reqs[r].pc = "auth" /\ reqs[r].conn
  /\ IF reqs[r].key THEN Goto(r, "read", FALSE) ELSE Write(r, "401")
  /\ UNCHANGED effect

ReadOrder(r) ==
  /\ reqs[r].pc = "read" /\ reqs[r].conn
  /\ Goto(r, "update", FALSE) \/ Write(r, "400") \/ Write(r, "404")
  /\ UNCHANGED effect

UpdateStatus(r) ==
  /\ reqs[r].pc = "update" /\ reqs[r].conn
  /\ \/ Goto(r, "append", FALSE) /\ Effect(r, "status")
     \/ Write(r, "400") /\ UNCHANGED effect

AppendHistory(r) ==
  /\ reqs[r].pc = "append" /\ reqs[r].conn
  /\ Write(r, "204")
  /\ Effect(r, "history")
-----------------------------------------------------------------------------
\* A checkout: GetByID, the transaction up to its commit, the notification.

FindVenue(r) ==
  /\ reqs[r].pc = "venue" /\ reqs[r].conn
  /\ Goto(r, "begin", FALSE) \/ Write(r, "404")
  /\ UNCHANGED effect

FillOrder(r) ==
  /\ reqs[r].pc = "begin" /\ reqs[r].conn
  /\ Goto(r, "commit", TRUE) \/ Write(r, "400") \/ Write(r, "409")
  /\ UNCHANGED effect

Commit(r) ==
  /\ reqs[r].pc = "commit"
  /\ Goto(r, "notify", FALSE)
  /\ Effect(r, "order")

Execute(r) ==
  /\ Alive(r)
  /\ \/ Authenticate(r) \/ ReadOrder(r) \/ UpdateStatus(r) \/ AppendHistory(r)
     \/ FindVenue(r) \/ FillOrder(r) \/ Commit(r)
  /\ UNCHANGED <<proc, how, log, got, cut>>

\* The database or the network fails a statement, or the client has gone; the
\* statement may have had its effect.
Undone(r) == IF reqs[r].pc = "commit" THEN {"order"}
             ELSE IF reqs[r].pc = "append" THEN {"history"}
             ELSE IF reqs[r].pc = "update" THEN {"status"} ELSE {}

StatementFails(r) ==
  /\ Alive(r) /\ reqs[r].conn
  /\ Error(r)
  /\ \E done \in SUBSET Undone(r) : effect' = [effect EXCEPT ![r] = @ \cup done]
  /\ UNCHANGED <<proc, how, log, got, cut>>

\* Acquire fails with the pool open: there is no new connection to be had from the
\* database, or the client has gone and the context of its request is done.
WaitFails(r) ==
  /\ Alive(r) /\ reqs[r].pc \in Statements /\ ~reqs[r].conn
  /\ Error(r)
  /\ UNCHANGED <<proc, how, effect, log, got, cut>>

\* NotifyNewOrder leaves its delivery to a goroutine that nobody waits for.
Notify(r) ==
  /\ Alive(r) /\ reqs[r].pc = "notify"
  /\ Write(r, "201")
  /\ UNCHANGED <<proc, how, effect, log, got, cut>>

\* A panic between two statements: the deferred Rollback gives the connection
\* back, and Recover, inside Logging, writes the 500.
Panic(r) ==
  /\ Alive(r) /\ reqs[r].pc \in InHandler
  /\ reqs[r].conn => reqs[r].pc = "commit"
  /\ Write(r, "500")
  /\ UNCHANGED <<proc, how, effect, log, got, cut>>

LogRequest(r) ==
  /\ Alive(r) /\ reqs[r].pc = "log"
  /\ log' = [log EXCEPT ![r] = reqs[r].status]
  /\ Goto(r, "flush", reqs[r].conn)
  /\ UNCHANGED <<proc, how, effect, got, cut>>

Deliver(r) ==
  /\ Alive(r) /\ reqs[r].pc = "flush"
  /\ got' = [got EXCEPT ![r] = IF reqs[r].sent = "none" THEN "200" ELSE reqs[r].sent]
  /\ Goto(r, "done", reqs[r].conn)
  /\ UNCHANGED <<proc, how, effect, log, cut>>

Work(r) == \/ Acquire(r) \/ AcquireFails(r) \/ Execute(r) \/ Notify(r)
           \/ LogRequest(r) \/ Deliver(r)
-----------------------------------------------------------------------------
\* main.

Quiet == UNCHANGED <<reqs, effect, log, got, cut>>

\* Without a configuration or a database main returns.  When the listener fails
\* it logs that and waits for a signal all the same.
Start ==
  /\ proc = "starting"
  /\ proc' \in {"serving", "deaf", "exited"}
  /\ UNCHANGED how /\ Quiet

\* A request comes in.  VenueAuth answers one without a key by itself.
Accept(r, key) ==
  /\ proc = "serving" /\ reqs[r].pc = "idle"
  /\ reqs' = [reqs EXCEPT ![r] = IF r \in Checkouts THEN [Idle EXCEPT !.pc = "venue"]
       ELSE IF key = "missing" THEN [WriteHeader(Idle, "401") EXCEPT !.pc = "log"]
       ELSE [Idle EXCEPT !.pc = "auth", !.key = (key = "valid")]]
  /\ UNCHANGED <<proc, how, effect, log, got, cut>>

\* SIGINT or SIGTERM: Shutdown closes the listener.
Signal ==
  /\ proc \in {"serving", "deaf"}
  /\ proc' = "draining"
  /\ UNCHANGED how /\ Quiet

Unanswered == {r \in Requests : reqs[r].pc \notin {"idle", "done"}}

\* Shutdown returns, in time or not; pool.Close begins.
Drained ==
  /\ proc = "draining" /\ Unanswered = {}
  /\ proc' = "closing"
  /\ UNCHANGED how /\ Quiet

Deadline ==
  /\ proc = "draining" /\ Unanswered # {}
  /\ proc' = "closing" /\ how' = "late"
  /\ Quiet

\* pool.Close has every connection back, and main returns.
Exit ==
  /\ proc = "closing" /\ Holders = {}
  /\ proc' = "exited"
  /\ UNCHANGED how /\ Quiet

Kill ==
  /\ proc # "exited"
  /\ proc' = "exited" /\ how' = "killed"
  /\ Quiet
-----------------------------------------------------------------------------
Next ==
  \/ \E r \in Requests : \/ Work(r) \/ StatementFails(r) \/ WaitFails(r) \/ Panic(r)
                         \/ \E key \in {"missing", "invalid", "valid"} : Accept(r, key)
  \/ Start \/ Signal \/ Drained \/ Deadline \/ Exit \/ Kill

Spec == Init /\ [][Next]_vars

\* Goroutines that can run do, the database answers, Shutdown notices that the
\* connections are idle and its timer fires, and main goes on.  Nothing is
\* assumed of clients, signals and failures.
FairSpec ==
  /\ Spec
  /\ \A r \in Requests : WF_vars(Work(r))
  /\ WF_vars(Drained) /\ WF_vars(Deadline) /\ WF_vars(Exit)
-----------------------------------------------------------------------------
\* Every variable keeps its shape.
Answers == {"201", "204", "400", "401", "404", "409", "500"}

TypeOK ==
  /\ proc \in {"starting", "serving", "deaf", "draining", "closing", "exited"}
  /\ how \in {"well", "late", "killed"}
  /\ reqs \in [Requests -> [pc : InHandler \cup {"idle", "log", "flush", "done"},
                            key : BOOLEAN, conn : BOOLEAN,
                            status : Answers \cup {"200"}, sent : Answers \cup {"none"}]]
  /\ effect \in [Requests -> SUBSET {"status", "history", "order"}]
  /\ cut \subseteq Requests
  /\ log \in [Requests -> Answers \cup {"none"}]
  /\ got \in [Requests -> Answers \cup {"none"}]
  /\ Cardinality(Holders) <= PoolSize

\* What a client got is in the log with that status, also after a panic: statusWriter
\* and net/http agree as each request writes one answer, from wherever.  And it is
\* true: 204 and 201 of work that is done to the end, a refusal of none.
AnswersAreLoggedAndTrue ==
  \A r \in Requests : got[r] # "none" =>
    /\ log[r] = got[r]
    /\ got[r] = "204" => effect[r] = {"status", "history"}
    /\ got[r] = "201" => effect[r] = {"order"}
    /\ got[r] \in {"400", "401", "404", "409"} => effect[r] = {}

\* A stop on a signal is not felt by requests that were accepted, unless they
\* take more than the 10 seconds: none finds the pool closed, all are answered.
StopIsGraceful ==
  /\ how = "well" => cut = {}
  /\ proc = "exited" /\ how = "well" => Unanswered = {}

\* Once main has got a signal the process ends, whatever its requests do.
StopEnds == proc = "draining" ~> proc = "exited"

\* A request that was accepted is answered unless the process ends: a panic or
\* a failure of one request does not keep its connection from the others.
RequestsEnd ==
  \A r \in Requests :
    reqs[r].pc # "idle" ~> reqs[r].pc = "done" \/ proc = "exited"

\* 401 is for a request without a key or with one that is not valid.
UnauthorizedMeansBadKey ==
  \A r \in Requests : got[r] = "401" => ~reqs[r].key
==============================================================================
