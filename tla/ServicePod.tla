----------------------------- MODULE ServicePod -----------------------------
(***************************************************************************)
(* One pod of auth-service: its two sqlx pools (db.rs), the handlers that  *)
(* take a connection from one of them for every statement, the health      *)
(* check that looks at both pools and at Redis (health_controller.rs), and *)
(* the kubelet that calls it as liveness and readiness probe and restarts  *)
(* the pod                                                                 *)
(* (helm/charts/microservice/templates/deployment.yaml).                   *)
(*                                                                         *)
(* What the statements do is in OAuthService; here only the connections    *)
(* they need count, and what a handler awaits between them: Redis, and     *)
(* Kafka.  The probe requests are handlers like any other and compete for  *)
(* the same connections.                                                   *)
(***************************************************************************)
EXTENDS Naturals, FiniteSets, SequencesExt

CONSTANTS
    Requests,           \* the HTTP requests of a run
    PoolSize,           \* DB_POOL_MAX_SIZE, of each pool
    FailureThreshold,   \* failed probes in a row that count (default 3)
    Endpoints,          \* bound: the endpoints each request may call
    MaxOutages          \* bound: how often a store goes away

VARIABLES
    up,                 \* the stores that answer
    outages,            \* how many outages there have been
    pod,                \* "booting" or "running"
    ready,              \* the pod gets requests from its Service
    state,              \* where each handler is
    todo,               \* what it has yet to await: pools, Redis, Kafka
    held,               \* the pools it has a connection of
    line,               \* each pool's waiting line
    healthy,            \* what each health check has found so far
    misses              \* failed probes in a row

vars == <<up, outages, pod, ready, state, todo, held, line, healthy, misses>>

Pools == {"write", "read"}
Stores == Pools \cup {"redis"}
Awaited == Stores \cup {"kafka"}
Probes == {"liveness", "readiness"}
Handlers == Requests \cup Probes

(* What each endpoint awaits, in order.  A statement goes to a pool: one   *)
(* connection, given back when the statement ends.  find_client_cached     *)
(* asks Redis, reads the client and stores it in Redis: no client is ever  *)
(* found there (its entry cannot be read back).  register publishes its    *)
(* event.  Left out: refresh_token, which has the awaits of                *)
(* authorization_code, register_client (write, Redis), and revoke, whose   *)
(* last statement may fail and the answer is still 200.                    *)
FindClient == <<"redis", "read", "redis">>
Awaits ==
    [register           |-> <<"write", "kafka">>,
     authorize          |-> FindClient \o <<"read", "write">>,
     authorization_code |-> FindClient \o <<"read", "write", "read", "write">>,
     client_credentials |-> FindClient]
HealthCheck == <<"write", "read", "redis">>

ASSUME PodAssumption ==
    /\ PoolSize \in Nat \ {0} /\ FailureThreshold \in Nat \ {0}
    /\ MaxOutages \in Nat
    /\ IsFiniteSet(Requests) /\ Requests \cap Probes = {}
    /\ Endpoints \in [Requests -> SUBSET DOMAIN Awaits]

(***************************************************************************)
(* Handlers                                                                *)
(***************************************************************************)
InFlight(h) == state[h] = "running"
Waits(h, k) == Contains(line[k], h)
Free(k) == Cardinality({h \in Handlers : k \in held[h]}) < PoolSize
(* A probe gives its connection back as soon as it has it; only statements *)
(* of requests can keep a pool busy for as long as a timeout.              *)
Busy(k) == ~Free(k) /\ \E r \in Requests : k \in held[r]

(* h goes on to what is left to await: it leaves the line it stands in     *)
(* and, if a statement is next, lines up for its pool (the pools are fair).*)
Place(h, k) == CHOOSE i \in 1 .. Len(line[k]) : line[k][i] = h
Without(h, k) ==
    IF Waits(h, k) THEN RemoveAt(line[k], Place(h, k)) ELSE line[k]
Proceed(h, rest) ==
    /\ todo' = [todo EXCEPT ![h] = rest]
    /\ line' = [k \in Pools |->
          LET others == Without(h, k) IN
          IF rest # <<>> /\ Head(rest) = k THEN Append(others, h) ELSE others]

\* Seeded faults: a connection is bound to a variable of the handler and
\* lives as long; a handler that is dropped does not return its connection.
KeepsConnection(h) == UNCHANGED held
LeaksConnection(h) == UNCHANGED held

(* PoolConnection is dropped at the end of the statement, in health_check  *)
(* at the end of the let.                                                  *)
ReturnsConnection(h) == held' = [held EXCEPT ![h] = {}]

(* Dropping a handler drops what it holds.                                 *)
DropsConnection(h) == held' = [held EXCEPT ![h] = {}]

Ends(h, outcome) ==
    /\ state' = [state EXCEPT ![h] = outcome]
    /\ Proceed(h, <<>>)
    /\ DropsConnection(h)

Grant(k) ==
    /\ line[k] # <<>> /\ Free(k) /\ k \in up
    /\ held' = [held EXCEPT ![Head(line[k])] = @ \cup {k}]
    /\ line' = [line EXCEPT ![k] = Tail(@)]
    /\ UNCHANGED <<up, outages, pod, ready, state, todo, healthy, misses>>

(* acquire_timeout: no connection became free, or the server could not be  *)
(* reached.  A handler answers an error; the health check goes on.         *)
NotAcquired(h) ==
    /\ IF h \in Requests
       THEN Ends(h, "failed") /\ UNCHANGED healthy
       ELSE /\ healthy' = [healthy EXCEPT ![h] = FALSE]
            /\ Proceed(h, Tail(todo[h]))
            /\ UNCHANGED <<state, held>>
    /\ UNCHANGED <<up, outages, pod, ready, misses>>
Unreachable(h) == (\E k \in Pools \ up : Waits(h, k)) /\ NotAcquired(h)
TimedOut(h) == (\E k \in Pools : Waits(h, k) /\ Busy(k)) /\ NotAcquired(h)

(* The request is answered when nothing is left to await.                  *)
GoesOn(h) ==
    IF Tail(todo[h]) = <<>> THEN Ends(h, "ended")
    ELSE Proceed(h, Tail(todo[h])) /\ ReturnsConnection(h) /\ UNCHANGED state

(* A statement of a request.                                               *)
Statement(h) ==
    /\ h \in Requests /\ InFlight(h) /\ Head(todo[h]) \in held[h]
    /\ IF Head(todo[h]) \in up THEN GoesOn(h) ELSE Ends(h, "failed")
    /\ UNCHANGED <<up, outages, pod, ready, healthy, misses>>

(* Redis or Kafka answers, or fails: get_cached and set_cached swallow the *)
(* error, and a failed publish is only logged.  The producer gives up by   *)
(* itself (message.timeout.ms); a Redis that is away may refuse, or never  *)
(* answer: init_redis sets no response timeout.                            *)
Answered(h) ==
    /\ h \in Requests /\ InFlight(h) /\ Head(todo[h]) \in Awaited \ Pools
    /\ GoesOn(h)
    /\ UNCHANGED <<up, outages, pod, ready, healthy, misses>>
Hangs(h) == Head(todo[h]) = "redis" /\ "redis" \notin up

(* The health check wants the connection only to see that there is one.    *)
Checked(h) ==
    /\ h \in Probes /\ InFlight(h) /\ Head(todo[h]) \in held[h]
    /\ Proceed(h, Tail(todo[h])) /\ ReturnsConnection(h)
    /\ UNCHANGED <<up, outages, pod, ready, state, healthy, misses>>

Arrive(r) ==
    /\ r \in Requests /\ pod = "running" /\ ready /\ state[r] = "new"
    /\ state' = [state EXCEPT ![r] = "running"]
    /\ \E endpoint \in Endpoints[r] : Proceed(r, Awaits[endpoint])
    /\ UNCHANGED <<up, outages, pod, ready, held, healthy, misses>>

(* The client hangs up: actix drops the handler where it is.  A request    *)
(* that is refused half way ends like this too.                            *)
HangUp(r) ==
    /\ r \in Requests /\ InFlight(r)
    /\ Ends(r, "ended")
    /\ UNCHANGED <<up, outages, pod, ready, healthy, misses>>

(***************************************************************************)
(* Probes                                                                  *)
(***************************************************************************)
Counted(probe, passed) ==
    /\ misses' = [misses EXCEPT ![probe] =
          IF passed THEN 0 ELSE IF @ < FailureThreshold THEN @ + 1 ELSE @]
    /\ ready' = IF probe = "liveness" THEN ready
                ELSE passed \/ (ready /\ misses'[probe] < FailureThreshold)

\* Seeded fault: what one check found is still there in the next.
KeepsResults(probe) == UNCHANGED healthy
(* write_ok and read_ok are variables of the handler.                      *)
DropsResults(probe) == healthy' = [healthy EXCEPT ![probe] = TRUE]

StartProbe(probe) ==
    /\ pod = "running" /\ ~InFlight(probe) /\ misses["liveness"] < FailureThreshold
    /\ state' = [state EXCEPT ![probe] = "running"]
    /\ Proceed(probe, HealthCheck)
    /\ UNCHANGED <<up, outages, pod, ready, held, healthy, misses>>

(* PING, and 200 or 503.  No answer to the PING within the second that the *)
(* kubelet waits is the same to it as a 503.                               *)
AnswerProbe(probe) ==
    LET passed == healthy[probe] /\ "redis" \in up IN
    /\ InFlight(probe) /\ Head(todo[probe]) = "redis"
    /\ Ends(probe, "new")
    /\ DropsResults(probe)
    /\ Counted(probe, passed)
    /\ UNCHANGED <<up, outages, pod>>

(* timeoutSeconds is the default, one second: a check that has to wait for *)
(* a connection behind requests, or for a store that is down, is given up. *)
Delayed(probe) ==
    \E k \in Pools : Waits(probe, k) /\ (k \notin up \/ Busy(k))
GiveUpProbe(probe) ==
    /\ InFlight(probe) /\ Delayed(probe)
    /\ Ends(probe, "new")
    /\ DropsResults(probe)
    /\ Counted(probe, FALSE)
    /\ UNCHANGED <<up, outages, pod>>

(***************************************************************************)
(* The container                                                           *)
(***************************************************************************)
Reset ==
    /\ ready' = FALSE
    /\ todo' = [h \in Handlers |-> <<>>]
    /\ held' = [h \in Handlers |-> {}]
    /\ line' = [k \in Pools |-> <<>>]
    /\ healthy' = [probe \in Probes |-> TRUE]
    /\ misses' = [probe \in Probes |-> 0]

(* The kubelet restarts the container; what was in flight is lost.         *)
Restart ==
    /\ pod = "running" /\ misses["liveness"] = FailureThreshold
    /\ pod' = "booting"
    /\ state' = [h \in Handlers |-> IF ~InFlight(h) THEN state[h]
                                    ELSE IF h \in Probes THEN "new" ELSE "ended"]
    /\ Reset
    /\ UNCHANGED <<up, outages>>

(* main: init_pools and init_redis panic unless every store answers, and   *)
(* the container is started again.                                         *)
Boot ==
    /\ pod = "booting" /\ up = Stores
    /\ pod' = "running"
    /\ UNCHANGED <<up, outages, ready, state, todo, held, line, healthy, misses>>

Outage(s) ==
    /\ s \in up /\ outages < MaxOutages
    /\ up' = up \ {s} /\ outages' = outages + 1
    /\ UNCHANGED <<pod, ready, state, todo, held, line, healthy, misses>>

Return(s) ==
    /\ s \notin up
    /\ up' = up \cup {s}
    /\ UNCHANGED <<outages, pod, ready, state, todo, held, line, healthy, misses>>

(***************************************************************************)
(* Specification                                                           *)
(***************************************************************************)
Init ==
    /\ up = Stores /\ outages = 0
    /\ pod = "booting" /\ ready = FALSE
    /\ state = [h \in Handlers |-> "new"]
    /\ todo = [h \in Handlers |-> <<>>]
    /\ held = [h \in Handlers |-> {}]
    /\ line = [k \in Pools |-> <<>>]
    /\ healthy = [probe \in Probes |-> TRUE]
    /\ misses = [probe \in Probes |-> 0]

Step(h) == Statement(h) \/ Checked(h) \/ Unreachable(h) \/ (Answered(h) /\ ~Hangs(h))
Refused(h) == Answered(h) /\ Hangs(h)

Next ==
    \/ \E h \in Handlers : Step(h) \/ TimedOut(h) \/ Refused(h)
    \/ \E r \in Requests : Arrive(r) \/ HangUp(r)
    \/ \E k \in Pools : Grant(k)
    \/ \E probe \in Probes :
          StartProbe(probe) \/ AnswerProbe(probe) \/ GiveUpProbe(probe)
    \/ Restart \/ Boot
    \/ \E s \in Stores : Outage(s) \/ Return(s)

(* Handlers run, pools hand out what is free, an unreachable server is     *)
(* noticed, and the kubelet goes on probing, restarting and booting.  No   *)
(* fairness of TimedOut, HangUp or GiveUpProbe: nothing may depend on      *)
(* somebody losing patience with a pool that is merely busy.  And none of  *)
(* Refused: a handler may await a Redis that is away for ever.             *)
Spec ==
    /\ Init /\ [][Next]_vars
    /\ \A h \in Handlers : WF_vars(Step(h))
    /\ \A k \in Pools : WF_vars(Grant(k))
    /\ \A probe \in Probes : WF_vars(StartProbe(probe)) /\ WF_vars(AnswerProbe(probe))
    /\ WF_vars(Restart) /\ WF_vars(Boot)

(***************************************************************************)
(* Properties                                                              *)
(***************************************************************************)

(* No set of handlers can block each other for ever, with any pool size:   *)
(* each request ends although nobody times out and the probes never stop   *)
(* coming (handlers ask for one connection at a time and the waiting lines *)
(* are served in order).  The one thing that can hold a request up is its  *)
(* own await of a Redis that is away; whoever hangs there is in nobody's   *)
(* way, and goes on when Redis is back.                                    *)
RequestsEnd == \A r \in Requests : InFlight(r) ~> ~InFlight(r) \/ Hangs(r)

(* A request that needs no store that is down fails only while PoolSize    *)
(* other handlers are at work with a connection of the pool it waits for:  *)
(* neither clients that hang up nor probes that are given up use the pool  *)
(* up.                                                                     *)
AtWork(k) == {h \in Handlers : InFlight(h) /\ k \in held[h]}
FailuresAreDue ==
    [][\A r \in Requests : state[r] = "running" /\ state'[r] = "failed" =>
          \/ up # Stores
          \/ \E k \in Pools : Waits(r, k) /\ Cardinality(AtWork(k)) = PoolSize]_vars

(* Waiting for one connection while holding another is what would let the  *)
(* pools block each other, and so would holding one while Redis or Kafka   *)
(* is awaited.  A handler either works, with the one connection that its   *)
(* next statement needs, and stands in no line; or it has no connection    *)
(* and stands in the line of the pool it needs next, in no line if it      *)
(* awaits Redis or Kafka.  And while a line does not move, what it waits   *)
(* for is with handlers that work.                                         *)
Waiting(h) ==
    held[h] = {} /\ \A k \in Pools : Waits(h, k) <=> k = Head(todo[h])
Working(h) ==
    held[h] = {Head(todo[h])} /\ \A k \in Pools : ~Waits(h, k)
NoCircularWait ==
    /\ \A h \in Handlers : InFlight(h) => todo[h] # <<>> /\ (Waiting(h) \/ Working(h))
    /\ \A k \in Pools : line[k] # <<>> /\ ~Free(k) =>
          \E h \in AtWork(k) : todo[h] # <<>> /\ Working(h)

(* Once the stores have come back for good, the pod gets requests again    *)
(* and keeps getting them, whatever was restarted, dropped or given up in  *)
(* the outage.                                                             *)
ReadyAfterOutage == <>[](up = Stores) => <>[]ready
=============================================================================
