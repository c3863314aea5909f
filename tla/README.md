# Verification of the Rust microservices platform

TLA+ models of the two services of this repository (`auth-service`,
`user-service`), of what surrounds them (pools, probes, failover, the generated
end-to-end test), the TLC instances that check them and the proofs that TLAPS
checks. A path `x.rs:n` is a line of the repository.

## 1. The system

| part | state | operations | how it is reached |
|---|---|---|---|
| `auth-service` OAuth flows (`services/oauth_service.rs`, `auth_service.rs`) | tables `auth_users`, `oauth_clients`, `authorization_codes`, `refresh_tokens` | register, register_client, authorize (PKCE), token (three grants), revoke | HTTP; several pods |
| client cache (`auth-service/src/cache.rs`) | Redis `oauth_client:<id>`, TTL 600 s | get, set; errors ignored | every flow that names a client |
| access tokens (`token_service.rs`, `shared/src/middleware`) | none: signed claims | create; validate, `require_scope` | returned by token; presented to `user-service` |
| users (`user-service/src/services/user_service.rs`) | table `users`; Redis `user:<id>`, `users:list`, TTL 300 s | create, get, list, update, delete | HTTP; several pods |
| registration events (`auth_controller.rs`, `kafka_service.rs`, `kafka.rs`) | topic `user.events`, the offset of `user-service-group` | publish; receive, insert, commit, shut down | Kafka, five partitions keyed by user id |
| database pools (`db.rs`, HAProxy, Patroni) | a primary and asynchronous replicas per service | writes to the primary, every read to some replica, round robin (README.md:319) | both services |
| health checks (`health_controller.rs`) | two bounded pools, their waiting lines; the kubelet's counters | acquire from both pools, PING; 200 or 503; restart | liveness, readiness probes (`helm/.../deployment.yaml`) |
| Postman generator (`postman/generator/src/main.rs`, `overlay.json`) | `postman/openapi/*.json`, the collection, its variables | fetch or read the documents, match operations, write test scripts; run the collection | `make postman`, `make postman-offline` (Makefile:78); Postman |

Calls between the parts: a controller calls one service function; a service
function performs a fixed sequence of awaits on the read pool, the write pool
and Redis, with no transaction around them. The two services share no database;
they are joined by the Kafka topic and by the claims in an access token.

What is hard: every handler reads from a replica and later writes to the
primary without a condition on what it read; a database error, a dropped
connection or a killed pod can end a handler between any two of its writes;
Redis entries are filled by reads that race with invalidations; the consumer
commits offsets asynchronously and is stopped by SIGTERM, crash or rebalance; an
access token is believed without asking anybody; a promoted replica may lack the
last writes, registrations among them; probes wait in the same lines as the
requests they speak for; a Redis that does not answer is awaited without a timeout.
`PROJECT.json` lists these hazards at their lines.

What makes each part correct: a code or refresh token buys one successor
carrying the same user, client and scopes, and never more than its client's
scopes; a session ends only by revocation or expiry; what Redis shows is what
the primary holds, up to races that end; a registered account comes to have a
profile; no offset is committed for an event nobody handled; whoever is let into
`user-service` was consented to, and not for longer than a token lives after the
session, unless a refresh was under way when it ended; nobody waits for ever for a connection, and a pod recovers from an
outage by itself; a collection tests the services it was generated for, with the
values of its own run.

## 2. Modules

| module | models | its state and the code |
|---|---|---|
| `ReplicatedDatabase` | `DbPools`, replication | `lsn`, `applied`, `timeline` (promotions so far): a row carries the log positions at which it was written, ended or spent, a reader at position *n* sees the writes up to *n*. No copy of a table is kept per replica. `Replicas = {}` is the service without `DATABASE_READ_URL` (db.rs:22) |
| `OAuthService` | all of `AuthService` and `OAuthService` | the four tables, `clientCache`, and per request `pc`, `req`, the row it has read (`seen`), `reply`. One action per stretch between two awaits: `FindClient`, `VerifyCredentials`, `LookupCode`, `SpendCode`, `FindUser`, `MintToken`, ... |
| `GrantLifecycle` | what the grants promise | a consent is issued, spent, renewed token by token, ended: abstract |
| `OAuthRefinement` | the mapping from the tables to `GrantLifecycle` | a stage is read off `usedAt`, the live tokens and the requests in flight |
| `AccessControl` | `TokenService::validate`, `extract_user`, `require_scope`, composed with `OAuthService` | `call`: the call of `user-service` just answered; `over`: when a session was over last, `heirs`: the requests that had read a code or token of it by then and those that use their tokens (both history). A call reads only its token and the clock, so it is one step |
| `Failover` | a Patroni promotion under `OAuthService` | `Promote(n)` cuts the log back to position *n*: rows written later disappear, later stamps are undone, whatever the tables; `timeline` grows; Redis and the handlers' memory stay |
| `UserService` | `UserService`, `UserRepository`, `shared/src/cache.rs` | `rows`: versions of each user; `cache`: snapshots by key. An entry stored at position *n* shows the tables as of *n*. `raced` (history): whether two requests have overlapped or a reader met a replica that lags. At the places in `Returning` a reader that was answered is followed by another request |
| `UserEvents` | registration controller, producer, consumer | `accounts`, `topic`, `committed`, and per pod `loop`, `position`, `sent` (a commit under way) |
| `EventDelivery` | what a consumer group promises | a log, how often each event was given out, how many are settled, how often the delivery was cut off: abstract; `UserEvents` maps `topic`, `handled`, `committed` and `cuts` to them |
| `ServicePod` | `DbPools`, `PoolConnection`, `health_check`, the kubelet's probes and restart, `main`'s boot | `held`, `line`: connections and waiting lines; `todo`: what the rest of a handler awaits, pools, Redis and Kafka in the order of the code (`Awaits`); `misses`, `ready` of the probes. What a statement does is in `OAuthService`; here only the connection it needs counts, and that `find_client_cached` awaits Redis before and after its statement, `register` Kafka after its own |
| `PostmanCollection` | `load_specs`, `parse_specs`, `generate_collection`, `build_item`, `build_test_script` | `cached`: the files; `job`: a run of the generator; `collection`: the requests of the overlay it has, each with its endpoint; `position`, `variables`, `failed`: a run of the collection against services that may be released anew in between |
| `MCOAuthService`, `MCAccessControl`, `MCFailover`, `MCUserService`, `MCServicePod`, `MCPostman` | instances for TLC | seeded clients, symmetry, views, endpoints, the overlay |
| `OAuthService_proofs` | typing of `OAuthService`, its steps by kind: what the next three build on | section 5 |
| `OAuthGrants_proofs` | theorems about the grants, sessions and the refinement of `OAuthService` | section 5 |
| `AccessControl_proofs`, `Failover_proofs` | theorems about `OAuthService` under calls of `user-service` and under failovers | section 5 |
| `UserEvents_proofs`, `UserService_proofs`, `ServicePod_proofs`, `PostmanCollection_proofs` | theorems about the module of that name | section 5 |

A random string (code, refresh token, client id) is named by the request that
drew it; a client secret by its client. `readAt`, `wroteAt`, a token's `grant`,
an entry's `set`, `handled` and `cuts` are history: no guard reads them. Rows of
`oauth_clients` never change, so `find_client_cached` is one step of
`OAuthService`; that it awaits three times is in `ServicePod`. The content of a user row is its version: `COALESCE` in the UPDATE is
one statement of the primary and needs no more. Every model has definitions
marked as seeded faults; they appear in no behaviour and are there to be
substituted for the real definition, to see that a property notices.

`RegisterUser` in `OAuthService` is `AuthService::register`; the event that the
controller sends afterwards is in `UserEvents`, which in turn leaves the
consumer's refresh of Redis to `UserService`, where it is that of a create.

## 3. What the runs check

| run | instance | shows |
|---|---|---|
| `oauth_serial` | 4 requests one at a time, no replica, faults, clock to 2 | `TokensDescendFromSpentCode`, `GrantsRedeemedOnce`, `OneLiveTokenPerCode`, and that the service implements `GrantLifecycle` |
| `oauth_replica` | 4 interleaved requests, a registration, client credentials and malformed ones among them, one lagging replica, no faults | `TypeOK`; `SpentGrantsStaySpent`: the window for a double spend is exactly from a request's read to its write; `EveryRequestCanGoOn`: no handler waits for a replica or for another handler; `SessionsSurviveRotation` |
| `access` | 4 interleaved requests, 2 verifiers, expiry, then any call of `user-service` | `RefusalsAreJustified`: no good code or token is refused; `ServedCallsWereConsented`: a call let through goes back to a login, a consent and a PKCE proof, over any rotations; `AccessEndsAfterSession`: a session that is over lets nobody in for longer than one token lifetime and the leeway, except through requests that had read a code or token of it before |
| `failover` | 4 requests one at a time, registrations and all three grants among them, faults, one failover that loses up to 3 statements | `CodeReplayNeedsFailover`, `SessionForksNeedFailover`: what one failover can cost; `AccessWithinRegisteredScopes`: not more scopes than were registered, also for a client whose row is lost |
| `user_cache` | 3 interleaved requests of all kinds, lagging replica, one fault | `TypeOK`; `StaleOnlyByRace`: a write that has finished leaves no entry that was good when stored; `NothingNewGoesStale`: once writes stop and the replica has caught up, no further key comes to be at risk; `ReadsSeeWrites`: until two requests overlap or a reader meets a replica that lags, a read shows every write before it |
| `user_converges` | 2 places with readers that keep coming, lagging replica, one fault, fair | `CacheConverges`: when the writes are over, Redis comes to show what the primary holds, whatever raced, was lost or crashed, and stays so under readers that never cease |
| `events` | 2 registrations, 2 consumers, 2 stops, 1 fault, fair | `TypeOK`, `CommittedEventsWereHandled` (at least once), `HandledAgainOnlyIfCut`, `ProfilesOfAccounts`, `FaultsCostOneProfileEach`, `OffsetNeverGoesBack`, `ProfileFollowsAccount`; `RefinesDelivery`: the group implements `EventDelivery`, in particular events are first handled in the order sent |
| `pod` | 2 requests with their Redis and Kafka awaits, both probes, pools of 1, one outage, fair | `RequestsEnd`: everybody gets a connection in the end, and only its own await of a Redis that is away can hold a request up; `NoCircularWait`: nobody waits for a connection, Redis or Kafka with a connection in hand; `FailuresAreDue`: dropped handlers and abandoned probes do not use a pool up; `ReadyAfterOutage` |
| `postman` | the overlay (repaired), 2 services, one release, wrong answers, files that are not written or cut short | `PassingRunUsesItsOwnValues`, `SameCollectionOffline`, `ValuesAreKept` |

Three runs state what the repository says and the code does not do, and TLC
finds the counterexample:

- `oauth_code_replay`: a second exchange of a code is answered 400
  (`assert_eq!(second_exchange_resp.status(), 400)`,
  auth-service/tests/api_tests.rs:355). With a replica the second exchange,
  sent after the first was answered, succeeds.
- `oauth_client_cache`: "checks Redis first, falls back to DB"
  (oauth_service.rs:25). The entry lacks `client_secret_hash`, which
  `oauth_client.rs:8` does not serialize, and can never be read back; the client
  is unknown until its replica has replayed the INSERT.
- `postman_flow`: "Run these requests in order to complete the full OAuth2/PKCE
  authentication flow" (postman/overlay.json:72). Request 1.2 (overlay.json:86)
  names no `expect_status`, the generator then wants 200 (main.rs:461) and
  `register_client` answers 201 (client_controller.rs:26): its test fails before it
  saves `client_id`, and the rest of the flow runs on empty variables. The run
  `postman` uses the overlay with that line added.

Other behaviour that the models have and no run reports: `/revoke` answers 200
although its DELETE failed (`RevokeToken`); with a replica a GET after a DELETE
can be answered from the old row and put it back into Redis (`UserService`); an
event whose sending or whose INSERT failed is lost (`ProfileFollowsAccount` holds
for registrations without such a failure, and `FaultsCostOneProfileEach` bounds the
loss). The overlay's error case "Create User -
Duplicate Email (409)" cannot be answered 409, for `users.email` is not UNIQUE
(user-service/migrations); it saves nothing and is left out of the instance.
`list_users` says it caches the list with a "shorter TTL" (user_service.rs:71): it
calls `set_cached`, which gives every key the same 300 s; no property depends on
the difference, an entry of the model may expire at any time.

Bounds. Three requests are the smallest number at which a grant is issued and
then contended for by two requests, or a reader, a writer and a later reader meet
in the cache; four let a code be exchanged and its token rotated and presented
again. One replica gives every lag; a second only matters for two reads of one
request, which `SessionsSurviveRotation` excludes by `MonotoneReads` (with two
replicas the read at oauth_service.rs:240 may go back in time: the request is
answered 404 with the code already spent). `MaxTime` 1 or 2 with lifetimes of 0 or 1
covers the last instant of a code and the one after it. Two pods and two stops
cover a hand-over, and a hand-over of a hand-over. `Kinds` restricts a run to the
endpoints its question is about. Deadlock is not an error except in the two
Postman runs: elsewhere a run ends when its requests are answered.

`oauth_replica` has a seeded user and one who registers, so that a login can reach
a replica without the user's row. `access` has 4 requests (login, exchange, then a
refresh that races with a revocation), two verifiers so that a wrong one exists,
every lifetime 0 and a leeway and clock that let a token be accepted after `exp`,
and refused after that. Its VIEW forgets the log positions: with reads from the
primary nothing depends on them (the argument is at `AccessView`).

`failover` is `Isolated` as the two counting properties require (one request at a
time, no replica to read from), so what is seen is the failover's doing alone. With
four requests a code is issued and there are three attempts on it, or an exchange
and two rotations: one more than a single failover pays for, so that the bounds can
be exceeded after the failover as well as before. The seeded faults that the two
properties are tried on send a statement to the old primary once there has been a
failover. Three statements of lag cover an exchange whose
UPDATE and INSERT are both lost together with the code, and a registration with what
was built on it. A lost client or user is refused at its next lookup; a
handler that had read the row goes on, until a foreign key stops it (`Referenced`).
The ids that PostgreSQL draws again after a failover are not modelled: a user is its
e-mail address, so a code cannot come to name another user who was given the same
number. `FailoverView` leaves out what no action and no property of the run looks at.

`user_converges` has two places, at both of which readers may return after
they were answered; a place that has written is used up, so that writes stop. That
is where the property bites: a hit that were stored again would keep an old
entry alive for ever, and is the seeded fault it is tried on.

`pod` takes one connection per pool, the worst case, and a failure
threshold of 2 so that one miss and a restart both occur. One request is a login
(Redis, read, Redis, read, write), the other a login or a registration (write,
Kafka): two that contend for each pool while either may be away at Redis. The
startup probe is left out: it only delays the other two. In `postman` the overlay
is cut to the requests that save or use a variable; `Errors` lets every request be
answered 500, and one release loses an operationId or moves it to a method that is
not generated. A request whose operation has lost its operationId is still
served; one whose endpoint has moved is answered 404.

`Serialized` with `Replicas = {}` is how the repository's own tests exercise
auth-service. It is a bound of the run, not a claim about deployment: what remains
true when requests interleave and replicas lag is stated by
`SpentGrantsStaySpent` and `SessionsSurviveRotation`. `UserService` has no such bound:
`ReadsSeeWrites` speaks of the behaviours in which nothing has raced yet
(`raced`), and `StaleOnlyByRace` of all without a fault.

## 4. Fairness

No liveness is claimed of `OAuthService`: `EveryRequestCanGoOn` is the safety half,
that the next step of a handler never has to wait for anybody else. That its
awaits end is true of sqlx (acquire timeout), HAProxy (30 s) and the Kafka producer
(5 s), and not of Redis: `ConnectionManager::new` (cache.rs:15) sets no response
timeout, so a Redis that accepts and does not answer holds its caller for ever.
`ServicePod` has that Redis, and no fairness of `Refused`, the step in which
an absent Redis returns an error.

`user_converges` assumes weak fairness of the handlers (and so that Redis answers;
while it does not, nobody reads from it), of replication and of expiry (every `SET`
has a TTL, shared/src/cache.rs:36), and none of callers, errors or crashes. `events`
has that of handlers, of a pod's restart, of the assignment of an unowned partition
and of a commit's arrival.

`pod` assumes that statements end or are seen to be unreachable, that the pools
grant what is free, and that the kubelet probes, restarts and boots. It assumes
nothing of `TimedOut`, `HangUp` and `GiveUpProbe`: `RequestsEnd` must not rest on
somebody losing patience with a pool that is merely busy. Nor does it assume
that stores come back: `ReadyAfterOutage` says what follows if they do for good.

## 5. What is proved

The theorems about `Spec` of `OAuthService` are for arbitrary sets of requests,
users, clients, scopes and replicas, any lifetimes, and with faults and
interleaving allowed. They rest on `OAuthAssumption` alone: the seeded tables
are tables, and a new random string names no seeded client. Those about `Spec` of
`UserEvents` are for any requests, any finite sets of users and pods, which are
counted, and any number of stops and faults (`EventsAssumption`), those about `Spec` of `UserService` for
any requests, users and replicas, any kinds of request and any number of faults
(`UserAssumption`), and those about `Spec` of `ServicePod` for any finite set of
requests, any pool size and threshold and any number of outages (`PodAssumption`: both sizes are at least one, and
a request is no probe, and each calls some of the endpoints of `Awaits`).
The theorems about `AccessSpec` need `AccessAssumption` (the leeway is a natural
number) besides `OAuthAssumption`; those about `FailoverSpec` hold for any number of
failovers and any lag (`FailoverAssumption`). Those about `Spec` of
`PostmanCollection` are for any services, documents and releases, and for any overlay
of which two things are true (`AnswersAssumption`, `OrderAssumption`; besides, a document
names an operation once, `DocumentAssumption`): an answer from
which a script takes fields has them, and a variable is used after a request that
fails its test unless it saves it. Both are facts about `overlay.json`, which TLC
evaluates for the overlay as it is and as repaired. What a property restricts itself to (`Serialized`,
no replica, no fault) is in its statement, and so in the theorem; only
`ImplementsLifecycle` has a premise of its own, `Isolated`: one request at a time
and no replica. Without it the theorem is false, as `oauth_code_replay` shows.

| theorem | property |
|---|---|
| `TypeCorrect` | `TypeOK` |
| `SpentStaysSpent` | `SpentGrantsStaySpent` |
| `TokensDescend` | `TokensDescendFromSpentCode` |
| `RedeemedOnce` | `GrantsRedeemedOnce` |
| `OneLiveToken` | `OneLiveTokenPerCode` |
| `RefusalsJustified` | `RefusalsAreJustified` |
| `SessionsSurvive` | `SessionsSurviveRotation` |
| `ImplementsLifecycle` | `RefinesLifecycle` (safety: initial states and steps) |
| `ServedWereConsented` | `ServedCallsWereConsented` |
| `AccessEnds` | `AccessEndsAfterSession` |
| `TypeCorrect` (events) | `TypeOK` |
| `CommittedWereHandled` | `CommittedEventsWereHandled` |
| `ProfilesHaveAccounts` | `ProfilesOfAccounts` |
| `RepeatedOnlyIfCut` | `HandledAgainOnlyIfCut` |
| `OffsetAdvances` | `OffsetNeverGoesBack` |
| `ImplementsDelivery` | `RefinesDelivery` |
| `FaultsCostOneEach` | `FaultsCostOneProfileEach` |
| `TypeCorrect` (users) | `TypeOK` |
| `StaleByRaceOnly` | `StaleOnlyByRace` |
| `ReadsAreCurrent` | `ReadsSeeWrites` |
| `RiskOnlyShrinks` | `NothingNewGoesStale` |
| `FailuresDue` (pod) | `FailuresAreDue` |
| `NobodyBlocks` (pod) | `NoCircularWait` |
| `AccessWithinScopes` | `AccessWithinRegisteredScopes` |
| `FailoverTypeCorrect`, `FailoverAccessWithinScopes` | `TypeOK`, `AccessWithinRegisteredScopes` under failovers |
| `CodeReplayBounded` | `CodeReplayNeedsFailover` |
| `SessionForksBounded` | `SessionForksNeedFailover` |
| `CollectionFromCache` | `SameCollectionOffline` |
| `ValuesKept` | `ValuesAreKept` |
| `OwnValues` | `PassingRunUsesItsOwnValues` |

`TypeOK` is not inductive: that a step may read `codes[req[p].key]` depends on
where `p` is. `OAuthService_proofs` strengthens it with `Control`, which ties
every label to the kind of request, to the rows that must exist and to what has
been read, and proves `Typed == TypeOK /\ Control`, one lemma per action. The
step of a request leaves every other request's control state alone (`Frame`),
which reduces the preservation of `Control` to the request that moved. `References`
(the row that a request names is there) is apart from it, because it is what a
failover breaks; `Inv1` is the three together. `StepKinds` sorts the steps by what
they do to the grants (quiet, issuing, reading, spending, minting), so that each
later invariant is proved once per kind and not once per action.

`OAuthGrants_proofs` adds the layers of `IInv`, each needed by the next:
`Stamps` (no row is stamped later than `lsn`; a request's write position is later
than its read position; a position that spends a row is the minimum over the
requests that wrote it), `Descent` (what a request has read still agrees with the
code it descends from), `AuthorizedWithin` (a request past its client check asks
for registered scopes only) and, for the serialized case, `Isolation` (nothing
else is in flight between a read and its mint, and a code whose renewal is owed
has no live token).

The theorems on sessions in the same module need no isolation. For `RefusalsJustified`: what makes a
code or token unusable (spent, deleted, expired, another client's) never ends
(`UnusableKept`), and a request past its lookup that is refused has seen such a
reason (`Refusals`). For `SessionsSurvive`: the user row behind every grant is
older than the grant, so that with monotone reads `FindUser` cannot miss it
(`UsersBehindRows`, `UserFound`); hence whoever spends a code or takes a token away
reaches `MintToken` and stores a successor, unless it is a revocation or a purge,
which end the session (`RemovalRenewsOrEnds`).

`ImplementsLifecycle` maps steps to steps: with one request at a time a step
changes the stage of at most one consent, and the groups of steps above become
`Consent`, `Spend`, `Mint` and `End` of `GrantLifecycle` or a stutter. A failure or
crash between spending and minting is an `End`.

`AccessControl_proofs` adds `Provenance`, which the tables do not show by themselves:
who is past the client check has matched the secret, who issues a code has matched
the password (`Checks`), and every grant read or stored leads to an answered code
that somebody exchanged with its verifier (`Proofs`, kept by lookup and mint over
any number of rotations). `SessionEnds` is the clock of it, with a part for what the
history says of the tables (`OverOK`: the code of a session that was over is not
redeemable, and its usable tokens and the requests at work on it are heirs) and one for
the tokens signed (`SignedOK`: `exp` is at most the end of the session plus `AccessTTL`,
unless an heir signed it). A step that ends a session makes everybody an heir
who has read a grant of it and is in flight; from then on grants only age
(`GrantsOnlyAge`), and a lookup needs a grant that is open, which by then
is an heir's and makes the reader one (`LookupNeedsGrant`, `HistoryKept`).

`Failover_proofs` cannot use `References`, `Stamps` or `Descent`: the row a caller
or a handler names may be gone, a stamp may be undone, and a descendant may outlive
its code. Users and clients are lost like any other row.
Its invariant is `FailoverInv`. For the scopes it holds not to the table of clients
but to what each registration asked for, which is in the history of requests:
a handler past its client check asks for no more than that (`Permitted`), whatever
became of the row. `Names` remembers instead what the request
that drew a name was (an `authorize`, a token grant), which no failover takes back.
`ReplayBound` counts, for each code, the exchanges that were answered and those that
can still be: at most one more than the failovers so far, none more while the code
is unspent. `ForkBound` counts, for each consent and *each position of the log*, what
a reader there finds that can still become a token, and at its end also the requests
that have spent one and not stored the next; the bound for all positions is what
makes it inductive, since a promotion makes any of them the end. A promotion changes
neither count but by one request in flight, and raises the bound by one.

`UserEvents_proofs` strengthens the properties to
`IInv == TypeOK /\ GroupOK /\ AccountsOK /\ CutsPay`. `GroupOK` puts the group's
offset, the commit that the partition's owner has under way and the owner's
progress in this order, with everything up to that progress handled: from it
follow both the at-least-once property and, as no commit of another pod counts,
that the offset never goes back. `AccountsOK` says that what is published, or
about to be, is about a registered account. `CutsPay` counts: a pod that has lost
the partition while it handles an event (`Strays`) may still handle it once, and
so may the next owner, who starts again at the committed offset; the handlings
an event has had and may still get from strays are at most the cuts, plus one if
it lies behind the owner's progress (`Line`). A rebalance or crash moves the line
back or makes one stray per event, and adds the cut that pays for it.
`ImplementsDelivery` needs one more fact, `InHand`: a pod that handles an event has
everything before it handled, also after it has lost the partition. It was so when
the pod took the event as the owner, and a handled event stays handled (`DoneKept`).
Then `HandleMessage` is `Give`, and `CutsPay` is what entitles it to; a commit or a
shutdown that moves the offset is `Settle`, a crash, rebalance or cut-off shutdown is
`Cut`, a send that arrives is `Send`; all else is a stutter.
`FaultsCostOneEach` is the safety half of `ProfileFollowsAccount`, with a price: an
account is `Lost` when it has no profile, no publication under way and no event that
the group has not settled. That set is not what the induction counts, because a
commit or a cut-off shutdown that settles an event would add to it without a fault.
`FaultsPay` counts the accounts that are `Forgotten`, as soon as their last event
has been *handled* in vain: only a registration's own step and `HandleMessage` add
to that set, each one account and each with the fault it counts, and as everything
behind the offset has been handled (`GroupOK`), what is lost is forgotten.

`UserService_proofs` proves `IInv == Inv1 /\ StaleOnlyByRace /\ Coherent`, where
`Inv1` adds to the types where each request may be (`Control`) and that no row and
no entry is stamped later than the log (`Logged`). From `Logged` it follows that a
statement changes what a snapshot shows at no earlier position, and of no other
user (`VersionKept`, `OthersKept`): an entry can only come to be out of date by
the statement itself, whose request is then an excuse for it, or by a store of
what had been read before, which is another. Steps are grouped into those that
leave tables and Redis alone, those that change an entry and those that write.
`Coherent` is the same for as long as nothing has raced or failed: `raced` is never
taken back, and until it is set at most one request is at work (`RacesNoted`), so
nothing is excused but its own write, and a read that finds an entry
finds the current one.
`RiskOnlyShrinks` is the safety half of `CacheConverges`. A key is `AtRisk` while its
entry is out of date, or while a request is about to store something out of date; in
a step that commits no statement, with every replica caught up, a read brings what
the primary holds (`StoresCurrent`) and a store only what was at risk before. With
the entries' time to live, which is left to TLC, the set runs empty.

`ServicePod_proofs` proves that connections are conserved: who stands in a waiting
line or holds a connection is a handler at work (`LineOK`, `HoldsAtWork`), and no
pool has more holders than connections (`PoolOK`). Every action but `Grant` and
`Restart` is one handler that goes on or ends (`Moves`), for which the three are
proved once; `PlaceRemoved` and `LeavesLine` say what leaving a line does to the
others in it. A pool with nothing free is then full of handlers at work
(`FullPool`), which is the only thing a request can fail of while the stores are up.
`NobodyBlocks` adds `Places`: a handler at work waits in the line of the pool it needs
next with empty hands, or works with that one connection, or awaits Redis or Kafka
with empty hands and in no line; any other has and waits for nothing. Leaving a line moves nobody else (`OthersStay`), a grant goes to somebody
who stands in no other place. It is the safety half of `RequestsEnd`: whoever blocks
a line can go on by itself.

`PostmanCollection_proofs` has one invariant for each half. `Loaded`: what the
generator has loaded, and each file, is what the service publishes unless the service
is in `behind`; a file cut short is `NoSpec`, and its service is in `behind`. What is loaded for all
services then makes the collection that they call for, endpoint by endpoint. `Running`: in a run of the whole overlay without a failed test,
everything that the requests before `position` guarantee is fresh; `SavedGrows` is
where the overlay's assumption is used, that a script never takes fields from an
answer without them.

Out of the prover's reach and only model-checked: liveness, that is
`CacheConverges`, `ProfileFollowsAccount`, `RequestsEnd` and `ReadyAfterOutage`, and
`EveryRequestCanGoOn`, which is stated with ENABLED. Every other invariant and every
action property of a passing run is proved.

## 6. Not modelled

- Patroni's election, HAProxy's checks and PgBouncer's pooling: third-party
  software; `Failover` has what they do to the tables. Nginx, Terraform, the other
  charts: configuration.
- Database ids that are drawn again after a failover (a user is its e-mail
  address in `Failover`).
- Password and secret hashing, JWT signatures and PKCE's hash are taken as
  injective; the two HTTP surfaces' formatting, Swagger and metrics are left out.
- Event payloads that do not parse or name another type: auth-service sends none.
- A negative `ACCESS_TOKEN_TTL_SECS` (token_service.rs:22 wraps it): lifetimes are
  natural numbers.
- The rendering of URLs, headers and bodies by the Postman generator, and of
  examples from schemas: text, on which no other step depends.
- `shared/src/health.rs` is a copy of the health checks that no service calls.
- The coverage tool runs `cargo llvm-cov` and prints tables; the deployment
  and test scripts call kubectl, docker and curl. No state, no concurrency.

## 7. Plan

Done: `ReplicatedDatabase`, `OAuthService` and `UserEvents` with their abstract
specifications and refinements, `AccessControl`, `Failover`, `UserService`,
`ServicePod`, `PostmanCollection`; thirty-one theorems, among them every action
property and, but for the one with ENABLED, every invariant that a passing run checks.

What is left, in order:

1. Registration end to end: `RegisterUser` of `OAuthService` composed with
   `UserEvents`, and the consumer's profiles with `UserService`'s cache.
2. An abstract specification of the cache (a register that may answer an old value
   only while a race is open) with a refinement.
