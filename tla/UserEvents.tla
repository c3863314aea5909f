----------------------------- MODULE UserEvents -----------------------------
(***************************************************************************)
(* From a registration in auth-service to a profile in user-service: the   *)
(* controller inserts the account and publishes user.registered, and the   *)
(* consumer of one of the user-service pods inserts the profile and        *)
(* commits the offset (auth_controller.rs, kafka_service.rs, kafka.rs).    *)
(*                                                                         *)
(* The topic is modelled by one of its partitions; every event of a user   *)
(* has that user's id as its key, so partitions do not interact.  The      *)
(* consumer's refresh of Redis after its INSERT is the one of a create in  *)
(* UserService and is left out here.                                       *)
(***************************************************************************)
EXTENDS Naturals, Sequences, FiniteSets

CONSTANTS
    Requests,           \* registration requests
    Users,              \* e-mail addresses
    Pods,               \* pods of user-service, each with one consumer
    NoPod,              \* the partition is assigned to no pod
    MaxStops,           \* bound: SIGTERMs, crashes and rebalances
    MaxFaults           \* bound: errors of a database or of the broker

VARIABLES
    accounts,           \* auth_users: the registered e-mail addresses
    email,              \* what each request registers
    stage,              \* where each registration is
    topic,              \* the partition of user.events
    committed,          \* the group's offset: how many events are done
    owner,              \* the pod the partition is assigned to
    loop,               \* where each pod's consumer loop is
    stopping,           \* pods that have received SIGTERM
    position,           \* how many events each consumer has taken
    sent,               \* offset of an asynchronous commit under way, or 0
    profiles,           \* table users: rows per e-mail address (not UNIQUE)
    handled,            \* history: times each event was given to the table
    stops, faults,      \* how many of each have happened
    cuts                \* history: stops that skipped the shutdown branch

producer == <<accounts, email, stage>>
consumer == <<committed, owner, loop, stopping, position, sent>>
vars == <<accounts, email, stage, topic, committed, owner, loop, stopping,
          position, sent, profiles, handled, stops, faults, cuts>>

ASSUME EventsAssumption ==
    /\ NoPod \notin Pods /\ IsFiniteSet(Pods) /\ IsFiniteSet(Users)
    /\ MaxStops \in Nat /\ MaxFaults \in Nat

Calm == UNCHANGED faults
Fault == faults < MaxFaults /\ faults' = faults + 1
Stop == stops < MaxStops /\ stops' = stops + 1

(***************************************************************************)
(* auth-service                                                            *)
(***************************************************************************)
At(p, label) == stage' = [stage EXCEPT ![p] = label]

\* Seeded fault: the event is sent before the INSERT is known to succeed.
RegisterPublishing(p) ==
    /\ stage[p] = "insert"
    /\ \/ email[p] \in accounts /\ UNCHANGED accounts /\ Calm
       \/ /\ email[p] \notin accounts /\ accounts' = accounts \cup {email[p]}
          /\ Calm
       \/ Fault /\ UNCHANGED accounts
    /\ At(p, "publish")
    /\ UNCHANGED <<email, topic, consumer, profiles, handled, stops, cuts>>

(* AuthService::register: the INSERT, refused when the address is taken.   *)
(* When the database fails the handler returns before it publishes, even   *)
(* if the row is there.                                                    *)
RegisterAccount(p) ==
    /\ stage[p] = "insert"
    /\ \/ /\ email[p] \in accounts
          /\ At(p, "done") /\ Calm
          /\ UNCHANGED accounts
       \/ /\ email[p] \notin accounts
          /\ accounts' = accounts \cup {email[p]}
          /\ \/ At(p, "publish") /\ Calm
             \/ At(p, "done") /\ Fault
       \/ At(p, "done") /\ Fault /\ UNCHANGED accounts
    /\ UNCHANGED <<email, topic, consumer, profiles, handled, stops, cuts>>

Arrives(events) ==
    /\ topic' = topic \o events
    /\ handled' = handled \o [i \in DOMAIN events |-> 0]

(* publish_user_event: sent once, sent again by the producer's own retry,  *)
(* or given up after its timeout; the registration is answered 201 in any  *)
(* case.                                                                   *)
Publish(p) ==
    /\ stage[p] = "publish"
    /\ \/ Arrives(<<email[p]>>) /\ (Calm \/ Fault)
       \/ Arrives(<<email[p], email[p]>>) /\ Fault
       \/ Arrives(<<>>) /\ Fault
    /\ At(p, "registered")
    /\ UNCHANGED <<accounts, email, consumer, profiles, stops, cuts>>

\* The auth-service pod dies, or the caller's connection closes.
Abandon(p) ==
    /\ stage[p] \in {"insert", "publish"}
    /\ At(p, "done") /\ Fault
    /\ UNCHANGED <<accounts, email, topic, consumer, profiles, handled, stops, cuts>>

(***************************************************************************)
(* The consumer group                                                      *)
(***************************************************************************)
Up(k) == loop[k] # "down"
NextIn(k, label) == loop' = [loop EXCEPT ![k] = label]

\* A pod is started, by the first deployment or in place of a stopped one.
Start(k) ==
    /\ ~Up(k)
    /\ NextIn(k, "poll")
    /\ UNCHANGED <<producer, topic, committed, owner, stopping, position, sent,
                   profiles, handled, stops, faults, cuts>>

\* Seeded faults: the committed offset is ignored; auto.offset.reset = latest.
ResumeAtStart(k) == position' = [position EXCEPT ![k] = 0]
ResumeAtEnd(k) == position' =
    [position EXCEPT ![k] = IF committed = 0 THEN Len(topic) ELSE committed]

Resume(k) == position' = [position EXCEPT ![k] = committed]
(* The partition goes to a consumer that is asking for events; it resumes  *)
(* at the committed offset, at the beginning when there is none            *)
(* (auto.offset.reset = earliest).  Commits of the previous assignment are *)
(* refused from then on.                                                   *)
Assign(k) ==
    /\ loop[k] = "poll"
    /\ owner' = k
    /\ Resume(k)
    /\ sent' = [j \in Pods |-> 0]
    /\ UNCHANGED <<producer, topic, committed, loop, stopping, profiles, handled, faults>>

Join(k) == owner = NoPod /\ Assign(k) /\ UNCHANGED <<stops, cuts>>

\* A pod joins, or the owner is taken for dead while it is handling an event.
Rebalance(k) ==
    /\ owner \notin {NoPod, k}
    /\ Assign(k)
    /\ Stop /\ cuts' = cuts + 1

\* Seeded fault: enable.auto.commit = true.
PollAndCommit(k) ==
    /\ loop[k] = "poll" /\ owner = k
    /\ position[k] < Len(topic)
    /\ position' = [position EXCEPT ![k] = @ + 1]
    /\ committed' = position[k] + 1
    /\ NextIn(k, "handle")
    /\ UNCHANGED <<producer, topic, owner, stopping, sent, profiles, handled,
                   stops, faults, cuts>>

(* recv(): the next event of the assigned partition.                       *)
Poll(k) ==
    /\ loop[k] = "poll" /\ owner = k
    /\ position[k] < Len(topic)
    /\ position' = [position EXCEPT ![k] = @ + 1]
    /\ NextIn(k, "handle")
    /\ UNCHANGED <<producer, topic, committed, owner, stopping, sent, profiles,
                   handled, stops, faults, cuts>>

(* handle_message: the profile is inserted, or the error printed.          *)
HandleMessage(k) ==
    LET address == topic[position[k]] IN
    /\ loop[k] = "handle"
    /\ handled' = [handled EXCEPT ![position[k]] = @ + 1]
    /\ \/ /\ profiles' = [profiles EXCEPT ![address] = @ + 1]
          /\ Calm \/ Fault
       \/ UNCHANGED profiles /\ Fault
    /\ NextIn(k, "commit")
    /\ UNCHANGED <<producer, topic, committed, owner, stopping, position, sent,
                   stops, cuts>>

\* Seeded fault: one is added to an offset that is already the next one.
CommitNext(k) ==
    /\ loop[k] = "commit"
    /\ sent' = [sent EXCEPT ![k] = position[k] + 1]
    /\ NextIn(k, "poll")
    /\ UNCHANGED <<producer, topic, committed, owner, stopping, position, profiles,
                   handled, stops, faults, cuts>>

(* commit_message(Async), whether or not the event was handled well.       *)
CommitMessage(k) ==
    /\ loop[k] = "commit"
    /\ \/ sent' = [sent EXCEPT ![k] = position[k]] /\ Calm
       \/ UNCHANGED sent /\ Fault
    /\ NextIn(k, "poll")
    /\ UNCHANGED <<producer, topic, committed, owner, stopping, position, profiles,
                   handled, stops, cuts>>

\* The commit reaches the broker, which takes it from the owner only.
CommitArrives(k) ==
    /\ sent[k] # 0
    /\ sent' = [sent EXCEPT ![k] = 0]
    /\ committed' = IF owner = k THEN sent[k] ELSE committed
    /\ UNCHANGED <<producer, topic, owner, loop, stopping, position, profiles,
                   handled, stops, faults, cuts>>

(***************************************************************************)
(* Stopping                                                                *)
(***************************************************************************)
Gone(k) ==
    /\ NextIn(k, "down")
    /\ owner' = IF owner = k THEN NoPod ELSE owner
    /\ stopping' = stopping \ {k}
    /\ sent' = [sent EXCEPT ![k] = 0]

Terminate(k) ==
    /\ Up(k) /\ k \notin stopping
    /\ stopping' = stopping \cup {k}
    /\ Stop
    /\ UNCHANGED <<producer, topic, committed, owner, loop, position, sent,
                   profiles, handled, faults, cuts>>

\* Seeded fault: the loop ends without a commit.
ShutdownQuietly(k) ==
    /\ loop[k] = "poll" /\ k \in stopping
    /\ Gone(k)
    /\ UNCHANGED <<producer, topic, committed, position, profiles, handled,
                   stops, faults, cuts>>

(* The other branch of select!: commit_consumer_state(Sync), and the loop  *)
(* ends.                                                                   *)
Shutdown(k) ==
    /\ loop[k] = "poll" /\ k \in stopping
    /\ \/ /\ committed' = IF owner = k THEN position[k] ELSE committed
          /\ Calm /\ UNCHANGED cuts
       \/ UNCHANGED committed /\ Fault /\ cuts' = cuts + 1
    /\ Gone(k)
    /\ UNCHANGED <<producer, topic, position, profiles, handled, stops>>

\* main does not wait for the consumer task: when the HTTP server has
\* stopped the process exits, wherever the loop is.
ExitEarly(k) ==
    /\ Up(k) /\ k \in stopping
    /\ Gone(k) /\ cuts' = cuts + 1
    /\ UNCHANGED <<producer, topic, committed, position, profiles, handled,
                   stops, faults>>

Crash(k) ==
    /\ Up(k)
    /\ Gone(k) /\ Stop /\ cuts' = cuts + 1
    /\ UNCHANGED <<producer, topic, committed, position, profiles, handled, faults>>

(***************************************************************************)
(* Specification                                                           *)
(***************************************************************************)
Init ==
    /\ accounts = {}
    /\ email \in [Requests -> Users]
    /\ stage = [p \in Requests |-> "insert"]
    /\ topic = <<>> /\ committed = 0 /\ owner = NoPod
    /\ loop = [k \in Pods |-> "down"]
    /\ stopping = {}
    /\ position = [k \in Pods |-> 0]
    /\ sent = [k \in Pods |-> 0]
    /\ profiles = [u \in Users |-> 0]
    /\ handled = <<>>
    /\ stops = 0 /\ faults = 0 /\ cuts = 0

Serve(p) == RegisterAccount(p) \/ Publish(p)
Consume(k) ==
    \/ Start(k) \/ Join(k) \/ Poll(k) \/ HandleMessage(k) \/ CommitMessage(k)
    \/ CommitArrives(k) \/ Shutdown(k)

Next ==
    \/ \E p \in Requests : Serve(p) \/ Abandon(p)
    \/ \E k \in Pods :
          Consume(k) \/ Rebalance(k) \/ Terminate(k) \/ ExitEarly(k) \/ Crash(k)

Spec == Init /\ [][Next]_vars

(* Every await of a registration and of the loop ends; stopped pods are    *)
(* replaced, and the broker assigns an unowned partition.                  *)
FairSpec ==
    /\ Spec
    /\ \A p \in Requests : WF_vars(Serve(p))
    /\ \A k \in Pods : WF_vars(Consume(k))

(***************************************************************************)
(* Properties                                                              *)
(***************************************************************************)

(* Every variable has its type.                                            *)
TypeOK ==
    /\ accounts \subseteq Users
    /\ email \in [Requests -> Users]
    /\ stage \in [Requests -> {"insert", "publish", "registered", "done"}]
    /\ topic \in Seq(Users)
    /\ handled \in Seq(Nat) /\ Len(handled) = Len(topic)
    /\ committed \in 0 .. Len(topic)
    /\ owner \in Pods \cup {NoPod}
    /\ loop \in [Pods -> {"down", "poll", "handle", "commit"}]
    /\ stopping \subseteq Pods
    /\ position \in [Pods -> 0 .. Len(topic)]
    /\ sent \in [Pods -> 0 .. Len(topic)]
    /\ profiles \in [Users -> Nat]
    /\ stops \in 0 .. MaxStops /\ faults \in 0 .. MaxFaults /\ cuts \in Nat

(* At least once: no crash, rebalance or shutdown moves the group's offset *)
(* past an event that no consumer has handled.                             *)
CommittedEventsWereHandled == \A i \in 1 .. committed : handled[i] > 0

(* An event is handled again at most once for every time a consumer lost   *)
(* its partition without its shutdown branch: a graceful shutdown repeats  *)
(* nothing.                                                                *)
HandledAgainOnlyIfCut == \A i \in DOMAIN handled : handled[i] <= 1 + cuts

(* A profile belongs to a registered account, whatever failed on the way.  *)
ProfilesOfAccounts == \A u \in Users : profiles[u] > 0 => u \in accounts

(* An error of a store or of the broker, or the death of auth-service,     *)
(* costs at most one account its profile: every other account has one, is  *)
(* still to be published, or has an event that the group has not settled.  *)
(* Crashes, rebalances and shutdowns of the consumers cost none.           *)
Expected(u) ==
    \/ \E p \in Requests : stage[p] = "publish" /\ email[p] = u
    \/ \E i \in committed + 1 .. Len(topic) : topic[i] = u
Lost == {u \in accounts : profiles[u] = 0 /\ ~Expected(u)}
FaultsCostOneProfileEach == Cardinality(Lost) <= faults

(* The group's offset never goes back, so a commit that is late cannot     *)
(* make later consumers repeat what earlier ones finished.                 *)
OffsetNeverGoesBack == [][committed' >= committed]_vars

Delivery == INSTANCE EventDelivery WITH
    Events <- Users, log <- topic, given <- handled, done <- committed, cut <- cuts

(* Whatever stops, crashes or loses the partition, each step is one of the *)
(* delivery's or none: for the first time events are handled in the order  *)
(* they were sent, by pods that have lost the partition too, and no step   *)
(* both handles and settles.                                               *)
RefinesDelivery == Delivery!Spec

(* Unless a database or the broker failed, or auth-service died between    *)
(* its INSERT and its message, every account comes to have a profile, even *)
(* when consumers crash, are cut off or lose the partition.                *)
ProfileFollowsAccount ==
    \A u \in Users : u \in accounts ~> (profiles[u] > 0 \/ faults > 0)
=============================================================================
