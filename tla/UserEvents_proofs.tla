-------------------------- MODULE UserEvents_proofs --------------------------
(***************************************************************************)
(* The safety properties of UserEvents, for any number of registrations,   *)
(* users and pods and any bounds on what fails.                            *)
(***************************************************************************)
EXTENDS UserEvents, SequenceTheorems, FiniteSetTheorems, TLAPS

(***************************************************************************)
(* The inductive invariant                                                 *)
(***************************************************************************)
(* How far the consumer of pod k is through the partition: the events up   *)
(* to here have been given to the table.                                   *)
Progress(k) == IF loop[k] = "handle" THEN position[k] - 1 ELSE position[k]
Done(n) == \A i \in 1 .. n : handled[i] > 0

PodOK(k) ==
    /\ loop[k] \in {"handle", "commit"} => position[k] > 0
    /\ owner = k =>
          /\ loop[k] # "down"
          /\ committed <= Progress(k) /\ Done(Progress(k))
          /\ sent[k] # 0 => committed <= sent[k] /\ sent[k] <= Progress(k)

(* The group's offset, the progress of the partition's owner and the       *)
(* commit it has under way are in this order, and all is handled up to     *)
(* them.                                                                   *)
GroupOK == Done(committed) /\ \A k \in Pods : PodOK(k)

(* What is published, or about to be, is about a registered account.       *)
AccountsOK ==
    /\ \A p \in Requests : stage[p] = "publish" => email[p] \in accounts
    /\ \A i \in 1 .. Len(topic) : topic[i] \in accounts
    /\ ProfilesOfAccounts

(* Event i may be handled once more by a pod that has lost the partition   *)
(* since it took the event.  Each of them has been paid for by a cut.      *)
Strays(i) == {k \in Pods : loop[k] = "handle" /\ position[k] = i /\ owner # k}
Line == IF owner = NoPod THEN committed ELSE Progress(owner)
Paid(i) ==
    handled[i] + Cardinality(Strays(i)) <= cuts + (IF i <= Line THEN 1 ELSE 0)
CutsPay == \A i \in 1 .. Len(topic) : Paid(i)

IInv == TypeOK /\ GroupOK /\ AccountsOK /\ CutsPay

(***************************************************************************)
(* Typing                                                                  *)
(***************************************************************************)

(* What a registration appends to the topic, at most two events about one  *)
(* address: the old entries stay and the new ones are not handled yet.     *)
LEMMA Appended ==
    ASSUME TypeOK, NEW events \in Seq(Users), Arrives(events)
    PROVE  /\ topic' \in Seq(Users) /\ handled' \in Seq(Nat)
           /\ Len(topic') = Len(topic) + Len(events)
           /\ Len(handled') = Len(topic')
           /\ \A i \in 1 .. Len(topic) : topic'[i] = topic[i] /\ handled'[i] = handled[i]
           /\ \A i \in Len(topic) + 1 .. Len(topic') :
                 topic'[i] = events[i - Len(topic)] /\ handled'[i] = 0
<1> DEFINE zeros == [i \in DOMAIN events |-> 0]
<1>1. zeros \in Seq(Nat) /\ Len(zeros) = Len(events)
  <2>1. DOMAIN events = 1 .. Len(events) /\ Len(events) \in Nat
    BY LenProperties
  <2> QED BY <2>1
<1>2. topic \in Seq(Users) /\ handled \in Seq(Nat) /\ Len(handled) = Len(topic)
  BY DEF TypeOK
<1>3. topic' = topic \o events /\ handled' = handled \o zeros
  BY DEF Arrives
<1>4. /\ topic' \in Seq(Users)
      /\ Len(topic') = Len(topic) + Len(events)
      /\ \A i \in 1 .. Len(topic) + Len(events) :
            topic'[i] = IF i <= Len(topic) THEN topic[i] ELSE events[i - Len(topic)]
  BY <1>2, <1>3, ConcatProperties, Zenon
<1>5. /\ handled' \in Seq(Nat)
      /\ Len(handled') = Len(topic) + Len(zeros)
      /\ \A i \in 1 .. Len(topic) + Len(zeros) :
            handled'[i] = IF i <= Len(topic) THEN handled[i] ELSE zeros[i - Len(topic)]
  <2> HIDE DEF zeros
  <2>1. /\ handled \o zeros \in Seq(Nat)
        /\ Len(handled \o zeros) = Len(handled) + Len(zeros)
        /\ \A i \in 1 .. Len(handled) + Len(zeros) :
              (handled \o zeros)[i] = IF i <= Len(handled) THEN handled[i]
                                      ELSE zeros[i - Len(handled)]
    BY <1>1, <1>2, ConcatProperties, Zenon
  <2> QED BY <1>2, <1>3, <2>1
<1>6. \A i \in 1 .. Len(events) : zeros[i] = 0
  BY LenProperties
<1>7. Len(topic) \in Nat /\ Len(events) \in Nat
  BY <1>2, LenProperties
<1> HIDE DEF zeros
<1>8. Len(handled') = Len(topic')
  BY <1>1, <1>4, <1>5
<1>9. ASSUME NEW i \in 1 .. Len(topic)
      PROVE  topic'[i] = topic[i] /\ handled'[i] = handled[i]
  BY <1>1, <1>4, <1>5, <1>7
<1>10. ASSUME NEW i \in Len(topic) + 1 .. Len(topic')
       PROVE  topic'[i] = events[i - Len(topic)] /\ handled'[i] = 0
  <2>1. i \in 1 .. Len(topic) + Len(events) /\ ~(i <= Len(topic)) /\ i - Len(topic) \in 1 .. Len(events)
    BY <1>4, <1>7
  <2> QED BY <1>1, <1>4, <1>5, <1>6, <2>1
<1> QED BY <1>4, <1>5, <1>8, <1>9, <1>10

(* The three outcomes of a send.                                           *)
LEMMA PublishArrives ==
    ASSUME TypeOK, NEW p \in Requests, Publish(p)
    PROVE  \E events \in Seq(Users) :
              Arrives(events) /\ \A i \in 1 .. Len(events) : events[i] = email[p]
<1>1. email[p] \in Users BY DEF TypeOK
<1>2. <<email[p]>> \in Seq(Users) /\ <<email[p], email[p]>> \in Seq(Users) /\ <<>> \in Seq(Users)
  BY <1>1
<1>3. PICK events \in {<<>>, <<email[p]>>, <<email[p], email[p]>>} : Arrives(events)
  BY DEF Publish
<1>4. \A i \in 1 .. Len(events) : events[i] = email[p]
  BY <1>3
<1> QED BY <1>2, <1>3, <1>4

(* Every step leaves every variable in its type.                           *)
LEMMA TypeInit == Init => TypeOK
BY EventsAssumption DEF Init, TypeOK

LEMMA CountedFaults == ASSUME TypeOK, Calm \/ Fault PROVE faults' \in 0 .. MaxFaults
BY EventsAssumption DEF TypeOK, Calm, Fault

LEMMA GoneTyped ==
    ASSUME TypeOK, NEW k \in Pods, Gone(k)
    PROVE  /\ owner' \in Pods \cup {NoPod} /\ stopping' \subseteq Pods
           /\ loop' \in [Pods -> {"down", "poll", "handle", "commit"}]
           /\ sent' \in [Pods -> 0 .. Len(topic)]
<1>1. Len(topic) \in Nat BY LenProperties DEF TypeOK
<1> QED BY <1>1 DEF Gone, NextIn, TypeOK

LEMMA TypeStep == TypeOK /\ [Next]_vars => TypeOK'
<1> SUFFICES ASSUME TypeOK, [Next]_vars PROVE TypeOK'
  OBVIOUS
<1> USE EventsAssumption
<1>0. Len(topic) \in Nat /\ topic \in Seq(Users)
  BY LenProperties DEF TypeOK
<1>1. ASSUME NEW p \in Requests, RegisterAccount(p) PROVE TypeOK'
  <2>1. faults' \in 0 .. MaxFaults
    BY <1>1, CountedFaults DEF RegisterAccount
  <2>2. accounts' \subseteq Users
    BY <1>1 DEF RegisterAccount, TypeOK
  <2>4. stage' \in [Requests -> {"insert", "publish", "registered", "done"}]
    <3>1. \E label \in {"publish", "done"} : stage' = [stage EXCEPT ![p] = label]
      BY <1>1 DEF RegisterAccount, At
    <3> QED BY <3>1 DEF TypeOK
  <2>3. UNCHANGED <<email, topic, committed, owner, loop, stopping, position, sent, profiles,
                    handled, stops, cuts>>
    BY <1>1 DEF RegisterAccount, consumer
  <2> QED BY <2>1, <2>2, <2>3, <2>4 DEF TypeOK
<1>2. ASSUME NEW p \in Requests, Publish(p) PROVE TypeOK'
  <2>1. PICK events \in Seq(Users) : Arrives(events)
    BY <1>2, PublishArrives
  <2>2. /\ topic' \in Seq(Users) /\ handled' \in Seq(Nat) /\ Len(handled') = Len(topic')
        /\ Len(topic') = Len(topic) + Len(events) /\ Len(events) \in Nat
    BY <2>1, Appended, LenProperties
  <2>3. 0 .. Len(topic) \subseteq 0 .. Len(topic')
    BY <1>0, <2>2
  <2>4. /\ UNCHANGED <<accounts, email, committed, owner, loop, stopping, position, sent,
                       profiles, stops, cuts>>
        /\ stage' = [stage EXCEPT ![p] = "registered"]
        /\ faults' = faults \/ (faults < MaxFaults /\ faults' = faults + 1)
    BY <1>2 DEF Publish, At, Calm, Fault, consumer
  <2>5. committed' \in 0 .. Len(topic')
    BY <2>3, <2>4 DEF TypeOK
  <2>6. position' \in [Pods -> 0 .. Len(topic')]
    BY <2>3, <2>4 DEF TypeOK
  <2>7. sent' \in [Pods -> 0 .. Len(topic')]
    BY <2>3, <2>4 DEF TypeOK
  <2>8. stage' \in [Requests -> {"insert", "publish", "registered", "done"}]
    BY <2>4 DEF TypeOK
  <2>9. faults' \in 0 .. MaxFaults
    BY <2>4 DEF TypeOK
  <2>10. UNCHANGED <<accounts, email, owner, loop, stopping, profiles, stops, cuts>>
    BY <2>4
  <2> QED BY <2>2, <2>5, <2>6, <2>7, <2>8, <2>9, <2>10 DEF TypeOK
<1>3. ASSUME NEW p \in Requests, Abandon(p) PROVE TypeOK'
  BY <1>3 DEF Abandon, At, Fault, consumer, TypeOK
<1>4. ASSUME NEW k \in Pods, Start(k) PROVE TypeOK'
  BY <1>4 DEF Start, NextIn, producer, TypeOK
<1>5. ASSUME NEW k \in Pods, Assign(k), UNCHANGED <<stops, cuts>> \/ (Stop /\ cuts' = cuts + 1)
      PROVE  TypeOK'
  <2>1. owner' = k /\ UNCHANGED <<producer, topic, committed, loop, stopping, profiles, handled, faults>>
    BY <1>5 DEF Assign
  <2>2. position' \in [Pods -> 0 .. Len(topic)] /\ sent' \in [Pods -> 0 .. Len(topic)]
    BY <1>0, <1>5 DEF Assign, Resume, TypeOK
  <2>3. stops' \in 0 .. MaxStops /\ cuts' \in Nat
    BY <1>5 DEF Stop, TypeOK
  <2> QED BY <2>1, <2>2, <2>3 DEF producer, TypeOK
<1>6. ASSUME NEW k \in Pods, Poll(k) PROVE TypeOK'
  <2>1. UNCHANGED <<producer, topic, committed, owner, stopping, sent, profiles, handled,
                    stops, faults, cuts>>
    BY <1>6 DEF Poll
  <2>2. position' \in [Pods -> 0 .. Len(topic)]
    <3>1. position[k] \in 0 .. Len(topic) /\ position[k] < Len(topic)
      BY <1>6 DEF Poll, TypeOK
    <3>2. position' = [position EXCEPT ![k] = position[k] + 1]
      BY <1>6 DEF Poll
    <3>3. position[k] + 1 \in 0 .. Len(topic)
      BY <1>0, <3>1
    <3>4. position \in [Pods -> 0 .. Len(topic)]
      BY DEF TypeOK
    <3> QED BY <3>2, <3>3, <3>4
  <2>3. loop' \in [Pods -> {"down", "poll", "handle", "commit"}]
    BY <1>6 DEF Poll, NextIn, TypeOK
  <2> QED BY <2>1, <2>2, <2>3 DEF producer, TypeOK
<1>7. ASSUME NEW k \in Pods, HandleMessage(k) PROVE TypeOK'
  <2>1. handled' = [handled EXCEPT ![position[k]] = @ + 1]
    BY <1>7 DEF HandleMessage
  <2>2. handled' \in Seq(Nat) /\ Len(handled') = Len(handled)
    <3> DEFINE i == position[k]
    <3>1. handled \in Seq(Nat) /\ handled \in [1 .. Len(handled) -> Nat]
      BY LenProperties DEF TypeOK
    <3>2. handled' = [handled EXCEPT ![i] = handled[i] + 1]
      BY <2>1
    <3> HIDE DEF i
    <3>3. CASE i \in 1 .. Len(handled)
      <4>1. handled[i] + 1 \in Nat
        BY <3>1, <3>3
      <4> QED BY <3>1, <3>2, <3>3, <4>1, ExceptSeq
    <3>4. CASE i \notin 1 .. Len(handled)
      <4>1. handled' = handled
        BY <3>1, <3>2, <3>4
      <4> QED BY <3>1, <4>1
    <3> QED BY <3>3, <3>4
  <2>3. profiles' \in [Users -> Nat]
    <3> DEFINE address == topic[position[k]]
    <3>1. profiles \in [Users -> Nat]
      BY DEF TypeOK
    <3>2. profiles' = [profiles EXCEPT ![address] = @ + 1] \/ profiles' = profiles
      BY <1>7 DEF HandleMessage
    <3> HIDE DEF address
    <3> QED BY <3>1, <3>2
  <2>4. faults' \in 0 .. MaxFaults
    BY <1>7, CountedFaults DEF HandleMessage
  <2>5. loop' \in [Pods -> {"down", "poll", "handle", "commit"}]
    BY <1>7 DEF HandleMessage, NextIn, TypeOK
  <2>6. UNCHANGED <<accounts, email, stage, topic, committed, owner, stopping, position, sent,
                    stops, cuts>>
    BY <1>7 DEF HandleMessage, producer
  <2> QED BY <2>2, <2>3, <2>4, <2>5, <2>6 DEF TypeOK
<1>8. ASSUME NEW k \in Pods, CommitMessage(k) PROVE TypeOK'
  <2>1. faults' \in 0 .. MaxFaults
    BY <1>8, CountedFaults DEF CommitMessage
  <2>2. sent' \in [Pods -> 0 .. Len(topic)]
    BY <1>8 DEF CommitMessage, TypeOK
  <2> QED BY <1>8, <2>1, <2>2 DEF CommitMessage, NextIn, producer, TypeOK
<1>9. ASSUME NEW k \in Pods, CommitArrives(k) PROVE TypeOK'
  BY <1>0, <1>9 DEF CommitArrives, producer, TypeOK
<1>10. ASSUME NEW k \in Pods, Shutdown(k) PROVE TypeOK'
  <2>1. UNCHANGED <<producer, topic, position, profiles, handled, stops>>
    BY <1>10 DEF Shutdown
  <2>2. committed' \in 0 .. Len(topic)
    BY <1>0, <1>10 DEF Shutdown, TypeOK
  <2>3. faults' \in 0 .. MaxFaults /\ cuts' \in Nat
    BY <1>10 DEF Shutdown, Calm, Fault, TypeOK
  <2>4. Gone(k)
    BY <1>10 DEF Shutdown
  <2> QED BY <2>1, <2>2, <2>3, <2>4, GoneTyped DEF producer, TypeOK
<1>11. ASSUME NEW k \in Pods, Terminate(k) PROVE TypeOK'
  BY <1>11 DEF Terminate, Stop, producer, TypeOK
<1>12. ASSUME NEW k \in Pods, ExitEarly(k) PROVE TypeOK'
  BY SMTT(40), <1>12, GoneTyped DEF ExitEarly, producer, TypeOK
<1>13. ASSUME NEW k \in Pods, Crash(k) PROVE TypeOK'
  BY SMTT(40), <1>13, GoneTyped DEF Crash, Stop, producer, TypeOK
<1>14. CASE UNCHANGED vars
  BY <1>14 DEF vars, TypeOK
<1> QED
  BY <1>1, <1>2, <1>3, <1>4, <1>5, <1>6, <1>7, <1>8, <1>9, <1>10, <1>11, <1>12, <1>13, <1>14
  DEF Next, Serve, Consume, Join, Rebalance

(***************************************************************************)
(* The group's offset                                                      *)
(***************************************************************************)

(* What a pod has behind it is part of the topic.                          *)
LEMMA ProgressBound ==
    ASSUME TypeOK, NEW k \in Pods, PodOK(k)
    PROVE  /\ Progress(k) \in 0 .. Len(topic)
           /\ position[k] \in 0 .. Len(topic) /\ sent[k] \in 0 .. Len(topic)
           /\ committed \in 0 .. Len(topic) /\ Len(topic) \in Nat
<1>1. Len(topic) \in Nat /\ position[k] \in 0 .. Len(topic) /\ committed \in 0 .. Len(topic)
      /\ sent[k] \in 0 .. Len(topic)
  BY LenProperties DEF TypeOK
<1> QED BY <1>1 DEF Progress, PodOK

(* Steps of the producer, and of the consumers when they only handle: what *)
(* has been handled stays handled.                                         *)
LEMMA GroupFrame ==
    ASSUME TypeOK, GroupOK, UNCHANGED <<committed, owner, loop, position, sent>>,
           \A i \in 1 .. Len(topic) : handled'[i] \in Nat /\ handled'[i] >= handled[i]
    PROVE  GroupOK'
<1>1. ASSUME NEW n \in 0 .. Len(topic), Done(n) PROVE Done(n)'
  <2>1. handled \in [1 .. Len(topic) -> Nat] /\ Len(topic) \in Nat
    BY LenProperties DEF TypeOK
  <2> SUFFICES ASSUME NEW i \in 1 .. n PROVE handled'[i] > 0
    BY DEF Done
  <2>2. i \in 1 .. Len(topic)
    BY <2>1
  <2>3. handled[i] > 0 /\ handled'[i] >= handled[i] /\ handled[i] \in Nat /\ handled'[i] \in Nat
    BY <1>1, <2>1, <2>2 DEF Done
  <2> QED BY <2>3
<1>2. Done(committed)'
  BY <1>1 DEF GroupOK, TypeOK, Done
<1>3. ASSUME NEW k \in Pods PROVE PodOK(k)'
  BY <1>1, ProgressBound DEF GroupOK, PodOK, Progress, Done
<1> QED BY <1>2, <1>3 DEF GroupOK

LEMMA GroupInit == Init => GroupOK
<1> SUFFICES ASSUME Init PROVE GroupOK
  OBVIOUS
<1>1. Done(committed) BY DEF Init, Done
<1>2. ASSUME NEW k \in Pods PROVE PodOK(k)
  BY EventsAssumption DEF Init, PodOK
<1> QED BY <1>1, <1>2 DEF GroupOK

(* Every step keeps the order of the offsets.                              *)
LEMMA GroupStep == TypeOK /\ GroupOK /\ [Next]_vars => GroupOK'
<1> SUFFICES ASSUME TypeOK, GroupOK, [Next]_vars PROVE GroupOK'
  OBVIOUS
<1> USE EventsAssumption
<1>0. /\ Len(topic) \in Nat /\ handled \in Seq(Nat) /\ handled \in [1 .. Len(topic) -> Nat]
      /\ committed \in 0 .. Len(topic) /\ Done(committed)
      /\ \A k \in Pods : PodOK(k) /\ Progress(k) \in 0 .. Len(topic)
            /\ position[k] \in 0 .. Len(topic) /\ sent[k] \in 0 .. Len(topic)
  BY LenProperties, ProgressBound DEF TypeOK, GroupOK
<1>q. ASSUME UNCHANGED <<committed, owner, loop, position, sent, handled>> PROVE GroupOK'
  BY <1>0, <1>q, GroupFrame
<1>1. ASSUME NEW p \in Requests, RegisterAccount(p) PROVE GroupOK'
  BY <1>1, <1>q DEF RegisterAccount, consumer
<1>2. ASSUME NEW p \in Requests, Publish(p) PROVE GroupOK'
  <2>1. PICK events \in Seq(Users) : Arrives(events)
    BY <1>2, PublishArrives
  <2>2. handled' \in Seq(Nat) /\ \A i \in 1 .. Len(topic) : handled'[i] = handled[i]
    BY <2>1, Appended
  <2>3. \A i \in 1 .. Len(topic) : handled'[i] \in Nat /\ handled'[i] >= handled[i]
    BY <1>0, <2>2
  <2> QED BY <1>2, <2>2, <2>3, GroupFrame DEF Publish, consumer
<1>3. ASSUME NEW p \in Requests, Abandon(p) PROVE GroupOK'
  BY <1>3, <1>q DEF Abandon, consumer
<1>4. ASSUME NEW k \in Pods, Start(k) PROVE GroupOK'
  <2>1. ASSUME NEW j \in Pods PROVE PodOK(j)'
    BY <1>0, <1>4 DEF Start, Up, NextIn, PodOK, Progress, Done, TypeOK
  <2> QED BY <1>0, <1>4, <2>1 DEF Start, GroupOK, Done
<1>5. ASSUME NEW k \in Pods, Assign(k) PROVE GroupOK'
  <2>1. ASSUME NEW j \in Pods PROVE PodOK(j)'
    <3>1. /\ loop[k] = "poll" /\ owner' = k /\ sent' = [i \in Pods |-> 0]
          /\ position' = [position EXCEPT ![k] = committed]
          /\ UNCHANGED <<committed, loop, handled>>
      BY <1>5 DEF Assign, Resume
    <3>2. CASE j = k
      <4>1. Progress(k)' = committed /\ position'[k] = committed
        BY <3>1 DEF Progress, TypeOK
      <4>2. Done(committed)' /\ Done(Progress(k))'
        BY <1>0, <3>1, <4>1 DEF Done
      <4> QED BY <1>0, <3>1, <3>2, <4>1, <4>2 DEF PodOK
    <3>3. CASE j # k
      <4>1. position'[j] = position[j]
        BY <3>1, <3>3 DEF TypeOK
      <4> QED BY <1>0, <3>1, <3>3, <4>1 DEF PodOK
    <3> QED BY <3>2, <3>3
  <2> QED BY <1>0, <1>5, <2>1 DEF Assign, GroupOK, Done
<1>6. ASSUME NEW k \in Pods, Poll(k) PROVE GroupOK'
  <2>1. ASSUME NEW j \in Pods PROVE PodOK(j)'
    <3>1. /\ loop[k] = "poll" /\ loop' = [loop EXCEPT ![k] = "handle"]
          /\ position' = [position EXCEPT ![k] = position[k] + 1]
          /\ UNCHANGED <<committed, owner, sent, handled>>
      BY <1>6 DEF Poll, NextIn
    <3>2. Progress(j)' = Progress(j)
      BY <1>0, <3>1 DEF Progress, TypeOK
    <3>3. Done(Progress(j)) => Done(Progress(j))'
      BY <3>1, <3>2 DEF Done
    <3>4. loop'[j] \in {"handle", "commit"} => position'[j] > 0
      BY <1>0, <3>1 DEF PodOK, TypeOK
    <3>5. loop[j] # "down" => loop'[j] # "down"
      BY <3>1 DEF TypeOK
    <3> QED BY <1>0, <3>1, <3>2, <3>3, <3>4, <3>5 DEF PodOK
  <2> QED BY <1>0, <1>6, <2>1 DEF Poll, GroupOK, Done
<1>7. ASSUME NEW k \in Pods, HandleMessage(k) PROVE GroupOK'
  <2>1. /\ handled' = [handled EXCEPT ![position[k]] = @ + 1]
        /\ loop[k] = "handle" /\ loop' = [loop EXCEPT ![k] = "commit"]
        /\ UNCHANGED <<committed, owner, position, sent>>
    BY <1>7 DEF HandleMessage, NextIn
  <2>2. position[k] \in 1 .. Len(topic)
    BY <1>0, <2>1 DEF PodOK
  <2>3. /\ \A i \in 1 .. Len(topic) : handled'[i] >= handled[i] /\ handled'[i] \in Nat
        /\ handled'[position[k]] > 0
    BY SMTT(40), <1>0, <2>1, <2>2
  <2>4. ASSUME NEW n \in 0 .. Len(topic), Done(n) PROVE Done(n)'
    <3> SUFFICES ASSUME NEW i \in 1 .. n PROVE handled'[i] > 0
      BY DEF Done
    <3> QED BY <1>0, <2>3, <2>4 DEF Done
  <2>5. ASSUME NEW j \in Pods PROVE PodOK(j)'
    <3>1. CASE j # k
      <4>1. Progress(j)' = Progress(j) /\ loop'[j] = loop[j]
        BY <2>1, <3>1 DEF Progress, TypeOK
      <4>2. Done(Progress(j)) => Done(Progress(j))'
        BY <1>0, <2>4, <4>1 DEF Done
      <4> QED BY <1>0, <2>1, <4>1, <4>2 DEF PodOK
    <3>2. CASE j = k
      <4>1. Progress(k) = position[k] - 1 /\ Progress(k)' = position[k] /\ loop'[k] = "commit"
        BY <2>1 DEF Progress, TypeOK
      <4>2. Done(Progress(k)) => Done(Progress(k))'
        <5> SUFFICES ASSUME Done(Progress(k)), NEW i \in 1 .. position[k] PROVE handled'[i] > 0
          BY <2>1, <4>1 DEF Done
        <5>1. CASE i = position[k]
          BY <2>3, <5>1
        <5>2. CASE i # position[k]
          <6>1. i \in 1 .. Progress(k) /\ i \in 1 .. Len(topic)
            BY SMTT(40), <1>0, <2>2, <4>1, <5>2
          <6>2. handled[i] > 0 /\ handled[i] \in Nat
            BY <1>0, <6>1 DEF Done
          <6> QED BY <2>3, <6>1, <6>2
        <5> QED BY <5>1, <5>2
      <4> QED BY SMTT(40), <1>0, <2>1, <2>2, <3>2, <4>1, <4>2 DEF PodOK
    <3> QED BY <3>1, <3>2
  <2>6. Done(committed)'
    BY <1>0, <2>1, <2>4 DEF Done
  <2> QED BY <2>5, <2>6 DEF GroupOK
<1>8. ASSUME NEW k \in Pods, CommitMessage(k) PROVE GroupOK'
  <2>1. ASSUME NEW j \in Pods PROVE PodOK(j)'
    <3>1. /\ loop[k] = "commit" /\ loop' = [loop EXCEPT ![k] = "poll"]
          /\ sent' \in {sent, [sent EXCEPT ![k] = position[k]]}
          /\ UNCHANGED <<committed, owner, position, handled>>
      BY <1>8 DEF CommitMessage, NextIn
    <3>2. Progress(j)' = Progress(j)
      BY <3>1 DEF Progress, TypeOK
    <3>3. Done(Progress(j)) => Done(Progress(j))'
      BY <3>1, <3>2 DEF Done
    <3>4. CASE j # k
      <4>1. loop'[j] = loop[j] /\ sent'[j] = sent[j]
        BY <3>1, <3>4 DEF TypeOK
      <4> QED BY <1>0, <3>1, <3>2, <3>3, <4>1 DEF PodOK
    <3>5. CASE j = k
      <4>1. Progress(k) = position[k]
        BY <3>1 DEF Progress
      <4>2. loop'[k] = "poll" /\ sent'[k] \in {sent[k], position[k]}
        BY <3>1 DEF TypeOK
      <4> QED BY <1>0, <3>1, <3>2, <3>3, <3>5, <4>1, <4>2 DEF PodOK
    <3> QED BY <3>4, <3>5
  <2> QED BY <1>0, <1>8, <2>1 DEF CommitMessage, GroupOK, Done
<1>9. ASSUME NEW k \in Pods, CommitArrives(k) PROVE GroupOK'
  <2>1. ASSUME NEW j \in Pods PROVE PodOK(j)'
    <3>1. /\ sent' = [sent EXCEPT ![k] = 0] /\ sent[k] # 0
          /\ committed' = IF owner = k THEN sent[k] ELSE committed
          /\ UNCHANGED <<owner, loop, position, handled>>
      BY <1>9 DEF CommitArrives
    <3>2. Progress(j)' = Progress(j)
      BY <3>1 DEF Progress
    <3>3. Done(Progress(j)) => Done(Progress(j))'
      BY <3>1, <3>2 DEF Done
    <3>4. CASE j # k
      <4>1. sent'[j] = sent[j] /\ (owner = j => committed' = committed)
        BY <3>1, <3>4 DEF TypeOK
      <4> QED BY <1>0, <3>1, <3>2, <3>3, <4>1 DEF PodOK
    <3>5. CASE j = k
      <4>1. sent'[k] = 0 /\ (owner = k => committed' <= Progress(k))
        BY <1>0, <3>1 DEF PodOK, TypeOK
      <4> QED BY <1>0, <3>1, <3>2, <3>3, <3>5, <4>1 DEF PodOK
    <3> QED BY <3>4, <3>5
  <2>2. Done(committed)'
    BY <1>0, <1>9 DEF CommitArrives, PodOK, Done
  <2> QED BY <2>1, <2>2 DEF GroupOK
<1>10. ASSUME NEW k \in Pods, Shutdown(k) PROVE GroupOK'
  <2>1. ASSUME NEW j \in Pods PROVE PodOK(j)'
    BY <1>0, <1>10 DEF Shutdown, Gone, NextIn, PodOK, Progress, Done, TypeOK
  <2>2. Done(committed)'
    BY <1>0, <1>10 DEF Shutdown, PodOK, Progress, Done
  <2> QED BY <2>1, <2>2 DEF GroupOK
<1>11. ASSUME NEW k \in Pods, Terminate(k) PROVE GroupOK'
  BY <1>11, <1>q DEF Terminate
<1>12. ASSUME NEW k \in Pods, Gone(k), UNCHANGED <<committed, position, handled>> PROVE GroupOK'
  <2>1. ASSUME NEW j \in Pods PROVE PodOK(j)'
    BY <1>0, <1>12 DEF Gone, NextIn, PodOK, Progress, Done, TypeOK
  <2> QED BY <1>0, <1>12, <2>1 DEF GroupOK, Done
<1>13. CASE UNCHANGED vars
  BY <1>13, <1>q DEF vars
<1> QED
  BY <1>1, <1>2, <1>3, <1>4, <1>5, <1>6, <1>7, <1>8, <1>9, <1>10, <1>11, <1>12, <1>13
  DEF Next, Serve, Consume, Join, Rebalance, ExitEarly, Crash

(***************************************************************************)
(* Profiles                                                                *)
(***************************************************************************)
LEMMA AccountsInit == Init => AccountsOK
BY DEF Init, AccountsOK, ProfilesOfAccounts

(* Events are published after the account, and profiles made from events.  *)
LEMMA AccountsStep ==
    TypeOK /\ GroupOK /\ AccountsOK /\ [Next]_vars => AccountsOK'
<1> SUFFICES ASSUME TypeOK, GroupOK, AccountsOK, [Next]_vars PROVE AccountsOK'
  OBVIOUS
<1>q. ASSUME UNCHANGED <<producer, topic, profiles>> PROVE AccountsOK'
  BY <1>q DEF AccountsOK, ProfilesOfAccounts, producer
<1>1. ASSUME NEW p \in Requests, RegisterAccount(p) PROVE AccountsOK'
  <2>1. /\ accounts \subseteq accounts' /\ UNCHANGED <<email, topic, profiles>>
        /\ \E label \in {"publish", "done"} :
              /\ stage' = [stage EXCEPT ![p] = label]
              /\ label = "publish" => email[p] \in accounts'
    BY <1>1 DEF RegisterAccount, At
  <2>2. \A q \in Requests : stage'[q] = "publish" => email'[q] \in accounts'
    BY <2>1 DEF AccountsOK, TypeOK
  <2> QED BY <2>1, <2>2 DEF AccountsOK, ProfilesOfAccounts
<1>2. ASSUME NEW p \in Requests, Publish(p) PROVE AccountsOK'
  <2>1. PICK events \in Seq(Users) :
           Arrives(events) /\ \A i \in 1 .. Len(events) : events[i] = email[p]
    BY <1>2, PublishArrives
  <2>2. UNCHANGED <<accounts, email, profiles>> /\ stage' = [stage EXCEPT ![p] = "registered"]
        /\ email[p] \in accounts
    BY <1>2 DEF Publish, At, AccountsOK
  <2>3. ASSUME NEW i \in 1 .. Len(topic') PROVE topic'[i] \in accounts'
    <3>1. /\ Len(topic') = Len(topic) + Len(events)
          /\ Len(topic) \in Nat /\ Len(events) \in Nat
          /\ \A j \in 1 .. Len(topic) : topic'[j] = topic[j]
          /\ \A j \in Len(topic) + 1 .. Len(topic') : topic'[j] = events[j - Len(topic)]
      BY <2>1, Appended, LenProperties DEF TypeOK
    <3>2. CASE i \in 1 .. Len(topic)
      BY <2>2, <3>1, <3>2 DEF AccountsOK
    <3>3. CASE i \in Len(topic) + 1 .. Len(topic')
      <4>1. i - Len(topic) \in 1 .. Len(events)
        BY <3>1, <3>3
      <4> QED BY <2>1, <2>2, <3>1, <3>3, <4>1
    <3> QED BY <3>1, <3>2, <3>3
  <2> QED BY <2>2, <2>3 DEF AccountsOK, ProfilesOfAccounts, TypeOK
<1>3. ASSUME NEW p \in Requests, Abandon(p) PROVE AccountsOK'
  BY <1>3 DEF Abandon, At, AccountsOK, ProfilesOfAccounts, TypeOK
<1>4. ASSUME NEW k \in Pods, HandleMessage(k) PROVE AccountsOK'
  <2> DEFINE address == topic[position[k]]
  <2>1. address \in accounts
    BY <1>4, LenProperties DEF HandleMessage, GroupOK, PodOK, AccountsOK, TypeOK
  <2>2. profiles \in [Users -> Nat] /\ accounts \subseteq Users
    BY DEF TypeOK
  <2>3. profiles' = [profiles EXCEPT ![address] = @ + 1] \/ profiles' = profiles
    BY <1>4 DEF HandleMessage
  <2>4. UNCHANGED <<accounts, email, stage, topic>>
    BY <1>4 DEF HandleMessage, producer
  <2> HIDE DEF address
  <2>5. \A u \in Users : profiles'[u] > 0 => u \in accounts
    BY <2>1, <2>2, <2>3 DEF AccountsOK, ProfilesOfAccounts
  <2> QED BY <2>4, <2>5 DEF AccountsOK, ProfilesOfAccounts
<1>5. CASE UNCHANGED vars
  BY <1>5, <1>q DEF vars, producer
<1> QED
  BY <1>1, <1>2, <1>3, <1>4, <1>5, <1>q
  DEF Next, Serve, Consume, Start, Join, Rebalance, Assign, Poll, CommitMessage,
      CommitArrives, Shutdown, Terminate, ExitEarly, Crash

(***************************************************************************)
(* Repetition                                                              *)
(***************************************************************************)

(* The strays of an event are finitely many.                               *)
LEMMA StraysCounted ==
    ASSUME NEW i
    PROVE  IsFiniteSet(Strays(i)) /\ Cardinality(Strays(i)) \in Nat
<1>1. IsFiniteSet(Strays(i))
  BY EventsAssumption, FS_Subset DEF Strays
<1> QED BY <1>1, FS_CardinalityType

LEMMA OneStrayMore ==
    ASSUME NEW i, NEW k \in Pods, Strays(i)' \subseteq Strays(i) \cup {k}
    PROVE  /\ Cardinality(Strays(i)') \in Nat
           /\ Cardinality(Strays(i)') <= Cardinality(Strays(i)) + 1
<1>1. IsFiniteSet(Strays(i)) /\ Cardinality(Strays(i)) \in Nat
  BY StraysCounted
<1>2. /\ IsFiniteSet(Strays(i) \cup {k})
      /\ Cardinality(Strays(i) \cup {k}) \in Nat
      /\ Cardinality(Strays(i) \cup {k}) <= Cardinality(Strays(i)) + 1
  BY <1>1, FS_AddElement, FS_CardinalityType
<1>3. IsFiniteSet(Strays(i)') /\ Cardinality(Strays(i)') <= Cardinality(Strays(i) \cup {k})
  BY <1>2, FS_Subset
<1>4. Cardinality(Strays(i)') \in Nat
  BY <1>3, FS_CardinalityType
<1> QED BY <1>1, <1>2, <1>3, <1>4

LEMMA NoStrayMore ==
    ASSUME NEW i, Strays(i)' \subseteq Strays(i)
    PROVE  /\ Cardinality(Strays(i)') \in Nat
           /\ Cardinality(Strays(i)') <= Cardinality(Strays(i))
<1>1. IsFiniteSet(Strays(i)) /\ Cardinality(Strays(i)) \in Nat
  BY StraysCounted
<1>2. IsFiniteSet(Strays(i)') /\ Cardinality(Strays(i)') <= Cardinality(Strays(i))
  BY <1>1, FS_Subset
<1>3. Cardinality(Strays(i)') \in Nat
  BY <1>2, FS_CardinalityType
<1> QED BY <1>2, <1>3

(* What the bounds are about are numbers.                                  *)
LEMMA CutsTyped ==
    ASSUME TypeOK, GroupOK
    PROVE  /\ Line \in 0 .. Len(topic) /\ Len(topic) \in Nat /\ cuts \in Nat
           /\ \A i \in 1 .. Len(topic) : handled[i] \in Nat
<1>1. Len(topic) \in Nat /\ handled \in [1 .. Len(topic) -> Nat] /\ cuts \in Nat
      /\ committed \in 0 .. Len(topic) /\ owner \in Pods \cup {NoPod}
  BY LenProperties DEF TypeOK
<1>2. Line \in 0 .. Len(topic)
  BY <1>1, ProgressBound DEF Line, GroupOK
<1> QED BY <1>1, <1>2

(* An event nobody has handled needs no cut, and the line is a number.     *)
LEMMA NothingPaid ==
    ASSUME NEW n \in Nat, NEW due \in BOOLEAN
    PROVE  0 <= n + (IF due THEN 1 ELSE 0)
OBVIOUS

LEMMA LineTypedNext == ASSUME TypeOK', GroupOK' PROVE Line' \in Nat
<1>1. /\ Len(topic') \in Nat /\ committed' \in Nat /\ owner' \in Pods \cup {NoPod}
      /\ position' \in [Pods -> 0 .. Len(topic')]
      /\ \A k \in Pods : PodOK(k)'
  BY LenProperties DEF TypeOK, GroupOK
<1>2. ASSUME NEW k \in Pods PROVE Progress(k)' \in Nat
  BY <1>1 DEF Progress, PodOK
<1> QED BY <1>1, <1>2 DEF Line

(* A step that handles nothing, makes no stray and either keeps the line   *)
(* or adds a cut leaves an event paid for.                                 *)
LEMMA CutsFrame ==
    ASSUME TypeOK, GroupOK, CutsPay, TypeOK', GroupOK',
           NEW i \in 1 .. Len(topic),
           handled'[i] = handled[i],
           Strays(i)' \subseteq Strays(i),
           \/ cuts' = cuts /\ Line <= Line'
           \/ cuts' = cuts + 1
    PROVE  Paid(i)'
<1>1. /\ handled[i] \in Nat /\ cuts \in Nat /\ Line \in Nat /\ Line' \in Nat
      /\ i \in Nat
  BY CutsTyped, LineTypedNext
<1>2. /\ Cardinality(Strays(i)) \in Nat /\ Cardinality(Strays(i)') \in Nat
      /\ Cardinality(Strays(i)') <= Cardinality(Strays(i))
  BY StraysCounted, NoStrayMore
<1>3. handled[i] + Cardinality(Strays(i)) <= cuts + (IF i <= Line THEN 1 ELSE 0)
  BY DEF CutsPay, Paid
<1>4. handled[i] + Cardinality(Strays(i)') <= cuts' + (IF i <= Line' THEN 1 ELSE 0)
  BY SMTT(40), <1>1, <1>2, <1>3
<1> QED BY <1>4 DEF Paid

LEMMA CutsInit == Init => CutsPay
BY DEF Init, CutsPay

(* Every step is paid for: a cut lets the strays and the new line repeat   *)
(* what is behind them once, and nothing else does.                        *)
LEMMA CutsStep ==
    TypeOK /\ GroupOK /\ CutsPay /\ TypeOK' /\ GroupOK' /\ [Next]_vars => CutsPay'
<1> SUFFICES ASSUME TypeOK, GroupOK, CutsPay, TypeOK', GroupOK', [Next]_vars
             PROVE  CutsPay'
  OBVIOUS
<1> USE EventsAssumption
<1>0. /\ Line \in Nat /\ Line' \in Nat /\ cuts \in Nat /\ Len(topic) \in Nat
      /\ \A k \in Pods : PodOK(k)
      /\ loop \in [Pods -> {"down", "poll", "handle", "commit"}]
      /\ position \in [Pods -> 0 .. Len(topic)]
      /\ owner \in Pods \cup {NoPod}
  <2>1. Line \in Nat /\ Line' \in Nat /\ cuts \in Nat /\ Len(topic) \in Nat
    <3>1. Line \in 0 .. Len(topic) /\ Len(topic) \in Nat /\ cuts \in Nat
      BY CutsTyped
    <3>2. Line' \in Nat
      BY LineTypedNext
    <3> QED BY <3>1, <3>2
  <2> QED BY <2>1 DEF GroupOK, TypeOK
<1>q. ASSUME UNCHANGED <<topic, handled>>,
             \A i \in 1 .. Len(topic) : Strays(i)' \subseteq Strays(i),
             (cuts' = cuts /\ Line <= Line') \/ cuts' = cuts + 1
      PROVE  CutsPay'
  BY <1>q, CutsFrame DEF CutsPay
<1>1. ASSUME UNCHANGED <<topic, handled, committed, owner, loop, position, cuts>> PROVE CutsPay'
  <2>1. Line' = Line
    BY <1>1 DEF Line, Progress
  <2> QED BY <1>0, <1>1, <1>q, <2>1 DEF Strays
<1>2. ASSUME NEW p \in Requests, Publish(p) PROVE CutsPay'
  <2>1. PICK events \in Seq(Users) : Arrives(events)
    BY <1>2, PublishArrives
  <2>2. UNCHANGED <<committed, owner, loop, position, cuts>>
    BY <1>2 DEF Publish, consumer
  <2>3. Line' = Line
    BY <2>2 DEF Line, Progress
  <2>4. ASSUME NEW i \in 1 .. Len(topic) PROVE Paid(i)'
    <3>1. handled'[i] = handled[i]
      BY <2>1, Appended
    <3> QED BY <1>0, <2>2, <2>3, <3>1, CutsFrame DEF Strays
  <2>5. ASSUME NEW i \in Len(topic) + 1 .. Len(topic') PROVE Paid(i)'
    <3>1. handled'[i] = 0
      BY <2>1, Appended
    <3>2. Strays(i)' = {}
      BY <1>0, <2>2, <2>5 DEF Strays
    <3>3. Cardinality(Strays(i)') = 0
      BY <3>2, FS_EmptySet
    <3>4. cuts' \in Nat
      BY DEF TypeOK
    <3>5. i \in Nat
      BY <1>0
    <3>6. handled'[i] + Cardinality(Strays(i)') = 0
      BY <3>1, <3>3
    <3> QED BY <3>4, <3>6, NothingPaid DEF Paid
  <2>6. 1 .. Len(topic') = (1 .. Len(topic)) \cup (Len(topic) + 1 .. Len(topic'))
    <3>1. Len(topic') = Len(topic) + Len(events) /\ Len(events) \in Nat
      BY <2>1, Appended, LenProperties
    <3> QED BY <1>0, <3>1
  <2> QED BY <2>4, <2>5, <2>6 DEF CutsPay
<1>3. ASSUME NEW k \in Pods, Start(k) PROVE CutsPay'
  <2>1. /\ loop' = [loop EXCEPT ![k] = "poll"] /\ loop[k] = "down"
        /\ UNCHANGED <<topic, handled, committed, owner, position, cuts>>
    BY <1>3 DEF Start, Up, NextIn
  <2>2. Line' = Line
    BY <1>0, <2>1 DEF Line, Progress, PodOK
  <2>3. \A i \in 1 .. Len(topic) : Strays(i)' \subseteq Strays(i)
    BY <1>0, <2>1 DEF Strays
  <2> QED BY <1>0, <1>q, <2>1, <2>2, <2>3
<1>4. ASSUME NEW k \in Pods, Join(k) PROVE CutsPay'
  <2>1. /\ owner = NoPod /\ owner' = k /\ loop[k] = "poll"
        /\ position' = [position EXCEPT ![k] = committed]
        /\ UNCHANGED <<topic, handled, committed, loop, cuts>>
    BY <1>4 DEF Join, Assign, Resume
  <2>2. Line' = Line
    BY <1>0, <2>1 DEF Line, Progress
  <2>3. \A i \in 1 .. Len(topic) : Strays(i)' \subseteq Strays(i)
    BY <1>0, <2>1 DEF Strays
  <2> QED BY <1>0, <1>q, <2>1, <2>2, <2>3
<1>5. ASSUME NEW k \in Pods, Rebalance(k) PROVE CutsPay'
  <2>1. /\ owner \in Pods /\ owner # k /\ owner' = k /\ loop[k] = "poll"
        /\ position' = [position EXCEPT ![k] = committed]
        /\ UNCHANGED <<topic, handled, committed, loop>> /\ cuts' = cuts + 1
    BY <1>0, <1>5 DEF Rebalance, Assign, Resume
  <2> SUFFICES ASSUME NEW i \in 1 .. Len(topic) PROVE Paid(i)'
    BY <2>1 DEF CutsPay
  <2>2. Line = Progress(owner)
    BY <1>0, <2>1 DEF Line
  <2>3. CASE i <= Line
    <3>1. Strays(i)' \subseteq Strays(i)
      BY <1>0, <2>1, <2>2, <2>3 DEF Strays, Progress
    <3> QED BY <1>0, <2>1, <3>1, CutsFrame
  <2>4. CASE ~(i <= Line)
    <3>1. Strays(i)' \subseteq Strays(i) \cup {owner}
      BY <1>0, <2>1 DEF Strays
    <3>2. /\ Cardinality(Strays(i)) \in Nat /\ Cardinality(Strays(i)') \in Nat
          /\ Cardinality(Strays(i)') <= Cardinality(Strays(i)) + 1
      BY <2>1, <3>1, StraysCounted, OneStrayMore
    <3>3. handled[i] + Cardinality(Strays(i)) <= cuts /\ handled[i] \in Nat
      BY <1>0, <2>4, StraysCounted, CutsTyped DEF CutsPay, Paid
    <3>4. handled'[i] + Cardinality(Strays(i)') <= cuts'
      BY SMTT(40), <1>0, <2>1, <3>2, <3>3
    <3>5. handled'[i] \in Nat
      BY <2>1, <3>3
    <3> QED BY SMTT(40), <1>0, <2>1, <3>2, <3>4, <3>5 DEF Paid
  <2> QED BY <2>3, <2>4
<1>6. ASSUME NEW k \in Pods, Poll(k) PROVE CutsPay'
  <2>1. /\ owner = k /\ loop[k] = "poll" /\ loop' = [loop EXCEPT ![k] = "handle"]
        /\ position' = [position EXCEPT ![k] = position[k] + 1]
        /\ UNCHANGED <<topic, handled, committed, owner, cuts>>
    BY <1>6 DEF Poll, NextIn
  <2>2. Line' = Line
    BY <1>0, <2>1 DEF Line, Progress
  <2>3. \A i \in 1 .. Len(topic) : Strays(i)' \subseteq Strays(i)
    BY <1>0, <2>1 DEF Strays
  <2> QED BY <1>0, <1>q, <2>1, <2>2, <2>3
<1>7. ASSUME NEW k \in Pods, HandleMessage(k) PROVE CutsPay'
  <2>1. /\ loop[k] = "handle" /\ loop' = [loop EXCEPT ![k] = "commit"]
        /\ handled' = [handled EXCEPT ![position[k]] = @ + 1]
        /\ UNCHANGED <<topic, committed, owner, position, cuts>>
    BY <1>7 DEF HandleMessage, NextIn
  <2>2. handled \in [1 .. Len(topic) -> Nat]
    BY LenProperties DEF TypeOK
  <2>3. ASSUME NEW i \in 1 .. Len(topic) PROVE Strays(i)' = Strays(i) \ {k}
    BY <1>0, <2>1 DEF Strays
  <2>4. Line <= Line'
    BY <1>0, <2>1 DEF Line, Progress
  <2> SUFFICES ASSUME NEW i \in 1 .. Len(topic) PROVE Paid(i)'
    BY <2>1 DEF CutsPay
  <2>5. CASE i # position[k]
    <3>1. handled'[i] = handled[i]
      BY <2>1, <2>2, <2>5
    <3> QED BY <2>1, <2>3, <2>4, <3>1, CutsFrame
  <2>6. CASE i = position[k]
    <3>1. handled'[i] = handled[i] + 1 /\ handled[i] \in Nat
      BY <2>1, <2>2, <2>6
    <3>2. /\ IsFiniteSet(Strays(i)) /\ Cardinality(Strays(i)) \in Nat
          /\ handled[i] + Cardinality(Strays(i)) <= cuts + (IF i <= Line THEN 1 ELSE 0)
      BY StraysCounted DEF CutsPay, Paid
    <3>3. CASE owner = k
      <4>1. Line = i - 1 /\ Line' = i /\ i \in Nat
        BY <1>0, <2>1, <2>6, <3>3 DEF Line, Progress
      <4>2. Cardinality(Strays(i)') <= Cardinality(Strays(i)) /\ Cardinality(Strays(i)') \in Nat
        BY <2>3, NoStrayMore
      <4> QED BY <1>0, <2>1, <3>1, <3>2, <4>1, <4>2 DEF Paid
    <3>4. CASE owner # k
      <4>1. k \in Strays(i)
        BY <2>1, <2>6, <3>4 DEF Strays
      <4>2. Cardinality(Strays(i)') = Cardinality(Strays(i)) - 1
        BY <2>3, <3>2, <4>1, FS_RemoveElement
      <4> QED BY SMTT(40), <1>0, <2>1, <2>4, <3>1, <3>2, <4>2 DEF Paid
    <3> QED BY <3>3, <3>4
  <2> QED BY <2>5, <2>6
<1>8. ASSUME NEW k \in Pods, CommitMessage(k) PROVE CutsPay'
  <2>1. /\ loop[k] = "commit" /\ loop' = [loop EXCEPT ![k] = "poll"]
        /\ UNCHANGED <<topic, handled, committed, owner, position, cuts>>
    BY <1>8 DEF CommitMessage, NextIn
  <2>2. Line' = Line
    BY <1>0, <2>1 DEF Line, Progress
  <2>3. \A i \in 1 .. Len(topic) : Strays(i)' \subseteq Strays(i)
    BY <1>0, <2>1 DEF Strays
  <2> QED BY <1>0, <1>q, <2>1, <2>2, <2>3
<1>9. ASSUME NEW k \in Pods, CommitArrives(k) PROVE CutsPay'
  <2>1. /\ owner = NoPod => committed' = committed
        /\ UNCHANGED <<topic, handled, owner, loop, position, cuts>>
    BY <1>9 DEF CommitArrives
  <2>2. Line' = Line
    BY <2>1 DEF Line, Progress
  <2>3. \A i \in 1 .. Len(topic) : Strays(i)' \subseteq Strays(i)
    BY <2>1 DEF Strays
  <2> QED BY <1>0, <1>q, <2>1, <2>2, <2>3
<1>10. ASSUME NEW k \in Pods, Gone(k), UNCHANGED <<topic, handled, position>>
       PROVE  \A i \in 1 .. Len(topic) : Strays(i)' \subseteq Strays(i)
  BY <1>0, <1>10 DEF Gone, NextIn, Strays
<1>11. ASSUME NEW k \in Pods, Shutdown(k) PROVE CutsPay'
  <2>1. /\ loop[k] = "poll" /\ loop' = [loop EXCEPT ![k] = "down"]
        /\ owner' = IF owner = k THEN NoPod ELSE owner
        /\ Gone(k) /\ UNCHANGED <<topic, handled, position>>
        /\ \/ cuts' = cuts /\ committed' = IF owner = k THEN position[k] ELSE committed
           \/ cuts' = cuts + 1
    BY <1>11 DEF Shutdown, Gone, NextIn
  <2>2. CASE cuts' = cuts /\ committed' = IF owner = k THEN position[k] ELSE committed
    <3>1. Line' = Line
      BY <1>0, <2>1, <2>2 DEF Line, Progress
    <3> QED BY <1>0, <1>10, <1>q, <2>1, <2>2, <3>1
  <2>3. CASE cuts' = cuts + 1
    BY <1>10, <1>q, <2>1, <2>3
  <2> QED BY <2>1, <2>2, <2>3
<1>12. ASSUME NEW k \in Pods, ExitEarly(k) \/ Crash(k) PROVE CutsPay'
  BY <1>10, <1>12, <1>q DEF ExitEarly, Crash
<1> QED
  BY <1>1, <1>2, <1>3, <1>4, <1>5, <1>6, <1>7, <1>8, <1>9, <1>11, <1>12
  DEF Next, Serve, Consume, RegisterAccount, Abandon, Terminate, consumer, vars

(***************************************************************************)
(* Theorems                                                                *)
(***************************************************************************)
LEMMA InvInit == Init => IInv
BY TypeInit, GroupInit, AccountsInit, CutsInit DEF IInv

LEMMA InvStep == IInv /\ [Next]_vars => IInv'
<1> SUFFICES ASSUME IInv, [Next]_vars PROVE IInv'
  OBVIOUS
<1>1. TypeOK' /\ GroupOK' /\ AccountsOK'
  BY TypeStep, GroupStep, AccountsStep DEF IInv
<1>2. CutsPay'
  BY <1>1, CutsStep DEF IInv
<1> QED BY <1>1, <1>2 DEF IInv

LEMMA Invariant == Spec => []IInv
BY InvInit, InvStep, PTL DEF Spec

(* Every variable keeps its type (UserEvents).                             *)
THEOREM TypeCorrect == Spec => []TypeOK
<1>1. IInv => TypeOK BY DEF IInv
<1> QED BY <1>1, Invariant, PTL

(* At-least-once: no event behind the group's offset is unhandled,         *)
(* whichever pods crash, stop or lose the partition (kafka.rs).            *)
THEOREM CommittedWereHandled == Spec => []CommittedEventsWereHandled
<1>1. IInv => CommittedEventsWereHandled
  BY DEF IInv, GroupOK, Done, CommittedEventsWereHandled
<1> QED BY <1>1, Invariant, PTL

(* A profile is made for a registered account only (auth_controller.rs,    *)
(* kafka.rs).                                                              *)
THEOREM ProfilesHaveAccounts == Spec => []ProfilesOfAccounts
<1>1. IInv => ProfilesOfAccounts
  BY DEF IInv, AccountsOK
<1> QED BY <1>1, Invariant, PTL

(* An event is handled again at most once for every stop that skipped the  *)
(* shutdown branch (kafka.rs, main.rs).                                    *)
THEOREM RepeatedOnlyIfCut == Spec => []HandledAgainOnlyIfCut
<1>1. ASSUME IInv PROVE HandledAgainOnlyIfCut
  <2>1. TypeOK /\ GroupOK /\ CutsPay
    BY <1>1 DEF IInv
  <2>2. DOMAIN handled = 1 .. Len(topic)
    BY <2>1, LenProperties DEF TypeOK
  <2> SUFFICES ASSUME NEW i \in 1 .. Len(topic) PROVE handled[i] <= 1 + cuts
    BY <2>2 DEF HandledAgainOnlyIfCut
  <2>3. /\ handled[i] \in Nat /\ cuts \in Nat /\ Cardinality(Strays(i)) \in Nat
        /\ handled[i] + Cardinality(Strays(i)) <= cuts + (IF i <= Line THEN 1 ELSE 0)
    BY <2>1, CutsTyped, StraysCounted DEF CutsPay, Paid
  <2> QED BY <2>3
<1> QED BY <1>1, Invariant, PTL

(* No commit, however late, moves the group's offset back (kafka.rs).      *)
THEOREM OffsetAdvances == Spec => OffsetNeverGoesBack
<1>1. ASSUME IInv, [Next]_vars PROVE [committed' >= committed]_vars
  <2>0. /\ committed \in Nat /\ \A k \in Pods : PodOK(k)
        /\ \A k \in Pods : position[k] \in Nat /\ sent[k] \in Nat /\ Progress(k) \in Nat
    BY <1>1, LenProperties, ProgressBound DEF IInv, TypeOK, GroupOK
  <2>1. ASSUME NEW k \in Pods, CommitArrives(k) PROVE committed' >= committed
    BY <2>0, <2>1 DEF CommitArrives, PodOK
  <2>2. ASSUME NEW k \in Pods, Shutdown(k) PROVE committed' >= committed
    BY <2>0, <2>2 DEF Shutdown, PodOK, Progress
  <2>3. CASE UNCHANGED committed
    BY <2>0, <2>3
  <2> QED
    BY <1>1, <2>1, <2>2, <2>3
    DEF Next, Serve, RegisterAccount, Publish, Abandon, Consume, Start, Join, Rebalance, Assign,
        Poll, HandleMessage, CommitMessage, Terminate, ExitEarly, Crash, consumer, vars
<1> QED BY <1>1, Invariant, PTL DEF Spec, OffsetNeverGoesBack
(***************************************************************************)
(* The promise of EventDelivery                                            *)
(***************************************************************************)
(* What comes before the event that a pod has in hand has been handled,    *)
(* whether or not the partition is still the pod's.                        *)
InHand == \A k \in Pods : loop[k] = "handle" => Done(position[k] - 1)

(* What has been handled stays handled.                                    *)
LEMMA DoneKept ==
    ASSUME TypeOK, GroupOK, [Next]_vars, NEW n \in 0 .. Len(topic), Done(n)
    PROVE  Done(n)'
<1>1. /\ handled \in [1 .. Len(topic) -> Nat] /\ Len(topic) \in Nat
      /\ \A k \in Pods : PodOK(k) /\ position[k] \in 0 .. Len(topic)
  BY LenProperties DEF TypeOK, GroupOK
<1> SUFFICES ASSUME NEW i \in 1 .. n PROVE handled'[i] > 0
  BY DEF Done
<1>2. i \in 1 .. Len(topic) /\ handled[i] \in Nat /\ handled[i] > 0
  BY <1>1 DEF Done
<1>3. ASSUME NEW p \in Requests, Publish(p) PROVE handled'[i] > 0
  <2>1. PICK events \in Seq(Users) : Arrives(events)
    BY <1>3, PublishArrives
  <2> QED BY <1>2, <2>1, Appended
<1>4. ASSUME NEW k \in Pods, HandleMessage(k) PROVE handled'[i] > 0
  BY <1>1, <1>2, <1>4 DEF HandleMessage
<1>5. CASE UNCHANGED handled
  BY <1>2, <1>5
<1> QED
  BY <1>3, <1>4, <1>5
  DEF Next, Serve, RegisterAccount, Abandon, Consume, Start, Join, Rebalance, Assign,
      Poll, CommitMessage, CommitArrives, Shutdown, Terminate, ExitEarly, Crash, consumer, vars

LEMMA InHandInit == Init => InHand
BY DEF Init, InHand

(* A pod takes an event only while it owns the partition, and then it has  *)
(* handled everything before it; to lose the partition changes nothing.    *)
LEMMA InHandStep == TypeOK /\ GroupOK /\ InHand /\ [Next]_vars => InHand'
<1> SUFFICES ASSUME TypeOK, GroupOK, InHand, [Next]_vars,
                    NEW k \in Pods, loop'[k] = "handle"
             PROVE  Done(position[k] - 1)'
  BY DEF InHand
<1>1. /\ loop \in [Pods -> {"down", "poll", "handle", "commit"}]
      /\ position \in [Pods -> 0 .. Len(topic)] /\ Len(topic) \in Nat
      /\ PodOK(k)
  BY LenProperties DEF TypeOK, GroupOK
<1>2. CASE loop[k] = "handle" /\ position'[k] = position[k]
  <2>1. position[k] - 1 \in 0 .. Len(topic) /\ Done(position[k] - 1)
    BY <1>1, <1>2 DEF InHand, PodOK
  <2>2. ASSUME NEW n \in 0 .. Len(topic), n = position[k] - 1 PROVE Done(position[k] - 1)'
    <3>1. Done(n)'
      BY <2>1, <2>2, DoneKept
    <3> QED BY <1>2, <2>2, <3>1 DEF Done
  <2> QED BY <2>1, <2>2
<1>3. CASE Poll(k)
  <2>1. /\ loop[k] = "poll" /\ owner = k /\ position'[k] = position[k] + 1
        /\ UNCHANGED handled
    BY <1>1, <1>3 DEF Poll
  <2>2. Done(position[k]) /\ position'[k] - 1 = position[k]
    BY <1>1, <2>1 DEF PodOK, Progress
  <2> QED BY <2>1, <2>2 DEF Done
<1>4. (loop[k] = "handle" /\ position'[k] = position[k]) \/ Poll(k)
  <2>1. CASE UNCHANGED <<loop, position>>
    BY <2>1
  <2>2. ASSUME NEW j \in Pods, Assign(j) PROVE loop[k] = "handle" /\ position'[k] = position[k]
    BY <1>1, <2>2 DEF Assign, Resume
  <2>3. ASSUME NEW j \in Pods, UNCHANGED position,
               \E label \in {"down", "poll", "commit"} : NextIn(j, label)
        PROVE  loop[k] = "handle" /\ position'[k] = position[k]
    BY <1>1, <2>3 DEF NextIn
  <2>4. ASSUME NEW j \in Pods, Poll(j), j # k
        PROVE  loop[k] = "handle" /\ position'[k] = position[k]
    BY <1>1, <2>4 DEF Poll, NextIn
  <2> QED
    BY <2>1, <2>2, <2>3, <2>4
    DEF Next, Serve, RegisterAccount, Publish, Abandon, Consume, Start, Join, Rebalance,
        HandleMessage, CommitMessage, CommitArrives, Shutdown, Terminate, ExitEarly, Crash,
        Gone, consumer, vars
<1> QED BY <1>2, <1>3, <1>4

(* Each step of the group and its producers as a step of the delivery.     *)
LEMMA DeliveryStep ==
    IInv /\ InHand /\ [Next]_vars => [Delivery!Next]_(Delivery!vars)
<1> SUFFICES ASSUME IInv, InHand, [Next]_vars PROVE [Delivery!Next]_(Delivery!vars)
  OBVIOUS
<1>0. /\ TypeOK /\ GroupOK /\ CutsPay
      /\ DOMAIN topic = 1 .. Len(topic) /\ Len(topic) \in Nat
      /\ committed \in 0 .. Len(topic)
      /\ email \in [Requests -> Users]
      /\ \A k \in Pods : PodOK(k) /\ position[k] \in 0 .. Len(topic) /\ sent[k] \in 0 .. Len(topic)
      /\ \A k \in Pods : Progress(k) \in 0 .. Len(topic)
  BY LenProperties, ProgressBound DEF IInv, TypeOK, GroupOK
<1>1. ASSUME NEW n \in 0 .. Len(topic), Done(n), committed' = n, n >= committed,
             UNCHANGED <<topic, handled, cuts>>
      PROVE  [Delivery!Next]_(Delivery!vars)
  <2>1. CASE n = committed
    BY <1>1, <2>1 DEF Delivery!vars
  <2>2. CASE n > committed
    <3>1. n \in DOMAIN topic
      BY <1>0, <2>2
    <3>2. Delivery!Settle(n)
      BY <1>1, <2>2 DEF Delivery!Settle, Delivery!GivenUpTo, Done
    <3> QED BY <3>1, <3>2 DEF Delivery!Next
  <2> QED BY <1>0, <1>1, <2>1, <2>2
<1>2. ASSUME NEW p \in Requests, Publish(p) PROVE [Delivery!Next]_(Delivery!vars)
  <2>1. UNCHANGED <<committed, cuts>>
    BY <1>2 DEF Publish, consumer
  <2>2. CASE Arrives(<<>>)
    <3>1. topic' = topic /\ handled' = handled
      <4>1. topic \in Seq(Users) /\ handled \in Seq(Nat)
        BY <1>0 DEF TypeOK
      <4>2. [i \in DOMAIN <<>> |-> 0] = <<>>
        OBVIOUS
      <4>3. topic \o <<>> = topic /\ handled \o <<>> = handled
        BY <4>1, ConcatEmptySeq
      <4> QED BY <2>2, <4>2, <4>3 DEF Arrives
    <3> QED BY <2>1, <3>1 DEF Delivery!vars
  <2>3. CASE \E events \in {<<email[p]>>, <<email[p], email[p]>>} : Arrives(events)
    <3>1. Delivery!Send(email[p])
      BY <2>1, <2>3 DEF Arrives, Delivery!Send
    <3>2. email[p] \in Users
      BY <1>0
    <3> QED BY <3>1, <3>2 DEF Delivery!Next
  <2> QED BY <1>2, <2>2, <2>3 DEF Publish
<1>3. ASSUME NEW k \in Pods, HandleMessage(k) PROVE [Delivery!Next]_(Delivery!vars)
  <2> DEFINE i == position[k]
  <2>1. /\ loop[k] = "handle" /\ handled' = [handled EXCEPT ![i] = @ + 1]
        /\ UNCHANGED <<topic, committed, cuts>>
    BY <1>3 DEF HandleMessage, producer
  <2>2. i \in 1 .. Len(topic) /\ Done(i - 1)
    BY <1>0, <2>1 DEF PodOK, InHand
  <2>3. handled[i] <= cuts
    <3>1. /\ handled[i] \in Nat /\ cuts \in Nat /\ Line \in Nat
          /\ IsFiniteSet(Strays(i)) /\ Cardinality(Strays(i)) \in Nat
          /\ handled[i] + Cardinality(Strays(i)) <= cuts + (IF i <= Line THEN 1 ELSE 0)
      <4>1. IsFiniteSet(Strays(i)) /\ Cardinality(Strays(i)) \in Nat
        BY StraysCounted
      <4>2. /\ Line \in 0 .. Len(topic) /\ cuts \in Nat
            /\ \A j \in 1 .. Len(topic) : handled[j] \in Nat
        BY <1>0, CutsTyped
      <4>3. Paid(i)
        BY <1>0, <2>2 DEF CutsPay
      <4> QED BY <1>0, <2>2, <4>1, <4>2, <4>3 DEF Paid
    <3>2. CASE owner = k
      <4>1. Line = i - 1 /\ i \in Nat
        <5>1. owner # NoPod
          BY <3>2, EventsAssumption
        <5> QED BY <1>0, <2>1, <3>2, <5>1 DEF Line, Progress
      <4> QED BY <3>1, <4>1
    <3>3. CASE owner # k
      <4>1. Cardinality(Strays(i)) # 0
        <5>1. k \in Strays(i)
          BY <2>1, <3>3 DEF Strays
        <5> QED BY <3>1, <5>1, FS_EmptySet
      <4> HIDE DEF i
      <4> QED BY <3>1, <4>1
    <3> QED BY <3>2, <3>3
  <2>4. Delivery!Give(i)
    BY <2>1, <2>2, <2>3 DEF Delivery!Give, Delivery!GivenUpTo, Done
  <2> QED BY <1>0, <2>2, <2>4 DEF Delivery!Next
<1>4. ASSUME NEW k \in Pods, CommitArrives(k) PROVE [Delivery!Next]_(Delivery!vars)
  <2>1. UNCHANGED <<topic, handled, cuts>> /\ sent[k] # 0
        /\ committed' = IF owner = k THEN sent[k] ELSE committed
    BY <1>4 DEF CommitArrives
  <2>2. CASE owner = k
    <3>1. /\ committed <= sent[k] /\ sent[k] <= Progress(k) /\ Done(Progress(k))
          /\ sent[k] \in 0 .. Len(topic) /\ Progress(k) \in 0 .. Len(topic)
      BY <1>0, <2>1, <2>2 DEF PodOK
    <3>2. Done(sent[k])
      BY <3>1 DEF Done
    <3> QED BY <1>0, <1>1, <2>1, <2>2, <3>1, <3>2
  <2>3. CASE owner # k
    BY <2>1, <2>3 DEF Delivery!vars
  <2> QED BY <2>2, <2>3
<1>5. ASSUME UNCHANGED <<topic, handled, committed>>, cuts' = cuts + 1
      PROVE  [Delivery!Next]_(Delivery!vars)
  <2>1. Delivery!Cut
    BY <1>5 DEF Delivery!Cut
  <2> QED BY <2>1 DEF Delivery!Next
<1>6. ASSUME NEW k \in Pods, Shutdown(k) PROVE [Delivery!Next]_(Delivery!vars)
  <2>1. /\ loop[k] = "poll" /\ UNCHANGED <<topic, handled>>
        /\ \/ committed' = (IF owner = k THEN position[k] ELSE committed) /\ UNCHANGED cuts
           \/ UNCHANGED committed /\ cuts' = cuts + 1
    BY <1>6 DEF Shutdown
  <2>2. CASE UNCHANGED cuts /\ owner = k /\ committed' = position[k]
    <3>1. committed <= position[k] /\ Done(position[k]) /\ position[k] \in 0 .. Len(topic)
      BY <1>0, <2>1, <2>2 DEF PodOK, Progress
    <3> QED BY <1>0, <1>1, <2>1, <2>2, <3>1
  <2>3. CASE UNCHANGED <<committed, cuts>>
    BY <2>1, <2>3 DEF Delivery!vars
  <2>4. CASE UNCHANGED committed /\ cuts' = cuts + 1
    BY <1>5, <2>1, <2>4
  <2> QED BY <2>1, <2>2, <2>3, <2>4
<1>7. CASE UNCHANGED <<topic, handled, committed, cuts>>
  BY <1>7 DEF Delivery!vars
<1> QED
  BY <1>2, <1>3, <1>4, <1>5, <1>6, <1>7
  DEF Next, Serve, RegisterAccount, Abandon, Consume, Start, Join, Rebalance, Assign,
      Poll, CommitMessage, Terminate, ExitEarly, Crash, consumer, vars

(* The consumer group, with its producers, keeps the promise of            *)
(* EventDelivery: events are handled for the first time in the order they  *)
(* were sent, and again only after a cut (kafka.rs, kafka_service.rs).     *)
THEOREM ImplementsDelivery == Spec => RefinesDelivery
<1>1. Init => Delivery!Init
  BY DEF Init, Delivery!Init
<1>2. Spec => []InHand
  <2>1. IInv /\ InHand /\ [Next]_vars => InHand'
    BY InHandStep DEF IInv
  <2> QED BY <2>1, Invariant, InHandInit, PTL DEF Spec
<1> QED BY <1>1, <1>2, Invariant, DeliveryStep, PTL DEF Spec, RefinesDelivery, Delivery!Spec
(***************************************************************************)
(* What faults cost                                                        *)
(***************************************************************************)
(* An account may be lost as soon as its last event has been handled in    *)
(* vain, before the group settles that event: from then on it counts.      *)
InSight(u) ==
    \/ \E p \in Requests : stage[p] = "publish" /\ email[p] = u
    \/ \E i \in 1 .. Len(topic) : topic[i] = u /\ handled[i] = 0
Forgotten == {u \in accounts : profiles[u] = 0 /\ ~InSight(u)}
FaultsPay == Cardinality(Forgotten) <= faults

LEMMA ForgottenCounted ==
    ASSUME TypeOK
    PROVE  IsFiniteSet(Forgotten) /\ Cardinality(Forgotten) \in Nat /\ faults \in Nat
<1>1. Forgotten \subseteq Users /\ faults \in Nat
  BY EventsAssumption DEF TypeOK, Forgotten
<1>2. IsFiniteSet(Forgotten)
  BY <1>1, EventsAssumption, FS_Subset
<1> QED BY <1>1, <1>2, FS_CardinalityType

(* A step that forgets nobody costs nothing, and one account a fault.      *)
LEMMA FaultsFrame ==
    ASSUME TypeOK, FaultsPay,
           \/ Forgotten' \subseteq Forgotten /\ (Calm \/ Fault)
           \/ Fault /\ \E u : Forgotten' \subseteq Forgotten \cup {u}
    PROVE  FaultsPay'
<1> DEFINE before == Forgotten
<1>0. /\ IsFiniteSet(before) /\ Cardinality(before) \in Nat /\ faults \in Nat
      /\ Cardinality(before) <= faults
  BY ForgottenCounted DEF FaultsPay
<1>1. PICK after : after = Forgotten' OBVIOUS
<1> HIDE DEF before
<1>2. CASE after \subseteq before /\ (Calm \/ Fault)
  <2>1. IsFiniteSet(after) /\ Cardinality(after) <= Cardinality(before)
    BY <1>0, <1>2, FS_Subset
  <2>2. Cardinality(after) \in Nat
    BY <2>1, FS_CardinalityType
  <2>3. faults' = faults \/ faults' = faults + 1
    BY <1>2 DEF Calm, Fault
  <2> QED BY <1>0, <1>1, <2>1, <2>2, <2>3 DEF FaultsPay
<1>3. ASSUME Fault, NEW u, after \subseteq before \cup {u} PROVE FaultsPay'
  <2>1. /\ IsFiniteSet(before \cup {u}) /\ Cardinality(before \cup {u}) \in Nat
        /\ Cardinality(before \cup {u}) <= Cardinality(before) + 1
    BY SMTT(40), <1>0, FS_AddElement, FS_CardinalityType
  <2>2. IsFiniteSet(after) /\ Cardinality(after) <= Cardinality(before \cup {u})
    BY <1>3, <2>1, FS_Subset
  <2>3. Cardinality(after) \in Nat
    BY <2>2, FS_CardinalityType
  <2>4. faults' = faults + 1
    BY <1>3 DEF Fault
  <2> QED BY <1>0, <1>1, <2>1, <2>2, <2>3, <2>4 DEF FaultsPay
<1> QED BY <1>1, <1>2, <1>3 DEF before

LEMMA FaultsInit == Init => FaultsPay
<1> SUFFICES ASSUME Init PROVE FaultsPay
  OBVIOUS
<1>1. Forgotten = {} BY DEF Init, Forgotten
<1> QED BY <1>1, FS_EmptySet DEF Init, FaultsPay

(* Only the handlers of a registration and of an event can forget an       *)
(* account, and only its own, and only by a fault.                         *)
LEMMA FaultsStep == IInv /\ FaultsPay /\ [Next]_vars => FaultsPay'
<1> SUFFICES ASSUME IInv, FaultsPay, [Next]_vars PROVE FaultsPay'
  OBVIOUS
<1>0. /\ TypeOK /\ GroupOK
      /\ stage \in [Requests -> {"insert", "publish", "registered", "done"}]
      /\ profiles \in [Users -> Nat] /\ accounts \subseteq Users
      /\ handled \in [1 .. Len(topic) -> Nat] /\ Len(topic) \in Nat
  BY LenProperties DEF IInv, TypeOK
<1>q. ASSUME UNCHANGED <<accounts, email, stage, topic, profiles, handled>>, Calm \/ Fault
      PROVE  FaultsPay'
  <2>1. Forgotten' = Forgotten
    BY <1>q DEF Forgotten, InSight
  <2> QED BY <1>0, <1>q, <2>1, FaultsFrame
<1>1. ASSUME NEW p \in Requests, RegisterAccount(p) PROVE FaultsPay'
  <2>1. /\ UNCHANGED <<email, topic, profiles, handled>> /\ stage[p] = "insert"
        /\ \E label \in {"publish", "done"} : stage' = [stage EXCEPT ![p] = label]
        /\ accounts' \in {accounts, accounts \cup {email[p]}}
    BY <1>1 DEF RegisterAccount, At
  <2>2. \A u : InSight(u) => InSight(u)'
    BY <1>0, <2>1 DEF InSight
  <2>3. Forgotten' \subseteq Forgotten \cup {email[p]}
    BY <2>1, <2>2 DEF Forgotten
  <2>4. CASE Fault
    BY <1>0, <2>3, <2>4, FaultsFrame
  <2>5. CASE Calm /\ ~Fault
    <3>1. \/ accounts' = accounts
          \/ stage' = [stage EXCEPT ![p] = "publish"]
      BY <1>1, <2>5 DEF RegisterAccount, At
    <3>2. CASE accounts' = accounts
      <4>1. Forgotten' \subseteq Forgotten
        BY <2>1, <2>2, <3>2 DEF Forgotten
      <4> QED BY <1>0, <2>5, <4>1, FaultsFrame
    <3>3. CASE stage' = [stage EXCEPT ![p] = "publish"]
      <4>1. InSight(email[p])'
        BY <1>0, <2>1, <3>3 DEF InSight
      <4>2. Forgotten' \subseteq Forgotten
        BY <2>1, <2>2, <2>3, <4>1 DEF Forgotten
      <4> QED BY <1>0, <2>5, <4>2, FaultsFrame
    <3> QED BY <3>1, <3>2, <3>3
  <2> QED BY <1>1, <2>4, <2>5 DEF RegisterAccount
<1>2. ASSUME NEW p \in Requests, Publish(p) PROVE FaultsPay'
  <2>1. PICK events \in Seq(Users) : Arrives(events)
    BY <1>0, <1>2, PublishArrives
  <2>2. /\ UNCHANGED <<accounts, email, profiles>> /\ stage[p] = "publish"
        /\ stage' = [stage EXCEPT ![p] = "registered"]
    BY <1>2 DEF Publish, At
  <2>3. /\ Len(topic') = Len(topic) + Len(events) /\ Len(events) \in Nat
        /\ \A i \in 1 .. Len(topic) : topic'[i] = topic[i] /\ handled'[i] = handled[i]
    BY <1>0, <2>1, Appended, LenProperties
  <2>4. \A u : InSight(u) => InSight(u)' \/ u = email[p]
    <3> SUFFICES ASSUME NEW u, InSight(u), u # email[p] PROVE InSight(u)'
      OBVIOUS
    <3>1. CASE \E q \in Requests : stage[q] = "publish" /\ email[q] = u
      BY <1>0, <2>2, <3>1 DEF InSight
    <3>2. ASSUME NEW i \in 1 .. Len(topic), topic[i] = u, handled[i] = 0 PROVE InSight(u)'
      <4>1. i \in 1 .. Len(topic') /\ topic'[i] = u /\ handled'[i] = 0
        BY <1>0, <2>3, <3>2
      <4> QED BY <4>1 DEF InSight
    <3> QED BY <3>1, <3>2 DEF InSight
  <2>5. Forgotten' \subseteq Forgotten \cup {email[p]}
    BY <2>2, <2>4 DEF Forgotten
  <2>6. CASE Fault
    BY <1>0, <2>5, <2>6, FaultsFrame
  <2>7. CASE Arrives(<<email[p]>>) /\ Calm
    <3>1. <<email[p]>> \in Seq(Users) /\ Len(<<email[p]>>) = 1 /\ <<email[p]>>[1] = email[p]
      BY <1>0, <2>2 DEF TypeOK
    <3>2. /\ Len(topic') = Len(topic) + 1
          /\ \A i \in Len(topic) + 1 .. Len(topic') :
                topic'[i] = <<email[p]>>[i - Len(topic)] /\ handled'[i] = 0
      BY <1>0, <2>7, <3>1, Appended
    <3>3. /\ Len(topic) + 1 \in 1 .. Len(topic')
          /\ topic'[Len(topic) + 1] = email[p] /\ handled'[Len(topic) + 1] = 0
      <4>1. (Len(topic) + 1) - Len(topic) = 1 BY <1>0
      <4> QED BY <1>0, <3>1, <3>2, <4>1
    <3>4. InSight(email[p])'
      BY <2>2, <3>3 DEF InSight
    <3>5. Forgotten' \subseteq Forgotten
      BY <2>2, <2>5, <3>4 DEF Forgotten
    <3> QED BY <1>0, <2>7, <3>5, FaultsFrame
  <2> QED BY <1>2, <2>6, <2>7 DEF Publish
<1>3. ASSUME NEW p \in Requests, Abandon(p) PROVE FaultsPay'
  <2>1. /\ UNCHANGED <<accounts, email, topic, profiles, handled>> /\ Fault
        /\ stage' = [stage EXCEPT ![p] = "done"]
    BY <1>3 DEF Abandon, At
  <2>2. \A u : InSight(u) => InSight(u)' \/ u = email[p]
    BY <1>0, <2>1 DEF InSight
  <2>3. Forgotten' \subseteq Forgotten \cup {email[p]}
    BY <2>1, <2>2 DEF Forgotten
  <2> QED BY <1>0, <2>1, <2>3, FaultsFrame
<1>4. ASSUME NEW k \in Pods, HandleMessage(k) PROVE FaultsPay'
  <2> DEFINE address == topic[position[k]]
  <2>1. /\ loop[k] = "handle" /\ UNCHANGED <<accounts, email, stage, topic>>
        /\ handled' = [handled EXCEPT ![position[k]] = @ + 1]
        /\ \/ profiles' = [profiles EXCEPT ![address] = @ + 1] /\ (Calm \/ Fault)
           \/ UNCHANGED profiles /\ Fault
    BY <1>4 DEF HandleMessage, producer
  <2>2. position[k] \in 1 .. Len(topic)
    BY <1>0, <2>1 DEF GroupOK, PodOK, TypeOK
  <2>3. address \in Users
    BY <1>0, <2>2, ElementOfSeq DEF TypeOK
  <2>4. PICK u \in Users : u = address
    BY <2>3
  <2> HIDE DEF address
  <2>5. \A v : InSight(v) => InSight(v)' \/ v = u
    <3> SUFFICES ASSUME NEW v, InSight(v), v # u PROVE InSight(v)'
      OBVIOUS
    <3>1. CASE \E q \in Requests : stage[q] = "publish" /\ email[q] = v
      BY <2>1, <3>1 DEF InSight
    <3>2. ASSUME NEW i \in 1 .. Len(topic), topic[i] = v, handled[i] = 0 PROVE InSight(v)'
      <4>1. i # position[k]
        BY <2>4, <3>2 DEF address
      <4>2. handled'[i] = 0
        BY <1>0, <2>1, <3>2, <4>1
      <4> QED BY <2>1, <3>2, <4>2 DEF InSight
    <3> QED BY <3>1, <3>2 DEF InSight
  <2>6. \A v \in Users : profiles'[v] = 0 => profiles[v] = 0
    BY <1>0, <2>1, <2>4
  <2>7. Forgotten' \subseteq Forgotten \cup {u}
    BY <1>0, <2>1, <2>5, <2>6 DEF Forgotten
  <2>8. CASE Fault
    BY <1>0, <2>7, <2>8, FaultsFrame
  <2>9. CASE Calm /\ profiles' = [profiles EXCEPT ![address] = @ + 1]
    <3>1. profiles'[u] # 0
      BY <1>0, <2>4, <2>9
    <3>2. Forgotten' \subseteq Forgotten
      BY <2>7, <3>1 DEF Forgotten
    <3> QED BY <1>0, <2>9, <3>2, FaultsFrame
  <2> QED BY <2>1, <2>8, <2>9
<1>5. CASE UNCHANGED vars
  BY <1>5, <1>q DEF vars, Calm
<1> QED
  BY <1>1, <1>2, <1>3, <1>4, <1>5, <1>q
  DEF Next, Serve, Consume, Start, Join, Rebalance, Assign, Poll, CommitMessage,
      CommitArrives, Shutdown, Terminate, ExitEarly, Crash, producer, Calm

(* Stops of consumers lose no registration, and a fault loses at most one  *)
(* (auth_controller.rs, kafka.rs).                                         *)
THEOREM FaultsCostOneEach == Spec => []FaultsCostOneProfileEach
<1>1. ASSUME IInv, FaultsPay PROVE FaultsCostOneProfileEach
  <2>1. /\ TypeOK /\ Done(committed) /\ committed \in 0 .. Len(topic) /\ Len(topic) \in Nat
        /\ handled \in [1 .. Len(topic) -> Nat]
    BY <1>1, LenProperties DEF IInv, TypeOK, GroupOK
  <2>2. ASSUME NEW i \in 1 .. Len(topic), handled[i] = 0 PROVE i \in committed + 1 .. Len(topic)
    <3>1. ~(i \in 1 .. committed) BY <2>1, <2>2 DEF Done
    <3> QED BY <2>1, <3>1
  <2>3. Lost \subseteq Forgotten
    BY <2>2 DEF Lost, Expected, Forgotten, InSight
  <2>4. /\ IsFiniteSet(Forgotten) /\ Cardinality(Forgotten) \in Nat /\ faults \in Nat
        /\ Cardinality(Forgotten) <= faults
    BY <1>1, <2>1, ForgottenCounted DEF FaultsPay
  <2>5. IsFiniteSet(Lost) /\ Cardinality(Lost) <= Cardinality(Forgotten)
    BY <2>3, <2>4, FS_Subset
  <2>6. Cardinality(Lost) \in Nat
    BY <2>5, FS_CardinalityType
  <2> QED BY <2>4, <2>5, <2>6 DEF FaultsCostOneProfileEach
<1>2. Spec => []FaultsPay
  <2>1. Init => FaultsPay BY FaultsInit
  <2>2. IInv /\ FaultsPay /\ [Next]_vars => FaultsPay' BY FaultsStep
  <2> QED BY <2>1, <2>2, Invariant, PTL DEF Spec
<1> QED BY <1>1, <1>2, Invariant, PTL
=============================================================================
