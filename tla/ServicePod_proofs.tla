-------------------------- MODULE ServicePod_proofs --------------------------
(***************************************************************************)
(* A request of a pod whose stores answer fails only while its pool is     *)
(* really in use, for any number of requests, connections and outages: no  *)
(* sequence of statements, timeouts, dropped handlers, probes and restarts *)
(* loses a connection.                                                     *)
(***************************************************************************)
EXTENDS ServicePod, SequenceTheorems, FiniteSetTheorems, TLAPS

(***************************************************************************)
(* The invariant                                                           *)
(***************************************************************************)
States == {"new", "running", "ended", "failed"}
TypesOK ==
    /\ state \in [Handlers -> States]
    /\ held \in [Handlers -> SUBSET Pools]
    /\ line \in [Pools -> Seq(Handlers)]

(* Who stands in a line is at work, and stands there once.                 *)
Distinct(s) == \A i, j \in 1 .. Len(s) : s[i] = s[j] => i = j
LineOK(k) ==
    /\ Distinct(line[k])
    /\ \A i \in 1 .. Len(line[k]) : InFlight(line[k][i])

(* Who holds a connection is at work, and no pool gives more than it has.  *)
HoldsAtWork == \A h \in Handlers : held[h] # {} => InFlight(h)
Holders(k) == {h \in Handlers : k \in held[h]}
PoolOK(k) == Cardinality(Holders(k)) <= PoolSize

IInv ==
    /\ TypesOK
    /\ \A k \in Pools : LineOK(k) /\ PoolOK(k)
    /\ HoldsAtWork

(***************************************************************************)
(* Lines                                                                   *)
(***************************************************************************)
(* Taking one place out of a line leaves the others as they stood.         *)
LEMMA PlaceRemoved ==
    ASSUME NEW S, NEW s \in Seq(S), NEW n \in 1 .. Len(s)
    PROVE  /\ RemoveAt(s, n) \in Seq(S) /\ Len(RemoveAt(s, n)) = Len(s) - 1
           /\ \A i \in 1 .. Len(s) - 1 :
                 RemoveAt(s, n)[i] = IF i < n THEN s[i] ELSE s[i + 1]
<1> DEFINE front == SubSeq(s, 1, n - 1)
           back == SubSeq(s, n + 1, Len(s))
<1>1. Len(s) \in Nat /\ \A i \in 1 .. Len(s) : s[i] \in S
  BY ElementOfSeq, LenProperties
<1>2. /\ front \in Seq(S) /\ Len(front) = n - 1
      /\ \A i \in 1 .. n - 1 : front[i] = s[i]
  <2>1. n - 1 \in Int /\ 1 \in Int /\ \A i \in 1 .. n - 1 : s[i] \in S BY <1>1
  <2>2. /\ front \in Seq(S) /\ Len(front) = IF 1 <= n - 1 THEN (n - 1) - 1 + 1 ELSE 0
        /\ \A i \in 1 .. (n - 1) - 1 + 1 : front[i] = s[1 + i - 1]
    BY <2>1, SubSeqProperties
  <2> HIDE DEF front
  <2> QED BY <1>1, <2>2
<1>3. /\ back \in Seq(S) /\ Len(back) = Len(s) - n
      /\ \A i \in 1 .. Len(s) - n : back[i] = s[n + i]
  <2>1. n + 1 \in Int /\ Len(s) \in Int /\ \A i \in n + 1 .. Len(s) : s[i] \in S BY <1>1
  <2>2. /\ back \in Seq(S)
        /\ Len(back) = IF n + 1 <= Len(s) THEN Len(s) - (n + 1) + 1 ELSE 0
        /\ \A i \in 1 .. Len(s) - (n + 1) + 1 : back[i] = s[n + 1 + i - 1]
    BY <2>1, SubSeqProperties
  <2> HIDE DEF back
  <2> QED BY <1>1, <2>2
<1>4. RemoveAt(s, n) = front \o back BY DEF RemoveAt
<1> HIDE DEF front, back
<1>5. /\ front \o back \in Seq(S) /\ Len(front \o back) = Len(front) + Len(back)
      /\ \A i \in 1 .. Len(front) + Len(back) :
            (front \o back)[i] = IF i <= Len(front) THEN front[i] ELSE back[i - Len(front)]
  BY <1>2, <1>3, ConcatProperties
<1>6. ASSUME NEW i \in 1 .. Len(s) - 1
      PROVE  (front \o back)[i] = IF i < n THEN s[i] ELSE s[i + 1]
  <2>1. CASE i < n BY <1>1, <1>2, <1>3, <1>5, <2>1
  <2>2. CASE ~(i < n)
    <3>1. i - (n - 1) \in 1 .. Len(s) - n BY <1>1, <2>2
    <3>2. (front \o back)[i] = back[i - (n - 1)] BY SMTT(40), <1>1, <1>2, <1>3, <1>5, <2>2
    <3>3. back[i - (n - 1)] = s[n + (i - (n - 1))] BY <1>3, <3>1
    <3>4. n + (i - (n - 1)) = i + 1 BY <1>1
    <3> QED BY <2>2, <3>2, <3>3, <3>4
  <2> QED BY <2>1, <2>2
<1> QED BY <1>1, <1>2, <1>3, <1>4, <1>5, <1>6

LEMMA LeavesLine ==
    ASSUME TypesOK, NEW k \in Pools, LineOK(k), NEW h \in Handlers
    PROVE  /\ Without(h, k) \in Seq(Handlers) /\ Distinct(Without(h, k))
           /\ \A i \in 1 .. Len(Without(h, k)) :
                 /\ Without(h, k)[i] # h
                 /\ InFlight(Without(h, k)[i])
<1> DEFINE s == line[k]
           n == Place(h, k)
           w == Without(h, k)
<1>1. s \in Seq(Handlers) /\ Distinct(s) /\ \A i \in 1 .. Len(s) : InFlight(s[i])
  BY DEF TypesOK, LineOK
<1>2. CASE ~Waits(h, k)
  BY <1>1, <1>2 DEF Without, Waits, Contains
<1>3. CASE Waits(h, k)
  <2>1. n \in 1 .. Len(s) /\ s[n] = h BY <1>3 DEF Waits, Contains, Place
  <2>2. w = RemoveAt(s, n) BY <1>3 DEF Without
  <2> HIDE DEF s, n, w
  <2>3. /\ w \in Seq(Handlers) /\ Len(w) = Len(s) - 1
        /\ \A i \in 1 .. Len(s) - 1 : w[i] = IF i < n THEN s[i] ELSE s[i + 1]
    BY <1>1, <2>1, <2>2, PlaceRemoved
  <2>4. Len(s) \in Nat BY <1>1, LenProperties
  <2>5. Distinct(w)
    <3> SUFFICES ASSUME NEW i \in 1 .. Len(w), NEW j \in 1 .. Len(w), w[i] = w[j] PROVE i = j
      BY DEF Distinct
    <3>1. PICK a \in 1 .. Len(s) : a = (IF i < n THEN i ELSE i + 1) /\ w[i] = s[a]
      BY <2>1, <2>3, <2>4
    <3>2. PICK b \in 1 .. Len(s) : b = (IF j < n THEN j ELSE j + 1) /\ w[j] = s[b]
      BY <2>1, <2>3, <2>4
    <3>3. a = b BY <1>1, <3>1, <3>2 DEF Distinct
    <3> QED BY <2>1, <2>3, <2>4, <3>1, <3>2, <3>3
  <2>6. ASSUME NEW i \in 1 .. Len(w) PROVE w[i] # h /\ InFlight(w[i])
    <3>1. PICK a \in 1 .. Len(s) : a = (IF i < n THEN i ELSE i + 1) /\ w[i] = s[a]
      BY <2>1, <2>3, <2>4
    <3>2. a # n BY <2>1, <2>3, <2>4, <3>1
    <3> QED BY <1>1, <2>1, <3>1, <3>2 DEF Distinct
  <2> QED BY <2>3, <2>5, <2>6 DEF w
<1> QED BY <1>2, <1>3

(* A handler that goes on, or stops, leaves the lines in order.            *)
LEMMA ProceedKeepsLines ==
    ASSUME TypesOK, \A k \in Pools : LineOK(k), NEW h \in Handlers, NEW rest,
           Proceed(h, rest), \A q \in Handlers \ {h} : state'[q] = state[q],
           rest = <<>> \/ InFlight(h)'
    PROVE  line' \in [Pools -> Seq(Handlers)] /\ \A k \in Pools : LineOK(k)'
<1> SUFFICES ASSUME NEW k \in Pools PROVE line'[k] \in Seq(Handlers) /\ LineOK(k)'
  BY DEF Proceed
<1> DEFINE w == Without(h, k)
<1>1. /\ w \in Seq(Handlers) /\ Distinct(w)
      /\ \A i \in 1 .. Len(w) : w[i] # h /\ InFlight(w[i])
  BY LeavesLine
<1>2. line'[k] = IF rest # <<>> /\ Head(rest) = k THEN Append(w, h) ELSE w
  BY DEF Proceed
<1> HIDE DEF w
<1>3. \A i \in 1 .. Len(w) : w[i] \in Handlers /\ state'[w[i]] = "running"
  BY <1>1, ElementOfSeq DEF InFlight
<1>4. CASE line'[k] = w BY <1>1, <1>3, <1>4 DEF LineOK, InFlight
<1>5. CASE rest # <<>> /\ line'[k] = Append(w, h)
  <2>1. /\ Append(w, h) \in Seq(Handlers) /\ Len(Append(w, h)) = Len(w) + 1
        /\ \A i \in 1 .. Len(w) : Append(w, h)[i] = w[i]
        /\ Append(w, h)[Len(w) + 1] = h /\ Len(w) \in Nat
    BY <1>1, LenProperties
  <2>2. Distinct(Append(w, h))
    BY <1>1, <2>1 DEF Distinct
  <2>3. \A i \in 1 .. Len(Append(w, h)) : state'[Append(w, h)[i]] = "running"
    BY <1>3, <1>5, <2>1 DEF InFlight
  <2> QED BY <1>5, <2>1, <2>2, <2>3 DEF LineOK, InFlight
<1> QED BY <1>2, <1>4, <1>5

(***************************************************************************)
(* Connections                                                             *)
(***************************************************************************)
LEMMA HandlersFinite == IsFiniteSet(Handlers)
<1>1. IsFiniteSet(Requests) BY PodAssumption
<1>2. IsFiniteSet(Requests \cup {"liveness"}) BY <1>1, FS_AddElement
<1>3. IsFiniteSet((Requests \cup {"liveness"}) \cup {"readiness"}) BY <1>2, FS_AddElement
<1>4. Handlers = (Requests \cup {"liveness"}) \cup {"readiness"} BY DEF Handlers, Probes
<1> QED BY <1>3, <1>4

LEMMA HoldersFinite ==
    ASSUME NEW k
    PROVE  IsFiniteSet(Holders(k)) /\ Cardinality(Holders(k)) \in Nat
BY HandlersFinite, FS_Subset, FS_CardinalityType DEF Holders

(* Giving connections back, by whatever way, overfills no pool.            *)
LEMMA ReturnKeepsPools ==
    ASSUME TypesOK, \A k \in Pools : PoolOK(k), \A h \in Handlers : held'[h] \subseteq held[h]
    PROVE  \A k \in Pools : PoolOK(k)'
<1> SUFFICES ASSUME NEW k \in Pools PROVE PoolOK(k)'
  OBVIOUS
<1>1. PICK before : before = Holders(k) OBVIOUS
<1>2. PICK after : after = Holders(k)' OBVIOUS
<1>3. after \subseteq before BY <1>1, <1>2 DEF Holders
<1>4. IsFiniteSet(before) /\ Cardinality(before) \in Nat BY <1>1, HoldersFinite
<1>5. Cardinality(after) <= Cardinality(before) BY <1>3, <1>4, FS_Subset
<1>6. Cardinality(after) \in Nat BY <1>3, <1>4, FS_Subset, FS_CardinalityType
<1>7. Cardinality(before) <= PoolSize BY <1>1 DEF PoolOK
<1> QED BY <1>2, <1>4, <1>5, <1>6, <1>7, PodAssumption DEF PoolOK

(* What most actions do: one handler goes on or ends, and keeps at most    *)
(* what it held.                                                           *)
Moves(h, rest) ==
    /\ Proceed(h, rest)
    /\ state' \in [Handlers -> States] /\ \A q \in Handlers \ {h} : state'[q] = state[q]
    /\ held' \in {held, [held EXCEPT ![h] = {}]}
    /\ rest = <<>> \/ InFlight(h)'
    /\ InFlight(h)' \/ held'[h] = {}

LEMMA MoveKeepsIInv ==
    ASSUME IInv, NEW h \in Handlers, NEW rest, Moves(h, rest)
    PROVE  IInv'
<1>1. line' \in [Pools -> Seq(Handlers)] /\ \A k \in Pools : LineOK(k)'
  BY ProceedKeepsLines DEF IInv, Moves
<1>2. held' \in [Handlers -> SUBSET Pools] /\ \A q \in Handlers : held'[q] \subseteq held[q]
  BY DEF IInv, TypesOK, Moves
<1>3. \A k \in Pools : PoolOK(k)' BY <1>2, ReturnKeepsPools DEF IInv
<1>4. HoldsAtWork'
  BY <1>2 DEF IInv, TypesOK, HoldsAtWork, Moves, InFlight
<1> QED BY <1>1, <1>2, <1>3, <1>4 DEF IInv, TypesOK, Moves

LEMMA EndMoves ==
    ASSUME IInv, NEW h \in Handlers, NEW outcome \in States, Ends(h, outcome)
    PROVE  Moves(h, <<>>)
BY DEF IInv, TypesOK, Moves, Ends, DropsConnection

(* A handler that waits, or holds a connection, is at work.                *)
LEMMA BusyIsInFlight ==
    ASSUME IInv, NEW h \in Handlers, NEW k \in Pools, Waits(h, k) \/ k \in held[h]
    PROVE  InFlight(h)
<1>1. CASE Waits(h, k) BY <1>1 DEF IInv, LineOK, Waits, Contains
<1>2. CASE k \in held[h] BY <1>2 DEF IInv, HoldsAtWork
<1> QED BY <1>1, <1>2

(***************************************************************************)
(* The steps                                                               *)
(***************************************************************************)
LEMMA GrantKeepsIInv ==
    ASSUME IInv, NEW k \in Pools, Grant(k)
    PROVE  IInv'
<1> DEFINE s == line[k]
           h == Head(s)
<1>1. s \in Seq(Handlers) /\ s # <<>> /\ LineOK(k) /\ Free(k) /\ Len(s) \in Nat \ {0}
  BY EmptySeq DEF IInv, TypesOK, Grant
<1>2. h \in Handlers /\ InFlight(h) BY <1>1, HeadTailProperties DEF LineOK
<1>3. /\ UNCHANGED state /\ line' = [line EXCEPT ![k] = Tail(s)]
      /\ held' = [held EXCEPT ![h] = held[h] \cup {k}]
  BY DEF Grant
<1>4. /\ Tail(s) \in Seq(Handlers) /\ Len(Tail(s)) = Len(s) - 1
      /\ \A i \in 1 .. Len(Tail(s)) : Tail(s)[i] = s[i + 1]
  BY <1>1, HeadTailProperties
<1>5. Distinct(s) /\ \A i \in 1 .. Len(s) : InFlight(s[i]) BY <1>1 DEF LineOK
<1> HIDE DEF s, h
<1>6. Distinct(Tail(s)) /\ \A i \in 1 .. Len(Tail(s)) : InFlight(Tail(s)[i])
  BY <1>1, <1>4, <1>5 DEF Distinct
<1>7. /\ line'[k] = Tail(s) /\ \A j \in Pools \ {k} : line'[j] = line[j]
      /\ line' \in [Pools -> Seq(Handlers)]
  BY <1>3, <1>4 DEF IInv, TypesOK
<1>8. \A j \in Pools : LineOK(j)'
  <2> SUFFICES ASSUME NEW j \in Pools PROVE LineOK(j)'
    OBVIOUS
  <2>1. CASE j = k BY <1>3, <1>6, <1>7, <2>1 DEF LineOK, InFlight
  <2>2. CASE j # k BY <1>3, <1>7, <2>2 DEF IInv, LineOK, InFlight
  <2> QED BY <2>1, <2>2
<1>9. held' \in [Handlers -> SUBSET Pools] /\ HoldsAtWork'
  BY <1>2, <1>3 DEF IInv, TypesOK, HoldsAtWork, InFlight
<1>10. \A j \in Pools : PoolOK(j)'
  <2> SUFFICES ASSUME NEW j \in Pools PROVE PoolOK(j)'
    OBVIOUS
  <2>1. PICK before : before = Holders(j) OBVIOUS
  <2>2. PICK after : after = Holders(j)' OBVIOUS
  <2>3. IsFiniteSet(before) /\ Cardinality(before) \in Nat BY <2>1, HoldersFinite
  <2>4. Cardinality(before) <= PoolSize BY <2>1 DEF IInv, PoolOK
  <2>5. CASE j = k
    <3>1. after = before \cup {h}
      BY <1>2, <1>3, <2>1, <2>2, <2>5 DEF IInv, TypesOK, Holders
    <3>2. Cardinality(before) < PoolSize BY <1>1, <2>1, <2>5 DEF Free, Holders
    <3>3. Cardinality(after) \in {Cardinality(before), Cardinality(before) + 1}
      BY <2>3, <3>1, FS_AddElement
    <3>4. Cardinality(after) <= PoolSize BY <2>3, <3>2, <3>3, PodAssumption
    <3> QED BY <2>2, <3>4 DEF PoolOK
  <2>6. CASE j # k
    <3>1. after = before BY <1>2, <1>3, <2>1, <2>2, <2>6 DEF IInv, TypesOK, Holders
    <3> QED BY <2>1, <2>2, <2>4, <3>1 DEF PoolOK
  <2> QED BY <2>5, <2>6
<1> QED BY <1>3, <1>7, <1>8, <1>9, <1>10 DEF IInv, TypesOK

LEMMA NotAcquiredKeepsIInv ==
    ASSUME IInv, NEW h \in Handlers, Unreachable(h) \/ TimedOut(h)
    PROVE  IInv'
<1>1. PICK k \in Pools : Waits(h, k) BY DEF Unreachable, TimedOut
<1>2. InFlight(h) BY <1>1, BusyIsInFlight
<1>3. NotAcquired(h) BY DEF Unreachable, TimedOut
<1>4. CASE h \in Requests
  <2>1. Ends(h, "failed") BY <1>3, <1>4 DEF NotAcquired
  <2> QED BY <2>1, EndMoves, MoveKeepsIInv DEF States
<1>5. CASE h \notin Requests
  <2>1. Moves(h, Tail(todo[h]))
    BY <1>2, <1>3, <1>5 DEF NotAcquired, IInv, TypesOK, Moves, InFlight
  <2> QED BY <2>1, MoveKeepsIInv
<1> QED BY <1>4, <1>5

LEMMA WorkKeepsIInv ==
    ASSUME IInv, NEW h \in Handlers, Statement(h) \/ Answered(h) \/ Checked(h)
    PROVE  IInv'
<1>1. CASE Ends(h, "failed") \/ Ends(h, "ended")
  BY <1>1, EndMoves, MoveKeepsIInv DEF States
<1>2. CASE Proceed(h, Tail(todo[h])) /\ ReturnsConnection(h) /\ UNCHANGED state /\ InFlight(h)
  <2>1. Moves(h, Tail(todo[h]))
    BY <1>2 DEF IInv, TypesOK, Moves, ReturnsConnection, InFlight
  <2> QED BY <2>1, MoveKeepsIInv
<1>3. CASE Statement(h) BY <1>1, <1>2, <1>3 DEF Statement, GoesOn
<1>4. CASE Answered(h) BY <1>1, <1>2, <1>4 DEF Answered, GoesOn
<1>5. CASE Checked(h) BY <1>2, <1>5 DEF Checked
<1> QED BY <1>3, <1>4, <1>5

LEMMA ArriveKeepsIInv ==
    ASSUME IInv, NEW h \in Handlers, NEW rest, ~InFlight(h), Proceed(h, rest),
           state' = [state EXCEPT ![h] = "running"], UNCHANGED held
    PROVE  IInv'
<1>1. Moves(h, rest) BY DEF IInv, TypesOK, Moves, InFlight, States
<1> QED BY <1>1, MoveKeepsIInv

LEMMA RestartKeepsIInv == ASSUME IInv, Restart PROVE IInv'
<1>1. /\ state' \in [Handlers -> States]
      /\ held' = [h \in Handlers |-> {}] /\ line' = [k \in Pools |-> <<>>]
  <2>1. \A h \in Handlers : state[h] \in States BY DEF IInv, TypesOK
  <2> QED BY <2>1 DEF Restart, Reset, States
<1>2. \A k \in Pools : PoolOK(k)' BY <1>1, ReturnKeepsPools DEF IInv
<1>3. \A k \in Pools : line'[k] = <<>> /\ LineOK(k)'
  BY <1>1, EmptySeq DEF LineOK, Distinct
<1> QED BY <1>1, <1>2, <1>3, EmptySeq DEF IInv, TypesOK, HoldsAtWork

LEMMA StepKeepsIInv == IInv /\ [Next]_vars => IInv'
<1> SUFFICES ASSUME IInv, [Next]_vars PROVE IInv'
  OBVIOUS
<1>0. Requests \subseteq Handlers /\ Probes \subseteq Handlers BY DEF Handlers
<1>1. CASE UNCHANGED <<state, held, line>>
  BY <1>1 DEF IInv, TypesOK, LineOK, InFlight, HoldsAtWork, PoolOK, Holders
<1>2. ASSUME NEW h \in Handlers, Step(h) \/ TimedOut(h) \/ Refused(h) PROVE IInv'
  BY <1>2, WorkKeepsIInv, NotAcquiredKeepsIInv DEF Step, Refused
<1>3. ASSUME NEW r \in Requests, Arrive(r) PROVE IInv'
  BY <1>0, <1>3, ArriveKeepsIInv DEF Arrive, InFlight
<1>4. ASSUME NEW r \in Requests, HangUp(r) PROVE IInv'
  BY <1>0, <1>4, EndMoves, MoveKeepsIInv DEF HangUp, States
<1>5. ASSUME NEW k \in Pools, Grant(k) PROVE IInv' BY <1>5, GrantKeepsIInv
<1>6. ASSUME NEW probe \in Probes, StartProbe(probe) PROVE IInv'
  BY <1>0, <1>6, ArriveKeepsIInv DEF StartProbe
<1>7. ASSUME NEW probe \in Probes, AnswerProbe(probe) \/ GiveUpProbe(probe) PROVE IInv'
  BY <1>0, <1>7, EndMoves, MoveKeepsIInv DEF AnswerProbe, GiveUpProbe, States
<1>8. CASE Restart BY <1>8, RestartKeepsIInv
<1>9. CASE Boot \/ UNCHANGED vars BY <1>1, <1>9 DEF Boot, vars
<1>10. ASSUME NEW s \in Stores, Outage(s) \/ Return(s) PROVE IInv'
  BY <1>1, <1>10 DEF Outage, Return
<1> QED BY <1>2, <1>3, <1>4, <1>5, <1>6, <1>7, <1>8, <1>9, <1>10 DEF Next

LEMMA InitIInv == Init => IInv
<1> SUFFICES ASSUME Init PROVE IInv
  OBVIOUS
<1>1. \A k \in Pools : line[k] = <<>> /\ LineOK(k)
  BY EmptySeq DEF Init, LineOK, Distinct
<1>2. \A k \in Pools : PoolOK(k)
  <2> SUFFICES ASSUME NEW k \in Pools PROVE PoolOK(k)
    OBVIOUS
  <2>1. Holders(k) = {} BY DEF Init, Holders
  <2> QED BY <2>1, FS_EmptySet, PodAssumption DEF PoolOK
<1> QED BY <1>1, <1>2, EmptySeq DEF Init, IInv, TypesOK, HoldsAtWork, States

(***************************************************************************)
(* What a failure tells                                                    *)
(***************************************************************************)
(* A pool that has nothing free is in use by handlers at work.             *)
LEMMA FullPool ==
    ASSUME IInv, NEW k \in Pools, ~Free(k)
    PROVE  Cardinality(AtWork(k)) = PoolSize
<1>1. AtWork(k) = Holders(k)
  BY DEF IInv, HoldsAtWork, AtWork, Holders
<1>2. Cardinality(Holders(k)) \in Nat BY HoldersFinite
<1>3. ~(Cardinality(Holders(k)) < PoolSize) BY DEF Free, Holders
<1>4. Cardinality(Holders(k)) <= PoolSize BY DEF IInv, PoolOK
<1> QED BY <1>1, <1>2, <1>3, <1>4, PodAssumption

LEMMA WhoFails ==
    ASSUME IInv, Next, NEW r \in Requests, state[r] = "running", state'[r] = "failed"
    PROVE  Statement(r) \/ Unreachable(r) \/ TimedOut(r)
<1>0. r \in Handlers /\ state \in [Handlers -> States] BY DEF IInv, TypesOK, Handlers
<1>1. ASSUME NEW h \in Handlers, NEW outcome, h # r \/ outcome # "failed",
             Ends(h, outcome)
      PROVE  FALSE
  BY <1>0, <1>1 DEF Ends
<1>2. ASSUME NEW h \in Handlers, Step(h) \/ TimedOut(h) \/ Refused(h)
      PROVE  Statement(r) \/ Unreachable(r) \/ TimedOut(r)
  <2>1. ~Answered(h)
    <3>1. ~(GoesOn(h) /\ ~Ends(h, "ended")) BY <1>0 DEF GoesOn
    <3>2. ~Ends(h, "ended") BY <1>1
    <3> QED BY <3>1, <3>2 DEF Answered
  <2>2. CASE h = r BY <1>0, <1>2, <2>1, <2>2 DEF Step, Checked, Refused
  <2>3. CASE h # r
    BY <1>0, <1>1, <1>2, <2>1, <2>3
    DEF Step, Refused, Statement, GoesOn, Checked, Unreachable, TimedOut, NotAcquired
  <2> QED BY <2>2, <2>3
<1>3. ~\E q \in Requests : Arrive(q) \/ HangUp(q)
  BY <1>0, <1>1 DEF Arrive, HangUp, Handlers
<1>4. ~\E k \in Pools : Grant(k) BY DEF Grant
<1>5. ~\E probe \in Probes : StartProbe(probe) \/ AnswerProbe(probe) \/ GiveUpProbe(probe)
  BY <1>0, <1>1 DEF StartProbe, AnswerProbe, GiveUpProbe, Handlers
<1>6. ~Restart BY <1>0 DEF Restart
<1>7. ~(Boot \/ \E s \in Stores : Outage(s) \/ Return(s)) BY DEF Boot, Outage, Return
<1> QED BY <1>2, <1>3, <1>4, <1>5, <1>6, <1>7 DEF Next

(* A request that needs no store that is down fails (acquire_timeout,      *)
(* db.rs) only while PoolSize other handlers are at work with a connection *)
(* of the pool it waits for: neither clients that hang up nor probes that  *)
(* are given up use the pool up.                                           *)
THEOREM FailuresDue == Spec => FailuresAreDue
<1>1. IInv /\ [Next]_vars =>
        [\A r \in Requests : state[r] = "running" /\ state'[r] = "failed" =>
          \/ up # Stores
          \/ \E k \in Pools : Waits(r, k) /\ Cardinality(AtWork(k)) = PoolSize]_vars
  <2> SUFFICES ASSUME IInv, Next, NEW r \in Requests, up = Stores,
                      state[r] = "running", state'[r] = "failed"
               PROVE  \E k \in Pools : Waits(r, k) /\ Cardinality(AtWork(k)) = PoolSize
    OBVIOUS
  <2>1. r \in Handlers /\ Pools \subseteq up BY DEF Handlers, Stores
  <2>2. ~Statement(r)
    <3> SUFFICES ASSUME Statement(r) PROVE FALSE
      OBVIOUS
    <3>1. Head(todo[r]) \in up BY <2>1 DEF Statement, IInv, TypesOK
    <3> QED BY <2>1, <3>1 DEF Statement, GoesOn, Ends, IInv, TypesOK
  <2>3. ~Unreachable(r) BY <2>1 DEF Unreachable
  <2>4. PICK k \in Pools : Waits(r, k) /\ Busy(k) BY <2>2, <2>3, WhoFails DEF TimedOut
  <2> QED BY <2>4, FullPool DEF Busy
<1>2. Spec => []IInv
  <2>1. Init /\ [][Next]_vars => []IInv BY InitIInv, StepKeepsIInv, PTL
  <2> QED BY <2>1, PTL DEF Spec
<1> QED BY <1>1, <1>2, PTL DEF Spec, FailuresAreDue
(***************************************************************************)
(* Nobody waits with a connection                                          *)
(***************************************************************************)
(* A handler at work waits or works; any other has nothing and stands      *)
(* nowhere.  A health check always has the PING before it.                 *)
Idle(h) == held[h] = {} /\ \A k \in Pools : ~Waits(h, k)
ChecksLeft == {<<"write", "read", "redis">>, <<"read", "redis">>, <<"redis">>}
Placed(h) ==
    /\ IF InFlight(h) THEN todo[h] # <<>> /\ (Waiting(h) \/ Working(h)) ELSE Idle(h)
    /\ h \in Probes /\ InFlight(h) => todo[h] \in ChecksLeft
Places ==
    /\ todo \in [Handlers -> Seq(Awaited)]
    /\ \A h \in Handlers : Placed(h)

(* Leaving a line moves nobody else out of it.                             *)
LEMMA OthersStay ==
    ASSUME TypesOK, NEW k \in Pools, LineOK(k), NEW h \in Handlers, NEW q, q # h
    PROVE  Contains(Without(h, k), q) <=> Waits(q, k)
<1> DEFINE s == line[k]
           n == Place(h, k)
           w == Without(h, k)
<1>1. s \in Seq(Handlers) BY DEF TypesOK
<1>2. CASE ~Waits(h, k) BY <1>2 DEF Without, Waits
<1>3. CASE Waits(h, k)
  <2>1. n \in 1 .. Len(s) /\ s[n] = h BY <1>3 DEF Waits, Contains, Place
  <2>2. w = RemoveAt(s, n) BY <1>3 DEF Without
  <2> HIDE DEF s, n, w
  <2>3. /\ Len(w) = Len(s) - 1 /\ Len(s) \in Nat
        /\ \A i \in 1 .. Len(s) - 1 : w[i] = IF i < n THEN s[i] ELSE s[i + 1]
    BY <1>1, <2>1, <2>2, PlaceRemoved, LenProperties
  <2>4. ASSUME NEW i \in 1 .. Len(w), w[i] = q PROVE \E j \in 1 .. Len(s) : s[j] = q
    <3>1. CASE i < n BY <2>3, <2>4, <3>1
    <3>2. CASE ~(i < n)
      <4>1. i + 1 \in 1 .. Len(s) /\ s[i + 1] = q BY <2>1, <2>3, <2>4, <3>2
      <4> QED BY <4>1
    <3> QED BY <3>1, <3>2
  <2>5. ASSUME NEW j \in 1 .. Len(s), s[j] = q PROVE \E i \in 1 .. Len(w) : w[i] = q
    <3>1. j # n BY <2>1, <2>5
    <3>2. CASE j < n
      <4>1. j \in 1 .. Len(w) /\ w[j] = q BY <2>1, <2>3, <2>5, <3>2
      <4> QED BY <4>1
    <3>3. CASE j > n
      <4>1. j - 1 \in 1 .. Len(w) /\ ~(j - 1 < n) /\ (j - 1) + 1 = j BY <2>1, <2>3, <3>3
      <4>2. w[j - 1] = q BY <2>3, <2>5, <4>1
      <4> QED BY <4>1, <4>2
    <3> QED BY <2>1, <3>1, <3>2, <3>3
  <2>6. Contains(w, q) <=> Contains(s, q) BY <2>4, <2>5 DEF Contains
  <2> QED BY <2>6 DEF w, s, Waits
<1> QED BY <1>2, <1>3

(* Where everybody stands after a handler goes on.                         *)
LEMMA ProceedPlaces ==
    ASSUME TypesOK, \A k \in Pools : LineOK(k), NEW h \in Handlers, NEW rest, Proceed(h, rest),
           NEW k \in Pools
    PROVE  /\ Waits(h, k)' <=> rest # <<>> /\ k = Head(rest)
           /\ \A q \in Handlers \ {h} : Waits(q, k)' <=> Waits(q, k)
<1> DEFINE w == Without(h, k)
<1>1. /\ w \in Seq(Handlers) /\ \A i \in 1 .. Len(w) : w[i] # h
      /\ \A q \in Handlers \ {h} : Contains(w, q) <=> Waits(q, k)
  BY LeavesLine, OthersStay
<1>2. line'[k] = IF rest # <<>> /\ Head(rest) = k THEN Append(w, h) ELSE w
  BY DEF Proceed
<1> HIDE DEF w
<1>3. /\ Len(Append(w, h)) = Len(w) + 1 /\ Len(w) \in Nat
      /\ \A i \in 1 .. Len(w) : Append(w, h)[i] = w[i]
      /\ Append(w, h)[Len(w) + 1] = h
  BY <1>1, LenProperties
<1>4. ~Contains(w, h) BY <1>1 DEF Contains
<1>5. Contains(Append(w, h), h) BY <1>3 DEF Contains
<1>6. ASSUME NEW q \in Handlers \ {h} PROVE Contains(Append(w, h), q) <=> Contains(w, q)
  BY <1>3 DEF Contains
<1>7. \A q : Waits(q, k)' <=> Contains(line'[k], q) BY DEF Waits
<1> QED BY <1>1, <1>2, <1>4, <1>5, <1>6, <1>7

(* One handler goes on without a connection, and so does every other.      *)
LEMMA MovePlaces ==
    ASSUME IInv, Places, NEW h \in Handlers, NEW rest \in Seq(Awaited), Proceed(h, rest),
           state' \in [Handlers -> States], \A q \in Handlers \ {h} : state'[q] = state[q],
           held' \in [Handlers -> SUBSET Pools], \A q \in Handlers \ {h} : held'[q] = held[q],
           held'[h] = {},
           rest # <<>> <=> InFlight(h)',
           h \in Probes /\ rest # <<>> => rest \in ChecksLeft
    PROVE  Places'
<1>1. todo' = [todo EXCEPT ![h] = rest] /\ todo' \in [Handlers -> Seq(Awaited)] /\ todo'[h] = rest
  BY DEF Proceed, Places
<1>2. \A k \in Pools : /\ Waits(h, k)' <=> rest # <<>> /\ k = Head(rest)
                       /\ \A q \in Handlers \ {h} : Waits(q, k)' <=> Waits(q, k)
  BY ProceedPlaces DEF IInv
<1>3. Placed(h)'
  <2>1. CASE rest = <<>> BY <1>1, <1>2, <2>1 DEF Placed, Idle
  <2>2. CASE rest # <<>> BY <1>1, <1>2, <2>2 DEF Placed, Waiting
  <2> QED BY <2>1, <2>2
<1>4. ASSUME NEW q \in Handlers, q # h PROVE Placed(q)'
  <2>1. /\ todo'[q] = todo[q] /\ held'[q] = held[q] /\ state'[q] = state[q]
        /\ \A k \in Pools : Waits(q, k)' <=> Waits(q, k)
        /\ Placed(q)
    BY <1>1, <1>2, <1>4 DEF Places
  <2> QED BY <2>1 DEF Placed, Waiting, Working, Idle, InFlight
<1> QED BY <1>1, <1>3, <1>4 DEF Places

LEMMA EndPlaces ==
    ASSUME IInv, Places, NEW h \in Handlers, NEW outcome \in States \ {"running"},
           Ends(h, outcome)
    PROVE  Places'
<1>1. /\ Proceed(h, <<>>) /\ <<>> \in Seq(Awaited)
      /\ state' = [state EXCEPT ![h] = outcome] /\ held' = [held EXCEPT ![h] = {}]
  BY DEF Ends, DropsConnection
<1>2. state \in [Handlers -> States] /\ held \in [Handlers -> SUBSET Pools]
  BY DEF IInv, TypesOK
<1>3. ~InFlight(h)' BY <1>1, <1>2 DEF InFlight
<1> QED BY <1>1, <1>2, <1>3, MovePlaces

(* A connection is handed to the one at the head of the line, who stands   *)
(* in no other line and nowhere in the rest of this one.                   *)
LEMMA GrantPlaces ==
    ASSUME IInv, Places, NEW k \in Pools, Grant(k)
    PROVE  Places'
<1> DEFINE s == line[k]
<1>1. s \in Seq(Handlers) /\ s # <<>> /\ Distinct(s) /\ Len(s) \in Nat \ {0}
  BY EmptySeq DEF IInv, TypesOK, Grant, LineOK
<1>2. PICK h \in Handlers : h = s[1] /\ h = Head(s) BY <1>1, HeadTailProperties
<1>3. /\ UNCHANGED <<state, todo>> /\ line' = [line EXCEPT ![k] = Tail(s)]
      /\ held' = [held EXCEPT ![h] = held[h] \cup {k}]
  BY <1>2 DEF Grant
<1>4. /\ Len(Tail(s)) = Len(s) - 1
      /\ \A i \in 1 .. Len(Tail(s)) : Tail(s)[i] = s[i + 1]
  BY <1>1, HeadTailProperties
<1>5. Waits(h, k) BY <1>1, <1>2 DEF Waits, Contains
<1>6. InFlight(h) /\ todo[h] # <<>> /\ Waiting(h)
  BY <1>2, <1>5 DEF Places, Placed, Idle, Working
<1>7. ASSUME NEW q \in Handlers \ {h} PROVE Waits(q, k)' <=> Waits(q, k)
  <2> HIDE DEF s
  <2>1. ASSUME NEW j \in 1 .. Len(s), s[j] = q PROVE \E i \in 1 .. Len(Tail(s)) : Tail(s)[i] = q
    <3>1. j # 1 BY <1>2, <2>1
    <3>2. j - 1 \in 1 .. Len(Tail(s)) /\ Tail(s)[j - 1] = s[(j - 1) + 1] /\ (j - 1) + 1 = j
      BY <1>1, <1>4, <3>1
    <3> QED BY <2>1, <3>2
  <2>2. ASSUME NEW i \in 1 .. Len(Tail(s)), Tail(s)[i] = q PROVE \E j \in 1 .. Len(s) : s[j] = q
    <3>1. i + 1 \in 1 .. Len(s) /\ s[i + 1] = q BY <1>1, <1>4, <2>2
    <3> QED BY <3>1
  <2>3. Contains(Tail(s), q) <=> Contains(s, q) BY <2>1, <2>2 DEF Contains
  <2>4. line'[k] = Tail(s) BY <1>3 DEF IInv, TypesOK
  <2>5. Waits(q, k)' <=> Contains(line'[k], q) BY DEF Waits
  <2>6. Waits(q, k) <=> Contains(s, q) BY DEF Waits, s
  <2> QED BY <2>3, <2>4, <2>5, <2>6
<1>8. ~Waits(h, k)'
  <2> HIDE DEF s
  <2>1. \A i \in 1 .. Len(Tail(s)) : Tail(s)[i] # h
    <3> SUFFICES ASSUME NEW i \in 1 .. Len(Tail(s)), s[i + 1] = s[1] PROVE FALSE
      BY <1>2, <1>4
    <3>1. i + 1 \in 1 .. Len(s) /\ 1 \in 1 .. Len(s) /\ i + 1 # 1
      BY <1>1, <1>4
    <3> QED BY <1>1, <3>1 DEF Distinct
  <2>2. line'[k] = Tail(s) BY <1>3 DEF IInv, TypesOK
  <2> QED BY <2>1, <2>2 DEF Waits, Contains
<1>9. ASSUME NEW j \in Pools \ {k}, NEW q PROVE Waits(q, j)' <=> Waits(q, j)
  <2>1. line'[j] = line[j] BY <1>3 DEF IInv, TypesOK
  <2> QED BY <2>1 DEF Waits
<1> HIDE DEF s
<1>10. held'[h] = held[h] \cup {k} /\ \A q \in Handlers \ {h} : held'[q] = held[q]
  BY <1>2, <1>3 DEF IInv, TypesOK
<1>11. Placed(h)'
  <2>1. k = Head(todo[h]) /\ held[h] = {} BY <1>5, <1>6 DEF Waiting
  <2>2. \A j \in Pools : ~Waits(h, j)' BY <1>6, <1>8, <1>9, <2>1 DEF Waiting
  <2>3. Working(h)' BY <1>3, <1>10, <2>1, <2>2 DEF Working
  <2>4. h \in Probes => todo[h] \in ChecksLeft BY <1>6 DEF Places, Placed
  <2> QED BY <1>3, <1>6, <2>3, <2>4 DEF Placed, InFlight
<1>12. ASSUME NEW q \in Handlers, q # h PROVE Placed(q)'
  <2>1. \A j \in Pools : Waits(q, j)' <=> Waits(q, j) BY <1>7, <1>9, <1>12
  <2>2. Placed(q) BY DEF Places
  <2> QED BY <1>3, <1>10, <1>12, <2>1, <2>2 DEF Placed, Waiting, Working, Idle, InFlight
<1> QED BY <1>3, <1>11, <1>12 DEF Places

(* What a request awaits is a sequence, and not none.                      *)
LEMMA AwaitsTyped ==
    ASSUME NEW endpoint \in DOMAIN Awaits
    PROVE  Awaits[endpoint] \in Seq(Awaited) /\ Awaits[endpoint] # <<>>
<1>1. endpoint \in {"register", "authorize", "authorization_code", "client_credentials"}
  BY DEF Awaits
<1>2. "write" \in Awaited /\ "read" \in Awaited /\ "redis" \in Awaited /\ "kafka" \in Awaited
  BY DEF Awaited, Stores, Pools
<1>3. FindClient \in Seq(Awaited) /\ Len(FindClient) = 3 BY <1>2 DEF FindClient
<1>4. ASSUME NEW s \in Seq(Awaited)
      PROVE  FindClient \o s \in Seq(Awaited) /\ FindClient \o s # <<>>
  <2>1. PICK f \in Seq(Awaited) : f = FindClient /\ Len(f) = 3 BY <1>3
  <2>2. f \o s \in Seq(Awaited) /\ Len(f \o s) = Len(f) + Len(s) BY ConcatProperties
  <2>3. Len(s) \in Nat BY LenProperties
  <2> QED BY <2>1, <2>2, <2>3, EmptySeq
<1>5. CASE endpoint = "register" BY <1>2, <1>5 DEF Awaits
<1>6. CASE endpoint = "authorize"
  <2>1. <<"read", "write">> \in Seq(Awaited) BY <1>2
  <2>2. Awaits[endpoint] = FindClient \o <<"read", "write">> BY <1>6 DEF Awaits
  <2> QED BY <1>4, <2>1, <2>2
<1>7. CASE endpoint = "authorization_code"
  <2>1. <<"read", "write", "read", "write">> \in Seq(Awaited) BY <1>2
  <2>2. Awaits[endpoint] = FindClient \o <<"read", "write", "read", "write">>
    BY <1>7 DEF Awaits
  <2> QED BY <1>4, <2>1, <2>2
<1>8. CASE endpoint = "client_credentials" BY <1>2, <1>8 DEF Awaits, FindClient
<1> QED BY <1>1, <1>5, <1>6, <1>7, <1>8

(* A health check that is not at its PING has something left after.        *)
LEMMA ChecksTail ==
    ASSUME NEW rest \in ChecksLeft, Head(rest) \in Pools
    PROVE  Tail(rest) \in ChecksLeft /\ Tail(rest) # <<>>
<1>1. CASE rest = <<"write", "read", "redis">>
  <2>1. Tail(rest) = <<"read", "redis">> BY <1>1
  <2> QED BY <2>1 DEF ChecksLeft
<1>2. CASE rest = <<"read", "redis">>
  <2>1. Tail(rest) = <<"redis">> /\ Len(Tail(rest)) = 1 BY <1>2
  <2>2. Tail(rest) \in ChecksLeft BY <2>1 DEF ChecksLeft
  <2>3. Tail(rest) # <<>>
    <3>1. Len(<<>>) = 0 BY EmptySeq
    <3> QED BY <2>1, <3>1
  <2> QED BY <2>2, <2>3
<1>3. CASE rest = <<"redis">>
  <2>1. Head(rest) = "redis" BY <1>3
  <2>2. "redis" \notin Pools BY DEF Pools
  <2> QED BY <2>1, <2>2
<1> QED BY <1>1, <1>2, <1>3 DEF ChecksLeft

LEMMA WorkPlaces ==
    ASSUME IInv, Places, NEW h \in Handlers, Statement(h) \/ Answered(h) \/ Checked(h)
    PROVE  Places'
<1>1. state \in [Handlers -> States] /\ held \in [Handlers -> SUBSET Pools]
      /\ todo \in [Handlers -> Seq(Awaited)]
  BY DEF IInv, TypesOK, Places
<1>2. CASE Ends(h, "failed") \/ Ends(h, "ended")
  BY <1>2, EndPlaces DEF States
<1>3. InFlight(h) /\ todo[h] # <<>> BY DEF Statement, Answered, Checked, Places, Placed
<1>4. ASSUME Proceed(h, Tail(todo[h])), ReturnsConnection(h), UNCHANGED state,
             Tail(todo[h]) # <<>>, h \in Probes => Tail(todo[h]) \in ChecksLeft
      PROVE  Places'
  <2>1. Tail(todo[h]) \in Seq(Awaited) BY <1>1, <1>3, HeadTailProperties
  <2>2. held' = [held EXCEPT ![h] = {}] BY <1>4 DEF ReturnsConnection
  <2>3. InFlight(h)' BY <1>3, <1>4 DEF InFlight
  <2> QED BY <1>1, <1>4, <2>1, <2>2, <2>3, MovePlaces
<1>5. CASE Statement(h) \/ Answered(h)
  <2>1. h \notin Probes BY <1>5, PodAssumption DEF Statement, Answered
  <2> QED BY <1>2, <1>4, <1>5, <2>1 DEF Statement, Answered, GoesOn
<1>6. CASE Checked(h)
  <2>1. todo[h] \in ChecksLeft /\ Head(todo[h]) \in Pools
    BY <1>1, <1>3, <1>6 DEF Checked, Places, Placed
  <2>2. Tail(todo[h]) \in ChecksLeft /\ Tail(todo[h]) # <<>> BY <2>1, ChecksTail
  <2> QED BY <1>4, <1>6, <2>2 DEF Checked
<1> QED BY <1>5, <1>6

LEMMA NotAcquiredPlaces ==
    ASSUME IInv, Places, NEW h \in Handlers, Unreachable(h) \/ TimedOut(h)
    PROVE  Places'
<1>1. PICK k \in Pools : Waits(h, k) BY DEF Unreachable, TimedOut
<1>2. NotAcquired(h) BY DEF Unreachable, TimedOut
<1>3. InFlight(h) /\ todo[h] # <<>> /\ held[h] = {} /\ k = Head(todo[h])
  BY <1>1 DEF Places, Placed, Idle, Working, Waiting
<1>4. state \in [Handlers -> States] /\ held \in [Handlers -> SUBSET Pools]
      /\ todo \in [Handlers -> Seq(Awaited)]
  BY DEF IInv, TypesOK, Places
<1>5. CASE h \in Requests
  <2>1. Ends(h, "failed") BY <1>2, <1>5 DEF NotAcquired
  <2> QED BY <2>1, EndPlaces DEF States
<1>6. CASE h \notin Requests
  <2>1. Proceed(h, Tail(todo[h])) /\ UNCHANGED <<state, held>>
    BY <1>2, <1>6 DEF NotAcquired
  <2>2. Tail(todo[h]) \in Seq(Awaited) BY <1>3, <1>4, HeadTailProperties
  <2>3. Tail(todo[h]) \in ChecksLeft /\ Tail(todo[h]) # <<>>
    <3>1. todo[h] \in ChecksLeft BY <1>3, <1>6 DEF Handlers, Places, Placed
    <3> QED BY <1>3, <3>1, ChecksTail
  <2>4. InFlight(h)' BY <1>3, <2>1 DEF InFlight
  <2> QED BY <1>3, <1>4, <2>1, <2>2, <2>3, <2>4, MovePlaces
<1> QED BY <1>5, <1>6

(* A request arrives, or a probe starts.                                   *)
LEMMA ArrivePlaces ==
    ASSUME IInv, Places, NEW h \in Handlers, NEW rest \in Seq(Awaited), rest # <<>>,
           ~InFlight(h), Proceed(h, rest), h \in Probes => rest \in ChecksLeft,
           state' = [state EXCEPT ![h] = "running"], UNCHANGED held
    PROVE  Places'
<1>1. state \in [Handlers -> States] /\ held \in [Handlers -> SUBSET Pools]
  BY DEF IInv, TypesOK
<1>2. held[h] = {} BY DEF Places, Placed, Idle
<1>3. state' \in [Handlers -> States] /\ InFlight(h)' BY <1>1 DEF States, InFlight
<1> QED BY <1>1, <1>2, <1>3, MovePlaces

LEMMA RestartPlaces == ASSUME IInv, Places, Restart PROVE Places'
<1>1. /\ held' = [h \in Handlers |-> {}] /\ todo' = [h \in Handlers |-> <<>>]
      /\ line' = [k \in Pools |-> <<>>]
  BY DEF Restart, Reset
<1>2. \A h \in Handlers : ~InFlight(h)'
  BY DEF Restart, InFlight
<1>3. \A h \in Handlers, k \in Pools : ~Waits(h, k)'
  <2>1. \A k \in Pools : line'[k] = <<>> BY <1>1
  <2> QED BY <2>1, EmptySeq DEF Waits, Contains
<1>4. \A h \in Handlers : Placed(h)'
  BY <1>1, <1>2, <1>3 DEF Placed, Idle
<1>5. <<>> \in Seq(Awaited) OBVIOUS
<1> QED BY <1>1, <1>4, <1>5 DEF Places

LEMMA StepPlaces == IInv /\ Places /\ [Next]_vars => Places'
<1> SUFFICES ASSUME IInv, Places, [Next]_vars PROVE Places'
  OBVIOUS
<1>0. Requests \subseteq Handlers /\ Probes \subseteq Handlers BY DEF Handlers
<1>1. CASE UNCHANGED <<state, held, line, todo>>
  <2>1. \A h, k : Waits(h, k)' <=> Waits(h, k) BY <1>1 DEF Waits
  <2>2. \A h \in Handlers : Placed(h)'
    BY <1>1, <2>1 DEF Places, Placed, Waiting, Working, Idle, InFlight
  <2> QED BY <1>1, <2>2 DEF Places
<1>2. ASSUME NEW h \in Handlers, Step(h) \/ TimedOut(h) \/ Refused(h) PROVE Places'
  BY <1>2, WorkPlaces, NotAcquiredPlaces DEF Step, Refused
<1>3. ASSUME NEW r \in Requests, Arrive(r) PROVE Places'
  <2>1. PICK endpoint \in Endpoints[r] : Proceed(r, Awaits[endpoint])
    BY <1>3 DEF Arrive
  <2>2. /\ ~InFlight(r) /\ state' = [state EXCEPT ![r] = "running"] /\ UNCHANGED held
    BY <1>3 DEF Arrive, InFlight
  <2>3. endpoint \in DOMAIN Awaits /\ r \notin Probes BY PodAssumption
  <2> QED BY <1>0, <2>1, <2>2, <2>3, AwaitsTyped, ArrivePlaces
<1>4. ASSUME NEW r \in Requests, HangUp(r) PROVE Places'
  BY <1>0, <1>4, EndPlaces DEF HangUp, States
<1>5. ASSUME NEW k \in Pools, Grant(k) PROVE Places' BY <1>5, GrantPlaces
<1>6. ASSUME NEW probe \in Probes, StartProbe(probe) PROVE Places'
  <2>1. HealthCheck \in Seq(Awaited) /\ HealthCheck # <<>> /\ HealthCheck \in ChecksLeft
    <3>1. "write" \in Awaited /\ "read" \in Awaited /\ "redis" \in Awaited
      BY DEF Awaited, Stores, Pools
    <3> QED BY <3>1 DEF HealthCheck, ChecksLeft
  <2> QED BY <1>0, <1>6, <2>1, ArrivePlaces DEF StartProbe
<1>7. ASSUME NEW probe \in Probes, AnswerProbe(probe) \/ GiveUpProbe(probe) PROVE Places'
  BY <1>0, <1>7, EndPlaces DEF AnswerProbe, GiveUpProbe, States
<1>8. CASE Restart BY <1>8, RestartPlaces
<1>9. CASE Boot \/ UNCHANGED vars BY <1>1, <1>9 DEF Boot, vars
<1>10. ASSUME NEW s \in Stores, Outage(s) \/ Return(s) PROVE Places'
  BY <1>1, <1>10 DEF Outage, Return
<1> QED BY <1>2, <1>3, <1>4, <1>5, <1>6, <1>7, <1>8, <1>9, <1>10 DEF Next

LEMMA InitPlaces == Init => Places
<1> SUFFICES ASSUME Init PROVE Places
  OBVIOUS
<1>1. \A h \in Handlers, k \in Pools : ~Waits(h, k)
  <2>1. \A k \in Pools : line[k] = <<>> BY DEF Init
  <2> QED BY <2>1, EmptySeq DEF Waits, Contains
<1>2. \A h \in Handlers : Placed(h)
  BY <1>1 DEF Init, Placed, Idle, InFlight
<1>3. <<>> \in Seq(Awaited) OBVIOUS
<1> QED BY <1>2, <1>3 DEF Init, Places

(* With either pool of any size and any mix of requests and probes, nobody *)
(* waits for a connection, for Redis or for Kafka with a connection in     *)
(* hand, and a line stands still only while handlers that wait for nothing *)
(* work with its pool (db.rs, find_client_cached, register).               *)
THEOREM NobodyBlocks == Spec => []NoCircularWait
<1>1. ASSUME IInv, Places PROVE NoCircularWait
  <2>1. ASSUME NEW h \in Handlers, InFlight(h)
        PROVE  todo[h] # <<>> /\ (Waiting(h) \/ Working(h))
    BY <1>1, <2>1 DEF Places, Placed
  <2>2. ASSUME NEW k \in Pools, ~Free(k)
        PROVE  \E h \in AtWork(k) : todo[h] # <<>> /\ Working(h)
    <3>1. Cardinality(AtWork(k)) = PoolSize BY <1>1, <2>2, FullPool
    <3>2. AtWork(k) # {} BY <3>1, FS_EmptySet, PodAssumption
    <3>3. PICK h \in AtWork(k) : TRUE BY <3>2
    <3>4. h \in Handlers /\ InFlight(h) /\ k \in held[h] BY <3>3 DEF AtWork
    <3>5. todo[h] # <<>> /\ Working(h)
      BY <1>1, <3>4 DEF Places, Placed, Waiting, Idle
    <3> QED BY <3>3, <3>5
  <2> QED BY <2>1, <2>2 DEF NoCircularWait
<1>2. Spec => []IInv
  <2>1. Init /\ [][Next]_vars => []IInv BY InitIInv, StepKeepsIInv, PTL
  <2> QED BY <2>1, PTL DEF Spec
<1>3. Spec => []Places
  <2>1. Init /\ [][Next]_vars => []Places BY InitPlaces, StepPlaces, InitIInv, StepKeepsIInv, PTL
  <2> QED BY <2>1, PTL DEF Spec
<1> QED BY <1>1, <1>2, <1>3, PTL
=============================================================================
