------------------------- MODULE UserService_proofs -------------------------
(***************************************************************************)
(* Typing of UserService, that an entry of Redis is out of date only while *)
(* a race that made it so can be named, and that no further key comes to   *)
(* be at risk once writes have stopped, for any requests, users and        *)
(* replicas.                                                               *)
(***************************************************************************)
EXTENDS UserService, TLAPS

(***************************************************************************)
(* The inductive invariant                                                 *)
(***************************************************************************)
(* Where a request can be, given what it asks, and that a user is created  *)
(* by one request only.                                                    *)
ControlOK(p) ==
    /\ pc[p] # "new" => p \in DOMAIN req
    /\ pc[p] \in {"cache", "read", "fill"} => req[p].kind \in {"get", "list"}
    /\ pc[p] \in {"write", "refresh", "drop"} => Writes(p)
    /\ p \in DOMAIN req /\ req[p].kind = "create" => req[p].id = p
    /\ p \in DOMAIN rows => pc[p] \notin {"new", "write"} /\ req[p].kind = "create"
    /\ got[p] <= lsn
Control == \A p \in Requests : ControlOK(p)

(* Nothing is stamped later than the log.                                  *)
RowLogged(id) == rows[id].goneAt <= lsn /\ \A w \in rows[id].writes : w <= lsn
EntryLogged(key) == cache[key].at <= lsn /\ cache[key].set <= lsn
Logged ==
    /\ \A id \in DOMAIN rows : RowLogged(id)
    /\ \A key \in DOMAIN cache : EntryLogged(key)

Inv1 == TypeOK /\ Control /\ Logged

(* As long as nothing has raced and no fault has happened, what is in      *)
(* Redis, or about to be, is what the primary holds, but for the entries   *)
(* of a write that is under way.                                           *)
Alone == \A p, q \in Requests : InFlight(p) /\ InFlight(q) => p = q
KeyFresh(key) == Fresh(key, cache[key].at) \/ \E p \in Requests : Pending(p, key)
ReadFresh(p) ==
    /\ pc[p] = "fill" => Fresh(Key(p), got[p])
    /\ pc[p] = "refresh" => got[p] = lsn
Calmly == ~raced /\ faults = 0
RacesNoted == Racing => raced
Coherent == Calmly =>
    /\ \A p \in Requests : ReadFresh(p)
    /\ \A key \in DOMAIN cache : KeyFresh(key)

IInv == Inv1 /\ StaleOnlyByRace /\ RacesNoted /\ Coherent

(***************************************************************************)
(* Tables                                                                  *)
(***************************************************************************)
(* SET, INSERT and UPDATE put one row in its place.                        *)
LEMMA InsertTyped ==
    ASSUME NEW table, NEW keys, NEW rowset, IsTable(table, keys, rowset),
           NEW key \in keys, NEW row \in rowset
    PROVE  IsTable(Insert(table, key, row), keys, rowset)
<1>1. Insert(table, key, row) \in [DOMAIN table \cup {key} -> rowset]
  BY DEF Insert, IsTable
<1> QED BY <1>1 DEF IsTable

(* A snapshot is stored.                                                   *)
LEMMA SetEntry ==
    ASSUME TypeOK, NEW key \in Keys, NEW point \in Nat, point <= lsn, SetCached(key, point)
    PROVE  /\ IsTable(cache', Keys, Entry)
           /\ cache'[key].at = point /\ cache'[key].set = lsn
           /\ \A k \in DOMAIN cache' :
                 \/ k \in DOMAIN cache /\ cache'[k] = cache[k]
                 \/ k = key /\ cache'[k].at = point /\ cache'[k].set = lsn
<1> DEFINE entry == [at |-> point, set |-> lsn]
<1>1. entry \in Entry /\ entry.at = point /\ entry.set = lsn
  BY DEF TypeOK, DbTypeOK, Entry
<1>2. cache' = Insert(cache, key, entry) /\ IsTable(cache, Keys, Entry)
  BY DEF SetCached, TypeOK
<1> HIDE DEF entry
<1>3. IsTable(cache', Keys, Entry)
  BY <1>1, <1>2, InsertTyped
<1>4. /\ DOMAIN Insert(cache, key, entry) = DOMAIN cache \cup {key}
      /\ Insert(cache, key, entry)[key] = entry
      /\ \A k \in DOMAIN cache \ {key} : Insert(cache, key, entry)[k] = cache[k]
  BY DEF Insert
<1>5. /\ DOMAIN cache' = DOMAIN cache \cup {key} /\ cache'[key] = entry
      /\ \A k \in DOMAIN cache \ {key} : cache'[k] = cache[k]
  BY <1>2, <1>4, Zenon
<1> QED BY <1>1, <1>3, <1>5

(* DEL and expiry take one entry away.                                     *)
LEMMA InvalidateEntry ==
    ASSUME NEW key, Invalidate(key)
    PROVE  /\ DOMAIN cache' = DOMAIN cache \ {key}
           /\ \A k \in DOMAIN cache' : cache'[k] = cache[k]
           /\ IsTable(cache, Keys, Entry) => IsTable(cache', Keys, Entry)
BY DEF Invalidate, IsTable

(***************************************************************************)
(* Typing                                                                  *)
(***************************************************************************)
LEMMA RequestKey ==
    ASSUME TypeOK, NEW p \in Requests, p \in DOMAIN req
    PROVE  /\ Key(p) \in Keys
           /\ req[p].kind # "list" => req[p].id \in Ids
BY DEF TypeOK, IsTable, Key, Keys, Request

(* A step of p to another label or to its end.                             *)
Moves(p) ==
    /\ pc' \in [Requests -> Labels] /\ reply' \in [Requests -> Replies]
    /\ \A q \in Requests \ {p} : pc'[q] = pc[q]

LEMMA GotoMoves ==
    ASSUME TypeOK, NEW p \in Requests, NEW label \in Labels, Goto(p, label)
    PROVE  Moves(p) /\ pc'[p] = label
BY DEF TypeOK, Goto, Moves

LEMMA FinishMoves ==
    ASSUME TypeOK, NEW p \in Requests, NEW outcome \in Replies, Finish(p, outcome)
    PROVE  Moves(p) /\ pc'[p] = "done"
BY DEF TypeOK, Finish, Moves, Labels

LEMMA FaultCounted ==
    ASSUME TypeOK, Calm \/ Fault
    PROVE  faults' \in 0 .. MaxFaults /\ (faults' = 0 => Calm /\ faults = 0)
BY UserAssumption DEF TypeOK, Calm, Fault

LEMMA KeepTyped ==
    ASSUME TypeOK, NEW p \in Requests, NEW point \in Nat, Keep(p, point)
    PROVE  /\ got' \in [Requests -> Nat] /\ got'[p] = point
           /\ \A q \in Requests \ {p} : got'[q] = got[q]
BY DEF TypeOK, Keep

LEMMA ReadPointsLogged ==
    ASSUME TypeOK, NEW point \in ReadPoints PROVE point \in Nat /\ point <= lsn
BY DEF TypeOK, DbTypeOK, ReadPoints

(***************************************************************************)
(* The kinds of step                                                       *)
(***************************************************************************)
(* Reads, failures and crashes: the tables and Redis stay as they are.     *)
QuietStep(p) ==
    /\ UNCHANGED <<dbVars, rows, cache, req>>
    /\ Moves(p) /\ (Calm \/ Fault)
    /\ InFlight(p) /\ pc'[p] \in {"read", "fill", "done"}
    /\ pc'[p] = "fill" => pc[p] = "read" /\ got'[p] \in ReadPoints
    /\ pc'[p] \in {"read", "fill"} => pc[p] \in {"cache", "read"}
    /\ got' \in [Requests -> Nat] /\ got'[p] <= lsn
    /\ \A q \in Requests \ {p} : got'[q] = got[q]
    /\ pc[p] \in {"refresh", "drop"} => Fault

(* Redis is written to.                                                    *)
CacheStep(p) ==
    /\ UNCHANGED <<dbVars, rows, req, got>>
    /\ IsTable(cache', Keys, Entry)
    /\ Moves(p) /\ (Calm \/ Fault)
    /\ \/ pc[p] = "fill" /\ pc'[p] = "done"
       \/ pc[p] = "refresh" /\ pc'[p] = "drop"
       \/ pc[p] = "drop" /\ pc'[p] = "done"
    /\ Calm => \/ pc[p] = "refresh" /\ req[p].id \notin DOMAIN cache'
               \/ /\ pc[p] = "refresh" /\ cache'[req[p].id].set = lsn
                  /\ cache'[req[p].id].at = got[p]
               \/ pc[p] = "drop" /\ ListKey \notin DOMAIN cache'
               \/ pc[p] = "fill"
    /\ \A key \in DOMAIN cache' :
          \/ key \in DOMAIN cache /\ cache'[key] = cache[key]
          \/ /\ cache'[key].at = got[p] /\ cache'[key].set = lsn
             /\ Storing(p, key)

(* The primary commits a statement.                                        *)
WriteStep(p) ==
    LET id == req[p].id IN
    /\ UNCHANGED <<cache, req>>
    /\ Commit
    /\ Moves(p) /\ pc[p] = "write" /\ Writes(p)
    /\ (Calm /\ pc'[p] = "refresh") \/ (Fault /\ pc'[p] = "done")
    /\ got' \in [Requests -> Nat] /\ got'[p] = lsn + 1
    /\ \A q \in Requests \ {p} : got'[q] = got[q]
    /\ IsTable(rows', Ids, Row)
    /\ DOMAIN rows' = DOMAIN rows \cup {id}
    /\ \A j \in DOMAIN rows \ {id} : rows'[j] = rows[j]
    /\ \/ id \notin DOMAIN rows /\ rows'[id] = [writes |-> {lsn + 1}, goneAt |-> Never]
       \/ id \in DOMAIN rows /\ rows'[id] = [rows[id] EXCEPT !.writes = @ \cup {lsn + 1}]
       \/ /\ id \in DOMAIN rows /\ rows'[id] = [rows[id] EXCEPT !.goneAt = lsn + 1]
          /\ rows[id].goneAt = Never
    /\ id \notin DOMAIN rows => id = p /\ req[p].kind = "create"

Surroundings ==
    \/ \E p \in Requests : Arrive(p)
    \/ \E key \in Keys : Expire(key)
    \/ \E r \in Replicas : Replicate(r)
    \/ UNCHANGED vars

(* The history of races only ever turns to TRUE.                           *)
LEMMA NoteStep ==
    ASSUME TypeOK, RacesNoted, [Next]_vars
    PROVE  RacesNoted' /\ raced' \in BOOLEAN /\ (raced => raced')
<1>1. CASE NoteRace
  BY <1>1 DEF NoteRace, RacesNoted
<1>2. CASE UNCHANGED vars
  BY <1>2 DEF vars, RacesNoted, Racing, Overlap, Lagging, InFlight, TypeOK
<1> QED BY <1>1, <1>2 DEF Next

(* Before the first race, who moves is alone and reads what is current.    *)
LEMMA NotRaced ==
    ASSUME RacesNoted, ~raced
    PROVE  /\ Alone
           /\ \A p \in Requests : pc[p] = "read" =>
                 \A point \in ReadPoints : point = lsn
<1>1. ~Overlap /\ ~Lagging
  BY DEF RacesNoted, Racing
<1> QED BY <1>1 DEF Overlap, Lagging, Alone, ReadPoints

LEMMA StepKinds ==
    ASSUME TypeOK, Control, Logged, [Next]_vars
    PROVE  \/ Surroundings
           \/ \E p \in Requests : QuietStep(p) \/ CacheStep(p) \/ WriteStep(p)
<1>0. lsn \in Nat /\ Never \in Nat
  BY DEF TypeOK, DbTypeOK, Never
<1>c. ASSUME NEW p \in Requests, p \in DOMAIN req PROVE Key(p) \in Keys
  BY <1>c, RequestKey
<1>1. ASSUME NEW p \in Requests, CheckCache(p) PROVE QuietStep(p)
  <2>1. CASE /\ Key(p) \in DOMAIN cache /\ Keep(p, cache[Key(p)].at)
             /\ Finish(p, "ok") /\ Calm
    <3>1. cache[Key(p)].at \in Nat /\ cache[Key(p)].at <= lsn
      BY <2>1 DEF TypeOK, IsTable, Entry, Logged, EntryLogged
    <3>2. Moves(p) /\ pc'[p] = "done"
      BY <2>1, FinishMoves DEF Replies
    <3> QED BY <1>1, <2>1, <3>1, <3>2, KeepTyped DEF CheckCache, QuietStep, InFlight
  <2>2. CASE /\ (Key(p) \notin DOMAIN cache /\ Calm) \/ Fault
             /\ Goto(p, "read") /\ UNCHANGED got
    <3>1. Moves(p) /\ pc'[p] = "read"
      BY <2>2, GotoMoves DEF Labels
    <3> QED BY <1>1, <2>2, <3>1 DEF CheckCache, QuietStep, InFlight, TypeOK, Control, ControlOK
  <2> QED BY <1>1, <2>1, <2>2 DEF CheckCache
<1>2. ASSUME NEW p \in Requests, ReadRows(p) PROVE QuietStep(p)
  <2>1. PICK point \in ReadPoints :
          \/ Found(p, point) /\ Keep(p, point) /\ Goto(p, "fill") /\ Calm
          \/ Finish(p, "NotFound") /\ Calm /\ UNCHANGED got
          \/ Failed(p) /\ UNCHANGED got
    BY <1>2 DEF ReadRows
  <2>2. CASE Keep(p, point) /\ Goto(p, "fill") /\ Calm
    <3>1. Moves(p) /\ pc'[p] = "fill"
      BY <2>2, GotoMoves DEF Labels
    <3>2. point \in Nat /\ point <= lsn
      BY ReadPointsLogged
    <3> QED BY <1>2, <2>2, <3>1, <3>2, KeepTyped DEF ReadRows, QuietStep, InFlight
  <2>3. CASE (Finish(p, "NotFound") \/ Finish(p, "InternalError")) /\ (Calm \/ Fault)
             /\ UNCHANGED got
    <3>1. Moves(p) /\ pc'[p] = "done"
      BY <2>3, FinishMoves DEF Replies
    <3> QED BY <1>2, <2>3, <3>1 DEF ReadRows, QuietStep, InFlight, TypeOK, Control, ControlOK
  <2> QED BY <2>1, <2>2, <2>3 DEF Failed
<1>3. ASSUME NEW p \in Requests, Missing(p) \/ Crash(p) \/ (Failed(p) /\ UNCHANGED
             <<dbVars, rows, cache, req, got>> /\ pc[p] = "write")
      PROVE QuietStep(p)
  <2>1. Moves(p) /\ pc'[p] = "done"
    BY <1>3, FinishMoves DEF Missing, Crash, Failed, Replies
  <2> QED BY <1>3, <2>1
          DEF Missing, Crash, Failed, QuietStep, InFlight, TypeOK, Control, ControlOK, Calm
<1>4. ASSUME NEW p \in Requests, FillCache(p) PROVE CacheStep(p)
  <2>1. Moves(p) /\ pc'[p] = "done"
    BY <1>4, FinishMoves DEF FillCache, Replies
  <2>2. /\ IsTable(cache', Keys, Entry)
        /\ \A key \in DOMAIN cache' :
              \/ key \in DOMAIN cache /\ cache'[key] = cache[key]
              \/ key = Key(p) /\ cache'[key].at = got[p] /\ cache'[key].set = lsn
    <3>1. CASE SetCached(Key(p), got[p])
      <4>1. Key(p) \in Keys /\ got[p] \in Nat /\ got[p] <= lsn
        BY <1>4, <1>c DEF FillCache, TypeOK, Control, ControlOK
      <4> QED BY <3>1, <4>1, SetEntry
    <3>2. CASE UNCHANGED cache
      BY <3>2 DEF TypeOK, IsTable
    <3> QED BY <1>4, <3>1, <3>2 DEF FillCache, Ignored
  <2> QED BY <1>4, <2>1, <2>2 DEF FillCache, CacheStep, Ignored, Storing
<1>5. ASSUME NEW p \in Requests, RefreshEntry(p) PROVE CacheStep(p)
  <2>1. Moves(p) /\ pc'[p] = "drop"
    BY <1>5, GotoMoves DEF RefreshEntry, Labels
  <2>2. req[p].id \in Ids /\ got[p] \in Nat /\ got[p] <= lsn
    BY <1>5, RequestKey DEF RefreshEntry, TypeOK, Control, ControlOK, Writes
  <2>3. CASE SetCached(req[p].id, got[p]) /\ Calm /\ req[p].kind # "delete"
    <3>1. req[p].id \in Keys
      BY <2>2 DEF Keys
    <3> QED BY <1>5, <2>1, <2>2, <2>3, <3>1, SetEntry DEF RefreshEntry, CacheStep, Storing
  <2>4. CASE Invalidate(req[p].id) /\ Calm
    BY <1>5, <2>1, <2>4, InvalidateEntry DEF RefreshEntry, CacheStep, TypeOK
  <2>5. CASE Ignored
    <3>1. ~Calm
      BY <2>5, UserAssumption DEF Ignored, Fault, Calm, TypeOK
    <3> QED BY <1>5, <2>1, <2>5, <3>1 DEF RefreshEntry, CacheStep, Ignored, TypeOK, IsTable
  <2> QED BY <1>5, <2>3, <2>4, <2>5 DEF RefreshEntry
<1>6. ASSUME NEW p \in Requests, DropList(p) PROVE CacheStep(p)
  <2>1. Moves(p) /\ pc'[p] = "done"
    BY <1>6, FinishMoves DEF DropList, Replies
  <2>2. CASE Invalidate(ListKey) /\ Calm
    BY <1>6, <2>1, <2>2, InvalidateEntry DEF DropList, CacheStep, TypeOK
  <2>3. CASE Ignored
    <3>1. ~Calm
      BY <2>3, UserAssumption DEF Ignored, Fault, Calm, TypeOK
    <3> QED BY <1>6, <2>1, <2>3, <3>1 DEF DropList, CacheStep, Ignored, TypeOK, IsTable
  <2> QED BY <1>6, <2>2, <2>3 DEF DropList
<1>7. ASSUME NEW p \in Requests, CreateUser(p) \/ UpdateUser(p) \/ DeleteUser(p)
      PROVE  QuietStep(p) \/ WriteStep(p)
  <2> DEFINE id == req[p].id
  <2>1. /\ pc[p] = "write" /\ id \in Ids /\ Writes(p) /\ UNCHANGED <<cache, req>>
    BY <1>7, RequestKey DEF CreateUser, UpdateUser, DeleteUser, Writes, Control, ControlOK
  <2>2. PICK row \in Row :
          /\ Written(p, row)
          /\ \/ /\ id \notin DOMAIN rows /\ id = p /\ req[p].kind = "create"
                /\ row = [writes |-> {lsn + 1}, goneAt |-> Never]
             \/ id \in DOMAIN rows /\ row = [rows[id] EXCEPT !.writes = @ \cup {lsn + 1}]
             \/ /\ id \in DOMAIN rows /\ row = [rows[id] EXCEPT !.goneAt = lsn + 1]
                /\ rows[id].goneAt = Never
    <3>1. CASE CreateUser(p)
      <4>1. id \notin DOMAIN rows /\ id = p /\ req[p].kind = "create"
        BY <2>1, <3>1 DEF CreateUser, Control, ControlOK
      <4>2. [writes |-> {lsn + 1}, goneAt |-> Never] \in Row
        BY <1>0 DEF Row
      <4> QED BY <3>1, <4>1, <4>2 DEF CreateUser
    <3>2. CASE UpdateUser(p) \/ DeleteUser(p)
      <4>1. id \in DOMAIN rows /\ rows[id] \in Row /\ ~Holds(rows[id].goneAt, lsn)
        BY <3>2 DEF UpdateUser, DeleteUser, Exists, TypeOK, IsTable
      <4>2. rows[id].goneAt = Never
        BY <4>1 DEF Holds, Logged, RowLogged
      <4>3. [rows[id] EXCEPT !.writes = @ \cup {lsn + 1}] \in Row
        BY <1>0, <4>1 DEF Row
      <4>4. [rows[id] EXCEPT !.goneAt = lsn + 1] \in Row
        BY <1>0, <4>1 DEF Row
      <4> QED BY <3>2, <4>1, <4>2, <4>3, <4>4 DEF UpdateUser, DeleteUser
    <3> QED BY <1>7, <3>1, <3>2
  <2>3. CASE Failed(p) /\ UNCHANGED <<dbVars, rows, got>>
    BY <1>3, <2>1, <2>3
  <2>4. CASE /\ rows' = Insert(rows, id, row) /\ Commit /\ Keep(p, lsn + 1)
             /\ (Goto(p, "refresh") /\ Calm) \/ Failed(p)
    <3>1. IsTable(rows', Ids, Row)
      BY <2>1, <2>4, InsertTyped DEF TypeOK
    <3>2. /\ DOMAIN rows' = DOMAIN rows \cup {id} /\ rows'[id] = row
          /\ \A j \in DOMAIN rows \ {id} : rows'[j] = rows[j]
      <4>1. /\ DOMAIN Insert(rows, id, row) = DOMAIN rows \cup {id}
            /\ Insert(rows, id, row)[id] = row
            /\ \A j \in DOMAIN rows \ {id} : Insert(rows, id, row)[j] = rows[j]
        BY DEF Insert
      <4> QED BY <2>4, <4>1, Zenon
    <3>3. /\ got' \in [Requests -> Nat] /\ got'[p] = lsn + 1
          /\ \A q \in Requests \ {p} : got'[q] = got[q]
      BY <1>0, <2>4, KeepTyped
    <3>4. Moves(p) /\ ((Calm /\ pc'[p] = "refresh") \/ (Fault /\ pc'[p] = "done"))
      BY <2>4, GotoMoves, FinishMoves DEF Failed, Labels, Replies
    <3> QED BY <2>1, <2>2, <2>4, <3>1, <3>2, <3>3, <3>4 DEF WriteStep
  <2> QED BY <2>2, <2>3, <2>4 DEF Written
<1> QED
  BY <1>1, <1>2, <1>3, <1>4, <1>5, <1>6, <1>7 DEF Next, Step, Handle, Surroundings

(***************************************************************************)
(* Typing                                                                  *)
(***************************************************************************)
LEMMA TypeInit == Init => TypeOK
<1> SUFFICES ASSUME Init PROVE TypeOK
  OBVIOUS
<1>1. raced \in BOOLEAN
  BY DEF Init
<1> QED
  BY <1>1, UserAssumption
  DEF Init, TypeOK, DbInit, DbTypeOK, IsTable, Ids, Row, Empty, Labels, Replies, Seeded, Never

LEMMA SurroundingsTyped ==
    ASSUME TypeOK, Surroundings, raced' \in BOOLEAN PROVE TypeOK'
<1>1. CASE \E p \in Requests : Arrive(p)
  <2>1. PICK p \in Requests, r \in Request :
          /\ req' = Insert(req, p, r)
          /\ Goto(p, IF r.kind \in {"get", "list"} THEN "cache" ELSE "write")
          /\ UNCHANGED <<dbVars, rows, cache, got, faults>>
    BY <1>1 DEF Arrive
  <2>2. IsTable(req', Requests, Request)
    BY <2>1, InsertTyped DEF TypeOK
  <2>3. Moves(p)
    BY <2>1, GotoMoves DEF Labels
  <2> QED BY <2>1, <2>2, <2>3 DEF TypeOK, DbTypeOK, dbVars, Moves
<1>2. CASE \E key \in Keys : Expire(key)
  BY <1>2, InvalidateEntry DEF Expire, TypeOK, DbTypeOK, dbVars, handlers
<1>3. CASE \E r \in Replicas : Replicate(r)
  <2>1. PICK r \in Replicas : Replicate(r) BY <1>3
  <2>2. /\ lsn' = lsn /\ timeline' = timeline
        /\ applied[r] < lsn /\ applied' = [applied EXCEPT ![r] = @ + 1]
    BY <2>1 DEF Replicate, Replay
  <2>3. DbTypeOK'
    BY <2>2 DEF TypeOK, DbTypeOK
  <2> QED BY <2>1, <2>3 DEF Replicate, handlers, TypeOK
<1>4. CASE UNCHANGED vars
  BY <1>4 DEF vars, TypeOK, DbTypeOK
<1> QED BY <1>1, <1>2, <1>3, <1>4 DEF Surroundings

LEMMA CommitTyped ==
    ASSUME DbTypeOK, Commit PROVE DbTypeOK' /\ lsn' = lsn + 1
<1>1. /\ lsn \in Nat \ {Never} /\ lsn' = lsn + 1 /\ timeline' = timeline /\ timeline \in Nat
      /\ applied' = applied /\ applied \in [Replicas -> 1 .. lsn]
  BY DEF Commit, DbTypeOK
<1>2. lsn' \in Nat \ {Never} /\ 1 .. lsn \subseteq 1 .. lsn'
  BY <1>1 DEF Never
<1>3. applied' \in [Replicas -> 1 .. lsn']
  BY <1>1, <1>2
<1> QED BY <1>1, <1>2, <1>3 DEF DbTypeOK

LEMMA TypeStep ==
    ASSUME TypeOK, Control, Logged, RacesNoted, [Next]_vars PROVE TypeOK'
<1>0. raced' \in BOOLEAN
  BY NoteStep
<1>1. CASE Surroundings
  BY <1>0, <1>1, SurroundingsTyped
<1>2. ASSUME NEW p \in Requests, QuietStep(p) PROVE TypeOK'
  BY <1>0, <1>2, FaultCounted DEF QuietStep, Moves, TypeOK, DbTypeOK, dbVars
<1>3. ASSUME NEW p \in Requests, CacheStep(p) PROVE TypeOK'
  BY <1>0, <1>3, FaultCounted DEF CacheStep, Moves, TypeOK, DbTypeOK, dbVars
<1>4. ASSUME NEW p \in Requests, WriteStep(p) PROVE TypeOK'
  <2>1. DbTypeOK'
    BY <1>4, CommitTyped DEF WriteStep, TypeOK
  <2>2. faults' \in 0 .. MaxFaults
    BY <1>4, FaultCounted DEF WriteStep
  <2> QED BY <1>0, <1>4, <2>1, <2>2 DEF WriteStep, Moves, TypeOK
<1> QED BY <1>1, <1>2, <1>3, <1>4, StepKinds

(***************************************************************************)
(* Control and the log                                                     *)
(***************************************************************************)
LEMMA OrderInit == Init => Control /\ Logged
BY UserAssumption
DEF Init, DbInit, Control, ControlOK, Logged, RowLogged, EntryLogged, Empty, Seeded, Never

LEMMA ControlStep == ASSUME TypeOK, Control, Logged, [Next]_vars PROVE Control'
<1>1. CASE \E p \in Requests : Arrive(p)
  <2>1. PICK p \in Requests, r \in Request :
          /\ Free(p)
          /\ r.kind = "create" => r.id = p
          /\ req' = Insert(req, p, r)
          /\ Goto(p, IF r.kind \in {"get", "list"} THEN "cache" ELSE "write")
          /\ UNCHANGED <<dbVars, rows, cache, got, faults>>
    BY <1>1 DEF Arrive
  <2>2. /\ DOMAIN req' = DOMAIN req \cup {p} /\ req'[p] = r
        /\ \A q \in DOMAIN req \ {p} : req'[q] = req[q]
    <3>1. /\ DOMAIN Insert(req, p, r) = DOMAIN req \cup {p}
          /\ Insert(req, p, r)[p] = r
          /\ \A q \in DOMAIN req \ {p} : Insert(req, p, r)[q] = req[q]
      BY DEF Insert
    <3> QED BY <2>1, <3>1
  <2>3. Moves(p) /\ pc'[p] = IF r.kind \in {"get", "list"} THEN "cache" ELSE "write"
    BY <2>1, GotoMoves DEF Labels
  <2>4. ControlOK(p)'
    <3>1. r.kind \in {"create", "get", "update", "delete", "list"}
      BY DEF Request
    <3>2. p \notin DOMAIN rows
      BY <2>1 DEF Free, Writes, Control, ControlOK
    <3> QED BY <2>1, <2>2, <2>3, <3>1, <3>2 DEF Control, ControlOK, Writes, dbVars
  <2>5. ASSUME NEW q \in Requests \ {p} PROVE ControlOK(q)'
    <3>1. ControlOK(q) /\ pc'[q] = pc[q]
      BY <2>3 DEF Control, Moves
    <3> QED BY <2>1, <2>2, <3>1 DEF ControlOK, Writes, dbVars
  <2> QED BY <2>4, <2>5 DEF Control
<1>2. CASE \E key \in Keys : Expire(key)
  BY <1>2 DEF Expire, handlers, dbVars, Control, ControlOK, Writes
<1>3. CASE \E r \in Replicas : Replicate(r)
  BY <1>3 DEF Replicate, Replay, handlers, Control, ControlOK, Writes
<1>4. CASE UNCHANGED vars
  BY <1>4 DEF vars, Control, ControlOK, Writes
<1>5. ASSUME NEW p \in Requests, QuietStep(p) PROVE Control'
  <2>1. ASSUME NEW q \in Requests PROVE ControlOK(q)'
    BY <1>5, <2>1 DEF QuietStep, InFlight, Moves, dbVars, Control, ControlOK, Writes
  <2> QED BY <2>1 DEF Control
<1>6. ASSUME NEW p \in Requests, CacheStep(p) PROVE Control'
  <2>1. ASSUME NEW q \in Requests PROVE ControlOK(q)'
    BY <1>6, <2>1 DEF CacheStep, Moves, dbVars, Control, ControlOK, Writes
  <2> QED BY <2>1 DEF Control
<1>7. ASSUME NEW p \in Requests, WriteStep(p) PROVE Control'
  <2>0. lsn' = lsn + 1 /\ lsn \in Nat /\ got \in [Requests -> Nat]
    BY <1>7, CommitTyped DEF WriteStep, TypeOK, DbTypeOK
  <2>1. ASSUME NEW q \in Requests PROVE ControlOK(q)'
    <3>1. CASE q = p
      BY <1>7, <2>0, <3>1 DEF WriteStep, Moves, Control, ControlOK, Writes
    <3>2. CASE q # p
      <4>1. pc'[q] = pc[q] /\ req' = req /\ got'[q] = got[q] /\ got[q] \in Nat
        BY <1>7, <2>0, <3>2 DEF WriteStep, Moves
      <4>2. q \in DOMAIN rows' => q \in DOMAIN rows
        BY <1>7, <3>2 DEF WriteStep
      <4> QED BY <2>0, <4>1, <4>2 DEF Control, ControlOK, Writes
    <3> QED BY <3>1, <3>2
  <2> QED BY <2>1 DEF Control
<1> QED BY <1>1, <1>2, <1>3, <1>4, <1>5, <1>6, <1>7, StepKinds DEF Surroundings

LEMMA LoggedStep == ASSUME TypeOK, Control, Logged, [Next]_vars PROVE Logged'
<1>1. CASE Surroundings
  <2>1. UNCHANGED <<rows, lsn>>
    BY <1>1 DEF Surroundings, Arrive, Expire, Replicate, Replay, dbVars, vars
  <2>2. DOMAIN cache' \subseteq DOMAIN cache /\ \A k \in DOMAIN cache' : cache'[k] = cache[k]
    BY <1>1, InvalidateEntry DEF Surroundings, Arrive, Expire, Replicate, vars
  <2> QED BY <2>1, <2>2 DEF Logged, RowLogged, EntryLogged
<1>2. ASSUME NEW p \in Requests, QuietStep(p) PROVE Logged'
  BY <1>2 DEF QuietStep, dbVars, Logged, RowLogged, EntryLogged
<1>3. ASSUME NEW p \in Requests, CacheStep(p) PROVE Logged'
  <2>0. UNCHANGED <<rows, lsn>> /\ lsn \in Nat /\ got[p] <= lsn
    BY <1>3 DEF CacheStep, dbVars, TypeOK, DbTypeOK, Control, ControlOK
  <2>1. ASSUME NEW k \in DOMAIN cache' PROVE EntryLogged(k)'
    BY <1>3, <2>0 DEF CacheStep, Logged, EntryLogged
  <2> QED BY <2>0, <2>1 DEF Logged, RowLogged
<1>4. ASSUME NEW p \in Requests, WriteStep(p) PROVE Logged'
  <2>0. lsn' = lsn + 1 /\ lsn \in Nat /\ Never \in Nat /\ Never <= lsn
    BY <1>4, CommitTyped DEF WriteStep, TypeOK, DbTypeOK, Never
  <2>1. ASSUME NEW j \in DOMAIN rows' PROVE RowLogged(j)'
    <3>1. CASE j # req[p].id
      <4>1. j \in DOMAIN rows /\ rows'[j] = rows[j] /\ rows[j] \in Row
        BY <1>4, <3>1 DEF WriteStep, TypeOK, IsTable
      <4> QED BY <2>0, <4>1 DEF Logged, RowLogged, Row
    <3>2. CASE j = req[p].id
      <4>1. CASE rows'[j] = [writes |-> {lsn + 1}, goneAt |-> Never]
        BY <2>0, <4>1 DEF RowLogged
      <4>2. CASE j \in DOMAIN rows /\ rows'[j] = [rows[j] EXCEPT !.writes = @ \cup {lsn + 1}]
        BY <2>0, <4>2 DEF Logged, RowLogged, TypeOK, IsTable, Row
      <4>3. CASE j \in DOMAIN rows /\ rows'[j] = [rows[j] EXCEPT !.goneAt = lsn + 1]
        BY <2>0, <4>3 DEF Logged, RowLogged, TypeOK, IsTable, Row
      <4> QED BY <1>4, <3>2, <4>1, <4>2, <4>3 DEF WriteStep
    <3> QED BY <3>1, <3>2
  <2>2. ASSUME NEW k \in DOMAIN cache' PROVE EntryLogged(k)'
    BY <1>4, <2>0, <2>2 DEF WriteStep, Logged, EntryLogged, TypeOK, IsTable, Entry
  <2> QED BY <2>1, <2>2 DEF Logged
<1> QED BY <1>1, <1>2, <1>3, <1>4, StepKinds
(***************************************************************************)
(* What a table shows at a position of the log                             *)
(***************************************************************************)
ExistsIn(table, id, n) ==
    /\ id \in DOMAIN table
    /\ \E w \in table[id].writes : w <= n
    /\ ~Holds(table[id].goneAt, n)
VersionIn(table, id, n) ==
    IF ExistsIn(table, id, n) THEN Latest({w \in table[id].writes : w <= n}) ELSE Never
ViewIn(table, key, n) ==
    IF key = ListKey THEN [id \in Ids |-> VersionIn(table, id, n)]
    ELSE VersionIn(table, key, n)

(* A statement changes nothing of what was there before it.                *)
LEMMA VersionKept ==
    ASSUME TypeOK, Logged, NEW p \in Requests, WriteStep(p),
           NEW n \in Nat, n <= lsn, NEW j \in Ids
    PROVE  VersionIn(rows', j, n) = VersionIn(rows, j, n)
<1>0. lsn \in Nat /\ Never = 0
  BY DEF TypeOK, DbTypeOK, Never
<1>1. CASE j # req[p].id
  BY <1>1 DEF WriteStep, VersionIn, ExistsIn
<1>2. CASE j = req[p].id /\ j \notin DOMAIN rows
  <2>1. j \in DOMAIN rows' /\ rows'[j] = [writes |-> {lsn + 1}, goneAt |-> Never]
    BY <1>2 DEF WriteStep
  <2>2. ~ExistsIn(rows, j, n) /\ ~ExistsIn(rows', j, n)
    BY <1>0, <1>2, <2>1 DEF ExistsIn
  <2> QED BY <2>2 DEF VersionIn
<1>3. CASE j = req[p].id /\ j \in DOMAIN rows
  <2>1. j \in DOMAIN rows' /\ rows[j] \in Row /\ rows[j].goneAt <= lsn
    BY <1>3 DEF WriteStep, TypeOK, IsTable, Logged, RowLogged
  <2>2. {w \in rows'[j].writes : w <= n} = {w \in rows[j].writes : w <= n}
    BY <1>0, <1>3, <2>1 DEF WriteStep, Row
  <2>3. Holds(rows'[j].goneAt, n) <=> Holds(rows[j].goneAt, n)
    BY <1>0, <1>3, <2>1 DEF WriteStep, Row, Holds
  <2>4. ExistsIn(rows', j, n) <=> ExistsIn(rows, j, n)
    BY <1>3, <2>1, <2>2, <2>3 DEF ExistsIn
  <2> QED BY <2>2, <2>4 DEF VersionIn
<1> QED BY <1>1, <1>2, <1>3

LEMMA ViewKept ==
    ASSUME TypeOK, Logged, NEW p \in Requests, WriteStep(p),
           NEW n \in Nat, n <= lsn, NEW key \in Keys
    PROVE  ViewIn(rows', key, n) = ViewIn(rows, key, n)
<1>1. CASE key = ListKey
  BY <1>1, VersionKept DEF ViewIn
<1>2. CASE key # ListKey
  BY <1>2, VersionKept DEF ViewIn, Keys
<1> QED BY <1>1, <1>2

(* Of the users it does not name, it changes nothing at all.               *)
LEMMA OthersKept ==
    ASSUME TypeOK, Logged, NEW p \in Requests, WriteStep(p),
           NEW j \in Ids, j # req[p].id
    PROVE  VersionIn(rows', j, lsn') = VersionIn(rows, j, lsn)
<1>0. lsn \in Nat /\ lsn' = lsn + 1 /\ Never = 0
  BY CommitTyped DEF WriteStep, TypeOK, DbTypeOK, Never
<1>1. CASE j \notin DOMAIN rows
  <2>1. j \notin DOMAIN rows'
    BY <1>1 DEF WriteStep
  <2> QED BY <1>1, <2>1 DEF VersionIn, ExistsIn
<1>2. CASE j \in DOMAIN rows
  <2>1. /\ j \in DOMAIN rows' /\ rows'[j] = rows[j] /\ rows[j] \in Row
        /\ rows[j].goneAt <= lsn /\ \A w \in rows[j].writes : w <= lsn
    BY <1>2 DEF WriteStep, TypeOK, IsTable, Logged, RowLogged
  <2>2. {w \in rows'[j].writes : w <= lsn'} = {w \in rows[j].writes : w <= lsn}
    BY <1>0, <2>1 DEF Row
  <2>3. Holds(rows'[j].goneAt, lsn') <=> Holds(rows[j].goneAt, lsn)
    BY <1>0, <2>1 DEF Row, Holds
  <2>4. ExistsIn(rows', j, lsn') <=> ExistsIn(rows, j, lsn)
    <3>1. (\E w \in rows'[j].writes : w <= lsn') <=> (\E w \in rows[j].writes : w <= lsn)
      BY <2>2
    <3> QED BY <1>2, <2>1, <2>3, <3>1 DEF ExistsIn
  <2> QED BY <2>2, <2>4 DEF VersionIn
<1> QED BY <1>1, <1>2

(***************************************************************************)
(* Races                                                                   *)
(***************************************************************************)
Excused(key) ==
    \/ Fresh(key, cache[key].at)
    \/ View(key, cache[key].at) # View(key, cache[key].set)
    \/ \E p \in Requests : Pending(p, key)

LEMMA ExcusedBy ==
    ASSUME NEW key
    PROVE  /\ Excused(key) <=>
                \/ ViewIn(rows, key, cache[key].at) = ViewIn(rows, key, lsn)
                \/ ViewIn(rows, key, cache[key].at) # ViewIn(rows, key, cache[key].set)
                \/ \E p \in Requests : Pending(p, key)
           /\ Excused(key)' <=>
                \/ ViewIn(rows', key, cache'[key].at) = ViewIn(rows', key, lsn')
                \/ ViewIn(rows', key, cache'[key].at) # ViewIn(rows', key, cache'[key].set)
                \/ \E p \in Requests : Pending(p, key)'
BY DEF Excused, Fresh, View, VersionAt, Exists, ViewIn, VersionIn, ExistsIn

(* An entry that stays is excused as before, unless a write has just       *)
(* reached it.                                                             *)
LEMMA ExcuseKept ==
    ASSUME NEW key, Excused(key), cache'[key] = cache[key], UNCHANGED <<rows, lsn>>,
           \A q \in Requests : Pending(q, key) => Pending(q, key)'
    PROVE  Excused(key)'
BY ExcusedBy

(* One stored now is as good as the primary, or was out of date already.   *)
LEMMA StoredExcused ==
    ASSUME NEW key, cache'[key].set = lsn, UNCHANGED <<rows, lsn>>
    PROVE  Excused(key)'
BY ExcusedBy

LEMMA RacesStep == ASSUME IInv, [Next]_vars PROVE StaleOnlyByRace'
<1> SUFFICES ASSUME faults' = 0, NEW key \in DOMAIN cache' PROVE Excused(key)'
  BY DEF StaleOnlyByRace, Excused
<1>0. TypeOK /\ Control /\ Logged
  BY DEF IInv, Inv1
<1>a. ASSUME faults = 0, key \in DOMAIN cache PROVE Excused(key)
  BY <1>a DEF IInv, Inv1, StaleOnlyByRace, Excused
<1>1. CASE Surroundings
  <2>1. /\ UNCHANGED <<rows, lsn, faults>> /\ key \in DOMAIN cache /\ cache'[key] = cache[key]
    BY <1>1, InvalidateEntry
    DEF Surroundings, Arrive, Expire, Replicate, Replay, dbVars, vars
  <2>2. ASSUME NEW q \in Requests, Pending(q, key) PROVE Pending(q, key)'
    <3>1. pc[q] \in {"refresh", "drop"}
      BY <2>2 DEF Pending
    <3>2. CASE \E p \in Requests : Arrive(p)
      <4>1. PICK p \in Requests, r \in Request :
              /\ pc[p] \in {"new", "done"} /\ req' = Insert(req, p, r)
              /\ Goto(p, IF r.kind \in {"get", "list"} THEN "cache" ELSE "write")
        BY <3>2 DEF Arrive, Free
      <4>2. Moves(p) /\ q # p
        BY <1>0, <3>1, <4>1, GotoMoves DEF Labels
      <4>3. pc'[q] = pc[q] /\ q \in DOMAIN req
        BY <1>0, <3>1, <4>2 DEF Moves, Control, ControlOK
      <4>4. req'[q] = req[q]
        BY <4>1, <4>2, <4>3 DEF Insert
      <4> QED BY <2>2, <4>3, <4>4 DEF Pending, InFlight, Writes
    <3>3. CASE UNCHANGED <<pc, req>>
      BY <2>2, <3>3 DEF Pending, InFlight, Writes
    <3> QED BY <1>1, <3>2, <3>3 DEF Surroundings, Expire, Replicate, handlers, vars
  <2> QED BY <1>a, <2>1, <2>2, ExcuseKept
<1>2. ASSUME NEW p \in Requests, QuietStep(p) PROVE Excused(key)'
  <2>1. /\ UNCHANGED <<rows, lsn, cache, req>> /\ faults = 0 /\ Calm
        /\ pc[p] \notin {"refresh", "drop"} /\ \A q \in Requests \ {p} : pc'[q] = pc[q]
    <3>1. Calm /\ faults = 0
      BY <1>0, <1>2, FaultCounted DEF QuietStep
    <3>2. ~Fault
      BY <1>0, <3>1 DEF Calm, Fault
    <3> QED BY <1>2, <3>1, <3>2 DEF QuietStep, dbVars, Moves
  <2>2. ASSUME NEW q \in Requests, Pending(q, key) PROVE Pending(q, key)'
    BY <2>1, <2>2 DEF Pending, InFlight, Writes
  <2> QED BY <1>a, <2>1, <2>2, ExcuseKept
<1>3. ASSUME NEW p \in Requests, CacheStep(p) PROVE Excused(key)'
  <2>1. Calm /\ faults = 0
    BY <1>0, <1>3, FaultCounted DEF CacheStep
  <2>2. UNCHANGED <<rows, lsn, req>> /\ \A q \in Requests \ {p} : pc'[q] = pc[q]
    BY <1>3 DEF CacheStep, dbVars, Moves
  <2>3. CASE cache'[key].set = lsn
    BY <2>2, <2>3, StoredExcused
  <2>4. CASE cache'[key].set # lsn
    <3>1. key \in DOMAIN cache /\ cache'[key] = cache[key]
      BY <1>3, <2>4 DEF CacheStep
    <3>2. ASSUME NEW q \in Requests, Pending(q, key) PROVE Pending(q, key)'
      <4>1. CASE q # p
        BY <2>2, <3>2, <4>1 DEF Pending, InFlight, Writes
      <4>2. CASE q = p
        BY <1>3, <2>1, <2>2, <2>4, <3>2, <4>2 DEF CacheStep, Pending, InFlight, Writes
      <4> QED BY <4>1, <4>2
    <3> QED BY <1>a, <2>1, <2>2, <3>1, <3>2, ExcuseKept
  <2> QED BY <2>3, <2>4
<1>4. ASSUME NEW p \in Requests, WriteStep(p) PROVE Excused(key)'
  <2>1. /\ Calm /\ faults = 0 /\ pc'[p] = "refresh"
    <3>1. Calm /\ faults = 0
      BY <1>0, <1>4, FaultCounted DEF WriteStep
    <3>2. ~Fault
      BY <1>0, <3>1 DEF Calm, Fault
    <3> QED BY <1>4, <3>1, <3>2 DEF WriteStep
  <2>2. /\ UNCHANGED <<cache, req>> /\ key \in Keys /\ cache[key] \in Entry
        /\ cache[key].at <= lsn /\ cache[key].set <= lsn
        /\ pc[p] = "write" /\ Writes(p) /\ \A q \in Requests \ {p} : pc'[q] = pc[q]
    BY <1>0, <1>4 DEF WriteStep, Moves, TypeOK, IsTable, Logged, EntryLogged
  <2>3. CASE key \in {req[p].id, ListKey}
    <3>1. Pending(p, key)'
      BY <2>1, <2>2, <2>3 DEF Pending, InFlight, Writes
    <3> QED BY <3>1, ExcusedBy
  <2>4. CASE key \notin {req[p].id, ListKey}
    <3>1. key \in Ids
      BY <2>2, <2>4 DEF Keys
    <3>2. /\ ViewIn(rows', key, cache[key].at) = ViewIn(rows, key, cache[key].at)
          /\ ViewIn(rows', key, cache[key].set) = ViewIn(rows, key, cache[key].set)
      BY <1>0, <1>4, <2>2, ViewKept DEF Entry
    <3>3. ViewIn(rows', key, lsn') = ViewIn(rows, key, lsn)
      BY <1>0, <1>4, <2>4, <3>1, OthersKept DEF ViewIn
    <3>4. ASSUME NEW q \in Requests, Pending(q, key) PROVE Pending(q, key)'
      BY <2>2, <3>4 DEF Pending, InFlight, Writes
    <3> QED BY <1>a, <2>1, <2>2, <3>2, <3>3, <3>4, ExcusedBy
  <2> QED BY <2>3, <2>4
<1> QED BY <1>0, <1>1, <1>2, <1>3, <1>4, StepKinds

(***************************************************************************)
(* Before the first race                                                   *)
(***************************************************************************)
(* Freshness in terms of the tables before and after a step.               *)
LEMMA FreshBy ==
    /\ \A key, n : Fresh(key, n) <=> ViewIn(rows, key, n) = ViewIn(rows, key, lsn)
    /\ \A key : Fresh(key, cache[key].at)' <=>
          ViewIn(rows', key, cache'[key].at) = ViewIn(rows', key, lsn')
    /\ \A p : Fresh(Key(p), got[p])' <=>
          ViewIn(rows', Key(p)', got'[p]) = ViewIn(rows', Key(p)', lsn')
BY DEF Fresh, View, VersionAt, Exists, ViewIn, VersionIn, ExistsIn

(* The same, of any key and of what a request has read or written.         *)
LEMMA FreshIn ==
    \A key, p : Fresh(key, got[p])' <=>
        ViewIn(rows', key, got'[p]) = ViewIn(rows', key, lsn')
BY DEF Fresh, View, VersionAt, Exists, ViewIn, VersionIn, ExistsIn

LEMMA CalmlyBefore ==
    ASSUME TypeOK, Calmly', Calm \/ Fault, raced => raced' PROVE Calmly /\ Calm /\ ~Fault
BY FaultCounted DEF Calmly, Calm, Fault, TypeOK

(* Surroundings: nobody else is in flight when a request arrives.          *)
LEMMA CoherentSurroundings ==
    ASSUME Inv1, Coherent, Surroundings, RacesNoted', raced => raced' PROVE Coherent'
<1> SUFFICES ASSUME Calmly' PROVE Coherent'
  BY DEF Coherent
<1>0. /\ UNCHANGED <<rows, lsn, faults, got>> /\ Calmly
      /\ \A key \in DOMAIN cache' : key \in DOMAIN cache /\ cache'[key] = cache[key]
  BY InvalidateEntry
  DEF Surroundings, Arrive, Expire, Replicate, Replay, dbVars, vars, Calmly
<1>1. /\ \A p \in Requests : ReadFresh(p)
      /\ \A key \in DOMAIN cache : KeyFresh(key)
  BY <1>0 DEF Coherent
<1>2. ASSUME NEW key \in DOMAIN cache', Fresh(key, cache[key].at)
      PROVE  Fresh(key, cache[key].at)'
  BY <1>0, <1>2, FreshBy
<1>3. CASE \E p \in Requests : Arrive(p)
  <2>1. PICK p \in Requests, r \in Request :
          /\ pc[p] \in {"new", "done"}
          /\ Goto(p, IF r.kind \in {"get", "list"} THEN "cache" ELSE "write")
    BY <1>3 DEF Arrive, Free
  <2>3. /\ pc'[p] \in {"cache", "write"}
        /\ \A q \in Requests \ {p} : pc'[q] = pc[q]
    BY <2>1, GotoMoves DEF Inv1, Labels, Moves
  <2>4. Alone'
    <3>1. ~Overlap'
      BY DEF RacesNoted, Racing, Calmly
    <3> QED BY <3>1 DEF Overlap, Alone
  <2>2. \A q \in Requests : ~InFlight(q)
    BY <2>1, <2>3, <2>4 DEF Alone, InFlight
  <2>5. \A q \in Requests : ReadFresh(q)'
    BY <2>2, <2>3 DEF ReadFresh, InFlight
  <2>6. \A key \in DOMAIN cache' : KeyFresh(key)'
    BY <1>0, <1>1, <1>2, <2>2 DEF KeyFresh, Pending
  <2> QED BY <2>5, <2>6 DEF Coherent
<1>4. CASE UNCHANGED <<pc, req>>
  <2>2. ASSUME NEW q \in Requests PROVE ReadFresh(q)'
    <3>1. Key(q)' = Key(q)
      BY <1>4 DEF Key
    <3> QED BY <1>0, <1>1, <1>4, <3>1, FreshBy DEF ReadFresh
  <2>3. ASSUME NEW key \in DOMAIN cache' PROVE KeyFresh(key)'
    <3>1. ASSUME NEW q \in Requests, Pending(q, key) PROVE Pending(q, key)'
      BY <1>4, <3>1 DEF Pending, InFlight, Writes
    <3> QED BY <1>0, <1>1, <1>2, <3>1 DEF KeyFresh
  <2> QED BY <2>2, <2>3 DEF Coherent
<1> QED BY <1>3, <1>4 DEF Surroundings, Expire, Replicate, handlers, vars

(* Whoever moves is the only one in flight.                                *)
LEMMA AloneKept ==
    ASSUME NEW p \in Requests, Alone, InFlight(p), Moves(p)
    PROVE  \A q \in Requests \ {p} : ~InFlight(q) /\ ~InFlight(q)'
BY DEF Alone, InFlight, Moves

LEMMA CoherentStep == ASSUME IInv, [Next]_vars PROVE Coherent'
<1> SUFFICES ASSUME Calmly' PROVE Coherent'
  BY DEF Coherent
<1>0. /\ Inv1 /\ Coherent /\ TypeOK /\ Control /\ Logged
      /\ RacesNoted /\ RacesNoted' /\ (raced => raced')
  BY NoteStep DEF IInv, Inv1
<1>c. ASSUME Calmly
      PROVE  /\ Alone /\ \A p \in Requests : ReadFresh(p)
             /\ \A key \in DOMAIN cache : KeyFresh(key)
  BY <1>0, <1>c, NotRaced DEF Coherent, Calmly
<1>1. CASE Surroundings
  BY <1>0, <1>1, CoherentSurroundings
<1>2. ASSUME NEW p \in Requests, QuietStep(p) PROVE Coherent'
  <2>1. /\ Calmly /\ Calm /\ ~Fault /\ InFlight(p)
        /\ UNCHANGED <<rows, lsn, cache, req>>
        /\ pc[p] \notin {"refresh", "drop"} /\ pc'[p] \in {"read", "fill", "done"}
    BY <1>0, <1>2, CalmlyBefore DEF QuietStep, dbVars
  <2>2. \A q \in Requests \ {p} : ~InFlight(q) /\ ~InFlight(q)'
    BY <1>2, <1>c, <2>1, AloneKept DEF QuietStep
  <2>3. ASSUME NEW q \in Requests PROVE ReadFresh(q)'
    <3>1. CASE q # p
      BY <2>2, <3>1 DEF ReadFresh, InFlight
    <3>2. CASE q = p
      <4>1. pc'[p] = "fill" => got'[p] = lsn'
        BY <1>0, <1>2, <2>1, NotRaced DEF QuietStep, Calmly
      <4> QED BY <2>1, <3>2, <4>1, FreshBy DEF ReadFresh
    <3> QED BY <3>1, <3>2
  <2>4. ASSUME NEW key \in DOMAIN cache' PROVE KeyFresh(key)'
    <3>1. \A q \in Requests : ~Pending(q, key)
      BY <2>1, <2>2 DEF Pending
    <3>2. Fresh(key, cache[key].at)
      BY <1>c, <2>1, <3>1 DEF KeyFresh
    <3> QED BY <2>1, <3>2, FreshBy DEF KeyFresh
  <2> QED BY <2>3, <2>4 DEF Coherent
<1>3. ASSUME NEW p \in Requests, CacheStep(p) PROVE Coherent'
  <2>1. /\ Calmly /\ Calm /\ ~Fault /\ InFlight(p)
        /\ UNCHANGED <<rows, lsn, req, got>> /\ pc'[p] \in {"drop", "done"}
    BY <1>0, <1>3, CalmlyBefore DEF CacheStep, dbVars, InFlight
  <2>2. \A q \in Requests \ {p} : ~InFlight(q) /\ ~InFlight(q)'
    BY <1>3, <1>c, <2>1, AloneKept DEF CacheStep
  <2>3. ASSUME NEW q \in Requests PROVE ReadFresh(q)'
    BY <2>1, <2>2 DEF ReadFresh, InFlight
  <2>4. ASSUME NEW key \in DOMAIN cache' PROVE KeyFresh(key)'
    <3>1. CASE cache'[key].at = got[p] /\ Storing(p, key)
      <4>1. ReadFresh(p)
        BY <1>c, <2>1
      <4>2. ViewIn(rows, key, got[p]) = ViewIn(rows, key, lsn)
        BY <3>1, <4>1, FreshBy DEF ReadFresh, Storing
      <4> QED BY <2>1, <3>1, <4>2, FreshBy DEF KeyFresh
    <3>2. CASE key \in DOMAIN cache /\ cache'[key] = cache[key]
      <4>1. CASE Fresh(key, cache[key].at)
        BY <2>1, <3>2, <4>1, FreshBy DEF KeyFresh
      <4>2. CASE Pending(p, key)
        <5>1. CASE key = ListKey /\ pc[p] = "refresh"
          <6>1. Pending(p, key)'
            BY <1>3, <2>1, <4>2, <5>1 DEF CacheStep, Pending, InFlight, Writes
          <6> QED BY <6>1 DEF KeyFresh
        <5>2. CASE cache'[key].at = got[p] /\ key = req[p].id /\ pc[p] = "refresh"
          <6>1. got[p] = lsn
            BY <1>c, <2>1, <5>2 DEF ReadFresh
          <6> QED BY <2>1, <5>2, <6>1, FreshBy DEF KeyFresh
        <5>3. \/ pc[p] = "refresh" /\ key \in {req[p].id, ListKey}
              \/ pc[p] = "drop" /\ key = ListKey
          BY <4>2 DEF Pending
        <5>4. \/ pc[p] = "refresh" /\ req[p].id \notin DOMAIN cache'
              \/ pc[p] = "refresh" /\ cache'[req[p].id].at = got[p]
              \/ pc[p] = "drop" /\ ListKey \notin DOMAIN cache'
              \/ pc[p] = "fill"
          BY <1>3, <2>1 DEF CacheStep
        <5> QED BY <5>1, <5>2, <5>3, <5>4
      <4>3. ASSUME NEW q \in Requests \ {p} PROVE ~Pending(q, key)
        BY <2>2 DEF Pending
      <4> QED BY <1>c, <2>1, <3>2, <4>1, <4>2, <4>3 DEF KeyFresh
    <3> QED BY <1>3, <3>1, <3>2 DEF CacheStep
  <2> QED BY <2>3, <2>4 DEF Coherent
<1>4. ASSUME NEW p \in Requests, WriteStep(p) PROVE Coherent'
  <2>1. /\ Calmly /\ Calm /\ ~Fault /\ InFlight(p) /\ pc[p] = "write"
        /\ pc'[p] = "refresh" /\ UNCHANGED <<cache, req>> /\ Writes(p)
    BY <1>0, <1>4, CalmlyBefore DEF WriteStep, InFlight
  <2>2. \A q \in Requests \ {p} : ~InFlight(q) /\ ~InFlight(q)'
    BY <1>4, <1>c, <2>1, AloneKept DEF WriteStep
  <2>3. ASSUME NEW q \in Requests PROVE ReadFresh(q)'
    <3>1. got'[p] = lsn'
      BY <1>4 DEF WriteStep, Commit
    <3> QED BY <2>1, <2>2, <3>1 DEF ReadFresh, InFlight
  <2>4. ASSUME NEW key \in DOMAIN cache' PROVE KeyFresh(key)'
    <3>0. key \in DOMAIN cache /\ key \in Keys /\ cache[key].at \in Nat /\ cache[key].at <= lsn
      BY <1>0, <2>1 DEF TypeOK, IsTable, Entry, Logged, EntryLogged
    <3>1. CASE key \in {req[p].id, ListKey}
      <4>1. Pending(p, key)'
        BY <2>1, <3>1 DEF Pending, InFlight, Writes
      <4> QED BY <4>1 DEF KeyFresh
    <3>2. CASE key \notin {req[p].id, ListKey}
      <4>1. \A q \in Requests : ~Pending(q, key)
        BY <2>1, <2>2 DEF Pending
      <4>2. ViewIn(rows, key, cache[key].at) = ViewIn(rows, key, lsn)
        BY <1>c, <2>1, <3>0, <4>1, FreshBy DEF KeyFresh
      <4>3. ViewIn(rows', key, cache[key].at) = ViewIn(rows, key, cache[key].at)
        BY <1>0, <1>4, <3>0, ViewKept
      <4>4. ViewIn(rows', key, lsn') = ViewIn(rows, key, lsn)
        BY <1>0, <1>4, <3>0, <3>2, OthersKept DEF ViewIn, Keys
      <4> QED BY <2>1, <4>2, <4>3, <4>4, FreshBy DEF KeyFresh
    <3> QED BY <3>1, <3>2
  <2> QED BY <2>3, <2>4 DEF Coherent
<1> QED BY <1>0, <1>1, <1>2, <1>3, <1>4, StepKinds

(***************************************************************************)
(* Once writes have stopped                                                *)
(***************************************************************************)
(* What a request is about to store is not newly out of date: it was being *)
(* stored before the step, or it is read from tables that are up to date.  *)
LEMMA StoresCurrent ==
    ASSUME IInv, [Next]_vars, lsn' = lsn, \A r \in Replicas : applied[r] = lsn,
           NEW p \in Requests, NEW key, Storing(p, key)'
    PROVE  Fresh(key, got[p])' \/ (Storing(p, key) /\ UNCHANGED <<rows, got[p]>>)
<1>0. Inv1 /\ TypeOK /\ Control /\ Logged /\ lsn \in Nat
  BY DEF IInv, Inv1, TypeOK, DbTypeOK
<1>1. CASE Surroundings
  <2>1. CASE \E q \in Requests : Arrive(q)
    <3>1. PICK q \in Requests, r \in Request :
            /\ req' = Insert(req, q, r) /\ UNCHANGED <<rows, got>>
            /\ Goto(q, IF r.kind \in {"get", "list"} THEN "cache" ELSE "write")
      BY <2>1 DEF Arrive
    <3>2. pc'[q] \in {"cache", "write"} /\ \A o \in Requests \ {q} : pc'[o] = pc[o]
      BY <1>0, <3>1, GotoMoves DEF Labels, Moves
    <3>3. p # q /\ pc'[p] = pc[p] /\ p \in DOMAIN req
      BY <1>0, <3>2 DEF Storing, Control, ControlOK
    <3>4. req'[p] = req[p]
      BY <3>1, <3>3 DEF Insert
    <3> QED BY <3>1, <3>3, <3>4 DEF Storing, Key
  <2>2. CASE UNCHANGED <<rows, got, pc, req>>
    BY <2>2 DEF Storing, Key
  <2> QED BY <1>1, <2>1, <2>2 DEF Surroundings, Expire, Replicate, handlers, vars
<1>2. ASSUME NEW q \in Requests, QuietStep(q)
      PROVE  Fresh(key, got[p])' \/ (Storing(p, key) /\ UNCHANGED <<rows, got[p]>>)
  <2>1. UNCHANGED <<rows, req>> /\ \A o \in Requests \ {q} : pc'[o] = pc[o] /\ got'[o] = got[o]
    BY <1>2 DEF QuietStep, Moves
  <2>2. CASE p # q
    BY <2>1, <2>2 DEF Storing, Key
  <2>3. CASE p = q
    <3>1. got'[p] \in ReadPoints
      BY <1>2, <2>3 DEF QuietStep, Storing
    <3>2. got'[p] = lsn'
      BY <3>1 DEF ReadPoints
    <3> QED BY <3>2 DEF Fresh
  <2> QED BY <2>2, <2>3
<1>3. ASSUME NEW q \in Requests, CacheStep(q)
      PROVE  Storing(p, key) /\ UNCHANGED <<rows, got[p]>>
  <2>1. UNCHANGED <<rows, req, got>> /\ \A o \in Requests \ {q} : pc'[o] = pc[o]
    BY <1>3 DEF CacheStep, Moves
  <2>2. p # q
    BY <1>3 DEF CacheStep, Storing
  <2> QED BY <2>1, <2>2 DEF Storing, Key
<1>4. \A q \in Requests : ~WriteStep(q)
  BY <1>0 DEF WriteStep, Commit
<1> QED BY <1>0, <1>1, <1>2, <1>3, <1>4, StepKinds

(* An entry out of date after the step was so before it, or has just been  *)
(* stored by a request whose key was at risk.                              *)
LEMMA RiskStep ==
    ASSUME IInv, [Next]_vars, lsn' = lsn, \A r \in Replicas : applied[r] = lsn
    PROVE  AtRisk' \subseteq AtRisk
<1> SUFFICES ASSUME NEW key \in Keys, key \in AtRisk' PROVE key \in AtRisk
  BY DEF AtRisk
<1>0. Inv1 /\ TypeOK /\ Control /\ Logged /\ lsn \in Nat
  BY DEF IInv, Inv1, TypeOK, DbTypeOK
<1>1. UNCHANGED rows
  <2>1. ASSUME NEW q \in Requests, WriteStep(q) PROVE FALSE
    BY <1>0, <2>1 DEF WriteStep, Commit
  <2> QED BY <1>0, <2>1, StepKinds
          DEF Surroundings, Arrive, Expire, Replicate, vars, QuietStep, CacheStep
<1>2. CASE \E p \in Requests : Storing(p, key)' /\ ~Fresh(key, got[p])'
  <2>1. PICK p \in Requests : Storing(p, key)' /\ ~Fresh(key, got[p])'
    BY <1>2
  <2>2. Storing(p, key) /\ UNCHANGED got[p]
    BY <2>1, StoresCurrent
  <2>3. ~Fresh(key, got[p])
    BY <1>1, <2>1, <2>2, FreshIn, FreshBy
  <2> QED BY <2>2, <2>3 DEF AtRisk
<1>3. CASE key \in DOMAIN cache' /\ ~Fresh(key, cache[key].at)'
  <2>1. \/ key \in DOMAIN cache /\ cache'[key] = cache[key]
        \/ \E p \in Requests : Storing(p, key) /\ cache'[key].at = got[p]
    <3>1. ASSUME UNCHANGED cache \/ \E k \in Keys : Invalidate(k)
          PROVE  key \in DOMAIN cache /\ cache'[key] = cache[key]
      BY <1>3, <3>1, InvalidateEntry
    <3>2. CASE Surroundings
      BY <3>1, <3>2 DEF Surroundings, Arrive, Expire, Replicate, vars
    <3>3. ASSUME NEW p \in Requests, QuietStep(p) \/ WriteStep(p) PROVE UNCHANGED cache
      BY <3>3 DEF QuietStep, WriteStep
    <3>4. ASSUME NEW p \in Requests, CacheStep(p)
          PROVE  \/ key \in DOMAIN cache /\ cache'[key] = cache[key]
                 \/ Storing(p, key) /\ cache'[key].at = got[p]
      BY <1>3, <3>4 DEF CacheStep
    <3> QED BY <1>0, <3>1, <3>2, <3>3, <3>4, StepKinds
  <2>2. CASE key \in DOMAIN cache /\ cache'[key] = cache[key]
    <3>1. ~Fresh(key, cache[key].at)
      BY <1>1, <1>3, <2>2, FreshBy
    <3> QED BY <2>2, <3>1 DEF AtRisk
  <2>3. ASSUME NEW p \in Requests, Storing(p, key), cache'[key].at = got[p] PROVE key \in AtRisk
    <3>1. ~Fresh(key, got[p])
      BY <1>1, <1>3, <2>3, FreshBy
    <3> QED BY <2>3, <3>1 DEF AtRisk
  <2> QED BY <2>1, <2>2, <2>3
<1> QED BY <1>2, <1>3 DEF AtRisk

(***************************************************************************)
(* Theorems                                                                *)
(***************************************************************************)
LEMMA Invariant == Spec => []IInv
<1>1. Init => IInv
  <2>1. Init => StaleOnlyByRace
    BY DEF Init, StaleOnlyByRace, Empty
  <2>2. Init => Coherent
    BY DEF Init, Coherent, ReadFresh, Empty
  <2>3. Init => RacesNoted
    BY DEF Init, RacesNoted, Racing, Overlap, Lagging, InFlight
  <2> QED BY <2>1, <2>2, <2>3, TypeInit, OrderInit DEF IInv, Inv1
<1>2. IInv /\ [Next]_vars => IInv'
  BY TypeStep, ControlStep, LoggedStep, NoteStep, RacesStep, CoherentStep DEF IInv, Inv1
<1> QED BY <1>1, <1>2, PTL DEF Spec

(* Every variable keeps its type (UserService).                            *)
THEOREM TypeCorrect == Spec => []TypeOK
<1>1. IInv => TypeOK BY DEF IInv, Inv1
<1> QED BY <1>1, Invariant, PTL

(* "Invalidate on every write" (user_service.rs): a finished write leaves  *)
(* no entry behind that was good when it was stored, whatever interleaves. *)
THEOREM StaleByRaceOnly == Spec => []StaleOnlyByRace
<1>1. IInv => StaleOnlyByRace BY DEF IInv
<1> QED BY <1>1, Invariant, PTL

(* As long as no two requests overlapped and no replica lagged behind a    *)
(* reader, a read answers what the primary holds, from Redis or from the   *)
(* table (user_service.rs).                                                *)
THEOREM ReadsAreCurrent == Spec => ReadsSeeWrites
<1> DEFINE Current(p) ==
      InFlight(p) /\ ~Writes(p) /\ pc'[p] = "done" =>
            \/ reply'[p] = "ok" /\ Fresh(Key(p), got'[p])
            \/ reply'[p] = "NotFound" /\ ~Found(p, lsn)
<1>1. ASSUME IInv, [Next]_vars, ~raced', faults' = 0,
             NEW p \in Requests, InFlight(p), ~Writes(p), pc'[p] = "done"
      PROVE  \/ reply'[p] = "ok" /\ Fresh(Key(p), got'[p])
             \/ reply'[p] = "NotFound" /\ ~Found(p, lsn)
  <2>0. /\ Inv1 /\ TypeOK /\ Control /\ Logged /\ Coherent
        /\ pc[p] \notin {"new", "done", "write", "refresh", "drop"}
        /\ RacesNoted /\ ~raced
    BY <1>1, NoteStep DEF IInv, Inv1, Control, ControlOK, InFlight
  <2>1. ~(\E q \in Requests : Crash(q) \/ Failed(q)) /\ ~Fault
    BY <1>1, <2>0 DEF Crash, Failed, Fault, TypeOK
  <2>2. CheckCache(p) \/ ReadRows(p) \/ FillCache(p)
    <3>1. pc'[p] # pc[p]
      BY <1>1 DEF InFlight
    <3>2. ASSUME NEW q \in Requests, q # p PROVE ~Arrive(q) /\ ~Handle(q)
      <4>1. ASSUME Arrive(q) \/ Handle(q) PROVE pc'[p] = pc[p]
        BY <2>0, <3>2, <4>1
        DEF Arrive, Handle, CheckCache, ReadRows, FillCache, CreateUser, Missing, UpdateUser,
            DeleteUser, Written, RefreshEntry, DropList, Goto, Finish, Failed, TypeOK
      <4> QED BY <3>1, <4>1
    <3>3. ~Arrive(p)
      BY <2>0 DEF Arrive, Free
    <3>4. \A key \in Keys : ~Expire(key)
      BY <3>1 DEF Expire, handlers
    <3>5. \A r \in Replicas : ~Replicate(r)
      BY <3>1 DEF Replicate, handlers
    <3>6. ~UNCHANGED vars
      BY <3>1 DEF vars
    <3>7. Handle(p)
      BY <1>1, <2>1, <3>2, <3>3, <3>4, <3>5, <3>6 DEF Next, Step
    <3> QED BY <2>0, <3>7
        DEF Handle, CreateUser, Missing, UpdateUser, DeleteUser, RefreshEntry, DropList
  <2>3. Calmly
    BY <1>1, <2>0, <2>2 DEF CheckCache, ReadRows, FillCache, Calm, Fault, Failed, Ignored, Calmly,
                           TypeOK
  <2>4. /\ Alone /\ ReadFresh(p) /\ \A key \in DOMAIN cache : KeyFresh(key)
    BY <2>0, <2>3, NotRaced DEF Coherent
  <2>5. CASE CheckCache(p)
    <3>1. /\ Key(p) \in DOMAIN cache /\ got'[p] = cache[Key(p)].at /\ reply'[p] = "ok"
      BY <1>1, <2>0, <2>1, <2>5 DEF CheckCache, Keep, Finish, Goto, TypeOK
    <3>2. \A q \in Requests : ~Pending(q, Key(p))
      BY <1>1, <2>4 DEF Alone, Pending
    <3>3. Fresh(Key(p), cache[Key(p)].at)
      BY <2>4, <3>1, <3>2 DEF KeyFresh
    <3> QED BY <3>1, <3>3
  <2>6. CASE ReadRows(p)
    <3>1. PICK point \in ReadPoints : ~Found(p, point) /\ Finish(p, "NotFound")
      BY <1>1, <2>0, <2>1, <2>6 DEF ReadRows, Goto, TypeOK
    <3>2. point = lsn
      BY <2>0, <2>6, NotRaced DEF ReadRows
    <3> QED BY <2>0, <3>1, <3>2 DEF Finish, TypeOK
  <2>7. CASE FillCache(p)
    <3>1. reply'[p] = "ok" /\ got'[p] = got[p] /\ pc[p] = "fill"
      BY <2>0, <2>7 DEF FillCache, Finish, TypeOK
    <3> QED BY <2>4, <3>1 DEF ReadFresh
  <2> QED BY <2>2, <2>5, <2>6, <2>7
<1>2. IInv /\ [Next]_vars =>
        [~raced' /\ faults' = 0 => \A p \in Requests : Current(p)]_vars
  BY <1>1
<1> QED BY <1>2, Invariant, PTL DEF Spec, ReadsSeeWrites

(* While nothing is written and every replica has caught up, no key of     *)
(* Redis comes to be at risk (user_service.rs, cache.rs): the safety half  *)
(* of CacheConverges.                                                      *)
THEOREM RiskOnlyShrinks == Spec => NothingNewGoesStale
<1>1. IInv /\ [Next]_vars =>
        [lsn' = lsn /\ (\A r \in Replicas : applied[r] = lsn) => AtRisk' \subseteq AtRisk]_vars
  BY RiskStep
<1> QED BY <1>1, Invariant, PTL DEF Spec, NothingNewGoesStale
=============================================================================
