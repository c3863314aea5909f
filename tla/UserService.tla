---------------------------- MODULE UserService ----------------------------
(***************************************************************************)
(* user-service: the five operations on users, each over the primary, a    *)
(* read replica and Redis (user-service/src/services/user_service.rs).     *)
(*                                                                         *)
(* Every HTTP request is a process; each of its actions is the code        *)
(* between two awaits.  What a row holds does not matter, only which       *)
(* version of it is meant: a version is the log position of the INSERT or  *)
(* UPDATE that wrote it.  The two kinds of cache entry, a user and the     *)
(* list of all users, are snapshots: an entry taken at position n shows    *)
(* its key as the tables were at n.                                        *)
(***************************************************************************)
EXTENDS ReplicatedDatabase

CONSTANTS
    Requests,           \* the places HTTP requests are handled at
    SeedIds,            \* users present at the start
    ListKey,            \* the Redis key users:list
    Kinds,              \* bound: the kinds of request of a run
    Returning,          \* bound: the places where readers keep coming
    MaxFaults           \* bound: database errors, Redis errors and crashes

VARIABLES
    rows,               \* table users: id -> its versions and its end
    cache,              \* Redis: key -> snapshot
    pc, req, reply,     \* each request: where it is, what it asks, outcome
    got,                \* log position of a request's read or write
    faults,             \* how many faults have happened
    raced               \* history: whether two requests have run into each other

handlers == <<pc, reply>>
vars == <<lsn, applied, timeline, rows, cache, pc, req, reply, got, faults, raced>>

(* SERIAL ids are never handed out twice: a created user is named by the   *)
(* request that created it.                                                *)
Ids == SeedIds \cup Requests
Keys == Ids \cup {ListKey}

ASSUME UserAssumption ==
    /\ SeedIds \cap Requests = {}
    /\ ListKey \notin Ids
    /\ MaxFaults \in Nat

Row == [writes : SUBSET Nat, goneAt : Nat]
\* set is history: the primary's position when the entry was stored.
Entry == [at : Nat, set : Nat]
Request == [kind : {"create", "get", "update", "delete"}, id : Ids]
    \cup [kind : {"list"}]
Replies == {"none", "ok", "NotFound", "InternalError", "lost"}
Labels == {"new", "cache", "read", "fill", "write", "refresh", "drop", "done"}

(***************************************************************************)
(* What the tables show at a log position                                  *)
(***************************************************************************)
Exists(id, point) ==
    /\ id \in DOMAIN rows
    /\ \E w \in rows[id].writes : w <= point
    /\ ~Holds(rows[id].goneAt, point)

Latest(writes) == CHOOSE w \in writes : \A v \in writes : v <= w
VersionAt(id, point) ==
    IF Exists(id, point) THEN Latest({w \in rows[id].writes : w <= point}) ELSE Never

View(key, point) ==
    IF key = ListKey THEN [id \in Ids |-> VersionAt(id, point)]
    ELSE VersionAt(key, point)

(***************************************************************************)
(* Redis                                                                   *)
(***************************************************************************)
SetCached(key, point) == cache' = Insert(cache, key, [at |-> point, set |-> lsn])
Invalidate(key) == cache' = [k \in DOMAIN cache \ {key} |-> cache[k]]
Fault == faults < MaxFaults /\ faults' = faults + 1
Calm == UNCHANGED faults
Ignored == Fault /\ UNCHANGED cache

(***************************************************************************)
(* Steps of the handlers                                                   *)
(***************************************************************************)
InFlight(p) == pc[p] \notin {"new", "done"}
Key(p) == IF req[p].kind = "list" THEN ListKey ELSE req[p].id
Writes(p) == req[p].kind \in {"create", "update", "delete"}

Goto(p, label) == pc' = [pc EXCEPT ![p] = label] /\ UNCHANGED reply
Finish(p, outcome) ==
    /\ pc' = [pc EXCEPT ![p] = "done"]
    /\ reply' = [reply EXCEPT ![p] = outcome]
Failed(p) == Fault /\ Finish(p, "InternalError")
Keep(p, point) == got' = [got EXCEPT ![p] = point]

(* Where a read was answered the next request may come, without end.  A    *)
(* write keeps its place: there are no more writes than places.            *)
Free(p) == pc[p] = "new" \/ (p \in Returning /\ pc[p] = "done" /\ ~Writes(p))

Arrive(p) ==
    /\ Free(p)
    /\ \E r \in Request :
          /\ r.kind \in Kinds
          /\ r.kind = "create" => r.id = p
          /\ req' = Insert(req, p, r)
          /\ Goto(p, IF r.kind \in {"get", "list"} THEN "cache" ELSE "write")
    /\ UNCHANGED <<dbVars, rows, cache, got, faults>>

\* Seeded fault: a hit is stored again, to give the entry another lifetime.
CheckCacheAndTouch(p) ==
    /\ pc[p] = "cache"
    /\ \/ /\ Key(p) \in DOMAIN cache
          /\ Keep(p, cache[Key(p)].at)
          /\ Goto(p, "fill")
          /\ Calm
       \/ /\ (Key(p) \notin DOMAIN cache /\ Calm) \/ Fault
          /\ Goto(p, "read")
          /\ UNCHANGED got
    /\ UNCHANGED <<dbVars, rows, cache, req>>

(* get_user_by_id and list_users ask Redis first.                          *)
CheckCache(p) ==
    /\ pc[p] = "cache"
    /\ \/ /\ Key(p) \in DOMAIN cache
          /\ Keep(p, cache[Key(p)].at)
          /\ Finish(p, "ok")
          /\ Calm
       \/ /\ (Key(p) \notin DOMAIN cache /\ Calm) \/ Fault
          /\ Goto(p, "read")
          /\ UNCHANGED got
    /\ UNCHANGED <<dbVars, rows, cache, req>>

(* A miss: the query goes to the read pool; an absent user is not cached.  *)
Found(p, point) == req[p].kind = "get" => Exists(req[p].id, point)
ReadRows(p) ==
    /\ pc[p] = "read"
    /\ \E point \in ReadPoints :
          \/ /\ Found(p, point)
             /\ Keep(p, point)
             /\ Goto(p, "fill")
             /\ Calm
          \/ /\ ~Found(p, point)
             /\ Finish(p, "NotFound")
             /\ Calm /\ UNCHANGED got
          \/ Failed(p) /\ UNCHANGED got
    /\ UNCHANGED <<dbVars, rows, cache, req>>

FillCache(p) ==
    /\ pc[p] = "fill"
    /\ (SetCached(Key(p), got[p]) /\ Calm) \/ Ignored
    /\ Finish(p, "ok")
    /\ UNCHANGED <<dbVars, rows, req, got>>

(* The statement of a write, committed or failed, and in the latter case   *)
(* possibly committed with the answer lost.                                *)
Written(p, row) ==
    \/ /\ rows' = Insert(rows, req[p].id, row)
       /\ Commit
       /\ Keep(p, lsn + 1)
       /\ (Goto(p, "refresh") /\ Calm) \/ Failed(p)
    \/ Failed(p) /\ UNCHANGED <<dbVars, rows, got>>

CreateUser(p) ==
    /\ pc[p] = "write" /\ req[p].kind = "create"
    /\ Written(p, [writes |-> {lsn + 1}, goneAt |-> Never])
    /\ UNCHANGED <<cache, req>>

(* UPDATE ... RETURNING finds no row, or DELETE counts none: NotFound.     *)
Missing(p) ==
    /\ pc[p] = "write" /\ req[p].kind \in {"update", "delete"}
    /\ ~Exists(req[p].id, lsn)
    /\ Finish(p, "NotFound")
    /\ UNCHANGED <<dbVars, rows, cache, req, got, faults>>

UpdateUser(p) ==
    LET id == req[p].id IN
    /\ pc[p] = "write" /\ req[p].kind = "update"
    /\ Exists(id, lsn)
    /\ Written(p, [rows[id] EXCEPT !.writes = @ \cup {lsn + 1}])
    /\ UNCHANGED <<cache, req>>

DeleteUser(p) ==
    LET id == req[p].id IN
    /\ pc[p] = "write" /\ req[p].kind = "delete"
    /\ Exists(id, lsn)
    /\ Written(p, [rows[id] EXCEPT !.goneAt = lsn + 1])
    /\ UNCHANGED <<cache, req>>

\* Seeded faults: a write leaves the user's entry, or the list, in Redis.
KeepEntry(p) ==
    /\ pc[p] = "refresh"
    /\ Goto(p, "drop")
    /\ UNCHANGED <<dbVars, rows, cache, req, got, faults>>
KeepList(p) ==
    /\ pc[p] = "drop"
    /\ Finish(p, "ok")
    /\ UNCHANGED <<dbVars, rows, cache, req, got, faults>>

\* Seeded fault: Redis is given the row as it was before the UPDATE.
RefreshWithOldRow(p) ==
    /\ pc[p] = "refresh"
    /\ \/ /\ IF req[p].kind = "delete" THEN Invalidate(req[p].id)
             ELSE SetCached(req[p].id, got[p] - 1)
          /\ Calm
       \/ Ignored
    /\ Goto(p, "drop")
    /\ UNCHANGED <<dbVars, rows, req, got>>

(* After a write the user's own entry is replaced, or removed.             *)
RefreshEntry(p) ==
    /\ pc[p] = "refresh"
    /\ \/ /\ IF req[p].kind = "delete" THEN Invalidate(req[p].id)
             ELSE SetCached(req[p].id, got[p])
          /\ Calm
       \/ Ignored
    /\ Goto(p, "drop")
    /\ UNCHANGED <<dbVars, rows, req, got>>

(* Then the list, and the request is answered.                             *)
DropList(p) ==
    /\ pc[p] = "drop"
    /\ (Invalidate(ListKey) /\ Calm) \/ Ignored
    /\ Finish(p, "ok")
    /\ UNCHANGED <<dbVars, rows, req, got>>

(***************************************************************************)
(* Environment                                                             *)
(***************************************************************************)
Crash(p) ==
    /\ InFlight(p) /\ Fault
    /\ Finish(p, "lost")
    /\ UNCHANGED <<dbVars, rows, cache, req, got>>

(* DEFAULT_CACHE_TTL runs out, or Redis evicts the key.                    *)
Expire(key) ==
    /\ key \in DOMAIN cache
    /\ Invalidate(key)
    /\ UNCHANGED <<dbVars, rows, handlers, req, got, faults>>

Replicate(r) ==
    /\ Replay(r)
    /\ UNCHANGED <<rows, cache, handlers, req, got, faults>>

(***************************************************************************)
(* Specification                                                           *)
(***************************************************************************)
Init ==
    /\ DbInit
    /\ rows = [id \in SeedIds |-> [writes |-> {Seeded}, goneAt |-> Never]]
    /\ cache = Empty /\ req = Empty
    /\ pc = [p \in Requests |-> "new"]
    /\ reply = [p \in Requests |-> "none"]
    /\ got = [p \in Requests |-> Never]
    /\ faults = 0
    /\ raced = FALSE

Handle(p) ==
    \/ CheckCache(p) \/ ReadRows(p) \/ FillCache(p)
    \/ CreateUser(p) \/ Missing(p) \/ UpdateUser(p) \/ DeleteUser(p)
    \/ RefreshEntry(p) \/ DropList(p)

Step ==
    \/ \E p \in Requests : Arrive(p) \/ Handle(p) \/ Crash(p)
    \/ \E key \in Keys : Expire(key)
    \/ \E r \in Replicas : Replicate(r)

(* Two requests are at work at a time, or one goes to read its rows while  *)
(* a replica lags.                                                         *)
Overlap == \E p, q \in Requests : p # q /\ InFlight(p) /\ InFlight(q)
Lagging == \E p \in Requests, r \in Replicas : pc[p] = "read" /\ applied[r] # lsn
Racing == Overlap \/ Lagging
NoteRace == raced' = (raced \/ Racing')

Next == Step /\ NoteRace

Spec == Init /\ [][Next]_vars

(* Every await ends, replication goes on, and every entry has a time to    *)
(* live.                                                                   *)
FairSpec ==
    /\ Spec
    /\ \A p \in Requests : WF_vars(Handle(p) /\ NoteRace)
    /\ \A r \in Replicas : WF_vars(Replicate(r) /\ NoteRace)
    /\ \A key \in Keys : WF_vars(Expire(key) /\ NoteRace)

(***************************************************************************)
(* Properties                                                              *)
(***************************************************************************)

(* Every variable has its type.                                            *)
TypeOK ==
    /\ DbTypeOK
    /\ IsTable(rows, Ids, Row)
    /\ IsTable(cache, Keys, Entry)
    /\ pc \in [Requests -> Labels]
    /\ IsTable(req, Requests, Request)
    /\ reply \in [Requests -> Replies]
    /\ got \in [Requests -> Nat]
    /\ faults \in 0 .. MaxFaults
    /\ raced \in BOOLEAN

Fresh(key, point) == View(key, point) = View(key, lsn)
Pending(p, key) ==
    /\ InFlight(p) /\ Writes(p)
    /\ \/ pc[p] = "refresh" /\ key \in {req[p].id, ListKey}
       \/ pc[p] = "drop" /\ key = ListKey

(* Until a fault happens, an entry that differs from the primary was       *)
(* already out of date when it was stored (its reader was overtaken by a   *)
(* write, or asked a lagging replica), or the write that changed the row   *)
(* has still to reach Redis.  No finished write leaves an entry behind     *)
(* that was good when it was stored ("Invalidate on every write").         *)
StaleOnlyByRace ==
    faults = 0 =>
        \A key \in DOMAIN cache :
            \/ Fresh(key, cache[key].at)
            \/ View(key, cache[key].at) # View(key, cache[key].set)
            \/ \E p \in Requests : Pending(p, key)

(* As long as no two requests have been at work at a time and no replica   *)
(* lagged behind a reader, as the repository's tests exercise the service, *)
(* a read shows every write before it, whether Redis answers, misses or    *)
(* has expired the entry.                                                  *)
ReadsSeeWrites ==
    [][~raced' /\ faults' = 0 => \A p \in Requests :
        InFlight(p) /\ ~Writes(p) /\ pc'[p] = "done" =>
            \/ reply'[p] = "ok" /\ Fresh(Key(p), got'[p])
            \/ reply'[p] = "NotFound" /\ ~Found(p, lsn)]_vars

(* While nothing is written and every replica has caught up, no key comes  *)
(* to be at risk that was not before: what a reader or a writer brings to  *)
(* Redis is current, unless it was read before the last write.             *)
Storing(p, key) ==
    \/ pc[p] = "fill" /\ key = Key(p)
    \/ pc[p] = "refresh" /\ req[p].kind # "delete" /\ key = req[p].id
AtRisk == {key \in Keys :
    \/ key \in DOMAIN cache /\ ~Fresh(key, cache[key].at)
    \/ \E p \in Requests : Storing(p, key) /\ ~Fresh(key, got[p])}
NothingNewGoesStale ==
    [][lsn' = lsn /\ (\A r \in Replicas : applied[r] = lsn) => AtRisk' \subseteq AtRisk]_vars

(* Whatever raced, lagged, failed or crashed while there were writes, and  *)
(* though readers keep coming: once writes stop, Redis comes to show       *)
(* nothing but what the primary holds, and it stays so.                    *)
CacheConverges == <>[](\A key \in DOMAIN cache : Fresh(key, cache[key].at))
=============================================================================
