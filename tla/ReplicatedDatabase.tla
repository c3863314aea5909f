------------------------- MODULE ReplicatedDatabase -------------------------
(***************************************************************************)
(* The PostgreSQL arrangement behind each service, as the code sees it     *)
(* through DbPools: one primary that takes every write, and replicas that  *)
(* replay the primary's log and serve every read (HAProxy balances a read  *)
(* connection over the replicas, round robin, so two reads of one request  *)
(* may reach two replicas).  When DATABASE_READ_URL is not set both pools  *)
(* are the primary: Replicas = {}.                                         *)
(*                                                                         *)
(* A row carries the log positions at which it was written.  A reader at   *)
(* position n sees exactly the writes whose position is at most n, so no   *)
(* copy of the tables is kept per replica.                                 *)
(***************************************************************************)
EXTENDS Naturals

CONSTANT Replicas       \* the read replicas; {} when reads use the primary

VARIABLES
    lsn,                \* log position of the primary's last write
    applied,            \* log position each replica has replayed
    timeline            \* how often a replica was promoted (see Failover)

dbVars == <<lsn, applied, timeline>>

Never == 0              \* the position of a write that has not happened
Seeded == 1             \* the position of the rows present at the start

DbTypeOK ==
    /\ lsn \in Nat \ {Never}
    /\ applied \in [Replicas -> 1 .. lsn]
    /\ timeline \in Nat

DbInit ==
    /\ lsn = Seeded
    /\ applied = [r \in Replicas |-> Seeded]
    /\ timeline = 0

(* The positions a query on pools.read may be answered from.               *)
ReadPoints == IF Replicas = {} THEN {lsn} ELSE {applied[r] : r \in Replicas}

(* A write done at position stamp is visible at position point.            *)
Holds(stamp, point) == stamp # Never /\ stamp <= point

\* Seeded fault: a statement is sent to the read pool.
CommitOnReplica ==
    /\ applied' = [r \in Replicas |-> applied[r] + 1]
    /\ UNCHANGED <<lsn, timeline>>

(* One statement on pools.write is one transaction of the primary.         *)
Commit ==
    /\ lsn' = lsn + 1
    /\ UNCHANGED <<applied, timeline>>

(* Streaming replication: a replica replays the next record of the log.    *)
Replay(r) ==
    /\ applied[r] < lsn
    /\ applied' = [applied EXCEPT ![r] = @ + 1]
    /\ UNCHANGED <<lsn, timeline>>

(* A table maps keys to rows; a row has the position "at" of its INSERT.   *)
Empty == [k \in {} |-> Never]

IsTable(table, keys, rows) ==
    DOMAIN table \subseteq keys /\ table \in [DOMAIN table -> rows]

Insert(table, key, row) ==
    [k \in DOMAIN table \cup {key} |-> IF k = key THEN row ELSE table[k]]

Present(table, key, point) ==
    key \in DOMAIN table /\ table[key].at <= point
=============================================================================
