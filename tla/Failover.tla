------------------------------ MODULE Failover ------------------------------
(***************************************************************************)
(* The primary dies and Patroni promotes a replica that has not replayed   *)
(* the end of its log (docker/patroni/entrypoint.sh: replication is        *)
(* asynchronous, maximum_lag_on_failover bounds the lag of the promoted    *)
(* replica).  auth-service does not notice: HAProxy sends its next         *)
(* statement to the new primary, and a handler goes on from what it holds  *)
(* in memory.                                                              *)
(***************************************************************************)
EXTENDS OAuthService, FiniteSets

CONSTANTS
    MaxLag,             \* maximum_lag_on_failover, in statements
    MaxFailovers        \* bound: the failovers of a run

ASSUME FailoverAssumption == MaxLag \in Nat /\ MaxFailovers \in Nat

(* The table at position n of the log.                                     *)
Surviving(table, n) == {key \in DOMAIN table : table[key].at <= n}
Undo(stamp, n) == IF stamp > n THEN Never ELSE stamp

(* The promoted replica had replayed n records.  The log ends there, and   *)
(* use_pg_rewind takes the others back to it.  What is in Redis and in the *)
(* handlers' memory stays.                                                 *)
Promote(n) ==
    /\ timeline < MaxFailovers
    /\ lsn - n <= MaxLag
    /\ timeline' = timeline + 1
    /\ lsn' = n
    /\ applied' = [r \in Replicas |-> IF applied[r] > n THEN n ELSE applied[r]]
    /\ users' = [u \in Surviving(users, n) |-> users[u]]
    /\ clients' = [c \in Surviving(clients, n) |-> clients[c]]
    /\ codes' = [k \in Surviving(codes, n) |->
                    [codes[k] EXCEPT !.usedAt = Undo(@, n)]]
    /\ tokens' = [t \in Surviving(tokens, n) |->
                    [tokens[t] EXCEPT !.deletedAt = Undo(@, n)]]
    /\ UNCHANGED <<clock, clientCache, pc, req, local, reply, access>>

FailoverNext == Next \/ \E n \in Seeded .. lsn - 1 : Promote(n)

FailoverSpec == Init /\ [][FailoverNext]_vars

(***************************************************************************)
(* Properties.  Requests one at a time, reads from the primary, handlers   *)
(* that die half way: what each loss of the end of the log can cost.       *)
(***************************************************************************)

(* Every failover lets a code be exchanged once more (its "used" flag was  *)
(* in the part of the log that was lost), however many statements it loses *)
(* and wherever it falls among the steps of an exchange.                   *)
Exchanges(k) ==
    {p \in DOMAIN req : Answered(p, {"authorization_code"}) /\ req[p].key = k}
CodeReplayNeedsFailover ==
    Isolated => \A k \in DOMAIN req : Cardinality(Exchanges(k)) <= 1 + timeline

(* Every failover adds at most one live refresh token to a user's consent: *)
(* a rotation that goes on after its DELETE was lost stores its new token  *)
(* next to the old one.                                                    *)
LiveTokens(k) == {t \in DOMAIN tokens : Live(t) /\ tokens[t].grant = k}
SessionForksNeedFailover ==
    Isolated => \A k \in DOMAIN req : Cardinality(LiveTokens(k)) <= 1 + timeline
=============================================================================
