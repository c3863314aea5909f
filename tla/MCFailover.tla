----------------------------- MODULE MCFailover -----------------------------
(* A small instance of Failover.                                           *)
EXTENDS Failover, TLC

CONSTANTS c1, cb1, read

OneClient ==
    c1 :> [redirect |-> cb1, scopes |-> {read}, at |-> Seeded]

RequestSymmetry == Permutations(Requests)

(* Left out of the view: the histories readAt and wroteAt, which no action *)
(* and no property of Failover looks at, and what a request asked and read *)
(* that ended without an answer: nobody can name what it may have stored.  *)
Matters(p) == InFlight(p) \/ reply[p] = "ok"
Of(table) == [p \in {q \in DOMAIN table : Matters(q)} |-> table[p]]
FailoverView ==
    <<lsn, timeline, users, clients, codes, tokens, clientCache, pc,
      {p \in Requests : reply[p] = "ok"}, Of(req), Of(seen), access>>
=============================================================================
