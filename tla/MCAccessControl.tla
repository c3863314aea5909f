-------------------------- MODULE MCAccessControl --------------------------
(* A small instance of AccessControl.                                      *)
EXTENDS AccessControl, TLC

CONSTANTS c1, cb1

\* One registered client, allowed to read.
OneClient ==
    c1 :> [redirect |-> cb1, scopes |-> {Read}, at |-> Seeded]

\* No verifier is named anywhere, so they too can be exchanged.
AccessSymmetry == Permutations(Requests) \cup Permutations(Verifiers)

(* With reads from the primary a handler only sees whether a write has     *)
(* happened, never at which position of the log, and no cached client is   *)
(* ever read back (CacheHit); a refused call changes nothing.  States that *)
(* differ in nothing else have the same future, and the properties checked *)
(* here do not tell them apart.                                            *)
Happened(stamp) == stamp # Never
AccessView ==
    <<clock, pc, req, seen, reply, access, over, heirs,
      IF Served THEN call ELSE NoCall,
      [k \in DOMAIN codes |-> Happened(codes[k].usedAt)],
      [k \in DOMAIN codes |-> codes[k].expires],
      [t \in DOMAIN tokens |-> Happened(tokens[t].deletedAt)],
      [t \in DOMAIN tokens |-> tokens[t].expires]>>
=============================================================================
