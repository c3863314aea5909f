-------------------------- MODULE OAuthRefinement --------------------------
(***************************************************************************)
(* OAuthService, serving requests one at a time from the primary, keeps    *)
(* the promise of GrantLifecycle through every database error and crash.   *)
(***************************************************************************)
EXTENDS OAuthService

LiveTokens(k) == {t \in DOMAIN tokens : Live(t) /\ tokens[t].grant = k}

(* The stage of the consent whose authorization code is k.                 *)
StageOf(k) ==
    CASE k \notin DOMAIN codes -> "none"
      [] k \in DOMAIN codes /\ codes[k].usedAt = Never -> "issued"
      [] k \in DOMAIN codes /\ codes[k].usedAt # Never ->
            IF LiveTokens(k) # {} THEN "live"
            ELSE IF Renewing(k) THEN "owed" ELSE "ended"

Lifecycle == INSTANCE GrantLifecycle WITH
    Grants <- Requests, Tokens <- Requests,
    stage <- [k \in Requests |-> StageOf(k)],
    current <- [k \in Requests |-> LiveTokens(k)],
    issued <- DOMAIN tokens

(* Every step of the service is a step of the lifecycle or none: a code or *)
(* token buys exactly one successor, a dead session stays dead, no token   *)
(* comes back.                                                             *)
RefinesLifecycle == Lifecycle!Spec
=============================================================================
