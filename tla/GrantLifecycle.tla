--------------------------- MODULE GrantLifecycle ---------------------------
(***************************************************************************)
(* What the authorization-code and refresh-token grants promise together:  *)
(* one consent opens at most one session, and a session is a single line   *)
(* of refresh tokens, each of which replaces the one before it.            *)
(***************************************************************************)
EXTENDS Naturals

CONSTANTS
    Grants,             \* the consents, named by their authorization codes
    Tokens              \* refresh tokens

VARIABLES
    stage,              \* where each consent is
    current,            \* the tokens that can renew it now: none or one
    issued              \* every refresh token ever stored

vars == <<stage, current, issued>>

Stages == {"none", "issued", "owed", "live", "ended"}

TypeOK ==
    /\ stage \in [Grants -> Stages]
    /\ current \in [Grants -> SUBSET Tokens]
    /\ issued \subseteq Tokens

Init ==
    /\ stage = [g \in Grants |-> "none"]
    /\ current = [g \in Grants |-> {}]
    /\ issued = {}

(* The user consents: a code is issued.                                    *)
Consent(g) ==
    /\ stage[g] = "none"
    /\ stage' = [stage EXCEPT ![g] = "issued"]
    /\ UNCHANGED <<current, issued>>

(* The code, or the current refresh token, is given up for a new token.    *)
Spend(g) ==
    /\ stage[g] \in {"issued", "live"}
    /\ stage' = [stage EXCEPT ![g] = "owed"]
    /\ current' = [current EXCEPT ![g] = {}]
    /\ UNCHANGED issued

(* The token that is owed is stored: it was never stored before.           *)
Mint(g, t) ==
    /\ stage[g] = "owed" /\ t \notin issued
    /\ stage' = [stage EXCEPT ![g] = "live"]
    /\ current' = [current EXCEPT ![g] = {t}]
    /\ issued' = issued \cup {t}

(* Revocation, expiry, or a request that died half way: for good.          *)
End(g) ==
    /\ stage[g] \in {"issued", "owed", "live"}
    /\ stage' = [stage EXCEPT ![g] = "ended"]
    /\ current' = [current EXCEPT ![g] = {}]
    /\ UNCHANGED issued

Next == \E g \in Grants :
    Consent(g) \/ Spend(g) \/ End(g) \/ \E t \in Tokens : Mint(g, t)

Spec == Init /\ [][Next]_vars
=============================================================================
