--------------------------- MODULE AccessControl ---------------------------
(***************************************************************************)
(* What an access token is worth: OAuthService issues it, user-service     *)
(* looks at nothing but the token (shared/src/middleware/jwt_auth.rs and   *)
(* scopes.rs, user-service/src/controllers/v1/user_controller.rs).  The    *)
(* two services share no state: the claims signed by the one are all that  *)
(* the other knows of the user, the client and the session.                *)
(***************************************************************************)
EXTENDS OAuthService

CONSTANTS
    Read, Write,        \* the scopes the routes ask for
    Leeway              \* what Validation::default() adds to exp (60 s)

VARIABLES
    call,               \* the call of user-service just answered, if any
    over,               \* history: when the session of each consent was over
    heirs               \* history: the requests that carry it on nevertheless

accessVars == <<lsn, applied, timeline, clock, users, clients, codes, tokens, clientCache,
                pc, req, seen, readAt, wroteAt, reply, access, call, over, heirs>>

ASSUME AccessAssumption == Leeway \in Nat

RequiredScope ==
    [list_users |-> Read, get_user |-> Read,
     create_user |-> Write, update_user |-> Write, delete_user |-> Write]

NoToken == "none"       \* no header, another scheme, or not a token of ours
NotYet == MaxTime + 1   \* the session was never over
NoCall == [token |-> NoToken, scope |-> Read, answer |-> "none"]

(***************************************************************************)
(* A call of user-service                                                  *)
(***************************************************************************)
(* extract_user: a token signed with JWT_SECRET whose exp is not more than *)
(* the leeway ago.  No table is asked whether its session is still open.   *)
Decodes(t) == t \in DOMAIN access /\ clock <= access[t].exp + Leeway

\* Seeded fault: any scope will do.
HasSomeScope(t, scope) == access[t].scopes # {}

(* require_scope.                                                          *)
HasScope(t, scope) == scope \in access[t].scopes

Answer(t, scope) ==
    IF ~Decodes(t) THEN "Unauthorized"
    ELSE IF ~HasScope(t, scope) THEN "Forbidden"
    ELSE "served"

(* A call reads nothing but its token and the clock, so it is one step;    *)
(* the next step of the system comes after its answer.  What a refused     *)
(* call asked for is not kept.                                             *)
Call(t, route) ==
    LET scope == RequiredScope[route]
        answer == Answer(t, scope) IN
    /\ call = NoCall
    /\ call' = IF answer = "served" THEN [token |-> t, scope |-> scope, answer |-> answer]
               ELSE [NoCall EXCEPT !.answer = answer]
    /\ UNCHANGED vars

(***************************************************************************)
(* History.  A session is open while its code can be redeemed or one of    *)
(* its refresh tokens can be used.  It may be over more than once: a       *)
(* request that read a code or token before it was spent or revoked goes   *)
(* on and stores a new one.  Its heirs are the requests that were that far *)
(* when it was over last, and those that use a token of an heir.           *)
(***************************************************************************)
Redeemable(k) == codes[k].usedAt = Never /\ codes[k].expires >= clock
Usable(t) == Live(t) /\ tokens[t].expires >= clock
SessionOpen(k) ==
    \/ k \in DOMAIN codes /\ Redeemable(k)
    \/ \E t \in DOMAIN tokens : tokens[t].grant = k /\ Usable(t)
UnderWay(k) == {p \in DOMAIN seen : seen[p].grant = k /\ InFlight(p)}

NoteSessions ==
    LET ended == {k \in DOMAIN codes : SessionOpen(k) /\ ~SessionOpen(k)'}
        joined(k) == {p \in DOMAIN seen' :
            /\ seen'[p].grant = k /\ req'[p].kind = "refresh_token"
            /\ req'[p].key \in heirs[k]} IN
    /\ over' = [k \in Requests |-> IF k \in ended THEN clock' ELSE over[k]]
    /\ heirs' = [k \in Requests |-> IF k \in ended THEN UnderWay(k)'
                                    ELSE heirs[k] \cup joined(k)]

AccessInit ==
    /\ Init
    /\ call = NoCall
    /\ over = [k \in Requests |-> NotYet]
    /\ heirs = [k \in Requests |-> {}]

AccessNext ==
    \/ Next /\ NoteSessions /\ call = NoCall /\ UNCHANGED call
    \/ \E t \in DOMAIN access \cup {NoToken}, route \in DOMAIN RequiredScope :
          Call(t, route) /\ UNCHANGED <<over, heirs>>
    \/ call # NoCall /\ call' = NoCall /\ UNCHANGED <<vars, over, heirs>>

AccessSpec == AccessInit /\ [][AccessNext]_accessVars

(***************************************************************************)
(* Properties                                                              *)
(***************************************************************************)
Served == call.answer = "served"
ForUser(t) == req[t].kind # "client_credentials"

(* Every call that user-service lets through goes back, over any number of *)
(* rotations, to a login of that very user with the right password, who    *)
(* gave that scope to that client; the client proved who it is when it     *)
(* asked for the token, and somebody who exchanged the code knew the       *)
(* verifier.  A call on a client's own behalf is within its registration.  *)
Consented(t, scope) ==
    LET k == seen[t].grant
        consent == req[k] IN
    /\ Answered(k, {"authorize"}) /\ consent.password
    /\ consent.user = access[t].sub
    /\ consent.client = access[t].client
    /\ scope \in consent.scopes
    /\ \E q \in DOMAIN seen :
          /\ req[q].kind = "authorization_code" /\ req[q].key = k
          /\ S256(req[q].verifier) = consent.challenge
ServedCallsWereConsented ==
    Served =>
        LET t == call.token IN
        /\ SecretMatches(req[t]) /\ access[t].client = req[t].client
        /\ call.scope \in clients[req[t].client].scopes
        /\ ForUser(t) => Consented(t, call.scope)

(* A session that is over - revoked, expired, or its last token spent -    *)
(* lets nobody into user-service for longer than one access token lives,   *)
(* plus the leeway, except through a request that had read a code or token *)
(* of it before it was over and stored a new one afterwards, and the heirs *)
(* of that request: nothing that is read later brings a session back.      *)
AccessEndsAfterSession ==
    Replicas = {} /\ Served /\ ForUser(call.token) =>
        LET k == seen[call.token].grant IN
        call.token \in heirs[k] \/ clock <= over[k] + AccessTTL + Leeway
=============================================================================
