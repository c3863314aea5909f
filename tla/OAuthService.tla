---------------------------- MODULE OAuthService ----------------------------
(***************************************************************************)
(* auth-service: registration, the authorization-code flow with PKCE, the  *)
(* three token grants, rotation of refresh tokens and revocation           *)
(* (auth-service/src/services/oauth_service.rs, auth_service.rs).          *)
(*                                                                         *)
(* Every HTTP request is a process: it starts once, and each of its        *)
(* actions is the code between two awaits that touch shared state.         *)
(* Requests interleave at those points, as the handlers do on the worker   *)
(* threads of several replicas of the service.  Random strings (codes,     *)
(* refresh tokens, client identifiers) are unique, so each is named by     *)
(* the request that generated it.                                          *)
(***************************************************************************)
EXTENDS ReplicatedDatabase

CONSTANTS
    Requests,           \* the HTTP requests of a run
    Users,              \* the e-mail addresses
    Redirects,          \* redirect URIs
    Scopes,             \* scope names
    Verifiers,          \* PKCE code verifiers
    SeedUsers,          \* users registered before the run
    SeedClients,        \* clients registered before the run: id -> row
    CodeTTL,            \* life of an authorization code (10 minutes)
    RefreshTTL,         \* REFRESH_TOKEN_TTL_DAYS
    AccessTTL,          \* ACCESS_TOKEN_TTL_SECS
    MaxTime,            \* bound: the last value of the clock
    Kinds,              \* bound: the kinds of request of a run
    Serialized,         \* bound: one request at a time
    Faults              \* database errors and crashes happen

VARIABLES
    clock,              \* Utc::now()
    users,              \* auth_users: e-mail -> row
    clients,            \* oauth_clients: client_id -> row
    codes,              \* authorization_codes: code -> row
    tokens,             \* refresh_tokens: token -> row
    clientCache,        \* client_ids with an oauth_client:<id> entry in Redis
    pc,                 \* where each request is
    req,                \* what each started request asks
    seen,               \* the code or token row each request has read
    readAt,             \* history: log position of that read
    wroteAt,            \* history: log position of the write that spent it
    reply,              \* outcome of each request
    access              \* access tokens issued: request -> claims

tables == <<users, clients, codes, tokens>>
local == <<seen, readAt, wroteAt>>
vars == <<lsn, applied, timeline, clock, users, clients, codes, tokens, clientCache,
          pc, req, seen, readAt, wroteAt, reply, access>>

(***************************************************************************)
(* Data                                                                    *)
(***************************************************************************)
ClientIds == DOMAIN SeedClients \cup Requests

(* base64url(SHA-256(verifier)): collisions are ignored.                   *)
S256(verifier) == <<"S256", verifier>>
Challenges == {S256(v) : v \in Verifiers}

UserRow == [at : Nat]
ClientRow == [redirect : Redirects, scopes : SUBSET Scopes, at : Nat]
CodeRow == [client : ClientIds, user : Users, redirect : Redirects,
            scopes : SUBSET Scopes, challenge : Challenges,
            expires : Nat, at : Nat, usedAt : Nat]
\* grant is history: the authorization code the token descends from.
TokenRow == [client : ClientIds, user : Users, scopes : SUBSET Scopes,
             expires : Nat, at : Nat, deletedAt : Nat, grant : Requests]
SeenRow == [user : Users, scopes : SUBSET Scopes, grant : Requests]
Claims == [sub : Users \cup ClientIds, client : ClientIds,
           scopes : SUBSET Scopes, exp : Nat]

Register == [kind : {"register"}, user : Users]
RegisterClient ==
    [kind : {"register_client"}, redirect : Redirects, scopes : SUBSET Scopes]
Authorize(ids) ==
    [kind : {"authorize"}, client : ids, redirect : Redirects,
     scopes : SUBSET Scopes, challenge : Challenges,
     user : Users, password : BOOLEAN]
\* A secret is named by the client it was handed to.
CodeGrant(ids, held) ==
    [kind : {"authorization_code"}, client : ids, secret : ids,
     key : held, redirect : Redirects, verifier : Verifiers]
ClientGrant(ids) ==
    [kind : {"client_credentials"}, client : ids, secret : ids,
     scopes : SUBSET Scopes]
RefreshGrant(ids, held) ==
    [kind : {"refresh_token"}, client : ids, secret : ids, key : held]
Revoke(ids, held) ==
    [kind : {"revoke"}, client : ids, secret : ids, key : held]

Request == Register \cup RegisterClient \cup Authorize(ClientIds)
    \cup CodeGrant(ClientIds, Requests) \cup ClientGrant(ClientIds)
    \cup RefreshGrant(ClientIds, Requests) \cup Revoke(ClientIds, Requests)

(* What the service is configured with, and what its database holds at the *)
(* start; a request's random strings are new.                              *)
ASSUME OAuthAssumption ==
    /\ SeedUsers \subseteq Users
    /\ IsTable(SeedClients, DOMAIN SeedClients, ClientRow)
    /\ DOMAIN SeedClients \cap Requests = {}
    /\ CodeTTL \in Nat /\ RefreshTTL \in Nat /\ AccessTTL \in Nat
    /\ MaxTime \in Nat
    /\ Serialized \in BOOLEAN /\ Faults \in BOOLEAN

Replies == {"none", "ok", "InvalidRequest", "InvalidClient", "InvalidGrant",
            "Unauthorized", "NotFound", "Conflict", "InternalError", "lost"}
Labels == {"new", "insert", "client", "credentials", "issue", "lookup",
           "spend", "purge", "user", "mint", "revoke", "done"}

(***************************************************************************)
(* What a caller can hold: only what an earlier answer gave out.           *)
(***************************************************************************)
Answered(p, kinds) == reply[p] = "ok" /\ req[p].kind \in kinds
KnownClients ==
    DOMAIN SeedClients \cup {p \in DOMAIN req : Answered(p, {"register_client"})}
KnownCodes == {p \in DOMAIN req : Answered(p, {"authorize"})}
KnownTokens ==
    {p \in DOMAIN req : Answered(p, {"authorization_code", "refresh_token"})}
Inputs == Register \cup RegisterClient \cup Authorize(KnownClients)
    \cup CodeGrant(KnownClients, KnownCodes) \cup ClientGrant(KnownClients)
    \cup RefreshGrant(KnownClients, KnownTokens)
    \cup Revoke(KnownClients, KnownTokens)

(***************************************************************************)
(* Steps shared by the handlers                                            *)
(***************************************************************************)
InFlight(p) == pc[p] \notin {"new", "done"}

Goto(p, label) ==
    /\ pc' = [pc EXCEPT ![p] = label]
    /\ UNCHANGED reply

Finish(p, outcome) ==
    /\ pc' = [pc EXCEPT ![p] = "done"]
    /\ reply' = [reply EXCEPT ![p] = outcome]

(* client_secret_hash is #[serde(skip_serializing)] and a required field   *)
(* of the same struct: the JSON that set_cached stores is refused by the   *)
(* get_cached that reads it back, which then reports a miss.               *)
ClientFields == {"id", "client_id", "client_secret_hash", "client_name",
                 "redirect_uri", "scopes", "created_at"}
CachedFields == ClientFields \ {"client_secret_hash"}
CacheHit(id) == id \in clientCache /\ ClientFields \subseteq CachedFields

(* set_cached ignores every Redis error.                                   *)
CacheClient(id) == clientCache' \in {clientCache, clientCache \cup {id}}

(* find_client_cached: Redis, else the read pool and fill the cache.  The  *)
(* rows of oauth_clients never change, so one step stands for the two.     *)
FindClient(p) ==
    LET id == req[p].client IN
    /\ pc[p] = "client"
    /\ \/ CacheHit(id) /\ UNCHANGED clientCache
       \/ /\ ~CacheHit(id)
          /\ \E point \in ReadPoints : Present(clients, id, point)
          /\ CacheClient(id)

ClientNotFound(p) ==
    /\ pc[p] = "client"
    /\ ~CacheHit(req[p].client)
    /\ \/ \E point \in ReadPoints : ~Present(clients, req[p].client, point)
       \/ Faults
    /\ Finish(p, "InvalidClient")
    /\ UNCHANGED <<dbVars, clock, tables, clientCache, req, local, access>>

SecretMatches(r) == r.secret = r.client
AnyScopesAllowed(r) == r.scopes \subseteq Scopes       \* seeded fault
ScopesAllowed(r) == r.scopes \subseteq clients[r.client].scopes

GrantAccess(p, sub, scopes) ==
    access' = Insert(access, p, [sub |-> sub, client |-> req[p].client,
                                 scopes |-> scopes, exp |-> clock + AccessTTL])

(* Outcomes of a write: done; done but the answer lost with the            *)
(* connection; not done.                                                   *)
Failed(p) == Faults /\ Finish(p, "InternalError")

(* authorization_codes.user_id and refresh_tokens.user_id reference        *)
(* auth_users: without the row of its user an INSERT there is refused.     *)
(* Nothing deletes such a row; a failover may lose it (see Failover).      *)
Referenced(user) == user \in DOMAIN users
Unreferenced(p, user) == ~Referenced(user) /\ Finish(p, "InternalError")

(***************************************************************************)
(* Arrival                                                                 *)
(***************************************************************************)
MayArrive(p) ==
    /\ pc[p] = "new"
    /\ Serialized => \A q \in Requests : ~InFlight(q)

Arrive(p) ==
    /\ MayArrive(p)
    /\ \E r \in Inputs :
          /\ r.kind \in Kinds
          /\ req' = Insert(req, p, r)
          /\ Goto(p, IF r.kind \in {"register", "register_client"}
                     THEN "insert" ELSE "client")
    /\ UNCHANGED <<dbVars, clock, tables, clientCache, local, access>>

(* A short password, a missing field, a wrong response_type, challenge     *)
(* method or grant_type is refused before anything is read.                *)
RejectMalformed(p) ==
    /\ MayArrive(p)
    /\ "malformed" \in Kinds
    /\ Finish(p, "InvalidRequest")
    /\ UNCHANGED <<dbVars, clock, tables, clientCache, req, local, access>>

(***************************************************************************)
(* AuthService::register, OAuthService::register_client.  The event that   *)
(* the controller publishes after a registration is in UserEvents.         *)
(***************************************************************************)
RegisterUser(p) ==
    LET email == req[p].user IN
    /\ pc[p] = "insert" /\ req[p].kind = "register"
    /\ \/ /\ email \in DOMAIN users
          /\ Finish(p, "Conflict")
          /\ UNCHANGED <<dbVars, users>>
       \/ /\ email \notin DOMAIN users
          /\ users' = Insert(users, email, [at |-> lsn + 1])
          /\ Commit
          /\ Finish(p, "ok") \/ Failed(p)
       \/ Failed(p) /\ UNCHANGED <<dbVars, users>>
    /\ UNCHANGED <<clock, clients, codes, tokens, clientCache, req, local, access>>

InsertClient(p) ==
    /\ pc[p] = "insert" /\ req[p].kind = "register_client"
    /\ \/ /\ clients' = Insert(clients, p, [redirect |-> req[p].redirect,
                                            scopes |-> req[p].scopes,
                                            at |-> lsn + 1])
          /\ Commit
          /\ \/ CacheClient(p) /\ Finish(p, "ok")
             \/ UNCHANGED clientCache /\ Failed(p)
       \/ Failed(p) /\ UNCHANGED <<dbVars, clients, clientCache>>
    /\ UNCHANGED <<clock, users, codes, tokens, req, local, access>>

(***************************************************************************)
(* OAuthService::authorize                                                 *)
(***************************************************************************)
AuthorizeClient(p) ==
    LET r == req[p] IN
    /\ pc[p] = "client" /\ r.kind = "authorize"
    /\ FindClient(p)
    /\ IF clients[r.client].redirect = r.redirect /\ ScopesAllowed(r)
       THEN Goto(p, "credentials")
       ELSE Finish(p, "InvalidRequest")
    /\ UNCHANGED <<dbVars, clock, tables, req, local, access>>

\* Seeded fault: wait for the user to reach the replica.
AwaitCredentials(p) ==
    /\ pc[p] = "credentials"
    /\ \E point \in ReadPoints : Present(users, req[p].user, point)
    /\ Goto(p, "issue")
    /\ UNCHANGED <<dbVars, clock, tables, clientCache, req, local, access>>

VerifyCredentials(p) ==
    /\ pc[p] = "credentials"
    /\ \/ /\ req[p].password
          /\ \E point \in ReadPoints : Present(users, req[p].user, point)
          /\ Goto(p, "issue")
       \/ /\ \/ ~req[p].password
             \/ \E point \in ReadPoints : ~Present(users, req[p].user, point)
             \/ Faults
          /\ Finish(p, "Unauthorized")
    /\ UNCHANGED <<dbVars, clock, tables, clientCache, req, local, access>>

IssueCode(p) ==
    LET r == req[p] IN
    /\ pc[p] = "issue"
    /\ \/ /\ Referenced(r.user)
          /\ codes' = Insert(codes, p,
                [client |-> r.client, user |-> r.user, redirect |-> r.redirect,
                 scopes |-> r.scopes, challenge |-> r.challenge,
                 expires |-> clock + CodeTTL, at |-> lsn + 1, usedAt |-> Never])
          /\ Commit
          /\ Finish(p, "ok") \/ Failed(p)
       \/ Unreferenced(p, r.user) /\ UNCHANGED <<dbVars, codes>>
       \/ Failed(p) /\ UNCHANGED <<dbVars, codes>>
    /\ UNCHANGED <<clock, users, clients, tokens, clientCache, req, local, access>>

(***************************************************************************)
(* OAuthService::token: the client of a grant, then the grant itself       *)
(***************************************************************************)
AuthenticateClient(p) ==
    LET r == req[p] IN
    /\ pc[p] = "client" /\ r.kind \in {"authorization_code", "refresh_token", "revoke"}
    /\ FindClient(p)
    /\ IF ~SecretMatches(r) THEN Finish(p, "InvalidClient")
       ELSE Goto(p, IF r.kind = "revoke" THEN "revoke" ELSE "lookup")
    /\ UNCHANGED <<dbVars, clock, tables, req, local, access>>

ClientCredentials(p) ==
    LET r == req[p] IN
    /\ pc[p] = "client" /\ r.kind = "client_credentials"
    /\ FindClient(p)
    /\ IF SecretMatches(r) /\ ScopesAllowed(r)
       THEN Finish(p, "ok") /\ GrantAccess(p, r.client, r.scopes)
       ELSE /\ Finish(p, IF SecretMatches(r) THEN "InvalidRequest" ELSE "InvalidClient")
            /\ UNCHANGED access
    /\ UNCHANGED <<dbVars, clock, tables, req, local>>

\* Seeded faults: the used flag is not looked at; a code dies a tick early.
CodeRedeemableTwice(r, point) ==
    LET row == codes[r.key] IN
    /\ Present(codes, r.key, point)
    /\ row.expires >= clock
    /\ row.client = r.client /\ row.redirect = r.redirect
    /\ row.challenge = S256(r.verifier)
CodeRedeemableEarly(r, point) ==
    CodeRedeemableTwice(r, point)
    /\ ~Holds(codes[r.key].usedAt, point) /\ codes[r.key].expires > clock

(* find_by_code on the read pool, and every check on the row it returns.   *)
CodeRedeemable(r, point) ==
    LET row == codes[r.key] IN
    /\ Present(codes, r.key, point)
    /\ ~Holds(row.usedAt, point)
    /\ row.expires >= clock
    /\ row.client = r.client
    /\ row.redirect = r.redirect
    /\ row.challenge = S256(r.verifier)

DeletedTokenVisible(key, point) == Present(tokens, key, point) \* seeded fault
TokenVisible(key, point) ==
    Present(tokens, key, point) /\ ~Holds(tokens[key].deletedAt, point)

Remember(p, row, grant, point) ==
    /\ seen' = Insert(seen, p, [user |-> row.user, scopes |-> row.scopes,
                                grant |-> grant])
    /\ readAt' = [readAt EXCEPT ![p] = point]
    /\ UNCHANGED wroteAt

LookupCode(p) ==
    LET r == req[p] IN
    /\ pc[p] = "lookup" /\ r.kind = "authorization_code"
    /\ \E point \in ReadPoints :
          \/ /\ CodeRedeemable(r, point)
             /\ Remember(p, codes[r.key], r.key, point)
             /\ Goto(p, "spend")
          \/ /\ ~CodeRedeemable(r, point) \/ Faults
             /\ Finish(p, "InvalidGrant")
             /\ UNCHANGED local
    /\ UNCHANGED <<dbVars, clock, tables, clientCache, req, access>>

LookupToken(p) ==
    LET r == req[p] IN
    LET row == tokens[r.key] IN
    /\ pc[p] = "lookup" /\ r.kind = "refresh_token"
    /\ \E point \in ReadPoints :
          \/ /\ TokenVisible(r.key, point) /\ row.expires >= clock
             /\ row.client = r.client
             /\ Remember(p, row, row.grant, point)
             /\ Goto(p, "spend")
          \/ /\ TokenVisible(r.key, point) /\ row.expires < clock
             /\ Goto(p, "purge")
             /\ UNCHANGED local
          \/ /\ \/ ~(TokenVisible(r.key, point)
                     /\ (row.expires < clock \/ row.client = r.client))
                \/ Faults
             /\ Finish(p, "InvalidGrant")
             /\ UNCHANGED local
    /\ UNCHANGED <<dbVars, clock, tables, clientCache, req, access>>

Stamp(old) == IF old = Never THEN lsn + 1 ELSE old

\* Seeded faults: a code is not marked; a token is not removed.
MarkNothing(p) ==
    /\ wroteAt' = [wroteAt EXCEPT ![p] = lsn + 1]
    /\ Commit
    /\ UNCHANGED <<codes, seen, readAt>>
DeleteNothing(p) ==
    /\ wroteAt' = [wroteAt EXCEPT ![p] = lsn + 1]
    /\ Commit
    /\ UNCHANGED <<tokens, seen, readAt>>

\* Seeded faults: after a failover both still go to the old primary.
MarkOnOldPrimary(p) ==
    /\ codes' = IF timeline > 0 THEN codes
                ELSE [codes EXCEPT ![req[p].key].usedAt = Stamp(@)]
    /\ wroteAt' = [wroteAt EXCEPT ![p] = lsn + 1]
    /\ Commit
    /\ UNCHANGED <<seen, readAt>>
DeleteOnOldPrimary(p) ==
    /\ tokens' = IF timeline > 0 THEN tokens
                 ELSE [tokens EXCEPT ![req[p].key].deletedAt = Stamp(@)]
    /\ wroteAt' = [wroteAt EXCEPT ![p] = lsn + 1]
    /\ Commit
    /\ UNCHANGED <<seen, readAt>>

(* mark_used: UPDATE ... SET used = true, whatever the row holds; the      *)
(* number of rows it changed is not looked at.                             *)
MarkUsed(p) ==
    /\ codes' = [codes EXCEPT ![req[p].key].usedAt = Stamp(@)]
    /\ wroteAt' = [wroteAt EXCEPT ![p] = lsn + 1]
    /\ Commit
    /\ UNCHANGED <<seen, readAt>>

(* delete_by_token: DELETE, which may find no row.                         *)
DeleteToken(p) ==
    /\ tokens' = [tokens EXCEPT ![req[p].key].deletedAt = Stamp(@)]
    /\ wroteAt' = [wroteAt EXCEPT ![p] = lsn + 1]
    /\ Commit
    /\ UNCHANGED <<seen, readAt>>

SpendCode(p) ==
    /\ pc[p] = "spend" /\ req[p].kind = "authorization_code"
    /\ \/ MarkUsed(p) /\ (Goto(p, "user") \/ Failed(p))
       \/ Failed(p) /\ UNCHANGED <<dbVars, codes, local>>
    /\ UNCHANGED <<clock, users, clients, tokens, clientCache, req, access>>

SpendToken(p) ==
    /\ pc[p] = "spend" /\ req[p].kind = "refresh_token"
    /\ \/ DeleteToken(p) /\ (Goto(p, "user") \/ Failed(p))
       \/ Failed(p) /\ UNCHANGED <<dbVars, tokens, local>>
    /\ UNCHANGED <<clock, users, clients, codes, clientCache, req, access>>

(* An expired token is deleted, errors ignored, and the request refused.   *)
PurgeToken(p) ==
    /\ pc[p] = "purge"
    /\ \/ DeleteToken(p)
       \/ Faults /\ UNCHANGED <<dbVars, tokens, local>>
    /\ Finish(p, "InvalidGrant")
    /\ UNCHANGED <<clock, users, clients, codes, clientCache, req, access>>

FindUser(p) ==
    /\ pc[p] = "user"
    /\ \E point \in ReadPoints :
          \/ Present(users, seen[p].user, point) /\ Goto(p, "mint")
          \/ ~Present(users, seen[p].user, point) /\ Finish(p, "NotFound")
          \/ Failed(p)
    /\ UNCHANGED <<dbVars, clock, tables, clientCache, req, local, access>>

\* Seeded fault: a refresh answers with an access token only.
MintForCodesOnly(p) ==
    /\ pc[p] = "mint"
    /\ IF req[p].kind = "refresh_token" THEN UNCHANGED <<dbVars, tokens>>
       ELSE /\ tokens' = Insert(tokens, p,
                 [client |-> req[p].client, user |-> seen[p].user,
                  scopes |-> seen[p].scopes, expires |-> clock + RefreshTTL,
                  at |-> lsn + 1, deletedAt |-> Never, grant |-> seen[p].grant])
            /\ Commit
    /\ Finish(p, "ok") /\ GrantAccess(p, seen[p].user, seen[p].scopes)
    /\ UNCHANGED <<clock, users, clients, codes, clientCache, req, local>>

(* The access token is signed, then the refresh token is stored; the       *)
(* caller gets both or neither.                                            *)
MintToken(p) ==
    /\ pc[p] = "mint"
    /\ \/ /\ Referenced(seen[p].user)
          /\ tokens' = Insert(tokens, p,
                [client |-> req[p].client, user |-> seen[p].user,
                 scopes |-> seen[p].scopes, expires |-> clock + RefreshTTL,
                 at |-> lsn + 1, deletedAt |-> Never, grant |-> seen[p].grant])
          /\ Commit
          /\ \/ Finish(p, "ok") /\ GrantAccess(p, seen[p].user, seen[p].scopes)
             \/ Failed(p) /\ UNCHANGED access
       \/ Unreferenced(p, seen[p].user) /\ UNCHANGED <<dbVars, tokens, access>>
       \/ Failed(p) /\ UNCHANGED <<dbVars, tokens, access>>
    /\ UNCHANGED <<clock, users, clients, codes, clientCache, req, local>>

(* OAuthService::revoke: the result of the DELETE is dropped, and the      *)
(* token's client is not compared with the caller.                         *)
RevokeToken(p) ==
    /\ pc[p] = "revoke"
    /\ \/ DeleteToken(p)
       \/ Faults /\ UNCHANGED <<dbVars, tokens, local>>
    /\ Finish(p, "ok")
    /\ UNCHANGED <<clock, users, clients, codes, clientCache, req, access>>

(***************************************************************************)
(* Environment                                                             *)
(***************************************************************************)
\* The pod dies, or the connection closes and the handler is dropped.
Crash(p) ==
    /\ Faults /\ InFlight(p)
    /\ Finish(p, "lost")
    /\ UNCHANGED <<dbVars, clock, tables, clientCache, req, local, access>>

\* CACHE_TTL runs out, or Redis evicts the key (allkeys-lru).
EvictClient(id) ==
    /\ id \in clientCache
    /\ clientCache' = clientCache \ {id}
    /\ UNCHANGED <<dbVars, clock, tables, pc, req, local, reply, access>>

Tick ==
    /\ clock < MaxTime
    /\ clock' = clock + 1
    /\ UNCHANGED <<dbVars, tables, clientCache, pc, req, local, reply, access>>

Replicate(r) ==
    /\ Replay(r)
    /\ UNCHANGED <<clock, tables, clientCache, pc, req, local, reply, access>>

(***************************************************************************)
(* Specification                                                           *)
(***************************************************************************)
Init ==
    /\ DbInit
    /\ clock = 0
    /\ users = [u \in SeedUsers |-> [at |-> Seeded]]
    /\ clients = SeedClients
    /\ codes = Empty /\ tokens = Empty
    /\ req = Empty /\ seen = Empty /\ access = Empty
    /\ clientCache = {}
    /\ pc = [p \in Requests |-> "new"]
    /\ reply = [p \in Requests |-> "none"]
    /\ readAt = [p \in Requests |-> Never]
    /\ wroteAt = [p \in Requests |-> Never]

Handle(p) ==
    \/ ClientNotFound(p) \/ RegisterUser(p) \/ InsertClient(p)
    \/ AuthorizeClient(p) \/ VerifyCredentials(p) \/ IssueCode(p)
    \/ AuthenticateClient(p) \/ ClientCredentials(p)
    \/ LookupCode(p) \/ LookupToken(p) \/ SpendCode(p) \/ SpendToken(p)
    \/ PurgeToken(p) \/ FindUser(p) \/ MintToken(p) \/ RevokeToken(p)

Next ==
    \/ \E p \in Requests :
          Arrive(p) \/ RejectMalformed(p) \/ Handle(p) \/ Crash(p)
    \/ \E r \in Replicas : Replicate(r)
    \/ \E id \in ClientIds : EvictClient(id)
    \/ Tick

Spec == Init /\ [][Next]_vars

(***************************************************************************)
(* Properties                                                              *)
(***************************************************************************)

(* Every variable has its type: in particular the rows written by the      *)
(* handlers are complete rows of their tables.                             *)
TypeOK ==
    /\ DbTypeOK
    /\ clock \in Nat
    /\ IsTable(users, Users, UserRow)
    /\ IsTable(clients, ClientIds, ClientRow)
    /\ IsTable(codes, Requests, CodeRow)
    /\ IsTable(tokens, Requests, TokenRow)
    /\ clientCache \subseteq ClientIds
    /\ pc \in [Requests -> Labels]
    /\ IsTable(req, Requests, Request)
    /\ IsTable(seen, Requests, SeenRow)
    /\ readAt \in [Requests -> Nat]
    /\ wroteAt \in [Requests -> Nat]
    /\ reply \in [Requests -> Replies]
    /\ IsTable(access, Requests, Claims)

(* Two requests work on the same code, or on the same refresh token.       *)
KeyedKinds == {"authorization_code", "refresh_token", "revoke"}
SameGrant(p, q) ==
    /\ req[p].kind \in KeyedKinds /\ req[q].kind \in KeyedKinds
    /\ req[p].key = req[q].key
    /\ req[p].kind = "authorization_code" <=> req[q].kind = "authorization_code"

(* A request that passed the lookup of a code or refresh token read it     *)
(* before every other use, rotation or revocation of it was visible: the   *)
(* only window in which a grant is spent twice, or outlives its            *)
(* revocation, is the one between a request's read and its write, widened  *)
(* by the lag of the replica it read (exchange_authorization_code,         *)
(* exchange_refresh_token, revoke).                                        *)
SpentGrantsStaySpent ==
    \A p \in DOMAIN seen, q \in DOMAIN req :
        p # q /\ SameGrant(p, q) /\ wroteAt[q] # Never => readAt[p] < wroteAt[q]

WithinClient(client, scopes) ==
    client \in DOMAIN clients /\ scopes \subseteq clients[client].scopes
TokenDescends(t) ==
    LET row == tokens[t]
        code == codes[row.grant] IN
    /\ row.grant \in DOMAIN codes
    /\ row.user = code.user /\ row.client = code.client
    /\ row.scopes = code.scopes
    /\ code.usedAt # Never /\ code.usedAt < row.at

(* Every refresh token, however often rotated and whichever requests were  *)
(* lost on the way, carries the user, client and scopes of an              *)
(* authorization code that was marked used before the token existed, and   *)
(* that code's scopes were registered for its client.                      *)
TokensDescendFromSpentCode ==
    \A t \in DOMAIN tokens :
        TokenDescends(t) /\ WithinClient(tokens[t].client, tokens[t].scopes)

(* No access token names a scope its client was not registered with,       *)
(* through any of the three grants.  Registered with is what the           *)
(* registration asked for and was answered, so that this says the same of  *)
(* a client whose row a failover has lost.                                 *)
RegisteredScopes(client) ==
    IF client \in DOMAIN SeedClients THEN SeedClients[client].scopes
    ELSE req[client].scopes
WithinRegistration(client, scopes) ==
    client \in KnownClients /\ scopes \subseteq RegisteredScopes(client)
AccessWithinRegisteredScopes ==
    \A p \in DOMAIN access : WithinRegistration(access[p].client, access[p].scopes)

(* Requests one at a time, reads from the primary: how the repository's    *)
(* tests exercise the service.                                             *)
Isolated == Serialized /\ Replicas = {}

(* Then a code or a refresh token is redeemed at most once, even when      *)
(* requests die half way and their answers are lost.                       *)
GrantsRedeemedOnce ==
    Isolated => \A p, q \in DOMAIN tokens : SameGrant(p, q) => p = q

(* Then a user's consent is at no time worth two live refresh tokens:      *)
(* rotation removes the old token before it stores the new one.            *)
Live(t) == tokens[t].deletedAt = Never
OneLiveTokenPerCode ==
    Isolated => \A s, t \in DOMAIN tokens :
        Live(s) /\ Live(t) /\ tokens[s].grant = tokens[t].grant => s = t

(* With reads from the primary and no failure, invalid_grant is never      *)
(* answered to a caller whose code or token is good: it was spent,         *)
(* revoked or expired, or it is not this caller's.                         *)
Unusable(r) ==
    IF r.kind = "authorization_code"
    THEN LET row == codes[r.key] IN
         \/ row.usedAt # Never \/ row.expires < clock
         \/ row.client # r.client \/ row.redirect # r.redirect
         \/ row.challenge # S256(r.verifier)
    ELSE LET row == tokens[r.key] IN
         row.deletedAt # Never \/ row.expires < clock \/ row.client # r.client
RefusalsAreJustified ==
    Replicas = {} /\ ~Faults =>
        \A p \in DOMAIN req : reply[p] = "InvalidGrant" => Unusable(req[p])

(* Without failures, and with at most one replica to read from, a session  *)
(* ends only by revocation or expiry: once a code is spent there is a live *)
(* refresh token, or a request about to store one, until some request      *)
(* revokes or purges a token of that session.                              *)
Renewing(k) == \E p \in DOMAIN seen :
    InFlight(p) /\ seen[p].grant = k /\ pc[p] \in {"user", "mint"}
Ended(k) == \E q \in DOMAIN req :
    /\ wroteAt[q] # Never
    /\ \/ req[q].kind = "revoke"
       \/ req[q].kind = "refresh_token" /\ reply[q] = "InvalidGrant"
    /\ tokens[req[q].key].grant = k
MonotoneReads == \A r, s \in Replicas : r = s
SessionsSurviveRotation ==
    MonotoneReads /\ ~Faults =>
        \A k \in DOMAIN codes : codes[k].usedAt # Never =>
            \/ \E t \in DOMAIN tokens : tokens[t].grant = k /\ Live(t)
            \/ Renewing(k)
            \/ Ended(k)

(* No handler ever waits for another request, for a replica to catch up or *)
(* for a row to appear: whatever it has read, and whatever was lost since, *)
(* its next step can be taken now.  Its steps never return to an earlier   *)
(* one, so a handler whose awaits end is answered (ServicePod has the ones *)
(* that do not: a pool, a store, a Redis that never answers).              *)
EveryRequestCanGoOn == \A p \in Requests : InFlight(p) => ENABLED Handle(p)

(***************************************************************************)
(* What the repository says and the code does not do                       *)
(***************************************************************************)

(* auth-service/tests/api_tests.rs: a second exchange of an authorization  *)
(* code is answered 400, so no two exchanges of one code succeed.          *)
CodeExchangedOnce ==
    \A p, q \in DOMAIN req :
        /\ Answered(p, {"authorization_code"}) /\ Answered(q, {"authorization_code"})
        /\ req[p].key = req[q].key
        => p = q

(* "Cached client lookup - checks Redis first, falls back to DB"           *)
(* (oauth_service.rs): a client whose entry is in Redis is found, whatever *)
(* the replica has replayed.                                               *)
CachedClientIsFound ==
    [][\A p \in Requests :
          pc[p] = "client" /\ req[p].client \in clientCache
             /\ (req[p].kind = "authorize" \/ SecretMatches(req[p]))
          => reply'[p] # "InvalidClient"]_vars
=============================================================================
