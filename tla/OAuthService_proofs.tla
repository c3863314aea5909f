------------------------ MODULE OAuthService_proofs ------------------------
(***************************************************************************)
(* Typing of OAuthService, for any sets of requests, replicas, users,      *)
(* clients and scopes.  TypeOK is not inductive: a handler step is well    *)
(* typed because of what the earlier steps of the same request checked or  *)
(* read.  Control says what that is, References that the rows a request    *)
(* names are there (as long as no failover loses them: Failover_proofs     *)
(* uses Typed without it), and Frame what the steps of one request leave   *)
(* of the others.                                                          *)
(***************************************************************************)
EXTENDS OAuthService, TLAPS

TokenGrants == {"authorization_code", "refresh_token"}

(***************************************************************************)
(* Control: where a request can be, given its kind, and what the rows and  *)
(* answers it refers to guarantee.                                         *)
(***************************************************************************)
LabelOK(p) ==
    /\ pc[p] = "new" => p \notin DOMAIN req /\ wroteAt[p] = Never
    /\ InFlight(p) => p \in DOMAIN req
    /\ reply[p] = "ok" => pc[p] = "done"
    /\ pc[p] = "insert" => req[p].kind \in {"register", "register_client"}
    /\ pc[p] = "client" =>
          req[p].kind \in KeyedKinds \cup {"authorize", "client_credentials"}
    /\ pc[p] \in {"credentials", "issue"} => req[p].kind = "authorize"
    /\ pc[p] = "lookup" => req[p].kind \in TokenGrants
    /\ pc[p] = "purge" => req[p].kind = "refresh_token"
    /\ pc[p] = "revoke" => req[p].kind = "revoke"
    /\ pc[p] \in {"spend", "user", "mint"} => p \in DOMAIN seen

SeenOK(p) == p \in DOMAIN seen =>
    /\ p \in DOMAIN req /\ req[p].kind \in TokenGrants
    /\ pc[p] \in {"spend", "user", "mint", "done"}

RowsOK(p) ==
    /\ p \in DOMAIN clients => pc[p] = "done"
    /\ p \in DOMAIN codes =>
          pc[p] = "done" /\ p \in DOMAIN req /\ req[p].kind = "authorize"
    /\ p \in DOMAIN tokens => pc[p] = "done" /\ p \in DOMAIN seen

RequestOK(p) == LabelOK(p) /\ SeenOK(p) /\ RowsOK(p)
Control == \A p \in Requests : RequestOK(p)

Typed == TypeOK /\ Control

(***************************************************************************)
(* References: the code or token a request names, and the row a successful *)
(* request stored, are in their tables.                                    *)
(***************************************************************************)
KeyOK(p) == p \in DOMAIN req =>
    /\ req[p].kind = "authorization_code" => req[p].key \in DOMAIN codes
    /\ req[p].kind \in {"refresh_token", "revoke"} => req[p].key \in DOMAIN tokens

AnswerOK(p) == p \in DOMAIN req /\ reply[p] = "ok" =>
    /\ req[p].kind = "authorize" => p \in DOMAIN codes
    /\ req[p].kind \in TokenGrants => p \in DOMAIN tokens

References == \A p \in Requests : KeyOK(p) /\ AnswerOK(p)

Inv1 == TypeOK /\ Control /\ References

(***************************************************************************)
(* Tables                                                                  *)
(***************************************************************************)

(* An INSERT adds one row and leaves the others alone.                     *)
LEMMA InsertRow ==
    ASSUME NEW table, NEW key, NEW row
    PROVE  /\ DOMAIN Insert(table, key, row) = DOMAIN table \cup {key}
           /\ Insert(table, key, row)[key] = row
           /\ \A k \in DOMAIN table \ {key} : Insert(table, key, row)[k] = table[k]
BY DEF Insert

LEMMA InsertTable ==
    ASSUME NEW keys, NEW rows, NEW table, IsTable(table, keys, rows),
           NEW key \in keys, NEW row \in rows
    PROVE  IsTable(Insert(table, key, row), keys, rows)
BY DEF Insert, IsTable

LEMMA EmptyIsTable ==
    ASSUME NEW keys, NEW rows
    PROVE  IsTable(Empty, keys, rows) /\ DOMAIN Empty = {}
BY DEF Empty, IsTable

(* The cached JSON of a client is never readable: every lookup goes on to  *)
(* the read pool (find_client_cached, models/oauth_client.rs).             *)
LEMMA CacheNeverHits == ASSUME NEW id PROVE ~CacheHit(id)
<1>1. "client_secret_hash" \in ClientFields BY DEF ClientFields
<1>2. "client_secret_hash" \notin CachedFields BY DEF CachedFields
<1> QED BY <1>1, <1>2 DEF CacheHit

(* The fields a request has, by kind.                                      *)
LEMMA RequestFields ==
    ASSUME NEW r \in Request
    PROVE  /\ r.kind \in {"register", "register_client", "authorize",
                          "authorization_code", "client_credentials",
                          "refresh_token", "revoke"}
           /\ r.kind = "register" => r.user \in Users
           /\ r.kind = "register_client" =>
                 r.redirect \in Redirects /\ r.scopes \in SUBSET Scopes
           /\ r.kind \in KeyedKinds \cup {"authorize", "client_credentials"} =>
                 r.client \in ClientIds
           /\ r.kind = "authorize" =>
                 /\ r.redirect \in Redirects /\ r.scopes \in SUBSET Scopes
                 /\ r.challenge \in Challenges /\ r.user \in Users
           /\ r.kind \in KeyedKinds => r.key \in Requests
           /\ r.kind = "client_credentials" => r.scopes \in SUBSET Scopes
<1>1. CASE r \in Register BY <1>1 DEF Register, KeyedKinds
<1>2. CASE r \in RegisterClient BY <1>2 DEF RegisterClient, KeyedKinds
<1>3. CASE r \in Authorize(ClientIds) BY <1>3 DEF Authorize, KeyedKinds
<1>4. CASE r \in CodeGrant(ClientIds, Requests) BY <1>4 DEF CodeGrant, KeyedKinds
<1>5. CASE r \in ClientGrant(ClientIds) BY <1>5 DEF ClientGrant, KeyedKinds
<1>6. CASE r \in RefreshGrant(ClientIds, Requests) BY <1>6 DEF RefreshGrant, KeyedKinds
<1>7. CASE r \in Revoke(ClientIds, Requests) BY <1>7 DEF Revoke, KeyedKinds
<1> QED BY <1>1, <1>2, <1>3, <1>4, <1>5, <1>6, <1>7 DEF Request

(* A caller can only send a request of the right shape.                    *)
LEMMA InputsTyped == ASSUME TypeOK, NEW r \in Inputs PROVE r \in Request
<1>1. /\ KnownClients \subseteq ClientIds
      /\ KnownCodes \subseteq Requests /\ KnownTokens \subseteq Requests
  BY DEF TypeOK, IsTable, KnownClients, KnownCodes, KnownTokens, ClientIds
<1>2. CASE r \in Register BY <1>2 DEF Register, Request
<1>3. CASE r \in RegisterClient BY <1>3 DEF RegisterClient, Request
<1>4. CASE r \in Authorize(KnownClients)
  BY <1>1, <1>4 DEF Authorize, Request
<1>5. CASE r \in CodeGrant(KnownClients, KnownCodes)
  BY <1>1, <1>5 DEF CodeGrant, Request
<1>6. CASE r \in ClientGrant(KnownClients)
  BY <1>1, <1>6 DEF ClientGrant, Request
<1>7. CASE r \in RefreshGrant(KnownClients, KnownTokens)
  BY <1>1, <1>7 DEF RefreshGrant, Request
<1>8. CASE r \in Revoke(KnownClients, KnownTokens)
  BY <1>1, <1>8 DEF Revoke, Request
<1> QED BY <1>2, <1>3, <1>4, <1>5, <1>6, <1>7, <1>8 DEF Inputs

LEMMA InitTyped == Init => Typed
<1> SUFFICES ASSUME Init PROVE Typed
  OBVIOUS
<1> USE OAuthAssumption
<1>1. DbTypeOK BY DEF Init, DbInit, DbTypeOK, Seeded, Never
<1>2. IsTable(users, Users, UserRow)
  BY DEF Init, IsTable, UserRow, Seeded
<1>3. IsTable(clients, ClientIds, ClientRow)
  BY DEF Init, IsTable, ClientIds
<1>4. /\ IsTable(codes, Requests, CodeRow) /\ IsTable(tokens, Requests, TokenRow)
      /\ IsTable(req, Requests, Request) /\ IsTable(seen, Requests, SeenRow)
      /\ IsTable(access, Requests, Claims)
  BY EmptyIsTable DEF Init
<1>5. /\ clock \in Nat /\ clientCache \subseteq ClientIds
      /\ pc \in [Requests -> Labels] /\ reply \in [Requests -> Replies]
      /\ readAt \in [Requests -> Nat] /\ wroteAt \in [Requests -> Nat]
  BY DEF Init, Labels, Replies, Never
<1>6. TypeOK BY <1>1, <1>2, <1>3, <1>4, <1>5 DEF TypeOK
<1>7. /\ DOMAIN req = {} /\ DOMAIN seen = {} /\ DOMAIN codes = {}
      /\ DOMAIN tokens = {}
  BY EmptyIsTable DEF Init
<1>8. \A p \in DOMAIN clients : p \notin Requests
  BY DEF Init
<1>9. ASSUME NEW p \in Requests PROVE RequestOK(p)
  BY <1>7, <1>8
  DEF Init, RequestOK, LabelOK, InFlight, SeenOK, RowsOK
<1> QED BY <1>6, <1>9 DEF Typed, Control

(***************************************************************************)
(* What a step of request p leaves alone                                   *)
(***************************************************************************)
GrowsBy(old, new, p) ==
    /\ DOMAIN old \subseteq DOMAIN new /\ DOMAIN new \subseteq DOMAIN old \cup {p}
    /\ \A k \in DOMAIN old \ {p} : new[k] = old[k]

(* A stamp is set once, to the position of the write that sets it.         *)
Stamped(old, new) == new = old \/ (old = Never /\ new = lsn + 1)

SameConsent(old, new) ==
    new.client = old.client /\ new.user = old.user /\ new.scopes = old.scopes

CodesGrow(p) ==
    /\ DOMAIN codes \subseteq DOMAIN codes'
    /\ DOMAIN codes' \subseteq DOMAIN codes \cup {p}
    /\ \A k \in DOMAIN codes \ {p} :
          /\ SameConsent(codes[k], codes'[k]) /\ codes'[k].at = codes[k].at
          /\ Stamped(codes[k].usedAt, codes'[k].usedAt)
TokensGrow(p) ==
    /\ DOMAIN tokens \subseteq DOMAIN tokens'
    /\ DOMAIN tokens' \subseteq DOMAIN tokens \cup {p}
    /\ \A k \in DOMAIN tokens \ {p} :
          /\ SameConsent(tokens[k], tokens'[k]) /\ tokens'[k].at = tokens[k].at
          /\ tokens'[k].grant = tokens[k].grant
          /\ Stamped(tokens[k].deletedAt, tokens'[k].deletedAt)

Frame(p) ==
    /\ \A q \in Requests \ {p} :
          /\ pc'[q] = pc[q] /\ reply'[q] = reply[q]
          /\ readAt'[q] = readAt[q] /\ wroteAt'[q] = wroteAt[q]
    /\ GrowsBy(req, req', p) /\ GrowsBy(seen, seen', p)
    /\ GrowsBy(clients, clients', p) /\ GrowsBy(access, access', p)
    /\ CodesGrow(p) /\ TokensGrow(p)
    /\ lsn' \in {lsn, lsn + 1} /\ timeline' = timeline

LEMMA Unchanged == ASSUME NEW t, NEW p PROVE GrowsBy(t, t, p)
BY DEF GrowsBy

LEMMA Inserted == ASSUME NEW t, NEW p, NEW row PROVE GrowsBy(t, Insert(t, p, row), p)
BY DEF GrowsBy, Insert

LEMMA CodesUnchanged == ASSUME UNCHANGED codes, NEW p PROVE CodesGrow(p)
BY DEF CodesGrow, SameConsent, Stamped

LEMMA TokensUnchanged == ASSUME UNCHANGED tokens, NEW p PROVE TokensGrow(p)
BY DEF TokensGrow, SameConsent, Stamped

LEMMA CodeInserted ==
    ASSUME NEW p, NEW row, codes' = Insert(codes, p, row) PROVE CodesGrow(p)
BY DEF CodesGrow, SameConsent, Stamped, Insert

LEMMA TokenInserted ==
    ASSUME NEW p, NEW row, tokens' = Insert(tokens, p, row) PROVE TokensGrow(p)
BY DEF TokensGrow, SameConsent, Stamped, Insert

LEMMA CodeMarked ==
    ASSUME TypeOK, NEW p, MarkUsed(p)
    PROVE  CodesGrow(p) /\ DOMAIN codes' = DOMAIN codes
           /\ IsTable(codes', Requests, CodeRow)
<1> DEFINE key == req[p].key
<1>1. codes' = [codes EXCEPT ![key].usedAt = Stamp(@)] BY DEF MarkUsed
<1>2. codes \in [DOMAIN codes -> CodeRow] /\ DOMAIN codes \subseteq Requests
  BY DEF TypeOK, IsTable
<1>3. lsn + 1 \in Nat BY DEF TypeOK, DbTypeOK
<1> HIDE DEF key
<1>4. DOMAIN codes' = DOMAIN codes BY <1>1, <1>2
<1>5. \A k \in DOMAIN codes :
         codes'[k] = IF k = key THEN [codes[k] EXCEPT !.usedAt = Stamp(@)] ELSE codes[k]
  BY <1>1, <1>2
<1>6. ASSUME NEW row \in CodeRow
      PROVE  /\ [row EXCEPT !.usedAt = Stamp(@)] \in CodeRow
             /\ SameConsent(row, [row EXCEPT !.usedAt = Stamp(@)])
             /\ [row EXCEPT !.usedAt = Stamp(@)].at = row.at
             /\ Stamped(row.usedAt, [row EXCEPT !.usedAt = Stamp(@)].usedAt)
  BY <1>3 DEF CodeRow, Stamp, SameConsent, Stamped
<1>7. IsTable(codes', Requests, CodeRow)
  BY <1>1, <1>2, <1>4, <1>5, <1>6 DEF IsTable
<1>8. ASSUME NEW k \in DOMAIN codes
      PROVE  /\ SameConsent(codes[k], codes'[k]) /\ codes'[k].at = codes[k].at
             /\ Stamped(codes[k].usedAt, codes'[k].usedAt)
  <2>1. codes[k] \in CodeRow BY <1>2
  <2>2. CASE k = key BY <1>5, <1>6, <2>1, <2>2
  <2>3. CASE k # key BY <1>5, <2>3 DEF SameConsent, Stamped
  <2> QED BY <2>2, <2>3
<1>9. CodesGrow(p) BY <1>4, <1>8 DEF CodesGrow
<1> QED BY <1>4, <1>7, <1>9

LEMMA TokenDeleted ==
    ASSUME TypeOK, NEW p, DeleteToken(p)
    PROVE  TokensGrow(p) /\ DOMAIN tokens' = DOMAIN tokens
           /\ IsTable(tokens', Requests, TokenRow)
<1> DEFINE key == req[p].key
<1>1. tokens' = [tokens EXCEPT ![key].deletedAt = Stamp(@)] BY DEF DeleteToken
<1>2. tokens \in [DOMAIN tokens -> TokenRow] /\ DOMAIN tokens \subseteq Requests
  BY DEF TypeOK, IsTable
<1>3. lsn + 1 \in Nat BY DEF TypeOK, DbTypeOK
<1> HIDE DEF key
<1>4. DOMAIN tokens' = DOMAIN tokens BY <1>1, <1>2
<1>5. \A k \in DOMAIN tokens :
         tokens'[k] = IF k = key THEN [tokens[k] EXCEPT !.deletedAt = Stamp(@)]
                      ELSE tokens[k]
  BY <1>1, <1>2
<1>6. ASSUME NEW row \in TokenRow
      PROVE  /\ [row EXCEPT !.deletedAt = Stamp(@)] \in TokenRow
             /\ SameConsent(row, [row EXCEPT !.deletedAt = Stamp(@)])
             /\ [row EXCEPT !.deletedAt = Stamp(@)].at = row.at
             /\ [row EXCEPT !.deletedAt = Stamp(@)].grant = row.grant
             /\ Stamped(row.deletedAt, [row EXCEPT !.deletedAt = Stamp(@)].deletedAt)
  BY <1>3 DEF TokenRow, Stamp, SameConsent, Stamped
<1>7. IsTable(tokens', Requests, TokenRow)
  BY <1>1, <1>2, <1>4, <1>5, <1>6 DEF IsTable
<1>8. ASSUME NEW k \in DOMAIN tokens
      PROVE  /\ SameConsent(tokens[k], tokens'[k]) /\ tokens'[k].at = tokens[k].at
             /\ Stamped(tokens[k].deletedAt, tokens'[k].deletedAt)
             /\ tokens'[k].grant = tokens[k].grant
  <2>1. tokens[k] \in TokenRow BY <1>2
  <2>2. CASE k = key BY <1>5, <1>6, <2>1, <2>2
  <2>3. CASE k # key BY <1>5, <2>3 DEF SameConsent, Stamped
  <2> QED BY <2>2, <2>3
<1>9. TokensGrow(p) BY <1>4, <1>8 DEF TokensGrow
<1> QED BY <1>4, <1>7, <1>9

(* A request not taking the step keeps its part of the invariant.          *)
LEMMA OthersKeepControl ==
    ASSUME Typed, NEW p \in Requests, Frame(p), NEW q \in Requests \ {p}
    PROVE  RequestOK(q)'
<1> USE DEF Frame, GrowsBy, CodesGrow, TokensGrow
<1>1. RequestOK(q) BY DEF Typed, Control
<1>2. LabelOK(q)' BY <1>1 DEF RequestOK, LabelOK, InFlight
<1>3. SeenOK(q)' BY <1>1 DEF RequestOK, SeenOK
<1>4. RowsOK(q)' BY <1>1 DEF RequestOK, RowsOK
<1> QED BY <1>2, <1>3, <1>4 DEF RequestOK

(***************************************************************************)
(* Typing and control, one handler step at a time                          *)
(***************************************************************************)
LEMMA GotoStep ==
    ASSUME TypeOK, NEW p \in Requests, NEW label \in Labels, Goto(p, label)
    PROVE  /\ pc' \in [Requests -> Labels] /\ reply' \in [Requests -> Replies]
           /\ pc'[p] = label /\ reply'[p] = reply[p]
           /\ \A q \in Requests \ {p} : pc'[q] = pc[q] /\ reply'[q] = reply[q]
BY DEF TypeOK, Goto

LEMMA FinishStep ==
    ASSUME TypeOK, NEW p \in Requests, NEW outcome \in Replies, Finish(p, outcome)
    PROVE  /\ pc' \in [Requests -> Labels] /\ reply' \in [Requests -> Replies]
           /\ pc'[p] = "done" /\ reply'[p] = outcome
           /\ \A q \in Requests \ {p} : pc'[q] = pc[q] /\ reply'[q] = reply[q]
BY DEF TypeOK, Finish, Labels

(* What Typed says of the request about to take a step.                     *)
LEMMA InFlightFacts ==
    ASSUME Typed, NEW p \in Requests, InFlight(p)
    PROVE  /\ p \in DOMAIN req /\ req[p] \in Request
           /\ p \notin DOMAIN codes /\ p \notin DOMAIN tokens
           /\ p \notin DOMAIN clients
           /\ reply[p] # "ok"
BY DEF Typed, TypeOK, IsTable, Control, RequestOK, LabelOK, RowsOK, InFlight


(* The steps that write no table: they move the request on or answer it.   *)
Moves(p) ==
    \/ \E label \in Labels : Goto(p, label)
    \/ \E outcome \in Replies : Finish(p, outcome)

LEMMA MovesStep ==
    ASSUME TypeOK, NEW p \in Requests, Moves(p)
    PROVE  /\ pc' \in [Requests -> Labels] /\ reply' \in [Requests -> Replies]
           /\ \A q \in Requests \ {p} : pc'[q] = pc[q] /\ reply'[q] = reply[q]
BY GotoStep, FinishStep DEF Moves

LEMMA QuietStep ==
    ASSUME Typed, NEW p \in Requests, Moves(p),
           UNCHANGED <<dbVars, clock, tables, req, local>>,
           clientCache' \subseteq ClientIds,
           IsTable(access', Requests, Claims), GrowsBy(access, access', p)
    PROVE  TypeOK' /\ Frame(p)
<1>1. TypeOK'
  BY MovesStep DEF Typed, TypeOK, DbTypeOK, dbVars, tables, local
<1>2. CodesGrow(p) /\ TokensGrow(p)
  BY CodesUnchanged, TokensUnchanged DEF tables
<1>3. /\ GrowsBy(req, req', p) /\ GrowsBy(seen, seen', p)
      /\ GrowsBy(clients, clients', p)
  BY Unchanged DEF tables, local
<1>4. Frame(p)
  BY <1>2, <1>3, MovesStep DEF Typed, Frame, dbVars, local
<1> QED BY <1>1, <1>4

LEMMA KeepsAccess ==
    ASSUME Typed, NEW p, UNCHANGED access
    PROVE  IsTable(access', Requests, Claims) /\ GrowsBy(access, access', p)
BY Unchanged DEF Typed, TypeOK

LEMMA StepTyped ==
    ASSUME Typed, NEW p \in Requests, TypeOK', Frame(p), RequestOK(p)'
    PROVE  Typed'
BY OthersKeepControl DEF Typed, Control

LEMMA ClientNotFoundTyped ==
    ASSUME Typed, NEW p \in Requests, ClientNotFound(p)
    PROVE  Typed' /\ Frame(p) /\ AnswerOK(p)'
<1> USE DEF ClientNotFound
<1>1. InFlight(p) /\ RequestOK(p) BY DEF InFlight, Typed, Control
<1>2. Finish(p, "InvalidClient") /\ "InvalidClient" \in Replies BY DEF Replies
<1>3. TypeOK' /\ Frame(p)
  BY <1>2, QuietStep, KeepsAccess DEF Moves, Typed, TypeOK
<1>4. RequestOK(p)' /\ AnswerOK(p)'
  BY <1>1, <1>2, InFlightFacts, FinishStep
  DEF Typed, RequestOK, LabelOK, SeenOK, AnswerOK, RowsOK, InFlight, tables, local
<1> QED BY <1>3, <1>4, StepTyped

LEMMA CrashTyped ==
    ASSUME Typed, NEW p \in Requests, Crash(p)
    PROVE  Typed' /\ Frame(p) /\ AnswerOK(p)'
<1> USE DEF Crash
<1>1. InFlight(p) /\ RequestOK(p) BY DEF Typed, Control
<1>2. Finish(p, "lost") /\ "lost" \in Replies BY DEF Replies
<1>3. TypeOK' /\ Frame(p)
  BY <1>2, QuietStep, KeepsAccess DEF Moves, Typed, TypeOK
<1>4. RequestOK(p)' /\ AnswerOK(p)'
  BY <1>1, <1>2, InFlightFacts, FinishStep
  DEF Typed, RequestOK, LabelOK, SeenOK, AnswerOK, RowsOK, InFlight, tables, local
<1> QED BY <1>3, <1>4, StepTyped


LEMMA RejectTyped ==
    ASSUME Typed, NEW p \in Requests, RejectMalformed(p)
    PROVE  Typed' /\ Frame(p) /\ AnswerOK(p)'
<1> USE DEF RejectMalformed, MayArrive
<1>1. pc[p] = "new" /\ RequestOK(p) BY DEF Typed, Control
<1>2. Finish(p, "InvalidRequest") /\ "InvalidRequest" \in Replies BY DEF Replies
<1>3. TypeOK' /\ Frame(p)
  BY <1>2, QuietStep, KeepsAccess DEF Moves, Typed, TypeOK
<1>4. RequestOK(p)' /\ AnswerOK(p)'
  BY <1>1, <1>2, FinishStep
  DEF Typed, RequestOK, LabelOK, SeenOK, AnswerOK, RowsOK, InFlight, tables, local
<1> QED BY <1>3, <1>4, StepTyped

LEMMA VerifyCredentialsTyped ==
    ASSUME Typed, NEW p \in Requests, VerifyCredentials(p)
    PROVE  Typed' /\ Frame(p) /\ AnswerOK(p)'
<1> USE DEF VerifyCredentials
<1>1. InFlight(p) /\ RequestOK(p) BY DEF InFlight, Typed, Control
<1>2. "Unauthorized" \in Replies /\ "issue" \in Labels BY DEF Replies, Labels
<1>3. Moves(p) BY <1>2 DEF Moves
<1>4. TypeOK' /\ Frame(p)
  BY <1>3, QuietStep, KeepsAccess DEF Typed, TypeOK
<1>5. RequestOK(p)' /\ AnswerOK(p)'
  <2>1. CASE Goto(p, "issue")
    BY <1>1, <1>2, <2>1, InFlightFacts, GotoStep
    DEF Typed, RequestOK, LabelOK, SeenOK, AnswerOK, RowsOK, InFlight, tables, local
  <2>2. CASE Finish(p, "Unauthorized")
    BY <1>1, <1>2, <2>2, InFlightFacts, FinishStep
    DEF Typed, RequestOK, LabelOK, SeenOK, AnswerOK, RowsOK, InFlight, tables, local
  <2> QED BY <2>1, <2>2
<1> QED BY <1>4, <1>5, StepTyped

LEMMA FindClientCache ==
    ASSUME Typed, NEW p \in Requests, FindClient(p)
    PROVE  /\ clientCache' \subseteq ClientIds
           /\ req[p].client \in DOMAIN clients
           /\ req[p] \in Request /\ req[p].client \in ClientIds
           /\ InFlight(p) /\ RequestOK(p)
<1>1. InFlight(p) /\ RequestOK(p) BY DEF FindClient, InFlight, Typed, Control
<1>2. req[p] \in Request
      /\ req[p].kind \in KeyedKinds \cup {"authorize", "client_credentials"}
  BY <1>1, InFlightFacts DEF FindClient, RequestOK, LabelOK
<1>3. req[p].client \in ClientIds BY <1>2, RequestFields
<1>4. req[p].client \in DOMAIN clients
      /\ clientCache' \in {clientCache, clientCache \cup {req[p].client}}
  BY CacheNeverHits DEF FindClient, Present, CacheClient
<1> QED BY <1>1, <1>2, <1>3, <1>4 DEF Typed, TypeOK

LEMMA AuthorizeClientTyped ==
    ASSUME Typed, NEW p \in Requests, AuthorizeClient(p)
    PROVE  Typed' /\ Frame(p) /\ AnswerOK(p)'
<1> USE DEF AuthorizeClient
<1>1. InFlight(p) /\ RequestOK(p) BY FindClientCache
<1>2. "InvalidRequest" \in Replies /\ "credentials" \in Labels BY DEF Replies, Labels
<1>3. Moves(p) BY <1>2 DEF Moves
<1>4. TypeOK' /\ Frame(p)
  BY <1>3, FindClientCache, QuietStep, KeepsAccess
<1>5. RequestOK(p)' /\ AnswerOK(p)'
  <2>1. CASE Goto(p, "credentials")
    BY <1>1, <1>2, <2>1, InFlightFacts, GotoStep
    DEF Typed, RequestOK, LabelOK, SeenOK, AnswerOK, RowsOK, InFlight, tables, local
  <2>2. CASE Finish(p, "InvalidRequest")
    BY <1>1, <1>2, <2>2, InFlightFacts, FinishStep
    DEF Typed, RequestOK, LabelOK, SeenOK, AnswerOK, RowsOK, InFlight, tables, local
  <2> QED BY <2>1, <2>2
<1> QED BY <1>4, <1>5, StepTyped

LEMMA AuthenticateClientTyped ==
    ASSUME Typed, NEW p \in Requests, AuthenticateClient(p)
    PROVE  Typed' /\ Frame(p) /\ AnswerOK(p)'
<1> USE DEF AuthenticateClient
<1>1. InFlight(p) /\ RequestOK(p) BY FindClientCache
<1>2. "InvalidClient" \in Replies /\ "revoke" \in Labels /\ "lookup" \in Labels
  BY DEF Replies, Labels
<1>3. Moves(p) BY <1>2 DEF Moves
<1>4. TypeOK' /\ Frame(p)
  BY <1>3, FindClientCache, QuietStep, KeepsAccess
<1>5. RequestOK(p)' /\ AnswerOK(p)'
  <2>1. CASE Goto(p, "revoke") /\ req[p].kind = "revoke"
    BY <1>1, <1>2, <2>1, InFlightFacts, GotoStep
    DEF Typed, RequestOK, LabelOK, SeenOK, AnswerOK, RowsOK, InFlight, tables, local
  <2>2. CASE Goto(p, "lookup") /\ req[p].kind # "revoke"
    BY <1>1, <1>2, <2>2, InFlightFacts, GotoStep
    DEF Typed, RequestOK, LabelOK, SeenOK, AnswerOK, RowsOK, InFlight, tables, local,
        TokenGrants
  <2>3. CASE Finish(p, "InvalidClient")
    BY <1>1, <1>2, <2>3, InFlightFacts, FinishStep
    DEF Typed, RequestOK, LabelOK, SeenOK, AnswerOK, RowsOK, InFlight, tables, local
  <2> QED BY <2>1, <2>2, <2>3
<1> QED BY <1>4, <1>5, StepTyped

LEMMA FindUserTyped ==
    ASSUME Typed, NEW p \in Requests, FindUser(p)
    PROVE  Typed' /\ Frame(p) /\ AnswerOK(p)'
<1> USE DEF FindUser, Failed
<1>1. InFlight(p) /\ RequestOK(p) BY DEF InFlight, Typed, Control
<1>2. "NotFound" \in Replies /\ "InternalError" \in Replies /\ "mint" \in Labels
  BY DEF Replies, Labels
<1>3. Moves(p) BY <1>2 DEF Moves
<1>4. TypeOK' /\ Frame(p)
  BY <1>3, QuietStep, KeepsAccess DEF Typed, TypeOK
<1>5. RequestOK(p)' /\ AnswerOK(p)'
  <2>1. CASE Goto(p, "mint")
    BY <1>1, <1>2, <2>1, InFlightFacts, GotoStep
    DEF Typed, RequestOK, LabelOK, SeenOK, AnswerOK, RowsOK, InFlight, tables, local
  <2>2. CASE Finish(p, "NotFound") \/ Finish(p, "InternalError")
    BY <1>1, <1>2, <2>2, InFlightFacts, FinishStep
    DEF Typed, RequestOK, LabelOK, SeenOK, AnswerOK, RowsOK, InFlight, tables, local
  <2> QED BY <2>1, <2>2
<1> QED BY <1>4, <1>5, StepTyped

LEMMA ClientCredentialsTyped ==
    ASSUME Typed, NEW p \in Requests, ClientCredentials(p)
    PROVE  Typed' /\ Frame(p) /\ AnswerOK(p)'
<1> USE DEF ClientCredentials
<1>1. InFlight(p) /\ RequestOK(p) /\ req[p] \in Request /\ req[p].client \in ClientIds
  BY FindClientCache
<1>2. {"ok", "InvalidRequest", "InvalidClient"} \subseteq Replies BY DEF Replies
<1>3. Moves(p) BY <1>2 DEF Moves
<1>4. IsTable(access', Requests, Claims) /\ GrowsBy(access, access', p)
  <2>1. CASE UNCHANGED access BY <2>1, KeepsAccess
  <2>2. CASE GrantAccess(p, req[p].client, req[p].scopes)
    <3> DEFINE row == [sub |-> req[p].client, client |-> req[p].client,
                       scopes |-> req[p].scopes, exp |-> clock + AccessTTL]
    <3>1. row \in Claims
      BY <1>1, RequestFields, OAuthAssumption DEF Claims, Typed, TypeOK
    <3>2. access' = Insert(access, p, row) BY <2>2 DEF GrantAccess
    <3> HIDE DEF row
    <3> QED BY <3>1, <3>2, InsertTable, Inserted DEF Typed, TypeOK
  <2> QED BY <2>1, <2>2
<1>5. TypeOK' /\ Frame(p) BY <1>3, <1>4, FindClientCache, QuietStep
<1>6. RequestOK(p)' /\ AnswerOK(p)'
  <2>1. PICK outcome \in {"ok", "InvalidRequest", "InvalidClient"} : Finish(p, outcome)
    OBVIOUS
  <2> QED
    BY <1>1, <1>2, <2>1, InFlightFacts, FinishStep
    DEF Typed, RequestOK, LabelOK, SeenOK, AnswerOK, RowsOK, InFlight, tables, local,
        TokenGrants
<1> QED BY <1>5, <1>6, StepTyped


(* A lookup either moves on, remembering the row, or leaves seen alone.    *)
LEMMA RememberStep ==
    ASSUME Typed, NEW p \in Requests, NEW row, NEW grant \in Requests,
           row.user \in Users, row.scopes \in SUBSET Scopes,
           NEW point \in ReadPoints, Remember(p, row, grant, point)
    PROVE  /\ IsTable(seen', Requests, SeenRow) /\ GrowsBy(seen, seen', p)
           /\ p \in DOMAIN seen'
           /\ readAt' \in [Requests -> Nat]
           /\ \A q \in Requests \ {p} : readAt'[q] = readAt[q]
           /\ readAt'[p] = point
<1> DEFINE new == [user |-> row.user, scopes |-> row.scopes, grant |-> grant]
<1>1. new \in SeenRow BY DEF SeenRow
<1>2. seen' = Insert(seen, p, new) BY DEF Remember
<1>3. point \in Nat BY DEF ReadPoints, Typed, TypeOK, DbTypeOK
<1>4. readAt' = [readAt EXCEPT ![p] = point] BY DEF Remember
<1> HIDE DEF new
<1>5. IsTable(seen', Requests, SeenRow) /\ GrowsBy(seen, seen', p)
  BY <1>1, <1>2, InsertTable, Inserted DEF Typed, TypeOK
<1>6. p \in DOMAIN seen' BY <1>2 DEF Insert
<1> QED BY <1>3, <1>4, <1>5, <1>6 DEF Typed, TypeOK

LEMMA LookupStep ==
    ASSUME Typed, NEW p \in Requests, Moves(p),
           UNCHANGED <<dbVars, clock, tables, clientCache, req, access>>,
           wroteAt' = wroteAt, readAt' \in [Requests -> Nat],
           IsTable(seen', Requests, SeenRow), GrowsBy(seen, seen', p),
           \A q \in Requests \ {p} : readAt'[q] = readAt[q]
    PROVE  TypeOK' /\ Frame(p)
<1>1. TypeOK'
  BY MovesStep DEF Typed, TypeOK, DbTypeOK, dbVars, tables
<1>2. CodesGrow(p) /\ TokensGrow(p)
  BY CodesUnchanged, TokensUnchanged DEF tables
<1>3. /\ GrowsBy(req, req', p) /\ GrowsBy(access, access', p)
      /\ GrowsBy(clients, clients', p)
  BY Unchanged DEF tables
<1>4. Frame(p)
  BY <1>2, <1>3, MovesStep DEF Typed, Frame, dbVars
<1> QED BY <1>1, <1>4

LEMMA LookupCodeTyped ==
    ASSUME Typed, NEW p \in Requests, LookupCode(p)
    PROVE  Typed' /\ Frame(p) /\ AnswerOK(p)'
<1> USE DEF LookupCode
<1>1. InFlight(p) /\ RequestOK(p) /\ req[p].kind = "authorization_code"
  BY DEF InFlight, Typed, Control
<1>2. "InvalidGrant" \in Replies /\ "spend" \in Labels BY DEF Replies, Labels
<1>3. Moves(p) BY <1>2 DEF Moves
<1>4. CASE UNCHANGED local /\ Finish(p, "InvalidGrant")
  <2>1. TypeOK' /\ Frame(p)
    BY <1>3, <1>4, QuietStep, KeepsAccess DEF Typed, TypeOK
  <2>2. RequestOK(p)' /\ AnswerOK(p)'
    BY <1>1, <1>2, <1>4, InFlightFacts, FinishStep
    DEF Typed, RequestOK, LabelOK, SeenOK, AnswerOK, RowsOK, InFlight, tables, local
  <2> QED BY <2>1, <2>2, StepTyped
<1>5. CASE \E point \in ReadPoints :
              /\ CodeRedeemable(req[p], point)
              /\ Remember(p, codes[req[p].key], req[p].key, point) /\ Goto(p, "spend")
  <2>1. PICK point \in ReadPoints :
              /\ CodeRedeemable(req[p], point)
              /\ Remember(p, codes[req[p].key], req[p].key, point) /\ Goto(p, "spend")
    BY <1>5
  <2>2. req[p].key \in DOMAIN codes BY <2>1 DEF CodeRedeemable, Present
  <2>3. /\ req[p].key \in Requests
        /\ codes[req[p].key].user \in Users /\ codes[req[p].key].scopes \in SUBSET Scopes
    BY <2>2 DEF Typed, TypeOK, IsTable, CodeRow
  <2>4. /\ IsTable(seen', Requests, SeenRow) /\ GrowsBy(seen, seen', p)
        /\ p \in DOMAIN seen' /\ readAt' \in [Requests -> Nat]
        /\ \A q \in Requests \ {p} : readAt'[q] = readAt[q]
    BY <2>1, <2>3, RememberStep
  <2>5. wroteAt' = wroteAt BY <2>1 DEF Remember
  <2>6. TypeOK' /\ Frame(p) BY <1>3, <2>4, <2>5, LookupStep
  <2>7. RequestOK(p)' /\ AnswerOK(p)'
    BY <1>1, <1>2, <2>1, <2>4, <2>5, InFlightFacts, GotoStep
    DEF Typed, RequestOK, LabelOK, SeenOK, AnswerOK, RowsOK, InFlight, tables, local, TokenGrants
  <2> QED BY <2>6, <2>7, StepTyped
<1> QED BY <1>4, <1>5

LEMMA LookupTokenTyped ==
    ASSUME Typed, NEW p \in Requests, LookupToken(p)
    PROVE  Typed' /\ Frame(p) /\ AnswerOK(p)'
<1> DEFINE row == tokens[req[p].key]
<1> USE DEF LookupToken
<1>1. InFlight(p) /\ RequestOK(p) /\ req[p].kind = "refresh_token"
  BY DEF InFlight, Typed, Control
<1>2. "InvalidGrant" \in Replies /\ "spend" \in Labels /\ "purge" \in Labels
  BY DEF Replies, Labels
<1>3. Moves(p) BY <1>2 DEF Moves
<1>4. CASE UNCHANGED local /\ Finish(p, "InvalidGrant")
  <2>1. TypeOK' /\ Frame(p)
    BY <1>3, <1>4, QuietStep, KeepsAccess DEF Typed, TypeOK
  <2>2. RequestOK(p)' /\ AnswerOK(p)'
    BY <1>1, <1>2, <1>4, InFlightFacts, FinishStep
    DEF Typed, RequestOK, LabelOK, SeenOK, AnswerOK, RowsOK, InFlight, tables, local
  <2> QED BY <2>1, <2>2, StepTyped
<1>5. CASE UNCHANGED local /\ Goto(p, "purge")
  <2>1. TypeOK' /\ Frame(p)
    BY <1>3, <1>5, QuietStep, KeepsAccess DEF Typed, TypeOK
  <2>2. RequestOK(p)' /\ AnswerOK(p)'
    BY <1>1, <1>2, <1>5, InFlightFacts, GotoStep
    DEF Typed, RequestOK, LabelOK, SeenOK, AnswerOK, RowsOK, InFlight, tables, local
  <2> QED BY <2>1, <2>2, StepTyped
<1>6. CASE \E point \in ReadPoints :
              /\ TokenVisible(req[p].key, point)
              /\ Remember(p, row, row.grant, point) /\ Goto(p, "spend")
  <2>1. PICK point \in ReadPoints :
              /\ TokenVisible(req[p].key, point)
              /\ Remember(p, row, row.grant, point) /\ Goto(p, "spend")
    BY <1>6
  <2>2. req[p].key \in DOMAIN tokens BY <2>1 DEF TokenVisible, Present
  <2>3. row.user \in Users /\ row.scopes \in SUBSET Scopes /\ row.grant \in Requests
    BY <2>2 DEF Typed, TypeOK, IsTable, TokenRow
  <2>4. /\ IsTable(seen', Requests, SeenRow) /\ GrowsBy(seen, seen', p)
        /\ p \in DOMAIN seen' /\ readAt' \in [Requests -> Nat]
        /\ \A q \in Requests \ {p} : readAt'[q] = readAt[q]
    BY <2>1, <2>3, RememberStep
  <2>5. wroteAt' = wroteAt BY <2>1 DEF Remember
  <2>6. TypeOK' /\ Frame(p) BY <1>3, <2>4, <2>5, LookupStep
  <2>7. RequestOK(p)' /\ AnswerOK(p)'
    BY <1>1, <1>2, <2>1, <2>4, <2>5, InFlightFacts, GotoStep
    DEF Typed, RequestOK, LabelOK, SeenOK, AnswerOK, RowsOK, InFlight, tables, local, TokenGrants
  <2> QED BY <2>6, <2>7, StepTyped
<1> QED BY <1>4, <1>5, <1>6

(***************************************************************************)
(* The steps that write a table                                            *)
(***************************************************************************)
LEMMA WriteStep ==
    ASSUME Typed, NEW p \in Requests, Moves(p), Commit \/ UNCHANGED dbVars,
           UNCHANGED <<clock, req, seen, readAt>>, clientCache' \subseteq ClientIds,
           IsTable(users', Users, UserRow),
           IsTable(clients', ClientIds, ClientRow), GrowsBy(clients, clients', p),
           IsTable(codes', Requests, CodeRow), CodesGrow(p),
           IsTable(tokens', Requests, TokenRow), TokensGrow(p),
           IsTable(access', Requests, Claims), GrowsBy(access, access', p),
           wroteAt' \in [Requests -> Nat],
           \A q \in Requests \ {p} : wroteAt'[q] = wroteAt[q]
    PROVE  TypeOK' /\ Frame(p)
<1>1. lsn' \in {lsn, lsn + 1} /\ applied' = applied /\ timeline' = timeline
  BY DEF Commit, dbVars
<1>2. DbTypeOK'
  <2>1. lsn \in Nat \ {Never} /\ applied \in [Replicas -> 1 .. lsn] /\ timeline \in Nat
    BY DEF Typed, TypeOK, DbTypeOK
  <2>2. lsn' \in Nat \ {Never} /\ 1 .. lsn \subseteq 1 .. lsn'
    BY <1>1, <2>1 DEF Never
  <2>3. applied' \in [Replicas -> 1 .. lsn'] BY <1>1, <2>1, <2>2
  <2> QED BY <1>1, <2>1, <2>2, <2>3 DEF DbTypeOK
<1>3. TypeOK' BY <1>2, MovesStep DEF Typed, TypeOK
<1>4. GrowsBy(req, req', p) /\ GrowsBy(seen, seen', p) BY Unchanged
<1>5. Frame(p) BY <1>1, <1>4, MovesStep DEF Typed, Frame
<1> QED BY <1>3, <1>5

(* A table a step leaves alone.                                            *)
LEMMA KeepsTables ==
    ASSUME Typed, NEW p
    PROVE  /\ UNCHANGED users => IsTable(users', Users, UserRow)
           /\ UNCHANGED clients =>
                 IsTable(clients', ClientIds, ClientRow) /\ GrowsBy(clients, clients', p)
           /\ UNCHANGED codes => IsTable(codes', Requests, CodeRow) /\ CodesGrow(p)
           /\ UNCHANGED tokens => IsTable(tokens', Requests, TokenRow) /\ TokensGrow(p)
           /\ UNCHANGED access =>
                 IsTable(access', Requests, Claims) /\ GrowsBy(access, access', p)
           /\ UNCHANGED clientCache => clientCache' \subseteq ClientIds
           /\ UNCHANGED wroteAt =>
                 /\ wroteAt' \in [Requests -> Nat]
                 /\ \A q \in Requests \ {p} : wroteAt'[q] = wroteAt[q]
BY Unchanged, CodesUnchanged, TokensUnchanged DEF Typed, TypeOK

LEMMA NextPosition == ASSUME Typed PROVE lsn \in Nat /\ lsn + 1 \in Nat
BY DEF Typed, TypeOK, DbTypeOK

(* A request that ends with anything but "ok" keeps its part of Control.   *)
LEMMA EndsBadly ==
    ASSUME Typed, NEW p \in Requests, InFlight(p), UNCHANGED <<req, seen>>,
           NEW outcome \in Replies \ {"ok"}, Finish(p, outcome),
           DOMAIN tokens' \subseteq DOMAIN tokens \cup {p},
           p \in DOMAIN codes' => req[p].kind = "authorize",
           p \in DOMAIN tokens' => p \in DOMAIN seen
    PROVE  RequestOK(p)' /\ AnswerOK(p)'
<1>1. RequestOK(p) BY DEF Typed, Control
<1>2. pc'[p] = "done" /\ reply'[p] # "ok" BY FinishStep DEF Typed
<1> QED
  BY <1>1, <1>2, InFlightFacts
  DEF RequestOK, LabelOK, SeenOK, AnswerOK, RowsOK, InFlight

LEMMA RegisterUserTyped ==
    ASSUME Typed, NEW p \in Requests, RegisterUser(p)
    PROVE  Typed' /\ Frame(p) /\ AnswerOK(p)'
<1> USE DEF RegisterUser, Failed
<1>1. InFlight(p) /\ RequestOK(p) /\ p \in DOMAIN req /\ req[p] \in Request
  BY InFlightFacts DEF InFlight, Typed, Control
<1>2. {"ok", "Conflict", "InternalError"} \subseteq Replies BY DEF Replies
<1>3. Moves(p) BY <1>2 DEF Moves
<1>4. IsTable(users', Users, UserRow)
  <2>1. CASE UNCHANGED users BY <2>1, KeepsTables
  <2>2. CASE users' = Insert(users, req[p].user, [at |-> lsn + 1])
    <3>1. [at |-> lsn + 1] \in UserRow BY NextPosition DEF UserRow
    <3>2. req[p].user \in Users BY <1>1, RequestFields
    <3> QED BY <2>2, <3>1, <3>2, InsertTable DEF Typed, TypeOK
  <2> QED BY <2>1, <2>2
<1>5. TypeOK' /\ Frame(p)
  BY <1>3, <1>4, KeepsTables, WriteStep DEF local
<1>6. RequestOK(p)' /\ AnswerOK(p)'
  <2>1. PICK outcome \in {"ok", "Conflict", "InternalError"} : Finish(p, outcome)
    OBVIOUS
  <2> QED
    BY <1>1, <1>2, <2>1, InFlightFacts, FinishStep
    DEF Typed, RequestOK, LabelOK, SeenOK, AnswerOK, RowsOK, InFlight, local,
        TokenGrants
<1> QED BY <1>5, <1>6, StepTyped

LEMMA InsertClientTyped ==
    ASSUME Typed, NEW p \in Requests, InsertClient(p)
    PROVE  Typed' /\ Frame(p) /\ AnswerOK(p)'
<1> USE DEF InsertClient, Failed
<1>1. InFlight(p) /\ RequestOK(p) /\ p \in DOMAIN req /\ req[p] \in Request
  BY InFlightFacts DEF InFlight, Typed, Control
<1>2. {"ok", "InternalError"} \subseteq Replies BY DEF Replies
<1>3. Moves(p) BY <1>2 DEF Moves
<1> DEFINE row == [redirect |-> req[p].redirect, scopes |-> req[p].scopes,
                   at |-> lsn + 1]
<1>4. row \in ClientRow
  BY <1>1, NextPosition, RequestFields DEF ClientRow
<1>5. clients' \in {clients, Insert(clients, p, row)} OBVIOUS
<1> HIDE DEF row
<1>6. IsTable(clients', ClientIds, ClientRow) /\ GrowsBy(clients, clients', p)
  <2>1. p \in ClientIds BY DEF ClientIds
  <2> QED BY <1>4, <1>5, <2>1, InsertTable, Inserted, Unchanged DEF Typed, TypeOK
<1>7. clientCache' \subseteq ClientIds
  BY DEF CacheClient, ClientIds, Typed, TypeOK
<1>8. TypeOK' /\ Frame(p)
  BY <1>3, <1>6, <1>7, KeepsTables, WriteStep DEF local
<1>9. RequestOK(p)' /\ AnswerOK(p)'
  <2>1. PICK outcome \in {"ok", "InternalError"} : Finish(p, outcome)
    OBVIOUS
  <2>2. outcome = "ok" => p \in DOMAIN clients'
    BY <2>1 DEF Insert, Finish, Typed, TypeOK
  <2> QED
    BY <1>1, <1>2, <2>1, <2>2, InFlightFacts, FinishStep
    DEF Typed, RequestOK, LabelOK, SeenOK, AnswerOK, RowsOK, InFlight, local,
        TokenGrants
<1> QED BY <1>8, <1>9, StepTyped

LEMMA IssueCodeTyped ==
    ASSUME Typed, NEW p \in Requests, IssueCode(p)
    PROVE  Typed' /\ Frame(p) /\ AnswerOK(p)'
<1> USE DEF IssueCode, Failed, Unreferenced
<1>1. /\ InFlight(p) /\ RequestOK(p) /\ p \in DOMAIN req /\ req[p] \in Request
      /\ req[p].kind = "authorize"
  BY InFlightFacts DEF InFlight, Typed, Control, RequestOK, LabelOK
<1>2. {"ok", "InternalError"} \subseteq Replies BY DEF Replies
<1>3. Moves(p) BY <1>2 DEF Moves
<1> DEFINE row == [client |-> req[p].client, user |-> req[p].user,
                   redirect |-> req[p].redirect, scopes |-> req[p].scopes,
                   challenge |-> req[p].challenge, expires |-> clock + CodeTTL,
                   at |-> lsn + 1, usedAt |-> Never]
<1>4. row \in CodeRow
  BY <1>1, NextPosition, RequestFields, OAuthAssumption
  DEF CodeRow, Never, Typed, TypeOK
<1>5. codes' \in {codes, Insert(codes, p, row)} OBVIOUS
<1> HIDE DEF row
<1>6. IsTable(codes', Requests, CodeRow) /\ CodesGrow(p)
  BY <1>4, <1>5, InsertTable, KeepsTables, CodeInserted DEF Typed, TypeOK
<1>7. TypeOK' /\ Frame(p)
  BY <1>3, <1>6, KeepsTables, WriteStep DEF local
<1>8. RequestOK(p)' /\ AnswerOK(p)'
  <2>1. PICK outcome \in {"ok", "InternalError"} : Finish(p, outcome)
    OBVIOUS
  <2>2. outcome = "ok" => p \in DOMAIN codes'
    BY <2>1 DEF Insert, Finish, Typed, TypeOK
  <2> QED
    BY <1>1, <1>2, <2>1, <2>2, InFlightFacts, FinishStep
    DEF Typed, RequestOK, LabelOK, SeenOK, AnswerOK, RowsOK, InFlight, local,
        TokenGrants
<1> QED BY <1>7, <1>8, StepTyped

LEMMA WroteStep ==
    ASSUME Typed, NEW p \in Requests, wroteAt' = [wroteAt EXCEPT ![p] = lsn + 1]
    PROVE  /\ wroteAt' \in [Requests -> Nat] /\ wroteAt'[p] = lsn + 1
           /\ \A q \in Requests \ {p} : wroteAt'[q] = wroteAt[q]
BY NextPosition DEF Typed, TypeOK

LEMMA SpendCodeTyped ==
    ASSUME Typed, NEW p \in Requests, SpendCode(p)
    PROVE  Typed' /\ Frame(p) /\ AnswerOK(p)'
<1> USE DEF SpendCode, Failed
<1>1. InFlight(p) /\ RequestOK(p) BY DEF InFlight, Typed, Control
<1>2. "InternalError" \in Replies \ {"ok"} /\ "user" \in Labels BY DEF Replies, Labels
<1>3. Moves(p) BY <1>2 DEF Moves
<1>4. /\ IsTable(codes', Requests, CodeRow) /\ CodesGrow(p) /\ DOMAIN codes' = DOMAIN codes
      /\ wroteAt' \in [Requests -> Nat]
      /\ \A q \in Requests \ {p} : wroteAt'[q] = wroteAt[q]
      /\ UNCHANGED <<seen, readAt>> /\ (Commit \/ UNCHANGED dbVars)
  <2>1. CASE MarkUsed(p) BY <2>1, CodeMarked, WroteStep DEF MarkUsed, Typed
  <2>2. CASE UNCHANGED <<dbVars, codes, local>> BY <2>2, KeepsTables DEF local
  <2> QED BY <2>1, <2>2
<1>5. TypeOK' /\ Frame(p) BY <1>3, <1>4, KeepsTables, WriteStep
<1>6. RequestOK(p)' /\ AnswerOK(p)'
  <2>1. CASE Goto(p, "user")
    BY <1>1, <1>2, <1>4, <2>1, InFlightFacts, GotoStep
    DEF Typed, RequestOK, LabelOK, SeenOK, AnswerOK, RowsOK, InFlight
  <2>2. CASE Finish(p, "InternalError")
    BY <1>1, <1>2, <1>4, <2>2, InFlightFacts, EndsBadly
  <2> QED BY <2>1, <2>2
<1> QED BY <1>5, <1>6, StepTyped

(* DeleteToken, or nothing when the database fails.                        *)
LEMMA DeleteStep ==
    ASSUME Typed, NEW p \in Requests,
           DeleteToken(p) \/ UNCHANGED <<dbVars, tokens, local>>
    PROVE  /\ IsTable(tokens', Requests, TokenRow) /\ TokensGrow(p)
           /\ DOMAIN tokens' = DOMAIN tokens
           /\ wroteAt' \in [Requests -> Nat]
           /\ \A q \in Requests \ {p} : wroteAt'[q] = wroteAt[q]
           /\ UNCHANGED <<seen, readAt>> /\ (Commit \/ UNCHANGED dbVars)
<1>1. CASE DeleteToken(p) BY <1>1, TokenDeleted, WroteStep DEF DeleteToken, Typed
<1>2. CASE UNCHANGED <<dbVars, tokens, local>> BY <1>2, KeepsTables DEF local
<1> QED BY <1>1, <1>2

LEMMA SpendTokenTyped ==
    ASSUME Typed, NEW p \in Requests, SpendToken(p)
    PROVE  Typed' /\ Frame(p) /\ AnswerOK(p)'
<1> USE DEF SpendToken, Failed
<1>1. InFlight(p) /\ RequestOK(p) BY DEF InFlight, Typed, Control
<1>2. "InternalError" \in Replies \ {"ok"} /\ "user" \in Labels BY DEF Replies, Labels
<1>3. Moves(p) BY <1>2 DEF Moves
<1>4. TypeOK' /\ Frame(p) BY <1>3, DeleteStep, KeepsTables, WriteStep
<1>5. RequestOK(p)' /\ AnswerOK(p)'
  <2>1. CASE Goto(p, "user")
    BY <1>1, <1>2, <2>1, DeleteStep, InFlightFacts, GotoStep
    DEF Typed, RequestOK, LabelOK, SeenOK, AnswerOK, RowsOK, InFlight
  <2>2. CASE Finish(p, "InternalError")
    BY <1>1, <1>2, <2>2, DeleteStep, InFlightFacts, EndsBadly
  <2> QED BY <2>1, <2>2
<1> QED BY <1>4, <1>5, StepTyped

LEMMA PurgeTokenTyped ==
    ASSUME Typed, NEW p \in Requests, PurgeToken(p)
    PROVE  Typed' /\ Frame(p) /\ AnswerOK(p)'
<1> USE DEF PurgeToken
<1>1. InFlight(p) BY DEF InFlight
<1>2. "InvalidGrant" \in Replies \ {"ok"} BY DEF Replies
<1>3. Moves(p) BY <1>2 DEF Moves
<1>4. TypeOK' /\ Frame(p) BY <1>3, DeleteStep, KeepsTables, WriteStep
<1>5. RequestOK(p)' /\ AnswerOK(p)' BY <1>1, <1>2, DeleteStep, InFlightFacts, EndsBadly
<1> QED BY <1>4, <1>5, StepTyped

LEMMA RevokeTokenTyped ==
    ASSUME Typed, NEW p \in Requests, RevokeToken(p)
    PROVE  Typed' /\ Frame(p) /\ AnswerOK(p)'
<1> USE DEF RevokeToken
<1>1. InFlight(p) /\ RequestOK(p) /\ req[p].kind = "revoke"
  BY DEF InFlight, Typed, Control, RequestOK, LabelOK
<1>2. "ok" \in Replies BY DEF Replies
<1>3. Moves(p) BY <1>2 DEF Moves
<1>4. TypeOK' /\ Frame(p) BY <1>3, DeleteStep, KeepsTables, WriteStep
<1>5. RequestOK(p)' /\ AnswerOK(p)'
  BY <1>1, <1>2, DeleteStep, InFlightFacts, FinishStep
  DEF Typed, RequestOK, LabelOK, SeenOK, AnswerOK, RowsOK, InFlight, TokenGrants
<1> QED BY <1>4, <1>5, StepTyped

LEMMA MintTokenTyped ==
    ASSUME Typed, NEW p \in Requests, MintToken(p)
    PROVE  Typed' /\ Frame(p) /\ AnswerOK(p)'
<1> USE DEF MintToken, Failed, Unreferenced
<1>1. /\ InFlight(p) /\ RequestOK(p) /\ req[p] \in Request
      /\ p \in DOMAIN seen /\ req[p].kind \in TokenGrants
  BY InFlightFacts DEF InFlight, Typed, Control, RequestOK, LabelOK, SeenOK
<1>2. {"ok", "InternalError"} \subseteq Replies BY DEF Replies
<1>3. Moves(p) BY <1>2 DEF Moves
<1>4. req[p].client \in ClientIds
  BY <1>1, RequestFields DEF TokenGrants, KeyedKinds
<1>5. seen[p] \in SeenRow BY <1>1 DEF Typed, TypeOK, IsTable
<1> DEFINE row == [client |-> req[p].client, user |-> seen[p].user,
                   scopes |-> seen[p].scopes, expires |-> clock + RefreshTTL,
                   at |-> lsn + 1, deletedAt |-> Never, grant |-> seen[p].grant]
           claims == [sub |-> seen[p].user, client |-> req[p].client,
                      scopes |-> seen[p].scopes, exp |-> clock + AccessTTL]
<1>6. row \in TokenRow
  BY <1>4, <1>5, NextPosition, OAuthAssumption
  DEF TokenRow, SeenRow, Never, Typed, TypeOK
<1>7. claims \in Claims
  BY <1>4, <1>5, OAuthAssumption DEF Claims, SeenRow, Typed, TypeOK
<1>8. tokens' \in {tokens, Insert(tokens, p, row)} OBVIOUS
<1>9. access' \in {access, Insert(access, p, claims)} BY DEF GrantAccess
<1> HIDE DEF row, claims
<1>10. IsTable(tokens', Requests, TokenRow) /\ TokensGrow(p)
  BY <1>6, <1>8, InsertTable, KeepsTables, TokenInserted DEF Typed, TypeOK
<1>11. IsTable(access', Requests, Claims) /\ GrowsBy(access, access', p)
  BY <1>7, <1>9, InsertTable, KeepsTables, Inserted DEF Typed, TypeOK
<1>12. TypeOK' /\ Frame(p)
  BY <1>3, <1>10, <1>11, KeepsTables, WriteStep DEF local
<1>13. RequestOK(p)' /\ AnswerOK(p)'
  <2>1. PICK outcome \in {"ok", "InternalError"} : Finish(p, outcome)
    OBVIOUS
  <2>2. outcome = "ok" => p \in DOMAIN tokens'
    BY <2>1 DEF Insert, Finish, Typed, TypeOK
  <2>3. UNCHANGED <<clients, codes, req, seen>> BY DEF local
  <2>5. pc'[p] = "done" /\ reply'[p] = outcome BY <1>2, <2>1, FinishStep DEF Typed
  <2> HIDE DEF MintToken, Failed, Unreferenced
  <2>6. p \notin DOMAIN codes /\ p \notin DOMAIN clients /\ p \in DOMAIN req
    BY <1>1, InFlightFacts
  <2> QED
    BY <1>1, <2>2, <2>3, <2>5, <2>6
    DEF RequestOK, LabelOK, SeenOK, AnswerOK, RowsOK, InFlight, TokenGrants
<1> QED BY <1>12, <1>13, StepTyped

LEMMA ArriveTyped ==
    ASSUME Typed, NEW p \in Requests, Arrive(p)
    PROVE  Typed' /\ Frame(p) /\ AnswerOK(p)'
<1>1. pc[p] = "new" /\ RequestOK(p) BY DEF Arrive, MayArrive, Typed, Control
<1>2. PICK r \in Inputs :
          /\ req' = Insert(req, p, r)
          /\ Goto(p, IF r.kind \in {"register", "register_client"}
                     THEN "insert" ELSE "client")
  BY DEF Arrive
<1>3. UNCHANGED <<dbVars, clock, tables, clientCache, local, access>> BY DEF Arrive
<1>4. "insert" \in Labels /\ "client" \in Labels BY DEF Labels
<1>5. Moves(p) BY <1>2, <1>4 DEF Moves
<1>6. r \in Request BY InputsTyped DEF Typed
<1>7. IsTable(req', Requests, Request) /\ GrowsBy(req, req', p)
  BY <1>2, <1>6, InsertTable, Inserted DEF Typed, TypeOK
<1>8. p \in DOMAIN req' /\ req'[p] = r BY <1>2 DEF Insert
<1>9. TypeOK'
  BY <1>3, <1>5, <1>7, MovesStep DEF Typed, TypeOK, DbTypeOK, dbVars, tables, local
<1>10. Frame(p)
  <2>1. /\ GrowsBy(seen, seen', p) /\ GrowsBy(access, access', p)
        /\ GrowsBy(clients, clients', p) /\ CodesGrow(p) /\ TokensGrow(p)
    BY <1>3, Unchanged, CodesUnchanged, TokensUnchanged DEF tables, local
  <2> QED BY <1>3, <1>5, <1>7, <2>1, MovesStep DEF Typed, Frame, dbVars, local
<1>11. RequestOK(p)' /\ AnswerOK(p)'
  <2>1. r.kind \in {"register", "register_client"} \/ 
        r.kind \in KeyedKinds \cup {"authorize", "client_credentials"}
    BY <1>6, RequestFields DEF KeyedKinds
  <2>2. pc'[p] \in {"insert", "client"} /\ reply'[p] = reply[p]
        /\ (pc'[p] = "insert" <=> r.kind \in {"register", "register_client"})
    BY <1>2, <1>4, GotoStep DEF Typed
  <2>3. /\ p \notin DOMAIN seen /\ p \notin DOMAIN codes /\ p \notin DOMAIN tokens
        /\ p \notin DOMAIN clients /\ reply[p] # "ok"
    BY <1>1 DEF RequestOK, LabelOK, SeenOK, RowsOK
  <2>4. UNCHANGED <<clients, codes, tokens, seen>> BY <1>3 DEF tables, local
  <2>5. LabelOK(p)' BY <1>8, <2>1, <2>2, <2>3 DEF LabelOK, InFlight
  <2> QED
    BY <2>2, <2>3, <2>4, <2>5 DEF RequestOK, SeenOK, AnswerOK, RowsOK
<1> QED BY <1>9, <1>10, <1>11, StepTyped

(***************************************************************************)
(* Theorem: typing and control                                             *)
(***************************************************************************)
LEMMA HandleTyped ==
    ASSUME Typed, NEW p \in Requests,
           Arrive(p) \/ RejectMalformed(p) \/ Handle(p) \/ Crash(p)
    PROVE  Typed' /\ Frame(p) /\ AnswerOK(p)'
<1>1. CASE Arrive(p) BY <1>1, ArriveTyped
<1>2. CASE RejectMalformed(p) BY <1>2, RejectTyped
<1>3. CASE Crash(p) BY <1>3, CrashTyped
<1>4. CASE Handle(p)
  BY <1>4, ClientNotFoundTyped, RegisterUserTyped, InsertClientTyped, AuthorizeClientTyped,
     VerifyCredentialsTyped, IssueCodeTyped, AuthenticateClientTyped, ClientCredentialsTyped,
     LookupCodeTyped, LookupTokenTyped, SpendCodeTyped, SpendTokenTyped, PurgeTokenTyped,
     FindUserTyped, MintTokenTyped, RevokeTokenTyped
  DEF Handle
<1> QED BY <1>1, <1>2, <1>3, <1>4

(* The clock, the replicas and Redis: no request moves, no row changes.    *)
Surroundings ==
    \/ \E r \in Replicas : Replicate(r)
    \/ \E id \in ClientIds : EvictClient(id)
    \/ Tick
    \/ UNCHANGED vars

LEMMA SurroundingsStep ==
    ASSUME Typed, Surroundings
    PROVE  /\ UNCHANGED <<lsn, timeline, tables, pc, req, local, reply, access>>
           /\ clock' \in Nat /\ clock' >= clock /\ TypeOK'
<1> USE DEF tables, local
<1>1. CASE \E r \in Replicas : Replicate(r)
  <2>1. PICK r \in Replicas : Replicate(r) BY <1>1
  <2>2. /\ lsn' = lsn /\ timeline' = timeline
        /\ applied[r] < lsn /\ applied' = [applied EXCEPT ![r] = @ + 1]
    BY <2>1 DEF Replicate, Replay
  <2>3. DbTypeOK' BY <2>2 DEF Typed, TypeOK, DbTypeOK
  <2> QED BY <2>1, <2>2, <2>3 DEF Typed, TypeOK, Replicate
<1>2. CASE \E id \in ClientIds : EvictClient(id)
  BY <1>2 DEF EvictClient, Typed, TypeOK, DbTypeOK, dbVars
<1>3. CASE Tick
  BY <1>3 DEF Tick, Typed, TypeOK, DbTypeOK, dbVars
<1>4. CASE UNCHANGED vars
  BY <1>4 DEF vars, Typed, TypeOK, DbTypeOK
<1> QED BY <1>1, <1>2, <1>3, <1>4 DEF Surroundings

LEMMA SurroundingsTyped == ASSUME Typed, Surroundings PROVE Typed'
<1>1. TypeOK' BY SurroundingsStep
<1>2. Control'
  BY SurroundingsStep
  DEF Typed, Control, RequestOK, LabelOK, SeenOK, RowsOK, InFlight, tables, local
<1> QED BY <1>1, <1>2 DEF Typed

LEMMA NextSteps ==
    ASSUME [Next]_vars
    PROVE  \/ Surroundings
           \/ \E p \in Requests :
                 Arrive(p) \/ RejectMalformed(p) \/ Handle(p) \/ Crash(p)
BY DEF Next, Surroundings

LEMMA StepKeepsTyped == Typed /\ [Next]_vars => Typed'
BY NextSteps, SurroundingsTyped, HandleTyped

(* TypeOK is an invariant for every set of requests, replicas, users,      *)
(* clients, scopes and verifiers: whatever the interleaving, every row and *)
(* answer the handlers of auth-service write is complete and well formed.  *)
THEOREM TypeCorrect == Spec => []TypeOK
<1>1. Typed => TypeOK BY DEF Typed
<1> QED BY <1>1, InitTyped, StepKeepsTyped, PTL DEF Spec

(***************************************************************************)
(* The steps of a request, as the grants see them                          *)
(***************************************************************************)

(* A step that neither reads nor writes a code or a token.                 *)
Quiet(p) ==
    /\ UNCHANGED <<codes, tokens, seen, readAt, wroteAt>>
    /\ lsn' \in {lsn, lsn + 1}
    /\ p \in DOMAIN req => UNCHANGED req
    /\ pc'[p] # "spend"
    /\ pc'[p] \in {"user", "mint"} => pc[p] = "user"
    /\ pc'[p] = "credentials" =>
          WithinClient(req[p].client, req[p].scopes) /\ UNCHANGED <<req, clients>>
    /\ pc'[p] = "issue" => pc[p] = "credentials" /\ UNCHANGED <<req, clients>>
    /\ \/ UNCHANGED access
       \/ /\ pc[p] = "client"
          /\ WithinClient(req[p].client, req[p].scopes) /\ UNCHANGED clients
          /\ GrantAccess(p, req[p].client, req[p].scopes)

Stores(p) ==
    /\ lsn' = lsn + 1 /\ pc'[p] = "done" /\ UNCHANGED <<req, clients, local>>
Issues(p) ==
    /\ pc[p] = "issue" /\ req[p].kind = "authorize"
    /\ Stores(p) /\ UNCHANGED <<tokens, access>>
    /\ codes' = Insert(codes, p,
          [client |-> req[p].client, user |-> req[p].user,
           redirect |-> req[p].redirect, scopes |-> req[p].scopes,
           challenge |-> req[p].challenge, expires |-> clock + CodeTTL,
           at |-> lsn + 1, usedAt |-> Never])
Mints(p) ==
    /\ pc[p] = "mint" /\ p \in DOMAIN seen
    /\ Stores(p) /\ UNCHANGED codes
    /\ tokens' = Insert(tokens, p,
          [client |-> req[p].client, user |-> seen[p].user,
           scopes |-> seen[p].scopes, expires |-> clock + RefreshTTL,
           at |-> lsn + 1, deletedAt |-> Never, grant |-> seen[p].grant])
    /\ access' = access \/ GrantAccess(p, seen[p].user, seen[p].scopes)

(* A step that marks a code or deletes a token.                            *)
Spends(p) ==
    /\ pc[p] \in {"spend", "purge", "revoke"}
    /\ pc'[p] = "done" \/ (pc[p] = "spend" /\ pc'[p] = "user")
    /\ UNCHANGED <<req, clients, access>>
    /\ \/ MarkUsed(p) /\ UNCHANGED tokens /\ req[p].kind = "authorization_code"
       \/ /\ DeleteToken(p) /\ UNCHANGED codes
          /\ req[p].kind \in {"refresh_token", "revoke"}

(* A lookup that finds the code or token.                                  *)
Reads(p) ==
    /\ pc[p] = "lookup" /\ pc'[p] = "spend"
    /\ UNCHANGED <<lsn, codes, tokens, clients, req, access>>
    /\ \E point \in ReadPoints :
          \/ /\ req[p].kind = "authorization_code"
             /\ CodeRedeemable(req[p], point)
             /\ Remember(p, codes[req[p].key], req[p].key, point)
          \/ /\ req[p].kind = "refresh_token"
             /\ TokenVisible(req[p].key, point)
             /\ tokens[req[p].key].client = req[p].client
             /\ Remember(p, tokens[req[p].key], tokens[req[p].key].grant, point)

LEMMA CommitStep == ASSUME Commit PROVE lsn' = lsn + 1
BY DEF Commit

LEMMA PcStep ==
    ASSUME Typed, NEW p \in Requests
    PROVE  /\ \A label \in Labels : Goto(p, label) => pc'[p] = label
           /\ \A outcome \in Replies : Finish(p, outcome) => pc'[p] = "done"
BY GotoStep, FinishStep DEF Typed

LEMMA StepKinds ==
    ASSUME Typed, NEW p \in Requests,
           Arrive(p) \/ RejectMalformed(p) \/ Handle(p) \/ Crash(p)
    PROVE  Quiet(p) \/ Issues(p) \/ Mints(p) \/ Spends(p) \/ Reads(p)
<1> USE DEF tables, local, dbVars
<1>1. RequestOK(p) BY DEF Typed, Control
<1>2. Labels = {"new", "insert", "client", "credentials", "issue", "lookup",
                "spend", "purge", "user", "mint", "revoke", "done"}
  BY DEF Labels
<1>3. {"ok", "InvalidRequest", "InvalidClient", "InvalidGrant", "Unauthorized",
       "NotFound", "Conflict", "InternalError", "lost"} \subseteq Replies
  BY DEF Replies
<1>5. CASE Arrive(p)
  <2>1. pc[p] = "new" /\ p \notin DOMAIN req
    BY <1>1, <1>5 DEF Arrive, MayArrive, RequestOK, LabelOK
  <2>2. pc'[p] \in {"insert", "client"}
    BY <1>2, <1>5, PcStep DEF Arrive
  <2> QED BY <1>5, <2>1, <2>2 DEF Arrive, Quiet
<1>6. CASE RejectMalformed(p)
  BY <1>3, <1>6, PcStep DEF RejectMalformed, Quiet
<1>7. CASE Crash(p)
  BY <1>3, <1>7, PcStep DEF Crash, Quiet
<1>8. CASE ClientNotFound(p)
  BY <1>3, <1>8, PcStep DEF ClientNotFound, Quiet
<1>9. CASE RegisterUser(p)
  BY <1>3, <1>9, PcStep, CommitStep DEF RegisterUser, Failed, Quiet
<1>10. CASE InsertClient(p)
  BY <1>3, <1>10, PcStep, CommitStep DEF InsertClient, Failed, Quiet
<1>11. CASE AuthorizeClient(p)
  <2>1. pc'[p] = "done"
        \/ (pc'[p] = "credentials" /\ WithinClient(req[p].client, req[p].scopes))
    BY <1>2, <1>3, <1>11, PcStep, FindClientCache
    DEF AuthorizeClient, WithinClient, ScopesAllowed
  <2> QED BY <1>11, <2>1 DEF AuthorizeClient, Quiet
<1>12. CASE VerifyCredentials(p)
  <2>1. pc'[p] \in {"issue", "done"}
    BY <1>2, <1>3, <1>12, PcStep DEF VerifyCredentials
  <2> QED BY <1>12, <2>1 DEF VerifyCredentials, Quiet
<1>13. CASE IssueCode(p)
  <2>1. pc'[p] = "done" BY <1>3, <1>13, PcStep DEF IssueCode, Failed, Unreferenced
  <2>2. req[p].kind = "authorize" BY <1>1, <1>13 DEF IssueCode, RequestOK, LabelOK
  <2> QED BY <1>13, <2>1, <2>2, CommitStep DEF IssueCode, Quiet, Issues, Stores
<1>14. CASE AuthenticateClient(p)
  <2>1. pc'[p] \in {"revoke", "lookup", "done"}
    BY <1>2, <1>3, <1>14, PcStep DEF AuthenticateClient
  <2> QED BY <1>14, <2>1 DEF AuthenticateClient, Quiet
<1>15. CASE ClientCredentials(p)
  <2>1. pc'[p] = "done"
    BY <1>2, <1>3, <1>15, PcStep DEF ClientCredentials
  <2>2. ScopesAllowed(req[p]) => WithinClient(req[p].client, req[p].scopes)
    BY <1>15, FindClientCache DEF ClientCredentials, WithinClient, ScopesAllowed
  <2> QED BY <1>15, <2>1, <2>2 DEF ClientCredentials, Quiet
<1>16. CASE LookupCode(p)
  <2>1. CASE UNCHANGED <<seen, readAt, wroteAt>> /\ Finish(p, "InvalidGrant")
    BY <1>3, <1>16, <2>1, PcStep DEF LookupCode, Quiet
  <2>2. CASE Goto(p, "spend") /\ \E point \in ReadPoints :
                CodeRedeemable(req[p], point)
                /\ Remember(p, codes[req[p].key], req[p].key, point)
    BY <1>2, <1>16, <2>2, PcStep DEF LookupCode, Reads
  <2> QED BY <1>16, <2>1, <2>2 DEF LookupCode
<1>17. CASE LookupToken(p)
  <2>1. CASE UNCHANGED <<seen, readAt, wroteAt>>
             /\ (Finish(p, "InvalidGrant") \/ Goto(p, "purge"))
    BY <1>2, <1>3, <1>17, <2>1, PcStep DEF LookupToken, Quiet
  <2>2. CASE Goto(p, "spend") /\ \E point \in ReadPoints :
                /\ TokenVisible(req[p].key, point)
                /\ tokens[req[p].key].client = req[p].client
                /\ Remember(p, tokens[req[p].key], tokens[req[p].key].grant, point)
    BY <1>2, <1>17, <2>2, PcStep DEF LookupToken, Reads
  <2> QED BY <1>17, <2>1, <2>2 DEF LookupToken
<1>18. CASE SpendCode(p)
  BY <1>2, <1>3, <1>18, PcStep DEF SpendCode, Failed, Quiet, Spends
<1>19. CASE SpendToken(p)
  BY <1>2, <1>3, <1>19, PcStep DEF SpendToken, Failed, Quiet, Spends
<1>20. CASE PurgeToken(p)
  BY <1>1, <1>3, <1>20, PcStep DEF PurgeToken, Quiet, Spends, RequestOK, LabelOK
<1>21. CASE FindUser(p)
  BY <1>2, <1>3, <1>21, PcStep DEF FindUser, Failed, Quiet
<1>22. CASE MintToken(p)
  <2>1. pc'[p] = "done" BY <1>3, <1>22, PcStep DEF MintToken, Failed, Unreferenced
  <2>2. p \in DOMAIN seen BY <1>1, <1>22 DEF MintToken, RequestOK, LabelOK
  <2> QED BY <1>22, <2>1, <2>2, CommitStep DEF MintToken, Quiet, Mints, Stores
<1>23. CASE RevokeToken(p)
  BY <1>1, <1>3, <1>23, PcStep DEF RevokeToken, Quiet, Spends, RequestOK, LabelOK
<1> QED
  BY <1>5, <1>6, <1>7, <1>8, <1>9, <1>10, <1>11, <1>12, <1>13, <1>14, <1>15, <1>16,
     <1>17, <1>18, <1>19, <1>20, <1>21, <1>22, <1>23
  DEF Handle

LEMMA ReadPointsBelow ==
    ASSUME Typed, NEW point \in ReadPoints PROVE point \in Nat \ {Never} /\ point <= lsn
BY DEF ReadPoints, Typed, TypeOK, DbTypeOK, Never

(***************************************************************************)
(* What the invariants of the grants are made of                           *)
(***************************************************************************)
RequestStep(p) == Arrive(p) \/ RejectMalformed(p) \/ Handle(p) \/ Crash(p)

(* No row carries a position that the log has not reached.                 *)
RowsStamped ==
    /\ \A k \in DOMAIN codes : codes[k].at <= lsn /\ codes[k].usedAt <= lsn
    /\ \A t \in DOMAIN tokens : tokens[t].at <= lsn /\ tokens[t].deletedAt <= lsn

AuthorizedWithin(p) == pc[p] \in {"credentials", "issue"} =>
    WithinClient(req[p].client, req[p].scopes)

Alone == \A p, q \in Requests : InFlight(p) /\ InFlight(q) => p = q

(* A request that can still take a step has stored nothing.                *)
LEMMA ActingTyped ==
    ASSUME Typed, NEW p \in Requests, RequestStep(p)
    PROVE  /\ pc[p] # "done"
           /\ p \notin DOMAIN codes /\ p \notin DOMAIN tokens /\ p \notin DOMAIN clients
           /\ p \in DOMAIN req => UNCHANGED req
<1>1. RequestOK(p) BY DEF Typed, Control
<1>2. pc[p] # "done"
  BY DEF RequestStep, Arrive, RejectMalformed, MayArrive, Crash, InFlight, Handle,
     ClientNotFound, RegisterUser, InsertClient, AuthorizeClient, VerifyCredentials,
     IssueCode, AuthenticateClient, ClientCredentials, LookupCode, LookupToken,
     SpendCode, SpendToken, PurgeToken, FindUser, MintToken, RevokeToken
<1>3. CASE Arrive(p)
  BY <1>1, <1>2, <1>3 DEF Arrive, MayArrive, RequestOK, LabelOK, RowsOK
<1>4. CASE ~Arrive(p)
  <2>1. UNCHANGED req
    BY <1>4 DEF RequestStep, RejectMalformed, Crash, Handle,
       ClientNotFound, RegisterUser, InsertClient, AuthorizeClient, VerifyCredentials,
       IssueCode, AuthenticateClient, ClientCredentials, LookupCode, LookupToken,
       SpendCode, SpendToken, PurgeToken, FindUser, MintToken, RevokeToken
  <2> QED BY <1>1, <1>2, <2>1 DEF RequestOK, RowsOK
<1> QED BY <1>3, <1>4

(* Requests one at a time: while one takes a step no other is in flight.   *)
LEMMA AloneStep ==
    ASSUME Typed, Serialized, Alone, NEW p \in Requests, RequestStep(p), Frame(p),
           NEW q \in Requests \ {p}
    PROVE  ~InFlight(q) /\ ~InFlight(q)'
<1>1. CASE MayArrive(p) BY <1>1 DEF MayArrive, InFlight, Frame
<1>2. CASE InFlight(p) BY <1>2 DEF Alone, InFlight, Frame
<1>3. Arrive(p) \/ RejectMalformed(p) => MayArrive(p) BY DEF Arrive, RejectMalformed
<1>4. Handle(p) \/ Crash(p) => InFlight(p)
  BY DEF Crash, InFlight, Handle, ClientNotFound,
         RegisterUser, InsertClient, AuthorizeClient, VerifyCredentials, IssueCode,
         AuthenticateClient, ClientCredentials, LookupCode, LookupToken, SpendCode,
         SpendToken, PurgeToken, FindUser, MintToken, RevokeToken
<1> QED BY <1>1, <1>2, <1>3, <1>4 DEF RequestStep

(***************************************************************************)
(* References, as long as no failover happens                              *)
(***************************************************************************)
LEMMA Inv1Typed == Inv1 => Typed
BY DEF Inv1, Typed

LEMMA InitInv1 == Init => Inv1
<1> SUFFICES ASSUME Init PROVE Inv1
  OBVIOUS
<1>1. DOMAIN req = {} BY EmptyIsTable DEF Init
<1> QED BY <1>1, InitTyped DEF Inv1, Typed, References, KeyOK, AnswerOK

(* A caller can only send a code or token that exists.                     *)
LEMMA InputsExist ==
    ASSUME Inv1, NEW r \in Inputs
    PROVE  /\ r.kind = "authorization_code" => r.key \in DOMAIN codes
           /\ r.kind \in {"refresh_token", "revoke"} => r.key \in DOMAIN tokens
<1>1. KnownCodes \subseteq DOMAIN codes /\ KnownTokens \subseteq DOMAIN tokens
  BY DEF Inv1, TypeOK, IsTable, References, AnswerOK, KnownCodes, KnownTokens,
     Answered, TokenGrants
<1>2. CASE r \in Register \cup RegisterClient \cup Authorize(KnownClients)
               \cup ClientGrant(KnownClients)
  BY <1>2 DEF Register, RegisterClient, Authorize, ClientGrant
<1>3. CASE r \in CodeGrant(KnownClients, KnownCodes)
  BY <1>1, <1>3 DEF CodeGrant
<1>4. CASE r \in RefreshGrant(KnownClients, KnownTokens)
  BY <1>1, <1>4 DEF RefreshGrant
<1>5. CASE r \in Revoke(KnownClients, KnownTokens)
  BY <1>1, <1>5 DEF Revoke
<1> QED BY <1>2, <1>3, <1>4, <1>5 DEF Inputs

LEMMA HandleInv1 ==
    ASSUME Inv1, NEW p \in Requests,
           Arrive(p) \/ RejectMalformed(p) \/ Handle(p) \/ Crash(p)
    PROVE  Inv1' /\ Frame(p)
<1>1. Typed' /\ Frame(p) /\ AnswerOK(p)' BY Inv1Typed, HandleTyped
<1>2. DOMAIN codes \subseteq DOMAIN codes' /\ DOMAIN tokens \subseteq DOMAIN tokens'
  BY <1>1 DEF Frame, CodesGrow, TokensGrow
<1>3. KeyOK(p)'
  <2>1. KeyOK(p) BY DEF Inv1, References
  <2>2. CASE Arrive(p)
    <3>1. PICK r \in Inputs : req' = Insert(req, p, r) BY <2>2 DEF Arrive
    <3>2. p \in DOMAIN req' /\ req'[p] = r BY <3>1 DEF Insert
    <3> QED BY <1>2, <3>2, InputsExist DEF KeyOK
  <2>3. CASE ~Arrive(p)
    <3>1. UNCHANGED req
      BY <2>3 DEF RejectMalformed, Crash, Handle, ClientNotFound, RegisterUser,
         InsertClient, AuthorizeClient, VerifyCredentials, IssueCode,
         AuthenticateClient, ClientCredentials, LookupCode, LookupToken, SpendCode,
         SpendToken, PurgeToken, FindUser, MintToken, RevokeToken
    <3> QED BY <1>2, <2>1, <3>1 DEF KeyOK
  <2> QED BY <2>2, <2>3
<1>4. ASSUME NEW q \in Requests \ {p} PROVE KeyOK(q)' /\ AnswerOK(q)'
  <2>1. KeyOK(q) /\ AnswerOK(q) BY DEF Inv1, References
  <2>2. /\ reply'[q] = reply[q]
        /\ q \in DOMAIN req' => q \in DOMAIN req /\ req'[q] = req[q]
    BY <1>1 DEF Frame, GrowsBy
  <2> QED BY <1>2, <2>1, <2>2 DEF KeyOK, AnswerOK
<1> QED BY <1>1, <1>3, <1>4 DEF Inv1, Typed, References

LEMMA SurroundingsInv1 == ASSUME Inv1, Surroundings PROVE Inv1'
<1>1. Typed' BY Inv1Typed, SurroundingsTyped
<1>2. UNCHANGED <<codes, tokens, req, reply>>
  BY Inv1Typed, SurroundingsStep DEF tables
<1> QED BY <1>1, <1>2 DEF Inv1, Typed, References, KeyOK, AnswerOK

LEMMA StepKeepsInv1 == Inv1 /\ [Next]_vars => Inv1'
BY NextSteps, SurroundingsInv1, HandleInv1

=============================================================================
