------------------------ MODULE AccessControl_proofs ------------------------
(***************************************************************************)
(* What a call that user-service lets through goes back to, and for how    *)
(* long a session that is over can be used, for any requests, users,       *)
(* clients, scopes and lifetimes.                                          *)
(***************************************************************************)
EXTENDS OAuthGrants_proofs, AccessControl

(***************************************************************************)
(* What the handlers have checked                                          *)
(***************************************************************************)
PastClient == {"lookup", "spend", "purge", "user", "mint"}

(* A login with the right password and a client that proved its secret.    *)
LoginOK(p) == pc[p] = "issue" \/ p \in DOMAIN codes => req[p].password
SecretOK(p) ==
    pc[p] \in PastClient \/ p \in DOMAIN seen \/ p \in DOMAIN access =>
        p \in DOMAIN req /\ SecretMatches(req[p])
(* A code carries what its request asked for, and is held by a caller only *)
(* after it was answered.                                                  *)
CodeOK(p) == p \in DOMAIN codes =>
    /\ codes[p].client = req[p].client /\ codes[p].user = req[p].user
    /\ codes[p].scopes = req[p].scopes /\ codes[p].challenge = req[p].challenge
HeldOK(p) == p \in DOMAIN req /\ req[p].kind = "authorization_code" =>
    reply[req[p].key] = "ok"
ClaimsOK(p) == p \in DOMAIN access =>
    /\ pc[p] = "done" /\ access[p].client = req[p].client
    /\ ForUser(p) =>
          /\ p \in DOMAIN seen /\ access[p].sub = seen[p].user
          /\ access[p].scopes = seen[p].scopes

ChecksOK(p) == LoginOK(p) /\ SecretOK(p) /\ CodeOK(p) /\ HeldOK(p) /\ ClaimsOK(p)
Checks == \A p \in Requests : ChecksOK(p)

(* The code k was answered to its user, and somebody who exchanged it knew *)
(* the verifier.                                                           *)
ProvedBy(k, q) ==
    /\ req[q].kind = "authorization_code" /\ req[q].key = k
    /\ S256(req[q].verifier) = req[k].challenge
Proved(k) ==
    /\ k \in DOMAIN codes /\ reply[k] = "ok"
    /\ \E q \in DOMAIN seen : ProvedBy(k, q)
Proofs ==
    /\ \A p \in DOMAIN seen : Proved(seen[p].grant)
    /\ \A t \in DOMAIN tokens : Proved(tokens[t].grant)

Provenance == Checks /\ Proofs

LEMMA InitProvenance == Init => Provenance
<1> SUFFICES ASSUME Init PROVE Provenance
  OBVIOUS
<1>1. /\ DOMAIN req = {} /\ DOMAIN codes = {} /\ DOMAIN tokens = {}
      /\ DOMAIN seen = {} /\ DOMAIN access = {}
  BY EmptyIsTable DEF Init
<1>2. \A p \in Requests : pc[p] = "new" BY DEF Init
<1> QED BY <1>1, <1>2
    DEF Provenance, Checks, ChecksOK, LoginOK, SecretOK, PastClient, CodeOK, HeldOK,
        ClaimsOK, Proofs

(***************************************************************************)
(* The steps of a request                                                  *)
(***************************************************************************)
LEMMA ActingFrame ==
    ASSUME Inv1, NEW p \in Requests, RequestStep(p)
    PROVE  /\ Inv1' /\ Frame(p)
           /\ p \notin DOMAIN codes /\ p \notin DOMAIN tokens /\ pc[p] # "done"
           /\ p \in DOMAIN req => UNCHANGED req
           /\ \A q \in DOMAIN req : q \in DOMAIN req' /\ req'[q] = req[q]
<1>1. Inv1' /\ Frame(p) BY HandleInv1 DEF RequestStep
<1> QED BY <1>1, NotStored DEF Frame, GrowsBy

(* The label a request moves to, and the check that let it.                *)
LEMMA SecretChecked ==
    ASSUME Inv1, NEW p \in Requests, RequestStep(p), pc'[p] \in PastClient
    PROVE  pc[p] \in PastClient \/ (InFlight(p) /\ SecretMatches(req[p]))
<1>1. \A label \in Labels \ PastClient : ~Goto(p, label) BY GotoStep DEF Inv1
<1>2. \A outcome \in Replies : ~Finish(p, outcome)
  BY FinishStep DEF Inv1, PastClient
<1>3. {"insert", "client", "credentials", "issue", "revoke"} \subseteq Labels \ PastClient
  BY DEF Labels, PastClient
<1>4. {"ok", "InvalidRequest", "InvalidClient", "InvalidGrant", "Unauthorized",
       "NotFound", "Conflict", "InternalError", "lost"} \subseteq Replies
  BY DEF Replies
<1>5. ~Arrive(p) BY <1>1, <1>3 DEF Arrive
<1>6. ~(RejectMalformed(p) \/ Crash(p) \/ ClientNotFound(p) \/ RevokeToken(p))
  BY <1>2, <1>4 DEF RejectMalformed, Crash, ClientNotFound, RevokeToken
<1>7. ~(RegisterUser(p) \/ InsertClient(p) \/ IssueCode(p) \/ ClientCredentials(p))
  BY <1>2, <1>4 DEF RegisterUser, InsertClient, IssueCode, ClientCredentials, Failed, Unreferenced
<1>8. ~(AuthorizeClient(p) \/ VerifyCredentials(p))
  BY <1>1, <1>2, <1>3, <1>4 DEF AuthorizeClient, VerifyCredentials
<1>9. CASE AuthenticateClient(p)
  BY <1>2, <1>4, <1>9 DEF AuthenticateClient, InFlight
<1>10. CASE LookupCode(p) \/ LookupToken(p) \/ SpendCode(p) \/ SpendToken(p)
            \/ PurgeToken(p) \/ FindUser(p) \/ MintToken(p)
  BY <1>10 DEF LookupCode, LookupToken, SpendCode, SpendToken, PurgeToken, FindUser,
     MintToken, PastClient
<1> QED BY <1>5, <1>6, <1>7, <1>8, <1>9, <1>10 DEF RequestStep, Handle

LEMMA PasswordChecked ==
    ASSUME Inv1, NEW p \in Requests, RequestStep(p), pc'[p] = "issue"
    PROVE  req[p].password
<1>1. VerifyCredentials(p) BY LoginLeadsToIssue
<1>2. ~Finish(p, "Unauthorized") BY FinishStep DEF Inv1, Replies
<1> QED BY <1>1, <1>2 DEF VerifyCredentials

(* An access token is signed at the end of a grant.                        *)
LEMMA AccessSigned ==
    ASSUME Inv1, NEW p \in Requests, RequestStep(p), access' # access
    PROVE  /\ pc'[p] = "done" /\ clock' = clock /\ UNCHANGED <<req, seen>>
           /\ \/ /\ pc[p] = "client" /\ req[p].kind = "client_credentials"
                 /\ SecretMatches(req[p])
                 /\ GrantAccess(p, req[p].client, req[p].scopes)
              \/ /\ pc[p] = "mint" /\ p \in DOMAIN seen
                 /\ GrantAccess(p, seen[p].user, seen[p].scopes)
<1>1. ClientCredentials(p) \/ MintToken(p)
  BY DEF RequestStep, Arrive, RejectMalformed, Crash, Handle, ClientNotFound,
     RegisterUser, InsertClient, AuthorizeClient, VerifyCredentials, IssueCode,
     AuthenticateClient, LookupCode, LookupToken, SpendCode, SpendToken, PurgeToken,
     FindUser, RevokeToken
<1>2. "ok" \in Replies /\ "InternalError" \in Replies
      /\ "InvalidRequest" \in Replies /\ "InvalidClient" \in Replies
  BY DEF Replies
<1>3. CASE ClientCredentials(p)
  BY <1>2, <1>3, FinishStep DEF ClientCredentials, Inv1, local
<1>4. CASE MintToken(p)
  <2>1. p \in DOMAIN seen BY <1>4 DEF MintToken, Inv1, Control, RequestOK, LabelOK
  <2>2. Finish(p, "ok") /\ GrantAccess(p, seen[p].user, seen[p].scopes)
    BY <1>4 DEF MintToken
  <2>3. pc'[p] = "done" BY <1>2, <2>2, FinishStep DEF Inv1
  <2> QED BY <1>4, <2>1, <2>2, <2>3 DEF MintToken, local
<1> QED BY <1>1, <1>3, <1>4

(* A request that is not taking the step keeps its checks.                 *)
LEMMA OthersKeepChecks ==
    ASSUME Inv1, NEW p \in Requests, RequestStep(p), NEW q \in Requests \ {p}, ChecksOK(q)
    PROVE  ChecksOK(q)'
<1>1. /\ Frame(p) /\ pc[p] # "done" /\ Inv1'
      /\ \A k \in DOMAIN req : k \in DOMAIN req' /\ req'[k] = req[k]
  BY ActingFrame
<1>2. /\ pc'[q] = pc[q] /\ reply'[q] = reply[q]
      /\ q \in DOMAIN req' <=> q \in DOMAIN req
      /\ q \in DOMAIN seen' <=> q \in DOMAIN seen
      /\ q \in DOMAIN access' <=> q \in DOMAIN access
      /\ q \in DOMAIN codes' <=> q \in DOMAIN codes
      /\ q \in DOMAIN seen => seen'[q] = seen[q]
      /\ q \in DOMAIN access => access'[q] = access[q]
  BY <1>1 DEF Frame, GrowsBy, CodesGrow
<1>3. RequestOK(q) /\ RequestOK(q)' BY <1>1 DEF Inv1, Control
<1>4. pc[q] = "issue" \/ q \in DOMAIN codes => q \in DOMAIN req
  BY <1>3 DEF RequestOK, LabelOK, RowsOK, InFlight
<1>5. LoginOK(q)' BY <1>1, <1>2, <1>4 DEF ChecksOK, LoginOK
<1>6. SecretOK(q)' BY <1>1, <1>2 DEF ChecksOK, SecretOK
<1>7. CodeOK(q)'
  <2> SUFFICES ASSUME q \in DOMAIN codes' PROVE CodeOK(q)'
    BY DEF CodeOK
  <2>1. CodeKept(q) BY <1>2, RowsKept
  <2>2. SameConsent(codes[q], codes'[q]) BY <1>1, <1>2 DEF Frame, CodesGrow
  <2> QED BY <1>1, <1>2, <1>4, <2>1, <2>2 DEF ChecksOK, CodeOK, CodeKept, SameConsent
<1>8. HeldOK(q)'
  <2> SUFFICES ASSUME q \in DOMAIN req, req[q].kind = "authorization_code"
               PROVE  reply'[req[q].key] = "ok"
    BY <1>1, <1>2 DEF HeldOK
  <2>1. reply[req[q].key] = "ok" BY DEF ChecksOK, HeldOK
  <2>2. req[q].key \in DOMAIN codes BY StampTypes
  <2>3. req[q].key \in Requests \ {p} BY <2>2, ActingFrame, StampTypes
  <2> QED BY <1>1, <2>1, <2>3 DEF Frame
<1>9. ClaimsOK(q)'
  <2>1. q \in DOMAIN access => q \in DOMAIN req BY DEF ChecksOK, SecretOK
  <2> QED BY <1>1, <1>2, <2>1 DEF ChecksOK, ClaimsOK, ForUser
<1> QED BY <1>5, <1>6, <1>7, <1>8, <1>9 DEF ChecksOK

(* A caller can only present a code that was answered to its user.         *)
LEMMA HeldCodeWasAnswered ==
    ASSUME Inv1, NEW p \in Requests, RequestStep(p), p \notin DOMAIN req,
           p \in DOMAIN req', req'[p].kind = "authorization_code"
    PROVE  reply'[req'[p].key] = "ok"
<1>1. Arrive(p)
  BY DEF RequestStep, RejectMalformed, Crash, Handle, ClientNotFound,
     RegisterUser, InsertClient, AuthorizeClient, VerifyCredentials, IssueCode,
     AuthenticateClient, ClientCredentials, LookupCode, LookupToken, SpendCode,
     SpendToken, PurgeToken, FindUser, MintToken, RevokeToken
<1>2. PICK r \in Inputs : req' = Insert(req, p, r) BY <1>1 DEF Arrive
<1>3. req'[p] = r BY <1>2 DEF Insert
<1>4. UNCHANGED reply BY <1>1 DEF Arrive, Goto
<1>5. r.kind = "authorization_code" /\ r \in Inputs BY <1>3
<1>6. r.key \in KnownCodes
  BY <1>5 DEF Inputs, Register, RegisterClient, Authorize, CodeGrant, ClientGrant,
     RefreshGrant, Revoke
<1> QED BY <1>3, <1>4, <1>6 DEF KnownCodes, Answered

LEMMA ActorKeepsChecks ==
    ASSUME Inv1, NEW p \in Requests, RequestStep(p), ChecksOK(p)
    PROVE  ChecksOK(p)'
<1>1. /\ Frame(p) /\ Inv1' /\ pc[p] # "done" /\ p \notin DOMAIN codes
      /\ p \in DOMAIN req => UNCHANGED req
  BY ActingFrame
<1>2. RequestOK(p) /\ RequestOK(p)' BY <1>1 DEF Inv1, Control
<1>3. Quiet(p) \/ Issues(p) \/ Mints(p) \/ Spends(p) \/ Reads(p)
  BY Inv1Typed, StepKinds DEF RequestStep
<1>4. p \in DOMAIN codes' => Issues(p)
  BY <1>1, <1>3 DEF Quiet, Mints, Spends, MarkUsed, Reads
<1>5. InFlight(p) => p \in DOMAIN req BY <1>2 DEF RequestOK, LabelOK
<1>6. LoginOK(p)'
  <2>1. CASE pc'[p] = "issue"
    <3>1. UNCHANGED req BY <2>1, IssueFollowsLogin
    <3> QED BY <2>1, <3>1, PasswordChecked DEF LoginOK
  <2>2. CASE p \in DOMAIN codes'
    BY <1>4, <2>2 DEF Issues, Stores, ChecksOK, LoginOK
  <2> QED BY <2>1, <2>2 DEF LoginOK
<1>7. SecretOK(p)'
  <2>1. p \in DOMAIN access' => p \in DOMAIN req /\ SecretMatches(req[p])
    <3>1. p \notin DOMAIN access BY <1>1 DEF ChecksOK, ClaimsOK
    <3> SUFFICES ASSUME access' # access PROVE p \in DOMAIN req /\ SecretMatches(req[p])
      BY <3>1
    <3>2. CASE pc[p] = "mint" BY <3>2 DEF ChecksOK, SecretOK, PastClient
    <3>3. CASE pc[p] = "client"
      BY <1>5, <3>3, AccessSigned DEF InFlight
    <3> QED BY <3>2, <3>3, AccessSigned
  <2>2. p \in DOMAIN seen' => p \in DOMAIN req /\ SecretMatches(req[p])
    <3>1. CASE p \in DOMAIN seen BY <3>1 DEF ChecksOK, SecretOK
    <3>2. CASE Reads(p)
      BY <3>2 DEF Reads, ChecksOK, SecretOK, PastClient
    <3> QED BY <3>1, <3>2, SeenKept
  <2>3. pc'[p] \in PastClient => p \in DOMAIN req /\ SecretMatches(req[p])
    BY <1>5, SecretChecked DEF ChecksOK, SecretOK
  <2> QED BY <1>1, <2>1, <2>2, <2>3 DEF SecretOK
<1>8. CodeOK(p)'
  <2> SUFFICES ASSUME Issues(p) PROVE CodeOK(p)'
    BY <1>4 DEF CodeOK
  <2> QED BY DEF Issues, Stores, CodeOK, Insert
<1>9. HeldOK(p)'
  <2> SUFFICES ASSUME p \in DOMAIN req', req'[p].kind = "authorization_code"
               PROVE  reply'[req'[p].key] = "ok"
    BY DEF HeldOK
  <2>1. CASE p \notin DOMAIN req BY <2>1, HeldCodeWasAnswered
  <2>2. CASE p \in DOMAIN req
    <3>1. UNCHANGED req BY <1>1, <2>2
    <3>2. reply[req[p].key] = "ok" BY <2>2, <3>1 DEF ChecksOK, HeldOK
    <3>3. req[p].key \in DOMAIN codes BY <2>2, <3>1, StampTypes
    <3>4. req[p].key \in Requests \ {p} BY <1>1, <3>3, StampTypes
    <3> QED BY <1>1, <3>1, <3>2, <3>4 DEF Frame
  <2> QED BY <2>1, <2>2
<1>10. ClaimsOK(p)'
  <2>1. p \notin DOMAIN access BY <1>1 DEF ChecksOK, ClaimsOK
  <2> SUFFICES ASSUME access' # access PROVE ClaimsOK(p)'
    BY <2>1 DEF ClaimsOK
  <2>2. pc'[p] = "done" /\ UNCHANGED <<req, seen>> BY AccessSigned
  <2>3. CASE req[p].kind = "client_credentials" /\ GrantAccess(p, req[p].client, req[p].scopes)
    BY <2>2, <2>3 DEF GrantAccess, ClaimsOK, ForUser, Insert
  <2>4. CASE p \in DOMAIN seen /\ GrantAccess(p, seen[p].user, seen[p].scopes)
    BY <2>2, <2>4 DEF GrantAccess, ClaimsOK, ForUser, Insert
  <2> QED BY <2>3, <2>4, AccessSigned
<1> QED BY <1>6, <1>7, <1>8, <1>9, <1>10 DEF ChecksOK

LEMMA ProvedKept ==
    ASSUME Inv1, NEW p \in Requests, RequestStep(p), NEW k, Proved(k)
    PROVE  Proved(k)'
<1>1. /\ Frame(p) /\ Inv1' /\ p \notin DOMAIN codes
      /\ \A q \in DOMAIN req : q \in DOMAIN req' /\ req'[q] = req[q]
  BY ActingFrame
<1>2. k \in DOMAIN codes /\ k \in Requests \ {p} /\ k \in DOMAIN req
  BY <1>1, StampTypes DEF Proved, Inv1, Control, RequestOK, RowsOK
<1>3. k \in DOMAIN codes' /\ reply'[k] = "ok"
  BY <1>1, <1>2 DEF Frame, CodesGrow, Proved
<1>4. PICK q \in DOMAIN seen : ProvedBy(k, q) BY DEF Proved
<1>5. q \in DOMAIN req BY StampTypes
<1>6. q \in DOMAIN seen' BY <1>1 DEF Frame, GrowsBy
<1>7. ProvedBy(k, q)' BY <1>1, <1>2, <1>4, <1>5 DEF ProvedBy
<1> QED BY <1>3, <1>6, <1>7 DEF Proved

(* A lookup that succeeds leads back to a proved exchange: its own, or the *)
(* one that the refresh token descends from.                               *)
LEMMA LookupProves ==
    ASSUME Inv1, Checks, Proofs, NEW p \in Requests, RequestStep(p), Reads(p)
    PROVE  Proved(seen[p].grant)'
<1>1. /\ p \in DOMAIN req /\ UNCHANGED <<req, codes>>
      /\ \A k \in DOMAIN codes : k \in Requests \ {p} /\ k \in DOMAIN req
  <2>1. p \in DOMAIN req BY Inv1Typed, InFlightFacts DEF Reads, InFlight
  <2> QED BY <2>1, ActingFrame, StampTypes DEF Reads, Inv1, Control, RequestOK, RowsOK
<1>2. CASE req[p].kind = "authorization_code"
  <2>1. PICK key : key = req[p].key OBVIOUS
  <2>2. key \in DOMAIN codes BY <1>1, <1>2, <2>1, StampTypes
  <2>3. codes[key].challenge = S256(req[p].verifier)
    BY <1>2, <2>1 DEF Reads, CodeRedeemable
  <2>4. p \in DOMAIN seen' /\ seen'[p].grant = key
    BY <1>2, <2>1 DEF Reads, Remember, Insert
  <2>5. codes[key].challenge = req[key].challenge
    BY <1>1, <2>2 DEF Checks, ChecksOK, CodeOK
  <2>6. reply'[key] = "ok"
    <3>1. reply[key] = "ok" BY <1>1, <1>2, <2>1 DEF Checks, ChecksOK, HeldOK
    <3> QED BY <1>1, <2>2, <3>1, ActingFrame DEF Frame
  <2>7. ProvedBy(key, p)' BY <1>1, <1>2, <2>1, <2>3, <2>5 DEF ProvedBy
  <2> QED BY <1>1, <2>2, <2>4, <2>6, <2>7 DEF Proved
<1>3. CASE req[p].kind = "refresh_token"
  <2>1. PICK k : k = tokens[req[p].key].grant OBVIOUS
  <2>2. Proved(k) BY <1>1, <1>3, <2>1, StampTypes DEF Proofs
  <2>3. Proved(k)' BY <2>2, ProvedKept
  <2>4. seen'[p].grant = k BY <1>3, <2>1 DEF Reads, Remember, Insert
  <2> QED BY <2>3, <2>4
<1> QED BY <1>2, <1>3 DEF Reads

LEMMA ProofsKept ==
    ASSUME Inv1, Checks, Proofs, NEW p \in Requests, RequestStep(p)
    PROVE  Proofs'
<1>1. Frame(p) /\ Inv1' /\ p \notin DOMAIN tokens BY ActingFrame
<1>2. ASSUME NEW q \in DOMAIN seen' PROVE Proved(seen[q].grant)'
  <2>1. CASE Reads(p) /\ q = p BY <2>1, LookupProves
  <2>2. CASE ~(Reads(p) /\ q = p)
    <3>1. PICK k : k = seen[q].grant OBVIOUS
    <3>2. q \in DOMAIN seen /\ seen'[q] = seen[q]
      BY <1>1, <2>2, SeenKept DEF Frame, GrowsBy
    <3>3. Proved(k) BY <3>1, <3>2 DEF Proofs
    <3>4. Proved(k)' BY <3>3, ProvedKept
    <3> QED BY <3>1, <3>2, <3>4
  <2> QED BY <2>1, <2>2
<1>3. ASSUME NEW t \in DOMAIN tokens' PROVE Proved(tokens[t].grant)'
  <2>1. PICK k : k = tokens'[t].grant OBVIOUS
  <2>2. Proved(k)
    <3>1. CASE t \in DOMAIN tokens
      <4>1. k = tokens[t].grant BY <1>1, <2>1, <3>1 DEF Frame, TokensGrow
      <4> QED BY <3>1, <4>1 DEF Proofs
    <3>2. CASE t \notin DOMAIN tokens
      <4>1. t = p BY <1>1, <3>2 DEF Frame, TokensGrow
      <4>2. Mints(p)
        BY <3>2, Inv1Typed, StepKinds
        DEF RequestStep, Quiet, Issues, Reads, Spends, DeleteToken
      <4>3. p \in DOMAIN seen /\ k = seen[p].grant
        BY <2>1, <4>1, <4>2 DEF Mints, Insert
      <4> QED BY <4>3 DEF Proofs
    <3> QED BY <3>1, <3>2
  <2>3. Proved(k)' BY <2>2, ProvedKept
  <2> QED BY <2>1, <2>3
<1> QED BY <1>2, <1>3 DEF Proofs

LEMMA StepKeepsProvenance == Inv1 /\ Provenance /\ [Next]_vars => Provenance'
<1> SUFFICES ASSUME Inv1, Provenance, [Next]_vars PROVE Provenance'
  OBVIOUS
<1> USE DEF Provenance
<1>1. CASE \E p \in Requests : RequestStep(p)
  <2>1. PICK p \in Requests : RequestStep(p) BY <1>1
  <2>2. Checks' BY <2>1, OthersKeepChecks, ActorKeepsChecks DEF Checks
  <2> QED BY <2>1, <2>2, ProofsKept
<1>2. CASE Surroundings
  <2>1. UNCHANGED <<tables, pc, req, seen, reply, access>>
    BY <1>2, Inv1Typed, SurroundingsStep DEF local
  <2> QED
    BY <2>1
    DEF tables, Checks, ChecksOK, LoginOK, SecretOK, CodeOK, HeldOK, ClaimsOK, ForUser,
        Proofs, Proved, ProvedBy
<1> QED BY <1>1, <1>2, NextSteps DEF RequestStep

(***************************************************************************)
(* A call that is let through                                              *)
(***************************************************************************)
(* The token of the call just served was good when it was served; nothing  *)
(* happens between a call and its answer.                                  *)
CallOK == Served =>
    /\ call.token \in DOMAIN access /\ call.scope \in access[call.token].scopes
    /\ clock <= access[call.token].exp + Leeway

BaseInv == IInv /\ Provenance
CallInv == BaseInv /\ CallOK

LEMMA AccessSteps ==
    ASSUME [AccessNext]_accessVars
    PROVE  /\ [Next]_vars
           /\ \/ UNCHANGED call /\ UNCHANGED vars
              \/ call' = NoCall
              \/ \E t \in DOMAIN access, scope \in {Read, Write} :
                    /\ UNCHANGED vars
                    /\ call' = [token |-> t, scope |-> scope, answer |-> "served"]
                    /\ Decodes(t) /\ HasScope(t, scope)
              \/ UNCHANGED vars /\ call'.answer # "served"
<1>1. CASE UNCHANGED accessVars BY <1>1 DEF accessVars, vars
<1>2. CASE Next /\ NoteSessions /\ call = NoCall /\ UNCHANGED call BY <1>2
<1>3. CASE call # NoCall /\ call' = NoCall /\ UNCHANGED <<vars, over, heirs>> BY <1>3
<1>4. CASE \E t \in DOMAIN access \cup {NoToken}, route \in DOMAIN RequiredScope :
              Call(t, route) /\ UNCHANGED <<over, heirs>>
  <2>1. PICK t \in DOMAIN access \cup {NoToken}, route \in DOMAIN RequiredScope :
           Call(t, route)
    BY <1>4
  <2>2. UNCHANGED vars BY <2>1 DEF Call
  <2>3. RequiredScope[route] \in {Read, Write} BY DEF RequiredScope
  <2>4. CASE Answer(t, RequiredScope[route]) = "served"
    <3>1. Decodes(t) /\ HasScope(t, RequiredScope[route]) BY <2>4 DEF Answer
    <3>2. call' = [token |-> t, scope |-> RequiredScope[route], answer |-> "served"]
      BY <2>1, <2>4 DEF Call
    <3> QED BY <2>2, <2>3, <3>1, <3>2 DEF Decodes
  <2>5. CASE Answer(t, RequiredScope[route]) # "served"
    <3>1. call' = [NoCall EXCEPT !.answer = Answer(t, RequiredScope[route])]
      BY <2>1, <2>5 DEF Call
    <3>2. call'.answer # "served" BY <2>5, <3>1 DEF NoCall
    <3> QED BY <2>2, <3>2
  <2> QED BY <2>4, <2>5
<1> QED BY <1>1, <1>2, <1>3, <1>4 DEF AccessNext

LEMMA CallKept == ASSUME CallOK, [AccessNext]_accessVars PROVE CallOK'
<1>1. CASE UNCHANGED call /\ UNCHANGED vars BY <1>1 DEF CallOK, Served, vars
<1>2. CASE call' = NoCall BY <1>2 DEF CallOK, Served, NoCall
<1>3. CASE call'.answer # "served" BY <1>3 DEF CallOK, Served
<1>4. ASSUME NEW t \in DOMAIN access, NEW scope \in {Read, Write}, UNCHANGED vars,
             call' = [token |-> t, scope |-> scope, answer |-> "served"],
             Decodes(t), HasScope(t, scope)
      PROVE  CallOK'
  BY <1>4 DEF CallOK, Decodes, HasScope, vars
<1> QED BY <1>1, <1>2, <1>3, <1>4, AccessSteps

LEMMA CallInvariant == AccessSpec => []CallInv
<1>1. AccessInit => CallInv
  BY InitIInv, InitProvenance
  DEF AccessInit, CallInv, BaseInv, CallOK, Served, NoCall
<1>2. CallInv /\ [AccessNext]_accessVars => CallInv'
  <2> SUFFICES ASSUME CallInv, [AccessNext]_accessVars PROVE CallInv'
    OBVIOUS
  <2>1. [Next]_vars BY AccessSteps
  <2>2. Inv1 BY DEF CallInv, BaseInv, IInv
  <2> QED BY <2>1, <2>2, StepKeepsIInv, StepKeepsProvenance, CallKept DEF CallInv, BaseInv
<1> QED BY <1>1, <1>2, PTL DEF AccessSpec

LEMMA ProvedIsConsented ==
    ASSUME BaseInv, NEW t \in DOMAIN access, ForUser(t), NEW scope \in access[t].scopes
    PROVE  Consented(t, scope)
<1> USE DEF BaseInv, Provenance, IInv
<1> DEFINE k == seen[t].grant
<1>1. t \in Requests BY DEF Inv1, TypeOK, IsTable
<1>2. /\ t \in DOMAIN seen /\ access[t].sub = seen[t].user
      /\ access[t].scopes = seen[t].scopes /\ access[t].client = req[t].client
  BY <1>1 DEF Checks, ChecksOK, ClaimsOK
<1>3. /\ k \in DOMAIN codes /\ seen[t].user = codes[k].user
      /\ seen[t].scopes = codes[k].scopes /\ req[t].client = codes[k].client
  BY <1>2 DEF Descent, SeenDescends
<1>4. Proved(k) BY <1>2 DEF Proofs
<1>5. k \in Requests BY <1>3, StampTypes
<1> HIDE DEF k
<1>6. req[k].kind = "authorize" BY <1>3, <1>5 DEF Inv1, Control, RequestOK, RowsOK
<1>7. /\ req[k].password /\ codes[k].client = req[k].client
      /\ codes[k].user = req[k].user /\ codes[k].scopes = req[k].scopes
  BY <1>3, <1>5 DEF Checks, ChecksOK, LoginOK, CodeOK
<1>8. Answered(k, {"authorize"}) BY <1>4, <1>6 DEF Proved, Answered
<1>9. \E q \in DOMAIN seen :
         /\ req[q].kind = "authorization_code" /\ req[q].key = k
         /\ S256(req[q].verifier) = req[k].challenge
  BY <1>4 DEF Proved, ProvedBy
<1> QED BY <1>2, <1>3, <1>7, <1>8, <1>9 DEF Consented, k

(* A call that user-service lets through (extract_user, require_scope)     *)
(* goes back, over any number of rotations, to a login of that user with   *)
(* the right password who gave that scope to that client (authorize), to   *)
(* the client's secret and to the verifier of whoever exchanged the code.  *)
THEOREM ServedWereConsented == AccessSpec => []ServedCallsWereConsented
<1>1. CallInv => ServedCallsWereConsented
  <2> SUFFICES ASSUME CallInv, Served PROVE ServedCallsWereConsented
    BY DEF ServedCallsWereConsented
  <2> DEFINE t == call.token
  <2>1. t \in DOMAIN access /\ call.scope \in access[t].scopes
    BY DEF CallInv, CallOK
  <2>2. t \in Requests BY <2>1 DEF CallInv, BaseInv, IInv, Inv1, TypeOK, IsTable
  <2>3. SecretMatches(req[t]) /\ access[t].client = req[t].client
    BY <2>1, <2>2
    DEF CallInv, BaseInv, Provenance, Checks, ChecksOK, SecretOK, ClaimsOK
  <2>4. call.scope \in clients[req[t].client].scopes
    BY <2>1, <2>3 DEF CallInv, BaseInv, IInv, Descent, WithinClient
  <2>5. ForUser(t) => Consented(t, call.scope)
    BY <2>1, ProvedIsConsented DEF CallInv
  <2> QED BY <2>3, <2>4, <2>5 DEF ServedCallsWereConsented
<1> QED BY <1>1, CallInvariant, PTL

(***************************************************************************)
(* The end of a session                                                    *)
(***************************************************************************)
(* Once a session is over, its code is spent or expired, and whoever holds *)
(* a usable token of it, or has read one and is under way, is an heir.     *)
OverOK(k) == over[k] # NotYet =>
    /\ k \in DOMAIN codes /\ ~Redeemable(k)
    /\ \A t \in DOMAIN tokens : tokens[t].grant = k /\ Usable(t) => t \in heirs[k]
    /\ UnderWay(k) \subseteq heirs[k]
(* A token is signed by an heir, or no later than its session was over.    *)
SignedOK(t) ==
    /\ access[t].exp <= clock + AccessTTL
    /\ ForUser(t) =>
          \/ t \in heirs[seen[t].grant]
          \/ access[t].exp <= over[seen[t].grant] + AccessTTL
ClockOK == clock \in Nat /\ clock <= MaxTime
HistoryOK ==
    /\ over \in [Requests -> Nat]
    /\ DOMAIN heirs = Requests
    /\ \A k \in Requests : OverOK(k)
SessionEnds == Replicas = {} =>
    ClockOK /\ HistoryOK /\ \A t \in DOMAIN access : SignedOK(t)

LEMMA ClockKept == ASSUME ClockOK, [Next]_vars PROVE ClockOK' /\ clock' >= clock
<1>1. CASE Tick BY <1>1, OAuthAssumption DEF Tick, ClockOK
<1>2. CASE ~Tick
  <2>1. clock' = clock
    BY ZenonT(60), <1>2 DEF Next, vars, Replicate, EvictClient, Handle, Arrive, RejectMalformed,
       Crash, ClientNotFound, RegisterUser, InsertClient, AuthorizeClient,
       VerifyCredentials, IssueCode, AuthenticateClient, ClientCredentials, LookupCode,
       LookupToken, SpendCode, SpendToken, PurgeToken, FindUser, MintToken, RevokeToken
  <2> QED BY SMTT(40), <2>1 DEF ClockOK
<1> QED BY <1>1, <1>2

(* With reads from the primary, a lookup only succeeds on a code that can  *)
(* be redeemed or a refresh token that can be used.                        *)
LEMMA LookupNeedsGrant ==
    ASSUME Inv1, Stamps, Replicas = {}, NEW p \in Requests, RequestStep(p), Reads(p)
    PROVE  /\ p \in DOMAIN req /\ UNCHANGED <<codes, tokens, req>>
           /\ \/ /\ seen'[p].grant = req[p].key
                 /\ req[p].key \in DOMAIN codes /\ Redeemable(req[p].key)
              \/ /\ req[p].kind = "refresh_token"
                 /\ req[p].key \in DOMAIN tokens /\ Usable(req[p].key)
                 /\ seen'[p].grant = tokens[req[p].key].grant
<1>1. p \in DOMAIN req BY Inv1Typed, InFlightFacts DEF Reads, InFlight
<1>2. pc[p] = "lookup" /\ pc'[p] = "spend" BY DEF Reads
<1>3. "InvalidGrant" \in Replies /\ "purge" \in Labels BY DEF Replies, Labels
<1>4. ~Finish(p, "InvalidGrant") /\ ~Goto(p, "purge")
  BY <1>2, <1>3, GotoStep, FinishStep DEF Inv1
<1>5. ReadPoints = {lsn} BY DEF ReadPoints
<1>6. UNCHANGED <<codes, tokens, req>> BY <1>1, ActingFrame DEF Reads
<1>7. LookupCode(p) \/ LookupToken(p)
  <2>1. ~Crash(p)
    BY <1>2, FinishStep DEF Crash, Inv1, Replies
  <2> QED
    BY <1>2, <2>1 DEF RequestStep, Arrive, RejectMalformed, MayArrive, Handle,
       ClientNotFound, RegisterUser, InsertClient, AuthorizeClient, VerifyCredentials,
       IssueCode, AuthenticateClient, ClientCredentials, SpendCode, SpendToken,
       PurgeToken, FindUser, MintToken, RevokeToken
<1>8. CASE LookupCode(p)
  <2>1. PICK key : key = req[p].key OBVIOUS
  <2>2. /\ seen'[p].grant = key /\ ~Holds(codes[key].usedAt, lsn)
        /\ codes[key].expires >= clock
    BY <1>4, <1>5, <1>8, <2>1 DEF LookupCode, CodeRedeemable, Remember, Insert
  <2>3. key \in DOMAIN codes
    BY <1>1, <1>8, <2>1, StampTypes DEF LookupCode
  <2>4. codes[key].usedAt <= lsn BY <2>3 DEF Stamps, RowsStamped
  <2>5. codes[key].usedAt = Never BY <2>2, <2>4 DEF Holds
  <2> QED BY <1>1, <1>6, <2>1, <2>2, <2>3, <2>5 DEF Redeemable
<1>9. CASE LookupToken(p)
  <2>1. PICK key : key = req[p].key OBVIOUS
  <2>2. /\ seen'[p].grant = tokens[key].grant /\ ~Holds(tokens[key].deletedAt, lsn)
        /\ tokens[key].expires >= clock /\ req[p].kind = "refresh_token"
    BY <1>4, <1>5, <1>9, <2>1 DEF LookupToken, TokenVisible, Remember, Insert
  <2>3. key \in DOMAIN tokens
    BY <1>1, <1>9, <2>1, StampTypes DEF LookupToken
  <2>4. tokens[key].deletedAt <= lsn BY <2>3 DEF Stamps, RowsStamped
  <2>5. Usable(key) BY <2>2, <2>4 DEF Holds, Usable, Live
  <2> QED BY <1>1, <1>6, <2>1, <2>2, <2>3, <2>5
<1> QED BY <1>7, <1>8, <1>9

(* What was over stays so, and what cannot be used stays so.               *)
LEMMA GrantsOnlyAge ==
    ASSUME Inv1, NEW p \in Requests, RequestStep(p) \/ Surroundings
    PROVE  /\ \A k \in DOMAIN codes :
                 k \in DOMAIN codes' /\ (~Redeemable(k) => ~Redeemable(k)')
           /\ \A t \in DOMAIN tokens :
                 /\ t \in DOMAIN tokens' /\ tokens'[t].grant = tokens[t].grant
                 /\ Usable(t)' => Usable(t)
<1>1. clock \in Nat BY DEF Inv1, TypeOK
<1>2. /\ \A k \in DOMAIN codes : codes[k].expires \in Nat
      /\ \A t \in DOMAIN tokens : tokens[t].expires \in Nat
  BY DEF Inv1, TypeOK, IsTable, CodeRow, TokenRow
<1>3. CASE RequestStep(p)
  <2>1. clock' = clock BY <1>3, RowsKept
  <2>2. ASSUME NEW k \in DOMAIN codes
        PROVE  k \in DOMAIN codes' /\ (~Redeemable(k) => ~Redeemable(k)')
    BY <1>3, <2>1, RowsKept DEF CodeKept, Redeemable
  <2>3. ASSUME NEW t \in DOMAIN tokens
        PROVE  /\ t \in DOMAIN tokens' /\ tokens'[t].grant = tokens[t].grant
               /\ Usable(t)' => Usable(t)
    <3>1. TokenKept(t) BY <1>3, RowsKept
    <3>2. t \in DOMAIN tokens' /\ tokens'[t].grant = tokens[t].grant
      BY <1>3, ActingFrame DEF Frame, TokensGrow
    <3> QED BY <2>1, <3>1, <3>2 DEF TokenKept, Usable, Live
  <2> QED BY <2>2, <2>3
<1>4. CASE Surroundings
  <2>1. UNCHANGED <<codes, tokens>> /\ clock' \in Nat /\ clock' >= clock
    BY <1>4, Inv1Typed, SurroundingsStep DEF tables
  <2> QED BY <1>1, <1>2, <2>1 DEF Redeemable, Usable, Live
<1> QED BY <1>3, <1>4

(* What a step does to the history.                                        *)
LEMMA HistorySteps ==
    ASSUME HistoryOK, [AccessNext]_accessVars, NEW k \in Requests
    PROVE  \/ /\ over'[k] = clock' /\ heirs'[k] = UnderWay(k)'
              /\ k \in DOMAIN codes /\ ~SessionOpen(k)'
           \/ /\ over'[k] = over[k] /\ heirs[k] \subseteq heirs'[k]
              /\ \A p \in DOMAIN seen' :
                    \/ UNCHANGED vars
                    \/ seen'[p].grant = k /\ req'[p].kind = "refresh_token"
                          /\ req'[p].key \in heirs[k] => p \in heirs'[k]
<1>1. CASE UNCHANGED <<over, heirs, vars>> BY <1>1
<1>2. CASE NoteSessions
  <2>1. PICK ended : ended = {c \in DOMAIN codes : SessionOpen(c) /\ ~SessionOpen(c)'}
    OBVIOUS
  <2>2. /\ over'[k] = IF k \in ended THEN clock' ELSE over[k]
        /\ heirs'[k] = IF k \in ended THEN UnderWay(k)'
                       ELSE heirs[k] \cup {p \in DOMAIN seen' :
                              /\ seen'[p].grant = k /\ req'[p].kind = "refresh_token"
                              /\ req'[p].key \in heirs[k]}
    BY <1>2, <2>1 DEF NoteSessions
  <2> QED BY <2>1, <2>2
<1>3. CASE UNCHANGED accessVars BY <1>1, <1>3 DEF accessVars, vars
<1>4. NoteSessions \/ UNCHANGED <<over, heirs, vars>> \/ UNCHANGED accessVars
  BY DEF AccessNext, Call
<1> QED BY <1>1, <1>2, <1>3, <1>4

LEMMA HistoryKept ==
    ASSUME Inv1, Stamps, Replicas = {}, ClockOK, HistoryOK, [AccessNext]_accessVars
    PROVE  HistoryOK'
<1>1. [Next]_vars BY AccessSteps
<1>2. clock' \in Nat BY <1>1, ClockKept DEF ClockOK
<1>3. over' \in [Requests -> Nat] /\ DOMAIN heirs' = Requests
  BY <1>2 DEF HistoryOK, AccessNext, accessVars, NoteSessions, Call
<1>4. ASSUME NEW k \in Requests PROVE OverOK(k)'
  <2>1. CASE /\ over'[k] = clock' /\ heirs'[k] = UnderWay(k)'
             /\ k \in DOMAIN codes /\ ~SessionOpen(k)'
    <3>1. k \in DOMAIN codes'
      <4>1. CASE UNCHANGED codes BY <2>1, <4>1
      <4>2. CASE \E p \in Requests : RequestStep(p) BY <2>1, <4>2, GrantsOnlyAge
      <4>3. CASE Surroundings BY <2>1, <4>3, Inv1Typed, SurroundingsStep DEF tables
      <4> QED BY <1>1, <4>2, <4>3, NextSteps DEF RequestStep
    <3> QED BY <2>1, <3>1 DEF OverOK, SessionOpen
  <2>2. CASE /\ over'[k] = over[k] /\ heirs[k] \subseteq heirs'[k]
             /\ \A p \in DOMAIN seen' :
                   \/ UNCHANGED vars
                   \/ seen'[p].grant = k /\ req'[p].kind = "refresh_token"
                         /\ req'[p].key \in heirs[k] => p \in heirs'[k]
    <3> SUFFICES ASSUME over[k] # NotYet
                 PROVE  /\ k \in DOMAIN codes' /\ ~Redeemable(k)'
                        /\ \A t \in DOMAIN tokens' :
                              tokens'[t].grant = k /\ Usable(t)' => t \in heirs[k]
                        /\ UnderWay(k)' \subseteq heirs'[k]
      BY <2>2 DEF OverOK, NotYet
    <3>1. OverOK(k) BY DEF HistoryOK
    <3>2. k \in DOMAIN codes /\ ~Redeemable(k) BY <3>1 DEF OverOK
    <3>3. \A t \in DOMAIN tokens : tokens[t].grant = k /\ Usable(t) => t \in heirs[k]
      BY <3>1 DEF OverOK
    <3>4. UnderWay(k) \subseteq heirs[k] BY <3>1 DEF OverOK
    <3>5. CASE Surroundings
      <4>1. UNCHANGED <<codes, tokens, seen, pc>>
        BY <3>5, Inv1Typed, SurroundingsStep DEF tables, local
      <4>2. UnderWay(k)' = UnderWay(k) BY <4>1 DEF UnderWay, InFlight
      <4>3. PICK p \in Requests : TRUE OBVIOUS
      <4>4. ~Redeemable(k)' BY <3>2, <3>5, <4>3, GrantsOnlyAge
      <4>5. \A t \in DOMAIN tokens : Usable(t)' => Usable(t) BY <3>5, <4>3, GrantsOnlyAge
      <4> QED BY <2>2, <3>2, <3>3, <3>4, <4>1, <4>2, <4>4, <4>5
    <3>6. ASSUME NEW p \in Requests, RequestStep(p)
          PROVE  /\ k \in DOMAIN codes' /\ ~Redeemable(k)'
                 /\ \A t \in DOMAIN tokens' :
                       tokens'[t].grant = k /\ Usable(t)' => t \in heirs[k]
                 /\ UnderWay(k)' \subseteq heirs'[k]
      <4>1. Frame(p) /\ Inv1' /\ p \notin DOMAIN tokens /\ pc[p] # "done"
        BY <3>6, ActingFrame
      <4>2. k \in DOMAIN codes' /\ ~Redeemable(k)' BY <3>2, <3>6, GrantsOnlyAge
      <4>3. ASSUME NEW t \in DOMAIN tokens', tokens'[t].grant = k, Usable(t)'
            PROVE  t \in heirs[k]
        <5>1. CASE t \in DOMAIN tokens BY <3>3, <3>6, <4>3, <5>1, GrantsOnlyAge
        <5>2. CASE t \notin DOMAIN tokens
          <6>1. t = p BY <4>1, <5>2 DEF Frame, TokensGrow
          <6>2. Mints(p)
            BY <3>6, <5>2, Inv1Typed, StepKinds
            DEF RequestStep, Quiet, Issues, Reads, Spends, DeleteToken
          <6>3. p \in DOMAIN seen /\ seen[p].grant = k /\ pc[p] = "mint"
            BY <4>3, <6>1, <6>2 DEF Mints, Insert
          <6>4. p \in UnderWay(k) BY <6>3 DEF UnderWay, InFlight
          <6> QED BY <3>4, <6>1, <6>4
        <5> QED BY <5>1, <5>2
      <4>4. ASSUME NEW q \in UnderWay(k)' PROVE q \in heirs'[k]
        <5>1. q \in DOMAIN seen' /\ seen'[q].grant = k /\ InFlight(q)'
          BY <4>4 DEF UnderWay
        <5>2. CASE q = p /\ Reads(p)
          <6>1. /\ p \in DOMAIN req /\ UNCHANGED <<codes, tokens, req>>
                /\ \/ /\ seen'[p].grant = req[p].key
                      /\ req[p].key \in DOMAIN codes /\ Redeemable(req[p].key)
                   \/ /\ req[p].kind = "refresh_token"
                      /\ req[p].key \in DOMAIN tokens /\ Usable(req[p].key)
                      /\ seen'[p].grant = tokens[req[p].key].grant
            BY <3>6, <5>2, LookupNeedsGrant
          <6>2. /\ req[p].kind = "refresh_token"
                /\ req[p].key \in DOMAIN tokens /\ Usable(req[p].key)
                /\ k = tokens[req[p].key].grant
            BY <3>2, <5>1, <5>2, <6>1
          <6>3. req[p].key \in heirs[k] BY <3>3, <6>2
          <6>4. ~UNCHANGED vars BY <5>2 DEF Reads, vars
          <6> QED BY <2>2, <5>1, <5>2, <6>1, <6>2, <6>3, <6>4
        <5>3. CASE ~(q = p /\ Reads(p))
          <6>1. q \in DOMAIN seen /\ seen'[q] = seen[q]
            BY <3>6, <4>1, <5>1, <5>3, SeenKept DEF Frame, GrowsBy
          <6>2. q \in Requests BY <6>1 DEF Inv1, TypeOK, IsTable
          <6>3. InFlight(q)
            <7>1. CASE q = p
              <8>1. pc[p] # "new" BY <6>1, <7>1 DEF Inv1, Control, RequestOK, SeenOK
              <8> QED BY <4>1, <7>1, <8>1 DEF InFlight
            <7>2. CASE q # p BY <4>1, <5>1, <6>2, <7>2 DEF Frame, InFlight
            <7> QED BY <7>1, <7>2
          <6>4. q \in UnderWay(k) BY <5>1, <6>1, <6>3 DEF UnderWay
          <6> QED BY <2>2, <3>4, <6>4
        <5> QED BY <5>2, <5>3
      <4> QED BY <4>2, <4>3, <4>4
    <3> QED BY <1>1, <3>5, <3>6, NextSteps DEF RequestStep
  <2> QED BY <2>1, <2>2, HistorySteps
<1> QED BY <1>3, <1>4 DEF HistoryOK

LEMMA SeenGrants ==
    ASSUME Inv1
    PROVE  \A q \in DOMAIN seen : q \in Requests /\ seen[q].grant \in Requests
<1>1. DOMAIN seen \subseteq Requests /\ seen \in [DOMAIN seen -> SeenRow]
  BY DEF Inv1, TypeOK, IsTable
<1> QED BY <1>1 DEF SeenRow

LEMMA SumBounds == \A a, b \in Nat : \A x : x = a + b => x <= a + b
OBVIOUS

LEMMA SignedKept ==
    ASSUME BaseInv, Replicas = {}, SessionEnds, [AccessNext]_accessVars,
           NEW t \in DOMAIN access'
    PROVE  SignedOK(t)'
<1>1. [Next]_vars BY AccessSteps
<1>2. Inv1 /\ Stamps /\ ClockOK /\ HistoryOK BY DEF BaseInv, IInv, SessionEnds
<1>3. ClockOK' /\ clock' >= clock BY <1>1, <1>2, ClockKept
<1>4. HistoryOK' BY <1>2, HistoryKept
<1>5. \A q \in DOMAIN seen : q \in Requests /\ seen[q].grant \in Requests
  BY <1>2, SeenGrants
<1>6. /\ AccessTTL \in Nat /\ clock \in Nat /\ clock' \in Nat
      /\ over \in [Requests -> Nat] /\ over' \in [Requests -> Nat]
      /\ clock <= MaxTime /\ MaxTime \in Nat /\ NotYet = MaxTime + 1
  BY <1>2, <1>3, <1>4, OAuthAssumption DEF ClockOK, HistoryOK, NotYet
<1>7. \A k \in Requests : \/ over'[k] = clock'
                          \/ over'[k] = over[k] /\ heirs[k] \subseteq heirs'[k]
  BY <1>2, HistorySteps
<1>8. CASE t \in DOMAIN access /\ access'[t] = access[t]
           /\ UNCHANGED req[t] /\ (ForUser(t) => UNCHANGED seen[t])
  <2>1. SignedOK(t) BY <1>8 DEF SessionEnds
  <2>2. access[t].exp \in Nat BY <1>2, <1>8 DEF Inv1, TypeOK, IsTable, Claims
  <2>3. access'[t].exp <= clock' + AccessTTL
    BY <1>3, <1>6, <1>8, <2>1, <2>2 DEF SignedOK
  <2>4. ASSUME ForUser(t)'
        PROVE  \/ t \in heirs'[seen'[t].grant]
               \/ access'[t].exp <= over'[seen'[t].grant] + AccessTTL
    <3>1. ForUser(t) /\ UNCHANGED seen[t] BY <1>8, <2>4 DEF ForUser
    <3>2. t \in DOMAIN seen
      BY <1>2, <1>8, <3>1 DEF BaseInv, Provenance, Checks, ChecksOK, ClaimsOK,
         Inv1, TypeOK, IsTable
    <3>3. PICK k \in Requests : k = seen[t].grant BY <1>5, <3>2
    <3>4. t \in heirs[k] \/ access[t].exp <= over[k] + AccessTTL
      BY <2>1, <3>1, <3>3 DEF SignedOK
    <3>5. CASE over'[k] = clock' BY <1>8, <2>3, <3>1, <3>3, <3>5
    <3>6. CASE over'[k] = over[k] /\ heirs[k] \subseteq heirs'[k]
      BY <1>8, <3>1, <3>3, <3>4, <3>6
    <3> QED BY <1>7, <3>5, <3>6
  <2> QED BY <2>3, <2>4 DEF SignedOK
<1>9. ASSUME NEW p \in Requests, RequestStep(p) PROVE SignedOK(t)'
  <2>1. Frame(p) /\ pc[p] # "done"
        /\ \A q \in DOMAIN req : q \in DOMAIN req' /\ req'[q] = req[q]
    BY <1>2, <1>9, ActingFrame
  <2>2. CASE t \in DOMAIN access
    <3>1. /\ t \in Requests /\ pc[t] = "done" /\ t \in DOMAIN req
          /\ (ForUser(t) => t \in DOMAIN seen)
      BY <1>2, <2>2 DEF BaseInv, Provenance, Checks, ChecksOK, ClaimsOK, SecretOK,
         Inv1, TypeOK, IsTable
    <3>2. access'[t] = access[t] /\ req'[t] = req[t]
          /\ (ForUser(t) => seen'[t] = seen[t])
      BY <2>1, <2>2, <3>1 DEF Frame, GrowsBy
    <3> QED BY <1>8, <2>2, <3>2
  <2>3. CASE t \notin DOMAIN access
    <3>1. access' # access /\ t = p BY <2>1, <2>3 DEF Frame, GrowsBy
    <3>2. /\ clock' = clock /\ UNCHANGED <<req, seen>>
          /\ \/ /\ req[p].kind = "client_credentials"
                /\ GrantAccess(p, req[p].client, req[p].scopes)
             \/ /\ pc[p] = "mint" /\ p \in DOMAIN seen
                /\ GrantAccess(p, seen[p].user, seen[p].scopes)
      BY <1>2, <1>9, <3>1, AccessSigned
    <3>3. access'[t].exp = clock' + AccessTTL
      BY <3>1, <3>2 DEF GrantAccess, Insert
    <3>4. ASSUME ForUser(t)'
          PROVE  \/ t \in heirs'[seen'[t].grant]
                 \/ access'[t].exp <= over'[seen'[t].grant] + AccessTTL
      <4>1. pc[p] = "mint" /\ p \in DOMAIN seen
        BY <3>1, <3>2, <3>4 DEF ForUser
      <4>2. PICK k \in Requests : k = seen[p].grant BY <1>5, <4>1
      <4>3. seen'[t].grant = k BY <3>1, <3>2, <4>2
      <4>4. p \in UnderWay(k) BY <4>1, <4>2 DEF UnderWay, InFlight
      <4>5. over[k] # NotYet => p \in heirs[k] BY <1>2, <4>4 DEF HistoryOK, OverOK
      <4>6. over'[k] >= clock' \/ p \in heirs'[k]
        <5>1. CASE over'[k] = clock' BY <1>6, <5>1
        <5>2. CASE over'[k] = over[k] /\ heirs[k] \subseteq heirs'[k] /\ over[k] = NotYet
          BY <1>6, <3>2, <5>2
        <5>3. CASE over'[k] = over[k] /\ heirs[k] \subseteq heirs'[k] /\ over[k] # NotYet
          BY <4>5, <5>3
        <5> QED BY <1>7, <5>1, <5>2, <5>3
      <4> QED BY <1>6, <3>1, <3>3, <4>3, <4>6
    <3>5. access'[t].exp <= clock' + AccessTTL BY <1>6, <3>3, SumBounds
    <3> QED BY <3>4, <3>5 DEF SignedOK
  <2> QED BY <2>2, <2>3
<1>10. CASE Surroundings
  <2>1. UNCHANGED <<req, seen, access>>
    BY <1>2, <1>10, Inv1Typed, SurroundingsStep DEF local
  <2> QED BY <1>8, <2>1
<1> QED BY <1>1, <1>9, <1>10, NextSteps DEF RequestStep

LEMMA InitSessionEnds == AccessInit => SessionEnds
<1> SUFFICES ASSUME AccessInit PROVE SessionEnds
  OBVIOUS
<1>1. DOMAIN access = {} /\ clock = 0 BY EmptyIsTable DEF AccessInit, Init
<1>2. \A k \in Requests : over[k] = NotYet BY DEF AccessInit
<1>3. over \in [Requests -> Nat] BY OAuthAssumption DEF AccessInit, NotYet
<1>4. DOMAIN heirs = Requests BY DEF AccessInit
<1>5. HistoryOK BY <1>2, <1>3, <1>4 DEF HistoryOK, OverOK
<1> QED BY <1>1, <1>5, OAuthAssumption DEF SessionEnds, ClockOK

LEMMA StepKeepsSessionEnds ==
    BaseInv /\ SessionEnds /\ [AccessNext]_accessVars => SessionEnds'
<1> SUFFICES ASSUME BaseInv, SessionEnds, [AccessNext]_accessVars, Replicas = {}
             PROVE  (ClockOK /\ HistoryOK /\ \A t \in DOMAIN access : SignedOK(t))'
  BY DEF SessionEnds
<1>1. Inv1 /\ Stamps /\ ClockOK /\ HistoryOK BY DEF BaseInv, IInv, SessionEnds
<1>2. ClockOK' BY <1>1, AccessSteps, ClockKept
<1>3. HistoryOK' BY <1>1, HistoryKept
<1>4. \A t \in DOMAIN access' : SignedOK(t)' BY SignedKept
<1> QED BY <1>2, <1>3, <1>4

(* With reads from the primary: after a session is over - its code spent   *)
(* or expired, its refresh tokens revoked, spent or expired - user-service *)
(* (extract_user) lets nobody in on it for longer than one access token    *)
(* lives, plus the leeway of Validation::default().  The exceptions are    *)
(* the requests that had read a code or token of it before (find_by_code,  *)
(* find_by_token) and store a new token afterwards, and those that use     *)
(* that token.                                                             *)
THEOREM AccessEnds == AccessSpec => []AccessEndsAfterSession
<1>1. CallInv /\ SessionEnds => AccessEndsAfterSession
  <2> SUFFICES ASSUME CallInv, SessionEnds, Replicas = {}, Served, ForUser(call.token)
               PROVE  LET k == seen[call.token].grant IN
                      call.token \in heirs[k] \/ clock <= over[k] + AccessTTL + Leeway
    BY DEF AccessEndsAfterSession
  <2>1. PICK t : t = call.token OBVIOUS
  <2>2. t \in DOMAIN access /\ clock <= access[t].exp + Leeway
    BY <2>1 DEF CallInv, CallOK
  <2>3. t \in Requests /\ t \in DOMAIN seen /\ access[t].exp \in Nat
    BY <2>1, <2>2 DEF CallInv, BaseInv, IInv, Inv1, TypeOK, IsTable, Claims,
       Provenance, Checks, ChecksOK, ClaimsOK
  <2>4. PICK k \in Requests : k = seen[t].grant
    BY <2>3, SeenGrants DEF CallInv, BaseInv, IInv
  <2>5. t \in heirs[k] \/ access[t].exp <= over[k] + AccessTTL
    BY <2>1, <2>2, <2>4 DEF SessionEnds, SignedOK
  <2>6. over[k] \in Nat /\ clock \in Nat /\ AccessTTL \in Nat /\ Leeway \in Nat
    BY OAuthAssumption, AccessAssumption DEF SessionEnds, HistoryOK, ClockOK
  <2>7. t \in heirs[k] \/ clock <= over[k] + AccessTTL + Leeway
    BY <2>2, <2>3, <2>5, <2>6
  <2> QED BY <2>1, <2>4, <2>7
<1>2. AccessInit => SessionEnds BY InitSessionEnds
<1>3. SessionEnds /\ CallInv /\ [AccessNext]_accessVars => SessionEnds'
  BY StepKeepsSessionEnds DEF CallInv
<1> QED BY <1>1, <1>2, <1>3, CallInvariant, PTL DEF AccessSpec
=============================================================================
