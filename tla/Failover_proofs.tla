--------------------------- MODULE Failover_proofs ---------------------------
(***************************************************************************)
(* What a failover that loses the end of the log can cost, for any sets of *)
(* requests, users, clients and scopes, any number of failovers and        *)
(* however many statements each one loses.  References does not survive a  *)
(* failover (the row of a code that a caller holds may be gone), so the    *)
(* invariants are built over Typed alone: Names says which requests made   *)
(* the codes and tokens that others name, Registrations that the rows of   *)
(* clients are as they were registered, Permitted that no scope is wider   *)
(* than the registration, whether its row is left or not, ReplayBound and  *)
(* ForkBound count what the failovers gave back.                           *)
(***************************************************************************)
EXTENDS OAuthService_proofs, Failover, FiniteSetTheorems

(***************************************************************************)
(* The steps of FailoverSpec                                               *)
(***************************************************************************)
Promotion == \E n \in Seeded .. lsn - 1 : Promote(n)

LEMMA FailoverSteps ==
    ASSUME [FailoverNext]_vars
    PROVE  Surroundings \/ Promotion \/ \E p \in Requests : RequestStep(p)
BY NextSteps DEF FailoverNext, Promotion, Surroundings, RequestStep

(* What a promotion at position n leaves of the tables.                    *)
LEMMA PromoteStep ==
    ASSUME Typed, NEW n \in Seeded .. lsn - 1, Promote(n)
    PROVE  /\ n \in Nat \ {Never} /\ n < lsn /\ lsn \in Nat
           /\ lsn' = n /\ timeline' = timeline + 1 /\ timeline \in Nat
           /\ UNCHANGED <<clock, clientCache, pc, req, local, reply, access>>
           /\ IsTable(users', Users, UserRow) /\ IsTable(clients', ClientIds, ClientRow)
           /\ DOMAIN clients' \subseteq DOMAIN clients
           /\ \A c \in DOMAIN clients' : clients'[c] = clients[c]
           /\ DOMAIN codes' = {k \in DOMAIN codes : codes[k].at <= n}
           /\ \A k \in DOMAIN codes' :
                 /\ codes'[k] \in CodeRow /\ SameConsent(codes[k], codes'[k])
                 /\ codes'[k].at = codes[k].at
                 /\ codes'[k].usedAt = Undo(codes[k].usedAt, n)
           /\ DOMAIN tokens' = {t \in DOMAIN tokens : tokens[t].at <= n}
           /\ \A t \in DOMAIN tokens' :
                 /\ tokens'[t] \in TokenRow /\ SameConsent(tokens[t], tokens'[t])
                 /\ tokens'[t].at = tokens[t].at /\ tokens'[t].grant = tokens[t].grant
                 /\ tokens'[t].deletedAt = Undo(tokens[t].deletedAt, n)
           /\ IsTable(codes', Requests, CodeRow) /\ IsTable(tokens', Requests, TokenRow)
<1>1. lsn \in Nat /\ timeline \in Nat BY DEF Typed, TypeOK, DbTypeOK
<1>2. n \in Nat \ {Never} /\ n < lsn BY <1>1 DEF Seeded, Never
<1>3. codes \in [DOMAIN codes -> CodeRow] /\ tokens \in [DOMAIN tokens -> TokenRow]
  BY DEF Typed, TypeOK, IsTable
<1>4. \A stamp \in Nat : Undo(stamp, n) \in Nat BY DEF Undo, Never
<1>5. \A row \in CodeRow :
         LET new == [row EXCEPT !.usedAt = Undo(@, n)] IN
         /\ new \in CodeRow /\ SameConsent(row, new)
         /\ new.at = row.at /\ new.usedAt = Undo(row.usedAt, n)
  BY <1>4 DEF CodeRow, SameConsent
<1>6. \A row \in TokenRow :
         LET new == [row EXCEPT !.deletedAt = Undo(@, n)] IN
         /\ new \in TokenRow /\ SameConsent(row, new)
         /\ new.at = row.at /\ new.grant = row.grant
         /\ new.deletedAt = Undo(row.deletedAt, n)
  BY <1>4 DEF TokenRow, SameConsent
<1>7. /\ DOMAIN codes' = Surviving(codes, n)
      /\ \A k \in DOMAIN codes' : codes'[k] = [codes[k] EXCEPT !.usedAt = Undo(@, n)]
  BY DEF Promote
<1>8. /\ DOMAIN tokens' = Surviving(tokens, n)
      /\ \A t \in DOMAIN tokens' : tokens'[t] = [tokens[t] EXCEPT !.deletedAt = Undo(@, n)]
  BY DEF Promote
<1>9. \A k \in DOMAIN codes' :
         /\ codes'[k] \in CodeRow /\ SameConsent(codes[k], codes'[k])
         /\ codes'[k].at = codes[k].at
         /\ codes'[k].usedAt = Undo(codes[k].usedAt, n)
  <2> SUFFICES ASSUME NEW k \in DOMAIN codes'
               PROVE  /\ codes'[k] \in CodeRow /\ SameConsent(codes[k], codes'[k])
                      /\ codes'[k].at = codes[k].at
                      /\ codes'[k].usedAt = Undo(codes[k].usedAt, n)
    OBVIOUS
  <2>1. codes[k] \in CodeRow BY <1>3, <1>7 DEF Surviving
  <2>2. codes'[k] = [codes[k] EXCEPT !.usedAt = Undo(@, n)] BY <1>7
  <2> QED BY <1>5, <2>1, <2>2
<1>10. \A t \in DOMAIN tokens' :
         /\ tokens'[t] \in TokenRow /\ SameConsent(tokens[t], tokens'[t])
         /\ tokens'[t].at = tokens[t].at /\ tokens'[t].grant = tokens[t].grant
         /\ tokens'[t].deletedAt = Undo(tokens[t].deletedAt, n)
  <2> SUFFICES ASSUME NEW t \in DOMAIN tokens'
               PROVE  /\ tokens'[t] \in TokenRow /\ SameConsent(tokens[t], tokens'[t])
                      /\ tokens'[t].at = tokens[t].at /\ tokens'[t].grant = tokens[t].grant
                      /\ tokens'[t].deletedAt = Undo(tokens[t].deletedAt, n)
    OBVIOUS
  <2>1. tokens[t] \in TokenRow BY <1>3, <1>8 DEF Surviving
  <2>2. tokens'[t] = [tokens[t] EXCEPT !.deletedAt = Undo(@, n)] BY <1>8
  <2> QED BY <1>6, <2>1, <2>2
<1>11. IsTable(codes', Requests, CodeRow)
  <2> DEFINE new(k) == [codes[k] EXCEPT !.usedAt = Undo(@, n)]
  <2>1. codes' = [k \in Surviving(codes, n) |-> new(k)] BY DEF Promote
  <2>2. \A k \in Surviving(codes, n) : new(k) \in CodeRow BY <1>7, <1>9
  <2>3. Surviving(codes, n) \subseteq Requests BY DEF Surviving, Typed, TypeOK, IsTable
  <2> HIDE DEF new
  <2> QED BY <2>1, <2>2, <2>3 DEF IsTable
<1>12. IsTable(tokens', Requests, TokenRow)
  <2> DEFINE new(t) == [tokens[t] EXCEPT !.deletedAt = Undo(@, n)]
  <2>1. tokens' = [t \in Surviving(tokens, n) |-> new(t)] BY DEF Promote
  <2>2. \A t \in Surviving(tokens, n) : new(t) \in TokenRow BY <1>8, <1>10
  <2>3. Surviving(tokens, n) \subseteq Requests BY DEF Surviving, Typed, TypeOK, IsTable
  <2> HIDE DEF new
  <2> QED BY <2>1, <2>2, <2>3 DEF IsTable
<1>13. IsTable(users', Users, UserRow)
  <2>1. IsTable(users, Users, UserRow) BY DEF Typed, TypeOK
  <2> QED BY <2>1 DEF Promote, Surviving, IsTable
<1>14. /\ IsTable(clients', ClientIds, ClientRow)
       /\ DOMAIN clients' \subseteq DOMAIN clients
       /\ \A c \in DOMAIN clients' : clients'[c] = clients[c]
  <2>1. IsTable(clients, ClientIds, ClientRow) BY DEF Typed, TypeOK
  <2> QED BY <2>1 DEF Promote, Surviving, IsTable
<1> QED
  BY <1>1, <1>2, <1>7, <1>8, <1>9, <1>10, <1>11, <1>12, <1>13, <1>14
  DEF Promote, Surviving

LEMMA PromoteTyped == ASSUME Typed, NEW n \in Seeded .. lsn - 1, Promote(n) PROVE Typed'
<1>1. DbTypeOK'
  <2>1. applied \in [Replicas -> 1 .. lsn] /\ lsn \in Nat /\ timeline \in Nat
    BY DEF Typed, TypeOK, DbTypeOK
  <2>2. applied' = [r \in Replicas |-> IF applied[r] > n THEN n ELSE applied[r]]
    BY DEF Promote
  <2>3. lsn' = n /\ n \in Nat \ {Never} /\ timeline' \in Nat
    BY <2>1 DEF Promote, Seeded, Never
  <2>4. \A r \in Replicas : (IF applied[r] > n THEN n ELSE applied[r]) \in 1 .. n
    BY <2>1, <2>3 DEF Never
  <2>5. applied' \in [Replicas -> 1 .. lsn'] BY <2>2, <2>3, <2>4
  <2> QED BY <2>3, <2>5 DEF DbTypeOK
<1>2. TypeOK' BY <1>1, PromoteStep DEF Typed, TypeOK, local
<1>3. Control'
  <2>1. UNCHANGED <<pc, req, reply, local>>
    BY DEF Promote
  <2>2. /\ DOMAIN clients' \subseteq DOMAIN clients
        /\ DOMAIN codes' \subseteq DOMAIN codes /\ DOMAIN tokens' \subseteq DOMAIN tokens
    BY DEF Promote, Surviving
  <2>3. ASSUME NEW p \in Requests PROVE RequestOK(p)'
    <3>1. LabelOK(p) /\ SeenOK(p) /\ RowsOK(p)
      BY DEF Typed, Control, RequestOK
    <3>2. LabelOK(p)'
      BY <2>1, <3>1 DEF LabelOK, InFlight, local
    <3>3. SeenOK(p)'
      BY <2>1, <3>1 DEF SeenOK, local
    <3>4. RowsOK(p)'
      BY <2>1, <2>2, <3>1 DEF RowsOK, local
    <3> QED BY <3>2, <3>3, <3>4 DEF RequestOK
  <2> QED BY <2>3 DEF Control
<1> QED BY <1>2, <1>3 DEF Typed

LEMMA StepKeepsTypedToo == Typed /\ [FailoverNext]_vars => Typed'
<1> SUFFICES ASSUME Typed, [FailoverNext]_vars PROVE Typed'
  OBVIOUS
<1>1. CASE Surroundings BY <1>1, SurroundingsTyped
<1>2. CASE Promotion BY <1>2, PromoteTyped DEF Promotion
<1>3. CASE \E p \in Requests : RequestStep(p) BY <1>3, HandleTyped DEF RequestStep
<1> QED BY <1>1, <1>2, <1>3, FailoverSteps

(***************************************************************************)
(* What a step of request p does to the rows                               *)
(***************************************************************************)
LEMMA RowsAfter ==
    ASSUME Typed, NEW p \in Requests, RequestStep(p)
    PROVE  /\ lsn \in Nat \ {Never} /\ lsn' \in {lsn, lsn + 1} /\ timeline' = timeline
           /\ lsn' = lsn => UNCHANGED <<codes, tokens>>
           /\ DOMAIN codes \subseteq DOMAIN codes'
           /\ \A k \in DOMAIN codes :
                 /\ SameConsent(codes[k], codes'[k]) /\ codes'[k].at = codes[k].at
                 /\ Stamped(codes[k].usedAt, codes'[k].usedAt)
           /\ \A k \in DOMAIN codes' \ DOMAIN codes :
                 k = p /\ Issues(p) /\ codes'[k].at = lsn + 1
           /\ DOMAIN tokens \subseteq DOMAIN tokens'
           /\ \A t \in DOMAIN tokens :
                 /\ SameConsent(tokens[t], tokens'[t]) /\ tokens'[t].at = tokens[t].at
                 /\ tokens'[t].grant = tokens[t].grant
                 /\ Stamped(tokens[t].deletedAt, tokens'[t].deletedAt)
           /\ \A t \in DOMAIN tokens' \ DOMAIN tokens :
                 /\ t = p /\ Mints(p)
                 /\ tokens'[t].at = lsn + 1 /\ tokens'[t].grant = seen[p].grant
<1>1. Frame(p) BY HandleTyped DEF RequestStep
<1>2. Quiet(p) \/ Issues(p) \/ Mints(p) \/ Spends(p) \/ Reads(p)
  BY StepKinds DEF RequestStep
<1>3. p \notin DOMAIN codes /\ p \notin DOMAIN tokens BY ActingTyped
<1>4. lsn \in Nat \ {Never} BY DEF Typed, TypeOK, DbTypeOK
<1>5. lsn' = lsn => UNCHANGED <<codes, tokens>>
  BY <1>2, <1>4, CommitStep
  DEF Quiet, Issues, Mints, Stores, Spends, Reads, MarkUsed, DeleteToken
<1>6. ASSUME NEW k \in DOMAIN codes' \ DOMAIN codes
      PROVE  k = p /\ Issues(p) /\ codes'[k].at = lsn + 1
  <2>1. k = p BY <1>1 DEF Frame, CodesGrow
  <2>2. DOMAIN codes' # DOMAIN codes OBVIOUS
  <2>3. Issues(p) BY <1>2, <2>2 DEF Quiet, Mints, Spends, Reads, MarkUsed
  <2> QED BY <2>1, <2>3 DEF Issues, Insert
<1>7. ASSUME NEW t \in DOMAIN tokens' \ DOMAIN tokens
      PROVE  /\ t = p /\ Mints(p)
             /\ tokens'[t].at = lsn + 1 /\ tokens'[t].grant = seen[p].grant
  <2>1. t = p BY <1>1 DEF Frame, TokensGrow
  <2>2. DOMAIN tokens' # DOMAIN tokens OBVIOUS
  <2>3. Mints(p) BY <1>2, <2>2 DEF Quiet, Issues, Spends, Reads, DeleteToken
  <2> QED BY <2>1, <2>3 DEF Mints, Insert
<1> QED BY <1>1, <1>3, <1>4, <1>5, <1>6, <1>7 DEF Frame, CodesGrow, TokensGrow

LEMMA RowTypes ==
    ASSUME Typed
    PROVE  /\ lsn \in Nat \ {Never} /\ timeline \in Nat
           /\ DOMAIN codes \subseteq Requests /\ DOMAIN tokens \subseteq Requests
           /\ DOMAIN req \subseteq Requests /\ DOMAIN seen \subseteq DOMAIN req
           /\ \A k \in DOMAIN codes : codes[k].at \in Nat /\ codes[k].usedAt \in Nat
           /\ \A t \in DOMAIN tokens :
                 /\ tokens[t].at \in Nat /\ tokens[t].deletedAt \in Nat
                 /\ tokens[t].grant \in Requests
           /\ \A p \in DOMAIN seen :
                 seen[p].grant \in Requests /\ req[p].kind \in TokenGrants
           /\ \A p \in DOMAIN req : req[p] \in Request
<1>1. /\ codes \in [DOMAIN codes -> CodeRow] /\ tokens \in [DOMAIN tokens -> TokenRow]
      /\ DOMAIN codes \subseteq Requests /\ DOMAIN tokens \subseteq Requests
      /\ seen \in [DOMAIN seen -> SeenRow] /\ DOMAIN seen \subseteq Requests
      /\ req \in [DOMAIN req -> Request] /\ DOMAIN req \subseteq Requests
      /\ lsn \in Nat \ {Never} /\ timeline \in Nat
  BY DEF Typed, TypeOK, IsTable, DbTypeOK
<1>2. \A p \in DOMAIN seen : p \in DOMAIN req /\ req[p].kind \in TokenGrants
  BY <1>1 DEF Typed, Control, RequestOK, SeenOK
<1> QED BY <1>1, <1>2 DEF CodeRow, TokenRow, SeenRow

(* No row is stamped beyond the log, not even the log that is cut.         *)
LEMMA RowsStampedKept ==
    ASSUME Typed, RowsStamped, [FailoverNext]_vars
    PROVE  RowsStamped'
<1>1. CASE Surroundings BY <1>1, SurroundingsStep DEF RowsStamped, tables
<1>2. CASE Promotion
  <2>1. PICK n \in Seeded .. lsn - 1 : Promote(n) BY <1>2 DEF Promotion
  <2>2. n \in Nat \ {Never} /\ lsn' = n BY <2>1, PromoteStep
  <2>3. \A stamp \in Nat : Undo(stamp, n) <= n BY <2>2 DEF Undo, Never
  <2>4. ASSUME NEW k \in DOMAIN codes' PROVE codes'[k].at <= n /\ codes'[k].usedAt <= n
    <3>1. /\ k \in DOMAIN codes /\ codes[k].at <= n /\ codes'[k].at = codes[k].at
          /\ codes'[k].usedAt = Undo(codes[k].usedAt, n)
      BY <2>1, PromoteStep
    <3>2. codes[k].usedAt \in Nat BY <3>1, RowTypes
    <3> QED BY <2>3, <3>1, <3>2
  <2>5. ASSUME NEW t \in DOMAIN tokens'
        PROVE  tokens'[t].at <= n /\ tokens'[t].deletedAt <= n
    <3>1. /\ t \in DOMAIN tokens /\ tokens[t].at <= n /\ tokens'[t].at = tokens[t].at
          /\ tokens'[t].deletedAt = Undo(tokens[t].deletedAt, n)
      BY <2>1, PromoteStep
    <3>2. tokens[t].deletedAt \in Nat BY <3>1, RowTypes
    <3> QED BY <2>3, <3>1, <3>2
  <2> QED BY <2>2, <2>4, <2>5 DEF RowsStamped
<1>3. CASE \E p \in Requests : RequestStep(p)
  <2>1. PICK p \in Requests : RequestStep(p) BY <1>3
  <2>2. ASSUME NEW k \in DOMAIN codes' PROVE codes'[k].at <= lsn' /\ codes'[k].usedAt <= lsn'
    <3>1. CASE k \in DOMAIN codes
      BY <2>1, <3>1, RowsAfter, RowTypes DEF RowsStamped, Stamped
    <3>2. CASE k \notin DOMAIN codes
      <4>1. k = p /\ Issues(p) /\ codes'[k].at = lsn + 1 BY <2>1, <3>2, RowsAfter
      <4>2. codes'[k].usedAt = Never BY <4>1 DEF Issues, Insert
      <4> QED BY <4>1, <4>2, RowTypes DEF Issues, Stores, Never
    <3> QED BY <3>1, <3>2
  <2>3. ASSUME NEW t \in DOMAIN tokens'
        PROVE  tokens'[t].at <= lsn' /\ tokens'[t].deletedAt <= lsn'
    <3>1. CASE t \in DOMAIN tokens
      BY <2>1, <3>1, RowsAfter, RowTypes DEF RowsStamped, Stamped
    <3>2. CASE t \notin DOMAIN tokens
      <4>1. t = p /\ Mints(p) /\ tokens'[t].at = lsn + 1 BY <2>1, <3>2, RowsAfter
      <4>2. tokens'[t].deletedAt = Never BY <4>1 DEF Mints, Insert
      <4> QED BY <4>1, <4>2, RowTypes DEF Mints, Stores, Never
    <3> QED BY <3>1, <3>2
  <2> QED BY <2>2, <2>3 DEF RowsStamped
<1> QED BY <1>1, <1>2, <1>3, FailoverSteps

(***************************************************************************)
(* Names: the code or token a request works on was made by a request that  *)
(* ended; Registrations: the row of a client, where it is left, says what  *)
(* its registration asked for, and a request names a client whose          *)
(* registration was answered; Permitted: no row, request or answer goes    *)
(* beyond the registration of its client.                                  *)
(***************************************************************************)
IsCode(k) == k \in DOMAIN req /\ req[k].kind = "authorize" /\ pc[k] = "done"
IsToken(t) == t \in DOMAIN req /\ req[t].kind \in TokenGrants /\ pc[t] = "done"

KeyKnown(p) == p \in DOMAIN req =>
    /\ req[p].kind = "authorization_code" => IsCode(req[p].key)
    /\ req[p].kind \in {"refresh_token", "revoke"} => IsToken(req[p].key)
SeenKnown(p) == p \in DOMAIN seen =>
    /\ IsCode(seen[p].grant)
    /\ req[p].kind = "authorization_code" => seen[p].grant = req[p].key
Names ==
    /\ \A p \in Requests : KeyKnown(p) /\ SeenKnown(p)
    /\ \A t \in DOMAIN tokens : IsCode(tokens[t].grant)

ClientKinds == KeyedKinds \cup {"authorize", "client_credentials"}
AsRegistered(c) ==
    IF c \in DOMAIN SeedClients THEN clients[c].scopes = SeedClients[c].scopes
    ELSE /\ c \in DOMAIN req /\ req[c].kind = "register_client"
         /\ clients[c].scopes = req[c].scopes
ClientKnown(p) ==
    p \in DOMAIN req /\ req[p].kind \in ClientKinds => req[p].client \in KnownClients
Registrations ==
    /\ \A c \in DOMAIN clients : AsRegistered(c)
    /\ \A p \in Requests : ClientKnown(p)

AskedWithin(p) == pc[p] \in {"credentials", "issue"} =>
    WithinRegistration(req[p].client, req[p].scopes)
Permitted ==
    /\ \A k \in DOMAIN codes : WithinRegistration(codes[k].client, codes[k].scopes)
    /\ \A t \in DOMAIN tokens : WithinRegistration(tokens[t].client, tokens[t].scopes)
    /\ \A p \in Requests : AskedWithin(p)
    /\ \A p \in DOMAIN seen : WithinRegistration(req[p].client, seen[p].scopes)
    /\ AccessWithinRegisteredScopes

Base == Typed /\ RowsStamped /\ Names /\ Registrations /\ Permitted

(* What the other requests keep, and when p changes what it holds.         *)
LEMMA RequestsAfter ==
    ASSUME Typed, NEW p \in Requests, RequestStep(p)
    PROVE  /\ pc[p] # "done"
           /\ \A q \in Requests \ {p} : pc'[q] = pc[q] /\ reply'[q] = reply[q]
           /\ DOMAIN req \subseteq DOMAIN req' /\ DOMAIN req' \subseteq DOMAIN req \cup {p}
           /\ \A q \in DOMAIN req : req'[q] = req[q]
           /\ DOMAIN seen \subseteq DOMAIN seen'
           /\ DOMAIN seen' \subseteq DOMAIN seen \cup {p}
           /\ \A q \in DOMAIN seen \ {p} : seen'[q] = seen[q]
           /\ ~Reads(p) => UNCHANGED seen
           /\ DOMAIN clients \subseteq DOMAIN clients'
           /\ \A c \in DOMAIN clients : clients'[c] = clients[c]
<1>1. Frame(p) BY HandleTyped DEF RequestStep
<1>2. /\ pc[p] # "done" /\ p \notin DOMAIN clients
      /\ p \in DOMAIN req => UNCHANGED req
  BY ActingTyped
<1>3. ~Reads(p) => UNCHANGED seen
  <2>1. Quiet(p) \/ Issues(p) \/ Mints(p) \/ Spends(p) \/ Reads(p)
    BY StepKinds DEF RequestStep
  <2> QED BY <2>1
      DEF Quiet, Issues, Mints, Stores, Spends, MarkUsed, DeleteToken, local
<1>4. \A q \in DOMAIN req : req'[q] = req[q] BY <1>1, <1>2 DEF Frame, GrowsBy
<1> QED BY <1>1, <1>2, <1>3, <1>4 DEF Frame, GrowsBy

LEMMA NamedKept ==
    ASSUME Typed, NEW p \in Requests, RequestStep(p), NEW k \in Requests
    PROVE  /\ IsCode(k) => IsCode(k)' /\ k # p
           /\ IsToken(k) => IsToken(k)' /\ k # p
BY RequestsAfter DEF IsCode, IsToken

(* A caller can only send a code or token that it was given.               *)
LEMMA InputsNamed ==
    ASSUME Typed, NEW r \in Inputs
    PROVE  /\ r.kind = "authorization_code" => IsCode(r.key)
           /\ r.kind \in {"refresh_token", "revoke"} => IsToken(r.key)
<1>1. \A k \in DOMAIN req : k \in Requests /\ (reply[k] = "ok" => pc[k] = "done")
  BY DEF Typed, TypeOK, IsTable, Control, RequestOK, LabelOK
<1>2. (\A k \in KnownCodes : IsCode(k)) /\ (\A t \in KnownTokens : IsToken(t))
  BY <1>1 DEF KnownCodes, KnownTokens, Answered, IsCode, IsToken, TokenGrants
<1>3. CASE r \in Register \cup RegisterClient \cup Authorize(KnownClients)
               \cup ClientGrant(KnownClients)
  BY <1>3 DEF Register, RegisterClient, Authorize, ClientGrant
<1>4. CASE r \in CodeGrant(KnownClients, KnownCodes)
  BY <1>2, <1>4 DEF CodeGrant
<1>5. CASE r \in RefreshGrant(KnownClients, KnownTokens)
  BY <1>2, <1>5 DEF RefreshGrant
<1>6. CASE r \in Revoke(KnownClients, KnownTokens)
  BY <1>2, <1>6 DEF Revoke
<1> QED BY <1>3, <1>4, <1>5, <1>6 DEF Inputs

(* What a lookup remembers.                                                *)
LEMMA ReadsSeen ==
    ASSUME Typed, NEW p \in Requests, RequestStep(p), Reads(p)
    PROVE  /\ p \in DOMAIN seen' /\ UNCHANGED <<lsn, codes, tokens, clients, req, access>>
           /\ \/ /\ req[p].kind = "authorization_code"
                 /\ req[p].key \in DOMAIN codes
                 /\ req[p].client = codes[req[p].key].client
                 /\ seen'[p].grant = req[p].key
                 /\ seen'[p].scopes = codes[req[p].key].scopes
              \/ /\ req[p].kind = "refresh_token"
                 /\ req[p].key \in DOMAIN tokens
                 /\ req[p].client = tokens[req[p].key].client
                 /\ seen'[p].grant = tokens[req[p].key].grant
                 /\ seen'[p].scopes = tokens[req[p].key].scopes
<1>1. PICK point \in ReadPoints :
        \/ /\ req[p].kind = "authorization_code"
           /\ CodeRedeemable(req[p], point)
           /\ Remember(p, codes[req[p].key], req[p].key, point)
        \/ /\ req[p].kind = "refresh_token"
           /\ TokenVisible(req[p].key, point)
           /\ tokens[req[p].key].client = req[p].client
           /\ Remember(p, tokens[req[p].key], tokens[req[p].key].grant, point)
  BY DEF Reads
<1>2. CASE req[p].kind = "authorization_code"
  BY <1>1, <1>2 DEF Reads, CodeRedeemable, Present, Remember, Insert
<1>3. CASE req[p].kind = "refresh_token"
  BY <1>1, <1>3 DEF Reads, TokenVisible, Present, Remember, Insert
<1> QED BY <1>1, <1>2, <1>3

LEMMA StepKeepsNames ==
    ASSUME Typed, Names, NEW p \in Requests, RequestStep(p)
    PROVE  Names'
<1> USE RowTypes
<1>1. ASSUME NEW q \in Requests PROVE KeyKnown(q)'
  <2>1. KeyKnown(q) BY DEF Names
  <2>2. CASE q \in DOMAIN req
    <3>1. req'[q] = req[q] /\ req[q] \in Request BY <2>2, RequestsAfter
    <3>2. req[q].kind \in KeyedKinds => req[q].key \in Requests BY <3>1, RequestFields
    <3>3. /\ req[q].kind = "authorization_code" => IsCode(req[q].key)'
          /\ req[q].kind \in {"refresh_token", "revoke"} => IsToken(req[q].key)'
      BY <2>1, <2>2, <3>1, <3>2, NamedKept DEF KeyKnown, KeyedKinds
    <3> QED BY <3>1, <3>3 DEF KeyKnown
  <2>3. CASE q \in DOMAIN req' \ DOMAIN req
    <3>1. q = p BY <2>3, RequestsAfter
    <3>2. Arrive(p)
      BY <2>3, <3>1 DEF RequestStep, RejectMalformed, Crash, Handle, ClientNotFound,
         RegisterUser, InsertClient, AuthorizeClient, VerifyCredentials, IssueCode,
         AuthenticateClient, ClientCredentials, LookupCode, LookupToken, SpendCode,
         SpendToken, PurgeToken, FindUser, MintToken, RevokeToken
    <3>3. PICK r \in Inputs : req' = Insert(req, p, r) BY <3>2 DEF Arrive
    <3>4. req'[p] = r /\ r \in Request BY <3>3, InputsTyped DEF Insert, Typed
    <3>5. r.kind \in KeyedKinds => r.key \in Requests BY <3>4, RequestFields
    <3>6. /\ r.kind = "authorization_code" => IsCode(r.key)'
          /\ r.kind \in {"refresh_token", "revoke"} => IsToken(r.key)'
      BY <3>5, InputsNamed, NamedKept DEF KeyedKinds
    <3> QED BY <3>1, <3>4, <3>6 DEF KeyKnown
  <2> QED BY <2>2, <2>3 DEF KeyKnown
<1>2. ASSUME NEW q \in Requests PROVE SeenKnown(q)'
  <2>1. KeyKnown(q) /\ SeenKnown(q) BY DEF Names
  <2>2. CASE q = p /\ Reads(p)
    <3>1. /\ q \in DOMAIN req /\ req'[q] = req[q]
      BY <2>2, RequestsAfter DEF Reads, Typed, Control, RequestOK, LabelOK, InFlight
    <3>2. IsCode(seen'[p].grant)
      BY <2>1, <2>2, <3>1, ReadsSeen DEF Names, KeyKnown
    <3>3. seen'[p].grant \in Requests BY <3>2 DEF IsCode
    <3>4. IsCode(seen[p].grant)' BY <3>2, <3>3, NamedKept
    <3> QED BY <2>2, <3>1, <3>4, ReadsSeen DEF SeenKnown
  <2>3. CASE ~(q = p /\ Reads(p)) /\ q \in DOMAIN seen'
    <3>1. /\ q \in DOMAIN seen /\ seen'[q] = seen[q]
          /\ q \in DOMAIN req /\ req'[q] = req[q]
      BY <2>3, RequestsAfter
    <3>2. IsCode(seen[q].grant)' BY <2>1, <3>1, NamedKept DEF SeenKnown
    <3> QED BY <2>1, <3>1, <3>2 DEF SeenKnown
  <2> QED BY <2>2, <2>3 DEF SeenKnown
<1>3. ASSUME NEW t \in DOMAIN tokens' PROVE IsCode(tokens[t].grant)'
  <2>1. CASE t \in DOMAIN tokens
    <3>1. tokens'[t].grant = tokens[t].grant BY <2>1, RowsAfter
    <3> QED BY <2>1, <3>1, NamedKept DEF Names
  <2>2. CASE t \notin DOMAIN tokens
    <3>1. t = p /\ Mints(p) /\ tokens'[t].grant = seen[p].grant BY <2>2, RowsAfter
    <3>2. IsCode(seen[p].grant) /\ seen[p].grant \in Requests
      BY <3>1 DEF Mints, Names, SeenKnown
    <3> QED BY <3>1, <3>2, NamedKept
  <2> QED BY <2>1, <2>2
<1> QED BY <1>1, <1>2, <1>3 DEF Names

(* A client that was answered stays answered, with the scopes it asked.    *)
LEMMA KnownKept ==
    ASSUME Typed, NEW p \in Requests, RequestStep(p), NEW c \in KnownClients
    PROVE  c \in KnownClients' /\ RegisteredScopes(c)' = RegisteredScopes(c)
<1>1. CASE c \in DOMAIN SeedClients BY <1>1 DEF KnownClients, RegisteredScopes
<1>2. CASE c \notin DOMAIN SeedClients
  <2>1. c \in DOMAIN req /\ reply[c] = "ok" /\ req[c].kind = "register_client"
    BY <1>2 DEF KnownClients, Answered
  <2>2. c \in Requests BY <2>1, RowTypes
  <2>3. pc[c] = "done" BY <2>1, <2>2 DEF Typed, Control, RequestOK, LabelOK
  <2>4. c # p BY <2>3, RequestsAfter
  <2>5. c \in DOMAIN req' /\ req'[c] = req[c] /\ reply'[c] = reply[c]
    BY <2>1, <2>2, <2>4, RequestsAfter
  <2> QED BY <1>2, <2>1, <2>5 DEF KnownClients, Answered, RegisteredScopes
<1> QED BY <1>1, <1>2

LEMMA WithinKept ==
    ASSUME Typed, NEW p \in Requests, RequestStep(p), NEW client, NEW scopes,
           WithinRegistration(client, scopes)
    PROVE  WithinRegistration(client, scopes)'
<1>1. client \in KnownClients /\ scopes \subseteq RegisteredScopes(client)
  BY DEF WithinRegistration
<1>2. client \in KnownClients' /\ RegisteredScopes(client)' = RegisteredScopes(client)
  BY <1>1, KnownKept
<1> QED BY <1>1, <1>2 DEF WithinRegistration

(* The row that was checked says what the client was registered with.      *)
LEMMA CheckedWithin ==
    ASSUME Registrations, NEW p \in Requests, p \in DOMAIN req,
           req[p].kind \in ClientKinds, NEW scopes, WithinClient(req[p].client, scopes)
    PROVE  WithinRegistration(req[p].client, scopes)
<1>1. PICK c : c = req[p].client OBVIOUS
<1>2. c \in KnownClients BY <1>1 DEF Registrations, ClientKnown
<1>3. c \in DOMAIN clients /\ scopes \subseteq clients[c].scopes
  BY <1>1 DEF WithinClient
<1>4. clients[c].scopes = RegisteredScopes(c)
  BY <1>3 DEF Registrations, AsRegistered, RegisteredScopes
<1> QED BY <1>1, <1>2, <1>3, <1>4 DEF WithinRegistration

LEMMA InputsKnown ==
    ASSUME NEW r \in Inputs, r.kind \in ClientKinds PROVE r.client \in KnownClients
<1>1. CASE r \in Register \cup RegisterClient
  BY <1>1 DEF Register, RegisterClient, ClientKinds, KeyedKinds
<1>2. CASE r \in Authorize(KnownClients) BY <1>2 DEF Authorize
<1>3. CASE r \in CodeGrant(KnownClients, KnownCodes) BY <1>3 DEF CodeGrant
<1>4. CASE r \in ClientGrant(KnownClients) BY <1>4 DEF ClientGrant
<1>5. CASE r \in RefreshGrant(KnownClients, KnownTokens) BY <1>5 DEF RefreshGrant
<1>6. CASE r \in Revoke(KnownClients, KnownTokens) BY <1>6 DEF Revoke
<1> QED BY <1>1, <1>2, <1>3, <1>4, <1>5, <1>6 DEF Inputs

LEMMA NewClient ==
    ASSUME Typed, NEW p \in Requests, RequestStep(p), NEW c \in DOMAIN clients' \ DOMAIN clients
    PROVE  /\ c = p /\ p \in DOMAIN req' /\ req'[p].kind = "register_client"
           /\ clients'[p].scopes = req'[p].scopes
<1>1. DOMAIN clients' # DOMAIN clients OBVIOUS
<1>2. InsertClient(p)
  BY SMTT(40), <1>1 DEF RequestStep, Arrive, RejectMalformed, Crash, Handle, tables,
     ClientNotFound, RegisterUser, AuthorizeClient, VerifyCredentials,
     IssueCode, AuthenticateClient, ClientCredentials, LookupCode, LookupToken,
     SpendCode, SpendToken, PurgeToken, FindUser, MintToken, RevokeToken
<1>3. InFlight(p) BY <1>2 DEF InsertClient, InFlight
<1>4. p \in DOMAIN req BY <1>3, InFlightFacts
<1>5. clients' = Insert(clients, p, [redirect |-> req[p].redirect,
                                     scopes |-> req[p].scopes, at |-> lsn + 1])
  BY <1>1, <1>2 DEF InsertClient
<1>6. c = p /\ clients'[p].scopes = req[p].scopes BY <1>5 DEF Insert
<1> QED BY <1>2, <1>4, <1>6 DEF InsertClient

LEMMA StepKeepsRegistrations ==
    ASSUME Typed, Registrations, NEW p \in Requests, RequestStep(p)
    PROVE  Registrations'
<1>1. ASSUME NEW c \in DOMAIN clients' PROVE AsRegistered(c)'
  <2>1. CASE c \in DOMAIN clients
    <3>1. AsRegistered(c) /\ clients'[c] = clients[c]
      BY <2>1, RequestsAfter DEF Registrations
    <3>2. c \in DOMAIN req => c \in DOMAIN req' /\ req'[c] = req[c] BY RequestsAfter
    <3> QED BY <3>1, <3>2 DEF AsRegistered
  <2>2. CASE c \notin DOMAIN clients
    <3>1. /\ c = p /\ p \in DOMAIN req' /\ req'[p].kind = "register_client"
          /\ clients'[p].scopes = req'[p].scopes
      BY <2>2, NewClient
    <3>2. c \notin DOMAIN SeedClients BY <3>1, OAuthAssumption
    <3> QED BY <3>1, <3>2 DEF AsRegistered
  <2> QED BY <2>1, <2>2
<1>2. ASSUME NEW q \in Requests, q \in DOMAIN req', req'[q].kind \in ClientKinds
      PROVE  req'[q].client \in KnownClients'
  <2>1. CASE q \in DOMAIN req
    <3>1. req'[q] = req[q] BY <2>1, RequestsAfter
    <3>2. req[q].client \in KnownClients
      BY <1>2, <2>1, <3>1 DEF Registrations, ClientKnown
    <3> QED BY <3>1, <3>2, KnownKept
  <2>2. CASE q \notin DOMAIN req
    <3>1. q = p BY <1>2, <2>2, RequestsAfter
    <3>2. Arrive(p)
      BY <1>2, <2>2, <3>1 DEF RequestStep, RejectMalformed, Crash, Handle, ClientNotFound,
         RegisterUser, InsertClient, AuthorizeClient, VerifyCredentials, IssueCode,
         AuthenticateClient, ClientCredentials, LookupCode, LookupToken, SpendCode,
         SpendToken, PurgeToken, FindUser, MintToken, RevokeToken
    <3>3. PICK r \in Inputs : req' = Insert(req, p, r) BY <3>2 DEF Arrive
    <3>4. req'[p] = r BY <3>3 DEF Insert
    <3>5. r.client \in KnownClients BY <1>2, <3>1, <3>4, InputsKnown
    <3> QED BY <3>1, <3>4, <3>5, KnownKept
  <2> QED BY <2>1, <2>2
<1> QED BY <1>1, <1>2 DEF Registrations, ClientKnown

LEMMA StepKeepsPermitted ==
    ASSUME Typed, Registrations, Permitted, NEW p \in Requests, RequestStep(p)
    PROVE  Permitted'
<1> USE RowTypes
<1>1. Quiet(p) \/ Issues(p) \/ Mints(p) \/ Spends(p) \/ Reads(p)
  BY StepKinds DEF RequestStep
<1>2. Frame(p) BY HandleTyped DEF RequestStep
<1>3. ASSUME NEW k \in DOMAIN codes'
      PROVE  WithinRegistration(codes[k].client, codes[k].scopes)'
  <2>1. PICK row : row = codes'[k] OBVIOUS
  <2>2. CASE k \in DOMAIN codes
    <3>1. row.client = codes[k].client /\ row.scopes = codes[k].scopes
      BY <2>1, <2>2, RowsAfter DEF SameConsent
    <3>2. WithinRegistration(row.client, row.scopes) BY <2>2, <3>1 DEF Permitted
    <3>3. WithinRegistration(row.client, row.scopes)' BY <3>2, WithinKept
    <3> QED BY <2>1, <3>3
  <2>3. CASE k \notin DOMAIN codes
    <3>1. k = p /\ Issues(p) BY <2>3, RowsAfter
    <3>2. row.client = req[p].client /\ row.scopes = req[p].scopes
      BY <2>1, <3>1 DEF Issues, Insert
    <3>3. WithinRegistration(row.client, row.scopes)
      BY <3>1, <3>2 DEF Issues, Permitted, AskedWithin
    <3>4. WithinRegistration(row.client, row.scopes)' BY <3>3, WithinKept
    <3> QED BY <2>1, <3>4
  <2> QED BY <2>2, <2>3
<1>4. ASSUME NEW t \in DOMAIN tokens'
      PROVE  WithinRegistration(tokens[t].client, tokens[t].scopes)'
  <2>1. PICK row : row = tokens'[t] OBVIOUS
  <2>2. CASE t \in DOMAIN tokens
    <3>1. row.client = tokens[t].client /\ row.scopes = tokens[t].scopes
      BY <2>1, <2>2, RowsAfter DEF SameConsent
    <3>2. WithinRegistration(row.client, row.scopes) BY <2>2, <3>1 DEF Permitted
    <3>3. WithinRegistration(row.client, row.scopes)' BY <3>2, WithinKept
    <3> QED BY <2>1, <3>3
  <2>3. CASE t \notin DOMAIN tokens
    <3>1. t = p /\ Mints(p) BY <2>3, RowsAfter
    <3>2. row.client = req[p].client /\ row.scopes = seen[p].scopes
      BY <2>1, <3>1 DEF Mints, Insert
    <3>3. WithinRegistration(row.client, row.scopes) BY <3>1, <3>2 DEF Mints, Permitted
    <3>4. WithinRegistration(row.client, row.scopes)' BY <3>3, WithinKept
    <3> QED BY <2>1, <3>4
  <2> QED BY <2>2, <2>3
<1>5. ASSUME NEW q \in Requests PROVE AskedWithin(q)'
  <2>1. AskedWithin(q) BY DEF Permitted
  <2>2. Typed' BY HandleTyped DEF RequestStep
  <2>3. q \in DOMAIN req' \/ pc'[q] \in {"new", "done"}
    BY <2>2 DEF Typed, Control, RequestOK, LabelOK, InFlight
  <2>4. CASE q # p
    <3>1. pc'[q] = pc[q] /\ (q \in DOMAIN req' => req'[q] = req[q])
      BY <2>4, RequestsAfter
    <3> QED BY <2>1, <2>3, <3>1, WithinKept DEF AskedWithin
  <2>5. CASE q = p /\ pc'[p] = "credentials"
    <3>1. WithinClient(req[p].client, req[p].scopes) /\ UNCHANGED req
      BY <1>1, <2>5 DEF Quiet, Issues, Mints, Stores, Spends, Reads
    <3>2. p \in DOMAIN req /\ req[p].kind = "authorize"
      BY <2>2, <2>5, <3>1 DEF Typed, Control, RequestOK, LabelOK, InFlight
    <3>3. PICK c, s : c = req[p].client /\ s = req[p].scopes OBVIOUS
    <3>4. WithinRegistration(c, s)
      BY <3>1, <3>2, <3>3, CheckedWithin DEF ClientKinds
    <3>5. WithinRegistration(c, s)' BY <3>4, WithinKept
    <3> QED BY <2>5, <3>1, <3>3, <3>5 DEF AskedWithin
  <2>6. CASE q = p /\ pc'[p] = "issue"
    <3>1. pc[p] = "credentials" /\ UNCHANGED req
      BY <1>1, <2>6 DEF Quiet, Issues, Mints, Stores, Spends, Reads
    <3>2. PICK c, s : c = req[p].client /\ s = req[p].scopes OBVIOUS
    <3>3. WithinRegistration(c, s) BY <2>1, <2>6, <3>1, <3>2 DEF AskedWithin
    <3>4. WithinRegistration(c, s)' BY <3>3, WithinKept
    <3> QED BY <2>6, <3>1, <3>2, <3>4 DEF AskedWithin
  <2>7. CASE q = p /\ pc'[p] \notin {"credentials", "issue"} BY <2>7 DEF AskedWithin
  <2> QED BY <2>4, <2>5, <2>6, <2>7
<1>6. ASSUME NEW q \in DOMAIN seen' PROVE WithinRegistration(req[q].client, seen[q].scopes)'
  <2>1. CASE q = p /\ Reads(p)
    <3>1. PICK c, s : c = req[p].client /\ s = seen'[p].scopes OBVIOUS
    <3>2. WithinRegistration(c, s)
      BY <2>1, <3>1, ReadsSeen DEF Permitted
    <3>3. WithinRegistration(c, s)' BY <3>2, WithinKept
    <3> QED BY <2>1, <3>1, <3>3, ReadsSeen
  <2>2. CASE ~(q = p /\ Reads(p))
    <3>1. q \in DOMAIN seen /\ seen'[q] = seen[q] /\ req'[q] = req[q]
      BY <2>2, RequestsAfter
    <3>2. WithinRegistration(req[q].client, seen[q].scopes) BY <3>1 DEF Permitted
    <3> QED BY <3>1, <3>2, WithinKept
  <2> QED BY <2>1, <2>2
<1>7. ASSUME NEW q \in DOMAIN access' PROVE WithinRegistration(access[q].client, access[q].scopes)'
  <2>1. CASE q # p \/ UNCHANGED access
    <3>1. q \in DOMAIN access /\ access'[q] = access[q]
      BY <1>2, <2>1 DEF Frame, GrowsBy
    <3>2. WithinRegistration(access[q].client, access[q].scopes)
      BY <3>1 DEF Permitted, AccessWithinRegisteredScopes
    <3> QED BY <3>1, <3>2, WithinKept
  <2>2. CASE q = p /\ access' # access
    <3>1. CASE Quiet(p)
      <4>1. /\ pc[p] = "client" /\ WithinClient(req[p].client, req[p].scopes)
            /\ access'[p].client = req[p].client /\ access'[p].scopes = req[p].scopes
        BY <2>2, <3>1 DEF Quiet, GrantAccess, Insert
      <4>2. p \in DOMAIN req /\ req[p].kind \in ClientKinds
        BY <4>1 DEF Typed, Control, RequestOK, LabelOK, InFlight, ClientKinds
      <4>3. PICK c, s : c = req[p].client /\ s = req[p].scopes OBVIOUS
      <4>4. WithinRegistration(c, s) BY <4>1, <4>2, <4>3, CheckedWithin
      <4>5. WithinRegistration(c, s)' BY <4>4, WithinKept
      <4> QED BY <2>2, <4>1, <4>3, <4>5
    <3>2. CASE Mints(p)
      <4>1. /\ access'[p].client = req[p].client /\ access'[p].scopes = seen[p].scopes
            /\ p \in DOMAIN seen
        BY <2>2, <3>2 DEF Mints, GrantAccess, Insert
      <4>2. PICK c, s : c = req[p].client /\ s = seen[p].scopes OBVIOUS
      <4>3. WithinRegistration(c, s) BY <4>1, <4>2 DEF Permitted
      <4>4. WithinRegistration(c, s)' BY <4>3, WithinKept
      <4> QED BY <2>2, <4>1, <4>2, <4>4
    <3> QED BY <1>1, <2>2, <3>1, <3>2 DEF Issues, Spends, Reads
  <2> QED BY <2>1, <2>2
<1> QED BY <1>3, <1>4, <1>5, <1>6, <1>7 DEF Permitted, AccessWithinRegisteredScopes

LEMMA SurroundingsBase == ASSUME Base, Surroundings PROVE Base'
<1>1. UNCHANGED <<lsn, tables, pc, req, local, reply, access>>
  BY SurroundingsStep DEF Base
<1>2. Typed' BY SurroundingsTyped DEF Base
<1>3. KnownClients' = KnownClients /\ \A c : RegisteredScopes(c)' = RegisteredScopes(c)
  BY <1>1 DEF KnownClients, Answered, RegisteredScopes
<1>4. Registrations'
  BY <1>1, <1>3 DEF Base, Registrations, AsRegistered, ClientKnown, tables
<1>5. Permitted'
  BY <1>1, <1>3 DEF Base, Permitted, WithinRegistration, AskedWithin,
     AccessWithinRegisteredScopes, tables, local
<1> QED BY <1>1, <1>2, <1>4, <1>5
    DEF Base, RowsStamped, Names, KeyKnown, SeenKnown, IsCode, IsToken, tables, local

LEMMA PromoteBase ==
    ASSUME Base, NEW n \in Seeded .. lsn - 1, Promote(n)
    PROVE  Base'
<1> USE RowTypes
<1>1. Typed /\ Typed' BY PromoteTyped DEF Base
<1>2. Promotion BY DEF Promotion
<1>3. [FailoverNext]_vars BY DEF FailoverNext
<1>4. RowsStamped' BY <1>3, RowsStampedKept DEF Base
<1>5. UNCHANGED <<pc, req, reply, seen, access>> BY <1>1, PromoteStep DEF local
<1>6. \A k \in DOMAIN codes' : k \in DOMAIN codes /\ SameConsent(codes[k], codes'[k])
  BY <1>1, PromoteStep
<1>7. \A t \in DOMAIN tokens' :
         /\ t \in DOMAIN tokens /\ SameConsent(tokens[t], tokens'[t])
         /\ tokens'[t].grant = tokens[t].grant
  BY <1>1, PromoteStep
<1>8. Names' BY <1>5, <1>7 DEF Base, Names, KeyKnown, SeenKnown, IsCode, IsToken
<1>9. KnownClients' = KnownClients /\ \A c : RegisteredScopes(c)' = RegisteredScopes(c)
  BY <1>5 DEF KnownClients, Answered, RegisteredScopes
<1>10. Permitted'
  BY <1>5, <1>6, <1>7, <1>9
  DEF Base, Permitted, SameConsent, WithinRegistration, AskedWithin,
      AccessWithinRegisteredScopes
<1>11. Registrations'
  <2>1. /\ DOMAIN clients' \subseteq DOMAIN clients
        /\ \A c \in DOMAIN clients' : clients'[c] = clients[c]
    BY <1>1, PromoteStep
  <2> QED BY <1>5, <1>9, <2>1 DEF Base, Registrations, AsRegistered, ClientKnown
<1> QED BY <1>1, <1>4, <1>8, <1>10, <1>11 DEF Base

LEMMA RequestBase == ASSUME Base, NEW p \in Requests, RequestStep(p) PROVE Base'
<1>1. Typed /\ Typed' BY HandleTyped DEF Base, RequestStep
<1>2. [FailoverNext]_vars BY DEF RequestStep, FailoverNext, Next
<1>3. RowsStamped' BY <1>2, RowsStampedKept DEF Base
<1>4. Names' /\ Registrations' /\ Permitted'
  BY StepKeepsNames, StepKeepsRegistrations, StepKeepsPermitted DEF Base
<1> QED BY <1>1, <1>3, <1>4 DEF Base

LEMMA InitBase == Init => Base
<1> SUFFICES ASSUME Init PROVE Base
  OBVIOUS
<1>1. /\ DOMAIN req = {} /\ DOMAIN seen = {} /\ DOMAIN codes = {}
      /\ DOMAIN tokens = {} /\ DOMAIN access = {}
  BY EmptyIsTable DEF Init
<1>2. \A p \in Requests : pc[p] = "new" BY DEF Init
<1>3. Registrations
  <2>1. clients = SeedClients BY DEF Init
  <2> QED BY <1>1, <2>1 DEF Registrations, AsRegistered, ClientKnown
<1> QED BY <1>1, <1>2, <1>3, InitTyped
    DEF Base, RowsStamped, Names, KeyKnown, SeenKnown, Permitted, AskedWithin,
        AccessWithinRegisteredScopes

LEMMA StepKeepsBase == Base /\ [FailoverNext]_vars => Base'
<1> SUFFICES ASSUME Base, [FailoverNext]_vars PROVE Base'
  OBVIOUS
<1> QED BY FailoverSteps, SurroundingsBase, PromoteBase, RequestBase DEF Promotion

(***************************************************************************)
(* Counting                                                                *)
(***************************************************************************)
AtMost(S, n) == IsFiniteSet(S) /\ Cardinality(S) <= n

LEMMA FewerAtMost ==
    ASSUME NEW n \in Nat, NEW m \in Nat, n <= m, NEW S, AtMost(S, n), NEW T, T \subseteq S
    PROVE  AtMost(T, m)
<1>1. IsFiniteSet(S) /\ Cardinality(S) <= n BY DEF AtMost
<1>2. IsFiniteSet(T) /\ Cardinality(T) <= Cardinality(S) BY <1>1, FS_Subset
<1>3. Cardinality(S) \in Nat /\ Cardinality(T) \in Nat BY <1>1, <1>2, FS_CardinalityType
<1> QED BY <1>1, <1>2, <1>3 DEF AtMost

LEMMA OneMoreAtMost ==
    ASSUME NEW n \in Nat, NEW S, AtMost(S, n), NEW x, NEW T, T \subseteq S \cup {x}
    PROVE  AtMost(T, n + 1)
<1>1. IsFiniteSet(S) /\ Cardinality(S) <= n BY DEF AtMost
<1>2. Cardinality(S) \in Nat BY <1>1, FS_CardinalityType
<1>3. /\ IsFiniteSet(S \cup {x})
      /\ Cardinality(S \cup {x}) = IF x \in S THEN Cardinality(S) ELSE Cardinality(S) + 1
  BY <1>1, FS_AddElement
<1>4. AtMost(S \cup {x}, n + 1) BY <1>1, <1>2, <1>3 DEF AtMost
<1> QED BY <1>4, FewerAtMost

LEMMA OneLessAtMost ==
    ASSUME NEW n \in Nat, NEW S, AtMost(S, n + 1), NEW x \in S
    PROVE  AtMost(S \ {x}, n)
<1>1. IsFiniteSet(S) /\ Cardinality(S) <= n + 1 BY DEF AtMost
<1>2. Cardinality(S) \in Nat BY <1>1, FS_CardinalityType
<1>3. IsFiniteSet(S \ {x}) /\ Cardinality(S \ {x}) = Cardinality(S) - 1
  BY <1>1, FS_RemoveElement
<1> QED BY <1>1, <1>2, <1>3 DEF AtMost

LEMMA NoneAtMost == ASSUME NEW n \in Nat PROVE AtMost({}, n)
BY FS_EmptySet DEF AtMost

(***************************************************************************)
(* ReplayBound: the exchanges of a code that succeeded or still may.  A    *)
(* code that is not marked used has one of them left for every failover,   *)
(* none before the first.                                                  *)
(***************************************************************************)
Unused(k) == k \in DOMAIN codes /\ codes[k].usedAt = Never
Redeeming(k) ==
    {p \in DOMAIN req : /\ req[p].kind = "authorization_code" /\ req[p].key = k
                        /\ pc[p] \in {"user", "mint"}}
Redemptions(k) == Exchanges(k) \cup Redeeming(k)
SpendsCode(p) == pc[p] = "spend" /\ req[p].kind = "authorization_code"
ReplayBound ==
    /\ \A k \in Requests :
          /\ AtMost(Redemptions(k), timeline + 1)
          /\ Unused(k) => AtMost(Redemptions(k), timeline)
    /\ \A p \in DOMAIN req :
          SpendsCode(p) => AtMost(Redemptions(req[p].key), timeline)

(* Only the marking of a code adds a redemption of it.                     *)
LEMMA RedemptionsAfter ==
    ASSUME Typed, NEW p \in Requests, RequestStep(p), NEW k, NEW q \in Redemptions(k)'
    PROVE  \/ q \in Redemptions(k)
           \/ /\ q = p /\ Spends(p) /\ SpendsCode(p)
              /\ p \in DOMAIN req /\ req[p].key = k
<1>1. Quiet(p) \/ Issues(p) \/ Mints(p) \/ Spends(p) \/ Reads(p)
  BY StepKinds DEF RequestStep
<1>2. /\ q \in DOMAIN req' /\ req'[q].kind = "authorization_code" /\ req'[q].key = k
      /\ reply'[q] = "ok" \/ pc'[q] \in {"user", "mint"}
  BY DEF Redemptions, Exchanges, Redeeming, Answered
<1>3. CASE q # p
  BY <1>2, <1>3, RequestsAfter, RowTypes DEF Redemptions, Exchanges, Redeeming, Answered
<1>4. CASE q = p
  <2>1. Typed' /\ AnswerOK(p)' BY HandleTyped DEF RequestStep
  <2>2. RequestOK(p) /\ RequestOK(p)' BY <2>1 DEF Typed, Control
  <2>3. CASE reply'[p] = "ok"
    <3>1. p \in DOMAIN tokens' \ DOMAIN tokens
      BY <1>2, <1>4, <2>1, <2>3, ActingTyped DEF AnswerOK, TokenGrants
    <3>2. Mints(p) BY <3>1, RowsAfter
    <3>3. pc[p] = "mint" /\ UNCHANGED req BY <3>2 DEF Mints, Stores
    <3> QED BY <1>2, <1>4, <3>3 DEF Redemptions, Redeeming
  <2>4. CASE pc'[p] \in {"user", "mint"}
    <3>1. CASE Quiet(p)
      <4>1. pc[p] = "user" BY <2>4, <3>1 DEF Quiet
      <4>2. p \in DOMAIN req BY <2>2, <4>1 DEF RequestOK, LabelOK, InFlight
      <4>3. req' = req BY <3>1, <4>2 DEF Quiet
      <4> QED BY <1>2, <1>4, <4>1, <4>3 DEF Redemptions, Redeeming
    <3>2. CASE Spends(p)
      <4>1. pc[p] = "spend" /\ UNCHANGED req BY <2>4, <3>2 DEF Spends
      <4> QED BY <1>2, <1>4, <3>2, <4>1 DEF SpendsCode
    <3> QED BY <1>1, <2>4, <3>1, <3>2 DEF Issues, Mints, Stores, Reads
  <2> QED BY <1>2, <1>4, <2>3, <2>4
<1> QED BY <1>3, <1>4

(* With reads from the primary, a lookup finds what is there.              *)
LEMMA PrimaryReads ==
    ASSUME Typed, RowsStamped, Replicas = {}, NEW p \in Requests, Reads(p)
    PROVE  /\ req[p].kind = "authorization_code" => Unused(req[p].key)
           /\ req[p].kind = "refresh_token" =>
                 req[p].key \in DOMAIN tokens /\ Live(req[p].key)
<1>1. ReadPoints = {lsn} BY DEF ReadPoints
<1>2. CASE req[p].kind = "authorization_code"
  <2>1. CodeRedeemable(req[p], lsn) BY <1>1, <1>2 DEF Reads
  <2>2. req[p].key \in DOMAIN codes /\ ~Holds(codes[req[p].key].usedAt, lsn)
    BY <2>1 DEF CodeRedeemable, Present
  <2> QED BY <1>2, <2>2 DEF Holds, RowsStamped, Unused
<1>3. CASE req[p].kind = "refresh_token"
  <2>1. TokenVisible(req[p].key, lsn) BY <1>1, <1>3 DEF Reads
  <2>2. req[p].key \in DOMAIN tokens /\ ~Holds(tokens[req[p].key].deletedAt, lsn)
    BY <2>1 DEF TokenVisible, Present
  <2> QED BY <1>3, <2>2 DEF Holds, RowsStamped, Live
<1> QED BY <1>2, <1>3

(* The marking of a code leaves it used.                                   *)
LEMMA SpendsMarks ==
    ASSUME Typed, NEW p \in Requests, RequestStep(p), Spends(p), SpendsCode(p)
    PROVE  ~Unused(req[p].key)'
<1>1. codes' = [codes EXCEPT ![req[p].key].usedAt = Stamp(@)]
  BY DEF Spends, SpendsCode, MarkUsed
<1>2. \A old : Stamp(old) # Never BY RowTypes DEF Stamp, Never
<1>3. req'[p] = req[p] BY DEF Spends
<1>4. CASE req[p].key \in DOMAIN codes
  <2>1. codes[req[p].key] \in CodeRow BY <1>4 DEF Typed, TypeOK, IsTable
  <2>2. codes'[req[p].key].usedAt = Stamp(codes[req[p].key].usedAt)
    BY <1>1, <1>4, <2>1 DEF CodeRow
  <2> QED BY <1>2, <1>3, <2>2 DEF Unused
<1> QED BY <1>1, <1>3, <1>4 DEF Unused

LEMMA StepKeepsReplay ==
    ASSUME Base, Isolated, Alone, ReplayBound, NEW p \in Requests, RequestStep(p)
    PROVE  ReplayBound'
<1>1. Typed /\ Typed' /\ Frame(p) /\ timeline \in Nat /\ timeline' = timeline
  BY HandleTyped, RowTypes, RowsAfter DEF Base, RequestStep
<1>2. ASSUME NEW k, ~(Spends(p) /\ SpendsCode(p) /\ p \in DOMAIN req /\ req[p].key = k)
      PROVE  Redemptions(k)' \subseteq Redemptions(k)
  BY <1>1, <1>2, RedemptionsAfter
<1>3. ASSUME NEW k \in Requests PROVE AtMost(Redemptions(k), timeline + 1)'
  <2>1. CASE Spends(p) /\ SpendsCode(p) /\ p \in DOMAIN req /\ req[p].key = k
    <3>1. AtMost(Redemptions(k), timeline) BY <2>1 DEF ReplayBound
    <3>2. Redemptions(k)' \subseteq Redemptions(k) \cup {p} BY <1>1, RedemptionsAfter
    <3> QED BY <1>1, <3>1, <3>2, OneMoreAtMost
  <2>2. CASE ~(Spends(p) /\ SpendsCode(p) /\ p \in DOMAIN req /\ req[p].key = k)
    <3>1. AtMost(Redemptions(k), timeline + 1) BY DEF ReplayBound
    <3>2. Redemptions(k)' \subseteq Redemptions(k) BY <1>2, <2>2
    <3> QED BY <1>1, <3>1, <3>2, FewerAtMost
  <2> QED BY <2>1, <2>2
<1>4. ASSUME NEW k \in Requests, Unused(k)' PROVE AtMost(Redemptions(k), timeline)'
  <2>1. ~(Spends(p) /\ SpendsCode(p) /\ p \in DOMAIN req /\ req[p].key = k)
    <3>1. Spends(p) => UNCHANGED req BY DEF Spends
    <3> QED BY <1>1, <1>4, <3>1, SpendsMarks DEF Unused
  <2>2. Redemptions(k)' \subseteq Redemptions(k) BY <1>2, <2>1
  <2>3. CASE k \in DOMAIN codes
    <3>1. Stamped(codes[k].usedAt, codes'[k].usedAt) BY <1>1, <2>3, RowsAfter
    <3>2. Unused(k) BY <1>1, <1>4, <2>3, <3>1, RowTypes DEF Unused, Stamped, Never
    <3>3. AtMost(Redemptions(k), timeline) BY <3>2 DEF ReplayBound
    <3> QED BY <1>1, <2>2, <3>3, FewerAtMost
  <2>4. CASE k \notin DOMAIN codes
    <3>1. k = p /\ Issues(p) BY <1>1, <1>4, <2>4, RowsAfter DEF Unused
    <3>2. ~IsCode(k) BY <3>1 DEF Issues, IsCode
    <3>3. \A q \in Redemptions(k) : q \in Requests /\ ~KeyKnown(q)
      BY <1>1, <3>2, RowTypes DEF Redemptions, Exchanges, Redeeming, Answered, KeyKnown
    <3>4. Redemptions(k)' = {} BY <2>2, <3>3 DEF Base, Names
    <3> QED BY <1>1, <3>4, NoneAtMost
  <2> QED BY <2>3, <2>4
<1>5. ASSUME NEW q \in DOMAIN req', SpendsCode(q)'
      PROVE  AtMost(Redemptions(req[q].key), timeline)'
  <2>1. q \in Requests /\ InFlight(q)' BY <1>1, <1>5, RequestsAfter, RowTypes DEF SpendsCode, InFlight
  <2>2. q = p BY <1>1, <2>1, AloneStep DEF Isolated
  <2>3. Reads(p)
    BY <1>1, <1>5, <2>2, StepKinds
    DEF RequestStep, SpendsCode, Quiet, Issues, Mints, Stores, Spends
  <2>4. UNCHANGED req /\ pc[p] # "spend" BY <2>3 DEF Reads
  <2>5. req[p].kind = "authorization_code" BY <1>5, <2>2, <2>4 DEF SpendsCode
  <2>6. Unused(req[p].key) /\ req[p].key \in Requests
    BY <1>1, <2>3, <2>5, PrimaryReads, RowTypes DEF Base, Isolated, Unused
  <2>7. AtMost(Redemptions(req[p].key), timeline) BY <2>6 DEF ReplayBound
  <2>8. PICK k : k = req[p].key OBVIOUS
  <2>9. Redemptions(k)' \subseteq Redemptions(k) BY <1>2, <2>4 DEF SpendsCode
  <2>10. AtMost(Redemptions(k), timeline)' BY <1>1, <2>7, <2>8, <2>9, FewerAtMost
  <2> QED BY <2>2, <2>4, <2>8, <2>10
<1> QED BY <1>3, <1>4, <1>5 DEF ReplayBound

(***************************************************************************)
(* ForkBound: what can become a refresh token of the consent that code k   *)
(* stands for: the code and the tokens that a reader at position n finds,  *)
(* and the requests that spent one and have not stored another.  Each      *)
(* position of the log is bounded, for a failover may end it there.        *)
(***************************************************************************)
Assets(k, n) ==
    {t \in DOMAIN tokens : TokenVisible(t, n) /\ tokens[t].grant = k}
    \cup {c \in DOMAIN codes : c = k /\ Present(codes, c, n) /\ ~Holds(codes[c].usedAt, n)}
InHand(k) == {p \in DOMAIN seen : seen[p].grant = k /\ pc[p] \in {"user", "mint"}}
Now(k) == Assets(k, lsn) \cup InHand(k)
ForkBound ==
    /\ \A k \in Requests, n \in Nat : n <= lsn => AtMost(Assets(k, n), timeline + 1)
    /\ \A k \in Requests : AtMost(Now(k), timeline + 1)
    /\ \A p \in DOMAIN seen : pc[p] = "spend" =>
          AtMost(Assets(seen[p].grant, lsn) \ {req[p].key}, timeline)

(* What was written below a position stays as it is.                       *)
LEMMA OlderAssets ==
    ASSUME Typed, NEW p \in Requests, RequestStep(p), NEW k, NEW n \in Nat, n <= lsn
    PROVE  Assets(k, n)' \subseteq Assets(k, n)
<1> USE RowTypes
<1>1. ASSUME NEW t \in DOMAIN tokens', TokenVisible(t, n)', tokens'[t].grant = k
      PROVE  t \in Assets(k, n)
  <2>1. tokens'[t].at <= n /\ ~Holds(tokens'[t].deletedAt, n)
    BY <1>1 DEF TokenVisible, Present, Holds
  <2>2. t \in DOMAIN tokens
    <3>1. t \notin DOMAIN tokens => tokens'[t].at = lsn + 1 BY <1>1, RowsAfter
    <3> QED BY <1>1, <2>1, <3>1
  <2>3. /\ tokens'[t].at = tokens[t].at /\ tokens'[t].grant = tokens[t].grant
        /\ Stamped(tokens[t].deletedAt, tokens'[t].deletedAt)
    BY <2>2, RowsAfter
  <2>4. ~Holds(tokens[t].deletedAt, n) BY <2>1, <2>2, <2>3 DEF Stamped, Holds, Never
  <2> QED BY <1>1, <2>1, <2>2, <2>3, <2>4 DEF Assets, TokenVisible, Present
<1>2. ASSUME NEW c \in DOMAIN codes', c = k, Present(codes, c, n)',
             ~Holds(codes'[c].usedAt, n)
      PROVE  c \in Assets(k, n)
  <2>1. codes'[c].at <= n BY <1>2 DEF Present
  <2>2. c \in DOMAIN codes
    <3>1. c \notin DOMAIN codes => codes'[c].at = lsn + 1 BY <1>2, RowsAfter
    <3> QED BY <1>2, <2>1, <3>1
  <2>3. codes'[c].at = codes[c].at /\ Stamped(codes[c].usedAt, codes'[c].usedAt)
    BY <2>2, RowsAfter
  <2>4. ~Holds(codes[c].usedAt, n) BY <1>2, <2>2, <2>3 DEF Stamped, Holds, Never
  <2> QED BY <1>2, <2>1, <2>2, <2>3, <2>4 DEF Assets, Present
<1> QED BY <1>1, <1>2 DEF Assets, Holds

(* What a step leaves at the end of the log: rows that were there and were *)
(* not spent, and the row that it stores.                                  *)
LEMMA AssetsAfter ==
    ASSUME Typed, RowsStamped, NEW p \in Requests, RequestStep(p), NEW k,
           NEW a \in Assets(k, lsn)'
    PROVE  \/ /\ a \in Assets(k, lsn)
              /\ a \in DOMAIN tokens => tokens'[a].deletedAt = Never
              /\ a \in DOMAIN codes => codes'[a].usedAt = Never
           \/ a = p /\ Mints(p) /\ seen[p].grant = k
           \/ a = p /\ Issues(p) /\ k = p
<1> USE RowTypes
<1>1. RowsStamped' BY RowsStampedKept DEF RequestStep, FailoverNext, Next
<1>2. lsn' \in Nat /\ lsn <= lsn' BY RowsAfter
<1>3. DOMAIN tokens \cap DOMAIN codes = {}
  BY DEF Typed, Control, RequestOK, SeenOK, RowsOK, TokenGrants
<1>4. CASE a \in DOMAIN tokens'
           /\ TokenVisible(a, lsn)' /\ tokens'[a].grant = k
  <2>1. tokens'[a].deletedAt = Never
    BY <1>1, <1>4 DEF TokenVisible, Holds, RowsStamped
  <2>2. CASE a \in DOMAIN tokens
    <3>1. tokens'[a].at = tokens[a].at /\ tokens'[a].grant = tokens[a].grant
          /\ Stamped(tokens[a].deletedAt, tokens'[a].deletedAt)
      BY <2>2, RowsAfter
    <3>2. tokens[a].deletedAt = Never BY <2>1, <3>1 DEF Stamped, Never
    <3>3. a \in Assets(k, lsn)
      BY <1>4, <2>2, <3>1, <3>2 DEF Assets, TokenVisible, Present, Holds, RowsStamped
    <3> QED BY <1>3, <2>1, <2>2, <3>3
  <2>3. CASE a \notin DOMAIN tokens BY <1>4, <2>3, RowsAfter
  <2> QED BY <2>2, <2>3
<1>5. CASE a \in DOMAIN codes' /\ a = k
           /\ Present(codes, a, lsn)' /\ ~Holds(codes'[a].usedAt, lsn')
  <2>1. codes'[a].usedAt = Never BY <1>1, <1>5 DEF Holds, RowsStamped
  <2>2. CASE a \in DOMAIN codes
    <3>1. codes'[a].at = codes[a].at /\ Stamped(codes[a].usedAt, codes'[a].usedAt)
      BY <2>2, RowsAfter
    <3>2. codes[a].usedAt = Never BY <2>1, <3>1 DEF Stamped, Never
    <3>3. a \in Assets(k, lsn)
      BY <1>5, <2>2, <3>1, <3>2 DEF Assets, Present, Holds, RowsStamped
    <3> QED BY <1>3, <2>1, <2>2, <3>3
  <2>3. CASE a \notin DOMAIN codes BY <1>5, <2>3, RowsAfter
  <2> QED BY <2>2, <2>3
<1> QED BY <1>4, <1>5 DEF Assets, Holds

(* A request holds the right to a new token from the moment it spent the   *)
(* old one.                                                                *)
LEMMA InHandAfter ==
    ASSUME Typed, NEW p \in Requests, RequestStep(p), NEW k, NEW q \in InHand(k)'
    PROVE  \/ q \in InHand(k)
           \/ /\ q = p /\ Spends(p) /\ pc[p] = "spend"
              /\ p \in DOMAIN seen /\ seen[p].grant = k
<1>1. Quiet(p) \/ Issues(p) \/ Mints(p) \/ Spends(p) \/ Reads(p)
  BY StepKinds DEF RequestStep
<1>2. q \in DOMAIN seen' /\ seen'[q].grant = k /\ pc'[q] \in {"user", "mint"}
  BY DEF InHand
<1>3. CASE q # p
  BY <1>2, <1>3, RequestsAfter, RowTypes DEF InHand
<1>4. CASE q = p
  <2>1. Quiet(p) \/ Spends(p) BY <1>1, <1>2, <1>4 DEF Issues, Mints, Stores, Reads
  <2>2. UNCHANGED seen
    BY <2>1 DEF Quiet, Spends, MarkUsed, DeleteToken
  <2>3. CASE Quiet(p)
    BY <1>2, <1>4, <2>2, <2>3 DEF Quiet, InHand
  <2>4. CASE Spends(p)
    BY <1>2, <1>4, <2>2, <2>4 DEF Spends
  <2> QED BY <2>1, <2>3, <2>4
<1> QED BY <1>3, <1>4

(* The code or token that a request spends is not an asset any more.       *)
LEMMA SpentIsGone ==
    ASSUME Base, NEW p \in Requests, RequestStep(p), Spends(p), pc[p] = "spend",
           NEW k, NEW a \in Assets(k, lsn)'
    PROVE  a \in Assets(k, lsn) \ {req[p].key}
<1> USE RowTypes
<1>1. Typed /\ RowsStamped /\ KeyKnown(p) /\ p \in DOMAIN req
  BY DEF Base, Names, Typed, Control, RequestOK, LabelOK, InFlight
<1>2. \A old : Stamp(old) # Never BY <1>1 DEF Stamp, Never
<1>3. ~Mints(p) /\ ~Issues(p) BY DEF Mints, Issues
<1>4. /\ a \in Assets(k, lsn)
      /\ a \in DOMAIN tokens => tokens'[a].deletedAt = Never
      /\ a \in DOMAIN codes => codes'[a].usedAt = Never
  BY <1>1, <1>3, AssetsAfter
<1>5. a \in DOMAIN tokens \cup DOMAIN codes BY <1>4 DEF Assets
<1>6. /\ \A t \in DOMAIN tokens : ~IsCode(t)
      /\ \A c \in DOMAIN codes : ~IsToken(c)
  BY <1>1 DEF Typed, Control, RequestOK, SeenOK, RowsOK, IsCode, IsToken, TokenGrants
<1>7. CASE MarkUsed(p) /\ req[p].kind = "authorization_code"
  <2>1. IsCode(req[p].key) BY <1>1, <1>7 DEF KeyKnown
  <2>2. CASE a = req[p].key
    <3>1. a \in DOMAIN codes BY <1>5, <1>6, <2>1, <2>2
    <3>2. codes[a] \in CodeRow BY <1>1, <3>1 DEF Typed, TypeOK, IsTable
    <3>3. codes'[a].usedAt = Stamp(codes[a].usedAt)
      BY <1>7, <2>2, <3>1, <3>2 DEF MarkUsed, CodeRow
    <3> QED BY <1>2, <1>4, <3>1, <3>3
  <2> QED BY <1>4, <2>2
<1>8. CASE DeleteToken(p) /\ req[p].kind \in {"refresh_token", "revoke"}
  <2>1. IsToken(req[p].key) BY <1>1, <1>8 DEF KeyKnown
  <2>2. CASE a = req[p].key
    <3>1. a \in DOMAIN tokens BY <1>5, <1>6, <2>1, <2>2
    <3>2. tokens[a] \in TokenRow BY <1>1, <3>1 DEF Typed, TypeOK, IsTable
    <3>3. tokens'[a].deletedAt = Stamp(tokens[a].deletedAt)
      BY <1>8, <2>2, <3>1, <3>2 DEF DeleteToken, TokenRow
    <3> QED BY <1>2, <1>4, <3>1, <3>3
  <2> QED BY <1>4, <2>2
<1> QED BY <1>7, <1>8 DEF Spends

(* Nobody works on a consent whose code is not stored yet.                 *)
LEMMA NothingYet ==
    ASSUME Base, NEW k \in Requests, k \notin DOMAIN codes, pc[k] # "done"
    PROVE  Now(k) = {}
<1>1. ~IsCode(k) BY DEF IsCode
<1>2. \A t \in DOMAIN tokens : tokens[t].grant # k BY <1>1 DEF Base, Names
<1>3. \A q \in DOMAIN seen : seen[q].grant # k
  BY <1>1, RowTypes DEF Base, Names, SeenKnown
<1> QED BY <1>2, <1>3 DEF Now, Assets, InHand

LEMMA NowAfter ==
    ASSUME Base, Isolated, Alone, ForkBound, NEW p \in Requests, RequestStep(p),
           NEW k \in Requests
    PROVE  AtMost(Now(k)', timeline + 1)
<1> USE RowTypes
<1>1. Typed /\ RowsStamped /\ Frame(p) /\ timeline \in Nat
  BY HandleTyped DEF Base, RequestStep
<1>2. AtMost(Now(k), timeline + 1) BY DEF ForkBound
<1>3. CASE Spends(p) /\ pc[p] = "spend" /\ p \in DOMAIN seen /\ seen[p].grant = k
  <2>1. AtMost(Assets(k, lsn) \ {req[p].key}, timeline) BY <1>3 DEF ForkBound
  <2>2. ASSUME NEW q \in InHand(k)' PROVE q = p
    <3>1. q \in InHand(k) \/ q = p BY <1>1, InHandAfter
    <3>2. q \in InHand(k) => q \in Requests /\ InFlight(q)
      BY <1>1 DEF InHand, InFlight
    <3> QED BY <1>1, <3>1, <3>2, AloneStep DEF Isolated
  <2>3. Assets(k, lsn)' \subseteq Assets(k, lsn) \ {req[p].key} BY <1>3, SpentIsGone
  <2>4. Now(k)' \subseteq (Assets(k, lsn) \ {req[p].key}) \cup {p}
    BY <2>2, <2>3 DEF Now
  <2> QED BY <1>1, <2>1, <2>4, OneMoreAtMost
<1>4. CASE Issues(p) /\ k = p
  <2>1. Now(k) = {}
    BY <1>1, <1>4, ActingTyped, NothingYet
  <2>2. Now(k)' \subseteq {p}
    <3>1. \A a \in Assets(k, lsn)' : a = p
      BY <1>1, <2>1, AssetsAfter DEF Now
    <3>2. \A q \in InHand(k)' : q = p
      BY <1>1, <2>1, InHandAfter DEF Now
    <3> QED BY <3>1, <3>2 DEF Now
  <2>3. AtMost({p}, timeline + 1)
    <3>1. AtMost({}, timeline) BY <1>1, NoneAtMost
    <3> QED BY <1>1, <3>1, OneMoreAtMost
  <2> QED BY <1>1, <2>2, <2>3, FewerAtMost
<1>5. CASE /\ ~(Spends(p) /\ pc[p] = "spend" /\ p \in DOMAIN seen /\ seen[p].grant = k)
           /\ ~(Issues(p) /\ k = p)
  <2>1. ASSUME NEW a \in Assets(k, lsn)' PROVE a \in Now(k)
    <3>1. a \in Assets(k, lsn) \/ (a = p /\ Mints(p) /\ seen[p].grant = k)
      BY <1>1, <1>5, AssetsAfter
    <3> QED BY <3>1 DEF Now, InHand, Mints
  <2>2. ASSUME NEW q \in InHand(k)' PROVE q \in Now(k)
    BY <1>1, <1>5, InHandAfter DEF Now
  <2>3. Now(k)' \subseteq Now(k) BY <2>1, <2>2 DEF Now
  <2> QED BY <1>1, <1>2, <2>3, FewerAtMost
<1> QED BY <1>3, <1>4, <1>5

LEMMA StepKeepsFork ==
    ASSUME Base, Isolated, Alone, ForkBound, NEW p \in Requests, RequestStep(p)
    PROVE  ForkBound'
<1> USE RowTypes
<1>1. /\ Typed /\ Typed' /\ RowsStamped /\ Frame(p)
      /\ timeline \in Nat /\ timeline' = timeline
  BY HandleTyped, RowsAfter DEF Base, RequestStep
<1>2. lsn \in Nat /\ lsn' \in {lsn, lsn + 1} BY <1>1, RowsAfter
<1>3. ASSUME NEW k \in Requests PROVE AtMost(Now(k), timeline + 1)'
  BY <1>1, NowAfter
<1>4. ASSUME NEW k \in Requests, NEW n \in Nat, n <= lsn'
      PROVE  AtMost(Assets(k, n), timeline + 1)'
  <2>1. CASE n <= lsn
    <3>1. AtMost(Assets(k, n), timeline + 1) BY <2>1 DEF ForkBound
    <3>2. Assets(k, n)' \subseteq Assets(k, n) BY <1>1, <2>1, OlderAssets
    <3> QED BY <1>1, <3>1, <3>2, FewerAtMost
  <2>2. CASE n = lsn'
    <3>1. AtMost(Now(k)', timeline + 1) BY <1>1, NowAfter
    <3>2. Assets(k, n)' \subseteq Now(k)' BY <2>2 DEF Now
    <3> QED BY <1>1, <3>1, <3>2, FewerAtMost
  <2> QED BY <1>2, <1>4, <2>1, <2>2
<1>5. ASSUME NEW q \in DOMAIN seen', pc'[q] = "spend"
      PROVE  AtMost(Assets(seen[q].grant, lsn) \ {req[q].key}, timeline)'
  <2>1. q \in Requests /\ InFlight(q)' BY <1>1, <1>5, RequestsAfter DEF InFlight
  <2>2. q = p BY <1>1, <2>1, AloneStep DEF Isolated
  <2>3. Reads(p)
    BY <1>1, <1>5, <2>2, StepKinds
    DEF RequestStep, Quiet, Issues, Mints, Stores, Spends
  <2>4. PICK g : g = seen'[p].grant OBVIOUS
  <2>5. /\ UNCHANGED <<lsn, codes, tokens, req>>
        /\ \/ g = req[p].key /\ Unused(g)
           \/ /\ req[p].key \in DOMAIN tokens /\ Live(req[p].key)
              /\ g = tokens[req[p].key].grant
    BY <1>1, <2>3, <2>4, ReadsSeen, PrimaryReads DEF Isolated
  <2>6. req[p].key \in Assets(g, lsn)
    BY <1>1, <2>5
    DEF Assets, Unused, Live, TokenVisible, Present, Holds, RowsStamped
  <2>7. g \in Requests BY <1>1, <2>5 DEF Unused
  <2>8. AtMost(Assets(g, lsn), timeline + 1) BY <1>2, <2>7 DEF ForkBound
  <2>9. AtMost(Assets(g, lsn) \ {req[p].key}, timeline)
    BY <1>1, <2>6, <2>8, OneLessAtMost
  <2>10. Assets(g, lsn)' = Assets(g, lsn)
    BY <2>5 DEF Assets, TokenVisible, Present
  <2>11. AtMost(Assets(g, lsn) \ {req[p].key}, timeline)'
    BY <1>1, <2>5, <2>9, <2>10
  <2> QED BY <2>2, <2>4, <2>11
<1> QED BY <1>3, <1>4, <1>5 DEF ForkBound

(***************************************************************************)
(* A failover may give back one redemption and one asset of every code     *)
(***************************************************************************)
LEMMA PromoteReplay ==
    ASSUME Base, ReplayBound, NEW n \in Seeded .. lsn - 1, Promote(n)
    PROVE  ReplayBound'
<1> USE RowTypes
<1>1. Typed BY DEF Base
<1>2. timeline \in Nat /\ timeline' = timeline + 1 BY <1>1, PromoteStep
<1>3. UNCHANGED <<pc, req, reply>> BY <1>1, PromoteStep
<1>4. \A k : Redemptions(k)' = Redemptions(k)
  BY <1>3 DEF Redemptions, Exchanges, Redeeming, Answered
<1>5. ASSUME NEW k \in Requests
      PROVE  AtMost(Redemptions(k), timeline + 1)' /\ AtMost(Redemptions(k), timeline)'
  <2>1. AtMost(Redemptions(k), timeline + 1) BY DEF ReplayBound
  <2>2. PICK S : S = Redemptions(k) OBVIOUS
  <2>3. AtMost(S, timeline + 2)
    <3>1. AtMost(S, timeline + 1) BY <2>1, <2>2
    <3>2. PICK a \in Nat : a = timeline + 1 BY <1>2
    <3>3. PICK b \in Nat : b = timeline + 2 BY <1>2
    <3>4. a <= b /\ S \subseteq S BY <1>2, <3>2, <3>3
    <3>5. AtMost(S, b) BY <3>1, <3>2, <3>4, FewerAtMost
    <3> QED BY <3>3, <3>5
  <2> QED BY <1>2, <1>4, <2>1, <2>2, <2>3
<1>6. ASSUME NEW p \in DOMAIN req', SpendsCode(p)'
      PROVE  AtMost(Redemptions(req[p].key), timeline)'
  <2>1. p \in DOMAIN req /\ req[p].kind = "authorization_code"
    BY <1>3, <1>6 DEF SpendsCode
  <2>2. req[p].key \in Requests
    BY <1>1, <2>1, RequestFields DEF KeyedKinds
  <2>3. PICK k : k = req[p].key OBVIOUS
  <2>4. AtMost(Redemptions(k), timeline)' BY <1>5, <2>2, <2>3
  <2> QED BY <1>3, <2>3, <2>4
<1> QED BY <1>5, <1>6 DEF ReplayBound

(* Nothing can be redeemed that could not be redeemed at position n.       *)
LEMMA CutAssets ==
    ASSUME Typed, NEW n \in Seeded .. lsn - 1, Promote(n), NEW k,
           NEW m \in Nat, m <= n
    PROVE  Assets(k, m)' \subseteq Assets(k, m)
<1> USE RowTypes
<1>1. n \in Nat BY PromoteStep
<1>2. \A stamp \in Nat : Holds(stamp, m) => Holds(Undo(stamp, n), m)
  BY <1>1 DEF Holds, Undo, Never
<1>3. ASSUME NEW t \in DOMAIN tokens', TokenVisible(t, m)', tokens'[t].grant = k
      PROVE  t \in Assets(k, m)
  <2>1. /\ t \in DOMAIN tokens /\ tokens'[t].at = tokens[t].at
        /\ tokens'[t].grant = tokens[t].grant
        /\ tokens'[t].deletedAt = Undo(tokens[t].deletedAt, n)
    BY <1>3, PromoteStep
  <2>2. tokens[t].deletedAt \in Nat BY <2>1
  <2> QED BY <1>2, <1>3, <2>1, <2>2 DEF Assets, TokenVisible, Present, Holds
<1>4. ASSUME NEW c \in DOMAIN codes', c = k, Present(codes, c, m)',
             ~Holds(codes'[c].usedAt, m)
      PROVE  c \in Assets(k, m)
  <2>1. /\ c \in DOMAIN codes /\ codes'[c].at = codes[c].at
        /\ codes'[c].usedAt = Undo(codes[c].usedAt, n)
    BY <1>4, PromoteStep
  <2>2. codes[c].usedAt \in Nat BY <2>1
  <2> QED BY <1>2, <1>4, <2>1, <2>2 DEF Assets, Present, Holds
<1> QED BY <1>3, <1>4 DEF Assets, Holds

LEMMA PromoteFork ==
    ASSUME Base, Alone, ForkBound, NEW n \in Seeded .. lsn - 1, Promote(n)
    PROVE  ForkBound'
<1> USE RowTypes
<1>1. Typed BY DEF Base
<1>2. /\ timeline \in Nat /\ timeline' = timeline + 1
      /\ n \in Nat /\ n < lsn /\ lsn' = n /\ lsn \in Nat
  BY <1>1, PromoteStep
<1>3. UNCHANGED <<pc, req, seen>> BY <1>1, PromoteStep DEF local
<1>4. ASSUME NEW k \in Requests, NEW m \in Nat, m <= n
      PROVE  AtMost(Assets(k, m)', timeline + 1)
  <2>1. AtMost(Assets(k, m), timeline + 1) BY <1>2, <1>4 DEF ForkBound
  <2>2. Assets(k, m)' \subseteq Assets(k, m) BY <1>1, <1>4, CutAssets
  <2> QED BY <1>2, <2>1, <2>2, FewerAtMost
<1>5. ASSUME NEW k \in Requests, NEW m \in Nat, m <= lsn'
      PROVE  AtMost(Assets(k, m), timeline + 1)'
  <2>1. AtMost(Assets(k, m)', timeline + 1) BY <1>2, <1>4, <1>5
  <2>2. AtMost(Assets(k, m)', timeline + 2) BY <1>2, <2>1, FewerAtMost
  <2> QED BY <1>2, <2>2
<1>6. ASSUME NEW k \in Requests PROVE AtMost(Now(k), timeline + 1)'
  <2>1. AtMost(Assets(k, n)', timeline + 1) BY <1>2, <1>4
  <2>2. InHand(k)' = InHand(k) BY <1>3 DEF InHand
  <2>3. \A p, q \in InHand(k) : p = q
    BY <1>1 DEF InHand, Alone, InFlight
  <2>4. PICK x : InHand(k) \subseteq {x} BY <2>3
  <2>5. Now(k)' \subseteq Assets(k, n)' \cup {x} BY <1>2, <2>2, <2>4 DEF Now
  <2>6. AtMost(Now(k)', timeline + 1 + 1) BY <1>2, <2>1, <2>5, OneMoreAtMost
  <2> QED BY <1>2, <2>6
<1>7. ASSUME NEW p \in DOMAIN seen', pc'[p] = "spend"
      PROVE  AtMost(Assets(seen[p].grant, lsn) \ {req[p].key}, timeline)'
  <2>1. PICK g : g = seen[p].grant OBVIOUS
  <2>2. g \in Requests BY <1>1, <1>3, <1>7, <2>1
  <2>3. AtMost(Assets(g, n)', timeline + 1) BY <1>2, <1>4, <2>2
  <2>4. PICK S : S = Assets(g, n)' OBVIOUS
  <2>5. AtMost(S \ {req[p].key}, timeline + 1) BY <1>2, <2>3, <2>4, FewerAtMost
  <2>6. Assets(g, lsn)' = S BY <1>2, <2>4 DEF Assets, TokenVisible, Present
  <2> QED BY <1>2, <1>3, <2>1, <2>5, <2>6
<1> QED BY <1>5, <1>6, <1>7 DEF ForkBound

(***************************************************************************)
(* The inductive invariant                                                 *)
(***************************************************************************)
FailoverInv ==
    /\ Base
    /\ Serialized => Alone
    /\ Isolated => ReplayBound /\ ForkBound

LEMMA InitFailover == Init => FailoverInv
<1> SUFFICES ASSUME Init PROVE FailoverInv
  OBVIOUS
<1>1. /\ DOMAIN req = {} /\ DOMAIN seen = {} /\ DOMAIN codes = {} /\ DOMAIN tokens = {}
      /\ timeline \in Nat
  BY EmptyIsTable DEF Init, DbInit
<1>2. Alone BY DEF Init, Alone, InFlight
<1>3. \A k : Redemptions(k) = {} BY <1>1 DEF Redemptions, Exchanges, Redeeming
<1>4. ReplayBound BY <1>1, <1>3, NoneAtMost DEF ReplayBound, Unused
<1>5. \A k, n : Assets(k, n) = {} BY <1>1 DEF Assets
<1>6. \A k : Now(k) = {} BY <1>1, <1>5 DEF Now, InHand
<1>7. ForkBound
  <2>1. AtMost({}, timeline + 1) BY <1>1, NoneAtMost
  <2> QED BY <1>1, <1>5, <1>6, <2>1 DEF ForkBound
<1> QED BY <1>2, <1>4, <1>7, InitBase DEF FailoverInv

LEMMA StepKeepsFailover == FailoverInv /\ [FailoverNext]_vars => FailoverInv'
<1> SUFFICES ASSUME FailoverInv, [FailoverNext]_vars PROVE FailoverInv'
  OBVIOUS
<1>1. Base /\ Typed /\ Base' BY StepKeepsBase DEF FailoverInv, Base
<1>2. Serialized' = Serialized /\ Isolated' = Isolated BY DEF Isolated
<1>3. CASE Surroundings
  <2>1. UNCHANGED <<lsn, timeline, tables, pc, req, local, reply>>
    BY <1>1, <1>3, SurroundingsStep
  <2>2. Serialized => Alone' BY <2>1 DEF FailoverInv, Alone, InFlight
  <2>3. \A k : Redemptions(k)' = Redemptions(k)
    BY <2>1 DEF Redemptions, Exchanges, Redeeming, Answered
  <2>4. Isolated => ReplayBound'
    BY <2>1, <2>3 DEF FailoverInv, ReplayBound, Unused, SpendsCode, tables
  <2>5. \A k, n : Assets(k, n)' = Assets(k, n)
    BY <2>1 DEF Assets, TokenVisible, Present, tables
  <2>6. \A k : Now(k)' = Now(k)
    BY <2>1, <2>5 DEF Now, InHand, local
  <2>7. Isolated => ForkBound'
    BY <2>1, <2>5, <2>6 DEF FailoverInv, ForkBound, local
  <2> QED BY <1>1, <1>2, <2>2, <2>4, <2>7 DEF FailoverInv
<1>4. CASE Promotion
  <2>1. PICK n \in Seeded .. lsn - 1 : Promote(n) BY <1>4 DEF Promotion
  <2>2. UNCHANGED pc BY <1>1, <2>1, PromoteStep
  <2>3. Serialized => Alone' BY <2>2 DEF FailoverInv, Alone, InFlight
  <2>4. Isolated => ReplayBound' /\ ForkBound'
    BY <1>1, <2>1, PromoteReplay, PromoteFork DEF FailoverInv, Isolated
  <2> QED BY <1>1, <1>2, <2>3, <2>4 DEF FailoverInv
<1>5. CASE \E p \in Requests : RequestStep(p)
  <2>1. PICK p \in Requests : RequestStep(p) BY <1>5
  <2>2. Frame(p) BY <1>1, <2>1, HandleTyped DEF RequestStep
  <2>3. Serialized => Alone'
    <3>1. Serialized => \A q \in Requests \ {p} : ~InFlight(q)'
      BY <1>1, <2>1, <2>2, AloneStep DEF FailoverInv
    <3> QED BY <3>1 DEF Alone
  <2>4. Isolated => ReplayBound' /\ ForkBound'
    BY <1>1, <2>1, StepKeepsReplay, StepKeepsFork DEF FailoverInv, Isolated
  <2> QED BY <1>1, <1>2, <2>3, <2>4 DEF FailoverInv
<1> QED BY <1>1, <1>3, <1>4, <1>5, FailoverSteps

LEMMA FailoverSuffices ==
    FailoverInv => /\ TypeOK /\ AccessWithinRegisteredScopes
                   /\ CodeReplayNeedsFailover /\ SessionForksNeedFailover
<1> SUFFICES ASSUME FailoverInv
             PROVE  /\ TypeOK /\ AccessWithinRegisteredScopes
                    /\ CodeReplayNeedsFailover /\ SessionForksNeedFailover
  OBVIOUS
<1> USE RowTypes
<1>1. Typed /\ RowsStamped /\ timeline \in Nat /\ lsn \in Nat
  BY DEF FailoverInv, Base
<1>2. TypeOK /\ AccessWithinRegisteredScopes
  BY DEF FailoverInv, Base, Typed, Permitted
<1>3. CodeReplayNeedsFailover
  <2>1. SUFFICES ASSUME Isolated, NEW k \in DOMAIN req
                 PROVE  Cardinality(Exchanges(k)) <= 1 + timeline
    BY DEF CodeReplayNeedsFailover
  <2>2. k \in Requests BY <1>1
  <2>3. AtMost(Redemptions(k), timeline + 1)
    BY <2>1, <2>2 DEF FailoverInv, ReplayBound
  <2>4. AtMost(Exchanges(k), timeline + 1)
    BY <1>1, <2>3, FewerAtMost DEF Redemptions
  <2> QED BY <1>1, <2>4 DEF AtMost
<1>4. SessionForksNeedFailover
  <2>1. SUFFICES ASSUME Isolated, NEW k \in DOMAIN req
                 PROVE  Cardinality(LiveTokens(k)) <= 1 + timeline
    BY DEF SessionForksNeedFailover
  <2>2. k \in Requests BY <1>1
  <2>3. AtMost(Assets(k, lsn), timeline + 1)
    BY <1>1, <2>1, <2>2 DEF FailoverInv, ForkBound
  <2>4. LiveTokens(k) \subseteq Assets(k, lsn)
    BY <1>1 DEF LiveTokens, Live, Assets, TokenVisible, Present, Holds, RowsStamped
  <2>5. AtMost(LiveTokens(k), timeline + 1) BY <1>1, <2>3, <2>4, FewerAtMost
  <2> QED BY <1>1, <2>5 DEF AtMost
<1> QED BY <1>2, <1>3, <1>4

(* Whatever part of the log a failover loses, and wherever it falls among  *)
(* the steps of the handlers, no row is left that a handler could not have *)
(* written, the registrations of users and clients among the rows lost     *)
(* (Promote, over the whole of auth-service).                              *)
THEOREM FailoverTypeCorrect == FailoverSpec => []TypeOK
BY InitFailover, StepKeepsFailover, FailoverSuffices, PTL DEF FailoverSpec

(* No access token names a scope that the registration of its client did   *)
(* not ask for, also when that registration, or any other row the token    *)
(* was read from, is lost before the token is signed or afterwards.        *)
THEOREM FailoverAccessWithinScopes == FailoverSpec => []AccessWithinRegisteredScopes
BY InitFailover, StepKeepsFailover, FailoverSuffices, PTL DEF FailoverSpec

(* The same of auth-service alone, which has no failover: requests at any  *)
(* time, clients read from Redis or from a lagging replica.                *)
THEOREM AccessWithinScopes == Spec => []AccessWithinRegisteredScopes
<1>1. [Next]_vars => [FailoverNext]_vars BY DEF FailoverNext
<1> QED
  BY <1>1, InitFailover, StepKeepsFailover, FailoverSuffices, PTL DEF Spec

(* Requests one at a time, reads from the primary: an authorization code   *)
(* is exchanged at most once more than there were failovers, for any       *)
(* number of them and any part of the log lost (find_by_code, mark_used    *)
(* and the steps of exchange_authorization_code after them).               *)
THEOREM CodeReplayBounded == FailoverSpec => []CodeReplayNeedsFailover
BY InitFailover, StepKeepsFailover, FailoverSuffices, PTL DEF FailoverSpec

(* Then a user's consent has at most one live refresh token more than      *)
(* there were failovers (delete_by_token, and the INSERT of the rotation   *)
(* that may reach another primary than its DELETE).                        *)
THEOREM SessionForksBounded == FailoverSpec => []SessionForksNeedFailover
BY InitFailover, StepKeepsFailover, FailoverSuffices, PTL DEF FailoverSpec

=============================================================================
