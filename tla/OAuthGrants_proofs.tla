------------------------- MODULE OAuthGrants_proofs -------------------------
(***************************************************************************)
(* The safety of authorization codes and refresh tokens, for any sets of   *)
(* requests, replicas, users, clients and scopes.  The inductive invariant *)
(* IInv is built in layers over Inv1 (OAuthService_proofs): Stamps relates *)
(* the log positions of reads and writes, Descent what a token came from,  *)
(* Isolation what one request at a time adds.  Over IInv, Refusals and     *)
(* Sessions say what a service without failures owes its callers: no good  *)
(* code or refresh token is refused, and no session is lost in a rotation. *)
(* Last, a service that takes its requests one at a time and reads from    *)
(* the primary implements GrantLifecycle.                                  *)
(***************************************************************************)
EXTENDS OAuthService_proofs, OAuthRefinement

(***************************************************************************)
(* Stamps: log positions of the reads and writes of a grant.               *)
(***************************************************************************)
(* The position at which the grant of request p was first spent.           *)
StampOf(p) == IF req[p].kind = "authorization_code"
              THEN codes[req[p].key].usedAt ELSE tokens[req[p].key].deletedAt

WriteStamped(p) ==
    /\ wroteAt[p] <= lsn
    /\ wroteAt[p] # Never =>
          /\ p \in DOMAIN req /\ req[p].kind \in KeyedKinds
          /\ StampOf(p) # Never /\ StampOf(p) <= wroteAt[p]
ReadStamped(p) == p \in DOMAIN seen =>
    /\ readAt[p] <= lsn
    /\ StampOf(p) # Never => readAt[p] < StampOf(p)
    /\ p \in DOMAIN tokens \/ pc[p] \in {"user", "mint"} => wroteAt[p] # Never
Stamps == RowsStamped /\ \A p \in Requests : WriteStamped(p) /\ ReadStamped(p)

(***************************************************************************)
(* Descent: what a request has read of a grant, and what that came from.   *)
(***************************************************************************)
SeenDescends(p) ==
    LET code == codes[seen[p].grant] IN
    /\ seen[p].grant \in DOMAIN codes
    /\ seen[p].user = code.user /\ seen[p].scopes = code.scopes
    /\ req[p].client = code.client
    /\ \/ req[p].kind = "authorization_code" /\ seen[p].grant = req[p].key
       \/ req[p].kind = "refresh_token" /\ seen[p].grant = tokens[req[p].key].grant

Descent ==
    /\ \A k \in DOMAIN codes : WithinClient(codes[k].client, codes[k].scopes)
    /\ \A p \in Requests : AuthorizedWithin(p)
    /\ \A p \in DOMAIN seen : SeenDescends(p)
    /\ \A t \in DOMAIN tokens : TokenDescends(t)
    /\ \A p \in DOMAIN access : WithinClient(access[p].client, access[p].scopes)

(***************************************************************************)
(* Isolation: requests one at a time, reads from the primary.              *)
(***************************************************************************)
SpendsFirst(p) == p \in DOMAIN seen =>
    /\ pc[p] = "spend" => StampOf(p) = Never
    /\ p \in DOMAIN tokens \/ pc[p] \in {"user", "mint"} => wroteAt[p] = StampOf(p)
NoneLive(p) == p \in DOMAIN seen /\ pc[p] \in {"user", "mint"} =>
    \A t \in DOMAIN tokens : Live(t) => tokens[t].grant # seen[p].grant
UniqueWrites == \A p, q \in Requests :
    wroteAt[p] = wroteAt[q] /\ wroteAt[p] # Never => p = q

Isolation ==
    /\ UniqueWrites
    /\ Isolated => Alone /\ OneLiveTokenPerCode
                   /\ \A p \in Requests : SpendsFirst(p) /\ NoneLive(p)

IInv == Inv1 /\ Stamps /\ Descent /\ Isolation

(***************************************************************************)
(* Stamps                                                                  *)
(***************************************************************************)
(* The types of what Stamps compares.                                      *)
LEMMA StampTypes ==
    ASSUME Inv1
    PROVE  /\ lsn \in Nat /\ lsn # Never
           /\ \A k \in DOMAIN codes :
                 /\ codes[k].at \in Nat /\ codes[k].usedAt \in Nat
                 /\ codes[k].user \in Users
           /\ \A t \in DOMAIN tokens : tokens[t].at \in Nat /\ tokens[t].deletedAt \in Nat
           /\ DOMAIN codes \subseteq Requests /\ DOMAIN tokens \subseteq Requests
           /\ DOMAIN seen \subseteq DOMAIN req /\ DOMAIN req \subseteq Requests
           /\ \A p \in Requests : readAt[p] \in Nat /\ wroteAt[p] \in Nat
           /\ \A p \in DOMAIN req : req[p].kind \in KeyedKinds => StampOf(p) \in Nat
           /\ \A p \in DOMAIN seen : req[p].kind \in KeyedKinds
           /\ \A p \in DOMAIN req :
                 /\ req[p].kind = "authorization_code" => req[p].key \in DOMAIN codes
                 /\ req[p].kind \in {"refresh_token", "revoke"} =>
                       req[p].key \in DOMAIN tokens
<1>1. lsn \in Nat /\ lsn # Never BY DEF Inv1, TypeOK, DbTypeOK
<1>2. codes \in [DOMAIN codes -> CodeRow] /\ tokens \in [DOMAIN tokens -> TokenRow]
      /\ DOMAIN codes \subseteq Requests /\ DOMAIN tokens \subseteq Requests
  BY DEF Inv1, TypeOK, IsTable
<1>3. \A k \in DOMAIN codes : codes[k].at \in Nat /\ codes[k].usedAt \in Nat
                              /\ codes[k].user \in Users
  BY <1>2 DEF CodeRow
<1>4. \A t \in DOMAIN tokens : tokens[t].at \in Nat /\ tokens[t].deletedAt \in Nat
  BY <1>2 DEF TokenRow
<1>5. /\ DOMAIN req \subseteq Requests /\ DOMAIN seen \subseteq Requests
      /\ \A p \in Requests : readAt[p] \in Nat /\ wroteAt[p] \in Nat
  BY DEF Inv1, TypeOK, IsTable
<1>6. ASSUME NEW p \in Requests PROVE RequestOK(p) BY DEF Inv1, Control
<1>7. /\ DOMAIN seen \subseteq DOMAIN req
      /\ \A p \in DOMAIN seen : req[p].kind \in KeyedKinds
  BY <1>5, <1>6 DEF RequestOK, SeenOK, TokenGrants, KeyedKinds
<1>8. \A p \in DOMAIN req :
         /\ req[p].kind = "authorization_code" => req[p].key \in DOMAIN codes
         /\ req[p].kind \in {"refresh_token", "revoke"} => req[p].key \in DOMAIN tokens
  BY <1>5 DEF Inv1, References, KeyOK
<1>9. \A p \in DOMAIN req : req[p].kind \in KeyedKinds => StampOf(p) \in Nat
  BY <1>3, <1>4, <1>8 DEF StampOf, KeyedKinds
<1> QED BY <1>1, <1>2, <1>3, <1>4, <1>5, <1>7, <1>8, <1>9

(* The stamp of every request's grant, before and after a step.            *)
LEMMA StampAfter ==
    ASSUME Inv1, NEW p \in Requests, UNCHANGED req \/ p \notin DOMAIN req,
           Frame(p), p \notin DOMAIN codes, p \notin DOMAIN tokens,
           NEW q \in DOMAIN req, req[q].kind \in KeyedKinds
    PROVE  /\ q \in DOMAIN req' /\ req'[q] = req[q]
           /\ Stamped(StampOf(q), StampOf(q)')
           /\ UNCHANGED <<codes, tokens>> => StampOf(q)' = StampOf(q)
<1>1. q \in DOMAIN req' /\ req'[q] = req[q] BY DEF Frame, GrowsBy
<1>2. CASE req[q].kind = "authorization_code"
  <2>1. req[q].key \in DOMAIN codes \ {p} BY <1>2, StampTypes
  <2> QED BY <1>1, <1>2, <2>1 DEF StampOf, Frame, CodesGrow
<1>3. CASE req[q].kind # "authorization_code"
  <2>1. req[q].key \in DOMAIN tokens \ {p} BY <1>3, StampTypes DEF KeyedKinds
  <2> QED BY <1>1, <1>3, <2>1 DEF StampOf, Frame, TokensGrow
<1> QED BY <1>2, <1>3

(* The step that spends a grant stamps it, if no earlier one has.          *)
LEMMA SpendStamps ==
    ASSUME Inv1, NEW p \in Requests, p \in DOMAIN req, Spends(p)
    PROVE  /\ lsn' = lsn + 1 /\ UNCHANGED <<req, seen, readAt>>
           /\ wroteAt' = [wroteAt EXCEPT ![p] = lsn + 1]
           /\ req[p].kind \in KeyedKinds
           /\ \A q \in DOMAIN req : req[q].kind \in KeyedKinds =>
                 StampOf(q)' = IF SameGrant(p, q) THEN Stamp(StampOf(q)) ELSE StampOf(q)
           /\ \A k \in DOMAIN codes : codes'[k].usedAt \in {codes[k].usedAt, lsn + 1}
           /\ \A t \in DOMAIN tokens : tokens'[t].deletedAt \in {tokens[t].deletedAt, lsn + 1}
<1>1. UNCHANGED req BY DEF Spends
<1>2. CASE MarkUsed(p) /\ UNCHANGED tokens /\ req[p].kind = "authorization_code"
  <2>1. /\ lsn' = lsn + 1 /\ UNCHANGED <<seen, readAt>>
        /\ wroteAt' = [wroteAt EXCEPT ![p] = lsn + 1]
        /\ codes' = [codes EXCEPT ![req[p].key].usedAt = Stamp(@)]
    BY <1>2, CommitStep DEF MarkUsed
  <2>2. codes \in [DOMAIN codes -> CodeRow] BY DEF Inv1, TypeOK, IsTable
  <2>3. \A k \in DOMAIN codes :
           codes'[k].usedAt = IF k = req[p].key THEN Stamp(codes[k].usedAt)
                              ELSE codes[k].usedAt
    BY <2>1, <2>2 DEF CodeRow
  <2>4. ASSUME NEW q \in DOMAIN req, req[q].kind \in KeyedKinds
        PROVE  StampOf(q)' = IF SameGrant(p, q) THEN Stamp(StampOf(q)) ELSE StampOf(q)
    BY <1>1, <1>2, <2>3, <2>4, StampTypes DEF StampOf, SameGrant, KeyedKinds
  <2> QED BY <1>1, <1>2, <2>1, <2>3, <2>4 DEF Stamp, KeyedKinds
<1>3. CASE /\ DeleteToken(p) /\ UNCHANGED codes
           /\ req[p].kind \in {"refresh_token", "revoke"}
  <2>1. /\ lsn' = lsn + 1 /\ UNCHANGED <<seen, readAt>>
        /\ wroteAt' = [wroteAt EXCEPT ![p] = lsn + 1]
        /\ tokens' = [tokens EXCEPT ![req[p].key].deletedAt = Stamp(@)]
    BY <1>3, CommitStep DEF DeleteToken
  <2>2. tokens \in [DOMAIN tokens -> TokenRow] BY DEF Inv1, TypeOK, IsTable
  <2>3. \A t \in DOMAIN tokens :
           tokens'[t].deletedAt = IF t = req[p].key THEN Stamp(tokens[t].deletedAt)
                                  ELSE tokens[t].deletedAt
    BY <2>1, <2>2 DEF TokenRow
  <2>4. ASSUME NEW q \in DOMAIN req, req[q].kind \in KeyedKinds
        PROVE  StampOf(q)' = IF SameGrant(p, q) THEN Stamp(StampOf(q)) ELSE StampOf(q)
    BY <1>1, <1>3, <2>3, <2>4, StampTypes DEF StampOf, SameGrant, KeyedKinds
  <2> QED BY <1>1, <1>3, <2>1, <2>3, <2>4 DEF Stamp, KeyedKinds
<1> QED BY <1>2, <1>3 DEF Spends

LEMMA InitStamps == Init => Stamps
<1> SUFFICES ASSUME Init PROVE Stamps
  OBVIOUS
<1>1. DOMAIN codes = {} /\ DOMAIN tokens = {} /\ DOMAIN seen = {}
  BY EmptyIsTable DEF Init
<1>2. \A p \in Requests : wroteAt[p] = Never BY DEF Init
<1>3. lsn = 1 BY DEF Init, DbInit, Seeded
<1> QED BY <1>1, <1>2, <1>3 DEF Stamps, RowsStamped, WriteStamped, ReadStamped, Never

LEMMA QuietStamps ==
    ASSUME Inv1, Stamps, NEW p \in Requests, Quiet(p), Frame(p)
    PROVE  Stamps'
<1> USE DEF Quiet
<1>1. lsn' >= lsn /\ lsn' \in Nat BY StampTypes
<1>2. RowsStamped' BY <1>1, StampTypes DEF Stamps, RowsStamped
<1>3. ASSUME NEW q \in DOMAIN req, req[q].kind \in KeyedKinds
      PROVE  q \in DOMAIN req' /\ req'[q] = req[q] /\ StampOf(q)' = StampOf(q)
  BY <1>3 DEF StampOf, Frame, GrowsBy
<1>4. ASSUME NEW q \in Requests PROVE WriteStamped(q)'
  BY <1>1, <1>3, StampTypes DEF Stamps, WriteStamped
<1>5. ASSUME NEW q \in Requests PROVE ReadStamped(q)'
  <2> SUFFICES ASSUME q \in DOMAIN seen PROVE ReadStamped(q)'
    BY DEF ReadStamped
  <2>1. q \in DOMAIN req /\ req[q].kind \in KeyedKinds BY StampTypes
  <2>2. StampOf(q)' = StampOf(q) BY <1>3, <2>1
  <2>3. pc'[q] \in {"user", "mint"} => pc[q] \in {"user", "mint"}
    BY DEF Frame
  <2> QED BY <1>1, <2>2, <2>3, StampTypes DEF Stamps, ReadStamped
<1> QED BY <1>2, <1>4, <1>5 DEF Stamps

LEMMA StoreStamps ==
    ASSUME Inv1, Stamps, NEW p \in Requests, Issues(p) \/ Mints(p), Frame(p),
           p \notin DOMAIN codes, p \notin DOMAIN tokens
    PROVE  Stamps'
<1> USE DEF Stores, local
<1>1. lsn' = lsn + 1 /\ UNCHANGED <<req, seen, readAt, wroteAt>>
  BY DEF Issues, Mints
<1>2. RowsStamped'
  <2>1. CASE Issues(p)
    BY <1>1, <2>1, StampTypes DEF Issues, Insert, Stamps, RowsStamped, Never
  <2>2. CASE Mints(p)
    BY <1>1, <2>2, StampTypes DEF Mints, Insert, Stamps, RowsStamped, Never
  <2> QED BY <2>1, <2>2
<1>3. ASSUME NEW q \in DOMAIN req, req[q].kind \in KeyedKinds
      PROVE  StampOf(q)' = StampOf(q)
  <2>1. CASE Issues(p)
    BY <1>1, <1>3, <2>1, StampTypes DEF Issues, Insert, StampOf, KeyedKinds
  <2>2. CASE Mints(p)
    BY <1>1, <1>3, <2>2, StampTypes DEF Mints, Insert, StampOf, KeyedKinds
  <2> QED BY <2>1, <2>2
<1>4. ASSUME NEW q \in Requests PROVE WriteStamped(q)'
  BY <1>1, <1>3, StampTypes DEF Stamps, WriteStamped
<1>5. ASSUME NEW q \in Requests PROVE ReadStamped(q)'
  <2> SUFFICES ASSUME q \in DOMAIN seen PROVE ReadStamped(q)'
    BY <1>1 DEF ReadStamped
  <2>1. q \in DOMAIN req /\ req[q].kind \in KeyedKinds BY StampTypes
  <2>2. StampOf(q)' = StampOf(q) BY <1>3, <2>1
  <2>3. pc'[q] \in {"user", "mint"} => pc[q] \in {"user", "mint"}
    BY DEF Frame, Issues, Mints
  <2>4. q \in DOMAIN tokens' => q \in DOMAIN tokens \/ pc[q] = "mint"
    BY DEF Insert, Issues, Mints
  <2> QED BY <1>1, <2>2, <2>3, <2>4, StampTypes DEF Stamps, ReadStamped
<1> QED BY <1>2, <1>4, <1>5 DEF Stamps

LEMMA SpendsStamps ==
    ASSUME Inv1, Stamps, NEW p \in Requests, p \in DOMAIN req, Spends(p), Frame(p)
    PROVE  Stamps'
<1>1. /\ lsn' = lsn + 1 /\ UNCHANGED <<req, seen, readAt>>
      /\ wroteAt' = [wroteAt EXCEPT ![p] = lsn + 1]
      /\ req[p].kind \in KeyedKinds
  BY SpendStamps
<1>2. DOMAIN codes' = DOMAIN codes /\ DOMAIN tokens' = DOMAIN tokens
      /\ (\A k \in DOMAIN codes : codes'[k].at = codes[k].at)
      /\ (\A t \in DOMAIN tokens : tokens'[t].at = tokens[t].at)
  <2>1. codes \in [DOMAIN codes -> CodeRow] /\ tokens \in [DOMAIN tokens -> TokenRow]
    BY DEF Inv1, TypeOK, IsTable
  <2>2. CASE MarkUsed(p) /\ UNCHANGED tokens BY <2>1, <2>2 DEF MarkUsed, CodeRow
  <2>3. CASE DeleteToken(p) /\ UNCHANGED codes BY <2>1, <2>3 DEF DeleteToken, TokenRow
  <2> QED BY <2>2, <2>3 DEF Spends
<1>3. RowsStamped'
  <2>1. \A k \in DOMAIN codes : codes'[k].usedAt \in {codes[k].usedAt, lsn + 1}
    BY SpendStamps
  <2>2. \A t \in DOMAIN tokens : tokens'[t].deletedAt \in {tokens[t].deletedAt, lsn + 1}
    BY SpendStamps
  <2> QED BY <1>1, <1>2, <2>1, <2>2, StampTypes DEF Stamps, RowsStamped
<1>4. ASSUME NEW q \in DOMAIN req, req[q].kind \in KeyedKinds
      PROVE  /\ StampOf(q) \in Nat /\ StampOf(q)' \in Nat
             /\ StampOf(q)' = StampOf(q) \/ (StampOf(q) = Never /\ StampOf(q)' = lsn + 1)
             /\ q = p => StampOf(q)' # Never
  <2>1. StampOf(q) \in Nat /\ lsn + 1 \in Nat /\ lsn + 1 # Never
    BY <1>4, StampTypes DEF Never
  <2>2. StampOf(q)' = IF SameGrant(p, q) THEN Stamp(StampOf(q)) ELSE StampOf(q)
    BY <1>4, SpendStamps
  <2>3. q = p => SameGrant(p, q) BY <1>4 DEF SameGrant
  <2> QED BY <2>1, <2>2, <2>3 DEF Stamp
<1>5. ASSUME NEW q \in Requests PROVE WriteStamped(q)'
  <2>1. CASE q = p
    <3>1. wroteAt'[q] = lsn + 1 BY <1>1, <2>1 DEF Inv1, TypeOK
    <3>2. StampOf(q) <= lsn
      BY <1>1, <1>4, <2>1, StampTypes DEF Stamps, RowsStamped, StampOf, KeyedKinds
    <3> QED BY <1>1, <1>4, <2>1, <3>1, <3>2, StampTypes DEF WriteStamped
  <2>2. CASE q # p
    <3>1. wroteAt'[q] = wroteAt[q] BY <1>1, <2>2 DEF Inv1, TypeOK
    <3> QED BY <1>1, <1>4, <3>1, StampTypes DEF Stamps, WriteStamped
  <2> QED BY <2>1, <2>2
<1>6. ASSUME NEW q \in Requests PROVE ReadStamped(q)'
  <2> SUFFICES ASSUME q \in DOMAIN seen PROVE ReadStamped(q)'
    BY <1>1 DEF ReadStamped
  <2>1. q \in DOMAIN req /\ req[q].kind \in KeyedKinds BY StampTypes
  <2>2. StampOf(q)' # Never => readAt[q] < StampOf(q)'
    BY <1>4, <2>1, StampTypes DEF Stamps, ReadStamped
  <2>3. q \in DOMAIN tokens' \/ pc'[q] \in {"user", "mint"} => wroteAt'[q] # Never
    <3>1. CASE q = p BY <1>1, <3>1, StampTypes DEF Inv1, TypeOK, Never
    <3>2. CASE q # p
      BY <1>2, <3>2 DEF Frame, Stamps, ReadStamped
    <3> QED BY <3>1, <3>2
  <2> QED BY <1>1, <2>2, <2>3, StampTypes DEF Stamps, ReadStamped
<1> QED BY <1>3, <1>5, <1>6 DEF Stamps

LEMMA ReadsStamps ==
    ASSUME Inv1, Stamps, NEW p \in Requests, p \in DOMAIN req, Reads(p), Frame(p),
           p \notin DOMAIN tokens
    PROVE  Stamps'
<1>1. UNCHANGED <<lsn, codes, tokens, req, wroteAt>> /\ pc'[p] = "spend"
  BY DEF Reads, Remember
<1>2. PICK point \in ReadPoints :
          \/ /\ req[p].kind = "authorization_code"
             /\ CodeRedeemable(req[p], point)
             /\ Remember(p, codes[req[p].key], req[p].key, point)
          \/ /\ req[p].kind = "refresh_token"
             /\ TokenVisible(req[p].key, point)
             /\ Remember(p, tokens[req[p].key], tokens[req[p].key].grant, point)
  BY DEF Reads
<1>3. point \in Nat /\ point <= lsn BY Inv1Typed, ReadPointsBelow
<1>4. readAt' = [readAt EXCEPT ![p] = point] /\ DOMAIN seen' = DOMAIN seen \cup {p}
  BY <1>2 DEF Remember, Insert
<1>5. StampOf(p) # Never => point < StampOf(p)
  BY <1>2, <1>3, StampTypes
  DEF StampOf, CodeRedeemable, TokenVisible, Holds, KeyedKinds
<1>6. RowsStamped' BY <1>1 DEF Stamps, RowsStamped
<1>7. \A q : StampOf(q)' = StampOf(q) BY <1>1 DEF StampOf
<1>8. ASSUME NEW q \in Requests PROVE WriteStamped(q)'
  BY <1>1, <1>7 DEF Stamps, WriteStamped
<1>9. ASSUME NEW q \in Requests PROVE ReadStamped(q)'
  <2>1. CASE q = p
    <3>1. readAt'[q] = point BY <1>4, <2>1 DEF Inv1, TypeOK
    <3> QED BY <1>1, <1>3, <1>5, <1>7, <2>1, <3>1 DEF ReadStamped
  <2>2. CASE q # p
    <3>1. readAt'[q] = readAt[q] BY <1>4, <2>2 DEF Inv1, TypeOK
    <3>2. pc'[q] = pc[q] BY <2>2 DEF Frame
    <3> QED BY <1>1, <1>4, <1>7, <2>2, <3>1, <3>2 DEF Stamps, ReadStamped
  <2> QED BY <2>1, <2>2
<1> QED BY <1>6, <1>8, <1>9 DEF Stamps

LEMMA BeforeStep ==
    ASSUME Inv1, NEW p \in Requests,
           Issues(p) \/ Mints(p) \/ Spends(p) \/ Reads(p)
    PROVE  /\ InFlight(p) /\ p \in DOMAIN req
           /\ p \notin DOMAIN codes /\ p \notin DOMAIN tokens
<1>1. InFlight(p) BY DEF Issues, Mints, Spends, Reads, InFlight
<1> QED BY <1>1, Inv1Typed, InFlightFacts

LEMMA SurroundingsStamps == ASSUME Inv1, Stamps, Surroundings PROVE Stamps'
BY Inv1Typed, SurroundingsStep
DEF Stamps, RowsStamped, WriteStamped, ReadStamped, StampOf, tables, local

LEMMA StepKeepsStamps == Inv1 /\ Stamps /\ [Next]_vars => Stamps'
<1> SUFFICES ASSUME Inv1, Stamps, [Next]_vars PROVE Stamps'
  OBVIOUS
<1>1. CASE Surroundings BY <1>1, SurroundingsStamps
<1>2. ASSUME NEW p \in Requests,
             Arrive(p) \/ RejectMalformed(p) \/ Handle(p) \/ Crash(p)
      PROVE  Stamps'
  <2>1. Frame(p) BY <1>2, HandleInv1
  <2>2. Quiet(p) \/ Issues(p) \/ Mints(p) \/ Spends(p) \/ Reads(p)
    BY <1>2, Inv1Typed, StepKinds
  <2> QED
    BY <2>1, <2>2, BeforeStep, QuietStamps, StoreStamps, SpendsStamps, ReadsStamps
<1> QED BY <1>1, <1>2, NextSteps

LEMMA StampsSuffice == Inv1 /\ Stamps => SpentGrantsStaySpent
<1> SUFFICES ASSUME Inv1, Stamps, NEW p \in DOMAIN seen, NEW q \in DOMAIN req,
                    SameGrant(p, q), wroteAt[q] # Never
             PROVE  readAt[p] < wroteAt[q]
  BY DEF SpentGrantsStaySpent
<1>1. p \in Requests /\ q \in Requests BY StampTypes
<1>2. StampOf(p) = StampOf(q) BY DEF SameGrant, StampOf
<1>3. StampOf(q) # Never /\ StampOf(q) <= wroteAt[q]
  BY <1>1 DEF Stamps, WriteStamped
<1>4. readAt[p] < StampOf(p) BY <1>1, <1>2, <1>3 DEF Stamps, ReadStamped
<1> QED
  BY <1>1, <1>2, <1>3, <1>4, StampTypes DEF SameGrant

(* However many requests, replicas and failures there are, a request that  *)
(* passed the lookup of an authorization code or refresh token read it     *)
(* before every other use or revocation of it was visible where it read:   *)
(* exchange_authorization_code and exchange_refresh_token can spend a      *)
(* grant twice only in the window between a read and its write.            *)
THEOREM SpentStaysSpent == Spec => []SpentGrantsStaySpent
<1>1. Init => Inv1 /\ Stamps BY InitInv1, InitStamps
<1>2. Inv1 /\ Stamps /\ [Next]_vars => Inv1' /\ Stamps'
  BY StepKeepsInv1, StepKeepsStamps
<1> QED BY <1>1, <1>2, StampsSuffice, PTL DEF Spec

(***************************************************************************)
(* Descent                                                                 *)
(***************************************************************************)
LEMMA ActingRequest ==
    ASSUME Inv1, NEW p \in Requests,
           Arrive(p) \/ RejectMalformed(p) \/ Handle(p) \/ Crash(p)
    PROVE  /\ p \notin DOMAIN codes /\ p \notin DOMAIN tokens
           /\ p \notin DOMAIN clients
BY Inv1Typed, ActingTyped DEF RequestStep

LEMMA InitDescent == Init => Descent
<1> SUFFICES ASSUME Init PROVE Descent
  OBVIOUS
<1>1. DOMAIN codes = {} /\ DOMAIN tokens = {} /\ DOMAIN seen = {} /\ DOMAIN access = {}
  BY EmptyIsTable DEF Init
<1>2. \A p \in Requests : pc[p] = "new" BY DEF Init
<1> QED BY <1>1, <1>2 DEF Descent, AuthorizedWithin

(* What a step of p leaves of the rows, reads and answers of the others.   *)
LEMMA DescentKept ==
    ASSUME Inv1, Descent, NEW p \in Requests, Frame(p),
           p \in DOMAIN req => UNCHANGED req, p \notin DOMAIN codes,
           p \notin DOMAIN tokens, p \notin DOMAIN clients
    PROVE  /\ \A k \in DOMAIN codes : WithinClient(codes[k].client, codes[k].scopes)'
           /\ \A q \in Requests \ {p} : AuthorizedWithin(q)'
           /\ \A q \in DOMAIN seen : seen'[q] = seen[q] => SeenDescends(q)'
           /\ \A t \in DOMAIN tokens : TokenDescends(t)'
           /\ \A q \in DOMAIN access :
                 access'[q] = access[q] =>
                     WithinClient(access[q].client, access[q].scopes)'
<1>1. \A c, s : WithinClient(c, s) => c \in DOMAIN clients' /\ s \subseteq clients'[c]. scopes
  BY DEF WithinClient, Frame, GrowsBy
<1>2. \A k \in DOMAIN codes :
         /\ k \in DOMAIN codes' /\ SameConsent(codes[k], codes'[k])
         /\ codes[k].usedAt # Never => codes'[k].usedAt = codes[k].usedAt
  BY DEF Frame, CodesGrow, Stamped
<1>3. \A t \in DOMAIN tokens :
         /\ t \in DOMAIN tokens' /\ SameConsent(tokens[t], tokens'[t])
         /\ tokens'[t].grant = tokens[t].grant /\ tokens'[t].at = tokens[t].at
  BY DEF Frame, TokensGrow
<1>4. \A k \in DOMAIN codes : WithinClient(codes[k].client, codes[k].scopes)'
  BY <1>1, <1>2 DEF Descent, WithinClient, SameConsent
<1>5. ASSUME NEW q \in Requests \ {p} PROVE AuthorizedWithin(q)'
  <2> SUFFICES ASSUME pc[q] \in {"credentials", "issue"} PROVE AuthorizedWithin(q)'
    BY DEF Frame, AuthorizedWithin
  <2>1. q \in DOMAIN req
    BY DEF Inv1, Control, RequestOK, LabelOK, InFlight
  <2>2. req'[q] = req[q] BY <2>1 DEF Frame, GrowsBy
  <2> QED BY <1>1, <2>2 DEF Descent, AuthorizedWithin, WithinClient
<1>6. ASSUME NEW q \in DOMAIN seen, seen'[q] = seen[q] PROVE SeenDescends(q)'
  <2>1. q \in DOMAIN req /\ (req[q].kind = "refresh_token" => req[q].key \in DOMAIN tokens)
    BY StampTypes
  <2>2. SeenDescends(q) BY DEF Descent
  <2>3. req'[q] = req[q]
    <3>1. CASE q # p BY <2>1, <3>1 DEF Frame, GrowsBy
    <3>2. CASE q = p BY <2>1, <3>2
    <3> QED BY <3>1, <3>2
  <2> QED BY <1>2, <1>3, <1>6, <2>1, <2>2, <2>3 DEF SeenDescends, SameConsent
<1>7. ASSUME NEW t \in DOMAIN tokens PROVE TokenDescends(t)'
  <2>1. TokenDescends(t) BY DEF Descent
  <2> QED BY <1>2, <1>3, <2>1 DEF TokenDescends, SameConsent
<1>8. ASSUME NEW q \in DOMAIN access, access'[q] = access[q]
      PROVE  WithinClient(access[q].client, access[q].scopes)'
  BY <1>1, <1>8 DEF Descent, WithinClient
<1> QED BY <1>4, <1>5, <1>6, <1>7, <1>8

LEMMA StepKeepsDescent ==
    ASSUME Inv1, Stamps, Descent, NEW p \in Requests,
           Arrive(p) \/ RejectMalformed(p) \/ Handle(p) \/ Crash(p)
    PROVE  Descent'
<1>1. Frame(p) BY HandleInv1
<1>2. p \notin DOMAIN codes /\ p \notin DOMAIN tokens /\ p \notin DOMAIN clients
  BY ActingRequest
<1>3. p \in DOMAIN req => UNCHANGED req
  <2>1. Quiet(p) \/ Issues(p) \/ Mints(p) \/ Spends(p) \/ Reads(p) BY Inv1Typed, StepKinds
  <2> QED BY <2>1 DEF Quiet, Issues, Mints, Stores, Spends, Reads
<1>4. /\ \A k \in DOMAIN codes : WithinClient(codes[k].client, codes[k].scopes)'
      /\ \A q \in Requests \ {p} : AuthorizedWithin(q)'
      /\ \A q \in DOMAIN seen : seen'[q] = seen[q] => SeenDescends(q)'
      /\ \A t \in DOMAIN tokens : TokenDescends(t)'
      /\ \A q \in DOMAIN access :
            access'[q] = access[q] => WithinClient(access[q].client, access[q].scopes)'
  BY <1>1, <1>2, <1>3, DescentKept
<1> DEFINE CodesWithin == \A k \in DOMAIN codes : WithinClient(codes[k].client, codes[k].scopes)
           SeenWell == \A q \in DOMAIN seen : SeenDescends(q)
           TokensWell == \A t \in DOMAIN tokens : TokenDescends(t)
           AccessWithin == \A q \in DOMAIN access :
                               WithinClient(access[q].client, access[q].scopes)
<1> HIDE DEF CodesWithin, SeenWell, TokensWell, AccessWithin
<1>5. UNCHANGED codes => CodesWithin' BY <1>4 DEF CodesWithin
<1>6. UNCHANGED seen => SeenWell' BY <1>4 DEF SeenWell
<1>7. DOMAIN tokens' = DOMAIN tokens => TokensWell' BY <1>4 DEF TokensWell
<1>8. UNCHANGED access => AccessWithin' BY <1>4 DEF AccessWithin
<1>9. SeenWell /\ TokensWell /\ AccessWithin /\ CodesWithin /\ AuthorizedWithin(p)
  BY DEF Descent, SeenWell, TokensWell, AccessWithin, CodesWithin
<1>10. SUFFICES CodesWithin' /\ AuthorizedWithin(p)' /\ SeenWell' /\ TokensWell'
                /\ AccessWithin'
  BY <1>4 DEF Descent, SeenWell, TokensWell, AccessWithin, CodesWithin
<1>11. CASE Quiet(p)
  <2>1. CodesWithin' /\ SeenWell' /\ TokensWell' BY <1>5, <1>6, <1>7, <1>11 DEF Quiet
  <2>2. AuthorizedWithin(p)' BY <1>9, <1>11 DEF Quiet, AuthorizedWithin, WithinClient
  <2>3. AccessWithin'
    <3>1. CASE UNCHANGED access BY <1>8, <3>1
    <3>2. CASE /\ WithinClient(req[p].client, req[p].scopes) /\ UNCHANGED clients
               /\ GrantAccess(p, req[p].client, req[p].scopes)
      <4>1. /\ DOMAIN access' = DOMAIN access \cup {p}
            /\ access'[p].client = req[p].client /\ access'[p].scopes = req[p].scopes
            /\ \A q \in DOMAIN access \ {p} : access'[q] = access[q]
        BY <3>2 DEF GrantAccess, Insert
      <4>2. WithinClient(access[p].client, access[p].scopes)'
        BY <3>2, <4>1 DEF WithinClient
      <4> QED BY <1>4, <4>1, <4>2 DEF AccessWithin
    <3> QED BY <1>11, <3>1, <3>2 DEF Quiet
  <2> QED BY <2>1, <2>2, <2>3
<1>12. CASE Issues(p)
  <2>1. SeenWell' /\ TokensWell' /\ AccessWithin'
    BY SMTT(40), <1>6, <1>7, <1>8, <1>12 DEF Issues, Stores, local
  <2>2. AuthorizedWithin(p)' BY SMTT(40), <1>12 DEF Issues, Stores, AuthorizedWithin
  <2>3. /\ DOMAIN codes' = DOMAIN codes \cup {p}
        /\ codes'[p].client = req[p].client /\ codes'[p].scopes = req[p].scopes
    BY SMTT(40), <1>12 DEF Issues, Insert
  <2>4. WithinClient(codes[p].client, codes[p].scopes)'
    BY <1>9, <1>12, <2>3 DEF Issues, Stores, AuthorizedWithin, WithinClient
  <2> QED BY <1>4, <2>1, <2>2, <2>3, <2>4 DEF CodesWithin
<1>13. CASE Mints(p)
  <2>1. CodesWithin' /\ SeenWell' BY <1>5, <1>6, <1>13 DEF Mints, Stores, local
  <2>2. AuthorizedWithin(p)' BY <1>13 DEF Mints, Stores, AuthorizedWithin
  <2> DEFINE grant == seen[p].grant
  <2>3. SeenDescends(p) /\ p \in DOMAIN seen
    BY <1>9, <1>13 DEF Mints, SeenWell
  <2>4. /\ DOMAIN tokens' = DOMAIN tokens \cup {p} /\ tokens'[p].grant = grant
        /\ tokens'[p].client = req[p].client /\ tokens'[p].user = seen[p].user
        /\ tokens'[p].scopes = seen[p].scopes /\ tokens'[p].at = lsn + 1
    BY <1>13 DEF Mints, Insert
  <2>5. codes[grant].usedAt # Never /\ codes[grant].usedAt < lsn + 1
    <3>1. codes[grant].usedAt \in Nat /\ codes[grant].usedAt <= lsn
      BY <2>3, StampTypes DEF SeenDescends, Stamps, RowsStamped
    <3>2. CASE req[p].kind = "authorization_code"
      <4>1. wroteAt[p] # Never
        BY <1>13, <2>3 DEF Mints, Stamps, ReadStamped
      <4>2. StampOf(p) # Never BY <4>1 DEF Stamps, WriteStamped
      <4> QED BY <2>3, <3>1, <3>2, <4>2, StampTypes DEF SeenDescends, StampOf
    <3>3. CASE req[p].kind = "refresh_token"
      <4>1. TokenDescends(req[p].key) /\ grant = tokens[req[p].key].grant
        BY SMTT(40), <1>9, <2>3, <3>3, StampTypes DEF TokensWell, SeenDescends
      <4> QED BY <3>1, <4>1, StampTypes DEF TokenDescends
    <3> QED BY <2>3, <3>2, <3>3 DEF SeenDescends
  <2>6. TokenDescends(p)'
    BY <1>13, <2>3, <2>4, <2>5 DEF Mints, SeenDescends, TokenDescends
  <2>7. TokensWell' BY <1>4, <2>4, <2>6 DEF TokensWell
  <2>8. AccessWithin'
    <3>1. CASE UNCHANGED access BY <1>8, <3>1
    <3>2. CASE GrantAccess(p, seen[p].user, seen[p].scopes)
      <4>1. /\ DOMAIN access' = DOMAIN access \cup {p}
            /\ access'[p].client = req[p].client /\ access'[p].scopes = seen[p].scopes
            /\ \A q \in DOMAIN access \ {p} : access'[q] = access[q]
        BY <3>2 DEF GrantAccess, Insert
      <4>2. WithinClient(req[p].client, seen[p].scopes)
        BY <1>9, <2>3 DEF SeenDescends, CodesWithin
      <4>3. WithinClient(access[p].client, access[p].scopes)'
        BY <1>13, <4>1, <4>2 DEF WithinClient, Mints, Stores
      <4> QED BY <1>4, <4>1, <4>3 DEF AccessWithin
    <3> QED BY <1>13, <3>1, <3>2 DEF Mints
  <2> QED BY <2>1, <2>2, <2>7, <2>8
<1>14. CASE Spends(p)
  <2>1. UNCHANGED <<seen, access>> /\ AuthorizedWithin(p)'
    BY <1>14 DEF Spends, MarkUsed, DeleteToken, AuthorizedWithin
  <2>2. DOMAIN codes' = DOMAIN codes /\ DOMAIN tokens' = DOMAIN tokens
    <3>1. CASE MarkUsed(p) /\ UNCHANGED tokens BY <3>1 DEF MarkUsed
    <3>2. CASE DeleteToken(p) /\ UNCHANGED codes BY <3>2 DEF DeleteToken
    <3> QED BY <1>14, <3>1, <3>2 DEF Spends
  <2>3. CodesWithin' BY <1>4, <2>2 DEF CodesWithin
  <2> QED BY <1>6, <1>7, <1>8, <2>1, <2>2, <2>3
<1>15. CASE Reads(p)
  <2>1. CodesWithin' /\ TokensWell' /\ AccessWithin' /\ AuthorizedWithin(p)'
    BY <1>5, <1>7, <1>8, <1>15 DEF Reads, AuthorizedWithin
  <2>2. PICK point \in ReadPoints :
          \/ /\ req[p].kind = "authorization_code"
             /\ CodeRedeemable(req[p], point)
             /\ Remember(p, codes[req[p].key], req[p].key, point)
          \/ /\ req[p].kind = "refresh_token"
             /\ TokenVisible(req[p].key, point)
             /\ tokens[req[p].key].client = req[p].client
             /\ Remember(p, tokens[req[p].key], tokens[req[p].key].grant, point)
    BY <1>15 DEF Reads
  <2>3. DOMAIN seen' = DOMAIN seen \cup {p}
        /\ \A q \in DOMAIN seen \ {p} : seen'[q] = seen[q]
    BY <2>2 DEF Remember, Insert
  <2>4. UNCHANGED <<codes, tokens, req>> BY <1>15 DEF Reads
  <2>5. ASSUME req[p].kind = "authorization_code", CodeRedeemable(req[p], point),
               Remember(p, codes[req[p].key], req[p].key, point)
        PROVE  SeenDescends(p)'
    <3>1. seen'[p] = [user |-> codes[req[p].key].user,
                      scopes |-> codes[req[p].key].scopes, grant |-> req[p].key]
      BY <2>5 DEF Remember, Insert
    <3> QED BY <2>4, <2>5, <3>1 DEF SeenDescends, CodeRedeemable, Present
  <2>6. ASSUME req[p].kind = "refresh_token", TokenVisible(req[p].key, point),
               tokens[req[p].key].client = req[p].client,
               Remember(p, tokens[req[p].key], tokens[req[p].key].grant, point)
        PROVE  SeenDescends(p)'
    <3>1. seen'[p] = [user |-> tokens[req[p].key].user,
                      scopes |-> tokens[req[p].key].scopes,
                      grant |-> tokens[req[p].key].grant]
      BY <2>6 DEF Remember, Insert
    <3>2. TokenDescends(req[p].key)
      BY <1>9, <2>6 DEF TokensWell, TokenVisible, Present
    <3> QED BY <2>4, <2>6, <3>1, <3>2 DEF SeenDescends, TokenDescends
  <2>7. SeenDescends(p)' BY <2>2, <2>5, <2>6
  <2> QED BY <1>4, <2>1, <2>3, <2>7 DEF SeenWell
<1> QED BY <1>11, <1>12, <1>13, <1>14, <1>15, Inv1Typed, StepKinds

LEMMA SurroundingsDescent == ASSUME Inv1, Descent, Surroundings PROVE Descent'
<1>1. UNCHANGED <<clients, codes, tokens, pc, req, seen, access>>
  BY Inv1Typed, SurroundingsStep DEF tables, local
<1> QED
  BY <1>1 DEF Descent, AuthorizedWithin, SeenDescends, TokenDescends, WithinClient

LEMMA StepKeepsGrants ==
    Inv1 /\ Stamps /\ Descent /\ [Next]_vars => Inv1' /\ Stamps' /\ Descent'
BY StepKeepsInv1, StepKeepsStamps, StepKeepsDescent, SurroundingsDescent, NextSteps

LEMMA DescentSuffices == Descent => TokensDescendFromSpentCode
BY DEF Descent, TokensDescendFromSpentCode, TokenDescends, WithinClient

(* Whatever the interleaving, the lag of the replicas and the failures,    *)
(* every refresh token carries the user, client and scopes of one          *)
(* authorization code that was marked used before the token was stored:    *)
(* no chain of rotations (exchange_refresh_token) widens a consent.        *)
THEOREM TokensDescend == Spec => []TokensDescendFromSpentCode
<1>1. Init => Inv1 /\ Stamps /\ Descent BY InitInv1, InitStamps, InitDescent
<1> QED BY <1>1, StepKeepsGrants, DescentSuffices, PTL DEF Spec

(***************************************************************************)
(* Isolation                                                               *)
(***************************************************************************)
LEMMA InitIsolation == Init => Isolation
<1> SUFFICES ASSUME Init PROVE Isolation
  OBVIOUS
<1>1. DOMAIN tokens = {} /\ DOMAIN seen = {} BY EmptyIsTable DEF Init
<1>2. \A p \in Requests : pc[p] = "new" /\ wroteAt[p] = Never BY DEF Init
<1> QED
  BY <1>1, <1>2
  DEF Isolation, UniqueWrites, Alone, InFlight, OneLiveTokenPerCode, SpendsFirst, NoneLive

(* Each write of the primary has a position of its own.                    *)
LEMMA StepKeepsUniqueWrites ==
    ASSUME Inv1, Stamps, UniqueWrites, NEW p \in Requests,
           Quiet(p) \/ Issues(p) \/ Mints(p) \/ Spends(p) \/ Reads(p)
    PROVE  UniqueWrites'
<1>1. CASE UNCHANGED wroteAt BY <1>1 DEF UniqueWrites
<1>2. CASE Spends(p)
  <2>1. wroteAt' = [wroteAt EXCEPT ![p] = lsn + 1]
    BY <1>2, SpendStamps, BeforeStep
  <2>2. \A q \in Requests : wroteAt[q] <= lsn BY DEF Stamps, WriteStamped
  <2>3. \A q \in Requests : wroteAt'[q] = IF q = p THEN lsn + 1 ELSE wroteAt[q]
    BY <2>1 DEF Inv1, TypeOK
  <2> QED BY <2>2, <2>3, StampTypes DEF UniqueWrites
<1> QED BY <1>1, <1>2 DEF Quiet, Issues, Mints, Stores, Reads, Remember, local

LEMMA OthersIdle ==
    ASSUME Inv1, Isolation, Isolated, NEW p \in Requests, Frame(p),
           Arrive(p) \/ RejectMalformed(p) \/ Handle(p) \/ Crash(p),
           NEW q \in Requests \ {p}
    PROVE  ~InFlight(q) /\ ~InFlight(q)'
BY Inv1Typed, AloneStep DEF Isolation, Isolated, RequestStep

(* A token that is live after a step other than a mint was live before.    *)
LEMMA LiveBefore ==
    ASSUME Inv1, NEW p \in Requests, Frame(p), p \notin DOMAIN tokens,
           NEW t \in DOMAIN tokens
    PROVE  /\ t \in DOMAIN tokens' /\ tokens'[t].grant = tokens[t].grant
           /\ Live(t)' => Live(t)
BY StampTypes DEF Frame, TokensGrow, Stamped, Live, Never

LEMMA SpendsFirstKept ==
    ASSUME Inv1, Stamps, Isolation, Isolated, NEW p \in Requests, Frame(p),
           Arrive(p) \/ RejectMalformed(p) \/ Handle(p) \/ Crash(p),
           NEW q \in Requests
    PROVE  SpendsFirst(q)'
<1>1. Quiet(p) \/ Issues(p) \/ Mints(p) \/ Spends(p) \/ Reads(p) BY Inv1Typed, StepKinds
<1>2. p \notin DOMAIN codes /\ p \notin DOMAIN tokens BY ActingRequest
<1>3. UNCHANGED req \/ p \notin DOMAIN req
  BY <1>1 DEF Quiet, Issues, Mints, Stores, Spends, Reads
<1>4. ASSUME NEW r \in DOMAIN seen
      PROVE  Stamped(StampOf(r), StampOf(r)')
             /\ (UNCHANGED <<codes, tokens>> => StampOf(r)' = StampOf(r))
  BY <1>2, <1>3, StampAfter, StampTypes
<1>5. SpendsFirst(q) BY DEF Isolation
<1>6. CASE q # p
  <2>1. pc'[q] \notin {"spend", "user", "mint"} BY <1>6, OthersIdle DEF InFlight
  <2>2. CASE q \in DOMAIN seen' /\ q \in DOMAIN tokens'
    <3>1. q \in DOMAIN seen /\ q \in DOMAIN tokens
      BY <1>6, <2>2 DEF Frame, GrowsBy, TokensGrow
    <3>2. wroteAt[q] = StampOf(q) /\ wroteAt[q] # Never
      BY <1>5, <3>1 DEF SpendsFirst, Stamps, ReadStamped
    <3>3. StampOf(q)' = StampOf(q) BY <1>4, <3>1, <3>2 DEF Stamped
    <3>4. wroteAt'[q] = wroteAt[q] BY <1>6 DEF Frame
    <3> QED BY <2>1, <3>2, <3>3, <3>4 DEF SpendsFirst
  <2> QED BY <2>1, <2>2 DEF SpendsFirst
<1>7. CASE q = p
  <2>1. CASE Quiet(p)
    BY <1>2, <1>4, <1>5, <1>7, <2>1 DEF Quiet, SpendsFirst
  <2>2. CASE Issues(p)
    BY <1>2, <1>7, <2>2 DEF Issues, Stores, SpendsFirst
  <2>3. CASE Mints(p)
    <3>1. pc'[p] = "done" /\ UNCHANGED wroteAt /\ pc[p] = "mint" /\ p \in DOMAIN seen
      BY <2>3 DEF Mints, Stores, local
    <3>2. wroteAt[p] = StampOf(p) /\ wroteAt[p] # Never
      BY <1>5, <1>7, <3>1 DEF SpendsFirst, Stamps, ReadStamped
    <3>3. StampOf(p)' = StampOf(p) BY <1>4, <3>1, <3>2 DEF Stamped
    <3> QED BY <1>7, <3>1, <3>2, <3>3 DEF SpendsFirst
  <2>4. CASE Spends(p)
    <3>1. /\ wroteAt'[p] = lsn + 1
          /\ StampOf(p)' = Stamp(StampOf(p)) /\ UNCHANGED seen
      BY <2>4, BeforeStep, SpendStamps DEF SameGrant, Inv1, TypeOK
    <3>2. DOMAIN tokens' = DOMAIN tokens
      BY <2>4 DEF Spends, DeleteToken
    <3>3. pc'[p] = "done" \/ (pc'[p] = "user" /\ pc[p] = "spend")
      BY <2>4 DEF Spends
    <3> QED BY <1>2, <1>5, <1>7, <3>1, <3>2, <3>3 DEF SpendsFirst, Stamp
  <2>5. CASE Reads(p)
    <3>1. UNCHANGED <<codes, tokens, req>> /\ pc'[p] = "spend"
      BY <2>5 DEF Reads
    <3>2. ReadPoints = {lsn} BY DEF ReadPoints, Isolated
    <3>3. p \in DOMAIN req BY <2>5, BeforeStep
    <3>4. StampOf(p) = Never
      <4>1. CASE req[p].kind = "authorization_code" /\ CodeRedeemable(req[p], lsn)
        BY <3>3, <4>1, StampTypes
        DEF Stamps, RowsStamped, StampOf, CodeRedeemable, Holds
      <4>2. CASE req[p].kind = "refresh_token" /\ TokenVisible(req[p].key, lsn)
        BY <3>3, <4>2, StampTypes
        DEF Stamps, RowsStamped, StampOf, TokenVisible, Holds
      <4> QED BY <2>5, <3>2, <4>1, <4>2 DEF Reads
    <3>5. StampOf(p)' = Never BY <3>1, <3>4 DEF StampOf
    <3> QED BY <1>2, <1>7, <3>1, <3>5 DEF SpendsFirst
  <2> QED BY <1>1, <2>1, <2>2, <2>3, <2>4, <2>5
<1> QED BY <1>6, <1>7

LEMMA NoneLiveKept ==
    ASSUME Inv1, Stamps, Descent, Isolation, Isolated, NEW p \in Requests, Frame(p),
           Arrive(p) \/ RejectMalformed(p) \/ Handle(p) \/ Crash(p),
           NEW q \in Requests
    PROVE  NoneLive(q)'
<1>1. Quiet(p) \/ Issues(p) \/ Mints(p) \/ Spends(p) \/ Reads(p) BY Inv1Typed, StepKinds
<1>2. p \notin DOMAIN tokens BY ActingRequest
<1>3. SUFFICES ASSUME q \in DOMAIN seen', pc'[q] \in {"user", "mint"} PROVE NoneLive(q)'
  BY DEF NoneLive
<1>4. q = p BY <1>3, OthersIdle DEF InFlight
<1>5. NoneLive(p) /\ SpendsFirst(p) /\ OneLiveTokenPerCode BY DEF Isolation
<1>6. CASE Quiet(p) BY <1>3, <1>4, <1>5, <1>6 DEF Quiet, NoneLive, Live
<1>7. CASE Spends(p)
  <2>1. pc[p] = "spend" /\ UNCHANGED seen /\ p \in DOMAIN seen
    BY <1>3, <1>4, <1>7, SpendStamps, BeforeStep DEF Spends
  <2>2. StampOf(p) = Never BY <1>5, <2>1 DEF SpendsFirst
  <2>3. SeenDescends(p) BY <2>1 DEF Descent
  <2>4. StampOf(p)' = lsn + 1 /\ UNCHANGED req
    BY <1>7, <2>2, SpendStamps, BeforeStep DEF SameGrant, Stamp
  <2>5. DOMAIN tokens' = DOMAIN tokens BY <1>7 DEF Spends, DeleteToken
  <2> SUFFICES ASSUME NEW t \in DOMAIN tokens, Live(t)' PROVE tokens'[t].grant # seen'[p].grant
    BY <1>4, <2>5 DEF NoneLive
  <2>6. Live(t) /\ tokens'[t].grant = tokens[t].grant
    BY <1>2, LiveBefore
  <2>7. CASE req[p].kind = "authorization_code"
    <3>1. TokenDescends(t) BY DEF Descent
    <3> QED BY <2>1, <2>2, <2>3, <2>6, <2>7, <3>1 DEF StampOf, SeenDescends, TokenDescends
  <2>8. CASE req[p].kind = "refresh_token"
    <3>1. req[p].key \in DOMAIN tokens BY <2>1, <2>8, StampTypes
    <3>2. Live(req[p].key) BY <2>2, <2>8 DEF StampOf, Live
    <3>3. ~Live(req[p].key)' BY <2>4, <2>8, StampTypes DEF StampOf, Live, Never
    <3>4. t # req[p].key
      BY <2>4, <3>3 DEF Live
    <3> QED BY <1>5, <2>1, <2>3, <2>6, <2>8, <3>1, <3>2, <3>4
        DEF SeenDescends, OneLiveTokenPerCode
  <2> QED BY <2>3, <2>7, <2>8 DEF SeenDescends
<1> QED BY <1>1, <1>3, <1>4, <1>6, <1>7 DEF Issues, Mints, Stores, Reads

LEMMA OneLiveKept ==
    ASSUME Inv1, Descent, Isolation, Isolated, NEW p \in Requests, Frame(p),
           Arrive(p) \/ RejectMalformed(p) \/ Handle(p) \/ Crash(p)
    PROVE  OneLiveTokenPerCode'
<1>1. Quiet(p) \/ Issues(p) \/ Mints(p) \/ Spends(p) \/ Reads(p) BY Inv1Typed, StepKinds
<1>2. p \notin DOMAIN tokens BY ActingRequest
<1>3. NoneLive(p) /\ OneLiveTokenPerCode BY DEF Isolation
<1>4. ASSUME NEW t \in DOMAIN tokens
      PROVE  tokens'[t].grant = tokens[t].grant /\ (Live(t)' => Live(t))
  BY <1>2, LiveBefore
<1>5. CASE Mints(p)
  <2>1. DOMAIN tokens' = DOMAIN tokens \cup {p} /\ tokens'[p].grant = seen[p].grant
    BY <1>5 DEF Mints, Insert
  <2>2. \A t \in DOMAIN tokens : Live(t) => tokens[t].grant # seen[p].grant
    BY <1>3, <1>5 DEF NoneLive, Mints
  <2>3. \A t \in DOMAIN tokens' :
           Live(t)' => IF t = p THEN tokens'[t].grant = seen[p].grant
                       ELSE /\ t \in DOMAIN tokens /\ Live(t)
                            /\ tokens'[t].grant = tokens[t].grant
    BY <1>4, <2>1
  <2> QED BY <1>3, <2>2, <2>3 DEF OneLiveTokenPerCode
<1>6. CASE ~Mints(p)
  <2>1. DOMAIN tokens' = DOMAIN tokens
    BY <1>1, <1>6 DEF Quiet, Issues, Spends, DeleteToken, Reads
  <2> QED BY <1>3, <1>4, <2>1 DEF OneLiveTokenPerCode
<1> QED BY <1>5, <1>6

LEMMA StepKeepsIsolation ==
    ASSUME Inv1, Stamps, Descent, Isolation, NEW p \in Requests,
           Arrive(p) \/ RejectMalformed(p) \/ Handle(p) \/ Crash(p)
    PROVE  Isolation'
<1>1. Frame(p) BY HandleInv1
<1>2. UniqueWrites' BY Inv1Typed, StepKinds, StepKeepsUniqueWrites DEF Isolation
<1>3. ASSUME Isolated
      PROVE  /\ Alone' /\ OneLiveTokenPerCode'
             /\ \A q \in Requests : SpendsFirst(q)' /\ NoneLive(q)'
  <2>1. \A q \in Requests \ {p} : ~InFlight(q)' BY <1>1, <1>3, OthersIdle
  <2>2. Alone' BY <2>1 DEF Alone
  <2> QED BY <1>1, <1>3, <2>2, OneLiveKept, SpendsFirstKept, NoneLiveKept
<1> QED BY <1>2, <1>3 DEF Isolation, Isolated

LEMMA SurroundingsIsolation == ASSUME Inv1, Isolation, Surroundings PROVE Isolation'
<1>1. UNCHANGED <<codes, tokens, pc, req, seen, wroteAt>>
  BY Inv1Typed, SurroundingsStep DEF tables, local
<1> QED
  BY <1>1
  DEF Isolation, UniqueWrites, Isolated, Alone, InFlight, OneLiveTokenPerCode, Live,
      SpendsFirst, NoneLive, StampOf

LEMMA InitIInv == Init => IInv
BY InitInv1, InitStamps, InitDescent, InitIsolation DEF IInv

LEMMA StepKeepsIInv == IInv /\ [Next]_vars => IInv'
BY StepKeepsGrants, StepKeepsIsolation, SurroundingsIsolation, NextSteps DEF IInv

LEMMA IsolationSuffices == IInv => GrantsRedeemedOnce /\ OneLiveTokenPerCode
<1> SUFFICES ASSUME IInv PROVE GrantsRedeemedOnce /\ OneLiveTokenPerCode
  OBVIOUS
<1> USE DEF IInv
<1>1. OneLiveTokenPerCode BY DEF Isolation, OneLiveTokenPerCode
<1>2. ASSUME Isolated, NEW p \in DOMAIN tokens, NEW q \in DOMAIN tokens, SameGrant(p, q)
      PROVE  p = q
  <2>1. p \in Requests /\ q \in Requests BY StampTypes
  <2>2. p \in DOMAIN seen /\ q \in DOMAIN seen
    BY <2>1 DEF Inv1, Control, RequestOK, RowsOK
  <2>3. wroteAt[p] = StampOf(p) /\ wroteAt[q] = StampOf(q)
    BY <1>2, <2>1, <2>2 DEF Isolation, SpendsFirst
  <2>4. StampOf(p) = StampOf(q) BY <1>2 DEF SameGrant, StampOf
  <2>5. wroteAt[p] # Never BY <2>1, <2>2 DEF Stamps, ReadStamped
  <2> QED BY <2>1, <2>3, <2>4, <2>5 DEF Isolation, UniqueWrites
<1>3. GrantsRedeemedOnce BY <1>2 DEF GrantsRedeemedOnce
<1> QED BY <1>1, <1>3

(* With requests one at a time and reads from the primary, no two requests *)
(* are given a refresh token for the same authorization code or the same   *)
(* refresh token, whichever requests die between mark_used or              *)
(* delete_by_token and the INSERT that follows.                            *)
THEOREM RedeemedOnce == Spec => []GrantsRedeemedOnce
BY InitIInv, StepKeepsIInv, IsolationSuffices, PTL DEF Spec

(* Under the same conditions one consent never has two live refresh        *)
(* tokens: rotation (exchange_refresh_token) is a hand-over.               *)
THEOREM OneLiveToken == Spec => []OneLiveTokenPerCode
BY InitIInv, StepKeepsIInv, IsolationSuffices, PTL DEF Spec

(***************************************************************************)
(* Refusals                                                                *)
(***************************************************************************)
Refused(p) == reply[p] = "InvalidGrant" \/ pc[p] = "purge"
RefusalOK(p) == p \in DOMAIN req /\ Refused(p) =>
    req[p].kind \in TokenGrants /\ Unusable(req[p])

NoFailure == Replicas = {} /\ ~Faults
RefusedAreDone == \A p \in Requests : reply[p] = "InvalidGrant" => pc[p] = "done"
Refusals == RefusedAreDone /\ (NoFailure => \A p \in Requests : RefusalOK(p))

(* What a caller is compared with never changes in a row, and a spent row  *)
(* stays spent.                                                            *)
CodeKept(k) ==
    /\ k \in DOMAIN codes'
    /\ codes'[k].client = codes[k].client /\ codes'[k].redirect = codes[k].redirect
    /\ codes'[k].challenge = codes[k].challenge /\ codes'[k].expires = codes[k].expires
    /\ codes[k].usedAt # Never => codes'[k].usedAt # Never
TokenKept(t) ==
    /\ t \in DOMAIN tokens'
    /\ tokens'[t].client = tokens[t].client /\ tokens'[t].expires = tokens[t].expires
    /\ tokens[t].deletedAt # Never => tokens'[t].deletedAt # Never

LEMMA StampNotNever == ASSUME Inv1, NEW old PROVE old # Never => Stamp(old) # Never
BY DEF Stamp

LEMMA MarkKeeps ==
    ASSUME Inv1, NEW p, MarkUsed(p), NEW k \in DOMAIN codes
    PROVE  CodeKept(k)
<1>1. codes' = [codes EXCEPT ![req[p].key].usedAt = Stamp(@)] BY DEF MarkUsed
<1>2. codes \in [DOMAIN codes -> CodeRow] BY DEF Inv1, TypeOK, IsTable
<1>3. k \in DOMAIN codes' /\
      codes'[k] \in {codes[k], [codes[k] EXCEPT !.usedAt = Stamp(@)]}
  BY <1>1, <1>2
<1>4. codes[k] \in CodeRow BY <1>2
<1> QED BY <1>3, <1>4, StampNotNever DEF CodeKept, CodeRow

LEMMA DeleteKeeps ==
    ASSUME Inv1, NEW p, DeleteToken(p), NEW t \in DOMAIN tokens
    PROVE  TokenKept(t)
<1>1. tokens' = [tokens EXCEPT ![req[p].key].deletedAt = Stamp(@)] BY DEF DeleteToken
<1>2. tokens \in [DOMAIN tokens -> TokenRow] BY DEF Inv1, TypeOK, IsTable
<1>3. t \in DOMAIN tokens' /\
      tokens'[t] \in {tokens[t], [tokens[t] EXCEPT !.deletedAt = Stamp(@)]}
  BY <1>1, <1>2
<1>4. tokens[t] \in TokenRow BY <1>2
<1> QED BY <1>3, <1>4, StampNotNever DEF TokenKept, TokenRow

(* A request that can still take a step has stored nothing.                *)
LEMMA NotStored ==
    ASSUME Inv1, NEW p \in Requests, RequestStep(p)
    PROVE  /\ p \notin DOMAIN codes /\ p \notin DOMAIN tokens
           /\ p \in DOMAIN req => UNCHANGED req
           /\ pc[p] # "done"
BY Inv1Typed, ActingTyped

LEMMA RowsKept ==
    ASSUME Inv1, NEW p \in Requests, RequestStep(p)
    PROVE  /\ \A k \in DOMAIN codes : CodeKept(k)
           /\ \A t \in DOMAIN tokens : TokenKept(t)
           /\ clock' = clock
<1>1. clock' = clock
  BY DEF RequestStep, Arrive, RejectMalformed, Crash, Handle,
     ClientNotFound, RegisterUser, InsertClient, AuthorizeClient, VerifyCredentials,
     IssueCode, AuthenticateClient, ClientCredentials, LookupCode, LookupToken,
     SpendCode, SpendToken, PurgeToken, FindUser, MintToken, RevokeToken
<1>2. Quiet(p) \/ Issues(p) \/ Mints(p) \/ Spends(p) \/ Reads(p)
  BY Inv1Typed, StepKinds DEF RequestStep
<1>3. UNCHANGED codes => \A k \in DOMAIN codes : CodeKept(k) BY DEF CodeKept
<1>4. UNCHANGED tokens => \A t \in DOMAIN tokens : TokenKept(t) BY DEF TokenKept
<1>5. CASE Quiet(p) BY <1>1, <1>3, <1>4, <1>5 DEF Quiet
<1>6. CASE Reads(p) BY <1>1, <1>3, <1>4, <1>6 DEF Reads
<1>7. CASE Issues(p)
  <2>1. \A k \in DOMAIN codes : CodeKept(k)
    BY <1>7, NotStored DEF Issues, Insert, CodeKept
  <2> QED BY <1>1, <1>4, <1>7, <2>1 DEF Issues
<1>8. CASE Mints(p)
  <2>1. \A t \in DOMAIN tokens : TokenKept(t)
    BY <1>8, NotStored DEF Mints, Insert, TokenKept
  <2> QED BY <1>1, <1>3, <1>8, <2>1 DEF Mints
<1>9. CASE Spends(p)
  BY <1>1, <1>3, <1>4, <1>9, MarkKeeps, DeleteKeeps DEF Spends
<1> QED BY <1>2, <1>5, <1>6, <1>7, <1>8, <1>9

(* A code or token that could not be used cannot be used later.            *)
LEMMA UnusableKept ==
    ASSUME Inv1, NEW q \in DOMAIN req, req[q].kind \in TokenGrants, Unusable(req[q]),
           q \in DOMAIN req', req'[q] = req[q],
           clock \in Nat, clock' \in Nat, clock' >= clock,
           \A k \in DOMAIN codes : CodeKept(k), \A t \in DOMAIN tokens : TokenKept(t)
    PROVE  Unusable(req[q])'
<1>1. codes \in [DOMAIN codes -> CodeRow] /\ tokens \in [DOMAIN tokens -> TokenRow]
  BY DEF Inv1, TypeOK, IsTable
<1>2. CASE req[q].kind = "authorization_code"
  <2>1. req[q].key \in DOMAIN codes BY <1>2, StampTypes
  <2>2. codes[req[q].key].expires \in Nat BY <1>1, <2>1 DEF CodeRow
  <2>3. CodeKept(req[q].key) BY <2>1
  <2> QED BY <1>2, <2>2, <2>3 DEF Unusable, CodeKept
<1>3. CASE req[q].kind # "authorization_code"
  <2>1. req[q].key \in DOMAIN tokens BY <1>3, StampTypes DEF TokenGrants
  <2>2. tokens[req[q].key].expires \in Nat BY <1>1, <2>1 DEF TokenRow
  <2>3. TokenKept(req[q].key) BY <2>1
  <2> QED BY <1>3, <2>2, <2>3 DEF Unusable, TokenKept
<1> QED BY <1>2, <1>3

LEMMA OthersKeepRefusals ==
    ASSUME Inv1, NEW p, Frame(p), NEW q \in Requests, q # p, RefusalOK(q),
           clock \in Nat, clock' \in Nat, clock' >= clock,
           \A k \in DOMAIN codes : CodeKept(k), \A t \in DOMAIN tokens : TokenKept(t)
    PROVE  RefusalOK(q)'
<1>1. pc'[q] = pc[q] /\ reply'[q] = reply[q] BY DEF Frame
<1>2. q \in DOMAIN req' => q \in DOMAIN req /\ req'[q] = req[q]
  BY DEF Frame, GrowsBy
<1> SUFFICES ASSUME q \in DOMAIN req', Refused(q)
             PROVE  req'[q].kind \in TokenGrants /\ Unusable(req[q])'
  BY <1>1 DEF RefusalOK, Refused
<1>3. q \in DOMAIN req /\ req[q].kind \in TokenGrants /\ Unusable(req[q])
  BY <1>2 DEF RefusalOK
<1> QED BY <1>2, <1>3, UnusableKept

(* With reads from the primary, a lookup that refuses a request is right.  *)
LEMMA LookupRefusesRightly ==
    ASSUME Inv1, Stamps, NoFailure, NEW p \in Requests, p \in DOMAIN req,
           NEW point \in ReadPoints
    PROVE  /\ req[p].kind = "authorization_code" /\ ~CodeRedeemable(req[p], point) =>
                 Unusable(req[p])
           /\ req[p].kind = "refresh_token"
              /\ (~TokenVisible(req[p].key, point)
                  \/ tokens[req[p].key].expires < clock
                  \/ tokens[req[p].key].client # req[p].client) =>
                 Unusable(req[p])
<1>1. point = lsn BY DEF NoFailure, ReadPoints
<1>2. codes \in [DOMAIN codes -> CodeRow] /\ tokens \in [DOMAIN tokens -> TokenRow]
      /\ clock \in Nat
  BY DEF Inv1, TypeOK, IsTable
<1>3. ASSUME req[p].kind = "authorization_code", ~CodeRedeemable(req[p], point)
      PROVE  Unusable(req[p])
  <2>1. req[p].key \in DOMAIN codes BY <1>3, StampTypes
  <2>2. codes[req[p].key].expires \in Nat BY <1>2, <2>1 DEF CodeRow
  <2>3. Present(codes, req[p].key, point)
    BY <1>1, <2>1 DEF Present, Stamps, RowsStamped
  <2>4. Holds(codes[req[p].key].usedAt, point) => codes[req[p].key].usedAt # Never
    BY DEF Holds
  <2> QED BY <1>2, <1>3, <2>2, <2>3, <2>4 DEF CodeRedeemable, Unusable
<1>4. ASSUME req[p].kind = "refresh_token",
             ~TokenVisible(req[p].key, point) \/ tokens[req[p].key].expires < clock
             \/ tokens[req[p].key].client # req[p].client
      PROVE  Unusable(req[p])
  <2>1. req[p].key \in DOMAIN tokens BY <1>4, StampTypes
  <2>2. Present(tokens, req[p].key, point)
    BY <1>1, <2>1 DEF Present, Stamps, RowsStamped
  <2>3. ~TokenVisible(req[p].key, point) => tokens[req[p].key].deletedAt # Never
    BY <2>2 DEF TokenVisible, Holds
  <2> QED BY <1>4, <2>3 DEF Unusable
<1> QED BY <1>3, <1>4

(* The only steps that end in a refusal are the lookups and the purge.     *)
LEMMA WhoRefuses ==
    ASSUME Inv1, NEW p \in Requests, RequestStep(p), reply[p] # "InvalidGrant",
           (Refused(p))'
    PROVE  LookupCode(p) \/ LookupToken(p) \/ PurgeToken(p)
<1> SUFFICES ASSUME ~LookupCode(p), ~LookupToken(p), ~PurgeToken(p)
             PROVE  reply'[p] # "InvalidGrant" /\ pc'[p] # "purge"
  BY DEF Refused
<1> DEFINE Elsewhere == Labels \ {"purge"}
           Otherwise == Replies \ {"InvalidGrant"}
<1>1. \A label \in Elsewhere : Goto(p, label) =>
          reply'[p] # "InvalidGrant" /\ pc'[p] # "purge"
  BY GotoStep DEF Inv1
<1>2. \A outcome \in Otherwise : Finish(p, outcome) =>
          reply'[p] # "InvalidGrant" /\ pc'[p] # "purge"
  BY FinishStep DEF Inv1
<1>3. {"insert", "client", "credentials", "issue", "lookup", "spend", "user", "mint",
       "revoke"} \subseteq Elsewhere
  BY DEF Labels
<1>4. {"ok", "InvalidRequest", "InvalidClient", "Unauthorized", "NotFound",
       "Conflict", "InternalError", "lost"} \subseteq Otherwise
  BY DEF Replies
<1> HIDE DEF Elsewhere, Otherwise
<1>5. CASE Arrive(p) BY <1>1, <1>3, <1>5 DEF Arrive
<1>6. CASE RejectMalformed(p) \/ Crash(p)
  BY <1>2, <1>4, <1>6 DEF RejectMalformed, Crash
<1>7. CASE ClientNotFound(p) \/ RegisterUser(p) \/ InsertClient(p) \/ IssueCode(p)
  BY <1>2, <1>4, <1>7 DEF ClientNotFound, RegisterUser, InsertClient, IssueCode, Failed,
     Unreferenced
<1>8. CASE AuthorizeClient(p) \/ VerifyCredentials(p) \/ AuthenticateClient(p)
           \/ ClientCredentials(p)
  BY <1>1, <1>2, <1>3, <1>4, <1>8
  DEF AuthorizeClient, VerifyCredentials, AuthenticateClient, ClientCredentials
<1>9. CASE SpendCode(p) \/ SpendToken(p) \/ FindUser(p) \/ MintToken(p) \/ RevokeToken(p)
  BY <1>1, <1>2, <1>3, <1>4, <1>9
  DEF SpendCode, SpendToken, FindUser, MintToken, RevokeToken, Failed, Unreferenced
<1> QED BY <1>5, <1>6, <1>7, <1>8, <1>9 DEF RequestStep, Handle

LEMMA StepKeepsRefusedDone ==
    ASSUME Inv1, RefusedAreDone, NEW p \in Requests, RequestStep(p)
    PROVE  RefusedAreDone'
<1>1. pc[p] # "done" /\ reply[p] # "InvalidGrant" BY NotStored DEF RefusedAreDone
<1>2. Frame(p) BY HandleInv1 DEF RequestStep
<1>3. ASSUME reply'[p] = "InvalidGrant" PROVE pc'[p] = "done"
  <2>1. LookupCode(p) \/ LookupToken(p) \/ PurgeToken(p)
    BY <1>1, <1>3, WhoRefuses DEF Refused
  <2> QED
    BY <1>1, <1>3, <2>1, FinishStep, GotoStep
    DEF LookupCode, LookupToken, PurgeToken, Inv1, Labels, Replies
<1> QED BY <1>2, <1>3 DEF Frame, RefusedAreDone

LEMMA StepKeepsRefusal ==
    ASSUME Inv1, Stamps, RefusedAreDone, NoFailure,
           NEW p \in Requests, RequestStep(p), RefusalOK(p)
    PROVE  RefusalOK(p)'
<1>1. pc[p] # "done" /\ reply[p] # "InvalidGrant" BY NotStored DEF RefusedAreDone
<1>2. Inv1' /\ Frame(p) /\ clock' = clock BY HandleInv1, RowsKept DEF RequestStep
<1>3. CASE ~(Refused(p))' BY <1>3 DEF RefusalOK, Refused
<1>4. CASE (Refused(p))'
  <2>1. LookupCode(p) \/ LookupToken(p) \/ PurgeToken(p) BY <1>1, <1>4, WhoRefuses
  <2>2. p \in DOMAIN req /\ UNCHANGED req
    BY <2>1, Inv1Typed, InFlightFacts DEF LookupCode, LookupToken, PurgeToken, InFlight
  <2>4. req[p].kind \in TokenGrants /\ Unusable(req[p])
    <3>1. CASE LookupCode(p)
      <4>1. ~CodeRedeemable(req[p], lsn)
        BY <1>1, <1>4, <3>1, GotoStep DEF LookupCode, Refused, Inv1, Labels,
           NoFailure, ReadPoints
      <4> QED BY <2>2, <3>1, <4>1, LookupRefusesRightly
          DEF LookupCode, TokenGrants, NoFailure, ReadPoints
    <3>2. CASE LookupToken(p)
      <4>1. ~TokenVisible(req[p].key, lsn) \/ tokens[req[p].key].expires < clock
            \/ tokens[req[p].key].client # req[p].client
        BY <1>1, <1>4, <3>2, GotoStep DEF LookupToken, Refused, Inv1, Labels,
           NoFailure, ReadPoints
      <4> QED BY <2>2, <3>2, <4>1, LookupRefusesRightly
          DEF LookupToken, TokenGrants, NoFailure, ReadPoints
    <3>3. CASE PurgeToken(p)
      BY <2>2, <3>3 DEF PurgeToken, RefusalOK, Refused
    <3> QED BY <2>1, <3>1, <3>2, <3>3
  <2>5. Unusable(req[p])'
    BY <1>2, <2>2, <2>4, UnusableKept, RowsKept DEF Inv1, TypeOK
  <2> QED BY <2>2, <2>4, <2>5 DEF RefusalOK
<1> QED BY <1>3, <1>4

LEMMA StepKeepsRefusals == IInv /\ Refusals /\ [Next]_vars => Refusals'
<1> SUFFICES ASSUME IInv, Refusals, [Next]_vars PROVE Refusals'
  OBVIOUS
<1> USE DEF IInv
<1>1. clock \in Nat /\ clock' \in Nat BY StepKeepsInv1 DEF Inv1, TypeOK
<1>2. CASE \E p \in Requests : RequestStep(p)
  <2>1. PICK p \in Requests : RequestStep(p) BY <1>2
  <2>2. RefusedAreDone' BY <2>1, StepKeepsRefusedDone DEF Refusals
  <2>3. ASSUME NoFailure, NEW q \in Requests PROVE RefusalOK(q)'
    <3>1. RefusalOK(q) BY <2>3 DEF Refusals
    <3>2. CASE q = p BY <2>1, <2>3, <3>1, <3>2, StepKeepsRefusal DEF Refusals
    <3>3. CASE q # p
      BY <1>1, <2>1, <3>1, <3>3, HandleInv1, RowsKept, OthersKeepRefusals DEF RequestStep
    <3> QED BY <3>2, <3>3
  <2> QED BY <2>2, <2>3 DEF Refusals, NoFailure
<1>3. CASE Surroundings
  <2>1. UNCHANGED <<tables, pc, req, reply>> /\ clock' >= clock
    BY <1>3, Inv1Typed, SurroundingsStep
  <2>2. (\A k \in DOMAIN codes : CodeKept(k)) /\ (\A t \in DOMAIN tokens : TokenKept(t))
    BY <2>1 DEF tables, CodeKept, TokenKept
  <2>3. ASSUME NEW q \in Requests, RefusalOK(q) PROVE RefusalOK(q)'
    <3>1. q \in DOMAIN req /\ req[q].kind \in TokenGrants /\ Unusable(req[q])
          => Unusable(req[q])'
      BY <1>1, <2>1, <2>2, UnusableKept
    <3> QED BY <2>1, <2>3, <3>1 DEF RefusalOK, Refused
  <2> QED BY <2>1, <2>3 DEF Refusals, RefusedAreDone, NoFailure
<1> QED BY <1>2, <1>3, NextSteps DEF RequestStep

LEMMA InitRefusals == Init => Refusals
<1> SUFFICES ASSUME Init PROVE Refusals
  OBVIOUS
<1>1. DOMAIN req = {} BY EmptyIsTable DEF Init
<1> QED BY <1>1 DEF Init, Refusals, RefusedAreDone, RefusalOK

(* With reads from the primary and without failures, invalid_grant is      *)
(* answered only to a request whose code or refresh token was spent,       *)
(* revoked, expired or another client's (the checks of                     *)
(* exchange_authorization_code and exchange_refresh_token), however the    *)
(* requests interleave.                                                    *)
THEOREM RefusalsJustified == Spec => []RefusalsAreJustified
<1>2. Inv1 /\ Refusals => RefusalsAreJustified
  BY DEF Inv1, TypeOK, IsTable, Refusals, RefusalsAreJustified, NoFailure, RefusalOK,
     Refused
<1>3. IInv => Inv1 BY DEF IInv
<1> QED BY <1>2, <1>3, InitIInv, InitRefusals, StepKeepsIInv, StepKeepsRefusals,
           PTL DEF Spec

(***************************************************************************)
(* Sessions                                                                *)
(***************************************************************************)
(* The user of a code, a token or a request in flight can be found by      *)
(* whoever could read the row; with one replica, reads do not go back.     *)
UserFound(p) ==
    /\ pc[p] = "issue" => Present(users, req[p].user, lsn)
    /\ p \in DOMAIN seen =>
          /\ Present(users, seen[p].user, readAt[p])
          /\ \A point \in ReadPoints : readAt[p] <= point
UsersBehindRows ==
    /\ \A k \in DOMAIN codes : Present(users, codes[k].user, codes[k].at)
    /\ \A t \in DOMAIN tokens : Present(users, tokens[t].user, tokens[t].at)

Surviving(k) ==
    \/ \E t \in DOMAIN tokens : tokens[t].grant = k /\ Live(t)
    \/ Renewing(k)
    \/ Ended(k)
AllSurvive == \A k \in DOMAIN codes : codes[k].usedAt # Never => Surviving(k)

Steady == MonotoneReads /\ ~Faults
Sessions == Steady =>
    UsersBehindRows /\ (\A p \in Requests : UserFound(p)) /\ AllSurvive

(* A user's row is inserted once and never changed.                        *)
LEMMA UsersKept ==
    ASSUME Inv1, NEW p \in Requests, RequestStep(p), NEW u, NEW point, NEW later,
           Present(users, u, point), point \in Nat, later \in Nat, point <= later
    PROVE  Present(users, u, later)'
<1>1. users \in [DOMAIN users -> UserRow] /\ (users[u]).at \in Nat
  BY DEF Inv1, TypeOK, IsTable, UserRow, Present
<1>2. CASE RegisterUser(p)
  BY <1>1, <1>2 DEF RegisterUser, Insert, Present
<1>3. CASE ~RegisterUser(p)
  <2>1. UNCHANGED users
    BY SMTT(40), <1>3 DEF RequestStep, Arrive, RejectMalformed, Crash, Handle, tables,
       ClientNotFound, InsertClient, AuthorizeClient, VerifyCredentials,
       IssueCode, AuthenticateClient, ClientCredentials, LookupCode, LookupToken,
       SpendCode, SpendToken, PurgeToken, FindUser, MintToken, RevokeToken
  <2> QED BY <1>1, <2>1 DEF Present
<1> QED BY <1>2, <1>3

(* No request moves what the reads are answered from, but for the end of   *)
(* the log.                                                                *)
LEMMA PointsKept ==
    ASSUME Inv1, NEW p \in Requests, RequestStep(p)
    PROVE  /\ lsn' \in {lsn, lsn + 1}
           /\ \A point \in ReadPoints' : \E old \in ReadPoints : old <= point
<1>1. lsn' \in {lsn, lsn + 1} BY HandleInv1 DEF RequestStep, Frame
<1>2. UNCHANGED applied
  BY DEF RequestStep, Arrive, RejectMalformed, Crash, Handle, dbVars, Commit,
     ClientNotFound, RegisterUser, InsertClient, AuthorizeClient, VerifyCredentials,
     IssueCode, AuthenticateClient, ClientCredentials, LookupCode, LookupToken,
     SpendCode, SpendToken, PurgeToken, FindUser, MintToken, RevokeToken,
     MarkUsed, DeleteToken
<1>3. lsn \in Nat /\ applied \in [Replicas -> 1 .. lsn]
  BY DEF Inv1, TypeOK, DbTypeOK
<1> QED BY SMTT(40), <1>1, <1>2, <1>3 DEF ReadPoints

(* Which action a request can take, given where it is.                     *)
LEMMA WhoActs ==
    ASSUME Inv1, ~Faults, NEW p \in Requests, RequestStep(p)
    PROVE  /\ pc[p] = "spend" => SpendCode(p) \/ SpendToken(p)
           /\ pc[p] = "purge" => PurgeToken(p)
           /\ pc[p] = "user" => FindUser(p)
           /\ pc[p] = "mint" => MintToken(p)
           /\ pc[p] = "revoke" => RevokeToken(p)
<1>1. ~Crash(p) BY DEF Crash
<1>2. (Arrive(p) \/ RejectMalformed(p)) => pc[p] = "new"
  BY DEF Arrive, RejectMalformed, MayArrive
<1>3. /\ (ClientNotFound(p) \/ AuthorizeClient(p) \/ AuthenticateClient(p)
          \/ ClientCredentials(p)) => pc[p] = "client"
      /\ (RegisterUser(p) \/ InsertClient(p)) => pc[p] = "insert"
      /\ VerifyCredentials(p) => pc[p] = "credentials"
      /\ IssueCode(p) => pc[p] = "issue"
      /\ (LookupCode(p) \/ LookupToken(p)) => pc[p] = "lookup"
  BY DEF ClientNotFound, AuthorizeClient, AuthenticateClient, ClientCredentials,
     RegisterUser, InsertClient, VerifyCredentials, IssueCode, LookupCode, LookupToken
<1>4. /\ (SpendCode(p) \/ SpendToken(p)) => pc[p] = "spend"
      /\ PurgeToken(p) => pc[p] = "purge"
      /\ FindUser(p) => pc[p] = "user"
      /\ MintToken(p) => pc[p] = "mint"
      /\ RevokeToken(p) => pc[p] = "revoke"
  BY DEF SpendCode, SpendToken, PurgeToken, FindUser, MintToken, RevokeToken
<1> QED BY <1>1, <1>2, <1>3, <1>4 DEF RequestStep, Handle

(* A request reaches its INSERT INTO authorization_codes from a login that *)
(* succeeded.                                                              *)
LEMMA LoginLeadsToIssue ==
    ASSUME Inv1, NEW p \in Requests, RequestStep(p), pc'[p] = "issue"
    PROVE  VerifyCredentials(p)
<1>1. \A label \in Labels \ {"issue"} : ~Goto(p, label) BY GotoStep DEF Inv1
<1>2. \A outcome \in Replies : ~Finish(p, outcome) BY FinishStep DEF Inv1
<1>3. {"insert", "client", "credentials", "lookup", "spend", "purge", "user", "mint",
       "revoke"} \subseteq Labels \ {"issue"}
  BY DEF Labels
<1>4. {"ok", "InvalidRequest", "InvalidClient", "InvalidGrant", "Unauthorized",
       "NotFound", "Conflict", "InternalError", "lost"} \subseteq Replies
  BY DEF Replies
<1>5. ~Arrive(p) BY <1>1, <1>3 DEF Arrive
<1>6. ~(RejectMalformed(p) \/ Crash(p) \/ ClientNotFound(p) \/ PurgeToken(p)
        \/ RevokeToken(p))
  BY <1>2, <1>4 DEF RejectMalformed, Crash, ClientNotFound, PurgeToken, RevokeToken
<1>7. ~(RegisterUser(p) \/ InsertClient(p) \/ IssueCode(p) \/ MintToken(p)
        \/ ClientCredentials(p))
  BY <1>2, <1>4 DEF RegisterUser, InsertClient, IssueCode, MintToken,
     ClientCredentials, Failed, Unreferenced
<1>8. ~(AuthorizeClient(p) \/ AuthenticateClient(p) \/ FindUser(p))
  BY <1>1, <1>2, <1>3, <1>4 DEF AuthorizeClient, AuthenticateClient, FindUser, Failed
<1>9. ~(LookupCode(p) \/ LookupToken(p) \/ SpendCode(p) \/ SpendToken(p))
  BY <1>1, <1>2, <1>3, <1>4
  DEF LookupCode, LookupToken, SpendCode, SpendToken, Failed
<1> QED BY <1>5, <1>6, <1>7, <1>8, <1>9 DEF RequestStep, Handle

LEMMA IssueFollowsLogin ==
    ASSUME Inv1, NEW p \in Requests, RequestStep(p), pc'[p] = "issue"
    PROVE  /\ UNCHANGED req
           /\ \E point \in ReadPoints : Present(users, req[p].user, point)
<1>1. VerifyCredentials(p) BY LoginLeadsToIssue
<1>2. ~Finish(p, "Unauthorized") BY FinishStep DEF Inv1, Replies
<1> QED BY <1>1, <1>2 DEF VerifyCredentials

(* What a request has read of a grant changes at its lookup only.          *)
LEMMA SeenKept ==
    ASSUME Inv1, NEW p \in Requests, RequestStep(p), ~Reads(p)
    PROVE  UNCHANGED <<seen, readAt>>
<1>1. Quiet(p) \/ Issues(p) \/ Mints(p) \/ Spends(p)
  BY Inv1Typed, StepKinds DEF RequestStep
<1>2. CASE Spends(p) BY <1>2 DEF Spends, MarkUsed, DeleteToken
<1> QED BY <1>1, <1>2 DEF Quiet, Issues, Mints, Stores, local

LEMMA RowUsersKept ==
    ASSUME Inv1, Stamps, UsersBehindRows, \A q \in Requests : UserFound(q),
           NEW p \in Requests, RequestStep(p)
    PROVE  UsersBehindRows'
<1>1. Frame(p) /\ p \notin DOMAIN codes /\ p \notin DOMAIN tokens
  BY HandleInv1, NotStored DEF RequestStep
<1>2. Quiet(p) \/ Issues(p) \/ Mints(p) \/ Spends(p) \/ Reads(p)
  BY Inv1Typed, StepKinds DEF RequestStep
<1>3. ASSUME NEW k \in DOMAIN codes PROVE Present(users, codes[k].user, codes[k].at)'
  <2>1. codes'[k].user = codes[k].user /\ codes'[k].at = codes[k].at
    BY <1>1 DEF Frame, CodesGrow, SameConsent
  <2>2. codes[k].at \in Nat BY StampTypes
  <2>3. Present(users, codes[k].user, codes[k].at) BY DEF UsersBehindRows
  <2>4. \A later \in Nat : codes[k].at <= later =>
            Present(users', codes[k].user, later)
    BY <2>2, <2>3, UsersKept DEF Present
  <2> QED BY <2>1, <2>2, <2>4
<1>4. ASSUME NEW t \in DOMAIN tokens PROVE Present(users, tokens[t].user, tokens[t].at)'
  <2>1. tokens'[t].user = tokens[t].user /\ tokens'[t].at = tokens[t].at
    BY <1>1 DEF Frame, TokensGrow, SameConsent
  <2>2. tokens[t].at \in Nat BY StampTypes
  <2>3. Present(users, tokens[t].user, tokens[t].at) BY DEF UsersBehindRows
  <2>4. \A later \in Nat : tokens[t].at <= later =>
            Present(users', tokens[t].user, later)
    BY <2>2, <2>3, UsersKept DEF Present
  <2> QED BY <2>1, <2>2, <2>4
<1>5. ASSUME p \in DOMAIN codes' PROVE Present(users, codes[p].user, codes[p].at)'
  <2>1. Issues(p)
    BY <1>1, <1>2, <1>5 DEF Quiet, Mints, Reads, Spends, MarkUsed
  <2>2. codes'[p].user = req[p].user /\ codes'[p].at = lsn + 1
    BY <2>1 DEF Issues, Insert
  <2>3. Present(users, req[p].user, lsn) BY <2>1 DEF Issues, UserFound
  <2>4. \A later \in Nat : lsn <= later => Present(users', req[p].user, later)
    BY <2>3, StampTypes, UsersKept DEF Present
  <2>5. lsn + 1 \in Nat /\ lsn <= lsn + 1 BY StampTypes
  <2> QED BY <2>2, <2>4, <2>5
<1>6. ASSUME p \in DOMAIN tokens' PROVE Present(users, tokens[p].user, tokens[p].at)'
  <2>1. Mints(p)
    BY <1>1, <1>2, <1>6 DEF Quiet, Issues, Reads, Spends, DeleteToken
  <2>2. tokens'[p].user = seen[p].user /\ tokens'[p].at = lsn + 1 /\ p \in DOMAIN seen
    BY <2>1 DEF Mints, Insert
  <2>3. Present(users, seen[p].user, readAt[p]) BY <2>2 DEF UserFound
  <2>4. readAt[p] \in Nat /\ readAt[p] <= lsn + 1
    BY <2>2, Inv1Typed, NextPosition, StampTypes DEF Stamps, ReadStamped
  <2>5. Present(users', seen[p].user, lsn + 1)
    BY <2>3, <2>4, Inv1Typed, NextPosition, UsersKept DEF Present
  <2> QED BY <2>2, <2>5
<1>7. DOMAIN codes' \subseteq DOMAIN codes \cup {p}
      /\ DOMAIN tokens' \subseteq DOMAIN tokens \cup {p}
  BY <1>1 DEF Frame, CodesGrow, TokensGrow
<1>8. \A k \in DOMAIN codes' : Present(users', codes'[k].user, codes'[k].at)
  BY <1>3, <1>5, <1>7 DEF Present
<1>9. \A t \in DOMAIN tokens' : Present(users', tokens'[t].user, tokens'[t].at)
  BY <1>4, <1>6, <1>7 DEF Present
<1> QED BY <1>8, <1>9 DEF UsersBehindRows

(* A user a request has seen is still there, and still seen.               *)
LEMMA SeenUserKept ==
    ASSUME Inv1, NEW q \in DOMAIN seen, UserFound(q), NEW p \in Requests, RequestStep(p),
           q \in DOMAIN seen', seen'[q] = seen[q], readAt'[q] = readAt[q]
    PROVE  /\ Present(users', seen'[q].user, readAt'[q])
           /\ \A point \in ReadPoints' : readAt'[q] <= point
<1>1. readAt[q] \in Nat BY StampTypes
<1>2. Present(users', seen[q].user, readAt[q])
  BY <1>1, UsersKept DEF UserFound, Present
<1>3. \A point \in ReadPoints : point \in Nat BY Inv1Typed, ReadPointsBelow
<1>4. \A point \in ReadPoints' : point \in Nat
  <2>1. Inv1' BY HandleInv1 DEF RequestStep
  <2> QED BY <2>1 DEF Inv1, TypeOK, DbTypeOK, ReadPoints
<1>5. \A point \in ReadPoints' : readAt[q] <= point
  <2> SUFFICES ASSUME NEW point \in ReadPoints' PROVE readAt[q] <= point
    OBVIOUS
  <2>1. PICK old \in ReadPoints : old <= point BY PointsKept
  <2> QED BY <1>1, <1>3, <1>4, <2>1 DEF UserFound
<1> QED BY <1>2, <1>5

LEMMA UsersStayFound ==
    ASSUME Inv1, Stamps, MonotoneReads, UsersBehindRows,
           \A q \in Requests : UserFound(q), NEW p \in Requests, RequestStep(p)
    PROVE  \A q \in Requests : UserFound(q)'
<1>1. Frame(p) /\ Inv1' BY HandleInv1 DEF RequestStep
<1>2. lsn \in Nat /\ lsn' \in Nat /\ lsn <= lsn'
  BY <1>1, StampTypes DEF Frame, Inv1, TypeOK, DbTypeOK
<1>3. ASSUME NEW q \in Requests, pc'[q] = "issue"
      PROVE  Present(users', req'[q].user, lsn')
  <2>1. CASE q = p
    <3>1. PICK point \in ReadPoints : Present(users, req[p].user, point)
      BY <1>3, <2>1, IssueFollowsLogin
    <3>2. point \in Nat /\ point <= lsn' BY <1>2, Inv1Typed, ReadPointsBelow
    <3>3. Present(users', req[p].user, lsn')
      BY <1>2, <3>1, <3>2, UsersKept DEF Present
    <3> QED BY <1>3, <2>1, <3>3, IssueFollowsLogin
  <2>2. CASE q # p
    <3>1. pc[q] = "issue" BY <1>1, <1>3, <2>2 DEF Frame
    <3>2. q \in DOMAIN req BY <3>1 DEF Inv1, Control, RequestOK, LabelOK, InFlight
    <3>3. req'[q] = req[q] BY <1>1, <2>2, <3>2 DEF Frame, GrowsBy
    <3>4. Present(users, req[q].user, lsn) BY <3>1 DEF UserFound
    <3> QED BY <1>2, <3>3, <3>4, UsersKept DEF Present
  <2> QED BY <2>1, <2>2
<1>4. ASSUME NEW q \in Requests, q \in DOMAIN seen'
      PROVE  /\ Present(users', seen'[q].user, readAt'[q])
             /\ \A point \in ReadPoints' : readAt'[q] <= point
  <2>1. CASE q # p \/ ~Reads(p)
    <3>1. q \in DOMAIN seen /\ seen'[q] = seen[q] /\ readAt'[q] = readAt[q]
      BY <1>1, <1>4, <2>1, SeenKept DEF Frame, GrowsBy
    <3> QED BY <1>4, <3>1, SeenUserKept
  <2>2. CASE q = p /\ Reads(p)
    <3>1. PICK point \in ReadPoints, key \in DOMAIN codes \cup DOMAIN tokens :
             \/ /\ key \in DOMAIN codes /\ codes[key].at <= point
                /\ Remember(p, codes[key], key, point)
             \/ /\ key \in DOMAIN tokens /\ tokens[key].at <= point
                /\ Remember(p, tokens[key], tokens[key].grant, point)
      BY <2>2 DEF Reads, CodeRedeemable, TokenVisible, Present
    <3>2. point \in Nat BY Inv1Typed, ReadPointsBelow
    <3>3. readAt'[p] = point
      BY <3>1 DEF Remember, Inv1, TypeOK
    <3>4. Present(users', seen'[p].user, point)
      <4>1. CASE key \in DOMAIN codes /\ codes[key].at <= point
                 /\ Remember(p, codes[key], key, point)
        <5>1. seen'[p].user = codes[key].user BY <4>1 DEF Remember, Insert
        <5>2. Present(users, codes[key].user, codes[key].at) /\ codes[key].at \in Nat
          BY <4>1, StampTypes DEF UsersBehindRows
        <5> QED BY <3>2, <4>1, <5>1, <5>2, UsersKept DEF Present
      <4>2. CASE key \in DOMAIN tokens /\ tokens[key].at <= point
                 /\ Remember(p, tokens[key], tokens[key].grant, point)
        <5>1. seen'[p].user = tokens[key].user BY <4>2 DEF Remember, Insert
        <5>2. Present(users, tokens[key].user, tokens[key].at) /\ tokens[key].at \in Nat
          BY <4>2, StampTypes DEF UsersBehindRows
        <5> QED BY <3>2, <4>2, <5>1, <5>2, UsersKept DEF Present
      <4> QED BY <3>1, <4>1, <4>2
    <3>5. \A other \in ReadPoints : other = point BY DEF ReadPoints, MonotoneReads
    <3>6. \A later \in ReadPoints' : point <= later BY <3>5, PointsKept
    <3> QED BY <2>2, <3>3, <3>4, <3>6
  <2> QED BY <2>1, <2>2
<1> QED BY <1>3, <1>4 DEF UserFound, Present

LEMMA SpendSetsWrite ==
    ASSUME Inv1, NEW p \in Requests, p \in DOMAIN req, Spends(p)
    PROVE  wroteAt'[p] # Never
<1>1. wroteAt' = [wroteAt EXCEPT ![p] = lsn + 1] BY SpendStamps
<1>2. wroteAt \in [Requests -> Nat] /\ lsn \in Nat BY DEF Inv1, TypeOK, DbTypeOK
<1> QED BY <1>1, <1>2 DEF Never

(* A session that was ended by a revocation or a purge stays so.           *)
LEMMA EndedKept ==
    ASSUME Inv1, RefusedAreDone, NEW p \in Requests, RequestStep(p), NEW k, Ended(k)
    PROVE  Ended(k)'
<1>1. PICK q \in DOMAIN req :
         /\ wroteAt[q] # Never
         /\ \/ req[q].kind = "revoke"
            \/ req[q].kind = "refresh_token" /\ reply[q] = "InvalidGrant"
         /\ tokens[req[q].key].grant = k
  BY DEF Ended
<1>2. Frame(p) /\ p \notin DOMAIN tokens BY HandleInv1, NotStored DEF RequestStep
<1>3. q \in Requests /\ req[q].key \in DOMAIN tokens BY <1>1, StampTypes
<1>4. tokens'[req[q].key].grant = k
  BY <1>1, <1>2, <1>3 DEF Frame, TokensGrow
<1>5. q \in DOMAIN req' /\ req'[q] = req[q]
  BY <1>2, NotStored DEF Frame, GrowsBy
<1>6. req[q].kind # "revoke" => q # p
  BY <1>1, <1>3, NotStored DEF RefusedAreDone
<1>7. wroteAt'[q] # Never
  <2>1. CASE q # p BY <1>1, <1>2, <1>3, <2>1 DEF Frame
  <2>2. CASE q = p
    <3>1. Quiet(p) \/ Issues(p) \/ Mints(p) \/ Spends(p) \/ Reads(p)
      BY Inv1Typed, StepKinds DEF RequestStep
    <3>2. CASE Spends(p)
      BY <2>2, <3>2, SpendSetsWrite
    <3> QED
      BY <1>1, <2>2, <3>1, <3>2
      DEF Quiet, Issues, Mints, Stores, local, Reads, Remember
  <2> QED BY <2>1, <2>2
<1>8. req[q].kind = "revoke" \/ reply'[q] = "InvalidGrant"
  BY <1>1, <1>2, <1>3, <1>6 DEF Frame
<1> QED BY <1>1, <1>4, <1>5, <1>7, <1>8 DEF Ended

(* A rotation under way goes on, or ends in a live refresh token.          *)
LEMMA RenewalGoesOn ==
    ASSUME Inv1, Inv1', Stamps, ~Faults, NEW p \in Requests, RequestStep(p), NEW k,
           NEW q \in DOMAIN seen, seen[q].grant = k, pc[q] \in {"user", "mint"}, UserFound(q)
    PROVE  Surviving(k)'
<1>1. Frame(p) BY HandleInv1 DEF RequestStep
<1>2. q \in Requests BY DEF Inv1, TypeOK, IsTable
<1>3. CASE q # p \/ pc'[q] \in {"user", "mint"}
  <2>1. ~Reads(p) \/ q # p BY DEF Reads
  <2>2. q \in DOMAIN seen' /\ seen'[q] = seen[q]
    BY <1>1, <2>1, SeenKept DEF Frame, GrowsBy
  <2>3. pc'[q] \in {"user", "mint"} BY <1>1, <1>2, <1>3 DEF Frame
  <2>4. Renewing(k)' BY <2>2, <2>3 DEF Renewing, InFlight
  <2> QED BY <2>4 DEF Surviving
<1>4. CASE q = p /\ pc[p] = "user"
  <2>1. FindUser(p) BY <1>4, WhoActs
  <2>2. \A point \in ReadPoints : Present(users, seen[p].user, point)
    <3>1. users[seen[p].user].at \in Nat
      BY <1>4 DEF UserFound, Present, Inv1, TypeOK, IsTable, UserRow
    <3>2. \A point \in ReadPoints : point \in Nat BY Inv1Typed, ReadPointsBelow
    <3>3. readAt[p] \in Nat BY StampTypes
    <3> QED BY <1>4, <3>1, <3>2, <3>3 DEF UserFound, Present
  <2>3. Goto(p, "mint") BY <2>1, <2>2 DEF FindUser, Failed
  <2>4. pc'[p] = "mint" BY <2>3, GotoStep DEF Inv1, Labels
  <2> QED BY <1>3, <1>4, <2>4
<1>5. CASE q = p /\ pc[p] = "mint"
  <2>1. MintToken(p) BY <1>5, WhoActs
  <2>0. Referenced(seen[p].user) BY <1>5 DEF UserFound, Present, Referenced
  <2>2. /\ p \in DOMAIN tokens' /\ tokens'[p].grant = seen[p].grant
        /\ tokens'[p].deletedAt = Never
    BY <2>0, <2>1 DEF MintToken, Failed, Unreferenced, Insert
  <2>3. \E t \in DOMAIN tokens' : tokens'[t].grant = k /\ Live(t)'
    BY <1>5, <2>2 DEF Live
  <2> QED BY <2>3 DEF Surviving
<1> QED BY <1>3, <1>4, <1>5

(* The request that removes a token renews its session, or ends it.        *)
LEMMA RemovalRenewsOrEnds ==
    ASSUME Inv1, Inv1', Descent, ~Faults, NEW p \in Requests, RequestStep(p),
           NEW k, NEW t \in DOMAIN tokens, tokens[t].grant = k, Live(t), ~Live(t)'
    PROVE  Surviving(k)'
<1>1. Frame(p) /\ p \notin DOMAIN tokens BY HandleInv1, NotStored DEF RequestStep
<1>2. Spends(p) /\ DeleteToken(p) /\ UNCHANGED req
      /\ req[p].kind \in {"refresh_token", "revoke"}
  <2>1. Quiet(p) \/ Issues(p) \/ Mints(p) \/ Spends(p) \/ Reads(p)
    BY Inv1Typed, StepKinds DEF RequestStep
  <2>2. UNCHANGED tokens => Live(t)' = Live(t) BY DEF Live
  <2>3. ~Mints(p) BY <1>1 DEF Mints, Insert, Live
  <2> QED BY <2>1, <2>2, <2>3 DEF Quiet, Issues, Spends, Reads, Live
<1>3. p \in DOMAIN req /\ req[p].key \in DOMAIN tokens
  <2>1. InFlight(p) BY <1>2 DEF Spends, InFlight
  <2> QED BY <1>2, <2>1, Inv1Typed, InFlightFacts, StampTypes
<1>4. req[p].key = t
  <2>1. tokens' = [tokens EXCEPT ![req[p].key].deletedAt = Stamp(@)] BY <1>2 DEF DeleteToken
  <2>2. tokens \in [DOMAIN tokens -> TokenRow] BY DEF Inv1, TypeOK, IsTable
  <2> QED BY <2>1, <2>2 DEF Live
<1>5. tokens'[t].grant = k
  BY <1>1 DEF Frame, TokensGrow
<1>6. wroteAt'[p] # Never BY <1>2, <1>3, SpendSetsWrite
<1>7. CASE pc[p] = "spend"
  <2>1. SpendToken(p)
    BY <1>2, <1>7, WhoActs DEF SpendCode
  <2>2. Goto(p, "user") BY <2>1 DEF SpendToken, Failed
  <2>3. pc'[p] = "user" BY <2>2, GotoStep DEF Inv1, Labels
  <2>4. p \in DOMAIN seen /\ UNCHANGED seen
    BY <1>2, <1>7 DEF Inv1, Control, RequestOK, LabelOK, DeleteToken
  <2>5. seen[p].grant = k
    BY <1>4, <2>1, <2>4 DEF Descent, SeenDescends, SpendToken
  <2>6. Renewing(k)' BY <2>3, <2>4, <2>5 DEF Renewing, InFlight
  <2> QED BY <2>6 DEF Surviving
<1>8. CASE pc[p] = "purge"
  <2>1. PurgeToken(p) BY <1>8, WhoActs
  <2>2. reply'[p] = "InvalidGrant"
    BY <2>1, FinishStep DEF PurgeToken, Inv1, Replies
  <2>3. req[p].kind = "refresh_token"
    BY <1>8 DEF Inv1, Control, RequestOK, LabelOK
  <2>4. Ended(k)'
    BY <1>2, <1>3, <1>4, <1>5, <1>6, <2>2, <2>3 DEF Ended
  <2> QED BY <2>4 DEF Surviving
<1>9. CASE pc[p] = "revoke"
  <2>1. req[p].kind = "revoke" BY <1>9 DEF Inv1, Control, RequestOK, LabelOK
  <2>2. Ended(k)' BY <1>2, <1>3, <1>4, <1>5, <1>6, <2>1 DEF Ended
  <2> QED BY <2>2 DEF Surviving
<1> QED BY <1>2, <1>7, <1>8, <1>9 DEF Spends

(* The request that marks a code goes on to store a refresh token.         *)
LEMMA SpentCodeRenews ==
    ASSUME Inv1, Inv1', Descent, ~Faults, NEW p \in Requests, RequestStep(p),
           NEW k \in DOMAIN codes, codes[k].usedAt = Never, codes'[k].usedAt # Never
    PROVE  Surviving(k)'
<1>1. p \notin DOMAIN codes BY NotStored
<1>2. Spends(p) /\ MarkUsed(p) /\ req[p].kind = "authorization_code"
  <2>1. Quiet(p) \/ Issues(p) \/ Mints(p) \/ Spends(p) \/ Reads(p)
    BY Inv1Typed, StepKinds DEF RequestStep
  <2>2. ~Issues(p) BY <1>1 DEF Issues, Insert
  <2> QED BY <2>1, <2>2 DEF Quiet, Mints, Spends, Reads
<1>3. req[p].key = k
  <2>1. codes' = [codes EXCEPT ![req[p].key].usedAt = Stamp(@)] BY <1>2 DEF MarkUsed
  <2>2. codes \in [DOMAIN codes -> CodeRow] BY DEF Inv1, TypeOK, IsTable
  <2> QED BY <2>1, <2>2
<1>4. pc[p] = "spend"
  BY <1>2 DEF Spends, Inv1, Control, RequestOK, LabelOK
<1>5. SpendCode(p) BY <1>2, <1>4, WhoActs DEF SpendToken
<1>6. Goto(p, "user") BY <1>5 DEF SpendCode, Failed
<1>7. pc'[p] = "user" BY <1>6, GotoStep DEF Inv1, Labels
<1>8. p \in DOMAIN seen /\ UNCHANGED seen
  BY <1>2, <1>4 DEF Inv1, Control, RequestOK, LabelOK, MarkUsed
<1>9. seen[p].grant = k
  BY <1>2, <1>3, <1>8 DEF Descent, SeenDescends
<1>10. Renewing(k)' BY <1>7, <1>8, <1>9 DEF Renewing, InFlight
<1> QED BY <1>10 DEF Surviving

LEMMA SurvivalKept ==
    ASSUME IInv, Inv1', RefusedAreDone, ~Faults, AllSurvive,
           \A q \in Requests : UserFound(q), NEW p \in Requests, RequestStep(p)
    PROVE  AllSurvive'
<1> USE DEF IInv
<1> SUFFICES ASSUME NEW k \in DOMAIN codes', codes'[k].usedAt # Never
             PROVE  Surviving(k)'
  BY DEF AllSurvive
<1>1. Frame(p) /\ p \notin DOMAIN tokens /\ p \notin DOMAIN codes
  BY HandleInv1, NotStored DEF RequestStep
<1>2. k \in DOMAIN codes
  <2>1. Quiet(p) \/ Issues(p) \/ Mints(p) \/ Spends(p) \/ Reads(p)
    BY Inv1Typed, StepKinds DEF RequestStep
  <2>2. CASE Issues(p) BY <2>2 DEF Issues, Insert
  <2> QED BY <2>1, <2>2 DEF Quiet, Mints, Spends, Reads, MarkUsed
<1>3. CASE codes[k].usedAt = Never BY <1>2, <1>3, SpentCodeRenews
<1>4. CASE codes[k].usedAt # Never
  <2>1. Surviving(k) BY <1>2, <1>4 DEF AllSurvive
  <2>2. CASE Ended(k) BY <2>2, EndedKept DEF Surviving
  <2>3. CASE Renewing(k)
    <3>1. PICK q \in DOMAIN seen : seen[q].grant = k /\ pc[q] \in {"user", "mint"}
      BY <2>3 DEF Renewing
    <3>2. UserFound(q) BY DEF Inv1, TypeOK, IsTable
    <3> QED BY <3>1, <3>2, RenewalGoesOn
  <2>4. CASE \E t \in DOMAIN tokens : tokens[t].grant = k /\ Live(t)
    <3>1. PICK t \in DOMAIN tokens : tokens[t].grant = k /\ Live(t) BY <2>4
    <3>2. CASE ~Live(t)' BY <3>1, <3>2, RemovalRenewsOrEnds
    <3>3. CASE Live(t)'
      <4>1. t \in DOMAIN tokens' /\ tokens'[t].grant = k
        BY <1>1, <3>1 DEF Frame, TokensGrow
      <4> QED BY <3>3, <4>1 DEF Surviving
    <3> QED BY <3>2, <3>3
  <2> QED BY <2>1, <2>2, <2>3, <2>4 DEF Surviving
<1> QED BY <1>3, <1>4

(* Replication only moves what a later read sees forward.                  *)
LEMMA SurroundingsPoints ==
    ASSUME Inv1, Surroundings
    PROVE  \A point \in ReadPoints' : \E old \in ReadPoints : old <= point
<1>1. lsn \in Nat /\ applied \in [Replicas -> 1 .. lsn] /\ lsn' = lsn
  BY Inv1Typed, SurroundingsStep DEF Inv1, TypeOK, DbTypeOK
<1>2. CASE UNCHANGED applied BY <1>1, <1>2 DEF ReadPoints
<1>3. CASE \E r \in Replicas : Replicate(r)
  <2>1. PICK r \in Replicas : applied' = [applied EXCEPT ![r] = @ + 1]
    BY <1>3 DEF Replicate, Replay
  <2>2. \A s \in Replicas : applied[s] <= applied'[s] BY <1>1, <2>1
  <2> QED BY <1>1, <2>1, <2>2 DEF ReadPoints
<1> QED BY <1>2, <1>3 DEF Surroundings, EvictClient, Tick, vars, dbVars

LEMMA SurroundingsSessions ==
    ASSUME Inv1, Sessions, Surroundings PROVE Sessions'
<1> SUFFICES ASSUME Steady PROVE Sessions'
  BY DEF Sessions, Steady, MonotoneReads
<1>1. UNCHANGED <<users, codes, tokens, lsn, pc, req, seen, readAt, wroteAt, reply>>
  BY Inv1Typed, SurroundingsStep DEF tables, local
<1>2. UsersBehindRows' BY <1>1 DEF Sessions, UsersBehindRows, Present
<1>3. AllSurvive'
  BY <1>1 DEF Sessions, AllSurvive, Surviving, Live, Renewing, Ended, InFlight
<1>4. ASSUME NEW q \in Requests PROVE UserFound(q)'
  <2>1. UserFound(q) BY DEF Sessions
  <2>2. ASSUME q \in DOMAIN seen, NEW point \in ReadPoints' PROVE readAt[q] <= point
    <3>1. PICK old \in ReadPoints : old <= point BY SurroundingsPoints
    <3>2. readAt[q] \in Nat /\ old \in Nat BY Inv1Typed, ReadPointsBelow, StampTypes
    <3>3. Inv1' BY SurroundingsInv1
    <3>4. point \in Nat BY <3>3 DEF Inv1, TypeOK, DbTypeOK, ReadPoints
    <3>5. readAt[q] <= old BY <2>1, <2>2 DEF UserFound
    <3> QED BY <3>1, <3>2, <3>4, <3>5
  <2> QED BY <1>1, <2>1, <2>2 DEF UserFound, Present
<1> QED BY <1>2, <1>3, <1>4 DEF Sessions

LEMMA StepKeepsSessions == IInv /\ Refusals /\ Sessions /\ [Next]_vars => Sessions'
<1> SUFFICES ASSUME IInv, Refusals, Sessions, [Next]_vars PROVE Sessions'
  OBVIOUS
<1> USE DEF IInv
<1>1. CASE Surroundings BY <1>1, SurroundingsSessions
<1>2. CASE \E p \in Requests : RequestStep(p)
  <2>1. PICK p \in Requests : RequestStep(p) BY <1>2
  <2>2. Inv1' BY StepKeepsInv1
  <2>3. ASSUME Steady
        PROVE  UsersBehindRows' /\ (\A q \in Requests : UserFound(q)') /\ AllSurvive'
    BY <2>1, <2>2, <2>3, RowUsersKept, UsersStayFound, SurvivalKept
    DEF Sessions, Refusals, Steady
  <2> QED BY <2>3 DEF Sessions, Steady, MonotoneReads
<1> QED BY <1>1, <1>2, NextSteps DEF RequestStep

LEMMA InitSessions == Init => Sessions
<1> SUFFICES ASSUME Init PROVE Sessions
  OBVIOUS
<1>1. DOMAIN codes = {} /\ DOMAIN tokens = {} /\ DOMAIN seen = {}
  BY EmptyIsTable DEF Init
<1>2. \A p \in Requests : pc[p] = "new" BY DEF Init
<1> QED BY <1>1, <1>2 DEF Sessions, UsersBehindRows, UserFound, AllSurvive

(* Without failures and with at most one replica, a consent that has been  *)
(* redeemed once is worth a live refresh token, or a request that is about *)
(* to store one, until the session is revoked or a token of it expires:    *)
(* exchange_authorization_code and exchange_refresh_token delete the old   *)
(* grant before they look up the user and insert the new one, and that     *)
(* look-up cannot fail, for the replica that had the grant has the user.   *)
THEOREM SessionsSurvive == Spec => []SessionsSurviveRotation
<1>1. Sessions => SessionsSurviveRotation
  BY DEF Sessions, Steady, AllSurvive, Surviving, SessionsSurviveRotation
<1> QED BY <1>1, InitIInv, InitRefusals, InitSessions, StepKeepsIInv, StepKeepsRefusals,
           StepKeepsSessions, PTL DEF Spec

(***************************************************************************)
(* OAuthService implements GrantLifecycle: the initial states map to its   *)
(* initial state, and each step of a request to a consent, a spending, a   *)
(* mint, an end of one session, or to no step.                             *)
(***************************************************************************)
Untouched(k) == StageOf(k)' = StageOf(k) /\ LiveTokens(k)' = LiveTokens(k)
OthersUntouched(k) == \A j \in Requests \ {k} : Untouched(j)
SameIssued == DOMAIN tokens' = DOMAIN tokens

StageMap == [k \in Requests |-> StageOf(k)]
CurrentMap == [k \in Requests |-> LiveTokens(k)]

(***************************************************************************)
(* From the change of one consent to a step of the lifecycle               *)
(***************************************************************************)
LEMMA MapsChange ==
    ASSUME NEW k \in Requests, OthersUntouched(k)
    PROVE  /\ StageMap' = [StageMap EXCEPT ![k] = StageOf(k)']
           /\ CurrentMap' = [CurrentMap EXCEPT ![k] = LiveTokens(k)']
BY DEF OthersUntouched, Untouched, StageMap, CurrentMap

LEMMA NoStep ==
    ASSUME \A k \in Requests : Untouched(k), SameIssued
    PROVE  UNCHANGED Lifecycle!vars
BY DEF Untouched, SameIssued, Lifecycle!vars

LEMMA ConsentStep ==
    ASSUME NEW k \in Requests, OthersUntouched(k), SameIssued,
           StageOf(k) = "none", StageOf(k)' = "issued", LiveTokens(k)' = LiveTokens(k)
    PROVE  Lifecycle!Next
<1>1. StageMap' = [StageMap EXCEPT ![k] = "issued"] BY MapsChange
<1>2. CurrentMap' = CurrentMap BY MapsChange DEF CurrentMap
<1>3. Lifecycle!Consent(k)
  BY <1>1, <1>2 DEF Lifecycle!Consent, SameIssued, StageMap, CurrentMap
<1> QED BY <1>3 DEF Lifecycle!Next

LEMMA SpendStep ==
    ASSUME NEW k \in Requests, OthersUntouched(k), SameIssued,
           StageOf(k) \in {"issued", "live"}, StageOf(k)' = "owed", LiveTokens(k)' = {}
    PROVE  Lifecycle!Next
<1>1. StageMap' = [StageMap EXCEPT ![k] = "owed"] BY MapsChange
<1>2. CurrentMap' = [CurrentMap EXCEPT ![k] = {}] BY MapsChange
<1>3. Lifecycle!Spend(k)
  BY <1>1, <1>2 DEF Lifecycle!Spend, SameIssued, StageMap, CurrentMap
<1> QED BY <1>3 DEF Lifecycle!Next

LEMMA MintStep ==
    ASSUME NEW k \in Requests, OthersUntouched(k), NEW t \in Requests,
           t \notin DOMAIN tokens, DOMAIN tokens' = DOMAIN tokens \cup {t},
           StageOf(k) = "owed", StageOf(k)' = "live", LiveTokens(k)' = {t}
    PROVE  Lifecycle!Next
<1>1. StageMap' = [StageMap EXCEPT ![k] = "live"] BY MapsChange
<1>2. CurrentMap' = [CurrentMap EXCEPT ![k] = {t}] BY MapsChange
<1>3. Lifecycle!Mint(k, t)
  BY <1>1, <1>2 DEF Lifecycle!Mint, StageMap, CurrentMap
<1> QED BY <1>3 DEF Lifecycle!Next

LEMMA EndStep ==
    ASSUME NEW k \in Requests, OthersUntouched(k), SameIssued,
           StageOf(k) \in {"issued", "owed", "live"}, StageOf(k)' = "ended",
           LiveTokens(k)' = {}
    PROVE  Lifecycle!Next
<1>1. StageMap' = [StageMap EXCEPT ![k] = "ended"] BY MapsChange
<1>2. CurrentMap' = [CurrentMap EXCEPT ![k] = {}] BY MapsChange
<1>3. Lifecycle!End(k)
  BY <1>1, <1>2 DEF Lifecycle!End, SameIssued, StageMap, CurrentMap
<1> QED BY <1>3 DEF Lifecycle!Next

(***************************************************************************)
(* Stages                                                                  *)
(***************************************************************************)
LEMMA StageValue ==
    ASSUME NEW k
    PROVE  /\ k \notin DOMAIN codes => StageOf(k) = "none"
           /\ k \in DOMAIN codes /\ codes[k].usedAt = Never => StageOf(k) = "issued"
           /\ k \in DOMAIN codes /\ codes[k].usedAt # Never =>
                 StageOf(k) = IF LiveTokens(k) # {} THEN "live"
                              ELSE IF Renewing(k) THEN "owed" ELSE "ended"
BY DEF StageOf

LEMMA StageValueNext ==
    ASSUME NEW k
    PROVE  /\ k \notin DOMAIN codes' => StageOf(k)' = "none"
           /\ k \in DOMAIN codes' /\ codes'[k].usedAt = Never => StageOf(k)' = "issued"
           /\ k \in DOMAIN codes' /\ codes'[k].usedAt # Never =>
                 StageOf(k)' = IF LiveTokens(k)' # {} THEN "live"
                               ELSE IF Renewing(k)' THEN "owed" ELSE "ended"
BY DEF StageOf

(* A consent whose code, tokens and renewal are as before is at the same   *)
(* stage.                                                                  *)
LEMMA SameStage ==
    ASSUME NEW k, k \in DOMAIN codes <=> k \in DOMAIN codes',
           k \in DOMAIN codes => (codes'[k].usedAt = Never <=> codes[k].usedAt = Never),
           LiveTokens(k)' = LiveTokens(k),
           LiveTokens(k) = {} => (Renewing(k)' <=> Renewing(k))
    PROVE  Untouched(k)
BY StageValue, StageValueNext DEF Untouched

LEMMA StepFacts ==
    ASSUME IInv, Isolated, NEW p \in Requests, RequestStep(p)
    PROVE  /\ Inv1' /\ Frame(p) /\ IInv'
           /\ p \notin DOMAIN codes /\ p \notin DOMAIN tokens
           /\ \A q \in Requests \ {p} : ~InFlight(q) /\ ~InFlight(q)'
           /\ DOMAIN seen \subseteq Requests /\ DOMAIN seen' \subseteq Requests
<1>1. Inv1' /\ Frame(p) BY HandleInv1 DEF RequestStep, IInv
<1>2. p \notin DOMAIN codes /\ p \notin DOMAIN tokens
  BY ActingRequest DEF RequestStep, IInv
<1>3. \A q \in Requests \ {p} : ~InFlight(q) /\ ~InFlight(q)'
  BY <1>1, OthersIdle DEF RequestStep, IInv
<1>4. IInv'
  <2>1. [Next]_vars BY DEF Next, RequestStep
  <2> QED BY <2>1, StepKeepsIInv
<1> QED BY <1>1, <1>2, <1>3, <1>4 DEF IInv, Inv1, TypeOK, IsTable

(* Only the request that takes the step can be renewing anything.          *)
LEMMA WhoRenews ==
    ASSUME IInv, Isolated, NEW p \in Requests, RequestStep(p), NEW k
    PROVE  /\ Renewing(k) <=>
                 p \in DOMAIN seen /\ seen[p].grant = k /\ pc[p] \in {"user", "mint"}
           /\ Renewing(k)' <=>
                 p \in DOMAIN seen' /\ seen'[p].grant = k /\ pc'[p] \in {"user", "mint"}
BY StepFacts DEF Renewing, InFlight

(* A code that was never spent has no token.                               *)
LEMMA UnspentHasNone ==
    ASSUME IInv, NEW k, LiveTokens(k) # {}
    PROVE  k \in DOMAIN codes /\ codes[k].usedAt # Never
BY DEF IInv, Descent, TokenDescends, LiveTokens

LEMMA SpentWhenRenewed ==
    ASSUME IInv, NEW p \in DOMAIN seen, pc[p] \in {"user", "mint"}
    PROVE  /\ seen[p].grant \in DOMAIN codes /\ codes[seen[p].grant].usedAt # Never
           /\ Isolated => LiveTokens(seen[p].grant) = {}
<1> USE DEF IInv
<1>1. p \in Requests /\ p \in DOMAIN req /\ req[p].kind \in KeyedKinds BY StampTypes
<1>2. wroteAt[p] # Never BY <1>1 DEF Stamps, ReadStamped
<1>3. StampOf(p) # Never BY <1>1, <1>2 DEF Stamps, WriteStamped
<1>4. SeenDescends(p) BY DEF Descent
<1>5. ASSUME req[p].kind = "authorization_code"
      PROVE  codes[seen[p].grant].usedAt # Never
  BY <1>3, <1>4, <1>5 DEF SeenDescends, StampOf
<1>6. ASSUME req[p].kind = "refresh_token"
      PROVE  codes[seen[p].grant].usedAt # Never
  <2>1. TokenDescends(req[p].key) BY <1>1, <1>6, StampTypes DEF Descent
  <2> QED BY <1>4, <1>6, <2>1 DEF SeenDescends, TokenDescends
<1>7. req[p].kind \in TokenGrants
  BY <1>1 DEF Inv1, Control, RequestOK, SeenOK
<1>8. Isolated => LiveTokens(seen[p].grant) = {}
  BY <1>1 DEF Isolation, NoneLive, LiveTokens
<1>9. seen[p].grant \in DOMAIN codes BY <1>4 DEF SeenDescends
<1> QED BY <1>5, <1>6, <1>7, <1>8, <1>9 DEF TokenGrants

(***************************************************************************)
(* The steps of a request                                                  *)
(***************************************************************************)
Simulated == Lifecycle!Next \/ UNCHANGED Lifecycle!vars

(* A request that gives up a renewal ends the session; nothing else that   *)
(* leaves codes and tokens alone is seen.                                  *)
LEMMA QuietSimulated ==
    ASSUME IInv, Isolated, NEW p \in Requests, RequestStep(p), Quiet(p)
    PROVE  Simulated
<1>1. UNCHANGED <<codes, tokens, seen>> BY DEF Quiet
<1>2. SameIssued /\ \A k : LiveTokens(k)' = LiveTokens(k)
  BY <1>1 DEF SameIssued, LiveTokens, Live
<1>3. CASE p \in DOMAIN seen /\ pc[p] \in {"user", "mint"} /\ pc'[p] \notin {"user", "mint"}
  <2>0. PICK k : k = seen[p].grant OBVIOUS
  <2>1. k \in DOMAIN codes /\ codes[k].usedAt # Never /\ LiveTokens(k) = {}
    BY <1>3, <2>0, SpentWhenRenewed
  <2>2. k \in Requests BY <2>1, StampTypes DEF IInv
  <2>3. Renewing(k) /\ ~Renewing(k)' BY <1>3, <2>0, WhoRenews
  <2>4. StageOf(k) = "owed" BY <2>1, <2>3, StageValue
  <2>5. StageOf(k)' = "ended" BY <1>1, <1>2, <2>1, <2>3, StageValueNext
  <2>6. \A j \in Requests \ {k} : Renewing(j)' <=> Renewing(j)
    BY <1>1, <1>3, <2>0, WhoRenews
  <2>7. OthersUntouched(k) BY <1>1, <1>2, <2>6, SameStage DEF OthersUntouched
  <2>8. LiveTokens(k)' = {} BY <1>2, <2>1
  <2> QED BY <1>2, <2>2, <2>4, <2>5, <2>7, <2>8, EndStep DEF Simulated
<1>4. CASE ~(p \in DOMAIN seen /\ pc[p] \in {"user", "mint"} /\ pc'[p] \notin {"user", "mint"})
  <2>1. pc'[p] \in {"user", "mint"} => pc[p] = "user" BY DEF Quiet
  <2>2. \A k \in Requests : Renewing(k)' <=> Renewing(k)
    BY <1>1, <1>4, <2>1, WhoRenews
  <2>3. \A k \in Requests : Untouched(k) BY <1>1, <1>2, <2>2, SameStage
  <2> QED BY <1>2, <2>3, NoStep DEF Simulated
<1> QED BY <1>3, <1>4

LEMMA ReadsSimulated ==
    ASSUME IInv, Isolated, NEW p \in Requests, RequestStep(p), Reads(p)
    PROVE  Simulated
<1>1. UNCHANGED <<codes, tokens>> /\ pc[p] = "lookup" /\ pc'[p] = "spend"
  BY DEF Reads
<1>2. SameIssued /\ \A k : LiveTokens(k)' = LiveTokens(k)
  BY <1>1 DEF SameIssued, LiveTokens, Live
<1>3. \A k \in Requests : Renewing(k)' <=> Renewing(k) BY <1>1, WhoRenews
<1>4. \A k \in Requests : Untouched(k) BY <1>1, <1>2, <1>3, SameStage
<1> QED BY <1>2, <1>4, NoStep DEF Simulated

LEMMA IssuesSimulated ==
    ASSUME IInv, Isolated, NEW p \in Requests, RequestStep(p), Issues(p)
    PROVE  Simulated
<1>1. UNCHANGED tokens /\ pc[p] = "issue" /\ pc'[p] = "done"
  BY DEF Issues, Stores
<1>2. SameIssued /\ \A k : LiveTokens(k)' = LiveTokens(k)
  BY <1>1 DEF SameIssued, LiveTokens, Live
<1>3. /\ DOMAIN codes' = DOMAIN codes \cup {p} /\ codes'[p].usedAt = Never
      /\ \A k \in DOMAIN codes \ {p} : codes'[k] = codes[k]
  BY DEF Issues, Insert
<1>4. p \notin DOMAIN codes BY StepFacts
<1>5. \A k \in Requests : Renewing(k)' <=> Renewing(k) BY <1>1, WhoRenews
<1>6. OthersUntouched(p) BY <1>2, <1>3, <1>5, SameStage DEF OthersUntouched
<1>7. StageOf(p) = "none" /\ StageOf(p)' = "issued"
  BY <1>3, <1>4, StageValue, StageValueNext
<1> QED BY <1>2, <1>6, <1>7, ConsentStep DEF Simulated

LEMMA MintsSimulated ==
    ASSUME IInv, Isolated, NEW p \in Requests, RequestStep(p), Mints(p)
    PROVE  Simulated
<1>0. PICK k : k = seen[p].grant OBVIOUS
<1>1. p \in DOMAIN seen /\ pc[p] = "mint" /\ pc'[p] = "done" /\ UNCHANGED codes
  BY DEF Mints, Stores
<1>2. k \in DOMAIN codes /\ codes[k].usedAt # Never /\ LiveTokens(k) = {}
  BY <1>0, <1>1, SpentWhenRenewed
<1>3. k \in Requests BY <1>2, StampTypes DEF IInv
<1>4. p \notin DOMAIN tokens BY StepFacts
<1>5. /\ DOMAIN tokens' = DOMAIN tokens \cup {p}
      /\ tokens'[p].grant = k /\ tokens'[p].deletedAt = Never
      /\ \A t \in DOMAIN tokens : tokens'[t] = tokens[t]
  BY <1>0, <1>4 DEF Mints, Insert
<1>6. Renewing(k) /\ ~Renewing(k)' BY <1>0, <1>1, WhoRenews
<1>7. \A j \in Requests \ {k} : Renewing(j)' <=> Renewing(j) BY <1>0, <1>1, WhoRenews
<1>8. LiveTokens(k)' = {p} BY <1>2, <1>5 DEF LiveTokens, Live
<1>9. \A j \in Requests \ {k} : LiveTokens(j)' = LiveTokens(j)
  BY <1>4, <1>5 DEF LiveTokens, Live
<1>10. OthersUntouched(k) BY <1>1, <1>7, <1>9, SameStage DEF OthersUntouched
<1>11. StageOf(k) = "owed" /\ StageOf(k)' = "live"
  BY <1>1, <1>2, <1>6, <1>8, StageValue, StageValueNext
<1> QED BY <1>3, <1>4, <1>5, <1>8, <1>10, <1>11, MintStep DEF Simulated

(* Marking a code gives the consent up for a token, or loses it.           *)
LEMMA MarkSimulated ==
    ASSUME IInv, Isolated, NEW p \in Requests, RequestStep(p), Spends(p), MarkUsed(p),
           UNCHANGED tokens, req[p].kind = "authorization_code"
    PROVE  Simulated
<1> USE DEF IInv
<1>0. PICK k : k = req[p].key OBVIOUS
<1>1. /\ UNCHANGED seen
      /\ codes' = [codes EXCEPT ![k].usedAt = Stamp(@)]
  BY <1>0 DEF MarkUsed
<1>2. pc[p] = "spend" /\ p \in DOMAIN seen /\ pc'[p] \in {"user", "done"}
  BY DEF Spends, Inv1, Control, RequestOK, LabelOK
<1>3. p \in DOMAIN req /\ k \in DOMAIN codes /\ k \in Requests
  BY <1>0, <1>2, StampTypes
<1>4. seen[p].grant = k BY <1>0, <1>2 DEF Descent, SeenDescends
<1>5. codes[k].usedAt = Never BY <1>0, <1>2 DEF Isolation, SpendsFirst, StampOf
<1>6. codes \in [DOMAIN codes -> CodeRow] /\ lsn + 1 # Never
  BY Inv1Typed, NextPosition DEF Inv1, TypeOK, IsTable, Never
<1>7. /\ DOMAIN codes' = DOMAIN codes /\ codes'[k].usedAt # Never
      /\ \A j \in DOMAIN codes \ {k} : codes'[j] = codes[j]
  BY <1>1, <1>3, <1>5, <1>6 DEF Stamp, CodeRow
<1>8. SameIssued /\ \A j : LiveTokens(j)' = LiveTokens(j)
  BY DEF SameIssued, LiveTokens, Live
<1>9. LiveTokens(k) = {} BY <1>5, UnspentHasNone
<1>10. \A j \in Requests \ {k} : Renewing(j)' <=> Renewing(j)
  BY <1>1, <1>2, <1>4, WhoRenews
<1>11. OthersUntouched(k) BY <1>7, <1>8, <1>10, SameStage DEF OthersUntouched
<1>12. StageOf(k) = "issued" BY <1>3, <1>5, StageValue
<1>13. LiveTokens(k)' = {} BY <1>8, <1>9
<1>14. CASE pc'[p] = "user"
  <2>1. Renewing(k)' BY <1>1, <1>2, <1>4, <1>14, WhoRenews
  <2>2. StageOf(k)' = "owed" BY <1>3, <1>7, <1>13, <2>1, StageValueNext
  <2> QED BY <1>3, <1>8, <1>11, <1>12, <1>13, <2>2, SpendStep DEF Simulated
<1>15. CASE pc'[p] = "done"
  <2>1. ~Renewing(k)' BY <1>15, WhoRenews
  <2>2. StageOf(k)' = "ended" BY <1>3, <1>7, <1>13, <2>1, StageValueNext
  <2> QED BY <1>3, <1>8, <1>11, <1>12, <1>13, <2>2, EndStep DEF Simulated
<1> QED BY <1>2, <1>14, <1>15

(* Deleting the live token of a session gives it up for the next one, or   *)
(* ends the session; deleting a token twice does nothing.                  *)
LEMMA DeleteSimulated ==
    ASSUME IInv, Isolated, NEW p \in Requests, RequestStep(p), Spends(p), DeleteToken(p),
           UNCHANGED codes, req[p].kind \in {"refresh_token", "revoke"}
    PROVE  Simulated
<1> USE DEF IInv
<1>0. PICK t, k : t = req[p].key /\ k = tokens[t].grant OBVIOUS
<1>1. /\ UNCHANGED seen
      /\ tokens' = [tokens EXCEPT ![t].deletedAt = Stamp(@)]
  BY <1>0 DEF DeleteToken
<1>2. p \in DOMAIN req
  BY Inv1Typed, InFlightFacts DEF Spends, InFlight
<1>3. t \in DOMAIN tokens BY <1>0, <1>2, StampTypes
<1>4. k \in DOMAIN codes /\ codes[k].usedAt # Never /\ k \in Requests
  BY <1>0, <1>3, StampTypes DEF Descent, TokenDescends
<1>5. tokens \in [DOMAIN tokens -> TokenRow] /\ lsn + 1 # Never
  BY Inv1Typed, NextPosition DEF Inv1, TypeOK, IsTable, Never
<1>6. pc[p] = "spend" =>
         p \in DOMAIN seen /\ seen[p].grant = k /\ tokens[t].deletedAt = Never
  BY <1>0 DEF Inv1, Control, RequestOK, LabelOK, Descent, SeenDescends, Isolation,
     SpendsFirst, StampOf
<1>7. /\ pc[p] \notin {"user", "mint"} /\ pc'[p] \in {"user", "done"}
      /\ pc'[p] = "user" => pc[p] = "spend"
  BY DEF Spends
<1>8. Live(t) => \A s \in LiveTokens(k) : s = t
  BY <1>0, <1>3 DEF Isolation, OneLiveTokenPerCode, LiveTokens
<1>9. /\ DOMAIN tokens' = DOMAIN tokens
      /\ \A s \in DOMAIN tokens : tokens'[s].grant = tokens[s].grant
      /\ \A s \in DOMAIN tokens \ {t} : tokens'[s].deletedAt = tokens[s].deletedAt
      /\ tokens'[t].deletedAt = Stamp(tokens[t].deletedAt)
  BY <1>1, <1>3, <1>5 DEF TokenRow
<1>10. SameIssued BY <1>9 DEF SameIssued
<1>11. CASE ~Live(t)
  <2>1. \A j : LiveTokens(j)' = LiveTokens(j)
    BY <1>9, <1>11 DEF LiveTokens, Live, Stamp
  <2>2. \A j \in Requests : Renewing(j)' <=> Renewing(j)
    BY <1>6, <1>7, <1>11, WhoRenews DEF Live
  <2>3. \A j \in Requests : Untouched(j) BY <2>1, <2>2, SameStage
  <2> QED BY <1>10, <2>3, NoStep DEF Simulated
<1>12. CASE Live(t)
  <2>1. t \in LiveTokens(k) BY <1>0, <1>3, <1>12 DEF LiveTokens
  <2>2. \A s \in DOMAIN tokens : s = t => tokens[s].grant = k BY <1>0
  <2>3. tokens'[t].deletedAt # Never BY <1>5, <1>9, <1>12 DEF Live, Stamp
  <2>4. LiveTokens(k)' = {} BY <1>8, <1>9, <1>12, <2>3 DEF LiveTokens, Live
  <2>5. \A j \in Requests \ {k} : LiveTokens(j)' = LiveTokens(j)
    BY <1>3, <1>9, <2>2 DEF LiveTokens, Live
  <2>6. \A j \in Requests \ {k} : Renewing(j)' <=> Renewing(j)
    BY <1>1, <1>6, <1>7, WhoRenews
  <2>7. OthersUntouched(k) BY <2>5, <2>6, SameStage DEF OthersUntouched
  <2>8. StageOf(k) = "live" BY <1>4, <2>1, StageValue
  <2>9. CASE pc'[p] = "user"
    <3>1. Renewing(k)' BY <1>1, <1>6, <1>7, <2>9, WhoRenews
    <3>2. StageOf(k)' = "owed" BY <1>4, <2>4, <3>1, StageValueNext
    <3> QED BY <1>4, <1>10, <2>4, <2>7, <2>8, <3>2, SpendStep DEF Simulated
  <2>10. CASE pc'[p] = "done"
    <3>1. ~Renewing(k)' BY <2>10, WhoRenews
    <3>2. StageOf(k)' = "ended" BY <1>4, <2>4, <3>1, StageValueNext
    <3> QED BY <1>4, <1>10, <2>4, <2>7, <2>8, <3>2, EndStep DEF Simulated
  <2> QED BY <1>7, <2>9, <2>10
<1> QED BY <1>11, <1>12

(***************************************************************************)
(* Theorem: the service implements the lifecycle                           *)
(***************************************************************************)
LEMMA SurroundingsSimulated ==
    ASSUME Inv1, Surroundings PROVE UNCHANGED Lifecycle!vars
<1>1. UNCHANGED <<codes, tokens, pc, seen>>
  BY Inv1Typed, SurroundingsStep DEF tables, local
<1>2. \A k \in Requests :
         LiveTokens(k)' = LiveTokens(k) /\ (Renewing(k)' <=> Renewing(k))
  BY <1>1 DEF LiveTokens, Live, Renewing, InFlight
<1>3. \A k \in Requests : Untouched(k) BY <1>1, <1>2, SameStage
<1> QED BY <1>1, <1>3, NoStep DEF SameIssued

LEMMA StepSimulated == Isolated /\ IInv /\ [Next]_vars => [Lifecycle!Next]_(Lifecycle!vars)
<1> SUFFICES ASSUME Isolated, IInv, [Next]_vars PROVE Simulated
  BY DEF Simulated
<1>1. CASE Surroundings BY <1>1, SurroundingsSimulated DEF IInv, Simulated
<1>2. CASE \E p \in Requests : RequestStep(p)
  <2>1. PICK p \in Requests : RequestStep(p) BY <1>2
  <2>2. Quiet(p) \/ Issues(p) \/ Mints(p) \/ Spends(p) \/ Reads(p)
    BY <2>1, Inv1Typed, StepKinds DEF RequestStep, IInv
  <2>3. CASE Spends(p)
    BY <2>1, <2>3, MarkSimulated, DeleteSimulated DEF Spends
  <2> QED
    BY <2>1, <2>2, <2>3, QuietSimulated, IssuesSimulated, MintsSimulated, ReadsSimulated
<1> QED BY <1>1, <1>2, NextSteps DEF RequestStep

LEMMA InitSimulated == Init => Lifecycle!Init
<1> SUFFICES ASSUME Init PROVE Lifecycle!Init
  OBVIOUS
<1>1. DOMAIN codes = {} /\ DOMAIN tokens = {} BY EmptyIsTable DEF Init
<1>2. \A k \in Requests : StageOf(k) = "none" /\ LiveTokens(k) = {}
  BY <1>1 DEF StageOf, LiveTokens
<1> QED BY <1>1, <1>2 DEF Lifecycle!Init

(* With requests one at a time and reads from the primary, auth-service    *)
(* implements GrantLifecycle through every database error and crash: a     *)
(* code or refresh token buys one successor (exchange_authorization_code,  *)
(* exchange_refresh_token), a session that a revocation, an expiry or a    *)
(* handler that died half way has ended stays ended, and no token is       *)
(* stored twice.                                                           *)
THEOREM ImplementsLifecycle == ASSUME Isolated PROVE Spec => RefinesLifecycle
<1>1. IInv /\ [Next]_vars => [Lifecycle!Next]_(Lifecycle!vars) BY StepSimulated
<1> QED BY <1>1, InitSimulated, InitIInv, StepKeepsIInv, PTL
        DEF Spec, RefinesLifecycle, Lifecycle!Spec

=============================================================================
