-------------------------- MODULE PostmanCollection --------------------------
(***************************************************************************)
(* The generated end-to-end test (postman/generator/src/main.rs): the      *)
(* OpenAPI documents of the services and postman/overlay.json are turned   *)
(* into a collection of requests, each with a script that checks the       *)
(* status of the answer and saves fields of it in variables, which later   *)
(* requests use.  A run of the collection sends its requests in order.     *)
(*                                                                         *)
(* A request of the overlay is a record: custom (it needs no OpenAPI       *)
(* operation), service, operation, uses (the variables in its URL, body    *)
(* and token), saves, optional (the saved fields marked "?"), expect (a    *)
(* status or Unset) and accept (a sequence of statuses, empty when         *)
(* absent); usual and gives are the status and the fields of the answer    *)
(* of a service that carries the request out.                              *)
(***************************************************************************)
EXTENDS Integers, SequencesExt

CONSTANTS
    Overlay,            \* the requests of overlay.json, in order
    Releases,           \* service -> the OpenAPI documents it may publish
    NoSpec,             \* no file in postman/openapi, or one cut short
    Errors,             \* bound: may a service answer 500
    MaxReleases         \* bound: releases of services

Unset == 0
Services == DOMAIN Releases

ASSUME PostmanAssumption ==
    /\ Errors \in BOOLEAN /\ MaxReleases \in Nat
    /\ \A r \in ToSet(Overlay) : r.optional \subseteq r.saves

VARIABLES
    live,               \* the OpenAPI document each service publishes
    releases,           \* how many were released
    cached,             \* the documents in postman/openapi
    behind,             \* history: services whose file may not be live
    job,                \* the generator: mode, services to load, documents
    collection,         \* the one last written: requests -> their endpoints
    position,           \* the request a run of it sends next; 0: no run
    variables,          \* the collection variables that have a value
    fresh,              \* history: those whose value this run has saved
    failed              \* whether a test of the run has failed

specVars == <<live, releases, cached, behind>>
runVars == <<position, variables, fresh, failed>>
vars == <<specVars, job, collection, runVars>>

Idle == [mode |-> "idle", todo |-> {}, specs |-> [s \in {} |-> NoSpec]]

(***************************************************************************)
(* load_specs: one service after the other, in no particular order         *)
(***************************************************************************)
Start ==
    /\ job = Idle /\ position = 0
    /\ \E mode \in {"online", "offline"} :
          job' = [Idle EXCEPT !.mode = mode, !.todo = Services]
    /\ UNCHANGED <<specVars, collection, runVars>>

Take(s, spec) ==
    job' = [job EXCEPT !.todo = @ \ {s},
                       !.specs = [t \in DOMAIN @ \cup {s} |-> IF t = s THEN spec ELSE @[t]]]

\* Seeded fault: a file that exists is not written again.
StoresOnce(s) ==
    /\ cached' = IF cached[s] = NoSpec THEN [cached EXCEPT ![s] = live[s]] ELSE cached
    /\ behind' = behind \ {s}

(* fs::write, its error ignored: one that fails leaves the file as it was, *)
(* or empties it first and leaves it cut short.                            *)
Stores(s) ==
    \/ cached' = [cached EXCEPT ![s] = live[s]] /\ behind' = behind \ {s}
    \/ /\ cached' \in {cached, [cached EXCEPT ![s] = NoSpec]}
       /\ behind' = behind \cup {s}

Fetch(s) ==
    /\ s \in job.todo /\ job.mode = "online"
    /\ Take(s, live[s])
    /\ Stores(s)
    /\ UNCHANGED <<live, releases, collection, runVars>>

(* --offline, or the service does not answer; no file, and one that is not *)
(* JSON, is a panic.                                                       *)
ReadCached(s) ==
    /\ s \in job.todo
    /\ IF cached[s] = NoSpec THEN job' = Idle ELSE Take(s, cached[s])
    /\ UNCHANGED <<specVars, collection, runVars>>

(***************************************************************************)
(* parse_specs, generate_collection                                        *)
(***************************************************************************)
(* The operations that can be called by name: with an operationId, under   *)
(* one of five methods.  A document gives an operationId once.             *)
NoId == "none"
Operations(spec) ==
    {e \in spec : e.id # NoId /\ e.method \in {"get", "post", "put", "delete", "patch"}}

ASSUME DocumentAssumption ==
    \A s \in Services : \A spec \in Releases[s] :
        \A e, f \in Operations(spec) : e.id = f.id => e = f

(* build_item: a request whose operation is not found is left out, with a  *)
(* warning; the others keep the order of the overlay and are sent to the   *)
(* endpoint of their operation, the custom ones to the URL of the overlay. *)
OfOperation(r, spec) == {e \in Operations(spec) : e.id = r.operation}
Found(r, specs) ==
    r.custom \/ (r.service \in DOMAIN specs /\ OfOperation(r, specs[r.service]) # {})
At(entry) == [method |-> entry.method, path |-> entry.path]
Endpoint(r, specs) ==
    IF r.custom THEN r.url
    ELSE At(CHOOSE e \in OfOperation(r, specs[r.service]) : TRUE)
Generated(specs) ==
    [i \in {j \in DOMAIN Overlay : Found(Overlay[j], specs)} |-> Endpoint(Overlay[i], specs)]

Write ==
    /\ job # Idle /\ job.todo = {}
    /\ collection' = Generated(job.specs)
    /\ job' = Idle
    /\ UNCHANGED <<specVars, runVars>>

(* Its file cannot be written: a panic, which may leave it cut short.      *)
Nothing == [i \in {} |-> NoId]
WriteFails ==
    /\ job # Idle /\ job.todo = {}
    /\ collection' \in {collection, Nothing}
    /\ job' = Idle
    /\ UNCHANGED <<specVars, runVars>>

(***************************************************************************)
(* build_test_script: what the script of request r does with an answer     *)
(***************************************************************************)
\* Seeded faults: "expect_status" is looked at before "save"; the fields
\* are saved before the status is checked.
SavesUnlessExpects(r, status) ==
    r.saves # {} /\ (IF r.accept # <<>> THEN status = r.accept[1]
                     ELSE r.expect = Unset /\ status = 200)
SavesFirst(r, status) == r.saves # {}

(* The status for which it saves fields: the first of "accept_status",     *)
(* else "expect_status", 200 by default.                                   *)
Primary(r) ==
    IF r.accept # <<>> THEN r.accept[1] ELSE IF r.expect = Unset THEN 200 ELSE r.expect
Saves(r, status) == r.saves # {} /\ status = Primary(r)

(* Of the statuses that "accept_status" does not list, no test is run.     *)
Fails(r, status) ==
    /\ r.accept = <<>>
    /\ r.saves # {} \/ r.expect # Unset
    /\ status # Primary(r)

(* append_save_lines: a field that the answer does not have leaves the     *)
(* variable undefined, unless it is optional.                              *)
Saved(r, set, fields) == (set \ (r.saves \ r.optional)) \cup (r.saves \cap fields)

(* What overlay.json and the services agree on: the status for which a     *)
(* script saves fields is that of an answer which has them, or (request    *)
(* 1.2, see FlowCompletes) one that no answer has.                         *)
ASSUME AnswersAssumption ==
    \A r \in ToSet(Overlay) : r.saves # {} =>
        /\ r.saves \ r.optional \subseteq r.gives
        /\ \/ Primary(r) = r.usual
           \/ r.accept = <<>> /\ Primary(r) \notin {400, 404, 500}

(* The overlay is in order: a variable that a request uses is saved by an  *)
(* earlier one whose script fails when it saves nothing.                   *)
Guaranteed(r) == IF r.accept = <<>> THEN r.saves \cap r.gives ELSE {}
ASSUME OrderAssumption ==
    /\ Overlay \in Seq(ToSet(Overlay))
    /\ \A i \in DOMAIN Overlay : \A v \in Overlay[i].uses :
          \E j \in 1 .. i - 1 : v \in Guaranteed(Overlay[j])

(***************************************************************************)
(* A run of the collection                                                 *)
(***************************************************************************)
Advance ==
    \/ \E i \in DOMAIN collection :
          /\ i > position /\ \A j \in DOMAIN collection : j > position => i <= j
          /\ position' = i
    \/ /\ \A j \in DOMAIN collection : j <= position
       /\ position' = 0

StartRun ==
    /\ position = 0 /\ job = Idle /\ DOMAIN collection # {}
    /\ Advance
    /\ fresh' = {} /\ failed' = FALSE
    /\ UNCHANGED <<specVars, job, collection, variables>>

(* The services refuse a request for an endpoint they no longer have or    *)
(* whose variables have no value, and may refuse a value of an earlier run.*)
Served(r, endpoint) == r.custom \/ \E e \in live[r.service] : At(e) = endpoint
Answers(r, endpoint) ==
    IF ~Served(r, endpoint) THEN {404}
    ELSE IF ~(r.uses \subseteq variables) THEN {400}
    ELSE {r.usual} \cup ToSet(r.accept)
         \cup (IF r.uses \subseteq fresh THEN {} ELSE {400})
         \cup (IF Errors THEN {500} ELSE {})

Send ==
    LET r == Overlay[position] IN
    /\ position > 0
    /\ \E status \in Answers(r, collection[position]) :
          LET fields == IF status = r.usual THEN r.gives ELSE {} IN
          /\ variables' = IF Saves(r, status) THEN Saved(r, variables, fields) ELSE variables
          /\ fresh' = IF Saves(r, status) THEN Saved(r, fresh, fields) ELSE fresh
          /\ failed' = (failed \/ Fails(r, status))
    /\ Advance
    /\ UNCHANGED <<specVars, job, collection>>

Release(s) ==
    /\ releases < MaxReleases
    /\ \E spec \in Releases[s] \ {live[s]} : live' = [live EXCEPT ![s] = spec]
    /\ releases' = releases + 1
    /\ behind' = behind \cup {s}
    /\ UNCHANGED <<cached, job, collection, runVars>>

Init ==
    /\ live \in [Services -> UNION {Releases[s] : s \in Services}]
    /\ \A s \in Services : live[s] \in Releases[s]
    /\ releases = 0
    /\ cached = [s \in Services |-> NoSpec]
    /\ behind = Services
    /\ job = Idle /\ collection = Nothing
    /\ position = 0 /\ variables = {} /\ fresh = {} /\ failed = FALSE

Next ==
    \/ Start \/ Write \/ WriteFails \/ StartRun \/ Send
    \/ \E s \in Services : Fetch(s) \/ ReadCached(s) \/ Release(s)

Spec == Init /\ [][Next]_vars

(***************************************************************************)
(* Properties                                                              *)
(***************************************************************************)
(* Once every service has been fetched and its file written, and until the *)
(* next release, the generator writes the collection that the services     *)
(* call for, whether it runs offline, falls back to the files or fetches   *)
(* (load_specs).                                                           *)
SameCollectionOffline ==
    [][Write /\ behind = {} => collection' = Generated(live)]_vars

(* An answer that is not the expected one costs no variable its value: a   *)
(* run can go on from what the earlier ones saved (build_test_script).     *)
ValuesAreKept == [][variables \subseteq variables']_vars

(* As long as no test of a run of the whole overlay has failed, the run    *)
(* sends only values it has saved itself, never one that an earlier run    *)
(* left behind, although some answers run no test (build_test_script,      *)
(* overlay.json).                                                          *)
PassingRunUsesItsOwnValues ==
    (position > 0 /\ ~failed /\ DOMAIN collection = DOMAIN Overlay)
        => Overlay[position].uses \subseteq fresh

(* overlay.json:72, "Run these requests in order to complete the full      *)
(* OAuth2/PKCE authentication flow": against services that carry out each  *)
(* request they can, no test fails.                                        *)
FlowCompletes == ~failed

=============================================================================
