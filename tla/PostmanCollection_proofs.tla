---------------------- MODULE PostmanCollection_proofs ----------------------
(***************************************************************************)
(* The three properties of PostmanCollection, for any services and OpenAPI *)
(* documents, any number of releases and runs, and any overlay with the    *)
(* order and the answers that overlay.json has (its two assumptions, which *)
(* TLC evaluates for the requests of the file).                            *)
(***************************************************************************)
EXTENDS PostmanCollection, TLAPS

(***************************************************************************)
(* The generator: what it has loaded is what the services publish, except  *)
(* where the file may lag behind.                                          *)
(***************************************************************************)
Docs == (UNION {Releases[s] : s \in Services}) \cup {NoSpec}
Job == [mode : {"idle", "online", "offline"}, todo : SUBSET Services,
        specs : UNION {[S -> Docs] : S \in SUBSET Services}]

Loaded ==
    /\ live \in [Services -> Docs] /\ cached \in [Services -> Docs]
    /\ \A s \in Services \ behind : cached[s] = live[s]
    /\ job \in Job
    /\ job # Idle =>
          /\ DOMAIN job.specs = Services \ job.todo
          /\ \A s \in Services \ (job.todo \cup behind) : job.specs[s] = live[s]

LEMMA IdleIsJob == Idle \in Job
<1>1. [s \in {} |-> NoSpec] \in [{} -> Docs] OBVIOUS
<1> QED BY <1>1 DEF Idle, Job

LEMMA InitLoaded == Init => Loaded
<1> SUFFICES ASSUME Init PROVE Loaded
  OBVIOUS
<1>1. \A s \in Services : live[s] \in Docs BY DEF Init, Docs
<1>2. live \in [Services -> Docs] BY <1>1 DEF Init
<1>3. cached \in [Services -> Docs]
  <2>1. NoSpec \in Docs BY DEF Docs
  <2> QED BY <2>1 DEF Init
<1> QED BY <1>2, <1>3, IdleIsJob DEF Init, Loaded

(* Loading one more document.                                              *)
LEMMA TakeStep ==
    ASSUME Loaded, NEW s \in job.todo, NEW spec \in Docs, job # Idle, Take(s, spec)
    PROVE  /\ job' \in Job /\ job'.todo = job.todo \ {s}
           /\ DOMAIN job'.specs = Services \ job'.todo
           /\ job'.specs[s] = spec
           /\ \A t \in DOMAIN job.specs \ {s} : job'.specs[t] = job.specs[t]
<1>1. /\ job \in Job /\ s \in Services /\ DOMAIN job.specs = Services \ job.todo
      /\ job.specs \in [DOMAIN job.specs -> Docs]
  BY DEF Loaded, Job
<1>2. PICK new : new = [t \in DOMAIN job.specs \cup {s} |->
                          IF t = s THEN spec ELSE job.specs[t]]
  OBVIOUS
<1>3. job' = [job EXCEPT !.todo = job.todo \ {s}, !.specs = new] BY <1>2 DEF Take
<1>4. new \in [DOMAIN job.specs \cup {s} -> Docs] BY <1>1, <1>2
<1>5. DOMAIN job.specs \cup {s} = Services \ (job.todo \ {s}) BY <1>1 DEF Job
<1>6. new \in UNION {[S -> Docs] : S \in SUBSET Services} BY <1>4, <1>5
<1>7. job' \in Job /\ job'.todo = job.todo \ {s} /\ job'.specs = new
  BY <1>1, <1>3, <1>6 DEF Job
<1> QED BY <1>2, <1>4, <1>5, <1>7

LEMMA StepKeepsLoaded == Loaded /\ [Next]_vars => Loaded'
<1> SUFFICES ASSUME Loaded, [Next]_vars PROVE Loaded'
  OBVIOUS
<1> USE DEF specVars, runVars
<1>1. CASE Start
  <2>1. PICK mode \in {"online", "offline"} :
            job' = [Idle EXCEPT !.mode = mode, !.todo = Services]
    BY <1>1 DEF Start
  <2>2. job' \in Job /\ job'.todo = Services /\ DOMAIN job'.specs = {}
    BY <2>1, IdleIsJob DEF Idle, Job
  <2> QED BY <1>1, <2>2 DEF Start, Loaded
<1>2. CASE Write \/ WriteFails BY <1>2, IdleIsJob DEF Write, WriteFails, Loaded
<1>3. CASE StartRun BY <1>3 DEF StartRun, Loaded
<1>4. CASE Send BY <1>4 DEF Send, Loaded
<1>5. ASSUME NEW s \in Services, Fetch(s) PROVE Loaded'
  <2>1. job # Idle /\ live[s] \in Docs BY <1>5 DEF Fetch, Idle, Loaded
  <2>2. /\ job' \in Job /\ job'.todo = job.todo \ {s}
        /\ DOMAIN job'.specs = Services \ job'.todo
        /\ job'.specs[s] = live[s]
        /\ \A t \in DOMAIN job.specs \ {s} : job'.specs[t] = job.specs[t]
    BY <1>5, <2>1, TakeStep DEF Fetch
  <2>3. CASE cached' = [cached EXCEPT ![s] = live[s]] /\ behind' = behind \ {s}
    <3>1. cached' \in [Services -> Docs] BY <2>1, <2>3 DEF Loaded
    <3>2. \A t \in Services \ behind' : cached'[t] = live[t] BY <2>3 DEF Loaded
    <3> QED BY <1>5, <2>1, <2>2, <2>3, <3>1, <3>2 DEF Fetch, Loaded
  <2>4. CASE /\ cached' \in {cached, [cached EXCEPT ![s] = NoSpec]}
             /\ behind' = behind \cup {s}
    <3>1. NoSpec \in Docs BY DEF Docs
    <3>2. /\ cached' \in [Services -> Docs]
          /\ \A t \in Services \ {s} : cached'[t] = cached[t]
      BY <2>4, <3>1 DEF Loaded
    <3> QED BY <1>5, <2>1, <2>2, <2>4, <3>2 DEF Fetch, Loaded
  <2> QED BY <1>5, <2>3, <2>4 DEF Fetch, Stores
<1>6. ASSUME NEW s \in Services, ReadCached(s) PROVE Loaded'
  <2>1. job # Idle /\ cached[s] \in Docs BY <1>6 DEF ReadCached, Idle, Loaded
  <2>2. CASE job' = Idle BY <1>6, <2>2, IdleIsJob DEF ReadCached, Loaded
  <2>3. CASE Take(s, cached[s])
    <3>1. /\ job' \in Job /\ job'.todo = job.todo \ {s}
          /\ DOMAIN job'.specs = Services \ job'.todo
          /\ job'.specs[s] = cached[s]
          /\ \A t \in DOMAIN job.specs \ {s} : job'.specs[t] = job.specs[t]
      BY <1>6, <2>1, <2>3, TakeStep DEF ReadCached
    <3> QED BY <1>6, <2>1, <3>1 DEF ReadCached, Loaded
  <2> QED BY <1>6, <2>2, <2>3 DEF ReadCached
<1>7. ASSUME NEW s \in Services, Release(s) PROVE Loaded'
  <2>1. PICK spec \in Releases[s] : live' = [live EXCEPT ![s] = spec]
    BY <1>7 DEF Release
  <2>2. spec \in Docs BY <2>1 DEF Docs
  <2>3. live' \in [Services -> Docs] BY <2>1, <2>2 DEF Loaded
  <2>4. \A t \in Services \ behind' : t \notin behind /\ live'[t] = live[t]
    BY <1>7, <2>1 DEF Release, Loaded
  <2> QED BY <1>7, <2>3, <2>4 DEF Release, Loaded
<1>8. CASE UNCHANGED vars BY <1>8 DEF vars, Loaded
<1> QED BY <1>1, <1>2, <1>3, <1>4, <1>5, <1>6, <1>7, <1>8 DEF Next

(* What is written is what the services call for.                          *)
LEMMA WritesLive ==
    ASSUME Loaded, Write, behind = {}
    PROVE  collection' = Generated(live)
<1>1. job # Idle /\ job.todo = {} /\ collection' = Generated(job.specs) BY DEF Write
<1>2. DOMAIN job.specs = Services /\ \A s \in Services : job.specs[s] = live[s]
  BY <1>1 DEF Loaded
<1>3. /\ job.specs \in [Services -> Docs] /\ live \in [Services -> Docs]
  BY <1>2 DEF Loaded, Job
<1>4. job.specs = live BY <1>2, <1>3
<1> QED BY <1>1, <1>4

(* Once every service has been fetched and its file written, and until the *)
(* next release, the generator writes the collection that the services     *)
(* call for: online, offline or with some documents from the files         *)
(* (load_specs).                                                           *)
THEOREM CollectionFromCache == Spec => SameCollectionOffline
<1>1. Loaded => (Write /\ behind = {} => collection' = Generated(live))
  BY WritesLive
<1> QED BY <1>1, InitLoaded, StepKeepsLoaded, PTL DEF Spec, SameCollectionOffline

(***************************************************************************)
(* A run of the collection                                                 *)
(***************************************************************************)
Fields(r, status) == IF status = r.usual THEN r.gives ELSE {}

LEMMA RequestFacts ==
    ASSUME NEW i \in DOMAIN Overlay
    PROVE  /\ i \in Nat \ {0} /\ DOMAIN Overlay = 1 .. Len(Overlay) /\ Len(Overlay) \in Nat
           /\ Overlay[i] \in ToSet(Overlay)
BY OrderAssumption DEF ToSet

(* What a script saves has a value, and nothing loses its own.             *)
LEMMA SavedGrows ==
    ASSUME NEW r \in ToSet(Overlay), NEW endpoint, NEW status \in Answers(r, endpoint), Saves(r, status), NEW set
    PROVE  /\ set \subseteq Saved(r, set, Fields(r, status))
           /\ r.saves \cap r.gives \subseteq Saved(r, set, Fields(r, status))
<1>1. /\ r.saves # {} /\ r.saves \ r.optional \subseteq r.gives
      /\ Primary(r) = r.usual \/ (r.accept = <<>> /\ Primary(r) \notin {400, 404, 500})
  BY AnswersAssumption DEF Saves
<1>2. status = r.usual
  <2>1. CASE r.accept = <<>> /\ Primary(r) \notin {400, 404, 500}
    <3>1. ToSet(r.accept) = {} BY <2>1 DEF ToSet
    <3> QED BY <2>1, <3>1 DEF Answers, Saves
  <2> QED BY <1>1, <2>1 DEF Saves
<1> QED BY <1>1, <1>2 DEF Saved, Fields

(* What an answer that fails no test leaves.                               *)
LEMMA PassedSaves ==
    ASSUME NEW r \in ToSet(Overlay), NEW endpoint, NEW status \in Answers(r, endpoint), ~Fails(r, status)
    PROVE  Guaranteed(r) # {} => Saves(r, status)
BY DEF Guaranteed, Fails, Saves

Running ==
    /\ DOMAIN collection \subseteq DOMAIN Overlay
    /\ position \in DOMAIN collection \cup {0}
    /\ position # 0 => job = Idle
    /\ position # 0 /\ ~failed /\ DOMAIN collection = DOMAIN Overlay =>
          \A i \in 1 .. position - 1 : Guaranteed(Overlay[i]) \subseteq fresh

(* A run of the whole overlay takes its requests one after the other.      *)
LEMMA AdvanceStep ==
    ASSUME DOMAIN collection \subseteq DOMAIN Overlay, position \in DOMAIN collection \cup {0}, Advance
    PROVE  /\ position' \in DOMAIN collection \cup {0}
           /\ DOMAIN collection = DOMAIN Overlay => position' \in {0, position + 1}
<1>1. position \in Nat BY RequestFacts
<1>2. CASE position' = 0 BY <1>2
<1>3. CASE position' # 0
  <2>1. /\ position' \in DOMAIN collection /\ position' > position
        /\ \A j \in DOMAIN collection : j > position => position' <= j
    BY <1>3 DEF Advance
  <2>2. /\ position' \in Nat /\ position' \in 1 .. Len(Overlay) /\ Len(Overlay) \in Nat
        /\ DOMAIN Overlay = 1 .. Len(Overlay)
    BY <2>1, RequestFacts
  <2>3. position + 1 \in DOMAIN Overlay BY <1>1, <2>1, <2>2
  <2>4. ASSUME DOMAIN collection = DOMAIN Overlay PROVE position' = position + 1
    <3>1. position' <= position + 1 BY <1>1, <2>1, <2>3, <2>4
    <3> QED BY <1>1, <2>1, <2>2, <3>1
  <2> QED BY <2>1, <2>4
<1> QED BY <1>2, <1>3

LEMMA SendStep ==
    ASSUME Running, Send
    PROVE  /\ position \in DOMAIN Overlay /\ variables \subseteq variables'
           /\ fresh \subseteq fresh'
           /\ ~failed' => ~failed /\ Guaranteed(Overlay[position]) \subseteq fresh'
<1>1. PICK r : r = Overlay[position] OBVIOUS
<1>2. position \in DOMAIN Overlay /\ r \in ToSet(Overlay)
  <2>1. position # 0 BY DEF Send, Running
  <2> QED BY <1>1, <2>1, RequestFacts DEF Running
<1>3. PICK status \in Answers(r, collection[position]) :
        /\ variables' = IF Saves(r, status) THEN Saved(r, variables, Fields(r, status))
                        ELSE variables
        /\ fresh' = IF Saves(r, status) THEN Saved(r, fresh, Fields(r, status)) ELSE fresh
        /\ failed' = (failed \/ Fails(r, status))
  BY <1>1 DEF Send, Fields
<1>4. CASE Saves(r, status)
  <2>1. Guaranteed(r) \subseteq r.saves \cap r.gives BY DEF Guaranteed
  <2> QED BY <1>1, <1>2, <1>3, <1>4, <2>1, SavedGrows
<1>5. CASE ~Saves(r, status)
  <2>1. ~Fails(r, status) => Guaranteed(r) = {} BY <1>2, <1>5, PassedSaves
  <2> QED BY <1>1, <1>2, <1>3, <1>5, <2>1
<1> QED BY <1>4, <1>5

LEMMA InitRunning == Init => Running
BY DEF Init, Running, Nothing

LEMMA StepKeepsRunning == Running /\ [Next]_vars => Running'
<1> SUFFICES ASSUME Running, [Next]_vars PROVE Running'
  OBVIOUS
<1> USE DEF specVars, runVars
<1>1. CASE Start BY <1>1 DEF Start, Running
<1>2. CASE Write \/ WriteFails
  <2>1. position = 0 BY <1>2 DEF Write, WriteFails, Running
  <2>2. DOMAIN collection' \subseteq DOMAIN Overlay
    BY <1>2 DEF Write, WriteFails, Generated, Nothing, Running
  <2> QED BY <1>2, <2>1, <2>2 DEF Write, WriteFails, Running
<1>3. CASE StartRun
  <2>1. /\ position' \in DOMAIN collection \cup {0}
        /\ DOMAIN collection = DOMAIN Overlay => position' \in {0, position + 1}
    BY <1>3, AdvanceStep DEF StartRun, Running
  <2>2. position' = 1 => 1 .. position' - 1 = {} OBVIOUS
  <2> QED BY <1>3, <2>1, <2>2 DEF StartRun, Running
<1>4. CASE Send
  <2>1. /\ position' \in DOMAIN collection \cup {0}
        /\ DOMAIN collection = DOMAIN Overlay => position' \in {0, position + 1}
    BY <1>4, AdvanceStep DEF Send, Running
  <2>2. position \in Nat \ {0} BY <1>4, SendStep, RequestFacts
  <2>3. job = Idle BY <2>2 DEF Running
  <2>4. UNCHANGED <<job, collection>> BY <1>4 DEF Send
  <2>5. ASSUME position' # 0, ~failed', DOMAIN collection' = DOMAIN Overlay,
               NEW i \in 1 .. position' - 1
        PROVE  Guaranteed(Overlay[i]) \subseteq fresh'
    <3>1. position' = position + 1 BY <2>1, <2>4, <2>5
    <3>2. i \in 1 .. position BY <2>2, <2>5, <3>1
    <3>3. CASE i = position BY <1>4, <2>5, <3>3, SendStep
    <3>4. CASE i # position
      <4>1. i \in 1 .. position - 1 BY <2>2, <3>2, <3>4
      <4>2. ~failed /\ fresh \subseteq fresh' BY <1>4, <2>5, SendStep
      <4> QED BY <2>2, <2>4, <2>5, <4>1, <4>2 DEF Running
    <3> QED BY <3>3, <3>4
  <2> QED BY <2>1, <2>3, <2>4, <2>5 DEF Running
<1>5. ASSUME NEW s \in Services, Fetch(s) \/ ReadCached(s) PROVE Running'
  <2>1. job # Idle BY <1>5 DEF Fetch, ReadCached, Idle
  <2>2. position = 0 BY <2>1 DEF Running
  <2> QED BY <1>5, <2>2 DEF Fetch, ReadCached, Running
<1>6. ASSUME NEW s \in Services, Release(s) PROVE Running'
  BY <1>6 DEF Release, Running
<1>7. CASE UNCHANGED vars BY <1>7 DEF vars, Running
<1> QED BY <1>1, <1>2, <1>3, <1>4, <1>5, <1>6, <1>7 DEF Next

LEMMA StepKeepsValues == Running /\ [Next]_vars => variables \subseteq variables'
<1> SUFFICES ASSUME Running, [Next]_vars PROVE variables \subseteq variables'
  OBVIOUS
<1>1. CASE Send BY <1>1, SendStep
<1>2. CASE ~Send
  BY <1>2 DEF Next, Start, Write, WriteFails, StartRun, Fetch, ReadCached, Release, runVars, vars
<1> QED BY <1>1, <1>2

LEMMA RunningSuffices == Running => PassingRunUsesItsOwnValues
<1> SUFFICES ASSUME Running, position > 0, ~failed, DOMAIN collection = DOMAIN Overlay,
                    NEW v \in Overlay[position].uses
             PROVE  v \in fresh
  BY DEF PassingRunUsesItsOwnValues
<1>1. position \in DOMAIN Overlay /\ position # 0 BY DEF Running
<1>2. PICK j \in 1 .. position - 1 : v \in Guaranteed(Overlay[j])
  BY <1>1, OrderAssumption
<1> QED BY <1>1, <1>2 DEF Running

(* No answer costs a variable its value, whatever the service answers and  *)
(* whichever run set it (append_save_lines).                               *)
THEOREM ValuesKept == Spec => ValuesAreKept
BY InitRunning, StepKeepsRunning, StepKeepsValues, PTL DEF Spec, ValuesAreKept

(* A run of the whole overlay that has failed no test sends only values it *)
(* has saved itself, whatever the services answered to the requests that   *)
(* run no test (build_test_script, overlay.json).                          *)
THEOREM OwnValues == Spec => []PassingRunUsesItsOwnValues
BY InitRunning, StepKeepsRunning, RunningSuffices, PTL DEF Spec

=============================================================================
