------------------------- MODULE PolicyServerProofs -------------------------
(***************************************************************************)
(* Proofs about policy_base_server in the life of the program, for any     *)
(* plugins, threads of the pool, trigger strings and io_services.          *)
(***************************************************************************)
EXTENDS SystemRun, FiniteSetTheorems, TLAPS

\* Before the pool serves, and when no task starts, its threads have nothing to do.
Quiet == {"load_main", "clone_main", "call_main", "load_plugins", "listen", "stop_idle"}

Holding == {w \in Worker : lua[w]}

Controls == Quiet \cup {"running", "stop_pool", "clear_bases", "clear_map", "clear_origin",
                        "done", "failed", "crashed"}

\* The plugins: what init() and clear() make of base_map.
Loads(c, m) ==
  /\ c = "load_plugins" => \A p \in DOMAIN m : m[p] # "cleared"
  /\ c \in {"listen", "running"} => \A p \in DOMAIN m : m[p] = "loaded"

IsMap(m) == DOMAIN m \subseteq Plugin /\ m \in [DOMAIN m -> {"null", "loaded", "cleared"}]

Bases_OK ==
  /\ ctl \in Controls /\ origin_base \in {"null", "set"} /\ todo \subseteq Plugin
  /\ IsMap(base_map) /\ Loads(ctl, base_map)

\* The jobs and the threads: a thread has a Lua state only while it uses it.
Users_OK ==
  /\ posted \in [Plugin -> Nat] /\ pulls \in 0 .. MaxPull /\ DOMAIN page = Worker
  /\ \A w \in Worker : page[w].main \in BOOLEAN /\ page[w].text \in BOOLEAN
  /\ pc \in [Worker -> {"idle", "list", "find", "clone", "call", "free"}]
  /\ name \in [Worker -> Plugin] /\ lua \in [Worker -> BOOLEAN]
  /\ \A w \in Worker : lua[w] => pc[w] \in {"call", "free"}

\* What the jobs and the threads know of the plugins.
Known_OK ==
  /\ ctl \in Quiet => /\ \A p \in Plugin : posted[p] = 0
                      /\ \A w \in Worker : pc[w] = "idle"
  /\ Running => /\ \A p \in Plugin : posted[p] > 0 => Present(p)
                /\ \A w \in Worker : pc[w] # "idle" /\ pc[w] # "list" => Present(name[w])

\* The Lua states that are open.
MainStates == IF main_lua THEN 1 ELSE 0

States_OK ==
  /\ open \in Nat /\ main_lua \in BOOLEAN /\ lost \in Nat
  /\ open = lost + MainStates + Cardinality(Holding)
  /\ ctl \in {"load_main", "clone_main"} => ~main_lua

PolicyInv == Bases_OK /\ Users_OK /\ Known_OK /\ States_OK

LEMMA MapsOK ==
  /\ IsMap(Empty)
  /\ \A S \in SUBSET Plugin : IsMap([p \in S |-> "null"])
  /\ \A S \in SUBSET Plugin : \A p \in S : [q \in S |-> "null"][p] # "cleared"
  /\ \A c : c \notin {"load_plugins", "listen", "running"} => \A m : Loads(c, m)
<1>1. IsMap(Empty)
  BY Zenon DEF IsMap, Empty
<1>2. ASSUME NEW S \in SUBSET Plugin
      PROVE  IsMap([p \in S |-> "null"]) /\ \A p \in S : [q \in S |-> "null"][p] # "cleared"
  BY Zenon DEF IsMap
<1>3. \A c : c \notin {"load_plugins", "listen", "running"} => \A m : Loads(c, m)
  BY Zenon DEF Loads
<1> QED
  BY <1>1, <1>2, <1>3, Zenon

LEMMA InitPolicy == ASSUME Init PROVE PolicyInv
<1>1. Bases_OK
  <2>1. ctl = "load_main" /\ origin_base = "null" /\ base_map = Empty /\ todo = {}
    BY Zenon DEF Init
  <2>2. ctl \in Controls /\ Loads(ctl, base_map) /\ origin_base \in {"null", "set"}
    BY <2>1, Zenon DEF Controls, Quiet, Loads
  <2>3. IsMap(base_map) /\ todo \subseteq Plugin
    BY <2>1, MapsOK, Zenon
  <2> QED
    BY <2>2, <2>3, Zenon DEF Bases_OK
<1>2. /\ pc = [w \in Worker |-> "idle"] /\ name = [w \in Worker |-> CHOOSE p \in Plugin : TRUE]
      /\ lua = [w \in Worker |-> FALSE] /\ page = [w \in Worker |-> NoPage]
      /\ posted = [p \in Plugin |-> 0] /\ pulls = 0
  BY Zenon DEF Init
<1>3. Users_OK
  <2> DEFINE q == CHOOSE p \in Plugin : TRUE
  <2>2. q \in Plugin
    BY PolicyAssumption, Zenon
  <2>3. name = [w \in Worker |-> q]
    BY <1>2, Zenon
  <2> HIDE DEF q
  <2>4. NoPage.main \in BOOLEAN /\ NoPage.text \in BOOLEAN
    BY Zenon DEF NoPage
  <2>5. \A w \in Worker : page[w] = NoPage
    BY <1>2, Zenon
  <2>6. posted \in [Plugin -> Nat] /\ name \in [Worker -> Plugin]
    BY <1>2, <2>2, <2>3, Zenon
  <2>7. /\ pc \in [Worker -> {"idle", "list", "find", "clone", "call", "free"}]
        /\ \A w \in Worker : lua[w] = FALSE
    BY <1>2, Zenon
  <2>8. lua \in [Worker -> BOOLEAN] /\ DOMAIN page = Worker
    BY <1>2, Zenon
  <2>9. pulls \in 0 .. MaxPull
    BY <1>2, PolicyAssumption
  <2> QED
    BY <2>4, <2>5, <2>6, <2>7, <2>8, <2>9, Zenon DEF Users_OK
<1>4. Known_OK
  <2>1. ctl = "load_main"
    BY Zenon DEF Init
  <2> QED
    BY <1>2, <2>1, Zenon DEF Known_OK, Running
<1>5. States_OK
  <2>1. open = 0 /\ main_lua = FALSE /\ lost = 0 /\ Holding = {}
    BY <1>2, Zenon DEF Init, Holding
  <2>2. Cardinality(Holding) = 0 /\ MainStates = 0 /\ main_lua \in BOOLEAN
    BY <2>1, FS_EmptySet, Zenon DEF MainStates
  <2>3. open \in Nat /\ lost \in Nat /\ open = lost + MainStates + Cardinality(Holding)
    BY <2>1, <2>2
  <2> QED
    BY <2>1, <2>2, <2>3, Zenon DEF States_OK
<1> QED
  BY <1>1, <1>3, <1>4, <1>5, Zenon DEF PolicyInv

LEMMA ControlBases ==
  ASSUME Bases_OK, Control
  PROVE  Bases_OK'
<1>0. \A c \in {"clone_main", "call_main", "stop_pool", "stop_idle", "clear_bases", "clear_map",
               "clear_origin", "done", "failed"} : c \in Controls /\ \A m : Loads(c, m)
  BY Zenon DEF Controls, Quiet, Loads
<1>1. ASSUME InitFails PROVE Bases_OK'
  <2>1. Empty = base_map' /\ ctl' = "failed" /\ origin_base' \in {"null", "set"} /\ todo' = {}
    BY <1>1, Zenon DEF InitFails
  <2> QED
    BY <1>0, <2>1, MapsOK, Zenon DEF Bases_OK
<1>2. CASE LoadMain
  <2>1. CASE ctl' = "clone_main" /\ origin_base' = "set" /\ UNCHANGED <<base_map, m_triggle, todo>>
    BY <1>0, <2>1, Zenon DEF Bases_OK
  <2> QED
    BY <1>1, <1>2, <2>1, Zenon DEF LoadMain
<1>3. CASE CloneMain
  <2>1. CASE ctl' = "call_main" /\ UNCHANGED bases
    BY <1>0, <2>1, Zenon DEF Bases_OK, bases
  <2> QED
    BY <1>1, <1>3, <2>1, Zenon DEF CloneMain
<1>4. CASE CallMain
  <2>1. ASSUME NEW S \in SUBSET Plugin, base_map' = [p \in S |-> "null"], todo' = S,
               ctl' = "load_plugins", origin_base' = origin_base
        PROVE  Bases_OK'
    <3>1. /\ IsMap(base_map') /\ todo' \subseteq Plugin /\ DOMAIN base_map' = S
          /\ \A p \in S : base_map'[p] # "cleared"
      BY <2>1, MapsOK, Zenon
    <3>2. ctl' \in Controls /\ Loads(ctl', base_map')
      BY <2>1, <3>1, Zenon DEF Controls, Quiet, Loads
    <3> QED
      BY <2>1, <3>1, <3>2, Zenon DEF Bases_OK
  <2> QED
    BY <1>1, <1>4, <2>1, Zenon DEF CallMain
<1>5. CASE LoadPlugin
  <2>1. PICK p \in todo, b \in {"loaded", "null"} :
             base_map' = [base_map EXCEPT ![p] = b] /\ todo' = todo \ {p}
    BY <1>5, Zenon DEF LoadPlugin
  <2>2. ctl' = ctl /\ ctl = "load_plugins" /\ origin_base' = origin_base
    BY <1>5, Zenon DEF LoadPlugin
  <2>3. IsMap(base_map')
    BY <2>1, Zenon DEF Bases_OK, IsMap
  <2>4. Loads(ctl', base_map')
    BY <2>1, <2>2, Zenon DEF Bases_OK, IsMap, Loads
  <2>5. todo' \subseteq Plugin
    BY <2>1, Zenon DEF Bases_OK
  <2> QED
    BY <2>2, <2>3, <2>4, <2>5, Zenon DEF Bases_OK
<1>6. CASE EraseFailed
  <2>1. PICK S : S = {p \in DOMAIN base_map : base_map[p] # "null"}
    BY Zenon
  <2>2. /\ base_map' = [p \in S |-> base_map[p]] /\ ctl = "load_plugins" /\ ctl' = "listen"
        /\ origin_base' = origin_base /\ todo' = todo
    BY <1>6, <2>1, Zenon DEF EraseFailed, RestrictDomain, Restrict
  <2>3. \A p \in S : p \in Plugin /\ base_map[p] = "loaded"
    BY <2>1, <2>2, Zenon DEF Bases_OK, IsMap, Loads
  <2>4. DOMAIN base_map' = S /\ \A p \in S : base_map'[p] = base_map[p]
    BY <2>2, Zenon
  <2>5. IsMap(base_map') /\ Loads(ctl', base_map') /\ ctl' \in Controls
    BY <2>2, <2>3, <2>4 DEF IsMap, Loads, Controls, Quiet
  <2> QED
    BY <2>2, <2>5, Zenon DEF Bases_OK
<1>7. CASE Listen \/ RunReturns \/ StopPool
  <2>1. UNCHANGED bases
    BY <1>7, Zenon DEF Listen, RunReturns, StopPool
  <2>2. ctl' \in {"stop_pool", "stop_idle", "clear_bases"} \/ (ctl = "listen" /\ ctl' = "running")
    BY <1>7, Zenon DEF Listen, RunReturns, StopPool
  <2>3. CASE ctl = "listen" /\ ctl' = "running"
    <3>1. ctl' \in Controls /\ Loads(ctl', base_map)
      BY <2>3 DEF Bases_OK, Loads, Controls
    <3> QED
      BY <2>1, <3>1, Zenon DEF Bases_OK, bases
  <2>4. CASE ctl' \in {"stop_pool", "stop_idle", "clear_bases"}
    <3>1. ctl' \in Controls /\ Loads(ctl', base_map)
      BY <1>0, <2>4
    <3> QED
      BY <2>1, <3>1, Zenon DEF Bases_OK, bases
  <2> QED
    BY <2>2, <2>3, <2>4, Zenon
<1>8. CASE ClearBases
  <2>1. /\ ctl' = "clear_map" /\ base_map' = [p \in DOMAIN base_map |-> "cleared"]
        /\ UNCHANGED <<origin_base, todo>>
    BY <1>8, Zenon DEF ClearBases
  <2>2. IsMap(base_map')
    BY <2>1, Zenon DEF Bases_OK, IsMap
  <2> QED
    BY <1>0, <2>1, <2>2, Zenon DEF Bases_OK
<1>9. CASE ClearMap
  BY <1>0, <1>9, MapsOK, Zenon DEF ClearMap, Bases_OK
<1>10. CASE ClearOrigin
  <2>1. ctl' = "done" /\ origin_base' \in {"null", "set"} /\ UNCHANGED <<base_map, todo>>
    BY <1>10, Zenon DEF ClearOrigin
  <2> QED
    BY <1>0, <2>1, Zenon DEF Bases_OK
<1> QED
  BY <1>2, <1>3, <1>4, <1>5, <1>6, <1>7, <1>8, <1>9, <1>10, Zenon DEF Control, Start

\* init() and clear() leave the threads alone, and stop() of the pool takes their jobs.
LEMMA ControlUsers ==
  ASSUME PolicyInv, Control
  PROVE  Users_OK' /\ Known_OK'
<1>1. UNCHANGED workers /\ UNCHANGED <<pulls, base_trigger>>
  BY Zenon DEF Control, Start, LoadMain, CloneMain, CallMain, LoadPlugin, EraseFailed, Listen,
     RunReturns, StopPool, ClearBases, ClearMap, ClearOrigin, jobs
<1>2. posted' = posted \/ (posted' = [p \in Plugin |-> 0] /\ ctl' = "clear_bases")
  BY Zenon DEF Control, Start, LoadMain, CloneMain, CallMain, LoadPlugin, EraseFailed, Listen,
     RunReturns, StopPool, ClearBases, ClearMap, ClearOrigin, jobs
<1>3. posted' \in [Plugin -> Nat]
  <2>1. [p \in Plugin |-> 0] \in [Plugin -> Nat]
    OBVIOUS
  <2> QED
    BY <1>2, <2>1, Zenon DEF PolicyInv, Users_OK
<1>4. Users_OK'
  BY <1>1, <1>3, Zenon DEF PolicyInv, Users_OK, workers
<1>5. ctl' \in Quiet => ctl \in Quiet
  BY Zenon DEF Control, Start, LoadMain, CloneMain, CallMain, LoadPlugin, EraseFailed, Listen,
     RunReturns, StopPool, ClearBases, ClearMap, ClearOrigin, Quiet, InitFails
<1>6. ctl' = "running" => ctl = "listen"
  BY Zenon DEF Control, Start, LoadMain, CloneMain, CallMain, LoadPlugin, EraseFailed, Listen,
     RunReturns, StopPool, ClearBases, ClearMap, ClearOrigin, InitFails
<1>7. ctl \in Quiet /\ ctl' # "clear_bases" =>
        (\A p \in Plugin : posted'[p] = 0) /\ \A w \in Worker : pc'[w] = "idle"
  BY <1>1, <1>2, Zenon DEF PolicyInv, Known_OK, workers
<1>8. "clear_bases" \notin Quiet /\ "listen" \in Quiet
  BY Zenon DEF Quiet
<1>9. ctl' \in Quiet => (\A p \in Plugin : posted'[p] = 0) /\ \A w \in Worker : pc'[w] = "idle"
  BY <1>5, <1>7, <1>8, Zenon
<1>10. ASSUME ctl' = "running"
       PROVE  /\ \A p \in Plugin : posted'[p] = 0
              /\ \A w \in Worker : pc'[w] = "idle"
  <2>1. ctl \in Quiet /\ ctl' # "clear_bases"
    BY <1>6, <1>8, <1>10, Zenon
  <2> QED
    BY <1>7, <2>1, Zenon
<1>11. ~(0 > 0)
  OBVIOUS
<1> QED
  BY <1>4, <1>9, <1>10, <1>11, Zenon DEF Known_OK, Running

LEMMA HoldingFinite == IsFiniteSet(Holding) /\ Cardinality(Holding) \in Nat
<1>1. Holding \subseteq Worker
  BY Zenon DEF Holding
<1> QED
  BY <1>1, PolicyAssumption, FS_Subset, FS_CardinalityType, Zenon

\* load() may leave a Lua state open, and that of main.lua is never closed.
LEMMA ControlStates ==
  ASSUME PolicyInv, Control
  PROVE  States_OK'
<1>1. Holding' = Holding
  <2>1. lua' = lua
    BY Zenon DEF Control, Start, LoadMain, CloneMain, CallMain, LoadPlugin, EraseFailed, Listen,
       RunReturns, StopPool, ClearBases, ClearMap, ClearOrigin, workers
  <2> QED
    BY <2>1, Zenon DEF Holding
<1>2. PICK n \in Nat : n = Cardinality(Holding) /\ open = lost + MainStates + n
  BY HoldingFinite, Zenon DEF PolicyInv, States_OK
<1>3. ASSUME NEW ok, Load(ok)
      PROVE  UNCHANGED states \/ (open' = open + 1 /\ lost' = lost + 1 /\ UNCHANGED main_lua)
  BY <1>3, Zenon DEF Load
<1>4. \/ UNCHANGED states
      \/ open' = open + 1 /\ lost' = lost + 1 /\ UNCHANGED main_lua
      \/ ctl = "clone_main" /\ ctl' = "call_main" /\ open' = open + 1 /\ main_lua' = TRUE
         /\ UNCHANGED lost
  BY <1>3, Zenon DEF Control, Start, LoadMain, CloneMain, CallMain, LoadPlugin, EraseFailed, Listen,
     RunReturns, StopPool, ClearBases, ClearMap, ClearOrigin
<1>5. ctl' \in {"load_main", "clone_main"} => ctl = "load_main"
  BY Zenon DEF Control, Start, LoadMain, CloneMain, CallMain, LoadPlugin, EraseFailed, Listen,
     RunReturns, StopPool, ClearBases, ClearMap, ClearOrigin, InitFails
<1>6. CASE UNCHANGED states
  BY <1>1, <1>5, <1>6, Zenon DEF PolicyInv, States_OK, MainStates, states
<1>7. CASE open' = open + 1 /\ lost' = lost + 1 /\ UNCHANGED main_lua
  <2>1. MainStates' = MainStates /\ MainStates \in {0, 1}
    BY <1>7, Zenon DEF MainStates
  <2>2. open \in Nat /\ lost \in Nat
    BY Zenon DEF PolicyInv, States_OK
  <2>3. open' \in Nat /\ lost' \in Nat /\ open' = lost' + MainStates' + n
    BY ONLY <1>2, <1>7, <2>1, <2>2
  <2> QED
    BY <1>1, <1>2, <1>5, <1>7, <2>3, Zenon DEF PolicyInv, States_OK
<1>8. CASE ctl = "clone_main" /\ ctl' = "call_main" /\ open' = open + 1 /\ main_lua' = TRUE
           /\ UNCHANGED lost
  <2>1. MainStates' = 1 /\ MainStates = 0 /\ main_lua' \in BOOLEAN
    BY <1>8, Zenon DEF MainStates, PolicyInv, States_OK
  <2>2. open \in Nat /\ lost \in Nat
    BY Zenon DEF PolicyInv, States_OK
  <2>3. open' \in Nat /\ lost' \in Nat /\ open' = lost' + MainStates' + n
    BY ONLY <1>2, <1>8, <2>1, <2>2
  <2>4. ~(ctl' \in {"load_main", "clone_main"})
    BY ONLY <1>8, Zenon
  <2> QED
    BY <1>1, <1>2, <2>1, <2>3, <2>4, Zenon DEF States_OK
<1> QED
  BY <1>4, <1>6, <1>7, <1>8, Zenon

\* A thread leaves the plugins alone; it may end the program.
LEMMA WorkerBases ==
  ASSUME PolicyInv, NEW w \in Worker, WorkerStep(w)
  PROVE  Bases_OK' /\ UNCHANGED bases /\ (UNCHANGED ctl \/ ctl' = "crashed")
<1>1. UNCHANGED bases /\ (UNCHANGED ctl \/ ctl' = "crashed")
  BY Zenon DEF WorkerStep, TakePull, GetPolicys, TakePolicy, ClonePolicy, CloneOne, CallFunction,
     FreePolicy, UseAfterClear
<1>2. "crashed" \in Controls /\ \A m : Loads("crashed", m)
  BY Zenon DEF Controls, Loads
<1> QED
  BY <1>1, <1>2, Zenon DEF Bases_OK, PolicyInv, bases

Pcs == {"idle", "list", "find", "clone", "call", "free"}

\* A step of one thread: where it goes, and what it may hold then.
LEMMA GotoKeeps ==
  ASSUME Users_OK, NEW w \in Worker, NEW from, NEW to \in Pcs, Goto(w, from, to)
  PROVE  /\ pc[w] = from /\ pc'[w] = to /\ pc' \in [Worker -> Pcs]
         /\ \A v \in Worker : v # w => pc'[v] = pc[v]
  BY Zenon DEF Goto, Users_OK, Pcs

\* The jobs after a thread has listed the policies of a url, or taken one of them.
LEMMA WorkerPosted ==
  ASSUME PolicyInv, NEW w \in Worker, WorkerStep(w)
  PROVE  /\ posted' \in [Plugin -> Nat]
         /\ \A p \in Plugin : posted'[p] > 0 => posted[p] > 0 \/ Present(p)
<1>1. posted \in [Plugin -> Nat]
  BY Zenon DEF PolicyInv, Users_OK
<1>2. CASE UNCHANGED posted
  BY <1>1, <1>2, Zenon
<1>3. CASE GetPolicys(w)
  <2>1. PICK L : L = get_policys(page[w].running_trigger)
    BY Zenon
  <2>2. \/ posted' = [p \in Plugin |-> IF p \in L THEN posted[p] + 1 ELSE posted[p]]
        \/ UNCHANGED posted
    BY <1>3, <2>1, Zenon DEF GetPolicys
  <2>3. \A p \in L : Present(p)
    BY <2>1, Zenon DEF get_policys, Present
  <2>4. CASE posted' = [p \in Plugin |-> IF p \in L THEN posted[p] + 1 ELSE posted[p]]
    <3>1. posted' \in [Plugin -> Nat] /\ \A p \in Plugin : p \notin L => posted'[p] = posted[p]
      BY ONLY <1>1, <2>4
    <3> QED
      BY <2>3, <3>1, Zenon
  <2> QED
    BY <1>2, <2>2, <2>4, Zenon
<1>4. CASE TakePolicy(w)
  <2>1. PICK p \in Plugin : posted[p] > 0 /\ posted' = [posted EXCEPT ![p] = @ - 1]
    BY <1>4, Zenon DEF TakePolicy
  <2>2. posted' \in [Plugin -> Nat] /\ \A q \in Plugin : posted'[q] > 0 => posted[q] > 0
    BY ONLY <1>1, <2>1
  <2> QED
    BY <2>2, Zenon
<1> QED
  BY <1>2, <1>3, <1>4, Zenon DEF WorkerStep, TakePull, ClonePolicy, CloneOne, CallFunction,
     FreePolicy, UseAfterClear, jobs

\* Where a thread goes, what it runs and what it holds.
Held(w) == lua'[w] => pc'[w] = "call" \/ pc'[w] = "free"
Busy(c) == c # "idle" /\ c # "list"
Run(w) == Busy(pc'[w]) => (name'[w] = name[w] /\ Busy(pc[w])) \/ posted[name'[w]] > 0

LEMMA WorkerMoves ==
  ASSUME Users_OK, NEW w \in Worker, WorkerStep(w)
  PROVE  /\ pc' \in [Worker -> Pcs] /\ name' \in [Worker -> Plugin] /\ lua' \in [Worker -> BOOLEAN]
         /\ \A v \in Worker \ {w} : pc'[v] = pc[v] /\ name'[v] = name[v] /\ lua'[v] = lua[v]
         /\ Held(w) /\ Run(w)
<1>0. pc \in [Worker -> Pcs] /\ name \in [Worker -> Plugin] /\ lua \in [Worker -> BOOLEAN]
  BY Zenon DEF Users_OK, Pcs
<1>1. \A v \in Worker : lua[v] => pc[v] = "call" \/ pc[v] = "free"
  BY Zenon DEF Users_OK
<1>2. "idle" \in Pcs /\ "list" \in Pcs /\ "find" \in Pcs /\ "clone" \in Pcs /\ "call" \in Pcs
      /\ "free" \in Pcs /\ ~Busy("idle") /\ ~Busy("list")
  BY Zenon DEF Pcs, Busy
<1>3. CASE TakePull(w)
  <2>1. Goto(w, "idle", "list") /\ UNCHANGED <<name, lua>>
    BY <1>3, Zenon DEF TakePull
  <2>2. lua[w] = FALSE
    BY <1>0, <1>1, <2>1, Zenon DEF Goto
  <2> QED
    BY <1>0, <1>2, <2>1, <2>2, GotoKeeps, Zenon DEF Held, Run
<1>4. CASE GetPolicys(w)
  <2>1. Goto(w, "list", "idle") /\ UNCHANGED <<name, lua>>
    BY <1>4, Zenon DEF GetPolicys
  <2>2. lua[w] = FALSE
    BY <1>0, <1>1, <2>1, Zenon DEF Goto
  <2> QED
    BY <1>0, <1>2, <2>1, <2>2, GotoKeeps, Zenon DEF Held, Run
<1>5. CASE TakePolicy(w)
  <2>1. PICK p \in Plugin : posted[p] > 0 /\ name' = [name EXCEPT ![w] = p]
    BY <1>5, Zenon DEF TakePolicy
  <2>2. Goto(w, "idle", "find") /\ UNCHANGED lua
    BY <1>5, Zenon DEF TakePolicy
  <2>3. lua[w] = FALSE
    BY <1>0, <1>1, <2>2, Zenon DEF Goto
  <2> QED
    BY <1>0, <1>2, <2>1, <2>2, <2>3, GotoKeeps, Zenon DEF Held, Run
<1>6. CASE ClonePolicy(w)
  <2>1. PICK to \in Pcs : Goto(w, "find", to) /\ UNCHANGED <<name, lua>>
    BY <1>2, <1>6, Zenon DEF ClonePolicy
  <2>2. lua[w] = FALSE /\ Busy(pc[w])
    BY <1>0, <1>1, <2>1 DEF Goto, Busy
  <2> QED
    BY <1>0, <1>2, <2>1, <2>2, GotoKeeps, Zenon DEF Held, Run
<1>7. CASE CloneOne(w)
  <2>1. PICK ok \in BOOLEAN : Goto(w, "clone", "call") /\ lua' = [lua EXCEPT ![w] = ok] /\ UNCHANGED name
    BY <1>7, Zenon DEF CloneOne
  <2>2. Busy(pc[w])
    BY <2>1, Zenon DEF Goto, Busy
  <2> QED
    BY <1>0, <1>2, <2>1, <2>2, GotoKeeps, Zenon DEF Held, Run
<1>8. CASE CallFunction(w)
  <2>1. Goto(w, "call", "free") /\ UNCHANGED <<name, lua>>
    BY <1>8, Zenon DEF CallFunction
  <2>2. Busy(pc[w])
    BY <2>1, Zenon DEF Goto, Busy
  <2> QED
    BY <1>0, <1>2, <2>1, <2>2, GotoKeeps, Zenon DEF Held, Run
<1>9. CASE FreePolicy(w)
  <2>1. Goto(w, "free", "idle") /\ lua' = [lua EXCEPT ![w] = FALSE] /\ UNCHANGED name
    BY <1>9, Zenon DEF FreePolicy
  <2> QED
    BY <1>0, <1>2, <2>1, GotoKeeps, Zenon DEF Held, Run
<1>10. CASE UseAfterClear(w)
  <2>1. UNCHANGED workers
    BY <1>10, Zenon DEF UseAfterClear
  <2> QED
    BY <1>0, <1>1, <2>1, Zenon DEF workers, Held, Run
<1> QED
  BY <1>3, <1>4, <1>5, <1>6, <1>7, <1>8, <1>9, <1>10, Zenon DEF WorkerStep

\* A thread lists only urls that the bound admits, and marks the page it lists.
LEMMA WorkerUsers ==
  ASSUME PolicyInv, NEW w \in Worker, WorkerStep(w)
  PROVE  Users_OK'
<1>1. Users_OK /\ pulls \in 0 .. MaxPull /\ DOMAIN page = Worker
      /\ \A v \in Worker : page[v].main \in BOOLEAN /\ page[v].text \in BOOLEAN
  BY Zenon DEF PolicyInv, Users_OK
<1>2. pulls' \in 0 .. MaxPull
  <2>1. UNCHANGED pulls \/ (pulls < MaxPull /\ pulls' = pulls + 1)
    BY Zenon DEF WorkerStep, TakePull, GetPolicys, TakePolicy, ClonePolicy, CloneOne,
       CallFunction, FreePolicy, UseAfterClear, jobs
  <2> QED
    BY ONLY <1>1, <2>1, PolicyAssumption
<1>3. PICK g : UNCHANGED page \/ (g.main \in BOOLEAN /\ g.text \in BOOLEAN
                                  /\ page' = [page EXCEPT ![w] = g])
  <2>1. CASE UNCHANGED page
    BY <2>1, Zenon
  <2>2. CASE TakePull(w)
    <3>1. PICK text \in BOOLEAN : \E t :
            page' = [page EXCEPT ![w] = [main |-> pulls = 0, text |-> text,
                                         running_trigger |-> Completed(t, text)]]
      BY <2>2, Zenon DEF TakePull
    <3>2. PICK c : page' = [page EXCEPT ![w] = [main |-> pulls = 0, text |-> text,
                                                running_trigger |-> c]]
      BY <3>1, Zenon
    <3>3. PICK m \in BOOLEAN : m = (pulls = 0)
      BY Zenon
    <3>4. PICK g : g = [main |-> m, text |-> text, running_trigger |-> c]
      BY Zenon
    <3>5. g.main = m /\ g.text = text
      BY ONLY <3>4, Zenon
    <3>6. page' = [page EXCEPT ![w] = g]
      BY <3>2, <3>3, <3>4, Zenon
    <3> QED
      BY <3>5, <3>6, Zenon
  <2>3. CASE GetPolicys(w)
    <3>1. NoPage.main \in BOOLEAN /\ NoPage.text \in BOOLEAN
      BY Zenon DEF NoPage
    <3> QED
      BY <2>3, <3>1, Zenon DEF GetPolicys
  <2> QED
    BY <2>1, <2>2, <2>3, Zenon DEF WorkerStep, TakePolicy, ClonePolicy, CloneOne, CallFunction,
       FreePolicy, UseAfterClear, workers
<1>4. DOMAIN page' = Worker
  BY <1>1, <1>3, Zenon
<1>5. \A v \in Worker : page'[v].main \in BOOLEAN /\ page'[v].text \in BOOLEAN
  BY <1>1, <1>3, Zenon
<1>6. \A v \in Worker : lua'[v] => pc'[v] \in {"call", "free"}
  BY <1>1, WorkerMoves, Zenon DEF Held, Users_OK
<1> QED
  BY <1>1, <1>2, <1>4, <1>5, <1>6, WorkerMoves, WorkerPosted, Zenon DEF Users_OK, Pcs

\* While the program serves, no entry leaves base_map.
LEMMA WorkerKnown ==
  ASSUME PolicyInv, NEW w \in Worker, WorkerStep(w)
  PROVE  Known_OK'
<1>1. ctl \notin Quiet
  <2>1. ctl \in Quiet => pc[w] = "idle" /\ \A p \in Plugin : posted[p] = 0
    BY Zenon DEF PolicyInv, Known_OK
  <2>2. \/ PoolOn \/ pc[w] \in {"list", "find", "clone", "call", "free"}
        \/ \E p \in Plugin : posted[p] > 0
    BY Zenon DEF WorkerStep, TakePull, GetPolicys, TakePolicy, ClonePolicy, CloneOne, CallFunction,
       FreePolicy, UseAfterClear, Goto
  <2> QED
    BY <2>1, <2>2 DEF PoolOn, Quiet
<1>2. ctl' \notin Quiet
  <2>1. "crashed" \notin Quiet
    BY Zenon DEF Quiet
  <2> QED
    BY <1>1, <2>1, WorkerBases, Zenon
<1>3. ASSUME Running'
      PROVE  /\ \A p \in Plugin : posted'[p] > 0 => p \in DOMAIN base_map'
             /\ \A v \in Worker : Busy(pc'[v]) => Present(name[v]) \/ v = w
             /\ \A p : Present(p) => p \in DOMAIN base_map'
             /\ \A p \in Plugin : posted[p] > 0 => Present(p)
             /\ Busy(pc[w]) => Present(name[w])
  <2>1. Running
    <3>1. ~("crashed" = "running")
      OBVIOUS
    <3> QED
      BY <1>3, <3>1, WorkerBases, Zenon DEF Running
  <2>2. \A p : Present(p) => p \in DOMAIN base_map'
    BY WorkerBases, Zenon DEF Present, bases
  <2>3. /\ \A p \in Plugin : posted[p] > 0 => Present(p)
        /\ \A v \in Worker : Busy(pc[v]) => Present(name[v])
    BY <2>1, Zenon DEF PolicyInv, Known_OK, Busy
  <2>4. \A v \in Worker : Busy(pc'[v]) => Present(name[v]) \/ v = w
    BY <2>3, WorkerMoves, Zenon DEF PolicyInv
  <2> QED
    BY <2>2, <2>3, <2>4, WorkerPosted, Zenon
<1>4. ASSUME Running', NEW v \in Worker, Busy(pc'[v]) PROVE name'[v] \in DOMAIN base_map'
  <2>1. CASE v = w
    <3>1. Run(w) /\ name'[w] \in Plugin
      BY WorkerMoves, Zenon DEF PolicyInv
    <3> QED
      BY <1>3, <1>4, <2>1, <3>1, Zenon DEF Run
  <2>2. CASE v # w
    <3>1. name'[v] = name[v]
      BY <2>2, WorkerMoves, Zenon DEF PolicyInv
    <3>2. Present(name[v])
      BY <1>3, <1>4, <2>2, Zenon
    <3> QED
      BY <1>3, <1>4, <3>1, <3>2, Zenon
  <2> QED
    BY <2>1, <2>2, Zenon
<1> QED
  BY <1>2, <1>3, <1>4, Zenon DEF Known_OK, Busy, Present

\* A thread that clones a policy opens a Lua state, and closes it when it frees the policy.
LEMMA WorkerStates ==
  ASSUME PolicyInv, NEW w \in Worker, WorkerStep(w)
  PROVE  States_OK'
<1>1. PICK n \in Nat : n = Cardinality(Holding) /\ open = lost + MainStates + n
  BY HoldingFinite, Zenon DEF PolicyInv, States_OK
<1>2. /\ open \in Nat /\ lost \in Nat /\ main_lua \in BOOLEAN
      /\ ctl \in {"load_main", "clone_main"} => ~main_lua
  BY Zenon DEF PolicyInv, States_OK
<1>3. UNCHANGED <<main_lua, lost>> /\ MainStates' = MainStates
  <2>1. UNCHANGED <<main_lua, lost>>
    BY Zenon DEF WorkerStep, TakePull, GetPolicys, TakePolicy, ClonePolicy, CloneOne, CallFunction,
       FreePolicy, UseAfterClear, states
  <2> QED
    BY <2>1, Zenon DEF MainStates
<1>4. MainStates \in {0, 1}
  BY Zenon DEF MainStates
<1>5. ctl' \in {"load_main", "clone_main"} => ~main_lua'
  <2>1. ~("crashed" \in {"load_main", "clone_main"})
    OBVIOUS
  <2> QED
    BY <1>2, <1>3, <2>1, WorkerBases, Zenon
<1>6. SUFFICES open' \in Nat /\ open' = lost + MainStates + Cardinality(Holding')
  BY <1>2, <1>3, <1>5, Zenon DEF States_OK
<1>7. lua \in [Worker -> BOOLEAN] /\ \A v \in Worker : lua[v] => pc[v] \in {"call", "free"}
  BY Zenon DEF PolicyInv, Users_OK
<1>8. CASE open' = open /\ Holding' = Holding
  BY <1>1, <1>2, <1>8, Zenon
<1>9. CASE CloneOne(w)
  <2>1. PICK ok \in BOOLEAN : lua' = [lua EXCEPT ![w] = ok] /\ open' = IF ok THEN open + 1 ELSE open
    BY <1>9, Zenon DEF CloneOne
  <2>2. lua[w] = FALSE
    <3>1. pc[w] = "clone"
      BY <1>9, Zenon DEF CloneOne, Goto
    <3>2. ~("clone" \in {"call", "free"})
      OBVIOUS
    <3> QED
      BY <1>7, <3>1, <3>2, Zenon
  <2>3. CASE ok = TRUE
    <3>1. Holding' = Holding \cup {w} /\ w \notin Holding /\ open' = open + 1
      BY <1>7, <2>1, <2>2, <2>3, Zenon DEF Holding
    <3>2. Cardinality(Holding') = n + 1
      BY <1>1, <3>1, HoldingFinite, FS_AddElement, Zenon
    <3> QED
      BY ONLY <1>1, <1>2, <1>4, <3>1, <3>2
  <2>4. CASE ok = FALSE
    BY <1>7, <1>8, <2>1, <2>2, <2>4, Zenon DEF Holding
  <2> QED
    BY <2>3, <2>4, Zenon
<1>10. CASE FreePolicy(w)
  <2>1. lua' = [lua EXCEPT ![w] = FALSE] /\ open' = IF lua[w] THEN open - 1 ELSE open
    BY <1>10, Zenon DEF FreePolicy
  <2>2. CASE lua[w] = TRUE
    <3>1. Holding' = Holding \ {w} /\ w \in Holding /\ open' = open - 1
      BY <1>7, <2>1, <2>2, Zenon DEF Holding
    <3>2. Cardinality(Holding') = n - 1 /\ n # 0
      BY <1>1, <3>1, HoldingFinite, FS_RemoveElement, FS_EmptySet, Zenon
    <3> QED
      BY ONLY <1>1, <1>2, <1>4, <3>1, <3>2
  <2>3. CASE lua[w] = FALSE
    BY <1>7, <1>8, <2>1, <2>3, Zenon DEF Holding
  <2> QED
    BY <1>7, <2>2, <2>3, Zenon
<1>11. ASSUME open' = open, lua' = lua PROVE open' = open /\ Holding' = Holding
  BY <1>11, Zenon DEF Holding
<1> QED
  BY <1>8, <1>9, <1>10, <1>11, Zenon DEF WorkerStep, TakePull, GetPolicys, TakePolicy, ClonePolicy,
     CallFunction, UseAfterClear, states, workers

LEMMA NextPolicy == ASSUME PolicyInv, [Next]_vars PROVE PolicyInv'
<1>1. CASE Control
  BY <1>1, ControlBases, ControlUsers, ControlStates, Zenon DEF PolicyInv
<1>2. ASSUME NEW w \in Worker, WorkerStep(w) PROVE PolicyInv'
  BY <1>2, WorkerBases, WorkerUsers, WorkerKnown, WorkerStates, Zenon DEF PolicyInv
<1>3. CASE UNCHANGED vars
  <2>1. UNCHANGED <<ctl, origin_base, base_map, todo>>
    BY <1>3, Zenon DEF vars, bases
  <2>2. UNCHANGED <<open, main_lua, lost, posted, pulls, pc, page, name, lua>>
    BY <1>3, Zenon DEF vars, states, jobs, workers
  <2>3. Bases_OK' /\ Users_OK'
    BY <2>1, <2>2, Zenon DEF PolicyInv, Bases_OK, Users_OK
  <2>4. Known_OK' /\ States_OK'
    BY <2>1, <2>2, Zenon DEF PolicyInv, Known_OK, States_OK, Running, Present, MainStates, Holding
  <2> QED
    BY <2>3, <2>4, Zenon DEF PolicyInv
<1> QED
  BY <1>1, <1>2, <1>3, Zenon DEF Next

\* The io_services hold up steps of run(), and add none to the policy server.
LEMMA SystemInv == SysSpec => []PolicyInv
<1>1. SysInit => PolicyInv
  BY InitPolicy, Zenon DEF SysInit
<1>2. ASSUME PolicyInv, [SysNext]_sys_vars PROVE PolicyInv'
  <2>1. Next \/ UNCHANGED vars
    BY <1>2, Zenon DEF SysNext, sys_vars, PolicyStep, ServeCreate, ServeReturns, Signal, StopServices,
       ClearPolicies, ServiceEnd, StopService, Next, Control
  <2> QED
    BY <1>2, <2>1, NextPolicy
<1> QED
  BY <1>1, <1>2, PTL DEF SysSpec

(***************************************************************************)
(* While the program serves, every entry of base_map has a loaded base and *)
(* a job finds the policy that get_policys listed for it, for any plugins  *)
(* that main.lua may name, any of which may fail to load.                  *)
(***************************************************************************)
THEOREM PoliciesReadyHolds == SysSpec => []PoliciesReady
<1>1. PolicyInv => PoliciesReady
  <2> SUFFICES ASSUME PolicyInv, Running PROVE PoliciesReady
    BY Zenon DEF PoliciesReady
  <2>1. \A p \in DOMAIN base_map : base_map[p] = "loaded"
    <3>1. ctl \in {"listen", "running"}
      BY Zenon DEF Running
    <3> QED
      BY <3>1, Zenon DEF PolicyInv, Bases_OK, Loads
  <2> QED
    BY <2>1, Zenon DEF PolicyInv, Known_OK, PoliciesReady
<1> QED
  BY <1>1, SystemInv, PTL

(***************************************************************************)
(* Every Lua state that is open is that of main.lua, one that load() left  *)
(* open, or the one of a thread that has still to call free_policy,        *)
(* however the threads and policy_base_server::clear interleave.           *)
(***************************************************************************)
THEOREM LuaBalanceHolds == SysSpec => []LuaBalance
<1>1. PolicyInv => LuaBalance
  <2> SUFFICES ASSUME PolicyInv PROVE LuaBalance
    OBVIOUS
  <2>1. ctl \in {"load_main", "clone_main", "call_main", "load_plugins", "listen",
                 "running", "stop_pool", "stop_idle", "clear_bases", "clear_map",
                 "clear_origin", "done", "failed", "crashed"}
    BY Zenon DEF PolicyInv, Bases_OK, Controls, Quiet
  <2>2. TypeOK
    BY <2>1, Zenon DEF TypeOK, PolicyInv, Bases_OK, IsMap, Users_OK, States_OK
  <2>3. open = lost + (IF main_lua THEN 1 ELSE 0) + Cardinality({w \in Worker : lua[w]})
    BY Zenon DEF PolicyInv, States_OK, MainStates, Holding
  <2> QED
    BY <2>2, <2>3, Zenon DEF LuaBalance
<1> QED
  BY <1>1, SystemInv, PTL
=============================================================================
