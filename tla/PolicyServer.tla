---------------------------- MODULE PolicyServer ----------------------------
(***************************************************************************)
(* policy_base_server in the life of the program.  system_api::run loads   *)
(* main.lua and the plugins it names, starts the pool, serves, and stops:  *)
(* pool, io, policies, in that order.  Pool threads list the policies of a *)
(* url, clone one into a Lua state of their own, call it and close it.     *)
(* base_map has no lock, so a thread finds an entry and uses it in two     *)
(* steps.  Lua states are counted.                                         *)
(***************************************************************************)
EXTENDS Integers, FiniteSets, Functions, Trigger

CONSTANTS
  Plugin,   \* files that main.lua may name
  Worker,   \* threads of the pool
  Triggers, \* trigger strings that a plugin may carry
  Bases,    \* trigger strings that a task may be started with
  MaxPull   \* bound on the urls whose policies are listed

ASSUME PolicyAssumption == Plugin # {} /\ IsFiniteSet(Worker) /\ MaxPull \in Nat

VARIABLES
  ctl,         \* where system_api::run is
  origin_base, \* the base of main.lua: "null" or "set"
  base_map,    \* plugin -> "null", "loaded" or "cleared"
  m_triggle,   \* plugin -> the trigger string its script sets
  todo,        \* plugins init() has still to load
  open,        \* Lua states open
  main_lua,    \* the Lua state of main.lua is open
  lost,        \* Lua states that load() left open
  posted,      \* plugin -> jobs waiting in the pool
  pulls,       \* urls whose policies were listed
  base_trigger, \* the trigger string of the task, when start() is over
  pc,          \* where each worker is
  page,        \* the url whose policies a worker lists
  name,        \* the policy a worker runs
  lua          \* the worker holds a Lua state

bases   == <<origin_base, base_map, m_triggle, todo>>
states  == <<open, main_lua, lost>>
jobs    == <<posted, pulls, base_trigger>>
workers == <<pc, page, name, lua>>
vars    == <<ctl, bases, states, jobs, workers>>

Empty == [p \in {} |-> "null"]

\* http_reponse_completed adds "once" for a message that is text.
Completed(trigger, text) == IF text THEN format_trigger_add(trigger, <<"once">>) ELSE trigger

\* format_start, and the responses that start() reads.
StartTrigger(trigger, text) == Completed(format_trigger(trigger), text)

NoPage == [main |-> FALSE, text |-> FALSE, running_trigger |-> <<>>]

Init ==
  /\ ctl = "load_main" /\ origin_base = "null" /\ base_map = Empty /\ todo = {}
  /\ open = 0 /\ main_lua = FALSE /\ lost = 0
  /\ m_triggle = [p \in Plugin |-> <<>>]
  /\ posted = [p \in Plugin |-> 0] /\ pulls = 0
  /\ \E b \in Bases, text \in BOOLEAN : base_trigger = StartTrigger(b, text)
  /\ page = [w \in Worker |-> NoPage]
  /\ pc = [w \in Worker |-> "idle"] /\ name = [w \in Worker |-> CHOOSE p \in Plugin : TRUE]
  /\ lua = [w \in Worker |-> FALSE]

(***************************************************************************)
(* policy_base::load: the file may be missing, or the script wrong, or     *)
(* without a version; on the last two the Lua state is not closed.         *)
(***************************************************************************)
Load(ok) ==
  \/ ok = TRUE /\ UNCHANGED states
  \/ ok = FALSE /\ UNCHANGED states
  \/ ok = FALSE /\ open' = open + 1 /\ lost' = lost + 1 /\ UNCHANGED main_lua

\* An exception in init(): policy_base_server::clear, and run() returns.
InitFails == ctl' = "failed" /\ origin_base' = "null" /\ base_map' = Empty /\ todo' = {}
             /\ UNCHANGED m_triggle

LoadMain ==
  /\ ctl = "load_main"
  /\ \/ /\ Load(TRUE) /\ ctl' = "clone_main" /\ origin_base' = "set"
        /\ UNCHANGED <<base_map, m_triggle, todo>>
     \/ Load(FALSE) /\ InitFails
  /\ UNCHANGED <<jobs, workers>>

\* The Lua state of main.lua goes to a policy_work that never closes it.
CloneMain ==
  /\ ctl = "clone_main"
  /\ \/ /\ open' = open + 1 /\ main_lua' = TRUE /\ ctl' = "call_main"
        /\ UNCHANGED <<bases, lost>>
     \/ InitFails /\ UNCHANGED states
  /\ UNCHANGED <<jobs, workers>>

\* Init_Lua calls InsertNewPlugins, which enters names without a base.
CallMain ==
  /\ ctl = "call_main"
  /\ \/ \E S \in SUBSET Plugin :
          /\ base_map' = [p \in S |-> "null"] /\ todo' = S /\ ctl' = "load_plugins"
          /\ UNCHANGED <<origin_base, m_triggle>>
     \/ InitFails
  /\ UNCHANGED <<states, jobs, workers>>

LoadPlugin ==
  /\ ctl = "load_plugins"
  /\ \E p \in todo, ok \in BOOLEAN :
       /\ Load(ok) /\ todo' = todo \ {p}
       /\ base_map' = [base_map EXCEPT ![p] = IF ok THEN "loaded" ELSE "null"]
       /\ IF ok THEN \E tr \in Triggers : m_triggle' = [m_triggle EXCEPT ![p] = tr]
          ELSE UNCHANGED m_triggle
  /\ UNCHANGED <<ctl, origin_base, jobs, workers>>

\* Plausible bug: a plugin that failed to load stays in the map.
EraseNothing ==
  /\ ctl = "load_plugins" /\ todo = {} /\ ctl' = "listen"
  /\ UNCHANGED <<bases, states, jobs, workers>>

EraseFailed ==
  /\ ctl = "load_plugins" /\ todo = {} /\ ctl' = "listen"
  /\ base_map' = RestrictDomain(base_map, LAMBDA p : base_map[p] # "null")
  /\ UNCHANGED <<origin_base, m_triggle, todo, states, jobs, workers>>

(***************************************************************************)
(* The pool is started, and create_listen may throw: then no task starts.  *)
(* stop() of the pool discards the jobs and does not wait for its threads. *)
(***************************************************************************)
Listen ==
  /\ ctl = "listen" /\ ctl' \in {"running", "stop_idle"}
  /\ UNCHANGED <<bases, states, jobs, workers>>

RunReturns ==
  /\ ctl = "running" /\ ctl' = "stop_pool"
  /\ UNCHANGED <<bases, states, jobs, workers>>

StopPool ==
  /\ ctl \in {"stop_pool", "stop_idle"} /\ ctl' = "clear_bases"
  /\ posted' = [p \in Plugin |-> 0]
  /\ UNCHANGED <<bases, states, pulls, base_trigger, workers>>

\* policy_base_server::clear
ClearBases ==
  /\ ctl = "clear_bases" /\ ctl' = "clear_map"
  /\ base_map' = [p \in DOMAIN base_map |-> "cleared"]
  /\ m_triggle' = [p \in Plugin |-> <<>>]
  /\ UNCHANGED <<origin_base, todo, states, jobs, workers>>

ClearMap ==
  /\ ctl = "clear_map" /\ ctl' = "clear_origin" /\ base_map' = Empty
  /\ UNCHANGED <<origin_base, m_triggle, todo, states, jobs, workers>>

ClearOrigin ==
  /\ ctl = "clear_origin" /\ ctl' = "done" /\ origin_base' = "null"
  /\ UNCHANGED <<base_map, m_triggle, todo, states, jobs, workers>>

(***************************************************************************)
(* The workers.  A pull job lists the policies of its url and pushes a job *)
(* for each; push refuses them once the pool is stopped, except for one    *)
(* whose test came before stop().  A thread that has passed its own test   *)
(* of the pool may still take that job.                                    *)
(***************************************************************************)
Running == ctl = "running"
PoolOn  == ctl \in {"running", "stop_pool"}

Goto(w, from, to) ==
  ctl # "crashed" /\ pc[w] = from /\ pc' = [pc EXCEPT ![w] = to]

\* The first url taken is the main url, and carries the mark "domain".
TakePull(w) ==
  /\ PoolOn /\ Goto(w, "idle", "list") /\ pulls < MaxPull /\ pulls' = pulls + 1
  /\ \E text \in BOOLEAN :
       LET main == pulls = 0
           t    == IF main THEN format_trigger_add(base_trigger, <<"domain">>) ELSE <<>>
       IN  page' = [page EXCEPT ![w] = [main |-> main, text |-> text,
                                        running_trigger |-> Completed(t, text)]]
  /\ UNCHANGED <<ctl, bases, states, posted, base_trigger, name, lua>>

\* Every policy, for a url without a mark.
get_policys(trigger) ==
  {p \in DOMAIN base_map : /\ base_map[p] # "null"
                           /\ trigger = <<>> \/ hit_trigger(trigger, m_triggle[p])}

GetPolicys(w) ==
  /\ Goto(w, "list", "idle") /\ page' = [page EXCEPT ![w] = NoPage]
  /\ LET policy_list == get_policys(page[w].running_trigger)
     IN  \/ posted' = [p \in Plugin |-> IF p \in policy_list THEN posted[p] + 1 ELSE posted[p]]
         \/ ~PoolOn /\ UNCHANGED posted
  /\ UNCHANGED <<ctl, bases, states, pulls, base_trigger, name, lua>>

TakePolicy(w) ==
  /\ Goto(w, "idle", "find")
  /\ \E p \in Plugin : /\ posted[p] > 0 /\ posted' = [posted EXCEPT ![p] = @ - 1]
                       /\ name' = [name EXCEPT ![w] = p]
  /\ UNCHANGED <<ctl, bases, states, pulls, base_trigger, page, lua>>

Present(p) == p \in DOMAIN base_map

ClonePolicy(w) ==
  /\ Goto(w, "find", IF Present(name[w]) /\ base_map[name[w]] # "null"
                     THEN "clone" ELSE "idle")
  /\ UNCHANGED <<ctl, bases, states, jobs, page, name, lua>>

\* clone_one closes the state again when the script or its environment fails.
CloneOne(w) ==
  /\ Goto(w, "clone", "call")
  /\ \E ok \in BOOLEAN : /\ lua' = [lua EXCEPT ![w] = ok]
                         /\ open' = IF ok THEN open + 1 ELSE open
  /\ UNCHANGED <<ctl, bases, main_lua, lost, jobs, page, name>>

\* The outcome of the call is not looked at.
CallFunction(w) ==
  /\ Goto(w, "call", "free")
  /\ UNCHANGED <<ctl, bases, states, jobs, page, name, lua>>

\* Plausible bug: free_policy returns when the plugin is not in the map.
FreePolicyPresentOnly(w) ==
  /\ Goto(w, "free", "idle")
  /\ lua' = [lua EXCEPT ![w] = FALSE]
  /\ open' = IF lua[w] /\ Present(name[w]) THEN open - 1 ELSE open
  /\ UNCHANGED <<ctl, bases, main_lua, lost, jobs, page, name>>

\* The base that closes the state is the plugin's, or that of main.lua.
FreePolicy(w) ==
  /\ Goto(w, "free", "idle")
  /\ lua' = [lua EXCEPT ![w] = FALSE]
  /\ open' = IF lua[w] THEN open - 1 ELSE open
  /\ UNCHANGED <<ctl, bases, main_lua, lost, jobs, page, name>>

\* A base that clear() has destroyed is used, or base_map is read while clear()
\* changes it: the call may also end the program.
UseAfterClear(w) ==
  /\ ctl \in {"clear_map", "clear_origin", "done"} /\ ctl' = "crashed"
  /\ \/ pc[w] = "list"
     \/ pc[w] \in {"find", "clone"} /\ ctl # "clear_map"
     \/ pc[w] = "free" /\ lua[w] /\ origin_base = "null"
  /\ UNCHANGED <<bases, states, jobs, workers>>

-----------------------------------------------------------------------------
Start == LoadMain \/ CloneMain \/ CallMain \/ LoadPlugin \/ EraseFailed \/ Listen

Control == Start \/ RunReturns \/ StopPool \/ ClearBases \/ ClearMap \/ ClearOrigin

WorkerStep(w) ==
  \/ TakePull(w) \/ GetPolicys(w) \/ TakePolicy(w) \/ ClonePolicy(w)
  \/ CloneOne(w) \/ CallFunction(w) \/ FreePolicy(w)
  \/ UseAfterClear(w)

Next == Control \/ \E w \in Worker : WorkerStep(w)

Spec == Init /\ [][Next]_vars

-----------------------------------------------------------------------------
\* The shape of the state of the policy server and of its users.
TypeOK ==
  /\ ctl \in {"load_main", "clone_main", "call_main", "load_plugins", "listen",
              "running", "stop_pool", "stop_idle", "clear_bases", "clear_map",
              "clear_origin", "done", "failed", "crashed"}
  /\ origin_base \in {"null", "set"} /\ todo \subseteq Plugin
  /\ DOMAIN base_map \subseteq Plugin
  /\ base_map \in [DOMAIN base_map -> {"null", "loaded", "cleared"}]
  /\ open \in Nat /\ main_lua \in BOOLEAN /\ lost \in Nat
  /\ posted \in [Plugin -> Nat] /\ pulls \in 0 .. MaxPull
  /\ \A w \in Worker : page[w].main \in BOOLEAN /\ page[w].text \in BOOLEAN
  /\ pc \in [Worker -> {"idle", "list", "find", "clone", "call", "free"}]
  /\ name \in [Worker -> Plugin] /\ lua \in [Worker -> BOOLEAN]

(***************************************************************************)
(* While the program serves, every entry of base_map has a loaded base, so *)
(* get_policy_count and free_policy may use it unchecked, and a job finds  *)
(* the policy that get_policys listed for it.                              *)
(***************************************************************************)
PoliciesReady ==
  Running =>
    /\ \A p \in DOMAIN base_map : base_map[p] = "loaded"
    /\ \A p \in Plugin : posted[p] > 0 => Present(p)
    /\ \A w \in Worker : pc[w] # "idle" /\ pc[w] # "list" => Present(name[w])

(***************************************************************************)
(* A Lua state that was cloned for a policy is closed once, by the thread  *)
(* that cloned it, also when the policies are cleared in between.  The     *)
(* state has its type.                                                     *)
(***************************************************************************)
LuaBalance ==
  /\ TypeOK
  /\ open = lost + (IF main_lua THEN 1 ELSE 0) + Cardinality({w \in Worker : lua[w]})

Marks(trigger) == {toupper(trigger[i]) : i \in DOMAIN trigger} \ {Sep}

(***************************************************************************)
(* get_policys compares what start(), the responses and the trigger        *)
(* functions have made of the strings: a url with a mark gets exactly the  *)
(* policies that share a mark with it, however the marks are written.      *)
(***************************************************************************)
ListedShareMark ==
  Running => \A w \in Worker :
    LET t == page[w].running_trigger
    IN  pc[w] = "list" /\ t # <<>> =>
          get_policys(t) = {p \in DOMAIN base_map : Marks(t) \cap Marks(m_triggle[p]) # {}}

(***************************************************************************)
(* A policy marked ONCE is listed for every page of text.  One marked      *)
(* DOMAIN is listed for the main url, also when the page is no text, and,  *)
(* unless it has another mark, for no other page of text.  The marks that  *)
(* the task was started with count for its main url only.                  *)
(***************************************************************************)
PagePolicies ==
  Running => \A w \in Worker, p \in DOMAIN base_map :
    LET M      == Marks(m_triggle[p])
        listed == p \in get_policys(page[w].running_trigger)
    IN  pc[w] = "list" =>
          /\ page[w].text /\ "ONCE" \in M => listed
          /\ page[w].main /\ "DOMAIN" \in M => listed
          /\ page[w].main /\ Marks(base_trigger) \cap M # {} => listed
          /\ page[w].text /\ ~page[w].main /\ listed => "ONCE" \in M

(***************************************************************************)
(* system.cpp:82: "stop task pool", before "clear policy": no thread of    *)
(* the pool uses the policies while they are cleared.                      *)
(***************************************************************************)
PoolStopped ==
  ctl \in {"clear_bases", "clear_map", "clear_origin", "done"} =>
    \A w \in Worker : pc[w] \notin {"list", "clone"}
=============================================================================
