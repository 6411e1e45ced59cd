------------------------------- MODULE Crawl -------------------------------
(***************************************************************************)
(* One crawl task: task_data::task_map (the url tables and their atomic    *)
(* counters) and the functions of task_work.cpp that the threads of the    *)
(* pool run on it.  A thread performs one access to shared state per step, *)
(* so every interleaving of the atomics is explored; a section under       *)
(* url_mutex or op_mutex is one step.  Pages, links and the outcome of a   *)
(* download are chosen by the environment.                                 *)
(***************************************************************************)
EXTENDS Integers, Sequences, FiniteSets

CONSTANTS
  Worker,            \* the threads of the pool
  Url,               \* formatted urls a page may link to
  MainUrl,           \* start_ptr->main_url
  Pages,             \* the sets of links a page may have
  running_url_max,   \* task_map::running_url_max, 30 in the code
  MaxPolicy,         \* most policies one trigger selects
  SizeT,             \* 2^32: std::atomic_size_t wraps at this value
  FaultBound         \* an insertion may run out of memory below this number

ASSUME CrawlAssumption ==
  /\ IsFiniteSet(Worker)
  /\ MainUrl \in Url
  /\ Pages \subseteq SUBSET Url
  /\ running_url_max \in Nat \ {0}
  /\ MaxPolicy \in Nat
  /\ SizeT \in Nat \ {0}
  /\ FaultBound \in Nat

VARIABLES
  next_no,           \* next number to give to a url
  next_work_no,      \* next number to hand to a worker
  finished_no,       \* the scan for the end of the task starts here
  running_url_count, \* urls handed out and not finished, a size_t
  url_no_map,        \* url -> number
  url_list,          \* number -> url; no_url_map always has the same content
  running_thread,    \* number -> task_url_struct::running_thread
  start_ptr,         \* task_map::start_ptr, "set" or "null"
  m_list,            \* how many entries task_map_list has for the task
  queue,             \* jobs waiting in the thread pool
  start_pc,          \* where the thread that runs task_work::start is
  pc,                \* where each worker is
  job,               \* the function each worker runs
  no,                \* url_no, the url a worker works on
  i,                 \* the loop variable of test_task_finished_quit
  links,             \* links of the page still to be inserted
  n                  \* a value a worker has loaded or counts down

counters == <<next_no, next_work_no, finished_no, running_url_count>>
tables   == <<url_no_map, url_list, running_thread>>
task     == <<start_ptr, m_list>>
locals   == <<job, no, i, links, n>>
vars     == <<counters, tables, task, queue, start_pc, pc, locals>>

Pull        == [f |-> "pull_and_download_url", no |-> 0]
RunPolicy(m) == [f |-> "run_policy_name", no |-> m]

\* size_t arithmetic, and the conversion of a size_t to int.
Wrap(x)  == x % SizeT
ToInt(x) == IF x < SizeT \div 2 THEN x ELSE x - SizeT

Goto(w, l)     == pc' = [pc EXCEPT ![w] = l]
Step(w, l, l2) == pc[w] = l /\ Goto(w, l2)
Load(w, x)     == n' = [n EXCEPT ![w] = x]

\* The job is done, and its local variables with it.
Return(w) ==
  /\ Goto(w, "idle")
  /\ job' = [job EXCEPT ![w] = "none"]
  /\ no' = [no EXCEPT ![w] = 0]
  /\ i' = [i EXCEPT ![w] = 0]
  /\ n' = [n EXCEPT ![w] = 0]
  /\ UNCHANGED links

Init ==
  /\ next_no = 0 /\ next_work_no = 0 /\ finished_no = 0
  /\ running_url_count = 0
  /\ url_no_map = [u \in {} |-> 0]
  /\ url_list = [m \in {} |-> MainUrl]
  /\ running_thread = [m \in {} |-> 0]
  /\ start_ptr = "set" /\ m_list = 0
  /\ queue = <<>>
  /\ start_pc = "insert_new"
  /\ pc = [w \in Worker |-> "idle"]
  /\ job = [w \in Worker |-> "none"]
  /\ no = [w \in Worker |-> 0]
  /\ i = [w \in Worker |-> 0]
  /\ links = [w \in Worker |-> {}]
  /\ n = [w \in Worker |-> 0]

\* Plausible bug: a url that is already known is entered again.
InsertNewUrlTwice(u) ==
  /\ next_no' = next_no + 1
  /\ url_no_map' = [v \in DOMAIN url_no_map \cup {u} |->
                      IF v = u THEN next_no ELSE url_no_map[v]]
  /\ url_list' = [m \in DOMAIN url_list \cup {next_no} |->
                    IF m = next_no THEN u ELSE url_list[m]]
  /\ running_thread' = [m \in DOMAIN url_list \cup {next_no} |->
                    IF m = next_no THEN -2 ELSE running_thread[m]]
  /\ UNCHANGED <<next_work_no, finished_no, running_url_count>>

(***************************************************************************)
(* task_map::insert_new_url.  The number is consumed in every case: a url  *)
(* that is already known leaves a gap, and so does a failed insertion,     *)
(* whose handler also erases the url from url_no_map, known or not.        *)
(***************************************************************************)
InsertNewUrl(u) ==
  /\ next_no' = next_no + 1
  /\ IF u \in DOMAIN url_no_map
     THEN UNCHANGED tables
     ELSE /\ url_no_map' = [v \in DOMAIN url_no_map \cup {u} |->
                              IF v = u THEN next_no ELSE url_no_map[v]]
          /\ url_list' = [m \in DOMAIN url_list \cup {next_no} |->
                            IF m = next_no THEN u ELSE url_list[m]]
          /\ running_thread' = [m \in DOMAIN url_list \cup {next_no} |->
                            IF m = next_no THEN -2 ELSE running_thread[m]]
  /\ UNCHANGED <<next_work_no, finished_no, running_url_count>>

InsertNewUrlFails(u) ==
  /\ next_no < FaultBound
  /\ next_no' = next_no + 1
  /\ url_no_map' = [v \in DOMAIN url_no_map \ {u} |-> url_no_map[v]]
  /\ UNCHANGED <<url_list, running_thread>>
  /\ UNCHANGED <<next_work_no, finished_no, running_url_count>>

(***************************************************************************)
(* task_work::start, run once by its own thread.                           *)
(***************************************************************************)
StartInsertNew ==
  /\ start_pc = "insert_new" /\ start_pc' = "check_main"
  /\ m_list' = m_list + 1
  /\ UNCHANGED <<counters, tables, start_ptr, queue, pc, locals>>

\* The main page cannot be downloaded, or parsed, or has no link: op_err(2..4).
StartCheckMain ==
  /\ start_pc = "check_main" /\ start_pc' \in {"insert_main", "failed"}
  /\ UNCHANGED <<counters, tables, task, queue, pc, locals>>

StartInsertMain ==
  /\ start_pc = "insert_main"
  /\ \/ InsertNewUrl(MainUrl) /\ start_pc' = "push"
     \/ InsertNewUrlFails(MainUrl) /\ start_pc' = "failed"
  /\ UNCHANGED <<task, queue, pc, locals>>

\* push_into_thread_pool refuses the job when the pool does not run: op_err(6).
StartPush ==
  /\ start_pc = "push"
  /\ \/ start_pc' = "success" /\ queue' = Append(queue, Pull)
     \/ start_pc' = "failed" /\ UNCHANGED queue
  /\ UNCHANGED <<counters, tables, task, pc, locals>>

(***************************************************************************)
(* A pool thread takes the next job.  run_policy_name looks its url up,    *)
(* runs the policy, and goes on to finished_one_url whether or not the     *)
(* policy could be cloned.                                                 *)
(***************************************************************************)
TakePull(w) ==
  /\ Step(w, "idle", "fresh")
  /\ queue # <<>> /\ Head(queue) = Pull /\ queue' = Tail(queue)
  /\ job' = [job EXCEPT ![w] = "pull"]
  /\ UNCHANGED <<counters, tables, task, start_pc, no, i, links, n>>

TakePolicy(w) ==
  /\ pc[w] = "idle"
  /\ queue # <<>> /\ Head(queue) # Pull /\ queue' = Tail(queue)
  /\ IF Head(queue).no \in DOMAIN url_list
     THEN /\ Goto(w, "finish")
          /\ job' = [job EXCEPT ![w] = "policy"]
          /\ no' = [no EXCEPT ![w] = Head(queue).no]
          /\ UNCHANGED <<i, links, n>>
     ELSE Return(w)
  /\ UNCHANGED <<counters, tables, task, start_pc>>

(***************************************************************************)
(* task_map::fresh_one_url: two loads compared, the limit, then the loop   *)
(* that tests, takes a number, and looks it up.                            *)
(***************************************************************************)
FreshLoadNext(w) ==
  /\ Step(w, "fresh", "fresh_empty")
  /\ Load(w, next_no)
  /\ UNCHANGED <<counters, tables, task, queue, start_pc, job, no, i, links>>

FreshEmpty(w) ==
  /\ pc[w] = "fresh_empty"
  /\ IF n[w] <= next_work_no THEN Return(w)
     ELSE /\ Goto(w, "fresh_limit") /\ Load(w, 0)
          /\ UNCHANGED <<job, no, i, links>>
  /\ UNCHANGED <<counters, tables, task, queue, start_pc>>

FreshLimit(w) ==
  /\ pc[w] = "fresh_limit"
  /\ IF running_url_count >= running_url_max THEN Return(w)
     ELSE Goto(w, "fresh_loop") /\ UNCHANGED locals
  /\ UNCHANGED <<counters, tables, task, queue, start_pc>>

FreshLoopLoad(w) ==
  /\ Step(w, "fresh_loop", "fresh_test")
  /\ Load(w, next_work_no)
  /\ UNCHANGED <<counters, tables, task, queue, start_pc, job, no, i, links>>

FreshLoopTest(w) ==
  /\ pc[w] = "fresh_test"
  /\ IF n[w] < next_no
     THEN Goto(w, "fresh_take") /\ Load(w, 0) /\ UNCHANGED <<job, no, i, links>>
     ELSE Return(w)
  /\ UNCHANGED <<counters, tables, task, queue, start_pc>>

\* Plausible bug: next_work_no is no atomic, and an increment may be lost.
FreshTakeLost(w) ==
  /\ Step(w, "fresh_take", "fresh_get")
  /\ no' = [no EXCEPT ![w] = next_work_no]
  /\ next_work_no' \in {next_work_no, next_work_no + 1}
  /\ UNCHANGED <<next_no, finished_no, running_url_count, tables, task, queue,
                 start_pc, job, i, links, n>>

FreshTake(w) ==
  /\ Step(w, "fresh_take", "fresh_get")
  /\ no' = [no EXCEPT ![w] = next_work_no]
  /\ next_work_no' = next_work_no + 1
  /\ UNCHANGED <<next_no, finished_no, running_url_count, tables, task, queue,
                 start_pc, job, i, links, n>>

FreshGet(w) ==
  /\ pc[w] = "fresh_get"
  /\ Goto(w, IF no[w] \in DOMAIN url_list /\ running_thread[no[w]] = -2
             THEN "fresh_count" ELSE "fresh_loop")
  /\ UNCHANGED <<counters, tables, task, queue, start_pc, locals>>

FreshCount(w) ==
  /\ Step(w, "fresh_count", "download")
  /\ running_url_count' = Wrap(running_url_count + 1)
  /\ UNCHANGED <<next_no, next_work_no, finished_no, tables, task, queue,
                 start_pc, locals>>

(***************************************************************************)
(* pull_and_download_url after it got a url.  The download dereferences    *)
(* map_ptr->start_ptr.                                                     *)
(***************************************************************************)
DownloadFails(w) ==
  /\ Step(w, "download", "finish")
  /\ UNCHANGED <<counters, tables, task, queue, start_pc, locals>>

Download(w) ==
  /\ Step(w, "download", "crawl")
  /\ \E S \in Pages : links' = [links EXCEPT ![w] = S]
  /\ UNCHANGED <<counters, tables, task, queue, start_pc, job, no, i, n>>

InsertLink(w) ==
  /\ pc[w] = "crawl"
  /\ \E u \in links[w] :
       /\ links' = [links EXCEPT ![w] = @ \ {u}]
       /\ InsertNewUrl(u) \/ InsertNewUrlFails(u)
  /\ UNCHANGED <<task, queue, start_pc, pc, job, no, i, n>>

\* Plausible bug: the downloading thread itself is not counted.
GetPolicysOneLess(w) ==
  /\ pc[w] = "crawl" /\ links[w] = {}
  /\ \E k \in 0 .. MaxPolicy :
       /\ Load(w, k)
       /\ Goto(w, IF k = 0 THEN "finish" ELSE "push_policy")
       /\ running_thread' = IF k = 0 THEN running_thread
                            ELSE [running_thread EXCEPT ![no[w]] = k]
  /\ UNCHANGED <<counters, url_no_map, url_list, task, queue, start_pc,
                 job, no, i, links>>

\* get_policys: no policy leaves the loop; otherwise running_thread is set.
GetPolicys(w) ==
  /\ pc[w] = "crawl" /\ links[w] = {}
  /\ \E k \in 0 .. MaxPolicy :
       /\ Load(w, k)
       /\ Goto(w, IF k = 0 THEN "finish" ELSE "push_policy")
       /\ running_thread' = IF k = 0 THEN running_thread
                            ELSE [running_thread EXCEPT ![no[w]] = k + 1]
  /\ UNCHANGED <<counters, url_no_map, url_list, task, queue, start_pc,
                 job, no, i, links>>

PushPolicy(w) ==
  /\ pc[w] = "push_policy"
  /\ queue' = Append(queue, RunPolicy(no[w]))
  /\ Load(w, n[w] - 1)
  /\ Goto(w, IF n[w] = 1 THEN "finish" ELSE "push_policy")
  /\ UNCHANGED <<counters, tables, task, start_pc, job, no, i, links>>

(***************************************************************************)
(* task_map::finished_one_url: the decrement, the store of -1 and the      *)
(* reload of running_thread are three accesses.                            *)
(***************************************************************************)
Finished(w) ==
  IF job[w] = "pull"
  THEN /\ Goto(w, "remain")
       /\ no' = [no EXCEPT ![w] = 0] /\ i' = [i EXCEPT ![w] = 0]
       /\ UNCHANGED <<job, links, n>>
  ELSE Return(w)

FinishDecrement(w) ==
  /\ pc[w] = "finish"
  /\ running_thread' = [running_thread EXCEPT ![no[w]] = @ - 1]
  /\ Goto(w, IF running_thread[no[w]] - 1 <= 0 THEN "finish_store" ELSE "finish_load")
  /\ UNCHANGED <<counters, url_no_map, url_list, task, queue, start_pc, locals>>

FinishStore(w) ==
  /\ Step(w, "finish_store", "finish_load")
  /\ running_thread' = [running_thread EXCEPT ![no[w]] = -1]
  /\ UNCHANGED <<counters, url_no_map, url_list, task, queue, start_pc, locals>>

FinishLoad(w) ==
  /\ pc[w] = "finish_load"
  /\ IF running_thread[no[w]] = -1
     THEN Goto(w, "finish_count") /\ UNCHANGED locals
     ELSE Finished(w)
  /\ UNCHANGED <<counters, tables, task, queue, start_pc>>

FinishCount(w) ==
  /\ Step(w, "finish_count", "quit")
  /\ running_url_count' = Wrap(running_url_count - 1)
  /\ UNCHANGED <<next_no, next_work_no, finished_no, tables, task, queue,
                 start_pc, locals>>

(***************************************************************************)
(* task_map::test_task_finished_quit and task_map_list::finished_one.      *)
(***************************************************************************)
QuitStart(w) ==
  /\ Step(w, "quit", "quit_test")
  /\ i' = [i EXCEPT ![w] = finished_no]
  /\ UNCHANGED <<counters, tables, task, queue, start_pc, job, no, links, n>>

\* Plausible bug: the scan leaves the last number out.
QuitTestOffByOne(w) ==
  /\ pc[w] = "quit_test"
  /\ Goto(w, IF i[w] + 1 < next_no THEN "quit_get" ELSE "finished_one")
  /\ UNCHANGED <<counters, tables, task, queue, start_pc, locals>>

QuitTest(w) ==
  /\ pc[w] = "quit_test"
  /\ Goto(w, IF i[w] < next_no THEN "quit_get" ELSE "finished_one")
  /\ UNCHANGED <<counters, tables, task, queue, start_pc, locals>>

\* Plausible bug: only a url whose policies run stops the scan.
QuitGetRunningOnly(w) ==
  /\ pc[w] = "quit_get"
  /\ IF i[w] \in DOMAIN url_list /\ running_thread[i[w]] > 0
     THEN Finished(w)
     ELSE /\ Goto(w, IF i[w] \in DOMAIN url_list /\ i[w] > finished_no
                     THEN "quit_store" ELSE "quit_next")
          /\ UNCHANGED locals
  /\ UNCHANGED <<counters, tables, task, queue, start_pc>>

QuitGet(w) ==
  /\ pc[w] = "quit_get"
  /\ IF i[w] \in DOMAIN url_list /\ running_thread[i[w]] # -1
     THEN Finished(w)
     ELSE /\ Goto(w, IF i[w] \in DOMAIN url_list /\ i[w] > finished_no
                     THEN "quit_store" ELSE "quit_next")
          /\ UNCHANGED locals
  /\ UNCHANGED <<counters, tables, task, queue, start_pc>>

QuitStore(w) ==
  /\ Step(w, "quit_store", "quit_next")
  /\ finished_no' = i[w]
  /\ UNCHANGED <<next_no, next_work_no, running_url_count, tables, task, queue,
                 start_pc, locals>>

QuitNext(w) ==
  /\ Step(w, "quit_next", "quit_test")
  /\ i' = [i EXCEPT ![w] = @ + 1]
  /\ UNCHANGED <<counters, tables, task, queue, start_pc, job, no, links, n>>

FinishedOne(w) ==
  /\ pc[w] = "finished_one" /\ Finished(w)
  /\ IF m_list > 0 THEN start_ptr' = "null" /\ m_list' = m_list - 1
     ELSE UNCHANGED task
  /\ UNCHANGED <<counters, tables, queue, start_pc>>

(***************************************************************************)
(* pull_and_download_url ends: url_list_remain, three loads in int          *)
(* arithmetic, then that many new pull jobs.                               *)
(***************************************************************************)
RemainLoadNext(w) ==
  /\ Step(w, "remain", "remain_work")
  /\ Load(w, next_no)
  /\ UNCHANGED <<counters, tables, task, queue, start_pc, job, no, i, links>>

\* Plausible bug: one url too few is counted as waiting.
RemainLoadWorkOneLess(w) ==
  /\ Step(w, "remain_work", "remain_count")
  /\ Load(w, ToInt(Wrap(n[w] - next_work_no - 1)))
  /\ UNCHANGED <<counters, tables, task, queue, start_pc, job, no, i, links>>

RemainLoadWork(w) ==
  /\ Step(w, "remain_work", "remain_count")
  /\ Load(w, ToInt(Wrap(n[w] - next_work_no)))
  /\ UNCHANGED <<counters, tables, task, queue, start_pc, job, no, i, links>>

RemainLoadCount(w) ==
  /\ Step(w, "remain_count", "push_pull")
  /\ LET n1 == ToInt(Wrap(running_url_max - running_url_count))
     IN  Load(w, IF n1 < n[w] THEN n1 ELSE n[w])
  /\ UNCHANGED <<counters, tables, task, queue, start_pc, job, no, i, links>>

PushPull(w) ==
  /\ pc[w] = "push_pull"
  /\ IF n[w] > 0
     THEN queue' = Append(queue, Pull) /\ Load(w, n[w] - 1)
          /\ UNCHANGED <<pc, job, no, i, links>>
     ELSE Return(w) /\ UNCHANGED queue
  /\ UNCHANGED <<counters, tables, task, start_pc>>

-----------------------------------------------------------------------------
Start == StartInsertNew \/ StartCheckMain \/ StartInsertMain \/ StartPush

Fresh(w) ==
  \/ FreshLoadNext(w) \/ FreshEmpty(w) \/ FreshLimit(w) \/ FreshLoopLoad(w)
  \/ FreshLoopTest(w) \/ FreshTake(w) \/ FreshGet(w) \/ FreshCount(w)

Crawling(w) ==
  \/ DownloadFails(w) \/ Download(w) \/ InsertLink(w)
  \/ GetPolicys(w) \/ PushPolicy(w)

Finish(w) ==
  \/ FinishDecrement(w) \/ FinishStore(w) \/ FinishLoad(w) \/ FinishCount(w)

Quit(w) ==
  \/ QuitStart(w) \/ QuitTest(w) \/ QuitGet(w) \/ QuitStore(w)
  \/ QuitNext(w) \/ FinishedOne(w)

Remain(w) ==
  \/ RemainLoadNext(w) \/ RemainLoadWork(w) \/ RemainLoadCount(w) \/ PushPull(w)

WorkerStep(w) ==
  \/ TakePull(w) \/ TakePolicy(w) \/ Fresh(w) \/ Crawling(w)
  \/ Finish(w) \/ Quit(w) \/ Remain(w)

Next == Start \/ \E w \in Worker : WorkerStep(w)

Spec == Init /\ [][Next]_vars

\* Every thread that can take a step is scheduled, and the calls return.
FairSpec == Spec /\ WF_vars(Start) /\ \A w \in Worker : WF_vars(WorkerStep(w))
=============================================================================
