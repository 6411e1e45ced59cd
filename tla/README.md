# A TLA+ model of the web scanner

The program under `src/scaner_test`, with `src/http` and `src/socket`, crawls a
site: it downloads a page, inserts the links it finds into the tables of the
task, runs Lua policies on the page, and ends the task when every url is done.
All of this runs on a pool of 150 threads that share tables, atomic counters
and a queue. Every one of these threads allocates through the vendored tcmalloc,
and runs its policies in states of the vendored Lua. This directory holds TLA+
models of the concurrent core, of Lua's garbage collector and of tcmalloc, TLC
configurations for small instances, and TLAPS proofs.

`PROJECT.json` lists the components, the runs, the source lines each definition
stands for, the hazards and the theorems.

## 1. The system

| Part | Code | State | Operations |
|---|---|---|---|
| Crawl task | `task_data`, `task_work` | `url_no_map`, `url_list`, each url's `running_thread`; `next_no`, `next_work_no`, `finished_no`, `running_url_count`; `start_ptr` | `task_work::start`, `pull_and_download_url`, `run_policy_name`; `insert_new_url`, `fresh_one_url`, `finished_one_url`, `test_task_finished_quit`, `url_list_remain` |
| Task list | `task_map_list` in `task_data` | `m_list` under `op_mutex` | `insert_new`, `finished_one` |
| Thread pool | `thread_pool`, `thread_work_queue.h` | `work_queue_thread`, `running_count`, `deque_content`, the condition | `start`, `stop`, `push`, `thread_run` |
| Downloader | `src/http/http.hpp` | `socket_ptr_`, `buffer_recv_`, the wait condition | `download` and the handlers for connect, send and recv |
| Response parsing | `http_tools.cpp` | none | `http_reponse_check`, `http_reponse_completed` |
| I/O services | `src/socket/iocp_server.cpp` | `next_io_service_`, the services | `get_io_service`, `run`, `stop` |
| Policies | `policy_base`, `policy_work` | `origin_base`, `base_map`, Lua states | `init`, `get_policys`, `clone_policy`, `call_function`, `free_policy`, `clear` |
| Program | `system.cpp` | which of the above runs | `system_api::run` |
| Lua collector | `lgc.c`, `lstring.c`, part of `lapi.c` | colours, gray lists, `allgc`, `finobj`, `tobefnz`, the string table | `singlestep`, `luaC_fullgc`, generational mode, barriers, finalizers |
| Page heap | tcmalloc `page_heap.cc`, callers in `tcmalloc.cc` | spans, page map, free lists, size class cache | `New`, `Delete`, `Split`, release, growth |
| Small objects | tcmalloc `thread_cache.cc`, `central_freelist.cc` | thread caches, transfer caches, spans of a class | `Allocate`, `Deallocate`, `InsertRange`, `RemoveRange` |

**How they interact.** `system_api::run` loads the policies, starts the pool and
runs the I/O services; a signal stops these, and when they return it stops the pool
and clears the policies. `task_work::start` enters a task into the list and pushes a first pull
job. A pull job takes a url, downloads it (blocking a pool thread while handlers
run on a service's thread), inserts the links, pushes one job per policy and,
at its end, as many pull jobs as `url_list_remain` says. Whoever finishes a url
scans for the end of the task and removes it from the list.

A policy runs in a Lua state of its own, whose collector takes steps between the
calls of the script. The scanner links `libtcmalloc_minimal`
(`scaner_test.vcxproj`): a small object comes from the cache of the thread, the cache
takes and returns batches at the central free list of the size class, and the
central list takes and returns spans at the page heap.

**What makes it hard.**

- The counters of a task are atomics read and written one by one: two tests and
  an increment in `fresh_one_url`, a decrement, a store and a reload in
  `finished_one_url`, three loads in `url_list_remain`.
- The scan for the end of a task races with insertions, and clears `start_ptr`,
  which every download dereferences without a test.
- Nothing but pull jobs drives a task. If they run out it stands still.
- Condition variables are used without a predicate and with mutexes that the
  notifier does not take, in the pool and in the downloader.
- `stop()` of the pool interrupts threads and does not join them.
- A response may be cut into segments anywhere, and the parser works with
  iterator arithmetic on what has arrived.
- The collector of Lua stops anywhere in a cycle and lets the program change the
  graph it is marking and the lists it is sweeping.
- tcmalloc drops the lock of a size class half-way through a list, reads a cache
  without any lock, and moves limits between threads that come and go.

## 2. Modules

| Module | Models |
|---|---|
| `Crawl` | one task and the jobs of the pool that work on it, one shared access per step |
| `CrawlProps` | its properties, its refinement mapping and its inductive invariants |
| `CrawlTask` | what a task promises: abstract specification of `Crawl` |
| `CrawlProofs`, `CrawlTaskProofs` | the theorems about `Crawl`: the hand-out of urls and `start_ptr`; then the counts, the end of the task and the refinement |
| `TaskList` | several tasks in `task_map_list`; the crawl of each is one phase |
| `ThreadPool` | threads, clients and the controlling thread of the pool |
| `JobQueue` | what the pool promises: abstract specification of `ThreadPool` |
| `ThreadPoolProofs` | the theorems about `ThreadPool` |
| `HttpResponse` | the two parsing functions, as operators on sequences of items |
| `Downloader` | one blocking download; it calls `HttpResponse` on what has arrived |
| `IoPool` | the choice of an `io_service` |
| `IoServices` | run and stop of the services |
| `SystemRun` | `PolicyServer` and `IoServices` composed, as `system_api::run` does |
| `UrlTools` | the url functions of `http_tools`, as operators on sequences of tokens; used by `TaskList` |
| `TaskListProofs` | the theorems about `TaskList` and the url functions |
| `PolicyServer` | the policies from `init` to `clear`, with the threads that use them |
| `Trigger` | the trigger functions, as operators on sequences of marks; used by `PolicyServer` |
| `PolicyServerProofs` | the theorems about `SystemRun` |
| `LuaHeap` | objects, colours and gray lists, and the marking functions of `lgc.c` as operators |
| `LuaGC` | the collector as a state machine, with the program between its steps |
| `LuaProps` | its properties |
| `PageHeap` | the page heap, its callers and the size class cache |
| `PageAlloc` | what the page heap promises: abstract specification of `PageHeap` |
| `PageHeapProps` | the properties of the page heap and its refinement mapping |
| `ThreadCache` | the caches of the threads, and the limits they share |
| `CentralFreeList` | the central lists and their locks, composed with `ThreadCache` |
| `MallocProps` | the properties of the composition |
| `MallocProofs` | the theorem about its locks, and what each step does to the place of an object |
| `MallocOwnerProofs` | the theorems about the owners of objects and about spans |
| `MCCrawl`, `MCDownloader`, `MCTaskList`, `MCPolicyServer` | symmetry, responses, urls and trigger strings for TLC |
| `MCLua`, `MCPageHeap`, `MCMalloc` | table modes, flags and platforms, size classes for TLC |

`JobQueue` is the seam between the pool and the task: `ThreadPool` is shown to
implement it, and `Crawl` takes jobs from a sequence in the same way. `Crawl`
looks at a pool that runs: its `push` succeeds, except for the first one, whose
refusal `task_work::start` handles. What `stop()` does to threads and policies is
the subject of `ThreadPool` and `SystemRun`.

### Crawl

The variables carry the names of the members of `task_map`; `pc`, `job`, `no`,
`i`, `links` and `n` are the locals of each pool thread. A section under
`url_mutex` or `op_mutex` is one step, and every load, store or increment of an
atomic outside a lock is a step of its own. `std::atomic_size_t` wraps at
`SizeT`, and `url_list_remain` converts to `int` as the code does. Pages are sets
of links, chosen when the download succeeds. A policy is a job that ends with
`finished_one_url`; what it does to the page is not shown. An insertion may run
out of memory while `next_no < FaultBound`, and then erases the url's entry as
the handler in the code does. Some steps join accesses that the code makes one after
the other: `QuitGet` the lookup of a url, the load of its `running_thread` and the next
load of `finished_no`; `FreshGet` the lookup and the load; and `InsertLink` inserts the
links of a page one by one, but the set of links is fixed when the page arrives.

### ThreadPool

`thread_run` is split at every access: the test of `is_running`, the pull, the
notification of a second thread, the wait, the two updates of `running_count`.
The mutex of the wait is a local of `thread_run`, so a notification may come
before the wait. Interruption is a request that a wait, or a job that waits,
notices. `system_api::run` may run again (`bReset`), with threads of the last
round still alive. A thread is named by its round and its place in the list.
`PullNotify` joins the test that the queue is not empty and the notification; one that
comes late has the effect of a spurious wake-up, which is a step of the model.

### Downloader and HttpResponse

A response is a sequence of items: a head, its end, then bytes. A head is known by
its status and its framing: by length (0 or 2), by chunks, or by the end of the
connection. The map of head lines that `http_reponse_check` carries from an interim
response into the next one is kept.
`HandleRecv` takes 1 to `HTTP_ONE_PACKET_SIZE` items and looks for the end of the
response only in a segment shorter than that, as the code does (`full`). Where the
code's iterator passes the end of what has arrived (undefined behaviour), the
handler either goes on receiving or the program ends.

### IoPool, IoServices, TaskList, PolicyServer, SystemRun

`IoPool` divides `get_io_service` into its accesses. `TaskList` looks a
task up by its union id, the first match in the list; it makes the id from the
main url and the date with the operators of `UrlTools`. A url is a sequence of
tokens (the delimiters, and words); `site` keeps the parts it was written from.

`PolicyServer` follows `system_api::run` through start and stop, lets every load,
clone and call of a script succeed or fail, and counts the Lua states that are
open. The first url taken is the main url; its trigger is that of the task with
"domain" added, every text response adds "once", and `get_policys` compares the
result, with the operators of `Trigger`, with what each script carries. A worker that
uses the server after `clear()` has begun ends the program (`UseAfterClear`).

`IoServices` has the loops of `run()` and `stop()` as one step per service. `SystemRun`
joins it to `PolicyServer`: the program serves while `run()` creates and joins the
threads of the services, a signal is handled on the first service's thread and stops all
of them, and `system_api::run` then stops the pool, the services again and the policies,
while threads of the pool go on.

### LuaHeap and LuaGC

`entries` is what an object refers to, `color` its mark bits, `gl` the gray lists.
The two whites of the code are "white" (the current one) and "dead" (the other one):
the flip at the end of `atomic` renames them. The lists `allgc`, `finobj`, `tobefnz`
and the string table are sequences, because the order decides what a sweep that stops
in the middle, or at an old object, has seen. Every branch of `singlestep` is an
action. `atomic`, during which the program waits, is taken in two halves with the
objects of `markbeingfnz` one by one between them; the fixpoint that its propagating
loops reach is an operator (`MarkedAll`). In a step of the incremental propagation any
gray object may be next. Between two steps of the collector, and inside finalizers, the
program creates objects, reads, stores, removes, pops, interns strings, sets
finalizers, changes the mode, asks for full or emergency collections and closes the
state, each with the barrier of that API call. `luaC_freeallobjects` makes every object
with a finalizer due; the finalizers run, and may use the API, before
`sweepwholelists` frees all. Where `entersweep` looks for a live object to start from,
the model allows any start that the code could find. A sweep that must run to its end before
the program goes on is one step.

### PageHeap and PageAlloc

All methods of `PageHeap` run under `pageheap_lock`, so each call is one step; it is
an operator from heap to heap, and one that asks the system for memory gives the set
of its outcomes. The page map keeps the stale entries that the code leaves. What runs
without the lock, `Populate`'s writes to the size class cache and `do_free`'s reads
of it, are steps of their own. `GrowHeap` leaves out the limit `kMaxValidPages`, which
no instance comes near, and the descriptor of a deleted span is never mergeable.
The heap starts with one of four configurations:
Linux with and without a heap limit, without releasing, and Windows, whose
`TCMalloc_SystemRelease` always fails.

### ThreadCache and CentralFreeList

A stretch of code that holds the lock of a class from end to end is one step. A
thread that keeps it over several (`ReleaseListToSpans`) owns it in `lock`, and gives
it up where the code does. A thread's work on its own cache, which nobody else
touches but for the limits, belongs to the step that makes or ends a call. The lists
of objects are sets: no property depends on their order. The class that
`EvictRandomSizeClass` looks at is any other one. `CentralFreeList` uses the page
heap as `PageAlloc` promises, and `PageHeap` is shown to implement that: the two runs
meet in that module, and no lock of a class is held where `pageheap_lock` is taken.

## 3. Runs

### Runs that pass

**`crawl`** (2 workers, 3 urls, at most 2 urls at a time, at most 1 policy per page).

- `StartPtrAlive`: a worker with a fresh url finds `start_ptr` set.
- `HandedOutOnce`: one number, one worker.
- `NoDuplicateUrl`: the two tables are inverse to each other.
- `FinishedMeansDone`: a removed task has no unfinished url, no policy waiting
  and nobody in the middle of one.
- `RunningThreadCounts`: while policies run, `running_thread` is the number of
  `finished_one_url` calls still to come, in the queue and in the threads.
- `ImplementsTask`: the crawl refines `CrawlTask`: a url is taken and completed
  once, a link is found only while some url is in work, the task ends once and
  only when all known urls are complete, so -1 is never left again.
- `TaskInv`, the inductive invariant of the proofs, with type correctness as its first
  conjunct, is checked here before it is proved.

In the other modules the type invariant `TypeOK` is a conjunct of one of the properties.

Two workers and three urls are the least with which one worker scans for the
end while the other inserts, and with which a page repeats a known link (the
gap in the numbers that the scan and `fresh_one_url` must skip). The bound
`running_url_max = 2` makes the limit bind. The workers are symmetric.

**`crawl_one_worker`** (liveness, 1 worker, 3 urls, `running_url_max = 3`, up to
2 policies, memory errors while fewer than 3 numbers are used; `crawl` has none
of these). `EventuallyFinished`: a task that started
leaves the list. Fairness: each thread that can step is scheduled, and downloads
and policies return. The property needs the single worker (see
`crawl_nothing_new`) and no more urls than `running_url_max` (see section 5).

**`thread_pool`** (4 threads, 2 per round, 2 rounds, 1 client, 2 jobs).

- `ImplementsQueue`: jobs are taken in order, once, and discarded by `stop()` only.
- `PoolFull`: no thread of the current round has left or is asked to leave.
- `RunningCountExact`: until the first stop the counter is the number of running jobs.
- `AwakeThreadDrains`: while a thread of the pool is awake, a waiting job is
  reached (or the pool stops).
- `StopEndsThreads`: after the last stop every thread ends.

Two rounds of two threads let a busy thread of the first round meet the second
round's list. Fairness is on each thread and on a `stop()` that has begun; nobody
has to push or to stop. A job that never returns is outside this assumption.

**`downloader`** (segments of up to 3 items, bodies of up to 2 bytes in every
framing and every division into chunks, with and without an interim 100).

- `WokenWithResponse`: a caller woken by a handler is alone with the buffer and
  has the whole body, unless the connection failed or was closed.
- `ReturnsUnclosed`: a download of a response with a length or in chunks returns although
  the server keeps the connection open, unless its last segment has exactly the packet
  size, which the code does not look at (or the caller came too late, or a 100 came first).
- `BodyExact`: the parsed body is the data sent (chunks, or ended by closing).
- `WaitingReturns`: a caller that waits before the notification returns, if the server
  closes in the end.

A segment of 3 items may end in every part of a chunk, and a body byte may be a
newline, which the search for the next message looks for. Fairness: the
caller and the handlers make progress, so all that the server has to send arrives. The
server need not close: only `WaitingReturns` assumes it, since the code has no timeout
and a response without a framing ends in no other way.

**`task_list`** (3 tasks, 5 urls on 2 hosts, 2 days; the tasks are symmetric).

- `OwnFinish`: a task whose id is its own is removed exactly by its own end.
- `ListedHasStart`: a task is in the list once, exactly while it has been inserted and
  its `start_ptr` is set.
- `UrlParsed`: `format_url` and `get_url_info` find the parts that the url was
  written from, with the defaults for the missing ones (the default port being what
  `get_port_by_protocal` gives).
- `AddressIsHost`: the address from `get_domain` and `get_port` is the host that
  `get_package` names, for the main url and for the page expected to be missing.
- `UnionIdIsSite`: tasks share an id exactly when host and day agree.

Between them the urls lack and have each part, and their parameters hold each
delimiter. Three tasks allow two with one id beside one with its own.

**`policy_server`** (2 plugins with 4 possible triggers, 2 workers, 2 urls, 2 services).

- `StopEndsProgram`: a signal, also one that comes while `run()` still creates threads,
  and a listen that fails end the program.
- `PoliciesReady`: while the program serves, each entry has a loaded base and
  each job finds its policy.
- `LuaBalance`: every cloned Lua state is closed once.
- `ListedShareMark`: a url with a mark gets exactly the policies that share one.
- `PagePolicies`: which policies a page gets, told from what kind of page it is.

The first of the two urls is the main url, the other is not; the triggers have
marks in both cases, empty parts and no mark. Fairness is on the steps of
`system_api::run` after a stop and on the threads of the services, which the system
schedules; nobody has to send a signal, and no thread of the pool has to get on.

**`lua_gc`** (a strong, a weak-keyed and a weak-valued table, of which one exists at a time
with one entry, a userdata with a finalizer, a string, a stack of 2 values,
sweeps of 1 object, both modes).

- `NoDangling`: nothing that the program can reach, and nothing that a reachable weak
  table still mentions, is freed. Reachability is defined from the manual's rules for
  weak and ephemeron tables, and not from the colours.
- `ColorInvariants`: what `lgc.h` says of the colours: black never refers to white, gray
  is exactly what one gray list links; and each object is linked once.
- `OldSuffix`: in generational mode the old objects end each list, so a sweep may
  stop at the first one.
- `FinalizedOnce`: a finalizer is called once, for an object that is still there.
- `FinalizersCalled`: an object with a finalizer leaves the collector's lists only by the
  call of it, also when `lua_close` finds it in use. A finalizer that `lua_close` calls
  may register an object, which is freed without its finalizer.

One table suffices for a cycle through itself, for an edge to the userdata or to the
string and for a store behind the collector's back; it is any of the three modes, and
may be freed and made again in another. A sweep of one object stops at every place. The
one object that has a finalizer is a userdata, so the finalizers that `lua_close` calls
are not nested. With `CollectsAtClose = FALSE` they call the API, and no `lua_gc`. With a
table that is weak in both the properties also hold with `CollectsAtClose = TRUE`
(3,475,918 states, 10 minutes), which is more than a run should take.

**`page_heap`** (4 pages, lists for lengths 1 and 2 or more, 2 size classes, requests
of up to 3 pages, alignment 2, one entry in the size class cache).

- `SpansSound`: the spans tile the memory, free neighbours of one kind are coalesced,
  lists and statistics say exactly which spans are free.
- `LookupsRight`: the page map leads from both ends of a span, and from its outer
  neighbours, to the right span, whatever stale entries are inside; the size class
  cache is silent or right for every page where an object can be freed.
- `ServesWithinLimit`: the heap stays within its limit, and `New` neither fails nor asks
  the system while a span would do, nor fails after the heap has grown.
- `KeepsPromise`: the page heap implements `PageAlloc`.

On four pages a span has free and used neighbours on both sides, the search falls
through to the long list, and spans of a class of 3 pages have a page inside. The one
entry of the cache is shared by all pages.

**`malloc`** (2 threads, 2 spans, 2 classes: one moves 2 objects at a time and has no
slot in its transfer cache at first, the other moves 1 and has 2 slots; a thread asks
for an object while the program has none).

- `OneOwner`: every object of a span that is out is in exactly one place.
- `CentralExact`: reference counts, span lists, counters and slots of a class are exact.
- `CachesExact`: a cache knows its size, its low-water marks are true, and the limits
  of all caches with the unclaimed space are always the overall size.
- `NoHoldAndWait`: nobody waits for the lock of a class while holding another.

With two classes each may evict from the other, two threads meet in every stretch
without the lock, and the limits are so small that a second cache gets the least limit
and leaves the unclaimed space negative. Then nothing can be stolen: `MallocSteal.cfg`,
to be run by hand as it takes 6 minutes (1,693,379 states), has limits with which both
threads steal, and the same properties hold. A list of a thread never has so many objects
that `ListTooLong` shortens a `max_length_` above the batch. Threads and spans
are symmetric. Deadlock is checked here, and in `page_heap` and `lua_gc`: an allocator
or a collector never comes to rest.

Deadlock is not checked in the other runs: every one of these systems may come to rest,
a task that has ended, a pool that is stopped, a download that has returned.

### Runs that disagree with the code's own words

| Run | The code says | What happens |
|---|---|---|
| `crawl_nothing_new` | `task_data.h:213`, `is_url_empty`: "is url_list content nothing new" | Two workers pass `next_work_no<next_no` together, `next_work_no` overtakes `next_no`, and the next url gets a number that was used up. It is never taken, and the task does not end. |
| `thread_pool_signal` | `thread_pool.h:55`: "wait action signel" | `push` notifies between a thread's failed pull and its wait; all threads sleep over a job. |
| `io_pool` | `iocp_server.cpp:61`: "Use a round-robin scheme to choose the next io_service to use." | Two threads are in `get_io_service`: one increments `next_io_service_` to the size of the pool, and before it resets it the other uses it as an index (`ChosenIsService`). If both increment before either compares, the index grows past the size and is never reset. |

## 4. Proofs

Every theorem holds for all values of the constants that meet the named assumption of
its module; TLC evaluates these assumptions in the runs. An invariant is proved from an
inductive one: it holds initially, each action preserves it, and it implies the result.

| Module | Theorems | Assumption |
|---|---|---|
| `CrawlProofs` | `TypeCorrect`, `InvariantHolds` (`IInv`), `StartPtrAliveHolds`, `HandedOutOnceHolds` | `CrawlAssumption`: finitely many workers, the main url is a url, pages are sets of urls, the bounds are natural numbers |
| `CrawlTaskProofs` | `TaskInvHolds`, `RunningThreadCountsHolds`, `FinishedMeansDoneHolds`, `ImplementsTaskHolds`, `NoDuplicateUrlHolds` | the same; for the last one also `FaultBound = 0` |
| `ThreadPoolProofs` | `InvariantHolds`, `PoolFullHolds`, `RunningCountExactHolds`, `ImplementsQueueHolds` | `PoolAssumption`: fewer threads in a round than a `size_t` can count |
| `TaskListProofs` | `UrlParsedHolds`, `AddressIsHostHolds`, `UnionIdIsSiteHolds`, `ListedHasStartHolds`, `OwnFinishHolds` | `WordAssumption`, `SiteAssumption`: words are no delimiters, and the parts of a url have the form of such parts (a url without a scheme has no "://", see section 5) |
| `PolicyServerProofs` | `PoliciesReadyHolds`, `LuaBalanceHolds`, both of `SysSpec` | `PolicyAssumption`: there is a plugin, and finitely many workers |
| `MallocProofs` | `NoHoldAndWaitHolds` | `NoneAssumption`: the null value is no class, thread or span |
| `MallocOwnerProofs` | `OneOwnerHolds`, `SpansExactHolds` | also `SizeAssumption`: classes are numbers, a span has room for an object, and there are finitely many spans |

**The task.** `StartPtrAlive` is not inductive: nothing in it says why the thread that
clears `start_ptr` may do so. The argument is this. Call a number *settled* when it was
handed out and its holder is past inserting the links of its page, and *passed*
when it is settled or has no url and never will. A number stays passed
(`PassedStable`). A url is new (-2) until it is settled (`NewUntilSettled`), and
the scan stops at a url that is not -1; so the scan, wherever it is, leaves only
passed numbers behind (`ScanPassed`), and one that reaches `next_no` has passed
them all. Then nobody is at a point where it could insert a url or use
`start_ptr` (`NobodyEarly`), so `next_no` does not grow and all numbers stay passed
(`EndPassed`). The conjunct `FinishSettled` says that finishing a url, by a
policy from the queue or by the downloading thread, comes after its insertions;
`Ownership` that a number has one owner. Each action is first shown to respect a frame
(`WorkerFrame`): which counters and tables a step of one worker may change and how far
its own position moves. The stability lemmas use the frame only.

`TaskInv` adds two layers to this core, `IInv`. `CountInv` says of every value of
`running_thread` who is at work on the url: nobody has queued a policy before -2 is
left, a number that is not negative is the number of `finished_one_url` calls to come,
and after -1 there is none. The calls to come are counted over the queue and the
threads, so every step has a lemma for how it changes that count (`CountStep`).
`ScanOver` says that every url that a scan has left behind is at -1, which by `CountInv`
is final. From these follow `FinishedMeansDone` and, action by action, that a step of
`Crawl` is a step of `CrawlTask` or changes nothing there. `NoDuplicateUrl` is proved for
insertions that do not run out of memory; with such errors it is false (section 5).

**The pool.** The inductive invariant says that the list of threads is empty or has
exactly the threads of this round, that threads of later rounds do not exist, that a
thread of the list is asked to leave only inside `stop()`, and that only a thread between
its pull and the end of its job has one. A thread is named by the round that creates it
and its place in the list, so that threads of an earlier round which are still busy are
not taken for those of this one. The refinement maps `deque_content` and the jobs in the
hands of threads to `JobQueue`.

**The task list.** Most of `TaskListProofs` is about sequences: where the first delimiter
is in a url that was written from its parts, with each of them present or missing. By
these lemmas `format_url` gives the url in its full form, and `get_url_info`, `get_domain`
and `get_port` find its parts again. `UrlInv` carries this into the states. `ListInv`
says that no task is twice in `m_list`, that it is there exactly while it is inserted and
its `start_ptr` is set, and that a task with a union id of its own has lost `start_ptr`
exactly when it is done. That `finished_one` takes the first match of the id is enough
for this: the match of an id of one's own is oneself.

**The policies.** `PolicyInv` relates four parts: what `base_map` has at each point of
`system_api::run`, which threads can have a Lua state, that jobs and threads know only
plugins of the map, and how many states are open. It needs the third because
`clone_policy` looks the name up long after `get_policys` has listed it. A step of
`SystemRun` is one of `PolicyServer` or leaves its variables alone (`SystemInv`).

**Small objects.** For the locks, `Inv` adds to `NoHoldAndWait` that a thread outside any
call is idle in the central lists, and that one on its way into `ShrinkCache` knows whose
cache it shrinks: `LockInverter` has released the first lock by then. Most steps are
*calm*: they leave `lock` alone, or end with the thread holding none. One lemma deals with
all of these, and the few that keep a lock (`InsertRange`'s release, the eviction, the
loop of `ReleaseToSpans`) have their own.

For the owners, `OwnInv` adds what a call has at each point of its course (`Calls`), that
an object is in one place, of the class its holder takes it for, and that none is lost
(`Owned`), and that reference counts, span lists and counters are exact (`SpansOK`). The
two need each other: `ReleaseToSpans` gives a span away on the word of `refcount`, which
is safe only if no object of the span is elsewhere; and the count of a span is right only
if an object comes back once, to its own class. A step that passes objects on is shown to
be a *move* of a set of objects from one place to another, and moves preserve `Owned`;
taking a span from the page heap and giving it back have lemmas of their own.

**Only model-checked.**

- Liveness, since fairness is beyond the prover: `EventuallyFinished`, `AwakeThreadDrains`,
  `StopEndsThreads`, `ReturnsUnclosed`, `WaitingReturns`, `StopEndsProgram`.
- `CachesExact`, and the slots in `CentralExact`: they speak of sums, which are folds, and
  what a fold computes takes induction over data. `SpansExact`, the other conjunct of
  `CentralExact`, is proved.
- `ListedShareMark` and `PagePolicies`, for the same reason: the trigger functions fold
  over their strings.
- The download with its parser, and the page heap with `KeepsPromise`: their loops are
  recursive operators, of which the prover cannot reason.
- The properties of the collector: no proof was attempted.

The modules with proofs, and those they extend, do without `SequencesExt`: with it in
scope each step takes several times as long to check. `Find`, `Erase`, `Contains` and
`ForEach` stand for its operators.

## 5. What the models also show

These follow from the modules, and no run of `PROJECT.json` is devoted to them. The
first three, each of which contradicts a comment, are configurations to run by hand.

- `http.hpp:70`: "download blocked until finished". The handlers may notify before the
  caller waits, and `download()` does not return: `FinishedUnblocks` fails
  (`DownloaderUnblocks.cfg` with `MCDownloader`).
- `http_tools.cpp:354-357`: "200 check Content-length", "count length", "return". The body
  is inserted, `itWork` stays in front of it, and the end of the loop inserts it again:
  `LengthBody` fails (`DownloaderLength.cfg` with `MCDownloader`).
- `system.cpp:82`: "stop task pool", and "clear policy" at line 88. `stop()` does not join; a
  thread uses `base_map` while it is cleared: `PoolStopped` fails (`PolicyServerStop.cfg`
  with `MCPolicyServer`).
- In incremental mode all garbage is freed, or comes back in its finalizer, if the
  program goes on allocating, so that `luaC_step` is called again and again:
  `GarbageFreed` holds (`LuaCollects.cfg` with `MCLua`).
- With more urls than `running_url_max`, the pull jobs may run out while urls
  wait: at the limit `url_list_remain` gives 0, and `run_policy_name`, which frees
  the place, pushes no pull job (`task_work.cpp:168`, "Empty list return").
- Two policies of one url may both read -1 in `finished_one_url` and both
  decrement `running_url_count`, which then wraps.
- `task_data.h:110` says of `running_thread` "0 is finished"; the code stores -1.
- A failed insertion of a known url erases its entry in `url_no_map`
  (`task_data.h:187`, "only insert&clear not erase"), so it may get a second number.
- A spurious wake-up ends `download()` while handlers still fill the buffer.
- A response whose last segment has exactly the packet size is not looked at
  (`http.hpp:168`); the caller waits until the server closes.
- A chunk's jump may pass the end of what has arrived (`http_tools.cpp:328`).
- After an interim 100 the final response becomes part of its body
  (`http_tools.cpp:394`).
- A handler may run before `download()` has assigned `socket_ptr_` (`http.hpp:101`), and
  dereferences a null pointer: the model of the download ends there (`Crash`).
- `stop()` of the pool resets `running_count` under running jobs, whose decrement then
  wraps; only `thread_pool::free()` reads it, which nothing calls.
- `insert_new` accepts two tasks with one union id, and the end of one may
  remove the other.
- `policy_base::load` leaves its Lua state open when a script fails.
- A page that is no text has an empty trigger, for which `get_policys` lists every
  policy, those marked DOMAIN included.
- `get_url_info` takes everything before the first "://" for the scheme, also when
  that stands in the parameters of a url without a scheme. The runs leave such
  urls out.
- `traverseephemeron` leaves a table in `allweak` during propagation, and
  `retraversegrays` does not look at that list again (`lgc.c:378-413`, `575-585`). An
  entry whose key the program has made reachable in the meantime is then cleared:
  `EphemeronKept` of `LuaProps` fails with one table of mode "k" and two closures.
- `markbeingfnz` makes an object white and marks it again (`lgc.c:311-317`). A table with
  a finalizer that is in a gray list at that moment is linked into a second one, and
  the traversal of the list need not end: `MarkedOnce` of `LuaProps` fails with a strong
  table and a userdata that both have finalizers. In `lua_gc` only the userdata has one.
- A finalizer that fails during a full collection leaves `gckind` at normal, also in
  generational mode.
- A slot that `MakeCacheSpace` took from another class is lost when its own cache has
  meanwhile grown to its maximum: the slots of all classes together only become fewer.
- Spin locks are not fair, so nothing is claimed about a single thread of tcmalloc
  getting on.

## 6. Not modelled

- Cookies, heads and the request text: string functions without shared state.
  Of `get_package` only the Host line is modelled.
- The log keeper (one list under one lock) and `control_download` (not called).
- HTML parsing, charset conversion, gzip, hashing: pure conversions; a page is a
  set of links here.
- The accept handler, the command line, the restart of I/O and policies under
  `bReset`, demo programs and Lua scripts.
- Of Lua: open upvalues, prototypes and their cache, coroutines, metatables as objects,
  long and fixed strings, and the accounting that decides when a step is due (a step may
  come at any time); the compiler, the virtual machine and the libraries, which are
  sequential transformations of the data of one state.
- Of tcmalloc: sampling, the profilers, the heap checker and debug allocation (the
  minimal library has none of them), `BecomeIdle`, `RecomputePerThreadCacheSize`,
  statistics for the user, the memory of the bookkeeping itself, the radix tree, and the
  platform layers but for the allocation of pages on Windows.
- zlib, TinyXML and the Gumbo parser: functions from bytes to bytes or to a tree, without
  shared state or interleavings, in large part tables and generated code.
- `insert_new_url_params`, `insert_result`, `pull_and_work_url`, `run_policy`,
  `pushfront`, `pullback`, the callback form of `download` and the reuse of
  connections: nothing calls them.

Nine tenths of the lines under `src/` are these libraries, and most of those lines are
never compiled into the scanner or hold no state that steps of several actors share. The
share of lines the models stand for is therefore small although the scanner's own state
machines, the collector and the allocator are covered.

## 7. Plan

Done: the task and the pool, each with its abstract specification and the proof that it
implements it; download and parsing; services; the task list with the url functions and
the policies with the trigger functions, both with proofs; Lua's collector; the page heap
with its abstract specification; thread caches and central lists, with proofs.

Next, in this order:

1. The cookie functions of `http_tools`, and `control_download` with its
   redirects on top of `Downloader`.
2. Links: `search_for_links` and `match_domain`, joined to `UrlTools`.
3. `ThreadPool` and `Crawl` composed, so that a lost signal and a stop are seen
   from the task; the log keeper.
4. Theorems: the sums in `CentralExact` and `CachesExact`, once they are written without
   a fold; the colours of `LuaGC`; and, with the loops of
   `PageHeap` written as recursive functions, that it implements `PageAlloc`.
