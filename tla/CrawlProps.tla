----------------------------- MODULE CrawlProps -----------------------------
(***************************************************************************)
(* The properties of a crawl task, its refinement of CrawlTask, and the    *)
(* inductive invariant behind the safety theorems of CrawlProofs.          *)
(***************************************************************************)
EXTENDS Crawl

Early    == {"fresh_count", "download", "crawl"}
Holding  == Early \cup {"push_policy"}
Label == Holding \cup
  {"idle", "fresh", "fresh_empty", "fresh_limit", "fresh_loop", "fresh_test",
   "fresh_take", "fresh_get", "finish", "finish_store", "finish_load",
   "finish_count", "quit", "quit_test", "quit_get", "quit_store", "quit_next",
   "finished_one", "remain", "remain_work", "remain_count", "push_pull"}

\* The shape of the state of task_map, of the pool's queue and of each thread.
CountersOK ==
  /\ next_no \in Nat /\ next_work_no \in Nat /\ finished_no \in Nat
  /\ running_url_count \in 0 .. SizeT - 1

TablesOK ==
  /\ DOMAIN url_no_map \subseteq Url
  /\ url_no_map \in [DOMAIN url_no_map -> 0 .. next_no - 1]
  /\ DOMAIN url_list \subseteq 0 .. next_no - 1
  /\ url_list \in [DOMAIN url_list -> Url]
  /\ running_thread \in [DOMAIN url_list -> Int]

Job == [f : {"pull_and_download_url", "run_policy_name"}, no : Nat]

TaskOK ==
  /\ start_ptr \in {"set", "null"} /\ m_list \in Nat
  /\ queue \in Seq(Job)
  /\ start_pc \in {"insert_new", "check_main", "insert_main", "push",
                   "success", "failed"}

LocalsOK ==
  /\ pc \in [Worker -> Label]
  /\ job \in [Worker -> {"none", "pull", "policy"}]
  /\ no \in [Worker -> Nat] /\ i \in [Worker -> Nat]
  /\ links \in [Worker -> SUBSET Url]
  /\ n \in [Worker -> Int]

TypeOK == CountersOK /\ TablesOK /\ TaskOK /\ LocalsOK

(***************************************************************************)
(* A worker that holds a url it got from fresh_one_url and is about to     *)
(* download it finds map_ptr->start_ptr set: finished_one has not cleared  *)
(* it, however the scan of another worker interleaves with the insertions. *)
(***************************************************************************)
StartPtrAlive == \A w \in Worker : pc[w] \in Early => start_ptr = "set"

(***************************************************************************)
(* fresh_one_url never gives one number to two workers at a time.          *)
(***************************************************************************)
HandedOutOnce ==
  \A w, v \in Worker :
    pc[w] \in Holding /\ pc[v] \in Holding /\ no[w] = no[v] => w = v

(***************************************************************************)
(* When finished_one has removed the task every url is finished and no     *)
(* policy is waiting for, or working on, one of them.                      *)
(***************************************************************************)
FinishedMeansDone ==
  start_ptr = "null" =>
    /\ \A m \in DOMAIN url_list : running_thread[m] = -1
    /\ \A k \in 1 .. Len(queue) : queue[k] = Pull
    /\ \A w \in Worker : pc[w] \notin Holding \cup {"finish", "finish_store"}

(***************************************************************************)
(* "n is running n threads": while a url's policies run, running_thread is *)
(* the number of finished_one_url calls still to come, counting queued     *)
(* policies and the downloading thread itself.                             *)
(***************************************************************************)
Queued(m)  == {k \in 1 .. Len(queue) : queue[k] = RunPolicy(m)}
Calling(m) == {w \in Worker : pc[w] = "finish" /\ no[w] = m}
Pushing(m) == {w \in Worker : pc[w] = "push_policy" /\ no[w] = m}

ToCome(m) ==
  Cardinality(Queued(m)) + Cardinality(Calling(m))
    + (IF Pushing(m) = {} THEN 0 ELSE 1 + n[CHOOSE w \in Pushing(m) : TRUE])

RunningThreadCounts ==
  \A m \in DOMAIN url_list : running_thread[m] > 0 => running_thread[m] = ToCome(m)

(***************************************************************************)
(* Removing duplicates: without memory errors no url has two numbers, and  *)
(* url_no_map and url_list are inverse to each other.                      *)
(***************************************************************************)
NoDuplicateUrl ==
  /\ \A m \in DOMAIN url_list :
       url_list[m] \in DOMAIN url_no_map /\ url_no_map[url_list[m]] = m
  /\ \A u \in DOMAIN url_no_map :
       url_no_map[u] \in DOMAIN url_list /\ url_list[url_no_map[u]] = u

(***************************************************************************)
(* A task that started is removed from the list: every url found is        *)
(* downloaded and finished.  One worker, and no more urls than             *)
(* running_url_max: with more, run_policy_name ends a url without pushing  *)
(* a pull job, and the jobs may run out.                                   *)
(***************************************************************************)
EventuallyFinished == <>[](start_pc = "failed" \/ m_list = 0)

(***************************************************************************)
(* task_data.h:213 on is_url_empty: "is url_list content nothing new".     *)
(* When it answers true no url of url_list is new (-2), apart from one a   *)
(* worker has just taken.                                                  *)
(***************************************************************************)
is_url_empty == next_work_no >= next_no

NothingNew ==
  is_url_empty =>
    \A m \in DOMAIN url_list : running_thread[m] = -2 =>
      \E w \in Worker : no[w] = m /\ pc[w] \in Early \cup {"fresh_get", "finish"}

(***************************************************************************)
(* Crawl implements CrawlTask: a url is taken when fresh_one_url returns   *)
(* it, complete when running_thread is set to -1, and the task finishes    *)
(* when finished_one clears start_ptr.                                     *)
(***************************************************************************)
InWork(m) ==
  /\ running_thread[m] # -1
  /\ running_thread[m] = -2 =>
       \E w \in Worker : no[w] = m /\ pc[w] \in Early \cup {"finish"}

Task == INSTANCE CrawlTask WITH
  known    <- DOMAIN url_list,
  running  <- {m \in DOMAIN url_list : InWork(m)},
  complete <- {m \in DOMAIN url_list : running_thread[m] = -1},
  finished <- start_ptr = "null"

\* fresh_one_url, insert_new_url, finished_one_url and finished_one, in any
\* interleaving, are the steps of the abstract task or change nothing of it.
ImplementsTask == Task!TaskSpec

-----------------------------------------------------------------------------
(***************************************************************************)
(* The inductive invariant.  A number is settled when it was handed out    *)
(* and its holder is past the insertion of links; it is passed when it is  *)
(* settled or will never have a url.  A scan, wherever it is, leaves only  *)
(* passed numbers behind, so when it reaches next_no nobody can insert a   *)
(* url any more and nobody is about to use start_ptr.                      *)
(***************************************************************************)
Claimed == Early \cup {"fresh_get"}
Owning  == Holding \cup {"fresh_get"}

Settled(m) ==
  /\ m < next_work_no
  /\ \A w \in Worker : pc[w] \in Claimed => no[w] # m

Passed(m) == m < next_no /\ (m \in DOMAIN url_list => Settled(m))

AllPassed == \A m \in 0 .. next_no - 1 : Passed(m)

\* Nothing runs before task_work::start has pushed the first job.
NotStarted ==
  start_pc # "success" => queue = <<>> /\ \A w \in Worker : pc[w] = "idle"

\* A number taken from next_work_no belongs to one worker.
Ownership ==
  /\ \A w \in Worker :
       pc[w] \in Owning => no[w] < next_work_no
  /\ \A w, v \in Worker :
       pc[w] \in Owning /\ pc[v] \in Owning /\ no[w] = no[v] => w = v

\* A url is new until its holder has inserted the links of its page.
NewUntilSettled ==
  /\ \A w \in Worker : pc[w] \in Holding => no[w] \in DOMAIN url_list
  /\ \A m \in DOMAIN url_list : ~Settled(m) => running_thread[m] = -2

\* The threads and jobs that finish a url come after its insertions.
FinishSettled ==
  /\ \A w \in Worker :
       pc[w] \in {"finish", "finish_store", "finish_load"} =>
         no[w] \in DOMAIN url_list /\ Settled(no[w])
  /\ \A k \in 1 .. Len(queue) :
       queue[k] # Pull => queue[k].no \in DOMAIN url_list /\ Settled(queue[k].no)

\* What a scan has left behind.
ScanPassed ==
  /\ \A m \in 0 .. finished_no - 1 : Passed(m)
  /\ \A w \in Worker :
       /\ pc[w] \in {"quit_test", "quit_get", "quit_store", "quit_next", "finished_one"}
            => \A m \in 0 .. i[w] - 1 : Passed(m)
       /\ pc[w] \in {"quit_store", "quit_next"} => Passed(i[w])
       /\ pc[w] = "quit_get" => i[w] < next_no

EndPassed ==
  start_ptr = "null" \/ (\E w \in Worker : pc[w] = "finished_one") => AllPassed

IInv ==
  /\ TypeOK /\ NotStarted /\ Ownership /\ NewUntilSettled
  /\ FinishSettled /\ ScanPassed /\ EndPassed
  /\ start_ptr = "null" => start_pc = "success"

(***************************************************************************)
(* What running_thread says of a url, the second inductive invariant: -2,  *)
(* new, at most one call of finished_one_url to come; 0 and -3, the last   *)
(* call is about to store -1; -1, finished, and nobody works on it; any    *)
(* other number is the number of calls to come.                            *)
(***************************************************************************)
Storing(m) == {w \in Worker : pc[w] = "finish_store" /\ no[w] = m}

Counted(m) ==
  /\ running_thread[m] \in Nat \cup {-1, -2, -3}
  /\ running_thread[m] >= 0 => running_thread[m] = ToCome(m)
  /\ running_thread[m] < 0 => Queued(m) = {} /\ Pushing(m) = {}
  /\ running_thread[m] \in {-1, -3} => Calling(m) = {}
  /\ running_thread[m] = -2 => \A w, v \in Calling(m) : w = v
  /\ \A w \in Storing(m) : running_thread[m] \in {0, -3} /\ Storing(m) = {w}

CountInv ==
  /\ \A m \in DOMAIN url_list : Counted(m)
  /\ \A k \in 1 .. Len(queue) : queue[k] \in {Pull, RunPolicy(queue[k].no)}
  /\ \A w \in Worker : pc[w] = "push_policy" => n[w] >= 1

(***************************************************************************)
(* The scan for the end of the task, the third: every url that it has left *)
(* behind is finished, and when it has ended all are.  The main url is in  *)
(* the list before the first job is pushed.                                *)
(***************************************************************************)
Over(m) == m < next_no /\ (m \in DOMAIN url_list => running_thread[m] = -1)

ScanOver ==
  /\ \A m \in 0 .. finished_no - 1 : Over(m)
  /\ \A w \in Worker :
       /\ pc[w] \in {"quit_test", "quit_get", "quit_store", "quit_next", "finished_one"}
            => \A m \in 0 .. i[w] - 1 : Over(m)
       /\ pc[w] \in {"quit_store", "quit_next"} => Over(i[w])
  /\ start_ptr = "null" \/ (\E w \in Worker : pc[w] = "finished_one") =>
       \A m \in 0 .. next_no - 1 : Over(m)

MainFirst ==
  /\ start_pc \in {"insert_new", "check_main", "insert_main"} =>
       DOMAIN url_list = {} /\ DOMAIN url_no_map = {}
  /\ start_pc \in {"push", "success"} => DOMAIN url_list # {}

TaskInv == IInv /\ CountInv /\ ScanOver /\ MainFirst
=============================================================================
