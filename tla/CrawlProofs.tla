---------------------------- MODULE CrawlProofs ----------------------------
(***************************************************************************)
(* Safety of the crawl task for any number of workers, urls and policies,  *)
(* and the count of the threads that work on a url, step by step.          *)
(***************************************************************************)
EXTENDS CrawlProps, FiniteSetTheorems, TLAPS

LEMMA WrapType == \A x \in Int : Wrap(x) \in 0 .. SizeT - 1
  BY CrawlAssumption DEF Wrap

LEMMA ToIntType == \A x \in Int : ToInt(x) \in Int
  BY CrawlAssumption DEF ToInt

LEMMA InitTypeOK == Init => TypeOK
<1> SUFFICES ASSUME Init PROVE TypeOK
  OBVIOUS
<1> USE DEF Init
<1>1. CountersOK
  BY CrawlAssumption DEF CountersOK
<1>2. TablesOK
  BY Zenon DEF TablesOK
<1>3. TaskOK
  BY DEF TaskOK
<1>4. LocalsOK
  BY DEF LocalsOK, Label
<1>. QED
  BY <1>1, <1>2, <1>3, <1>4, Zenon DEF TypeOK

(***************************************************************************)
(* Types: what the helpers leave, then one step per action.                *)
(***************************************************************************)
LEMMA ReturnType ==
  ASSUME LocalsOK, NEW w \in Worker, Return(w)
  PROVE  LocalsOK'
  BY DEF Return, Goto, LocalsOK, Label

LEMMA FinishedType ==
  ASSUME LocalsOK, NEW w \in Worker, Finished(w)
  PROVE  LocalsOK'
<1>1. CASE job[w] = "pull"
  BY <1>1 DEF Finished, Goto, LocalsOK, Label
<1>2. CASE job[w] # "pull"
  BY <1>2, ReturnType, Zenon DEF Finished
<1>. QED
  BY <1>1, <1>2, Zenon

LEMMA InsertType ==
  ASSUME CountersOK, TablesOK, NEW u \in Url,
         InsertNewUrl(u) \/ InsertNewUrlFails(u)
  PROVE  CountersOK' /\ TablesOK'
<1>1. CountersOK'
  BY DEF CountersOK, InsertNewUrl, InsertNewUrlFails
<1>2. CASE InsertNewUrl(u) /\ u \in DOMAIN url_no_map
  BY <1>1, <1>2 DEF CountersOK, TablesOK, InsertNewUrl, tables
<1>3. CASE InsertNewUrl(u) /\ u \notin DOMAIN url_no_map
  <2>1. DOMAIN url_no_map' \subseteq Url /\ url_no_map' \in [DOMAIN url_no_map' -> 0 .. next_no' - 1]
    BY <1>3 DEF CountersOK, TablesOK, InsertNewUrl
  <2>2. DOMAIN url_list' \subseteq 0 .. next_no' - 1 /\ url_list' \in [DOMAIN url_list' -> Url]
    BY <1>3 DEF CountersOK, TablesOK, InsertNewUrl
  <2>3. running_thread' \in [DOMAIN url_list' -> Int]
    BY <1>3 DEF CountersOK, TablesOK, InsertNewUrl
  <2>. QED
    BY <1>1, <2>1, <2>2, <2>3, Zenon DEF TablesOK
<1>4. CASE InsertNewUrlFails(u)
  BY <1>1, <1>4 DEF CountersOK, TablesOK, InsertNewUrlFails
<1>. QED
  BY <1>1, <1>2, <1>3, <1>4, Zenon

LEMMA StartType ==
  ASSUME TypeOK, Start PROVE TypeOK'
<1>1. CASE StartInsertNew
  BY <1>1 DEF StartInsertNew, TypeOK, CountersOK, TablesOK, TaskOK, LocalsOK,
              counters, tables, locals
<1>2. CASE StartCheckMain
  BY <1>2, Zenon DEF StartCheckMain, TypeOK, CountersOK, TablesOK, TaskOK, LocalsOK,
              counters, tables, task, locals
<1>3. CASE StartInsertMain
  <2>1. CountersOK' /\ TablesOK'
    BY <1>3, CrawlAssumption, InsertType, Zenon DEF StartInsertMain, TypeOK
  <2>. QED
    BY <1>3, <2>1, Zenon DEF StartInsertMain, TypeOK, TaskOK, LocalsOK, task, locals
<1>4. CASE StartPush
  <2>1. Pull \in Job
    BY Zenon DEF Pull, Job
  <2>2. TaskOK'
    BY <1>4, <2>1 DEF StartPush, TypeOK, TaskOK, task
  <2>. QED
    BY <1>4, <2>2, Zenon DEF StartPush, TypeOK, CountersOK, TablesOK, LocalsOK,
                      counters, tables, locals
<1>. QED
  BY <1>1, <1>2, <1>3, <1>4, Zenon DEF Start

LEMMA TakeType ==
  ASSUME TypeOK, NEW w \in Worker, TakePull(w) \/ TakePolicy(w) PROVE TypeOK'
<1> USE DEF TypeOK, TakePull, TakePolicy
<1>1. CountersOK' /\ TablesOK'
  BY Zenon DEF CountersOK, TablesOK, counters, tables
<1>2. TaskOK'
  BY DEF TaskOK, task
<1>3. Head(queue) \in Job
  BY DEF TaskOK
<1>4. LocalsOK'
  BY <1>3, ReturnType, Zenon DEF LocalsOK, Job, Step, Goto, Label
<1>. QED
  BY <1>1, <1>2, <1>4, Zenon

LEMMA FreshType ==
  ASSUME TypeOK, NEW w \in Worker, Fresh(w) PROVE TypeOK'
<1> USE DEF TypeOK, CountersOK, Fresh, FreshLoadNext, FreshEmpty, FreshLimit,
            FreshLoopLoad, FreshLoopTest, FreshTake, FreshGet, FreshCount
<1>1. CountersOK' /\ TablesOK' /\ TaskOK'
  BY WrapType DEF TablesOK, TaskOK, counters, tables, task
<1>2. LocalsOK'
  BY ReturnType DEF LocalsOK, Step, Goto, Load, locals, Label, Holding, Early
<1>. QED
  BY <1>1, <1>2, Zenon

LEMMA CrawlingType ==
  ASSUME TypeOK, NEW w \in Worker, Crawling(w) PROVE TypeOK'
<1>1. CASE DownloadFails(w) \/ Download(w)
  <2>1. LocalsOK'
    BY <1>1, CrawlAssumption
    DEF DownloadFails, Download, Step, Goto, TypeOK, LocalsOK, locals, Label,
        Holding, Early
  <2>. QED
    BY <1>1, <2>1, Zenon DEF DownloadFails, Download, TypeOK, CountersOK, TablesOK,
         TaskOK, counters, tables, task
<1>2. CASE InsertLink(w)
  <2>1. PICK u \in links[w] : /\ links' = [links EXCEPT ![w] = @ \ {u}]
                              /\ InsertNewUrl(u) \/ InsertNewUrlFails(u)
    BY <1>2, Zenon DEF InsertLink
  <2>2. CountersOK' /\ TablesOK'
    BY <2>1, InsertType, Zenon DEF TypeOK, LocalsOK
  <2>. QED
    BY <1>2, <2>1, <2>2, Zenon DEF InsertLink, TypeOK, TaskOK, LocalsOK, task
<1>3. CASE GetPolicys(w)
  <2>0. PICK k \in 0 .. MaxPolicy : running_thread' =
          IF k = 0 THEN running_thread ELSE [running_thread EXCEPT ![no[w]] = k + 1]
    BY <1>3, Zenon DEF GetPolicys
  <2>1. TablesOK'
    <3>0. k + 1 \in Int /\ running_thread \in [DOMAIN url_list -> Int]
      BY CrawlAssumption DEF TypeOK, TablesOK
    <3>1. running_thread' \in [DOMAIN url_list -> Int]
      BY <2>0, <3>0, Zenon
    <3>2. UNCHANGED <<next_no, url_no_map, url_list>>
      BY <1>3, Zenon DEF GetPolicys, counters
    <3>3. TablesOK
      BY Zenon DEF TypeOK
    <3>. QED
      BY <3>1, <3>2, <3>3, Zenon DEF TablesOK
  <2>2. LocalsOK'
    BY <1>3, CrawlAssumption
    DEF GetPolicys, TypeOK, LocalsOK, Load, Goto, Label, Holding, Early
  <2>. QED
    BY <1>3, <2>1, <2>2, Zenon DEF GetPolicys, TypeOK, CountersOK, TaskOK, counters, task
<1>4. CASE PushPolicy(w)
  <2>1. RunPolicy(no[w]) \in Job
    BY Zenon DEF TypeOK, LocalsOK, RunPolicy, Job
  <2>2. CountersOK' /\ TablesOK'
    BY <1>4, Zenon DEF PushPolicy, TypeOK, CountersOK, TablesOK, counters, tables
  <2>3. TaskOK'
    <3>1. queue \in Seq(Job) /\ queue' = Append(queue, RunPolicy(no[w]))
      BY <1>4, Zenon DEF PushPolicy, TypeOK, TaskOK
    <3>2. queue' \in Seq(Job)
      BY <2>1, <3>1
    <3>. QED
      BY <1>4, <3>2, Zenon DEF PushPolicy, TypeOK, TaskOK, task
  <2>4. LocalsOK'
    <3>1. n[w] - 1 \in Int
      BY DEF TypeOK, LocalsOK
    <3>. QED
      BY <1>4, <3>1, Zenon
      DEF PushPolicy, Load, Goto, TypeOK, LocalsOK, Label, Holding, Early
  <2>. QED
    BY <2>2, <2>3, <2>4, Zenon DEF TypeOK
<1>. QED
  BY <1>1, <1>2, <1>3, <1>4, Zenon DEF Crawling

LEMMA FinishType ==
  ASSUME TypeOK, NEW w \in Worker, Finish(w) PROVE TypeOK'
<1> USE DEF TypeOK, Finish, FinishDecrement, FinishStore, FinishLoad, FinishCount
<1>1. CountersOK'
  <2>1. running_url_count - 1 \in Int
    BY CrawlAssumption DEF CountersOK
  <2>2. Wrap(running_url_count - 1) \in 0 .. SizeT - 1
    BY <2>1, WrapType, Zenon
  <2>. QED
    BY <2>2, Zenon DEF CountersOK, counters
<1>2. TablesOK'
  <2>1. /\ UNCHANGED <<next_no, url_no_map, url_list>>
        /\ \/ running_thread' = running_thread
           \/ \E m, x : running_thread' = [running_thread EXCEPT ![m] = x]
                      /\ (x = running_thread[m] - 1 \/ x = -1)
    BY Zenon DEF counters, tables
  <2>2. running_thread' \in [DOMAIN url_list -> Int]
    BY <2>1 DEF TablesOK
  <2>. QED
    BY <2>1, <2>2, Zenon DEF TablesOK
<1>3. TaskOK'
  BY Zenon DEF TaskOK, task
<1>4. LocalsOK'
  BY FinishedType, Zenon DEF LocalsOK, Step, Goto, locals, Label
<1>. QED
  BY <1>1, <1>2, <1>3, <1>4, Zenon

LEMMA QuitType ==
  ASSUME TypeOK, NEW w \in Worker, Quit(w) PROVE TypeOK'
<1> USE DEF TypeOK, Quit, QuitStart, QuitTest, QuitGet, QuitStore, QuitNext,
            FinishedOne
<1>1. CountersOK' /\ TablesOK'
  BY Zenon DEF CountersOK, TablesOK, LocalsOK, counters, tables
<1>2. TaskOK'
  BY DEF TaskOK, task
<1>3. LocalsOK'
  BY FinishedType DEF CountersOK, LocalsOK, Step, Goto, locals, Label
<1>. QED
  BY <1>1, <1>2, <1>3, Zenon

LEMMA RemainType ==
  ASSUME TypeOK, NEW w \in Worker, Remain(w) PROVE TypeOK'
<1>1. CountersOK' /\ TablesOK'
  BY Zenon DEF Remain, RemainLoadNext, RemainLoadWork, RemainLoadCount, PushPull,
         TypeOK, CountersOK, TablesOK, counters, tables
<1>2. TaskOK'
  <2>1. Pull \in Job
    BY Zenon DEF Pull, Job
  <2>. QED
    BY <2>1 DEF Remain, RemainLoadNext, RemainLoadWork, RemainLoadCount, PushPull,
                TypeOK, TaskOK, task
<1>3. CASE RemainLoadNext(w)
  BY <1>1, <1>2, <1>3 DEF RemainLoadNext, TypeOK, CountersOK, LocalsOK, Step, Goto,
                          Load, Label
<1>4. CASE RemainLoadWork(w)
  <2>1. ToInt(Wrap(n[w] - next_work_no)) \in Int
    BY WrapType, ToIntType DEF TypeOK, CountersOK, LocalsOK
  <2>. QED
    BY <1>1, <1>2, <1>4, <2>1, Zenon DEF RemainLoadWork, TypeOK, LocalsOK, Step, Goto, Load, Label
<1>5. CASE RemainLoadCount(w)
  <2>1. ToInt(Wrap(running_url_max - running_url_count)) \in Int
    BY CrawlAssumption, WrapType, ToIntType DEF TypeOK, CountersOK
  <2>. QED
    BY <1>1, <1>2, <1>5, <2>1, Zenon DEF RemainLoadCount, TypeOK, LocalsOK, Step, Goto, Load, Label
<1>6. CASE PushPull(w)
  <2>1. CASE n[w] > 0
    BY <1>1, <1>2, <1>6, <2>1 DEF PushPull, TypeOK, LocalsOK, Load
  <2>2. CASE ~(n[w] > 0)
    BY <1>1, <1>2, <1>6, <2>2, ReturnType, Zenon DEF PushPull, TypeOK
  <2>. QED
    BY <2>1, <2>2, Zenon
<1>. QED
  BY <1>3, <1>4, <1>5, <1>6, Zenon DEF Remain

(***************************************************************************)
(* Every state of a crawl is well formed: the tables only hold numbers     *)
(* already given out, and running_url_count stays a size_t.                *)
(***************************************************************************)
THEOREM TypeCorrect == Spec => []TypeOK
<1>1. TypeOK /\ [Next]_vars => TypeOK'
  <2> SUFFICES ASSUME TypeOK, [Next]_vars PROVE TypeOK'
    OBVIOUS
  <2>1. CASE Start
    BY <2>1, StartType, Zenon
  <2>2. ASSUME NEW w \in Worker, WorkerStep(w) PROVE TypeOK'
    BY <2>2, TakeType, FreshType, CrawlingType, FinishType, QuitType, RemainType, Zenon
    DEF WorkerStep
  <2>3. CASE UNCHANGED vars
    BY <2>3, Zenon DEF vars, counters, tables, task, locals, TypeOK, CountersOK,
                TablesOK, TaskOK, LocalsOK
  <2>. QED
    BY <2>1, <2>2, <2>3, Zenon DEF Next
<1>. QED
  BY <1>1, InitTypeOK, PTL DEF Spec

-----------------------------------------------------------------------------
(***************************************************************************)
(* What a step of one worker can do to the others and to the numbers.      *)
(***************************************************************************)
WorkerFrame(w) ==
  /\ \A v \in Worker : v # w => pc'[v] = pc[v] /\ no'[v] = no[v] /\ i'[v] = i[v]
  /\ \/ /\ next_work_no' = next_work_no
        /\ pc'[w] \in Owning => pc[w] \in Owning /\ no'[w] = no[w]
        /\ pc'[w] \in Claimed => pc[w] \in Claimed
     \/ /\ next_work_no' = next_work_no + 1
        /\ pc'[w] = "fresh_get" /\ no'[w] = next_work_no
  /\ \/ next_no' = next_no /\ DOMAIN url_list' = DOMAIN url_list
     \/ /\ pc[w] = "crawl" /\ next_no' = next_no + 1
        /\ DOMAIN url_list \subseteq DOMAIN url_list'
        /\ DOMAIN url_list' \subseteq DOMAIN url_list \cup {next_no}

LEMMA InsertFrame ==
  ASSUME TypeOK, NEW u \in Url, InsertNewUrl(u) \/ InsertNewUrlFails(u)
  PROVE  /\ next_no' = next_no + 1 /\ next_work_no' = next_work_no
         /\ DOMAIN url_list \subseteq DOMAIN url_list'
         /\ DOMAIN url_list' \subseteq DOMAIN url_list \cup {next_no}
         /\ \A m \in DOMAIN url_list : running_thread'[m] = running_thread[m]
         /\ \A m \in DOMAIN url_list' : m \notin DOMAIN url_list => running_thread'[m] = -2
  BY DEF InsertNewUrl, InsertNewUrlFails, tables, TypeOK, CountersOK, TablesOK

LEMMA FinishedFrame ==
  ASSUME TypeOK, NEW w \in Worker, Finished(w)
  PROVE  /\ \A v \in Worker : v # w => pc'[v] = pc[v] /\ no'[v] = no[v] /\ i'[v] = i[v]
         /\ pc'[w] \in {"idle", "remain"}
  BY Zenon DEF Finished, Return, Goto, TypeOK, LocalsOK

LEMMA ReturnFrame ==
  ASSUME TypeOK, NEW w \in Worker, Return(w)
  PROVE  /\ \A v \in Worker : v # w => pc'[v] = pc[v] /\ no'[v] = no[v] /\ i'[v] = i[v]
         /\ pc'[w] = "idle"
  BY Zenon DEF Return, Goto, TypeOK, LocalsOK

LEMMA TakeFrame ==
  ASSUME TypeOK, NEW w \in Worker, TakePull(w) \/ TakePolicy(w) PROVE WorkerFrame(w)
  BY ReturnFrame, Zenon DEF TakePull, TakePolicy, Step, Goto, WorkerFrame, TypeOK, LocalsOK, counters, tables, Owning, Claimed, Holding, Early

LEMMA FreshFrame ==
  ASSUME TypeOK, NEW w \in Worker, Fresh(w) PROVE WorkerFrame(w)
  BY ReturnFrame, Zenon DEF Fresh, FreshLoadNext, FreshEmpty, FreshLimit,
            FreshLoopLoad, FreshLoopTest, FreshTake, FreshGet, FreshCount, Step, Goto, locals, WorkerFrame, TypeOK, LocalsOK, counters, tables, Owning, Claimed, Holding, Early

LEMMA CrawlingFrame ==
  ASSUME TypeOK, NEW w \in Worker, Crawling(w) PROVE WorkerFrame(w)
<1>1. CASE InsertLink(w)
  BY <1>1, InsertFrame, Zenon DEF InsertLink, WorkerFrame, TypeOK, LocalsOK, Owning, Claimed
<1>2. CASE DownloadFails(w) \/ Download(w) \/ GetPolicys(w) \/ PushPolicy(w)
  BY <1>2, Zenon DEF DownloadFails, Download, GetPolicys, PushPolicy, Step, Goto, locals, WorkerFrame, TypeOK, LocalsOK, counters, tables, Owning, Claimed, Holding, Early
<1>. QED
  BY <1>1, <1>2, Zenon DEF Crawling

LEMMA FinishFrame ==
  ASSUME TypeOK, NEW w \in Worker, Finish(w) PROVE WorkerFrame(w)
  BY FinishedFrame, Zenon DEF Finish, FinishDecrement, FinishStore, FinishLoad, FinishCount, Step, Goto, locals, WorkerFrame, TypeOK, LocalsOK, counters, tables, Owning, Claimed, Holding, Early

LEMMA QuitFrame ==
  ASSUME TypeOK, NEW w \in Worker, Quit(w) PROVE WorkerFrame(w)
  BY FinishedFrame, Zenon DEF  Quit, QuitStart, QuitTest, QuitGet, QuitStore, QuitNext,
            FinishedOne, Step, Goto, locals, WorkerFrame, TypeOK, LocalsOK, counters, tables, Owning, Claimed, Holding, Early

LEMMA RemainFrame ==
  ASSUME TypeOK, NEW w \in Worker, Remain(w) PROVE WorkerFrame(w)
  BY ReturnFrame, Zenon DEF Remain, RemainLoadNext, RemainLoadWork, RemainLoadCount, PushPull, Step, Goto, WorkerFrame, TypeOK, LocalsOK, counters, tables, Owning, Claimed, Holding, Early

LEMMA StepFrame ==
  ASSUME TypeOK, NEW w \in Worker, WorkerStep(w) PROVE WorkerFrame(w)
  BY TakeFrame, FreshFrame, CrawlingFrame, FinishFrame, QuitFrame, RemainFrame, Zenon DEF WorkerStep

(***************************************************************************)
(* Settled and Passed, once true of a number, stay true of it.             *)
(***************************************************************************)
LEMMA SettledStable ==
  ASSUME TypeOK, NEW w \in Worker, WorkerFrame(w), Ownership, NEW m \in Nat, Settled(m)
  PROVE  Settled(m)'
<1>1. m < next_work_no'
  BY DEF WorkerFrame, Settled, TypeOK, CountersOK
<1>2. ASSUME NEW v \in Worker, pc'[v] \in Claimed PROVE no'[v] # m
  <2>1. CASE v # w
    BY <1>2, <2>1, Zenon DEF WorkerFrame, Settled
  <2>2. CASE v = w
    BY <1>2, <2>2 DEF WorkerFrame, Settled, TypeOK, CountersOK, Claimed, Owning, Holding
  <2>. QED
    BY <2>1, <2>2, Zenon
<1>. QED
  BY <1>1, <1>2, Zenon DEF Settled

LEMMA PassedStable ==
  ASSUME TypeOK, NEW w \in Worker, WorkerFrame(w), Ownership, NEW m \in Nat, Passed(m)
  PROVE  Passed(m)'
  BY SettledStable DEF WorkerFrame, Passed, TypeOK, CountersOK

(***************************************************************************)
(* When all numbers are passed nobody is inserting, so no number is added. *)
(***************************************************************************)
LEMMA NobodyEarly ==
  ASSUME TypeOK, NewUntilSettled, AllPassed, NEW w \in Worker
  PROVE  pc[w] \notin Early
  BY Zenon DEF TypeOK, TablesOK, CountersOK, LocalsOK, NewUntilSettled, AllPassed, Passed, Settled, Claimed, Holding

LEMMA AllPassedStable ==
  ASSUME TypeOK, NewUntilSettled, Ownership, AllPassed, NEW w \in Worker, WorkerFrame(w)
  PROVE  AllPassed'
<1>1. next_no' = next_no
  BY NobodyEarly, Zenon DEF WorkerFrame, Early
<1>. QED
  BY <1>1, PassedStable DEF AllPassed, TypeOK, CountersOK

(***************************************************************************)
(* The conjuncts of the inductive invariant, for a step of a worker.       *)
(***************************************************************************)
LEMMA OwnershipStep ==
  ASSUME TypeOK, TypeOK', Ownership, NEW w \in Worker, WorkerFrame(w)
  PROVE  Ownership'
<1>1. ASSUME NEW v \in Worker, pc'[v] \in Owning PROVE no'[v] < next_work_no'
  BY <1>1 DEF WorkerFrame, Ownership, TypeOK, CountersOK, LocalsOK
<1>2. ASSUME NEW u \in Worker, NEW v \in Worker, pc'[u] \in Owning, pc'[v] \in Owning,
             no'[u] = no'[v]
      PROVE  u = v
  BY <1>2 DEF WorkerFrame, Ownership, TypeOK, CountersOK, LocalsOK
<1>. QED
  BY <1>1, <1>2, Zenon DEF Ownership

\* A worker that has left the insertion of links leaves its number settled.
LEMMA HolderSettled ==
  ASSUME TypeOK, Ownership, NEW w \in Worker, WorkerFrame(w),
         pc[w] \in Holding, pc'[w] \notin Claimed, NEW m \in Nat, m = no[w]
  PROVE  Settled(m)'
<1>1. m < next_work_no'
  BY DEF WorkerFrame, Ownership, TypeOK, CountersOK, LocalsOK, Owning
<1>2. ASSUME NEW v \in Worker, pc'[v] \in Claimed PROVE no'[v] # m
  BY <1>2, Zenon DEF WorkerFrame, Ownership, Owning, Claimed, Holding
<1>. QED
  BY <1>1, <1>2, Zenon DEF Settled

\* The steps that change the tables, and the steps that change the queue.
LEMMA TablesFrame ==
  ASSUME NEW w \in Worker, WorkerStep(w)
  PROVE  \/ InsertLink(w) \/ GetPolicys(w) \/ FinishDecrement(w) \/ FinishStore(w)
         \/ UNCHANGED <<url_no_map, url_list, running_thread>>
<1> USE DEF tables
<1>1. CASE TakePull(w) \/ TakePolicy(w)
  BY <1>1, Zenon DEF TakePull, TakePolicy
<1>2. CASE Fresh(w)
  BY <1>2, Zenon DEF Fresh, FreshLoadNext, FreshEmpty, FreshLimit, FreshLoopLoad,
      FreshLoopTest, FreshTake, FreshGet, FreshCount
<1>3. CASE Crawling(w)
  BY <1>3, Zenon DEF Crawling, DownloadFails, Download, PushPolicy
<1>4. CASE Finish(w)
  BY <1>4, Zenon DEF Finish, FinishLoad, FinishCount
<1>5. CASE Quit(w)
  BY <1>5, Zenon DEF Quit, QuitStart, QuitTest, QuitGet, QuitStore, QuitNext, FinishedOne
<1>6. CASE Remain(w)
  BY <1>6, Zenon DEF Remain, RemainLoadNext, RemainLoadWork, RemainLoadCount, PushPull
<1>. QED
  BY <1>1, <1>2, <1>3, <1>4, <1>5, <1>6, Zenon DEF WorkerStep

LEMMA QueueFrame ==
  ASSUME NEW w \in Worker, WorkerStep(w)
  PROVE  \/ TakePull(w) \/ TakePolicy(w) \/ PushPolicy(w) \/ PushPull(w)
         \/ UNCHANGED queue
<1>1. CASE Fresh(w)
  BY <1>1, Zenon DEF Fresh, FreshLoadNext, FreshEmpty, FreshLimit, FreshLoopLoad,
      FreshLoopTest, FreshTake, FreshGet, FreshCount
<1>2. CASE Crawling(w)
  BY <1>2, Zenon DEF Crawling, DownloadFails, Download, InsertLink, GetPolicys
<1>3. CASE Finish(w)
  BY <1>3, Zenon DEF Finish, FinishDecrement, FinishStore, FinishLoad, FinishCount
<1>4. CASE Quit(w)
  BY <1>4, Zenon DEF Quit, QuitStart, QuitTest, QuitGet, QuitStore, QuitNext, FinishedOne
<1>5. CASE Remain(w)
  BY <1>5, Zenon DEF Remain, RemainLoadNext, RemainLoadWork, RemainLoadCount
<1>. QED
  BY <1>1, <1>2, <1>3, <1>4, <1>5, Zenon DEF WorkerStep

\* Inserting a url adds a new one; finishing touches settled urls only; and
\* get_policys is called by a holder that then stops inserting.
LEMMA RunningThreadStep ==
  ASSUME IInv, NEW w \in Worker, WorkerStep(w), WorkerFrame(w)
  PROVE  /\ \A m \in DOMAIN url_list : running_thread'[m] = running_thread[m] \/ Settled(m)'
         /\ \A m \in DOMAIN url_list' : m \notin DOMAIN url_list => running_thread'[m] = -2
<1> USE DEF IInv
<1>1. CASE InsertLink(w)
  BY <1>1, InsertFrame, Zenon DEF InsertLink, TypeOK, LocalsOK
<1>2. CASE GetPolicys(w)
  <2>1. no[w] \in Nat /\ pc[w] \in Holding /\ pc'[w] \notin Claimed
    BY <1>2, Zenon DEF GetPolicys, Goto, TypeOK, LocalsOK, Holding, Claimed, Early
  <2>2. \A m \in DOMAIN url_list : m # no[w] => running_thread'[m] = running_thread[m]
    BY <1>2, Zenon DEF GetPolicys, TypeOK, TablesOK
  <2>3. DOMAIN url_list' = DOMAIN url_list
    BY <1>2, Zenon DEF GetPolicys
  <2>. QED
    BY <2>1, <2>2, <2>3, HolderSettled, Zenon
<1>3. CASE FinishDecrement(w) \/ FinishStore(w)
  <2>1. no[w] \in Nat /\ Settled(no[w])
    BY <1>3, Zenon DEF FinishDecrement, FinishStore, Step, TypeOK, LocalsOK, FinishSettled
  <2>2. \A m \in DOMAIN url_list : m # no[w] => running_thread'[m] = running_thread[m]
    BY <1>3, Zenon DEF FinishDecrement, FinishStore, TypeOK, TablesOK
  <2>3. DOMAIN url_list' = DOMAIN url_list
    BY <1>3, Zenon DEF FinishDecrement, FinishStore
  <2>4. \A m \in Nat : m = no[w] => Settled(m)'
    BY <2>1, SettledStable, Zenon
  <2>. QED
    BY <2>1, <2>2, <2>3, <2>4, Zenon
<1>4. CASE UNCHANGED <<url_list, running_thread>>
  BY <1>4, Zenon
<1>. QED
  BY <1>1, <1>2, <1>3, <1>4, TablesFrame, Zenon

LEMMA NewUntilSettledStep ==
  ASSUME IInv, TypeOK', NEW w \in Worker, WorkerStep(w), WorkerFrame(w)
  PROVE  NewUntilSettled'
<1>1. ASSUME NEW v \in Worker, pc'[v] \in Holding PROVE no'[v] \in DOMAIN url_list'
  <2>1. CASE pc[v] \in Holding
    BY <1>1, <2>1, Zenon DEF IInv, NewUntilSettled, WorkerFrame, Owning, Holding, Early
  <2>2. CASE pc[v] \notin Holding
    <3>1. v = w /\ pc[v] = "fresh_get"
      BY <1>1, <2>2, Zenon DEF WorkerFrame, Owning, Holding, Early
    <3>2. FreshGet(w)
      BY <3>1, Zenon DEF WorkerStep, TakePull, TakePolicy, Fresh, FreshLoadNext, FreshEmpty,
      FreshLimit, FreshLoopLoad, FreshLoopTest, FreshTake, FreshGet, FreshCount,
      Crawling, DownloadFails, Download, InsertLink, GetPolicys, PushPolicy, Finish,
      FinishDecrement, FinishStore, FinishLoad, Step,
      FinishCount, Quit, QuitStart, QuitTest, QuitGet, QuitStore, QuitNext,
      FinishedOne, Remain, RemainLoadNext, RemainLoadWork, RemainLoadCount,
      PushPull
    <3>. QED
      BY <1>1, <3>1, <3>2, Zenon DEF FreshGet, Goto, tables, locals, IInv, TypeOK, LocalsOK, Holding, Early
  <2>. QED
    BY <2>1, <2>2, Zenon
<1>2. ASSUME NEW m \in DOMAIN url_list', ~Settled(m)' PROVE running_thread'[m] = -2
  <2>1. m \in Nat
    BY DEF TypeOK, TablesOK
  <2>2. CASE m \in DOMAIN url_list
    <3>1. ~Settled(m)
      BY <1>2, <2>1, SettledStable, Zenon DEF IInv
    <3>. QED
      BY <1>2, <2>2, <3>1, RunningThreadStep, Zenon DEF IInv, NewUntilSettled
  <2>3. CASE m \notin DOMAIN url_list
    BY <2>3, RunningThreadStep, Zenon
  <2>. QED
    BY <2>2, <2>3, Zenon
<1>. QED
  BY <1>1, <1>2, Zenon DEF NewUntilSettled

LEMMA QueueStep ==
  ASSUME TypeOK, NEW w \in Worker, WorkerStep(w), NEW k \in 1 .. Len(queue')
  PROVE  \/ queue'[k] = Pull
         \/ \E j \in 1 .. Len(queue) : queue'[k] = queue[j]
         \/ PushPolicy(w) /\ queue'[k] = RunPolicy(no[w])
<1>1. CASE TakePull(w) \/ TakePolicy(w)
  BY <1>1 DEF TakePull, TakePolicy, TypeOK, TaskOK
<1>2. CASE PushPolicy(w)
  BY <1>2 DEF PushPolicy, TypeOK, TaskOK
<1>3. CASE PushPull(w)
  BY <1>3 DEF PushPull, TypeOK, TaskOK
<1>4. CASE UNCHANGED queue
  BY <1>4, Zenon
<1>. QED
  BY <1>1, <1>2, <1>3, <1>4, QueueFrame, Zenon

\* Only a holder, a finisher or a policy job comes to finished_one_url.
LEMMA ComesToFinish ==
  ASSUME TypeOK, NEW w \in Worker, WorkerStep(w),
         pc'[w] \in {"finish", "finish_store", "finish_load"}
  PROVE  \/ pc[w] \in Holding /\ no'[w] = no[w]
         \/ pc[w] \in {"finish", "finish_store", "finish_load"} /\ no'[w] = no[w]
         \/ queue # <<>> /\ Head(queue) # Pull /\ no'[w] = Head(queue).no
<1> USE DEF TypeOK, LocalsOK, Step, Goto
<1>1. CASE TakePull(w) \/ TakePolicy(w)
  BY <1>1, ReturnFrame, Zenon DEF TakePull, TakePolicy
<1>2. CASE Fresh(w)
  BY <1>2, ReturnFrame, Zenon DEF Fresh, FreshLoadNext, FreshEmpty, FreshLimit, FreshLoopLoad,
      FreshLoopTest, FreshTake, FreshGet, FreshCount
<1>3. CASE Crawling(w)
  BY <1>3, Zenon DEF Crawling, DownloadFails, Download, InsertLink, GetPolicys, PushPolicy,
              locals, Holding, Early
<1>4. CASE Finish(w)
  BY <1>4, FinishedFrame, Zenon DEF Finish, FinishDecrement, FinishStore, FinishLoad,
                             FinishCount, locals
<1>5. CASE Quit(w)
  BY <1>5, FinishedFrame, Zenon DEF Quit, QuitStart, QuitTest, QuitGet, QuitStore, QuitNext,
                             FinishedOne
<1>6. CASE Remain(w)
  BY <1>6, ReturnFrame, Zenon DEF Remain, RemainLoadNext, RemainLoadWork, RemainLoadCount,
                           PushPull
<1>. QED
  BY <1>1, <1>2, <1>3, <1>4, <1>5, <1>6, Zenon DEF WorkerStep

LEMMA FinishSettledStep ==
  ASSUME IInv, TypeOK', NEW w \in Worker, WorkerStep(w), WorkerFrame(w)
  PROVE  FinishSettled'
<1> DEFINE Good(m) == m \in DOMAIN url_list /\ Settled(m)
<1> USE DEF IInv
<1>1. \A m \in Nat : Good(m) => Good(m)'
  BY SettledStable, Zenon DEF WorkerFrame
<1>2. \A k \in 1 .. Len(queue) : queue[k] # Pull => queue[k].no \in Nat /\ Good(queue[k].no)
  <2>1. \A k \in 1 .. Len(queue) : queue[k] \in Job
    BY DEF TypeOK, TaskOK
  <2>2. \A x \in Job : x.no \in Nat
    BY Zenon DEF Job, Pull
  <2>. QED
    BY <2>1, <2>2, Zenon DEF FinishSettled
<1>3. pc[w] \in Holding /\ pc'[w] \notin Claimed =>
        \A m \in Nat : m = no[w] => Good(m)'
  BY HolderSettled, Zenon DEF NewUntilSettled, WorkerFrame
<1>4. ASSUME NEW v \in Worker, pc'[v] \in {"finish", "finish_store", "finish_load"}
      PROVE  no'[v] \in DOMAIN url_list' /\ Settled(no[v])'
  <2>1. CASE v # w
    <3>1. no'[v] = no[v] /\ no[v] \in Nat /\ Good(no[v])
      BY <1>4, <2>1, Zenon DEF WorkerFrame, FinishSettled, TypeOK, LocalsOK
    <3>. QED
      BY <1>1, <3>1, Zenon DEF Settled
  <2>2. CASE v = w
    <3>1. pc'[w] \notin Claimed /\ no[w] \in Nat
      BY <1>4, <2>2, Zenon DEF Claimed, Early, TypeOK, LocalsOK
    <3>2. CASE pc[w] \in Holding /\ no'[w] = no[w]
      BY <1>3, <2>2, <3>1, <3>2, Zenon DEF Settled
    <3>3. CASE pc[w] \in {"finish", "finish_store", "finish_load"} /\ no'[w] = no[w]
      BY <1>1, <2>2, <3>1, <3>3, Zenon DEF Settled, FinishSettled
    <3>4. CASE queue # <<>> /\ Head(queue) # Pull /\ no'[w] = Head(queue).no
      <4>1. 1 \in 1 .. Len(queue) /\ Head(queue) = queue[1]
        BY <3>4 DEF TypeOK, TaskOK
      <4>2. no'[w] \in Nat /\ Good(Head(queue).no)
        BY <1>2, <3>4, <4>1, Zenon
      <4>. QED
        BY <1>1, <2>2, <3>4, <4>2, Zenon DEF Settled
    <3>. QED
      BY <1>4, <2>2, <3>2, <3>3, <3>4, ComesToFinish, Zenon
  <2>. QED
    BY <2>1, <2>2, Zenon
<1>5. ASSUME NEW k \in 1 .. Len(queue'), queue'[k] # Pull
      PROVE  queue'[k].no \in DOMAIN url_list' /\ Settled(queue[k].no)'
  <2>1. CASE \E j \in 1 .. Len(queue) : queue'[k] = queue[j]
    BY <1>1, <1>2, <1>5, <2>1, Zenon DEF Settled
  <2>2. CASE PushPolicy(w) /\ queue'[k] = RunPolicy(no[w])
    <3>1. pc[w] \in Holding /\ pc'[w] \notin Claimed /\ no[w] \in Nat /\ queue'[k].no = no[w]
      BY <2>2 DEF PushPolicy, Goto, RunPolicy, Holding, Claimed, Early, TypeOK, LocalsOK
    <3>. QED
      BY <1>3, <3>1, Zenon DEF Settled
  <2>. QED
    BY <1>5, <2>1, <2>2, QueueStep, Zenon DEF Pull
<1>. QED
  BY <1>4, <1>5, Zenon DEF FinishSettled, Pull

(***************************************************************************)
(* The moves of a scan.                                                    *)
(***************************************************************************)
Scan == {"quit_test", "quit_get", "quit_store", "quit_next", "finished_one"}

ScanMove(w) ==
  \/ pc'[w] = "quit_test" /\ i'[w] = finished_no
  \/ pc[w] = "quit_next" /\ pc'[w] = "quit_test" /\ i'[w] = i[w] + 1
  \/ /\ i'[w] = i[w]
     /\ \/ pc[w] = "quit_test" /\ pc'[w] = "quit_get" /\ i[w] < next_no
        \/ pc[w] = "quit_test" /\ pc'[w] = "finished_one" /\ ~(i[w] < next_no)
        \/ /\ pc[w] = "quit_get" /\ pc'[w] \in {"quit_store", "quit_next"}
           /\ i[w] \in DOMAIN url_list => running_thread[i[w]] = -1
        \/ pc[w] = "quit_store" /\ pc'[w] = "quit_next"

LEMMA ScanStep ==
  ASSUME TypeOK, NEW w \in Worker, WorkerStep(w)
  PROVE  /\ \/ finished_no' = finished_no
            \/ pc[w] = "quit_store" /\ finished_no' = i[w]
         /\ pc'[w] \in Scan => ScanMove(w)
<1> USE DEF TypeOK, LocalsOK, Step, Goto, Scan
<1>1. CASE TakePull(w) \/ TakePolicy(w)
  BY <1>1, ReturnFrame, Zenon DEF TakePull, TakePolicy, counters
<1>2. CASE Fresh(w)
  BY <1>2, ReturnFrame, Zenon DEF Fresh, FreshLoadNext, FreshEmpty, FreshLimit, FreshLoopLoad,
      FreshLoopTest, FreshTake, FreshGet, FreshCount, counters
<1>3. CASE Crawling(w)
  BY <1>3, Zenon DEF Crawling, DownloadFails, Download, InsertLink, InsertNewUrl,
              InsertNewUrlFails, GetPolicys, PushPolicy, counters
<1>4. CASE Finish(w)
  BY <1>4, FinishedFrame, Zenon DEF Finish, FinishDecrement, FinishStore, FinishLoad,
                             FinishCount, counters
<1>5. CASE Quit(w)
  <2>1. CASE QuitStart(w)
    BY <2>1, Zenon DEF QuitStart, ScanMove, counters
  <2>2. CASE QuitTest(w)
    BY <2>2, Zenon DEF QuitTest, ScanMove, counters, locals
  <2>3. CASE QuitGet(w)
    BY <2>3, FinishedFrame, Zenon DEF QuitGet, ScanMove, counters, locals
  <2>4. CASE QuitStore(w) \/ QuitNext(w)
    BY <2>4, Zenon DEF QuitStore, QuitNext, ScanMove, counters, locals
  <2>5. CASE FinishedOne(w)
    BY <2>5, FinishedFrame, Zenon DEF FinishedOne, counters
  <2>. QED
    BY <1>5, <2>1, <2>2, <2>3, <2>4, <2>5, Zenon DEF Quit
<1>6. CASE Remain(w)
  BY <1>6, ReturnFrame, Zenon
  DEF Remain, RemainLoadNext, RemainLoadWork, RemainLoadCount, PushPull, counters
<1>. QED
  BY <1>1, <1>2, <1>3, <1>4, <1>5, <1>6, Zenon DEF WorkerStep

LEMMA ScanPassedStep ==
  ASSUME IInv, TypeOK', NEW w \in Worker, WorkerStep(w), WorkerFrame(w)
  PROVE  ScanPassed'
<1> USE DEF IInv
<1>1. \A m \in Nat : Passed(m) => Passed(m)'
  BY PassedStable, Zenon
<1>2. ASSUME NEW k \in Nat, \A m \in 0 .. k - 1 : Passed(m)
      PROVE  \A m \in 0 .. k - 1 : Passed(m)'
  BY <1>1, <1>2
<1>3. finished_no \in Nat /\ \A v \in Worker : i[v] \in Nat
  BY Zenon DEF TypeOK, CountersOK, LocalsOK
<1>4. next_no \in Nat /\ next_no' \in Nat /\ next_no' >= next_no
  BY DEF WorkerFrame, TypeOK, CountersOK
<1>5. \A m \in 0 .. finished_no' - 1 : Passed(m)'
  BY <1>2, <1>3, ScanStep, Zenon DEF ScanPassed
<1>6. ASSUME NEW v \in Worker, v # w
      PROVE  /\ pc'[v] \in Scan => \A m \in 0 .. i'[v] - 1 : Passed(m)'
             /\ pc'[v] \in {"quit_store", "quit_next"} => Passed(i[v])'
             /\ pc'[v] = "quit_get" => i'[v] < next_no'
  <2>1. pc'[v] = pc[v] /\ i'[v] = i[v] /\ i[v] \in Nat
    BY <1>3, <1>6, Zenon DEF WorkerFrame
  <2>2. pc'[v] \in Scan => \A m \in 0 .. i'[v] - 1 : Passed(m)'
    BY <1>2, <2>1, Zenon DEF ScanPassed, Scan
  <2>3. pc'[v] \in {"quit_store", "quit_next"} => Passed(i[v])'
    <3>1. pc[v] \in {"quit_store", "quit_next"} => Passed(i[v])
      BY Zenon DEF ScanPassed
    <3>. QED
      BY <1>1, <2>1, <3>1, Zenon DEF Passed, Settled
  <2>4. pc'[v] = "quit_get" => i'[v] < next_no'
    <3>1. pc[v] = "quit_get" => i[v] < next_no
      BY Zenon DEF ScanPassed
    <3>. QED
      BY <1>4, <2>1, <3>1
  <2>. QED
    BY <2>2, <2>3, <2>4, Zenon
<1>7. /\ pc'[w] \in Scan => \A m \in 0 .. i'[w] - 1 : Passed(m)'
      /\ pc'[w] \in {"quit_store", "quit_next"} => Passed(i[w])'
      /\ pc'[w] = "quit_get" => i'[w] < next_no'
  <2>1. i[w] \in Nat /\ (pc'[w] \in Scan => ScanMove(w))
    BY <1>3, ScanStep, Zenon
  <2>2. ASSUME pc'[w] \in Scan PROVE \A m \in 0 .. i'[w] - 1 : Passed(m)'
    <3>1. \A m \in 0 .. i'[w] - 1 : Passed(m)
      BY <1>3, <2>1, <2>2 DEF ScanMove, ScanPassed
    <3>2. i'[w] \in Nat
      BY Zenon DEF TypeOK, LocalsOK
    <3>. QED
      BY <1>2, <3>1, <3>2, Zenon
  <2>3. ASSUME pc'[w] \in {"quit_store", "quit_next"} PROVE Passed(i[w])'
    <3>1. i'[w] = i[w] /\ pc[w] \in {"quit_get", "quit_store"}
      BY <2>1, <2>3, Zenon DEF ScanMove, Scan
    <3>2. i[w] \in DOMAIN url_list /\ pc[w] = "quit_get" => running_thread[i[w]] = -1
      BY <2>1, <2>3, Zenon DEF ScanMove, Scan
    <3>3. Passed(i[w])
      BY <3>1, <3>2 DEF ScanPassed, NewUntilSettled, Passed
    <3>. QED
      BY <1>1, <2>1, <3>1, <3>3, Zenon DEF Passed, Settled
  <2>4. ASSUME pc'[w] = "quit_get" PROVE i'[w] < next_no'
    BY <1>4, <2>1, <2>4 DEF ScanMove, Scan
  <2>. QED
    BY <2>2, <2>3, <2>4, Zenon
<1>. QED
  BY <1>5, <1>6, <1>7, Zenon DEF ScanPassed, Scan

\* A step that clears start_ptr, or comes to finished_one, ends a scan.
LEMMA EndStep ==
  ASSUME TypeOK, NEW w \in Worker, WorkerStep(w)
  PROVE  /\ start_pc' = start_pc
         /\ start_ptr' # start_ptr => pc[w] = "finished_one"
<1> USE DEF task, Step
<1>1. CASE TakePull(w) \/ TakePolicy(w)
  BY <1>1, Zenon DEF TakePull, TakePolicy
<1>2. CASE Fresh(w)
  BY <1>2, Zenon DEF Fresh, FreshLoadNext, FreshEmpty, FreshLimit, FreshLoopLoad,
      FreshLoopTest, FreshTake, FreshGet, FreshCount
<1>3. CASE Crawling(w)
  BY <1>3, Zenon DEF Crawling, DownloadFails, Download, InsertLink, GetPolicys, PushPolicy
<1>4. CASE Finish(w)
  BY <1>4, Zenon DEF Finish, FinishDecrement, FinishStore, FinishLoad, FinishCount
<1>5. CASE Quit(w)
  BY <1>5, Zenon DEF Quit, QuitStart, QuitTest, QuitGet, QuitStore, QuitNext, FinishedOne
<1>6. CASE Remain(w)
  BY <1>6, Zenon DEF Remain, RemainLoadNext, RemainLoadWork, RemainLoadCount, PushPull
<1>. QED
  BY <1>1, <1>2, <1>3, <1>4, <1>5, <1>6, Zenon DEF WorkerStep

LEMMA EndPassedStep ==
  ASSUME IInv, TypeOK', NEW w \in Worker, WorkerStep(w), WorkerFrame(w)
  PROVE  EndPassed'
<1> USE DEF IInv
<1>1. CASE start_ptr = "null" \/ \E v \in Worker : pc[v] = "finished_one"
  <2>1. AllPassed
    BY <1>1, Zenon DEF EndPassed
  <2>. QED
    BY <2>1, AllPassedStable, Zenon DEF EndPassed
<1>2. CASE start_ptr # "null" /\ \A v \in Worker : pc[v] # "finished_one"
  <2>1. start_ptr' # "null"
    BY <1>2, EndStep, Zenon
  <2>2. ASSUME NEW v \in Worker, pc'[v] = "finished_one" PROVE AllPassed'
    <3>1. v = w
      BY <1>2, <2>2, Zenon DEF WorkerFrame
    <3>2. pc[w] = "quit_test" /\ ~(i[w] < next_no)
      BY <2>2, <3>1, ScanStep, Zenon DEF ScanMove, Scan
    <3>3. \A m \in 0 .. i[w] - 1 : Passed(m)
      BY <3>2, Zenon DEF ScanPassed
    <3>4. AllPassed
      BY <3>2, <3>3 DEF AllPassed, TypeOK, CountersOK, LocalsOK
    <3>. QED
      BY <3>4, AllPassedStable, Zenon
  <2>. QED
    BY <2>1, <2>2, Zenon DEF EndPassed
<1>. QED
  BY <1>1, <1>2, Zenon

\* No worker moves before task_work::start has pushed the first job.
LEMMA WorkerRuns ==
  ASSUME IInv, NEW w \in Worker, WorkerStep(w)
  PROVE  start_pc = "success" /\ start_pc' = "success"
<1>1. CASE pc[w] # "idle"
  BY <1>1, EndStep, Zenon DEF IInv, NotStarted
<1>2. CASE pc[w] = "idle"
  <2>1. queue # <<>>
    BY <1>2, Zenon DEF WorkerStep, TakePull, TakePolicy, Fresh, FreshLoadNext, FreshEmpty,
    FreshLimit, FreshLoopLoad, FreshLoopTest, FreshTake, FreshGet, FreshCount,
    Crawling, DownloadFails, Download, InsertLink, GetPolicys, PushPolicy, Finish,
    FinishDecrement, FinishStore, FinishLoad, Step,
    FinishCount, Quit, QuitStart, QuitTest, QuitGet, QuitStore, QuitNext,
    FinishedOne, Remain, RemainLoadNext, RemainLoadWork, RemainLoadCount,
    PushPull
  <2>. QED
    BY <2>1, EndStep, Zenon DEF IInv, NotStarted
<1>. QED
  BY <1>1, <1>2, Zenon

LEMMA WorkerStepInv ==
  ASSUME IInv, NEW w \in Worker, WorkerStep(w)
  PROVE  IInv'
<1>1. TypeOK' /\ WorkerFrame(w)
  BY TakeType, FreshType, CrawlingType, FinishType, QuitType, RemainType, StepFrame, Zenon
  DEF WorkerStep, IInv
<1>2. start_pc' = "success"
  BY WorkerRuns, Zenon
<1>. QED
  BY <1>1, <1>2, OwnershipStep, NewUntilSettledStep, FinishSettledStep,
     ScanPassedStep, EndPassedStep, Zenon
  DEF IInv, NotStarted

LEMMA InitInv == Init => IInv
<1> SUFFICES ASSUME Init PROVE IInv
  OBVIOUS
<1>1. TypeOK
  BY InitTypeOK, Zenon
<1>2. NotStarted /\ Ownership /\ NewUntilSettled
  BY Zenon DEF Init, NotStarted, Ownership, NewUntilSettled, Holding, Owning, Early
<1>3. FinishSettled
  BY DEF Init, FinishSettled
<1>4. ScanPassed /\ EndPassed
  BY DEF Init, ScanPassed, EndPassed
<1>. QED
  BY <1>1, <1>2, <1>3, <1>4, Zenon DEF IInv, Init

LEMMA StartInv ==
  ASSUME IInv, Start PROVE IInv'
<1> USE DEF IInv
<1>1. TypeOK'
  BY StartType, Zenon
<1>2. /\ start_pc # "success" /\ queue = <<>> /\ start_ptr = "set"
      /\ \A w \in Worker : pc[w] = "idle"
  BY Zenon DEF Start, StartInsertNew, StartCheckMain, StartInsertMain, StartPush,
         NotStarted, TypeOK, TaskOK
<1>3. /\ pc' = pc /\ no' = no /\ i' = i /\ start_ptr' = start_ptr
      /\ next_work_no' = next_work_no /\ finished_no' = finished_no
  BY Zenon DEF Start, StartInsertNew, StartCheckMain, StartInsertMain, StartPush,
         InsertNewUrl, InsertNewUrlFails, counters, task, locals
<1>4. NotStarted' /\ Ownership'
  BY <1>2, <1>3, Zenon DEF Start, StartInsertNew, StartCheckMain, StartInsertMain,
     StartPush, task, NotStarted, Ownership, Owning, Holding, Early
<1>5. \/ next_no' = next_no /\ UNCHANGED <<url_list, running_thread>>
      \/ /\ next_no' = next_no + 1
         /\ DOMAIN url_list' \subseteq DOMAIN url_list \cup {next_no}
         /\ \A m \in DOMAIN url_list : running_thread'[m] = running_thread[m]
         /\ \A m \in DOMAIN url_list' : m \notin DOMAIN url_list => running_thread'[m] = -2
  BY InsertFrame, CrawlAssumption, Zenon DEF Start, StartInsertNew, StartCheckMain,
     StartInsertMain, StartPush, counters, tables
<1>6. \A m \in Nat : Settled(m) => Settled(m)'
  BY <1>3, Zenon DEF Settled
<1>7. NewUntilSettled'
  <2>1. \A w \in Worker : pc'[w] \notin Holding
    BY <1>2, <1>3, Zenon DEF Holding, Early
  <2>2. ASSUME NEW m \in DOMAIN url_list', ~Settled(m)' PROVE running_thread'[m] = -2
    <3>1. m \in Nat
      BY <1>1 DEF TypeOK, TablesOK
    <3>. QED
      BY <1>5, <1>6, <2>2, <3>1, Zenon DEF NewUntilSettled
  <2>. QED
    BY <2>1, <2>2, Zenon DEF NewUntilSettled
<1>8. FinishSettled'
  <2>1. \A k \in 1 .. Len(queue') : queue'[k] = Pull
    BY <1>2 DEF Start, StartInsertNew, StartCheckMain, StartInsertMain, StartPush, task
  <2>. QED
    BY <1>2, <1>3, <2>1, Zenon DEF FinishSettled, Pull
<1>9. ScanPassed'
  <2>1. \A m \in Nat : Passed(m) => Passed(m)'
    BY <1>5, <1>6 DEF Passed, TypeOK, CountersOK
  <2>2. \A m \in 0 .. finished_no' - 1 : Passed(m)'
    BY <1>3, <2>1 DEF ScanPassed
  <2>. QED
    BY <1>2, <1>3, <2>2, Zenon DEF ScanPassed
<1>10. EndPassed'
  BY <1>2, <1>3, Zenon DEF EndPassed
<1>. QED
  BY <1>1, <1>2, <1>3, <1>4, <1>7, <1>8, <1>9, <1>10, Zenon

(***************************************************************************)
(* The inductive invariant holds of every behaviour of the crawl, for any  *)
(* number of threads, urls, policies and memory errors.                    *)
(***************************************************************************)
THEOREM InvariantHolds == Spec => []IInv
<1>1. IInv /\ [Next]_vars => IInv'
  <2> SUFFICES ASSUME IInv, [Next]_vars PROVE IInv'
    OBVIOUS
  <2>1. CASE Start
    BY <2>1, StartInv, Zenon
  <2>2. ASSUME NEW w \in Worker, WorkerStep(w) PROVE IInv'
    BY <2>2, WorkerStepInv, Zenon
  <2>3. CASE UNCHANGED vars
    BY <2>3, Zenon DEF vars, counters, tables, task, locals, IInv, TypeOK, CountersOK,
       TablesOK, TaskOK, LocalsOK, NotStarted, Ownership, NewUntilSettled,
       FinishSettled, ScanPassed, EndPassed, AllPassed, Passed, Settled
  <2>. QED
    BY <2>1, <2>2, <2>3, Zenon DEF Next
<1>. QED
  BY InitInv, <1>1, PTL DEF Spec

(***************************************************************************)
(* pull_and_download_url never dereferences a start_ptr that finished_one  *)
(* has cleared: the scan of test_task_finished_quit cannot reach the end   *)
(* of the list while a worker still has links to insert.                   *)
(***************************************************************************)
THEOREM StartPtrAliveHolds == Spec => []StartPtrAlive
<1>1. IInv => StartPtrAlive
  BY NobodyEarly, Zenon DEF IInv, EndPassed, StartPtrAlive, TypeOK, TaskOK
<1>. QED
  BY InvariantHolds, <1>1, PTL

(***************************************************************************)
(* fresh_one_url gives a url to one worker, whatever the interleaving of   *)
(* its loads of next_work_no with other workers' increments.               *)
(***************************************************************************)
THEOREM HandedOutOnceHolds == Spec => []HandedOutOnce
<1>1. IInv => HandedOutOnce
  BY Zenon DEF IInv, Ownership, Owning, HandedOutOnce
<1>. QED
  BY InvariantHolds, <1>1, PTL

-----------------------------------------------------------------------------
(***************************************************************************)
(* Occurrences of a job in a queue.                                        *)
(***************************************************************************)
Occ(q, x) == {k \in 1 .. Len(q) : q[k] = x}

LEMMA OccFinite ==
  ASSUME NEW q \in Seq(Job), NEW x
  PROVE  /\ IsFiniteSet(Occ(q, x)) /\ Cardinality(Occ(q, x)) \in Nat
         /\ (Cardinality(Occ(q, x)) = 0 <=> Occ(q, x) = {})
<1>1. IsFiniteSet(1 .. Len(q))
  BY FS_Interval
<1>2. IsFiniteSet(Occ(q, x))
  BY <1>1, FS_Subset, Zenon DEF Occ
<1>. QED
  BY <1>2, FS_CardinalityType, FS_EmptySet, Zenon

LEMMA OccAppend ==
  ASSUME NEW q \in Seq(Job), NEW x \in Job, NEW y
  PROVE  Cardinality(Occ(Append(q, x), y)) =
           IF x = y THEN Cardinality(Occ(q, y)) + 1 ELSE Cardinality(Occ(q, y))
<1>1. CASE x = y
  <2>1. Occ(Append(q, x), y) = Occ(q, y) \cup {Len(q) + 1} /\ Len(q) + 1 \notin Occ(q, y)
    BY <1>1 DEF Occ
  <2>2. Cardinality(Occ(q, y) \cup {Len(q) + 1}) = Cardinality(Occ(q, y)) + 1
    BY <2>1, OccFinite, FS_AddElement, Zenon
  <2>. QED
    BY <1>1, <2>1, <2>2, Zenon
<1>2. CASE x # y
  <2>1. Occ(Append(q, x), y) = Occ(q, y)
    BY <1>2 DEF Occ
  <2>. QED
    BY <1>2, <2>1, Zenon
<1>. QED
  BY <1>1, <1>2, Zenon

LEMMA OccTail ==
  ASSUME NEW q \in Seq(Job), q # <<>>, NEW y
  PROVE  Cardinality(Occ(Tail(q), y)) =
           IF Head(q) = y THEN Cardinality(Occ(q, y)) - 1 ELSE Cardinality(Occ(q, y))
<1> DEFINE S == Occ(Tail(q), y)
           T == Occ(q, y) \ {1}
           f == [k \in S |-> k + 1]
<1>1. IsFiniteSet(S)
  <2>1. Tail(q) \in Seq(Job)
    OBVIOUS
  <2>. QED
    BY <2>1, OccFinite, Zenon
<1>2. Len(q) \in Nat \ {0} /\ Len(Tail(q)) = Len(q) - 1 /\ Head(q) = q[1]
      /\ \A k \in 1 .. Len(q) - 1 : Tail(q)[k] = q[k + 1]
  OBVIOUS
<1>3. f \in [S -> T] /\ \A a, b \in S : f[a] = f[b] => a = b
  BY <1>2 DEF Occ
<1>4. \A t \in T : \E s \in S : f[s] = t
  <2> SUFFICES ASSUME NEW t \in T PROVE \E s \in S : f[s] = t
    OBVIOUS
  <2>1. t \in 2 .. Len(q) /\ q[t] = y
    BY <1>2 DEF Occ
  <2>2. t - 1 \in S
    BY <1>2, <2>1 DEF Occ
  <2>. QED
    BY <2>1, <2>2
<1>5. ExistsBijection(S, T)
  <2>1. f \in Bijection(S, T)
    BY <1>3, <1>4, Zenon DEF Bijection, Injection, Surjection, IsInjective
  <2>. QED
    BY <2>1, Zenon DEF ExistsBijection
<1>6. Cardinality(T) = Cardinality(S)
  BY <1>1, <1>5, FS_Bijection, Zenon
<1>7. 1 \in Occ(q, y) <=> Head(q) = y
  BY <1>2 DEF Occ
<1>8. Cardinality(T) = IF 1 \in Occ(q, y) THEN Cardinality(Occ(q, y)) - 1 ELSE Cardinality(Occ(q, y))
  BY OccFinite, FS_RemoveElement, Zenon
<1>. QED
  BY <1>6, <1>7, <1>8, Zenon

-----------------------------------------------------------------------------
(***************************************************************************)
(* What running_thread of a url depends on.                                *)
(***************************************************************************)
Busy == {"finish", "push_policy", "finish_store"}

\* A step that changes nothing that counts for url m.
CalmAt(m) ==
  /\ running_thread'[m] = running_thread[m]
  /\ Cardinality(Queued(m))' = Cardinality(Queued(m))
  /\ Calling(m)' = Calling(m) /\ Pushing(m)' = Pushing(m) /\ Storing(m)' = Storing(m)
  /\ \A v \in Pushing(m) : n'[v] = n[v]

LEMMA QueuedFinite ==
  ASSUME TypeOK, NEW m
  PROVE  /\ Cardinality(Queued(m)) \in Nat
         /\ (Cardinality(Queued(m)) = 0 <=> Queued(m) = {})
<1>1. Queued(m) = Occ(queue, RunPolicy(m)) /\ queue \in Seq(Job)
  BY Zenon DEF Queued, Occ, TypeOK, TaskOK
<1>. QED
  BY <1>1, OccFinite, Zenon

LEMMA CalmCounted ==
  ASSUME TypeOK, TypeOK', NEW m, Counted(m), CalmAt(m)
  PROVE  Counted(m)'
<1>1. Queued(m)' = {} <=> Queued(m) = {}
  <2>1. /\ Queued(m) = Occ(queue, RunPolicy(m)) /\ queue \in Seq(Job)
        /\ Queued(m)' = Occ(queue', RunPolicy(m)) /\ queue' \in Seq(Job)
    BY Zenon DEF Queued, Occ, TypeOK, TaskOK, RunPolicy
  <2>. QED
    BY <2>1, OccFinite, Zenon DEF CalmAt
<1>2. ToCome(m)' = ToCome(m)
  <2>1. CASE Pushing(m) = {}
    BY <2>1, Zenon DEF ToCome, CalmAt
  <2>2. CASE Pushing(m) # {}
    <3>1. (CHOOSE w \in Pushing(m) : TRUE) \in Pushing(m)
      BY <2>2, Zenon
    <3>. QED
      BY <3>1 DEF ToCome, CalmAt
  <2>. QED
    BY <2>1, <2>2, Zenon
<1>. QED
  BY <1>1, <1>2, Zenon DEF Counted, CalmAt

\* The threads at work on url m are the same when the thread that moves is not one
\* of them before or after its step.
LEMMA OthersCalm ==
  ASSUME TypeOK, NEW w \in Worker, WorkerFrame(w), NEW m,
         pc[w] \in Busy => no[w] # m, pc'[w] \in Busy => no'[w] # m
  PROVE  Calling(m)' = Calling(m) /\ Pushing(m)' = Pushing(m) /\ Storing(m)' = Storing(m)
  BY Zenon DEF Calling, Pushing, Storing, Busy, WorkerFrame

LEMMA OthersLoaded ==
  ASSUME TypeOK, NEW w \in Worker, WorkerStep(w)
  PROVE  \A v \in Worker \ {w} : n'[v] = n[v]
<1> USE DEF TypeOK, LocalsOK, Load, Return, locals
<1>1. CASE TakePull(w) \/ TakePolicy(w)
  BY <1>1, Zenon DEF TakePull, TakePolicy
<1>2. CASE Fresh(w)
  BY <1>2, Zenon DEF Fresh, FreshLoadNext, FreshEmpty, FreshLimit, FreshLoopLoad,
      FreshLoopTest, FreshTake, FreshGet, FreshCount
<1>3. CASE Crawling(w)
  BY <1>3, Zenon DEF Crawling, DownloadFails, Download, InsertLink, GetPolicys, PushPolicy
<1>4. CASE Finish(w)
  BY <1>4, Zenon DEF Finish, FinishDecrement, FinishStore, FinishLoad, FinishCount, Finished
<1>5. CASE Quit(w)
  BY <1>5, Zenon DEF Quit, QuitStart, QuitTest, QuitGet, QuitStore, QuitNext, FinishedOne, Finished
<1>6. CASE Remain(w)
  BY <1>6, Zenon DEF Remain, RemainLoadNext, RemainLoadWork, RemainLoadCount, PushPull
<1>. QED
  BY <1>1, <1>2, <1>3, <1>4, <1>5, <1>6, Zenon DEF WorkerStep

\* A number without a url has no job and no thread.
LEMMA NoUrlIdle ==
  ASSUME IInv, NEW m \in Nat, m \notin DOMAIN url_list
  PROVE  Queued(m) = {} /\ Calling(m) = {} /\ Pushing(m) = {} /\ Storing(m) = {}
<1>1. Queued(m) = {}
  BY DEF IInv, FinishSettled, Queued, RunPolicy, Pull
<1>2. Calling(m) = {} /\ Storing(m) = {}
  BY Zenon DEF IInv, FinishSettled, Calling, Storing
<1>3. Pushing(m) = {}
  BY Zenon DEF IInv, NewUntilSettled, Holding, Pushing
<1>. QED
  BY <1>1, <1>2, <1>3, Zenon

\* Only these steps can change what counts for a url; the others are calm.
CalmStep(w) ==
  \/ TakePull(w) \/ Fresh(w) \/ Download(w) \/ InsertLink(w) \/ FinishLoad(w)
  \/ FinishCount(w) \/ Quit(w) \/ Remain(w)

LEMMA QueuedSame ==
  ASSUME TypeOK, NEW w \in Worker, CalmStep(w), NEW m
  PROVE  Cardinality(Queued(m))' = Cardinality(Queued(m))
<1>0. queue \in Seq(Job) /\ Pull \in Job /\ Pull # RunPolicy(m)
  BY Zenon DEF TypeOK, TaskOK, Job, Pull, RunPolicy
<1>1. /\ Queued(m) = Occ(queue, RunPolicy(m))
      /\ Queued(m)' = Occ(queue', RunPolicy(m))
  BY Zenon DEF Queued, Occ, RunPolicy
<1>2. CASE TakePull(w)
  <2>1. queue # <<>> /\ Head(queue) = Pull /\ queue' = Tail(queue)
    BY <1>2, Zenon DEF TakePull
  <2>2. \A y : y # Pull => Cardinality(Occ(Tail(queue), y)) = Cardinality(Occ(queue, y))
    BY <1>0, <2>1, OccTail, Zenon
  <2>. QED
    BY <1>0, <1>1, <2>1, <2>2, Zenon
<1>3. CASE PushPull(w) /\ queue' = Append(queue, Pull)
  <2>1. \A y : y # Pull => Cardinality(Occ(Append(queue, Pull), y)) = Cardinality(Occ(queue, y))
    BY <1>0, OccAppend
  <2>. QED
    BY <1>0, <1>1, <1>3, <2>1, Zenon
<1>4. CASE UNCHANGED queue
  BY <1>1, <1>4, Zenon
<1>5. CASE Fresh(w)
  BY <1>4, <1>5, Zenon DEF Fresh, FreshLoadNext, FreshEmpty, FreshLimit, FreshLoopLoad,
      FreshLoopTest, FreshTake, FreshGet, FreshCount
<1>6. CASE Download(w) \/ InsertLink(w) \/ FinishLoad(w) \/ FinishCount(w)
  BY <1>4, <1>6, Zenon DEF Download, InsertLink, FinishLoad, FinishCount
<1>7. CASE Quit(w)
  BY <1>4, <1>7, Zenon DEF Quit, QuitStart, QuitTest, QuitGet, QuitStore, QuitNext, FinishedOne
<1>8. CASE Remain(w)
  BY <1>3, <1>4, <1>8, Zenon DEF Remain, RemainLoadNext, RemainLoadWork, RemainLoadCount, PushPull
<1>. QED
  BY <1>2, <1>5, <1>6, <1>7, <1>8, Zenon DEF CalmStep

LEMMA CalmPlaces ==
  ASSUME TypeOK, NEW w \in Worker, CalmStep(w)
  PROVE  /\ pc[w] \notin Busy /\ pc'[w] \notin Busy
         /\ \A m \in DOMAIN url_list : running_thread'[m] = running_thread[m]
<1> USE DEF TypeOK, LocalsOK, Step, Goto, Busy, tables
<1>1. CASE TakePull(w)
  BY <1>1, Zenon DEF TakePull
<1>2. CASE Fresh(w)
  BY <1>2, ReturnFrame, Zenon DEF Fresh, FreshLoadNext, FreshEmpty, FreshLimit, FreshLoopLoad,
      FreshLoopTest, FreshTake, FreshGet, FreshCount
<1>3. CASE Download(w)
  BY <1>3, Zenon DEF Download
<1>4. CASE InsertLink(w)
  BY <1>4, InsertFrame, Zenon DEF InsertLink
<1>5. CASE FinishLoad(w) \/ FinishCount(w)
  BY <1>5, FinishedFrame, Zenon DEF FinishLoad, FinishCount
<1>6. CASE Quit(w)
  BY <1>6, FinishedFrame, Zenon DEF Quit, QuitStart, QuitTest, QuitGet, QuitStore, QuitNext, FinishedOne
<1>7. CASE Remain(w)
  BY <1>7, ReturnFrame, Zenon DEF Remain, RemainLoadNext, RemainLoadWork, RemainLoadCount, PushPull
<1>. QED
  BY <1>1, <1>2, <1>3, <1>4, <1>5, <1>6, <1>7, SMTT(20) DEF CalmStep

LEMMA CalmStepCounted ==
  ASSUME IInv, CountInv, TypeOK', NEW w \in Worker, WorkerStep(w), CalmStep(w),
         NEW m \in DOMAIN url_list
  PROVE  Counted(m)'
<1>0. TypeOK /\ WorkerFrame(w) /\ Counted(m)
  BY StepFrame, Zenon DEF IInv, CountInv
<1>1. pc[w] \notin Busy /\ pc'[w] \notin Busy /\ running_thread'[m] = running_thread[m]
  BY <1>0, CalmPlaces, Zenon
<1>2. Calling(m)' = Calling(m) /\ Pushing(m)' = Pushing(m) /\ Storing(m)' = Storing(m)
  BY <1>0, <1>1, OthersCalm, Zenon
<1>3. \A v \in Pushing(m) : n'[v] = n[v]
  BY <1>0, <1>1, OthersLoaded, Zenon DEF Pushing, Busy
<1>4. CalmAt(m)
  BY <1>0, <1>1, <1>2, <1>3, QueuedSame, Zenon DEF CalmAt
<1>. QED
  BY <1>0, <1>4, CalmCounted, Zenon

\* A number that gets its url now.
LEMMA NewCounted ==
  ASSUME IInv, TypeOK', NEW w \in Worker, WorkerStep(w), NEW m \in DOMAIN url_list',
         m \notin DOMAIN url_list
  PROVE  Counted(m)'
<1>0. TypeOK /\ WorkerFrame(w) /\ m \in Nat
  BY StepFrame DEF IInv, TypeOK, TablesOK
<1>1. InsertLink(w)
  BY TablesFrame, Zenon DEF GetPolicys, FinishDecrement, FinishStore
<1>2. running_thread'[m] = -2
  BY <1>0, RunningThreadStep, Zenon
<1>3. pc[w] \notin Busy /\ pc'[w] \notin Busy /\ queue' = queue
  BY <1>0, <1>1, CalmPlaces, Zenon DEF CalmStep, InsertLink
<1>4. Queued(m)' = {} /\ Calling(m)' = {} /\ Pushing(m)' = {} /\ Storing(m)' = {}
  BY <1>0, <1>3, NoUrlIdle, OthersCalm, Zenon DEF Queued
<1>. QED
  BY <1>2, <1>4 DEF Counted

-----------------------------------------------------------------------------
(***************************************************************************)
(* The steps that are not calm.  For the other urls they are.              *)
(***************************************************************************)
LEMMA OtherUrl ==
  ASSUME IInv, CountInv, TypeOK', NEW w \in Worker, WorkerStep(w), NEW m \in DOMAIN url_list,
         running_thread'[m] = running_thread[m],
         Cardinality(Queued(m))' = Cardinality(Queued(m)),
         pc[w] \in Busy => no[w] # m, pc'[w] \in Busy => no'[w] # m
  PROVE  Counted(m)'
<1>0. TypeOK /\ WorkerFrame(w) /\ Counted(m)
  BY StepFrame, Zenon DEF IInv, CountInv
<1>1. Calling(m)' = Calling(m) /\ Pushing(m)' = Pushing(m) /\ Storing(m)' = Storing(m)
  BY <1>0, OthersCalm, Zenon
<1>2. \A v \in Pushing(m) : n'[v] = n[v]
  BY <1>0, OthersLoaded, Zenon DEF Pushing, Busy
<1>. QED
  BY <1>0, <1>1, <1>2, CalmCounted, Zenon DEF CalmAt

\* The threads that call, push and store are finitely many.
LEMMA CallingFinite ==
  ASSUME NEW m
  PROVE  IsFiniteSet(Calling(m)) /\ Cardinality(Calling(m)) \in Nat
<1>1. Calling(m) \subseteq Worker /\ IsFiniteSet(Worker)
  BY CrawlAssumption, Zenon DEF Calling
<1>2. IsFiniteSet(Calling(m))
  BY <1>1, FS_Subset, Zenon
<1>. QED
  BY <1>2, FS_CardinalityType, Zenon

\* Nobody else has anything to do with the url that a worker downloads.
LEMMA EarlyAlone ==
  ASSUME IInv, CountInv, NEW w \in Worker, pc[w] \in Early, NEW m, m = no[w]
  PROVE  /\ m \in DOMAIN url_list /\ running_thread[m] = -2
         /\ Queued(m) = {} /\ Calling(m) = {} /\ Pushing(m) = {} /\ Storing(m) = {}
<1>1. m \in DOMAIN url_list /\ ~Settled(m)
  BY Zenon DEF IInv, NewUntilSettled, Settled, Holding, Claimed
<1>2. running_thread[m] = -2
  BY <1>1, Zenon DEF IInv, NewUntilSettled
<1>3. Calling(m) = {} /\ Storing(m) = {}
  BY <1>1, Zenon DEF IInv, FinishSettled, Calling, Storing
<1>4. Queued(m) = {} /\ Pushing(m) = {}
  BY <1>1, <1>2 DEF CountInv, Counted
<1>. QED
  BY <1>1, <1>2, <1>3, <1>4, Zenon

\* The url goes to finished_one_url without policies.
LEMMA ToFinishCounted ==
  ASSUME IInv, CountInv, TypeOK', NEW w \in Worker, WorkerStep(w),
         DownloadFails(w) \/ GetPolicys(w), pc'[w] = "finish", NEW m \in DOMAIN url_list
  PROVE  Counted(m)'
<1>0. TypeOK /\ WorkerFrame(w)
  BY StepFrame, Zenon DEF IInv
<1>1. pc[w] \in Early /\ no'[w] = no[w] /\ queue' = queue
  BY Zenon DEF DownloadFails, GetPolicys, Step, locals, Early
<1>2. running_thread' = running_thread
  BY Zenon DEF DownloadFails, GetPolicys, Goto, tables, IInv, TypeOK, LocalsOK
<1>3. CASE m # no[w]
  BY <1>1, <1>2, <1>3, OtherUrl, Zenon DEF Queued, Busy, Early
<1>4. CASE m = no[w]
  <2>1. /\ running_thread[m] = -2
        /\ Queued(m) = {} /\ Calling(m) = {} /\ Pushing(m) = {} /\ Storing(m) = {}
    BY <1>1, <1>4, EarlyAlone, Zenon
  <2>2. Queued(m)' = {} /\ Calling(m)' \subseteq {w} /\ Pushing(m)' = {} /\ Storing(m)' = {}
    BY <1>0, <1>1, <2>1 DEF Queued, Calling, Pushing, Storing, WorkerFrame
  <2>. QED
    BY <1>2, <2>1, <2>2 DEF Counted
<1>. QED
  BY <1>3, <1>4, Zenon

\* get_policys found k policies: k jobs to push, and the call of this thread.
LEMMA GetPolicysCounted ==
  ASSUME IInv, CountInv, TypeOK', NEW w \in Worker, WorkerStep(w),
         GetPolicys(w), pc'[w] # "finish", NEW m \in DOMAIN url_list
  PROVE  Counted(m)'
<1>0. TypeOK /\ WorkerFrame(w)
  BY StepFrame, Zenon DEF IInv
<1>1. pc[w] \in Early /\ no'[w] = no[w] /\ queue' = queue /\ pc'[w] = "push_policy"
  BY <1>0, Zenon DEF GetPolicys, Goto, Early, TypeOK, LocalsOK
<1>2. /\ n'[w] \in Nat \ {0}
      /\ running_thread' = [running_thread EXCEPT ![no[w]] = n'[w] + 1]
  BY <1>0, <1>1, CrawlAssumption DEF GetPolicys, Load, Goto, TypeOK, LocalsOK
<1>3. CASE m # no[w]
  <2>1. running_thread'[m] = running_thread[m]
    BY <1>0, <1>2, <1>3, Zenon DEF TypeOK, TablesOK
  <2>. QED
    BY <1>1, <1>3, <2>1, OtherUrl, Zenon DEF Queued, Busy, Early
<1>4. CASE m = no[w]
  <2>1. Queued(m) = {} /\ Calling(m) = {} /\ Pushing(m) = {} /\ Storing(m) = {}
    BY <1>1, <1>4, EarlyAlone, Zenon
  <2>2. running_thread'[m] = n'[w] + 1
    BY <1>0, <1>2, <1>4, Zenon DEF TypeOK, TablesOK
  <2>3. Queued(m)' = {} /\ Calling(m)' = {} /\ Storing(m)' = {}
    BY <1>0, <1>1, <2>1, Zenon DEF Queued, Calling, Storing, WorkerFrame
  <2>4. Pushing(m)' = {w}
    BY <1>0, <1>1, <1>4, <2>1, Zenon DEF Pushing, WorkerFrame
  <2>5. (CHOOSE v \in {w} : TRUE) = w
    OBVIOUS
  <2>6. ToCome(m)' = n'[w] + 1
    BY <1>2, <2>3, <2>4, <2>5, FS_EmptySet DEF ToCome
  <2>. QED
    BY <1>2, <2>2, <2>3, <2>6 DEF Counted
<1>. QED
  BY <1>3, <1>4, Zenon

\* A policy job is queued; with the last one the pusher's own call is next.
LEMMA PushPolicyCounted ==
  ASSUME IInv, CountInv, TypeOK', NEW w \in Worker, WorkerStep(w), PushPolicy(w),
         NEW m \in DOMAIN url_list
  PROVE  Counted(m)'
<1>0. TypeOK /\ WorkerFrame(w) /\ Counted(m) /\ m \in Nat
  BY StepFrame, SMTT(20) DEF IInv, CountInv, TypeOK, TablesOK
<1>1. /\ pc[w] = "push_policy" /\ no'[w] = no[w] /\ n'[w] = n[w] - 1 /\ n[w] \in Nat \ {0}
      /\ pc'[w] = IF n[w] = 1 THEN "finish" ELSE "push_policy"
      /\ running_thread' = running_thread /\ queue' = Append(queue, RunPolicy(no[w]))
  BY <1>0 DEF PushPolicy, Goto, Load, tables, TypeOK, LocalsOK, CountInv
<1>2. queue \in Seq(Job) /\ RunPolicy(no[w]) \in Job
  BY <1>0, Zenon DEF TypeOK, TaskOK, LocalsOK, Job, RunPolicy
<1>3. Cardinality(Queued(m))' = Cardinality(Queued(m)) + (IF m = no[w] THEN 1 ELSE 0)
  <2>1. Queued(m) = Occ(queue, RunPolicy(m)) /\ Queued(m)' = Occ(queue', RunPolicy(m))
    BY Zenon DEF Queued, Occ, RunPolicy
  <2>2. RunPolicy(no[w]) = RunPolicy(m) <=> m = no[w]
    BY Zenon DEF RunPolicy
  <2>3. Cardinality(Occ(Append(queue, RunPolicy(no[w])), RunPolicy(m))) =
          IF RunPolicy(no[w]) = RunPolicy(m) THEN Cardinality(Occ(queue, RunPolicy(m))) + 1
          ELSE Cardinality(Occ(queue, RunPolicy(m)))
    BY <1>2, OccAppend, Zenon
  <2>4. Cardinality(Queued(m)) \in Nat
    BY <1>0, QueuedFinite, Zenon
  <2>. QED
    BY <1>1, <2>1, <2>2, <2>3, <2>4
<1>4. CASE m # no[w]
  <2>1. Cardinality(Queued(m))' = Cardinality(Queued(m))
    BY <1>0, <1>3, <1>4, QueuedFinite
  <2>. QED
    BY <1>1, <1>4, <2>1, OtherUrl, Zenon
<1>5. CASE m = no[w]
  <2>1. Pushing(m) = {w}
    BY <1>1, <1>5, Zenon DEF Pushing, IInv, Ownership, Owning, Holding
  <2>2. (CHOOSE v \in {w} : TRUE) = w
    OBVIOUS
  <2>3. running_thread[m] = Cardinality(Queued(m)) + Cardinality(Calling(m)) + 1 + n[w]
    <3>1. running_thread[m] >= 0 /\ running_thread[m] = ToCome(m)
      BY <1>0, <2>1 DEF Counted
    <3>2. Cardinality(Queued(m)) \in Nat /\ Cardinality(Calling(m)) \in Nat
      BY <1>0, QueuedFinite, CallingFinite, Zenon
    <3>. QED
      BY <1>1, <2>1, <2>2, <3>1, <3>2, SMTT(20) DEF ToCome
  <2>4. Storing(m)' = Storing(m) /\ Storing(m) = {}
    <3>1. running_thread[m] > 0
      BY <1>0, <1>1, <2>3, QueuedFinite, CallingFinite
    <3>2. Storing(m) = {}
      BY <1>0, <3>1 DEF Counted
    <3>. QED
      BY <1>0, <1>1, <3>2, ZenonT(30) DEF Storing, WorkerFrame
  <2>5. CASE n[w] = 1
    <3>1. Calling(m)' = Calling(m) \cup {w} /\ w \notin Calling(m) /\ Pushing(m)' = {}
      BY <1>0, <1>1, <1>5, <2>1, <2>5 DEF Calling, Pushing, WorkerFrame
    <3>2. Cardinality(Calling(m) \cup {w}) = Cardinality(Calling(m)) + 1
      BY <3>1, CallingFinite, FS_AddElement, Zenon
    <3>3. ToCome(m)' = Cardinality(Queued(m)) + 1 + (Cardinality(Calling(m)) + 1)
      BY <1>0, <1>3, <1>5, <3>1, <3>2, QueuedFinite, CallingFinite, SMTT(20) DEF ToCome
    <3>4. running_thread'[m] = ToCome(m)' /\ running_thread'[m] \in Nat
      BY <1>0, <1>1, <2>3, <2>5, <3>3, QueuedFinite, CallingFinite, SMTT(20)
    <3>. QED
      BY <2>4, <3>4, SMTT(20) DEF Counted
  <2>6. CASE n[w] # 1
    <3>1. Calling(m)' = Calling(m) /\ Pushing(m)' = {w}
      BY <1>0, <1>1, <1>5, <2>1, <2>6, ZenonT(30) DEF Calling, Pushing, WorkerFrame
    <3>2. ToCome(m)' = Cardinality(Queued(m)) + 1 + Cardinality(Calling(m)) + (1 + n'[w])
      BY <1>0, <1>3, <1>5, <2>2, <3>1, QueuedFinite, CallingFinite, SMTT(20) DEF ToCome
    <3>3. running_thread'[m] = ToCome(m)' /\ running_thread'[m] \in Nat
      BY <1>0, <1>1, <2>3, <3>2, QueuedFinite, CallingFinite, SMTT(20)
    <3>. QED
      BY <2>4, <3>3, SMTT(20) DEF Counted
  <2>. QED
    BY <2>5, <2>6, Zenon
<1>. QED
  BY <1>4, <1>5, Zenon

\* A policy job becomes the call of the thread that takes it.
LEMMA TakePolicyCounted ==
  ASSUME IInv, CountInv, TypeOK', NEW w \in Worker, WorkerStep(w), TakePolicy(w),
         NEW m \in DOMAIN url_list
  PROVE  Counted(m)'
<1>0. TypeOK /\ WorkerFrame(w) /\ Counted(m) /\ m \in Nat /\ queue \in Seq(Job)
  BY StepFrame DEF IInv, CountInv, TypeOK, TablesOK, TaskOK
<1>1. queue # <<>> /\ Head(queue) = RunPolicy(Head(queue).no) /\ Head(queue).no \in DOMAIN url_list
  <2>1. 1 \in 1 .. Len(queue) /\ Head(queue) = queue[1] /\ queue # <<>> /\ queue[1] # Pull
    BY <1>0 DEF TakePolicy
  <2>. QED
    BY <2>1, Zenon DEF CountInv, IInv, FinishSettled
<1>2. /\ pc[w] = "idle" /\ pc'[w] = "finish" /\ no'[w] = Head(queue).no
      /\ running_thread' = running_thread /\ queue' = Tail(queue)
  BY <1>0, <1>1, Zenon DEF TakePolicy, Goto, tables, TypeOK, LocalsOK
<1>3. Cardinality(Queued(m))' = Cardinality(Queued(m)) - (IF m = no'[w] THEN 1 ELSE 0)
  <2>1. Queued(m) = Occ(queue, RunPolicy(m)) /\ Queued(m)' = Occ(queue', RunPolicy(m))
    BY Zenon DEF Queued, Occ, RunPolicy
  <2>2. Head(queue) = RunPolicy(m) <=> m = no'[w]
    BY <1>1, <1>2 DEF RunPolicy
  <2>3. Cardinality(Occ(Tail(queue), RunPolicy(m))) =
          IF Head(queue) = RunPolicy(m) THEN Cardinality(Occ(queue, RunPolicy(m))) - 1
          ELSE Cardinality(Occ(queue, RunPolicy(m)))
    BY <1>0, <1>1, OccTail, Zenon
  <2>4. Cardinality(Queued(m)) \in Nat
    BY <1>0, QueuedFinite, Zenon
  <2>. QED
    BY <1>2, <2>1, <2>2, <2>3, <2>4, SMTT(20)
<1>4. CASE m # no'[w]
  <2>1. Cardinality(Queued(m))' = Cardinality(Queued(m))
    BY <1>0, <1>3, <1>4, QueuedFinite, SMTT(20)
  <2>. QED
    BY <1>2, <1>4, <2>1, OtherUrl, Zenon DEF Busy
<1>5. CASE m = no'[w]
  <2>1. Queued(m) # {}
    <3>1. 1 \in Queued(m)
      BY <1>0, <1>1, <1>2, <1>5, SMTT(20) DEF Queued
    <3>. QED
      BY <3>1, Zenon
  <2>2. running_thread[m] >= 0 /\ running_thread[m] = ToCome(m)
    BY <1>0, <2>1 DEF Counted
  <2>3. Calling(m)' = Calling(m) \cup {w} /\ w \notin Calling(m) /\ Pushing(m)' = Pushing(m)
        /\ Storing(m)' = Storing(m)
    BY <1>0, <1>2, <1>5, Zenon DEF Calling, Pushing, Storing, WorkerFrame
  <2>4. Cardinality(Calling(m) \cup {w}) = Cardinality(Calling(m)) + 1
    BY <2>3, CallingFinite, FS_AddElement, Zenon
  <2>5. \A v \in Pushing(m) : n'[v] = n[v]
    BY <1>0, <1>2, OthersLoaded, Zenon DEF Pushing
  <2>6. ToCome(m)' = ToCome(m)
    <3> DEFINE more(N) == IF Pushing(m) = {} THEN 0 ELSE 1 + N[CHOOSE v \in Pushing(m) : TRUE]
    <3>1. more(n') = more(n) /\ more(n) \in Int
      <4>1. \A v \in Pushing(m) : n[v] \in Int /\ n'[v] = n[v]
        BY <1>0, <2>5, Zenon DEF TypeOK, LocalsOK, Pushing
      <4>2. CASE Pushing(m) = {}
        BY <4>2
      <4>3. CASE Pushing(m) # {}
        <5>1. (CHOOSE v \in Pushing(m) : TRUE) \in Pushing(m)
          BY <4>3, Zenon
        <5>. QED
          BY <4>1, <4>3, <5>1
      <4>. QED
        BY <4>2, <4>3, Zenon
    <3>2. /\ ToCome(m) = Cardinality(Queued(m)) + Cardinality(Calling(m)) + more(n)
          /\ ToCome(m)' = Cardinality(Queued(m))' + Cardinality(Calling(m))' + more(n')
      BY <2>3 DEF ToCome
    <3>3. Cardinality(Queued(m)) \in Nat /\ Cardinality(Calling(m)) \in Nat
      BY <1>0, QueuedFinite, CallingFinite, Zenon
    <3> HIDE DEF more
    <3>. QED
      BY <1>3, <1>5, <2>3, <2>4, <3>1, <3>2, <3>3, SMTT(20)
  <2>7. Storing(m) = {}
    <3>1. running_thread[m] # 0
      <4> DEFINE more == IF Pushing(m) = {} THEN 0 ELSE 1 + n[CHOOSE v \in Pushing(m) : TRUE]
      <4>1. more \in Nat
        <5>1. \A v \in Pushing(m) : n[v] \in Nat
          BY <1>0 DEF TypeOK, LocalsOK, Pushing, CountInv
        <5>. QED
          BY <5>1
      <4>2. ToCome(m) = Cardinality(Queued(m)) + Cardinality(Calling(m)) + more
        BY Zenon DEF ToCome
      <4>3. Cardinality(Queued(m)) \in Nat \ {0} /\ Cardinality(Calling(m)) \in Nat
        BY <1>0, <2>1, QueuedFinite, CallingFinite, Zenon
      <4> HIDE DEF more
      <4>. QED
        BY <2>2, <4>1, <4>2, <4>3
    <3>. QED
      BY <1>0, <2>2, <3>1, SMTT(20) DEF Counted
  <2>. QED
    BY <1>0, <1>2, <2>2, <2>3, <2>6, <2>7, SMTT(20) DEF Counted
<1>. QED
  BY <1>4, <1>5, Zenon

\* When running_thread is 0 no call is to come.
LEMMA NobodyToCome ==
  ASSUME IInv, CountInv, NEW m \in DOMAIN url_list, running_thread[m] = 0
  PROVE  Queued(m) = {} /\ Calling(m) = {} /\ Pushing(m) = {}
<1> DEFINE more == IF Pushing(m) = {} THEN 0 ELSE 1 + n[CHOOSE v \in Pushing(m) : TRUE]
<1>0. TypeOK /\ Counted(m)
  BY Zenon DEF IInv, CountInv
<1>1. more \in Nat /\ (more = 0 => Pushing(m) = {})
  <2>1. \A v \in Pushing(m) : n[v] \in Nat
    BY <1>0, SMTT(20) DEF TypeOK, LocalsOK, Pushing, CountInv
  <2>. QED
    BY <2>1
<1>2. 0 = Cardinality(Queued(m)) + Cardinality(Calling(m)) + more
  BY <1>0 DEF ToCome, Counted
<1>3. Cardinality(Queued(m)) \in Nat /\ Cardinality(Calling(m)) \in Nat
  BY <1>0, QueuedFinite, CallingFinite, Zenon
<1> HIDE DEF more
<1>4. Cardinality(Queued(m)) = 0 /\ Cardinality(Calling(m)) = 0 /\ more = 0
  BY <1>1, <1>2, <1>3, SMTT(20)
<1>. QED
  BY <1>0, <1>1, <1>4, QueuedFinite, CallingFinite, FS_EmptySet, Zenon

\* A call is counted down; the last one goes on to store -1.
LEMMA FinishDecrementCounted ==
  ASSUME IInv, CountInv, TypeOK', NEW w \in Worker, WorkerStep(w), FinishDecrement(w),
         NEW m \in DOMAIN url_list
  PROVE  Counted(m)'
<1>0. TypeOK /\ WorkerFrame(w) /\ Counted(m)
  BY StepFrame, Zenon DEF IInv, CountInv
<1>1. /\ pc[w] = "finish" /\ no'[w] = no[w] /\ queue' = queue /\ n' = n
      /\ running_thread' = [running_thread EXCEPT ![no[w]] = @ - 1]
      /\ pc'[w] = IF running_thread[no[w]] - 1 <= 0 THEN "finish_store" ELSE "finish_load"
  BY <1>0, Zenon DEF FinishDecrement, Goto, locals, TypeOK, LocalsOK
<1>2. CASE m # no[w]
  <2>1. running_thread'[m] = running_thread[m]
    BY <1>0, <1>1, <1>2, Zenon DEF TypeOK, TablesOK
  <2>. QED
    BY <1>1, <1>2, <2>1, OtherUrl, Zenon DEF Queued
<1>3. CASE m = no[w]
  <2>1. running_thread[m] \in Int /\ running_thread'[m] = running_thread[m] - 1
    BY <1>0, <1>1, <1>3, Zenon DEF TypeOK, TablesOK
  <2>2. w \in Calling(m) /\ Calling(m)' = Calling(m) \ {w}
    BY <1>0, <1>1, <1>3, Zenon DEF Calling, WorkerFrame
  <2>3. Queued(m)' = Queued(m) /\ Pushing(m)' = Pushing(m)
    BY <1>0, <1>1, ZenonT(30) DEF Queued, Pushing, WorkerFrame
  <2>4. CASE running_thread[m] < 0
    <3>1. running_thread[m] = -2 /\ Calling(m) = {w} /\ Storing(m) = {}
      BY <1>0, <2>2, <2>4, SMTT(20) DEF Counted
    <3>2. running_thread'[m] = -3 /\ pc'[w] = "finish_store"
      BY <1>1, <1>3, <2>1, <3>1, SMTT(20)
    <3>3. Storing(m)' = {w} /\ Calling(m)' = {}
      <4>1. \A v \in Worker : v # w => (v \in Storing(m)' <=> v \in Storing(m))
        BY <1>0, Zenon DEF Storing, WorkerFrame
      <4>2. w \in Storing(m)' /\ Storing(m)' \subseteq Worker
        BY <1>1, <1>3, <3>2, Zenon DEF Storing
      <4>. QED
        BY <2>2, <3>1, <4>1, <4>2, Zenon
    <3>. QED
      BY <1>0, <2>3, <2>4, <3>2, <3>3, SMTT(20) DEF Counted
  <2>5. CASE running_thread[m] >= 0
    <3> DEFINE more == IF Pushing(m) = {} THEN 0 ELSE 1 + n[CHOOSE v \in Pushing(m) : TRUE]
    <3>1. more \in Nat
      <4>1. \A v \in Pushing(m) : n[v] \in Nat
        BY <1>0, SMTT(20) DEF TypeOK, LocalsOK, Pushing, CountInv
      <4>. QED
        BY <4>1
    <3>2. ToCome(m) = Cardinality(Queued(m)) + Cardinality(Calling(m)) + more
      BY Zenon DEF ToCome
    <3>3. ToCome(m)' = Cardinality(Queued(m)) + Cardinality(Calling(m) \ {w}) + more
      BY <1>1, <2>2, <2>3 DEF ToCome
    <3>4. Cardinality(Calling(m) \ {w}) = Cardinality(Calling(m)) - 1
      BY <2>2, CallingFinite, FS_RemoveElement, Zenon
    <3>5. Cardinality(Queued(m)) \in Nat /\ Cardinality(Calling(m)) \in Nat \ {0}
      BY <1>0, <2>2, QueuedFinite, CallingFinite, FS_EmptySet, ZenonT(30)
    <3> HIDE DEF more
    <3>6. running_thread[m] \in Nat \ {0} /\ running_thread'[m] = ToCome(m)'
      BY <1>0, <2>1, <2>5, <3>1, <3>2, <3>3, <3>4, <3>5, SMTT(20) DEF Counted
    <3>7. Storing(m) = {}
      BY <1>0, <3>6, SMTT(20) DEF Counted
    <3>8. Storing(m)' = IF running_thread'[m] = 0 THEN {w} ELSE {}
      <4>1. pc'[w] = "finish_store" <=> running_thread'[m] = 0
        BY <1>1, <1>3, <2>1, <3>6
      <4>2. \A v \in Worker : v # w => (v \in Storing(m)' <=> v \in Storing(m))
        BY <1>0, Zenon DEF Storing, WorkerFrame
      <4>3. w \in Storing(m)' <=> running_thread'[m] = 0
        BY <1>1, <1>3, <4>1, Zenon DEF Storing
      <4>4. Storing(m)' \subseteq Worker
        BY Zenon DEF Storing
      <4>. QED
        BY <3>7, <4>2, <4>3, <4>4, Zenon
    <3>. QED
      BY <2>1, <3>6, <3>8, SMTT(20) DEF Counted
  <2>. QED
    BY <2>1, <2>4, <2>5
<1>. QED
  BY <1>2, <1>3, Zenon

\* The last call stores -1, when nothing else is to come.
LEMMA FinishStoreCounted ==
  ASSUME IInv, CountInv, TypeOK', NEW w \in Worker, WorkerStep(w), FinishStore(w),
         NEW m \in DOMAIN url_list
  PROVE  Counted(m)'
<1>0. TypeOK /\ WorkerFrame(w) /\ Counted(m)
  BY StepFrame, Zenon DEF IInv, CountInv
<1>1. /\ pc[w] = "finish_store" /\ pc'[w] = "finish_load" /\ no'[w] = no[w] /\ queue' = queue
      /\ running_thread' = [running_thread EXCEPT ![no[w]] = -1]
  BY <1>0, Zenon DEF FinishStore, Step, Goto, locals, TypeOK, LocalsOK
<1>2. CASE m # no[w]
  <2>1. running_thread'[m] = running_thread[m]
    BY <1>0, <1>1, <1>2, Zenon DEF TypeOK, TablesOK
  <2>. QED
    BY <1>1, <1>2, <2>1, OtherUrl, Zenon DEF Queued, Busy
<1>3. CASE m = no[w]
  <2>1. running_thread'[m] = -1
    BY <1>0, <1>1, <1>3, Zenon DEF TypeOK, TablesOK
  <2>2. Storing(m) = {w} /\ running_thread[m] \in {0, -3}
    BY <1>0, <1>1, <1>3, Zenon DEF Counted, Storing
  <2>3. Queued(m) = {} /\ Calling(m) = {} /\ Pushing(m) = {}
    <3>1. CASE running_thread[m] = -3
      BY <1>0, <3>1 DEF Counted
    <3>2. CASE running_thread[m] = 0
      BY <3>2, NobodyToCome, ZenonT(30)
    <3>. QED
      BY <2>2, <3>1, <3>2, Zenon
  <2>4. Queued(m)' = {} /\ Calling(m)' = {} /\ Pushing(m)' = {} /\ Storing(m)' = {}
    BY <1>0, <1>1, <1>3, <2>2, <2>3, SMTT(20) DEF Queued, Calling, Pushing, Storing, WorkerFrame
  <2>. QED
    BY <2>1, <2>4 DEF Counted
<1>. QED
  BY <1>2, <1>3, Zenon

LEMMA CountStep ==
  ASSUME IInv, CountInv, TypeOK', NEW w \in Worker, WorkerStep(w)
  PROVE  CountInv'
<1>0. TypeOK /\ WorkerFrame(w)
  BY StepFrame, Zenon DEF IInv
<1>1. ASSUME NEW m \in DOMAIN url_list' PROVE Counted(m)'
  <2>1. CASE m \notin DOMAIN url_list
    BY <1>1, <2>1, NewCounted, Zenon
  <2>2. CASE m \in DOMAIN url_list
    <3>1. GetPolicys(w) \/ DownloadFails(w) => Counted(m)'
      <4>1. DownloadFails(w) => pc'[w] = "finish"
        BY <1>0, Zenon DEF DownloadFails, Step, Goto, TypeOK, LocalsOK
      <4>. QED
        BY <2>2, <4>1, ToFinishCounted, GetPolicysCounted, Zenon
    <3>. QED
      BY <2>2, <3>1, CalmStepCounted, PushPolicyCounted, TakePolicyCounted,
         FinishDecrementCounted, FinishStoreCounted, Zenon
      DEF WorkerStep, Crawling, Finish, CalmStep
  <2>. QED
    BY <2>1, <2>2, Zenon
<1>2. ASSUME NEW k \in 1 .. Len(queue')
      PROVE  queue'[k] \in {Pull, RunPolicy(queue'[k].no)}
  <2>1. RunPolicy(no[w]) = RunPolicy(RunPolicy(no[w]).no)
    BY Zenon DEF RunPolicy
  <2>. QED
    BY <1>0, <2>1, QueueStep, Zenon DEF CountInv
<1>3. ASSUME NEW v \in Worker, pc'[v] = "push_policy"
      PROVE  n'[v] >= 1
  <2>1. CASE v # w
    BY <1>0, <1>3, <2>1, OthersLoaded, ZenonT(30) DEF CountInv, WorkerFrame
  <2>2. CASE v = w
    <3>1. ~CalmStep(w)
      BY <1>0, <1>3, <2>2, CalmPlaces, Zenon DEF Busy
    <3>2. GetPolicys(w) \/ PushPolicy(w)
      BY <1>0, <1>3, <2>2, <3>1, ReturnFrame, Zenon
      DEF WorkerStep, CalmStep, Crawling, Finish, TakePolicy, DownloadFails, FinishDecrement,
          FinishStore, Step, Goto, TypeOK, LocalsOK
    <3>. QED
      BY <1>0, <1>3, <2>2, <3>2, CrawlAssumption, SMTT(20)
      DEF GetPolicys, PushPolicy, Goto, Load, TypeOK, LocalsOK, CountInv
  <2>. QED
    BY <2>1, <2>2, Zenon
<1>. QED
  BY <1>1, <1>2, <1>3, Zenon DEF CountInv, Pull, RunPolicy
=============================================================================
