-------------------------- MODULE CrawlTaskProofs --------------------------
(***************************************************************************)
(* For any number of workers, urls, policies and memory errors: the end of *)
(* the task, and that a crawl implements CrawlTask; without memory errors  *)
(* it knows no url twice.                                                  *)
(***************************************************************************)
EXTENDS CrawlProofs

(***************************************************************************)
(* The scan.  A url that is finished stays finished, so what a scan leaves *)
(* behind stays over.                                                      *)
(***************************************************************************)
LEMMA MinusOneStays ==
  ASSUME IInv, CountInv, NEW w \in Worker, WorkerStep(w),
         NEW m \in DOMAIN url_list, running_thread[m] = -1
  PROVE  running_thread'[m] = -1
<1>0. TypeOK /\ Counted(m)
  BY Zenon DEF IInv, CountInv
<1>1. CASE InsertLink(w)
  BY <1>0, <1>1, InsertFrame, Zenon DEF InsertLink, TypeOK, LocalsOK
<1>2. CASE GetPolicys(w)
  <2>1. no[w] # m
    BY <1>2 DEF GetPolicys, IInv, NewUntilSettled, Settled, Claimed, Early
  <2>. QED
    BY <1>0, <1>2, <2>1, Zenon DEF GetPolicys, TypeOK, TablesOK
<1>3. CASE FinishDecrement(w)
  <2>1. no[w] # m
    BY <1>0, <1>3, Zenon DEF FinishDecrement, Counted, Calling
  <2>. QED
    BY <1>0, <1>3, <2>1, Zenon DEF FinishDecrement, TypeOK, TablesOK
<1>4. CASE FinishStore(w)
  BY <1>0, <1>4, Zenon DEF FinishStore, TypeOK, TablesOK
<1>5. CASE UNCHANGED running_thread
  BY <1>5, Zenon
<1>. QED
  BY <1>1, <1>2, <1>3, <1>4, <1>5, TablesFrame, Zenon

LEMMA OverStable ==
  ASSUME IInv, CountInv, NEW w \in Worker, WorkerStep(w), NEW m \in Nat, Over(m)
  PROVE  Over(m)'
<1>1. WorkerFrame(w) /\ next_no \in Nat
  BY StepFrame, Zenon DEF IInv, TypeOK, CountersOK
<1>2. m < next_no' /\ (m \in DOMAIN url_list' => m \in DOMAIN url_list)
  BY <1>1 DEF WorkerFrame, Over
<1>. QED
  BY <1>2, MinusOneStays, Zenon DEF Over

LEMMA ScanOverStep ==
  ASSUME TaskInv, TypeOK', NEW w \in Worker, WorkerStep(w)
  PROVE  ScanOver'
<1>0. IInv /\ TypeOK /\ CountInv /\ ScanOver /\ WorkerFrame(w)
  BY StepFrame, Zenon DEF TaskInv, IInv
<1>1. \A m \in Nat : Over(m) => Over(m)'
  BY <1>0, OverStable, Zenon
<1>2. ASSUME NEW k \in Nat, \A m \in 0 .. k - 1 : Over(m)
      PROVE  \A m \in 0 .. k - 1 : Over(m)'
  BY <1>1, <1>2
<1>3. finished_no \in Nat /\ next_no \in Nat /\ \A v \in Worker : i[v] \in Nat
  BY <1>0, Zenon DEF TypeOK, CountersOK, LocalsOK
<1>4. \A m \in 0 .. finished_no' - 1 : Over(m)'
  BY <1>0, <1>2, <1>3, ScanStep, Zenon DEF ScanOver
<1>5. ASSUME NEW v \in Worker, v # w
      PROVE  /\ pc'[v] \in Scan => \A m \in 0 .. i'[v] - 1 : Over(m)'
             /\ pc'[v] \in {"quit_store", "quit_next"} => Over(i[v])'
  <2>1. pc'[v] = pc[v] /\ i'[v] = i[v] /\ i[v] \in Nat
    BY <1>0, <1>3, <1>5, Zenon DEF WorkerFrame
  <2>2. pc'[v] \in Scan => \A m \in 0 .. i'[v] - 1 : Over(m)'
    BY <1>0, <1>2, <2>1, Zenon DEF ScanOver, Scan
  <2>3. pc'[v] \in {"quit_store", "quit_next"} => Over(i[v])'
    <3>1. pc[v] \in {"quit_store", "quit_next"} => Over(i[v])
      BY <1>0, Zenon DEF ScanOver
    <3>. QED
      BY <1>1, <2>1, <3>1, Zenon DEF Over
  <2>. QED
    BY <2>2, <2>3, Zenon
<1>6. /\ pc'[w] \in Scan => \A m \in 0 .. i'[w] - 1 : Over(m)'
      /\ pc'[w] \in {"quit_store", "quit_next"} => Over(i[w])'
  <2>1. i[w] \in Nat /\ (pc'[w] \in Scan => ScanMove(w))
    BY <1>0, <1>3, ScanStep, Zenon
  <2>2. ASSUME pc'[w] \in Scan PROVE \A m \in 0 .. i'[w] - 1 : Over(m)'
    <3>1. \A m \in 0 .. i'[w] - 1 : Over(m)
      BY <1>0, <1>3, <2>1, <2>2 DEF ScanMove, ScanOver
    <3>2. i'[w] \in Nat
      BY Zenon DEF TypeOK, LocalsOK
    <3>. QED
      BY <1>2, <3>1, <3>2, Zenon
  <2>3. ASSUME pc'[w] \in {"quit_store", "quit_next"} PROVE Over(i[w])'
    <3>1. i'[w] = i[w] /\ pc[w] \in {"quit_get", "quit_store"}
      BY <2>1, <2>3, Zenon DEF ScanMove, Scan
    <3>2. i[w] \in DOMAIN url_list /\ pc[w] = "quit_get" => running_thread[i[w]] = -1
      BY <2>1, <2>3, Zenon DEF ScanMove, Scan
    <3>3. pc[w] = "quit_get" => i[w] < next_no
      BY <1>0, Zenon DEF IInv, ScanPassed
    <3>4. Over(i[w])
      BY <1>0, <3>1, <3>2, <3>3, Zenon DEF ScanOver, Over
    <3>. QED
      BY <1>1, <2>1, <3>1, <3>4, Zenon DEF Over
  <2>. QED
    BY <2>2, <2>3, Zenon
<1>7. ASSUME start_ptr' = "null" \/ \E v \in Worker : pc'[v] = "finished_one"
      PROVE  \A m \in 0 .. next_no' - 1 : Over(m)'
  <2>1. /\ AllPassed
        /\ \A m \in 0 .. next_no - 1 : Over(m)
    <3>1. CASE start_ptr = "null" \/ \E v \in Worker : pc[v] = "finished_one"
      BY <1>0, <3>1, Zenon DEF IInv, EndPassed, ScanOver
    <3>2. CASE start_ptr # "null" /\ \A v \in Worker : pc[v] # "finished_one"
      <4>1. pc'[w] = "finished_one"
        BY <1>0, <1>7, <3>2, EndStep, Zenon DEF WorkerFrame
      <4>2. pc[w] = "quit_test" /\ ~(i[w] < next_no)
        BY <1>0, <4>1, ScanStep, Zenon DEF ScanMove, Scan
      <4>3. \A m \in 0 .. i[w] - 1 : Over(m) /\ Passed(m)
        BY <1>0, <4>2, Zenon DEF ScanOver, IInv, ScanPassed
      <4>. QED
        BY <1>3, <4>2, <4>3 DEF AllPassed
    <3>. QED
      BY <3>1, <3>2, Zenon
  <2>2. next_no' = next_no
    BY <1>0, <2>1, NobodyEarly, Zenon DEF WorkerFrame, Early, IInv
  <2>. QED
    BY <1>2, <1>3, <2>1, <2>2, Zenon
<1>. QED
  BY <1>4, <1>5, <1>6, <1>7, Zenon DEF ScanOver, Scan

(***************************************************************************)
(* Before the first job: nobody calls, and the only job is a pull.         *)
(***************************************************************************)
LEMMA StartTaskInv ==
  ASSUME TaskInv, Start PROVE TaskInv'
<1>0. IInv /\ TypeOK /\ IInv' /\ TypeOK'
  BY StartInv, Zenon DEF TaskInv, IInv
<1>1. /\ queue = <<>> /\ start_ptr = "set"
      /\ \A w \in Worker : pc[w] = "idle"
  BY <1>0, Zenon DEF Start, StartInsertNew, StartCheckMain, StartInsertMain, StartPush,
              IInv, NotStarted, TypeOK, TaskOK
<1>2. /\ pc' = pc /\ i' = i /\ start_ptr' = start_ptr /\ finished_no' = finished_no
      /\ queue' \in {<<>>, <<Pull>>}
  BY <1>1 DEF Start, StartInsertNew, StartCheckMain, StartInsertMain, StartPush,
              InsertNewUrl, InsertNewUrlFails, counters, task, locals
<1>3. \/ next_no' = next_no /\ UNCHANGED <<url_list, running_thread>>
      \/ /\ next_no' = next_no + 1
         /\ DOMAIN url_list' \subseteq DOMAIN url_list \cup {next_no}
         /\ \A m \in DOMAIN url_list : running_thread'[m] = running_thread[m]
         /\ \A m \in DOMAIN url_list' : m \notin DOMAIN url_list => running_thread'[m] = -2
  BY <1>0, InsertFrame, CrawlAssumption, Zenon DEF Start, StartInsertNew, StartCheckMain,
     StartInsertMain, StartPush, counters, tables
<1>4. CountInv'
  <2>1. ASSUME NEW m \in DOMAIN url_list' PROVE Counted(m)'
    <3>1. Pull # RunPolicy(m)
      BY Zenon DEF Pull, RunPolicy
    <3>2. Queued(m) = {} /\ Calling(m) = {} /\ Pushing(m) = {} /\ Storing(m) = {}
      BY <1>1 DEF Queued, Calling, Pushing, Storing
    <3>3. Queued(m)' = {} /\ Calling(m)' = {} /\ Pushing(m)' = {} /\ Storing(m)' = {}
      BY <1>1, <1>2, <3>1 DEF Queued, Calling, Pushing, Storing
    <3>4. ToCome(m) = 0 /\ ToCome(m)' = 0
      BY <3>2, <3>3, FS_EmptySet DEF ToCome
    <3>5. \/ running_thread'[m] = -2
          \/ m \in DOMAIN url_list /\ running_thread'[m] = running_thread[m]
      BY <1>3, Zenon
    <3>6. m \in DOMAIN url_list => Counted(m)
      BY Zenon DEF TaskInv, CountInv
    <3>7. running_thread'[m] \in Nat \cup {-1, -2, -3} /\ (running_thread'[m] >= 0 => running_thread'[m] = 0)
      BY <3>4, <3>5, <3>6 DEF Counted
    <3>. QED
      BY <3>3, <3>4, <3>7, Zenon DEF Counted
  <2>2. \A k \in 1 .. Len(queue') : queue'[k] = Pull
    BY <1>2
  <2>3. \A w \in Worker : pc'[w] # "push_policy"
    BY <1>1, <1>2, Zenon
  <2>. QED
    BY <2>1, <2>2, <2>3, Zenon DEF CountInv, Pull
<1>5. ScanOver'
  <2>1. \A m \in Nat : Over(m) => Over(m)'
    BY <1>0, <1>3 DEF Over, TypeOK, CountersOK
  <2>2. \A m \in 0 .. finished_no' - 1 : Over(m)'
    BY <1>0, <1>2, <2>1 DEF TaskInv, ScanOver, TypeOK, CountersOK
  <2>. QED
    BY <1>1, <1>2, <2>2, Zenon DEF ScanOver
<1>6. MainFirst'
  <2>1. CASE StartInsertMain
    <3>1. DOMAIN url_no_map = {}
      BY <2>1, Zenon DEF StartInsertMain, TaskInv, MainFirst
    <3>. QED
      BY <2>1, <3>1, Zenon DEF StartInsertMain, InsertNewUrl, MainFirst
  <2>2. CASE StartInsertNew \/ StartCheckMain \/ StartPush
    BY <2>2, Zenon DEF StartInsertNew, StartCheckMain, StartPush, tables, TaskInv, MainFirst
  <2>. QED
    BY <2>1, <2>2, Zenon DEF Start
<1>. QED
  BY <1>0, <1>4, <1>5, <1>6, Zenon DEF TaskInv

LEMMA WorkerTaskInv ==
  ASSUME TaskInv, NEW w \in Worker, WorkerStep(w) PROVE TaskInv'
<1>0. IInv /\ TypeOK /\ CountInv /\ IInv' /\ TypeOK' /\ WorkerFrame(w)
  BY WorkerStepInv, StepFrame, Zenon DEF TaskInv, IInv
<1>1. CountInv' /\ ScanOver'
  BY <1>0, CountStep, ScanOverStep, Zenon
<1>2. MainFirst'
  BY <1>0, WorkerRuns, Zenon DEF TaskInv, MainFirst, WorkerFrame
<1>. QED
  BY <1>0, <1>1, <1>2, Zenon DEF TaskInv

LEMMA InitTaskInv == Init => TaskInv
<1> SUFFICES ASSUME Init PROVE TaskInv
  OBVIOUS
<1>1. IInv
  BY InitInv, Zenon
<1>2. CountInv /\ ScanOver /\ MainFirst
  BY DEF Init, CountInv, ScanOver, MainFirst
<1>. QED
  BY <1>1, <1>2, Zenon DEF TaskInv

(***************************************************************************)
(* The three inductive invariants together, for any number of threads,     *)
(* urls, policies and memory errors: task_map's counters, running_thread   *)
(* of every url and the scans for the end of the task agree.               *)
(***************************************************************************)
THEOREM TaskInvHolds == Spec => []TaskInv
<1>1. TaskInv /\ [Next]_vars => TaskInv'
  <2> SUFFICES ASSUME TaskInv, [Next]_vars PROVE TaskInv'
    OBVIOUS
  <2>1. CASE Start
    BY <2>1, StartTaskInv, Zenon
  <2>2. ASSUME NEW w \in Worker, WorkerStep(w) PROVE TaskInv'
    BY <2>2, WorkerTaskInv, Zenon
  <2>3. CASE UNCHANGED vars
    <3>1. IInv'
      BY <2>3, SMTT(20) DEF vars, counters, tables, task, locals, TaskInv, IInv, TypeOK, CountersOK,
         TablesOK, TaskOK, LocalsOK, NotStarted, Ownership, NewUntilSettled,
         FinishSettled, ScanPassed, EndPassed, AllPassed, Passed, Settled
    <3>2. CountInv'
      <4>1. /\ queue' = queue /\ pc' = pc /\ no' = no /\ n' = n
            /\ url_list' = url_list /\ running_thread' = running_thread
        BY <2>3, Zenon DEF vars, tables, locals
      <4>2. \A m : /\ Queued(m)' = Queued(m) /\ Calling(m)' = Calling(m)
                   /\ Pushing(m)' = Pushing(m) /\ Storing(m)' = Storing(m)
        BY <4>1, Zenon DEF Queued, Calling, Pushing, Storing
      <4>3. ASSUME NEW m PROVE ToCome(m)' = ToCome(m)
        <5>1. /\ Queued(m)' = Queued(m) /\ Calling(m)' = Calling(m)
              /\ Pushing(m)' = Pushing(m)
          BY <4>2, Zenon
        <5>. QED
          BY <4>1, <5>1 DEF ToCome
      <4>4. ASSUME NEW m, Counted(m) PROVE Counted(m)'
        <5>1. running_thread'[m] = running_thread[m]
          BY <4>1, Zenon
        <5>. QED
          BY <4>2, <4>3, <4>4, <5>1, Zenon DEF Counted
      <4>. QED
        BY <4>1, <4>4, Zenon DEF TaskInv, CountInv, Pull, RunPolicy
    <3>3. ScanOver' /\ MainFirst'
      BY <2>3, Zenon DEF vars, counters, tables, task, locals, TaskInv, ScanOver, Over, MainFirst
    <3>. QED
      BY <3>1, <3>2, <3>3, SMTT(20) DEF TaskInv
  <2>. QED
    BY <2>1, <2>2, <2>3, Zenon DEF Next
<1>. QED
  BY InitTaskInv, <1>1, PTL DEF Spec

(***************************************************************************)
(* "n is running n threads": running_thread of a url whose policies run is *)
(* the number of finished_one_url calls to come, whatever the interleaving *)
(* of the pushes, the policies and the downloading thread.                 *)
(***************************************************************************)
THEOREM RunningThreadCountsHolds == Spec => []RunningThreadCounts
<1>1. TaskInv => RunningThreadCounts
  BY DEF TaskInv, IInv, TypeOK, TablesOK, CountInv, Counted, RunningThreadCounts
<1>. QED
  BY TaskInvHolds, <1>1, PTL

(***************************************************************************)
(* When finished_one removes a task no url is left unfinished, no policy   *)
(* is queued and no thread works on one: test_task_finished_quit is never  *)
(* fooled by a url inserted, or a policy pushed, behind its scan.          *)
(***************************************************************************)
THEOREM FinishedMeansDoneHolds == Spec => []FinishedMeansDone
<1>1. ASSUME TaskInv, start_ptr = "null" PROVE FinishedMeansDone
  <2>1. IInv /\ TypeOK /\ AllPassed /\ \A m \in DOMAIN url_list : Counted(m)
    BY <1>1, Zenon DEF TaskInv, IInv, CountInv, EndPassed
  <2>2. \A m \in DOMAIN url_list : running_thread[m] = -1
    BY <1>1, <2>1, Zenon DEF TaskInv, ScanOver, Over, TypeOK, TablesOK
  <2>3. ASSUME NEW k \in 1 .. Len(queue) PROVE queue[k] = Pull
    <3>1. SUFFICES ASSUME queue[k] # Pull PROVE FALSE
      OBVIOUS
    <3>2. queue[k] = RunPolicy(queue[k].no) /\ queue[k].no \in DOMAIN url_list
      BY <1>1, <2>1, <3>1, Zenon DEF TaskInv, CountInv, IInv, FinishSettled
    <3>. QED
      BY <2>1, <2>2, <3>2 DEF Counted, Queued
  <2>4. ASSUME NEW w \in Worker
        PROVE  pc[w] \notin Holding \cup {"finish", "finish_store"}
    <3>1. pc[w] \in Holding \cup {"finish", "finish_store"} => no[w] \in DOMAIN url_list
      BY <2>1, Zenon DEF IInv, NewUntilSettled, FinishSettled
    <3>2. pc[w] \notin Early
      BY <2>1, NobodyEarly, Zenon DEF IInv
    <3>. QED
      BY <2>1, <2>2, <3>1, <3>2 DEF Counted, Pushing, Calling, Storing, Holding
  <2>. QED
    BY <2>2, <2>3, <2>4, Zenon DEF FinishedMeansDone
<1>2. TaskInv => FinishedMeansDone
  BY <1>1, Zenon DEF FinishedMeansDone
<1>. QED
  BY TaskInvHolds, <1>2, PTL

-----------------------------------------------------------------------------

(***************************************************************************)
(* The refinement of CrawlTask.  A url whose running_thread is -2 is in    *)
(* work when a thread has it; first, when a step leaves the task as it is. *)
(***************************************************************************)
Working == Early \cup {"finish"}
Runs    == {m \in DOMAIN url_list : InWork(m)}
Done    == {m \in DOMAIN url_list : running_thread[m] = -1}

LEMMA SameWork ==
  ASSUME NEW w \in Worker, WorkerFrame(w), NEW m \in DOMAIN url_list \cap DOMAIN url_list',
         running_thread'[m] = running_thread[m],
         running_thread[m] = -2 =>
           (no'[w] = m /\ pc'[w] \in Working <=> no[w] = m /\ pc[w] \in Working)
  PROVE  m \in Runs' <=> m \in Runs
<1>1. \A v \in Worker : v # w => no'[v] = no[v] /\ pc'[v] = pc[v]
  BY Zenon DEF WorkerFrame
<1>. QED
  BY <1>1, Zenon DEF Runs, InWork, Working

LEMMA SameTask ==
  ASSUME DOMAIN url_list' = DOMAIN url_list, start_ptr' = start_ptr,
         \A m \in DOMAIN url_list : m \in Runs' <=> m \in Runs,
         \A m \in DOMAIN url_list : m \in Done' <=> m \in Done
  PROVE  UNCHANGED Task!tvars
<1>1. /\ Runs \subseteq DOMAIN url_list /\ Runs' \subseteq DOMAIN url_list
      /\ Done \subseteq DOMAIN url_list /\ Done' \subseteq DOMAIN url_list
  BY Zenon DEF Runs, Done
<1>2. Runs' = Runs /\ Done' = Done
  BY <1>1, Zenon
<1>. QED
  BY <1>2, Zenon DEF Task!tvars, Runs, Done

\* Steps that neither take a url nor change what is known of one.
QuietStep(w) ==
  \/ TakePull(w) \/ (Fresh(w) /\ ~FreshGet(w)) \/ DownloadFails(w) \/ Download(w)
  \/ FinishLoad(w) \/ FinishCount(w) \/ (Quit(w) /\ ~FinishedOne(w)) \/ Remain(w)

LEMMA QuietTask ==
  ASSUME TypeOK, NEW w \in Worker, WorkerFrame(w), QuietStep(w)
  PROVE  UNCHANGED Task!tvars
<1> DEFINE Same == /\ UNCHANGED <<url_list, running_thread, start_ptr>>
                   /\ \/ pc[w] \notin Working /\ pc'[w] \notin Working
                      \/ pc[w] \in Working /\ pc'[w] \in Working /\ no'[w] = no[w]
<1>1. Same
  <2> USE DEF TypeOK, LocalsOK, Step, Goto, Working, Early, tables, task, locals
  <2>1. CASE TakePull(w)
    BY <2>1, Zenon DEF TakePull
  <2>2. CASE Fresh(w) /\ ~FreshGet(w)
    <3>1. CASE FreshCount(w)
      BY <3>1, Zenon DEF FreshCount
    <3>. QED
      BY <2>2, <3>1, ReturnFrame, SMTT(20) DEF Fresh, FreshLoadNext, FreshEmpty, FreshLimit,
         FreshLoopLoad, FreshLoopTest, FreshTake
  <2>3. CASE DownloadFails(w) \/ Download(w)
    BY <2>3, Zenon DEF DownloadFails, Download
  <2>4. CASE FinishLoad(w) \/ FinishCount(w)
    BY <2>4, FinishedFrame, Zenon DEF FinishLoad, FinishCount
  <2>5. CASE Quit(w) /\ ~FinishedOne(w)
    BY <2>5, FinishedFrame, Zenon DEF Quit, QuitStart, QuitTest, QuitGet, QuitStore, QuitNext
  <2>6. CASE Remain(w)
    BY <2>6, ReturnFrame, Zenon DEF Remain, RemainLoadNext, RemainLoadWork, RemainLoadCount, PushPull
  <2>. QED
    BY <2>1, <2>2, <2>3, <2>4, <2>5, <2>6, SMTT(20) DEF QuietStep
<1>2. \A m \in DOMAIN url_list : m \in Runs' <=> m \in Runs
  BY <1>1, SameWork, Zenon
<1>3. \A m \in DOMAIN url_list : m \in Done' <=> m \in Done
  BY <1>1, Zenon DEF Done
<1>. QED
  BY <1>1, <1>2, <1>3, SameTask, Zenon

\* The counts of a url move, but it stays in work.
LEMMA CountTask ==
  ASSUME TaskInv, NEW w \in Worker, WorkerStep(w),
         TakePolicy(w) \/ GetPolicys(w) \/ PushPolicy(w) \/ FinishDecrement(w)
  PROVE  UNCHANGED Task!tvars
<1>0. IInv /\ TypeOK /\ CountInv /\ WorkerFrame(w)
  BY StepFrame, Zenon DEF TaskInv, IInv
<1>1. DOMAIN url_list' = DOMAIN url_list /\ start_ptr' = start_ptr
  BY Zenon DEF TakePolicy, GetPolicys, PushPolicy, FinishDecrement, tables, task
<1>2. CASE TakePolicy(w)
  <2>1. running_thread' = running_thread /\ pc[w] \notin Working
    BY <1>2, Zenon DEF TakePolicy, tables, Working, Early
  <2>2. ASSUME NEW m \in DOMAIN url_list, running_thread[m] = -2, no'[w] = m
        PROVE  pc'[w] \notin Working
    <3>1. SUFFICES ASSUME pc'[w] \in Working PROVE FALSE
      OBVIOUS
    <3>2. 1 \in 1 .. Len(queue) /\ Head(queue) = queue[1] /\ queue[1] # Pull
      BY <1>0, <1>2 DEF TakePolicy, TypeOK, TaskOK
    <3>3. Head(queue).no = m
      BY <1>0, <1>2, <2>2, <3>1, ReturnFrame, Zenon DEF TakePolicy, Working, Early, TypeOK, LocalsOK
    <3>4. queue[1] = RunPolicy(m)
      BY <1>0, <3>2, <3>3, Zenon DEF CountInv
    <3>. QED
      BY <1>0, <2>2, <3>2, <3>4, SMTT(20) DEF CountInv, Counted, Queued
  <2>3. \A m \in DOMAIN url_list : m \in Runs' <=> m \in Runs
    BY <1>0, <1>1, <2>1, <2>2, SameWork, Zenon
  <2>. QED
    BY <1>1, <2>1, <2>3, SameTask, Zenon DEF Done
<1>3. CASE GetPolicys(w)
  <2>1. PICK k \in 0 .. MaxPolicy :
          /\ pc'[w] = (IF k = 0 THEN "finish" ELSE "push_policy")
          /\ running_thread' = IF k = 0 THEN running_thread
                               ELSE [running_thread EXCEPT ![no[w]] = k + 1]
    BY <1>0, <1>3, Zenon DEF GetPolicys, Goto, TypeOK, LocalsOK
  <2>2. /\ pc[w] \in Working /\ no'[w] = no[w]
        /\ no[w] \in DOMAIN url_list /\ running_thread[no[w]] = -2
    BY <1>0, <1>3, EarlyAlone, Zenon DEF GetPolicys, Working, Early
  <2>3. CASE k = 0
    <3>1. running_thread' = running_thread /\ pc'[w] \in Working
      BY <2>1, <2>3, Zenon DEF Working
    <3>2. \A m \in DOMAIN url_list : m \in Runs' <=> m \in Runs
      BY <1>0, <1>1, <2>2, <3>1, SameWork, Zenon
    <3>. QED
      BY <1>1, <3>1, <3>2, SameTask, Zenon DEF Done
  <2>4. CASE k # 0
    <3>1. /\ running_thread' = [running_thread EXCEPT ![no[w]] = k + 1]
          /\ k + 1 > 0 /\ k + 1 \in Int
      BY <2>1, <2>4, CrawlAssumption
    <3>2. ASSUME NEW m \in DOMAIN url_list, m # no[w]
          PROVE  running_thread'[m] = running_thread[m] /\ (m \in Runs' <=> m \in Runs)
      <4>1. running_thread'[m] = running_thread[m]
        BY <1>0, <3>1, <3>2, SMTT(20) DEF TypeOK, TablesOK
      <4>. QED
        BY <1>0, <1>1, <2>2, <3>2, <4>1, SameWork, SMTT(20)
    <3>3. running_thread'[no[w]] > 0 /\ running_thread'[no[w]] \in Int
      BY <1>0, <2>2, <3>1, SMTT(20) DEF TypeOK, TablesOK
    <3>4. no[w] \in Runs /\ no[w] \in Runs'
      BY <1>1, <2>2, <3>3 DEF Runs, InWork, Working
    <3>5. no[w] \notin Done /\ no[w] \notin Done'
      BY <2>2, <3>3 DEF Done
    <3>6. \A m \in DOMAIN url_list : m \in Done' <=> m \in Done
      BY <1>1, <3>2, <3>5, Zenon DEF Done
    <3>. QED
      BY <1>1, <3>2, <3>4, <3>6, SameTask, Zenon
  <2>. QED
    BY <2>3, <2>4, Zenon
<1>4. CASE PushPolicy(w)
  <2>1. running_thread' = running_thread /\ no'[w] = no[w] /\ pc[w] = "push_policy"
    BY <1>0, <1>4, Zenon DEF PushPolicy, tables, TypeOK, LocalsOK
  <2>2. \A m \in DOMAIN url_list : running_thread[m] = -2 => no[w] # m
    BY <1>0, <2>1 DEF CountInv, Counted, Pushing
  <2>3. \A m \in DOMAIN url_list : m \in Runs' <=> m \in Runs
    BY <1>0, <1>1, <2>1, <2>2, SameWork, Zenon
  <2>. QED
    BY <1>1, <2>1, <2>3, SameTask, Zenon DEF Done
<1>5. CASE FinishDecrement(w)
  <2>1. /\ pc[w] = "finish" /\ no'[w] = no[w]
        /\ running_thread' = [running_thread EXCEPT ![no[w]] = @ - 1]
    BY <1>5, Zenon DEF FinishDecrement, locals
  <2>2. no[w] \in DOMAIN url_list
    BY <1>0, <2>1 DEF IInv, FinishSettled
  <2>3. ASSUME NEW m \in DOMAIN url_list, m # no[w]
        PROVE  running_thread'[m] = running_thread[m] /\ (m \in Runs' <=> m \in Runs)
    <3>1. running_thread'[m] = running_thread[m]
      BY <1>0, <2>1, <2>3 DEF TypeOK, TablesOK
    <3>. QED
      BY <1>0, <1>1, <2>1, <2>3, <3>1, SameWork
  <2>4. running_thread[no[w]] # -1 /\ running_thread'[no[w]] \notin {-1, -2}
    <3>1. w \in Calling(no[w]) /\ Counted(no[w])
      BY <1>0, <2>1, <2>2 DEF CountInv, Calling
    <3>2. running_thread[no[w]] = -2 \/ running_thread[no[w]] \in Nat
      BY <3>1, Zenon DEF Counted
    <3>3. running_thread[no[w]] # 0
      BY <1>0, <2>2, <3>1, NobodyToCome
    <3>. QED
      BY <1>0, <2>1, <2>2, <3>2, <3>3, SMTT(20) DEF TypeOK, TablesOK
  <2>5. no[w] \in Runs /\ no[w] \in Runs' /\ no[w] \notin Done /\ no[w] \notin Done'
    BY <1>1, <2>1, <2>2, <2>4, Zenon DEF Runs, Done, InWork, Working
  <2>6. \A m \in DOMAIN url_list : m \in Done' <=> m \in Done
    BY <1>1, <2>3, <2>5, Zenon DEF Done
  <2>. QED
    BY <1>1, <2>3, <2>5, <2>6, SameTask, Zenon
<1>. QED
  BY <1>2, <1>3, <1>4, <1>5, Zenon

\* The step of CrawlTask that a step of the code is.
LEMMA InsertLinkTask ==
  ASSUME TaskInv, NEW w \in Worker, WorkerStep(w), InsertLink(w)
  PROVE  UNCHANGED Task!tvars \/ \E m \in DOMAIN url_list' : Task!Find(m)
<1>0. IInv /\ TypeOK /\ CountInv /\ WorkerFrame(w)
  BY StepFrame, Zenon DEF TaskInv, IInv
<1>1. /\ pc' = pc /\ no' = no /\ start_ptr' = start_ptr /\ pc[w] \in Early
      /\ DOMAIN url_list \subseteq DOMAIN url_list'
      /\ DOMAIN url_list' \subseteq DOMAIN url_list \cup {next_no}
      /\ \A m \in DOMAIN url_list : running_thread'[m] = running_thread[m]
      /\ \A m \in DOMAIN url_list' : m \notin DOMAIN url_list => running_thread'[m] = -2
  BY <1>0, InsertFrame, Zenon DEF InsertLink, task, TypeOK, LocalsOK, Early
<1>2. \A m \in DOMAIN url_list : (m \in Runs' <=> m \in Runs) /\ (m \in Done' <=> m \in Done)
  <2>1. \A m \in DOMAIN url_list : m \in Runs' <=> m \in Runs
    BY <1>0, <1>1, SameWork, Zenon
  <2>. QED
    BY <1>1, <2>1, Zenon DEF Done
<1>3. CASE DOMAIN url_list' = DOMAIN url_list
  BY <1>1, <1>2, <1>3, SameTask, Zenon
<1>4. CASE DOMAIN url_list' # DOMAIN url_list
  <2>1. DOMAIN url_list' = DOMAIN url_list \cup {next_no} /\ next_no \notin DOMAIN url_list
    BY <1>1, <1>4, Zenon
  <2>2. no[w] \in Runs
    BY <1>0, <1>1, EarlyAlone DEF Runs, InWork
  <2>3. next_no \notin Runs' /\ next_no \notin Done'
    <3>1. \A v \in Worker : pc[v] \in Early \cup {"finish"} => no[v] \in DOMAIN url_list
      BY <1>0, Zenon DEF IInv, NewUntilSettled, FinishSettled, Holding
    <3>. QED
      BY <1>1, <2>1, <3>1 DEF Runs, Done, InWork
  <2>4. /\ Runs \subseteq DOMAIN url_list /\ Runs' \subseteq DOMAIN url_list'
        /\ Done \subseteq DOMAIN url_list /\ Done' \subseteq DOMAIN url_list'
    BY Zenon DEF Runs, Done
  <2>5. Runs' = Runs /\ Done' = Done
    BY <1>2, <2>1, <2>3, <2>4, Zenon
  <2>. QED
    BY <1>1, <2>1, <2>2, <2>5, Zenon DEF Task!Find, Runs, Done
<1>. QED
  BY <1>3, <1>4, Zenon

LEMMA FreshGetTask ==
  ASSUME TaskInv, NEW w \in Worker, WorkerStep(w), FreshGet(w)
  PROVE  UNCHANGED Task!tvars \/ \E m \in DOMAIN url_list' : Task!Take(m)
<1>0. IInv /\ TypeOK /\ CountInv /\ WorkerFrame(w)
  BY StepFrame, Zenon DEF TaskInv, IInv
<1>1. /\ pc[w] = "fresh_get" /\ no' = no
      /\ UNCHANGED <<url_list, running_thread, start_ptr>>
      /\ pc'[w] = IF no[w] \in DOMAIN url_list /\ running_thread[no[w]] = -2
                  THEN "fresh_count" ELSE "fresh_loop"
  BY <1>0, Zenon DEF FreshGet, Goto, tables, task, locals, TypeOK, LocalsOK
<1>2. Done' = Done
  BY <1>1, Zenon DEF Done
<1>3. pc[w] \notin Working
  BY <1>1, Zenon DEF Working, Early
<1>4. CASE ~(no[w] \in DOMAIN url_list /\ running_thread[no[w]] = -2)
  <2>1. pc'[w] \notin Working
    BY <1>1, <1>4, Zenon DEF Working, Early
  <2>2. \A m \in DOMAIN url_list : m \in Runs' <=> m \in Runs
    BY <1>0, <1>1, <1>3, <2>1, SameWork, Zenon
  <2>. QED
    BY <1>1, <1>2, <2>2, SameTask, Zenon
<1>5. CASE no[w] \in DOMAIN url_list /\ running_thread[no[w]] = -2
  <2>1. pc'[w] \in Early
    BY <1>1, <1>5, Zenon DEF Early
  <2>2. ~Settled(no[w])
    BY <1>1, Zenon DEF Settled, Claimed
  <2>3. start_ptr # "null"
    <3>1. AllPassed => Passed(no[w])
      BY <1>0, <1>5, Zenon DEF AllPassed, TypeOK, TablesOK
    <3>. QED
      BY <1>0, <1>5, <2>2, <3>1, Zenon DEF IInv, EndPassed, Passed
  <2>4. no[w] \notin Runs /\ no[w] \notin Done
    <3>1. ASSUME NEW v \in Worker, no[v] = no[w], pc[v] \in Early \cup {"finish"} PROVE FALSE
      <4>1. CASE pc[v] = "finish"
        BY <1>0, <2>2, <3>1, <4>1, Zenon DEF IInv, FinishSettled
      <4>2. CASE pc[v] \in Early
        BY <1>0, <1>1, <1>3, <3>1, <4>2, SMTT(20) DEF IInv, Ownership, Owning, Holding, Working
      <4>. QED
        BY <3>1, <4>1, <4>2, Zenon
    <3>. QED
      BY <1>5, <3>1 DEF Runs, Done, InWork
  <2>5. \A m \in DOMAIN url_list : m # no[w] => (m \in Runs' <=> m \in Runs)
    BY <1>0, <1>1, SameWork, Zenon
  <2>6. no[w] \in Runs'
    BY <1>1, <1>5, <2>1 DEF Runs, InWork
  <2>7. Runs' = Runs \cup {no[w]}
    BY <1>1, <1>5, <2>5, <2>6, Zenon DEF Runs
  <2>8. Task!Take(no[w])
    BY <1>1, <1>2, <1>5, <2>3, <2>4, <2>7, Zenon DEF Task!Take, Runs, Done
  <2>. QED
    BY <1>1, <1>5, <2>8, Zenon
<1>. QED
  BY <1>4, <1>5, Zenon

LEMMA FinishStoreTask ==
  ASSUME TaskInv, NEW w \in Worker, WorkerStep(w), FinishStore(w)
  PROVE  \E m \in DOMAIN url_list' : Task!Complete(m)
<1>0. IInv /\ TypeOK /\ CountInv /\ WorkerFrame(w)
  BY StepFrame, Zenon DEF TaskInv, IInv
<1>1. /\ pc[w] = "finish_store" /\ pc'[w] = "finish_load" /\ no' = no
      /\ url_list' = url_list /\ start_ptr' = start_ptr
      /\ running_thread' = [running_thread EXCEPT ![no[w]] = -1]
  BY <1>0, Zenon DEF FinishStore, Step, Goto, locals, task, TypeOK, LocalsOK
<1>2. no[w] \in DOMAIN url_list /\ w \in Storing(no[w])
  BY <1>0, <1>1, Zenon DEF IInv, FinishSettled, Storing
<1>3. running_thread[no[w]] \in {0, -3}
  BY <1>0, <1>2, Zenon DEF CountInv, Counted
<1>4. no[w] \in Runs
  BY <1>2, <1>3 DEF Runs, InWork
<1>5. running_thread'[no[w]] = -1
  BY <1>0, <1>1, <1>2, Zenon DEF TypeOK, TablesOK
<1>6. ASSUME NEW m \in DOMAIN url_list, m # no[w]
      PROVE  running_thread'[m] = running_thread[m] /\ (m \in Runs' <=> m \in Runs)
  <2>1. running_thread'[m] = running_thread[m]
    BY <1>0, <1>1, <1>6 DEF TypeOK, TablesOK
  <2>. QED
    BY <1>0, <1>1, <1>6, <2>1, SameWork
<1>7. no[w] \notin Runs'
  BY <1>5, Zenon DEF Runs, InWork
<1>8. Runs' = Runs \ {no[w]}
  BY <1>1, <1>6, <1>7, Zenon DEF Runs
<1>9. Done' = Done \cup {no[w]}
  BY <1>1, <1>2, <1>5, <1>6, Zenon DEF Done
<1>10. PICK m \in DOMAIN url_list' : m = no[w]
  BY <1>1, <1>2, Zenon
<1>11. Task!Complete(m)
  BY <1>1, <1>4, <1>8, <1>9, <1>10, Zenon DEF Task!Complete, Runs, Done
<1>. QED
  BY <1>11, Zenon

LEMMA FinishedOneTask ==
  ASSUME TaskInv, NEW w \in Worker, WorkerStep(w), FinishedOne(w)
  PROVE  UNCHANGED Task!tvars \/ Task!FinishTask
<1>0. IInv /\ TypeOK /\ CountInv /\ WorkerFrame(w)
  BY StepFrame, Zenon DEF TaskInv, IInv
<1>1. /\ UNCHANGED <<url_list, running_thread>> /\ start_ptr' \in {start_ptr, "null"}
      /\ pc[w] = "finished_one" /\ pc'[w] \in {"idle", "remain"}
  <2>1. pc[w] = "finished_one" /\ pc'[w] \in {"idle", "remain"}
    BY <1>0, FinishedFrame, Zenon DEF FinishedOne
  <2>. QED
    BY <2>1, Zenon DEF FinishedOne, tables, task
<1>2. pc[w] \notin Working /\ pc'[w] \notin Working
  BY <1>1, Zenon DEF Working, Early
<1>3. \A m \in DOMAIN url_list : m \in Runs' <=> m \in Runs
  BY <1>0, <1>1, <1>2, SameWork, Zenon
<1>4. Runs' = Runs /\ Done' = Done
  BY <1>1, <1>3, Zenon DEF Runs, Done
<1>5. CASE start_ptr' = start_ptr
  BY <1>1, <1>4, <1>5, Zenon DEF Task!tvars, Runs, Done
<1>6. CASE start_ptr # "null" /\ start_ptr' = "null"
  <2>1. DOMAIN url_list # {}
    BY <1>0, WorkerRuns, Zenon DEF TaskInv, MainFirst
  <2>2. \A m \in DOMAIN url_list : running_thread[m] = -1
    BY <1>0, <1>1, Zenon DEF TaskInv, ScanOver, Over, TypeOK, TablesOK
  <2>3. Done = DOMAIN url_list
    BY <2>2, Zenon DEF Done
  <2>. QED
    BY <1>1, <1>4, <1>6, <2>1, <2>3, Zenon DEF Task!FinishTask, Runs, Done
<1>. QED
  BY <1>1, <1>5, <1>6, Zenon

LEMMA StartTask ==
  ASSUME TaskInv, Start
  PROVE  UNCHANGED Task!tvars \/ \E m \in DOMAIN url_list' : Task!Find(m)
<1>0. IInv /\ TypeOK
  BY Zenon DEF TaskInv, IInv
<1>1. pc' = pc /\ no' = no /\ start_ptr' = start_ptr /\ start_pc # "success"
  BY Zenon DEF Start, StartInsertNew, StartCheckMain, StartInsertMain, StartPush, task, locals
<1>2. CASE UNCHANGED <<url_list, running_thread>>
  <2>1. Runs' = Runs /\ Done' = Done
    BY <1>1, <1>2, Zenon DEF Runs, Done, InWork
  <2>. QED
    BY <1>1, <1>2, <2>1, Zenon DEF Task!tvars, Runs, Done
<1>3. CASE StartInsertMain /\ InsertNewUrl(MainUrl)
  <2>1. DOMAIN url_list = {} /\ DOMAIN url_no_map = {}
    BY <1>3, Zenon DEF StartInsertMain, TaskInv, MainFirst
  <2>2. DOMAIN url_list' = {next_no} /\ running_thread'[next_no] = -2
    BY <1>3, <2>1, Zenon DEF InsertNewUrl
  <2>3. \A w \in Worker : pc'[w] = "idle"
    BY <1>0, <1>1, Zenon DEF IInv, NotStarted
  <2>4. Runs = {} /\ Done = {} /\ Runs' = {} /\ Done' = {}
    BY <2>1, <2>2, <2>3 DEF Runs, Done, InWork, Early
  <2>5. Task!Find(next_no)
    BY <1>1, <2>1, <2>2, <2>4, Zenon DEF Task!Find, Runs, Done
  <2>. QED
    BY <2>2, <2>5, Zenon
<1>. QED
  BY <1>2, <1>3, Zenon DEF Start, StartInsertNew, StartCheckMain, StartInsertMain, StartPush,
     InsertNewUrlFails, tables

(***************************************************************************)
(* The threads, the atomics and the pool together do what a crawl task     *)
(* promises, for any number of threads, urls and policies: a url is found  *)
(* while one is worked on, taken once, completed once, and finished_one    *)
(* ends the task once, when every url found is complete.                   *)
(***************************************************************************)
THEOREM ImplementsTaskHolds == Spec => ImplementsTask
<1>1. Init => Task!TaskInit
  <2> SUFFICES ASSUME Init PROVE Task!TaskInit
    OBVIOUS
  <2>1. DOMAIN url_list = {} /\ Runs = {} /\ Done = {} /\ start_ptr = "set"
    BY Zenon DEF Init, Runs, Done
  <2>. QED
    BY <2>1, Zenon DEF Task!TaskInit, Runs, Done
<1>2. TaskInv /\ [Next]_vars => [Task!TaskNext]_(Task!tvars)
  <2> SUFFICES ASSUME TaskInv, [Next]_vars PROVE [Task!TaskNext]_(Task!tvars)
    OBVIOUS
  <2>1. CASE Start
    BY <2>1, StartTask, Zenon DEF Task!TaskNext
  <2>2. ASSUME NEW w \in Worker, WorkerStep(w) PROVE [Task!TaskNext]_(Task!tvars)
    <3>1. CASE QuietStep(w)
      BY <2>2, <3>1, QuietTask, StepFrame, Zenon DEF TaskInv, IInv
    <3>2. CASE TakePolicy(w) \/ GetPolicys(w) \/ PushPolicy(w) \/ FinishDecrement(w)
      BY <2>2, <3>2, CountTask, Zenon
    <3>3. CASE InsertLink(w) \/ FreshGet(w) \/ FinishStore(w) \/ FinishedOne(w)
      BY <2>2, <3>3, InsertLinkTask, FreshGetTask, FinishStoreTask, FinishedOneTask
      DEF Task!TaskNext
    <3>. QED
      BY <2>2, <3>1, <3>2, <3>3, SMTT(20) DEF WorkerStep, Fresh, Crawling, Finish, Quit, QuietStep
  <2>3. CASE UNCHANGED vars
    <3>1. UNCHANGED <<url_list, running_thread, start_ptr, pc, no>>
      BY <2>3, Zenon DEF vars, tables, task, locals
    <3>2. Runs' = Runs /\ Done' = Done
      BY <3>1, Zenon DEF Runs, Done, InWork
    <3>. QED
      BY <3>1, <3>2, Zenon DEF Task!tvars, Runs, Done
  <2>. QED
    BY <2>1, <2>2, <2>3, Zenon DEF Next
<1>. QED
  BY TaskInvHolds, <1>1, <1>2, PTL DEF Spec, ImplementsTask, Task!TaskSpec

\* A url that is in url_no_map keeps its number, and a new one gets a number of its own.
LEMMA InsertNoDuplicate ==
  ASSUME TypeOK, NoDuplicateUrl, NEW u \in Url, InsertNewUrl(u)
  PROVE  NoDuplicateUrl'
<1>1. next_no \notin DOMAIN url_list /\ \A v \in DOMAIN url_no_map : url_no_map[v] # next_no
  BY DEF TypeOK, CountersOK, TablesOK
<1>2. CASE u \in DOMAIN url_no_map
  BY <1>2, Zenon DEF InsertNewUrl, NoDuplicateUrl, tables
<1>3. CASE u \notin DOMAIN url_no_map
  <2>1. /\ url_no_map' = [v \in DOMAIN url_no_map \cup {u} |->
                            IF v = u THEN next_no ELSE url_no_map[v]]
        /\ url_list' = [m \in DOMAIN url_list \cup {next_no} |->
                          IF m = next_no THEN u ELSE url_list[m]]
    BY <1>3, Zenon DEF InsertNewUrl
  <2>. QED
    BY <1>1, <1>3, <2>1, Zenon DEF NoDuplicateUrl
<1>. QED
  BY <1>2, <1>3, Zenon

(***************************************************************************)
(* insert_new_url removes duplicates: no two urls have one number and no   *)
(* url has two, unless an insertion runs out of memory, whose handler      *)
(* erases a url that is still in url_list.                                 *)
(***************************************************************************)
THEOREM NoDuplicateUrlHolds ==
  ASSUME FaultBound = 0
  PROVE  Spec => []NoDuplicateUrl
<1>1. Init => NoDuplicateUrl
  BY Zenon DEF Init, NoDuplicateUrl
<1>2. TypeOK /\ NoDuplicateUrl /\ [Next]_vars => NoDuplicateUrl'
  <2> SUFFICES ASSUME TypeOK, NoDuplicateUrl, [Next]_vars PROVE NoDuplicateUrl'
    OBVIOUS
  <2>1. ASSUME NEW u \in Url PROVE ~InsertNewUrlFails(u)
    BY DEF InsertNewUrlFails, TypeOK, CountersOK
  <2>2. ASSUME NEW u \in Url, InsertNewUrl(u) \/ InsertNewUrlFails(u) PROVE NoDuplicateUrl'
    BY <2>1, <2>2, InsertNoDuplicate, Zenon
  <2>3. CASE UNCHANGED <<url_no_map, url_list>>
    BY <2>3, Zenon DEF NoDuplicateUrl
  <2>4. CASE Start
    BY <2>2, <2>3, <2>4, CrawlAssumption
    DEF Start, StartInsertNew, StartCheckMain, StartInsertMain, StartPush, tables
  <2>5. ASSUME NEW w \in Worker, WorkerStep(w) PROVE NoDuplicateUrl'
    <3>1. CASE InsertLink(w)
      BY <2>2, <3>1, Zenon DEF InsertLink, TypeOK, LocalsOK
    <3>2. CASE GetPolicys(w) \/ FinishDecrement(w) \/ FinishStore(w)
      BY <2>3, <3>2, Zenon DEF GetPolicys, FinishDecrement, FinishStore, tables
    <3>. QED
      BY <2>3, <2>5, <3>1, <3>2, TablesFrame, Zenon
  <2>6. CASE UNCHANGED vars
    BY <2>3, <2>6, Zenon DEF vars, tables
  <2>. QED
    BY <2>4, <2>5, <2>6, Zenon DEF Next
<1>. QED
  BY TypeCorrect, <1>1, <1>2, PTL DEF Spec
=============================================================================
