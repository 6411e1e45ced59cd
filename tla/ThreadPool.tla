----------------------------- MODULE ThreadPool -----------------------------
(***************************************************************************)
(* thread_pool and thread_work_queue: worker threads that pull jobs from a *)
(* shared deque and sleep on a condition, clients that push jobs, and the  *)
(* thread of system_api::run that starts and stops the pool.  One access   *)
(* to shared state is one step.  The mutex of the condition is a local of  *)
(* thread_run, so no lock joins the failed pull to the wait.               *)
(***************************************************************************)
EXTENDS Integers, Sequences, FiniteSets

CONSTANTS
  Client,   \* threads that push jobs
  None,     \* no job
  total,    \* the argument of start(), 150 in system_api::run
  MaxRun,   \* rounds of system_api::run: 1, or more with bReset
  MaxJob,   \* bound on the number of jobs pushed
  SizeT     \* 2^32: std::atomic_size_t wraps at this value

ASSUME PoolAssumption ==
  /\ total \in Nat \ {0} /\ MaxRun \in Nat \ {0} /\ MaxJob \in Nat
  /\ SizeT \in Nat /\ total < SizeT
  /\ None \notin 1 .. MaxJob

\* A thread is named by the round whose start() creates it and its place in the list.
Thread == (1 .. MaxRun) \X (1 .. total)

VARIABLES
  work_queue_thread, \* threads stop() will interrupt
  running_count,     \* atomic: jobs being run
  deque_content,     \* jobs waiting
  asked,             \* threads with an interruption requested
  pc,                \* where each thread is
  func,              \* the job a thread has pulled
  push_pc,           \* where each client is in push()
  jobs,              \* jobs created so far
  ctl,               \* where the controlling thread is
  rounds             \* completed rounds of system_api::run

queueing == <<deque_content, func>>
clients  == <<push_pc, jobs>>
control  == <<work_queue_thread, asked, ctl, rounds>>
vars     == <<queueing, clients, control, running_count, pc>>

Wrap(x) == x % SizeT

Init ==
  /\ work_queue_thread = {} /\ asked = {} /\ deque_content = <<>>
  /\ running_count = 0
  /\ pc = [t \in Thread |-> "unborn"] /\ func = [t \in Thread |-> None]
  /\ push_pc = [c \in Client |-> "idle"] /\ jobs = 0
  /\ ctl = "start" /\ rounds = 0

\* thread_queue_mutex is held during stop() only; start() is one step under it.
Unlocked   == ctl \in {"start", "create", "running", "done"}
is_running == work_queue_thread # {}

\* notify_one: some waiting thread goes back to its pull; p is pc otherwise.
NotifyOne(p) ==
  IF \E t \in Thread : p[t] = "wait"
  THEN \E t \in Thread : p[t] = "wait" /\ pc' = [p EXCEPT ![t] = "pull"]
  ELSE pc' = p

Goto(t, l) == pc' = [pc EXCEPT ![t] = l]

\* Plausible bug: a thread that finds nothing to do leaves.
CheckRunningOrLeave(t) ==
  /\ pc[t] = "check" /\ Unlocked
  /\ Goto(t, IF is_running /\ deque_content # <<>> THEN "pull" ELSE "exited")
  /\ UNCHANGED <<queueing, clients, control, running_count>>

(***************************************************************************)
(* thread_run                                                              *)
(***************************************************************************)
CheckRunning(t) ==
  /\ pc[t] = "check" /\ Unlocked
  /\ Goto(t, IF is_running THEN "pull" ELSE "exited")
  /\ UNCHANGED <<queueing, clients, control, running_count>>

\* Plausible bug: the job is read and stays in the deque.
PullFrontKeeps(t) ==
  /\ pc[t] = "pull" /\ Goto(t, "notify")
  /\ IF deque_content = <<>> THEN UNCHANGED queueing
     ELSE /\ func' = [func EXCEPT ![t] = Head(deque_content)]
          /\ UNCHANGED deque_content
  /\ UNCHANGED <<clients, control, running_count>>

\* pull: pullfront under content_mutex, then empty() without it.
PullFront(t) ==
  /\ pc[t] = "pull" /\ Goto(t, "notify")
  /\ IF deque_content = <<>> THEN UNCHANGED queueing
     ELSE /\ func' = [func EXCEPT ![t] = Head(deque_content)]
          /\ deque_content' = Tail(deque_content)
  /\ UNCHANGED <<clients, control, running_count>>

PullNotify(t) ==
  /\ pc[t] = "notify"
  /\ LET p == [pc EXCEPT ![t] = IF func[t] = None THEN "block" ELSE "count"]
     IN  IF deque_content # <<>> THEN NotifyOne(p) ELSE pc' = p
  /\ UNCHANGED <<queueing, clients, control, running_count>>

\* wait() throws thread_interrupted, now or later, in a thread that was asked.
Wait(t) ==
  /\ pc[t] = "block"
  /\ Goto(t, IF t \in asked THEN "exited" ELSE "wait")
  /\ UNCHANGED <<queueing, clients, control, running_count>>

WaitInterrupted(t) ==
  /\ pc[t] = "wait" /\ t \in asked /\ Goto(t, "exited")
  /\ UNCHANGED <<queueing, clients, control, running_count>>

SpuriousWake(t) ==
  /\ pc[t] = "wait" /\ Goto(t, "pull")
  /\ UNCHANGED <<queueing, clients, control, running_count>>

CountUp(t) ==
  /\ pc[t] = "count" /\ Goto(t, "run")
  /\ running_count' = Wrap(running_count + 1)
  /\ UNCHANGED <<queueing, clients, control>>

RunJob(t) ==
  /\ pc[t] = "run" /\ Goto(t, "uncount")
  /\ func' = [func EXCEPT ![t] = None]
  /\ UNCHANGED <<deque_content, clients, control, running_count>>

\* A job that waits (a download does) is abandoned, and stays counted.
JobInterrupted(t) ==
  /\ pc[t] = "run" /\ t \in asked /\ Goto(t, "exited")
  /\ func' = [func EXCEPT ![t] = None]
  /\ UNCHANGED <<deque_content, clients, control, running_count>>

\* Plausible bug: a finished job stays counted.
CountDownForgets(t) ==
  /\ pc[t] = "uncount" /\ Goto(t, "check")
  /\ UNCHANGED <<queueing, clients, control, running_count>>

\* Plausible bug: a thread sleeps after every job.
CountDownSleeps(t) ==
  /\ pc[t] = "uncount" /\ Goto(t, "block")
  /\ running_count' = Wrap(running_count - 1)
  /\ UNCHANGED <<queueing, clients, control>>

CountDown(t) ==
  /\ pc[t] = "uncount" /\ Goto(t, "check")
  /\ running_count' = Wrap(running_count - 1)
  /\ UNCHANGED <<queueing, clients, control>>

(***************************************************************************)
(* push: three steps of the client.                                        *)
(***************************************************************************)
PushCheck(c) ==
  /\ push_pc[c] = "idle" /\ Unlocked /\ is_running
  /\ push_pc' = [push_pc EXCEPT ![c] = "pushback"]
  /\ UNCHANGED <<queueing, jobs, control, running_count, pc>>

PushBack(c) ==
  /\ push_pc[c] = "pushback" /\ jobs < MaxJob
  /\ push_pc' = [push_pc EXCEPT ![c] = "notify"]
  /\ jobs' = jobs + 1 /\ deque_content' = Append(deque_content, jobs + 1)
  /\ UNCHANGED <<func, control, running_count, pc>>

PushNotify(c) ==
  /\ push_pc[c] = "notify"
  /\ push_pc' = [push_pc EXCEPT ![c] = "idle"]
  /\ NotifyOne(pc)
  /\ UNCHANGED <<queueing, jobs, control, running_count>>

\* Plausible bug: stop() forgets the threads without interrupting them.
StopWithoutInterrupt ==
  /\ ctl \in {"start", "running"} /\ ctl' = "reset"
  /\ UNCHANGED <<queueing, clients, work_queue_thread, asked, rounds, running_count, pc>>

(***************************************************************************)
(* The controlling thread.  start() calls stop(), which finds no thread,   *)
(* and creates the threads under the lock; stop() touches one shared       *)
(* variable per step.                                                      *)
(***************************************************************************)
StopInterrupt ==
  /\ ctl \in {"start", "running"} /\ ctl' = "reset"
  /\ asked' = asked \cup work_queue_thread
  /\ UNCHANGED <<queueing, clients, work_queue_thread, rounds, running_count, pc>>

StopReset ==
  /\ ctl = "reset" /\ ctl' = "clear"
  /\ running_count' = 0
  /\ UNCHANGED <<queueing, clients, work_queue_thread, asked, rounds, pc>>

StopClear ==
  /\ ctl = "clear" /\ ctl' = "forget"
  /\ deque_content' = <<>>
  /\ UNCHANGED <<func, clients, work_queue_thread, asked, rounds, running_count, pc>>

StopForget ==
  /\ ctl = "forget" /\ work_queue_thread' = {}
  /\ IF is_running
     THEN rounds' = rounds + 1 /\ ctl' = IF rounds' < MaxRun THEN "start" ELSE "done"
     ELSE ctl' = "create" /\ UNCHANGED rounds
  /\ UNCHANGED <<queueing, clients, asked, running_count, pc>>

StartCreate ==
  /\ ctl = "create" /\ ctl' = "running"
  /\ work_queue_thread' = {rounds + 1} \X (1 .. total)
  /\ pc' = [t \in Thread |-> IF t \in work_queue_thread' THEN "check" ELSE pc[t]]
  /\ UNCHANGED <<queueing, clients, asked, rounds, running_count>>

-----------------------------------------------------------------------------
ThreadStep(t) ==
  \/ CheckRunning(t) \/ PullFront(t) \/ PullNotify(t) \/ Wait(t)
  \/ WaitInterrupted(t) \/ CountUp(t) \/ RunJob(t) \/ JobInterrupted(t)
  \/ CountDown(t)

ClientStep(c) == PushCheck(c) \/ PushBack(c) \/ PushNotify(c)

Stopping == StopReset \/ StopClear \/ StopForget

Control == StopInterrupt \/ Stopping \/ StartCreate

Next ==
  \/ \E t \in Thread : ThreadStep(t) \/ SpuriousWake(t)
  \/ \E c \in Client : ClientStep(c)
  \/ Control

Spec == Init /\ [][Next]_vars

\* Threads are scheduled and jobs return; nobody has to push a job or to stop.
FairSpec ==
  /\ Spec /\ WF_vars(Stopping)
  /\ \A t \in Thread : WF_vars(ThreadStep(t))

-----------------------------------------------------------------------------
Label == {"unborn", "check", "pull", "notify", "block", "wait", "count", "run",
          "uncount", "exited"}

\* The shape of the state of thread_pool and of its threads; running_count keeps to
\* the width of size_t when the decrement of a job that outlived stop() wraps.
TypeOK ==
  /\ work_queue_thread \subseteq Thread /\ asked \subseteq Thread
  /\ running_count \in 0 .. SizeT - 1
  /\ jobs \in 0 .. MaxJob /\ deque_content \in Seq(1 .. jobs)
  /\ pc \in [Thread -> Label]
  /\ func \in [Thread -> 1 .. jobs \cup {None}]
  /\ push_pc \in [Client -> {"idle", "pushback", "notify"}]
  /\ ctl \in {"start", "reset", "clear", "forget", "create", "running", "done"}
  /\ rounds \in 0 .. MaxRun

(***************************************************************************)
(* Until the first stop(), running_count is the number of threads inside a *)
(* job: thread_run counts up before f() and down after it.  The state has  *)
(* its type at all times.                                                  *)
(***************************************************************************)
RunningCountExact ==
  /\ TypeOK
  /\ rounds = 0 /\ ctl = "running" =>
       running_count = Cardinality({t \in Thread : pc[t] \in {"run", "uncount"}})

(***************************************************************************)
(* The pool never loses a thread: one that left thread_run was interrupted *)
(* by stop() or saw the empty list that stop() left, so it is not in       *)
(* work_queue_thread, whatever threads of earlier rounds still do.         *)
(***************************************************************************)
PoolFull ==
  ctl = "running" => \A t \in work_queue_thread : pc[t] # "exited" /\ t \notin asked

(***************************************************************************)
(* push, pull and stop implement the job queue that the callers rely on:   *)
(* accepted jobs are taken in order, each by one thread, and discarded     *)
(* only by stop().                                                         *)
(***************************************************************************)
Queue == INSTANCE JobQueue WITH
  Job      <- 1 .. MaxJob,
  queue    <- deque_content,
  working  <- func,
  accepted <- 1 .. jobs,
  stopping <- ctl \in {"reset", "clear", "forget"}

ImplementsQueue == Queue!Spec

(***************************************************************************)
(* A waiting job is not stranded while some thread of the pool is awake: a *)
(* thread that runs a job returns to pull, until the queue is empty.       *)
(***************************************************************************)
Awake == \E t \in work_queue_thread : pc[t] \in {"check", "pull", "count", "run", "uncount"}

AwakeThreadDrains ==
  (deque_content # <<>> /\ Awake) ~> (deque_content = <<>> \/ ctl # "running")

(***************************************************************************)
(* After the last stop() every thread leaves thread_run: a sleeping thread *)
(* is interrupted, one between its pull and its wait finds the request     *)
(* pending, and a busy one sees that the list of threads is empty.         *)
(***************************************************************************)
StopEndsThreads ==
  ctl = "done" ~> \A t \in Thread : pc[t] \in {"unborn", "exited"}

(***************************************************************************)
(* thread_pool.h:55 on thread_wait_condition: "wait action signel".  The   *)
(* signal of a push reaches a thread: the pool does not sleep over a job   *)
(* once push has notified.                                                 *)
(***************************************************************************)
ActionSignalHeard ==
  ~ /\ ctl = "running" /\ deque_content # <<>>
    /\ \A c \in Client : push_pc[c] # "notify"
    /\ \A t \in work_queue_thread : pc[t] = "wait"
=============================================================================
