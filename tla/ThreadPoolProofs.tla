-------------------------- MODULE ThreadPoolProofs --------------------------
(***************************************************************************)
(* Safety of the thread pool, for any number of threads, clients, rounds   *)
(* and jobs: it keeps its threads, counts its jobs, and implements         *)
(* JobQueue.                                                               *)
(***************************************************************************)
EXTENDS ThreadPool, FiniteSetTheorems, TLAPS

\* stop() is between its first and its last step.
InStop == ctl \in {"reset", "clear", "forget"}

Crew(r) == {r} \X (1 .. total)

InJob == {t \in Thread : pc[t] \in {"run", "uncount"}}

(***************************************************************************)
(* The inductive invariant.  The list is empty or has the threads of this  *)
(* round; threads of later rounds do not exist; an interruption reaches a  *)
(* thread of the list only while stop() runs; only a thread between its    *)
(* pull and the end of f() has a job.                                      *)
(***************************************************************************)
ListKnown ==
  /\ ctl # "done" => rounds < MaxRun
  /\ ctl \in {"start", "create", "done"} => work_queue_thread = {}
  /\ ctl = "running" => work_queue_thread = Crew(rounds + 1)
  /\ work_queue_thread \in {{}, Crew(rounds + 1)}

LaterUnborn ==
  \A t \in Thread : t[1] > rounds /\ t \notin work_queue_thread => pc[t] = "unborn"

AskedInStop ==
  \A t \in asked : t[1] <= rounds \/ (t \in work_queue_thread /\ InStop)

ListAlive == \A t \in work_queue_thread : pc[t] = "exited" => InStop

JobHeld == \A t \in Thread : func[t] # None => pc[t] \in {"notify", "count", "run"}

CountExact ==
  rounds = 0 /\ (work_queue_thread = {} \/ ctl = "running") =>
    running_count = Cardinality(InJob)

IInv ==
  TypeOK /\ ListKnown /\ LaterUnborn /\ AskedInStop /\ ListAlive /\ JobHeld /\ CountExact

-----------------------------------------------------------------------------
LEMMA WrapType == \A x \in Int : Wrap(x) \in 0 .. SizeT - 1
  BY PoolAssumption DEF Wrap

LEMMA SeqOfMore ==
  ASSUME NEW m \in Nat, NEW s \in Seq(1 .. m)
  PROVE  Append(s, m + 1) \in Seq(1 .. m + 1)
<1>1. s \in Seq(1 .. m + 1)
  BY 1 .. m \subseteq 1 .. m + 1
<1>. QED
  BY <1>1

\* notify_one moves a waiting thread to its pull and leaves the others.
LEMMA NotifyOneMoves ==
  ASSUME NEW p \in [Thread -> Label], NotifyOne(p)
  PROVE  /\ pc' \in [Thread -> Label]
         /\ \A t \in Thread : pc'[t] = p[t] \/ (p[t] = "wait" /\ pc'[t] = "pull")
  BY DEF NotifyOne, Label

(***************************************************************************)
(* The state keeps its type.                                               *)
(***************************************************************************)
LEMMA InitIInv == Init => IInv
<1> SUFFICES ASSUME Init PROVE IInv
  OBVIOUS
<1> USE DEF Init
<1>1. TypeOK
  BY PoolAssumption DEF TypeOK, Label
<1>2. ListKnown /\ LaterUnborn /\ AskedInStop /\ ListAlive /\ JobHeld
  BY PoolAssumption DEF ListKnown, LaterUnborn, AskedInStop, ListAlive, JobHeld
<1>3. InJob = {}
  BY DEF InJob
<1>4. CountExact
  BY <1>3, FS_EmptySet DEF CountExact
<1>. QED
  BY <1>1, <1>2, <1>4 DEF IInv

LEMMA TypeStep == IInv /\ [Next]_vars => TypeOK'
<1> SUFFICES ASSUME IInv, [Next]_vars PROVE TypeOK'
  OBVIOUS
<1> USE PoolAssumption DEF queueing, clients, control
<1>0. TypeOK
  BY DEF IInv
<1>1. ASSUME NEW t \in Thread, ThreadStep(t) \/ SpuriousWake(t)
      PROVE  TypeOK'
  <2>1. CASE CheckRunning(t) \/ Wait(t) \/ WaitInterrupted(t) \/ SpuriousWake(t)
    BY <1>0, <2>1 DEF TypeOK, CheckRunning, Wait, WaitInterrupted, SpuriousWake, Goto, Label
  <2>2. CASE PullFront(t)
    <3>1. CASE deque_content = <<>>
      BY <1>0, <2>2, <3>1 DEF TypeOK, PullFront, Goto, Label
    <3>2. CASE deque_content # <<>>
      <4>1. Head(deque_content) \in 1 .. jobs /\ Tail(deque_content) \in Seq(1 .. jobs)
        BY <1>0, <3>2 DEF TypeOK
      <4>. QED
        BY <1>0, <2>2, <3>2, <4>1, Zenon DEF TypeOK, PullFront, Goto, Label
    <3>. QED
      BY <3>1, <3>2
  <2>3. CASE PullNotify(t)
    <3> DEFINE p == [pc EXCEPT ![t] = IF func[t] = None THEN "block" ELSE "count"]
    <3>1. p \in [Thread -> Label]
      BY <1>0 DEF TypeOK, Label
    <3>2. pc' = p \/ NotifyOne(p)
      BY <2>3 DEF PullNotify
    <3>3. pc' \in [Thread -> Label]
      BY <3>1, <3>2, NotifyOneMoves, Zenon
    <3>. QED
      BY <1>0, <2>3, <3>3 DEF TypeOK, PullNotify
  <2>4. CASE CountUp(t) \/ CountDown(t)
    <3>1. running_count + 1 \in Int /\ running_count - 1 \in Int
      BY <1>0 DEF TypeOK
    <3>2. running_count' \in 0 .. SizeT - 1
      BY <2>4, <3>1, WrapType DEF CountUp, CountDown
    <3>. QED
      BY <1>0, <2>4, <3>2, Zenon DEF TypeOK, CountUp, CountDown, Goto, Label
  <2>5. CASE RunJob(t) \/ JobInterrupted(t)
    BY <1>0, <2>5, Zenon DEF TypeOK, RunJob, JobInterrupted, Goto, Label
  <2>. QED
    BY <1>1, <2>1, <2>2, <2>3, <2>4, <2>5 DEF ThreadStep
<1>2. ASSUME NEW c \in Client, ClientStep(c)
      PROVE  TypeOK'
  <2>1. CASE PushCheck(c)
    BY <1>0, <2>1 DEF TypeOK, PushCheck
  <2>2. CASE PushBack(c)
    <3>1. deque_content' \in Seq(1 .. jobs') /\ jobs' \in 0 .. MaxJob
      BY <1>0, <2>2, SeqOfMore DEF TypeOK, PushBack
    <3>2. func' \in [Thread -> 1 .. jobs' \cup {None}]
      BY <1>0, <2>2 DEF TypeOK, PushBack
    <3>. QED
      BY <1>0, <2>2, <3>1, <3>2, SMTT(20) DEF TypeOK, PushBack
  <2>3. CASE PushNotify(c)
    <3>1. pc' \in [Thread -> Label]
      BY <1>0, <2>3, NotifyOneMoves DEF TypeOK, PushNotify
    <3>. QED
      BY <1>0, <2>3, <3>1 DEF TypeOK, PushNotify
  <2>. QED
    BY <1>2, <2>1, <2>2, <2>3 DEF ClientStep
<1>3. CASE StopInterrupt \/ StopReset
  BY <1>0, <1>3 DEF TypeOK, StopInterrupt, StopReset
<1>4. CASE StopClear
  <2>1. <<>> \in Seq(1 .. jobs)
    OBVIOUS
  <2>. QED
    BY <1>0, <1>4, <2>1 DEF TypeOK, StopClear
<1>5. CASE StopForget
  BY <1>0, <1>5 DEF TypeOK, StopForget, IInv, ListKnown, is_running
<1>6. CASE StartCreate
  <2>1. work_queue_thread' \subseteq Thread
    BY <1>0, <1>6 DEF TypeOK, IInv, ListKnown, StartCreate, Thread
  <2>2. pc' \in [Thread -> Label]
    BY <1>0, <1>6 DEF TypeOK, StartCreate, Label
  <2>. QED
    BY <1>0, <1>6, <2>1, <2>2 DEF TypeOK, StartCreate
<1>7. CASE UNCHANGED vars
  BY <1>0, <1>7 DEF TypeOK, vars
<1>. QED
  BY <1>1, <1>2, <1>3, <1>4, <1>5, <1>6, <1>7 DEF Next, Control, Stopping

(***************************************************************************)
(* What a step of a thread may do to the places of the threads: one that   *)
(* is not unborn moves, and it leaves thread_run only when it was asked to *)
(* or the list is empty.                                                   *)
(***************************************************************************)
LEMMA ThreadMoves ==
  ASSUME TypeOK, NEW t \in Thread, ThreadStep(t) \/ SpuriousWake(t)
  PROVE  /\ UNCHANGED control
         /\ \A u \in Thread : pc[u] = "unborn" => pc'[u] = "unborn"
         /\ \A u \in Thread :
              pc'[u] = "exited" => pc[u] = "exited" \/ u \in asked \/ work_queue_thread = {}
<1> USE DEF control, Goto, Label
<1>1. CASE CheckRunning(t)
  BY <1>1 DEF CheckRunning, TypeOK, is_running
<1>2. CASE PullFront(t) \/ SpuriousWake(t)
  BY <1>2 DEF PullFront, SpuriousWake, TypeOK
<1>3. CASE PullNotify(t)
  <2> DEFINE p == [pc EXCEPT ![t] = IF func[t] = None THEN "block" ELSE "count"]
  <2>1. p \in [Thread -> Label] /\ (pc' = p \/ NotifyOne(p)) /\ UNCHANGED control
    BY <1>3 DEF PullNotify, TypeOK
  <2>2. \A u \in Thread : pc'[u] = p[u] \/ (p[u] = "wait" /\ pc'[u] = "pull")
    BY <2>1, NotifyOneMoves, Zenon
  <2>3. pc[t] = "notify" /\ p[t] \in {"block", "count"} /\ \A u \in Thread \ {t} : p[u] = pc[u]
    BY <1>3 DEF PullNotify, TypeOK
  <2>. QED
    BY <2>1, <2>2, <2>3
<1>4. CASE Wait(t) \/ WaitInterrupted(t)
  BY <1>4 DEF Wait, WaitInterrupted, TypeOK
<1>5. CASE CountUp(t) \/ CountDown(t)
  BY <1>5 DEF CountUp, CountDown, TypeOK
<1>6. CASE RunJob(t) \/ JobInterrupted(t)
  BY <1>6 DEF RunJob, JobInterrupted, TypeOK
<1>. QED
  BY <1>1, <1>2, <1>3, <1>4, <1>5, <1>6 DEF ThreadStep

LEMMA ClientMoves ==
  ASSUME TypeOK, NEW c \in Client, ClientStep(c)
  PROVE  /\ UNCHANGED <<control, running_count, func>>
         /\ \A u \in Thread : pc'[u] = pc[u] \/ (pc[u] = "wait" /\ pc'[u] = "pull")
<1>1. CASE PushCheck(c) \/ PushBack(c)
  BY <1>1 DEF PushCheck, PushBack, queueing
<1>2. CASE PushNotify(c)
  BY <1>2, NotifyOneMoves DEF PushNotify, TypeOK, queueing
<1>. QED
  BY <1>1, <1>2 DEF ClientStep

LEMMA ListStep ==
  IInv /\ [Next]_vars => (ListKnown /\ LaterUnborn /\ AskedInStop /\ ListAlive)'
<1> SUFFICES ASSUME IInv, [Next]_vars
             PROVE  (ListKnown /\ LaterUnborn /\ AskedInStop /\ ListAlive)'
  OBVIOUS
<1> USE PoolAssumption DEF ListKnown, LaterUnborn, AskedInStop, ListAlive, InStop
<1>0. TypeOK /\ ListKnown /\ LaterUnborn /\ AskedInStop /\ ListAlive
  BY DEF IInv
<1>1. ASSUME NEW t \in Thread, ThreadStep(t) \/ SpuriousWake(t)
      PROVE  (ListKnown /\ LaterUnborn /\ AskedInStop /\ ListAlive)'
  <2>1. UNCHANGED <<work_queue_thread, asked, ctl, rounds>>
    BY <1>0, <1>1, ThreadMoves DEF control
  <2>2. (ListKnown /\ AskedInStop)'
    BY <1>0, <2>1 DEF Crew
  <2>3. LaterUnborn'
    BY <1>0, <1>1, <2>1, ThreadMoves
  <2>4. ASSUME NEW u \in work_queue_thread, pc'[u] = "exited"
        PROVE  InStop
    <3>1. u \in Thread /\ u[1] = rounds + 1 /\ rounds \in Nat
      BY <1>0 DEF TypeOK, Crew
    <3>2. pc[u] = "exited" \/ u \in asked
      BY <1>0, <1>1, <2>4, <3>1, ThreadMoves
    <3>. QED
      BY <1>0, <3>1, <3>2
  <2>5. ListAlive'
    BY <2>1, <2>4
  <2>. QED
    BY <2>2, <2>3, <2>5
<1>2. ASSUME NEW c \in Client, ClientStep(c)
      PROVE  (ListKnown /\ LaterUnborn /\ AskedInStop /\ ListAlive)'
  <2>1. UNCHANGED <<work_queue_thread, asked, ctl, rounds>>
    BY <1>0, <1>2, ClientMoves DEF control
  <2>2. \A u \in Thread : pc'[u] = pc[u] \/ (pc[u] = "wait" /\ pc'[u] = "pull")
    BY <1>0, <1>2, ClientMoves
  <2>3. ListKnown' /\ AskedInStop'
    BY <1>0, <2>1 DEF Crew
  <2>4. LaterUnborn' /\ ListAlive'
    BY <1>0, <2>1, <2>2 DEF TypeOK
  <2>. QED
    BY <2>3, <2>4
<1>3. CASE StopInterrupt
  <2>1. \A t \in work_queue_thread : t \in Thread
    BY <1>0 DEF TypeOK
  <2>. QED
    BY <1>0, <1>3, <2>1 DEF StopInterrupt, Crew, TypeOK
<1>4. CASE StopReset \/ StopClear
  BY <1>0, <1>4 DEF StopReset, StopClear, Crew
<1>5. CASE StopForget
  <2>1. rounds \in Nat /\ MaxRun \in Nat
    BY <1>0 DEF TypeOK
  <2>2. CASE work_queue_thread = {}
    BY <1>0, <1>5, <2>1, <2>2 DEF StopForget, is_running, Crew, TypeOK
  <2>3. CASE work_queue_thread # {}
    <3>1. /\ work_queue_thread' = {} /\ rounds' = rounds + 1
          /\ ctl' = IF rounds' < MaxRun THEN "start" ELSE "done"
          /\ UNCHANGED <<asked, pc>>
      BY <1>5, <2>3 DEF StopForget, is_running
    <3>2. ListKnown' /\ ListAlive'
      BY <3>1
    <3>3. work_queue_thread = Crew(rounds + 1)
      BY <1>0, <2>3
    <3>4. \A t \in Thread : t[1] \in Nat /\ (t \in work_queue_thread <=> t[1] = rounds + 1)
      BY <3>3 DEF Crew, Thread
    <3>5. LaterUnborn'
      BY <1>0, <2>1, <3>1, <3>4
    <3>6. ASSUME NEW t \in asked PROVE t[1] <= rounds + 1
      <4>1. t \in Thread /\ (t[1] <= rounds \/ t \in work_queue_thread)
        BY <1>0 DEF TypeOK
      <4>. QED
        BY <2>1, <3>4, <4>1
    <3>7. AskedInStop'
      BY <3>1, <3>6
    <3>. QED
      BY <3>2, <3>5, <3>7
  <2>. QED
    BY <2>2, <2>3
<1>6. CASE StartCreate
  <2>1. work_queue_thread' = Crew(rounds + 1) /\ rounds' = rounds /\ asked' = asked /\ ctl' = "running"
    BY <1>6 DEF StartCreate, Crew
  <2>2. ctl = "create" /\ work_queue_thread = {} /\ rounds < MaxRun
    BY <1>0, <1>6 DEF StartCreate
  <2>3. \A t \in Thread : pc'[t] = IF t \in work_queue_thread' THEN "check" ELSE pc[t]
    BY <1>6 DEF StartCreate
  <2>4. work_queue_thread' \subseteq Thread
    BY <2>1, <2>2, <1>0 DEF Crew, Thread, TypeOK
  <2>5. ListKnown'
    BY <2>1, <2>2 DEF Crew
  <2>6. LaterUnborn' /\ AskedInStop'
    BY <1>0, <2>1, <2>2, <2>3
  <2>7. ListAlive'
    BY <2>3, <2>4
  <2>. QED
    BY <2>5, <2>6, <2>7
<1>7. CASE UNCHANGED vars
  BY <1>0, <1>7 DEF vars, control, Crew
<1>. QED
  BY <1>1, <1>2, <1>3, <1>4, <1>5, <1>6, <1>7 DEF Next, Control, Stopping

LEMMA JobStep == IInv /\ [Next]_vars => JobHeld'
<1> SUFFICES ASSUME IInv, [Next]_vars PROVE JobHeld'
  OBVIOUS
<1> USE DEF JobHeld, queueing
<1>0. TypeOK /\ JobHeld /\ LaterUnborn /\ ListKnown
  BY DEF IInv
<1>1. ASSUME NEW t \in Thread, ThreadStep(t) \/ SpuriousWake(t)
      PROVE  JobHeld'
  <2> USE DEF TypeOK, Goto
  <2>1. CASE CheckRunning(t) \/ Wait(t) \/ WaitInterrupted(t) \/ SpuriousWake(t)
    BY <1>0, <2>1, Zenon DEF CheckRunning, Wait, WaitInterrupted, SpuriousWake
  <2>2. CASE PullFront(t)
    BY <1>0, <2>2 DEF PullFront
  <2>3. CASE PullNotify(t)
    <3> DEFINE p == [pc EXCEPT ![t] = IF func[t] = None THEN "block" ELSE "count"]
    <3>1. p \in [Thread -> Label] /\ (pc' = p \/ NotifyOne(p)) /\ func' = func
      BY <1>0, <2>3 DEF PullNotify, Label
    <3>2. \A u \in Thread : pc'[u] = p[u] \/ (p[u] = "wait" /\ pc'[u] = "pull")
      BY <3>1, NotifyOneMoves, Zenon
    <3>. QED
      BY <1>0, <3>1, <3>2
  <2>4. CASE CountUp(t) \/ CountDown(t)
    BY <1>0, <2>4 DEF CountUp, CountDown
  <2>5. CASE RunJob(t) \/ JobInterrupted(t)
    BY <1>0, <2>5 DEF RunJob, JobInterrupted
  <2>. QED
    BY <1>1, <2>1, <2>2, <2>3, <2>4, <2>5 DEF ThreadStep
<1>2. ASSUME NEW c \in Client, ClientStep(c)
      PROVE  JobHeld'
  BY <1>0, <1>2, ClientMoves
<1>3. CASE Stopping \/ StopInterrupt
  BY <1>0, <1>3 DEF Stopping, StopInterrupt, StopReset, StopClear, StopForget
<1>4. CASE StartCreate
  <2>1. ASSUME NEW t \in Thread, pc'[t] # pc[t]
        PROVE  pc[t] = "unborn"
    <3>1. t \in {rounds + 1} \X (1 .. total) /\ work_queue_thread = {}
      BY <1>0, <1>4, <2>1, Zenon DEF StartCreate, ListKnown
    <3>2. t[1] = rounds + 1 /\ rounds \in Nat
      BY <1>0, <3>1 DEF TypeOK
    <3>3. t[1] > rounds
      BY <3>2
    <3>. QED
      BY <1>0, <3>1, <3>3, Zenon DEF LaterUnborn
  <2>2. func' = func
    BY <1>4, Zenon DEF StartCreate, queueing
  <2>. QED
    BY <1>0, <2>1, <2>2
<1>5. CASE UNCHANGED vars
  BY <1>0, <1>5 DEF vars
<1>. QED
  BY <1>1, <1>2, <1>3, <1>4, <1>5 DEF Next, Control

(***************************************************************************)
(* The count of the jobs that run, before the first stop().                *)
(***************************************************************************)
LEMMA CrewFinite ==
  ASSUME NEW S \in SUBSET Crew(1)
  PROVE  IsFiniteSet(S) /\ Cardinality(S) \in 0 .. total
<1>1. IsFiniteSet(1 .. total) /\ Cardinality(1 .. total) = total
  BY PoolAssumption, FS_Interval
<1>2. IsFiniteSet({1}) /\ Cardinality({1}) = 1
  BY FS_Singleton, Zenon
<1>3. IsFiniteSet(Crew(1)) /\ Cardinality(Crew(1)) = Cardinality({1}) * Cardinality(1 .. total)
  BY <1>1, <1>2, FS_Product, Zenon DEF Crew
<1>4. IsFiniteSet(S) /\ Cardinality(S) <= Cardinality(Crew(1))
  BY <1>3, FS_Subset
<1>5. Cardinality(S) \in Nat
  BY <1>4, FS_CardinalityType
<1>. QED
  BY <1>1, <1>2, <1>3, <1>4, <1>5, PoolAssumption

\* In the first round only its threads exist, and none does before start().
LEMMA FirstCrew ==
  ASSUME rounds = 0, TypeOK, ListKnown, LaterUnborn, NEW t \in Thread, pc[t] # "unborn"
  PROVE  t \in Crew(1) /\ work_queue_thread # {}
<1>1. t[1] > rounds
  BY DEF Thread
<1>2. t \in work_queue_thread
  BY <1>1 DEF LaterUnborn
<1>3. rounds + 1 = 1
  OBVIOUS
<1>. QED
  BY <1>2, <1>3 DEF ListKnown

LEMMA CountStep == IInv /\ [Next]_vars => CountExact'
<1> SUFFICES ASSUME IInv, [Next]_vars,
                    rounds' = 0, (work_queue_thread = {} \/ ctl = "running")'
             PROVE  running_count' = Cardinality(InJob)'
  BY DEF CountExact
<1> USE DEF queueing, control
<1>0. TypeOK /\ ListKnown /\ LaterUnborn /\ AskedInStop /\ CountExact
  BY DEF IInv
<1>1. ASSUME NEW t \in Thread, ThreadStep(t) \/ SpuriousWake(t)
      PROVE  running_count' = Cardinality(InJob)'
  <2>1. rounds = 0 /\ (work_queue_thread = {} \/ ctl = "running")
    BY <1>0, <1>1, ThreadMoves
  <2>0. InJob \in SUBSET Crew(1)
    BY <1>0, <2>1, FirstCrew DEF InJob
  <2>2. running_count = Cardinality(InJob) /\ IsFiniteSet(InJob) /\ running_count \in 0 .. total
    BY <1>0, <2>0, <2>1, CrewFinite DEF CountExact
  <2>3. asked = {}
    BY <1>0, <2>1 DEF AskedInStop, InStop, TypeOK, Thread
  <2> USE DEF Goto, TypeOK
  <2>4. CASE CheckRunning(t) \/ Wait(t) \/ SpuriousWake(t) \/ PullFront(t) \/ RunJob(t)
    <3>1. InJob' = InJob /\ running_count' = running_count
      BY <1>0, <2>4 DEF CheckRunning, Wait, SpuriousWake, PullFront, RunJob, InJob
    <3>. QED
      BY <2>2, <3>1
  <2>5. CASE PullNotify(t)
    <3> DEFINE p == [pc EXCEPT ![t] = IF func[t] = None THEN "block" ELSE "count"]
    <3>1. p \in [Thread -> Label] /\ (pc' = p \/ NotifyOne(p)) /\ running_count' = running_count
      BY <1>0, <2>5 DEF PullNotify, Label
    <3>2. \A u \in Thread : pc'[u] = p[u] \/ (p[u] = "wait" /\ pc'[u] = "pull")
      BY <3>1, NotifyOneMoves, Zenon
    <3>3. pc[t] = "notify"
      BY <2>5 DEF PullNotify
    <3>4. InJob' = InJob
      BY <1>0, <3>2, <3>3, Zenon DEF InJob
    <3>. QED
      BY <2>2, <3>1, <3>4
  <2>6. CASE WaitInterrupted(t) \/ JobInterrupted(t)
    BY <2>3, <2>6 DEF WaitInterrupted, JobInterrupted
  <2>7. CASE CountUp(t)
    <3>1. InJob' = InJob \cup {t} /\ t \notin InJob /\ t \in Crew(1)
      BY <1>0, <2>1, <2>7, FirstCrew DEF CountUp, InJob
    <3>2. Cardinality(InJob \cup {t}) = Cardinality(InJob) + 1
      BY <2>2, <3>1, FS_AddElement, Zenon
    <3>3. Cardinality(InJob \cup {t}) \in 0 .. total
      BY <2>0, <3>1, CrewFinite
    <3>. QED
      BY <2>2, <2>7, <3>1, <3>2, <3>3, PoolAssumption DEF CountUp, Wrap
  <2>8. CASE CountDown(t)
    <3>1. InJob' = InJob \ {t} /\ t \in InJob
      BY <1>0, <2>8 DEF CountDown, InJob
    <3>2. Cardinality(InJob \ {t}) = Cardinality(InJob) - 1
      BY <2>2, <3>1, FS_RemoveElement
    <3>3. Cardinality(InJob \ {t}) \in 0 .. total
      BY <2>0, CrewFinite
    <3>. QED
      BY <2>2, <2>8, <3>1, <3>2, <3>3, PoolAssumption DEF CountDown, Wrap
  <2>. QED
    BY <1>1, <2>4, <2>5, <2>6, <2>7, <2>8 DEF ThreadStep
<1>2. ASSUME NEW c \in Client, ClientStep(c)
      PROVE  running_count' = Cardinality(InJob)'
  <2>1. InJob' = InJob
    BY <1>0, <1>2, ClientMoves DEF InJob
  <2>. QED
    BY <1>0, <1>2, <2>1, ClientMoves DEF CountExact
<1>3. ASSUME rounds' = rounds, work_queue_thread' = {}, work_queue_thread = {}, pc' = pc,
             running_count' \in {0, running_count}
      PROVE  running_count' = Cardinality(InJob)'
  <2>1. InJob = {} /\ InJob' = {}
    BY <1>0, <1>3, FirstCrew DEF InJob
  <2>. QED
    BY <1>0, <1>3, <2>1, FS_EmptySet DEF CountExact
<1>4. CASE StopInterrupt \/ StopReset \/ StopClear \/ StopForget
  BY <1>0, <1>3, <1>4
  DEF StopInterrupt, StopReset, StopClear, StopForget, is_running, ListKnown, TypeOK
<1>5. CASE StartCreate
  <2>1. InJob = {} /\ InJob' = {}
    BY <1>0, <1>5, FirstCrew DEF StartCreate, ListKnown, InJob
  <2>. QED
    BY <1>0, <1>5, <2>1, SMTT(20) DEF StartCreate, CountExact, ListKnown
<1>6. CASE UNCHANGED vars
  <2>1. InJob' = InJob
    BY <1>6 DEF vars, InJob
  <2>. QED
    BY <1>0, <1>6, <2>1 DEF vars, CountExact
<1>. QED
  BY <1>1, <1>2, <1>4, <1>5, <1>6 DEF Next, Control, Stopping

(***************************************************************************)
(* The inductive invariant holds of the pool: thread_run, push, start and  *)
(* stop preserve it in any interleaving.                                   *)
(***************************************************************************)
THEOREM InvariantHolds == Spec => []IInv
<1>1. IInv /\ [Next]_vars => IInv'
  BY TypeStep, ListStep, JobStep, CountStep DEF IInv
<1>. QED
  BY InitIInv, <1>1, PTL DEF Spec

(***************************************************************************)
(* The pool never loses a thread: while it runs, each thread of            *)
(* work_queue_thread is inside thread_run and was not asked to leave.      *)
(***************************************************************************)
THEOREM PoolFullHolds == Spec => []PoolFull
<1>1. IInv => PoolFull
  <2> SUFFICES ASSUME IInv, ctl = "running", NEW t \in work_queue_thread
               PROVE  pc[t] # "exited" /\ t \notin asked
    BY DEF PoolFull
  <2>1. t[1] = rounds + 1 /\ rounds \in Nat
    BY DEF IInv, ListKnown, Crew, TypeOK
  <2>. QED
    BY <2>1 DEF IInv, ListAlive, AskedInStop, InStop
<1>. QED
  BY InvariantHolds, <1>1, PTL

(***************************************************************************)
(* running_count is exact until the first stop(), for as many threads as   *)
(* a size_t can count, and every variable keeps its type.                  *)
(***************************************************************************)
THEOREM RunningCountExactHolds == Spec => []RunningCountExact
<1>1. IInv => RunningCountExact
  BY DEF IInv, RunningCountExact, CountExact, InJob
<1>. QED
  BY InvariantHolds, <1>1, PTL

-----------------------------------------------------------------------------
(***************************************************************************)
(* Every step of the pool is a step of JobQueue, or none.                  *)
(***************************************************************************)
LEMMA QueueStep == IInv /\ [Next]_vars => [Queue!Next]_(Queue!vars)
<1> SUFFICES ASSUME IInv, [Next]_vars
             PROVE  Queue!Next \/ UNCHANGED Queue!vars
  OBVIOUS
<1> USE DEF Queue!vars, queueing, clients, control
<1>0. TypeOK /\ JobHeld
  BY DEF IInv
<1>1. ASSUME NEW t \in Thread, ThreadStep(t) \/ SpuriousWake(t)
      PROVE  Queue!Next \/ UNCHANGED Queue!vars
  <2>1. CASE PullFront(t)
    <3>1. CASE deque_content = <<>>
      BY <2>1, <3>1 DEF PullFront
    <3>2. CASE deque_content # <<>>
      <4>1. func[t] = None
        BY <1>0, <2>1 DEF PullFront, JobHeld
      <4>2. Queue!Take(t)
        BY <2>1, <3>2, <4>1 DEF PullFront, Queue!Take
      <4>. QED
        BY <4>2 DEF Queue!Next
    <3>. QED
      BY <3>1, <3>2
  <2>2. CASE RunJob(t) \/ JobInterrupted(t)
    <3>1. CASE func[t] = None
      BY <1>0, <2>2, <3>1 DEF RunJob, JobInterrupted, TypeOK
    <3>2. CASE func[t] # None
      <4>1. Queue!Done(t)
        BY <2>2, <3>2 DEF RunJob, JobInterrupted, Queue!Done
      <4>. QED
        BY <4>1 DEF Queue!Next
    <3>. QED
      BY <3>1, <3>2
  <2>3. CASE \/ CheckRunning(t) \/ PullNotify(t) \/ Wait(t) \/ WaitInterrupted(t)
             \/ CountUp(t) \/ CountDown(t) \/ SpuriousWake(t)
    BY <2>3
    DEF CheckRunning, PullNotify, Wait, WaitInterrupted, CountUp, CountDown, SpuriousWake
  <2>. QED
    BY <1>1, <2>1, <2>2, <2>3 DEF ThreadStep
<1>2. ASSUME NEW c \in Client, ClientStep(c)
      PROVE  Queue!Next \/ UNCHANGED Queue!vars
  <2>1. CASE PushCheck(c) \/ PushNotify(c)
    BY <2>1 DEF PushCheck, PushNotify
  <2>2. CASE PushBack(c)
    <3>1. /\ jobs + 1 \in 1 .. MaxJob /\ jobs + 1 \notin 1 .. jobs
          /\ 1 .. jobs' = (1 .. jobs) \cup {jobs + 1}
      BY <1>0, <2>2, PoolAssumption DEF TypeOK, PushBack
    <3>2. Queue!Push(jobs + 1)
      BY <2>2, <3>1 DEF PushBack, Queue!Push
    <3>. QED
      BY <3>1, <3>2 DEF Queue!Next
  <2>. QED
    BY <1>2, <2>1, <2>2 DEF ClientStep
<1>3. CASE StopInterrupt \/ StopReset \/ StopForget \/ StartCreate
  <2>1. Queue!Stop
    BY <1>3 DEF StopInterrupt, StopReset, StopForget, StartCreate, Queue!Stop
  <2>. QED
    BY <2>1 DEF Queue!Next
<1>4. CASE StopClear
  <2>1. Queue!Discard
    BY <1>4 DEF StopClear, Queue!Discard
  <2>. QED
    BY <2>1 DEF Queue!Next
<1>5. CASE UNCHANGED vars
  BY <1>5 DEF vars
<1>. QED
  BY <1>1, <1>2, <1>3, <1>4, <1>5 DEF Next, Control, Stopping

(***************************************************************************)
(* The pool implements JobQueue: push, pull and stop, in any interleaving, *)
(* hand each accepted job to one thread, in order, and discard jobs only   *)
(* in stop().                                                              *)
(***************************************************************************)
THEOREM ImplementsQueueHolds == Spec => ImplementsQueue
<1>1. Init => Queue!Init
  <2>1. ASSUME Init PROVE 1 .. jobs = {}
    BY <2>1 DEF Init
  <2>. QED
    BY <2>1 DEF Init, Queue!Init
<1>. QED
  BY InvariantHolds, QueueStep, <1>1, PTL DEF Spec, ImplementsQueue, Queue!Spec

=============================================================================
