------------------------------ MODULE JobQueue ------------------------------
(***************************************************************************)
(* What the thread pool promises its callers, and what the model of a      *)
(* crawl task assumes of it: a job that push accepted is handed, in order, *)
(* to one thread, which runs it once; only stop discards jobs.             *)
(***************************************************************************)
EXTENDS Integers, Sequences

CONSTANTS Thread, Job, None

VARIABLES
  queue,    \* accepted jobs no thread has taken
  working,  \* the job each thread has taken, or None
  accepted, \* every job that push ever accepted
  stopping  \* stop() has begun

vars == <<queue, working, accepted, stopping>>

Init ==
  /\ queue = <<>> /\ accepted = {} /\ stopping = FALSE
  /\ working = [t \in Thread |-> None]

Push(j) ==
  /\ j \notin accepted
  /\ accepted' = accepted \cup {j} /\ queue' = Append(queue, j)
  /\ UNCHANGED <<working, stopping>>

Take(t) ==
  /\ working[t] = None /\ queue # <<>>
  /\ working' = [working EXCEPT ![t] = Head(queue)] /\ queue' = Tail(queue)
  /\ UNCHANGED <<accepted, stopping>>

Done(t) ==
  /\ working[t] # None
  /\ working' = [working EXCEPT ![t] = None]
  /\ UNCHANGED <<queue, accepted, stopping>>

Stop ==
  /\ stopping' \in BOOLEAN
  /\ UNCHANGED <<queue, working, accepted>>

Discard ==
  /\ stopping /\ queue' = <<>>
  /\ UNCHANGED <<working, accepted, stopping>>

Next ==
  \/ \E j \in Job : Push(j)
  \/ \E t \in Thread : Take(t) \/ Done(t)
  \/ Stop \/ Discard

Spec == Init /\ [][Next]_vars
=============================================================================
