----------------------------- MODULE SystemRun ------------------------------
(***************************************************************************)
(* system_api::run over the whole life of the program: the policy server   *)
(* and the threads of the pool, and the io_services that run() waits for.  *)
(* A signal, whose handler runs on the first service, stops the services;  *)
(* then run() stops the pool, the services once more, and the policies.    *)
(***************************************************************************)
EXTENDS PolicyServer, IoServices

sys_vars == <<vars, services>>

SysInit == Init /\ ServicesInit

Alive == ctl # "crashed"

\* Steps of the policy server and of the pool that the services do not hold up.
PolicyStep ==
  /\ Start \/ StopPool \/ ClearMap \/ ClearOrigin \/ \E w \in Worker : WorkerStep(w)
  /\ UNCHANGED services

\* iocp_server_point->run(), which returns when its threads have ended.
ServeCreate == Running /\ RunCreate /\ UNCHANGED vars
ServeReturns == RunJoined /\ RunReturns /\ UNCHANGED services
ServiceEnd(s) == Alive /\ ServiceEnds(s) /\ UNCHANGED vars

Signal ==
  /\ Running /\ 0 \in threads \ stopped /\ StopCall("signal")
  /\ UNCHANGED vars

\* iocp_server_point->stop(), after the stop of the pool and before clear().
StopServices == ctl = "clear_bases" /\ StopCall("run") /\ UNCHANGED vars
StopService(c) == Alive /\ StopOne(c) /\ UNCHANGED vars
ClearPolicies == StopReturned("run") /\ ClearBases /\ UNCHANGED services

-----------------------------------------------------------------------------
SysNext ==
  \/ PolicyStep \/ ServeCreate \/ ServeReturns \/ Signal \/ StopServices \/ ClearPolicies
  \/ \E s \in Service : ServiceEnd(s)
  \/ \E c \in Stopper : StopService(c)

SysSpec == SysInit /\ [][SysNext]_sys_vars

\* The steps of run() and of the services after a stop.
Ending ==
  \/ ServeCreate \/ ServeReturns \/ StopServices \/ ClearPolicies
  \/ (StopPool \/ ClearMap \/ ClearOrigin) /\ UNCHANGED services

\* Threads are scheduled; nobody has to connect, to scan or to send a signal.
SysFairSpec ==
  /\ SysSpec /\ WF_sys_vars(Ending)
  /\ \A s \in Service : WF_sys_vars(ServiceEnd(s))
  /\ \A c \in Stopper : WF_sys_vars(StopService(c))

-----------------------------------------------------------------------------
(***************************************************************************)
(* A signal ends the program, and so does a listen that fails: stop()      *)
(* reaches every service, also one whose thread run() has still to create, *)
(* run() joins them all, and pool, services and policies are then stopped  *)
(* without waiting for a thread of the pool.                               *)
(***************************************************************************)
StopEndsProgram ==
  (stopping["signal"] = 0 \/ ctl = "stop_idle") ~> ctl \in {"done", "crashed"}
=============================================================================
