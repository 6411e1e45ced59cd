----------------------------- MODULE IoServices -----------------------------
(***************************************************************************)
(* iocp_server_pool::run and stop.  run() gives every io_service a thread  *)
(* and joins them; stop() tells the services one by one.  The work object  *)
(* of a service keeps its thread inside io_service::run until the service  *)
(* is told; the flag stays set.                                            *)
(***************************************************************************)
EXTENDS Integers

CONSTANT pool_size \* IOCP_SERVER_POOL_SIZE, 2 in the code

ASSUME IoServicesAssumption == pool_size \in Nat \ {0}

VARIABLES
  created,  \* services that run() has given a thread
  threads,  \* services whose thread is inside io_service::run
  stopped,  \* services that were told to stop
  stopping  \* caller of stop() -> the service it tells next; -1 when not called

services == <<created, threads, stopped, stopping>>

Service == 0 .. pool_size - 1

\* The handler of a signal, and system_api::run after the services.
Stopper == {"signal", "run"}

ServicesInit ==
  /\ created = 0 /\ threads = {} /\ stopped = {}
  /\ stopping = [c \in Stopper |-> -1]

RunCreate ==
  /\ created \in Service /\ created' = created + 1
  /\ threads' = threads \cup {created}
  /\ UNCHANGED <<stopped, stopping>>

\* A thread leaves after the handler it runs; that of signals runs on service 0.
ServiceEnds(s) ==
  /\ s \in threads \cap stopped /\ threads' = threads \ {s}
  /\ s = 0 => stopping["signal"] \notin Service
  /\ UNCHANGED <<created, stopped, stopping>>

\* Every thread has been created and joined.
RunJoined == created = pool_size /\ threads = {}

StopCall(c) ==
  /\ stopping[c] = -1 /\ stopping' = [stopping EXCEPT ![c] = 0]
  /\ UNCHANGED <<created, threads, stopped>>

\* Plausible bug: the first service is left out.
StopOneSkipsFirst(c) ==
  /\ stopping[c] \in Service /\ stopping' = [stopping EXCEPT ![c] = @ + 1]
  /\ stopped' = stopped \cup ({stopping[c]} \ {0})
  /\ UNCHANGED <<created, threads>>

StopOne(c) ==
  /\ stopping[c] \in Service /\ stopping' = [stopping EXCEPT ![c] = @ + 1]
  /\ stopped' = stopped \cup {stopping[c]}
  /\ UNCHANGED <<created, threads>>

\* stop() has told every service.
StopReturned(c) == stopping[c] = pool_size
=============================================================================
