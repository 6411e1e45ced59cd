------------------------------- MODULE IoPool -------------------------------
(***************************************************************************)
(* iocp_server_pool::get_io_service.  The threads that open or accept      *)
(* connections choose an io_service with it, and it takes no lock: each    *)
(* access to next_io_service_ is a step.                                   *)
(***************************************************************************)
EXTENDS Integers

CONSTANTS
  Caller,    \* threads that call get_io_service
  pool_size, \* IOCP_SERVER_POOL_SIZE, 2 in the code
  MaxIndex   \* bound on the index, which nothing bounds once it is past the size

VARIABLES
  next_io_service_, \* index of the next service to use
  pc,               \* where each caller is in get_io_service
  index,            \* the index a caller has used
  loaded            \* the value a caller increments

vars == <<next_io_service_, pc, index, loaded>>

Service == 0 .. pool_size - 1

\* The signals, the listener and its first accept have taken a service each.
Init ==
  /\ next_io_service_ = 3 % pool_size
  /\ pc = [c \in Caller |-> "idle"] /\ index = [c \in Caller |-> 0]
  /\ loaded = [c \in Caller |-> 0]

(***************************************************************************)
(* get_io_service: use the index, increment it (a load and a store), and   *)
(* compare it with the size before it is reset.                            *)
(***************************************************************************)
Goto(c, from, to) == pc[c] = from /\ pc' = [pc EXCEPT ![c] = to]

Choose(c) ==
  /\ Goto(c, "idle", "load") /\ next_io_service_ < MaxIndex
  /\ index' = [index EXCEPT ![c] = next_io_service_]
  /\ UNCHANGED <<next_io_service_, loaded>>

IncrementLoad(c) ==
  /\ Goto(c, "load", "store")
  /\ loaded' = [loaded EXCEPT ![c] = next_io_service_]
  /\ UNCHANGED <<next_io_service_, index>>

IncrementStore(c) ==
  /\ Goto(c, "store", "compare")
  /\ next_io_service_' = loaded[c] + 1
  /\ UNCHANGED <<index, loaded>>

Compare(c) ==
  /\ Goto(c, "compare", IF next_io_service_ = pool_size THEN "reset" ELSE "idle")
  /\ UNCHANGED <<next_io_service_, index, loaded>>

Reset(c) ==
  /\ Goto(c, "reset", "idle") /\ next_io_service_' = 0
  /\ UNCHANGED <<index, loaded>>

-----------------------------------------------------------------------------
Get(c) == Choose(c) \/ IncrementLoad(c) \/ IncrementStore(c) \/ Compare(c) \/ Reset(c)

Next == \E c \in Caller : Get(c)

Spec == Init /\ [][Next]_vars

-----------------------------------------------------------------------------
(***************************************************************************)
(* iocp_server.cpp:61 in get_io_service: "Use a round-robin scheme to      *)
(* choose the next io_service to use."  The index that a caller uses is    *)
(* that of a service.                                                      *)
(***************************************************************************)
ChosenIsService == \A c \in Caller : index[c] \in Service
=============================================================================
