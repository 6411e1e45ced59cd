----------------------------- MODULE ThreadCache ----------------------------
(***************************************************************************)
(* tcmalloc's thread caches (thread_cache.h, thread_cache.cc), and the     *)
(* malloc and free of small objects that threads call (tcmalloc.cc).       *)
(*                                                                         *)
(* "op" says what a thread is doing, and "call" where it is in a call of   *)
(* the central free lists, which CentralFreeList models.  What a thread    *)
(* does to its own cache before such a call belongs to the step that makes *)
(* it, and what it does after to the step that returns.  The members of a  *)
(* cache that is not in thread_heaps have the values that Init gives them. *)
(***************************************************************************)
EXTENDS Integers, FiniteSets, Sequences, Functions, FiniteSetsExt

CONSTANTS
  Thread,
  Class,          \* size classes
  num_objects_to_move,  \* class -> objects moved at a time
  None,
  ByteSize,       \* class -> size of an object
  kMaxOverages,
  kMaxDynamicFreeListLength,
  kStealAmount,
  kMinThreadCacheSize,
  kTries,         \* heaps that IncreaseCacheLimitLocked looks at
  overall_thread_cache_size

VARIABLES
  program,        \* the objects that the program has
  list, lowater, max_length, length_overages,  \* thread -> class -> member of its FreeList
  size, max_size,                              \* thread -> bytes in its cache, and its limit
  unclaimed_cache_space,
  thread_heaps,   \* the threads that have a cache, the newest first
  next_memory_steal,
  op,
  call            \* thread -> the call of InsertRange or RemoveRange it is in

free_list == <<list, lowater, max_length, length_overages>>
limits == <<max_size, unclaimed_cache_space, thread_heaps, next_memory_steal>>
cache == <<free_list, size, limits>>

\* What a call has: the class, the number asked for, the objects it moves, the ones it is
\* giving back to spans, the class it takes a slot from, and the span it works on.
Idle == [at |-> "idle", cl |-> None, n |-> 0, range |-> {}, list |-> {}, victim |-> None,
         force |-> FALSE, ok |-> FALSE, span |-> None]

\* cl and left are those of ReleaseToCentralCache; todo, the classes that a loop has yet to do.
Working == [in |-> "program", cl |-> None, left |-> 0, bytes |-> 0, todo |-> {}]

CacheInit ==
  /\ program = {}
  /\ list = [t \in Thread |-> [c \in Class |-> {}]]
  /\ lowater = [t \in Thread |-> [c \in Class |-> 0]]
  /\ max_length = [t \in Thread |-> [c \in Class |-> 1]]
  /\ length_overages = [t \in Thread |-> [c \in Class |-> 0]]
  /\ size = [t \in Thread |-> 0] /\ max_size = [t \in Thread |-> 0]
  /\ unclaimed_cache_space = overall_thread_cache_size
  /\ thread_heaps = <<>> /\ next_memory_steal = None
  /\ op = [t \in Thread |-> Working] /\ call = [t \in Thread |-> Idle]

in(t) == op[t].in

at(t) == call[t].at

HasCache(t) == t \in Range(thread_heaps)

length(t, c) == Cardinality(list[t][c])

Min2(a, b) == IF a <= b THEN a ELSE b

Max2(a, b) == IF a >= b THEN a ELSE b

(***************************************************************************)
(* The share of a thread, changed under pageheap_lock.                     *)
(***************************************************************************)
Successor(h) ==
  LET i == CHOOSE j \in DOMAIN thread_heaps : thread_heaps[j] = h
  IN IF i = Len(thread_heaps) THEN None ELSE thread_heaps[i + 1]

\* The heap that the loop is at after i heaps.
Visited(i) ==
  LET n == Len(thread_heaps)
      first == IF next_memory_steal = None THEN 1
               ELSE CHOOSE j \in 1 .. n : thread_heaps[j] = next_memory_steal
  IN thread_heaps[((first - 1 + i) % n) + 1]

Rich(t, h) == h # t /\ max_size[h] > kMinThreadCacheSize

\* IncreaseCacheLimitLocked: who gives t its share, None when it is the unclaimed space,
\* t when it is nobody; and where the next search starts.
Donor(t) ==
  LET rich == {i \in 0 .. kTries - 1 : Rich(t, Visited(i))}
  IN IF unclaimed_cache_space > 0 THEN <<None, next_memory_steal>>
     ELSE IF thread_heaps = <<>> THEN <<t, None>>
     ELSE IF rich # {} THEN <<Visited(Min(rich)), Successor(Visited(Min(rich)))>>
     ELSE <<t, Successor(Visited(kTries - 1))>>

\* The limits once t has been given its share.
Increased(t) ==
  LET d == Donor(t)[1]
  IN [h \in Thread |-> IF d = t THEN max_size[h]
                       ELSE IF h = t THEN max_size[h] + kStealAmount
                       ELSE IF h = d THEN max_size[h] - kStealAmount
                       ELSE max_size[h]]

\* clear_lowwatermark of the lists of classes K.
ClearedMarks(t, K) == [c \in Class |-> IF c \in K THEN length(t, c) ELSE lowater[t][c]]

\* The end of Scavenge.
IncreaseCacheLimit(t) ==
  /\ in(t) = "scavenge" /\ at(t) = "idle" /\ \A k \in op[t].todo : lowater[t][k] = 0
  /\ lowater' = [lowater EXCEPT ![t] = ClearedMarks(t, op[t].todo)]
  /\ max_size' = Increased(t)
  /\ next_memory_steal' = Donor(t)[2]
  /\ unclaimed_cache_space' =
       IF Donor(t)[1] = None THEN unclaimed_cache_space - kStealAmount ELSE unclaimed_cache_space
  /\ op' = [op EXCEPT ![t] = Working]
  /\ UNCHANGED <<call, program, list, max_length, length_overages, size, thread_heaps>>

\* CreateCacheIfNecessary, from a malloc of a thread that has no cache.
CreateCacheIfNecessary(t) ==
  LET short == Increased(t)[t] = 0
      from == Donor(t)[1]
  IN /\ in(t) = "program" /\ ~HasCache(t)
     /\ max_size' = [Increased(t) EXCEPT ![t] = IF short THEN kMinThreadCacheSize ELSE @]
     /\ unclaimed_cache_space' =
          unclaimed_cache_space - (IF short THEN kMinThreadCacheSize
                                   ELSE IF from = None THEN kStealAmount ELSE 0)
     /\ next_memory_steal' = IF thread_heaps = <<>> THEN t ELSE Donor(t)[2]
     /\ thread_heaps' = <<t>> \o thread_heaps
     /\ UNCHANGED <<call, program, free_list, size, op>>

(***************************************************************************)
(* malloc.                                                                 *)
(***************************************************************************)
RemoveRange_call(t, c, n) ==
  call' = [call EXCEPT ![t] = [Idle EXCEPT !.at = "remove", !.cl = c, !.n = n]]

InsertRange_call(t, c, S) ==
  call' = [call EXCEPT ![t] = [Idle EXCEPT !.at = "insert", !.cl = c, !.n = Cardinality(S),
                                           !.range = S]]

Allocate(t, c) ==
  /\ in(t) = "program" /\ HasCache(t)
  /\ IF list[t][c] # {}
     THEN \E o \in list[t][c] :
            /\ list' = [list EXCEPT ![t][c] = @ \ {o}]
            /\ lowater' = [lowater EXCEPT ![t][c] = Min2(@, length(t, c) - 1)]
            /\ size' = [size EXCEPT ![t] = @ - ByteSize[c]]
            /\ program' = program \cup {o}
            /\ UNCHANGED <<call, op>>
     ELSE /\ RemoveRange_call(t, c, Min2(max_length[t][c], num_objects_to_move[c]))
          /\ op' = [op EXCEPT ![t].in = "fetch", ![t].cl = c]
          /\ UNCHANGED <<list, lowater, size, program>>
  /\ UNCHANGED <<max_length, length_overages, limits>>

\* Mutant: kMaxDynamicFreeListLength is forgotten.
Lengthened_uncapped(m, batch) == IF m < batch THEN m + 1 ELSE m + batch

Lengthened(m, batch) ==
  IF m < batch THEN m + 1
  ELSE LET new == Min2(m + batch, kMaxDynamicFreeListLength) IN new - (new % batch)

\* What FetchFromCentralCache puts on the list when it returns o.  Mutant: all of S.
ToList_all(S, o) == S

ToList(S, o) == S \ {o}

\* The rest of FetchFromCentralCache.
Fetched(t, S) ==
  LET c == op[t].cl
  IN /\ in(t) = "fetch"
     /\ IF S = {} THEN UNCHANGED <<program, list, size>>
        ELSE \E o \in S :
               /\ program' = program \cup {o}
               /\ list' = [list EXCEPT ![t][c] = @ \cup ToList(S, o)]
               /\ size' = [size EXCEPT ![t] = @ + ByteSize[c] * (Cardinality(S) - 1)]
     /\ max_length' = [max_length EXCEPT ![t][c] = Lengthened(@, num_objects_to_move[c])]
     /\ call' = [call EXCEPT ![t] = Idle] /\ op' = [op EXCEPT ![t] = Working]
     /\ UNCHANGED <<lowater, length_overages, limits>>

(***************************************************************************)
(* free.                                                                   *)
(***************************************************************************)
\* The next range of ReleaseToCentralCache, of "left" objects that are still to go.
NextRange(t, c, L, left, low) ==
  \E S \in kSubset(Min2(left, num_objects_to_move[c]), L) :
    /\ list' = [list EXCEPT ![t][c] = L \ S]
    /\ lowater' = [lowater EXCEPT ![t] = [low EXCEPT ![c] = Min2(@, Cardinality(L \ S))]]
    /\ InsertRange_call(t, c, S)

ReleaseToCentralCache(t, why, c, L, N, todo, clear) ==
  LET n == Min2(N, Cardinality(L))
  IN /\ op' = [op EXCEPT ![t] = [in |-> why, cl |-> c, left |-> n, bytes |-> n * ByteSize[c],
                                 todo |-> todo]]
     /\ NextRange(t, c, L, n, ClearedMarks(t, clear))

Scavenging == [Working EXCEPT !.in = "scavenge", !.todo = Class]

Deallocate(t, c, o) ==
  LET L == list[t][c] \cup {o}
  IN /\ in(t) = "program" /\ HasCache(t) /\ o \in program
     /\ program' = program \ {o}
     /\ size' = [size EXCEPT ![t] = @ + ByteSize[c]]
     /\ IF Cardinality(L) > max_length[t][c]
        THEN ReleaseToCentralCache(t, "toolong", c, L, num_objects_to_move[c], {}, {})
        ELSE /\ list' = [list EXCEPT ![t][c] = L]
             /\ op' = [op EXCEPT ![t] = IF size'[t] >= max_size[t] THEN Scavenging ELSE Working]
             /\ UNCHANGED <<lowater, call>>
     /\ UNCHANGED <<max_length, length_overages, limits>>

\* A free in a thread that has no cache goes straight to the central free list.
FreeWithoutCache(t, c, o) ==
  /\ in(t) = "program" /\ ~HasCache(t) /\ o \in program
  /\ program' = program \ {o}
  /\ InsertRange_call(t, c, {o})
  /\ op' = [op EXCEPT ![t] = [Working EXCEPT !.in = "direct", !.cl = c]]
  /\ UNCHANGED <<cache>>

\* The loop of ReleaseToCentralCache goes on.
ReleaseMore(t) ==
  LET c == op[t].cl
      left == op[t].left - num_objects_to_move[c]
  IN /\ in(t) \in {"toolong", "scavenge", "cleanup"} /\ left > 0
     /\ op' = [op EXCEPT ![t].left = left]
     /\ NextRange(t, c, list[t][c], left, lowater[t])
     /\ UNCHANGED <<program, max_length, length_overages, size, limits>>

\* The bytes that ReleaseToCentralCache takes off size_.  Mutant: those of the last range.
delta_bytes_late(t) == op[t].left * ByteSize[op[t].cl]

delta_bytes(t) == op[t].bytes

\* InsertRange returns, from the last range.
Inserted(t, why) ==
  /\ in(t) = why /\ op[t].left <= num_objects_to_move[op[t].cl]
  /\ call' = [call EXCEPT ![t] = Idle]
  /\ size' = [size EXCEPT ![t] = @ - delta_bytes(t)]
  /\ UNCHANGED <<program, list, limits>>

FreedWithoutCache(t) ==
  /\ Inserted(t, "direct")
  /\ op' = [op EXCEPT ![t] = Working]
  /\ UNCHANGED <<lowater, max_length, length_overages>>

\* The rest of ListTooLong, and of Deallocate.
ListTooLong(t) ==
  LET c == op[t].cl
      batch == num_objects_to_move[c]
      m == max_length[t][c]
      over == length_overages[t][c] + 1 > kMaxOverages
  IN /\ Inserted(t, "toolong")
     /\ max_length' = [max_length EXCEPT ![t][c] =
                         IF m < batch THEN m + 1 ELSE IF m > batch /\ over THEN m - batch ELSE m]
     /\ length_overages' = [length_overages EXCEPT ![t][c] =
                              IF m <= batch THEN @ ELSE IF over THEN 0 ELSE @ + 1]
     /\ op' = [op EXCEPT ![t] = IF size'[t] >= max_size[t] THEN Scavenging ELSE Working]
     /\ UNCHANGED lowater

\* The loop of Scavenge up to its next call of ReleaseToCentralCache: the classes before
\* it have a mark of zero.
Scavenge(t) ==
  /\ in(t) = "scavenge" /\ at(t) = "idle"
  /\ \E c \in op[t].todo :
       LET skipped == {k \in op[t].todo : k < c}
       IN /\ lowater[t][c] > 0 /\ \A k \in skipped : ~(lowater[t][k] > 0)
          /\ ReleaseToCentralCache(t, "scavenge", c, list[t][c], Max2(lowater[t][c] \div 2, 1),
                                   op[t].todo \ skipped, skipped)
  /\ UNCHANGED <<program, max_length, length_overages, size, limits>>

\* The rest of the turn.
Scavenged(t) ==
  LET c == op[t].cl
      batch == num_objects_to_move[c]
  IN /\ Inserted(t, "scavenge")
     /\ max_length' = [max_length EXCEPT ![t][c] =
                         IF @ > batch THEN Max2(@ - batch, batch) ELSE @]
     /\ lowater' = [lowater EXCEPT ![t][c] = length(t, c)]
     /\ op' = [op EXCEPT ![t] = [Working EXCEPT !.in = "scavenge", !.todo = op[t].todo \ {c}]]
     /\ UNCHANGED length_overages

(***************************************************************************)
(* The end of a thread: DestroyThreadCache, from the program.              *)
(***************************************************************************)
\* Cleanup, from the next list that has objects.
Cleanup(t) ==
  /\ in(t) \in {"program", "cleanup"} /\ at(t) = "idle" /\ HasCache(t)
  /\ \E c \in Class :
       /\ list[t][c] # {} /\ \A k \in Class : k < c => list[t][k] = {}
       /\ ReleaseToCentralCache(t, "cleanup", c, list[t][c], length(t, c), {}, {})
  /\ UNCHANGED <<program, max_length, length_overages, size, limits>>

CleanedUp(t) ==
  /\ Inserted(t, "cleanup")
  /\ op' = [op EXCEPT ![t] = [Working EXCEPT !.in = "cleanup"]]
  /\ UNCHANGED <<lowater, max_length, length_overages>>

\* Where the next search starts once t is off the list.  Mutant: where it was.
StealAfter_dangling(t, left) == next_memory_steal

StealAfter(t, left) ==
  LET steal == IF next_memory_steal = t THEN Successor(t) ELSE next_memory_steal
  IN IF steal # None THEN steal ELSE IF left = <<>> THEN None ELSE left[1]

\* DeleteCache takes the heap off the list; the values are those of Init for the next one.
DeleteCache(t) ==
  LET left == SelectSeq(thread_heaps, LAMBDA h : h # t)
  IN /\ in(t) \in {"program", "cleanup"} /\ at(t) = "idle" /\ HasCache(t)
     /\ \A k \in Class : list[t][k] = {}
     /\ thread_heaps' = left
     /\ next_memory_steal' = StealAfter(t, left)
     /\ unclaimed_cache_space' = unclaimed_cache_space + max_size[t]
     /\ max_size' = [max_size EXCEPT ![t] = 0]
     /\ max_length' = [max_length EXCEPT ![t] = [c \in Class |-> 1]]
     /\ length_overages' = [length_overages EXCEPT ![t] = [c \in Class |-> 0]]
     /\ op' = [op EXCEPT ![t] = Working]
     /\ UNCHANGED <<call, program, list, lowater, size>>

\* A call of InsertRange, or of RemoveRange with the objects S, returns to its caller.
Returns(t, S) ==
  \/ Fetched(t, S) \/ ReleaseMore(t) \/ FreedWithoutCache(t) \/ ListTooLong(t)
  \/ Scavenged(t) \/ CleanedUp(t)

\* The thread's destructor.
DestroyThreadCache(t) == Cleanup(t) \/ DeleteCache(t)

CacheStep(t) ==
  Scavenge(t) \/ IncreaseCacheLimit(t) \/ (in(t) = "cleanup" /\ DestroyThreadCache(t))
=============================================================================
