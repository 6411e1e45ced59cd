--------------------------- MODULE CentralFreeList --------------------------
(***************************************************************************)
(* tcmalloc's central free lists (central_freelist.cc): one for each size  *)
(* class, each with its own lock, shared by the threads.                   *)
(*                                                                         *)
(* A call of a thread is a record that says where it is.  A stretch of     *)
(* code that holds lock_ of a class from end to end is one step; a thread  *)
(* that keeps the lock over several steps is its owner in "lock".  The     *)
(* page heap is used as PageAlloc promises, with spans of one page.  The   *)
(* order of a linked list is left out: a list is a set.                    *)
(***************************************************************************)
EXTENDS ThreadCache

CONSTANTS
  Span,                \* spans that the page heap can give, one page each
  Objects,             \* class -> objects that a span of it holds
  cache_size_0,        \* class -> cache_size_ that Init sets
  max_cache_size,      \* class -> max_cache_size_
  MaxLive              \* bound: a thread asks while the program has fewer objects

\* None stands for NULL, and is no class, no thread and no span.
ASSUME NoneAssumption == None \notin Class /\ None \notin Thread /\ None \notin Span

\* Size classes are numbers, a span has room for an object, and memory ends.
ASSUME SizeAssumption ==
  Class \subseteq Nat /\ Objects \in [Class -> Nat \ {0}] /\ IsFiniteSet(Span)

\* Object i of a span.
Obj == {<<s, i>> : s \in Span, i \in 1 .. Max({Objects[c] : c \in Class})}

ObjectsOf(s, c) == {<<s, i>> : i \in 1 .. Objects[c]}

VARIABLES
  sizeclass,  \* span -> its size class, None when the page heap has it
  objects,    \* span -> its free objects
  refcount,   \* span -> objects of it that are not free
  nonempty, empty, num_spans, counter, cache_size, lock,  \* class -> members of its list
  tc_slots    \* class -> the ranges in its transfer cache; used_slots_ is their number

spans == <<sizeclass, objects, refcount>>
lists == <<nonempty, empty, num_spans, counter>>
slots == <<tc_slots, cache_size>>
central == <<spans, lists, slots, lock>>
vars == <<central, program, cache, op, call>>

Init ==
  /\ CacheInit
  /\ sizeclass = [s \in Span |-> None] /\ objects = [s \in Span |-> {}]
  /\ refcount = [s \in Span |-> 0]
  /\ nonempty = [c \in Class |-> {}] /\ empty = [c \in Class |-> {}]
  /\ num_spans = [c \in Class |-> 0] /\ counter = [c \in Class |-> 0]
  /\ cache_size = cache_size_0 /\ tc_slots = [c \in Class |-> <<>>]
  /\ lock = [c \in Class |-> None]

used_slots(c) == Len(tc_slots[c])

Free(c) == lock[c] = None

\* The call goes on; the caller's cache is as it was.
Goto(t, new) == call' = [call EXCEPT ![t] = new] /\ UNCHANGED <<program, cache, op>>

(***************************************************************************)
(* RemoveRange.                                                            *)
(***************************************************************************)
\* FetchFromOneSpans, for as long as spans have objects and fewer than n are fetched: it
\* goes to the next span when it has emptied one.
Fetch(t, c, avail, cnt, full) ==
  \E S \in kSubset(Min2(call[t].n, Cardinality(avail)), avail) :
    LET of(s) == {o \in S : o[1] = s}
        out == {s \in full : objects[s] \subseteq S}
    IN /\ Cardinality({s \in full \ out : of(s) # {}}) <= 1
       /\ objects' = [s \in Span |-> objects[s] \ S]
       /\ refcount' = [s \in Span |-> refcount[s] + Cardinality(of(s))]
       /\ counter' = [counter EXCEPT ![c] = cnt - Cardinality(S)]
       /\ nonempty' = [nonempty EXCEPT ![c] = full \ out]
       /\ empty' = [empty EXCEPT ![c] = @ \cup out]
       /\ Returns(t, S)

RemoveRange_slot(t) ==
  LET c == call[t].cl
  IN /\ at(t) = "remove" /\ Free(c)
     /\ call[t].n = num_objects_to_move[c] /\ used_slots(c) > 0
     /\ tc_slots' = [tc_slots EXCEPT ![c] = SubSeq(@, 1, Len(@) - 1)]
     /\ Returns(t, tc_slots[c][used_slots(c)])
     /\ UNCHANGED <<spans, lists, cache_size, lock>>

RemoveRange(t) ==
  LET c == call[t].cl
      avail == UNION {objects[s] : s \in nonempty[c]}
  IN /\ at(t) = "remove" /\ Free(c)
     /\ ~(call[t].n = num_objects_to_move[c] /\ used_slots(c) > 0)
     /\ IF avail = {}
        THEN Goto(t, [call[t] EXCEPT !.at = "populate"]) /\ UNCHANGED <<objects, refcount, lists>>
        ELSE /\ Fetch(t, c, avail, counter[c], nonempty[c])
             /\ UNCHANGED num_spans
     /\ UNCHANGED <<sizeclass, slots, lock>>

\* Populate without lock_: the page heap gives a span, or fails, whatever is out.
Populate(t) ==
  LET c == call[t].cl
  IN /\ at(t) = "populate"
     /\ \/ \E s \in Span :
             /\ sizeclass[s] = None
             /\ sizeclass' = [sizeclass EXCEPT ![s] = c]
             /\ objects' = [objects EXCEPT ![s] = ObjectsOf(s, c)]
             /\ refcount' = [refcount EXCEPT ![s] = 0]
             /\ Goto(t, [call[t] EXCEPT !.at = "populated", !.span = s])
        \/ Goto(t, [call[t] EXCEPT !.at = "populated"]) /\ UNCHANGED spans
     /\ UNCHANGED <<lists, slots, lock>>

\* Populate takes lock_ again, and the second FetchFromOneSpans of
\* FetchFromOneSpansSafe follows with the lock held.
Populated(t) ==
  LET c == call[t].cl
      new == {call[t].span} \ {None}
      full == nonempty[c] \cup new
      avail == UNION {objects[s] : s \in full}
  IN /\ at(t) = "populated" /\ Free(c)
     /\ num_spans' = [num_spans EXCEPT ![c] = @ + Cardinality(new)]
     /\ Fetch(t, c, avail, counter[c] + Cardinality(new) * Objects[c], full)
     /\ UNCHANGED <<sizeclass, slots, lock>>

(***************************************************************************)
(* ReleaseListToSpans: the thread holds lock_ of the class, but for the    *)
(* time it takes to give a span back to the page heap.                     *)
(***************************************************************************)
\* The class whose spans the thread gives objects back to.
Releasing(t) == IF call[t].victim = None THEN call[t].cl ELSE call[t].victim

\* counter_ after an object has come back, the last one of its span or not.  Mutant: the
\* objects of a span that goes are still counted.
CounterAfter_kept(n, c, last) == n + 1

CounterAfter(n, c, last) == IF last THEN n + 1 - Objects[c] ELSE n + 1

ReleaseToSpans(t, o) ==
  LET c == Releasing(t)
      s == o[1]
      last == refcount[s] = 1
  IN /\ at(t) = "spans" /\ lock[c] \in {t, None} /\ o \in call[t].list
     /\ refcount' = [refcount EXCEPT ![s] = @ - 1]
     /\ empty' = [empty EXCEPT ![c] = @ \ {s}]
     /\ nonempty' = [nonempty EXCEPT ![c] = IF last THEN @ \ {s} ELSE @ \cup {s}]
     /\ objects' = [objects EXCEPT ![s] = IF last THEN @ ELSE @ \cup {o}]
     /\ counter' = [counter EXCEPT ![c] = CounterAfter(@, c, last)]
     /\ num_spans' = [num_spans EXCEPT ![c] = IF last THEN @ - 1 ELSE @]
     /\ lock' = [lock EXCEPT ![c] = IF last THEN None ELSE t]
     /\ Goto(t, [call[t] EXCEPT !.list = @ \ {o}, !.at = IF last THEN "delete" ELSE @,
                                !.span = IF last THEN s ELSE None])
     /\ UNCHANGED <<sizeclass, slots>>

\* PageHeap::Delete of a span that has no object out, without lock_.
Delete(t) ==
  LET s == call[t].span
  IN /\ at(t) = "delete"
     /\ sizeclass' = [sizeclass EXCEPT ![s] = None] /\ objects' = [objects EXCEPT ![s] = {}]
     /\ Goto(t, [call[t] EXCEPT !.at = "spans", !.span = None])
     /\ UNCHANGED <<refcount, lists, slots, lock>>

\* The end of the list: InsertRange returns, or ShrinkCache does.
Released(t) ==
  LET c == Releasing(t)
  IN /\ at(t) = "spans" /\ lock[c] \in {t, None} /\ call[t].list = {}
     /\ lock' = [lock EXCEPT ![c] = None]
     /\ IF call[t].victim = None THEN Returns(t, {})
        ELSE Goto(t, [call[t] EXCEPT !.at = "shrunk", !.victim = None, !.ok = TRUE])
     /\ UNCHANGED <<spans, lists, slots>>

(***************************************************************************)
(* InsertRange.                                                            *)
(***************************************************************************)
\* MakeCacheSpace has failed.
ReleaseRange(t) ==
  /\ lock' = [lock EXCEPT ![call[t].cl] = t]
  /\ Goto(t, [Idle EXCEPT !.at = "spans", !.cl = call[t].cl, !.list = call[t].range])

\* May a slot of class v be had, as far as a look without its lock can tell?
Evictable(c, v, force) ==
  v # c /\ cache_size[v] # 0 /\ (force \/ used_slots(v) # cache_size[v])

\* Mutant: without the LockInverter.
Evict_holding(t, v, force) ==
  /\ Goto(t, [call[t] EXCEPT !.at = "shrink", !.victim = v, !.force = force])
  /\ lock' = [lock EXCEPT ![call[t].cl] = t]

\* EvictRandomSizeClass of a class that the unlocked counter names; the lock of the
\* thread's own class is released before that of the victim is taken.
Evict(t, v, force) ==
  /\ Goto(t, [call[t] EXCEPT !.at = "shrink", !.victim = v, !.force = force])
  /\ UNCHANGED lock

\* From the call of EvictRandomSizeClass with force on.
EvictForced(t) ==
  \E v \in Class :
    IF Evictable(call[t].cl, v, TRUE) THEN Evict(t, v, TRUE) ELSE ReleaseRange(t)

InsertRange(t) ==
  LET c == call[t].cl
  IN /\ at(t) = "insert" /\ Free(c)
     /\ IF call[t].n = num_objects_to_move[c] /\ used_slots(c) < cache_size[c]
        THEN /\ tc_slots' = [tc_slots EXCEPT ![c] = Append(@, call[t].range)]
             /\ Returns(t, {}) /\ UNCHANGED lock
        ELSE /\ IF call[t].n = num_objects_to_move[c] /\ cache_size[c] # max_cache_size[c]
                THEN \E v \in Class : IF Evictable(c, v, FALSE) THEN Evict(t, v, FALSE)
                                      ELSE EvictForced(t)
                ELSE ReleaseRange(t)
             /\ UNCHANGED tc_slots
     /\ UNCHANGED <<spans, lists, cache_size>>

ShrinkCache(t) ==
  LET v == call[t].victim
      full == used_slots(v) = cache_size[v]
  IN /\ at(t) = "shrink" /\ Free(v)
     /\ IF cache_size[v] = 0 \/ (full /\ ~call[t].force)
        THEN /\ Goto(t, [call[t] EXCEPT !.at = "shrunk", !.victim = None, !.ok = FALSE])
             /\ UNCHANGED <<slots, lock>>
        ELSE /\ cache_size' = [cache_size EXCEPT ![v] = @ - 1]
             /\ IF full
                THEN /\ tc_slots' = [tc_slots EXCEPT ![v] = SubSeq(@, 1, Len(@) - 1)]
                     /\ lock' = [lock EXCEPT ![v] = t]
                     /\ Goto(t, [call[t] EXCEPT !.at = "spans", !.list = tc_slots[v][used_slots(v)]])
                ELSE /\ Goto(t, [call[t] EXCEPT !.at = "shrunk", !.victim = None, !.ok = TRUE])
                     /\ UNCHANGED <<tc_slots, lock>>
     /\ UNCHANGED <<spans, lists>>

\* Is there still room for one more slot?  Mutant: it is not asked again.
MayGrow_trusted(c) == TRUE

MayGrow(c) == cache_size[c] < max_cache_size[c]

\* The rest of MakeCacheSpace, and of InsertRange, with lock_ taken again.
Shrunk(t) ==
  LET c == call[t].cl
  IN /\ at(t) = "shrunk" /\ Free(c)
     /\ IF call[t].ok /\ MayGrow(c)
        THEN /\ cache_size' = [cache_size EXCEPT ![c] = @ + 1]
             /\ tc_slots' = [tc_slots EXCEPT ![c] = Append(@, call[t].range)]
             /\ Returns(t, {}) /\ UNCHANGED lock
        ELSE /\ IF call[t].ok \/ call[t].force THEN ReleaseRange(t) ELSE EvictForced(t)
             /\ UNCHANGED slots
     /\ UNCHANGED <<spans, lists>>

CentralStep(t) ==
  \/ RemoveRange_slot(t) \/ RemoveRange(t) \/ Populate(t) \/ Populated(t)
  \/ (\E o \in call[t].list : ReleaseToSpans(t, o)) \/ Delete(t) \/ Released(t)
  \/ InsertRange(t) \/ ShrinkCache(t) \/ Shrunk(t)

\* What a thread does once it is in malloc, in free or in its destructor.
Step(t) == CentralStep(t) \/ (CacheStep(t) /\ UNCHANGED central)

\* What the program asks for; do_free takes the class from the span of the object.
Ask(t) ==
  /\ \/ CreateCacheIfNecessary(t) \/ (in(t) = "program" /\ DestroyThreadCache(t))
     \/ \E c \in Class : Cardinality(program) < MaxLive /\ Allocate(t, c)
     \/ \E o \in program : Deallocate(t, sizeclass[o[1]], o)
     \/ \E o \in program : FreeWithoutCache(t, sizeclass[o[1]], o)
  /\ UNCHANGED central

Next == \E t \in Thread : Step(t) \/ Ask(t)

Spec == Init /\ [][Next]_vars
=============================================================================
