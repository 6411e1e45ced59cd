----------------------------- MODULE MallocProps ----------------------------
(* What the thread caches and the central free lists keep true. *)
EXTENDS CentralFreeList

Sum(f) == FoldFunction(+, 0, f)

\* Every object with the place it is in.
Placed ==
  UNION {{<<"program", None, None>>} \X program,
         UNION {{<<"span", s, None>>} \X objects[s] : s \in Span},
         UNION {{<<"cache", t, c>>} \X list[t][c] : t \in Thread, c \in Class},
         UNION {{<<"range", t, None>>} \X call[t].range : t \in Thread},
         UNION {{<<"list", t, None>>} \X call[t].list : t \in Thread},
         UNION {UNION {{<<"slot", c, i>>} \X tc_slots[c][i] : i \in DOMAIN tc_slots[c]}
                : c \in Class}}

\* The spans that a thread is giving back to the page heap, and those it has just got.
Leaving == {call[t].span : t \in {u \in Thread : at(u) = "delete"}}
Coming == {call[t].span : t \in {u \in Thread : at(u) = "populated"}} \ {None}

\* Type correctness: max_length_ stays within kMaxDynamicFreeListLength and max_size_
\* positive for a cache that is on the list of heaps.
TypeOK ==
  /\ sizeclass \in [Span -> Class \cup {None}] /\ program \subseteq Obj
  /\ \A t \in Thread, c \in Class :
       /\ max_length[t][c] \in 1 .. kMaxDynamicFreeListLength
       /\ length_overages[t][c] \in 0 .. kMaxOverages
  /\ \A t \in Thread : IF HasCache(t) THEN max_size[t] > 0 ELSE max_size[t] = 0
  /\ lock \in [Class -> Thread \cup {None}]

\* Every object of a span that is out is in one place and in one only: with the program, on
\* the list of a thread, in the hands of a thread that is moving it, in the transfer cache,
\* or on the list of its span; and no object of a span that the page heap has is anywhere.
\* An object is so never handed out twice, never lost, and never in a freed span.
OneOwner ==
  LET out == {s \in Span : sizeclass[s] # None}
      places == Placed
      objs == {p[2] : p \in places}
  IN /\ \A p, q \in places : p[2] = q[2] => p = q
     /\ {o \in objs : o[1] \notin Leaving}
          = UNION {ObjectsOf(s, sizeclass[s]) : s \in out \ Leaving}
     /\ \A p \in places : p[2][1] \in Leaving => p[1] = <<"span", p[2][1], None>>

\* refcount, the two lists of spans, num_spans_ and counter_ of a class say what its spans
\* really have, whatever the threads do while lock_ is released: ReleaseToSpans gives up a
\* span on the word of refcount, and FetchFromOneSpans trusts nonempty_.
SpansExact ==
  /\ \A s \in Span : sizeclass[s] # None /\ s \notin Leaving =>
       refcount[s] + Cardinality(objects[s]) = Objects[sizeclass[s]]
  /\ \A c \in Class :
       LET mine == {s \in Span : sizeclass[s] = c} \ (Leaving \cup Coming)
       IN /\ nonempty[c] = {s \in mine : objects[s] # {}}
          /\ empty[c] = {s \in mine : objects[s] = {}}
          /\ num_spans[c] = Cardinality(mine)
          /\ counter[c] = Cardinality(UNION {objects[s] : s \in mine})

\* A thread has taken a slot from a class and has not given it to its own yet.
HasSlot(t) ==
  \/ call[t].victim # None /\ at(t) # "shrink"
  \/ at(t) = "shrunk" /\ call[t].ok

\* A transfer cache stays within its bounds although MakeCacheSpace drops its lock to take
\* a slot from another class: no slot is used that is not there, none grows past
\* max_cache_size_, and the slots of all classes are never more than at the start.
SlotsConserved ==
  /\ \A c \in Class :
       /\ used_slots(c) <= cache_size[c] /\ cache_size[c] <= max_cache_size[c]
       /\ \A i \in DOMAIN tc_slots[c] :
            /\ Cardinality(tc_slots[c][i]) = num_objects_to_move[c]
            /\ \A o \in tc_slots[c][i] : sizeclass[o[1]] = c
  /\ Sum(cache_size) + Cardinality({t \in Thread : HasSlot(t)}) <= Sum(cache_size_0)

\* The bookkeeping of a central free list, its spans and its transfer cache, is exact
\* although ReleaseToSpans, Populate and MakeCacheSpace drop lock_ half-way.
CentralExact == SpansExact /\ SlotsConserved

\* size_ is what the lists of a cache hold, when the thread is not inside
\* ReleaseToCentralCache, and the low-water mark of a list is no more than its length, so
\* that Scavenge never takes what is not there.
CacheExact ==
  \A t \in Thread :
    /\ at(t) = "idle" \/ in(t) = "fetch" =>
         size[t] = Sum([c \in Class |-> ByteSize[c] * length(t, c)])
    /\ \A c \in Class : lowater[t][c] <= length(t, c)

\* The limits of the caches and the unclaimed space are the overall size at all times,
\* through the creation and the end of threads and through stealing; next_memory_steal_
\* is a cache that exists, and there is one to steal from when nothing is unclaimed.
LimitsConserved ==
  /\ unclaimed_cache_space + Sum(max_size) = overall_thread_cache_size
  /\ next_memory_steal \in Range(thread_heaps) \cup {None}
  /\ unclaimed_cache_space <= 0 => thread_heaps # <<>>

\* The bookkeeping of the thread caches: what a cache holds, what each may hold, and that
\* threads that come, go and steal only move the limits around.
CachesExact == TypeOK /\ CacheExact /\ LimitsConserved

\* "we never hold two size class locks concurrently": a thread that waits for a lock holds
\* none, and the one that releases a list holds that of the list's class only.
NoHoldAndWait ==
  \A t \in Thread, c \in Class :
    lock[c] = t => at(t) = "spans" /\ c = Releasing(t)
=============================================================================
