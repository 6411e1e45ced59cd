------------------------------ MODULE PageHeap ------------------------------
(***************************************************************************)
(* tcmalloc's PageHeap (page_heap.cc), the span descriptors it keeps       *)
(* (span.cc, page_heap_allocator.h), the cache from pages to size classes  *)
(* (packed-cache-inl.h), and the callers in tcmalloc.cc and                *)
(* central_freelist.cc that ask it for pages.  The scanner is linked with  *)
(* libtcmalloc_minimal, so every thread of it allocates through this code. *)
(*                                                                         *)
(* A method of PageHeap holds pageheap_lock from its first to its last     *)
(* line: it is an operator from the heap before it to the heap after it.   *)
(* One that asks the system for memory has a set of outcomes.  Memory is   *)
(* counted in pages; the metadata of tcmalloc itself is left out.          *)
(***************************************************************************)
EXTENDS Integers, Sequences, FiniteSets, SequencesExt, FiniteSetsExt

CONSTANTS
  NPages,               \* the address space is the pages 1 .. NPages
  kMaxPages,            \* spans of this length and longer are on one list
  Granularity,          \* the system gives pages in multiples of this
  kDefaultReleaseDelay, kMaxReleaseDelay, kForcedCoalesceInterval,
  Class,                \* size classes
  class_to_pages,       \* class -> pages of its spans
  MaxRequest,           \* bound: pages of one request
  Aligns,               \* alignments, in pages, that memalign is asked for
  kHash,                \* entries of pagemap_cache_
  Config                \* the flags and the platform the process may start with

ASSUME SizesAssumption ==
  /\ kMaxPages \in Nat \ {0} /\ Granularity \in Nat \ {0} /\ kHash \in Nat \ {0}
  /\ class_to_pages \in [Class -> 1 .. MaxRequest] /\ 0 \notin Class
  /\ Config \subseteq [release : BOOLEAN, ensure : SUBSET BOOLEAN, limit : Nat, mult : Nat]

Page == 1 .. NPages
Span == 1 .. NPages
NULL == 0
Location == {"normal", "returned"}
kMinSystemAlloc == kMaxPages

VARIABLES
  config,        \* does TCMalloc_SystemRelease work, can pagemap_.Ensure fail, the
                 \* heap limit, and 1000 / tcmalloc_release_rate, 0 when that is 0
  heap,          \* the PageHeap
  pagemap_cache, \* slot -> page and size class
  populating     \* spans whose pages Populate has not cached yet

vars == <<config, heap, pagemap_cache, populating>>

(***************************************************************************)
(* Span descriptors and their lists.                                       *)
(***************************************************************************)
\* A descriptor that is not in use: its contents are trash.
Deleted == [start |-> NULL, length |-> 0, location |-> "deleted", sizeclass |-> 0]

EmptyHeap ==
  [span |-> [s \in Span |-> Deleted], free_list |-> <<>>, carved |-> 0,
   pagemap |-> [p \in 0 .. NPages + 1 |-> NULL],
   list |-> [l \in Location |-> [i \in 1 .. kMaxPages |-> <<>>]],
   stats |-> [l \in Location |-> 0], system |-> {}, lost |-> {},
   scavenge_counter |-> 0, release_index |-> kMaxPages]

\* The descriptor that span_allocator()->New() returns.
Descriptor(h) == IF h.free_list # <<>> THEN Head(h.free_list) ELSE h.carved + 1

NewSpan(h, p, n, loc) ==
  [h EXCEPT !.span[Descriptor(h)] =
              [start |-> p, length |-> n, location |-> loc, sizeclass |-> 0],
            !.free_list = IF @ # <<>> THEN Tail(@) ELSE @,
            !.carved = IF h.free_list # <<>> THEN @ ELSE @ + 1]

DeleteSpan(h, s) == [h EXCEPT !.span[s] = Deleted, !.free_list = <<s>> \o @]

LastPage(d) == d.start + d.length - 1

RecordSpan(h, s) ==
  [h EXCEPT !.pagemap[h.span[s].start] = s, !.pagemap[LastPage(h.span[s])] = s]

GetDescriptor(h, p) == h.pagemap[p]

ListOf(n) == IF n < kMaxPages THEN n ELSE kMaxPages

PrependToFreeList(h, s) ==
  LET d == h.span[s]
  IN [h EXCEPT !.list[d.location][ListOf(d.length)] = <<s>> \o @,
               !.stats[d.location] = @ + d.length]

\* Plausible bug: the statistics are not adjusted.
RemoveFromFreeList_uncounted(h, s) ==
  [h EXCEPT !.list[h.span[s].location][ListOf(h.span[s].length)] = Remove(@, s)]

RemoveFromFreeList(h, s) ==
  LET d == h.span[s]
  IN [h EXCEPT !.list[d.location][ListOf(d.length)] = Remove(@, s),
               !.stats[d.location] = @ - d.length]

(***************************************************************************)
(* Splitting and coalescing.                                               *)
(***************************************************************************)
\* The rest of span s after its first n pages becomes the span Descriptor(h).
Split(h, s, n) ==
  LET d == h.span[s]
  IN [RecordSpan(NewSpan(h, d.start + n, d.length - n, "in_use"), Descriptor(h))
       EXCEPT !.pagemap[d.start + n - 1] = s, !.span[s].length = n]

\* Plausible bug: the span that is taken keeps its length.
Carve_keeps(h, s, n) ==
  LET d == h.span[s]
      taken == [RemoveFromFreeList(h, s) EXCEPT !.span[s].location = "in_use"]
      left == Descriptor(taken)
      listed == PrependToFreeList(
                  RecordSpan(NewSpan(taken, d.start + n, d.length - n, d.location), left), left)
  IN IF d.length = n THEN taken ELSE [listed EXCEPT !.pagemap[d.start + n - 1] = s]

Carve(h, s, n) ==
  LET d == h.span[s]
      taken == [RemoveFromFreeList(h, s) EXCEPT !.span[s].location = "in_use"]
      left == Descriptor(taken)
      listed == PrependToFreeList(
                  RecordSpan(NewSpan(taken, d.start + n, d.length - n, d.location), left), left)
  IN IF d.length = n THEN taken
     ELSE [listed EXCEPT !.span[s].length = n, !.pagemap[d.start + n - 1] = s]

\* Does the page p belong to a span that span s can be merged with?
Mergeable(h, s, p) ==
  LET q == GetDescriptor(h, p)
  IN q # NULL /\ h.span[q].location = h.span[s].location

Absorb(h, s, q) ==
  LET d == h.span[s]
      e == h.span[q]
      both == [DeleteSpan(RemoveFromFreeList(h, q), q) EXCEPT
                 !.span[s].length = d.length + e.length,
                 !.span[s].start = IF e.start < d.start THEN d.start - e.length ELSE @]
  IN IF e.start < d.start THEN [both EXCEPT !.pagemap[both.span[s].start] = s]
     ELSE [both EXCEPT !.pagemap[LastPage(both.span[s])] = s]

MergeAt(h, s, p) == IF Mergeable(h, s, p) THEN Absorb(h, s, GetDescriptor(h, p)) ELSE h

\* Plausible bug: a span is merged with the one before it only.
MergeIntoFreeList_one(h, s) == PrependToFreeList(MergeAt(h, s, h.span[s].start - 1), s)

MergeIntoFreeList(h, s) ==
  LET before == h.span[s].start - 1
      after == LastPage(h.span[s]) + 1
  IN PrependToFreeList(MergeAt(MergeAt(h, s, before), s, after), s)

(***************************************************************************)
(* Returning memory to the system.                                         *)
(***************************************************************************)
ReleaseLastNormalSpan(h, i) ==
  LET s == Last(h.list.normal[i])
  IN MergeIntoFreeList([RemoveFromFreeList(h, s) EXCEPT !.span[s].location = "returned"], s)

\* The loop of ReleaseAtLeastNPages at turn i of its inner loop.
RECURSIVE ReleaseFrom(_, _, _, _)
ReleaseFrom(h, released, num_pages, i) ==
  IF released >= num_pages \/ (i = 0 /\ h.stats.normal = 0)
  THEN [heap |-> h, pages |-> released]
  ELSE LET at == IF h.release_index > kMaxPages THEN 0 ELSE h.release_index
           turn == (i + 1) % (kMaxPages + 1)
           last == IF at = 0 THEN <<>> ELSE h.list.normal[at]
       IN IF last = <<>>
          THEN ReleaseFrom([h EXCEPT !.release_index = at + 1], released, num_pages, turn)
          ELSE IF ~config.release
          THEN [heap |-> [h EXCEPT !.release_index = at], pages |-> released]
          ELSE ReleaseFrom([ReleaseLastNormalSpan(h, at) EXCEPT !.release_index = at + 1],
                           released + h.span[Last(last)].length, num_pages, turn)

ReleaseAtLeastNPages(h, num_pages) == ReleaseFrom(h, 0, num_pages, 0)

\* Plausible bug: free pages do not count.
takenPages_used(h) == Cardinality(h.system) - h.stats.returned - h.stats.normal

\* Pages of the system, as TCMalloc_SystemTaken counts them, that are not unmapped.
takenPages(h) == Cardinality(h.system) - h.stats.returned

\* EnsureLimit once ReleaseAtLeastNPages has made r of the heap h.
LimitReleased(h, r, n) == [heap |-> r.heap, ok |-> takenPages(h) - r.pages + n <= config.limit]

EnsureLimit(h, n, withRelease) ==
  IF config.limit = 0 \/ takenPages(h) + n <= config.limit THEN [heap |-> h, ok |-> TRUE]
  ELSE IF ~withRelease THEN [heap |-> h, ok |-> FALSE]
  ELSE LimitReleased(h, ReleaseAtLeastNPages(h, takenPages(h) + n - config.limit), n)

\* Plausible bug: no delay when there is nothing to scavenge.
IncrementalScavenge_undelayed(h, n) ==
  LET c == h.scavenge_counter - n
      r == ReleaseAtLeastNPages([h EXCEPT !.scavenge_counter = c], 1)
  IN IF c >= 0 \/ config.mult = 0 \/ r.pages = 0 THEN [h EXCEPT !.scavenge_counter = c]
     ELSE [r.heap EXCEPT !.scavenge_counter = Min({kMaxReleaseDelay, config.mult * r.pages})]

IncrementalScavenge(h, n) ==
  LET c == h.scavenge_counter - n
      r == ReleaseAtLeastNPages([h EXCEPT !.scavenge_counter = c], 1)
  IN IF c >= 0 THEN [h EXCEPT !.scavenge_counter = c]
     ELSE IF config.mult = 0 THEN [h EXCEPT !.scavenge_counter = kDefaultReleaseDelay]
     ELSE [r.heap EXCEPT !.scavenge_counter =
            IF r.pages = 0 THEN kDefaultReleaseDelay
            ELSE Min({kMaxReleaseDelay, config.mult * r.pages})]

Delete(h, s) ==
  IncrementalScavenge(
    MergeIntoFreeList([h EXCEPT !.span[s].sizeclass = 0, !.span[s].location = "normal"], s),
    h.span[s].length)

(***************************************************************************)
(* Taking a span.                                                          *)
(***************************************************************************)
Taken(h, s, n) == [heap |-> Carve(h, s, n), span |-> s]

\* Is the span a better fit than the span b: shorter, or as long and before it?
Better(h, a, b) ==
  \/ h.span[a].length < h.span[b].length
  \/ h.span[a].length = h.span[b].length /\ h.span[a].start < h.span[b].start

\* The best fit among the spans of S, NULL when none has n pages.
BestFit(h, S, n) ==
  LET fit == {s \in S : h.span[s].length >= n}
  IN IF fit = {} THEN NULL ELSE CHOOSE s \in fit : \A t \in fit \ {s} : Better(h, s, t)

Large(h, loc) == ToSet(h.list[loc][kMaxPages])

RECURSIVE AllocLarge(_, _)
AllocLarge(h, n) ==
  LET best == BestFit(h, Large(h, "normal") \cup Large(h, "returned"), n)
      released == EnsureLimit(h, n, TRUE)
  IN IF best = NULL THEN [heap |-> h, span |-> NULL]
     ELSE IF best \in Large(h, "normal") \/ EnsureLimit(h, n, FALSE).ok THEN Taken(h, best, n)
     ELSE IF released.ok THEN AllocLarge(released.heap, n)
     ELSE [heap |-> released.heap, span |-> NULL]

\* The loop of SearchFreeAndLargeLists from size s.
RECURSIVE SearchFrom(_, _, _)
SearchFrom(h, n, s) ==
  IF s >= kMaxPages THEN AllocLarge(h, n)
  ELSE IF h.list.normal[s] # <<>> THEN Taken(h, Head(h.list.normal[s]), n)
  ELSE IF h.list.returned[s] = <<>> THEN SearchFrom(h, n, s + 1)
  ELSE LET e == EnsureLimit(h, n, TRUE)
       IN IF e.ok /\ e.heap.list.returned[s] # <<>>
          THEN Taken(e.heap, Head(e.heap.list.returned[s]), n)
          ELSE SearchFrom(e.heap, n, s + 1)

\* Plausible bug: the search starts above the size.
SearchFreeAndLargeLists_above(h, n) == SearchFrom(h, n, n + 1)

SearchFreeAndLargeLists(h, n) == SearchFrom(h, n, n)

RoundUp(n, g) == ((n + g - 1) \div g) * g

\* Where the system can place ask pages.
Addresses(h, ask) ==
  {p \in Page : /\ p % Granularity = 0
               /\ p .. p + RoundUp(ask, Granularity) - 1 \subseteq Page \ h.system}

\* GrowHeap once the system has given ask pages at p.
Grown(h, p, ask, ensured) ==
  LET area == p .. p + ask - 1
      g == [h EXCEPT !.system = @ \cup area]
  IN IF ensured THEN Delete(RecordSpan(NewSpan(g, p, ask, "in_use"), Descriptor(g)), Descriptor(g))
     ELSE [g EXCEPT !.lost = @ \cup area]

\* What TCMalloc_SystemAlloc and pagemap_.Ensure make of a heap that e allows to grow:
\* the address is NULL when the system has no memory.
SystemAlloc(e, ask) ==
  {[heap |-> e.heap, p |-> NULL, ok |-> FALSE]} \cup
  (IF ~e.ok THEN {}
   ELSE {[heap |-> Grown(e.heap, p, RoundUp(ask, Granularity), b), p |-> p, ok |-> b] :
           p \in Addresses(e.heap, ask), b \in config.ensure})

\* Every outcome of GrowHeap.
GrowHeap(h, n) ==
  LET ask == Max({n, kMinSystemAlloc})
      first == SystemAlloc(EnsureLimit(h, ask, TRUE), ask)
      got == {r \in first : r.p # NULL}
      again == UNION {SystemAlloc(EnsureLimit(r.heap, n, TRUE), n) : r \in first \ got}
  IN IF n < ask THEN got \cup again ELSE first

\* Would growing by n pages pass a multiple of kForcedCoalesceInterval?
CoalesceDue(h, n) ==
  LET size == Cardinality(h.system)
  IN /\ h.stats.normal # 0 /\ h.stats.returned # 0
     /\ h.stats.normal + h.stats.returned >= size \div 4
     /\ size \div kForcedCoalesceInterval # (size + n) \div kForcedCoalesceInterval

\* The search again, after the coalescing of everything when that is due.
SearchCoalesced(r, n) ==
  IF CoalesceDue(r.heap, n)
  THEN SearchFreeAndLargeLists(ReleaseAtLeastNPages(r.heap, NPages + 1).heap, n)
  ELSE r

\* Every outcome of growing the heap and searching it, when the search r found nothing.
SearchGrown(r, n) ==
  IF r.span # NULL THEN {r}
  ELSE {IF g.ok THEN SearchFreeAndLargeLists(g.heap, n) ELSE [heap |-> g.heap, span |-> NULL] :
          g \in GrowHeap(r.heap, n)}

FirstSearched(r, n) == IF r.span # NULL THEN {r} ELSE SearchGrown(SearchCoalesced(r, n), n)

\* Every outcome of New: the heap and the span, NULL when there is no memory.
New(h, n) == FirstSearched(SearchFreeAndLargeLists(h, n), n)

\* Plausible bug: the pages between the first and the last are left alone.
RegisterSizeClass_ends(h, s, sc) == [h EXCEPT !.span[s].sizeclass = sc]

RegisterSizeClass(h, s, sc) ==
  LET inner == h.span[s].start + 1 .. LastPage(h.span[s]) - 1
  IN [h EXCEPT !.span[s].sizeclass = sc,
               !.pagemap = [p \in DOMAIN @ |-> IF p \in inner THEN s ELSE @[p]]]

(***************************************************************************)
(* The cache from pages to size classes.                                   *)
(***************************************************************************)
Hash(p) == p % kHash

GetSizeClassIfCached(p) ==
  IF pagemap_cache[Hash(p)].key = p THEN pagemap_cache[Hash(p)].value ELSE 0

CacheSizeClass(p, cl) ==
  pagemap_cache' = [pagemap_cache EXCEPT ![Hash(p)] = [key |-> p, value |-> cl]]

\* Plausible bug: a stale entry for the page stays.
SpanToMallocResult_stale(r) == UNCHANGED pagemap_cache

SpanToMallocResult(r) ==
  IF r.span = NULL THEN UNCHANGED pagemap_cache ELSE CacheSizeClass(r.heap.span[r.span].start, 0)

(***************************************************************************)
(* The callers.                                                            *)
(***************************************************************************)
Init ==
  /\ config \in Config
  /\ heap = EmptyHeap /\ populating = {}
  /\ pagemap_cache = [i \in 0 .. kHash - 1 |-> [key |-> i, value |-> 0]]

do_malloc_pages(n) ==
  /\ \E r \in New(heap, n) : heap' = r.heap /\ SpanToMallocResult(r)
  /\ UNCHANGED <<config, populating>>

\* Plausible bug: the pages before the aligned ones are not given back.
Aligned_keeps(r, align, n) ==
  LET d == r.heap.span[r.span]
      skip == (align - (d.start % align)) % align
      a == IF skip > 0 THEN [heap |-> Split(r.heap, r.span, skip), span |-> Descriptor(r.heap)]
           ELSE r
  IN IF a.heap.span[a.span].length = n THEN a
     ELSE [heap |-> Delete(Split(a.heap, a.span, n), Descriptor(a.heap)), span |-> a.span]

\* What do_memalign does with the span r.span that New gave it.
Aligned(r, align, n) ==
  LET d == r.heap.span[r.span]
      skip == (align - (d.start % align)) % align
      g == Split(r.heap, r.span, skip)
      rest == Descriptor(r.heap)
      a == IF skip > 0 THEN [heap |-> Delete(g, r.span), span |-> rest] ELSE r
      trailer == Descriptor(a.heap)
  IN IF a.heap.span[a.span].length = n THEN a
     ELSE [heap |-> Delete(Split(a.heap, a.span, n), trailer), span |-> a.span]

do_memalign(align, n) ==
  /\ \E q \in New(heap, n + align) :
       LET r == IF q.span = NULL THEN q ELSE Aligned(q, align, n)
       IN heap' = r.heap /\ SpanToMallocResult(r)
  /\ UNCHANGED <<config, populating>>

in_use(s) == heap.span[s].location = "in_use"

\* do_free_helper for an object of its own: the lookup, and Delete.
do_free(s) ==
  /\ in_use(s) /\ heap.span[s].sizeclass = 0
  /\ GetSizeClassIfCached(heap.span[s].start) = 0
  /\ CacheSizeClass(heap.span[s].start, 0)
  /\ heap' = Delete(heap, GetDescriptor(heap, heap.span[s].start))
  /\ UNCHANGED <<config, populating>>

\* The lookup of the size class of an object on page p of span s (do_free_helper and
\* GetSizeWithCallback); what do_free does with a small object then is not page level.
LookUpSizeClass(s, p) ==
  /\ in_use(s) /\ heap.span[s].sizeclass # 0 /\ s \notin populating
  /\ p \in heap.span[s].start .. LastPage(heap.span[s])
  /\ GetSizeClassIfCached(p) = 0
  /\ CacheSizeClass(p, heap.span[GetDescriptor(heap, p)].sizeclass)
  /\ UNCHANGED <<config, heap, populating>>

\* Populate takes a span under the lock ...
Populate(cl) ==
  /\ \E r \in New(heap, class_to_pages[cl]) :
       IF r.span = NULL THEN heap' = r.heap /\ UNCHANGED populating
       ELSE /\ heap' = RegisterSizeClass(r.heap, r.span, cl)
            /\ populating' = populating \cup {r.span}
  /\ UNCHANGED <<config, pagemap_cache>>

\* ... and caches the class of its pages without it.  Entries of two pages are
\* independent of each other, so that the loop is one step.
Populated(s) ==
  LET d == heap.span[s]
      at(i) == {p \in d.start .. LastPage(d) : Hash(p) = i}
  IN /\ s \in populating /\ populating' = populating \ {s}
     /\ pagemap_cache' = [i \in DOMAIN pagemap_cache |->
                            IF at(i) = {} THEN pagemap_cache[i]
                            ELSE [key |-> Max(at(i)), value |-> d.sizeclass]]
     /\ UNCHANGED <<config, heap>>

\* ReleaseToSpans gives back a span none of whose objects is in use.
ReleaseToSpans(s) ==
  /\ in_use(s) /\ heap.span[s].sizeclass # 0 /\ s \notin populating
  /\ heap' = Delete(heap, s)
  /\ UNCHANGED <<config, pagemap_cache, populating>>

Next ==
  \/ \E n \in 1 .. MaxRequest : do_malloc_pages(n)
  \/ \E a \in Aligns, n \in 1 .. MaxRequest : n + a <= MaxRequest /\ do_memalign(a, n)
  \/ \E s \in Span : do_free(s) \/ Populated(s) \/ ReleaseToSpans(s)
  \/ \E s \in Span, p \in Page : LookUpSizeClass(s, p)
  \/ \E cl \in Class : Populate(cl)

Spec == Init /\ [][Next]_vars
=============================================================================
