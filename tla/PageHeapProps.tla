---------------------------- MODULE PageHeapProps ---------------------------
(***************************************************************************)
(* Properties of tcmalloc's page heap.                                     *)
(***************************************************************************)
EXTENDS PageHeap

Live == {s \in Span : heap.span[s].location # "deleted"}

Free == {s \in Live : heap.span[s].location # "in_use"}

PagesOf(s) == heap.span[s].start .. LastPage(heap.span[s])

TypeOK ==
  /\ config \in Config
  /\ \A s \in Live : /\ heap.span[s].start \in Page /\ LastPage(heap.span[s]) \in Page
                     /\ heap.span[s].length >= 1
                     /\ heap.span[s].sizeclass \in Class \cup {0}
  /\ heap.carved <= NPages /\ heap.release_index \in 0 .. kMaxPages + 1
  /\ heap.scavenge_counter \in 0 .. Max({kDefaultReleaseDelay, kMaxReleaseDelay})
  /\ populating \subseteq Live

\* The spans tile the memory of the system: each of its pages is on one span, whatever
\* New, Delete, Split and the coalescing of either kind have done to it, but for the
\* pages that GrowHeap could not map.
Tiled ==
  /\ \A p \in heap.system \ heap.lost : Cardinality({s \in Live : p \in PagesOf(s)}) = 1
  /\ \A s \in Live : PagesOf(s) \subseteq heap.system \ heap.lost

\* The page map has what Delete and do_free look up in it (the comment "PAGEMAP" of
\* tcmalloc.cc): the first and the last page of a span lead to it, every page does when
\* it holds small objects, and the page before and the page after it lead to the span
\* that ends or starts there, although the entries of pages inside are stale.
BoundariesMapped ==
  \A s \in Live :
    /\ heap.pagemap[heap.span[s].start] = s /\ heap.pagemap[LastPage(heap.span[s])] = s
    /\ heap.span[s].sizeclass # 0 => \A p \in PagesOf(s) : heap.pagemap[p] = s
    /\ \A p \in {heap.span[s].start - 1, LastPage(heap.span[s]) + 1} :
         heap.pagemap[p] # NULL => heap.pagemap[p] \in Live /\ p \in PagesOf(heap.pagemap[p])

\* Free spans are coalesced eagerly: no two that touch are on lists of the same kind, so
\* that Carve may skip coalescing what it leaves over ("no candidates possible").
Coalesced ==
  \A s, t \in Free :
    LastPage(heap.span[s]) + 1 = heap.span[t].start =>
      heap.span[s].location # heap.span[t].location

\* Each free span is on the list of its length and kind once, no other span is on a
\* list, and the statistics are the pages on the lists.
ListsExact ==
  \A l \in Location :
    LET on == {s \in Free : heap.span[s].location = l}
    IN /\ heap.stats[l] = Cardinality(UNION {PagesOf(s) : s \in on})
       /\ \A i \in 1 .. kMaxPages :
            /\ ToSet(heap.list[l][i]) = {s \in on : ListOf(heap.span[s].length) = i}
            /\ Len(heap.list[l][i]) = Cardinality(ToSet(heap.list[l][i]))

\* What New, Delete, Carve, Split and the two kinds of coalescing leave of the memory:
\* spans that tile it, free ones that are coalesced as far as they may be, and lists and
\* statistics that say exactly which spans are free.
SpansSound == TypeOK /\ Tiled /\ Coalesced /\ ListsExact

\* The cache may be stale, but never for a page where an object that can be freed
\* starts: there it has no information or the size class of the page's span, in spite of
\* Populate's writes without the lock and of pages that share an entry.
CacheFresh ==
  \A s \in Live \ populating : in_use(s) =>
    \A p \in (IF heap.span[s].sizeclass = 0 THEN {heap.span[s].start} ELSE PagesOf(s)) :
      GetSizeClassIfCached(p) \in {0, heap.span[s].sizeclass}

\* What do_free and Delete look up without asking anybody, in the page map and in the
\* size class cache, is true of every span that they can be asked about.
LookupsRight == BoundariesMapped /\ CacheFresh

\* With a heap limit, the pages that are taken and not unmapped stay within it, but for
\* what the system rounds up, though EnsureLimit releases spans that the search for
\* pages has not reached yet.
WithinLimit ==
  config.limit # 0 => Cardinality(heap.system) - heap.stats.returned <= config.limit + Granularity - 1

\* New fails, or takes memory of the system, only when no span of the normal lists would
\* do, and it never fails after the heap has grown: the limit, the scavenging of what was
\* just added and the search that starts over do not lose the pages (the assertion of
\* AllocLarge, "If bestNormal existed, EnsureLimit would succeeded").
NewServes ==
  \A n \in 1 .. MaxRequest : \A r \in New(heap, n) :
    LET fits == \E s \in Free : heap.span[s].location = "normal" /\ heap.span[s].length >= n
        grew == r.heap.system # heap.system
    IN /\ r.span = NULL \/ grew => ~fits
       /\ grew /\ r.heap.lost = heap.lost => r.span # NULL

\* EnsureLimit keeps the heap within its limit, and costs no caller of New a run of pages
\* that the heap has.
ServesWithinLimit == WithinLimit /\ NewServes

\* The page heap keeps the promise of PageAlloc to its callers: the runs that are out do
\* not overlap, and coalescing, releasing and growing change none of them.
used == {[start |-> heap.span[s].start, length |-> heap.span[s].length,
          class |-> heap.span[s].sizeclass] : s \in {t \in Span : in_use(t)}}

Abstract == INSTANCE PageAlloc WITH used <- used

KeepsPromise == Abstract!Spec
=============================================================================
