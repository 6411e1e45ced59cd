------------------------------ MODULE PageAlloc -----------------------------
(***************************************************************************)
(* What the page level of tcmalloc promises (page_heap.h: New, Delete and  *)
(* RegisterSizeClass): a run of pages that is handed out overlaps no other *)
(* run that is out, and it stays as it is until it is given back.          *)
(***************************************************************************)
EXTENDS Naturals

CONSTANTS Page, Class

\* The runs from page p to page q; class 0 is a run that holds one object.
Runs(p, q) == [start : {p}, length : {q - p + 1}, class : Class \cup {0}]

Pages(r) == r.start .. r.start + r.length - 1

VARIABLE used   \* the runs that are out

New(r) ==
  /\ Pages(r) \subseteq Page
  /\ \A u \in used : Pages(u) \cap Pages(r) = {}
  /\ used' = used \cup {r}

Delete(r) == used' = used \ {r}

Next ==
  \/ \E p, q \in Page : p <= q /\ \E r \in Runs(p, q) : New(r)
  \/ \E r \in used : Delete(r)

Spec == used = {} /\ [][Next]_used
=============================================================================
