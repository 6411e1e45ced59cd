----------------------------- MODULE MCPageHeap -----------------------------
EXTENDS PageHeapProps

MCPages == <<3, 2>>

\* Linux without a limit, with one, without releasing; and Windows, whose
\* TCMalloc_SystemRelease returns false.
MCConfig ==
  {[release |-> TRUE,  ensure |-> {TRUE},  limit |-> 0, mult |-> 1],
   [release |-> TRUE,  ensure |-> {TRUE},  limit |-> 3, mult |-> 1],
   [release |-> TRUE,  ensure |-> {TRUE, FALSE}, limit |-> 0, mult |-> 0],
   [release |-> FALSE, ensure |-> {TRUE},  limit |-> 0, mult |-> 1]}
=============================================================================
