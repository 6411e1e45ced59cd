------------------------------ MODULE MCMalloc ------------------------------
(* Two threads and two classes: one that moves two objects at a time and has no slot of a *)
(* transfer cache at first, and one that moves one and has two. *)
EXTENDS MallocProps, TLC

MCObjects == <<2, 1>>
MCMove == <<2, 1>>
MCCache0 == <<0, 2>>
MCMaxCache == <<1, 2>>
MCBytes == <<1, 1>>

Symmetry == Permutations(Thread) \cup Permutations(Span)
=============================================================================
