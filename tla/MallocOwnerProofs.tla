------------------------- MODULE MallocOwnerProofs --------------------------
(***************************************************************************)
(* For any number of threads, size classes and spans: every object of a    *)
(* span that is out has one owner, and a central free list knows its spans *)
(* and how many objects are free, although it drops its lock half-way.     *)
(***************************************************************************)
EXTENDS MallocProofs, FiniteSetTheorems

(***************************************************************************)
(* A list of spans of one class, when its spans or their objects change.   *)
(***************************************************************************)
LEMMA SpanObjects ==
  ASSUME Owned, NEW s \in Span, NEW o \in objects[s]
  PROVE  o[1] = s /\ sizeclass[s] \in Class /\ o \in ObjectsOf(s, sizeclass[s])
<1>1. Loc(o, "span", s, None)
  BY Zenon DEF Loc
<1>2. Home(o) /\ Fit(o, "span", s, None)
  BY <1>1, Zenon DEF Owned, RightPlace
<1> QED
  BY <1>2, Zenon DEF Home, Fit

LEMMA ObjectsOfFinite ==
  ASSUME NEW s, NEW c \in Class
  PROVE  /\ IsFiniteSet(ObjectsOf(s, c)) /\ Cardinality(ObjectsOf(s, c)) = Objects[c]
         /\ ObjectsOf(s, c) # {} /\ Objects[c] \in Nat /\ \A o \in ObjectsOf(s, c) : o[1] = s
<1>1. Objects[c] \in Nat \ {0}
  BY SizeAssumption, Zenon
<1>2. ObjectsOf(s, c) = {s} \X (1 .. Objects[c])
  BY DEF ObjectsOf
<1>3. IsFiniteSet({s}) /\ Cardinality({s}) = 1
  BY FS_Singleton, Zenon
<1>4. IsFiniteSet(1 .. Objects[c]) /\ Cardinality(1 .. Objects[c]) = Objects[c]
  <2> DEFINE m == Objects[c]
  <2>1. m \in Int /\ 1 \in Int /\ ~(1 > m) /\ m - 1 + 1 = m
    BY <1>1
  <2> HIDE DEF m
  <2>2. IsFiniteSet(1 .. m) /\ Cardinality(1 .. m) = IF 1 > m THEN 0 ELSE m - 1 + 1
    BY <2>1, FS_Interval, Zenon
  <2>3. IsFiniteSet(1 .. m) /\ Cardinality(1 .. m) = m
    BY <2>1, <2>2, Zenon
  <2> QED
    BY <2>3, Zenon DEF m
<1>5. /\ IsFiniteSet({s} \X (1 .. Objects[c]))
      /\ Cardinality({s} \X (1 .. Objects[c])) = 1 * Objects[c]
  <2> DEFINE J == 1 .. Objects[c]
  <2>1. IsFiniteSet(J) /\ Cardinality(J) = Objects[c]
    BY <1>4, Zenon
  <2> HIDE DEF J
  <2>2. IsFiniteSet({s} \X J) /\ Cardinality({s} \X J) = Cardinality({s}) * Cardinality(J)
    BY <1>3, <2>1, FS_Product, Zenon
  <2> QED
    BY <1>3, <2>1, <2>2, Zenon DEF J
<1>6. <<s, 1>> \in ObjectsOf(s, c)
  BY <1>1 DEF ObjectsOf
<1>7. \A o \in ObjectsOf(s, c) : o[1] = s
  BY DEF ObjectsOf
<1> QED
  BY <1>1, <1>2, <1>5, <1>6, <1>7

\* The spans of the list are of class c.
OfClass(M, objs, c) == M \subseteq Span /\ \A s \in M : objs[s] \subseteq ObjectsOf(s, c)

FreeIn(M, objs) == UNION {objs[s] : s \in M}

LEMMA FreeFinite ==
  ASSUME NEW c \in Class, NEW M, NEW objs, OfClass(M, objs, c)
  PROVE  /\ IsFiniteSet(M) /\ IsFiniteSet(FreeIn(M, objs))
         /\ \A s \in M : IsFiniteSet(objs[s]) /\ \A p \in objs[s] : p[1] = s
<1>1. IsFiniteSet(M)
  BY SizeAssumption, FS_Subset, Zenon DEF OfClass
<1>2. ASSUME NEW s \in M PROVE IsFiniteSet(objs[s]) /\ \A o \in objs[s] : o[1] = s
  BY ObjectsOfFinite, FS_Subset DEF OfClass
<1>3. IsFiniteSet(Span \X (1 .. Objects[c]))
  <2>1. IsFiniteSet(1 .. Objects[c])
    BY SizeAssumption, FS_Interval
  <2> QED
    BY <2>1, SizeAssumption, FS_Product, Zenon
<1>4. UNION {objs[s] : s \in M} \in SUBSET (Span \X (1 .. Objects[c]))
  BY DEF OfClass, ObjectsOf
<1>5. IsFiniteSet(FreeIn(M, objs))
  BY <1>3, <1>4, FS_Subset, Zenon DEF FreeIn
<1> QED
  BY <1>1, <1>2, <1>5, Zenon

LEMMA MineOfClass ==
  ASSUME Owned, NEW c \in Class, NEW M, M \subseteq Span, \A s \in M : sizeclass[s] = c
  PROVE  OfClass(M, objects, c)
BY SpanObjects, Zenon DEF OfClass

(***************************************************************************)
(* The steps that change the spans.                                        *)
(***************************************************************************)
Counted(A, B, T) == Cardinality(A \ (B \ T)) = Cardinality(A \ B) + Cardinality(T)

\* FetchFromOneSpans of class c takes the objects S from the spans "full".
Fetches(c, full, cnt, S) ==
  LET out == {s \in full : objects[s] \subseteq S}
  IN /\ S \subseteq UNION {objects[s] : s \in full}
     /\ objects' = [s \in Span |-> objects[s] \ S]
     /\ refcount' = [s \in Span |-> refcount[s] + Cardinality({o \in S : o[1] = s})]
     /\ counter' = [counter EXCEPT ![c] = cnt - Cardinality(S)]
     /\ nonempty' = [nonempty EXCEPT ![c] = full \ out]
     /\ empty' = [empty EXCEPT ![c] = @ \cup out]

\* M are the spans of class c that the list has once t is done; "full", those with objects.
Listed(t, c, M, full, cnt) ==
  /\ M \subseteq Span /\ \A s \in M : sizeclass[s] = c /\ s \notin Leaving
  /\ Mine(c)' = M /\ \A d \in Class \ {c} : Mine(d)' = Mine(d)
  /\ \A u \in Thread \ {t} : Holding(u) => call[u].span \notin M
  /\ Exact(M, objects, full, empty[c], num_spans'[c], cnt)
  /\ DOMAIN num_spans' = Class /\ \A d \in Class \ {c} : num_spans'[d] = num_spans[d]

\* A step of a thread that holds no new span after it.
LEMMA MineAfter ==
  ASSUME SpansOK, NEW t \in Thread, Others(t), sizeclass' = sizeclass, at(t) # "delete",
         call'[t].at \notin {"delete", "populated"}, NEW new,
         new = IF at(t) = "populated" THEN {call[t].span} \ {None} ELSE {}
  PROVE  \A c : Mine(c)' = Mine(c) \cup {s \in new : sizeclass[s] = c}
<1>1. Leaving' = Leaving
  BY LeavingSame, Zenon
<1>2. Coming' = Coming \ new
  <2>1. ASSUME NEW u \in Thread \ {t}
        PROVE  call'[u] = call[u] /\ (Holding(u) => call[u].span \notin new)
    BY Zenon DEF Others, SpansOK, Held, Holding
  <2>2. \A s : s \in Coming <=> s # None /\ \E u \in Thread : call[u].at = "populated" /\ call[u].span = s
    BY Zenon DEF Coming, at
  <2>3. \A s : s \in Coming' <=>
          s # None /\ \E u \in Thread \ {t} : call[u].at = "populated" /\ call[u].span = s
    BY <2>1, Zenon DEF Coming, at
  <2> QED
    BY <2>1, <2>2, <2>3 DEF Holding, at
<1>3. new \subseteq Span \ Leaving
  <2>1. \A u \in Thread : at(u) = "delete" => call[u].span \notin new
    BY Zenon DEF SpansOK, Held, Holding
  <2>2. new \subseteq Span
    BY Zenon DEF SpansOK, Held, Holding
  <2> QED
    BY <2>1, <2>2, Zenon DEF Leaving
<1>4. new \subseteq Coming
  BY Zenon DEF Coming, at
<1> QED
  BY <1>1, <1>2, <1>3, <1>4, Zenon DEF Mine

\* The spans that a list has are in nobody's hands.
LEMMA MineFree ==
  ASSUME SpansOK, NEW c, NEW u \in Thread, Holding(u)
  PROVE  call[u].span \notin Mine(c)
BY Zenon DEF Mine, Holding, Leaving, Coming, at

\* FetchFromOneSpans, and the way back to the program, with the lock held.
LEMMA FetchStep ==
  \A t \in Thread : \A c \in Class : \A M : \A full : \A cnt :
    Shape /\ HeapOK /\ CallOK(t) /\ at(t) \in {"remove", "populated"} /\ c = call[t].cl
      /\ UNCHANGED <<sizeclass, tc_slots>>
      /\ (Others(t) /\ call'[t].at = "idle" => Listed(t, c, M, full, cnt))
      /\ Fetch(t, c, UNION {objects[s] : s \in full}, cnt, full) => HeapOK'
\* The objects S are fetched.
<1>ExactFetch.
    ASSUME NEW c \in Class, NEW M, NEW objs, NEW objs2, NEW full, NEW none, NEW n, NEW free,
           NEW S, NEW out,
           OfClass(M, objs, c), Exact(M, objs, full, none, n, free),
           S \subseteq UNION {objs[s] : s \in full}, out = {s \in full : objs[s] \subseteq S},
           \A s \in M : objs2[s] = objs[s] \ S
    PROVE  Exact(M, objs2, full \ out, none \cup out, n, free - Cardinality(S))
  <2> USE <1>ExactFetch
  <2> DEFINE U == UNION {objs[s] : s \in M}
  <2>0. c \in Class /\ OfClass(M, objs, c)
    BY Zenon
  <2>1. IsFiniteSet(U)
    <3>1. IsFiniteSet(FreeIn(M, objs))
      BY ONLY <2>0, FreeFinite, Zenon
    <3> QED
      BY <3>1, Zenon DEF FreeIn
  <2>2. S \subseteq U
    BY Zenon DEF Exact
  <2>3. UNION {objs2[s] : s \in M} = U \ S
    OBVIOUS
  <2>4. Cardinality(U \ S) = Cardinality(U) - Cardinality(S)
    <3>1. Cardinality(U \ S) = Cardinality(U) - Cardinality(U \cap S)
      BY <2>1, FS_Difference, Zenon
    <3>2. U \cap S = S
      BY <2>2, Zenon
    <3> QED
      BY <3>1, <3>2, Zenon
  <2>5. full \ out = {s \in M : objs2[s] # {}}
    BY Zenon DEF Exact
  <2>6. none \cup out = {s \in M : objs2[s] = {}}
    BY Zenon DEF Exact
  <2> QED
    BY <2>3, <2>4, <2>5, <2>6, Zenon DEF Exact
<1>TakenCount.
    ASSUME NEW A, IsFiniteSet(A), NEW B, B \subseteq A, NEW T, T \subseteq B
    PROVE  Counted(A, B, T)
  <2> USE <1>TakenCount
  <2>1. IsFiniteSet(A \ B) /\ IsFiniteSet(T)
    BY FS_Subset, Zenon
  <2>2. Cardinality((A \ B) \cup T)
          = Cardinality(A \ B) + Cardinality(T) - Cardinality((A \ B) \cap T)
    BY <2>1, FS_Union, Zenon
  <2>3. Cardinality((A \ B) \cap T) = 0
    <3>1. (A \ B) \cap T = {}
      OBVIOUS
    <3> QED
      BY <3>1, FS_EmptySet, Zenon
  <2>4. A \ (B \ T) = (A \ B) \cup T
    OBVIOUS
  <2>5. Cardinality(A \ B) \in Nat /\ Cardinality(T) \in Nat
    BY <2>1, FS_CardinalityType, Zenon
  <2>6. Cardinality(A \ (B \ T)) = Cardinality(A \ B) + Cardinality(T) - 0
    BY <2>2, <2>3, <2>4, Zenon
  <2> QED
    BY <2>5, <2>6 DEF Counted
<1>RefTaken.
    ASSUME Owned, RefCounts, NEW s \in Span, sizeclass[s] \in Class, s \notin Leaving,
           NEW T, T \subseteq objects[s]
    PROVE  Cardinality(ObjectsOf(s, sizeclass[s]) \ (objects[s] \ T)) = refcount[s] + Cardinality(T)
  <2> USE <1>RefTaken
  <2> DEFINE A == ObjectsOf(s, sizeclass[s])
             B == objects[s]
  <2>1. IsFiniteSet(A) /\ B \subseteq A /\ T \subseteq B
    BY ObjectsOfFinite, SpanObjects, Zenon
  <2>2. refcount[s] = Cardinality(A \ B)
    BY Zenon DEF RefCounts
  <2> HIDE DEF A, B
  <2>3. Counted(A, B, T)
    BY <2>1, <1>TakenCount, Zenon
  <2> QED
    BY <2>2, <2>3, Zenon DEF A, B, Counted
<1>FetchRefs.
    ASSUME Owned, RefCounts, sizeclass' = sizeclass, Leaving' = Leaving,
           NEW S, \A o \in S : o[1] \in Span /\ o \in objects[o[1]],
           objects' = [s \in Span |-> objects[s] \ S],
           refcount' = [s \in Span |-> refcount[s] + Cardinality({o \in S : o[1] = s})]
    PROVE  RefCounts'
  <2> USE <1>FetchRefs
  <2> SUFFICES ASSUME NEW s \in Span, sizeclass[s] \in Class, s \notin Leaving
               PROVE  refcount'[s] = Cardinality(ObjectsOf(s, sizeclass[s]) \ objects'[s])
    BY Zenon DEF RefCounts
  <2> DEFINE T == {o \in S : o[1] = s}
  <2>1. T \subseteq objects[s] /\ objects'[s] = objects[s] \ T
    BY SpanObjects, Zenon
  <2>2. refcount'[s] = refcount[s] + Cardinality(T)
    OBVIOUS
  <2> HIDE DEF T
  <2> QED
    BY <2>1, <2>2, <1>RefTaken, Zenon
<1>FetchSpans.
    ASSUME HeapShape, Owned, SpansOK, NEW t \in Thread, NEW c \in Class, Others(t), sizeclass' = sizeclass,
           at(t) # "delete", call'[t].at = "idle", NEW M, NEW full, NEW cnt, NEW S,
           Listed(t, c, M, full, cnt), Fetches(c, full, cnt, S)
    PROVE  SpansOK'
  <2> USE <1>FetchSpans
  <2> DEFINE out == {s \in full : objects[s] \subseteq S}
  <2>a. /\ M \subseteq Span /\ \A s \in M : sizeclass[s] = c /\ s \notin Leaving
        /\ Mine(c)' = M /\ \A d \in Class \ {c} : Mine(d)' = Mine(d)
        /\ \A u \in Thread \ {t} : Holding(u) => call[u].span \notin M
        /\ Exact(M, objects, full, empty[c], num_spans'[c], cnt)
        /\ \A d \in Class \ {c} : num_spans'[d] = num_spans[d]
    BY Zenon DEF Listed
  <2>b. /\ S \subseteq UNION {objects[s] : s \in full}
        /\ objects' = [s \in Span |-> objects[s] \ S]
        /\ refcount' = [s \in Span |-> refcount[s] + Cardinality({o \in S : o[1] = s})]
        /\ counter' = [counter EXCEPT ![c] = cnt - Cardinality(S)]
        /\ nonempty' = [nonempty EXCEPT ![c] = full \ out]
        /\ empty' = [empty EXCEPT ![c] = @ \cup out]
    BY Zenon DEF Fetches
  <2>0. full \subseteq M
    BY <2>a, Zenon DEF Exact
  <2>1. \A o \in S : o[1] \in full /\ o \in objects[o[1]]
    BY <2>0, <2>a, <2>b, SpanObjects
  <2>2. Leaving' = Leaving
    BY LeavingSame, Zenon
  <2>3. \A s \in Span \ M : objects'[s] = objects[s]
    BY <2>0, <2>1, <2>b, SpanObjects
  <2>4. Held'
    <3>1. ~Holding(t)' /\ ~(at(t) = "delete")'
      BY Zenon DEF Holding, at
    <3>2. \A u \in Thread \ {t} : Holding(u) => call[u].span \in Span \ M
      BY <2>a, Zenon DEF SpansOK, Held
    <3> QED
      BY <2>3, <3>1, <3>2, HeldStep, Zenon DEF SpansOK, at
  <2>5. RefCounts'
    BY <2>0, <2>1, <2>2, <2>a, <2>b, <1>FetchRefs, Zenon DEF SpansOK
  <2>6. ListsExact(c)'
    <3>1. OfClass(M, objects, c)
      BY <2>a, MineOfClass, Zenon
    <3>2. Exact(M, objects', full \ out, empty[c] \cup out, num_spans'[c], cnt - Cardinality(S))
      <4>1. \A s \in M : objects'[s] = objects[s] \ S
        BY <2>a, <2>b, Zenon
      <4> QED
        BY <2>a, <2>b, <3>1, <4>1, <1>ExactFetch, Zenon
    <3>3. /\ nonempty'[c] = full \ out /\ empty'[c] = empty[c] \cup out
          /\ counter'[c] = cnt - Cardinality(S)
      BY <2>a, <2>b, Zenon DEF HeapShape
    <3> QED
      BY <2>a, <3>2, <3>3, Zenon DEF ListsExact
  <2>7. ASSUME NEW d \in Class \ {c} PROVE ListsExact(d)'
    <3>1. /\ nonempty'[d] = nonempty[d] /\ empty'[d] = empty[d] /\ counter'[d] = counter[d]
          /\ num_spans'[d] = num_spans[d] /\ Mine(d)' = Mine(d)
      BY <2>a, <2>b, Zenon DEF HeapShape
    <3>2. \A s \in Mine(d) : objects'[s] = objects[s]
      BY <2>3, <2>a, Zenon DEF Mine
    <3>3. Exact(Mine(d), objects', nonempty[d], empty[d], num_spans[d], counter[d])
      BY <3>2, ExactSame, Zenon DEF SpansOK, ListsExact
    <3> QED
      BY <3>1, <3>3, Zenon DEF ListsExact
  <2> QED
    BY <2>4, <2>5, <2>6, <2>7, SMTT(20) DEF SpansOK
<1> SUFFICES ASSUME Shape, HeapOK, NEW t \in Thread, CallOK(t), at(t) \in {"remove", "populated"},
                NEW c \in Class, c = call[t].cl, UNCHANGED <<sizeclass, tc_slots>>,
                NEW M, NEW full, NEW cnt,
                Others(t) /\ call'[t].at = "idle" => Listed(t, c, M, full, cnt),
                Fetch(t, c, UNION {objects[s] : s \in full}, cnt, full)
             PROVE  HeapOK'
  BY Zenon
<1>1. PICK S : Fetches(c, full, cnt, S) /\ Returns(t, S)
  BY Zenon DEF Fetch, Fetches, kSubset
<1>2. call'[t] = Idle /\ Others(t) /\ Handed(t, c, S)
  BY <1>1, FetchReturns, Zenon DEF HeapOK, Fetching
<1>3. call'[t].at = "idle" /\ call'[t].range = {} /\ call'[t].list = {}
  BY <1>2 DEF Idle
<1>4. call[t].range = {} /\ call[t].list = {} /\ at(t) # "delete"
  BY Zenon DEF CallOK
<1>l. Listed(t, c, M, full, cnt)
  BY <1>2, <1>3, Zenon
<1>5. SpansOK'
  BY <1>1, <1>2, <1>3, <1>4, <1>l, <1>FetchSpans, ZenonT(30) DEF HeapOK
<1>6. ASSUME NEW p \in S
      PROVE  p[1] \in Span /\ p \in objects[p[1]] /\ p[1] \notin Leaving /\ sizeclass[p[1]] = c
  BY <1>1, <1>l, SpanObjects DEF HeapOK, Exact, Fetches, Listed
<1>7. Leaving' = Leaving
  BY <1>2, <1>3, <1>4, LeavingSame, Zenon
<1>8. Owned'
  <2>1. \A p \in S : Loc(p, "span", p[1], None)
    BY <1>6, Zenon DEF Loc
  <2>2. ASSUME NEW p, NEW x, NEW y
        PROVE  Loc(p, "span", x, y)' <=> Loc(p, "span", x, y) /\ p \notin S
    BY <1>1, Zenon DEF Loc, Fetches
  <2>3. ASSUME NEW p, NEW x, NEW y
        PROVE  Loc(p, "slot", x, y)' <=> Loc(p, "slot", x, y) /\ p \notin S
    <3>1. Loc(p, "slot", x, y)' <=> Loc(p, "slot", x, y)
      BY Zenon DEF Loc
    <3> QED
      BY <2>1, <3>1, Zenon DEF HeapOK, Owned, OnePlace
  <2>4. Leave(S)
    <3>1. \A k : Central(k) <=> k = "span" \/ k = "slot"
      BY SMTT(20) DEF Central
    <3> QED
      BY <2>1, <2>2, <2>3, <3>1, Zenon DEF Leave
  <2> QED
    BY <1>2, <1>3, <1>4, <1>6, <1>7, <2>4, FetchedKeeps, Zenon DEF HeapOK
<1>9. HeapShape'
  <2>1. DOMAIN list' = Thread /\ \A u \in Thread : DOMAIN list'[u] = Class
    BY <1>2, Zenon DEF Handed, ListTo, HeapOK, HeapShape
  <2> QED
    BY <1>1, <1>l, <2>1 DEF HeapOK, HeapShape, Fetches, Listed
<1> QED
  BY <1>5, <1>8, <1>9, Zenon DEF HeapOK

LEMMA RemoveStep ==
  ASSUME Shape, HeapOK, NEW t \in Thread, CallOK(t), RemoveRange(t)
  PROVE  HeapOK'
<1>1. at(t) = "remove" /\ call[t].cl \in Class /\ UNCHANGED <<sizeclass, tc_slots>>
  BY Zenon DEF RemoveRange, CallOK, slots
<1>c. PICK c \in Class : c = call[t].cl
  BY <1>1, Zenon
<1>2. CASE Goto(t, [call[t] EXCEPT !.at = "populate"]) /\ UNCHANGED <<objects, refcount, lists>>
  <2> DEFINE new == [call[t] EXCEPT !.at = "populate"]
  <2>1. /\ DOMAIN new = CallFields /\ new.at = "populate"
        /\ \A f \in CallFields \ {"at"} : new[f] = call[t][f]
    BY Zenon DEF Shape, CallFields
  <2> HIDE DEF new
  <2>2. Others(t) /\ call'[t] = new
    BY <1>2, <2>1, GotoIsLocal, Zenon DEF new
  <2>3. SpansOK' /\ Leaving' = Leaving
    BY <1>1, <1>2, <2>1, <2>2, SpansStill, SMTT(20) DEF HeapOK, spans
  <2>4. /\ call'[t].range = call[t].range /\ call'[t].list = call[t].list
        /\ call'[t].cl = call[t].cl /\ Releasing(t)' = Releasing(t)
    BY <2>1, <2>2, Zenon DEF CallFields, Releasing
  <2>5. Owned'
    BY <1>1, <1>2, <2>2, <2>3, <2>4, StillKeeps, SMTT(20) DEF HeapOK, Goto, cache, free_list
  <2> QED
    BY <1>1, <1>2, <2>3, <2>5, SMTT(20) DEF HeapOK, HeapShape, Goto, cache, free_list, lists
<1>3. CASE /\ Fetch(t, c, UNION {objects[s] : s \in nonempty[c]}, counter[c], nonempty[c])
           /\ UNCHANGED num_spans
  <2>1. ASSUME Others(t), call'[t].at = "idle"
        PROVE  Listed(t, c, Mine(c), nonempty[c], counter[c])
    <3>0. {} = IF at(t) = "populated" THEN {call[t].span} \ {None} ELSE {}
      BY <1>1, Zenon
    <3>1. ASSUME NEW d PROVE Mine(d)' = Mine(d)
      <4>1. Mine(d)' = Mine(d) \cup {s \in {} : sizeclass[s] = d}
        BY <1>1, <2>1, <3>0, MineAfter, Zenon DEF HeapOK
      <4> QED
        BY <4>1, Zenon
    <3>2. \A u \in Thread : Holding(u) => call[u].span \notin Mine(c)
      BY MineFree, Zenon DEF HeapOK
    <3>3. Mine(c) \subseteq Span /\ \A s \in Mine(c) : sizeclass[s] = c /\ s \notin Leaving
      BY Zenon DEF Mine
    <3>4. Exact(Mine(c), objects, nonempty[c], empty[c], num_spans'[c], counter[c])
      BY <1>3, Zenon DEF HeapOK, SpansOK, ListsExact
    <3>5. DOMAIN num_spans' = Class /\ \A d : num_spans'[d] = num_spans[d]
      BY <1>3, Zenon DEF HeapOK, HeapShape
    <3> QED
      BY <3>1, <3>2, <3>3, <3>4, <3>5, Zenon DEF Listed
  <2> QED
    BY <1>1, <1>3, <1>c, <2>1, FetchStep, Zenon
<1> QED
  BY <1>2, <1>3, <1>c, Zenon DEF RemoveRange

LEMMA PopulatedStep ==
  \A t \in Thread :
    Shape /\ HeapOK /\ CallOK(t) /\ Populated(t) => HeapOK'
\* A new span is put on the list.
<1>ExactAdd.
    ASSUME NEW c \in Class, NEW M, NEW objs, NEW full, NEW none, NEW n, NEW free, NEW s0 \in Span,
           OfClass(M, objs, c), Exact(M, objs, full, none, n, free),
           s0 \notin M, objs[s0] = ObjectsOf(s0, c)
    PROVE  Exact(M \cup {s0}, objs, full \cup {s0}, none, n + 1, free + Objects[c])
  <2> USE <1>ExactAdd
  <2> DEFINE U == UNION {objs[s] : s \in M}
  <2>0. c \in Class /\ OfClass(M, objs, c)
    BY Zenon
  <2>1. IsFiniteSet(U) /\ IsFiniteSet(M) /\ \A o \in U : o[1] \in M
    <3>1. IsFiniteSet(U)
      <4>1. IsFiniteSet(FreeIn(M, objs))
        BY ONLY <2>0, FreeFinite, Zenon
      <4> QED
        BY <4>1, Zenon DEF FreeIn
    <3>2. IsFiniteSet(M) /\ \A s \in M : \A p \in objs[s] : p[1] = s
      BY ONLY <2>0, FreeFinite, Zenon
    <3> QED
      BY <3>1, <3>2, Zenon
  <2>2. /\ IsFiniteSet(objs[s0]) /\ Cardinality(objs[s0]) = Objects[c]
        /\ objs[s0] # {} /\ \A o \in objs[s0] : o[1] = s0
    BY ObjectsOfFinite
  <2>3. UNION {objs[s] : s \in M \cup {s0}} = U \cup objs[s0]
    OBVIOUS
  <2>4. Cardinality(U \cup objs[s0]) = Cardinality(U) + Objects[c]
    <3>1. U \cap objs[s0] = {}
      BY <2>1, <2>2, Zenon
    <3>2. Cardinality(U \cup objs[s0])
            = Cardinality(U) + Cardinality(objs[s0]) - Cardinality(U \cap objs[s0])
      BY <2>1, <2>2, FS_Union, Zenon
    <3>3. Cardinality(U \cap objs[s0]) = 0
      BY <3>1, FS_EmptySet, Zenon
    <3>4. Cardinality(U) \in Nat /\ Objects[c] \in Nat
      BY <2>1, FS_CardinalityType, SizeAssumption, Zenon
    <3> HIDE DEF U
    <3> QED
      BY <2>2, <3>2, <3>3, <3>4
  <2>5. Cardinality(M \cup {s0}) = Cardinality(M) + 1
    BY <2>1, FS_AddElement, Zenon
  <2>6. /\ full \cup {s0} = {s \in M \cup {s0} : objs[s] # {}}
        /\ none = {s \in M \cup {s0} : objs[s] = {}}
    BY <2>2, Zenon DEF Exact
  <2> QED
    BY <2>3, <2>4, <2>5, <2>6, Zenon DEF Exact
<1> SUFFICES ASSUME Shape, HeapOK, NEW t \in Thread, CallOK(t), Populated(t)
             PROVE  HeapOK'
  OBVIOUS
<1>1. at(t) = "populated" /\ call[t].cl \in Class /\ UNCHANGED <<sizeclass, tc_slots>>
  BY Zenon DEF Populated, CallOK, slots
<1>c. PICK c \in Class : c = call[t].cl
  BY <1>1, Zenon
<1>n. PICK new : new = {call[t].span} \ {None}
  BY Zenon
<1>2. /\ num_spans' = [num_spans EXCEPT ![c] = @ + Cardinality(new)]
      /\ Fetch(t, c, UNION {objects[s] : s \in nonempty[c] \cup new},
               counter[c] + Cardinality(new) * Objects[c], nonempty[c] \cup new)
  BY <1>c, <1>n, Zenon DEF Populated
<1>3. new \subseteq Span /\ \A s \in new : sizeclass[s] = c /\ objects[s] = ObjectsOf(s, c)
  BY <1>1, <1>c, <1>n DEF HeapOK, SpansOK, Held, Holding
<1>4. Mine(c) \subseteq Span /\ \A s \in Mine(c) : sizeclass[s] = c /\ s \notin Leaving
  BY DEF Mine
<1>5. Exact(Mine(c), objects, nonempty[c], empty[c], num_spans[c], counter[c])
  BY Zenon DEF HeapOK, SpansOK, ListsExact
<1>6. OfClass(Mine(c), objects, c)
  BY <1>4, MineOfClass, Zenon DEF HeapOK
<1>7. Exact(Mine(c) \cup new, objects, nonempty[c] \cup new, empty[c],
            num_spans[c] + Cardinality(new), counter[c] + Cardinality(new) * Objects[c])
  <2>1. CASE new = {}
    <3>1. Cardinality(new) = 0
      BY <2>1, FS_EmptySet, Zenon
    <3>2. num_spans[c] \in Nat /\ counter[c] \in Nat /\ Objects[c] \in Nat
      <4>1. IsFiniteSet(Mine(c)) /\ IsFiniteSet(FreeIn(Mine(c), objects))
        BY <1>6, FreeFinite, Zenon
      <4>2. /\ num_spans[c] = Cardinality(Mine(c))
            /\ counter[c] = Cardinality(FreeIn(Mine(c), objects))
        BY <1>5, Zenon DEF Exact, FreeIn
      <4>3. Objects[c] \in Nat
        BY SizeAssumption
      <4> QED
        BY <4>1, <4>2, <4>3, FS_CardinalityType, Zenon
    <3>3. /\ Mine(c) \cup new = Mine(c) /\ nonempty[c] \cup new = nonempty[c]
          /\ num_spans[c] + Cardinality(new) = num_spans[c]
          /\ counter[c] + Cardinality(new) * Objects[c] = counter[c]
      BY <2>1, <3>1, <3>2
    <3> QED
      BY <1>5, <3>3, Zenon
  <2>2. CASE new # {}
    <3>1. PICK s0 \in Span : new = {s0} /\ s0 \notin Mine(c) /\ objects[s0] = ObjectsOf(s0, c)
      BY <1>1, <1>3, <1>n, <2>2, MineFree, SMTT(20) DEF Holding, HeapOK
    <3>2. Exact(Mine(c) \cup {s0}, objects, nonempty[c] \cup {s0}, empty[c],
                num_spans[c] + 1, counter[c] + Objects[c])
      BY <1>5, <1>6, <3>1, <1>ExactAdd, Zenon
    <3>3. Cardinality(new) = 1
      BY <3>1, FS_Singleton, Zenon
    <3>4. 1 * Objects[c] = Objects[c]
      BY SizeAssumption
    <3> QED
      BY <3>1, <3>2, <3>3, <3>4, Zenon
  <2> QED
    BY <2>1, <2>2, Zenon
<1>8. ASSUME Others(t), call'[t].at = "idle"
      PROVE  Listed(t, c, Mine(c) \cup new, nonempty[c] \cup new,
                    counter[c] + Cardinality(new) * Objects[c])
  <2>1. ASSUME NEW d PROVE Mine(d)' = Mine(d) \cup {s \in new : sizeclass[s] = d}
    <3>1. new = IF at(t) = "populated" THEN {call[t].span} \ {None} ELSE {}
      BY <1>1, <1>n, Zenon
    <3> QED
      BY <1>1, <1>8, <3>1, MineAfter DEF HeapOK
  <2>2. Mine(c)' = Mine(c) \cup new /\ \A d \in Class \ {c} : Mine(d)' = Mine(d)
    BY <1>3, <2>1, Zenon
  <2>3. \A u \in Thread \ {t} : Holding(u) => call[u].span \notin Mine(c) \cup new
    BY <1>1, <1>n, MineFree, Zenon DEF HeapOK, SpansOK, Held, Holding
  <2>4. \A s \in new : s \notin Leaving
    BY <1>1, <1>n, Zenon DEF HeapOK, SpansOK, Held, Holding, Leaving
  <2>5. /\ num_spans'[c] = num_spans[c] + Cardinality(new) /\ DOMAIN num_spans' = Class
        /\ \A d \in Class \ {c} : num_spans'[d] = num_spans[d]
    BY <1>2, Zenon DEF HeapOK, HeapShape
  <2>6. /\ Mine(c) \cup new \subseteq Span
        /\ \A s \in Mine(c) \cup new : sizeclass[s] = c /\ s \notin Leaving
    BY <1>3, <1>4, <2>4, Zenon
  <2> QED
    BY <1>7, <2>2, <2>3, <2>5, <2>6, Zenon DEF Listed
<1> QED
  BY <1>1, <1>2, <1>c, <1>8, FetchStep, Zenon

\* Of the objects A of a span, B are free, and o is one that is not.
OneLess(A, B, o) ==
  /\ Cardinality(A \ (B \cup {o})) = Cardinality(A \ B) - 1
  /\ Cardinality(A \ B) = 1 => A \ B = {o} /\ Cardinality(B) = Cardinality(A) - 1

\* The object o is free again in the span s, of class c.
Back(o, s, c) ==
  /\ refcount'[s] = refcount[s] - 1 /\ objects'[s] = objects[s] \cup {o}
  /\ \A x \in Span \ {s} : refcount'[x] = refcount[x] /\ objects'[x] = objects[x]
  /\ nonempty'[c] = nonempty[c] \cup {s} /\ empty'[c] = empty[c] \ {s}
  /\ counter'[c] = counter[c] + 1 /\ num_spans'[c] = num_spans[c]

OtherLists(c) ==
  \A d \in Class \ {c} : /\ nonempty'[d] = nonempty[d] /\ empty'[d] = empty[d]
                         /\ counter'[d] = counter[d] /\ num_spans'[d] = num_spans[d]

\* The last object of the span s is back, and the span is off the list of class c.
Gone(s, c) ==
  /\ \A x \in Span \ {s} : refcount'[x] = refcount[x]
  /\ nonempty'[c] = nonempty[c] \ {s} /\ empty'[c] = empty[c] \ {s}
  /\ counter'[c] = counter[c] + 1 - Objects[c] /\ num_spans'[c] = num_spans[c] - 1

\* The call of t goes on without the object o of its list.
Dropped(t, o) ==
  /\ Others(t) /\ UNCHANGED <<sizeclass, program, list, tc_slots>>
  /\ call'[t].list = call[t].list \ {o} /\ call'[t].range = call[t].range
  /\ call'[t].cl = call[t].cl /\ Releasing(t)' = Releasing(t)

LEMMA GiveBackStep ==
  \A t \in Thread : \A o :
    Shape /\ HeapOK /\ CallOK(t) /\ ReleaseToSpans(t, o) => HeapOK'
<1>DroppedFit.
    ASSUME Owned, NEW t \in Thread, NEW o, Dropped(t, o), NEW p, NEW k, NEW x, NEW y, Loc(p, k, x, y)
    PROVE  Fit(p, k, x, y)'
  <2> USE <1>DroppedFit
  <2>1. Fit(p, k, x, y)
    BY Zenon DEF Owned, RightPlace
  <2>2. \A u \in Thread : call'[u].cl = call[u].cl /\ Releasing(u)' = Releasing(u)
    BY Zenon DEF Dropped, Others, Releasing
  <2>3. k \in {"range", "list"} => x \in Thread
    BY Zenon DEF Loc
  <2> QED
    BY <2>1, <2>2, <2>3, Zenon DEF Fit, Dropped
\* The object is free in its span.
<1>BackOwned.
    ASSUME HeapShape, Owned, NEW t \in Thread, NEW o, NEW s \in Span, o \in call[t].list, s = o[1],
           s \notin Leaving, Leaving' = Leaving, Dropped(t, o),
           objects' = [objects EXCEPT ![s] = @ \cup {o}]
    PROVE  Owned'
  <2> USE <1>BackOwned
  <2>1. /\ objects'[s] = objects[s] \cup {o}
        /\ \A x \in Span \ {s} : objects'[x] = objects[x]
    BY Zenon DEF HeapShape
  <2>2. ASSUME NEW p, NEW k, NEW x, NEW y
        PROVE  Loc(p, k, x, y)' <=>
                 \/ Loc(p, k, x, y) /\ ~(p = o /\ k = "list" /\ x = t /\ y = None)
                 \/ p = o /\ k = "span" /\ x = s /\ y = None
    <3>1. CASE k = "span"
      BY <2>1, <3>1, Zenon DEF Loc
    <3>2. CASE k # "span"
      BY <3>2, Zenon DEF Loc, Dropped, Others
    <3> QED
      BY <3>1, <3>2, Zenon
  <2>3. Loc(o, "list", t, None) /\ ~Loc(o, "list", t, None)'
    <3>1. Loc(o, "list", t, None)
      BY Zenon DEF Loc
    <3> QED
      BY <2>2, <3>1, Zenon
  <2>4. Loc(o, "span", s, None)'
    BY <2>2, Zenon
  <2>5. \A p, k, x, y : Loc(p, k, x, y)' =>
          /\ Fit(p, k, x, y)'
          /\ Loc(p, k, x, y) \/ (p = o /\ k = "span" /\ x = s /\ y = None)
    <3> SUFFICES ASSUME NEW p, NEW k, NEW x, NEW y, Loc(p, k, x, y)'
                 PROVE  /\ Fit(p, k, x, y)'
                        /\ Loc(p, k, x, y) \/ (p = o /\ k = "span" /\ x = s /\ y = None)
      OBVIOUS
    <3>1. CASE Loc(p, k, x, y)
      BY <3>1, <1>DroppedFit, Zenon
    <3>2. CASE p = o /\ k = "span" /\ x = s /\ y = None
      BY <3>2, Zenon DEF Fit
    <3> QED
      BY <2>2, <3>1, <3>2, Zenon
  <2>6. \A p, k, x, y : Loc(p, k, x, y) /\ ~Loc(p, k, x, y)' => p \in {o}
    BY <2>2, Zenon
  <2>7. Moves({o}, "span", s, None, {}, "span", s, None)
    BY <2>3, <2>4, <2>5, <2>6 DEF Moves, Dropped
  <2> QED
    BY <2>7, MovesKeep, Zenon
\* It is the last one of its span, which leaves the list.
<1>LastOwned.
    ASSUME HeapShape, Owned, NEW t \in Thread, NEW o, NEW s \in Span, o \in call[t].list, s = o[1],
           Leaving' = Leaving \cup {s}, Dropped(t, o), \A x \in Span : objects'[x] = objects[x],
           ObjectsOf(s, sizeclass[s]) \ objects[s] = {o}
    PROVE  Owned'
  <2> USE <1>LastOwned
  <2>1. ASSUME NEW p, NEW k, NEW x, NEW y
        PROVE  Loc(p, k, x, y)' <=> Loc(p, k, x, y) /\ ~(p = o /\ k = "list" /\ x = t /\ y = None)
    <3>1. CASE k = "list"
      BY <3>1, Zenon DEF Loc, Dropped, Others
    <3>2. CASE k # "list"
      BY <3>2, Zenon DEF Loc, Dropped, Others
    <3> QED
      BY <3>1, <3>2, Zenon
  <2>2. Loc(o, "list", t, None)
    BY Zenon DEF Loc
  <2>3. OnePlace'
    BY <2>1, Zenon DEF Owned, OnePlace
  <2>4. RightPlace'
    <3> SUFFICES ASSUME NEW p, NEW k, NEW x, NEW y, Loc(p, k, x, y)'
                 PROVE  Home(p)' /\ Fit(p, k, x, y)' /\ (p[1] \in Leaving' => k = "span")
      BY Zenon DEF RightPlace
    <3>1. Loc(p, k, x, y) /\ ~(p = o /\ k = "list" /\ x = t /\ y = None)
      BY <2>1, Zenon
    <3>2. Home(p) /\ (p[1] \in Leaving => k = "span")
      BY <3>1, Zenon DEF Owned, RightPlace
    <3>3. p # o
      <4>1. Loc(p, k, x, y) /\ Loc(p, "list", t, None) => k = "list" /\ x = t /\ y = None
        BY Zenon DEF Owned, OnePlace
      <4> QED
        BY <2>2, <3>1, <4>1, Zenon
    <3>4. ASSUME p[1] = s PROVE k = "span"
      <4>1. p \in objects[s]
        BY <3>2, <3>3, <3>4, Zenon DEF Home
      <4>2. Loc(p, "span", s, None)
        BY <4>1, Zenon DEF Loc
      <4> QED
        BY <3>1, <4>2, Zenon DEF Owned, OnePlace
    <3>5. Home(p)'
      BY <3>2, Zenon DEF Home, Dropped
    <3> QED
      BY <3>1, <3>2, <3>4, <3>5, <1>DroppedFit, Zenon
  <2>5. NoneLost'
    <3> SUFFICES ASSUME NEW x \in Span, sizeclass[x] \in Class, x \notin Leaving \cup {s},
                        NEW p \in ObjectsOf(x, sizeclass[x])
                 PROVE  Located(p)'
      BY Zenon DEF NoneLost, Dropped
    <3>1. Located(p)
      BY Zenon DEF Owned, NoneLost
    <3>2. p # o
      BY DEF ObjectsOf
    <3> QED
      BY <2>1, <3>1, <3>2, Zenon DEF Located
  <2> QED
    BY <2>3, <2>4, <2>5, Zenon DEF Owned
\* The object o, which a thread gives back, belongs to a span of the list of its class.
<1>BackToList.
    ASSUME HeapOK, NEW t \in Thread, NEW o, o \in call[t].list, NEW s, s = o[1],
           NEW c, c = Releasing(t)
    PROVE  /\ s \in Mine(c) /\ c \in Class /\ sizeclass[s] = c
           /\ o \in ObjectsOf(s, c) /\ o \notin objects[s]
  <2> USE <1>BackToList
  <2>1. Loc(o, "list", t, None)
    BY Zenon DEF Loc
  <2>2. Home(o) /\ Fit(o, "list", t, None) /\ (o[1] \in Leaving => "list" = "span")
    BY <2>1, Zenon DEF HeapOK, Owned, RightPlace
  <2>3. /\ s \in Span /\ sizeclass[s] = c /\ c \in Class /\ s \notin Leaving
        /\ o \in ObjectsOf(s, c)
    BY <2>2, Zenon DEF Home, Fit
  <2>4. ~Loc(o, "span", s, None)
    <3>1. Loc(o, "list", t, None) /\ Loc(o, "span", s, None) => "list" = "span"
      BY Zenon DEF HeapOK, Owned, OnePlace
    <3> QED
      BY <2>1, <3>1, Zenon
  <2>5. o \notin objects[s]
    BY <2>3, <2>4, Zenon DEF Loc
  <2>6. s \notin Coming
    <3> SUFFICES ASSUME s \in Coming PROVE FALSE
      OBVIOUS
    <3>1. PICK u \in Thread : at(u) = "populated" /\ call[u].span = s /\ s # None
      BY Zenon DEF Coming
    <3>2. objects[s] = ObjectsOf(s, sizeclass[s])
      BY <3>1, Zenon DEF HeapOK, SpansOK, Held, Holding
    <3> QED
      BY <2>3, <2>5, <3>2, Zenon
  <2> QED
    BY <2>3, <2>5, <2>6, Zenon DEF Mine
<1>OutCount.
    ASSUME NEW A, IsFiniteSet(A), NEW B, B \subseteq A, NEW o, o \in A, o \notin B
    PROVE  OneLess(A, B, o)
  <2> USE <1>OutCount
  <2>1. IsFiniteSet(A \ B)
    BY FS_Subset, Zenon
  <2>2. Cardinality((A \ B) \ {o}) = Cardinality(A \ B) - 1
    BY <2>1, FS_RemoveElement, Zenon
  <2>3. A \ (B \cup {o}) = (A \ B) \ {o}
    OBVIOUS
  <2>4. ASSUME Cardinality(A \ B) = 1
        PROVE  A \ B = {o} /\ Cardinality(B) = Cardinality(A) - 1
    <3>1. \E x : A \ B = {x}
      BY <2>1, <2>4, FS_Singleton, Zenon
    <3>2. A \ B = {o}
      BY <3>1, Zenon
    <3>3. B = A \ {o}
      BY <3>2, Zenon
    <3>4. Cardinality(A \ {o}) = Cardinality(A) - 1
      BY FS_RemoveElement, Zenon
    <3> QED
      BY <3>2, <3>3, <3>4, Zenon
  <2> QED
    BY <2>2, <2>3, <2>4, Zenon DEF OneLess
\* An object comes back to its span.
<1>ExactBack.
    ASSUME NEW M, NEW objs, NEW objs2, NEW full, NEW none, NEW n, NEW free,
           NEW s0 \in M, NEW o, NEW d \in Class, OfClass(M, objs, d),
           Exact(M, objs, full, none, n, free),
           o[1] = s0, o \notin objs[s0], objs2[s0] = objs[s0] \cup {o},
           \A s \in M \ {s0} : objs2[s] = objs[s]
    PROVE  Exact(M, objs2, full \cup {s0}, none \ {s0}, n, free + 1)
  <2> USE <1>ExactBack
  <2> DEFINE U == UNION {objs[s] : s \in M}
  <2>0. d \in Class /\ OfClass(M, objs, d)
    BY Zenon
  <2>1. IsFiniteSet(U) /\ \A s \in M : \A p \in objs[s] : p[1] = s
    <3>1. IsFiniteSet(U)
      <4>1. IsFiniteSet(FreeIn(M, objs))
        BY ONLY <2>0, FreeFinite, Zenon
      <4> QED
        BY <4>1, Zenon DEF FreeIn
    <3>2. \A s \in M : \A p \in objs[s] : p[1] = s
      BY ONLY <2>0, FreeFinite, Zenon
    <3> QED
      BY <3>1, <3>2, Zenon
  <2>2. UNION {objs2[s] : s \in M} = U \cup {o}
    <3>0. \A s \in M : objs[s] \subseteq U
      OBVIOUS
    <3>1. ASSUME NEW s \in M PROVE objs2[s] \subseteq U \cup {o} /\ objs[s] \subseteq objs2[s]
      <4>1. CASE s = s0
        BY <3>0, <4>1, Zenon
      <4>2. CASE s # s0
        BY <3>0, <4>2, Zenon
      <4> QED
        BY <4>1, <4>2, Zenon
    <3>3. o \in objs2[s0]
      OBVIOUS
    <3> QED
      BY <3>1, <3>3
  <2>3. o \notin U
    BY <2>1
  <2>4. Cardinality(U \cup {o}) = Cardinality(U) + 1
    BY <2>1, <2>3, FS_AddElement, Zenon
  <2>5. /\ full \cup {s0} = {s \in M : objs2[s] # {}}
        /\ none \ {s0} = {s \in M : objs2[s] = {}}
    BY Zenon DEF Exact
  <2> QED
    BY <2>2, <2>4, <2>5, Zenon DEF Exact
<1>BackSpans.
    ASSUME HeapOK, NEW t \in Thread, NEW o, NEW c \in Class, NEW s \in Mine(c),
           o \in ObjectsOf(s, c), o \notin objects[s], Others(t), sizeclass' = sizeclass,
           at(t) = "spans", call'[t].at = "spans", Back(o, s, c), OtherLists(c)
    PROVE  SpansOK' /\ Leaving' = Leaving
  <2> USE <1>BackSpans
  <2>1. s \in Span /\ sizeclass[s] = c /\ s \notin Leaving
    BY Zenon DEF Mine
  <2>2. /\ refcount'[s] = refcount[s] - 1 /\ objects'[s] = objects[s] \cup {o}
        /\ \A x \in Span \ {s} : refcount'[x] = refcount[x] /\ objects'[x] = objects[x]
    BY Zenon DEF Back
  <2>3. /\ nonempty'[c] = nonempty[c] \cup {s} /\ empty'[c] = empty[c] \ {s}
        /\ counter'[c] = counter[c] + 1 /\ num_spans'[c] = num_spans[c]
    BY Zenon DEF Back
  <2>4. Leaving' = Leaving /\ Coming' = Coming
    BY DEF Leaving, Coming, Others, at
  <2>5. Held'
    <3>1. \A u \in Thread : Holding(u) => call[u].span \in Span \ {s}
      BY MineFree, Zenon DEF HeapOK, SpansOK, Held
    <3>2. \A u \in Thread \ {t} : Holding(u) =>
            /\ sizeclass'[call[u].span] = sizeclass[call[u].span]
            /\ objects'[call[u].span] = objects[call[u].span]
      BY <2>2, <3>1, Zenon
    <3>3. call'[t].at # "delete" /\ ~Holding(t)'
      BY Zenon DEF Holding, at
    <3> QED
      BY <3>2, <3>3, HeldStep, Zenon DEF HeapOK, SpansOK
  <2>6. IsFiniteSet(ObjectsOf(s, c)) /\ objects[s] \subseteq ObjectsOf(s, c)
    BY <2>1, ObjectsOfFinite, SpanObjects, Zenon DEF HeapOK
  <2>7. RefCounts'
    <3> SUFFICES ASSUME NEW x \in Span, sizeclass[x] \in Class, x \notin Leaving
                 PROVE  refcount'[x] = Cardinality(ObjectsOf(x, sizeclass[x]) \ objects'[x])
      BY <2>4, Zenon DEF RefCounts
    <3>1. refcount[x] = Cardinality(ObjectsOf(x, sizeclass[x]) \ objects[x])
      BY Zenon DEF HeapOK, SpansOK, RefCounts
    <3>2. CASE x = s
      <4>1. Cardinality(ObjectsOf(s, c) \ (objects[s] \cup {o}))
              = Cardinality(ObjectsOf(s, c) \ objects[s]) - 1
        <5>1. OneLess(ObjectsOf(s, c), objects[s], o)
          BY <2>6, <1>OutCount, Zenon
        <5> QED
          BY <5>1, Zenon DEF OneLess
      <4> QED
        BY <2>1, <2>2, <3>1, <3>2, <4>1, Zenon
    <3>3. CASE x # s
      BY <2>2, <3>1, <3>3, Zenon
    <3> QED
      BY <3>2, <3>3, Zenon
  <2>8. \A d : Mine(d)' = Mine(d)
    BY <2>4, Zenon DEF Mine
  <2>9. ListsExact(c)'
    <3>1. Exact(Mine(c), objects, nonempty[c], empty[c], num_spans[c], counter[c])
      BY Zenon DEF HeapOK, SpansOK, ListsExact
    <3>2. OfClass(Mine(c), objects, c)
      BY MineOfClass, Zenon DEF HeapOK, Mine
    <3>3. \A x \in Mine(c) \ {s} : objects'[x] = objects[x]
      BY <2>2, Zenon DEF Mine
    <3>4. Exact(Mine(c), objects', nonempty[c] \cup {s}, empty[c] \ {s}, num_spans[c], counter[c] + 1)
      <4>1. o[1] = s
        BY ObjectsOfFinite, Zenon
      <4> QED
        BY <2>2, <3>1, <3>2, <3>3, <4>1, <1>ExactBack, Zenon
    <3> QED
      BY <2>3, <2>8, <3>4, Zenon DEF ListsExact
  <2>10. ASSUME NEW d \in Class, d # c PROVE ListsExact(d)'
    <3>1. \A x \in Mine(d) : objects'[x] = objects[x]
      BY <2>1, <2>2, <2>10, Zenon DEF Mine
    <3> QED
      BY <2>8, <2>10, <3>1, ListStill, Zenon DEF HeapOK, OtherLists
  <2> QED
    BY <2>4, <2>5, <2>7, <2>9, <2>10, Zenon DEF SpansOK
\* The last object that is out comes back, and the span is taken off the list.
<1>ExactLast.
    ASSUME NEW c \in Class, NEW M, NEW objs, NEW full, NEW none, NEW n, NEW free, NEW s0 \in M,
           OfClass(M, objs, c), Exact(M, objs, full, none, n, free),
           Cardinality(objs[s0]) = Objects[c] - 1
    PROVE  Exact(M \ {s0}, objs, full \ {s0}, none \ {s0}, n - 1, free + 1 - Objects[c])
  <2> USE <1>ExactLast
  <2> DEFINE U == UNION {objs[s] : s \in M}
  <2>0. c \in Class /\ OfClass(M, objs, c)
    BY Zenon
  <2>1. /\ IsFiniteSet(U) /\ IsFiniteSet(M) /\ \A s \in M : \A p \in objs[s] : p[1] = s
        /\ IsFiniteSet(objs[s0])
    <3>1. IsFiniteSet(U)
      <4>1. IsFiniteSet(FreeIn(M, objs))
        BY ONLY <2>0, FreeFinite, Zenon
      <4> QED
        BY <4>1, Zenon DEF FreeIn
    <3>2. IsFiniteSet(M) /\ \A s \in M : IsFiniteSet(objs[s]) /\ \A p \in objs[s] : p[1] = s
      BY ONLY <2>0, FreeFinite, Zenon
    <3> QED
      BY <3>1, <3>2, Zenon
  <2>2. UNION {objs[s] : s \in M \ {s0}} = U \ objs[s0]
    BY <2>1
  <2>3. Cardinality(U \ objs[s0]) = Cardinality(U) + 1 - Objects[c]
    <3>1. Cardinality(U \ objs[s0]) = Cardinality(U) - Cardinality(U \cap objs[s0])
      BY <2>1, FS_Difference, Zenon
    <3>2. U \cap objs[s0] = objs[s0]
      OBVIOUS
    <3>3. Cardinality(U) \in Nat /\ Objects[c] \in Nat
      BY <2>1, FS_CardinalityType, SizeAssumption, Zenon
    <3> HIDE DEF U
    <3>4. Cardinality(U \ objs[s0]) = Cardinality(U) - (Objects[c] - 1)
      BY <3>1, <3>2, Zenon
    <3> QED
      BY <3>3, <3>4
  <2>4. Cardinality(M \ {s0}) = Cardinality(M) - 1
    BY <2>1, FS_RemoveElement, Zenon
  <2>5. /\ full \ {s0} = {s \in M \ {s0} : objs[s] # {}}
        /\ none \ {s0} = {s \in M \ {s0} : objs[s] = {}}
    BY Zenon DEF Exact
  <2> QED
    BY <2>2, <2>3, <2>4, <2>5, Zenon DEF Exact
<1>LastSpans.
    ASSUME HeapOK, NEW t \in Thread, NEW o, NEW c \in Class, NEW s \in Mine(c),
           o \in ObjectsOf(s, c), o \notin objects[s], Others(t), sizeclass' = sizeclass,
           \A x \in Span : objects'[x] = objects[x],
           at(t) = "spans", call'[t].at = "delete", call'[t].span = s, refcount[s] = 1,
           Gone(s, c), OtherLists(c)
    PROVE  SpansOK' /\ Leaving' = Leaving \cup {s} /\ ObjectsOf(s, c) \ objects[s] = {o}
  <2> USE <1>LastSpans
  <2>1. s \in Span /\ sizeclass[s] = c /\ s \notin Leaving /\ s # None
    BY NoneAssumption, Zenon DEF Mine
  <2>2. Leaving' = Leaving \cup {s} /\ Coming' = Coming
    <3>1. \A u \in Thread \ {t} : call'[u] = call[u]
      BY Zenon DEF Others
    <3>2. Leaving' = Leaving \cup {s}
      <4>1. \A x : x \in Leaving <=> \E u \in Thread \ {t} : at(u) = "delete" /\ call[u].span = x
        BY Zenon DEF Leaving
      <4>2. \A x : x \in Leaving' <=> \E u \in Thread : call'[u].at = "delete" /\ call'[u].span = x
        BY Zenon DEF Leaving, at
      <4> QED
        BY <3>1, <4>1, <4>2 DEF at
    <3>3. Coming' = Coming
      BY <3>1 DEF Coming, at
    <3> QED
      BY <3>2, <3>3, Zenon
  <2>3. Held'
    <3>1. \A u \in Thread : Holding(u) => call[u].span # s /\ call[u].span \in Span
      BY MineFree, Zenon DEF HeapOK, SpansOK, Held
    <3>2. call'[t].at # "populated" /\ call'[t].span # None /\ call'[t].span \in Span
          /\ sizeclass'[call'[t].span] \in Class
      BY <2>1, Zenon
    <3> QED
      BY <3>1, <3>2, HeldStep, Zenon DEF HeapOK, SpansOK
  <2>4. /\ ObjectsOf(s, c) \ objects[s] = {o}
        /\ Cardinality(objects[s]) = Cardinality(ObjectsOf(s, c)) - 1
    <3>1. IsFiniteSet(ObjectsOf(s, c)) /\ objects[s] \subseteq ObjectsOf(s, c)
      BY <2>1, ObjectsOfFinite, SpanObjects, Zenon DEF HeapOK
    <3>2. OneLess(ObjectsOf(s, c), objects[s], o)
      BY <3>1, <1>OutCount, Zenon
    <3>3. refcount[s] = Cardinality(ObjectsOf(s, c) \ objects[s])
      BY <2>1, Zenon DEF HeapOK, SpansOK, RefCounts
    <3> QED
      BY <3>2, <3>3, Zenon DEF OneLess
  <2>5. RefCounts'
    <3> SUFFICES ASSUME NEW x \in Span, sizeclass[x] \in Class, x \notin Leaving, x # s
                 PROVE  refcount'[x] = Cardinality(ObjectsOf(x, sizeclass[x]) \ objects'[x])
      BY <2>2, Zenon DEF RefCounts
    <3>1. refcount'[x] = refcount[x] /\ objects'[x] = objects[x]
      BY Zenon DEF Gone
    <3> QED
      BY <3>1, Zenon DEF HeapOK, SpansOK, RefCounts
  <2>6. Mine(c)' = Mine(c) \ {s} /\ \A d \in Class \ {c} : Mine(d)' = Mine(d)
    BY <2>1, <2>2, Zenon DEF Mine
  <2>7. ListsExact(c)'
    <3>1. Exact(Mine(c), objects, nonempty[c], empty[c], num_spans[c], counter[c])
      BY Zenon DEF HeapOK, SpansOK, ListsExact
    <3>2. OfClass(Mine(c), objects, c)
      BY MineOfClass, Zenon DEF HeapOK, Mine
    <3>3. Cardinality(objects[s]) = Objects[c] - 1
      BY <2>4, ObjectsOfFinite, Zenon
    <3>4. Exact(Mine(c) \ {s}, objects, nonempty[c] \ {s}, empty[c] \ {s}, num_spans[c] - 1,
                counter[c] + 1 - Objects[c])
      BY <3>1, <3>2, <3>3, <1>ExactLast, Zenon
    <3>5. Exact(Mine(c) \ {s}, objects', nonempty[c] \ {s}, empty[c] \ {s}, num_spans[c] - 1,
                counter[c] + 1 - Objects[c])
      <4>1. \A x \in Mine(c) \ {s} : objects'[x] = objects[x]
        BY Zenon DEF Mine
      <4> QED
        BY <3>4, <4>1, ExactSame, Zenon
    <3> QED
      BY <2>6, <3>5, Zenon DEF ListsExact, Gone
  <2>8. ASSUME NEW d \in Class, d # c PROVE ListsExact(d)'
    <3>1. \A x \in Mine(d) : objects'[x] = objects[x]
      BY Zenon DEF Mine
    <3> QED
      BY <2>6, <2>8, <3>1, ListStill, Zenon DEF HeapOK, OtherLists
  <2> QED
    BY <2>2, <2>3, <2>4, <2>5, <2>7, <2>8, Zenon DEF SpansOK
<1> SUFFICES ASSUME Shape, HeapOK, NEW t \in Thread, CallOK(t), NEW o, ReleaseToSpans(t, o)
             PROVE  HeapOK'
  OBVIOUS
<1>c. PICK c : c = Releasing(t)
  BY Zenon
<1>s. PICK s : s = o[1]
  BY Zenon
<1> DEFINE last == refcount[s] = 1
           new == [call[t] EXCEPT !.list = @ \ {o}, !.at = IF last THEN "delete" ELSE @,
                                  !.span = IF last THEN s ELSE None]
<1>1. /\ at(t) = "spans" /\ o \in call[t].list
      /\ refcount' = [refcount EXCEPT ![s] = @ - 1]
      /\ empty' = [empty EXCEPT ![c] = @ \ {s}]
      /\ nonempty' = [nonempty EXCEPT ![c] = IF last THEN @ \ {s} ELSE @ \cup {s}]
      /\ objects' = [objects EXCEPT ![s] = IF last THEN @ ELSE @ \cup {o}]
      /\ counter' = [counter EXCEPT ![c] = CounterAfter(@, c, last)]
      /\ num_spans' = [num_spans EXCEPT ![c] = IF last THEN @ - 1 ELSE @]
      /\ Goto(t, new) /\ UNCHANGED <<sizeclass, tc_slots>>
  BY <1>c, <1>s, Zenon DEF ReleaseToSpans, slots
<1>2. /\ DOMAIN new = CallFields /\ new.list = call[t].list \ {o} /\ new.range = call[t].range
      /\ new.cl = call[t].cl /\ new.victim = call[t].victim
      /\ (last => new.at = "delete" /\ new.span = s) /\ (~last => new.at = call[t].at)
  BY Zenon DEF Shape, CallFields
<1> HIDE DEF new, last
<1>3. Others(t) /\ call'[t] = new
  BY <1>1, <1>2, GotoIsLocal, Zenon
<1>4. /\ s \in Mine(c) /\ c \in Class /\ sizeclass[s] = c
      /\ o \in ObjectsOf(s, c) /\ o \notin objects[s]
  BY <1>1, <1>c, <1>s, <1>BackToList, Zenon
<1>5. s \in Span /\ s \notin Leaving
  BY <1>4, Zenon DEF Mine
<1>6. Dropped(t, o)
  <2>1. UNCHANGED <<program, list>>
    BY <1>1, Zenon DEF Goto, cache, free_list
  <2>2. Releasing(t)' = Releasing(t)
    BY <1>2, <1>3, Zenon DEF Releasing
  <2> QED
    BY <1>1, <1>2, <1>3, <2>1, <2>2, Zenon DEF Dropped
<1>7. OtherLists(c)
  BY <1>1, <1>4, Zenon DEF OtherLists, HeapOK, HeapShape
<1>8. HeapShape'
  <2>1. /\ DOMAIN objects' = Span /\ DOMAIN refcount' = Span /\ DOMAIN nonempty' = Class
        /\ DOMAIN empty' = Class /\ DOMAIN num_spans' = Class /\ DOMAIN counter' = Class
    BY <1>1, Zenon DEF HeapOK, HeapShape
  <2> QED
    BY <2>1, <1>6, Zenon DEF HeapOK, HeapShape, Dropped
<1>9. CASE last
  <2>1. Gone(s, c)
    BY <1>1, <1>4, <1>5, <1>9, SMTT(20) DEF Gone, CounterAfter, HeapOK, HeapShape
  <2>2. sizeclass' = sizeclass /\ \A x \in Span : objects'[x] = objects[x]
    BY <1>1, <1>5, <1>9, Zenon DEF HeapOK, HeapShape
  <2>3. at(t) = "spans" /\ call'[t].at = "delete" /\ call'[t].span = s /\ refcount[s] = 1
    BY <1>1, <1>2, <1>3, <1>9, Zenon DEF last
  <2>4. SpansOK' /\ Leaving' = Leaving \cup {s} /\ ObjectsOf(s, c) \ objects[s] = {o}
    BY <1>3, <1>4, <1>7, <2>1, <2>2, <2>3, <1>LastSpans, Zenon
  <2>5. Owned'
    BY <1>1, <1>4, <1>5, <1>6, <1>s, <2>2, <2>4, <1>LastOwned, Zenon DEF HeapOK
  <2> QED
    BY <1>8, <2>4, <2>5, Zenon DEF HeapOK
<1>10. CASE ~last
  <2>1. Back(o, s, c)
    BY <1>1, <1>4, <1>5, <1>10, SMTT(20) DEF Back, CounterAfter, HeapOK, HeapShape
  <2>2. at(t) = "spans" /\ call'[t].at = "spans"
    BY <1>1, <1>2, <1>3, <1>10, Zenon DEF at
  <2>3. SpansOK' /\ Leaving' = Leaving
    BY <1>1, <1>3, <1>4, <1>7, <2>1, <2>2, <1>BackSpans, Zenon
  <2>4. objects' = [objects EXCEPT ![s] = @ \cup {o}]
    BY <1>1, <1>10, Zenon
  <2>5. Owned'
    BY <1>1, <1>5, <1>6, <1>s, <2>3, <2>4, <1>BackOwned, Zenon DEF HeapOK
  <2> QED
    BY <1>8, <2>3, <2>5, Zenon DEF HeapOK
<1> QED
  BY <1>9, <1>10, Zenon

LEMMA CentralHeap ==
  ASSUME Shape, HeapOK, NEW t \in Thread, CallOK(t), CentralStep(t)
  PROVE  HeapOK'
BY SlotStep, RemoveStep, PopulateStep, PopulatedStep, GiveBackStep, DeleteStep, ReleasedStep,
   InsertStep, FS_EmptySet, ShrinkStep, Zenon
DEF CentralStep

(***************************************************************************)
(* The invariant of all steps, and what it says.                           *)
(***************************************************************************)
OwnInv == Inv /\ Calls /\ HeapOK

LEMMA InitOwn == Init => OwnInv
<1> SUFFICES ASSUME Init PROVE OwnInv
  OBVIOUS
<1>1. Inv
  BY InitInv, Zenon
<1>2. Calls
  BY Zenon DEF Init, CacheInit, Idle, Working, Calls, CallOK, at, in, Fetching
<1>3. HeapShape
  <2>1. tc_slots \in [Class -> Seq(SUBSET (Span \X Nat))]
    BY DEF Init
  <2> QED
    BY <2>1, Zenon DEF Init, CacheInit, HeapShape
<1>4. \A o, k, x, y : ~Loc(o, k, x, y)
  BY DEF Init, CacheInit, Idle, Loc
<1>5. Owned
  <2>1. NoneLost
    BY NoneAssumption, Zenon DEF Init, NoneLost
  <2> QED
    BY <1>4, <2>1, Zenon DEF Owned, OnePlace, RightPlace
<1>6. SpansOK
  <2>1. \A t \in Thread : at(t) = "idle"
    BY Zenon DEF Init, CacheInit, Idle, at
  <2>2. Held
    BY <2>1, Zenon DEF Held, Holding
  <2>3. RefCounts
    BY NoneAssumption, Zenon DEF Init, RefCounts
  <2>4. ASSUME NEW c \in Class PROVE ListsExact(c)
    <3>1. Mine(c) = {}
      BY NoneAssumption, Zenon DEF Init, Mine
    <3>2. /\ {s \in {} : objects[s] # {}} = {} /\ {s \in {} : objects[s] = {}} = {}
          /\ UNION {objects[s] : s \in {}} = {} /\ Cardinality({}) = 0
      BY FS_EmptySet, Zenon
    <3>3. nonempty[c] = {} /\ empty[c] = {} /\ num_spans[c] = 0 /\ counter[c] = 0
      BY Zenon DEF Init
    <3> QED
      BY <3>1, <3>2, <3>3, Zenon DEF ListsExact, Exact
  <2> QED
    BY <2>2, <2>3, <2>4, Zenon DEF SpansOK
<1> QED
  BY <1>1, <1>2, <1>3, <1>5, <1>6, Zenon DEF OwnInv, HeapOK

LEMMA StepOwn == OwnInv /\ [Next]_vars => OwnInv'
<1> SUFFICES ASSUME OwnInv, [Next]_vars PROVE OwnInv'
  OBVIOUS
<1>1. Inv'
  BY StepInv, Zenon DEF OwnInv
<1>2. ASSUME NEW t \in Thread PROVE Shape /\ HeapOK /\ CallOK(t) /\ (in(t) = "program" => at(t) = "idle")
  BY Zenon DEF OwnInv, Inv, Calls
<1>3. ASSUME NEW t \in Thread, CallOK(t)', Others(t) PROVE Calls'
  BY <1>3, OwnCall, Zenon DEF OwnInv
<1>4. ASSUME NEW t \in Thread, CentralStep(t) PROVE Calls' /\ HeapOK'
  <2>1. CallOK(t)'
    BY <1>2, <1>4, CentralCall, Zenon
  <2>2. Others(t)
    BY <1>1, <1>2, <1>4, CentralOthers, Zenon DEF Inv
  <2> QED
    BY <1>2, <1>3, <1>4, <2>1, <2>2, CentralHeap, Zenon
<1>5. ASSUME NEW t \in Thread, CacheStep(t) \/ Ask(t), UNCHANGED central PROVE Calls' /\ HeapOK'
  <2>1. CallOK(t)'
    BY <1>2, <1>5, ProgramClass, CacheCall, Zenon
  <2>2. Others(t)
    BY <1>1, <1>2, <1>5, CacheOthers, Zenon DEF Inv
  <2> QED
    BY <1>2, <1>3, <1>5, <2>1, <2>2, CacheHeap, Zenon
<1>6. CASE UNCHANGED vars
  <2>1. /\ UNCHANGED <<sizeclass, objects, refcount, nonempty, empty, num_spans, counter>>
        /\ UNCHANGED <<tc_slots, program, list, call, op>>
    BY <1>6, Zenon DEF vars, central, spans, lists, slots, cache, free_list
  <2>2. Calls'
    BY <2>1, Zenon DEF OwnInv, Calls, CallOK, at, in
  <2>3. HeapShape'
    BY <2>1, Zenon DEF OwnInv, HeapOK, HeapShape
  <2>4. Owned'
    <3>1. \A o, k, x, y : Loc(o, k, x, y)' <=> Loc(o, k, x, y)
      BY <2>1 DEF Loc
    <3>2. ASSUME NEW o, NEW k, NEW x, NEW y, Loc(o, k, x, y)' PROVE Fit(o, k, x, y)'
      <4>1. Fit(o, k, x, y)
        BY <3>1, <3>2, Zenon DEF OwnInv, HeapOK, Owned, RightPlace
      <4> QED
        BY <2>1, <4>1, Zenon DEF Fit, Releasing, at
    <3>3. Leaving' = Leaving
      BY <2>1, Zenon DEF Leaving, at
    <3>4. Moves({}, "none", None, None, {}, "none", None, None)
      BY <2>1, <3>1, <3>2, <3>3, Zenon DEF Moves
    <3> QED
      BY <3>4, MovesKeep, Zenon DEF OwnInv, HeapOK
  <2>5. Leaving' = Leaving /\ Coming' = Coming /\ \A c : Mine(c)' = Mine(c)
    BY <2>1, Zenon DEF Mine, Leaving, Coming, at
  <2>6. Held' /\ RefCounts'
    BY <2>1, <2>5, Zenon DEF OwnInv, HeapOK, SpansOK, Held, Holding, RefCounts, at
  <2>7. \A c \in Class : ListsExact(c)'
    BY <2>1, <2>5, Zenon DEF OwnInv, HeapOK, SpansOK, ListsExact
  <2> QED
    BY <1>1, <2>2, <2>3, <2>4, <2>6, <2>7, Zenon DEF OwnInv, HeapOK, SpansOK
<1> QED
  BY <1>1, <1>4, <1>5, <1>6, Zenon DEF OwnInv, Next, Step, Ask

LEMMA SpansOKIsExact ==
  ASSUME Owned, SpansOK, sizeclass \in [Span -> Class \cup {None}]
  PROVE  SpansExact
<1>1. ASSUME NEW s \in Span, sizeclass[s] # None, s \notin Leaving
      PROVE  refcount[s] + Cardinality(objects[s]) = Objects[sizeclass[s]]
  <2>1. PICK c \in Class : c = sizeclass[s]
    BY <1>1, Zenon
  <2>2. objects[s] \subseteq ObjectsOf(s, c)
    <3> SUFFICES ASSUME NEW o \in objects[s] PROVE o \in ObjectsOf(s, c)
      OBVIOUS
    <3>1. Loc(o, "span", s, None)
      BY Zenon DEF Loc
    <3>2. Home(o) /\ Fit(o, "span", s, None)
      BY <3>1, Zenon DEF Owned, RightPlace
    <3> QED
      BY <2>1, <3>2, Zenon DEF Home, Fit
  <2>3. /\ IsFiniteSet(ObjectsOf(s, c)) /\ Cardinality(ObjectsOf(s, c)) = Objects[c]
        /\ Objects[c] \in Nat
    BY ObjectsOfFinite, Zenon
  <2>4. refcount[s] = Cardinality(ObjectsOf(s, c) \ objects[s])
    BY <1>1, <2>1, Zenon DEF SpansOK, RefCounts
  <2>5. Cardinality(ObjectsOf(s, c) \ objects[s])
          = Cardinality(ObjectsOf(s, c)) - Cardinality(ObjectsOf(s, c) \cap objects[s])
    BY <2>3, FS_Difference, Zenon
  <2>6. ObjectsOf(s, c) \cap objects[s] = objects[s]
    BY <2>2, Zenon
  <2>7. IsFiniteSet(objects[s])
    BY <2>2, <2>3, FS_Subset, Zenon
  <2>8. Cardinality(objects[s]) \in Nat
    BY <2>7, FS_CardinalityType, Zenon
  <2>9. refcount[s] = Objects[c] - Cardinality(objects[s])
    BY <2>3, <2>4, <2>5, <2>6, Zenon
  <2>10. refcount[s] + Cardinality(objects[s]) = Objects[c]
    BY <2>3, <2>8, <2>9, SMTT(20)
  <2> QED
    BY <2>1, <2>10, Zenon
<1>2. \A c \in Class : ListsExact(c)
  BY Zenon DEF SpansOK
<1> QED
  BY <1>1, <1>2, Zenon DEF SpansExact, ListsExact, Exact, Mine

\* No thread ever frees or hands out what another has: for any threads, size classes and
\* spans, an object that malloc, free, the garbage collection of a cache, the transfer
\* cache and the central free lists pass around is always in one place and in one only,
\* whatever the threads do while a lock is released, and none of a freed span is left.
THEOREM OneOwnerHolds == Spec => []OneOwner
<1>1. OwnInv => OneOwner
  BY OwnedIsOneOwner, Zenon DEF OwnInv, HeapOK, HeapShape
<1> QED
  BY <1>1, InitOwn, StepOwn, PTL DEF Spec

\* refcount, nonempty_, empty_, num_spans_ and counter_ of every size class are exact at
\* every step, although ReleaseToSpans and Populate drop lock_ half-way: ReleaseToSpans
\* never gives a span with a live object to the page heap on the word of refcount.
THEOREM SpansExactHolds == Spec => []SpansExact
<1>1. OwnInv => SpansExact
  BY SpansOKIsExact, Zenon DEF OwnInv, HeapOK, HeapShape
<1> QED
  BY <1>1, InitOwn, StepOwn, PTL DEF Spec
=============================================================================
