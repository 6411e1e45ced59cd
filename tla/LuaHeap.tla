------------------------------- MODULE LuaHeap ------------------------------
(***************************************************************************)
(* The heap that lgc.c of the vendored Lua 5.2.2 manages, and how it is    *)
(* marked.  Each policy runs its script in a Lua state of its own, so one  *)
(* program and one collector share a heap, in steps that alternate.        *)
(*                                                                         *)
(* An object has a set of entries <<key, value>>.  A table's entries are   *)
(* its own; the stack of the main thread, the upvalues of a C closure and  *)
(* the uservalue of a userdata are entries with the key Num, which also    *)
(* stands for the array index of a table.  A metatable is left out: it is  *)
(* one more strong reference, and what it says (__mode, __gc) is a         *)
(* constant.  The five gray lists are linked through the one field gclist  *)
(* of an object; here they are sets, so that the order of a list is any    *)
(* order.  An entry of a hash is looked at before those that mark its key. *)
(***************************************************************************)
EXTENDS Naturals, Sequences, FiniteSets, Functions

CONSTANTS
  Thread,  \* the main thread
  Table,   \* tables
  Closure, \* C closures
  Udata,   \* userdata
  String,  \* short strings
  Num,     \* a key that is not collectable
  NULL,    \* a null pointer
  Mode,    \* table -> "strong", "k", "v" or "kv", its __mode
  Root,    \* tables that the registry holds
  HasGC    \* tables and userdata whose metatable has __gc

Obj == {Thread} \cup Table \cup Closure \cup Udata \cup String

ASSUME KindsAssumption ==
  /\ Root \subseteq Table /\ HasGC \subseteq Table \cup Udata
  /\ Mode \in [Table -> {"strong", "k", "v", "kv"}]
  /\ \A t \in Root : Mode[t] = "strong"
  /\ Num \notin Obj /\ NULL \notin Obj /\ Thread \notin Table \cup Closure \cup Udata \cup String
  /\ Table \cap (Closure \cup Udata \cup String) = {}
  /\ Closure \cap (Udata \cup String) = {} /\ Udata \cap String = {}

VARIABLES
  entries,   \* object -> what it refers to
  color,     \* object -> "free" or its colour bits
  gl         \* the gray lists

GrayList == {"gray", "grayagain", "weak", "allweak", "ephemeron"}

NoLists == [l \in GrayList |-> {}]

\* "white" is the current white, "dead" the other one.
iswhite(c) == c \in {"white", "dead"}

isdead(c, o) == c[o] = "dead"

\* Plausible bug: currentwhite is not flipped.
Flipped_not(c) == c

\* The flip of currentwhite.
Flipped(c) ==
  [o \in Obj |-> CASE c[o] = "white" -> "dead" [] c[o] = "dead" -> "white" [] OTHER -> c[o]]

Allocated == {o \in Obj : color[o] # "free"}

Refs(o) == UNION {{e[1], e[2]} : e \in entries[o]} \ {Num}

stack == {e[2] : e \in entries[Thread]}

WhiteIn(c, S) == {o \in S : iswhite(c[o])}

\* The white objects that marking those of S reaches at once: a userdata is
\* visited when it is marked, and its uservalue is a table.
Reached(c, S) ==
  LET W == WhiteIn(c, S)
  IN W \cup WhiteIn(c, UNION {Refs(u) : u \in W \cap Udata})

\* reallymarkobject: strings and userdata turn black, the others gray ...
Painted(c, W) ==
  [o \in Obj |-> IF o \notin W THEN c[o]
                 ELSE IF o \in String \cup Udata THEN "black" ELSE "gray"]

\* ... and into the gray list.
Queued(lists, W) == [lists EXCEPT !["gray"] = @ \cup (W \ (String \cup Udata))]

MarkAll(S) ==
  LET W == Reached(color, S)
  IN color' = Painted(color, W) /\ gl' = Queued(gl, W)

(***************************************************************************)
(* Traversal of one gray object: what it marks, and the list it enters.    *)
(***************************************************************************)
\* iscleared, apart from the marking of strings.
iscleared(c, o) == o \in Obj \ String /\ iswhite(c[o])

HasArray(h) == \E e \in entries[h] : e[1] = Num

\* The entries of an ephemeron table whose key is not marked yet.
Unmarked(h) == {e \in entries[h] : iscleared(color, e[1])}

traverseweakvalue_marks(h) ==
  {e[1] : e \in entries[h]} \cup
  (IF HasArray(h) THEN {} ELSE {e[2] : e \in entries[h]} \cap String)

traverseweakvalue_list(h) ==
  IF HasArray(h) \/ \E e \in entries[h] : iscleared(color, e[2]) THEN "weak" ELSE "grayagain"

traverseephemeron_marks(h) ==
  ({e[1] : e \in entries[h]} \cap String) \cup {e[2] : e \in entries[h] \ Unmarked(h)}

traverseephemeron_list(h) ==
  IF \E e \in Unmarked(h) : iswhite(color[e[2]]) THEN "ephemeron"
  ELSE IF Unmarked(h) # {} THEN "allweak" ELSE "grayagain"

\* "none": the object turns black.
List(o) ==
  CASE o = Thread                      -> "grayagain"
    [] o \in Table /\ Mode[o] = "v"    -> traverseweakvalue_list(o)
    [] o \in Table /\ Mode[o] = "k"    -> traverseephemeron_list(o)
    [] o \in Table /\ Mode[o] = "kv"   -> "allweak"
    [] OTHER                           -> "none"

Marks(o) ==
  (CASE o \in Table /\ Mode[o] = "v"  -> traverseweakvalue_marks(o)
     [] o \in Table /\ Mode[o] = "k"  -> traverseephemeron_marks(o)
     [] o \in Table /\ Mode[o] = "kv" -> {}
     [] OTHER                         -> Refs(o)) \ {Num}

\* One gray object is traversed and turns black, unless a list keeps it gray.
propagatemark(o) ==
  /\ o \in gl["gray"]
  /\ LET W == Reached(color, Marks(o))
         l == List(o)
     IN /\ color' = [Painted(color, W) EXCEPT ![o] = IF l = "none" THEN "black" ELSE "gray"]
        /\ gl' = Queued([k \in GrayList |-> (gl[k] \ (IF k = "gray" THEN {o} ELSE {})) \cup
                                            (IF k = l THEN {o} ELSE {})], W)

(***************************************************************************)
(* What propagateall, retraversegrays and convergeephemerons compute when  *)
(* they run to their end: the least set of marked objects that holds base  *)
(* and what the traversal of scan, and of every object it adds, marks.     *)
(***************************************************************************)
\* What the traversal of o marks when the objects of T are marked.
MarksIn(T, o) ==
  CASE o \in Table /\ Mode[o] = "v" ->
         {e[1] : e \in entries[o]} \cup ({e[2] : e \in entries[o]} \cap String)
    [] o \in Table /\ Mode[o] = "k" ->
         ({e[1] : e \in entries[o]} \cap String) \cup
         {e[2] : e \in {x \in entries[o] : x[1] \in T \cup String \cup {Num}}}
    [] o \in Table /\ Mode[o] = "kv" -> {}
    [] OTHER -> Refs(o)

MarkClosed(T, base, scan) ==
  /\ base \subseteq T
  /\ \A o \in scan \cup (T \ base) : MarksIn(T, o) \subseteq T \cup {Num}

MarkedAll(base, scan) ==
  {o \in Allocated : \A T \in SUBSET Allocated : MarkClosed(T, base, scan) => o \in T}

StaysGray(o) == o = Thread \/ (o \in Table /\ Mode[o] # "strong")

\* The colours when the objects of S were traversed.
Blackened(c, S) ==
  [o \in Obj |-> IF o \notin S THEN c[o] ELSE IF StaysGray(o) THEN "gray" ELSE "black"]

\* The list that the last traversal of o puts it in, under the colours c.  A
\* table of early was traversed before its last keys were marked.
LastList(c, early, o) ==
  LET unmarked == {e \in entries[o] : iscleared(c, e[1])}
  IN CASE o \in Table /\ Mode[o] = "v" ->
            IF HasArray(o) \/ \E e \in entries[o] : iscleared(c, e[2]) THEN "weak" ELSE "grayagain"
       [] o \in Table /\ Mode[o] = "k" ->
            IF \E e \in unmarked : iswhite(c[e[2]]) THEN "ephemeron"
            ELSE IF unmarked # {} \/ o \in early THEN "allweak" ELSE "grayagain"
       [] o \in Table /\ Mode[o] = "kv" -> "allweak"
       [] OTHER -> "grayagain"

Relisted(lists, c, early, S) ==
  [l \in GrayList |-> lists[l] \cup {o \in S : StaysGray(o) /\ LastList(c, early, o) = l}]

(***************************************************************************)
(* Clearing of weak tables.                                                *)
(***************************************************************************)
\* clearkeys on the tables of K and clearvalues on those of V.
Cleared(c, K, V) ==
  [h \in Obj |->
    {e \in entries[h] : /\ h \in K => ~iscleared(c, e[1])
                        /\ h \in V => ~iscleared(c, e[2])}]

\* The strings that iscleared meets and marks.
StringsMet(c, K, V) ==
  String \cap (UNION {{e[1] : e \in entries[h]} : h \in K} \cup
               UNION {{e[2] : e \in {x \in entries[h] : h \in K => ~iscleared(c, x[1])}}
                        : h \in V})
=============================================================================
