------------------------------ MODULE LuaProps ------------------------------
(***************************************************************************)
(* What the collector of LuaGC promises the program, and the invariants of *)
(* lgc.h that it relies on.                                                *)
(***************************************************************************)
EXTENDS LuaGC

Listed == Range(allgc) \cup Range(finobj) \cup Range(tobefnz) \cup Range(strt)

TypeOK ==
  /\ entries \in [Obj -> SUBSET ((Obj \cup {Num}) \X Obj)]
  /\ color \in [Obj -> {"free", "white", "dead", "gray", "black"}]
  /\ gl \in [GrayList -> SUBSET Obj]
  /\ gcstate \in States /\ gckind \in {"normal", "gen", "emergency"}
  /\ old \subseteq Obj /\ finalized \subseteq Obj /\ separated \subseteq Obj /\ called \subseteq Obj
  /\ closing \in {"no", "separated", "calling"} /\ owed \subseteq Obj
  /\ {sweepgc, sweepfin} \subseteq Obj \cup {NULL}
  /\ Allocated = Listed \cup {Thread}
  /\ Len(allgc) + Len(finobj) + Len(tobefnz) + Len(strt) = Cardinality(Listed)

\* T holds what is strongly reachable from its members; a value of an ephemeron
\* table counts when its key does, and strings count as values.
Closed(T) ==
  \A o \in T : \A e \in entries[o] :
    LET m == IF o \in Table THEN Mode[o] ELSE "strong"
    IN /\ e[1] \in Obj /\ (m \in {"strong", "v"} \/ e[1] \in String) => e[1] \in T
       /\ (m = "strong" \/ e[2] \in String \/ (m = "k" /\ e[1] \in T \cup {Num})) => e[2] \in T

Roots == {Thread} \cup Root \cup Range(tobefnz)

reachable(o) == \A T \in SUBSET (Allocated \ {o}) : Roots \subseteq T => ~Closed(T)

Reachable == {o \in Obj : reachable(o)}

\* An object the program can reach is never freed, and neither is one that a
\* reachable weak table still mentions: sweeplist frees only what no reachable
\* object refers to.
NoDangling ==
  \E T \in SUBSET Allocated :
    Roots \subseteq T /\ Closed(T) /\ \A o \in T : Refs(o) \subseteq Allocated

\* lgc.h: "a black object can never point to a white one", whenever
\* keepinvariant says that the invariant holds.
NoBlackToWhite ==
  keepinvariant(gckind) /\ at # "pending" =>
    \A o \in Obj : color[o] = "black" => \A v \in Refs(o) : ~iswhite(color[v])

\* lgc.h: "any gray object must be in a 'gray list'"; gclist links it in one.
GrayIsListed ==
  keepinvariant(gckind) /\ at = "out" =>
    /\ \A o \in Obj : color[o] = "gray" <=> \E l \in GrayList : o \in gl[l]
    /\ \A k, l \in GrayList : k # l => gl[k] \cap gl[l] = {}

\* The invariants that lgc.h states for its colours, through every barrier, new object
\* and string that comes between two steps of the collector: black never refers to
\* white, and gray is exactly what is linked in one gray list.  Every object is linked
\* in one of the four lists that sweep and finalization walk.
ColorInvariants == TypeOK /\ NoBlackToWhite /\ GrayIsListed

\* lgc.h: an object is linked in one gray list at a time.  markbeingfnz links an
\* object of tobefnz that is in none.
MarkedOnce ==
  at \in {"pending", "mark"} /\ loc.todo # <<>> =>
    \A l \in GrayList : Head(loc.todo) \notin gl[l]

\* sweeplist, in generational mode: "stop when hitting an old object, as all objects
\* after that one will be old too".
OldSuffix ==
  gckind = "gen" /\ Program =>
    \A q \in {allgc, finobj, strt} : \A i, j \in 1 .. Len(q) :
      i < j /\ q[i] \in old => q[j] \in old

\* manual.html: a finalizer "will never be called twice"; and no object is freed
\* between luaC_checkfinalizer and the call of its finalizer.
FinalizedOnce ==
  /\ Range(tobefnz) \cap called = {} /\ Range(finobj) \cap finalized = {}
  /\ separated = Range(finobj) \cup Range(tobefnz)

\* An object that luaC_checkfinalizer has registered leaves its list only for the call
\* of its finalizer, also when lua_close finds it still in use: the one exception is an
\* object that a finalizer registers while the state is closed.
FinalizersCalled ==
  [][\A o \in separated \ separated' : o \in called' \/ (closing # "no" /\ o \notin owed)]_vars

\* A program that goes on allocating makes luaC_step go on: it takes steps of the
\* collector, which it does not leave half done, and calls finalizers.  The finalizers
\* that lua_close calls return.
FairSpec ==
  /\ Spec
  /\ WF_vars(\/ Finalize
             \/ closing = "no" /\ incstep /\ UNCHANGED close
             \/ Continue /\ UNCHANGED close)
  /\ SF_vars(closing # "no" /\ sweepwholelists)

\* singlestep and GCTM, in incremental mode: an object that the program has lost is
\* freed, or comes back when its finalizer is called.
GarbageFreed == \A o \in Obj : []<>(o \in Allocated => reachable(o))

\* manual.html: in an ephemeron table a value is reachable if its key is; the
\* collector removes no entry whose key the program can reach.
EphemeronKept ==
  [][\A h \in Reachable \cap Table : \A e \in entries[h] \ entries'[h] :
       Mode[h] = "k" /\ "mark" \in {at, at'} => e[1] \notin Reachable \cup {Num}]_vars
=============================================================================
