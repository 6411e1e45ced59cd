-------------------------------- MODULE LuaGC -------------------------------
(***************************************************************************)
(* The garbage collector of Lua 5.2.2 (lgc.c) under the program that uses  *)
(* the C API.  A call of luaC_step does one singlestep or more and then    *)
(* runs finalizers; what the program does between two of them, or inside a *)
(* finalizer, is any sequence of API calls.  atomic() is one singlestep,   *)
(* during which the program waits: here two halves, each with what its     *)
(* loops mark in the end (MarkedAll), and between them markbeingfnz object *)
(* by object.  goals is what a call has still to do before it returns.     *)
(***************************************************************************)
EXTENDS LuaHeap

CONSTANTS
  GCSWEEPMAX, \* objects that one sweep step looks at
  MaxStack,   \* bound on the values on the stack
  MaxTables,  \* bound on the tables at one time
  MaxEntries, \* bound on the entries of a table
  CollectsAtClose, \* whether a finalizer that lua_close calls may call lua_gc
  Kinds       \* the modes that luaC_changemode may be called with

ASSUME SweepAssumption == GCSWEEPMAX \in Nat \ {0}

VARIABLES
  gcstate,   \* where the collection is
  gckind,    \* "normal", "gen" or "emergency"
  allgc,     \* list of the collectable objects
  finobj,    \* list of the objects with a finalizer
  tobefnz,   \* list of the objects whose finalizer is due
  strt,      \* the string table, one bucket
  old,       \* objects with OLDBIT
  finalized, \* objects with FINALIZEDBIT
  separated, \* objects with the bit SEPARATED
  sweepgc,   \* the object of allgc after which the sweep goes on, or NULL
  sweepfin,  \* the same for finobj
  at,        \* the loop of atomic() or of markbeingfnz that runs, or "out"
  loc,       \* its local variables
  goals,     \* what the call of the collector has still to do
  called,    \* objects whose finalizer was called
  closing,   \* lua_close: "no", "separated" or "calling" finalizers
  owed       \* objects with a finalizer that lua_close found and has not called

heap  == <<entries, color, gl>>
lists == <<allgc, finobj, tobefnz, strt>>
bits  == <<old, finalized, separated>>
ptrs  == <<sweepgc, sweepfin>>
run   == <<at, loc, goals>>
close == <<closing, owed>>
vars  == <<heap, lists, bits, ptrs, run, gcstate, gckind, called, close>>

NoLocals == [todo |-> <<>>, orig |-> {}]

SweepPhase == {"sweepstring", "sweepudata", "sweep"}

keepinvariant(kind) == kind = "gen" \/ gcstate \in {"propagate", "atomic"}

keepinvariantout == gcstate \in {"propagate", "atomic"}

NoEntries == [o \in Obj |-> {}]

StartColor == [o \in Obj |-> IF o \in Root \cup {Thread} THEN "white" ELSE "free"]

RootList == CHOOSE q \in [1 .. Cardinality(Root) -> Root] : Range(q) = Root

\* lua_newstate: the main thread and the registry, no collection yet.
Init ==
  /\ entries = NoEntries /\ color = StartColor /\ gl = NoLists
  /\ gcstate = "pause" /\ gckind = "normal"
  /\ allgc = RootList /\ finobj = <<>> /\ tobefnz = <<>> /\ strt = <<>>
  /\ old = {} /\ finalized = {} /\ separated = {} /\ called = {}
  /\ sweepgc = NULL /\ sweepfin = NULL
  /\ at = "out" /\ loc = NoLocals /\ goals = <<>>
  /\ closing = "no" /\ owed = {}

\* A call runs the collector to some state: its steps follow each other, and
\* those of a loop are taken together.
Unbroken == goals # <<>>

(***************************************************************************)
(* Sweeping.                                                               *)
(***************************************************************************)
\* The sweep of a list in generational mode ends at an old object.
stops(kind, c, o) == kind = "gen" /\ o \in old /\ ~isdead(c, o)

\* sweeplist from position i of the list q, at most n objects.
sweeplist(kind, c, q, i, n) ==
  LET seg  == SubSeq(q, i + 1, IF i + n < Len(q) THEN i + n ELSE Len(q))
      ends == {k \in 1 .. Len(seg) : stops(kind, c, seg[k])}
      m    == IF ends = {} THEN Len(seg)
              ELSE (CHOOSE k \in ends : \A j \in ends : k <= j) - 1
      live(o) == ~isdead(c, o)
      kept == SelectSeq(SubSeq(seg, 1, m), live)
      rest == SubSeq(q, i + m + 1, Len(q))
  IN [list  |-> SubSeq(q, 1, i) \o kept \o rest,
      freed |-> {seg[k] : k \in 1 .. m} \ Range(kept),
      kept  |-> Range(kept),
      ptr   |-> IF ends # {} \/ rest = <<>> THEN NULL
                ELSE (SubSeq(q, 1, i) \o kept)[i + Len(kept)]]

\* sweeptolive: up to and with the first live object.
sweeptolive(kind, c, q, i) ==
  LET alive == {k \in i + 1 .. Len(q) : ~isdead(c, q[k])}
      n     == IF alive = {} THEN Len(q) ELSE (CHOOSE k \in alive : \A j \in alive : k <= j) - i
  IN sweeplist(kind, c, q, i, n)

\* What a sweep does to the objects it frees and to those it keeps.
Swept(kind, c, ent, freed, kept) ==
  /\ color' = [o \in Obj |-> IF o \in freed THEN "free"
                             ELSE IF o \in kept /\ kind # "gen" THEN "white" ELSE c[o]]
  /\ entries' = [o \in Obj |-> IF o \in freed THEN {} ELSE ent[o]]
  /\ finalized' = finalized \ freed /\ called' = called \ freed

OldAfter(kind, freed, kept) ==
  IF kind = "gen" THEN (old \ freed) \cup kept ELSE old \ (freed \cup kept)

\* entersweep, with the colours and the entries that it finds.
entersweep(c, ent) ==
  \E f \in {sweeptolive(gckind, c, finobj, 0)}, a \in {sweeptolive(gckind, c, allgc, 0)} :
    /\ gcstate' = "sweepstring"
    /\ finobj' = f.list /\ sweepfin' = f.ptr
    /\ allgc' = a.list /\ sweepgc' = a.ptr
    /\ Swept(gckind, c, ent, f.freed \cup a.freed, f.kept \cup a.kept)
    /\ old' = OldAfter(gckind, f.freed \cup a.freed, f.kept \cup a.kept)

PosOf(q, o) == CHOOSE i \in 1 .. Len(q) : q[i] = o

\* A sweep step from the object p, in the list that p is linked in.
SweepFrom(p) ==
  LET in == p \in Range(finobj)
      q  == IF in THEN finobj ELSE allgc
  IN \E r \in {sweeplist(gckind, color, q, PosOf(q, p), GCSWEEPMAX)} :
       /\ finobj' = IF in THEN r.list ELSE finobj
       /\ allgc' = IF in THEN allgc ELSE r.list
       /\ Swept(gckind, color, entries, r.freed, r.kept) /\ old' = OldAfter(gckind, r.freed, r.kept)
       /\ IF gcstate = "sweep" THEN sweepgc' = r.ptr /\ UNCHANGED sweepfin
          ELSE sweepfin' = r.ptr /\ UNCHANGED sweepgc

\* luaS_resize: the strings are linked anew, and lose their old bit.
luaS_resize(q, o) ==
  /\ strt' = [i \in 1 .. Len(q) |-> q[Len(q) + 1 - i]]
  /\ old' = o \ String

\* checkSizes, which may halve the string table, when a sweep leaves it as q and
\* the old objects as o.
checkSizes(kind, q, o) ==
  \/ strt' = q /\ old' = o
  \/ kind # "emergency" /\ q # <<>> /\ luaS_resize(q, o)

\* The steps of a sweep up to GCSpause, when nothing comes between them: strings
\* if they are left, finobj from the position f, allgc from g, the main thread.
SweepRest(kind, strings, f, g) ==
  \E rs \in {sweeplist(kind, color, strt, IF strings THEN 0 ELSE Len(strt), Len(strt))},
     rf \in {sweeplist(kind, color, finobj, f, Len(finobj))},
     rg \in {sweeplist(kind, color, allgc, g, Len(allgc))} :
  \E freed \in {rs.freed \cup rf.freed \cup rg.freed},
     kept \in {rs.kept \cup rf.kept \cup rg.kept \cup {Thread}} :
    /\ finobj' = rf.list /\ allgc' = rg.list
    /\ sweepgc' = NULL /\ sweepfin' = NULL /\ gcstate' = "pause"
    /\ Swept(kind, color, entries, freed, kept)
    /\ checkSizes(kind, rs.list, OldAfter(kind, freed, kept))

Left(q, p) == IF p = NULL THEN Len(q) ELSE PosOf(q, p)

(***************************************************************************)
(* singlestep.                                                             *)
(***************************************************************************)
\* GCSpause: restartcollection.  markbeingfnz is the loop "pending".
restartcollection ==
  /\ gcstate = "pause" /\ gcstate' = "propagate"
  /\ LET W == Reached(color, {Thread} \cup Root)
     IN color' = Painted(color, W) /\ gl' = Queued(NoLists, W)
  /\ at' = IF tobefnz = <<>> THEN "out" ELSE "pending"
  /\ loc' = [NoLocals EXCEPT !.todo = tobefnz]
  /\ UNCHANGED <<entries, lists, bits, ptrs, gckind, called>>

propagatestep ==
  /\ gcstate = "propagate" /\ ~Unbroken /\ \E o \in Obj : propagatemark(o)
  /\ UNCHANGED <<entries, lists, bits, ptrs, at, loc, gcstate, gckind, called>>

sweepstring ==
  /\ gcstate = "sweepstring" /\ gcstate' = "sweepudata"
  /\ \E r \in {sweeplist(gckind, color, strt, 0, Len(strt))} :
       /\ strt' = r.list
       /\ Swept(gckind, color, entries, r.freed, r.kept) /\ old' = OldAfter(gckind, r.freed, r.kept)
  /\ UNCHANGED <<gl, allgc, finobj, tobefnz, separated, ptrs, at, loc, gckind>>

sweepudata ==
  /\ gcstate = "sweepudata"
  /\ IF sweepfin # NULL
       THEN SweepFrom(sweepfin) /\ UNCHANGED gcstate
       ELSE gcstate' = "sweep" /\ UNCHANGED <<entries, color, old, finalized, called, allgc, finobj, ptrs>>
  /\ UNCHANGED <<gl, tobefnz, strt, separated, at, loc, gckind>>

sweep ==
  /\ gcstate = "sweep" /\ sweepgc # NULL
  /\ SweepFrom(sweepgc)
  /\ UNCHANGED <<gl, tobefnz, strt, separated, at, loc, gcstate, gckind>>

\* The main thread is swept last.
sweepend ==
  /\ gcstate = "sweep" /\ sweepgc = NULL /\ gcstate' = "pause"
  /\ color' = [color EXCEPT ![Thread] = IF gckind = "gen" THEN @ ELSE "white"]
  /\ checkSizes(gckind, strt, OldAfter(gckind, {}, {Thread}))
  /\ UNCHANGED <<entries, gl, allgc, finobj, tobefnz, finalized, separated, ptrs, at, loc, gckind, called>>

(***************************************************************************)
(* atomic.                                                                 *)
(***************************************************************************)
Nonwhite == {o \in Obj : color[o] \in {"gray", "black"}}

\* The objects that the loops traverse, when those of base are marked.
Traversed(base, scan) == scan \cup (MarkedAll(base, scan) \ base)

\* separatetobefnz: the white objects of finobj, or all, go to the end of tobefnz.
separatetobefnz(c, all) ==
  LET dead(o)  == iswhite(c[o]) \/ all
      alive(o) == ~dead(o)
      due      == SelectSeq(finobj, dead)
  IN /\ finobj' = SelectSeq(finobj, alive) /\ tobefnz' = tobefnz \o due
     /\ finalized' = finalized \cup Range(due)

\* The ephemeron tables that a loop may have left in allweak too early; it
\* matters when the lists outlive the collection.
Early(S) == IF gckind = "gen" THEN SUBSET {o \in S \cap Table : Mode[o] = "k"} ELSE {{}}

\* The lists that retraversegrays goes through; allweak is not one of them.
Retraversed == gl["grayagain"] \cup gl["weak"] \cup gl["ephemeron"]

\* GCSpropagate with no gray object left, the first half of atomic: mark the
\* roots, propagate, retraverse, converge; clearvalues; separatetobefnz.
atomic ==
  /\ gcstate = "propagate" /\ gcstate' = "atomic" /\ at' = "mark"
  /\ Unbroken \/ gl["gray"] = {}
  /\ \E S \in {Traversed(Nonwhite \cup {Thread} \cup Root, gl["gray"] \cup Retraversed)} :
     \E c \in {Blackened(color, S)}, early \in Early(S) :
     \E lists1 \in {Relisted([NoLists EXCEPT !["allweak"] = gl["allweak"]], c, early, S)} :
     \E V \in {lists1["weak"] \cup lists1["allweak"]} :
       /\ gl' = lists1 /\ color' = Painted(c, WhiteIn(c, StringsMet(c, {}, V)))
       /\ entries' = Cleared(c, {}, V)
       /\ separatetobefnz(color', FALSE)
       /\ loc' = [todo |-> tobefnz', orig |-> V]
  /\ UNCHANGED <<allgc, strt, old, separated, ptrs, gckind, called>>

\* One object of markbeingfnz: it is made white and marked.
markbeingfnz ==
  /\ at \in {"pending", "mark"} /\ loc.todo # <<>>
  /\ LET o == Head(loc.todo)
         W == Reached([color EXCEPT ![o] = "white"], {o})
     IN color' = Painted(color, W) /\ gl' = Queued(gl, W) /\ old' = old \ {o}
  /\ loc' = [loc EXCEPT !.todo = Tail(@)]
  /\ at' = IF at = "pending" /\ Tail(loc.todo) = <<>> THEN "out" ELSE at
  /\ UNCHANGED <<entries, lists, finalized, separated, ptrs, goals, gcstate, gckind, called>>

\* The second half of atomic: propagate and converge from what is due, clearkeys,
\* clearvalues on the tables that this added, the flip of the white; entersweep.
atomicend ==
  /\ at = "mark" /\ loc.todo = <<>> /\ at' = "out" /\ loc' = NoLocals
  /\ \E S \in {Traversed(Nonwhite, gl["gray"] \cup gl["ephemeron"])} :
     \E c \in {Blackened(color, S)}, early \in Early(S) :
     \E lists1 \in {Relisted([gl EXCEPT !["gray"] = {}, !["ephemeron"] = {}], c, early, S)} :
     \E K \in {lists1["ephemeron"] \cup lists1["allweak"]},
        V \in {(lists1["weak"] \cup lists1["allweak"]) \ loc.orig} :
     \E c1 \in {Flipped(Painted(c, WhiteIn(c, StringsMet(c, K, V))))} :
       gl' = lists1 /\ entersweep(c1, Cleared(c, K, V))
  /\ UNCHANGED <<tobefnz, strt, separated, goals, gckind>>

(***************************************************************************)
(* singlestep and what calls it.                                           *)
(***************************************************************************)
singlestep ==
  restartcollection \/ propagatestep \/ atomic \/ sweepstring \/ sweepudata \/ sweep \/ sweepend

(***************************************************************************)
(* Control of the collector.  A goal is <<"run", states>> (luaC_runtil-    *)
(* state), <<"set", state>>, <<"kind", kind>> or <<"newshrstr", s>>.       *)
(***************************************************************************)
Goal(name) == at = "out" /\ goals # <<>> /\ Head(goals)[1] = name

States == {"pause", "propagate", "atomic"} \cup SweepPhase

\* The program runs, itself or in a finalizer.
Program == at = "out" /\ goals = <<>>

rest_unchanged == UNCHANGED <<lists, bits, ptrs, at, loc, gcstate, gckind, called>>

runtilstate ==
  /\ Goal("run")
  /\ LET states == Head(goals)[2]
     IN IF gcstate \in states THEN UNCHANGED heap /\ rest_unchanged
        ELSE IF gcstate \in SweepPhase /\ states \cap SweepPhase = {} THEN
          /\ SweepRest(gckind, gcstate = "sweepstring", Left(finobj, sweepfin), Left(allgc, sweepgc))
          /\ UNCHANGED <<gl, tobefnz, separated, at, loc, gckind>>
        ELSE singlestep
  /\ goals' = IF gcstate' \in Head(goals)[2] THEN Tail(goals) ELSE goals

\* One singlestep of incstep.  The finalizers that luaC_forcestep calls after
\* its last one are steps GCTM; how many is not counted.
incstep ==
  /\ Program /\ gckind = "normal" /\ singlestep /\ UNCHANGED goals

FullGoals(orig) ==
  <<<<"run", {"pause"}>>, <<"run", {"propagate"}>>, <<"run", {"pause"}>>>> \o
  (IF orig = "gen" THEN <<<<"run", {"propagate"}>>>> ELSE <<>>) \o <<<<"kind", orig>>>>

\* The sweep that luaC_fullgc and luaC_changemode enter to turn objects white; the
\* state they run the collector to is past it.
EnterSweep ==
  IF keepinvariantout THEN SweepRest("normal", TRUE, 0, 0)
  ELSE UNCHANGED <<entries, color, old, finalized, called, finobj, allgc, strt, ptrs, gcstate>>

\* The finalizers that a full collection calls first, unless it is an emergency,
\* are steps GCTM before it, and those it calls last are steps after it.
luaC_fullgc(emergency) ==
  /\ Program /\ (~emergency => tobefnz = <<>>)
  /\ gckind' = IF emergency THEN "emergency" ELSE "normal"
  /\ EnterSweep
  /\ goals' = FullGoals(gckind)
  /\ UNCHANGED <<gl, tobefnz, separated, at, loc>>

\* The minor collection; the major one is luaC_fullgc.
generationalcollection ==
  /\ Program /\ gckind = "gen"
  /\ goals' = <<<<"run", {"pause"}>>, <<"set", "propagate">>>>
  /\ UNCHANGED <<heap, lists, bits, ptrs, at, loc, gcstate, gckind, called>>

luaC_changemode(mode) ==
  /\ Program /\ mode # gckind
  /\ IF mode = "gen"
       THEN /\ goals' = <<<<"run", {"propagate"}>>, <<"kind", "gen">>>>
            /\ UNCHANGED <<heap, lists, bits, ptrs, gcstate, gckind, called>>
       ELSE /\ gckind' = "normal" /\ EnterSweep
            /\ UNCHANGED <<gl, tobefnz, separated, goals>>
  /\ UNCHANGED <<at, loc>>

setgoal ==
  /\ \/ Goal("set") /\ gcstate' = Head(goals)[2] /\ UNCHANGED gckind
     \/ Goal("kind") /\ gckind' = Head(goals)[2] /\ UNCHANGED gcstate
  /\ goals' = Tail(goals)
  /\ UNCHANGED <<heap, lists, bits, ptrs, at, loc, called>>

Push(ent, o) == [ent EXCEPT ![Thread] = @ \cup {<<Num, o>>}]

\* Plausible bug: the object returns to the end of allgc, behind the old ones.
GCTM_at_end(full) ==
  /\ Program /\ tobefnz # <<>>
  /\ LET o == Head(tobefnz)
     IN /\ tobefnz' = Tail(tobefnz)
        /\ allgc' = allgc \o <<o>> /\ separated' = separated \ {o}
        /\ color' = IF keepinvariantout THEN color ELSE [color EXCEPT ![o] = "white"]
        /\ old' = IF keepinvariantout /\ ~full THEN old ELSE old \ {o}
        /\ entries' = Push(entries, o) /\ called' = called \cup {o}
  /\ gckind' \in {gckind} \cup (IF full THEN {"normal"} ELSE {})
  /\ UNCHANGED <<gl, finobj, strt, finalized, ptrs, run, gcstate>>

\* GCTM: the object returns to allgc and its finalizer is called with it, by a
\* step or by callallpendingfinalizers of a full collection.  When the latter
\* fails, the collection is abandoned with the mode it has set.
GCTM(full) ==
  /\ Program /\ tobefnz # <<>>
  /\ LET o == Head(tobefnz)
     IN /\ tobefnz' = Tail(tobefnz)
        /\ allgc' = <<o>> \o allgc /\ separated' = separated \ {o}
        /\ color' = IF keepinvariantout THEN color ELSE [color EXCEPT ![o] = "white"]
        /\ old' = IF keepinvariantout /\ ~full THEN old ELSE old \ {o}
        /\ entries' = Push(entries, o) /\ called' = called \cup {o}
  /\ gckind' \in {gckind} \cup (IF full THEN {"normal"} ELSE {})
  /\ UNCHANGED <<gl, finobj, strt, finalized, ptrs, run, gcstate>>

(***************************************************************************)
(* The program: calls of the C API on values of its stack.  It keeps a     *)
(* value for as long as it likes; lua_pop drops one.                       *)
(***************************************************************************)
api_unchanged == UNCHANGED <<lists, bits, ptrs, run, gcstate, gckind, called>>

Room == Cardinality(stack) < MaxStack

TableRoom == Cardinality(Table \cap Allocated) < MaxTables

\* luaC_newobj, pushed on the stack: a table, a closure or a userdata.
luaC_newobj(o) ==
  /\ Program /\ Room /\ color[o] = "free"
  /\ o \in Closure \cup Udata \/ (o \in Table /\ TableRoom)
  /\ color' = [color EXCEPT ![o] = "white"]
  /\ allgc' = <<o>> \o allgc
  /\ entries' = Push(entries, o)
  /\ UNCHANGED <<gl, finobj, tobefnz, strt, bits, ptrs, run, gcstate, gckind, called>>

CreateString(s) ==
  /\ color' = [color EXCEPT ![s] = "white"]
  /\ strt' = <<s>> \o strt
  /\ entries' = Push(entries, s)
  /\ UNCHANGED <<gl, allgc, finobj, tobefnz, bits, ptrs, at, loc, gcstate, gckind, called>>

\* Plausible bug: an interned string is returned as it is found.
internshrstr_as_found(s) ==
  /\ Program /\ Room
  /\ IF s \in Range(strt)
       THEN entries' = Push(entries, s) /\ UNCHANGED <<color, gl>> /\ api_unchanged
       ELSE CreateString(s) /\ UNCHANGED goals

\* internshrstr: a dead string that is not freed yet is brought back; a new one
\* may find the string table crowded, and luaS_resize first ends its sweep.
internshrstr(s) ==
  /\ Program /\ Room
  /\ IF s \in Range(strt)
       THEN /\ color' = IF isdead(color, s) THEN [color EXCEPT ![s] = "white"] ELSE color
            /\ entries' = Push(entries, s) /\ UNCHANGED gl /\ api_unchanged
       ELSE \/ CreateString(s) /\ UNCHANGED goals
            \/ /\ goals' = <<<<"run", States \ {"sweepstring"}>>, <<"newshrstr", s>>>> \o goals
               /\ UNCHANGED heap /\ rest_unchanged

\* luaS_resize, then the creation it was called for.
newshrstr ==
  /\ Goal("newshrstr") /\ goals' = Tail(goals)
  /\ LET s == Head(goals)[2]
     IN /\ color' = [color EXCEPT ![s] = "white"]
        /\ strt' = <<s>> \o [i \in 1 .. Len(strt) |-> strt[Len(strt) + 1 - i]]
        /\ entries' = Push(entries, s)
        /\ old' = old \ String
  /\ UNCHANGED <<gl, allgc, finobj, tobefnz, finalized, separated, ptrs, at, loc, gcstate, gckind, called>>

\* A value is read from an object of the stack or the registry.
lua_rawget(o, v) ==
  /\ Program /\ Room /\ o \in stack \cup Root /\ v \in Refs(o)
  /\ entries' = Push(entries, v)
  /\ UNCHANGED <<color, gl>> /\ api_unchanged

lua_pop(v) ==
  /\ Program /\ v \in stack
  /\ entries' = [entries EXCEPT ![Thread] = @ \ {<<Num, v>>}]
  /\ UNCHANGED <<color, gl>> /\ api_unchanged

\* Plausible bug: no barrier for the key of a new entry.
luaC_barrierback_value_only(t, k, v) ==
  IF color[t] = "black" /\ iswhite(color[v])
    THEN color' = [color EXCEPT ![t] = "gray"] /\ gl' = [gl EXCEPT !["grayagain"] = @ \cup {t}]
    ELSE UNCHANGED <<color, gl>>

\* Plausible bug: the table turns gray, and no list gets it.
luaC_barrierback_unlisted(t, k, v) ==
  IF color[t] = "black" /\ (iswhite(color[v]) \/ (k # Num /\ iswhite(color[k])))
    THEN color' = [color EXCEPT ![t] = "gray"] /\ UNCHANGED gl
    ELSE UNCHANGED <<color, gl>>

\* The barriers of luaH_newkey, when k is new, and of lua_rawset.
luaC_barrierback(t, k, v) ==
  LET keyed == \E e \in entries[t] : e[1] = k
  IN IF color[t] = "black" /\ (iswhite(color[v]) \/ (k # Num /\ ~keyed /\ iswhite(color[k])))
       THEN color' = [color EXCEPT ![t] = "gray"] /\ gl' = [gl EXCEPT !["grayagain"] = @ \cup {t}]
       ELSE UNCHANGED <<color, gl>>

lua_rawset(t, k, v) ==
  /\ Program /\ t \in Table \cap (stack \cup Root) /\ k \in stack \cup {Num} /\ v \in stack
  /\ LET kept == {e \in entries[t] : e[1] # k}
     IN /\ Cardinality(kept) < MaxEntries
        /\ entries' = [entries EXCEPT ![t] = kept \cup {<<k, v>>}]
  /\ luaC_barrierback(t, k, v)
  /\ api_unchanged

\* lua_rawset with nil.
lua_rawsetnil(t, e) ==
  /\ Program /\ t \in Table \cap (stack \cup Root) /\ e \in entries[t]
  /\ entries' = [entries EXCEPT ![t] = @ \ {e}]
  /\ UNCHANGED <<color, gl>> /\ api_unchanged

\* luaC_barrier: the collector moves forward, or in a sweep the object turns white.
luaC_barrier(o, v) ==
  IF ~(color[o] = "black" /\ iswhite(color[v])) THEN UNCHANGED <<color, gl, old>>
  ELSE IF keepinvariantout THEN MarkAll({v}) /\ UNCHANGED old
  ELSE color' = [color EXCEPT ![o] = "white"] /\ old' = old \ {o} /\ UNCHANGED gl

\* lua_setuservalue of a userdata, lua_setupvalue of a closure.
lua_setvalue(o, v) ==
  /\ Program /\ o \in stack /\ v \in stack
  /\ o \in Closure \/ (o \in Udata /\ v \in Table)
  /\ entries' = [entries EXCEPT ![o] = {<<Num, v>>}]
  /\ luaC_barrier(o, v)
  /\ UNCHANGED <<lists, finalized, separated, ptrs, run, gcstate, gckind, called>>

\* The same with nil.
lua_setvaluenil(o) ==
  /\ Program /\ o \in stack \cap (Closure \cup Udata)
  /\ entries' = [entries EXCEPT ![o] = {}]
  /\ UNCHANGED <<color, gl>> /\ api_unchanged

\* Plausible bug: an object whose finalizer was called gets it again.
luaC_checkfinalizer_again(o) ==
  /\ Program /\ o \in stack \cap HasGC /\ o \notin separated
  /\ LET r == IF sweepgc = o THEN sweeptolive(gckind, color, allgc, PosOf(allgc, o))
              ELSE [list |-> allgc, freed |-> {}, kept |-> {}, ptr |-> sweepgc]
         others(x) == x # o
         c == [x \in Obj |-> IF x = o /\ ~keepinvariantout THEN "white" ELSE color[x]]
     IN /\ sweepgc' = r.ptr /\ allgc' = SelectSeq(r.list, others)
        /\ Swept(gckind, c, entries, r.freed, r.kept)
        /\ old' = OldAfter(gckind, r.freed, r.kept) \ {o}
  /\ finobj' = <<o>> \o finobj /\ separated' = separated \cup {o}
  /\ UNCHANGED <<gl, tobefnz, strt, sweepfin, run, gcstate, gckind>>

\* Plausible bug: the object stays linked in allgc.
luaC_checkfinalizer_linked(o) ==
  /\ Program /\ o \in stack \cap HasGC /\ o \notin separated \cup finalized
  /\ LET r == IF sweepgc = o THEN sweeptolive(gckind, color, allgc, PosOf(allgc, o))
              ELSE [list |-> allgc, freed |-> {}, kept |-> {}, ptr |-> sweepgc]
         c == [x \in Obj |-> IF x = o /\ ~keepinvariantout THEN "white" ELSE color[x]]
     IN /\ sweepgc' = r.ptr /\ allgc' = r.list
        /\ Swept(gckind, c, entries, r.freed, r.kept)
        /\ old' = OldAfter(gckind, r.freed, r.kept) \ {o}
  /\ finobj' = <<o>> \o finobj /\ separated' = separated \cup {o}
  /\ UNCHANGED <<gl, tobefnz, strt, sweepfin, run, gcstate, gckind>>

\* lua_setmetatable with a metatable that has __gc: luaC_checkfinalizer.
luaC_checkfinalizer(o) ==
  /\ Program /\ o \in stack \cap HasGC /\ o \notin separated \cup finalized
  /\ LET r == IF sweepgc = o THEN sweeptolive(gckind, color, allgc, PosOf(allgc, o))
              ELSE [list |-> allgc, freed |-> {}, kept |-> {}, ptr |-> sweepgc]
         others(x) == x # o
         c == [x \in Obj |-> IF x = o /\ ~keepinvariantout THEN "white" ELSE color[x]]
     IN /\ sweepgc' = r.ptr /\ allgc' = SelectSeq(r.list, others)
        /\ Swept(gckind, c, entries, r.freed, r.kept)
        /\ old' = OldAfter(gckind, r.freed, r.kept) \ {o}
  /\ finobj' = <<o>> \o finobj /\ separated' = separated \cup {o}
  /\ UNCHANGED <<gl, tobefnz, strt, sweepfin, run, gcstate, gckind>>

\* Plausible bug: only the finalizers that a collection has found due are called.
luaC_freeallobjects_due_only ==
  /\ Program /\ closing = "no" /\ closing' = "separated" /\ owed' = separated
  /\ UNCHANGED <<heap, lists, bits, ptrs, run, gcstate, gckind, called>>

\* lua_close: every object with a finalizer is due.  The calls are steps GCTM, and
\* a finalizer may do all that the program may.
luaC_freeallobjects ==
  /\ Program /\ closing = "no" /\ closing' = "separated"
  /\ separated # {} /\ owed' = separated
  /\ separatetobefnz(color, TRUE)
  /\ UNCHANGED <<heap, allgc, strt, old, separated, ptrs, run, gcstate, gckind, called>>

\* The rest of luaC_freeallobjects, when no finalizer is left to call: all objects
\* are freed; the next call of a policy opens a new state.
sweepwholelists ==
  /\ Program /\ IF closing = "no" THEN separated = {} ELSE tobefnz = <<>>
  /\ entries' = NoEntries /\ color' = StartColor /\ gl' = NoLists
  /\ gcstate' = "pause" /\ gckind' = "normal"
  /\ allgc' = RootList /\ finobj' = <<>> /\ tobefnz' = <<>> /\ strt' = <<>>
  /\ old' = {} /\ finalized' = {} /\ separated' = {} /\ called' = {}
  /\ sweepgc' = NULL /\ sweepfin' = NULL /\ closing' = "no" /\ owed' = {}
  /\ UNCHANGED run

(***************************************************************************)
(* The specification.                                                      *)
(***************************************************************************)
\* The calls that the program makes of its own accord.
API ==
  \/ \E o \in Obj : luaC_newobj(o)
  \/ \E o \in stack : lua_pop(o) \/ luaC_checkfinalizer(o)
  \/ \E s \in String : internshrstr(s)
  \/ \E o \in stack \cup Root : \E v \in Refs(o) : lua_rawget(o, v)
  \/ \E o \in stack : lua_setvaluenil(o) \/ \E v \in stack : lua_setvalue(o, v)
  \/ \E t \in Table \cap (stack \cup Root), k \in stack \cup {Num}, v \in stack : lua_rawset(t, k, v)
  \/ \E t \in Table \cap (stack \cup Root) : \E e \in entries[t] : lua_rawsetnil(t, e)

\* A step of the collector on its own, and the calls of lua_gc.  No step comes on its
\* own in a finalizer, where gcrunning is 0.
Collect ==
  /\ closing = "no" \/ CollectsAtClose
  /\ \/ incstep \/ generationalcollection
     \/ \E b \in BOOLEAN : luaC_fullgc(b)
     \/ \E m \in Kinds : luaC_changemode(m)

\* What a call that has started does before it returns.
Continue ==
  runtilstate \/ markbeingfnz \/ atomicend \/ setgoal \/ newshrstr

\* A finalizer is called.  lua_close calls the first of its own with no old bit and
\* with its errors ignored; a later one may be called by a collection in a finalizer.
Finalize ==
  /\ \E full \in BOOLEAN : GCTM(full) /\ (full \/ closing # "separated")
  /\ closing = "separated" => gckind' = gckind
  /\ closing' = IF closing = "no" THEN "no" ELSE "calling"
  /\ owed' = owed \ {Head(tobefnz)}

Next ==
  \/ (API \/ Collect \/ Continue) /\ UNCHANGED close
  \/ Finalize \/ luaC_freeallobjects \/ sweepwholelists

Spec == Init /\ [][Next]_vars
=============================================================================
