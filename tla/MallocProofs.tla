---------------------------- MODULE MallocProofs ----------------------------
(***************************************************************************)
(* For any number of threads and of size classes: a thread that waits for  *)
(* the lock of a central free list holds no other one, so that no circle   *)
(* of threads can wait for each other.  Then the steps of malloc and free  *)
(* that move objects between the program, the caches of the threads, their *)
(* calls and the transfer caches.                                          *)
(***************************************************************************)
EXTENDS MallocProps, TLAPS

CallFields == {"at", "cl", "n", "range", "list", "victim", "force", "ok", "span"}

OpFields == {"in", "cl", "left", "bytes", "todo"}

Shape ==
  /\ DOMAIN call = Thread /\ DOMAIN op = Thread /\ DOMAIN lock = Class
  /\ \A t \in Thread : DOMAIN call[t] = CallFields /\ DOMAIN op[t] = OpFields

\* A thread that runs the program is in no call; one that is about to shrink the transfer
\* cache of another class knows the class.
Inv ==
  /\ Shape
  /\ NoHoldAndWait
  /\ \A t \in Thread : in(t) = "program" => at(t) = "idle"
  /\ \A t \in Thread : at(t) = "shrink" => call[t].victim # None

\* What a step of t leaves of the others, and of itself when it holds no lock after it.
Others(t) ==
  /\ DOMAIN call' = Thread /\ DOMAIN op' = Thread
  /\ \A u \in Thread \ {t} : call'[u] = call[u] /\ op'[u] = op[u]
  /\ DOMAIN call'[t] = CallFields /\ DOMAIN op'[t] = OpFields

Calm(t) ==
  /\ Others(t)
  /\ call'[t].at # "shrink"
  /\ op'[t].in = "program" => call'[t].at = "idle"

\* A call that returns leaves its thread idle, or in the next call of InsertRange.
LEMMA ReturnsIsCalm ==
  ASSUME NEW t \in Thread, NEW S, Shape, Returns(t, S)
  PROVE  Calm(t)
<1>1. CASE Fetched(t, S)
  BY <1>1, Zenon DEF Fetched, Calm, Others, Shape, Idle, Working, CallFields, OpFields
<1>2. CASE ReleaseMore(t)
  BY <1>2 DEF ReleaseMore, NextRange, InsertRange_call, in, Calm, Others, Shape, Idle, CallFields,
              OpFields
<1>3. CASE FreedWithoutCache(t)
  BY <1>3, Zenon DEF FreedWithoutCache, Inserted, Calm, Others, Shape, Idle, Working, CallFields, OpFields
<1>4. CASE ListTooLong(t)
  BY <1>4, Zenon DEF ListTooLong, Inserted, Scavenging, Calm, Others, Shape, Idle, Working, CallFields, OpFields
<1>5. CASE Scavenged(t)
  BY <1>5, Zenon DEF Scavenged, Inserted, Calm, Others, Shape, Idle, Working, CallFields, OpFields
<1>6. CASE CleanedUp(t)
  BY <1>6, Zenon DEF CleanedUp, Inserted, Calm, Others, Shape, Idle, Working, CallFields, OpFields
<1> QED
  BY <1>1, <1>2, <1>3, <1>4, <1>5, <1>6, Zenon DEF Returns

LEMMA GotoIsLocal ==
  ASSUME NEW t \in Thread, NEW new, Shape, DOMAIN new = CallFields, Goto(t, new)
  PROVE  Others(t) /\ call'[t] = new /\ op' = op
BY Zenon DEF Goto, Others, Shape

\* A thread that held no lock and takes none keeps the invariant when it ends up calm.
LEMMA CalmStep ==
  ASSUME NEW t \in Thread, Inv, at(t) # "spans", Calm(t), UNCHANGED lock
  PROVE  Inv'
BY DEF Inv, Shape, NoHoldAndWait, Calm, Others, in, at, Releasing

\* The steps of a thread in a call of the central free lists.
LEMMA CentralStepKeeps ==
  \A t \in Thread :
    Inv /\ CentralStep(t) => Inv'
\* MakeCacheSpace fails: the thread takes the lock of its own class, and of no other.
<1>ReleaseRangeStep.
    ASSUME NEW t \in Thread, Inv, at(t) # "spans", in(t) # "program", ReleaseRange(t)
    PROVE  Inv'
  <2> USE <1>ReleaseRangeStep
  <2> DEFINE new == [Idle EXCEPT !.at = "spans", !.cl = call[t].cl, !.list = call[t].range]
  <2>1. DOMAIN new = CallFields /\ new.at = "spans" /\ new.victim = None /\ new.cl = call[t].cl
    BY Zenon DEF Idle, CallFields
  <2>2. Others(t) /\ call'[t] = new /\ op' = op
    BY <2>1, GotoIsLocal, Zenon DEF ReleaseRange, Inv
  <2> HIDE DEF new
  <2> QED
    BY <2>1, <2>2 DEF Inv, Shape, NoHoldAndWait, Others, in, at, Releasing, ReleaseRange
\* The lock of the thread's own class is released before that of a victim is waited for.
<1>EvictStep.
    ASSUME NEW t \in Thread, NEW v \in Class, NEW force, Inv, at(t) # "spans", in(t) # "program",
           Evict(t, v, force)
    PROVE  Inv'
  <2> USE <1>EvictStep
  <2> DEFINE new == [call[t] EXCEPT !.at = "shrink", !.victim = v, !.force = force]
  <2>1. DOMAIN new = CallFields /\ new.at = "shrink" /\ new.victim = v
    BY Zenon DEF Inv, Shape, CallFields
  <2>2. Others(t) /\ call'[t] = new /\ op' = op
    BY <2>1, GotoIsLocal, Zenon DEF Evict, Inv
  <2> HIDE DEF new
  <2> QED
    BY <2>1, <2>2, NoneAssumption DEF Inv, Shape, NoHoldAndWait, Others, in, at, Releasing, Evict
<1>EvictForcedStep.
    ASSUME NEW t \in Thread, Inv, at(t) # "spans", in(t) # "program", EvictForced(t)
    PROVE  Inv'
  BY <1>EvictForcedStep, <1>ReleaseRangeStep, <1>EvictStep, Zenon DEF EvictForced
\* A step that goes on in the same call, holding no lock before it and none after it.
<1>GotoStep.
    ASSUME NEW t \in Thread, NEW new, Inv, at(t) # "spans", in(t) # "program", UNCHANGED lock,
           DOMAIN new = CallFields, new.at # "shrink", Goto(t, new)
    PROVE  Inv'
  <2> USE <1>GotoStep
  <2>1. Others(t) /\ call'[t] = new /\ op' = op
    BY GotoIsLocal, Zenon DEF Inv
  <2>2. Calm(t)
    BY <2>1, Zenon DEF Calm, in
  <2> QED
    BY <2>2, CalmStep, Zenon
<1>ReturnStep.
    ASSUME NEW t \in Thread, NEW S, Inv, at(t) # "spans", UNCHANGED lock, Returns(t, S)
    PROVE  Inv'
  BY <1>ReturnStep, ReturnsIsCalm, CalmStep, Zenon DEF Inv
<1> SUFFICES ASSUME NEW t \in Thread, Inv, CentralStep(t)
             PROVE  Inv'
  OBVIOUS
<1>0. /\ DOMAIN call[t] = CallFields
      /\ at(t) # "idle" => in(t) # "program"
  BY Zenon DEF Inv, Shape
<1>1. CASE RemoveRange_slot(t)
  BY <1>1, <1>ReturnStep, Zenon DEF RemoveRange_slot
<1>2. CASE RemoveRange(t)
  <2>1. at(t) = "remove" /\ UNCHANGED lock
    BY <1>2, Zenon DEF RemoveRange
  <2>2. \/ Goto(t, [call[t] EXCEPT !.at = "populate"])
        \/ \E S : Returns(t, S)
    BY <1>2, Zenon DEF RemoveRange, Fetch
  <2>3. CASE Goto(t, [call[t] EXCEPT !.at = "populate"])
    <3> DEFINE new == [call[t] EXCEPT !.at = "populate"]
    <3>1. DOMAIN new = CallFields /\ new.at # "shrink"
      BY <1>0, Zenon DEF CallFields
    <3> HIDE DEF new
    <3> QED
      BY <1>0, <2>1, <2>3, <3>1, <1>GotoStep, Zenon DEF new
  <2> QED
    BY <2>1, <2>2, <2>3, <1>ReturnStep, Zenon
<1>3. CASE Populate(t)
  <2>1. at(t) = "populate" /\ UNCHANGED lock
    BY <1>3, Zenon DEF Populate
  <2>2. \E new : DOMAIN new = CallFields /\ new.at = "populated" /\ Goto(t, new)
    <3>1. CASE Goto(t, [call[t] EXCEPT !.at = "populated"])
      <4> DEFINE new == [call[t] EXCEPT !.at = "populated"]
      <4>1. DOMAIN new = CallFields /\ new.at = "populated"
        BY <1>0, Zenon DEF CallFields
      <4> QED
        BY <3>1, <4>1, Zenon
    <3>2. ASSUME NEW s \in Span, Goto(t, [call[t] EXCEPT !.at = "populated", !.span = s])
          PROVE  \E new : DOMAIN new = CallFields /\ new.at = "populated" /\ Goto(t, new)
      <4> DEFINE new == [call[t] EXCEPT !.at = "populated", !.span = s]
      <4>1. DOMAIN new = CallFields /\ new.at = "populated"
        BY <1>0, Zenon DEF CallFields
      <4> QED
        BY <3>2, <4>1, Zenon
    <3> QED
      BY <1>3, <3>1, <3>2, Zenon DEF Populate
  <2> QED
    BY <1>0, <2>1, <2>2, <1>GotoStep, Zenon
<1>4. CASE Populated(t)
  <2>1. at(t) = "populated" /\ UNCHANGED lock /\ \E S : Returns(t, S)
    BY <1>4, Zenon DEF Populated, Fetch
  <2> QED
    BY <2>1, <1>ReturnStep, Zenon
<1>5. ASSUME NEW o \in call[t].list, ReleaseToSpans(t, o)
      PROVE  Inv'
  <2> DEFINE last == refcount[o[1]] = 1
             new == [call[t] EXCEPT !.list = @ \ {o}, !.at = IF last THEN "delete" ELSE @,
                                    !.span = IF last THEN o[1] ELSE None]
  <2>1. /\ DOMAIN new = CallFields /\ new.at = IF last THEN "delete" ELSE call[t].at
        /\ new.victim = call[t].victim /\ new.cl = call[t].cl
    BY <1>0, Zenon DEF CallFields
  <2>2. /\ at(t) = "spans" /\ lock[Releasing(t)] \in {t, None}
        /\ lock' = [lock EXCEPT ![Releasing(t)] = IF last THEN None ELSE t]
        /\ Goto(t, new)
    BY <1>5, Zenon DEF ReleaseToSpans
  <2> HIDE DEF new, last
  <2>3. Others(t) /\ call'[t] = new /\ op' = op
    BY <2>1, <2>2, GotoIsLocal, Zenon DEF Inv
  <2> QED
    BY <1>0, <2>1, <2>2, <2>3, NoneAssumption DEF Inv, Shape, NoHoldAndWait, Others, in, at, Releasing
<1>6. CASE Delete(t)
  <2> DEFINE new == [call[t] EXCEPT !.at = "spans", !.span = None]
  <2>1. DOMAIN new = CallFields /\ new.at = "spans"
    BY <1>0, Zenon DEF CallFields
  <2>2. at(t) = "delete" /\ UNCHANGED lock /\ Goto(t, new)
    BY <1>6, Zenon DEF Delete
  <2> HIDE DEF new
  <2> QED
    BY <1>0, <2>1, <2>2, <1>GotoStep, Zenon
<1>7. CASE Released(t)
  <2>1. /\ at(t) = "spans" /\ lock[Releasing(t)] \in {t, None}
        /\ lock' = [lock EXCEPT ![Releasing(t)] = None]
    BY <1>7, Zenon DEF Released
  <2>2. Calm(t)
    <3> DEFINE new == [call[t] EXCEPT !.at = "shrunk", !.victim = None, !.ok = TRUE]
    <3>1. DOMAIN new = CallFields /\ new.at = "shrunk"
      BY <1>0, Zenon DEF CallFields
    <3>2. Returns(t, {}) \/ Goto(t, new)
      BY <1>7, Zenon DEF Released
    <3> HIDE DEF new
    <3>3. CASE Goto(t, new)
      BY <1>0, <2>1, <3>1, <3>3, GotoIsLocal, Zenon DEF Inv, Calm, in
    <3> QED
      BY <3>2, <3>3, ReturnsIsCalm, Zenon DEF Inv
  <2> QED
    BY <1>0, <2>1, <2>2, NoneAssumption
    DEF Inv, Shape, NoHoldAndWait, Calm, Others, in, at, Releasing
<1>8. CASE InsertRange(t)
  BY <1>0, <1>8, <1>ReturnStep, <1>ReleaseRangeStep, <1>EvictStep, <1>EvictForcedStep, Zenon DEF InsertRange
<1>9. CASE ShrinkCache(t)
  <2> DEFINE v == call[t].victim
             ok(b) == [call[t] EXCEPT !.at = "shrunk", !.victim = None, !.ok = b]
             taking == [call[t] EXCEPT !.at = "spans", !.list = tc_slots[v][used_slots(v)]]
  <2>1. /\ \A b : DOMAIN ok(b) = CallFields /\ ok(b).at = "shrunk"
        /\ DOMAIN taking = CallFields /\ taking.at = "spans" /\ taking.victim = v
    BY <1>0, Zenon DEF CallFields
  <2>2. at(t) = "shrink" /\ v # None
    BY <1>9, Zenon DEF ShrinkCache, Inv
  <2>3. \/ UNCHANGED lock /\ (Goto(t, ok(FALSE)) \/ Goto(t, ok(TRUE)))
        \/ lock' = [lock EXCEPT ![v] = t] /\ Goto(t, taking)
    BY <1>9, Zenon DEF ShrinkCache, slots
  <2> HIDE DEF ok, taking
  <2>4. CASE UNCHANGED lock /\ (Goto(t, ok(FALSE)) \/ Goto(t, ok(TRUE)))
    BY <1>0, <2>1, <2>2, <2>4, <1>GotoStep, Zenon
  <2>5. CASE lock' = [lock EXCEPT ![v] = t] /\ Goto(t, taking)
    <3>1. Others(t) /\ call'[t] = taking /\ op' = op
      BY <2>1, <2>5, GotoIsLocal, Zenon DEF Inv
    <3> QED
      BY <1>0, <2>1, <2>2, <2>5, <3>1 DEF Inv, Shape, NoHoldAndWait, Others, in, at, Releasing
  <2> QED
    BY <2>3, <2>4, <2>5, Zenon
<1>10. CASE Shrunk(t)
  BY <1>0, <1>10, <1>ReturnStep, <1>ReleaseRangeStep, <1>EvictForcedStep, Zenon DEF Shrunk
<1> QED
  BY <1>1, <1>2, <1>3, <1>4, <1>5, <1>6, <1>7, <1>8, <1>9, <1>10, Zenon DEF CentralStep

\* ReleaseToCentralCache, from a thread that is in no call, begins one.
LEMMA ReleaseIsCalm ==
  ASSUME NEW t \in Thread, NEW why, NEW c, NEW L, NEW N, NEW todo, NEW clear, Shape,
         why # "program", ReleaseToCentralCache(t, why, c, L, N, todo, clear)
  PROVE  Calm(t)
<1>1. /\ DOMAIN op' = Thread /\ op'[t].in = why /\ DOMAIN op'[t] = OpFields
      /\ \A u \in Thread \ {t} : op'[u] = op[u]
  BY Zenon DEF ReleaseToCentralCache, Shape, OpFields
<1>2. \E S : InsertRange_call(t, c, S)
  BY Zenon DEF ReleaseToCentralCache, NextRange
<1> QED
  BY <1>1, <1>2 DEF InsertRange_call, Calm, Others, Shape, Idle, CallFields

\* The steps of a thread that is in no call.
LEMMA CacheStepKeeps ==
  ASSUME NEW t \in Thread, Inv, UNCHANGED lock, CacheStep(t) \/ Ask(t)
  PROVE  Inv'
<1>1. in(t) = "program" => at(t) = "idle"
  BY Zenon DEF Inv
<1>2. Shape
  BY Zenon DEF Inv
<1>3. CASE Scavenge(t)
  BY <1>2, <1>3, ReleaseIsCalm, CalmStep, Zenon DEF Scavenge
<1>4. CASE IncreaseCacheLimit(t)
  <2>1. Calm(t)
    BY <1>2, <1>4, Zenon DEF IncreaseCacheLimit, Calm, Others, Shape, Working, OpFields, at
  <2> QED
    BY <1>4, <2>1, CalmStep, Zenon DEF IncreaseCacheLimit
<1>5. CASE DestroyThreadCache(t)
  <2>1. CASE Cleanup(t)
    BY <1>2, <2>1, ReleaseIsCalm, CalmStep, Zenon DEF Cleanup
  <2>2. CASE DeleteCache(t)
    <3>1. Calm(t)
      BY <1>2, <2>2, Zenon DEF DeleteCache, Calm, Others, Shape, Working, OpFields, at
    <3> QED
      BY <2>2, <3>1, CalmStep, Zenon DEF DeleteCache
  <2> QED
    BY <1>5, <2>1, <2>2, Zenon DEF DestroyThreadCache
<1>6. CASE CreateCacheIfNecessary(t)
  <2>1. Calm(t) /\ at(t) = "idle"
    BY <1>1, <1>2, <1>6, Zenon DEF CreateCacheIfNecessary, Calm, Others, Shape, at, in
  <2> QED
    BY <2>1, CalmStep, Zenon
<1>7. ASSUME NEW c \in Class, Allocate(t, c)
      PROVE  Inv'
  <2>1. at(t) = "idle"
    BY <1>1, <1>7, Zenon DEF Allocate
  <2>2. \/ UNCHANGED <<call, op>>
        \/ /\ \E n : RemoveRange_call(t, c, n)
           /\ op' = [op EXCEPT ![t].in = "fetch", ![t].cl = c]
    BY <1>7, Zenon DEF Allocate
  <2>3. ASSUME UNCHANGED <<call, op>> PROVE Calm(t)
    BY <1>1, <1>2, <2>1, <2>3, Zenon DEF Calm, Others, Shape, at
  <2>4. ASSUME NEW n, RemoveRange_call(t, c, n), op' = [op EXCEPT ![t].in = "fetch", ![t].cl = c]
        PROVE  Calm(t)
    <3>1. /\ DOMAIN op' = Thread /\ op'[t].in = "fetch" /\ DOMAIN op'[t] = OpFields
          /\ \A u \in Thread \ {t} : op'[u] = op[u]
      BY <1>2, <2>4, Zenon DEF Shape, OpFields
    <3> QED
      BY <1>2, <2>4, <3>1, Zenon DEF RemoveRange_call, Calm, Others, Shape, Idle, CallFields
  <2> QED
    BY <2>1, <2>2, <2>3, <2>4, CalmStep, Zenon
<1>8. ASSUME NEW o \in program, Deallocate(t, sizeclass[o[1]], o)
      PROVE  Inv'
  <2> DEFINE c == sizeclass[o[1]]
             L == list[t][c] \cup {o}
  <2>1. at(t) = "idle"
    BY <1>1, <1>8, Zenon DEF Deallocate
  <2>2. \/ ReleaseToCentralCache(t, "toolong", c, L, num_objects_to_move[c], {}, {})
        \/ UNCHANGED call /\ \E w \in {Scavenging, Working} : op' = [op EXCEPT ![t] = w]
    BY <1>8, Zenon DEF Deallocate
  <2>3. ASSUME UNCHANGED call, \E w \in {Scavenging, Working} : op' = [op EXCEPT ![t] = w]
        PROVE  Calm(t)
    <3>1. DOMAIN Scavenging = OpFields /\ DOMAIN Working = OpFields
      BY Zenon DEF Scavenging, Working, OpFields
    <3> QED
      BY <1>2, <2>1, <2>3, <3>1, Zenon DEF Calm, Others, Shape, at
  <2>4. Calm(t)
    BY <1>2, <2>2, <2>3, ReleaseIsCalm, Zenon
  <2> QED
    BY <2>1, <2>4, CalmStep, Zenon
<1>9. ASSUME NEW o \in program, FreeWithoutCache(t, sizeclass[o[1]], o)
      PROVE  Inv'
  <2>1. Calm(t) /\ at(t) = "idle"
    BY <1>1, <1>2, <1>9, Zenon DEF FreeWithoutCache, InsertRange_call, Calm, Others, Shape, Idle, Working,
       CallFields, OpFields, at, in
  <2> QED
    BY <2>1, CalmStep, Zenon
<1> QED
  BY <1>3, <1>4, <1>5, <1>6, <1>7, <1>8, <1>9, Zenon DEF CacheStep, Ask

LEMMA InitInv == Init => Inv
BY NoneAssumption DEF Init, CacheInit, Inv, Shape, NoHoldAndWait, Idle, Working, CallFields, OpFields,
   in, at

LEMMA StepInv == Inv /\ [Next]_vars => Inv'
<1> SUFFICES ASSUME Inv, [Next]_vars PROVE Inv'
  OBVIOUS
<1>1. ASSUME NEW t \in Thread, Step(t) PROVE Inv'
  BY <1>1, CentralStepKeeps, CacheStepKeeps, Zenon DEF Step, central
<1>2. ASSUME NEW t \in Thread, Ask(t) PROVE Inv'
  BY <1>2, CacheStepKeeps, Zenon DEF Ask, central
<1>3. CASE UNCHANGED vars
  BY <1>3, Zenon DEF vars, central, Inv, Shape, NoHoldAndWait, Releasing, in, at
<1> QED
  BY <1>1, <1>2, <1>3, Zenon DEF Next

\* The comment of ShrinkCache holds for any threads and classes: no thread waits for the
\* lock of a size class while it holds that of another.
THEOREM NoHoldAndWaitHolds == Spec => []NoHoldAndWait
<1>1. Inv => NoHoldAndWait
  BY Zenon DEF Inv
<1> QED
  BY <1>1, InitInv, StepInv, PTL DEF Spec

(***************************************************************************)
(* Where a thread can be in a call, and what the call then has.            *)
(***************************************************************************)
Fetching == {"remove", "populate", "populated"}

CallOK(t) ==
  /\ at(t) \in {"idle", "insert", "shrink", "shrunk", "spans", "delete"} \cup Fetching
  /\ at(t) # "idle" => call[t].cl \in Class /\ op[t].cl = call[t].cl
  /\ call[t].victim \in Class \cup {None} /\ op[t].todo \subseteq Class
  /\ at(t) \notin {"shrink", "spans", "delete"} => call[t].victim = None
  /\ at(t) = "shrink" => call[t].victim # None
  /\ at(t) \notin {"spans", "delete"} => call[t].list = {}
  /\ call[t].range # {} => at(t) \in {"insert", "shrink", "shrunk"} \/ call[t].victim # None
  /\ at(t) \notin {"delete", "populated"} => call[t].span = None
  /\ in(t) = "fetch" <=> at(t) \in Fetching

Calls == \A t \in Thread : CallOK(t)

LEMMA OwnCall ==
  ASSUME NEW t \in Thread, Calls, Others(t), CallOK(t)'
  PROVE  Calls'
BY DEF Calls, Others, CallOK, at, in

LEMMA CentralCall ==
  \A t \in Thread :
    Shape /\ CallOK(t) /\ CentralStep(t) => CallOK(t)'
\* Back from the central free list, or on to the next range.
<1>ReturnsCall.
    ASSUME Shape, NEW t \in Thread, CallOK(t), at(t) # "idle", NEW S, Returns(t, S)
    PROVE  CallOK(t)'
  <2> USE <1>ReturnsCall
  <2> USE DEF Shape, CallOK, at, in, Fetching
  <2>1. CASE Fetched(t, S)
    BY <2>1, Zenon DEF Fetched, Idle, Working
  <2>2. CASE ReleaseMore(t)
    <3>1. /\ op'[t].in = op[t].in /\ op'[t].cl = op[t].cl /\ op'[t].todo = op[t].todo
          /\ op[t].in # "fetch"
      BY <2>2, Zenon DEF ReleaseMore, OpFields
    <3>2. PICK R : InsertRange_call(t, op[t].cl, R)
      BY <2>2, Zenon DEF ReleaseMore, NextRange
    <3>. QED
      BY <3>1, <3>2, Zenon DEF InsertRange_call, Idle
  <2>3. CASE FreedWithoutCache(t)
    BY <2>3, Zenon DEF FreedWithoutCache, Inserted, Idle, Working
  <2>4. CASE ListTooLong(t)
    BY <2>4, Zenon DEF ListTooLong, Inserted, Scavenging, Idle, Working
  <2>5. CASE Scavenged(t)
    BY <2>5, Zenon DEF Scavenged, Inserted, Idle, Working
  <2>6. CASE CleanedUp(t)
    BY <2>6, Zenon DEF CleanedUp, Inserted, Idle, Working
  <2> QED
    BY <2>1, <2>2, <2>3, <2>4, <2>5, <2>6, Zenon DEF Returns
\* A call that goes on.
<1>GotoCall.
    ASSUME Shape, NEW t \in Thread, NEW new, DOMAIN new = CallFields, Goto(t, new)
    PROVE  call'[t] = new /\ op'[t] = op[t]
  BY <1>GotoCall, Zenon DEF Goto, Shape
<1>ReleaseRangeCall.
    ASSUME Shape, NEW t \in Thread, CallOK(t), at(t) \notin Fetching \cup {"idle"}, ReleaseRange(t)
    PROVE  CallOK(t)'
  <2> USE <1>ReleaseRangeCall
  <2> DEFINE new == [Idle EXCEPT !.at = "spans", !.cl = call[t].cl, !.list = call[t].range]
  <2>1. /\ DOMAIN new = CallFields /\ new.at = "spans" /\ new.victim = None /\ new.cl = call[t].cl
        /\ new.range = {} /\ new.span = None
    BY Zenon DEF Idle, CallFields
  <2>2. call'[t] = new /\ op'[t] = op[t]
    BY <2>1, <1>GotoCall, Zenon DEF ReleaseRange
  <2> HIDE DEF new
  <2> QED
    BY <2>1, <2>2, Zenon DEF CallOK, at, in, Fetching
<1>EvictCall.
    ASSUME Shape, NEW t \in Thread, CallOK(t), at(t) \in {"insert", "shrunk"},
           NEW v \in Class, NEW force, Evict(t, v, force)
    PROVE  CallOK(t)'
  <2> USE <1>EvictCall
  <2> DEFINE new == [call[t] EXCEPT !.at = "shrink", !.victim = v, !.force = force]
  <2>1. /\ DOMAIN new = CallFields /\ new.at = "shrink" /\ new.victim = v /\ new.cl = call[t].cl
        /\ new.range = call[t].range /\ new.list = call[t].list /\ new.span = call[t].span
    BY Zenon DEF Shape, CallFields
  <2>2. call'[t] = new /\ op'[t] = op[t]
    BY <2>1, <1>GotoCall, Zenon DEF Evict
  <2> HIDE DEF new
  <2> QED
    BY <2>1, <2>2, NoneAssumption, Zenon DEF CallOK, at, in, Fetching
<1>EvictForcedCall.
    ASSUME Shape, NEW t \in Thread, CallOK(t), at(t) \in {"insert", "shrunk"}, EvictForced(t)
    PROVE  CallOK(t)'
  BY <1>EvictForcedCall, <1>ReleaseRangeCall, <1>EvictCall, Zenon DEF EvictForced, Fetching
<1> SUFFICES ASSUME Shape, NEW t \in Thread, CallOK(t), CentralStep(t)
             PROVE  CallOK(t)'
  OBVIOUS
<1>0. DOMAIN call[t] = CallFields
  BY Zenon DEF Shape
<1>1. CASE RemoveRange_slot(t)
  BY <1>1, <1>ReturnsCall, Zenon DEF RemoveRange_slot
<1>2. CASE RemoveRange(t)
  <2> DEFINE new == [call[t] EXCEPT !.at = "populate"]
  <2>1. /\ at(t) = "remove" /\ DOMAIN new = CallFields /\ new.at = "populate"
        /\ \A f \in CallFields \ {"at"} : new[f] = call[t][f]
    BY <1>0, <1>2, Zenon DEF RemoveRange, CallFields
  <2>2. Goto(t, new) \/ \E S : Returns(t, S)
    BY <1>2, Zenon DEF RemoveRange, Fetch
  <2> HIDE DEF new
  <2>3. CASE Goto(t, new)
    BY <2>1, <2>3, <1>GotoCall DEF CallOK, at, in, Fetching, CallFields
  <2> QED
    BY <2>1, <2>2, <2>3, <1>ReturnsCall, Zenon
<1>3. CASE Populate(t)
  <2> DEFINE new(s) == [call[t] EXCEPT !.at = "populated", !.span = s]
             none   == [call[t] EXCEPT !.at = "populated"]
  <2>1. /\ at(t) = "populate" /\ DOMAIN none = CallFields /\ none.at = "populated"
        /\ \A f \in CallFields \ {"at"} : none[f] = call[t][f]
    BY <1>0, <1>3, Zenon DEF Populate, CallFields
  <2>2. ASSUME NEW s
        PROVE  /\ DOMAIN new(s) = CallFields /\ new(s).at = "populated"
               /\ \A f \in CallFields \ {"at", "span"} : new(s)[f] = call[t][f]
    BY <1>0, Zenon DEF CallFields
  <2>3. Goto(t, none) \/ \E s : Goto(t, new(s))
    BY <1>3, Zenon DEF Populate
  <2> HIDE DEF new, none
  <2>4. CASE Goto(t, none)
    BY <2>1, <2>4, <1>GotoCall DEF CallOK, at, in, Fetching, CallFields
  <2>5. ASSUME NEW s, Goto(t, new(s)) PROVE CallOK(t)'
    <3>1. call'[t] = new(s) /\ op'[t] = op[t]
      BY <2>2, <2>5, <1>GotoCall, Zenon
    <3> QED
      BY <2>1, <2>2, <3>1 DEF CallOK, at, in, Fetching, CallFields
  <2> QED
    BY <2>3, <2>4, <2>5, Zenon
<1>4. CASE Populated(t)
  <2>1. at(t) = "populated" /\ \E S : Returns(t, S)
    BY <1>4, Zenon DEF Populated, Fetch
  <2> QED
    BY <2>1, <1>ReturnsCall, Zenon
<1>5. ASSUME NEW o \in call[t].list, ReleaseToSpans(t, o)
      PROVE  CallOK(t)'
  <2> DEFINE last == refcount[o[1]] = 1
             new == [call[t] EXCEPT !.list = @ \ {o}, !.at = IF last THEN "delete" ELSE @,
                                    !.span = IF last THEN o[1] ELSE None]
  <2>1. /\ DOMAIN new = CallFields /\ new.at = (IF last THEN "delete" ELSE call[t].at)
        /\ new.span = (IF last THEN o[1] ELSE None)
        /\ \A f \in {"cl", "victim", "range"} : new[f] = call[t][f]
    BY <1>0, Zenon DEF CallFields
  <2>2. at(t) = "spans" /\ Goto(t, new)
    BY <1>5, Zenon DEF ReleaseToSpans
  <2> HIDE DEF new, last
  <2>3. call'[t] = new /\ op'[t] = op[t]
    BY <2>1, <2>2, <1>GotoCall, Zenon
  <2> QED
    BY <2>1, <2>2, <2>3, Zenon DEF CallOK, at, in, Fetching
<1>6. CASE Delete(t)
  <2> DEFINE new == [call[t] EXCEPT !.at = "spans", !.span = None]
  <2>1. /\ DOMAIN new = CallFields /\ new.at = "spans" /\ new.span = None
        /\ \A f \in {"cl", "victim", "range", "list"} : new[f] = call[t][f]
    BY <1>0, Zenon DEF CallFields
  <2>2. at(t) = "delete" /\ Goto(t, new)
    BY <1>6, Zenon DEF Delete
  <2> HIDE DEF new
  <2>3. call'[t] = new /\ op'[t] = op[t]
    BY <2>1, <2>2, <1>GotoCall, Zenon
  <2> QED
    BY <2>1, <2>2, <2>3, Zenon DEF CallOK, at, in, Fetching
<1>7. CASE Released(t)
  <2> DEFINE new == [call[t] EXCEPT !.at = "shrunk", !.victim = None, !.ok = TRUE]
  <2>1. /\ DOMAIN new = CallFields /\ new.at = "shrunk" /\ new.victim = None
        /\ \A f \in {"cl", "span", "range", "list"} : new[f] = call[t][f]
    BY <1>0, Zenon DEF CallFields
  <2>2. at(t) = "spans" /\ call[t].list = {} /\ (Returns(t, {}) \/ Goto(t, new))
    BY <1>7, Zenon DEF Released
  <2> HIDE DEF new
  <2>3. CASE Goto(t, new)
    <3>1. call'[t] = new /\ op'[t] = op[t]
      BY <2>1, <2>3, <1>GotoCall, Zenon
    <3> QED
      BY <2>1, <2>2, <3>1, Zenon DEF CallOK, at, in, Fetching
  <2> QED
    BY <2>2, <2>3, <1>ReturnsCall, Zenon
<1>8. CASE InsertRange(t)
  BY <1>8, <1>ReturnsCall, <1>ReleaseRangeCall, <1>EvictCall, <1>EvictForcedCall, Zenon DEF InsertRange, Fetching
<1>9. CASE ShrinkCache(t)
  <2> DEFINE v == call[t].victim
             ok(b) == [call[t] EXCEPT !.at = "shrunk", !.victim = None, !.ok = b]
             taking == [call[t] EXCEPT !.at = "spans", !.list = tc_slots[v][used_slots(v)]]
  <2>1. ASSUME NEW b
        PROVE  /\ DOMAIN ok(b) = CallFields /\ ok(b).at = "shrunk" /\ ok(b).victim = None
               /\ \A f \in {"cl", "span", "range", "list"} : ok(b)[f] = call[t][f]
    BY <1>0, Zenon DEF CallFields
  <2>2. /\ DOMAIN taking = CallFields /\ taking.at = "spans"
        /\ \A f \in {"cl", "span", "range", "victim"} : taking[f] = call[t][f]
    BY <1>0, Zenon DEF CallFields
  <2>3. at(t) = "shrink" /\ (Goto(t, ok(FALSE)) \/ Goto(t, ok(TRUE)) \/ Goto(t, taking))
    BY <1>9, Zenon DEF ShrinkCache
  <2> HIDE DEF ok, taking
  <2>4. ASSUME NEW b, Goto(t, ok(b)) PROVE CallOK(t)'
    <3>1. call'[t] = ok(b) /\ op'[t] = op[t]
      BY <2>1, <2>4, <1>GotoCall, Zenon
    <3> QED
      BY <2>1, <2>3, <3>1 DEF CallOK, at, in, Fetching
  <2>5. CASE Goto(t, taking)
    <3>1. call'[t] = taking /\ op'[t] = op[t]
      BY <2>2, <2>5, <1>GotoCall, Zenon
    <3> QED
      BY <2>2, <2>3, <3>1, Zenon DEF CallOK, at, in, Fetching
  <2> QED
    BY <2>3, <2>4, <2>5, Zenon
<1>10. CASE Shrunk(t)
  BY <1>10, <1>ReturnsCall, <1>ReleaseRangeCall, <1>EvictForcedCall, Zenon DEF Shrunk, Fetching
<1> QED
  BY <1>1, <1>2, <1>3, <1>4, <1>5, <1>6, <1>7, <1>8, <1>9, <1>10, Zenon DEF CentralStep

LEMMA CacheCall ==
  \A t \in Thread :
    Shape /\ CallOK(t) /\ (in(t) = "program" => at(t) = "idle") /\ (CacheStep(t) \/ Ask(t))
      /\ (\A o \in program : sizeclass[o[1]] \in Class) => CallOK(t)'
<1>ReleaseCall.
    ASSUME Shape, NEW t \in Thread, NEW why, NEW c \in Class, NEW L, NEW N, NEW todo, NEW clear,
           why # "fetch", todo \subseteq Class,
           ReleaseToCentralCache(t, why, c, L, N, todo, clear)
    PROVE  CallOK(t)'
  <2> USE <1>ReleaseCall
  <2>1. op'[t].in = why /\ op'[t].cl = c /\ op'[t].todo = todo
    BY Zenon DEF ReleaseToCentralCache, Shape
  <2>2. PICK R : InsertRange_call(t, c, R)
    BY Zenon DEF ReleaseToCentralCache, NextRange
  <2> QED
    BY <2>1, <2>2, Zenon DEF InsertRange_call, Idle, Shape, CallOK, at, in, Fetching
<1> SUFFICES ASSUME Shape, NEW t \in Thread, CallOK(t), in(t) = "program" => at(t) = "idle",
                CacheStep(t) \/ Ask(t), \A o \in program : sizeclass[o[1]] \in Class
             PROVE  CallOK(t)'
  OBVIOUS
<1>1. CASE Scavenge(t)
  <2>1. PICK c \in op[t].todo :
         \E L, N, S, clear : ReleaseToCentralCache(t, "scavenge", c, L, N, op[t].todo \ S, clear)
    BY <1>1, Zenon DEF Scavenge
  <2>2. c \in Class /\ \A S : op[t].todo \ S \subseteq Class
    BY Zenon DEF CallOK
  <2> QED
    BY <2>1, <2>2, <1>ReleaseCall, Zenon
<1>2. CASE IncreaseCacheLimit(t)
  BY <1>2, Zenon DEF IncreaseCacheLimit, Working, Shape, CallOK, at, in, Fetching
<1>3. CASE Cleanup(t)
  <2>1. PICK c \in Class :
               \E L, N, clear : ReleaseToCentralCache(t, "cleanup", c, L, N, {}, clear)
    BY <1>3, Zenon DEF Cleanup
  <2> QED
    BY <2>1, <1>ReleaseCall
<1>4. CASE DeleteCache(t)
  BY <1>4, Zenon DEF DeleteCache, Working, Shape, CallOK, at, in, Fetching
<1>5. CASE CreateCacheIfNecessary(t)
  BY <1>5, Zenon DEF CreateCacheIfNecessary, CallOK, at, in
<1>6. ASSUME NEW c \in Class, Allocate(t, c) PROVE CallOK(t)'
  <2>1. CASE UNCHANGED <<call, op>>
    BY <2>1, Zenon DEF CallOK, at, in
  <2>2. ASSUME NEW n, RemoveRange_call(t, c, n), op' = [op EXCEPT ![t].in = "fetch", ![t].cl = c]
        PROVE  CallOK(t)'
    <3>1. op'[t].in = "fetch" /\ op'[t].cl = c /\ op'[t].todo = op[t].todo
      BY <2>2, Zenon DEF Shape, OpFields
    <3> QED
      BY <2>2, <3>1, Zenon DEF RemoveRange_call, Idle, Shape, CallOK, at, in, Fetching
  <2> QED
    BY <1>6, <2>1, <2>2, Zenon DEF Allocate
<1>7. ASSUME NEW o \in program, Deallocate(t, sizeclass[o[1]], o) PROVE CallOK(t)'
  <2> DEFINE c == sizeclass[o[1]]
             L == list[t][c] \cup {o}
  <2>1. at(t) = "idle"
    BY <1>7, Zenon DEF Deallocate
  <2>2. \/ ReleaseToCentralCache(t, "toolong", c, L, num_objects_to_move[c], {}, {})
        \/ UNCHANGED call /\ \E w \in {Scavenging, Working} : op' = [op EXCEPT ![t] = w]
    BY <1>7, Zenon DEF Deallocate
  <2>3. ASSUME UNCHANGED call, \E w \in {Scavenging, Working} : op' = [op EXCEPT ![t] = w]
        PROVE  CallOK(t)'
    <3>1. PICK w \in {Scavenging, Working} : op' = [op EXCEPT ![t] = w]
      BY <2>3, Zenon
    <3>2. op'[t] = w
      BY <3>1, Zenon DEF Shape
    <3>4. /\ Scavenging.in = "scavenge" /\ Scavenging.todo = Class
          /\ Working.in = "program" /\ Working.todo = {}
      BY Zenon DEF Scavenging, Working
    <3>3. call'[t] = call[t] /\ op'[t].in # "fetch" /\ op'[t].todo \subseteq Class
      BY <2>3, <3>2, <3>4, Zenon
    <3> QED
      BY <2>1, <3>3, Zenon DEF CallOK, at, in, Fetching
  <2>4. sizeclass[o[1]] \in Class
    OBVIOUS
  <2> QED
    BY <2>2, <2>3, <2>4, <1>ReleaseCall
<1>8. ASSUME NEW o \in program, FreeWithoutCache(t, sizeclass[o[1]], o) PROVE CallOK(t)'
  BY <1>8, Zenon DEF FreeWithoutCache, InsertRange_call, Idle, Working, Shape, CallOK, at, in, Fetching
<1> QED
  BY <1>1, <1>2, <1>3, <1>4, <1>5, <1>6, <1>7, <1>8, Zenon DEF CacheStep, Ask, DestroyThreadCache

\* A step of thread t changes no call and no work but its own.
LEMMA CentralOthers ==
  ASSUME Shape, Shape', NEW t \in Thread, CentralStep(t)
  PROVE  Others(t)
<1>1. ASSUME NEW S, Returns(t, S) PROVE Others(t)
  BY <1>1, ReturnsIsCalm, Zenon DEF Calm
<1>2. ASSUME NEW new, Goto(t, new) PROVE Others(t)
  BY <1>2, Zenon DEF Goto, Others, Shape
<1>3. CASE RemoveRange_slot(t)
  BY <1>1, <1>3, Zenon DEF RemoveRange_slot
<1>4. CASE RemoveRange(t) \/ Populated(t)
  BY <1>1, <1>2, <1>4, Zenon DEF RemoveRange, Populated, Fetch
<1>5. CASE Populate(t)
  BY <1>2, <1>5, Zenon DEF Populate
<1>6. ASSUME NEW o, ReleaseToSpans(t, o) PROVE Others(t)
  BY <1>2, <1>6, Zenon DEF ReleaseToSpans
<1>7. CASE Delete(t)
  BY <1>2, <1>7, Zenon DEF Delete
<1>8. CASE Released(t)
  BY <1>1, <1>2, <1>8, Zenon DEF Released
<1>9. CASE InsertRange(t) \/ Shrunk(t)
  <2>1. ASSUME ReleaseRange(t) PROVE Others(t)
    BY <1>2, <2>1, Zenon DEF ReleaseRange
  <2>2. ASSUME NEW v, NEW b, Evict(t, v, b) PROVE Others(t)
    BY <1>2, <2>2, Zenon DEF Evict
  <2>3. ASSUME EvictForced(t) PROVE Others(t)
    BY <2>1, <2>2, <2>3, Zenon DEF EvictForced
  <2> QED
    BY <1>1, <1>9, <2>1, <2>2, <2>3, Zenon DEF InsertRange, Shrunk
<1>10. CASE ShrinkCache(t)
  BY <1>2, <1>10, Zenon DEF ShrinkCache
<1> QED
  BY <1>3, <1>4, <1>5, <1>6, <1>7, <1>8, <1>9, <1>10, Zenon DEF CentralStep

LEMMA CacheOthers ==
  ASSUME Shape, Shape', NEW t \in Thread, CacheStep(t) \/ Ask(t)
  PROVE  Others(t)
<1>1. ASSUME NEW why, NEW c, NEW L, NEW N, NEW todo, NEW clear,
             ReleaseToCentralCache(t, why, c, L, N, todo, clear)
      PROVE  Others(t)
  BY <1>1, Zenon DEF ReleaseToCentralCache, NextRange, InsertRange_call, Others, Shape
<1>2. ASSUME call' = call \/ (\E e : call' = [call EXCEPT ![t] = e]),
             op' = op \/ (\E e : op' = [op EXCEPT ![t] = e])
      PROVE  Others(t)
  BY <1>2, Zenon DEF Others, Shape
<1>3. CASE Scavenge(t) \/ Cleanup(t)
  BY <1>1, <1>3, Zenon DEF Scavenge, Cleanup
<1>4. CASE IncreaseCacheLimit(t) \/ DeleteCache(t) \/ CreateCacheIfNecessary(t)
  BY <1>2, <1>4, Zenon DEF IncreaseCacheLimit, DeleteCache, CreateCacheIfNecessary
<1>5. ASSUME NEW c, Allocate(t, c) PROVE Others(t)
  BY <1>5, Zenon DEF Allocate, RemoveRange_call, Others, Shape
<1>6. ASSUME NEW c, NEW o, Deallocate(t, c, o) PROVE Others(t)
  BY <1>1, <1>2, <1>6, Zenon DEF Deallocate
<1>7. ASSUME NEW c, NEW o, FreeWithoutCache(t, c, o) PROVE Others(t)
  BY <1>2, <1>7, Zenon DEF FreeWithoutCache, InsertRange_call
<1> QED
  BY <1>3, <1>4, <1>5, <1>6, <1>7, Zenon DEF CacheStep, Ask, DestroyThreadCache

(***************************************************************************)
(* Where an object is.                                                     *)
(***************************************************************************)
Loc(o, k, x, y) ==
  \/ k = "program" /\ x = None /\ y = None /\ o \in program
  \/ k = "span" /\ x \in Span /\ y = None /\ o \in objects[x]
  \/ k = "cache" /\ x \in Thread /\ y \in Class /\ o \in list[x][y]
  \/ k = "range" /\ x \in Thread /\ y = None /\ o \in call[x].range
  \/ k = "list" /\ x \in Thread /\ y = None /\ o \in call[x].list
  \/ k = "slot" /\ x \in Class /\ y \in DOMAIN tc_slots[x] /\ o \in tc_slots[x][y]

Located(o) == \E k, x, y : Loc(o, k, x, y)

Home(o) ==
  /\ o[1] \in Span /\ sizeclass[o[1]] \in Class
  /\ o \in ObjectsOf(o[1], sizeclass[o[1]])

\* Everyone who has an object has one of the class that they take it for.
Fit(o, k, x, y) ==
  /\ k = "span" => x = o[1]
  /\ k = "cache" => y = sizeclass[o[1]]
  /\ k = "range" => call[x].cl = sizeclass[o[1]]
  /\ k = "list" => Releasing(x) = sizeclass[o[1]]
  /\ k = "slot" => x = sizeclass[o[1]]

OnePlace ==
  \A o, k, x, y, l, v, w :
    Loc(o, k, x, y) /\ Loc(o, l, v, w) => k = l /\ x = v /\ y = w

RightPlace ==
  \A o, k, x, y :
    Loc(o, k, x, y) => Home(o) /\ Fit(o, k, x, y) /\ (o[1] \in Leaving => k = "span")

NoneLost ==
  \A s \in Span : sizeclass[s] \in Class /\ s \notin Leaving =>
    \A o \in ObjectsOf(s, sizeclass[s]) : Located(o)

Owned == OnePlace /\ RightPlace /\ NoneLost

\* The objects S1 go to one place and the objects S2 to another; no other one moves.
Moves(S1, k1, x1, y1, S2, k2, x2, y2) ==
  /\ sizeclass' = sizeclass /\ Leaving' = Leaving
  /\ \A o \in S1 : o \notin S2
  /\ \A o \in S1 : Loc(o, k1, x1, y1)'
  /\ \A o \in S2 : Loc(o, k2, x2, y2)'
  /\ \A o \in S1 \cup S2 : /\ o[1] \notin Leaving
                          /\ \E k, x, y : Loc(o, k, x, y) /\ ~Loc(o, k, x, y)'
  /\ \A o, k, x, y : Loc(o, k, x, y)' =>
       /\ Fit(o, k, x, y)'
       /\ \/ Loc(o, k, x, y)
          \/ o \in S1 /\ k = k1 /\ x = x1 /\ y = y1
          \/ o \in S2 /\ k = k2 /\ x = x2 /\ y = y2
  /\ \A o, k, x, y : Loc(o, k, x, y) /\ ~Loc(o, k, x, y)' => o \in S1 \cup S2

LEMMA MovesKeep ==
  ASSUME NEW S1, NEW k1, NEW x1, NEW y1, NEW S2, NEW k2, NEW x2, NEW y2, Owned,
         Moves(S1, k1, x1, y1, S2, k2, x2, y2)
  PROVE  Owned'
<1> USE DEF Moves
<1>1. OnePlace'
  <2> SUFFICES ASSUME NEW o, NEW k, NEW x, NEW y, NEW l, NEW v, NEW w,
                      Loc(o, k, x, y)', Loc(o, l, v, w)'
               PROVE  k = l /\ x = v /\ y = w
    BY Zenon DEF OnePlace
  <2>1. CASE o \notin S1 \cup S2
    <3>1. Loc(o, k, x, y) /\ Loc(o, l, v, w)
      BY <2>1, Zenon
    <3> QED
      BY <3>1, Zenon DEF Owned, OnePlace
  <2>2. CASE o \in S1 \cup S2
    <3>1. PICK a, b, c : Loc(o, a, b, c) /\ ~Loc(o, a, b, c)'
      BY <2>2, Zenon
    <3>2. ~Loc(o, k, x, y) /\ ~Loc(o, l, v, w)
      BY <3>1, Zenon DEF Owned, OnePlace
    <3>3. \/ o \in S1 /\ k = k1 /\ x = x1 /\ y = y1
          \/ o \in S2 /\ k = k2 /\ x = x2 /\ y = y2
      BY <3>2, SMT
    <3>4. \/ o \in S1 /\ l = k1 /\ v = x1 /\ w = y1
          \/ o \in S2 /\ l = k2 /\ v = x2 /\ w = y2
      BY <3>2, SMT
    <3> QED
      BY <3>3, <3>4, Zenon
  <2> QED
    BY <2>1, <2>2, Zenon
<1>2. RightPlace'
  <2> SUFFICES ASSUME NEW o, NEW k, NEW x, NEW y, Loc(o, k, x, y)'
               PROVE  Home(o)' /\ Fit(o, k, x, y)' /\ (o[1] \in Leaving' => k = "span")
    BY Zenon DEF RightPlace
  <2>1. Home(o)
    BY Zenon DEF Owned, RightPlace
  <2> QED
    BY <2>1, Zenon DEF Home, Owned, RightPlace
<1>3. NoneLost'
  <2>1. ASSUME NEW o, Located(o) PROVE Located(o)'
    BY <2>1, Zenon DEF Located
  <2> QED
    BY <2>1, Zenon DEF NoneLost, Owned
<1> QED
  BY <1>1, <1>2, <1>3, Zenon DEF Owned

\* The shapes of the tables.
HeapShape ==
  /\ DOMAIN list = Thread /\ \A t \in Thread : DOMAIN list[t] = Class
  /\ tc_slots \in [Class -> Seq(SUBSET (Span \X Nat))]
  /\ sizeclass \in [Span -> Class \cup {None}]
  /\ DOMAIN objects = Span /\ DOMAIN refcount = Span
  /\ DOMAIN nonempty = Class /\ DOMAIN empty = Class
  /\ DOMAIN num_spans = Class /\ DOMAIN counter = Class

LEMMA LeavingSame ==
  ASSUME NEW t \in Thread, Others(t), at(t) # "delete", call'[t].at # "delete"
  PROVE  Leaving' = Leaving
BY Zenon DEF Leaving, Others, at

\* No object moves.
LEMMA StillKeeps ==
  ASSUME Owned, UNCHANGED <<sizeclass, program, list, objects, tc_slots>>, Leaving' = Leaving,
         NEW t \in Thread, Others(t),
         call'[t].range = call[t].range, call'[t].list = call[t].list,
         call'[t].range # {} => call'[t].cl = call[t].cl,
         call'[t].list # {} => Releasing(t)' = Releasing(t)
  PROVE  Owned'
<1>1. \A o, k, x, y : Loc(o, k, x, y)' <=> Loc(o, k, x, y)
  BY DEF Loc, Others
<1>2. \A o, k, x, y : Loc(o, k, x, y) => Fit(o, k, x, y)
  BY Zenon DEF Owned, RightPlace
<1>3. ASSUME NEW o, NEW k, NEW x, NEW y, Loc(o, k, x, y)' PROVE Fit(o, k, x, y)'
  <2>1. Fit(o, k, x, y) /\ Loc(o, k, x, y)
    BY <1>1, <1>2, <1>3, Zenon
  <2> QED
    BY <1>3, <2>1 DEF Fit, Loc, Others, Releasing
<1>4. Moves({}, "none", None, None, {}, "none", None, None)
  BY <1>1, <1>3, Zenon DEF Moves
<1> QED
  BY <1>4, MovesKeep, Zenon

(***************************************************************************)
(* The spans of a class, and what the central free list knows of them.     *)
(***************************************************************************)
Mine(c) == {s \in Span : sizeclass[s] = c} \ (Leaving \cup Coming)

\* The spans in the hands of a thread, which has released the lock, are its own.
Holding(t) == at(t) \in {"delete", "populated"} /\ call[t].span # None

Held ==
  /\ \A t \in Thread : Holding(t) => call[t].span \in Span /\ sizeclass[call[t].span] \in Class
  /\ \A t \in Thread : at(t) = "delete" => call[t].span # None
  /\ \A t \in Thread : Holding(t) /\ at(t) = "populated" =>
       /\ sizeclass[call[t].span] = call[t].cl
       /\ objects[call[t].span] = ObjectsOf(call[t].span, call[t].cl)
  /\ \A t, u \in Thread : Holding(t) /\ Holding(u) /\ call[t].span = call[u].span => t = u

RefCounts ==
  \A s \in Span : sizeclass[s] \in Class /\ s \notin Leaving =>
    refcount[s] = Cardinality(ObjectsOf(s, sizeclass[s]) \ objects[s])

\* A list of the spans M, which have the free objects objs, is right.
Exact(M, objs, full, none, n, free) ==
  /\ full = {s \in M : objs[s] # {}} /\ none = {s \in M : objs[s] = {}}
  /\ n = Cardinality(M) /\ free = Cardinality(UNION {objs[s] : s \in M})

ListsExact(c) == Exact(Mine(c), objects, nonempty[c], empty[c], num_spans[c], counter[c])

SpansOK == Held /\ RefCounts /\ \A c \in Class : ListsExact(c)

HeapOK == HeapShape /\ Owned /\ SpansOK

\* Steps that leave the spans alone.
LEMMA SpansStill ==
  ASSUME NEW t \in Thread, Others(t), SpansOK, UNCHANGED <<spans, lists>>,
         at(t) # "delete", call'[t].at # "delete",
         at(t) = "populated" => call[t].span = None,
         call'[t].at = "populated" => call'[t].span = None
  PROVE  SpansOK' /\ Leaving' = Leaving
<1>1. Leaving' = Leaving
  BY Zenon DEF Leaving, Others, at
<1>2. Coming' = Coming
  BY DEF Coming, Others, at
<1>3. Held'
  <2>1. ASSUME NEW u \in Thread
        PROVE  (Holding(u)' <=> Holding(u)) /\ (Holding(u) => call'[u] = call[u])
    BY Zenon DEF Others, Holding, at
  <2>2. \A u \in Thread : call'[u].at = "delete" => call'[u] = call[u]
    BY Zenon DEF Others, at
  <2> QED
    BY <2>1, <2>2 DEF SpansOK, Held, spans, at
<1>4. RefCounts'
  BY <1>1, Zenon DEF SpansOK, RefCounts, spans
<1>5. \A c : Mine(c)' = Mine(c)
  BY <1>1, <1>2, Zenon DEF Mine, spans
<1>6. ASSUME NEW c \in Class PROVE ListsExact(c)'
  <2>1. /\ objects' = objects /\ nonempty' = nonempty /\ empty' = empty
        /\ num_spans' = num_spans /\ counter' = counter
    BY Zenon DEF spans, lists
  <2>2. ListsExact(c) /\ Mine(c)' = Mine(c)
    BY <1>5, Zenon DEF SpansOK
  <2> QED
    BY <2>1, <2>2, Zenon DEF ListsExact
<1> QED
  BY <1>1, <1>3, <1>4, <1>6, Zenon DEF SpansOK

\* A step at which no object moves and no span changes.
LEMMA StillStep ==
  ASSUME HeapOK, NEW t \in Thread, Others(t), UNCHANGED <<spans, lists, program, list, tc_slots>>,
         at(t) # "delete", call'[t].at # "delete",
         at(t) = "populated" => call[t].span = None,
         call'[t].at = "populated" => call'[t].span = None,
         call'[t].range = call[t].range, call'[t].list = call[t].list,
         call'[t].range # {} => call'[t].cl = call[t].cl,
         call'[t].list # {} => Releasing(t)' = Releasing(t)
  PROVE  HeapOK'
<1>1. SpansOK' /\ Leaving' = Leaving
  BY SpansStill, Zenon DEF HeapOK
<1>2. Owned'
  BY <1>1, StillKeeps, Zenon DEF HeapOK, spans
<1> QED
  BY <1>1, <1>2, Zenon DEF HeapOK, HeapShape, spans, lists

(***************************************************************************)
(* What the places of the objects say together.                            *)
(***************************************************************************)
LEMMA OwnedIsOneOwner ==
    Owned /\ sizeclass \in [Span -> Class \cup {None}] => OneOwner
<1>PlacedIsLoc.
    ASSUME NEW p
    PROVE  p \in Placed <=> \E o, k, x, y : p = <<<<k, x, y>>, o>> /\ Loc(o, k, x, y)
  <2> USE <1>PlacedIsLoc
  <2> DEFINE in_program == {<<"program", None, None>>} \X program
             in_span(s) == {<<"span", s, None>>} \X objects[s]
             in_cache(t, c) == {<<"cache", t, c>>} \X list[t][c]
             in_range(t) == {<<"range", t, None>>} \X call[t].range
             in_list(t) == {<<"list", t, None>>} \X call[t].list
             in_slot(c, i) == {<<"slot", c, i>>} \X tc_slots[c][i]
             Somewhere == \E o, k, x, y : p = <<<<k, x, y>>, o>> /\ Loc(o, k, x, y)
             in_spans == UNION {in_span(s) : s \in Span}
             in_caches == UNION {in_cache(t, c) : t \in Thread, c \in Class}
             in_ranges == UNION {in_range(t) : t \in Thread}
             in_lists == UNION {in_list(t) : t \in Thread}
             in_slots == UNION {UNION {in_slot(c, i) : i \in DOMAIN tc_slots[c]} : c \in Class}
  <2>1. Placed = UNION {in_program, in_spans, in_caches, in_ranges, in_lists, in_slots}
    BY SMT DEF Placed
  <2>2. /\ p \in in_program <=> \E o \in program : p = <<<<"program", None, None>>, o>>
        /\ \A s : p \in in_span(s) <=> \E o \in objects[s] : p = <<<<"span", s, None>>, o>>
        /\ \A t, c : p \in in_cache(t, c) <=> \E o \in list[t][c] : p = <<<<"cache", t, c>>, o>>
        /\ \A t : p \in in_range(t) <=> \E o \in call[t].range : p = <<<<"range", t, None>>, o>>
        /\ \A t : p \in in_list(t) <=> \E o \in call[t].list : p = <<<<"list", t, None>>, o>>
        /\ \A c, i : p \in in_slot(c, i) <=> \E o \in tc_slots[c][i] : p = <<<<"slot", c, i>>, o>>
    OBVIOUS
  <2> HIDE DEF in_program, in_span, in_cache, in_range, in_list, in_slot
  <2>3. /\ p \in in_spans <=> \E s \in Span : p \in in_span(s)
        /\ p \in in_caches <=> \E t \in Thread, c \in Class : p \in in_cache(t, c)
        /\ p \in in_ranges <=> \E t \in Thread : p \in in_range(t)
        /\ p \in in_lists <=> \E t \in Thread : p \in in_list(t)
        /\ p \in in_slots <=> \E c \in Class : \E i \in DOMAIN tc_slots[c] : p \in in_slot(c, i)
    OBVIOUS
  <2> HIDE DEF in_spans, in_caches, in_ranges, in_lists, in_slots
  <2>4. p \in Placed <=>
          \/ p \in in_program \/ (\E s \in Span : p \in in_span(s))
          \/ (\E t \in Thread, c \in Class : p \in in_cache(t, c))
          \/ (\E t \in Thread : p \in in_range(t)) \/ (\E t \in Thread : p \in in_list(t))
          \/ (\E c \in Class : \E i \in DOMAIN tc_slots[c] : p \in in_slot(c, i))
    BY <2>1, <2>3, Zenon
  <2>5. ASSUME NEW o, NEW k, NEW x, NEW y, p = <<<<k, x, y>>, o>>, Loc(o, k, x, y)
        PROVE  p \in Placed
    BY <2>2, <2>4, <2>5, Zenon DEF Loc
  <2>6. ASSUME p \in Placed PROVE Somewhere
    <3>1. ASSUME p \in in_program PROVE Somewhere
      <4>1. PICK o : p = <<<<"program", None, None>>, o>> /\ Loc(o, "program", None, None)
        BY <2>2, <3>1, Zenon DEF Loc
      <4> QED
        BY <4>1, Zenon
    <3>2. ASSUME NEW s \in Span, p \in in_span(s)
          PROVE  Somewhere
      <4>1. PICK o : p = <<<<"span", s, None>>, o>> /\ Loc(o, "span", s, None)
        BY <2>2, <3>2, Zenon DEF Loc
      <4> QED
        BY <4>1, Zenon
    <3>3. ASSUME NEW t \in Thread, NEW c \in Class, p \in in_cache(t, c)
          PROVE  Somewhere
      <4>1. PICK o : p = <<<<"cache", t, c>>, o>> /\ Loc(o, "cache", t, c)
        BY <2>2, <3>3, Zenon DEF Loc
      <4> QED
        BY <4>1, Zenon
    <3>4. ASSUME NEW t \in Thread, p \in in_range(t)
          PROVE  Somewhere
      <4>1. PICK o : p = <<<<"range", t, None>>, o>> /\ Loc(o, "range", t, None)
        BY <2>2, <3>4, Zenon DEF Loc
      <4> QED
        BY <4>1, Zenon
    <3>5. ASSUME NEW t \in Thread, p \in in_list(t)
          PROVE  Somewhere
      <4>1. PICK o : p = <<<<"list", t, None>>, o>> /\ Loc(o, "list", t, None)
        BY <2>2, <3>5, Zenon DEF Loc
      <4> QED
        BY <4>1, Zenon
    <3>6. ASSUME NEW c \in Class, NEW i \in DOMAIN tc_slots[c], p \in in_slot(c, i)
          PROVE  Somewhere
      <4>1. PICK o : p = <<<<"slot", c, i>>, o>> /\ Loc(o, "slot", c, i)
        BY <2>2, <3>6, Zenon DEF Loc
      <4> QED
        BY <4>1, Zenon
    <3> HIDE DEF Somewhere
    <3> QED
      BY <2>4, <2>6, <3>1, <3>2, <3>3, <3>4, <3>5, <3>6, Zenon
  <2> QED
    BY <2>5, <2>6, Zenon
<1>ObjectsPlaced.
    ASSUME NEW o
    PROVE  o \in {p[2] : p \in Placed} <=> Located(o)
  <2> USE <1>ObjectsPlaced
  <2>1. ASSUME NEW p \in Placed, o = p[2] PROVE Located(o)
    <3>1. PICK q, k, x, y : p = <<<<k, x, y>>, q>> /\ Loc(q, k, x, y)
      BY <2>1, <1>PlacedIsLoc, Zenon
    <3>2. o = q
      BY <2>1, <3>1, Zenon
    <3> QED
      BY <3>1, <3>2, Zenon DEF Located
  <2>2. ASSUME NEW k, NEW x, NEW y, Loc(o, k, x, y)
        PROVE  o \in {p[2] : p \in Placed}
    <3>1. <<<<k, x, y>>, o>> \in Placed
      BY <2>2, <1>PlacedIsLoc, Zenon
    <3> QED
      BY <3>1
  <2> HIDE DEF Located
  <2>3. o \in {p[2] : p \in Placed} => \E p \in Placed : o = p[2]
    OBVIOUS
  <2> QED
    BY <2>1, <2>2, <2>3, Zenon DEF Located
<1> SUFFICES ASSUME Owned, sizeclass \in [Span -> Class \cup {None}]
             PROVE  OneOwner
  OBVIOUS
<1>1. ASSUME NEW p \in Placed, NEW q \in Placed, p[2] = q[2]
      PROVE  p = q
  <2>1. PICK o, k, x, y : p = <<<<k, x, y>>, o>> /\ Loc(o, k, x, y)
    BY <1>1, <1>PlacedIsLoc, Zenon
  <2>2. PICK r, l, v, w : q = <<<<l, v, w>>, r>> /\ Loc(r, l, v, w)
    BY <1>1, <1>PlacedIsLoc, Zenon
  <2>3. o = r
    BY <1>1, <2>1, <2>2, Zenon
  <2>4. k = l /\ x = v /\ y = w
    BY <2>1, <2>2, <2>3, Zenon DEF Owned, OnePlace
  <2> QED
    BY <2>1, <2>2, <2>3, <2>4, Zenon
<1>2. ASSUME NEW p \in Placed, p[2][1] \in Leaving
      PROVE  p[1] = <<"span", p[2][1], None>>
  <2>1. PICK o, k, x, y : p = <<<<k, x, y>>, o>> /\ Loc(o, k, x, y)
    BY <1>2, <1>PlacedIsLoc, Zenon
  <2>2. p[2] = o /\ p[1] = <<k, x, y>>
    BY <2>1, Zenon
  <2>3. k = "span" /\ Fit(o, k, x, y)
    BY <1>2, <2>1, <2>2, Zenon DEF Owned, RightPlace
  <2>4. x = o[1] /\ y = None
    BY <2>1, <2>3, Zenon DEF Fit, Loc
  <2> QED
    BY <2>2, <2>3, <2>4, Zenon
<1> DEFINE objs == {p[2] : p \in Placed}
           out == {s \in Span : sizeclass[s] # None}
           owned == UNION {ObjectsOf(s, sizeclass[s]) : s \in out \ Leaving}
<1>3. ASSUME NEW o \in objs, o[1] \notin Leaving PROVE o \in owned
  <2>1. PICK k, x, y : Loc(o, k, x, y)
    BY <1>3, <1>ObjectsPlaced, Zenon DEF Located
  <2>2. Home(o)
    BY <2>1, Zenon DEF Owned, RightPlace
  <2>3. o[1] \in out \ Leaving
    BY <1>3, <2>2, NoneAssumption, Zenon DEF Home
  <2> QED
    BY <2>2, <2>3, Zenon DEF Home
<1>4. ASSUME NEW s \in out \ Leaving, NEW o \in ObjectsOf(s, sizeclass[s])
      PROVE  o \in objs /\ o[1] \notin Leaving
  <2>1. s \in Span /\ s \notin Leaving /\ sizeclass[s] \in Class
    BY <1>4, Zenon
  <2>2. Located(o)
    BY <1>4, <2>1, Zenon DEF Owned, NoneLost
  <2>3. o[1] = s
    BY <1>4 DEF ObjectsOf
  <2> QED
    BY <2>1, <2>2, <2>3, <1>ObjectsPlaced, Zenon
<1>5. {o \in objs : o[1] \notin Leaving} = owned
  <2> HIDE DEF objs, out
  <2> QED
    BY <1>3, <1>4, Zenon
<1> QED
  BY <1>1, <1>2, <1>5, Zenon DEF OneOwner

(***************************************************************************)
(* Objects that move.                                                      *)
(***************************************************************************)
LEMMA FitStays ==
  ASSUME Owned, UNCHANGED sizeclass, NEW t \in Thread, Others(t),
         NEW o, NEW k, NEW x, NEW y, Loc(o, k, x, y), ~(k \in {"range", "list"} /\ x = t)
  PROVE  Fit(o, k, x, y)'
<1>1. Fit(o, k, x, y)
  BY Zenon DEF Owned, RightPlace
<1>2. k \in {"range", "list"} => x \in Thread \ {t}
  BY Zenon DEF Loc
<1> QED
  BY <1>1, <1>2, Zenon DEF Fit, Others, Releasing

\* Thread t changes its list of class c only.
ListTo(t, c, L) ==
  /\ DOMAIN list' = Thread /\ DOMAIN list'[t] = Class /\ list'[t][c] = L
  /\ \A u \in Thread \ {t} : list'[u] = list[u]
  /\ \A d \in Class \ {c} : list'[t][d] = list[t][d]

LEMMA ListToEXCEPT ==
  ASSUME HeapShape, NEW t \in Thread, NEW c \in Class, NEW L, list' = [list EXCEPT ![t][c] = L]
  PROVE  ListTo(t, c, L)
BY Zenon DEF HeapShape, ListTo

LEMMA ListToShape ==
  ASSUME HeapShape, NEW t \in Thread, NEW c, NEW L, ListTo(t, c, L)
  PROVE  DOMAIN list' = Thread /\ \A u \in Thread : DOMAIN list'[u] = Class
BY Zenon DEF ListTo, HeapShape

LEMMA StillShape ==
  ASSUME HeapShape, UNCHANGED <<spans, lists>>, tc_slots' \in [Class -> Seq(SUBSET (Span \X Nat))],
         DOMAIN list' = Thread, \A u \in Thread : DOMAIN list'[u] = Class
  PROVE  HeapShape'
BY Zenon DEF HeapShape, spans, lists

\* R goes to the range of the next call, and what is freed, G, to the list or to the range.
LEMMA ShiftKeeps ==
  ASSUME HeapShape, Owned, UNCHANGED <<sizeclass, objects, tc_slots>>, Leaving' = Leaving,
         NEW t \in Thread, NEW c \in Class, NEW G, NEW R, Others(t),
         G \subseteq program, \A o \in G : sizeclass[o[1]] = c, program' = program \ G,
         R \subseteq list[t][c] \cup G,
         ListTo(t, c, (list[t][c] \cup G) \ R),
         call[t].range = {}, call[t].list = {}, call'[t].range = R, call'[t].list = {},
         R # {} => call'[t].cl = c
  PROVE  Owned'
<1> DEFINE B == G \ R
<1>1. ASSUME NEW o, NEW k, NEW x, NEW y, Loc(o, k, x, y)'
      PROVE  \/ Loc(o, k, x, y)
             \/ o \in R /\ k = "range" /\ x = t /\ y = None
             \/ o \in B /\ k = "cache" /\ x = t /\ y = c
  BY <1>1, Zenon DEF Loc, Others, ListTo
<1>2. ASSUME NEW o, NEW k, NEW x, NEW y, Loc(o, k, x, y), ~Loc(o, k, x, y)'
      PROVE  o \in R \cup B
  BY <1>2, Zenon DEF Loc, Others, ListTo
<1>3. \A o \in R : Loc(o, "range", t, None)' /\ o \notin B
  BY Zenon DEF Loc
<1>4. \A o \in B : Loc(o, "cache", t, c)'
  BY Zenon DEF Loc, ListTo
<1>5. ASSUME NEW o \in R \cup B
      PROVE  \E k, x, y : k # "span" /\ Loc(o, k, x, y) /\ ~Loc(o, k, x, y)'
  <2>1. CASE o \in G
    <3>1. Loc(o, "program", None, None) /\ ~Loc(o, "program", None, None)'
      BY <2>1, Zenon DEF Loc
    <3> QED
      BY <3>1, Zenon
  <2>2. CASE o \notin G
    <3>1. Loc(o, "cache", t, c) /\ ~Loc(o, "cache", t, c)'
      BY <2>2, Zenon DEF Loc, ListTo
    <3> QED
      BY <3>1, Zenon
  <2> QED
    BY <2>1, <2>2, Zenon
<1>6. ASSUME NEW o \in R \cup B PROVE o[1] \notin Leaving /\ sizeclass[o[1]] = c
  <2>1. o[1] \notin Leaving
    BY <1>5, Zenon DEF Owned, RightPlace
  <2>2. o \in G \/ Loc(o, "cache", t, c)
    BY Zenon DEF Loc
  <2>3. Loc(o, "cache", t, c) => Fit(o, "cache", t, c)
    BY Zenon DEF Owned, RightPlace
  <2> QED
    BY <2>1, <2>2, <2>3 DEF Fit
<1>7. ASSUME NEW o, NEW k, NEW x, NEW y, Loc(o, k, x, y)' PROVE Fit(o, k, x, y)'
  <2>1. CASE Loc(o, k, x, y)
    <3>1. ~(k \in {"range", "list"} /\ x = t)
      BY <2>1, Zenon DEF Loc
    <3> QED
      BY <2>1, <3>1, FitStays, Zenon
  <2>2. CASE o \in R /\ k = "range" /\ x = t /\ y = None
    BY <1>6, <2>2, Zenon DEF Fit
  <2>3. CASE o \in B /\ k = "cache" /\ x = t /\ y = c
    BY <1>6, <2>3, Zenon DEF Fit
  <2> QED
    BY <1>1, <1>7, <2>1, <2>2, <2>3, Zenon
<1> HIDE DEF B
<1>8. Moves(R, "range", t, None, B, "cache", t, c)
  BY <1>1, <1>2, <1>3, <1>4, <1>5, <1>6, <1>7, Zenon DEF Moves
<1> QED
  BY <1>8, MovesKeep, Zenon

\* One of the objects S goes to the program, and the rest to the list of t.
Handed(t, c, S) ==
  \/ S = {} /\ UNCHANGED <<program, list>>
  \/ \E o \in S : program' = program \cup {o} /\ ListTo(t, c, list[t][c] \cup (S \ {o}))

\* The objects S leave spans or slots of transfer caches, and no other one does.
Central(k) == k \in {"span", "slot"}

Leave(S) ==
  /\ \A p, k, x, y : Central(k) => (Loc(p, k, x, y)' <=> Loc(p, k, x, y) /\ p \notin S)
  /\ \A p \in S : \E k, x, y : Central(k) /\ Loc(p, k, x, y)

LEMMA FetchedKeeps ==
  ASSUME Owned, UNCHANGED sizeclass, Leaving' = Leaving,
         NEW t \in Thread, NEW c \in Class, NEW S, Others(t),
         call[t].range = {}, call[t].list = {}, call'[t].range = {}, call'[t].list = {},
         \A p \in S : p[1] \notin Leaving /\ sizeclass[p[1]] = c,
         Handed(t, c, S), Leave(S)
  PROVE  Owned'
<1>0. \A k : Central(k) => k # "range" /\ k # "list"
  BY Zenon DEF Central
<1>1. CASE S = {} /\ UNCHANGED <<program, list>>
  <2>1. ASSUME NEW p, NEW k, NEW x, NEW y
        PROVE  Loc(p, k, x, y)' <=> Loc(p, k, x, y)
    <3>1. CASE Central(k)
      BY <1>1, <3>1, Zenon DEF Leave
    <3>2. CASE ~Central(k)
      BY <1>1, <3>2, Zenon DEF Central, Loc, Others
    <3> QED
      BY <3>1, <3>2, Zenon
  <2>2. ASSUME NEW p, NEW k, NEW x, NEW y, Loc(p, k, x, y)' PROVE Fit(p, k, x, y)'
    <3>1. Loc(p, k, x, y) /\ ~(k \in {"range", "list"} /\ x = t)
      BY <2>1, <2>2, Zenon DEF Loc
    <3> QED
      BY <3>1, FitStays, Zenon
  <2>3. Moves({}, "none", None, None, {}, "none", None, None)
    BY <2>1, <2>2, Zenon DEF Moves
  <2> QED
    BY <2>3, MovesKeep, Zenon
<1>2. ASSUME NEW o \in S, program' = program \cup {o}, ListTo(t, c, list[t][c] \cup (S \ {o}))
      PROVE  Owned'
  <2> DEFINE B == S \ {o}
  <2>1. ASSUME NEW p, NEW k, NEW x, NEW y, Loc(p, k, x, y)'
        PROVE  \/ Loc(p, k, x, y) /\ ~(k \in {"range", "list"} /\ x = t)
               \/ p \in {o} /\ k = "program" /\ x = None /\ y = None
               \/ p \in B /\ k = "cache" /\ x = t /\ y = c
    <3>1. CASE Central(k)
      BY <1>0, <2>1, <3>1, Zenon DEF Leave
    <3>2. CASE ~Central(k)
      BY <1>2, <2>1, <3>2, Zenon DEF Central, Loc, Others, ListTo
    <3> QED
      BY <3>1, <3>2, Zenon
  <2>2. ASSUME NEW p, NEW k, NEW x, NEW y, Loc(p, k, x, y), ~Loc(p, k, x, y)'
        PROVE  p \in S
    <3>1. CASE Central(k)
      BY <2>2, <3>1, Zenon DEF Leave
    <3>2. CASE ~Central(k)
      BY <1>2, <2>2, <3>2, Zenon DEF Central, Loc, Others, ListTo
    <3> QED
      BY <3>1, <3>2, Zenon
  <2>3. Loc(o, "program", None, None)' /\ Fit(o, "program", None, None)'
    BY <1>2, Zenon DEF Loc, Fit
  <2>4. \A p \in B : Loc(p, "cache", t, c)' /\ Fit(p, "cache", t, c)'
    BY <1>2, Zenon DEF Loc, Fit, ListTo
  <2>5. \A p \in S : \E k, x, y : Loc(p, k, x, y) /\ ~Loc(p, k, x, y)'
    BY Zenon DEF Leave
  <2>6. ASSUME NEW p, NEW k, NEW x, NEW y, Loc(p, k, x, y)' PROVE Fit(p, k, x, y)'
    BY <2>1, <2>3, <2>4, <2>6, FitStays, Zenon
  <2>7. {o} \cup B = S /\ \A p \in {o} : p \notin B
    BY <1>2, Zenon
  <2> HIDE DEF B
  <2>8. Moves({o}, "program", None, None, B, "cache", t, c)
    BY <2>1, <2>2, <2>3, <2>4, <2>5, <2>6, <2>7, Zenon DEF Moves
  <2> QED
    BY <2>8, MovesKeep, Zenon
<1> QED
  BY <1>1, <1>2, Zenon DEF Handed

\* What a call of RemoveRange, and one of InsertRange, returns with.
LEMMA FetchReturns ==
  ASSUME Shape, HeapShape, NEW t \in Thread, CallOK(t), at(t) \in Fetching, NEW S, Returns(t, S)
  PROVE  /\ call'[t] = Idle /\ Others(t)
         /\ Handed(t, call[t].cl, S)
<1>1. in(t) = "fetch" /\ op[t].cl = call[t].cl /\ call[t].cl \in Class
  BY Zenon DEF CallOK, Fetching
<1>2. Fetched(t, S)
  BY <1>1, Zenon DEF Returns, ReleaseMore, FreedWithoutCache, ListTooLong, Scavenged, CleanedUp, Inserted
<1>3. Others(t)
  BY ReturnsIsCalm, Zenon DEF Calm
<1>4. call'[t] = Idle
  BY <1>2, Zenon DEF Fetched, Shape
<1>5. ASSUME NEW o \in S,
             list' = [list EXCEPT ![t][call[t].cl] = @ \cup (S \ {o})]
      PROVE  ListTo(t, call[t].cl, list[t][call[t].cl] \cup (S \ {o}))
  BY <1>1, <1>5, ListToEXCEPT, Zenon
<1> QED
  BY <1>1, <1>2, <1>3, <1>4, <1>5, Zenon DEF Fetched, ToList, Handed

LEMMA InsertReturns ==
  ASSUME Shape, HeapShape, NEW t \in Thread, CallOK(t), at(t) \in {"insert", "shrunk", "spans"},
         Returns(t, {})
  PROVE  /\ program' = program /\ Others(t) /\ call'[t].at \in {"idle", "insert"}
         /\ call'[t].list = {}
         /\ \E R \in SUBSET list[t][call[t].cl] :
              /\ ListTo(t, call[t].cl, list[t][call[t].cl] \ R)
              /\ call'[t].range = R /\ (R # {} => call'[t].cl = call[t].cl)
<1>1. in(t) # "fetch" /\ op[t].cl = call[t].cl /\ call[t].cl \in Class
  BY Zenon DEF CallOK, Fetching
<1>2. Others(t)
  BY ReturnsIsCalm, Zenon DEF Calm
<1>3. CASE ReleaseMore(t)
  <2>1. PICK R \in SUBSET list[t][call[t].cl] :
             /\ list' = [list EXCEPT ![t][call[t].cl] = list[t][call[t].cl] \ R]
             /\ InsertRange_call(t, call[t].cl, R)
    BY <1>1, <1>3, Zenon DEF ReleaseMore, NextRange, kSubset
  <2>2. /\ call'[t].at = "insert" /\ call'[t].range = R /\ call'[t].list = {}
        /\ call'[t].cl = call[t].cl
    BY <2>1, Zenon DEF InsertRange_call, Idle, Shape
  <2>3. ListTo(t, call[t].cl, list[t][call[t].cl] \ R)
    BY <1>1, <2>1, ListToEXCEPT, Zenon
  <2> QED
    BY <1>2, <1>3, <2>2, <2>3, Zenon DEF ReleaseMore
<1>4. ASSUME NEW why, Inserted(t, why)
      PROVE  /\ program' = program /\ call'[t].at = "idle" /\ call'[t].list = {}
             /\ call'[t].range = {} /\ ListTo(t, call[t].cl, list[t][call[t].cl] \ {})
  BY <1>1, <1>4, Zenon DEF Inserted, Idle, Shape, HeapShape, ListTo
<1> QED
  BY <1>1, <1>2, <1>3, <1>4, Zenon
  DEF Returns, Fetched, FreedWithoutCache, ListTooLong, Scavenged, CleanedUp

-----------------------------------------------------------------------------

\* A is stored in slot i of class c, and slot i of class c is emptied.
Stored(c, i, A) ==
  /\ tc_slots' \in [Class -> Seq(SUBSET (Span \X Nat))]
  /\ \A d \in Class \ {c} : tc_slots'[d] = tc_slots[d]
  /\ DOMAIN tc_slots'[c] = DOMAIN tc_slots[c] \cup {i} /\ i \notin DOMAIN tc_slots[c]
  /\ tc_slots'[c][i] = A /\ \A j \in DOMAIN tc_slots[c] : tc_slots'[c][j] = tc_slots[c][j]

Taken(c, i) ==
  /\ tc_slots' \in [Class -> Seq(SUBSET (Span \X Nat))]
  /\ \A d \in Class \ {c} : tc_slots'[d] = tc_slots[d]
  /\ DOMAIN tc_slots'[c] = DOMAIN tc_slots[c] \ {i} /\ i \in DOMAIN tc_slots[c]
  /\ \A j \in DOMAIN tc_slots'[c] : tc_slots'[c][j] = tc_slots[c][j]

LEMMA FrontTakes ==
  \A c \in Class :
    HeapShape /\ Len(tc_slots[c]) > 0
      /\ tc_slots' = [tc_slots EXCEPT ![c] = SubSeq(@, 1, Len(@) - 1)]
      => Taken(c, Len(tc_slots[c]))
<1>FrontFacts.
    ASSUME NEW X, NEW s \in Seq(X), Len(s) > 0
    PROVE  LET q == SubSeq(s, 1, Len(s) - 1)
           IN /\ q \in Seq(X) /\ Len(s) \in DOMAIN s /\ DOMAIN q = DOMAIN s \ {Len(s)}
              /\ \A i \in DOMAIN q : q[i] = s[i]
  BY <1>FrontFacts
<1> SUFFICES ASSUME HeapShape, NEW c \in Class, Len(tc_slots[c]) > 0,
                tc_slots' = [tc_slots EXCEPT ![c] = SubSeq(@, 1, Len(@) - 1)]
             PROVE  Taken(c, Len(tc_slots[c]))
  BY Zenon
<1> DEFINE X == SUBSET (Span \X Nat)
<1>1. tc_slots \in [Class -> Seq(X)] /\ tc_slots[c] \in Seq(X)
  BY Zenon DEF HeapShape
<1> DEFINE q == SubSeq(tc_slots[c], 1, Len(tc_slots[c]) - 1)
<1> HIDE DEF X
<1>2. /\ q \in Seq(X) /\ Len(tc_slots[c]) \in DOMAIN tc_slots[c]
      /\ DOMAIN q = DOMAIN tc_slots[c] \ {Len(tc_slots[c])}
      /\ \A i \in DOMAIN q : q[i] = tc_slots[c][i]
  BY <1>1, <1>FrontFacts, Zenon
<1>3. /\ tc_slots' \in [Class -> Seq(X)] /\ tc_slots'[c] = q
      /\ \A d \in Class \ {c} : tc_slots'[d] = tc_slots[d]
  BY <1>1, <1>2, Zenon
<1> QED
  BY <1>2, <1>3, Zenon DEF X, Taken

LEMMA SlotStep ==
  \A t \in Thread :
    Shape /\ HeapOK /\ CallOK(t) /\ RemoveRange_slot(t) => HeapOK'
\* The objects of a slot that is emptied leave it.
<1>TakenLeave.
    ASSUME Owned, NEW c \in Class, NEW i, Taken(c, i), UNCHANGED objects
    PROVE  /\ Leave(tc_slots[c][i])
           /\ \A p \in tc_slots[c][i] : p[1] \notin Leaving /\ sizeclass[p[1]] = c
  <2> USE <1>TakenLeave
  <2>1. ASSUME NEW p \in tc_slots[c][i] PROVE Loc(p, "slot", c, i)
    BY Zenon DEF Loc, Taken
  <2>2. ASSUME NEW p \in tc_slots[c][i] PROVE p[1] \notin Leaving /\ sizeclass[p[1]] = c
    <3>1. Fit(p, "slot", c, i) /\ (p[1] \in Leaving => "slot" = "span")
      BY <2>1, Zenon DEF Owned, RightPlace
    <3> QED
      BY <3>1, Zenon DEF Fit
  <2>3. ASSUME NEW p, NEW k, NEW x, NEW y, p \in tc_slots[c][i], Loc(p, k, x, y)
        PROVE  k = "slot" /\ x = c /\ y = i
    BY <2>1, <2>3, Zenon DEF Owned, OnePlace
  <2>4. ASSUME NEW p, NEW k, NEW x, NEW y, Central(k)
        PROVE  Loc(p, k, x, y)' <=> Loc(p, k, x, y) /\ p \notin tc_slots[c][i]
    <3>1. CASE k = "span"
      <4>1. Loc(p, k, x, y)' <=> Loc(p, k, x, y)
        BY <3>1, Zenon DEF Loc
      <4> QED
        BY <2>3, <3>1, <4>1
    <3>2. CASE k = "slot"
      <4>1. Loc(p, k, x, y)' <=> Loc(p, k, x, y) /\ ~(x = c /\ y = i)
        BY <3>2, Zenon DEF Loc, Taken
      <4>2. Loc(p, k, x, y) /\ x = c /\ y = i => p \in tc_slots[c][i]
        BY <3>2, Zenon DEF Loc
      <4> QED
        BY <2>3, <4>1, <4>2
    <3> QED
      BY <2>4, <3>1, <3>2, Zenon DEF Central
  <2>5. \A p \in tc_slots[c][i] : \E k, x, y : Central(k) /\ Loc(p, k, x, y)
    <3>1. Central("slot")
      BY DEF Central
    <3> QED
      BY <2>1, <3>1, Zenon
  <2> QED
    BY <2>2, <2>4, <2>5, Zenon DEF Leave
<1>HandedShape.
    ASSUME HeapShape, NEW t \in Thread, NEW c \in Class, NEW S, Handed(t, c, S)
    PROVE  DOMAIN list' = Thread /\ \A u \in Thread : DOMAIN list'[u] = Class
  BY <1>HandedShape, Zenon DEF Handed, HeapShape, ListTo
<1> SUFFICES ASSUME Shape, HeapOK, NEW t \in Thread, CallOK(t), RemoveRange_slot(t)
             PROVE  HeapOK'
  OBVIOUS
<1>1. /\ at(t) = "remove" /\ call[t].cl \in Class /\ UNCHANGED <<spans, lists>>
      /\ call[t].range = {} /\ call[t].list = {}
  BY Zenon DEF RemoveRange_slot, CallOK
<1>c. PICK c \in Class : c = call[t].cl
  BY <1>1, Zenon
<1>s. PICK S : S = tc_slots[c][Len(tc_slots[c])]
  BY Zenon
<1>2. Returns(t, S)
  BY <1>c, <1>s, Zenon DEF RemoveRange_slot, used_slots
<1>3. Taken(c, Len(tc_slots[c]))
  <2>1. Len(tc_slots[c]) > 0 /\ tc_slots' = [tc_slots EXCEPT ![c] = SubSeq(@, 1, Len(@) - 1)]
    BY <1>c, Zenon DEF RemoveRange_slot, used_slots
  <2> QED
    BY <2>1, FrontTakes, Zenon DEF HeapOK
<1>4. call'[t] = Idle /\ Others(t) /\ Handed(t, c, S)
  BY <1>1, <1>2, <1>c, FetchReturns, Zenon DEF HeapOK, Fetching
<1>5. /\ call'[t].range = {} /\ call'[t].list = {}
      /\ call'[t].at = "idle"
  BY <1>4 DEF Idle
<1>6. SpansOK' /\ Leaving' = Leaving
  BY <1>1, <1>4, <1>5, SpansStill, Zenon DEF HeapOK
<1>7. Leave(S) /\ \A p \in S : p[1] \notin Leaving /\ sizeclass[p[1]] = c
  BY <1>1, <1>3, <1>s, <1>TakenLeave, Zenon DEF HeapOK, spans
<1>8. Owned'
  BY <1>1, <1>4, <1>5, <1>6, <1>7, FetchedKeeps, Zenon DEF HeapOK, spans
<1>9. HeapShape'
  BY <1>1, <1>3, <1>4, <1>HandedShape, StillShape, Zenon DEF HeapOK, Taken
<1> QED
  BY <1>6, <1>8, <1>9, Zenon DEF HeapOK

LEMMA InsertStep ==
  \A t \in Thread :
    Shape /\ HeapOK /\ CallOK(t) /\ (InsertRange(t) \/ Shrunk(t)) => HeapOK'
\* The range of a call of InsertRange is stored in the transfer cache.
<1>StoreStep.
    \A t \in Thread :
      Shape /\ HeapOK /\ CallOK(t) /\ at(t) \in {"insert", "shrunk"}
        /\ UNCHANGED <<spans, lists>> /\ Returns(t, {})
        /\ tc_slots' = [tc_slots EXCEPT ![call[t].cl] = Append(@, call[t].range)] => HeapOK'
  <2>AppendFacts.
      ASSUME NEW X, NEW s \in Seq(X), NEW e \in X
      PROVE  /\ Append(s, e) \in Seq(X) /\ Len(s) + 1 \notin DOMAIN s
             /\ DOMAIN Append(s, e) = DOMAIN s \cup {Len(s) + 1}
             /\ \A i \in DOMAIN s : Append(s, e)[i] = s[i]
             /\ Append(s, e)[Len(s) + 1] = e
    BY <2>AppendFacts
  <2>LocatedTyped.
      ASSUME Owned, HeapShape, SizeAssumption, NEW o, NEW k, NEW x, NEW y, Loc(o, k, x, y)
      PROVE  o \in Span \X Nat
    <3> USE <2>LocatedTyped
    <3>1. Home(o)
      BY Zenon DEF Owned, RightPlace
    <3> QED
      BY <3>1 DEF Home, ObjectsOf
  <2>AppendStores.
      ASSUME HeapShape, Owned, NEW t \in Thread, NEW c \in Class,
             tc_slots' = [tc_slots EXCEPT ![c] = Append(@, call[t].range)]
      PROVE  Stored(c, Len(tc_slots[c]) + 1, call[t].range)
    <3> USE <2>AppendStores
    <3>1. call[t].range \in SUBSET (Span \X Nat)
      <4>1. \A o \in call[t].range : Loc(o, "range", t, None)
        BY Zenon DEF Loc
      <4> QED
        BY <4>1, SizeAssumption, <2>LocatedTyped, Zenon
    <3> QED
      BY <3>1, <2>AppendFacts DEF HeapShape, Stored
  \* The range of the call goes to the transfer cache, and R to the range of the next call.
  <2>StoreKeeps.
      ASSUME Owned, UNCHANGED <<sizeclass, objects, program>>, Leaving' = Leaving,
             NEW t \in Thread, NEW c \in Class, NEW R, NEW i, Others(t), call[t].cl = c,
             Stored(c, i, call[t].range),
             R \subseteq list[t][c], ListTo(t, c, list[t][c] \ R),
             call[t].list = {}, call'[t].range = R, call'[t].list = {}, R # {} => call'[t].cl = c
      PROVE  Owned'
    <3> USE <2>StoreKeeps
    <3> DEFINE A == call[t].range
    <3>1. /\ \A d \in Class \ {c} : tc_slots'[d] = tc_slots[d]
          /\ DOMAIN tc_slots'[c] = DOMAIN tc_slots[c] \cup {i}
          /\ tc_slots'[c][i] = A /\ \A j \in DOMAIN tc_slots[c] : tc_slots'[c][j] = tc_slots[c][j]
      BY Zenon DEF Stored
    <3>2. ASSUME NEW o, NEW k, NEW x, NEW y, Loc(o, k, x, y)'
          PROVE  \/ /\ Loc(o, k, x, y) /\ ~(k \in {"range", "list"} /\ x = t)
                 \/ o \in R /\ k = "range" /\ x = t /\ y = None
                 \/ o \in A /\ k = "slot" /\ x = c /\ y = i
      <4>1. CASE k = "slot"
        BY <3>1, <3>2, <4>1 DEF Loc
      <4>2. CASE k # "slot"
        BY <3>2, <4>2, Zenon DEF Loc, Others, ListTo
      <4> QED
        BY <4>1, <4>2, Zenon
    <3>3. ASSUME NEW o, NEW k, NEW x, NEW y, Loc(o, k, x, y), ~Loc(o, k, x, y)'
          PROVE  o \in R \cup A
      <4>1. CASE k = "slot"
        BY <3>1, <3>3, <4>1, Zenon DEF Loc
      <4>2. CASE k # "slot"
        BY <3>3, <4>2, Zenon DEF Loc, Others, ListTo
      <4> QED
        BY <4>1, <4>2, Zenon
    <3>4. ASSUME NEW o \in R
          PROVE  /\ Loc(o, "range", t, None)' /\ Loc(o, "cache", t, c) /\ ~Loc(o, "cache", t, c)'
                 /\ o \notin A
      <4>1. Loc(o, "cache", t, c)
        BY Zenon DEF Loc
      <4>2. o \notin A
        BY <4>1, Zenon DEF Owned, OnePlace, Loc
      <4> QED
        BY <4>1, <4>2, Zenon DEF Loc, ListTo
    <3>5. ASSUME NEW o \in A
          PROVE  /\ Loc(o, "slot", c, i)' /\ Loc(o, "range", t, None) /\ ~Loc(o, "range", t, None)'
      <4>1. i \in DOMAIN tc_slots'[c] /\ o \in tc_slots'[c][i]
        BY <3>1, Zenon
      <4>2. o \notin R
        BY <3>4, Zenon
      <4>3. Loc(o, "slot", c, i)'
        BY <4>1, Zenon DEF Loc
      <4> QED
        BY <4>2, <4>3, Zenon DEF Loc
    <3>6. ASSUME NEW o \in R \cup A PROVE o[1] \notin Leaving /\ sizeclass[o[1]] = c
      <4>1. CASE o \in R
        BY <3>4, <4>1, SMTT(20) DEF Owned, RightPlace, Fit
      <4>2. CASE o \in A
        BY <3>5, <4>2, SMTT(20) DEF Owned, RightPlace, Fit
      <4> QED
        BY <4>1, <4>2, Zenon
    <3>7. ASSUME NEW o, NEW k, NEW x, NEW y, Loc(o, k, x, y)' PROVE Fit(o, k, x, y)'
      <4>1. CASE Loc(o, k, x, y) /\ ~(k \in {"range", "list"} /\ x = t)
        BY <4>1, FitStays, Zenon
      <4>2. CASE o \in R /\ k = "range" /\ x = t /\ y = None
        BY <3>6, <4>2, Zenon DEF Fit
      <4>3. CASE o \in A /\ k = "slot" /\ x = c /\ y = i
        BY <3>6, <4>3, Zenon DEF Fit
      <4> QED
        BY <3>2, <3>7, <4>1, <4>2, <4>3
    <3> HIDE DEF A
    <3>8. Moves(R, "range", t, None, A, "slot", c, i)
      BY <3>2, <3>3, <3>4, <3>5, <3>6, <3>7, Zenon DEF Moves
    <3> QED
      BY <3>8, MovesKeep, Zenon
  <2> SUFFICES ASSUME Shape, HeapOK, NEW t \in Thread, CallOK(t), at(t) \in {"insert", "shrunk"},
                  UNCHANGED <<spans, lists>>, Returns(t, {}),
                  tc_slots' = [tc_slots EXCEPT ![call[t].cl] = Append(@, call[t].range)]
               PROVE  HeapOK'
    BY Zenon
  <2>1. call[t].cl \in Class /\ call[t].list = {}
    BY Zenon DEF CallOK
  <2>c. PICK c \in Class : c = call[t].cl
    BY <2>1, Zenon
  <2>2. /\ program' = program /\ Others(t) /\ call'[t].at \in {"idle", "insert"}
        /\ call'[t].list = {}
    BY InsertReturns, Zenon DEF HeapOK
  <2>3. PICK R \in SUBSET list[t][c] : /\ ListTo(t, c, list[t][c] \ R)
                                       /\ call'[t].range = R /\ (R # {} => call'[t].cl = c)
    BY <2>c, InsertReturns, Zenon DEF HeapOK
  <2>4. PICK i : Stored(c, i, call[t].range)
    <3>1. tc_slots' = [tc_slots EXCEPT ![c] = Append(@, call[t].range)]
      BY <2>c, Zenon
    <3> QED
      BY <3>1, <2>AppendStores, Zenon DEF HeapOK
  <2>5. SpansOK' /\ Leaving' = Leaving
    BY <2>2, SpansStill, Zenon DEF HeapOK
  <2>6. Owned'
    BY <2>1, <2>2, <2>3, <2>4, <2>5, <2>c, <2>StoreKeeps, Zenon DEF HeapOK, spans
  <2>7. HeapShape'
    BY <2>3, <2>4, ListToShape, StillShape, Zenon DEF HeapOK, Stored
  <2> QED
    BY <2>5, <2>6, <2>7, Zenon DEF HeapOK
\* MakeCacheSpace has failed, and the range goes to the spans.
<1>ReleaseRangeHeap.
    \A t \in Thread :
      Shape /\ HeapOK /\ CallOK(t) /\ at(t) \in {"insert", "shrunk"}
        /\ UNCHANGED <<spans, lists, tc_slots>> /\ ReleaseRange(t) => HeapOK'
  \* The range of the call goes to the list of objects that spans get back.
  <2>ListKeeps.
      ASSUME Owned, UNCHANGED <<sizeclass, objects, program, list, tc_slots>>, Leaving' = Leaving,
             NEW t \in Thread, Others(t), call[t].list = {}, call'[t].range = {},
             call'[t].list = call[t].range, Releasing(t)' = call[t].cl
      PROVE  Owned'
    <3> USE <2>ListKeeps
    <3> DEFINE A == call[t].range
    <3>1. ASSUME NEW o, NEW k, NEW x, NEW y, Loc(o, k, x, y)'
          PROVE  \/ /\ Loc(o, k, x, y) /\ ~(k \in {"range", "list"} /\ x = t)
                 \/ o \in A /\ k = "list" /\ x = t /\ y = None
      BY <3>1, Zenon DEF Loc, Others
    <3>2. ASSUME NEW o, NEW k, NEW x, NEW y, Loc(o, k, x, y), ~Loc(o, k, x, y)'
          PROVE  o \in A
      BY <3>2, Zenon DEF Loc, Others
    <3>3. ASSUME NEW o \in A
          PROVE  /\ Loc(o, "list", t, None)' /\ Loc(o, "range", t, None) /\ ~Loc(o, "range", t, None)'
                 /\ o[1] \notin Leaving /\ Fit(o, "list", t, None)'
      <4>1. Loc(o, "list", t, None)' /\ Loc(o, "range", t, None) /\ ~Loc(o, "range", t, None)'
        BY Zenon DEF Loc
      <4> QED
        BY <4>1 DEF Owned, RightPlace, Fit
    <3>4. ASSUME NEW o, NEW k, NEW x, NEW y, Loc(o, k, x, y)' PROVE Fit(o, k, x, y)'
      BY <3>1, <3>3, <3>4, FitStays
    <3> HIDE DEF A
    <3>5. Moves(A, "list", t, None, {}, "none", None, None)
      BY <3>1, <3>2, <3>3, <3>4, Zenon DEF Moves
    <3> QED
      BY <3>5, MovesKeep, Zenon
  <2> SUFFICES ASSUME Shape, HeapOK, NEW t \in Thread, CallOK(t), at(t) \in {"insert", "shrunk"},
                  UNCHANGED <<spans, lists, tc_slots>>, ReleaseRange(t)
               PROVE  HeapOK'
    OBVIOUS
  <2> DEFINE new == [Idle EXCEPT !.at = "spans", !.cl = call[t].cl, !.list = call[t].range]
  <2>1. /\ DOMAIN new = CallFields /\ new.at = "spans" /\ new.victim = None /\ new.cl = call[t].cl
        /\ new.range = {} /\ new.list = call[t].range
    BY Zenon DEF Idle, CallFields
  <2>2. Goto(t, new)
    BY Zenon DEF ReleaseRange
  <2> HIDE DEF new
  <2>3. Others(t) /\ call'[t] = new
    BY <2>1, <2>2, GotoIsLocal, Zenon
  <2>4. SpansOK' /\ Leaving' = Leaving
    BY <2>1, <2>3, SpansStill, Zenon DEF HeapOK
  <2>5. UNCHANGED <<program, list>>
    BY <2>2, Zenon DEF Goto, cache, free_list
  <2>6. Releasing(t)' = call[t].cl /\ call[t].list = {}
    BY <2>1, <2>3, Zenon DEF Releasing, CallOK
  <2>7. Owned'
    BY <2>1, <2>3, <2>4, <2>5, <2>6, <2>ListKeeps, Zenon DEF HeapOK, spans
  <2>8. HeapShape'
    BY <2>5, StillShape, Zenon DEF HeapOK, HeapShape
  <2> QED
    BY <2>4, <2>7, <2>8, Zenon DEF HeapOK
<1>EvictHeap.
    ASSUME Shape, HeapOK, NEW t \in Thread, CallOK(t), at(t) \in {"insert", "shrunk"},
           UNCHANGED <<spans, lists, tc_slots>>, NEW v, NEW force, Evict(t, v, force)
    PROVE  HeapOK'
  <2> USE <1>EvictHeap
  <2> DEFINE new == [call[t] EXCEPT !.at = "shrink", !.victim = v, !.force = force]
  <2>1. /\ DOMAIN new = CallFields /\ new.at = "shrink"
        /\ \A f \in {"cl", "range", "list"} : new[f] = call[t][f]
    BY Zenon DEF Shape, CallFields
  <2>2. Goto(t, new)
    BY Zenon DEF Evict
  <2> HIDE DEF new
  <2>3. Others(t) /\ call'[t] = new
    BY <2>1, <2>2, GotoIsLocal, Zenon
  <2>4. UNCHANGED <<program, list>>
    BY <2>2, Zenon DEF Goto, cache, free_list
  <2>5. /\ call'[t].at = "shrink" /\ call'[t].range = call[t].range
        /\ call'[t].list = call[t].list /\ call'[t].cl = call[t].cl /\ call[t].list = {}
    BY <2>1, <2>3, Zenon DEF CallOK
  <2> QED
    BY <2>3, <2>4, <2>5, StillStep, Zenon
<1>EvictForcedHeap.
    ASSUME Shape, HeapOK, NEW t \in Thread, CallOK(t), at(t) \in {"insert", "shrunk"},
           UNCHANGED <<spans, lists, tc_slots>>, EvictForced(t)
    PROVE  HeapOK'
  BY <1>EvictForcedHeap, <1>ReleaseRangeHeap, <1>EvictHeap, Zenon DEF EvictForced
<1> SUFFICES ASSUME Shape, HeapOK, NEW t \in Thread, CallOK(t), InsertRange(t) \/ Shrunk(t)
             PROVE  HeapOK'
  OBVIOUS
<1>1. CASE InsertRange(t)
  <2>1. at(t) = "insert" /\ UNCHANGED <<spans, lists>>
    BY <1>1, Zenon DEF InsertRange
  <2>2. \/ /\ tc_slots' = [tc_slots EXCEPT ![call[t].cl] = Append(@, call[t].range)]
           /\ Returns(t, {})
        \/ /\ UNCHANGED tc_slots
           /\ \/ ReleaseRange(t) \/ EvictForced(t)
              \/ \E v \in Class : Evict(t, v, FALSE)
    BY <1>1, Zenon DEF InsertRange
  <2> QED
    BY <2>1, <2>2, <1>StoreStep, <1>ReleaseRangeHeap, <1>EvictHeap, <1>EvictForcedHeap, Zenon
<1>2. CASE Shrunk(t)
  <2>1. at(t) = "shrunk" /\ UNCHANGED <<spans, lists>>
    BY <1>2, Zenon DEF Shrunk
  <2>2. \/ /\ tc_slots' = [tc_slots EXCEPT ![call[t].cl] = Append(@, call[t].range)]
           /\ Returns(t, {})
        \/ UNCHANGED tc_slots /\ (ReleaseRange(t) \/ EvictForced(t))
    BY <1>2, Zenon DEF Shrunk, slots
  <2> QED
    BY <2>1, <2>2, <1>StoreStep, <1>ReleaseRangeHeap, <1>EvictForcedHeap, Zenon
<1> QED
  BY <1>1, <1>2, Zenon

LEMMA ReleasedStep ==
  ASSUME Shape, HeapOK, NEW t \in Thread, CallOK(t), Released(t)
  PROVE  HeapOK'
<1>1. /\ at(t) = "spans" /\ UNCHANGED <<spans, lists, tc_slots>> /\ call[t].list = {}
      /\ call[t].cl \in Class
  BY Zenon DEF Released, slots, CallOK
<1>c. PICK c \in Class : c = call[t].cl
  BY <1>1, Zenon
<1>2. CASE call[t].victim = None /\ Returns(t, {})
  <2>1. call[t].range = {}
    BY <1>1, <1>2, Zenon DEF CallOK
  <2>2. /\ program' = program /\ Others(t) /\ call'[t].at \in {"idle", "insert"}
        /\ call'[t].list = {}
    BY <1>1, <1>2, InsertReturns, Zenon DEF HeapOK
  <2>3. PICK R \in SUBSET list[t][c] : /\ ListTo(t, c, list[t][c] \ R)
                                       /\ call'[t].range = R /\ (R # {} => call'[t].cl = c)
    BY <1>1, <1>2, <1>c, InsertReturns, Zenon DEF HeapOK
  <2>4. SpansOK' /\ Leaving' = Leaving
    BY <1>1, <2>2, SpansStill, Zenon DEF HeapOK
  <2>5. Owned'
    <3>1. /\ list[t][c] \cup {} = list[t][c] /\ program \ {} = program
          /\ {} \subseteq program /\ \A o \in {} : sizeclass[o[1]] = c
      OBVIOUS
    <3>2. R \subseteq list[t][c] \cup {} /\ ListTo(t, c, (list[t][c] \cup {}) \ R)
      BY <2>3, <3>1, Zenon
    <3> QED
      BY <1>1, <2>1, <2>2, <2>3, <2>4, <3>1, <3>2, ShiftKeeps, Zenon DEF HeapOK, spans
  <2>6. HeapShape'
    <3>1. tc_slots' \in [Class -> Seq(SUBSET (Span \X Nat))]
      BY <1>1, Zenon DEF HeapOK, HeapShape
    <3> QED
      BY <1>1, <2>3, <3>1, ListToShape, StillShape, Zenon DEF HeapOK
  <2> QED
    BY <2>4, <2>5, <2>6, Zenon DEF HeapOK
<1>3. CASE Goto(t, [call[t] EXCEPT !.at = "shrunk", !.victim = None, !.ok = TRUE])
  <2> DEFINE new == [call[t] EXCEPT !.at = "shrunk", !.victim = None, !.ok = TRUE]
  <2>1. /\ DOMAIN new = CallFields /\ new.at = "shrunk"
        /\ \A f \in {"cl", "range", "list"} : new[f] = call[t][f]
    BY Zenon DEF Shape, CallFields
  <2> HIDE DEF new
  <2>2. Others(t) /\ call'[t] = new
    BY <1>3, <2>1, GotoIsLocal, Zenon DEF new
  <2>3. UNCHANGED <<program, list>>
    BY <1>3, Zenon DEF Goto, cache, free_list
  <2>4. /\ call'[t].at = "shrunk" /\ call'[t].range = call[t].range
        /\ call'[t].list = call[t].list /\ call'[t].cl = call[t].cl
    BY <2>1, <2>2, Zenon
  <2> QED
    BY <1>1, <2>2, <2>3, <2>4, StillStep, Zenon
<1> QED
  BY <1>2, <1>3, Zenon DEF Released

LEMMA ShrinkStep ==
  \A t \in Thread :
    Shape /\ HeapOK /\ CallOK(t) /\ ShrinkCache(t) => HeapOK'
\* A slot of the transfer cache of class v goes to that list.
<1>TakingKeeps.
    ASSUME Owned, UNCHANGED <<sizeclass, objects, program, list>>, Leaving' = Leaving,
           NEW t \in Thread, NEW v \in Class, NEW i, Others(t), Taken(v, i),
           call[t].list = {}, call'[t].range = call[t].range, call'[t].cl = call[t].cl,
           call'[t].list = tc_slots[v][i], Releasing(t)' = v
    PROVE  Owned'
  <2> USE <1>TakingKeeps
  <2> DEFINE A == tc_slots[v][i]
  <2>1. ASSUME NEW o, NEW k, NEW x, NEW y, Loc(o, k, x, y)'
        PROVE  \/ Loc(o, k, x, y) /\ ~(k = "list" /\ x = t)
               \/ o \in A /\ k = "list" /\ x = t /\ y = None
    <3>1. CASE k = "slot"
      BY <2>1, <3>1, Zenon DEF Loc, Taken
    <3>2. CASE k # "slot"
      BY <2>1, <3>2, Zenon DEF Loc, Others
    <3> QED
      BY <3>1, <3>2, Zenon
  <2>2. ASSUME NEW o, NEW k, NEW x, NEW y, Loc(o, k, x, y), ~Loc(o, k, x, y)'
        PROVE  o \in A
    <3>1. CASE k = "slot"
      BY <2>2, <3>1, Zenon DEF Loc, Taken
    <3>2. CASE k # "slot"
      BY <2>2, <3>2, Zenon DEF Loc, Others
    <3> QED
      BY <3>1, <3>2, Zenon
  <2>3. ASSUME NEW o \in A
        PROVE  /\ Loc(o, "list", t, None)' /\ Loc(o, "slot", v, i) /\ ~Loc(o, "slot", v, i)'
               /\ o[1] \notin Leaving /\ Fit(o, "list", t, None)'
    <3>1. Loc(o, "list", t, None)' /\ Loc(o, "slot", v, i) /\ ~Loc(o, "slot", v, i)'
      BY Zenon DEF Loc, Taken
    <3> QED
      BY <3>1 DEF Owned, RightPlace, Fit
  <2>4. ASSUME NEW o, NEW k, NEW x, NEW y, Loc(o, k, x, y)' PROVE Fit(o, k, x, y)'
    <3>1. CASE Loc(o, k, x, y) /\ k = "range" /\ x = t
      BY <3>1, Zenon DEF Owned, RightPlace, Fit
    <3>2. CASE Loc(o, k, x, y) /\ ~(k \in {"range", "list"} /\ x = t)
      BY <3>2, FitStays, Zenon
    <3> QED
      BY <2>1, <2>3, <2>4, <3>1, <3>2
  <2> HIDE DEF A
  <2>5. Moves(A, "list", t, None, {}, "none", None, None)
    BY <2>1, <2>2, <2>3, <2>4, Zenon DEF Moves
  <2> QED
    BY <2>5, MovesKeep, Zenon
<1> SUFFICES ASSUME Shape, HeapOK, NEW t \in Thread, CallOK(t), ShrinkCache(t)
             PROVE  HeapOK'
  OBVIOUS
<1>1. /\ at(t) = "shrink" /\ UNCHANGED <<spans, lists>> /\ call[t].list = {}
      /\ call[t].victim \in Class
  BY Zenon DEF ShrinkCache, CallOK
<1>v. PICK v \in Class : v = call[t].victim
  BY <1>1, Zenon
<1>2. ASSUME NEW b, Goto(t, [call[t] EXCEPT !.at = "shrunk", !.victim = None, !.ok = b]),
             UNCHANGED tc_slots
      PROVE  HeapOK'
  <2> DEFINE new == [call[t] EXCEPT !.at = "shrunk", !.victim = None, !.ok = b]
  <2>1. /\ DOMAIN new = CallFields /\ new.at = "shrunk"
        /\ \A f \in {"cl", "range", "list"} : new[f] = call[t][f]
    BY Zenon DEF Shape, CallFields
  <2> HIDE DEF new
  <2>2. Others(t) /\ call'[t] = new
    BY <1>2, <2>1, GotoIsLocal, Zenon DEF new
  <2>3. UNCHANGED <<program, list>>
    BY <1>2, Zenon DEF Goto, cache, free_list
  <2>4. /\ call'[t].at = "shrunk" /\ call'[t].range = call[t].range
        /\ call'[t].list = call[t].list /\ call'[t].cl = call[t].cl
    BY <2>1, <2>2, Zenon
  <2> QED
    BY <1>1, <1>2, <2>2, <2>3, <2>4, StillStep, Zenon
<1>3. ASSUME Goto(t, [call[t] EXCEPT !.at = "spans", !.list = tc_slots[v][Len(tc_slots[v])]]),
             tc_slots' = [tc_slots EXCEPT ![v] = SubSeq(@, 1, Len(@) - 1)],
             Len(tc_slots[v]) > 0
      PROVE  HeapOK'
  <2>i. PICK i : i = Len(tc_slots[v])
    BY Zenon
  <2> DEFINE new == [call[t] EXCEPT !.at = "spans", !.list = tc_slots[v][Len(tc_slots[v])]]
  <2>1. /\ DOMAIN new = CallFields /\ new.at = "spans" /\ new.list = tc_slots[v][i]
        /\ \A f \in {"cl", "range", "victim"} : new[f] = call[t][f]
    BY <2>i, Zenon DEF Shape, CallFields
  <2> HIDE DEF new
  <2>2. Others(t) /\ call'[t] = new
    BY <1>3, <2>1, GotoIsLocal, Zenon DEF new
  <2>3. UNCHANGED <<program, list>>
    BY <1>3, Zenon DEF Goto, cache, free_list
  <2>4. Taken(v, i)
    BY <1>3, <2>i, FrontTakes, Zenon DEF HeapOK
  <2>5. /\ call'[t].at = "spans" /\ call'[t].range = call[t].range
        /\ call'[t].list = tc_slots[v][i] /\ call'[t].cl = call[t].cl /\ Releasing(t)' = v
    BY <1>v, <2>1, <2>2, NoneAssumption, Zenon DEF Releasing
  <2>6. SpansOK' /\ Leaving' = Leaving
    BY <1>1, <2>2, <2>5, SpansStill, Zenon DEF HeapOK
  <2>7. Owned'
    BY <1>1, <2>2, <2>3, <2>4, <2>5, <2>6, <1>TakingKeeps, Zenon DEF HeapOK, spans
  <2>8. HeapShape'
    <3>1. DOMAIN list' = Thread /\ \A u \in Thread : DOMAIN list'[u] = Class
      BY <2>3, Zenon DEF HeapOK, HeapShape
    <3> QED
      BY <1>1, <2>4, <3>1, StillShape, Zenon DEF HeapOK, Taken
  <2> QED
    BY <2>6, <2>7, <2>8, Zenon DEF HeapOK
<1>4. \/ /\ \E b : Goto(t, [call[t] EXCEPT !.at = "shrunk", !.victim = None, !.ok = b])
         /\ UNCHANGED tc_slots
      \/ /\ Goto(t, [call[t] EXCEPT !.at = "spans", !.list = tc_slots[v][Len(tc_slots[v])]])
         /\ tc_slots' = [tc_slots EXCEPT ![v] = SubSeq(@, 1, Len(@) - 1)]
         /\ Len(tc_slots[v]) # 0
  BY <1>v, Zenon DEF ShrinkCache, slots, used_slots
<1>5. Len(tc_slots[v]) # 0 => Len(tc_slots[v]) > 0
  BY DEF HeapOK, HeapShape
<1> QED
  BY <1>2, <1>3, <1>4, <1>5, Zenon

\* The program has objects of spans only.
LEMMA ProgramClass ==
  ASSUME HeapOK, NEW o \in program
  PROVE  sizeclass[o[1]] \in Class
<1>1. Loc(o, "program", None, None)
  BY Zenon DEF Loc
<1>2. Home(o)
  BY <1>1, Zenon DEF HeapOK, Owned, RightPlace
<1> QED
  BY <1>2, Zenon DEF Home

LEMMA CacheHeap ==
  \A t \in Thread :
    Shape /\ HeapOK /\ CallOK(t) /\ (in(t) = "program" => at(t) = "idle")
      /\ (CacheStep(t) \/ Ask(t)) /\ UNCHANGED central => HeapOK'
\* Thread t frees the objects G, and the objects R go to a call of InsertRange.
<1>ShiftStep.
    ASSUME HeapOK, NEW t \in Thread, CallOK(t), at(t) = "idle", Others(t), UNCHANGED central,
           NEW c \in Class, NEW G, NEW R, G \subseteq program, \A o \in G : sizeclass[o[1]] = c,
           program' = program \ G, R \subseteq list[t][c] \cup G,
           ListTo(t, c, (list[t][c] \cup G) \ R),
           call'[t].at \in {"idle", "insert"}, call'[t].range = R, call'[t].list = {},
           R # {} => call'[t].cl = c
    PROVE  HeapOK'
  <2> USE <1>ShiftStep
  <2>1. call[t].range = {} /\ call[t].list = {}
    BY Zenon DEF CallOK
  <2>2. UNCHANGED <<spans, lists, tc_slots>> /\ UNCHANGED <<sizeclass, objects, tc_slots>>
    BY Zenon DEF central, slots, spans
  <2>3. SpansOK' /\ Leaving' = Leaving
    BY <2>2, SpansStill, Zenon DEF HeapOK
  <2>4. Owned'
    BY <2>1, <2>2, <2>3, ShiftKeeps, Zenon DEF HeapOK
  <2>5. HeapShape'
    <3>1. tc_slots' \in [Class -> Seq(SUBSET (Span \X Nat))]
      BY <2>2, Zenon DEF HeapOK, HeapShape
    <3> QED
      BY <2>2, <3>1, ListToShape, StillShape, Zenon DEF HeapOK
  <2> QED
    BY <2>3, <2>4, <2>5, Zenon DEF HeapOK
\* ReleaseToCentralCache of a list that has just got the objects G.
<1>ReleaseHeap.
    ASSUME Shape, HeapOK, NEW t \in Thread, CallOK(t), at(t) = "idle", UNCHANGED central,
           NEW c \in Class, NEW G, G \subseteq program, \A o \in G : sizeclass[o[1]] = c,
           program' = program \ G, NEW why, why # "program", NEW L, L = list[t][c] \cup G,
           NEW N, NEW todo, NEW clear, ReleaseToCentralCache(t, why, c, L, N, todo, clear)
    PROVE  HeapOK'
  <2> USE <1>ReleaseHeap
  <2>1. Others(t)
    BY ReleaseIsCalm, Zenon DEF Calm
  <2>2. PICK R \in SUBSET L : list' = [list EXCEPT ![t][c] = L \ R] /\ InsertRange_call(t, c, R)
    BY Zenon DEF ReleaseToCentralCache, NextRange, kSubset
  <2>3. /\ call'[t].at = "insert" /\ call'[t].range = R /\ call'[t].list = {} /\ call'[t].cl = c
    BY <2>2, Zenon DEF InsertRange_call, Idle, Shape
  <2>4. ListTo(t, c, (list[t][c] \cup G) \ R)
    BY <2>2, ListToEXCEPT, Zenon DEF HeapOK
  <2> QED
    BY <2>1, <2>2, <2>3, <2>4, <1>ShiftStep, Zenon
\* A step of a thread outside of calls that moves no object.
<1>IdleStep.
    ASSUME HeapOK, NEW t \in Thread, CallOK(t), at(t) = "idle", Others(t), call' = call \/
           (\E c, n : RemoveRange_call(t, c, n)), Shape,
           UNCHANGED central, UNCHANGED <<program, list>>
    PROVE  HeapOK'
  <2> USE <1>IdleStep
  <2>1. call[t].range = {} /\ call[t].list = {}
    BY Zenon DEF CallOK
  <2>2. /\ call'[t].at \in {"idle", "remove"} /\ call'[t].range = {} /\ call'[t].list = {}
    BY <2>1, ZenonT(30) DEF RemoveRange_call, Idle, Shape, at
  <2>3. UNCHANGED <<spans, lists, program, list, tc_slots>>
    BY Zenon DEF central, slots
  <2> QED
    BY <2>1, <2>2, <2>3, StillStep, Zenon
<1>ScavengeStep.
    ASSUME Shape, HeapOK, NEW t \in Thread, CallOK(t), UNCHANGED central, Scavenge(t) \/ Cleanup(t)
    PROVE  HeapOK'
  <2> USE <1>ScavengeStep
  <2>1. CASE Scavenge(t)
    <3>1. PICK c \in op[t].todo :
           \E N, todo, clear : ReleaseToCentralCache(t, "scavenge", c, list[t][c], N, todo, clear)
      BY <2>1, Zenon DEF Scavenge
    <3>2. at(t) = "idle" /\ program' = program /\ c \in Class
      BY <2>1, Zenon DEF Scavenge, CallOK
    <3>3. list[t][c] = list[t][c] \cup {} /\ program' = program \ {} /\ {} \subseteq program
      BY <3>2, Zenon
    <3> QED
      BY <3>1, <3>2, <3>3, <1>ReleaseHeap, Zenon
  <2>2. CASE Cleanup(t)
    <3>1. PICK c \in Class :
           \E N, todo, clear : ReleaseToCentralCache(t, "cleanup", c, list[t][c], N, todo, clear)
      BY <2>2, Zenon DEF Cleanup
    <3>2. at(t) = "idle" /\ program' = program /\ c \in Class
      BY <2>2, Zenon DEF Cleanup, CallOK
    <3>3. list[t][c] = list[t][c] \cup {} /\ program' = program \ {} /\ {} \subseteq program
      BY <3>2, Zenon
    <3> QED
      BY <3>1, <3>2, <3>3, <1>ReleaseHeap, Zenon
  <2> QED
    BY <2>1, <2>2, Zenon
<1>AllocateStep.
    \A t \in Thread : \A c \in Class :
      Shape /\ HeapOK /\ CallOK(t) /\ at(t) = "idle" /\ UNCHANGED central /\ Allocate(t, c)
        => HeapOK'
  \* An object goes from the list of a thread to the program.
  <2>AllocateKeeps.
      ASSUME Owned, UNCHANGED <<sizeclass, objects, tc_slots, call>>, Leaving' = Leaving,
             NEW t \in Thread, NEW c \in Class, NEW o \in list[t][c],
             program' = program \cup {o}, ListTo(t, c, list[t][c] \ {o})
      PROVE  Owned'
    <3> USE <2>AllocateKeeps
    <3>1. ASSUME NEW p, NEW k, NEW x, NEW y, Loc(p, k, x, y)'
          PROVE  Loc(p, k, x, y) \/ (p \in {o} /\ k = "program" /\ x = None /\ y = None)
      BY <3>1, Zenon DEF Loc, ListTo
    <3>2. ASSUME NEW p, NEW k, NEW x, NEW y, Loc(p, k, x, y), ~Loc(p, k, x, y)' PROVE p \in {o}
      BY <3>2, Zenon DEF Loc, ListTo
    <3>3. /\ Loc(o, "program", None, None)' /\ Fit(o, "program", None, None)'
          /\ Loc(o, "cache", t, c) /\ ~Loc(o, "cache", t, c)'
      BY Zenon DEF Loc, Fit, ListTo
    <3>4. o[1] \notin Leaving
      BY <3>3 DEF Owned, RightPlace
    <3>5. ASSUME NEW p, NEW k, NEW x, NEW y, Loc(p, k, x, y)' PROVE Fit(p, k, x, y)'
      <4>1. CASE Loc(p, k, x, y)
        <5>1. Fit(p, k, x, y)
          BY <4>1, Zenon DEF Owned, RightPlace
        <5> QED
          BY <5>1, Zenon DEF Fit, Releasing
      <4> QED
        BY <3>1, <3>3, <3>5, <4>1, Zenon
    <3>6. Moves({o}, "program", None, None, {}, "none", None, None)
      BY <3>1, <3>2, <3>3, <3>4, <3>5, Zenon DEF Moves
    <3> QED
      BY <3>6, MovesKeep, Zenon
  <2> SUFFICES ASSUME Shape, HeapOK, NEW t \in Thread, CallOK(t), at(t) = "idle", UNCHANGED central,
                  NEW c \in Class, Allocate(t, c)
               PROVE  HeapOK'
    OBVIOUS
  <2>1. CASE list[t][c] # {}
    <3>1. PICK o \in list[t][c] : /\ list' = [list EXCEPT ![t][c] = list[t][c] \ {o}]
                                  /\ program' = program \cup {o} /\ UNCHANGED <<call, op>>
      BY <2>1, Zenon DEF Allocate
    <3>2. UNCHANGED <<spans, lists, tc_slots>> /\ UNCHANGED <<sizeclass, objects, tc_slots, call>>
      BY <3>1, Zenon DEF central, slots, spans
    <3>3. ListTo(t, c, list[t][c] \ {o})
      BY <3>1, ListToEXCEPT, Zenon DEF HeapOK
    <3>4. Others(t)
      BY <3>1, Zenon DEF Others, Shape
    <3>5. SpansOK' /\ Leaving' = Leaving
      <4>1. call'[t].at = "idle"
        BY <3>1, Zenon DEF at
      <4> QED
        BY <3>2, <3>4, <4>1, SpansStill, Zenon DEF HeapOK
    <3>6. Owned'
      BY <3>1, <3>2, <3>3, <3>5, <2>AllocateKeeps, Zenon DEF HeapOK
    <3>7. HeapShape'
      <4>1. tc_slots' \in [Class -> Seq(SUBSET (Span \X Nat))]
        BY <3>2, Zenon DEF HeapOK, HeapShape
      <4> QED
        BY <3>2, <3>3, <4>1, ListToShape, StillShape, Zenon DEF HeapOK
    <3> QED
      BY <3>5, <3>6, <3>7, Zenon DEF HeapOK
  <2>2. CASE list[t][c] = {}
    <3>1. /\ \E n : RemoveRange_call(t, c, n) /\ UNCHANGED <<program, list>>
          /\ op' = [op EXCEPT ![t].in = "fetch", ![t].cl = c]
      BY <2>2, Zenon DEF Allocate
    <3>2. /\ DOMAIN op' = Thread /\ DOMAIN op'[t] = OpFields /\ \A u \in Thread \ {t} : op'[u] = op[u]
      BY <3>1, Zenon DEF Shape
    <3>3. /\ DOMAIN call' = Thread /\ DOMAIN call'[t] = CallFields
          /\ \A u \in Thread \ {t} : call'[u] = call[u]
      BY <3>1, Zenon DEF Shape, RemoveRange_call, Idle, CallFields
    <3>4. Others(t)
      BY <3>2, <3>3, Zenon DEF Others
    <3> QED
      BY <3>1, <3>4, <1>IdleStep, Zenon
  <2> QED
    BY <2>1, <2>2, Zenon
<1>DeallocateStep.
    ASSUME Shape, HeapOK, NEW t \in Thread, CallOK(t), at(t) = "idle", UNCHANGED central,
           NEW o \in program, NEW c \in Class, c = sizeclass[o[1]], Deallocate(t, c, o)
    PROVE  HeapOK'
  <2> USE <1>DeallocateStep
  <2>1. program' = program \ {o} /\ {o} \subseteq program /\ \A p \in {o} : sizeclass[p[1]] = c
    BY Zenon DEF Deallocate
  <2>2. CASE ReleaseToCentralCache(t, "toolong", c, list[t][c] \cup {o}, num_objects_to_move[c], {}, {})
    BY <2>1, <2>2, <1>ReleaseHeap, Zenon
  <2>3. CASE /\ list' = [list EXCEPT ![t][c] = list[t][c] \cup {o}] /\ call' = call
             /\ \E w \in {Scavenging, Working} : op' = [op EXCEPT ![t] = w]
    <3>1. DOMAIN Scavenging = OpFields /\ DOMAIN Working = OpFields
      BY Zenon DEF Scavenging, Working, OpFields
    <3>2. Others(t)
      BY <2>3, <3>1, Zenon DEF Others, Shape
    <3>3. ListTo(t, c, (list[t][c] \cup {o}) \ {})
      <4>1. (list[t][c] \cup {o}) \ {} = list[t][c] \cup {o}
        OBVIOUS
      <4> QED
        BY <2>3, <4>1, ListToEXCEPT, Zenon DEF HeapOK
    <3>4. call'[t].at = "idle" /\ call'[t].range = {} /\ call'[t].list = {}
      BY <2>3, Zenon DEF CallOK, at
    <3>5. {} \subseteq list[t][c] \cup {o}
      OBVIOUS
    <3> QED
      BY <2>1, <3>2, <3>3, <3>4, <3>5, <1>ShiftStep, ZenonT(30)
  <2> QED
    BY <2>2, <2>3, Zenon DEF Deallocate
<1>FreeStep.
    ASSUME Shape, HeapOK, NEW t \in Thread, CallOK(t), at(t) = "idle", UNCHANGED central,
           NEW o \in program, NEW c \in Class, c = sizeclass[o[1]], FreeWithoutCache(t, c, o)
    PROVE  HeapOK'
  <2> USE <1>FreeStep
  <2>1. /\ program' = program \ {o} /\ {o} \subseteq program /\ \A p \in {o} : sizeclass[p[1]] = c
        /\ InsertRange_call(t, c, {o}) /\ list' = list
        /\ op' = [op EXCEPT ![t] = [Working EXCEPT !.in = "direct", !.cl = c]]
    BY Zenon DEF FreeWithoutCache, cache, free_list
  <2>2. Others(t)
    BY <2>1, Zenon DEF InsertRange_call, Others, Shape, Idle, Working, CallFields, OpFields
  <2>3. /\ call'[t].at = "insert" /\ call'[t].range = {o} /\ call'[t].list = {} /\ call'[t].cl = c
    BY <2>1, Zenon DEF InsertRange_call, Idle, Shape
  <2>4. ListTo(t, c, (list[t][c] \cup {o}) \ {o})
    <3>1. o \notin list[t][c]
      <4>1. Loc(o, "program", None, None)
        BY Zenon DEF Loc
      <4>2. ~Loc(o, "cache", t, c)
        <5>1. \A k, x, y, l, v, w : Loc(o, k, x, y) /\ Loc(o, l, v, w) => k = l
          BY Zenon DEF HeapOK, Owned, OnePlace
        <5> QED
          BY <4>1, <5>1, Zenon
      <4> QED
        BY <4>1, <4>2, Zenon DEF Loc
    <3>2. (list[t][c] \cup {o}) \ {o} = list[t][c]
      BY <3>1, Zenon
    <3>3. ListTo(t, c, list[t][c])
      BY <2>1, Zenon DEF ListTo, HeapOK, HeapShape
    <3> QED
      BY <3>2, <3>3, Zenon
  <2>5. {o} \subseteq list[t][c] \cup {o}
    OBVIOUS
  <2> QED
    BY <2>1, <2>2, <2>3, <2>4, <2>5, <1>ShiftStep, Zenon
<1> SUFFICES ASSUME Shape, HeapOK, NEW t \in Thread, CallOK(t), in(t) = "program" => at(t) = "idle",
                CacheStep(t) \/ Ask(t), UNCHANGED central
             PROVE  HeapOK'
  OBVIOUS
<1>1. CASE IncreaseCacheLimit(t)
  <2>1. Others(t) /\ at(t) = "idle" /\ call' = call /\ UNCHANGED <<program, list>>
    BY <1>1, Zenon DEF IncreaseCacheLimit, Others, Shape, Working, OpFields
  <2> QED
    BY <2>1, <1>IdleStep, Zenon
<1>2. CASE DeleteCache(t)
  <2>1. Others(t) /\ at(t) = "idle" /\ call' = call /\ UNCHANGED <<program, list>>
    BY <1>2, Zenon DEF DeleteCache, Others, Shape, Working, OpFields
  <2> QED
    BY <2>1, <1>IdleStep, Zenon
<1>3. CASE CreateCacheIfNecessary(t)
  <2>1. Others(t) /\ at(t) = "idle" /\ call' = call /\ UNCHANGED <<program, list>>
    BY <1>3, Zenon DEF CreateCacheIfNecessary, Others, Shape, free_list
  <2> QED
    BY <2>1, <1>IdleStep, Zenon
<1>4. ASSUME NEW c \in Class, Allocate(t, c) PROVE HeapOK'
  <2>1. at(t) = "idle"
    BY <1>4, Zenon DEF Allocate
  <2> QED
    BY <1>4, <2>1, <1>AllocateStep, Zenon
<1>5. ASSUME NEW o \in program, Deallocate(t, sizeclass[o[1]], o) PROVE HeapOK'
  <2>1. at(t) = "idle" /\ sizeclass[o[1]] \in Class
    BY <1>5, ProgramClass, Zenon DEF Deallocate
  <2> QED
    BY <1>5, <2>1, <1>DeallocateStep, Zenon
<1>6. ASSUME NEW o \in program, FreeWithoutCache(t, sizeclass[o[1]], o) PROVE HeapOK'
  <2>1. at(t) = "idle" /\ sizeclass[o[1]] \in Class
    BY <1>6, ProgramClass, Zenon DEF FreeWithoutCache
  <2> QED
    BY <1>6, <2>1, <1>FreeStep, Zenon
<1> QED
  BY <1>1, <1>2, <1>3, <1>4, <1>5, <1>6, <1>ScavengeStep, Zenon DEF CacheStep, Ask, DestroyThreadCache

(***************************************************************************)
(* The steps that get a span from the page heap and give one back.         *)
(***************************************************************************)

\* A step of t leaves the spans that the other threads hold alone.
LEMMA HeldStep ==
  ASSUME Held, NEW t \in Thread, Others(t),
         \A u \in Thread \ {t} : Holding(u) =>
           /\ sizeclass'[call[u].span] = sizeclass[call[u].span]
           /\ objects'[call[u].span] = objects[call[u].span],
         call'[t].at = "delete" => call'[t].span # None,
         Holding(t)' =>
           /\ call'[t].span \in Span /\ sizeclass'[call'[t].span] \in Class
           /\ \A u \in Thread \ {t} : Holding(u) => call[u].span # call'[t].span,
         Holding(t)' /\ call'[t].at = "populated" =>
           /\ sizeclass'[call'[t].span] = call'[t].cl
           /\ objects'[call'[t].span] = ObjectsOf(call'[t].span, call'[t].cl)
  PROVE  Held'
<1>1. ASSUME NEW u \in Thread \ {t}
      PROVE  call'[u] = call[u] /\ (Holding(u)' <=> Holding(u)) /\ (at(u)' = at(u))
  BY Zenon DEF Others, Holding, at
<1>2. \A u \in Thread : Holding(u)' =>
        call'[u].span \in Span /\ sizeclass'[call'[u].span] \in Class
  BY <1>1, SMTT(20) DEF Held
<1>3. \A u \in Thread : at(u)' = "delete" => call'[u].span # None
  BY <1>1 DEF Held, at
<1>4. ASSUME NEW u \in Thread, Holding(u)', at(u)' = "populated"
      PROVE  /\ sizeclass'[call'[u].span] = call'[u].cl
             /\ objects'[call'[u].span] = ObjectsOf(call'[u].span, call'[u].cl)
  <2>1. CASE u = t
    BY <1>4, <2>1, Zenon DEF at
  <2>2. CASE u # t
    <3>1. call'[u] = call[u] /\ Holding(u) /\ at(u) = "populated"
      BY <1>1, <1>4, <2>2, Zenon
    <3> QED
      BY <2>2, <3>1 DEF Held
  <2> QED
    BY <2>1, <2>2, Zenon
<1>5. \A u, v \in Thread : Holding(u)' /\ Holding(v)' /\ call'[u].span = call'[v].span => u = v
  BY <1>1 DEF Held
<1> QED
  BY <1>2, <1>3, <1>4, <1>5, Zenon DEF Held

LEMMA ExactSame ==
  ASSUME NEW M, NEW objs, NEW objs2, NEW full, NEW none, NEW n, NEW free,
         Exact(M, objs, full, none, n, free), \A s \in M : objs2[s] = objs[s]
  PROVE  Exact(M, objs2, full, none, n, free)
<1>1. UNION {objs2[s] : s \in M} = UNION {objs[s] : s \in M}
  OBVIOUS
<1> QED
  BY <1>1, Zenon DEF Exact

\* A step that leaves the list of class c, and the free objects of its spans, alone.
LEMMA ListStill ==
  ASSUME SpansOK, NEW c \in Class, Mine(c)' = Mine(c), \A s \in Mine(c) : objects'[s] = objects[s],
         nonempty'[c] = nonempty[c], empty'[c] = empty[c], counter'[c] = counter[c],
         num_spans'[c] = num_spans[c]
  PROVE  ListsExact(c)'
<1>1. Exact(Mine(c), objects', nonempty[c], empty[c], num_spans[c], counter[c])
  BY ExactSame, Zenon DEF SpansOK, ListsExact
<1> QED
  BY <1>1, Zenon DEF ListsExact

LEMMA ListsStill ==
  ASSUME SpansOK, UNCHANGED lists, NEW c \in Class, Mine(c)' = Mine(c),
         \A s \in Mine(c) : objects'[s] = objects[s]
  PROVE  ListsExact(c)'
<1>1. /\ nonempty'[c] = nonempty[c] /\ empty'[c] = empty[c] /\ counter'[c] = counter[c]
      /\ num_spans'[c] = num_spans[c]
  BY Zenon DEF lists
<1> QED
  BY <1>1, ListStill, Zenon

LEMMA PopulateStep ==
  \A t \in Thread :
    Shape /\ HeapOK /\ CallOK(t) /\ Populate(t) /\ Cardinality({}) = 0 => HeapOK'
\* The page heap gives the span s, which no object is in.
<1>PopulateOwned.
    ASSUME HeapShape, Owned, NEW t \in Thread, Others(t), Leaving' = Leaving,
           NEW s \in Span, NEW c \in Class, sizeclass[s] = None, s \notin Leaving,
           sizeclass' = [sizeclass EXCEPT ![s] = c],
           objects' = [objects EXCEPT ![s] = ObjectsOf(s, c)],
           UNCHANGED <<program, list, tc_slots>>,
           call[t].range = {}, call[t].list = {}, call'[t].range = {}, call'[t].list = {}
    PROVE  Owned'
  <2> USE <1>PopulateOwned
  <2>1. ASSUME NEW o, NEW k, NEW x, NEW y, Loc(o, k, x, y)
        PROVE  Home(o) /\ Fit(o, k, x, y) /\ (o[1] \in Leaving => k = "span") /\ o[1] # s
    <3>1. Home(o) /\ Fit(o, k, x, y) /\ (o[1] \in Leaving => k = "span")
      BY <2>1, Zenon DEF Owned, RightPlace
    <3> QED
      BY <3>1, NoneAssumption, Zenon DEF Home
  <2>2. /\ sizeclass'[s] = c /\ objects'[s] = ObjectsOf(s, c)
        /\ \A x \in Span \ {s} : sizeclass'[x] = sizeclass[x] /\ objects'[x] = objects[x]
    BY Zenon DEF HeapShape
  <2>3. \A o \in ObjectsOf(s, c) : o[1] = s
    BY DEF ObjectsOf
  <2>4. ASSUME NEW o, NEW k, NEW x, NEW y
        PROVE  Loc(o, k, x, y)' <=>
                 \/ Loc(o, k, x, y)
                 \/ o \in ObjectsOf(s, c) /\ k = "span" /\ x = s /\ y = None
    <3>1. ~Loc(o, "span", s, y)
      BY <2>1, Zenon DEF Fit
    <3>2. CASE k = "span"
      BY <2>2, <3>1, <3>2, Zenon DEF Loc
    <3>3. CASE k # "span"
      BY <3>3, Zenon DEF Loc, Others
    <3> QED
      BY <3>2, <3>3, Zenon
  <2>5. OnePlace'
    <3> SUFFICES ASSUME NEW o, NEW k, NEW x, NEW y, NEW l, NEW v, NEW w,
                        Loc(o, k, x, y)', Loc(o, l, v, w)'
                 PROVE  k = l /\ x = v /\ y = w
      BY Zenon DEF OnePlace
    <3>1. CASE o[1] = s
      BY <2>1, <2>4, <3>1, Zenon
    <3>2. CASE o[1] # s
      <4>1. Loc(o, k, x, y) /\ Loc(o, l, v, w)
        BY <2>3, <2>4, <3>2, Zenon
      <4> QED
        BY <4>1, Zenon DEF Owned, OnePlace
    <3> QED
      BY <3>1, <3>2, Zenon
  <2>6. RightPlace'
    <3> SUFFICES ASSUME NEW o, NEW k, NEW x, NEW y, Loc(o, k, x, y)'
                 PROVE  Home(o)' /\ Fit(o, k, x, y)' /\ (o[1] \in Leaving' => k = "span")
      BY Zenon DEF RightPlace
    <3>1. CASE Loc(o, k, x, y)
      <4>1. Home(o) /\ Fit(o, k, x, y) /\ (o[1] \in Leaving => k = "span") /\ o[1] # s
        BY <2>1, <3>1, Zenon
      <4>2. sizeclass'[o[1]] = sizeclass[o[1]]
        BY <2>2, <4>1, Zenon DEF Home
      <4>3. k \in {"range", "list"} => x \in Thread \ {t}
        BY <3>1, Zenon DEF Loc
      <4> QED
        BY <4>1, <4>2, <4>3, Zenon DEF Home, Fit, Others, Releasing
    <3>2. CASE o \in ObjectsOf(s, c) /\ k = "span" /\ x = s /\ y = None
      BY <2>2, <2>3, <3>2, Zenon DEF Home, Fit
    <3> QED
      BY <2>4, <3>1, <3>2, Zenon
  <2>7. NoneLost'
    <3> SUFFICES ASSUME NEW x \in Span, sizeclass'[x] \in Class, x \notin Leaving,
                        NEW o \in ObjectsOf(x, sizeclass'[x])
                 PROVE  Located(o)'
      BY Zenon DEF NoneLost
    <3>1. CASE x = s
      <4>1. Loc(o, "span", s, None)'
        BY <2>2, <2>4, <3>1, Zenon
      <4> QED
        BY <4>1, Zenon DEF Located
    <3>2. CASE x # s
      <4>1. Located(o)
        BY <2>2, <3>2, Zenon DEF Owned, NoneLost
      <4> QED
        BY <2>4, <4>1, Zenon DEF Located
    <3> QED
      BY <3>1, <3>2, Zenon
  <2> QED
    BY <2>5, <2>6, <2>7, Zenon DEF Owned
<1>PopulateSpans.
    ASSUME HeapShape, Owned, SpansOK, NEW t \in Thread, Others(t), at(t) = "populate",
           NEW s \in Span, NEW c \in Class, sizeclass[s] = None,
           sizeclass' = [sizeclass EXCEPT ![s] = c],
           objects' = [objects EXCEPT ![s] = ObjectsOf(s, c)],
           refcount' = [refcount EXCEPT ![s] = 0], UNCHANGED lists,
           call'[t].at = "populated", call'[t].span = s, call'[t].cl = c, Cardinality({}) = 0
    PROVE  SpansOK' /\ Leaving' = Leaving /\ s \notin Leaving
  <2> USE <1>PopulateSpans
  <2>1. /\ sizeclass'[s] = c /\ objects'[s] = ObjectsOf(s, c) /\ refcount'[s] = 0
        /\ \A x \in Span \ {s} : /\ sizeclass'[x] = sizeclass[x] /\ objects'[x] = objects[x]
                                 /\ refcount'[x] = refcount[x]
    BY Zenon DEF HeapShape
  <2>2. Leaving' = Leaving
    BY LeavingSame, Zenon
  <2>3. \A u \in Thread : Holding(u) => call[u].span \in Span \ {s}
    BY NoneAssumption, Zenon DEF SpansOK, Held
  <2>4. s \notin Leaving
    BY <2>3, Zenon DEF SpansOK, Held, Leaving, Holding
  <2>5. s # None
    BY NoneAssumption, Zenon
  <2>6. Coming' = Coming \cup {s}
    <3>1. \A x : x \in Coming <=> x # None /\ \E u \in Thread \ {t} : call[u].at = "populated" /\ call[u].span = x
      BY Zenon DEF Coming, at
    <3>2. \A x : x \in Coming' <=> x # None /\ \E u \in Thread : call'[u].at = "populated" /\ call'[u].span = x
      BY Zenon DEF Coming, at
    <3>3. \A u \in Thread \ {t} : call'[u] = call[u]
      BY Zenon DEF Others
    <3> QED
      BY <2>5, <3>1, <3>2, <3>3
  <2>7. Held'
    <3>1. \A u \in Thread \ {t} : Holding(u) =>
            /\ sizeclass'[call[u].span] = sizeclass[call[u].span]
            /\ objects'[call[u].span] = objects[call[u].span] /\ call[u].span # call'[t].span
      BY <2>1, <2>3, Zenon
    <3>2. /\ call'[t].at # "delete" /\ call'[t].span \in Span
          /\ sizeclass'[call'[t].span] = call'[t].cl /\ call'[t].cl \in Class
          /\ objects'[call'[t].span] = ObjectsOf(call'[t].span, call'[t].cl)
      BY <2>1, Zenon
    <3> QED
      BY <3>1, <3>2, HeldStep, Zenon DEF SpansOK
  <2>8. RefCounts'
    <3> SUFFICES ASSUME NEW x \in Span, sizeclass'[x] \in Class, x \notin Leaving
                 PROVE  refcount'[x] = Cardinality(ObjectsOf(x, sizeclass'[x]) \ objects'[x])
      BY <2>2, Zenon DEF RefCounts
    <3>1. CASE x = s
      <4>1. ObjectsOf(s, c) \ ObjectsOf(s, c) = {}
        OBVIOUS
      <4>2. Cardinality(ObjectsOf(s, c) \ ObjectsOf(s, c)) = 0
        BY <4>1, Zenon
      <4> QED
        BY <2>1, <3>1, <4>2, Zenon
    <3>2. CASE x # s
      BY <2>1, <3>2, Zenon DEF SpansOK, RefCounts
    <3> QED
      BY <3>1, <3>2, Zenon
  <2>9. ASSUME NEW d \in Class PROVE ListsExact(d)'
    <3>1. Mine(d)' = Mine(d) /\ s \notin Mine(d)
      BY <2>1, <2>2, <2>6, NoneAssumption DEF Mine
    <3>2. \A x \in Mine(d) : objects'[x] = objects[x]
      BY <2>1, <3>1, Zenon DEF Mine
    <3> QED
      BY <3>1, <3>2, ListsStill, Zenon
  <2> QED
    BY <2>2, <2>4, <2>7, <2>8, <2>9, Zenon DEF SpansOK
<1> SUFFICES ASSUME Shape, HeapOK, NEW t \in Thread, CallOK(t), Populate(t), Cardinality({}) = 0
             PROVE  HeapOK'
  OBVIOUS
<1>1. /\ at(t) = "populate" /\ call[t].cl \in Class /\ UNCHANGED <<lists, tc_slots>>
      /\ call[t].range = {} /\ call[t].list = {} /\ call[t].span = None
  BY Zenon DEF Populate, CallOK, slots, Fetching
<1>c. PICK c \in Class : c = call[t].cl
  BY <1>1, Zenon
<1>2. ASSUME NEW s \in Span, sizeclass[s] = None, sizeclass' = [sizeclass EXCEPT ![s] = c],
             objects' = [objects EXCEPT ![s] = ObjectsOf(s, c)],
             refcount' = [refcount EXCEPT ![s] = 0],
             Goto(t, [call[t] EXCEPT !.at = "populated", !.span = s])
      PROVE  HeapOK'
  <2> DEFINE new == [call[t] EXCEPT !.at = "populated", !.span = s]
  <2>1. /\ DOMAIN new = CallFields /\ new.at = "populated" /\ new.span = s /\ new.cl = call[t].cl
        /\ new.range = call[t].range /\ new.list = call[t].list
    BY Zenon DEF Shape, CallFields
  <2> HIDE DEF new
  <2>2. Others(t) /\ call'[t] = new
    BY <1>2, <2>1, GotoIsLocal, Zenon DEF new
  <2>3. SpansOK' /\ Leaving' = Leaving /\ s \notin Leaving
    BY <1>1, <1>2, <1>c, <2>1, <2>2, <1>PopulateSpans, Zenon DEF HeapOK
  <2>4. UNCHANGED <<program, list, tc_slots>>
    BY <1>1, <1>2, Zenon DEF Goto, cache, free_list
  <2>5. Owned'
    BY <1>1, <1>2, <2>1, <2>2, <2>3, <2>4, <1>PopulateOwned, Zenon DEF HeapOK
  <2>6. HeapShape'
    BY <1>1, <1>2, <2>4, Zenon DEF HeapOK, HeapShape, lists
  <2> QED
    BY <2>3, <2>5, <2>6, Zenon DEF HeapOK
<1>3. CASE Goto(t, [call[t] EXCEPT !.at = "populated"]) /\ UNCHANGED spans
  <2> DEFINE new == [call[t] EXCEPT !.at = "populated"]
  <2>1. /\ DOMAIN new = CallFields /\ new.at = "populated" /\ new.span = call[t].span
        /\ new.range = call[t].range /\ new.list = call[t].list
    BY Zenon DEF Shape, CallFields
  <2> HIDE DEF new
  <2>2. Others(t) /\ call'[t] = new
    BY <1>3, <2>1, GotoIsLocal, Zenon DEF new
  <2>3. UNCHANGED <<spans, lists, program, list, tc_slots>>
    BY <1>1, <1>3, Zenon DEF Goto, cache, free_list
  <2> QED
    BY <1>1, <2>1, <2>2, <2>3, StillStep, Zenon
<1>4. \/ \E s \in Span : /\ sizeclass[s] = None /\ sizeclass' = [sizeclass EXCEPT ![s] = c]
                         /\ objects' = [objects EXCEPT ![s] = ObjectsOf(s, c)]
                         /\ refcount' = [refcount EXCEPT ![s] = 0]
                         /\ Goto(t, [call[t] EXCEPT !.at = "populated", !.span = s])
      \/ Goto(t, [call[t] EXCEPT !.at = "populated"]) /\ UNCHANGED spans
  BY <1>c, Zenon DEF Populate
<1> QED
  BY <1>2, <1>3, <1>4, Zenon

LEMMA DeleteStep ==
  \A t \in Thread :
    Shape /\ HeapOK /\ CallOK(t) /\ Delete(t) => HeapOK'
\* The span s, whose objects are all free, goes back to the page heap.
<1>DeleteOwned.
    ASSUME HeapShape, Owned, NEW t \in Thread, Others(t), NEW s \in Span,
           s \in Leaving, Leaving' = Leaving \ {s},
           sizeclass' = [sizeclass EXCEPT ![s] = None], objects' = [objects EXCEPT ![s] = {}],
           UNCHANGED <<program, list, tc_slots>>,
           call'[t].range = call[t].range, call'[t].list = call[t].list,
           call'[t].cl = call[t].cl, Releasing(t)' = Releasing(t)
    PROVE  Owned'
  <2> USE <1>DeleteOwned
  <2>1. /\ sizeclass'[s] = None /\ objects'[s] = {}
        /\ \A x \in Span \ {s} : sizeclass'[x] = sizeclass[x] /\ objects'[x] = objects[x]
    BY Zenon DEF HeapShape
  <2>2. ASSUME NEW o, NEW k, NEW x, NEW y, Loc(o, k, x, y)
        PROVE  Home(o) /\ Fit(o, k, x, y) /\ (o[1] \in Leaving => k = "span")
    BY <2>2, Zenon DEF Owned, RightPlace
  <2>3. \A u \in Thread : call'[u].range = call[u].range /\ call'[u].list = call[u].list
    BY Zenon DEF Others
  <2>4. ASSUME NEW o, NEW k, NEW x, NEW y
        PROVE  Loc(o, k, x, y)' <=> Loc(o, k, x, y) /\ o[1] # s
    <3>1. ASSUME Loc(o, k, x, y), k = "span" PROVE x = o[1]
      BY <2>2, <3>1, ZenonT(30) DEF Fit
    <3>2. ASSUME Loc(o, k, x, y), k # "span" PROVE o[1] # s
      BY <2>2, <3>2, Zenon
    <3>3. CASE k = "span"
      BY <2>1, <3>1, <3>3, Zenon DEF Loc
    <3>4. CASE k # "span"
      BY <2>3, <3>2, <3>4, Zenon DEF Loc
    <3> QED
      BY <3>3, <3>4, Zenon
  <2>5. OnePlace'
    BY <2>4, Zenon DEF Owned, OnePlace
  <2>6. RightPlace'
    <3> SUFFICES ASSUME NEW o, NEW k, NEW x, NEW y, Loc(o, k, x, y)'
                 PROVE  Home(o)' /\ Fit(o, k, x, y)' /\ (o[1] \in Leaving' => k = "span")
      BY Zenon DEF RightPlace
    <3>1. /\ Home(o) /\ Fit(o, k, x, y) /\ (o[1] \in Leaving => k = "span")
          /\ o[1] # s /\ Loc(o, k, x, y)
      BY <2>2, <2>4, Zenon
    <3>2. sizeclass'[o[1]] = sizeclass[o[1]]
      BY <2>1, <3>1, Zenon DEF Home
    <3>3. \A u \in Thread : call'[u].cl = call[u].cl /\ Releasing(u)' = Releasing(u)
      BY Zenon DEF Others, Releasing
    <3>4. k \in {"range", "list"} => x \in Thread
      BY <3>1, Zenon DEF Loc
    <3> QED
      BY <3>1, <3>2, <3>3, <3>4, Zenon DEF Home, Fit
  <2>7. NoneLost'
    <3> SUFFICES ASSUME NEW x \in Span, sizeclass'[x] \in Class, x \notin Leaving',
                        NEW o \in ObjectsOf(x, sizeclass'[x])
                 PROVE  Located(o)'
      BY Zenon DEF NoneLost
    <3>1. x # s /\ x \notin Leaving /\ sizeclass'[x] = sizeclass[x]
      BY <2>1, NoneAssumption, Zenon
    <3>2. Located(o)
      BY <3>1, Zenon DEF Owned, NoneLost
    <3>3. o[1] # s
      BY <3>1 DEF ObjectsOf
    <3> QED
      BY <2>4, <3>2, <3>3, Zenon DEF Located
  <2> QED
    BY <2>5, <2>6, <2>7, Zenon DEF Owned
<1>DeleteSpans.
    ASSUME HeapShape, Owned, SpansOK, NEW t \in Thread, Others(t), at(t) = "delete",
           NEW s \in Span, s = call[t].span,
           sizeclass' = [sizeclass EXCEPT ![s] = None], objects' = [objects EXCEPT ![s] = {}],
           UNCHANGED <<refcount, lists>>, call'[t].at = "spans", call'[t].span = None
    PROVE  SpansOK' /\ s \in Leaving /\ Leaving' = Leaving \ {s}
  <2> USE <1>DeleteSpans
  <2>1. /\ sizeclass'[s] = None /\ objects'[s] = {}
        /\ \A x \in Span \ {s} : sizeclass'[x] = sizeclass[x] /\ objects'[x] = objects[x]
    BY Zenon DEF HeapShape
  <2>2. \A u \in Thread \ {t} : Holding(u) => call[u].span \in Span \ {s}
    BY NoneAssumption, Zenon DEF SpansOK, Held, Holding
  <2>3. s \in Leaving
    BY Zenon DEF Leaving
  <2>4. \A u \in Thread \ {t} : call'[u] = call[u]
    BY Zenon DEF Others
  <2>5. \A u \in Thread : at(u) = "delete" => call[u].span \in Span /\ Holding(u)
    BY Zenon DEF SpansOK, Held, Holding
  <2>6. Leaving' = Leaving \ {s}
    <3>1. \A x : x \in Leaving <=> \E u \in Thread : at(u) = "delete" /\ call[u].span = x
      BY Zenon DEF Leaving
    <3>2. \A x : x \in Leaving' <=> \E u \in Thread \ {t} : at(u) = "delete" /\ call[u].span = x
      BY <2>4 DEF Leaving, at
    <3> QED
      BY <2>2, <2>5, <3>1, <3>2
  <2>7. Coming' = Coming
    BY <2>4 DEF Coming, at
  <2>8. Held'
    <3>1. \A u \in Thread \ {t} : Holding(u) =>
            /\ sizeclass'[call[u].span] = sizeclass[call[u].span]
            /\ objects'[call[u].span] = objects[call[u].span]
      BY <2>1, <2>2, Zenon
    <3>2. call'[t].at # "delete" /\ ~Holding(t)'
      BY Zenon DEF Holding, at
    <3> QED
      BY <3>1, <3>2, HeldStep, Zenon DEF SpansOK
  <2>9. RefCounts'
    BY <2>1, <2>6, NoneAssumption, Zenon DEF SpansOK, RefCounts
  <2>10. ASSUME NEW d \in Class PROVE ListsExact(d)'
    <3>1. Mine(d)' = Mine(d) /\ s \notin Mine(d)
      BY <2>1, <2>3, <2>6, <2>7, NoneAssumption DEF Mine
    <3>2. \A x \in Mine(d) : objects'[x] = objects[x]
      BY <2>1, <3>1, Zenon DEF Mine
    <3> QED
      BY <3>1, <3>2, ListsStill, Zenon
  <2> QED
    BY <2>3, <2>6, <2>8, <2>9, <2>10, Zenon DEF SpansOK
<1> SUFFICES ASSUME Shape, HeapOK, NEW t \in Thread, CallOK(t), Delete(t)
             PROVE  HeapOK'
  OBVIOUS
<1> DEFINE new == [call[t] EXCEPT !.at = "spans", !.span = None]
<1>1. /\ DOMAIN new = CallFields /\ new.at = "spans" /\ new.span = None
      /\ \A f \in {"cl", "victim", "range", "list"} : new[f] = call[t][f]
  BY Zenon DEF Shape, CallFields
<1>2. at(t) = "delete" /\ Goto(t, new) /\ UNCHANGED <<refcount, lists, tc_slots>>
  BY Zenon DEF Delete, slots
<1> HIDE DEF new
<1>3. Others(t) /\ call'[t] = new
  BY <1>1, <1>2, GotoIsLocal, Zenon
<1>s. PICK s \in Span : s = call[t].span
  BY <1>2, Zenon DEF HeapOK, SpansOK, Held, Holding
<1>4. sizeclass' = [sizeclass EXCEPT ![s] = None] /\ objects' = [objects EXCEPT ![s] = {}]
  BY <1>s, Zenon DEF Delete
<1>5. SpansOK' /\ s \in Leaving /\ Leaving' = Leaving \ {s}
  <2>1. call'[t].at = "spans" /\ call'[t].span = None
    BY <1>1, <1>3, Zenon
  <2> QED
    BY <1>2, <1>3, <1>4, <1>s, <2>1, <1>DeleteSpans, Zenon DEF HeapOK
<1>6. UNCHANGED <<program, list, tc_slots>>
  BY <1>2, Zenon DEF Goto, cache, free_list
<1>7. Owned'
  <2>1. /\ call'[t].range = call[t].range /\ call'[t].list = call[t].list
        /\ call'[t].cl = call[t].cl /\ Releasing(t)' = Releasing(t)
    BY <1>1, <1>3, Zenon DEF Releasing
  <2> QED
    BY <1>3, <1>4, <1>5, <1>6, <2>1, <1>DeleteOwned, Zenon DEF HeapOK
<1>8. HeapShape'
  BY <1>2, <1>4, <1>6, Zenon DEF HeapOK, HeapShape, lists
<1> QED
  BY <1>5, <1>7, <1>8, Zenon DEF HeapOK
=============================================================================
