------------------------------- MODULE Trigger ------------------------------
(***************************************************************************)
(* policy_api::trigger_base.  A trigger string is a sequence of marks and  *)
(* of the separator "||"; a mark is one element, so that the text between  *)
(* two separators is a mark or empty.  Marks are compared in upper case.   *)
(***************************************************************************)
EXTENDS Integers, Sequences, Functions

\* A loop over a sequence.  (SequencesExt has it; with that module in scope every step of
\* a proof about the policies takes several times as long.)
ForEach(Body(_, _), v, s) ==
  MapThenFoldSet(LAMBDA item, acc : Body(acc, item), v, LAMBDA i : s[i],
                 LAMBDA S : CHOOSE i \in S : \A j \in S : i >= j, DOMAIN s)

Sep == "||"

\* std::transform with toupper, on the marks that the instances use.
toupper(mark) ==
  CASE mark \in {"once", "Once"}     -> "ONCE"
    [] mark \in {"domain", "Domain"} -> "DOMAIN"
    [] mark \in {"cms", "Cms"}       -> "CMS"
    [] OTHER                         -> mark

\* Plausible bug: the marks are taken as they are written.
divil_trigger_as_written(trigger, v_t) ==
  ForEach(LAMBDA v, item : IF item = Sep \/ item \in Range(v) THEN v ELSE Append(v, item),
          v_t, trigger)

\* v_t after the call; the call returns whether it is not empty.
divil_trigger(trigger, v_t) ==
  ForEach(LAMBDA v, item : IF item = Sep \/ toupper(item) \in Range(v) THEN v
                           ELSE Append(v, toupper(item)),
          v_t, trigger)

format_marks(v_t) == ForEach(LAMBDA str, s : str \o <<s, Sep>>, <<>>, v_t)

format_trigger(trigger) == format_marks(divil_trigger(trigger, <<>>))

\* Plausible bug: the marks of the page replace those of the task.
format_trigger_replace(trigger, add) == format_marks(divil_trigger(add, <<>>))

format_trigger_add(trigger, add) ==
  format_marks(divil_trigger(add, divil_trigger(trigger, <<>>)))

\* trigger_base(tr).hit_trigger(trigger)
hit_trigger(tr, trigger) ==
  LET v_trigger == divil_trigger(tr, <<>>)
      v_t       == divil_trigger(trigger, <<>>)
  IN  \E i \in DOMAIN v_trigger : v_trigger[i] \in Range(v_t)
=============================================================================
