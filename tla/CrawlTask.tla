----------------------------- MODULE CrawlTask -----------------------------
(***************************************************************************)
(* What a crawl task promises, without threads or counters.  A url found   *)
(* on a page that is being worked on becomes known; each known url is      *)
(* taken once and completed once; the task finishes, once, when every      *)
(* known url is complete, and nothing happens after that.                  *)
(***************************************************************************)
EXTENDS Naturals

VARIABLES known, running, complete, finished

tvars == <<known, running, complete, finished>>

TaskInit == known = {} /\ running = {} /\ complete = {} /\ finished = FALSE

Find(m) ==
  /\ m \notin known /\ (known = {} \/ running # {})
  /\ known' = known \cup {m}
  /\ UNCHANGED <<running, complete, finished>>

Take(m) ==
  /\ ~finished /\ m \in known \ (running \cup complete)
  /\ running' = running \cup {m}
  /\ UNCHANGED <<known, complete, finished>>

Complete(m) ==
  /\ m \in running
  /\ running' = running \ {m} /\ complete' = complete \cup {m}
  /\ UNCHANGED <<known, finished>>

FinishTask ==
  /\ ~finished /\ known # {} /\ complete = known
  /\ finished' = TRUE
  /\ UNCHANGED <<known, running, complete>>

TaskNext ==
  \/ FinishTask
  \/ \E m \in known' : Find(m) \/ Take(m) \/ Complete(m)

TaskSpec == TaskInit /\ [][TaskNext]_tvars
=============================================================================
