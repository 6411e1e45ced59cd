------------------------------ MODULE TaskList ------------------------------
(***************************************************************************)
(* task_data::task_map_list: the tasks of the program, each entered by its *)
(* own call of task_work::start and removed, by its union id, when a scan  *)
(* of the task reaches its end.  The crawl of a task (module Crawl) is one *)
(* phase here.  The union id is the domain of the main url and the date.   *)
(***************************************************************************)
EXTENDS Integers, Sequences, UrlTools

CONSTANTS
  Task,        \* the task_map objects
  Site,        \* the parts of the urls that tasks are started with
  Day,         \* the dates on which they are started
  MaxFinish    \* bound on the scans of one task that reach the end

VARIABLES
  m_list,    \* the list of task_map_list, guarded by op_mutex
  start_ptr, \* task -> "set" or "null"
  site,      \* task -> the parts of its url, as they were written
  day,       \* task -> the date on which it was started
  main_url,  \* task -> its main url
  task_union_id, \* task -> its union id
  phase,     \* task -> how far task_work::start and the crawl have come
  scans      \* task -> scans that have reached the end

urls == <<site, day, main_url, task_union_id>>
vars == <<m_list, start_ptr, urls, phase, scans>>

Optional(part, token) == IF part = <<>> THEN <<>> ELSE token

\* The url as it is written: the scheme, the port and the rest may be left out.
Written(s) ==
  Optional(s.protocal, s.protocal \o <<"://">>) \o s.host
    \o Optional(s.port, <<":">> \o s.port) \o s.path \o s.params

\* The parts that a url can be written from.  The first "://" ends the scheme, so without
\* a scheme there is none; a path begins with "/", and the parameters with "?" or "#".
UrlParts(s) ==
  /\ s.protocal \in Seq(Word) /\ Len(s.protocal) <= 1
  /\ s.host \in Seq(Word) /\ s.host # <<>>
  /\ s.port \in Seq(Number) /\ Len(s.port) <= 1
  /\ s.path \in Seq(Token \ {"?", "#"}) /\ (s.path # <<>> => s.path[1] = "/")
  /\ s.params \in Seq(Token) /\ (s.params # <<>> => s.params[1] \in {"?", "#"})
  /\ s.protocal = <<>> => s.path \o s.params \in Seq(Token \ {"://"})

ASSUME SiteAssumption == Site # {} /\ \A s \in Site : UrlParts(s)

make_union_id(url, date) == <<get_domain(url), date>>

Init ==
  /\ m_list = <<>> /\ start_ptr = [t \in Task |-> "set"]
  /\ site = [t \in Task |-> CHOOSE s \in Site : TRUE] /\ day = [t \in Task |-> 0]
  /\ main_url = [t \in Task |-> <<>>] /\ task_union_id = [t \in Task |-> <<>>]
  /\ phase = [t \in Task |-> "new"] /\ scans = [t \in Task |-> 0]

\* The constructors and format_start of a task with url s on date d.
NewTask(t, s, d) ==
  LET url == format_url(Written(s))
  IN  /\ site' = [site EXCEPT ![t] = s] /\ day' = [day EXCEPT ![t] = d]
      /\ main_url' = [main_url EXCEPT ![t] = url]
      /\ task_union_id' = [task_union_id EXCEPT ![t] = make_union_id(url, d)]

\* insert_new looks at the task only, not at the list.
InsertNew(t) ==
  /\ phase[t] = "new" /\ phase' = [phase EXCEPT ![t] = "checking"]
  /\ \E s \in Site, d \in Day : NewTask(t, s, d)
  /\ m_list' = Append(m_list, t)
  /\ UNCHANGED <<start_ptr, scans>>

\* task_work::start returns op_err(2..6), and leaves the task in the list.
StartFails(t) ==
  /\ phase[t] = "checking" /\ phase' = [phase EXCEPT ![t] = "failed"]
  /\ UNCHANGED <<m_list, start_ptr, urls, scans>>

StartSucceeds(t) ==
  /\ phase[t] = "checking" /\ phase' = [phase EXCEPT ![t] = "working"]
  /\ UNCHANGED <<m_list, start_ptr, urls, scans>>

\* A scan of test_task_finished_quit has reached the end of task t; more than
\* one worker may get there.  finished_one goes by the union id.
ScanEnds(t) ==
  /\ phase[t] \in {"working", "done"} /\ scans[t] < MaxFinish
  /\ phase' = [phase EXCEPT ![t] = "done"]
  /\ scans' = [scans EXCEPT ![t] = @ + 1]
  /\ UNCHANGED urls

Erase(s, k) == SubSeq(s, 1, k - 1) \o SubSeq(s, k + 1, Len(s))

\* Plausible bug: the front of the list is taken for the task.
FinishedFront(t) ==
  /\ ScanEnds(t)
  /\ IF m_list = <<>> THEN UNCHANGED <<m_list, start_ptr>>
     ELSE /\ start_ptr' = [start_ptr EXCEPT ![Head(m_list)] = "null"]
          /\ m_list' = Tail(m_list)

\* The tasks that the search of finished_one takes for t.
SameId(t) == {u \in Task : task_union_id[u] = task_union_id[t]}

\* Plausible bug: the entry is erased and start_ptr is kept.
FinishedKeepsStart(t) ==
  /\ ScanEnds(t)
  /\ LET k == Find(m_list, SameId(t))
     IN  m_list' = IF k = 0 THEN m_list ELSE Erase(m_list, k)
  /\ UNCHANGED start_ptr

FinishedOne(t) ==
  /\ ScanEnds(t)
  /\ LET k == Find(m_list, SameId(t))
     IN  IF k = 0 THEN UNCHANGED <<m_list, start_ptr>>
         ELSE /\ start_ptr' = [start_ptr EXCEPT ![m_list[k]] = "null"]
              /\ m_list' = Erase(m_list, k)

Next ==
  \E t \in Task : InsertNew(t) \/ StartFails(t) \/ StartSucceeds(t) \/ FinishedOne(t)

Spec == Init /\ [][Next]_vars

-----------------------------------------------------------------------------
Contains(s, e) == \E i \in 1 .. Len(s) : s[i] = e

Started == {t \in Task : phase[t] # "new"}

Alone(t) == \A u \in Started : task_union_id[t] = task_union_id[u] => t = u

(***************************************************************************)
(* A task whose union id is its own loses start_ptr, and its place in the  *)
(* list, when its own crawl is done: whatever order the scans of the tasks *)
(* end in, and however often.                                              *)
(***************************************************************************)
OwnFinish ==
  \A t \in Started : Alone(t) =>
    /\ phase[t] \in {"checking", "working", "failed"}
         => start_ptr[t] = "set" /\ Contains(m_list, t)
    /\ phase[t] = "done" => start_ptr[t] = "null" /\ ~Contains(m_list, t)

(***************************************************************************)
(* Also when tasks share a union id, a task is in the list, once, exactly  *)
(* while it has been inserted and finished_one has not cleared start_ptr.  *)
(***************************************************************************)
ListedHasStart ==
  /\ \A i, j \in DOMAIN m_list : m_list[i] = m_list[j] => i = j
  /\ \A t \in Task : Contains(m_list, t) <=> phase[t] # "new" /\ start_ptr[t] = "set"

(***************************************************************************)
(* format_url and get_url_info against the parts that the url was written  *)
(* from: whatever was left out, the main url has the site's own host, port *)
(* and path, the defaults for what is missing, and its parameters whole,   *)
(* also when they hold a "/", a ":" or another url.                        *)
(***************************************************************************)
UrlParsed ==
  \A t \in Started :
    LET s == site[t]
        p == IF s.protocal = <<>> THEN <<"http">> ELSE s.protocal
    IN  get_url_info(main_url[t]) =
          [protocal |-> p, domain |-> s.host,
           port   |-> <<":">> \o IF s.port = <<>> THEN <<get_port_by_protocal(p)>> ELSE s.port,
           path   |-> IF s.path = <<>> THEN <<"/">> ELSE s.path,
           params |-> s.params]

(***************************************************************************)
(* download_one formats the url once more and takes the address from       *)
(* get_domain and get_port, while get_package takes the Host line from     *)
(* get_url_info: the connection goes to the host that the request names.   *)
(* The page that start() expects to miss is on the site of get_page.       *)
(***************************************************************************)
AddressIsHost ==
  \A t \in Started : \A u \in {main_url[t], make_err_url(main_url[t])} :
    /\ format_url(u) = u
    /\ get_domain(u) \o <<":", get_port(u)>> = Host(u)
    /\ make_err_url(u) = Append(get_page(u), "nowaytobeexistpage301.html")

(***************************************************************************)
(* Tasks share a union id exactly when they are started for one host on    *)
(* one day, however their urls are written.                                *)
(***************************************************************************)
UnionIdIsSite ==
  \A t, u \in Started :
    task_union_id[t] = task_union_id[u] <=> site[t].host = site[u].host /\ day[t] = day[u]
=============================================================================
