----------------------------- MODULE MCTaskList -----------------------------
(***************************************************************************)
(* TaskList for TLC: urls with and without each of their parts, on two     *)
(* hosts, and tasks that may share a union id.                             *)
(***************************************************************************)
EXTENDS TaskList, TLC

Url(protocal, host, port, path, params) ==
  [protocal |-> protocal, host |-> <<host>>, port |-> port, path |-> path, params |-> params]

Sites ==
  { Url(<<>>, "a.cn", <<>>, <<>>, <<>>),
    Url(<<"https">>, "a.cn", <<"8080">>, <<"/", "p">>, <<"?", "http", "://", "c.cn", ":", "90", "/">>),
    Url(<<"HTTPS">>, "b.cn", <<>>, <<>>, <<"?", "q">>),
    Url(<<>>, "b.cn", <<"8080">>, <<>>, <<"#", "/", "w">>),
    Url(<<"ftp">>, "b.cn", <<>>, <<"/", "p", "/">>, <<>>) }

Words ==
  {"http", "https", "HTTPS", "ftp", "a.cn", "b.cn", "c.cn", "p", "q", "w",
   "nowaytobeexistpage301.html"} \cup Number

Symmetry == Permutations(Task)
=============================================================================
