----------------------------- MODULE Downloader -----------------------------
(***************************************************************************)
(* http::downloader as download_one uses it: one object, one download.     *)
(* The calling thread starts a connection and waits on a condition; the    *)
(* handlers run on the thread of the connection's io_service and never     *)
(* take thread_wait_mutex.  The server sends a response in segments, and   *)
(* http_reponse_check looks at what has arrived so far.                    *)
(***************************************************************************)
EXTENDS HttpResponse

CONSTANTS
  HTTP_ONE_PACKET_SIZE, \* most bytes one recv delivers, 1460 in the code
  Responses             \* what a server may send, described below

(***************************************************************************)
(* Of each response: items, all that is sent; framing, the head of the     *)
(* final message; data, its body; last, the position in items of the last  *)
(* byte of the body.                                                       *)
(***************************************************************************)
ASSUME DownloaderAssumption ==
  /\ HTTP_ONE_PACKET_SIZE \in Nat \ {0}
  /\ \A r \in Responses : r.last \in 1 .. Len(r.items) /\ r.framing \in Heads

VARIABLES
  pc,           \* where the caller of download() is
  op,           \* the asynchronous operation the io_service has
  socket_ptr_,  \* the member: "null" or "set"
  buffer_recv_, \* items received and not yet handed over
  full,         \* the last segment had HTTP_ONE_PACKET_SIZE items
  raw_recv,     \* items the caller got
  notified,     \* a handler has called notify_all
  spurious,     \* the caller woke without a notification
  response,     \* what the server sends
  closed        \* the server has closed the connection

caller == <<pc, raw_recv, spurious>>
peer   == <<response, closed>>
vars   == <<caller, op, socket_ptr_, buffer_recv_, full, notified, peer>>

Init ==
  /\ pc = "start" /\ op = "none" /\ socket_ptr_ = "null"
  /\ buffer_recv_ = 0 /\ full = FALSE /\ raw_recv = 0
  /\ notified = FALSE /\ spurious = FALSE
  /\ response \in Responses /\ closed = FALSE

\* The caller got the first raw_recv items, and buffer_recv_ holds the next ones.
Received    == buffer_recv_ + raw_recv
Content(k)  == SubSeq(response.items, 1, k)
Buffered(k) == SubSeq(response.items, raw_recv + 1, raw_recv + k)

(***************************************************************************)
(* download(), blocking form.  create_connect returns after the operation  *)
(* was posted, so a handler may run before socket_ptr_ is assigned.        *)
(***************************************************************************)
CreateConnect ==
  /\ pc = "start" /\ pc' = "assign" /\ op' = "connect"
  /\ UNCHANGED <<raw_recv, spurious, socket_ptr_, buffer_recv_, full, notified, peer>>

AssignSocket ==
  /\ pc = "assign" /\ pc' = "block" /\ socket_ptr_' = "set"
  /\ UNCHANGED <<raw_recv, spurious, op, buffer_recv_, full, notified, peer>>

\* The wait has no predicate: it sleeps even if the handlers are done.
Wait ==
  /\ pc = "block" /\ pc' = "wait"
  /\ UNCHANGED <<raw_recv, spurious, op, socket_ptr_, buffer_recv_, full, notified, peer>>

SpuriousWake ==
  /\ pc = "wait" /\ pc' = "swap" /\ spurious' = TRUE
  /\ UNCHANGED <<raw_recv, op, socket_ptr_, buffer_recv_, full, notified, peer>>

Swap ==
  /\ pc = "swap" /\ pc' = "returned"
  /\ raw_recv' = buffer_recv_ /\ buffer_recv_' = 0
  /\ UNCHANGED <<spurious, op, socket_ptr_, full, notified, peer>>

\* notify_all: it wakes the caller only if the caller already waits.
NotifyAll ==
  /\ notified' = TRUE
  /\ pc' = IF pc = "wait" THEN "swap" ELSE pc
  /\ UNCHANGED <<raw_recv, spurious>>

(***************************************************************************)
(* The handlers.  async_write reports success only for the whole request,  *)
(* and async_read_some reports a closed connection as an error, so the     *)
(* branches for a short write and for a read of 0 bytes are never taken.   *)
(***************************************************************************)
\* handle_connect and handle_send name their parameter socket_ptr_: on an error
\* they clear the parameter, and the member keeps its value.
HandleError ==
  /\ op \in {"connect", "send"} /\ op' = "none" /\ NotifyAll
  /\ UNCHANGED <<socket_ptr_, buffer_recv_, full, peer>>

HandleConnect ==
  /\ op = "connect" /\ op' = "send"
  /\ UNCHANGED <<caller, socket_ptr_, buffer_recv_, full, notified, peer>>

HandleSend ==
  /\ op = "send" /\ op' = "recv"
  /\ UNCHANGED <<caller, socket_ptr_, buffer_recv_, full, notified, peer>>

\* Plausible bug: handle_recv reports an error without waking the caller.
HandleRecvErrorSilent ==
  /\ op = "recv" /\ closed /\ op' = "none" /\ socket_ptr_' = "null"
  /\ UNCHANGED <<caller, buffer_recv_, full, notified, peer>>

\* A handler that uses the member before it was assigned ends the program.
Crash == pc' = "crashed" /\ UNCHANGED <<raw_recv, spurious>>

\* The server closed the connection, and what it sent may not all have been read.
HandleRecvError ==
  /\ op = "recv" /\ closed /\ op' = "none"
  /\ IF socket_ptr_ = "set" THEN NotifyAll ELSE Crash /\ notified' = TRUE
  /\ socket_ptr_' = "null"
  /\ UNCHANGED <<buffer_recv_, full, peer>>

RecvAgain ==
  /\ IF socket_ptr_ = "set" THEN op' = "recv" /\ UNCHANGED caller
     ELSE op' = "none" /\ Crash
  /\ UNCHANGED notified

\* What http_reponse_check found.  An iterator past the end reads on in memory:
\* it meets a newline, where every length is too large, or the program ends.
Checked(found) ==
  \/ found = "finished" /\ op' = "none" /\ NotifyAll
  \/ found \in {"more", "overrun"} /\ RecvAgain
  \/ found = "overrun" /\ op' = "none" /\ Crash /\ UNCHANGED notified

HandleRecv ==
  /\ op = "recv"
  /\ \E bytes_transferred \in 1 .. HTTP_ONE_PACKET_SIZE :
       /\ bytes_transferred <= Len(response.items) - Received
       /\ buffer_recv_' = buffer_recv_ + bytes_transferred
       /\ full' = (bytes_transferred = HTTP_ONE_PACKET_SIZE)
       /\ IF full' THEN RecvAgain ELSE Checked(http_reponse_check(Buffered(buffer_recv_')))
  /\ UNCHANGED <<socket_ptr_, peer>>

\* The server closes after a response that the connection ends, or earlier.
PeerCloses ==
  /\ op = "recv" /\ ~closed /\ closed' = TRUE
  /\ UNCHANGED <<caller, op, socket_ptr_, buffer_recv_, full, notified, response>>

-----------------------------------------------------------------------------
Caller   == CreateConnect \/ AssignSocket \/ Wait \/ Swap
Handlers == HandleError \/ HandleConnect \/ HandleSend \/ HandleRecvError \/ HandleRecv

Next == Caller \/ SpuriousWake \/ Handlers \/ PeerCloses

Spec == Init /\ [][Next]_vars

\* The threads are scheduled and the server sends its response; it need not close.
FairSpec == Spec /\ WF_vars(Caller) /\ WF_vars(Handlers)

-----------------------------------------------------------------------------
\* The shape of the state of a downloader and of its server.
TypeOK ==
  /\ pc \in {"start", "assign", "block", "wait", "swap", "returned", "crashed"}
  /\ op \in {"none", "connect", "send", "recv"}
  /\ socket_ptr_ \in {"null", "set"} /\ response \in Responses
  /\ buffer_recv_ \in 0 .. Len(response.items) /\ raw_recv \in 0 .. Len(response.items)
  /\ full \in BOOLEAN /\ notified \in BOOLEAN
  /\ spurious \in BOOLEAN /\ closed \in BOOLEAN

Hundred == response.items[1] = Head100

(***************************************************************************)
(* A caller that a handler woke shares nothing with the handlers any more, *)
(* and holds all of the body unless the connection failed or the server    *)
(* closed it: http_reponse_check does not answer true too early, however   *)
(* the response was cut into segments.  The state has its type.            *)
(***************************************************************************)
WokenWithResponse ==
  /\ TypeOK
  /\ pc \in {"swap", "returned"} /\ ~spurious =>
       /\ op = "none"
       /\ Received >= response.last \/ Received = 0 \/ closed

Returned == pc \in {"returned", "crashed"}

\* All has arrived, in a last segment that handle_recv does not look at.
LastUnseen ==
  op = "recv" /\ Received = Len(response.items) /\ full

(***************************************************************************)
(* A caller that waits for a response with a Content-Length, or in chunks, *)
(* returns although the server keeps the connection open: handle_recv sees *)
(* the end of the response, however it is cut into segments, with the one  *)
(* exception that the last segment has exactly the size of a packet.       *)
(***************************************************************************)
ReturnsUnclosed ==
  (pc = "wait" /\ ~notified /\ ~Hundred /\ response.framing # HeadClose)
    ~> (Returned \/ closed \/ LastUnseen)

(***************************************************************************)
(* What http_reponse_completed makes of a download that brought all of a   *)
(* response: one message whose body_origin is the data the server framed,  *)
(* for responses in chunks and for those that end with the connection.     *)
(***************************************************************************)
Parsed == http_reponse_completed(Content(raw_recv))
Expect == <<[status |-> 200, body |-> response.data]>>
Whole  == pc = "returned" /\ raw_recv = Len(response.items)

BodyExact ==
  (Whole /\ ~Hundred /\ response.framing # HeadLength2) => Parsed = Result("true", Expect)

(***************************************************************************)
(* A caller that waits before the handlers notify returns, whatever fails, *)
(* when the server sends its response and closes.                          *)
(***************************************************************************)
WaitingReturns == WF_vars(PeerCloses) => (pc = "wait" /\ ~notified) ~> Returned

(***************************************************************************)
(* http.hpp:70 on download(): "download blocked until finished".  It is    *)
(* not blocked any longer once the handlers have finished.                 *)
(***************************************************************************)
FinishedUnblocks == notified ~> Returned

(***************************************************************************)
(* http_tools.cpp:354 in http_reponse_completed: "200 check Content-length *)
(* ... count length, return".  The body of a response with a length is the *)
(* bytes that the length counts.                                           *)
(***************************************************************************)
LengthBody ==
  (Whole /\ ~Hundred /\ response.framing = HeadLength2) => Parsed.list = Expect
=============================================================================
