---------------------------- MODULE HttpResponse ----------------------------
(***************************************************************************)
(* http_reponse_check, which handle_recv calls on what has arrived so far, *)
(* and http_reponse_completed, which splits what was received into heads   *)
(* and bodies.  Content is a sequence of items: the start of a head, the   *)
(* end of a head, and then single bytes.  A head is known by its status    *)
(* and by how it frames its body.  Iterators are positions, itEnd is one   *)
(* past the last item.                                                     *)
(***************************************************************************)
EXTENDS Integers, SequencesExt

Head100     == "HTTP 100"
HeadClose   == "HTTP 200"
HeadLength0 == "HTTP 200 content-length 0"
HeadLength2 == "HTTP 200 content-length 2"
HeadChunked == "HTTP 200 chunked"
Heads == {Head100, HeadClose, HeadLength0, HeadLength2, HeadChunked}

Status(h) == IF h = Head100 THEN 100 ELSE 200

\* The length that a head gives, -1 when it gives none.
ContentLength(h) == CASE h = HeadLength0 -> 0 [] h = HeadLength2 -> 2 [] OTHER -> -1

strtol(x) == CASE x = "1" -> 1 [] x = "2" -> 2 [] OTHER -> 0

End(c) == Len(c) + 1

\* The least position from w on where P holds; itEnd when there is none.
FirstFrom(c, w, P(_)) ==
  LET S == {k \in w .. Len(c) : P(k)} IN IF S = {} THEN End(c) ELSE Min(S)

(***************************************************************************)
(* http_get_head: the position of the next head, which has to be complete. *)
(***************************************************************************)
HeadAt(c, w)  == FirstFrom(c, w, LAMBDA k : c[k] \in Heads)
http_get_head(c, w) == HeadAt(c, w) < Len(c) /\ c[HeadAt(c, w) + 1] = "eoh"

\* The search for "\nHTTP/" stops after the newline.
NextHttp(c, w) ==
  LET k == FirstFrom(c, w, LAMBDA j : c[j] = "\n" /\ j < Len(c) /\ c[j + 1] \in Heads)
  IN  IF k = End(c) THEN k ELSE k + 1

(***************************************************************************)
(* The loop over chunks, the same in both functions but for its end.  A    *)
(* chunk is jumped over with the two bytes that should follow it: the      *)
(* result "overrun" says the iterator has passed itEnd, and the loop does  *)
(* not end where the content does.                                         *)
(***************************************************************************)
\* Plausible bugs: the two bytes after the data are not jumped over; the end is
\* seen only when more than the final "\r\n" follows.
JumpDataOnly(itWork, nlength) == itWork + nlength
LastChunkLate(nlength, rest)  == nlength = 0 /\ rest > 2

Jump(itWork, nlength)   == itWork + nlength + 2
LastChunk(nlength, rest) == nlength = 0 /\ rest > 0

Chunked(res, w, data) == [res |-> res, w |-> w, data |-> data]

RECURSIVE Chunks(_, _, _, _)
Chunks(c, w, data, checking) ==
  LET nl      == FirstFrom(c, w, LAMBDA k : c[k] = "\n")
      itWork  == nl + 1
      nlength == strtol(c[w])
      rest    == End(c) - itWork
      jump    == Jump(itWork, nlength)
      data2   == data \o SubSeq(c, itWork, itWork + nlength - 1)
  IN  IF w = End(c) \/ nl = End(c)    THEN Chunked("cut", End(c), data)
      ELSE IF nlength > rest          THEN Chunked("short", itWork, data)
      ELSE IF checking /\ LastChunk(nlength, rest) THEN Chunked("end", itWork, data)
      ELSE IF jump > End(c)           THEN Chunked("overrun", jump, data2)
      ELSE IF nlength = 0 /\ ~checking THEN Chunked("end", itWork + 2, data)
      ELSE Chunks(c, jump, data2, checking)

(***************************************************************************)
(* http_reponse_check: "finished", "more" to come, or "overrun".  The map  *)
(* head is kept from one message to the next: a value of a later message   *)
(* is added behind the one that is there, so the first length stays in     *)
(* force, and so does a transfer-encoding.                                 *)
(***************************************************************************)
NoHead == [length |-> -1, chunked |-> FALSE]

WithHead(head, h) ==
  [length  |-> IF head.length = -1 THEN ContentLength(h) ELSE head.length,
   chunked |-> head.chunked \/ h = HeadChunked]

\* Plausible bug: one byte less than the length is enough.
LengthArrivedOneLess(c, body, n) == End(c) - body >= n - 1
LengthArrived(c, body, n) == End(c) - body >= n

RECURSIVE CheckMessage(_, _, _)
CheckMessage(c, w, before) ==
  LET h       == c[HeadAt(c, w)]
      body    == HeadAt(c, w) + 2
      head    == WithHead(before, h)
      length  == head.length # -1
      chunked == ~length /\ head.chunked
      chunks  == Chunks(c, body, <<>>, TRUE)
      from    == IF chunked THEN chunks.w ELSE body
  IN  IF w = End(c) \/ ~http_get_head(c, w) THEN "more"
      ELSE IF Status(h) = 100               THEN CheckMessage(c, NextHttp(c, body), head)
      ELSE IF length /\ LengthArrived(c, body, head.length) THEN "finished"
      ELSE IF chunked /\ chunks.res = "end"     THEN "finished"
      ELSE IF chunked /\ chunks.res = "short"   THEN "more"
      ELSE IF chunked /\ chunks.res = "overrun" THEN "overrun"
      ELSE CheckMessage(c, NextHttp(c, from), head)

http_reponse_check(c) == CheckMessage(c, 1, NoHead)

(***************************************************************************)
(* http_reponse_completed: whether every message was parsed, and for each  *)
(* its status and body_origin.  A body of known length is inserted without *)
(* moving itWork, and a message with status 100 goes on to the search at   *)
(* the end of the loop as any other.                                       *)
(***************************************************************************)
Result(ok, list) == [ok |-> ok, list |-> list]

\* After "HTTP/1.1 100" every step of the search inserts all it has passed.
Body100(c, it, to) ==
  LET found == to <= Len(c)
      steps == IF found THEN to - it - 1 ELSE to - it
  IN  FlattenSeq([k \in 1 .. steps |-> SubSeq(c, it, it + k - 1)])

RECURSIVE CompletedFrom(_, _, _)
CompletedFrom(c, w, list) ==
  LET h      == c[HeadAt(c, w)]
      start  == HeadAt(c, w) + 2
      body   == IF Status(h) = 100 THEN NextHttp(c, start) ELSE start
      chunks == Chunks(c, body, <<>>, FALSE)
      n      == ContentLength(h)
      framed == CASE n > 0 /\ LengthArrived(c, body, n) -> SubSeq(c, body, body + n - 1)
                  [] h = HeadChunked -> chunks.data
                  [] h = Head100     -> Body100(c, start, body)
                  [] OTHER           -> <<>>
      from   == IF h = HeadChunked THEN chunks.w ELSE body
      next   == NextHttp(c, from)
      info   == [status |-> Status(h), body |-> framed \o SubSeq(c, from, next - 1)]
  IN  IF w = End(c)                    THEN Result("true", list)
      ELSE IF ~http_get_head(c, w)     THEN Result("false", list)
      ELSE IF h = HeadChunked /\ chunks.res = "short"   THEN Result("false", list)
      ELSE IF h = HeadChunked /\ chunks.res = "overrun" THEN Result("overrun", list)
      ELSE CompletedFrom(c, next, Append(list, info))

http_reponse_completed(c) ==
  IF c = <<>> THEN Result("false", <<>>) ELSE CompletedFrom(c, 1, <<>>)
=============================================================================
