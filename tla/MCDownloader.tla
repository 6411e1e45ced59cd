---------------------------- MODULE MCDownloader ----------------------------
(***************************************************************************)
(* Responses for TLC: every body of at most MaxBody bytes, framed in each  *)
(* of the three ways, with every division into chunks of one or two bytes, *)
(* and each of them also after an interim 100.                             *)
(***************************************************************************)
EXTENDS Downloader

CONSTANT MaxBody \* bound on the length of a body

Bodies == SeqOf({"a", "\n"}, MaxBody)

Crlf == <<"\r", "\n">>

\* The ways to cut a body into chunks of one or two bytes.
Cuts(n) == {s \in SeqOf({1, 2}, n) : FoldSeq(LAMBDA x, y : x + y, 0, s) = n}

ChunkItems(body, cut) ==
  LET At(i) == FoldSeq(LAMBDA x, y : x + y, 0, SubSeq(cut, 1, i - 1))
  IN  FlattenSeq([i \in DOMAIN cut |->
         <<ToString(cut[i])>> \o Crlf \o SubSeq(body, At(i) + 1, At(i) + cut[i]) \o Crlf])
      \o <<"0">> \o Crlf \o Crlf

\* The last byte of a chunked body is followed by Crlf, "0", Crlf and Crlf.
ChunkedResponses ==
  {[items |-> <<HeadChunked, "eoh">> \o ChunkItems(b, cut), framing |-> HeadChunked, data |-> b,
    last |-> 2 + Len(ChunkItems(b, cut)) - (IF b = <<>> THEN 5 ELSE 7)]
     : <<b, cut>> \in UNION {{b} \X Cuts(Len(b)) : b \in Bodies}}

PlainResponses ==
  {[items |-> <<h, "eoh">> \o b, framing |-> h, data |-> b, last |-> 2 + Len(b)]
     : <<h, b>> \in {<<h, b>> \in Heads \X Bodies : h = HeadClose \/ ContentLength(h) = Len(b)}}

After100(r) == [r EXCEPT !.items = <<Head100, "eoh">> \o @, !.last = @ + 2]

MCResponses ==
  LET R == ChunkedResponses \cup PlainResponses IN R \cup {After100(r) : r \in R}
=============================================================================
