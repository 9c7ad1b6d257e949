-------------------------------- MODULE Http --------------------------------
(***************************************************************************)
(* networking/net.hpp: HTTP messages, their framing, streaming and         *)
(* redirects, and networking/download-proxy.cpp, which pipes a stream to a *)
(* client under headers of its own.                                        *)
(*                                                                         *)
(* A message is a sequence of units that a socket may cut between any two  *)
(* of: the first line, "r" and "n" of a line's end, a header (one with a   *)
(* meaning or any other), a chunk's size, a character of a body.           *)
(***************************************************************************)
EXTENDS Integers, Sequences, SequencesExt, FiniteSets, FiniteSetsExt

CRLF == <<"r", "n">>
Lengths == <<"len0", "len1", "len2", "len3", "len4">>
Sizes == <<"0", "1", "2">>
LengthHeaders == ToSet(Lengths)
IsHeader(t) == t \in LengthHeaders \cup {"chunked", "server", "host", "connection", "other"}
NumberOf(t, names) == (CHOOSE i \in 1 .. Len(names) : names[i] = t) - 1

(* std::string::find, counting from 1; 0 when there is none.               *)
Find(s, pattern, from) ==
  LET at == {i \in from .. Len(s) - Len(pattern) + 1 : SubSeq(s, i, i + Len(pattern) - 1) = pattern}
  IN  IF at = {} THEN 0 ELSE Min(at)
From(s, i) == SubSeq(s, i, Len(s))

-----------------------------------------------------------------------------
(* Messages.                                                               *)

RECURSIVE parseHeadersFromString(_)
parseHeadersFromString(raw) ==
  LET pos1 == SelectInSeq(raw, IsHeader)
      pos2 == Find(raw, CRLF, pos1 + 1)
      rest == parseHeadersFromString(From(raw, pos2 + 2))
  IN  IF raw = <<>> THEN [ok |-> TRUE, list |-> <<>>]
      ELSE IF pos1 = 0 \/ pos2 = 0 THEN [ok |-> FALSE, list |-> <<>>]
      ELSE [rest EXCEPT !.list = <<raw[pos1]>> \o @]

(* The first line, the headers and the body, once the head is there.       *)
HeadEnd(raw) == LET line == Find(raw, CRLF, 1) IN IF line = 0 THEN 0 ELSE Find(raw, CRLF \o CRLF, line)
parseHttpString(raw) ==
  LET end == HeadEnd(raw)
      line == Find(raw, CRLF, 1)
      headers == parseHeadersFromString(SubSeq(raw, line + 2, end + 1))
  IN  [ok |-> end # 0 /\ headers.ok, first |-> SubSeq(raw, 1, line - 1), headers |-> headers.list, body |-> From(raw, end + 4)]

Has(headers, h) == Contains(headers, h)
LengthIn(headers) == SelectSeq(headers, LAMBDA h : h \in LengthHeaders)

(* Are the chunks of a body there, all of them or the first?               *)
RECURSIVE ChunksThere(_, _)
ChunksThere(body, allChunks) ==
  LET pos == Find(body, CRLF, 1)
      size == NumberOf(body[1], Sizes)
      rest == From(body, pos + size + 4)
  IN  /\ pos > 1 /\ body[1] \in ToSet(Sizes)
      /\ Len(body) > pos + 3 + size
      /\ allChunks /\ size # 0 /\ rest # <<>> => ChunksThere(rest, allChunks)

(* Mutant: a body that is on its way is not waited for.                    *)
CompleteAtHead(raw, allChunks) == HeadEnd(raw) # 0

isCompleteHttpRequest(raw, allChunks) ==
  LET m == parseHttpString(raw)
  IN  /\ HeadEnd(raw) # 0
      /\ IF LengthIn(m.headers) # <<>> THEN Len(m.body) >= NumberOf(LengthIn(m.headers)[1], Lengths)
         ELSE Has(m.headers, "chunked") => ChunksThere(m.body, allChunks)

(* HttpRequest::toString and HttpResponse::toString: a body has its length *)
(* written.                                                                *)
toString(m) ==
  <<m.first>> \o CRLF \o FlattenSeq([k \in 1 .. Len(m.headers) |-> <<m.headers[k]>> \o CRLF])
    \o (IF m.body # <<>> THEN <<Lengths[Len(m.body) + 1]>> \o CRLF ELSE <<>>) \o CRLF \o m.body

-----------------------------------------------------------------------------
(* Streaming.  frags is what one recv after the other returns.             *)

unchunkBody(buffer) ==
  LET pos == Find(buffer, CRLF, 1)
      size == NumberOf(buffer[1], Sizes)
  IN  IF pos = 0 \/ ~IsSuffix(CRLF, buffer) \/ Len(buffer) < pos + 3 + size
        THEN [some |-> FALSE, chunk |-> <<>>, rest |-> buffer]
      ELSE [some |-> TRUE, chunk |-> SubSeq(buffer, pos + 2, pos + 1 + size), rest |-> From(buffer, pos + size + 4)]

(* HttpRequest::stream with a callback that takes responses and always     *)
(* goes on.  The first recv behind the last fragment closes the socket,    *)
(* the second throws; the value of an empty optional is undefined.         *)
Streamed(end, bodies) == [end |-> end, bodies |-> bodies]
RECURSIVE StreamFrom(_, _, _, _)
StreamFrom(frags, k, chunked, s) ==
  LET raw == IF k <= Len(frags) THEN s.raw \o frags[k] ELSE s.raw
      m == parseHttpString(raw)
      u == unchunkBody(IF chunked THEN raw ELSE m.body)
      next == IF u.some THEN [raw |-> u.rest, bodies |-> Append(s.bodies, u.chunk)] ELSE [s EXCEPT !.raw = raw]
  IN  IF k > Len(frags) + 1 THEN Streamed("throws", s.bodies)
      ELSE IF ~chunked /\ ~isCompleteHttpRequest(raw, FALSE) THEN StreamFrom(frags, k + 1, FALSE, [s EXCEPT !.raw = raw])
      ELSE IF ~chunked /\ ~Has(m.headers, "chunked") THEN Streamed("done", <<m.body>>)
      ELSE IF ~chunked /\ ~u.some THEN Streamed("undefined", s.bodies)
      ELSE IF u.some /\ u.chunk = <<>> THEN Streamed("done", s.bodies)
      ELSE StreamFrom(frags, k + 1, TRUE, next)
stream(frags) == StreamFrom(frags, 1, FALSE, [raw |-> <<>>, bodies |-> <<>>])

(* pipeDownloadStream: the fragments behind the head are passed on; the    *)
(* head is replaced once it is whole, and what follows it is taken from    *)
(* the last fragment at the head's place in all of them.  A substr beyond  *)
(* the end throws.                                                         *)
Replaced(headers) == SelectSeq(headers, LAMBDA h : h \notin {"server", "connection"}) \o <<"connection">>
RECURSIVE PipeFrom(_, _, _)
PipeFrom(frags, k, acc) ==
  LET raw == frags[k]
      all == acc \o raw
      end == HeadEnd(all)
      m == parseHttpString(all)
      later == FlattenSeq(From(frags, k + 1))
  IN  IF k > Len(frags) THEN [ok |-> TRUE, headers |-> <<>>, body |-> <<>>]
      ELSE IF end = 0 THEN PipeFrom(frags, k + 1, all)
      ELSE IF end + 3 > Len(raw) THEN [ok |-> FALSE, headers |-> <<>>, body |-> <<>>]
      ELSE [ok |-> TRUE, headers |-> Replaced(m.headers), body |-> From(raw, end + 4) \o later]
pipeDownloadStream(frags) == PipeFrom(frags, 1, <<>>)

-----------------------------------------------------------------------------
(* HttpRequest::execute.  A URL is its host, the address it was resolved   *)
(* to and its path; a web gives every host and path a response.            *)

RECURSIVE execute(_, _, _, _)
execute(web, req, follow, log) ==
  LET url == IF req.url.ip = "" THEN [req.url EXCEPT !.ip = req.url.host] ELSE req.url
      host == IF req.host = "" THEN url.host ELSE req.host
      sent == Append(log, [ip |-> url.ip, host |-> host, path |-> url.path, method |-> req.method])
      resp == web[<<url.ip, url.path>>]
      moved == IF resp.to.host # "" THEN [host |-> resp.to.host, ip |-> "", path |-> resp.to.path] ELSE [url EXCEPT !.path = resp.to.path]
  IN  IF resp.status \notin {301, 303} \/ follow = 0 \/ resp.to.path = "" THEN [log |-> sent, location |-> [host |-> url.host, path |-> url.path]]
      ELSE execute(web, [url |-> moved, host |-> "", method |-> IF resp.status = 303 THEN "GET" ELSE req.method], follow - 1, sent)

-----------------------------------------------------------------------------
(* Properties.                                                             *)

Cut(raw, cuts) ==
  LET at == SetToSortSeq(cuts \cup {0, Len(raw)}, <)
  IN  [k \in 1 .. Len(at) - 1 |-> SubSeq(raw, at[k] + 1, at[k + 1])]

(* A server that reads until isCompleteHttpRequest reads exactly what      *)
(* toString wrote, no part less, and gets back what was written.           *)
WholeMessage(m) ==
  LET raw == toString(m)
      back == parseHttpString(raw)
  IN  /\ \A n \in 1 .. Len(raw) : isCompleteHttpRequest(SubSeq(raw, 1, n), TRUE) <=> n = Len(raw)
      /\ back.ok /\ back.first = <<m.first>> /\ back.body = m.body
      /\ SelectSeq(back.headers, LAMBDA h : h \notin LengthHeaders) = m.headers

Chunked(chunks) ==
  <<"first">> \o CRLF \o <<"chunked">> \o CRLF \o CRLF
    \o FlattenSeq([k \in 1 .. Len(chunks) |-> <<Sizes[Len(chunks[k]) + 1]>> \o CRLF \o chunks[k] \o CRLF]) \o <<"0">> \o CRLF \o CRLF

(* The ends of all the chunks but the first.                               *)
ChunkEnds(chunks) == {Len(Chunked(SubSeq(chunks, 1, k))) - 5 : k \in 2 .. Len(chunks)} \cup {Len(Chunked(chunks)) - 5}

(* However a chunked response is cut, the callback gets its chunks in      *)
(* order and whole, and when the stream ends as it should, all of them;    *)
(* it does when every fragment is one chunk and the first one more.        *)
(* A response that is not chunked is handed over once, with its body.      *)
StreamFaithful(chunks, cuts) ==
  LET raw == Chunked(chunks)
      s == stream(Cut(raw, cuts))
  IN  /\ IsPrefix(s.bodies, chunks)
      /\ s.end = "done" => s.bodies = chunks
      /\ Len(chunks) > 1 /\ cuts = ChunkEnds(chunks) => s.end = "done"
PlainFaithful(m, cuts) ==
  m.body # <<>> => stream(Cut(toString(m), cuts)) = Streamed("done", <<m.body>>)

(* A chunked message of which a part has come is not taken for complete.   *)
ChunkedWaits(chunks) ==
  LET raw == Chunked(chunks) IN \A n \in 1 .. Len(raw) - 1 : ~isCompleteHttpRequest(SubSeq(raw, 1, n), TRUE)

(* The proxy's client gets headers of its own, nothing but an end of the   *)
(* body, and the whole body when the head of the response came in one      *)
(* fragment.                                                               *)
PipeFaithful(m, cuts) ==
  LET raw == toString(m)
      p == pipeDownloadStream(Cut(raw, cuts))
  IN  /\ p.ok => ~Has(p.headers, "server") /\ Has(p.headers, "connection")
      /\ IsSuffix(p.body, m.body)
      /\ (\A c \in cuts : c >= HeadEnd(raw) + 3) => p.ok /\ p.body = m.body

(* The code breaks these.  A chunked message that has come is complete; a  *)
(* chunked response, and a download, arrive however they are cut.          *)
ChunkedComplete(chunks) == isCompleteHttpRequest(Chunked(chunks), TRUE)
StreamComplete(chunks, cuts) == stream(Cut(Chunked(chunks), cuts)) = Streamed("done", chunks)
PipeComplete(m, cuts) == LET p == pipeDownloadStream(Cut(toString(m), cuts)) IN p.ok /\ p.body = m.body

(* Every request of a chain of redirects goes to the address of the host   *)
(* it names, there are at most follow more, and the location is that of    *)
(* the last one.                                                           *)
RedirectsRight(web, req, follow) ==
  LET r == execute(web, req, follow, <<>>)
  IN  /\ Len(r.log) <= follow + 1
      /\ \A k \in 1 .. Len(r.log) : r.log[k].ip = r.log[k].host
      /\ r.location = [host |-> Last(r.log).host, path |-> Last(r.log).path]
=============================================================================
