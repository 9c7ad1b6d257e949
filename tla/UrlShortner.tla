----------------------------- MODULE UrlShortner -----------------------------
(***************************************************************************)
(* The URL shortener: the two maps of RequestHandler and the poll loop of  *)
(* Server (url-shortner/src), with the clients at the other end.           *)
(*                                                                         *)
(* A request and a reply are a number of units, of which a call of recv or *)
(* send moves some.  The server has one thread and handles one descriptor  *)
(* after another; the events of a round are found by one poll(), but no    *)
(* descriptor appears in it twice and none can be reused before its own    *)
(* event was handled, so that every event may be a round of its own.       *)
(*                                                                         *)
(* A URL has a site and may have a protocol.  The key is the value of      *)
(* Counter: encryptSizeT and base62Encode give different keys for          *)
(* different values.  The pages under static/ and /ping change nothing.    *)
(***************************************************************************)
EXTENDS Integers, FiniteSets

CONSTANTS Clients,
          Sites,
          MaxUrls,    \* bound of the number of keys
          HeaderLen,  \* units of a request up to the empty line
          BodyLen,    \* units of the body of a POST
          ReplyLen    \* units of a reply

ASSUME ShortnerConstants ==
  /\ IsFiniteSet(Clients) /\ "none" \notin Clients
  /\ MaxUrls \in Nat
  /\ HeaderLen \in Nat \ {0} /\ BodyLen \in Nat \ {0} /\ ReplyLen \in Nat \ {0}

VARIABLES
  up,          \* serverRunning
  handler,     \* the RequestHandler, with `issued': what each key was first given for
  socketInfo,  \* what Server keeps for each descriptor
  owner,       \* the client at the other end of each open descriptor, or "none"
  client       \* what each client is doing

vars == <<up, handler, socketInfo, owner, client>>

Fds == 1 .. Cardinality(Clients)

Put(map, k, x) == [j \in DOMAIN map \cup {k} |-> IF j = k THEN x ELSE map[j]]
Without(map, k) == [j \in DOMAIN map \ {k} |-> map[j]]

Url == [site : Sites, proto : BOOLEAN]
Keys == 0 .. MaxUrls - 1

(* Requests: a POST of a URL, or of a body that is refused; a GET or a     *)
(* DELETE of a key; anything else.                                         *)
NoUrl == [site |-> "none", proto |-> FALSE]
NoKey == -1

Post(u) == [method |-> "POST", url |-> u, key |-> NoKey]
PostInvalid == [method |-> "INVALID", url |-> NoUrl, key |-> NoKey]
Get(k) == [method |-> "GET", url |-> NoUrl, key |-> k]
Delete(k) == [method |-> "DELETE", url |-> NoUrl, key |-> k]
Other == [method |-> "OTHER", url |-> NoUrl, key |-> NoKey]

Requests == {Post(u) : u \in Url} \cup {Get(k) : k \in Keys} \cup {Delete(k) : k \in Keys}
              \cup {PostInvalid, Other}

Reply(code) == [code |-> code, url |-> NoUrl, key |-> NoKey]
ReplyKey(code, k) == [Reply(code) EXCEPT !.key = k]
ReplyUrl(code, u) == [Reply(code) EXCEPT !.url = u]

-----------------------------------------------------------------------------
(* RequestHandler.                                                         *)

NewHandler == [cache |-> [u \in {} |-> 0], revCache |-> [k \in {} |-> 0],
               Counter |-> 0, issued |-> [k \in {} |-> 0]]

(* "http://" is put before a URL that has no protocol.                     *)
LongURL(u) == [u EXCEPT !.proto = TRUE]

(* Mutant: the key is the number of URLs.                                  *)
NextKeyBySize(h) == Cardinality(DOMAIN h.cache)

NextKey(h) == h.Counter

shortenURL(h, long) ==
  IF long \in DOMAIN h.cache THEN h
  ELSE [cache    |-> Put(h.cache, long, NextKey(h)),
        revCache |-> Put(h.revCache, NextKey(h), long),
        Counter  |-> h.Counter + 1,
        issued   |-> Put(h.issued, NextKey(h), long)]

(* Mutant: the long URL of a deleted key is kept.                          *)
ErasedKeyOnly(h, k) == [h EXCEPT !.revCache = Without(@, k)]

Erased(h, k) ==
  [cache    |-> Without(h.cache, h.revCache[k]),
   revCache |-> Without(h.revCache, k),
   Counter  |-> h.Counter,
   issued   |-> h.issued]

(* The handler after the request q, and the reply.                         *)
Handled(h, q) ==
  CASE q.method = "POST" -> shortenURL(h, LongURL(q.url))
    [] q.method = "DELETE" /\ q.key \in DOMAIN h.revCache -> Erased(h, q.key)
    [] OTHER -> h

ReplyTo(h, q) ==
  CASE q.method = "INVALID" -> Reply(400)
    [] q.method = "POST" ->
         ReplyKey(IF LongURL(q.url) \in DOMAIN h.cache THEN 200 ELSE 201,
                  shortenURL(h, LongURL(q.url)).cache[LongURL(q.url)])
    [] q.method = "GET" /\ q.key \in DOMAIN h.revCache -> ReplyUrl(302, h.revCache[q.key])
    [] q.method = "DELETE" /\ q.key \in DOMAIN h.revCache -> Reply(200)
    [] q.method \in {"GET", "DELETE"} /\ q.key \notin DOMAIN h.revCache -> Reply(404)
    [] OTHER -> Reply(405)

-----------------------------------------------------------------------------
(* Clients, and the network.                                               *)

(* Content-Length is there in a POST only.                                 *)
HasBody(q) == q.method \in {"POST", "INVALID"}
Length(q) == IF HasBody(q) THEN HeaderLen + BodyLen ELSE HeaderLen

Absent == [st |-> "absent", req |-> Other, sent |-> 0, reply |-> Reply(0)]
Asking(q) == [st |-> "open", req |-> q, sent |-> 0, reply |-> Reply(0)]
Answered(cl, r) == [st |-> "answered", req |-> cl.req, sent |-> cl.sent, reply |-> r]

(* The kernel hands out the lowest descriptor that is not open.            *)
LowestFree ==
  CHOOSE fd \in Fds : owner[fd] = "none" /\ \A other \in Fds : owner[other] = "none" => fd <= other

(* POSTs on their way count towards the bound.                             *)
MayPost ==
  LET posting == {c \in Clients : client[c].st \in {"open", "gone"} /\ HasBody(client[c].req)}
  IN  handler.Counter + Cardinality(posting) < MaxUrls

(* A new connection: poll for input, nothing read, pendingBytes is -1.     *)
NewEntry == [events |-> "POLLIN", got |-> 0, pendingBytes |-> -1, reply |-> Reply(0)]

Accept(c, q) ==
  /\ up
  /\ client[c].st = "absent"
  /\ HasBody(q) => MayPost
  /\ client' = [client EXCEPT ![c] = Asking(q)]
  /\ owner' = [owner EXCEPT ![LowestFree] = c]
  /\ socketInfo' = Put(socketInfo, LowestFree, NewEntry)
  /\ UNCHANGED <<up, handler>>

(* fcntl fails: the connection is closed, and entered all the same.  (So   *)
(* is -1, when accept fails; poll() takes no notice of it.)                *)
AcceptBlocking(c) ==
  /\ up
  /\ client[c].st = "absent"
  /\ socketInfo' = Put(socketInfo, LowestFree, NewEntry)
  /\ UNCHANGED <<up, handler, owner, client>>

Send(c) ==
  /\ up
  /\ client[c].st = "open"
  /\ client[c].sent < Length(client[c].req)
  /\ client' = [client EXCEPT ![c].sent = @ + 1]
  /\ UNCHANGED <<up, handler, socketInfo, owner>>

HangUp(c) ==
  /\ up
  /\ client[c].st = "open"
  /\ client' = [client EXCEPT ![c].st = "gone"]
  /\ UNCHANGED <<up, handler, socketInfo, owner>>

(* A client that has its reply may come again.                             *)
Again(c) ==
  /\ up
  /\ client[c].st = "answered"
  /\ client' = [client EXCEPT ![c] = Absent]
  /\ UNCHANGED <<up, handler, socketInfo, owner>>

-----------------------------------------------------------------------------
(* Server.                                                                 *)

Polled(fd, ev) == up /\ owner[fd] # "none" /\ socketInfo[fd].events = ev

(* Mutant: what is read after the header is not subtracted.                *)
NowPendingWhole(i, q, n) ==
  IF i.pendingBytes # -1 THEN i.pendingBytes
  ELSE IF HasBody(q) /\ i.got + n >= HeaderLen THEN BodyLen - (i.got + n - HeaderLen)
  ELSE -1

(* readRequest: pendingBytes after n more units of q have been read, ...   *)
NowPending(i, q, n) ==
  IF i.pendingBytes # -1 THEN i.pendingBytes - n
  ELSE IF HasBody(q) /\ i.got + n >= HeaderLen THEN BodyLen - (i.got + n - HeaderLen)
  ELSE -1

PartlyRead(i, q, n) ==
  [events |-> "POLLIN", got |-> i.got + n, pendingBytes |-> NowPending(i, q, n), reply |-> i.reply]

(* ... and whether that was all of it.                                     *)
IsComplete(i, q, n) ==
  IF HasBody(q) THEN NowPending(i, q, n) = 0 ELSE i.got + n >= HeaderLen

(* What processRequest makes of the first n units.                         *)
Parsed(q, n) == IF n < HeaderLen \/ (HasBody(q) /\ n < HeaderLen + BodyLen) THEN PostInvalid ELSE q

Respond(fd, r) ==
  socketInfo' = [socketInfo EXCEPT ![fd] =
                   [events |-> "POLLOUT", got |-> 0, pendingBytes |-> ReplyLen, reply |-> r]]

Receive(fd, n) ==
  LET i == socketInfo[fd]
      q == client[owner[fd]].req
      parsed == Parsed(q, i.got + n)
  IN  /\ Polled(fd, "POLLIN")
      /\ i.got + n <= client[owner[fd]].sent
      /\ IF IsComplete(i, q, n)
           THEN handler' = Handled(handler, parsed) /\ Respond(fd, ReplyTo(handler, parsed))
           ELSE /\ socketInfo' = [socketInfo EXCEPT ![fd] = PartlyRead(i, q, n)]
                /\ UNCHANGED handler
      /\ UNCHANGED <<up, owner, client>>

(* recv finds the end of the stream, or an error: "Error receiving data"   *)
(* is taken for the request, and answered.                                 *)
ReceiveEnd(fd) ==
  /\ Polled(fd, "POLLIN")
  /\ client[owner[fd]].st = "gone"
  /\ Respond(fd, Reply(400))
  /\ UNCHANGED <<up, handler, owner, client>>

(* The reply is through, or could not be sent.                             *)
Close(fd, st) ==
  /\ owner' = [owner EXCEPT ![fd] = "none"]
  /\ socketInfo' = Without(socketInfo, fd)
  /\ client' = [client EXCEPT ![owner[fd]] =
                  IF st = "answered" THEN Answered(@, socketInfo[fd].reply) ELSE Absent]

Transmit(fd, n) ==
  /\ Polled(fd, "POLLOUT")
  /\ n <= socketInfo[fd].pendingBytes
  /\ IF socketInfo[fd].pendingBytes = n THEN Close(fd, IF client[owner[fd]].st = "open" THEN "answered" ELSE "absent")
     ELSE /\ socketInfo' = [socketInfo EXCEPT ![fd].pendingBytes = @ - n]
          /\ UNCHANGED <<owner, client>>
  /\ UNCHANGED <<up, handler>>

(* The client has hung up: send fails, ...                                 *)
TransmitFails(fd) ==
  /\ Polled(fd, "POLLOUT")
  /\ client[owner[fd]].st = "gone"
  /\ Close(fd, "absent")
  /\ UNCHANGED <<up, handler>>

(* ... or raises SIGPIPE, which ends the process.  SIGINT ends it, too.    *)
(* Everything was in memory.                                               *)
Down ==
  /\ up
  /\ up' = FALSE
  /\ handler' = NewHandler
  /\ socketInfo' = [fd \in {} |-> NewEntry]
  /\ owner' = [fd \in Fds |-> "none"]
  /\ client' = [c \in Clients |-> Absent]

Event(fd) == \/ \E n \in 1 .. HeaderLen + BodyLen : Receive(fd, n)
             \/ \E n \in 1 .. ReplyLen : Transmit(fd, n)
             \/ ReceiveEnd(fd) \/ TransmitFails(fd)

Ended == ~up /\ UNCHANGED vars

Init ==
  /\ up = TRUE
  /\ handler = NewHandler
  /\ socketInfo = [fd \in {} |-> NewEntry]
  /\ owner = [fd \in Fds |-> "none"]
  /\ client = [c \in Clients |-> Absent]

Next == \/ \E c \in Clients : \/ \E q \in Requests : Accept(c, q)
                              \/ AcceptBlocking(c) \/ Send(c) \/ HangUp(c) \/ Again(c)
        \/ \E fd \in Fds : Event(fd)
        \/ Down \/ Ended

Spec == Init /\ [][Next]_vars

-----------------------------------------------------------------------------
(* The two maps are inverse to each other, whatever is added, added again  *)
(* and deleted: no key leads nowhere and no URL has a key that is gone.    *)
MapsInverse ==
  /\ \A k \in DOMAIN handler.revCache :
       /\ handler.revCache[k] \in DOMAIN handler.cache
       /\ handler.cache[handler.revCache[k]] = k
  /\ \A u \in DOMAIN handler.cache :
       /\ handler.cache[u] \in DOMAIN handler.revCache
       /\ handler.revCache[handler.cache[u]] = u

(* A reply r that is right for the request q: a key that was issued for    *)
(* this URL, the URL the key was issued for, or that there is none.        *)
Right(q, r, issued) ==
  CASE q.method = "INVALID" -> r.code = 400
    [] q.method = "POST" ->
         r.code \in {200, 201} /\ r.key \in DOMAIN issued /\ issued[r.key] = LongURL(q.url)
    [] q.method = "GET" ->
         r.code = 404 \/ (r.code = 302 /\ q.key \in DOMAIN issued /\ r.url = issued[q.key])
    [] q.method = "DELETE" -> r.code \in {200, 404}
    [] OTHER -> r.code = 405

(* Every client that is answered has the reply to its own request, however *)
(* requests are cut up and descriptors are reused; and a key it was given  *)
(* never comes to mean another URL, even after it has been deleted.        *)
RepliesRight ==
  \A c \in Clients : client[c].st = "answered" => Right(client[c].req, client[c].reply, handler.issued)

(* No request is waited for when it has been read to its end: however it   *)
(* is cut up, the server has begun to reply when the last unit is read.    *)
NoneLeftWaiting ==
  \A fd \in Fds : Polled(fd, "POLLIN") => socketInfo[fd].got < Length(client[owner[fd]].req)
=============================================================================
