-------------------------- MODULE UrlShortnerProofs --------------------------
(***************************************************************************)
(* Proofs about UrlShortner: the maps stay inverse to each other, every    *)
(* answered client has the right reply, and no request that has been read  *)
(* to its end is waited for, for all clients, URLs and lengths.            *)
(*                                                                         *)
(* Nothing is needed of LowestFree: an entry put anywhere is a new one.    *)
(***************************************************************************)
EXTENDS UrlShortner, TLAPS

-----------------------------------------------------------------------------
(* What holds of the handler: every key in use is an issued one, and the   *)
(* next value of Counter has not been issued.                              *)

HandlerOK(h) ==
  /\ h = [cache |-> h.cache, revCache |-> h.revCache, Counter |-> h.Counter, issued |-> h.issued]
  /\ h.Counter \in Nat
  /\ \A k \in DOMAIN h.issued : k \in Nat /\ k < h.Counter
  /\ \A k \in DOMAIN h.revCache :
       /\ k \in DOMAIN h.issued
       /\ h.issued[k] = h.revCache[k]
       /\ h.revCache[k] \in DOMAIN h.cache
       /\ h.cache[h.revCache[k]] = k
  /\ \A u \in DOMAIN h.cache :
       /\ h.cache[u] \in DOMAIN h.revCache
       /\ h.revCache[h.cache[u]] = u

(* What is issued stays issued.                                            *)
Grows(a, b) == \A k \in DOMAIN a : k \in DOMAIN b /\ b[k] = a[k]

(* A new URL gets a key that nobody was given before, so that no issued    *)
(* key changes its meaning (shortenURL).                                   *)
LEMMA ShortenKeeps ==
  ASSUME NEW h, NEW u, HandlerOK(h)
  PROVE  LET g == shortenURL(h, u)
         IN  /\ HandlerOK(g)
             /\ Grows(h.issued, g.issued)
             /\ u \in DOMAIN g.cache
             /\ g.cache[u] \in DOMAIN g.issued
             /\ g.issued[g.cache[u]] = u
<1> DEFINE g == shortenURL(h, u)
<1>1. CASE u \in DOMAIN h.cache
  <2>1. g = h  BY <1>1 DEF shortenURL
  <2> QED  BY <1>1, <2>1 DEF HandlerOK, Grows
<1>2. CASE u \notin DOMAIN h.cache
  <2> DEFINE k == h.Counter
  <2>1. /\ g.cache = Put(h.cache, u, k) /\ g.revCache = Put(h.revCache, k, u)
        /\ g.Counter = k + 1 /\ g.issued = Put(h.issued, k, u)
        /\ g = [cache |-> g.cache, revCache |-> g.revCache, Counter |-> g.Counter, issued |-> g.issued]
    BY <1>2 DEF shortenURL, NextKey
  <2>2. k \in Nat /\ k \notin DOMAIN h.issued /\ k \notin DOMAIN h.revCache
    BY DEF HandlerOK
  <2> HIDE DEF g, k
  <2>3. /\ DOMAIN g.cache = DOMAIN h.cache \cup {u}
        /\ g.cache[u] = k
        /\ \A v \in DOMAIN h.cache : g.cache[v] = h.cache[v]
    BY <1>2, <2>1 DEF Put
  <2>4. /\ DOMAIN g.revCache = DOMAIN h.revCache \cup {k}
        /\ g.revCache[k] = u
        /\ \A j \in DOMAIN h.revCache : g.revCache[j] = h.revCache[j]
    BY <2>1, <2>2 DEF Put
  <2>5. /\ DOMAIN g.issued = DOMAIN h.issued \cup {k}
        /\ g.issued[k] = u
        /\ \A j \in DOMAIN h.issued : g.issued[j] = h.issued[j]
    BY <2>1, <2>2 DEF Put
  <2>6. g.Counter \in Nat /\ \A j \in DOMAIN g.issued : j \in Nat /\ j < g.Counter
    <3>1. \A j \in DOMAIN h.issued : j \in Nat /\ j < k  BY DEF HandlerOK, k
    <3> QED  BY <2>1, <2>2, <2>5, <3>1
  <2>7. \A j \in DOMAIN g.revCache :
          /\ j \in DOMAIN g.issued
          /\ g.issued[j] = g.revCache[j]
          /\ g.revCache[j] \in DOMAIN g.cache
          /\ g.cache[g.revCache[j]] = j
    BY <2>3, <2>4, <2>5 DEF HandlerOK
  <2>8. \A v \in DOMAIN g.cache : g.cache[v] \in DOMAIN g.revCache /\ g.revCache[g.cache[v]] = v
    BY <2>3, <2>4 DEF HandlerOK
  <2>9. HandlerOK(g)  BY <2>1, <2>6, <2>7, <2>8 DEF HandlerOK
  <2> QED  BY <2>3, <2>5, <2>9 DEF Grows, g
<1> QED  BY <1>1, <1>2

(* A deletion takes a pair out of both maps and leaves `issued' alone.     *)
LEMMA ErasedKeeps ==
  ASSUME NEW h, NEW k \in DOMAIN h.revCache, HandlerOK(h)
  PROVE  HandlerOK(Erased(h, k)) /\ Erased(h, k).issued = h.issued
<1> DEFINE g == Erased(h, k)
           u == h.revCache[k]
<1>1. g = [cache |-> Without(h.cache, u), revCache |-> Without(h.revCache, k),
           Counter |-> h.Counter, issued |-> h.issued]
  BY DEF Erased
<1>2. /\ DOMAIN g.cache = DOMAIN h.cache \ {u}
      /\ \A v \in DOMAIN g.cache : g.cache[v] = h.cache[v]
  BY <1>1 DEF Without
<1>3. /\ DOMAIN g.revCache = DOMAIN h.revCache \ {k}
      /\ \A j \in DOMAIN g.revCache : g.revCache[j] = h.revCache[j]
  BY <1>1 DEF Without
<1>4. /\ g.Counter = h.Counter /\ g.issued = h.issued
      /\ g = [cache |-> g.cache, revCache |-> g.revCache, Counter |-> g.Counter, issued |-> g.issued]
  BY <1>1
<1>5. u \in DOMAIN h.cache /\ h.cache[u] = k  BY DEF HandlerOK
<1> HIDE DEF g
<1>6. \A j \in DOMAIN g.revCache :
        /\ j \in DOMAIN g.issued
        /\ g.issued[j] = g.revCache[j]
        /\ g.revCache[j] \in DOMAIN g.cache
        /\ g.cache[g.revCache[j]] = j
  BY <1>2, <1>3, <1>4, <1>5 DEF HandlerOK
<1>7. \A v \in DOMAIN g.cache : g.cache[v] \in DOMAIN g.revCache /\ g.revCache[g.cache[v]] = v
  BY <1>2, <1>3, <1>5 DEF HandlerOK
<1>8. HandlerOK(g)  BY <1>4, <1>6, <1>7 DEF HandlerOK
<1> QED  BY <1>4, <1>8 DEF g

(* The methods a request can have.                                         *)
LEMMA MethodOf ==
  ASSUME NEW q \in Requests
  PROVE  q.method \in {"POST", "INVALID", "GET", "DELETE", "OTHER"}
  BY DEF Requests, Post, PostInvalid, Get, Delete, Other

(* processRequest keeps the handler in order and never reissues a key.     *)
LEMMA HandledKeeps ==
  ASSUME NEW h, NEW q \in Requests, HandlerOK(h)
  PROVE  HandlerOK(Handled(h, q)) /\ Grows(h.issued, Handled(h, q).issued)
<1>1. CASE q.method = "POST"
  <2>1. Handled(h, q) = shortenURL(h, LongURL(q.url))  BY <1>1 DEF Handled
  <2> QED  BY <2>1, ShortenKeeps
<1>2. CASE q.method = "DELETE" /\ q.key \in DOMAIN h.revCache
  <2>1. Handled(h, q) = Erased(h, q.key)  BY <1>2 DEF Handled
  <2> QED  BY <1>2, <2>1, ErasedKeeps DEF Grows
<1>3. CASE q.method # "POST" /\ ~(q.method = "DELETE" /\ q.key \in DOMAIN h.revCache)
  <2>1. Handled(h, q) = h  BY <1>3 DEF Handled
  <2> QED  BY <2>1 DEF Grows
<1> QED  BY <1>1, <1>2, <1>3

(* The reply of processRequest is right when it is made, ...               *)
LEMMA ReplyIsRight ==
  ASSUME NEW h, NEW q \in Requests, HandlerOK(h)
  PROVE  Right(q, ReplyTo(h, q), Handled(h, q).issued)
<1> DEFINE r == ReplyTo(h, q)
<1>1. CASE q.method = "POST"
  <2> DEFINE u == LongURL(q.url)
             g == shortenURL(h, u)
  <2>1. Handled(h, q) = g  BY <1>1 DEF Handled
  <2>2. g.cache[u] \in DOMAIN g.issued /\ g.issued[g.cache[u]] = u
    BY ShortenKeeps
  <2>3. r = ReplyKey(IF u \in DOMAIN h.cache THEN 200 ELSE 201, g.cache[u])
    BY <1>1 DEF ReplyTo
  <2>4. r.code \in {200, 201} /\ r.key = g.cache[u]
    BY <2>3 DEF ReplyKey, Reply
  <2> HIDE DEF g, r, u
  <2>5. r.code \in {200, 201} /\ r.key \in DOMAIN g.issued /\ g.issued[r.key] = u
    BY <2>2, <2>4
  <2>6. Right(q, r, g.issued)
    BY <1>1, <2>5 DEF Right, u
  <2> QED  BY <2>1, <2>6 DEF r
<1>2. CASE q.method = "INVALID"
  BY <1>2 DEF ReplyTo, Right, Reply
<1>3. CASE q.method = "GET"
  <2>1. Handled(h, q) = h  BY <1>3 DEF Handled
  <2>2. CASE q.key \in DOMAIN h.revCache
    <3>1. r = ReplyUrl(302, h.revCache[q.key])  BY <1>3, <2>2 DEF ReplyTo
    <3>2. r.code = 302 /\ r.url = h.revCache[q.key]  BY <3>1 DEF ReplyUrl, Reply
    <3>3. q.key \in DOMAIN h.issued /\ h.issued[q.key] = h.revCache[q.key]
      BY <2>2 DEF HandlerOK
    <3> QED  BY <1>3, <2>1, <3>2, <3>3 DEF Right
  <2>3. CASE q.key \notin DOMAIN h.revCache
    <3>1. r = Reply(404)  BY <1>3, <2>3 DEF ReplyTo
    <3> QED  BY <1>3, <3>1 DEF Right, Reply
  <2> QED  BY <2>2, <2>3
<1>4. CASE q.method = "DELETE"
  <2>1. r = Reply(200) \/ r = Reply(404)  BY <1>4 DEF ReplyTo
  <2> QED  BY <1>4, <2>1 DEF Right, Reply
<1>5. CASE q.method = "OTHER"
  <2>1. r = Reply(405)  BY <1>5 DEF ReplyTo
  <2> QED  BY <1>5, <2>1 DEF Right, Reply
<1> QED  BY <1>1, <1>2, <1>3, <1>4, <1>5, MethodOf

(* ... and stays right.                                                    *)
LEMMA RightStays ==
  ASSUME NEW q \in Requests, NEW r, NEW a, NEW b, Grows(a, b), Right(q, r, a)
  PROVE  Right(q, r, b)
<1>1. CASE q.method = "POST"
  BY <1>1 DEF Right, Grows
<1>2. CASE q.method = "GET"
  BY <1>2 DEF Right, Grows
<1>3. CASE q.method \in {"INVALID", "DELETE", "OTHER"}
  BY <1>3 DEF Right
<1> QED  BY <1>1, <1>2, <1>3, MethodOf

-----------------------------------------------------------------------------
(* What holds of a client, and of the entry of a descriptor that is open.  *)

ClientOK(cl, issued) ==
  /\ DOMAIN cl = {"st", "req", "sent", "reply"}
  /\ cl.st \in {"absent", "open", "gone", "answered"}
  /\ cl.req \in Requests
  /\ cl.sent \in Nat /\ cl.sent <= Length(cl.req)
  /\ cl.st = "answered" => Right(cl.req, cl.reply, issued)

(* While it is read, pendingBytes is what is left, once the header is in.  *)
(* A client that has hung up may be owed the wrong reply.                  *)
EntryOK(i, cl, issued) ==
  /\ DOMAIN i = {"events", "got", "pendingBytes", "reply"}
  /\ cl.st \in {"open", "gone"}
  /\ i.events = "POLLIN" =>
       /\ i.got \in Nat /\ i.got < Length(cl.req)
       /\ i.pendingBytes = IF HasBody(cl.req) /\ i.got >= HeaderLen
                             THEN HeaderLen + BodyLen - i.got ELSE -1
  /\ i.events \in {"POLLIN", "POLLOUT"}
  /\ i.events = "POLLOUT" /\ cl.st = "open" => Right(cl.req, i.reply, issued)

Conn(fd) == fd \in DOMAIN socketInfo /\ EntryOK(socketInfo[fd], client[owner[fd]], handler.issued)

(* The inductive invariant.                                                *)
IInv ==
  /\ HandlerOK(handler)
  /\ owner \in [Fds -> Clients \cup {"none"}]
  /\ \A f, g \in Fds : owner[f] = owner[g] /\ owner[f] # "none" => f = g
  /\ DOMAIN client = Clients
  /\ \A c \in Clients : ClientOK(client[c], handler.issued)
  /\ \A fd \in Fds : owner[fd] # "none" => Conn(fd)

(* No request is empty.                                                    *)
LEMMA LengthPositive ==
  ASSUME NEW q
  PROVE  Length(q) \in Nat /\ 0 < Length(q)
  BY ShortnerConstants DEF Length

(* The entry of a descriptor from which nothing has been read.             *)
LEMMA NewEntryOK ==
  ASSUME NEW cl, NEW issued, cl.st \in {"open", "gone"}
  PROVE  EntryOK(NewEntry, cl, issued)
<1>1. Length(cl.req) \in Nat /\ 0 < Length(cl.req)  BY LengthPositive
<1> QED  BY <1>1, ShortnerConstants DEF EntryOK, NewEntry

(* Nothing comes apart when keys are issued.                               *)
LEMMA ClientStays ==
  ASSUME NEW cl, NEW a, NEW b, Grows(a, b), ClientOK(cl, a)
  PROVE  ClientOK(cl, b)
  BY RightStays DEF ClientOK

(* A reply under way stays right when keys are issued.                     *)
LEMMA EntryStays ==
  ASSUME NEW i, NEW cl, NEW a, NEW b, Grows(a, b), EntryOK(i, cl, a), cl.req \in Requests
  PROVE  EntryOK(i, cl, b)
  BY RightStays DEF EntryOK

(* readRequest: a request that is not complete is not read to its end, and *)
(* pendingBytes is right; one that is complete is read to its end.         *)
LEMMA ReadRequest ==
  ASSUME NEW i, NEW cl, NEW issued, NEW n \in Nat \ {0},
         EntryOK(i, cl, issued), i.events = "POLLIN",
         cl.sent \in Nat, cl.sent <= Length(cl.req), i.got + n <= cl.sent
  PROVE  /\ IsComplete(i, cl.req, n) => Parsed(cl.req, i.got + n) = cl.req
         /\ ~IsComplete(i, cl.req, n) => EntryOK(PartlyRead(i, cl.req, n), cl, issued)
<1> DEFINE q == cl.req
           m == i.got + n
           p == NowPending(i, q, n)
<1>1. /\ i.got \in Nat /\ i.got < Length(q)
      /\ i.pendingBytes = IF HasBody(q) /\ i.got >= HeaderLen THEN HeaderLen + BodyLen - i.got ELSE -1
      /\ cl.st \in {"open", "gone"}
  BY DEF EntryOK
<1>2. m \in Nat /\ m <= Length(q)
  BY <1>1, LengthPositive
<1>3. p = IF HasBody(q) /\ m >= HeaderLen THEN HeaderLen + BodyLen - m ELSE -1
  <2>1. CASE HasBody(q)
    <3>1. Length(q) = HeaderLen + BodyLen  BY <2>1 DEF Length
    <3> QED  BY <1>1, <2>1, <3>1, ShortnerConstants DEF NowPending
  <2>2. CASE ~HasBody(q)
    BY <1>1, <2>2 DEF NowPending
  <2> QED  BY <2>1, <2>2
<1>4. CASE IsComplete(i, q, n)
  <2>1. m >= HeaderLen /\ (HasBody(q) => m = HeaderLen + BodyLen)
    BY <1>2, <1>3, <1>4, ShortnerConstants DEF IsComplete
  <2> QED  BY <1>2, <1>4, <2>1, ShortnerConstants DEF Parsed
<1>5. CASE ~IsComplete(i, q, n)
  <2>1. m < Length(q)
    <3>1. CASE HasBody(q)
      <4>1. Length(q) = HeaderLen + BodyLen /\ p # 0
        BY <1>5, <3>1 DEF Length, IsComplete
      <4> QED  BY <1>2, <1>3, <3>1, <4>1, ShortnerConstants
    <3>2. CASE ~HasBody(q)
      <4>1. Length(q) = HeaderLen /\ ~(m >= HeaderLen)
        BY <1>5, <3>2 DEF Length, IsComplete
      <4> QED  BY <1>2, <4>1, ShortnerConstants
    <3> QED  BY <3>1, <3>2
  <2>2. /\ PartlyRead(i, q, n).events = "POLLIN"
        /\ DOMAIN PartlyRead(i, q, n) = {"events", "got", "pendingBytes", "reply"}
        /\ PartlyRead(i, q, n).got = m
        /\ PartlyRead(i, q, n).pendingBytes = p
    BY DEF PartlyRead
  <2> HIDE DEF m, p, q
  <2>3. EntryOK(PartlyRead(i, q, n), cl, issued)
    BY <1>1, <1>2, <1>3, <2>1, <2>2 DEF EntryOK, q
  <2> QED  BY <1>5, <2>3 DEF q
<1> QED  BY <1>4, <1>5

-----------------------------------------------------------------------------
(* The server has just been started, or has gone down.                     *)
Fresh ==
  /\ handler = NewHandler
  /\ owner = [fd \in Fds |-> "none"]
  /\ client = [c \in Clients |-> Absent]

(* A new handler and no connections.                                       *)
LEMMA FreshHolds == Fresh => IInv
<1> SUFFICES ASSUME Fresh PROVE IInv
  OBVIOUS
<1>1. HandlerOK(handler)
  BY DEF Fresh, NewHandler, HandlerOK
<1>2. owner \in [Fds -> Clients \cup {"none"}] /\ \A fd \in Fds : owner[fd] = "none"
  BY DEF Fresh
<1>3. DOMAIN client = Clients /\ \A c \in Clients : client[c] = Absent
  BY DEF Fresh
<1>4. ClientOK(Absent, handler.issued)
  BY LengthPositive DEF ClientOK, Absent, Requests
<1> QED  BY <1>1, <1>2, <1>3, <1>4 DEF IInv

(* A step that changes what one client or one descriptor is about leaves   *)
(* the others as they are.                                                 *)
LEMMA AcceptStep ==
  ASSUME IInv, NEW c \in Clients, NEW q \in Requests, Accept(c, q)
  PROVE  IInv'
<1> DEFINE fd0 == LowestFree
<1>0. /\ client[c].st = "absent"
      /\ client' = [client EXCEPT ![c] = Asking(q)]
      /\ owner' = [owner EXCEPT ![fd0] = c]
      /\ socketInfo' = Put(socketInfo, fd0, NewEntry)
      /\ handler' = handler
  BY DEF Accept
<1> HIDE DEF fd0
<1>1. \A fd \in Fds : owner[fd] # c
  BY <1>0, ShortnerConstants DEF IInv, Conn, EntryOK
<1>2. HandlerOK(handler')  BY <1>0 DEF IInv
<1>3. owner' \in [Fds -> Clients \cup {"none"}]  BY <1>0 DEF IInv
<1>4. \A f, g \in Fds : owner'[f] = owner'[g] /\ owner'[f] # "none" => f = g
  BY <1>0, <1>1 DEF IInv
<1>5. Asking(q).st = "open" /\ ClientOK(Asking(q), handler.issued)
  BY LengthPositive DEF Asking, ClientOK
<1>6. DOMAIN client' = Clients /\ client'[c] = Asking(q)
      /\ \A d \in Clients : d # c => client'[d] = client[d]
  BY <1>0 DEF IInv
<1>7. \A d \in Clients : ClientOK(client'[d], handler'.issued)
  BY <1>0, <1>5, <1>6 DEF IInv
<1>8. ASSUME NEW fd \in Fds, owner'[fd] # "none" PROVE Conn(fd)'
  <2>1. CASE fd = fd0
    <3>1. owner'[fd] = c  BY <1>0, <2>1 DEF IInv
    <3>2. fd \in DOMAIN socketInfo' /\ socketInfo'[fd] = NewEntry  BY <1>0, <2>1 DEF Put
    <3> QED  BY <1>5, <1>6, <3>1, <3>2, NewEntryOK DEF Conn
  <2>2. CASE fd # fd0
    <3>1. owner'[fd] = owner[fd]  BY <1>0, <2>2 DEF IInv
    <3>2. Conn(fd) /\ owner[fd] \in Clients  BY <1>8, <3>1 DEF IInv
    <3>3. fd \in DOMAIN socketInfo' /\ socketInfo'[fd] = socketInfo[fd]
      BY <1>0, <2>2, <3>2 DEF Put, Conn
    <3> QED  BY <1>0, <1>1, <1>6, <3>1, <3>2, <3>3 DEF Conn
  <2> QED  BY <2>1, <2>2
<1> QED  BY <1>2, <1>3, <1>4, <1>6, <1>7, <1>8 DEF IInv

(* A descriptor that is closed but entered harms no connection.            *)
LEMMA AcceptBlockingStep ==
  ASSUME IInv, NEW c \in Clients, AcceptBlocking(c)
  PROVE  IInv'
<1> DEFINE fd0 == LowestFree
<1>0. /\ socketInfo' = Put(socketInfo, fd0, NewEntry)
      /\ handler' = handler /\ owner' = owner /\ client' = client
  BY DEF AcceptBlocking
<1> HIDE DEF fd0
<1>1. ASSUME NEW fd \in Fds, owner'[fd] # "none" PROVE Conn(fd)'
  <2>0. Conn(fd)  BY <1>0, <1>1 DEF IInv
  <2>1. CASE fd = fd0
    <3>1. fd \in DOMAIN socketInfo' /\ socketInfo'[fd] = NewEntry  BY <1>0, <2>1 DEF Put
    <3>2. client[owner[fd]].st \in {"open", "gone"}  BY <2>0 DEF Conn, EntryOK
    <3> QED  BY <1>0, <3>1, <3>2, NewEntryOK DEF Conn
  <2>2. CASE fd # fd0
    <3>1. fd \in DOMAIN socketInfo' /\ socketInfo'[fd] = socketInfo[fd]
      BY <1>0, <2>0, <2>2 DEF Put, Conn
    <3> QED  BY <1>0, <2>0, <3>1 DEF Conn
  <2> QED  BY <2>1, <2>2
<1> QED  BY <1>0, <1>1 DEF IInv

(* Steps of a client: it goes on sending, hangs up, or comes again.        *)
LEMMA ClientStep ==
  ASSUME IInv, NEW c \in Clients, Send(c) \/ HangUp(c) \/ Again(c)
  PROVE  IInv'
<1>0. handler' = handler /\ socketInfo' = socketInfo /\ owner' = owner
  BY DEF Send, HangUp, Again
<1>1. /\ DOMAIN client' = Clients
      /\ \A d \in Clients : d # c => client'[d] = client[d]
  BY DEF Send, HangUp, Again, IInv
<1>2. ClientOK(client[c], handler.issued)  BY DEF IInv
<1>3. /\ ClientOK(client'[c], handler.issued)
      /\ \/ /\ client[c].st \in {"open", "gone"} /\ client'[c].st \in {client[c].st, "gone"}
            /\ client'[c].req = client[c].req
         \/ client[c].st = "answered"
  <2>1. CASE Send(c)
    <3>1. client'[c] = [client[c] EXCEPT !.sent = @ + 1]  BY <2>1 DEF Send, IInv
    <3>2. /\ client'[c].st = client[c].st /\ client'[c].req = client[c].req
          /\ client[c].st = "open" /\ DOMAIN client'[c] = DOMAIN client[c]
      BY <1>2, <2>1, <3>1 DEF Send, ClientOK
    <3>3. client'[c].sent \in Nat /\ client'[c].sent <= Length(client[c].req)
      BY <1>2, <2>1, <3>1, LengthPositive DEF Send, ClientOK
    <3> QED  BY <1>2, <3>2, <3>3 DEF ClientOK
  <2>2. CASE HangUp(c)
    <3>1. client'[c] = [client[c] EXCEPT !.st = "gone"]  BY <2>2 DEF HangUp, IInv
    <3>2. /\ client'[c].st = "gone" /\ client'[c].req = client[c].req
          /\ client'[c].sent = client[c].sent /\ client[c].st = "open"
          /\ DOMAIN client'[c] = DOMAIN client[c]
      BY <1>2, <2>2, <3>1 DEF HangUp, ClientOK
    <3> QED  BY <1>2, <3>2 DEF ClientOK
  <2>3. CASE Again(c)
    <3>1. client'[c] = Absent /\ client[c].st = "answered"  BY <2>3 DEF Again, IInv
    <3> QED  BY <3>1, LengthPositive DEF ClientOK, Absent, Requests
  <2> QED  BY <2>1, <2>2, <2>3
<1>4. ASSUME NEW fd \in Fds, owner'[fd] # "none" PROVE Conn(fd)'
  <2>1. Conn(fd) /\ owner[fd] \in Clients  BY <1>0, <1>4 DEF IInv
  <2>2. CASE owner[fd] # c
    BY <1>0, <1>1, <2>1, <2>2 DEF Conn
  <2>3. CASE owner[fd] = c
    BY <1>0, <1>3, <2>1, <2>3 DEF Conn, EntryOK
  <2> QED  BY <2>2, <2>3
<1>5. \A d \in Clients : ClientOK(client'[d], handler'.issued)
  BY <1>0, <1>1, <1>3 DEF IInv
<1> QED  BY <1>0, <1>1, <1>4, <1>5 DEF IInv

(* readRequest, and processRequest when the request is complete.           *)
LEMMA ReceiveStep ==
  ASSUME IInv, NEW fd \in Fds, NEW n \in Nat \ {0}, Receive(fd, n)
  PROVE  IInv'
<1> DEFINE i == socketInfo[fd]
           cl == client[owner[fd]]
<1>0. /\ owner[fd] # "none" /\ i.events = "POLLIN" /\ i.got + n <= cl.sent
      /\ owner' = owner /\ client' = client
  BY DEF Receive, Polled
<1>1. owner[fd] \in Clients /\ fd \in DOMAIN socketInfo /\ EntryOK(i, cl, handler.issued)
  BY <1>0 DEF IInv, Conn
<1>2. ClientOK(cl, handler.issued)  BY <1>1 DEF IInv
<1>3. /\ IsComplete(i, cl.req, n) => Parsed(cl.req, i.got + n) = cl.req
      /\ ~IsComplete(i, cl.req, n) => EntryOK(PartlyRead(i, cl.req, n), cl, handler.issued)
  BY <1>0, <1>1, <1>2, ReadRequest DEF ClientOK
<1>4. /\ HandlerOK(handler')
      /\ Grows(handler.issued, handler'.issued)
      /\ DOMAIN socketInfo' = DOMAIN socketInfo
      /\ \A other \in DOMAIN socketInfo : other # fd => socketInfo'[other] = socketInfo[other]
      /\ EntryOK(socketInfo'[fd], cl, handler'.issued)
  <2>1. CASE IsComplete(i, cl.req, n)
    <3> DEFINE r == ReplyTo(handler, cl.req)
    <3>1. handler' = Handled(handler, cl.req) /\ Respond(fd, r)
      BY <1>3, <2>1 DEF Receive
    <3>2. cl.req \in Requests /\ HandlerOK(handler)  BY <1>2 DEF ClientOK, IInv
    <3>3. HandlerOK(handler') /\ Grows(handler.issued, handler'.issued)
      BY <3>1, <3>2, HandledKeeps
    <3>4. Right(cl.req, r, handler'.issued)
      BY <3>1, <3>2, ReplyIsRight
    <3> HIDE DEF r
    <3>5. /\ DOMAIN socketInfo' = DOMAIN socketInfo
          /\ \A other \in DOMAIN socketInfo : other # fd => socketInfo'[other] = socketInfo[other]
          /\ DOMAIN socketInfo'[fd] = {"events", "got", "pendingBytes", "reply"}
          /\ socketInfo'[fd].events = "POLLOUT" /\ socketInfo'[fd].reply = r
      BY <1>1, <3>1 DEF Respond
    <3>6. EntryOK(socketInfo'[fd], cl, handler'.issued)
      BY <1>1, <3>4, <3>5 DEF EntryOK
    <3> QED  BY <3>3, <3>5, <3>6
  <2>2. CASE ~IsComplete(i, cl.req, n)
    <3>1. handler' = handler /\ socketInfo' = [socketInfo EXCEPT ![fd] = PartlyRead(i, cl.req, n)]
      BY <2>2 DEF Receive
    <3> QED  BY <1>1, <1>3, <2>2, <3>1 DEF IInv, Grows
  <2> QED  BY <2>1, <2>2
<1> HIDE DEF i, cl
<1>5. \A c \in Clients : ClientOK(client'[c], handler'.issued)
  BY <1>0, <1>4, ClientStays DEF IInv
<1>6. ASSUME NEW other \in Fds, owner'[other] # "none" PROVE Conn(other)'
  <2>1. owner[other] \in Clients /\ Conn(other)  BY <1>0, <1>6 DEF IInv
  <2>2. CASE other = fd
    BY <1>0, <1>1, <1>4, <2>2 DEF Conn, cl
  <2>3. CASE other # fd
    <3>1. other \in DOMAIN socketInfo' /\ socketInfo'[other] = socketInfo[other]
      BY <1>4, <2>1, <2>3 DEF Conn
    <3>2. client[owner[other]].req \in Requests  BY <2>1 DEF IInv, ClientOK
    <3>3. EntryOK(socketInfo[other], client[owner[other]], handler'.issued)
      BY <1>4, <2>1, <3>2, EntryStays DEF Conn
    <3> QED  BY <1>0, <3>1, <3>3 DEF Conn
  <2> QED  BY <2>2, <2>3
<1> QED  BY <1>0, <1>4, <1>5, <1>6 DEF IInv

(* The end of the stream: the reply is not to the request, but nobody is   *)
(* there to see it.                                                        *)
LEMMA ReceiveEndStep ==
  ASSUME IInv, NEW fd \in Fds, ReceiveEnd(fd)
  PROVE  IInv'
<1>0. /\ owner[fd] # "none" /\ client[owner[fd]].st = "gone"
      /\ socketInfo' = [socketInfo EXCEPT ![fd] =
           [events |-> "POLLOUT", got |-> 0, pendingBytes |-> ReplyLen, reply |-> Reply(400)]]
      /\ owner' = owner /\ client' = client /\ handler' = handler
  BY DEF ReceiveEnd, Polled, Respond
<1>1. ASSUME NEW other \in Fds, owner'[other] # "none" PROVE Conn(other)'
  <2>1. Conn(other)  BY <1>0, <1>1 DEF IInv
  <2>2. CASE other = fd
    <3>1. /\ fd \in DOMAIN socketInfo' /\ socketInfo'[fd].events = "POLLOUT"
          /\ DOMAIN socketInfo'[fd] = {"events", "got", "pendingBytes", "reply"}
      BY <1>0, <2>1, <2>2 DEF Conn
    <3> QED  BY <1>0, <2>2, <3>1 DEF Conn, EntryOK
  <2>3. CASE other # fd
    BY <1>0, <2>1, <2>3 DEF Conn
  <2> QED  BY <2>2, <2>3
<1> QED  BY <1>0, <1>1 DEF IInv

(* The descriptor is closed and forgotten; what its client is left with is *)
(* right if it has an answer.                                              *)
LEMMA CloseStep ==
  ASSUME IInv, NEW fd \in Fds, NEW st \in {"answered", "absent"}, Close(fd, st),
         Polled(fd, "POLLOUT"), st = "answered" => client[owner[fd]].st = "open",
         handler' = handler
  PROVE  IInv'
<1> DEFINE c == owner[fd]
<1>1. /\ c \in Clients /\ Conn(fd) /\ socketInfo[fd].events = "POLLOUT"
      /\ owner' = [owner EXCEPT ![fd] = "none"]
      /\ socketInfo' = Without(socketInfo, fd)
      /\ client' = [client EXCEPT ![c] = IF st = "answered" THEN Answered(client[c], socketInfo[fd].reply) ELSE Absent]
  BY DEF Close, Polled, IInv
<1> HIDE DEF c
<1>2. /\ DOMAIN client' = Clients
      /\ \A d \in Clients : d # c => client'[d] = client[d]
      /\ client'[c] = IF st = "answered" THEN Answered(client[c], socketInfo[fd].reply) ELSE Absent
  BY <1>1 DEF IInv
<1>3. ClientOK(client'[c], handler.issued)
  <2>1. CASE st = "answered"
    <3>1. Right(client[c].req, socketInfo[fd].reply, handler.issued)
      BY <1>1, <2>1 DEF Conn, EntryOK, c
    <3>2. ClientOK(client[c], handler.issued)  BY <1>1 DEF IInv
    <3> QED  BY <1>2, <2>1, <3>1, <3>2 DEF ClientOK, Answered
  <2>2. CASE st # "answered"
    BY <1>2, <2>2, LengthPositive DEF ClientOK, Absent, Requests
  <2> QED  BY <2>1, <2>2
<1>4. ASSUME NEW other \in Fds, owner'[other] # "none" PROVE Conn(other)'
  <2>1. other # fd /\ owner'[other] = owner[other]  BY <1>1, <1>4 DEF IInv
  <2>2. Conn(other) /\ owner[other] \in Clients /\ owner[other] # c
    BY <1>4, <2>1 DEF IInv, c
  <2>3. other \in DOMAIN socketInfo' /\ socketInfo'[other] = socketInfo[other]
    BY <1>1, <2>1, <2>2 DEF Conn, Without
  <2> QED  BY <1>2, <2>1, <2>2, <2>3 DEF Conn
<1>5. owner' \in [Fds -> Clients \cup {"none"}]
  BY <1>1 DEF IInv
<1>6. \A f, g \in Fds : owner'[f] = owner'[g] /\ owner'[f] # "none" => f = g
  BY <1>1 DEF IInv
<1>7. \A d \in Clients : ClientOK(client'[d], handler'.issued)
  BY <1>2, <1>3 DEF IInv
<1> QED  BY <1>2, <1>4, <1>5, <1>6, <1>7 DEF IInv

(* sendResponse: the reply is through, part of it is, or it cannot be sent.*)
LEMMA TransmitStep ==
  ASSUME IInv, NEW fd \in Fds, NEW n, Transmit(fd, n)
  PROVE  IInv'
<1>1. CASE socketInfo[fd].pendingBytes = n
  <2>1. /\ Polled(fd, "POLLOUT") /\ handler' = handler
        /\ Close(fd, IF client[owner[fd]].st = "open" THEN "answered" ELSE "absent")
    BY <1>1 DEF Transmit
  <2> QED  BY <2>1, CloseStep
<1>2. CASE socketInfo[fd].pendingBytes # n
  <2>1. /\ socketInfo' = [socketInfo EXCEPT ![fd].pendingBytes = @ - n]
        /\ owner' = owner /\ client' = client /\ handler' = handler
        /\ Polled(fd, "POLLOUT")
    BY <1>2 DEF Transmit
  <2>2. ASSUME NEW other \in Fds, owner'[other] # "none" PROVE Conn(other)'
    <3>1. Conn(other)  BY <2>1, <2>2 DEF IInv
    <3>2. CASE other = fd
      <4>1. /\ fd \in DOMAIN socketInfo'
            /\ socketInfo'[fd] = [socketInfo[fd] EXCEPT !.pendingBytes = @ - n]
        BY <2>1, <3>1, <3>2 DEF Conn
      <4>2. /\ DOMAIN socketInfo'[fd] = DOMAIN socketInfo[fd]
            /\ socketInfo'[fd].events = "POLLOUT" /\ socketInfo'[fd].reply = socketInfo[fd].reply
        BY <2>1, <3>1, <3>2, <4>1 DEF Polled, Conn, EntryOK
      <4> QED  BY <2>1, <3>1, <3>2, <4>1, <4>2 DEF Conn, EntryOK, Polled
    <3>3. CASE other # fd
      BY <2>1, <3>1, <3>3 DEF Conn
    <3> QED  BY <3>2, <3>3
  <2> QED  BY <2>1, <2>2 DEF IInv
<1> QED  BY <1>1, <1>2

(* Every action preserves the invariant.                                   *)
LEMMA NextKeeps == IInv /\ [Next]_vars => IInv'
<1> SUFFICES ASSUME IInv, [Next]_vars PROVE IInv'
  OBVIOUS
<1>1. CASE \E c \in Clients : \E q \in Requests : Accept(c, q)
  BY <1>1, AcceptStep
<1>2. CASE \E c \in Clients : AcceptBlocking(c)
  BY <1>2, AcceptBlockingStep
<1>3. CASE \E c \in Clients : Send(c) \/ HangUp(c) \/ Again(c)
  BY <1>3, ClientStep
<1>4. CASE \E fd \in Fds : \E n \in 1 .. HeaderLen + BodyLen : Receive(fd, n)
  <2>1. PICK fd \in Fds, n \in 1 .. HeaderLen + BodyLen : Receive(fd, n)  BY <1>4
  <2>2. n \in Nat \ {0}  BY ShortnerConstants
  <2> QED  BY <2>1, <2>2, ReceiveStep
<1>5. CASE \E fd \in Fds : \E n \in 1 .. ReplyLen : Transmit(fd, n)
  BY <1>5, TransmitStep
<1>6. CASE \E fd \in Fds : ReceiveEnd(fd)
  BY <1>6, ReceiveEndStep
<1>7. CASE \E fd \in Fds : TransmitFails(fd)
  <2>1. PICK fd \in Fds : TransmitFails(fd)  BY <1>7
  <2> QED  BY <2>1, CloseStep DEF TransmitFails
<1>8. CASE Down
  <2>1. Fresh'  BY <1>8 DEF Down, Fresh
  <2> QED  BY <2>1, FreshHolds, PTL
<1>9. CASE Ended \/ UNCHANGED vars
  BY <1>9 DEF Ended, vars, IInv, Conn
<1> QED  BY <1>1, <1>2, <1>3, <1>4, <1>5, <1>6, <1>7, <1>8, <1>9 DEF Next, Event

(* The invariant holds always.                                             *)
LEMMA IInvHolds == Spec => []IInv
<1>1. Init => Fresh  BY DEF Init, Fresh
<1> QED  BY <1>1, FreshHolds, NextKeeps, PTL DEF Spec

(* cache and revCache are inverse to each other in every state             *)
(* (RequestHandler::shortenURL, and the deletion in processRequest).       *)
THEOREM MapsInverseHolds == Spec => []MapsInverse
<1>1. IInv => MapsInverse  BY DEF IInv, HandlerOK, MapsInverse
<1> QED  BY <1>1, IInvHolds, PTL

(* Every answered client has the reply to its request, and no key it was   *)
(* given ever comes to mean another URL (Server::run, processRequest).     *)
THEOREM RepliesRightHolds == Spec => []RepliesRight
<1>1. IInv => RepliesRight  BY DEF IInv, ClientOK, RepliesRight
<1> QED  BY <1>1, IInvHolds, PTL

(* The server never waits for more of a request it has read to its end,    *)
(* however the request was cut up (Server::readRequest).                   *)
THEOREM NoneLeftWaitingHolds == Spec => []NoneLeftWaiting
<1>1. IInv => NoneLeftWaiting  BY DEF IInv, Conn, EntryOK, NoneLeftWaiting, Polled
<1> QED  BY <1>1, IInvHolds, PTL
=============================================================================
