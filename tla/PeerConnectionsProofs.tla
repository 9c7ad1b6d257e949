----------------------- MODULE PeerConnectionsProofs -----------------------
(***************************************************************************)
(* Proofs about the connections of the torrent client, for any number of   *)
(* peers: however descriptors are closed, reused and forgotten, an event   *)
(* is taken for one of the peer it comes from, the two tables agree after  *)
(* every sweep, and a handshake is sent before anything is read.           *)
(***************************************************************************)
EXTENDS PeerConnections, FiniteSetTheorems, WellFoundedInduction, TLAPS

(* The tables have the same keys; an open socket, the map and the context  *)
(* of the peer at its other end name each other.                           *)
Linked ==
  /\ \A fd \in Fds : sockets[fd] = "none" <=> fd2Peer[fd] = "none"
  /\ \A fd \in Live : fd2Peer[fd] = sockets[fd] /\ ctx[sockets[fd]].fd = fd

(* A socket that has closed itself is still known by the peer it was a     *)
(* connection to, whose turn in the sweep is yet to come.                  *)
DeadIsKnown ==
  \A fd \in Fds : sockets[fd] = "dead" =>
    /\ fd2Peer[fd] \in Peers
    /\ ctx[fd2Peer[fd]].fd = fd
    /\ ctx[fd2Peer[fd]].closed
    /\ phase = "sweep" => fd2Peer[fd] \in unswept

(* Nobody unchokes us before the handshake.                                *)
ChokedFirst == \A p \in Peers : ~ctx[p].handshaked => ctx[p].choked

(* HandshakeFirst, during the sweep as well as in the poll loop.           *)
Greeted ==
  \A fd \in Live : LET c == ctx[fd2Peer[fd]]
                   IN  ~c.handshaked /\ ~c.closed =>
                         /\ "R" \in events[fd] <=> c.sendBuffer.kind = "empty"
                         /\ "W" \in events[fd] <=> c.sendBuffer.kind = "handshake"

Inv == TypeOK /\ Linked /\ DeadIsKnown /\ ChokedFirst /\ Greeted

-----------------------------------------------------------------------------
(* Descriptors.                                                            *)

(* A set of naturals has a least element.                                  *)
LEMMA LeastNatural ==
  ASSUME NEW S, S \subseteq Nat, S # {}
  PROVE  \E n \in S : \A m \in S : n <= m
<1>1. PICK n \in S : \A m \in S : ~(<<m, n>> \in OpToRel(<, Nat))
  BY WFMin, NatLessThanWellFounded, Zenon
<1>2. \A m \in S : ~(m < n)
  BY <1>1 DEF OpToRel
<1> QED
  BY <1>2

(* Descriptors are numbers, so that there is a lowest free one.            *)
LEMMA FdsNatural == Cardinality(Peers) \in Nat /\ Fds \subseteq Nat
  BY PeersFinite, FS_CardinalityType DEF Fds

(* There is one descriptor more than peers, and no two open sockets lead   *)
(* to the same peer: a new socket gets one that is not open.               *)
LEMMA FreeDescriptor ==
  ASSUME TypeOK, Linked
  PROVE  LowestFree \in Fds \ Live
<1>1. Fds \ Live # {}
  <2> SUFFICES ASSUME Fds \subseteq Live PROVE FALSE
    OBVIOUS
  <2>1. sockets \in [Fds -> Peers]
    BY DEF TypeOK, Live
  <2>2. IsFiniteSet(Fds) /\ Cardinality(Fds) = Cardinality(Peers) + 1
    BY FdsNatural, FS_Interval DEF Fds
  <2>3. Cardinality(Peers) < Cardinality(Fds)
    BY <2>2, FdsNatural
  <2>4. PICK a, b \in Fds : a # b /\ sockets[a] = sockets[b]
    BY <2>1, <2>2, <2>3, PeersFinite, FS_PigeonHole
  <2> QED
    BY <2>4 DEF Linked
<1>2. \E fd \in Fds \ Live : \A other \in Fds \ Live : fd <= other
  BY <1>1, FdsNatural, LeastNatural
<1> QED
  BY <1>2 DEF LowestFree

-----------------------------------------------------------------------------
(* Contexts.                                                               *)

LEMMA WholeBuffer == \A k \in Content : Whole(k) \in Buffer
  BY DEF Whole, Buffer

(* The context of a new connection: choked, not greeted, its handshake to  *)
(* be sent.                                                                *)
LEMMA NewContextType ==
  ASSUME NEW fd \in Fds, NEW n \in 0 .. MAX_RECONNECT_ATTEMPTS
  PROVE  /\ NewContext(fd, n) \in Context
         /\ NewContext(fd, n).fd = fd
         /\ ~NewContext(fd, n).handshaked /\ NewContext(fd, n).choked
         /\ ~NewContext(fd, n).closed
         /\ NewContext(fd, n).sendBuffer.kind = "handshake"
  BY AttemptsType DEF NewContext, Context, Whole, Buffer, Content

(* Overwriting the send buffer changes nothing else that matters here.     *)
LEMMA ReplaceType ==
  ASSUME NEW c \in Context, NEW k \in Content
  PROVE  /\ Replace(c, k) \in Context
         /\ Replace(c, k).fd = c.fd
         /\ Replace(c, k).handshaked = c.handshaked
         /\ Replace(c, k).choked = c.choked
         /\ Replace(c, k).closed = c.closed
  BY DEF Replace, Context, Whole, Buffer

(* Neither does asking for blocks.                                         *)
LEMMA RequestType ==
  ASSUME NEW c \in Context
  PROVE  /\ Request(c) \in Context
         /\ Request(c).fd = c.fd
         /\ Request(c).handshaked = c.handshaked
         /\ Request(c).choked = c.choked
         /\ Request(c).closed = c.closed
  BY DEF Request, Context, Buffer, Content

(* Asking to be unchoked may close the connection; it does not change who  *)
(* is greeted or choked.                                                   *)
LEMMA AskUnchokeType ==
  ASSUME NEW c \in Context
  PROVE  /\ AskUnchoke(c) \in Context
         /\ AskUnchoke(c).fd = c.fd
         /\ AskUnchoke(c).handshaked = c.handshaked
         /\ AskUnchoke(c).choked = c.choked
<1>1. CASE ~MayAskAgain(c)
  BY <1>1 DEF AskUnchoke, Context
<1>2. CASE MayAskAgain(c) /\ c.sendBuffer = Whole("unchoke")
  BY <1>2 DEF AskUnchoke
<1>3. CASE MayAskAgain(c) /\ c.sendBuffer # Whole("unchoke")
  <2>1. AskUnchoke(c) = [Replace(c, "unchoke") EXCEPT !.unchokeAttempts = @ + 1]
    BY <1>3 DEF AskUnchoke
  <2>2. Replace(c, "unchoke").unchokeAttempts = c.unchokeAttempts
    BY DEF Replace, Context
  <2>3. c.unchokeAttempts + 1 \in 0 .. MAX_UNCHOKE_ATTEMPTS
    BY <1>3, AttemptsType DEF MayAskAgain, Context
  <2> QED
    BY <2>1, <2>2, <2>3, ReplaceType DEF Context, Content
<1> QED
  BY <1>1, <1>2, <1>3

-----------------------------------------------------------------------------
(* Initially.                                                              *)

LEMMA InvInit == Init => Inv
<1> SUFFICES ASSUME Init PROVE Inv
  OBVIOUS
<1> PICK f \in [Peers -> 1 .. Cardinality(Peers)] :
       /\ \A p, q \in Peers : f[p] = f[q] => p = q
       /\ ctx = [p \in Peers |-> NewContext(f[p], 0)]
       /\ sockets = [fd \in Fds |-> IF \E p \in Peers : f[p] = fd
                                      THEN CHOOSE p \in Peers : f[p] = fd ELSE "none"]
  BY DEF Init
<1>1. \A p \in Peers : f[p] \in Fds /\ 0 \in 0 .. MAX_RECONNECT_ATTEMPTS
  BY FdsNatural, AttemptsType DEF Fds
<1>2. \A fd \in Fds : \/ sockets[fd] = "none"
                      \/ sockets[fd] \in Peers /\ f[sockets[fd]] = fd
  OBVIOUS
<1>3. fd2Peer = sockets /\ events = [fd \in Fds |-> IF sockets[fd] = "none" THEN {} ELSE {"W"}]
  BY DEF Init
<1>4. \A p \in Peers : /\ ctx[p] \in Context /\ ctx[p].fd = f[p]
                       /\ ~ctx[p].handshaked /\ ctx[p].choked
                       /\ ctx[p].sendBuffer.kind = "handshake"
  BY <1>1, NewContextType
<1>5. TypeOK
  <2>1. ctx \in [Peers -> Context]
    BY <1>4
  <2>2. sockets \in [Fds -> Peers \cup {"none", "dead"}] /\ fd2Peer \in [Fds -> Peers \cup {"none"}]
    BY <1>2, <1>3
  <2>3. events \in [Fds -> SUBSET {"R", "W"}]
    BY <1>3
  <2> QED
    BY <2>1, <2>2, <2>3 DEF TypeOK, Init
<1>6. Linked /\ DeadIsKnown
  BY <1>2, <1>3, <1>4, PeersFinite DEF Linked, DeadIsKnown, Live
<1>7. ChokedFirst /\ Greeted
  BY <1>2, <1>3, <1>4, PeersFinite DEF ChokedFirst, Greeted, Live
<1> QED
  BY <1>5, <1>6, <1>7 DEF Inv

-----------------------------------------------------------------------------
(* The poll loop.                                                          *)

(* What the handling of an event may make of a context.                    *)
Handled(c, d) ==
  /\ d \in Context
  /\ d.fd = c.fd
  /\ ~d.handshaked => d.choked
  /\ ~d.handshaked /\ ~d.closed => /\ ~c.handshaked /\ ~c.closed
                                   /\ d.sendBuffer.kind \in {"empty", c.sendBuffer.kind}

(* The end of a handled event: the peer's context is replaced and its      *)
(* descriptor stays or dies.                                               *)
LEMMA EventStep ==
  ASSUME Inv, phase = "poll", NEW fd \in Live, NEW p \in Peers, p = fd2Peer[fd],
         NEW c, Handled(ctx[p], c),
         EndEvent(fd, p, c), fresh' \in SUBSET Peers
  PROVE  Inv'
<1>1. fd \in Fds /\ sockets[fd] = p /\ ctx[p].fd = fd
  BY DEF Inv, Linked, Live
<1>2. /\ sockets' = sockets /\ fd2Peer' = fd2Peer /\ phase' = "poll" /\ unswept' = unswept
      /\ ctx' = [ctx EXCEPT ![p] = c]
      /\ Live' = Live
  BY DEF EndEvent, loop, Live
<1>3. \/ events' = events /\ (c.closed \/ c.handshaked \/ c.sendBuffer.kind # "empty")
      \/ events' = [events EXCEPT ![fd] = {"R"}] /\ c.sendBuffer.kind = "empty"
      \/ events' = [events EXCEPT ![fd] = {"R", "W"}] /\ c.handshaked
  BY DEF EndEvent, updateTracking
<1>4. ctx \in [Peers -> Context] /\ c \in Context
  BY DEF Inv, TypeOK, Handled
<1>5. TypeOK'
  <2>1. events' \in [Fds -> SUBSET {"R", "W"}]
    BY <1>3 DEF Inv, TypeOK
  <2> QED
    BY <1>2, <1>4, <2>1 DEF Inv, TypeOK
<1>6. Linked' /\ ChokedFirst'
  BY <1>1, <1>2, <1>4 DEF Inv, Linked, ChokedFirst, Live, Handled, TypeOK
<1>7. DeadIsKnown'
  <2> SUFFICES ASSUME NEW d \in Fds, sockets[d] = "dead"
               PROVE  /\ fd2Peer[d] \in Peers
                      /\ ctx'[fd2Peer[d]].fd = d
                      /\ ctx'[fd2Peer[d]].closed
    BY <1>2 DEF DeadIsKnown
  <2>1. fd2Peer[d] \in Peers /\ ctx[fd2Peer[d]].fd = d /\ ctx[fd2Peer[d]].closed
    BY DEF Inv, DeadIsKnown
  <2>2. fd2Peer[d] # p
    BY <2>1, <1>1, PeersFinite
  <2> QED
    BY <2>1, <2>2, <1>2, <1>4
<1>8. Greeted'
  <2> SUFFICES ASSUME NEW d \in Live, ~ctx'[fd2Peer[d]].handshaked, ~ctx'[fd2Peer[d]].closed
               PROVE  /\ "R" \in events'[d] <=> ctx'[fd2Peer[d]].sendBuffer.kind = "empty"
                      /\ "W" \in events'[d] <=> ctx'[fd2Peer[d]].sendBuffer.kind = "handshake"
    BY <1>2 DEF Greeted
  <2>1. d \in Fds /\ fd2Peer[d] = sockets[d] /\ sockets[d] \in Peers /\ ctx[sockets[d]].fd = d
    BY DEF Inv, Linked, Live
  <2>2. events \in [Fds -> SUBSET {"R", "W"}]
    BY DEF Inv, TypeOK
  <2>3. CASE d # fd
    BY <1>1, <1>2, <1>3, <1>4, <2>1, <2>2, <2>3 DEF Inv, Greeted
  <2>4. CASE d = fd
    <3>1. ctx'[fd2Peer[d]] = c
      BY <2>4, <1>2, <1>4
    <3>2. ~ctx[p].handshaked /\ ~ctx[p].closed /\ c.sendBuffer.kind \in {"empty", ctx[p].sendBuffer.kind}
      BY <3>1 DEF Handled
    <3>3. /\ "R" \in events[fd] <=> ctx[p].sendBuffer.kind = "empty"
          /\ "W" \in events[fd] <=> ctx[p].sendBuffer.kind = "handshake"
      BY <3>2 DEF Inv, Greeted
    <3> QED
      BY <1>1, <1>3, <2>2, <2>4, <3>1, <3>2, <3>3
  <2> QED
    BY <2>3, <2>4
<1> QED
  BY <1>5, <1>6, <1>7, <1>8 DEF Inv

(* Every event that poll() reports is handled as EventStep says.           *)
LEMMA PollStep ==
  ASSUME Inv, NEW fd \in Fds, NEW p \in Peers, PollEvent(fd, p)
  PROVE  Inv'
<1>1. phase = "poll" /\ fd \in Live /\ p = fd2Peer[fd]
  BY DEF PollEvent, ReadIncomplete, ReadHandshake, ReadBadHandshake, ReadChoke, ReadUnchoke,
         ReadOther, ReadEnd, Write, Fail, Read, EventAt
<1>2. ctx[p] \in Context /\ fresh \in SUBSET Peers
  BY DEF Inv, TypeOK
<1>3. ~ctx[p].handshaked => ctx[p].choked
  BY DEF Inv, ChokedFirst
<1>4. ASSUME NEW c, Handled(ctx[p], c), Read(fd, p, c)
      PROVE  Inv'
  <2>1. EndEvent(fd, p, c) /\ fresh' \in SUBSET Peers
    BY <1>2, <1>4 DEF Read
  <2> QED
    BY <1>1, <1>4, <2>1, EventStep
<1>5. CASE ReadIncomplete(fd, p)
  <2>1. Handled(ctx[p], ctx[p]) /\ Read(fd, p, ctx[p])
    BY <1>2, <1>3, <1>5 DEF Handled, ReadIncomplete, Read
  <2> QED
    BY <2>1, <1>4
<1>6. CASE ReadHandshake(fd, p)
  <2> DEFINE c == [Replace(ctx[p], "interested") EXCEPT !.handshaked = TRUE]
  <2>1. Replace(ctx[p], "interested") \in Context /\ Replace(ctx[p], "interested").fd = ctx[p].fd
    BY <1>2, ReplaceType DEF Content
  <2>2. Handled(ctx[p], c)
    BY <1>2, <2>1 DEF Handled, Context
  <2> QED
    BY <1>4, <1>6, <2>2 DEF ReadHandshake
<1>7. CASE ReadBadHandshake(fd, p)
  <2>1. Handled(ctx[p], [ctx[p] EXCEPT !.closed = TRUE])
    BY <1>2, <1>3 DEF Handled, Context
  <2> QED
    BY <1>4, <1>7, <2>1 DEF ReadBadHandshake
<1>8. CASE ReadChoke(fd, p)
  <2> DEFINE c == [ctx[p] EXCEPT !.pending = FALSE, !.choked = TRUE]
  <2>1. c \in Context /\ c.fd = ctx[p].fd /\ c.handshaked
    BY <1>2, <1>8 DEF Context, ReadChoke
  <2>2. Handled(ctx[p], AskUnchoke(c))
    <3> HIDE DEF c
    <3> QED
      BY <2>1, AskUnchokeType DEF Handled
  <2> QED
    BY <1>4, <1>8, <2>2 DEF ReadChoke
<1>9. CASE ReadUnchoke(fd, p)
  <2> DEFINE c == [ctx[p] EXCEPT !.unchokeAttempts = 0, !.choked = FALSE]
  <2>1. 0 \in 0 .. MAX_UNCHOKE_ATTEMPTS /\ ctx[p].handshaked
    BY <1>9, AttemptsType DEF ReadUnchoke
  <2>2. c \in Context /\ c.fd = ctx[p].fd /\ c.handshaked
    BY <1>2, <2>1 DEF Context
  <2>3. Handled(ctx[p], c) /\ Handled(ctx[p], Request(c))
    <3> HIDE DEF c
    <3> QED
      BY <2>2, RequestType DEF Handled
  <2> QED
    BY <1>4, <1>9, <2>3 DEF ReadUnchoke
<1>10. CASE ReadOther(fd, p)
  <2>1. ctx[p].handshaked
    BY <1>10 DEF ReadOther
  <2>2. Handled(ctx[p], AskUnchoke(ctx[p])) /\ Handled(ctx[p], Request(ctx[p]))
    BY <1>2, <2>1, AskUnchokeType, RequestType DEF Handled
  <2>3. \A b \in {FALSE, ctx[p].pending} : Handled(ctx[p], [ctx[p] EXCEPT !.pending = b])
    BY <1>2, <2>1 DEF Handled, Context
  <2>4. \/ Read(fd, p, AskUnchoke(ctx[p])) \/ Read(fd, p, Request(ctx[p]))
        \/ \E b \in {FALSE, ctx[p].pending} : Read(fd, p, [ctx[p] EXCEPT !.pending = b])
    BY <1>10 DEF ReadOther
  <2> QED
    BY <1>4, <2>2, <2>3, <2>4
<1>11. CASE ReadEnd(fd, p)
  <2>1. fd \in Fds /\ sockets[fd] = p /\ ctx[p].fd = fd /\ p # "none" /\ p # "dead"
    BY <1>1, PeersFinite DEF Inv, Linked, Live
  <2>2. /\ sockets' = [sockets EXCEPT ![fd] = "dead"]
        /\ ctx' = [ctx EXCEPT ![p].closed = TRUE]
        /\ fd2Peer' = fd2Peer /\ events' = events /\ phase' = "poll"
        /\ unswept' = unswept /\ fresh' = fresh
    BY <1>1, <1>11 DEF ReadEnd, loop
  <2>3. Live' = Live \ {fd}
    BY <2>1, <2>2, PeersFinite DEF Live, Inv, TypeOK
  <2>4. /\ ctx' \in [Peers -> Context]
        /\ \A q \in Peers : /\ ctx'[q].fd = ctx[q].fd
                            /\ ctx'[q].handshaked = ctx[q].handshaked
                            /\ ctx'[q].choked = ctx[q].choked
                            /\ ctx'[q].sendBuffer = ctx[q].sendBuffer
                            /\ ctx[q].closed => ctx'[q].closed
        /\ ctx'[p].closed
    <3>1. ctx \in [Peers -> Context]
      BY DEF Inv, TypeOK
    <3>2. ctx' = [ctx EXCEPT ![p] = [ctx[p] EXCEPT !.closed = TRUE]]
      BY <2>2
    <3>3. [ctx[p] EXCEPT !.closed = TRUE] \in Context
      BY <1>2 DEF Context
    <3> QED
      BY <1>2, <3>1, <3>2, <3>3 DEF Context
  <2>5. TypeOK'
    BY <2>2, <2>4 DEF Inv, TypeOK
  <2>6. Linked' /\ ChokedFirst'
    BY <2>1, <2>2, <2>3, <2>4, PeersFinite DEF Inv, Linked, ChokedFirst, Live, TypeOK
  <2>7. DeadIsKnown'
    BY <2>1, <2>2, <2>4, <1>1 DEF Inv, DeadIsKnown, TypeOK
  <2>8. Greeted'
    BY <2>1, <2>2, <2>3, <2>4 DEF Inv, Greeted, Linked, Live
  <2> QED
    BY <2>5, <2>6, <2>7, <2>8 DEF Inv
<1>12. CASE Write(fd, p)
  <2>1. PICK b \in Remains(ctx[p].sendBuffer) : EndEvent(fd, p, [ctx[p] EXCEPT !.sendBuffer = b])
    BY <1>12 DEF Write
  <2>2. b \in Buffer /\ b.kind \in {"empty", ctx[p].sendBuffer.kind}
    <3>1. ctx[p].sendBuffer \in Buffer
      BY <1>2 DEF Context
    <3>2. \/ b = Whole("empty") \/ b = ctx[p].sendBuffer
          \/ b = [ctx[p].sendBuffer EXCEPT !.cut = TRUE]
          \/ b = Whole(ctx[p].sendBuffer.kind)
      BY PartialSendsType DEF Remains
    <3>3. CASE b = [ctx[p].sendBuffer EXCEPT !.cut = TRUE]
      BY <3>1, <3>3 DEF Buffer
    <3>4. CASE b = Whole("empty") \/ b = Whole(ctx[p].sendBuffer.kind)
      <4>1. b.kind \in {"empty", ctx[p].sendBuffer.kind}
        BY <3>4 DEF Whole
      <4>2. ctx[p].sendBuffer.kind \in Content /\ "empty" \in Content
        BY <3>1 DEF Buffer, Content
      <4> QED
        BY <3>4, <4>1, <4>2, WholeBuffer
    <3> QED
      BY <3>1, <3>2, <3>3, <3>4
  <2>3. Handled(ctx[p], [ctx[p] EXCEPT !.sendBuffer = b])
    BY <1>2, <1>3, <2>2 DEF Handled, Context
  <2>4. fresh' \in SUBSET Peers
    BY <1>2, <1>12 DEF Write
  <2> QED
    BY <1>1, <2>1, <2>3, <2>4, EventStep
<1>13. CASE Fail(fd, p)
  <2>1. Handled(ctx[p], [ctx[p] EXCEPT !.closed = TRUE])
    BY <1>2, <1>3 DEF Handled, Context
  <2>2. EndEvent(fd, p, [ctx[p] EXCEPT !.closed = TRUE]) /\ fresh' \in SUBSET Peers
    BY <1>2, <1>13 DEF Fail
  <2> QED
    BY <1>1, <2>1, <2>2, EventStep
<1> QED
  BY <1>5, <1>6, <1>7, <1>8, <1>9, <1>10, <1>11, <1>12, <1>13 DEF PollEvent

-----------------------------------------------------------------------------
(* The sweep.                                                              *)

(* Whichever descriptor the sweep drops, nothing is left of it, also when  *)
(* the peer it is dropped for is not the one at its other end.             *)
LEMMA DropStep ==
  ASSUME Inv, NEW p \in Peers, SweepDrop(p)
  PROVE  Inv'
<1> DEFINE d == ctx[p].fd
<1>1. d \in Fds /\ ctx[p] \in Context
  BY DEF Inv, TypeOK, Context
<1>2. /\ sockets' = [sockets EXCEPT ![d] = "none"]
      /\ fd2Peer' = [fd2Peer EXCEPT ![d] = "none"]
      /\ events' = [events EXCEPT ![d] = {}]
      /\ phase' = "sweep" /\ phase = "sweep"
      /\ unswept' = unswept \ {p} /\ fresh' = fresh \ {p}
  BY DEF SweepDrop, Sweeping, Swept, untrack, Forget
<1>3. /\ ctx' \in [Peers -> Context]
      /\ \A q \in Peers : /\ ctx'[q].fd = ctx[q].fd
                          /\ ctx'[q].handshaked = ctx[q].handshaked
                          /\ ctx'[q].choked = ctx[q].choked
                          /\ ctx'[q].sendBuffer = ctx[q].sendBuffer
                          /\ ctx[q].closed => ctx'[q].closed
                          /\ ctx'[q].closed => q = p \/ ctx[q].closed
  <2>1. ctx \in [Peers -> Context]
    BY DEF Inv, TypeOK
  <2>2. ctx' = [ctx EXCEPT ![p] = [ctx[p] EXCEPT !.closed = TRUE, !.pending = FALSE]]
    BY <2>1 DEF SweepDrop
  <2>3. [ctx[p] EXCEPT !.closed = TRUE, !.pending = FALSE] \in Context
    BY <1>1 DEF Context
  <2> QED
    BY <1>1, <2>1, <2>2, <2>3 DEF Context
<1> HIDE DEF d
<1>4. Live' = Live \ {d}
  BY <1>1, <1>2, PeersFinite DEF Live, Inv, TypeOK
<1>5. TypeOK'
  BY <1>1, <1>2, <1>3 DEF Inv, TypeOK
<1>6. Linked' /\ ChokedFirst'
  BY <1>1, <1>2, <1>3, <1>4 DEF Inv, TypeOK, Linked, ChokedFirst, Live
<1>7. DeadIsKnown'
  <2> SUFFICES ASSUME NEW e \in Fds, sockets'[e] = "dead"
               PROVE  /\ fd2Peer'[e] \in Peers
                      /\ ctx'[fd2Peer'[e]].fd = e
                      /\ ctx'[fd2Peer'[e]].closed
                      /\ fd2Peer'[e] \in unswept'
    BY <1>2 DEF DeadIsKnown
  <2>1. e # d /\ sockets[e] = "dead" /\ fd2Peer'[e] = fd2Peer[e]
    BY <1>1, <1>2 DEF Inv, TypeOK
  <2>2. /\ fd2Peer[e] \in Peers /\ fd2Peer[e] \in unswept
        /\ ctx[fd2Peer[e]].fd = e /\ ctx[fd2Peer[e]].closed
    BY <1>2, <2>1 DEF Inv, DeadIsKnown
  <2>3. fd2Peer[e] # p
    BY <2>1, <2>2 DEF d
  <2> QED
    BY <1>2, <1>3, <2>1, <2>2, <2>3
<1>8. Greeted'
  BY <1>1, <1>2, <1>3, <1>4 DEF Inv, TypeOK, Linked, Greeted, Live
<1> QED
  BY <1>5, <1>6, <1>7, <1>8 DEF Inv

(* The new connection is entered in both tables or, when the descriptor is *)
(* that of a socket that has closed itself, in neither.                    *)
LEMMA ReconnectStep ==
  ASSUME Inv, NEW p \in Peers, SweepReconnect(p)
  PROVE  Inv'
<1> DEFINE d == LowestFree
           c == NewContext(d, ctx[p].reconnectAttempts + 1)
<1>1. d \in Fds /\ d \notin Live
  BY FreeDescriptor DEF Inv
<1>2. /\ ctx' = [ctx EXCEPT ![p] = c]
      /\ sockets' = [sockets EXCEPT ![d] = IF @ = "none" THEN p ELSE @]
      /\ fd2Peer' = [fd2Peer EXCEPT ![d] = IF @ = "none" THEN p ELSE @]
      /\ events' = [events EXCEPT ![d] = {"W"}]
      /\ phase' = "sweep" /\ phase = "sweep"
      /\ unswept' = unswept \ {p} /\ fresh' = fresh \ {p}
  BY DEF SweepReconnect, Sweeping, Swept, track
<1>3. /\ c \in Context /\ c.fd = d /\ ~c.handshaked /\ c.choked /\ ~c.closed
      /\ c.sendBuffer.kind = "handshake"
  <2>1. ctx[p].reconnectAttempts + 1 \in 0 .. MAX_RECONNECT_ATTEMPTS
    BY AttemptsType DEF SweepReconnect, MayReconnect, Inv, TypeOK, Context
  <2> QED
    BY <1>1, <2>1, NewContextType
<1> HIDE DEF c, d
<1>4. ctx' \in [Peers -> Context] /\ ctx'[p] = c /\ \A q \in Peers \ {p} : ctx'[q] = ctx[q]
  BY <1>2, <1>3 DEF Inv, TypeOK
<1>5. \A e \in Fds : sockets[e] # "none" => fd2Peer[e] \in Peers \ {p}
  <2>1. fd2Peer[ctx[p].fd] = "none"
    BY DEF SweepReconnect
  <2> QED
    BY <2>1, PeersFinite DEF Inv, TypeOK, Linked, DeadIsKnown, Live
<1>6. CASE sockets[d] = "none"
  <2>1. fd2Peer[d] = "none"
    BY <1>1, <1>6 DEF Inv, Linked
  <2>2. /\ sockets' = [sockets EXCEPT ![d] = p]
        /\ fd2Peer' = [fd2Peer EXCEPT ![d] = p]
        /\ Live' = Live \cup {d}
    BY <1>1, <1>2, <1>6, <2>1 DEF Inv, TypeOK, Live
  <2>3. TypeOK'
    BY <1>1, <1>2, <1>4, <2>2 DEF Inv, TypeOK
  <2>4. Linked' /\ ChokedFirst'
    BY <1>1, <1>3, <1>4, <1>5, <2>2, PeersFinite DEF Inv, TypeOK, Linked, ChokedFirst, Live
  <2>5. DeadIsKnown'
    BY <1>1, <1>2, <1>4, <1>5, <2>2, PeersFinite DEF Inv, TypeOK, DeadIsKnown
  <2>6. Greeted'
    BY <1>1, <1>2, <1>3, <1>4, <1>5, <2>2, PeersFinite DEF Inv, TypeOK, Greeted, Live
  <2> QED
    BY <2>3, <2>4, <2>5, <2>6 DEF Inv
<1>7. CASE sockets[d] # "none"
  <2>1. sockets' = sockets /\ fd2Peer' = fd2Peer /\ Live' = Live
    BY <1>1, <1>2, <1>5, <1>7, PeersFinite DEF Inv, TypeOK, Live
  <2>2. TypeOK'
    BY <1>1, <1>2, <1>4, <2>1 DEF Inv, TypeOK
  <2>3. Linked' /\ ChokedFirst'
    BY <1>3, <1>4, <1>5, <2>1, PeersFinite DEF Inv, TypeOK, Linked, ChokedFirst, Live
  <2>4. DeadIsKnown'
    BY <1>2, <1>4, <1>5, <2>1, PeersFinite DEF Inv, TypeOK, DeadIsKnown
  <2>5. Greeted'
    BY <1>1, <1>2, <1>4, <1>5, <2>1, PeersFinite DEF Inv, TypeOK, Greeted, Live
  <2> QED
    BY <2>2, <2>3, <2>4, <2>5 DEF Inv
<1> QED
  BY <1>6, <1>7

(* The other turns of the sweep change at most one context, and the tables *)
(* not at all.  Nobody they pass by is known by a dead socket.             *)
LEMMA SweepStep ==
  ASSUME Inv, NEW p \in Peers, Sweep(p)
  PROVE  Inv'
<1>1. ctx \in [Peers -> Context] /\ ctx[p] \in Context
  BY DEF Inv, TypeOK
<1>2. ASSUME NEW c \in Context, ctx' = [ctx EXCEPT ![p] = c], c.fd = ctx[p].fd,
             ~c.handshaked => c.choked,
             ~c.handshaked /\ ~c.closed => c = ctx[p],
             ctx[p].closed => c.closed /\ fd2Peer[ctx[p].fd] = "none",
             UNCHANGED tables, phase = "sweep", Swept(p)
      PROVE  Inv'
  <2>1. /\ sockets' = sockets /\ events' = events /\ fd2Peer' = fd2Peer
        /\ phase' = "sweep" /\ unswept' = unswept \ {p} /\ fresh' = fresh \ {p} /\ Live' = Live
    BY <1>2 DEF tables, Swept, Live
  <2>2. ctx' \in [Peers -> Context] /\ ctx'[p] = c /\ \A q \in Peers \ {p} : ctx'[q] = ctx[q]
    BY <1>1, <1>2
  <2>3. TypeOK'
    BY <2>1, <2>2 DEF Inv, TypeOK
  <2>4. Linked' /\ ChokedFirst'
    BY <1>2, <2>1, <2>2 DEF Inv, Linked, ChokedFirst, Live
  <2>5. DeadIsKnown'
    <3>1. \A e \in Fds : sockets[e] = "dead" => fd2Peer[e] \in Peers \ {p}
      BY <1>2, PeersFinite DEF Inv, DeadIsKnown
    <3> QED
      BY <1>2, <2>1, <2>2, <3>1 DEF Inv, DeadIsKnown
  <2>6. Greeted'
    BY <1>2, <2>1, <2>2 DEF Inv, Linked, Greeted, Live
  <2> QED
    BY <2>3, <2>4, <2>5, <2>6 DEF Inv
<1>3. ~ctx[p].handshaked => ctx[p].choked
  BY DEF Inv, ChokedFirst
<1>4. CASE SweepGood(p)
  <2>1. ctx' = [ctx EXCEPT ![p] = ctx[p]] /\ ~ctx[p].closed
    BY <1>1, <1>4 DEF SweepGood
  <2> QED
    BY <1>1, <1>2, <1>3, <1>4, <2>1 DEF SweepGood, Sweeping
<1>5. CASE SweepIdle(p)
  <2> DEFINE r == Replace(ctx[p], "obsolete")
             c == [r EXCEPT !.pending = FALSE]
  <2>1. r \in Context /\ r.fd = ctx[p].fd /\ r.handshaked = ctx[p].handshaked
    BY <1>1, ReplaceType DEF Content
  <2>2. c \in Context /\ c.fd = ctx[p].fd /\ c.handshaked = ctx[p].handshaked
    <3> HIDE DEF r
    <3> QED
      BY <2>1 DEF Context
  <2>3. ctx[p].handshaked /\ ~ctx[p].closed
    BY <1>3, <1>5 DEF SweepIdle
  <2>4. ctx' = [ctx EXCEPT ![p] = c] /\ UNCHANGED tables /\ phase = "sweep" /\ Swept(p)
    BY <1>5 DEF SweepIdle, Sweeping
  <2> HIDE DEF c
  <2> QED
    BY <1>2, <2>2, <2>3, <2>4
<1>6. CASE SweepDropped(p)
  <2> DEFINE c == [ctx[p] EXCEPT !.closed = TRUE]
  <2>1. c \in Context /\ c.fd = ctx[p].fd /\ c.closed /\ (~c.handshaked => c.choked)
    BY <1>1, <1>3 DEF Context
  <2>2. /\ ctx' = [ctx EXCEPT ![p] = c] /\ fd2Peer[ctx[p].fd] = "none"
        /\ UNCHANGED tables /\ phase = "sweep" /\ Swept(p)
    BY <1>1, <1>6 DEF SweepDropped, Sweeping
  <2> HIDE DEF c
  <2> QED
    BY <1>2, <2>1, <2>2
<1>7. CASE SweepAbort(p)
  BY <1>7 DEF SweepAbort, tables, Inv, TypeOK, Linked, DeadIsKnown, ChokedFirst, Greeted, Live
<1> QED
  BY <1>4, <1>5, <1>6, <1>7, DropStep, ReconnectStep DEF Sweep

-----------------------------------------------------------------------------
(* Rounds.                                                                 *)

LEMMA RoundStep ==
  ASSUME Inv, EndPoll \/ NextRound \/ LeaveLoop
  PROVE  Inv'
<1>1. CASE EndPoll
  BY <1>1 DEF EndPoll, tables, Inv, TypeOK, Linked, DeadIsKnown, ChokedFirst, Greeted, Live
<1>2. CASE NextRound
  <2>1. \A fd \in Fds : sockets[fd] # "dead"
    BY <1>2 DEF NextRound, Inv, DeadIsKnown
  <2>2. sockets' = sockets
    BY <1>2, <2>1 DEF NextRound, Inv, TypeOK
  <2> QED
    BY <1>2, <2>1, <2>2
    DEF NextRound, Inv, TypeOK, Linked, DeadIsKnown, ChokedFirst, Greeted, Live
<1>3. CASE LeaveLoop
  BY <1>3 DEF LeaveLoop, tables, Inv, TypeOK, Linked, DeadIsKnown, ChokedFirst, Greeted, Live
<1> QED
  BY <1>1, <1>2, <1>3

(* Every action preserves the invariant.                                   *)
LEMMA InvStep == Inv /\ [Next]_vars => Inv'
<1> SUFFICES ASSUME Inv, [Next]_vars PROVE Inv'
  OBVIOUS
<1>1. CASE \E fd \in Fds, p \in Peers \ Silent : PollEvent(fd, p)
  BY <1>1, PollStep
<1>2. CASE \E p \in Peers : Sweep(p)
  BY <1>2, SweepStep
<1>3. CASE EndPoll \/ NextRound \/ LeaveLoop
  BY <1>3, RoundStep
<1>4. CASE Ended \/ UNCHANGED vars
  BY <1>4 DEF Ended, vars, Inv, TypeOK, Linked, DeadIsKnown, ChokedFirst, Greeted, Live
<1> QED
  BY <1>1, <1>2, <1>3, <1>4 DEF Next

(* The invariant holds always.                                             *)
LEMMA InvAlways == Spec => []Inv
  BY InvInit, InvStep, PTL DEF Spec

-----------------------------------------------------------------------------
(* The variables keep their types: the attempts to have a peer unchoke us  *)
(* and to connect to it again stay within their limits, and connect always *)
(* finds a descriptor among the ones the model has.                        *)
THEOREM TypeCorrect == Spec => []TypeOK
<1>1. Inv => TypeOK
  BY DEF Inv
<1> QED
  BY <1>1, InvAlways, PTL

(* What arrives on a socket is taken for a message of the peer at its      *)
(* other end, for any number of peers, in any order of events and sweep.   *)
THEOREM EventsAreRouted == Spec => []Routed
<1>1. Inv => Routed
  BY DEF Inv, Linked, Routed
<1> QED
  BY <1>1, InvAlways, PTL

(* No peer has two open connections, and the sweep leaves the socket table *)
(* and fd2PeerID with the same entries.                                    *)
THEOREM TablesAlwaysAgree == Spec => []TablesAgree
<1>1. ASSUME Inv PROVE TablesAgree
  <2>1. \A fd, other \in Live : sockets[fd] = sockets[other] => fd = other
    BY <1>1 DEF Inv, Linked
  <2>2. ASSUME phase = "sweep", unswept = {}, NEW fd \in Fds
        PROVE  sockets[fd] = fd2Peer[fd]
    <3>1. sockets[fd] # "dead"
      BY <1>1, <2>2 DEF Inv, DeadIsKnown
    <3>2. sockets[fd] = "none" \/ fd \in Live
      BY <1>1, <3>1 DEF Inv, TypeOK, Live
    <3> QED
      BY <1>1, <3>2 DEF Inv, Linked
  <2> QED
    BY <2>1, <2>2 DEF TablesAgree
<1> QED
  BY <1>1, InvAlways, PTL

(* Until the peer's handshake has been read, a connection is polled for    *)
(* output as long as its own handshake is not sent, and then for input.    *)
THEOREM HandshakesComeFirst == Spec => []HandshakeFirst
<1>1. Inv => HandshakeFirst
  BY DEF Inv, Greeted, HandshakeFirst
<1> QED
  BY <1>1, InvAlways, PTL
=============================================================================
