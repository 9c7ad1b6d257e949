-------------------------- MODULE PeerConnections --------------------------
(***************************************************************************)
(* The connections of the torrent client: the poll loop of                 *)
(* TorrentDownloader::download and the sweep that follows it, over the     *)
(* socket table of net::PollManager and the map fd2PeerID.                 *)
(*                                                                         *)
(* The loop runs on one thread; what is concurrent is the network.  A      *)
(* socket that reads the end of its stream closes its descriptor at once,  *)
(* while the table and the map forget it only in the sweep, and a new      *)
(* socket gets the lowest free descriptor.  A round may here handle        *)
(* several events of a connection: that is a run of rounds whose sweeps    *)
(* find nothing to do, or the messages of one read.  What is requested is  *)
(* left to PieceManager: `pending' says whether requests are unanswered.   *)
(***************************************************************************)
EXTENDS Integers, FiniteSets

CONSTANTS Peers,                  \* the peers of the tracker's answer
          MAX_UNCHOKE_ATTEMPTS,
          MAX_RECONNECT_ATTEMPTS,
          Silent,                 \* peers from which no event ever comes
          PartialSends            \* whether the network may take a part of a buffer

ASSUME PeersFinite == IsFiniteSet(Peers) /\ Peers \cap {"none", "dead"} = {}
ASSUME AttemptsType == MAX_UNCHOKE_ATTEMPTS \in Nat /\ MAX_RECONNECT_ATTEMPTS \in Nat
ASSUME SilentType == Silent \subseteq Peers
ASSUME PartialSendsType == PartialSends \in BOOLEAN

Fds == 1 .. Cardinality(Peers) + 1

VARIABLES
  phase,    \* "poll", "sweep", or how download() ended
  unswept,  \* peers the sweep has not come to yet
  fresh,    \* peers heard of since they were last swept, whose lastReadTimeStamp
            \* is this round's tick
  sockets,  \* PollManager::sockets: the peer at the other end, "dead" once
            \* the Socket object has closed its descriptor, or "none"
  events,   \* PollManager::pollFds: what each descriptor is polled for
  fd2Peer,  \* fd2PeerID
  ctx       \* states: the PeerContext of every peer

vars == <<phase, unswept, fresh, sockets, events, fd2Peer, ctx>>
loop == <<phase, unswept>>
tables == <<sockets, events, fd2Peer>>

(***************************************************************************)
(* sendBuffer: the message it ends with, and whether its first message has *)
(* been sent in part.  "obsolete" are requests for blocks that have been   *)
(* given back to the scheduler.  `garbled' records that a partly sent      *)
(* message was thrown away, so that the peer can make no sense of what     *)
(* follows.                                                                *)
(***************************************************************************)
Content == {"empty", "handshake", "interested", "unchoke", "requests", "obsolete"}
Buffer  == [kind : Content, cut : BOOLEAN]
Whole(k) == [kind |-> k, cut |-> FALSE]

Context == [fd                : Fds,
            handshaked        : BOOLEAN,
            choked            : BOOLEAN,
            closed            : BOOLEAN,
            unchokeAttempts   : 0 .. MAX_UNCHOKE_ATTEMPTS,
            reconnectAttempts : 0 .. MAX_RECONNECT_ATTEMPTS,
            pending           : BOOLEAN,
            sendBuffer        : Buffer,
            garbled           : BOOLEAN]

(* A connection is being made and the handshake is waiting to be sent.     *)
NewContext(fd, attempts) ==
  [fd                |-> fd,
   handshaked        |-> FALSE,
   choked            |-> TRUE,
   closed            |-> FALSE,
   unchokeAttempts   |-> 0,
   reconnectAttempts |-> attempts,
   pending           |-> FALSE,
   sendBuffer        |-> Whole("handshake"),
   garbled           |-> FALSE]

(* sendBuffer is assigned, whatever it held.                               *)
Replace(c, k) == [c EXCEPT !.sendBuffer = Whole(k),
                           !.garbled    = @ \/ c.sendBuffer.cut]

(* Requests are appended to it.                                            *)
Request(c) ==
  [c EXCEPT !.sendBuffer.kind = IF @ = "obsolete" THEN @ ELSE "requests",
            !.pending         = TRUE]

-----------------------------------------------------------------------------
(* net::PollManager and net::Socket.                                       *)

Live == {fd \in Fds : sockets[fd] \in Peers}

(* The kernel hands out the lowest descriptor that is not open.            *)
LowestFree == CHOOSE fd \in Fds \ Live : \A other \in Fds \ Live : fd <= other

(* Mutant: a new connection is polled for both events.                     *)
trackAnyEvent(fd, p) ==
  /\ sockets' = [sockets EXCEPT ![fd] = IF @ = "none" THEN p ELSE @]
  /\ events' = [events EXCEPT ![fd] = {"R", "W"}]

(* track: emplace leaves an existing entry alone, and the new socket is    *)
(* then destroyed on the way out.                                          *)
track(fd, p) ==
  /\ sockets' = [sockets EXCEPT ![fd] = IF @ = "none" THEN p ELSE @]
  /\ events' = [events EXCEPT ![fd] = {"W"}]

(* Mutant: the socket stays open.                                          *)
untrackEventsOnly(fd) ==
  /\ events' = [events EXCEPT ![fd] = {}]
  /\ UNCHANGED sockets

untrack(fd) ==
  /\ sockets' = [sockets EXCEPT ![fd] = "none"]
  /\ events' = [events EXCEPT ![fd] = {}]

updateTracking(fd, E) == events' = [events EXCEPT ![fd] = E]

-----------------------------------------------------------------------------
(* The poll loop.                                                          *)

EventAt(fd, p, e) == phase = "poll" /\ fd \in Live /\ p = fd2Peer[fd] /\ e \in events[fd]

(* The end of the handling of an event, for a context that became c.       *)
EndEvent(fd, p, c) ==
  /\ ctx' = [ctx EXCEPT ![p] = c]
  /\ CASE c.closed -> UNCHANGED events
       [] ~c.closed /\ c.sendBuffer.kind = "empty" -> updateTracking(fd, {"R"})
       [] ~c.closed /\ c.sendBuffer.kind # "empty" /\ c.handshaked -> updateTracking(fd, {"R", "W"})
       [] OTHER -> UNCHANGED events
  /\ UNCHANGED <<loop, sockets, fd2Peer>>

(* Something was read and leaves the context as c.                         *)
Read(fd, p, c) ==
  /\ EventAt(fd, p, "R")
  /\ ~ctx[p].closed
  /\ fresh' = fresh \cup {p}
  /\ EndEvent(fd, p, c)

(* Not a whole handshake or message yet.                                   *)
ReadIncomplete(fd, p) == Read(fd, p, ctx[p])

ReadHandshake(fd, p) ==
  /\ ~ctx[p].handshaked
  /\ Read(fd, p, [Replace(ctx[p], "interested") EXCEPT !.handshaked = TRUE])

ReadBadHandshake(fd, p) ==
  /\ ~ctx[p].handshaked
  /\ Read(fd, p, [ctx[p] EXCEPT !.closed = TRUE])

MayAskAgain(c) == c.unchokeAttempts <= MAX_UNCHOKE_ATTEMPTS - 1

(* After a message from a peer that chokes us: it is asked to unchoke us,  *)
(* unless it is about to be asked already or was asked too often.          *)
AskUnchoke(c) ==
  CASE ~MayAskAgain(c) -> [c EXCEPT !.closed = TRUE]
    [] MayAskAgain(c) /\ c.sendBuffer = Whole("unchoke") -> c
    [] OTHER -> [Replace(c, "unchoke") EXCEPT !.unchokeAttempts = @ + 1]

ReadChoke(fd, p) ==
  /\ ctx[p].handshaked
  /\ Read(fd, p, AskUnchoke([ctx[p] EXCEPT !.pending = FALSE, !.choked = TRUE]))

(* After a message from any other peer blocks are requested, if it has     *)
(* some that are missing and is not throttled.                             *)
ReadUnchoke(fd, p) ==
  LET c == [ctx[p] EXCEPT !.unchokeAttempts = 0, !.choked = FALSE]
  IN  /\ ctx[p].handshaked
      /\ Read(fd, p, c) \/ Read(fd, p, Request(c))

(* Any other message; a block may have been the last one pending.          *)
ReadOther(fd, p) ==
  LET c == ctx[p]
  IN  /\ c.handshaked
      /\ IF c.choked THEN Read(fd, p, AskUnchoke(c))
                     ELSE \/ Read(fd, p, Request(c))
                          \/ \E b \in {FALSE, c.pending} : Read(fd, p, [c EXCEPT !.pending = b])

(* The end of the stream: recvAll closes the descriptor.                   *)
ReadEnd(fd, p) ==
  /\ EventAt(fd, p, "R")
  /\ ~ctx[p].closed
  /\ sockets' = [sockets EXCEPT ![fd] = "dead"]
  /\ ctx' = [ctx EXCEPT ![p].closed = TRUE]
  /\ UNCHANGED <<loop, fresh, events, fd2Peer>>

(* What a sendAll that is cut short leaves of the buffer: single messages  *)
(* only a part, requests possibly a number of whole ones.                  *)
Remains(b) ==
  {Whole("empty"), b}
    \cup (IF PartialSends THEN {[b EXCEPT !.cut = TRUE]} ELSE {})
    \cup (IF PartialSends /\ b.kind \in {"requests", "obsolete"} THEN {Whole(b.kind)} ELSE {})

Write(fd, p) ==
  /\ EventAt(fd, p, "W")
  /\ ~ctx[p].closed
  /\ \E b \in Remains(ctx[p].sendBuffer) : EndEvent(fd, p, [ctx[p] EXCEPT !.sendBuffer = b])
  /\ UNCHANGED fresh

(* A failing recv or send, a hang-up or an error on the socket.            *)
Fail(fd, p) ==
  /\ phase = "poll"
  /\ fd \in Live
  /\ p = fd2Peer[fd]
  /\ EndEvent(fd, p, [ctx[p] EXCEPT !.closed = TRUE])
  /\ UNCHANGED fresh

EndPoll ==
  /\ phase = "poll"
  /\ phase' = "sweep"
  /\ unswept' = Peers
  /\ UNCHANGED <<fresh, tables, ctx>>

-----------------------------------------------------------------------------
(* The sweep, in the unspecified order of the hash table of contexts.      *)

Sweeping(p) == phase = "sweep" /\ p \in unswept

Swept(p) == unswept' = unswept \ {p} /\ fresh' = fresh \ {p} /\ UNCHANGED phase

SweepGood(p) ==
  /\ Sweeping(p)
  /\ ~ctx[p].closed
  /\ Swept(p)
  /\ UNCHANGED <<tables, ctx>>

(* An unchoked peer that is idle has its requests taken back; the buffer   *)
(* is filled with what is meant to cancel them.                            *)
SweepIdle(p) ==
  /\ Sweeping(p)
  /\ p \notin fresh
  /\ ~ctx[p].closed
  /\ ~ctx[p].choked
  /\ ctx[p].pending
  /\ ctx' = [ctx EXCEPT ![p] = [Replace(ctx[p], "obsolete") EXCEPT !.pending = FALSE]]
  /\ Swept(p)
  /\ UNCHANGED tables

(* Closed in the poll loop, or now because it is idle and chokes us.       *)
ToBeClosed(p) == ctx[p].closed \/ (p \notin fresh /\ ctx[p].choked)

(* Mutant: the entry of the dropped connection stays in fd2PeerID.         *)
ForgetNothing(fd) == UNCHANGED fd2Peer

Forget(fd) == fd2Peer' = [fd2Peer EXCEPT ![fd] = "none"]

SweepDrop(p) ==
  /\ Sweeping(p)
  /\ ToBeClosed(p)
  /\ fd2Peer[ctx[p].fd] # "none"
  /\ ctx' = [ctx EXCEPT ![p].closed = TRUE, ![p].pending = FALSE]
  /\ untrack(ctx[p].fd)
  /\ Forget(ctx[p].fd)
  /\ Swept(p)

MayReconnect(p) == p \notin fresh /\ ctx[p].reconnectAttempts < MAX_RECONNECT_ATTEMPTS

(* Dropped earlier, and too soon or too often to try again.                *)
SweepDropped(p) ==
  /\ Sweeping(p)
  /\ ToBeClosed(p)
  /\ fd2Peer[ctx[p].fd] = "none"
  /\ ctx' = [ctx EXCEPT ![p].closed = TRUE]
  /\ Swept(p)
  /\ UNCHANGED tables

SweepReconnect(p) ==
  LET fd == LowestFree
  IN  /\ Sweeping(p)
      /\ ToBeClosed(p)
      /\ fd2Peer[ctx[p].fd] = "none"
      /\ MayReconnect(p)
      /\ ctx' = [ctx EXCEPT ![p] = NewContext(fd, ctx[p].reconnectAttempts + 1)]
      /\ fd2Peer' = [fd2Peer EXCEPT ![fd] = IF @ = "none" THEN p ELSE @]
      /\ track(fd, p)
      /\ Swept(p)

(* socket() or connect() throws, and nothing catches it in download().     *)
SweepAbort(p) ==
  /\ Sweeping(p)
  /\ ToBeClosed(p)
  /\ fd2Peer[ctx[p].fd] = "none"
  /\ MayReconnect(p)
  /\ phase' = "aborted"
  /\ UNCHANGED <<unswept, fresh, tables, ctx>>

(* The next poll() forgets the sockets that have closed themselves.        *)
NextRound ==
  /\ phase = "sweep"
  /\ unswept = {}
  /\ \E fd \in Fds : sockets[fd] # "none"
  /\ phase' = "poll"
  /\ fresh' = {}
  /\ sockets' = [fd \in Fds |-> IF sockets[fd] = "dead" THEN "none" ELSE sockets[fd]]
  /\ UNCHANGED <<unswept, events, fd2Peer, ctx>>

(* The loop ends: interrupted or all pieces downloaded, or no connection.  *)
LeaveLoop ==
  /\ phase = "sweep"
  /\ unswept = {}
  /\ phase' = IF \A fd \in Fds : sockets[fd] = "none" THEN "deserted" ELSE "finished"
  /\ UNCHANGED <<unswept, fresh, tables, ctx>>

-----------------------------------------------------------------------------
(* One connection per peer; the peers of the answer are all different.     *)
Init ==
  /\ phase = "poll"
  /\ unswept = {}
  /\ fresh = Peers
  /\ \E f \in [Peers -> 1 .. Cardinality(Peers)] :
       /\ \A p, q \in Peers : f[p] = f[q] => p = q
       /\ ctx = [p \in Peers |-> NewContext(f[p], 0)]
       /\ sockets = [fd \in Fds |-> IF \E p \in Peers : f[p] = fd
                                      THEN CHOOSE p \in Peers : f[p] = fd ELSE "none"]
  /\ fd2Peer = sockets
  /\ events = [fd \in Fds |-> IF sockets[fd] = "none" THEN {} ELSE {"W"}]

Ended == phase \in {"aborted", "deserted", "finished"} /\ UNCHANGED vars

PollEvent(fd, p) ==
  \/ ReadIncomplete(fd, p) \/ ReadHandshake(fd, p) \/ ReadBadHandshake(fd, p)
  \/ ReadChoke(fd, p) \/ ReadUnchoke(fd, p) \/ ReadOther(fd, p)
  \/ ReadEnd(fd, p) \/ Write(fd, p) \/ Fail(fd, p)

Sweep(p) == \/ SweepGood(p) \/ SweepIdle(p) \/ SweepDrop(p)
            \/ SweepDropped(p) \/ SweepReconnect(p) \/ SweepAbort(p)

Next == \/ \E fd \in Fds, p \in Peers \ Silent : PollEvent(fd, p)
        \/ EndPoll
        \/ \E p \in Peers : Sweep(p)
        \/ NextRound \/ LeaveLoop \/ Ended

Spec == Init /\ [][Next]_vars

-----------------------------------------------------------------------------
(* Types; the attempts of a peer stay within their limits.                 *)
TypeOK ==
  /\ phase \in {"poll", "sweep", "aborted", "deserted", "finished"}
  /\ unswept \in SUBSET Peers /\ fresh \in SUBSET Peers
  /\ sockets \in [Fds -> Peers \cup {"none", "dead"}]
  /\ events \in [Fds -> SUBSET {"R", "W"}]
  /\ fd2Peer \in [Fds -> Peers \cup {"none"}]
  /\ ctx \in [Peers -> Context]

(* What arrives on a socket is always taken for a message of the peer at   *)
(* its other end - although descriptors are closed by recvAll, reused by   *)
(* the next connect and forgotten later by the sweep - and the lookup      *)
(* fd2PeerID.at(peer.fd()) of the poll loop never throws.                  *)
Routed == phase = "poll" => \A fd \in Live : /\ fd2Peer[fd] = sockets[fd]
                                             /\ ctx[sockets[fd]].fd = fd

(* A peer never has two open connections and, when the sweep is done, the  *)
(* socket table and fd2PeerID have the same keys and hold nothing for a    *)
(* connection that has ended.                                              *)
TablesAgree ==
  /\ \A fd, other \in Live : sockets[fd] = sockets[other] => fd = other
  /\ phase = "sweep" /\ unswept = {} => \A fd \in Fds : sockets[fd] = fd2Peer[fd]

(* Until the peer's handshake has been read, exactly the connections whose *)
(* own handshake has been sent entirely are polled for input: a handshake  *)
(* is never overwritten by "interested", and nobody waits for nothing.     *)
HandshakeFirst ==
  \A fd \in Live : LET c == ctx[fd2Peer[fd]]
                   IN  phase = "poll" /\ ~c.handshaked /\ ~c.closed =>
                         /\ "R" \in events[fd] <=> c.sendBuffer.kind = "empty"
                         /\ "W" \in events[fd] <=> c.sendBuffer.kind = "handshake"

(* A peer that is not closed has an open connection: `closed' says         *)
(* "whether to maintain the connection".  The code breaks this: a dropped  *)
(* peer keeps its old descriptor number, and when a reconnect of another   *)
(* peer is given that number the sweep drops the new connection for it.    *)
OpenIsConnected ==
  phase = "poll" => \A p \in Peers : ~ctx[p].closed => sockets[ctx[p].fd] = p

(* A dropped peer owes no blocks: they were given back when it was dropped *)
(* and can be asked of others.  The code breaks this: another dropped peer *)
(* with the same descriptor number has removed the map entry that tells    *)
(* the sweep to give them back.                                            *)
BlocksGivenBack ==
  phase = "poll" => \A p \in Peers :
    ctx[p].closed /\ fd2Peer[ctx[p].fd] = "none" => ~ctx[p].pending

(* Data that waits to be sent is polled for: "Send buffer not empty,       *)
(* listening for READABLE & WRITABLE events".  The code breaks this: the   *)
(* sweep fills the buffer of an idle peer and does not update the events.  *)
SendBufferTracked ==
  phase = "poll" => \A fd \in Live :
    LET c == ctx[fd2Peer[fd]]
    IN  ~c.closed /\ c.sendBuffer.kind # "empty" => "W" \in events[fd]

(* Only blocks that are pending are asked for.  The code breaks this: what *)
(* the log calls a cancel request is built as a request.                   *)
RequestsArePending == \A p \in Peers : ctx[p].sendBuffer.kind # "obsolete"

(* A peer receives whole messages.  The code breaks this: a buffer whose   *)
(* first message has been sent in part is overwritten.                     *)
MessagesWhole == \A p \in Peers : ~ctx[p].garbled

(* The loop gives up only when no dropped peer may be connected to again.  *)
(* The code breaks this: it ends as soon as the socket table is empty.     *)
GivesUpLast ==
  phase = "deserted" =>
    \A p \in Peers : ctx[p].reconnectAttempts = MAX_RECONNECT_ATTEMPTS
=============================================================================
