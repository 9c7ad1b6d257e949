---------------------------- MODULE PieceManager ----------------------------
(***************************************************************************)
(* The block scheduler of the torrent client: class PieceManager           *)
(* (torrent/src/piece_manager.cpp) together with the part of PeerContext   *)
(* and of the message handlers of TorrentDownloader that it is used        *)
(* through (torrent/src/torrent_downloader.cpp).                           *)
(*                                                                         *)
(* Everything here runs on the main thread, so a handler is one step.  A   *)
(* block is a pair <<piece, index>>; the bytes of a block, its offset and  *)
(* its size are left out: what the code tells apart is whether the size is *)
(* the expected one and whether the completed piece has the right hash.    *)
(***************************************************************************)
EXTENDS Integers, FiniteSets

CONSTANTS Peers,        \* the peers of the tracker's answer
          Pieces,       \* the piece indexes of the torrent
          Spare,        \* the indexes of the spare bits of a bitfield's last byte
          Beyond,       \* the other indexes from numPieces on that fit in 32 bits
          NumBlocks,    \* actualNumBlocks of a Piece object made for an index
          MAX_BACKLOG   \* requests kept pipelined per peer

(* The indexes that a peer may name: nothing compares them with numPieces. *)
Index == Pieces \cup Spare \cup Beyond

ASSUME IndexFinite     == IsFiniteSet(Index)
ASSUME OutsideTorrent  == Pieces \cap (Spare \cup Beyond) = {}
ASSUME NumBlocksType   == NumBlocks \in [Index -> Nat \ {0}]
ASSUME BacklogPositive == MAX_BACKLOG \in Nat \ {0}

(* The constructor of Piece takes an index that the torrent does not have  *)
(* for the last piece.                                                     *)
BlocksOf(q) == {<<q, i>> : i \in 0 .. NumBlocks[q] - 1}

Block == UNION {BlocksOf(q) : q \in Index}

InPiece(B, q) == {b \in B : b[1] = q}

BlockState == {"PENDING", "REQUESTED", "DONE"}

(* A peer is sent a handshake, is open once it has answered it, is marked  *)
(* closed by the poll loop and is dropped by the sweep that follows.       *)
Connection == {"handshaking", "open", "closed", "dropped"}

-----------------------------------------------------------------------------
VARIABLES
  pm,         \* the PieceManager object
  peers,      \* the PeerContext of every peer
  scheduled,  \* how often each piece was handed to DiskWriter::schedule
  thrown      \* the exception that left the PieceManager and ended the download

vars == <<pm, peers, scheduled, thrown>>

(* Thrown by partialPieces.at, by requestBlockNum ("Block requested        *)
(* twice"), and by getPieceHash ("idx requested out of range").            *)
Exception == {"at", "twice", "hash"}

(***************************************************************************)
(* partialPieces is a map from piece indexes to Piece objects: `partial'   *)
(* is its set of keys, and the fields of the Piece objects are functions   *)
(* that hold the constructor's values outside `partial'.                   *)
(***************************************************************************)
Manager == [haves           : SUBSET Pieces,
            partial         : SUBSET Index,
            state           : [Block -> BlockState],
            requestedBlocks : [Index -> Nat],
            completedBlocks : [Index -> Nat]]

Context == [conn    : Connection,
            choked  : BOOLEAN,
            haves   : SUBSET Index,
            pending : SUBSET Block,
            backlog : Nat]

NewManager(H) == [haves           |-> H,
                  partial         |-> {},
                  state           |-> [b \in Block |-> "PENDING"],
                  requestedBlocks |-> [q \in Index |-> 0],
                  completedBlocks |-> [q \in Index |-> 0]]

NewContext == [conn    |-> "handshaking",
               choked  |-> TRUE,
               haves   |-> {},
               pending |-> {},
               backlog |-> 0]

-----------------------------------------------------------------------------
(* The operations of the class, as functions of the object.                *)

(* PieceManager::onPeerReset: clearInTransitBlock for every block of B.    *)
EmptiedBy(m, B) ==
  {q \in m.partial : /\ InPiece(B, q) # {}
                     /\ m.requestedBlocks[q] = Cardinality(InPiece(B, q))
                     /\ m.completedBlocks[q] = 0}

(* Mutant: a reset puts the whole piece back to PENDING.                   *)
onPeerResetWhole(m, B) ==
  [m EXCEPT
     !.partial         = @ \ EmptiedBy(m, B),
     !.state           = [b \in Block |-> IF InPiece(B, b[1]) # {} THEN "PENDING" ELSE @[b]],
     !.requestedBlocks = [q \in Index |-> @[q] - Cardinality(InPiece(B, q))]]

onPeerReset(m, B) ==
  [m EXCEPT
     !.partial         = @ \ EmptiedBy(m, B),
     !.state           = [b \in Block |-> IF b \in B THEN "PENDING" ELSE @[b]],
     !.requestedBlocks = [q \in Index |-> @[q] - Cardinality(InPiece(B, q))]]

(* partialPieces.at(pieceIdx) finds no piece: it never existed, or an      *)
(* earlier round of the loop erased it.                                    *)
ResetThrows(m, B) ==
  \E q \in Index : /\ InPiece(B, q) # {}
                   /\ \/ q \notin m.partial
                      \/ /\ m.completedBlocks[q] = 0
                         /\ m.requestedBlocks[q] < Cardinality(InPiece(B, q))

(* Mutant: a written block stays counted as requested.                     *)
writeBlockStillRequested(m, b) ==
  [m EXCEPT !.state[b] = "DONE", !.completedBlocks[b[1]] = @ + 1]

(* Piece::writeBlock.                                                      *)
writeBlock(m, b) ==
  [m EXCEPT !.state[b]               = "DONE",
            !.requestedBlocks[b[1]] = @ - 1,
            !.completedBlocks[b[1]] = @ + 1]

(* partialPieces.erase: the Piece object is gone, a later one starts anew. *)
ErasePiece(m, q) ==
  [m EXCEPT !.partial            = @ \ {q},
            !.state              = [b \in Block |-> IF b[1] = q THEN "PENDING" ELSE @[b]],
            !.requestedBlocks[q] = 0,
            !.completedBlocks[q] = 0]

PieceComplete(m, q) == m.completedBlocks[q] = NumBlocks[q]

(* PieceManager::onBlockReceived; hashOk is the outcome of the sha1 test.  *)
onBlockReceived(m, b, hashOk) ==
  LET written == writeBlock(m, b)
      erased  == ErasePiece(written, b[1])
  IN  IF PieceComplete(written, b[1])
        THEN IF hashOk THEN [erased EXCEPT !.haves = @ \cup {b[1]}] ELSE erased
        ELSE written

(* getPieceHash knows no hash for a completed piece that the torrent does  *)
(* not have.                                                               *)
HashThrows(m, b) == PieceComplete(writeBlock(m, b), b[1]) /\ b[1] \notin Pieces

(***************************************************************************)
(* PieceManager::getPendingBlocks: the sets of blocks it may select for a  *)
(* peer that has the pieces H when `count' more may be requested.  The two *)
(* hash tables are walked in an unspecified order, the blocks of a piece   *)
(* in ascending order: partial pieces come before new ones, and only the   *)
(* piece at which the count is reached is taken in part.                   *)
(***************************************************************************)
(* Mutants: blocks in transit, and pieces already downloaded, are selected. *)
FromPartialInTransit(m, H) == {b \in Block : b[1] \in H \cap m.partial /\ m.state[b] # "DONE"}

FromNewDownloaded(m, H) == {b \in Block : b[1] \in H \ m.partial}

FromPartial(m, H) == {b \in Block : b[1] \in H \cap m.partial /\ m.state[b] = "PENDING"}

FromNew(m, H) == {b \in Block : b[1] \in H \ (m.haves \cup m.partial)}

Selections(m, H, count) ==
  LET old   == FromPartial(m, H)
      all   == old \cup FromNew(m, H)
      PartlyTaken(R, q) == InPiece(R, q) \notin {{}, InPiece(all, q)}
  IN  {R \in SUBSET all :
         /\ Cardinality(R) = IF Cardinality(all) < count THEN Cardinality(all) ELSE count
         /\ R \subseteq old \/ old \subseteq R
         /\ \A b \in R, c \in all : b[1] = c[1] /\ c[2] < b[2] => c \in R
         /\ \A q, r \in Index : PartlyTaken(R, q) /\ PartlyTaken(R, r) => q = r}

(* requestBlockNum on every selected block, with try_emplace of new        *)
(* pieces; it refuses a block that is not PENDING.                         *)
RequestThrows(m, R) == \E b \in R : m.state[b] # "PENDING"

requestBlocks(m, R) ==
  [m EXCEPT
     !.partial         = @ \cup {b[1] : b \in R},
     !.state           = [b \in Block |-> IF b \in R THEN "REQUESTED" ELSE @[b]],
     !.requestedBlocks = [q \in Index |-> @[q] + Cardinality(InPiece(R, q))]]

-----------------------------------------------------------------------------
Init == /\ \E H \in SUBSET Pieces : H # Pieces /\ pm = NewManager(H)   \* resumed with H
        /\ peers = [p \in Peers |-> NewContext]
        /\ scheduled = [q \in Pieces |-> 0]
        /\ thrown = "none"

Running(p) == thrown = "none" /\ peers[p].conn = "open"

(* Only main catches an exception: the download ends, with the pieces that *)
(* are complete by then.                                                   *)
Throw(e) == thrown' = e /\ UNCHANGED <<pm, peers, scheduled>>

Handshake(p) ==
  /\ thrown = "none"
  /\ peers[p].conn = "handshaking"
  /\ peers' = [peers EXCEPT ![p].conn = "open"]
  /\ UNCHANGED <<pm, scheduled, thrown>>

(***************************************************************************)
(* The end of the message loop, whatever message has just been handled: a  *)
(* choked peer is asked to unchoke us, or closed when it has been asked    *)
(* too often; an unchoked peer below MAX_BACKLOG is asked for more blocks. *)
(***************************************************************************)
AfterMessage(p, m, ctx) ==
  \/ /\ ctx.choked
     /\ pm' = m
     /\ \E c \in {"open", "closed"} : peers' = [peers EXCEPT ![p] = [ctx EXCEPT !.conn = c]]
     /\ UNCHANGED thrown
  \/ /\ ~ctx.choked
     /\ ctx.backlog < MAX_BACKLOG
     /\ \E R \in Selections(m, ctx.haves, MAX_BACKLOG - ctx.backlog) :
          \/ /\ RequestThrows(m, R)
             /\ pm' = m
             /\ peers' = [peers EXCEPT ![p] = ctx]
             /\ thrown' = "twice"
          \/ /\ ~RequestThrows(m, R)
             /\ pm' = requestBlocks(m, R)
             /\ peers' = [peers EXCEPT ![p] = [ctx EXCEPT !.pending = @ \cup R,
                                                         !.backlog = @ + Cardinality(R)]]
             /\ UNCHANGED thrown
  \/ /\ ~ctx.choked
     /\ ctx.backlog >= MAX_BACKLOG
     /\ pm' = m
     /\ peers' = [peers EXCEPT ![p] = ctx]
     /\ UNCHANGED thrown

(* Mutant: the peer's list is not cleared.                                 *)
ClearedBacklogOnly(ctx) == [ctx EXCEPT !.backlog = 0]

(* clearPendingFromPeer *)
Cleared(ctx) == [ctx EXCEPT !.pending = {}, !.backlog = 0]

handleHave(p, q) ==
  /\ Running(p)
  /\ AfterMessage(p, pm, [peers[p] EXCEPT !.haves = @ \cup {q}])
  /\ UNCHANGED scheduled

(* A bitfield of the right length replaces what is known of the peer; one  *)
(* of another length is ignored (DropBlock has the same effect).           *)
handleBitfield(p, H) ==
  /\ Running(p)
  /\ AfterMessage(p, pm, [peers[p] EXCEPT !.haves = H])
  /\ UNCHANGED scheduled

handleUnchoke(p) ==
  /\ Running(p)
  /\ AfterMessage(p, pm, [peers[p] EXCEPT !.choked = FALSE])
  /\ UNCHANGED scheduled

(* The pending blocks go back to PENDING and may be asked from others.     *)
handleChoke(p) ==
  /\ Running(p)
  /\ \/ ResetThrows(pm, peers[p].pending) /\ Throw("at")
     \/ /\ ~ResetThrows(pm, peers[p].pending)
        /\ AfterMessage(p, onPeerReset(pm, peers[p].pending),
                        [Cleared(peers[p]) EXCEPT !.choked = TRUE])
        /\ UNCHANGED scheduled

(* handlePiece: a block that is not pending, of whatever piece and offset, *)
(* is dropped; a block of the wrong size is only taken off the peer's      *)
(* list; any other is written, and the completed piece goes to the disk    *)
(* writer if its hash is right.                                            *)
DropBlock(p) ==
  /\ Running(p)
  /\ AfterMessage(p, pm, peers[p])
  /\ UNCHANGED scheduled

Answered(p, b) == [peers[p] EXCEPT !.pending = @ \ {b}, !.backlog = @ - 1]

RejectBlock(p, b) ==
  /\ Running(p)
  /\ b \in peers[p].pending
  /\ AfterMessage(p, pm, Answered(p, b))
  /\ UNCHANGED scheduled

AcceptBlock(p, b, hashOk) ==
  LET m == onBlockReceived(pm, b, hashOk)
  IN  /\ Running(p)
      /\ b \in peers[p].pending
      /\ \/ b[1] \notin pm.partial /\ Throw("at")
         \/ b[1] \in pm.partial /\ HashThrows(pm, b) /\ Throw("hash")
         \/ /\ b[1] \in pm.partial
            /\ ~HashThrows(pm, b)
            /\ scheduled' = [q \in Pieces |-> IF q = b[1] /\ q \in m.haves
                                              THEN scheduled[q] + 1 ELSE scheduled[q]]
            /\ AfterMessage(p, m, Answered(p, b))

(* The poll loop marks a peer closed: read, write or handshake failure,    *)
(* hang-up; the sweep does when it has been idle and choked for too long.  *)
ClosePeer(p) ==
  /\ thrown = "none"
  /\ peers[p].conn \in {"handshaking", "open"}
  /\ peers' = [peers EXCEPT ![p].conn = "closed"]
  /\ UNCHANGED <<pm, scheduled, thrown>>

(* The sweep over all peers: an unchoked peer that has been idle too long  *)
(* loses its pending blocks but stays connected.                           *)
ResetIdlePeer(p) ==
  /\ Running(p)
  /\ ~peers[p].choked
  /\ peers[p].backlog # 0
  /\ \/ ResetThrows(pm, peers[p].pending) /\ Throw("at")
     \/ /\ ~ResetThrows(pm, peers[p].pending)
        /\ pm' = onPeerReset(pm, peers[p].pending)
        /\ peers' = [peers EXCEPT ![p] = Cleared(@)]
        /\ UNCHANGED <<scheduled, thrown>>

(* The sweep drops a closed peer ...                                       *)
DropPeer(p) ==
  /\ thrown = "none"
  /\ peers[p].conn = "closed"
  /\ \/ ResetThrows(pm, peers[p].pending) /\ Throw("at")
     \/ /\ ~ResetThrows(pm, peers[p].pending)
        /\ pm' = onPeerReset(pm, peers[p].pending)
        /\ peers' = [peers EXCEPT ![p] = [Cleared(@) EXCEPT !.conn = "dropped"]]
        /\ UNCHANGED <<scheduled, thrown>>

(* ... and later connects to it again (PeerContext::onReconnect), or at    *)
(* once if another peer's drop has removed its entry of fd2PeerID (see     *)
(* PeerConnections): its pending blocks are then forgotten.                *)
ReconnectPeer(p) ==
  /\ thrown = "none"
  /\ peers[p].conn \in {"closed", "dropped"}
  /\ peers' = [peers EXCEPT ![p] = NewContext]
  /\ UNCHANGED <<pm, scheduled, thrown>>

(* The download has ended with the exception.                              *)
Ended == thrown # "none" /\ UNCHANGED vars

Step(p) ==
  \/ Handshake(p)
  \/ \E q \in Index : handleHave(p, q)
  \/ \E H \in SUBSET (Pieces \cup Spare) : handleBitfield(p, H)
  \/ handleUnchoke(p)
  \/ handleChoke(p)
  \/ DropBlock(p)
  \/ \E b \in Block : \/ RejectBlock(p, b)
                      \/ \E hashOk \in BOOLEAN : AcceptBlock(p, b, hashOk)
  \/ ClosePeer(p)
  \/ ResetIdlePeer(p)
  \/ DropPeer(p)
  \/ ReconnectPeer(p)

Next == Ended \/ \E p \in Peers : Step(p)

Spec == Init /\ [][Next]_vars

-----------------------------------------------------------------------------
InState(m, q, st) == {b \in BlocksOf(q) : m.state[b] = st}

(* Every variable keeps its type: in particular no counter of a Piece goes *)
(* below zero (they are unsigned in the code).                             *)
TypeOK == /\ pm \in Manager
          /\ peers \in [Peers -> Context]
          /\ scheduled \in [Pieces -> Nat]
          /\ thrown \in {"none"} \cup Exception

(* No peer, by choking, idling, disconnecting or answering late, makes the *)
(* manager look up a partial piece that has been erased (the at() of       *)
(* clearInTransitBlock and onBlockReceived) or request a block again       *)
(* (requestBlockNum): the exception would end the whole download.  The one *)
(* exception that does is that of getPieceHash, and only with a piece that *)
(* the torrent does not have complete but for one block.                   *)
ThrowsForUnknownOnly ==
  /\ thrown \in {"none", "hash"}
  /\ thrown = "hash" => \E q \in pm.partial \ Pieces : pm.completedBlocks[q] + 1 = NumBlocks[q]

(* No exception ends the download.  The code breaks this: a peer may name  *)
(* a piece that the torrent does not have, and send its blocks.            *)
NoThrow == thrown = "none"

(* A block is requested from at most one peer at a time, and while it is,  *)
(* its piece is a partial piece that has it as REQUESTED.                  *)
SingleOwner ==
  /\ \A p \in Peers : \A b \in peers[p].pending :
       b[1] \in pm.partial /\ pm.state[b] = "REQUESTED"
  /\ \A p, r \in Peers : p # r => peers[p].pending \cap peers[r].pending = {}

(* The two counters of a Piece, by which it is completed or erased, agree  *)
(* with the states of its blocks, and a piece that is not partial has no   *)
(* trace of an earlier life left.                                          *)
CountersExact ==
  \A q \in Index :
    /\ pm.requestedBlocks[q] = Cardinality(InState(pm, q, "REQUESTED"))
    /\ pm.completedBlocks[q] = Cardinality(InState(pm, q, "DONE"))
    /\ q \notin pm.partial => InState(pm, q, "PENDING") = BlocksOf(q)

(* Memory is held only for pieces that are being downloaded: a partial     *)
(* piece is not finished and has a block requested or received.            *)
PartialInProgress ==
  \A q \in pm.partial : /\ q \notin pm.haves
                        /\ pm.completedBlocks[q] < NumBlocks[q]
                        /\ pm.requestedBlocks[q] + pm.completedBlocks[q] > 0

(* The throttle of a peer counts exactly its unanswered requests and stays *)
(* within MAX_BACKLOG, across resets, late answers and reconnects.         *)
BacklogExact ==
  \A p \in Peers : /\ peers[p].backlog = Cardinality(peers[p].pending)
                   /\ peers[p].backlog <= MAX_BACKLOG

(* The books of the scheduler, kept in three places by five handlers, are  *)
(* exact: the counters of a piece, the map of partial pieces, the throttle *)
(* of a peer.                                                              *)
BooksExact == CountersExact /\ PartialInProgress /\ BacklogExact

(* A piece is handed to the disk writer at most once, only if it is then   *)
(* counted as downloaded.                                                  *)
ScheduledOnce ==
  \A q \in Pieces : /\ scheduled[q] <= 1
                    /\ scheduled[q] = 1 => q \in pm.haves

(* A received block is only given up together with its whole piece, when   *)
(* the last missing block arrives: no reset of a peer loses what another   *)
(* one has sent.                                                           *)
ReceivedKept ==
  [][\A b \in Block :
       pm.state[b] = "DONE" /\ pm'.state[b] # "DONE"
         => \A c \in BlocksOf(b[1]) :
              pm.state[c] = "DONE" \/ \E p \in Peers : c \in peers[p].pending]_vars

(* Every REQUESTED block is pending from some peer, so that its answer, or *)
(* the reset of that peer, will make the piece progress.  The code breaks  *)
(* this: handlePiece takes a block of the wrong size off the peer's list   *)
(* and leaves it REQUESTED in its piece.                                   *)
RequestTracked ==
  \A b \in Block : pm.state[b] = "REQUESTED" => \E p \in Peers : b \in peers[p].pending
=============================================================================
