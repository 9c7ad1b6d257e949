---------------------------- MODULE WireProtocol ----------------------------
(***************************************************************************)
(* torrent/src/protocol.cpp, the bit fields of common.cpp, and how         *)
(* torrent_downloader.cpp takes the bytes of a peer apart and reads what   *)
(* a message or the saved state says.                                      *)
(*                                                                         *)
(* A number is Width bytes of base Radix (4 and 256 in the code), a bit    *)
(* field has Bits bits to the byte (8).  Each of the four fields of a      *)
(* handshake is one byte here.  Left out are the requests to a tracker and *)
(* a length so near the limit that adding Width wraps around.              *)
(***************************************************************************)
EXTENDS Integers, Sequences, SequencesExt, FiniteSets, FiniteSetsExt

CONSTANTS Width, Radix, Bits

MsgTypes == <<"Choke", "Unchoke", "Interested", "NotInterested", "Have", "Bitfield", "Request", "Piece", "Cancel", "Port">>

Digit(n, k) == (n \div Radix^(Width - k)) % Radix
Bytes(n) == [k \in 1 .. Width |-> Digit(n, k)]
Number(bytes) == FoldLeft(LAMBDA n, b : n * Radix + b, 0, bytes)

-----------------------------------------------------------------------------
(* Messages as they are sent.                                              *)

buildMessageHelper(id, payload) == Bytes(Len(payload) + 1) \o <<id>> \o payload
Plain(id) == buildMessageHelper(id, <<>>)
buildHave(pIndex) == buildMessageHelper(4, Bytes(pIndex))
buildBitField(field) == buildMessageHelper(5, field)
buildRequest(pIndex, pBegin, pLength, cancel) ==
  buildMessageHelper(IF cancel THEN 8 ELSE 6, Bytes(pIndex) \o Bytes(pBegin) \o Bytes(pLength))
buildPiece(pIndex, pBegin, block) == buildMessageHelper(7, Bytes(pIndex) \o Bytes(pBegin) \o block)
buildHandshake(infoHash, peerID) == <<9, 0, infoHash, peerID>>

-----------------------------------------------------------------------------
(* Messages as they are received.                                          *)

IsCompleteMessage(buffer) ==
  IF Len(buffer) < Width THEN 0
  ELSE LET msgLen == Number(SubSeq(buffer, 1, Width)) IN IF Len(buffer) >= msgLen + Width THEN msgLen ELSE 0

parseMessage(message) ==
  LET id == message[Width + 1]
  IN  IF id > 9 THEN <<"Unknown", <<>>>> ELSE <<MsgTypes[id + 1], SubSeq(message, Width + 2, Len(message))>>

(* The loop over the messages of the buffer.                               *)
RECURSIVE Handled(_)
Handled(ctx) ==
  LET msgLen == IsCompleteMessage(ctx.recvBuffer)
      end == msgLen + Width
  IN  IF msgLen = 0 THEN ctx
      ELSE Handled([ctx EXCEPT !.handled = Append(@, parseMessage(SubSeq(ctx.recvBuffer, 1, end))),
                               !.recvBuffer = SubSeq(@, end + 1, Len(@))])

(* What a readable socket has is taken, unless the peer was closed.        *)
Received(ctx, bytes, handshake) ==
  LET all == ctx.recvBuffer \o bytes
      judged == ~ctx.handshaked /\ Len(all) >= 4
      fits == all[1] = handshake[1] /\ all[3] = handshake[3]
      taken == [ctx EXCEPT !.recvBuffer = IF judged /\ fits THEN SubSeq(all, 5, Len(all)) ELSE all,
                           !.handshaked = @ \/ (judged /\ fits),
                           !.closed = judged /\ ~fits]
  IN  IF ctx.closed THEN ctx ELSE IF taken.handshaked THEN Handled(taken) ELSE taken

handleHave(payload) == Number(SubSeq(payload, 1, Width))
PieceFields(payload) ==
  <<Number(SubSeq(payload, 1, Width)), Number(SubSeq(payload, Width + 1, 2 * Width)),
    SubSeq(payload, 2 * Width + 1, Len(payload))>>

-----------------------------------------------------------------------------
(* Bit fields; a piece is a number from 0, the first is the highest bit.   *)

readBitField(payload) ==
  {p \in 0 .. Bits * Len(payload) - 1 : (payload[(p \div Bits) + 1] \div 2^(Bits - 1 - (p % Bits))) % 2 = 1}

writeBitField(haves) ==
  IF haves = {} THEN <<>>
  ELSE [k \in 1 .. (Max(haves) \div Bits) + 1 |->
          MapThenSumSet(LAMBDA p : 2^(Bits - 1 - (p % Bits)), {p \in haves : p \div Bits = k - 1})]

(* A field of another length leaves what is known of the peer.             *)
handleBitfield(payload, numPieces, haves) ==
  IF Len(payload) # (numPieces + Bits - 1) \div Bits THEN haves ELSE readBitField(payload)

(* What a download starts with, given the saved state.                     *)
Reloaded(field, numPieces) ==
  LET haves == readBitField(field)
  IN  IF haves = {} \/ Max(haves) >= numPieces THEN {} ELSE haves

-----------------------------------------------------------------------------
Fragments(bytes, cuts) ==
  LET ends == {0, Len(bytes)} \cup cuts
      end(k) == CHOOSE e \in ends : Cardinality({f \in ends : f < e}) = k
  IN  [k \in 1 .. Cardinality(ends) - 1 |-> SubSeq(bytes, end(k - 1) + 1, end(k))]
Fresh == [handshaked |-> FALSE, closed |-> FALSE, recvBuffer |-> <<>>, handled |-> <<>>]
After(bytes, cuts, handshake) ==
  FoldLeft(LAMBDA ctx, bs : Received(ctx, bs, handshake), Fresh, Fragments(bytes, cuts))

(* However the bytes of a peer are cut, its messages are handled one by    *)
(* one, whole and in order, unknown ones too; all of them, if no           *)
(* keep-alive is among them; and none of a peer of another torrent.        *)
Meant(messages) ==
  LET said == SelectSeq(messages, LAMBDA m : m # Bytes(0)) IN [k \in 1 .. Len(said) |-> parseMessage(said[k])]
FramesInOrder(theirs, messages, cuts) ==
  LET ours == buildHandshake(1, 2)
      ctx == After(theirs \o FlattenSeq(messages), cuts, ours)
  IN  IF theirs[1] = ours[1] /\ theirs[3] = ours[3]
        THEN /\ IsPrefix(ctx.handled, Meant(messages)) /\ ~ctx.closed
             /\ ~Contains(messages, Bytes(0)) => ctx.handled = Meant(messages) /\ ctx.recvBuffer = <<>>
        ELSE ctx.handled = <<>> /\ ctx.closed

(* A keep-alive does not keep what follows it from being handled.  The     *)
(* code breaks this: a length of 0 is what an incomplete message gives.    *)
FramesComplete(messages, cuts) ==
  LET ours == buildHandshake(1, 2)
  IN  After(ours \o FlattenSeq(messages), cuts, ours).handled = Meant(messages)

(* What a sender says of a piece is what the receiver reads.               *)
FieldsRead(pIndex, pBegin, block) ==
  /\ PieceFields(parseMessage(buildPiece(pIndex, pBegin, block))[2]) = <<pIndex, pBegin, block>>
  /\ handleHave(parseMessage(buildHave(pIndex))[2]) = pIndex

(* The state saved by one process is the one the next starts with, and a   *)
(* peer whose field has the length of the torrent is understood.  (One     *)
(* that writes its field with writeBitField and has none of the last       *)
(* pieces writes a shorter one, which is not taken.)                       *)
BitFieldInverse(haves, numPieces) ==
  LET field == writeBitField(haves)
  IN  /\ Reloaded(field, numPieces) = haves
      /\ Len(field) = (numPieces + Bits - 1) \div Bits => handleBitfield(field, numPieces, {}) = haves
=============================================================================
