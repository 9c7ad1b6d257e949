------------------------------ MODULE GitPack ------------------------------
(***************************************************************************)
(* cgit/src/GitPack.cpp: look-up in a pack's index and extraction of an    *)
(* object through its chain of deltas.                                     *)
(*                                                                         *)
(* A hash is its first byte and one more digit; a part of one is a prefix. *)
(* An index is the sorted sequence of its hashes and what is read behind   *)
(* the last one (the table of check sums).  Bytes of a number are records  *)
(* of the bit that says more and a digit of base Radix.  A pack maps an    *)
(* offset to an object or to a delta against one, with the sizes written   *)
(* in it.                                                                  *)
(***************************************************************************)
EXTENDS Integers, SequencesExt, FiniteSets, FiniteSetsExt, TLC

CONSTANTS Radix,    \* 128 in the code
          CopyWhole \* what a copy of size 0 stands for; 65536 in the code

Fail == [ok |-> FALSE, data |-> <<>>]

-----------------------------------------------------------------------------
(* The index.  Positions count from 0.                                     *)

ShaAt(idx, k) == IF k < Len(idx.shas) THEN idx.shas[k + 1] ELSE idx.behind
Below(s, part) ==
  \E k \in 1 .. Len(part) : s[k] < part[k] /\ \A j \in 1 .. k - 1 : s[j] = part[j]
Fanout(idx, byte) == Cardinality({k \in 1 .. Len(idx.shas) : idx.shas[k][1] <= byte})

(* Mutant: the end is not moved below the middle when it matches.          *)
RECURSIVE PastFirst(_, _, _, _)
PastFirst(start, end, part, idx) ==
  LET mid == start + (end - start) \div 2
  IN  IF start > end THEN start
      ELSE IF ~Below(ShaAt(idx, mid), part) THEN mid
      ELSE PastFirst(mid + 1, end, part, idx)

RECURSIVE getPackIdxOffsetStart(_, _, _, _)
getPackIdxOffsetStart(start, end, part, idx) ==
  LET mid == start + (end - start) \div 2
  IN  IF start > end THEN start
      ELSE IF Below(ShaAt(idx, mid), part) THEN getPackIdxOffsetStart(mid + 1, end, part, idx)
      ELSE IF start = mid THEN start
      ELSE getPackIdxOffsetStart(start, mid - 1, part, idx)

RECURSIVE Matching(_, _, _, _)
Matching(k, curr, part, idx) ==
  IF k > curr \/ ~IsPrefix(part, ShaAt(idx, k)) THEN <<>>
  ELSE <<k>> \o Matching(k + 1, curr, part, idx)

getHashMatchFromIndex(part, idx) ==
  LET curr == Fanout(idx, part[1])
      prev == IF part[1] > 0 THEN Fanout(idx, part[1] - 1) ELSE 0
  IN  IF curr - prev > 0 THEN Matching(getPackIdxOffsetStart(prev, curr, part, idx), curr, part, idx) ELSE <<>>

refResolve(part, idxs) ==
  FlattenSeq([i \in 1 .. Len(idxs) |->
    LET found == getHashMatchFromIndex(part, idxs[i]) IN [k \in 1 .. Len(found) |-> ShaAt(idxs[i], found[k])]])

-----------------------------------------------------------------------------
(* Numbers.                                                                *)

(* readVarLenInt: the least digit first.                                   *)
RECURSIVE readVarLenInt(_)
readVarLenInt(bytes) ==
  Head(bytes).digit + (IF Head(bytes).more THEN Radix * readVarLenInt(Tail(bytes)) ELSE 0)

(* The distance to the base of a delta: the greatest digit first, and one  *)
(* more for every byte that is followed by another.                        *)
RECURSIVE RelOffset(_, _)
RelOffset(acc, bytes) ==
  LET n == acc * Radix + Head(bytes).digit
  IN  IF Head(bytes).more THEN RelOffset(n + 1, Tail(bytes)) ELSE n

-----------------------------------------------------------------------------
(* extract.                                                                *)

(* getPackFileOffset: exactly one hash of all the indexes must match; a    *)
(* result is a pack and an offset.                                         *)
NoPlace == [pack |-> 0, offset |-> 0]
getPackFileOffset(part, idxs) ==
  LET found == {<<i, k>> \in (1 .. Len(idxs)) \X (0 .. Max({Len(x.shas) : x \in ToSet(idxs)})) : Contains(getHashMatchFromIndex(part, idxs[i]), k)}
      match == CHOOSE f \in found : TRUE
  IN  IF Cardinality(found) # 1 THEN NoPlace
      ELSE [pack |-> match[1], offset |-> idxs[match[1]].offsets[match[2] + 1]]

(* The chain from the object at an offset to the one that is no delta: a   *)
(* delta names its base by its distance or by its hash, of which only the  *)
(* offset is used.                                                         *)
RECURSIVE DeltaChain(_, _, _)
DeltaChain(pack, offset, idxs) ==
  IF offset \notin DOMAIN pack THEN <<>>
  ELSE LET e == pack[offset]
       IN  CASE e.type = "base" -> <<e>>
             [] e.type = "ofs" -> Append(DeltaChain(pack, offset - RelOffset(0, e.rel), idxs), e)
             [] e.type = "ref" -> Append(DeltaChain(pack, getPackFileOffset(e.base, idxs).offset, idxs), e)

(* An instruction copies from the base, as far as there is any, or inserts *)
(* bytes; a copy from beyond the end of the base throws.                   *)
Instruction(base, op) ==
  IF op.copy
    THEN IF op.offset > Len(base) THEN Fail
         ELSE LET size == IF op.size = 0 THEN CopyWhole ELSE op.size
              IN  [ok |-> TRUE, data |-> SubSeq(base, op.offset + 1, Min({Len(base), op.offset + size}))]
    ELSE [ok |-> TRUE, data |-> op.bytes]

ApplyDelta(base, d) ==
  LET parts == [k \in 1 .. Len(d.ops) |-> Instruction(base, d.ops[k])]
      whole == FlattenSeq([k \in 1 .. Len(d.ops) |-> parts[k].data])
  IN  IF Len(base) # d.source \/ (\E k \in 1 .. Len(d.ops) : ~parts[k].ok) \/ Len(whole) # d.size THEN Fail
      ELSE [ok |-> TRUE, data |-> whole]

extract(part, idxs, packs) ==
  LET place == getPackFileOffset(part, idxs)
      Step(result, e) ==
        IF e.type = "base" THEN (IF Len(e.data) = e.size THEN [ok |-> TRUE, data |-> e.data] ELSE Fail)
        ELSE IF result.ok THEN ApplyDelta(result.data, e) ELSE Fail
  IN  IF place = NoPlace THEN Fail
      ELSE FoldLeft(Step, Fail, DeltaChain(packs[place.pack], place.offset, idxs))

-----------------------------------------------------------------------------
(* What git writes, as far as the above reads it.                          *)

RECURSIVE VarLen(_)
VarLen(n) == IF n < Radix THEN <<[more |-> FALSE, digit |-> n]>>
             ELSE <<[more |-> TRUE, digit |-> n % Radix]>> \o VarLen(n \div Radix)
RECURSIVE Distance(_)
Distance(n) == LET last == <<[more |-> FALSE, digit |-> n % Radix]>>
                   above == Distance(n \div Radix - 1)
               IN  IF n < Radix THEN last
                   ELSE [k \in 1 .. Len(above) |-> [above[k] EXCEPT !.more = TRUE]] \o last

(* The matches are all the hashes of the index that start with the part,   *)
(* unless what lies behind the last hash looks like another one.           *)
LookupExact(idx, part) ==
  ~IsPrefix(part, idx.behind) =>
    getHashMatchFromIndex(part, idx)
      = SelectSeq([k \in 1 .. Len(idx.shas) |-> k - 1], LAMBDA k : IsPrefix(part, ShaAt(idx, k)))

(* Numbers are read as they were written.                                  *)
NumbersExact(n) == readVarLenInt(VarLen(n)) = n /\ RelOffset(0, Distance(n)) = n

(* A version that git stored as a delta against another, which may itself  *)
(* be one and is named by distance or by hash, comes out as it was; a      *)
(* wrong size anywhere gives nothing, and so does an object that a second  *)
(* pack holds too.                                                         *)
Stored(version, ref, source, size) ==
  [type |-> IF ref THEN "ref" ELSE "ofs", rel |-> Distance(1), base |-> <<1, 0>>, source |-> source, size |-> size,
   ops |-> <<[copy |-> TRUE, offset |-> 0, size |-> 0, bytes |-> <<>>], [copy |-> FALSE, offset |-> 0, size |-> 0, bytes |-> version]>>]
ExtractExact(v1, v2, v3, ref, wrong, again) ==
  LET pack == (1 :> [type |-> "base", data |-> v1, size |-> Len(v1)])
              @@ (2 :> Stored(v2, ref, Len(v1), Len(v1) + Len(v2)))
              @@ (3 :> Stored(v3, FALSE, Len(v1) + Len(v2) + wrong, Len(v1) + Len(v2) + Len(v3)))
      idx(n) == [shas |-> SubSeq(<<<<1, 0>>, <<1, 1>>, <<2, 0>>>>, n, 3), offsets |-> SubSeq(<<1, 2, 3>>, n, 3), behind |-> <<0, 0>>]
  IN  extract(<<2>>, IF again THEN <<idx(1), idx(3)>> ELSE <<idx(1)>>, <<pack, pack>>)
        = IF wrong = 0 /\ ~again THEN [ok |-> TRUE, data |-> v1 \o v2 \o v3] ELSE Fail
=============================================================================
