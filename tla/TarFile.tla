------------------------------ MODULE TarFile ------------------------------
(***************************************************************************)
(* misc/tarfile.hpp (and cli/ctar.cpp): a tree of files is written to an   *)
(* archive, and extracted from it.                                         *)
(*                                                                         *)
(* A disk maps paths (sequences of names, which are numbers) to nodes:     *)
(* type, data, target of a link, mode and time of modification.  An        *)
(* archive is a sequence of blocks: headers, data, zeros.  Owners and the  *)
(* digits of numbers are left out.                                         *)
(***************************************************************************)
EXTENDS Integers, Sequences, SequencesExt, FiniteSetsExt

CONSTANTS Block,     \* bytes of a block: 512 in the code
          NameMax,   \* bytes of a header's name: 100
          PrefixMax, \* bytes of a header's prefix: 155
          LinkMax,   \* bytes of a header's link name: 100
          Now        \* the time at which files are extracted

Zeros == [i \in 1 .. Block |-> 0]

-----------------------------------------------------------------------------
(* splitPathUSTAR: the rightmost slash that leaves room for both sides.    *)
(* Here a path is a sequence of characters, "/" among them.                *)

CanSplit(path) ==
  \/ Len(path) <= NameMax
  \/ Len(path) <= NameMax + PrefixMax /\
     \E i \in 1 .. Len(path) : path[i] = "/" /\ Len(path) - i <= NameMax /\ i - 1 <= PrefixMax

splitPathUSTAR(path) ==
  IF Len(path) <= NameMax THEN <<<<>>, path>>
  ELSE LET i == Max({i \in 1 .. Len(path) : path[i] = "/" /\ Len(path) - i <= NameMax /\ i - 1 <= PrefixMax})
       IN  <<SubSeq(path, 1, i - 1), SubSeq(path, i + 1, Len(path))>>

fullPath(split) == (IF split[1] = <<>> THEN <<>> ELSE Append(split[1], "/")) \o split[2]

-----------------------------------------------------------------------------
(* add.                                                                    *)

Blocks(size) == (size + Block - 1) \div Block

(* TarInfo::readFile and writeHeader: a link name that does not fit is cut. *)
Header(node, name) ==
  [type |-> node.type, name |-> name, mode |-> node.mode, mtime |-> node.mtime,
   size |-> IF node.type = "file" THEN Len(node.data) ELSE 0,
   link |-> SubSeq(node.link, 1, IF Len(node.link) < LinkMax THEN Len(node.link) ELSE LinkMax)]

DataBlock(data, k) ==
  [i \in 1 .. Block |-> IF (k - 1) * Block + i <= Len(data) THEN data[(k - 1) * Block + i] ELSE 0]

Children(disk, p) == {q \in DOMAIN disk : Len(q) = Len(p) + 1 /\ IsStrictPrefix(p, q)}

RECURSIVE Added(_, _, _)
Added(disk, p, arcname) ==
  LET node == disk[p]
      own == <<[kind |-> "header", info |-> Header(node, arcname)]>>
      data == [k \in 1 .. Blocks(Len(node.data)) |-> [kind |-> "data", bytes |-> DataBlock(node.data, k)]]
      names == SetToSortSeq({q[Len(q)] : q \in Children(disk, p)}, <)
  IN  CASE node.type = "file" -> own \o data
        [] node.type = "link" -> own
        [] node.type = "dir" ->
             own \o FlattenSeq([k \in 1 .. Len(names) |-> Added(disk, Append(p, names[k]), Append(arcname, names[k]))])

(* The destructor ends the archive with two blocks of zeros.               *)
ZeroBlock == [kind |-> "data", bytes |-> Zeros]
Archive(disk, p, arcname) == Added(disk, p, arcname) \o <<ZeroBlock, ZeroBlock>>

-----------------------------------------------------------------------------
(* getMembers: headers, each with the offset of its data.  The checksum    *)
(* refuses a block that is no header.                                      *)

isZeroBlock(b) == b = ZeroBlock

EndsAt(archive, pos) == pos + 1 <= Len(archive) /\ isZeroBlock(archive[pos + 1])

RECURSIVE MembersFrom(_, _)
MembersFrom(archive, pos) ==
  IF pos > Len(archive) THEN [ok |-> FALSE, members |-> <<>>]
  ELSE IF isZeroBlock(archive[pos]) THEN [ok |-> EndsAt(archive, pos), members |-> <<>>]
  ELSE IF archive[pos].kind # "header" THEN [ok |-> FALSE, members |-> <<>>]
  ELSE LET info == archive[pos].info
           rest == MembersFrom(archive, pos + 1 + Blocks(info.size))
       IN  [ok |-> rest.ok, members |-> <<[info |-> info, offset |-> pos + 1]>> \o rest.members]

getMembers(archive) == MembersFrom(archive, 1)

-----------------------------------------------------------------------------
(* extract.  The disk is a record with `ok', which an exception clears.    *)

Put(d, p, node) == [d EXCEPT !.disk = [q \in DOMAIN @ \cup {p} |-> IF q = p THEN node ELSE d.disk[q]]]
Touched(d, p, t) == IF p \in DOMAIN d.disk THEN [d EXCEPT !.disk[p].mtime = t] ELSE d

(* The file system: a directory is changed by what is created in it.       *)
Create(d, p, node) ==
  IF ~d.ok \/ p \in DOMAIN d.disk \/ (Front(p) \in DOMAIN d.disk /\ d.disk[Front(p)].mode = "ro")
    THEN [d EXCEPT !.ok = FALSE]
  ELSE Touched(Put(d, p, node), Front(p), Now)

NewDir == [type |-> "dir", data |-> <<>>, link |-> <<>>, mode |-> "rw", mtime |-> Now]

RECURSIVE create_directories(_, _)
create_directories(d, p) ==
  IF p \in DOMAIN d.disk \/ p = <<>> THEN d ELSE Create(create_directories(d, Front(p)), p, NewDir)

(* chunkCopy of the member's data.                                         *)
Data(archive, m) ==
  [i \in 1 .. m.info.size |-> archive[m.offset + ((i - 1) \div Block)].bytes[((i - 1) % Block) + 1]]

extract(archive, d, m) ==
  LET p == m.info.name
      e == create_directories(d, Front(p))
      made == Create(e, p, [NewDir EXCEPT !.type = m.info.type, !.link = m.info.link,
                                          !.data = IF m.info.type = "file" THEN Data(archive, m) ELSE <<>>])
  IN  IF ~d.ok \/ (Front(p) \in DOMAIN e.disk /\ e.disk[Front(p)].type # "dir") THEN [d EXCEPT !.ok = FALSE]
      ELSE IF ~made.ok THEN made
      ELSE [made EXCEPT !.disk[p].mtime = m.info.mtime, !.disk[p].mode = m.info.mode]

(* extractAll sets the times of the directories when all is in them.       *)
TimesAgain(d, members) ==
  FoldLeft(LAMBDA e, m : IF m.info.type = "dir" THEN Touched(e, m.info.name, m.info.mtime) ELSE e, d, members)

extractAll(archive, disk) ==
  LET r == getMembers(archive)
      d == FoldLeft(LAMBDA e, m : extract(archive, e, m), [ok |-> TRUE, disk |-> disk], r.members)
  IN  IF ~r.ok THEN [ok |-> FALSE, disk |-> disk]
      ELSE IF ~d.ok THEN d
      ELSE TimesAgain(d, r.members)

-----------------------------------------------------------------------------
(* A tree whose directories may be written to and whose links fit comes    *)
(* out of the archive as it went in, times included, and an archive that   *)
(* was cut short at any block (the writer was killed) is refused before    *)
(* anything is extracted.                                                  *)
ArchiveInverse(tree, root) ==
  LET a == Archive(tree, root, root)
      fits == \A p \in DOMAIN tree : Len(tree[p].link) <= LinkMax /\ (tree[p].type = "dir" => tree[p].mode = "rw")
  IN  /\ fits => extractAll(a, << >>) = [ok |-> TRUE, disk |-> tree]
      /\ \A n \in 0 .. Len(a) - 1 : extractAll(SubSeq(a, 1, n), << >>) = [ok |-> FALSE, disk |-> << >>]

(* A relative path that can be split fits into the header and is put       *)
(* together again.                                                         *)
SplitInverse(path) ==
  CanSplit(path) /\ path[1] # "/" =>
    LET s == splitPathUSTAR(path)
    IN  Len(s[1]) <= PrefixMax /\ Len(s[2]) <= NameMax /\ fullPath(s) = path
=============================================================================
