------------------------------ MODULE Bitcask ------------------------------
(***************************************************************************)
(* The log-structured key-value store cli/bitcask.cpp (class Bitcask): an  *)
(* index in memory (keyDir) over append-only log files, which are merged   *)
(* on demand and read back when the program starts.                        *)
(*                                                                         *)
(* A log file is the sequence of its entries and a position in it is an    *)
(* index; one that does not exist is as good as empty.  LogSize is the     *)
(* number of entries after which a new file is begun.  The stream buffer   *)
(* of the current file holds its last `buffered' entries, of which a crash *)
(* loses a part.  A merge takes several steps, between which the program   *)
(* may crash.  `Happens' lists the events that an instance considers.      *)
(***************************************************************************)
EXTENDS Integers, Sequences, FiniteSets, SequencesExt

CONSTANTS Keys, Values, none,
          LogSize,    \* logSize, in entries
          MaxWrites,  \* bound on the commands that write
          MaxStamp,   \* the largest timestamp: 2^32 - 1
          Happens     \* subset of Events

(* quit: the program ends; crash: it is killed, and with torn an entry may *)
(* be cut off; any: both may also happen when there are several logs or a  *)
(* merge; merge: the first merge, remerge: any later one.                  *)
Events == {"quit", "crash", "any", "torn", "merge", "remerge"}

ASSUME BoundsPositive ==
  LogSize \in Nat \ {0} /\ MaxWrites \in Nat /\ MaxStamp \in Nat /\ Happens \subseteq Events

(* A value is told apart from its absence and from bytes misread.          *)
ASSUME ValuesDistinct == none \notin Keys \cup Values /\ "garbage" \notin Values \cup {none}

VARIABLES
  log,       \* the files cask.<id>
  merged,    \* the files merged-cask.<id>
  hint,      \* what loadFromHintFile finds in .hint: no file ("none"), a file without
             \* a header ("opened"), or the index dir that a merge wrote ("written")
  keyDir,    \* the index: the place of the value of every key
  currId,    \* id of the current file
  buffered,  \* entries of the current file that are only in its buffer
  stage,     \* "idle", or how far a merge has come: "hint", "rename"
  renamed,   \* merged files renamed so far
  writes,    \* commands that have written
  may,       \* the values a key has had since the store was last on disk
  up         \* the program is running

vars == <<log, merged, hint, keyDir, currId, buffered, stage, renamed, writes, may, up>>

Put(map, k, x) == [j \in DOMAIN map \cup {k} |-> IF j = k THEN x ELSE map[j]]
Without(map, k) == [j \in DOMAIN map \ {k} |-> map[j]]
Empty == [k \in {} |-> {}]

Contents(files, id) == IF id \in DOMAIN files THEN files[id] ELSE <<>>

(* FileEntry; an entry that was cut off in a crash fails its checksum.     *)
Entry(k, v, t) == [key |-> k, val |-> v, tstamp |-> t]
Tombstone(k) == Entry(k, none, 0)
Torn == Entry(none, none, 0)

-----------------------------------------------------------------------------
(* Reading a value: the bytes at its place, whatever they are.             *)

FileOf(id) == Contents(IF stage = "idle" \/ (stage = "rename" /\ id < renamed) THEN log ELSE merged, id)

Read(k) ==
  IF k \notin DOMAIN keyDir THEN none
  ELSE LET place == keyDir[k]
           file  == FileOf(place.id)
       IN  IF place.vpos \in DOMAIN file /\ file[place.vpos].key = k
             THEN file[place.vpos].val ELSE "garbage"

Store == [k \in Keys |-> Read(k)]

OnDisk(f) == [k \in Keys |-> {f[k]}]

-----------------------------------------------------------------------------
(* The commands.                                                           *)

Ready == up /\ stage = "idle"

CanWrite == Ready /\ writes < MaxWrites /\ writes' = writes + 1

(* timestamp(): the milliseconds since the epoch, of which 32 bits are     *)
(* kept, of a clock that may be set: any number may follow any other.      *)
(* Left out: an empty value at the largest one is taken for a tombstone.   *)
Stamps == 0 .. MaxStamp

(* entry.write(currFile); ensureLogSizeLimits(), which closes a full file. *)
(* Of the file, the last `unflushed' entries were in the buffer.           *)
Write(e, unflushed) ==
  LET file == Append(Contents(log, currId), e)
  IN  /\ log' = Put(log, currId, file)
      /\ IF Len(file) >= LogSize THEN currId' = currId + 1 /\ buffered' = 0
                                 ELSE currId' = currId /\ buffered' = unflushed + 1

(* FileEntry::kd: where the next entry of the file will be.                *)
PlaceAfter(file, id, t) == [id |-> id, vpos |-> Len(file) + 1, tstamp |-> t]

set(k, v) ==
  /\ CanWrite
  /\ \E t \in Stamps : /\ keyDir' = Put(keyDir, k, PlaceAfter(Contents(log, currId), currId, t))
                        /\ Write(Entry(k, v, t), buffered)
  /\ may' = IF currId' # currId THEN OnDisk([Store EXCEPT ![k] = v])
                                ELSE [may EXCEPT ![k] = @ \cup {v}]
  /\ UNCHANGED <<merged, hint, stage, renamed, up>>

(* The value is in the current file, whose buffer is then flushed.         *)
Flushes(k) == k \in DOMAIN keyDir /\ keyDir[k].id = currId

get(k) ==
  /\ Ready
  /\ Flushes(k)
  /\ buffered' = 0
  /\ may' = OnDisk(Store)
  /\ UNCHANGED <<log, merged, hint, keyDir, currId, stage, renamed, writes, up>>

WriteTombstone(k, unflushed) == Write(Tombstone(k), unflushed)

erase(k) ==
  LET seen == IF Flushes(k) THEN OnDisk(Store) ELSE may
  IN  /\ CanWrite
      /\ WriteTombstone(k, IF Flushes(k) THEN 0 ELSE buffered)
      /\ keyDir' = Without(keyDir, k)
      /\ may' = IF currId' # currId THEN OnDisk([Store EXCEPT ![k] = none])
                                    ELSE [seen EXCEPT ![k] = @ \cup {none}]
      /\ UNCHANGED <<merged, hint, stage, renamed, up>>

-----------------------------------------------------------------------------
(* merge                                                                   *)

(* One round of its loop: the value of k goes to the end of the current    *)
(* merged file.  One timestamp does for all of them, as none is compared.  *)
MergeKey(m, k, t) ==
  LET file == Append(Contents(m.files, m.id), Entry(k, Read(k), t))
  IN  [files |-> Put(m.files, m.id, file),
       dir   |-> Put(m.dir, k, PlaceAfter(Contents(m.files, m.id), m.id, t)),
       id    |-> IF Len(file) >= LogSize THEN m.id + 1 ELSE m.id]

(* The whole loop.                                                         *)
Merged(order, t) ==
  LET m[n \in 0 .. Len(order)] ==
        IF n = 0 THEN [files |-> merged, dir |-> keyDir, id |-> 0] ELSE MergeKey(m[n - 1], order[n], t)
  IN  m[Len(order)]

(* The current file is closed, and the values are copied in the order of   *)
(* the hash table; files left by an earlier merge are appended to.         *)
MergeCopy ==
  /\ CanWrite
  /\ IF hint.state = "none" THEN "merge" \in Happens ELSE "remerge" \in Happens
  /\ \E order \in SetToSeqs(DOMAIN keyDir), t \in Stamps :
       LET m == Merged(order, t)
       IN  /\ merged' = m.files
           /\ keyDir' = m.dir
           /\ currId' = m.id
           /\ buffered' = Len(Contents(m.files, m.id)) - Len(Contents(merged, m.id))
  /\ may' = OnDisk(Store)
  /\ stage' = "hint"
  /\ renamed' = 0
  /\ UNCHANGED <<log, hint, up>>

(* .hint is opened for appending; what is written stays in its buffer.     *)
MergeHint ==
  /\ up /\ stage = "hint"
  /\ hint' = IF hint.state = "none" THEN [hint EXCEPT !.state = "opened"] ELSE hint
  /\ stage' = "rename"
  /\ UNCHANGED <<log, merged, keyDir, currId, buffered, renamed, writes, may, up>>

(* Mutant: the last merged file is left where it is.                       *)
LastToRenameOffByOne == currId - 1

LastToRename == currId

MergeRename ==
  /\ up /\ stage = "rename"
  /\ renamed <= LastToRename
  /\ log' = Put(log, renamed, Contents(merged, renamed))
  /\ merged' = Without(merged, renamed)
  /\ renamed' = renamed + 1
  /\ UNCHANGED <<hint, keyDir, currId, buffered, stage, writes, may, up>>

(* .hint is closed.  Its reader stops after the first index in it.         *)
MergeEnd ==
  /\ up /\ stage = "rename"
  /\ renamed > LastToRename
  /\ hint' = IF hint.state = "opened" THEN [state |-> "written", dir |-> keyDir] ELSE hint
  /\ stage' = "idle"
  /\ UNCHANGED <<log, merged, keyDir, currId, buffered, renamed, writes, may, up>>

-----------------------------------------------------------------------------
(* The end of the program, and load().                                     *)

(* The store is a single log that no merge has touched.                    *)
SingleLog == currId = 0 /\ stage = "idle" /\ hint.state = "none"

Down ==
  /\ SingleLog \/ "any" \in Happens
  /\ up' = FALSE
  /\ buffered' = 0
  /\ stage' = "idle"
  /\ keyDir' = Empty
  /\ UNCHANGED <<hint, renamed, writes>>

Quit ==
  /\ Ready
  /\ "quit" \in Happens
  /\ may' = OnDisk(Store)
  /\ Down
  /\ UNCHANGED <<log, merged, currId>>

(* What is left of a file whose last n entries were not on disk.           *)
Remains(file, n) ==
  {SubSeq(file, 1, Len(file) - i) : i \in 0 .. n}
    \cup (IF "torn" \in Happens THEN {SubSeq(file, 1, Len(file) - i) \o <<Torn>> : i \in 1 .. n} ELSE {})

Crash ==
  /\ up
  /\ "crash" \in Happens
  /\ \E file \in Remains(FileOf(currId), buffered) :
       IF stage = "idle" \/ (stage = "rename" /\ currId < renamed)
         THEN log' = Put(log, currId, file) /\ UNCHANGED merged
         ELSE merged' = Put(merged, currId, file) /\ UNCHANGED log
  /\ Down
  /\ UNCHANGED <<currId, may>>

(* The key is new, or the entry is later than the one in the index.        *)
Supersedes(dir, e) == e.key \notin DOMAIN dir \/ dir[e.key].tstamp < e.tstamp

(* Mutant: the place is taken before the key of the entry has been read.   *)
LoadEntryTooEarly(dir, id, i) ==
  LET e == log[id][i]
  IN  IF e.val = none THEN Without(dir, e.key)
                      ELSE Put(dir, e.key, [id |-> id, vpos |-> i - 1, tstamp |-> e.tstamp])

(* Entry i of a file, read into the index.                                 *)
LoadEntry(dir, id, i) ==
  LET e == log[id][i]
  IN  CASE e.val = none -> Without(dir, e.key)
        [] e.val # none /\ Supersedes(dir, e) ->
             Put(dir, e.key, [id |-> id, vpos |-> i, tstamp |-> e.tstamp])
        [] OTHER -> dir

(* A file is read up to the first entry that is cut off.                   *)
Readable(id) ==
  {i \in 1 .. Len(log[id]) : \A j \in 1 .. i : log[id][j] # Torn}

loadFromFile(dir, id) ==
  LET read[i \in 0 .. Len(log[id])] == IF i = 0 THEN dir ELSE LoadEntry(read[i - 1], id, i)
  IN  read[Cardinality(Readable(id))]

(* The read came to the end of the file: it does when only the last entry  *)
(* is cut off, and otherwise may, as the bytes after the cut are misread.  *)
Complete(id) == Cardinality(Readable(id)) >= Len(log[id]) - 1

(* The files are read in the order of the directory, which is arbitrary.   *)
IndexFrom(order) ==
  LET dir[n \in 0 .. Len(order)] == IF n = 0 THEN Empty ELSE loadFromFile(dir[n - 1], order[n])
  IN  dir[Len(order)]

Highest(S) == {m \in S : \A n \in S : n <= m}

LoadLogs ==
  /\ hint.state = "none"
  /\ \E order \in SetToSeqs(DOMAIN log) : keyDir' = IndexFrom(order)
  /\ \E ended \in SUBSET DOMAIN log :
       /\ {id \in DOMAIN log : Complete(id)} \subseteq ended
       /\ currId' \in Highest({0} \cup {IF Len(log[id]) < LogSize THEN id ELSE id + 1 : id \in ended})

loadFromHintFile ==
  /\ hint.state # "none"
  /\ keyDir' = hint.dir
  /\ currId' \in Highest({0} \cup {keyDir'[k].id : k \in DOMAIN keyDir'})

load ==
  /\ ~up
  /\ LoadLogs \/ loadFromHintFile
  /\ up' = TRUE
  /\ UNCHANGED <<log, merged, hint, buffered, stage, renamed, writes, may>>

-----------------------------------------------------------------------------
Init ==
  /\ log = Empty
  /\ merged = Empty
  /\ hint = [state |-> "none", dir |-> Empty]
  /\ keyDir = Empty
  /\ currId = 0
  /\ buffered = 0
  /\ stage = "idle"
  /\ renamed = 0
  /\ writes = 0
  /\ may = [k \in Keys |-> {none}]
  /\ up = TRUE

Next ==
  \/ \E k \in Keys : get(k) \/ erase(k) \/ \E v \in Values : set(k, v)
  \/ MergeCopy \/ MergeHint \/ MergeRename \/ MergeEnd
  \/ Quit \/ Crash \/ load

Spec == Init /\ [][Next]_vars

-----------------------------------------------------------------------------
(* Every key of the index leads to an entry of that key: the places kept   *)
(* in memory survive merges, new files and restarts.                       *)
IndexExact == up => \A k \in Keys : Read(k) # "garbage"

(* No entry of k comes after one that is cut off, and the values that k    *)
(* was given without being erased in between have ascending timestamps.    *)
InOrder(file, k) ==
  \A j \in 1 .. Len(file) : file[j].key = k =>
    \A i \in 1 .. j - 1 :
      /\ file[i] # Torn
      /\ \/ file[i].key # k \/ file[i].val = none \/ file[j].val = none
         \/ \E h \in i + 1 .. j - 1 : file[h].key = k
         \/ file[i].tstamp < file[j].tstamp

(* The keys that a start is sure to bring back.                            *)
Sure == {k \in Keys : hint.state = "none" /\ DOMAIN log \subseteq {0} /\ InOrder(Contents(log, 0), k)}

Abstract == INSTANCE KeyValueStore WITH kv <- IF up THEN Store ELSE [k \in Keys |-> none],
                                        sure <- Sure, garbage <- "garbage"

(* The store is a key-value store: get returns what was last set and a     *)
(* merge changes nothing, whatever happened before; and a start after any  *)
(* end, kill or kill in a merge brings back every key as it was when the   *)
(* store was last on disk, or later, if what it reads is a single log in   *)
(* which the entries of that key are whole and in the order of their       *)
(* timestamps.                                                             *)
IsAStore == Abstract!Spec

(* What is on disk is found again.  The code breaks this in several ways,  *)
(* each shown by an instance of its own.                                   *)
FindsAgain == up => \A k \in Keys : Read(k) \in may[k]

(* After a merge the hint file, from which alone the next start loads, is  *)
(* the index.  The code breaks this: the second merge appends to the file  *)
(* and its reader sees the first index.                                    *)
HintUpToDate == stage = "rename" /\ renamed > LastToRename /\ hint.state = "written" => hint.dir = keyDir
=============================================================================
