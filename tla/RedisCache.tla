----------------------------- MODULE RedisCache -----------------------------
(***************************************************************************)
(* The database of the Redis clone: class Cache (redis-server/src/         *)
(* Cache.cpp) and the commands of CommandHandler that change it, with the  *)
(* clock that expires keys, SAVE, BGSAVE in a forked child, and the start  *)
(* of the server, which loads dump.rdb.                                    *)
(*                                                                         *)
(* A command is one step, as the server has one thread, but the clock is   *)
(* read several times in it: a key may be live at the first reading (now)  *)
(* and expired at the last (t).  Readings in between make no difference.   *)
(* PING, ECHO, EXISTS, TTL and KEYS change nothing and are left out.       *)
(* The file is a sequence of chunks: a header, the entries, an end mark.   *)
(* Entries are of equal length, so that two writers stay aligned.          *)
(***************************************************************************)
EXTENDS Integers, Sequences, FiniteSets, SequencesExt

CONSTANTS Keys,
          MaxTime,   \* bound of the clock
          Numbers,   \* the numbers that may be stored
          MaxLen,    \* bound of the length of a list
          MaxSaves,  \* bound on the number of saves
          MaxBeside, \* bound on the number of keys in a save that overlaps another
          Children   \* the processes BGSAVE may fork

ASSUME RedisBounds ==
  /\ MaxTime \in Nat /\ Numbers \subseteq Int /\ MaxLen \in Nat /\ MaxSaves \in Nat
  /\ MaxBeside \in Nat
  /\ "server" \notin Children

VARIABLES
  db,     \* the maps cache and ttl
  now,    \* the clock, in milliseconds
  up,     \* the server is running
  saves,  \* number of saves begun
  job,    \* what each process has yet to write, and where
  dump,   \* the chunks of dump.rdb; none before the first save
  overlapped  \* history: the last save to begin found another one running

vars == <<db, now, up, saves, job, dump, overlapped>>

(* The deadlines that can pass within the bound of the clock.              *)
Deadlines == 0 .. MaxTime - 1

Writers == {"server"} \cup Children

(* A string: a number, or anything else.                                   *)
Number(n) == [kind |-> "number", n |-> n]
Word == [kind |-> "word", n |-> 0]
Texts == {Number(n) : n \in Numbers} \cup {Word}

Variant(x) == [type |-> "VARIANT", val |-> x]
Aggregate(s) == [type |-> "AGGREGATE", val |-> s]

Put(map, k, x) == [j \in DOMAIN map \cup {k} |-> IF j = k THEN x ELSE map[j]]
Without(map, k) == [j \in DOMAIN map \ {k} |-> map[j]]
EmptyDB == [cache |-> [k \in {} |-> 0], ttl |-> [k \in {} |-> 0]]

-----------------------------------------------------------------------------
(* Class Cache.                                                            *)

exists(d, k) == k \in DOMAIN d.cache

expired(d, k, t) == k \in DOMAIN d.ttl /\ d.ttl[k] < t

erase(d, k) == [cache |-> Without(d.cache, k), ttl |-> Without(d.ttl, k)]

setValue(d, k, node) == [d EXCEPT !.cache = Put(@, k, node)]

setTTL(d, k, at) == [d EXCEPT !.ttl = Put(@, k, at)]

(* Mutant: the deadline of an expired key is kept.                         *)
touchValueOnly(d, k, t) == IF expired(d, k, t) THEN [d EXCEPT !.cache = Without(@, k)] ELSE d

(* getValue: the database it leaves; it returns null if k is not in it.    *)
touch(d, k, t) == IF expired(d, k, t) THEN erase(d, k) ELSE d

(* Mutant: a key is removed in the millisecond of its deadline.            *)
purgedEarly(d, t) ==
  LET kept == {k \in DOMAIN d.cache : k \notin DOMAIN d.ttl \/ d.ttl[k] > t}
  IN  [cache |-> [k \in kept |-> d.cache[k]], ttl |-> [k \in DOMAIN d.ttl \cap kept |-> d.ttl[k]]]

(* save begins by removing the expired keys.                               *)
purged(d, t) ==
  LET kept == {k \in DOMAIN d.cache : ~expired(d, k, t)}
  IN  [cache |-> [k \in kept |-> d.cache[k]], ttl |-> [k \in DOMAIN d.ttl \cap kept |-> d.ttl[k]]]

-----------------------------------------------------------------------------
(* Commands.                                                               *)

Idle == [chunks |-> <<>>, pos |-> 1]

Busy(w) == job[w] # Idle

(* The clock at the last reading of the command.                           *)
Later(t) == t \in now .. MaxTime /\ now' = t

Ready == up /\ ~Busy("server")

(* A null pointer is followed, or an exception leaves main: the process    *)
(* ends.                                                                   *)
Die == /\ up' = FALSE
       /\ db' = EmptyDB
       /\ job' = [job EXCEPT !["server"] = Idle]
       /\ UNCHANGED <<saves, dump, overlapped>>

Becomes(d) == db' = d /\ UNCHANGED <<up, saves, job, dump, overlapped>>

(* SET k x: stored without a deadline, also when one is given that is      *)
(* refused ("Invalid syntax"), or with one, relative (EX, PX) or not.      *)
Set(k, x) ==
  /\ Ready
  /\ UNCHANGED now
  /\ Becomes(setValue(db, k, Variant(x)))

SetUntil(k, x, at) ==
  /\ Ready
  /\ UNCHANGED now
  /\ Becomes(setTTL(setValue(db, k, Variant(x)), k, at))

(* An expiry that std::stoul does not accept.                              *)
SetUnparsable == Ready /\ Die /\ UNCHANGED now

Get(k, t) ==
  /\ Ready
  /\ Later(t)
  /\ Becomes(touch(db, k, t))

(* DEL of several keys.                                                    *)
Del(ks) ==
  /\ Ready
  /\ UNCHANGED now
  /\ Becomes(LET gone == {k \in ks : exists(db, k)}
             IN  [cache |-> [k \in DOMAIN db.cache \ gone |-> db.cache[k]],
                  ttl   |-> [k \in DOMAIN db.ttl \ gone |-> db.ttl[k]]])

(* The key is missing, or was expired at the first reading.                *)
Absent(k) == ~exists(db, k) \/ expired(db, k, now)

Holds(k, kind) == ~Absent(k) /\ db.cache[k].type = "VARIANT" /\ db.cache[k].val.kind = kind

(* INCR and DECR.                                                          *)
Incremented(k, by) ==
  CASE Absent(k) -> setValue(db, k, Variant(Number(by)))
    [] Holds(k, "number") -> setValue(db, k, Variant(Number(db.cache[k].val.n + by)))
    [] OTHER -> db

(* It ends with getValue(key)->serialize(): null if the key is expired     *)
(* then, by a deadline that setValue has left in place.  A string that     *)
(* allDigitsSigned takes for a number and std::stol does not (a lone minus *)
(* sign, too many digits) ends the process.                                *)
LAdd(k, by, t) ==
  LET d == Incremented(k, by)
  IN  /\ Ready
      /\ Later(t)
      /\ Absent(k) => by \in Numbers
      /\ Holds(k, "number") => db.cache[k].val.n + by \in Numbers
      /\ \/ ~expired(d, k, t) /\ Becomes(d)
         \/ (expired(d, k, t) \/ Holds(k, "word")) /\ Die

(* LPUSH and RPUSH of n elements.  What they are, and at which end they    *)
(* are added, makes no difference here.                                    *)
Push(k, n, t) ==
  LET new  == IF Absent(k) THEN setValue(db, k, Aggregate(<<>>)) ELSE db
      list == new.cache[k].val
  IN  /\ Ready
      /\ Later(t)
      /\ IF expired(new, k, t) THEN Die
         ELSE IF new.cache[k].type # "AGGREGATE" THEN Becomes(db)
         ELSE /\ Len(list) + n <= MaxLen
              /\ Becomes(setValue(new, k, Aggregate(list \o [i \in 1 .. n |-> Word])))

(* LLEN and LRANGE read; they too follow the pointer of the last reading.  *)
ReadList(k, t) ==
  /\ Ready
  /\ Later(t)
  /\ IF ~Absent(k) /\ expired(db, k, t) THEN Die ELSE Becomes(db)

(* LRANGE whose right end is more than the length of the list before its   *)
(* end: the unsigned index runs past the list.                             *)
RangeBeyond(k) ==
  /\ Ready
  /\ UNCHANGED now
  /\ ~Absent(k) /\ db.cache[k].type = "AGGREGATE"
  /\ Die

Command(k) ==
  \/ \E x \in Texts : Set(k, x) \/ \E at \in Deadlines : SetUntil(k, x, at)
  \/ \E ks \in SUBSET Keys : k \in ks /\ Del(ks)
  \/ RangeBeyond(k)
  \/ \E t \in now .. MaxTime :
       \/ Get(k, t) \/ ReadList(k, t)
       \/ \E n \in 1 .. MaxLen : Push(k, n, t)
       \/ \E by \in {-1, 1} : LAdd(k, by, t)

Tick == now < MaxTime /\ now' = now + 1 /\ UNCHANGED <<db, up, saves, job, dump, overlapped>>

-----------------------------------------------------------------------------
(* Saving: the file is opened, which empties it, and written from its      *)
(* beginning by each process that saves.  Nothing keeps a save from        *)
(* beginning while a child is writing.                                     *)

Header(n, size) == [of |-> n, kind |-> "header", size |-> size]
Entry(n, k, d) == [of |-> n, kind |-> "entry", key |-> k, node |-> d.cache[k],
                   at |-> IF k \in DOMAIN d.ttl THEN {d.ttl[k]} ELSE {}]
End(n) == [of |-> n, kind |-> "end"]
Hole == [of |-> 0, kind |-> "hole"]

(* What save(n) writes, in the order of the hash table.                    *)
Snapshot(d, n, order) ==
  <<Header(n, Len(order))>> \o [i \in 1 .. Len(order) |-> Entry(n, order[i], d)] \o <<End(n)>>

(* Mutant: a new save goes on where the old file ends.                     *)
NotEmptied(file) == file

Emptied(file) == <<>>

BeginSave(w, d) ==
  /\ saves < MaxSaves
  /\ overlapped' = (\E v \in Writers : Busy(v))
  /\ overlapped' => Cardinality(DOMAIN d.cache) <= MaxBeside
  /\ saves' = saves + 1
  /\ dump' = Emptied(dump)
  /\ \E order \in SetToSeqs(DOMAIN d.cache) :
       job' = [job EXCEPT ![w] = [chunks |-> Snapshot(d, saves', order), pos |-> Len(dump') + 1]]

Save ==
  /\ Ready
  /\ db' = purged(db, now)
  /\ BeginSave("server", db')
  /\ UNCHANGED <<now, up>>

(* The child works on its copy of the database.                            *)
BgSave(c) ==
  /\ Ready
  /\ ~Busy(c)
  /\ BeginSave(c, purged(db, now))
  /\ UNCHANGED <<db, now, up>>

WriteAt(file, pos, chunk) ==
  [i \in 1 .. (IF pos > Len(file) THEN pos ELSE Len(file)) |->
     IF i = pos THEN chunk ELSE IF i <= Len(file) THEN file[i] ELSE Hole]

WriteChunk(w) ==
  /\ Busy(w)
  /\ dump' = WriteAt(dump, job[w].pos, Head(job[w].chunks))
  /\ job' = [job EXCEPT ![w] = IF Len(@.chunks) = 1 THEN Idle
                               ELSE [chunks |-> Tail(@.chunks), pos |-> @.pos + 1]]
  /\ UNCHANGED <<db, now, up, saves, overlapped>>

(* A write fails, or the child is killed.                                  *)
SaveFails(w) ==
  /\ Busy(w)
  /\ job' = [job EXCEPT ![w] = Idle]
  /\ UNCHANGED <<db, now, up, saves, dump, overlapped>>

-----------------------------------------------------------------------------
(* The end of the server, and load().                                      *)

Kill == up /\ Die /\ UNCHANGED now

(* The entries read before the file ends or stops making sense; load()     *)
(* keeps them although it then reports a failure.  Left out: the length of *)
(* a missing string is never set, so that a key of no name may be added,   *)
(* or the start may end in an exception.                                   *)
Loaded(file) ==
  LET size  == file[1].size
      whole == {i \in 2 .. size + 1 : \A j \in 2 .. i : j <= Len(file) /\ file[j].kind = "entry"}
      keys  == {file[i].key : i \in whole}
      last(k) == CHOOSE i \in whole : file[i].key = k /\ \A j \in whole : file[j].key = k => j <= i
      dead  == {k \in keys : \E i \in whole : file[i].key = k /\ file[i].at # {}}
      lastAt(k) == CHOOSE i \in whole : /\ file[i].key = k /\ file[i].at # {}
                                        /\ \A j \in whole : file[j].key = k /\ file[j].at # {} => j <= i
  IN  [cache |-> [k \in keys |-> file[last(k)].node],
       ttl   |-> [k \in dead |-> CHOOSE t \in file[lastAt(k)].at : TRUE]]

HasHeader(file) == file # <<>> /\ file[1].kind = "header"

(* The header is compared as a string of which the last byte is never set: *)
(* the comparison may fail for a good file.  A child of the previous       *)
(* server holds its listening socket, and only its end lets the new server *)
(* listen.                                                                 *)
Restart ==
  /\ ~up
  /\ \A w \in Writers : ~Busy(w)
  /\ up' = TRUE
  /\ db' \in {EmptyDB} \cup (IF HasHeader(dump) THEN {Loaded(dump)} ELSE {})
  /\ UNCHANGED <<now, saves, job, dump, overlapped>>

Init ==
  /\ db = EmptyDB
  /\ now = 0
  /\ up = TRUE
  /\ saves = 0
  /\ job = [w \in Writers |-> Idle]
  /\ dump = <<>>
  /\ overlapped = FALSE

Next == \/ \E k \in Keys : Command(k)
        \/ SetUnparsable \/ Tick \/ Save \/ Kill \/ Restart
        \/ \E c \in Children : BgSave(c)
        \/ \E w \in Writers : WriteChunk(w) \/ SaveFails(w)

Spec == Init /\ [][Next]_vars

-----------------------------------------------------------------------------
(* A deadline belongs to a key that exists: wherever one map loses a key   *)
(* (DEL, lazy expiry, the purge of a save, a load cut short) so does the   *)
(* other.  A left-over deadline would expire a value set much later.       *)
TtlHasKey == DOMAIN db.ttl \subseteq DOMAIN db.cache

(* What a client can see of a key.                                         *)
Visible(k) == IF Absent(k) THEN {} ELSE {db.cache[k]}

(* A command, a save or the passing of time changes what is seen of one    *)
(* key only: all the others stay as they are until their own deadline, and *)
(* none comes back after it.                                               *)
OthersUntouched ==
  [][up /\ up' => \A k \in Keys :
       \/ Visible(k)' = Visible(k)
       \/ Visible(k)' = {} /\ expired(db, k, now')
       \/ Command(k)]_vars

(* However saves, children and kills follow each other, dump.rdb is the    *)
(* beginning of one snapshot, unless the save that last emptied it began   *)
(* while another was writing; the next save that begins alone makes it one *)
(* again.                                                                  *)
OfOneSave(file) ==
  \A i, j \in 1 .. Len(file) : file[i].of = file[j].of /\ (file[i].kind = "header" <=> i = 1)
OneMoment == ~overlapped => OfOneSave(dump)

(* dump.rdb is of one moment whenever it is loaded.  The code breaks this: *)
(* saves may overlap, and write over each other in one file.               *)
LoadsOneMoment == [][~up /\ up' => OfOneSave(dump)]_vars

Complete(file) == HasHeader(file) /\ Len(file) = file[1].size + 2

(* "Automatically loads from dump.rdb at startup (if present)": a complete *)
(* file is loaded.  The code breaks this: load() compares ten characters   *)
(* of which it has read nine.                                              *)
LoadsAtStartup == [][~up /\ up' /\ Complete(dump) => db' = Loaded(dump)]_vars

(* "Store the value at specified key": a value that SET has stored without *)
(* a deadline is there.  The code breaks this: the deadline of the value   *)
(* it replaces stays.                                                      *)
SetStores == [][\A k \in Keys, x \in Texts : Set(k, x) => Visible(k)' = {Variant(x)}]_vars
=============================================================================
