-------------------------- MODULE RedisCacheProofs --------------------------
(***************************************************************************)
(* The database of the Redis clone, for any keys, any clock, any number of *)
(* children and saves: the two maps stay in step, a command changes what   *)
(* is seen of one key only, and the file is the beginning of one snapshot  *)
(* unless the save that last emptied it overlapped another.                *)
(***************************************************************************)
EXTENDS RedisCache, FiniteSetTheorems, SequenceTheorems, WellFoundedInduction, TLAPS

(* A pair of finite maps: deadlines are numbers and belong to keys.        *)
Sound(d) == /\ d = [cache |-> d.cache, ttl |-> d.ttl]
            /\ DOMAIN d.ttl \subseteq DOMAIN d.cache
            /\ \A k \in DOMAIN d.ttl : d.ttl[k] \in Int
            /\ IsFiniteSet(DOMAIN d.cache)

-----------------------------------------------------------------------------
(* The operations of class Cache keep the two maps in step.                *)

LEMMA EmptySound == Sound(EmptyDB)
  BY FS_EmptySet DEF Sound, EmptyDB

(* The maps restricted to some of the keys.                                *)
LEMMA RestrictedSound ==
  ASSUME NEW d, Sound(d), NEW S, NEW T, S \subseteq DOMAIN d.cache, T = DOMAIN d.ttl \cap S,
         NEW e, e = [cache |-> [j \in S |-> d.cache[j]], ttl |-> [j \in T |-> d.ttl[j]]]
  PROVE  Sound(e)
<1>1. IsFiniteSet(S)
  BY FS_Subset DEF Sound
<1>2. DOMAIN e.cache = S /\ DOMAIN e.ttl = T /\ \A j \in T : e.ttl[j] = d.ttl[j]
  OBVIOUS
<1> QED
  BY <1>1, <1>2 DEF Sound

(* Dropping an expired key drops its deadline too.                         *)
LEMMA TouchSound ==
  ASSUME NEW d, NEW k, NEW t, Sound(d)
  PROVE  Sound(touch(d, k, t))
<1>1. Sound(erase(d, k))
  <2>1. DOMAIN d.ttl \ {k} = DOMAIN d.ttl \cap (DOMAIN d.cache \ {k})
    BY DEF Sound
  <2> QED
    BY <2>1, RestrictedSound DEF erase, Without
<1> QED
  BY <1>1 DEF touch

(* Setting a value leaves no deadline without a key.                       *)
LEMMA SetValueSound ==
  ASSUME NEW d, NEW k, NEW node, Sound(d)
  PROVE  /\ Sound(setValue(d, k, node))
         /\ k \in DOMAIN setValue(d, k, node).cache
<1>1. IsFiniteSet(DOMAIN d.cache \cup {k})
  BY FS_AddElement DEF Sound
<1> QED
  BY <1>1 DEF Sound, setValue, Put

(* A deadline is only set for a key that is there.                         *)
LEMMA SetTTLSound ==
  ASSUME NEW d, NEW k, NEW at \in Int, Sound(d), k \in DOMAIN d.cache
  PROVE  Sound(setTTL(d, k, at))
  BY DEF Sound, setTTL, Put

(* A purge removes keys from both maps.                                    *)
LEMMA PurgedSound ==
  ASSUME NEW d, NEW t, Sound(d)
  PROVE  Sound(purged(d, t))
  BY RestrictedSound DEF purged

-----------------------------------------------------------------------------
(* The commands: what each of them makes of the database is sound.         *)

LEMMA CommandSound ==
  ASSUME Sound(db), NEW k \in Keys, Command(k)
  PROVE  Sound(db')
<1>1. CASE \E x \in Texts : Set(k, x)
  BY <1>1, SetValueSound DEF Set, Becomes
<1>2. CASE \E x \in Texts, at \in Deadlines : SetUntil(k, x, at)
  <2>1. PICK x \in Texts, at \in Deadlines : SetUntil(k, x, at)
    BY <1>2
  <2>2. db' = setTTL(setValue(db, k, Variant(x)), k, at)
    BY <2>1 DEF SetUntil, Becomes
  <2>3. /\ Sound(setValue(db, k, Variant(x)))
        /\ k \in DOMAIN setValue(db, k, Variant(x)).cache
    BY SetValueSound
  <2>4. at \in Int
    BY RedisBounds DEF Deadlines
  <2> QED
    BY <2>2, <2>3, <2>4, SetTTLSound
<1>3. CASE \E ks \in SUBSET Keys : k \in ks /\ Del(ks)
  <2>1. PICK ks \in SUBSET Keys : Del(ks)
    BY <1>3
  <2> DEFINE gone == {j \in ks : exists(db, j)}
  <2>2. db' = [cache |-> [j \in DOMAIN db.cache \ gone |-> db.cache[j]],
               ttl   |-> [j \in DOMAIN db.ttl \ gone |-> db.ttl[j]]]
    BY <2>1 DEF Del, Becomes
  <2> HIDE DEF gone
  <2>3. DOMAIN db.ttl \ gone = DOMAIN db.ttl \cap (DOMAIN db.cache \ gone)
    BY DEF Sound
  <2> QED
    BY <2>2, <2>3, RestrictedSound
<1>4. CASE RangeBeyond(k)
  BY <1>4, EmptySound DEF RangeBeyond, Die
<1>5. CASE \E t \in now .. MaxTime : Get(k, t)
  BY <1>5, TouchSound DEF Get, Becomes
<1>6. CASE \E t \in now .. MaxTime : ReadList(k, t)
  BY <1>6, EmptySound DEF ReadList, Becomes, Die
<1>7. CASE \E t \in now .. MaxTime, n \in 1 .. MaxLen : Push(k, n, t)
  <2>1. PICK t \in now .. MaxTime, n \in 1 .. MaxLen : Push(k, n, t)
    BY <1>7
  <2> DEFINE new == IF Absent(k) THEN setValue(db, k, Aggregate(<<>>)) ELSE db
             list == new.cache[k].val
  <2>2. Sound(new)
    BY SetValueSound
  <2>3. \/ db' = EmptyDB \/ db' = db
        \/ db' = setValue(new, k, Aggregate(list \o [i \in 1 .. n |-> Word]))
    BY <2>1 DEF Push, Becomes, Die
  <2> HIDE DEF new, list
  <2> QED
    BY <2>2, <2>3, EmptySound, SetValueSound
<1>8. CASE \E t \in now .. MaxTime, by \in {-1, 1} : LAdd(k, by, t)
  <2>1. PICK t \in now .. MaxTime, by \in {-1, 1} : LAdd(k, by, t)
    BY <1>8
  <2>2. Sound(Incremented(k, by))
    BY SetValueSound DEF Incremented
  <2>3. db' = EmptyDB \/ db' = Incremented(k, by)
    BY <2>1 DEF LAdd, Becomes, Die
  <2> QED
    BY <2>2, <2>3, EmptySound
<1> QED
  BY <1>1, <1>2, <1>3, <1>4, <1>5, <1>6, <1>7, <1>8 DEF Command

-----------------------------------------------------------------------------
(* Chunks and files.                                                       *)

WellFormed(c) == /\ c.kind = "entry" => c.at \subseteq Int
                 /\ c.kind = "header" => c.size \in Nat

IsFile(s) == /\ Len(s) \in Nat
             /\ s = [i \in 1 .. Len(s) |-> s[i]]
             /\ \A i \in 1 .. Len(s) : WellFormed(s[i])

IsJob(j) == /\ j = [chunks |-> j.chunks, pos |-> j.pos]
            /\ IsFile(j.chunks) /\ Len(j.chunks) >= 1
            /\ j.pos \in Nat \ {0}

(* A function on 1 .. n is a list of length n.                             *)
LEMMA ListOfLength ==
  ASSUME NEW n \in Nat, NEW s, DOMAIN s = 1 .. n, s = [i \in 1 .. n |-> s[i]]
  PROVE  Len(s) = n
<1>1. s \in Seq({s[i] : i \in 1 .. n})
  BY SMT
<1> QED
  BY <1>1

(* An order of a finite set is a list of its elements.                     *)
LEMMA OrderIsList ==
  ASSUME NEW S, IsFiniteSet(S), NEW o \in SetToSeqs(S)
  PROVE  Len(o) \in Nat /\ \A i \in 1 .. Len(o) : o[i] \in S
<1>1. Cardinality(S) \in Nat
  BY FS_CardinalityType
<1>2. o \in [1 .. Cardinality(S) -> S]
  BY DEF SetToSeqs
<1>3. Len(o) = Cardinality(S)
  BY <1>1, <1>2, ListOfLength
<1> QED
  BY <1>1, <1>2, <1>3

(* A snapshot is a file: the header first and only there.                  *)
LEMMA SnapshotIsFile ==
  ASSUME NEW d, Sound(d), NEW n, NEW o \in SetToSeqs(DOMAIN d.cache)
  PROVE  /\ IsFile(Snapshot(d, n, o)) /\ Len(Snapshot(d, n, o)) >= 1
         /\ \A i \in 1 .. Len(Snapshot(d, n, o)) :
              /\ Snapshot(d, n, o)[i].of = n
              /\ Snapshot(d, n, o)[i].kind = "header" <=> i = 1
<1>1. PICK N \in Nat : N = Len(o)
  BY OrderIsList DEF Sound
<1>2. PICK E : E = [i \in 1 .. N |-> Entry(n, o[i], d)]
  OBVIOUS
<1>3. \A i \in 1 .. N : E[i].of = n /\ E[i].kind = "entry" /\ E[i].at \subseteq Int
  BY <1>1, <1>2, OrderIsList DEF Entry, Sound
<1>4. PICK T : T = {E[i] : i \in 1 .. N} \cup {Header(n, N), End(n)}
  OBVIOUS
<1>5. PICK h, e : h = <<Header(n, N)>> /\ e = <<End(n)>>
  OBVIOUS
<1>6. E \in Seq(T) /\ Len(E) = N
  BY <1>1, <1>2, <1>4, ListOfLength
<1>7. /\ h \in Seq(T) /\ Len(h) = 1 /\ h[1] = Header(n, N)
      /\ e \in Seq(T) /\ Len(e) = 1 /\ e[1] = End(n)
  BY <1>4, <1>5
<1>8. PICK s : s = Snapshot(d, n, o)
  OBVIOUS
<1>9. s = h \o E \o e
  BY <1>1, <1>2, <1>5, <1>8 DEF Snapshot
<1>10. /\ s \in Seq(T) /\ Len(s) = N + 2
       /\ s[1] = Header(n, N) /\ s[N + 2] = End(n)
       /\ \A i \in 2 .. N + 1 : s[i] = E[i - 1]
  <2> PICK m : m = h \o E
    OBVIOUS
  <2>1. /\ m \in Seq(T) /\ Len(m) = Len(h) + Len(E)
        /\ \A i \in 1 .. Len(h) + Len(E) : m[i] = IF i <= Len(h) THEN h[i] ELSE E[i - Len(h)]
    BY <1>6, <1>7, ConcatProperties
  <2>2. /\ s \in Seq(T) /\ Len(s) = Len(m) + Len(e)
        /\ \A i \in 1 .. Len(m) + Len(e) : s[i] = IF i <= Len(m) THEN m[i] ELSE e[i - Len(m)]
    BY <1>7, <1>9, <2>1, ConcatProperties
  <2>3. /\ Len(m) = N + 1 /\ Len(s) = N + 2
        /\ m[1] = h[1] /\ \A i \in 2 .. N + 1 : m[i] = E[i - 1]
    BY <1>6, <1>7, <2>1, <2>2
  <2>4. s[N + 2] = e[1] /\ \A i \in 1 .. N + 1 : s[i] = m[i]
    BY <1>7, <2>2, <2>3
  <2>5. s \in Seq(T)
    BY <2>2
  <2>6. 1 \in 1 .. N + 1 /\ \A i \in 2 .. N + 1 : i \in 1 .. N + 1
    OBVIOUS
  <2> QED
    BY <1>7, <2>3, <2>4, <2>5, <2>6
<1>11. s[1] = Header(n, N) /\ \A i \in 2 .. N + 2 : s[i] = End(n) \/ \E j \in 1 .. N : s[i] = E[j]
  <2> SUFFICES ASSUME NEW i \in 2 .. N + 2, i # N + 2
               PROVE  \E j \in 1 .. N : s[i] = E[j]
    BY <1>10
  <2>1. i - 1 \in 1 .. N /\ i \in 2 .. N + 1
    OBVIOUS
  <2> QED
    BY <1>10, <2>1
<1>12. WellFormed(Header(n, N)) /\ WellFormed(End(n)) /\ \A i \in 1 .. N : WellFormed(E[i])
  BY <1>3 DEF WellFormed, Header, End
<1>13. IsFile(s)
  BY <1>10, <1>11, <1>12 DEF IsFile
<1>14. \A i \in 1 .. N + 2 : s[i].of = n /\ (s[i].kind = "header" <=> i = 1)
  BY <1>3, <1>11 DEF Header, End
<1> QED
  BY <1>8, <1>10, <1>13, <1>14

(* A nonempty set of bounded numbers has a greatest element.               *)
LEMMA GreatestBelow ==
  ASSUME NEW n \in Nat, NEW S, S \subseteq 0 .. n, S # {}
  PROVE  \E i \in S : \A j \in S : j <= i
<1>1. PICK D : D = {n - i : i \in S}
  OBVIOUS
<1>2. D \subseteq Nat /\ D # {}
  <2>1. \A i \in 0 .. n : n - i \in Nat
    OBVIOUS
  <2> QED
    BY <1>1, <2>1
<1>3. PICK m \in D : \A x \in D : ~(<<x, m>> \in OpToRel(<, Nat))
  BY <1>2, WFMin, NatLessThanWellFounded, Zenon
<1>4. \A x \in D : ~(x < m)
  BY <1>2, <1>3 DEF OpToRel
<1>5. PICK i \in S : m = n - i
  BY <1>1, <1>3
<1>6. \A j \in S : n - j \in D
  BY <1>1
<1> QED
  BY <1>4, <1>5, <1>6

(* A load makes sense of any file: also of one that is cut short, or that  *)
(* two saves have written.                                                 *)
LEMMA LoadedSound ==
  ASSUME NEW file, IsFile(file), HasHeader(file)
  PROVE  Sound(Loaded(file))
<1> DEFINE size  == file[1].size
           whole == {i \in 2 .. size + 1 : \A j \in 2 .. i : j <= Len(file) /\ file[j].kind = "entry"}
           keys  == {file[i].key : i \in whole}
           dated(k) == {i \in whole : file[i].key = k /\ file[i].at # {}}
           dead  == {k \in keys : \E i \in whole : file[i].key = k /\ file[i].at # {}}
           lastAt(k) == CHOOSE i \in whole : /\ file[i].key = k /\ file[i].at # {}
                                             /\ \A j \in whole : file[j].key = k /\ file[j].at # {} => j <= i
<1>1. Len(file) \in Nat \ {0}
  <2>1. file = <<>> \/ Len(file) # 0
    BY DEF IsFile
  <2> QED
    BY <2>1 DEF IsFile, HasHeader
<1>2. size \in Nat
  BY <1>1 DEF IsFile, HasHeader, WellFormed
<1>3. IsFiniteSet(keys)
  <2>1. IsFiniteSet(whole)
    <3>1. IsFiniteSet(2 .. size + 1)
      BY <1>2, FS_Interval
    <3>2. whole \in SUBSET (2 .. size + 1)
      OBVIOUS
    <3> HIDE DEF whole
    <3> QED
      BY <3>1, <3>2, FS_Subset
  <2>2. PICK g : g = [i \in whole |-> file[i].key]
    OBVIOUS
  <2>3. g \in Surjection(whole, keys)
    BY <2>2 DEF Surjection
  <2> HIDE DEF whole, keys
  <2> QED
    BY <2>1, <2>3, FS_Surjection
<1>4. ASSUME NEW k \in dead
      PROVE  (CHOOSE t \in file[lastAt(k)].at : TRUE) \in Int
  <2>1. dated(k) # {} /\ dated(k) \subseteq 0 .. size + 1 /\ size + 1 \in Nat
    BY <1>2
  <2>2. \E i \in dated(k) : \A j \in dated(k) : j <= i
    BY <2>1, GreatestBelow
  <2>3. \E i \in whole : /\ file[i].key = k /\ file[i].at # {}
                         /\ \A j \in whole : file[j].key = k /\ file[j].at # {} => j <= i
    BY <2>2
  <2>4. lastAt(k) \in whole /\ file[lastAt(k)].at # {}
    BY <2>3
  <2>5. \A i \in whole : i \in 1 .. Len(file) /\ file[i].kind = "entry"
    BY <1>1, <1>2
  <2>6. file[lastAt(k)].at \subseteq Int
    BY <2>4, <2>5 DEF IsFile, WellFormed
  <2> QED
    BY <2>4, <2>6
<1>5. dead \subseteq keys
  OBVIOUS
<1> PICK L : L = Loaded(file)
  OBVIOUS
<1>6. /\ L = [cache |-> L.cache, ttl |-> L.ttl] /\ DOMAIN L.cache = keys /\ DOMAIN L.ttl = dead
      /\ \A k \in dead : L.ttl[k] = CHOOSE t \in file[lastAt(k)].at : TRUE
  BY DEF Loaded
<1> HIDE DEF keys, dead, lastAt
<1> QED
  BY <1>3, <1>4, <1>5, <1>6 DEF Sound

(* Writing past the end leaves holes, which are chunks too.                *)
LEMMA WrittenIsFile ==
  ASSUME NEW file, IsFile(file), NEW pos \in Nat \ {0}, NEW c, WellFormed(c)
  PROVE  IsFile(WriteAt(file, pos, c))
<1> PICK f : f = WriteAt(file, pos, c)
  OBVIOUS
<1>1. PICK n \in Nat : n = IF pos > Len(file) THEN pos ELSE Len(file)
  BY DEF IsFile
<1>2. /\ f = [i \in 1 .. n |-> f[i]] /\ f[pos] = c
      /\ \A i \in 1 .. n : i # pos => f[i] = IF i <= Len(file) THEN file[i] ELSE Hole
  BY <1>1 DEF WriteAt, IsFile
<1>3. Len(f) = n
  BY <1>2, ListOfLength
<1>4. WellFormed(Hole)
  BY DEF WellFormed, Hole
<1>5. \A i \in 1 .. n : WellFormed(f[i])
  BY <1>2, <1>4 DEF IsFile
<1> QED
  BY <1>2, <1>3, <1>5 DEF IsFile

-----------------------------------------------------------------------------
(* What holds of every state, whether saves overlap or not.                *)

Storage ==
  /\ Sound(db)
  /\ now \in Int
  /\ IsFile(dump)
  /\ job = [w \in Writers |-> job[w]]
  /\ \A w \in Writers : Busy(w) => IsJob(job[w])

(* The only job writes what is missing from the file.                      *)
InOrder ==
  /\ \A i \in 1 .. Len(dump) : dump[i].of = saves /\ (dump[i].kind = "header" <=> i = 1)
  /\ \A v, w \in Writers : Busy(v) /\ Busy(w) => v = w
  /\ \A w \in Writers : Busy(w) =>
       /\ job[w].pos = Len(dump) + 1
       /\ \A i \in 1 .. Len(job[w].chunks) :
            /\ job[w].chunks[i].of = saves
            /\ job[w].chunks[i].kind = "header" <=> Len(dump) + i = 1

(* A truncated file is a file.                                             *)
LEMMA EmptyFile == IsFile(<<>>) /\ Len(<<>>) = 0
  BY DEF IsFile

(* A save empties the file and prepares chunks of one moment, the header   *)
(* first.                                                                  *)
LEMMA BeginSaveFiles ==
  ASSUME Storage, NEW w \in Writers, NEW d, Sound(d), BeginSave(w, d)
  PROVE  /\ dump' = <<>>
         /\ \E j : /\ job' = [job EXCEPT ![w] = j] /\ IsJob(j) /\ j.pos = 1
                   /\ \A i \in 1 .. Len(j.chunks) : /\ j.chunks[i].of = saves'
                                                    /\ j.chunks[i].kind = "header" <=> i = 1
<1>1. dump' = <<>>
  BY DEF BeginSave, Emptied
<1>2. PICK o \in SetToSeqs(DOMAIN d.cache) :
         job' = [job EXCEPT ![w] = [chunks |-> Snapshot(d, saves', o), pos |-> Len(dump') + 1]]
  BY DEF BeginSave
<1>3. PICK c : c = Snapshot(d, saves', o)
  OBVIOUS
<1>4. PICK j : j = [chunks |-> c, pos |-> 1]
  OBVIOUS
<1>5. /\ IsFile(c) /\ Len(c) >= 1
      /\ \A i \in 1 .. Len(c) : c[i].of = saves' /\ (c[i].kind = "header" <=> i = 1)
  BY <1>3, SnapshotIsFile
<1>6. job' = [job EXCEPT ![w] = j]
  BY <1>1, <1>2, <1>3, <1>4, EmptyFile
<1>7. IsJob(j) /\ j.pos = 1 /\ j.chunks = c
  BY <1>4, <1>5 DEF IsJob
<1> QED
  BY <1>1, <1>5, <1>6, <1>7

(* One chunk goes to its place in the file and the job has one less.       *)
LEMMA WriteChunkFiles ==
  ASSUME Storage, NEW w \in Writers, WriteChunk(w)
  PROVE  /\ IsJob(job[w])
         /\ dump' = WriteAt(dump, job[w].pos, job[w].chunks[1]) /\ IsFile(dump')
         /\ \E j : /\ job' = [job EXCEPT ![w] = j]
                   /\ \/ j = Idle
                      \/ /\ IsJob(j) /\ j.pos = job[w].pos + 1
                         /\ Len(j.chunks) = Len(job[w].chunks) - 1
                         /\ \A i \in 1 .. Len(j.chunks) : j.chunks[i] = job[w].chunks[i + 1]
<1>1. IsJob(job[w])
  BY DEF Storage, WriteChunk
<1>2. PICK c, p : job[w] = [chunks |-> c, pos |-> p]
  BY <1>1 DEF IsJob
<1>3. IsFile(c) /\ Len(c) >= 1 /\ p \in Nat \ {0} /\ job[w].chunks = c /\ job[w].pos = p
  BY <1>1, <1>2 DEF IsJob
<1>4. PICK S : S = {c[i] : i \in 1 .. Len(c)}
  OBVIOUS
<1>5. c \in Seq(S) /\ c # <<>>
  BY <1>3, <1>4, EmptyFile DEF IsFile
<1>6. PICK t : t = Tail(c)
  OBVIOUS
<1>7. /\ Head(c) = c[1] /\ t \in Seq(S) /\ Len(t) = Len(c) - 1
      /\ \A i \in 1 .. Len(t) : t[i] = c[i + 1]
  BY <1>5, <1>6
<1>8. dump' = WriteAt(dump, p, c[1])
  BY <1>3, <1>7 DEF WriteChunk
<1>9. IsFile(dump')
  <2>1. WellFormed(c[1])
    BY <1>3 DEF IsFile
  <2> QED
    BY <1>3, <1>8, <2>1, WrittenIsFile DEF Storage
<1>10. PICK j : j = IF Len(c) = 1 THEN Idle ELSE [chunks |-> t, pos |-> p + 1]
  OBVIOUS
<1>11. job' = [job EXCEPT ![w] = j]
  BY <1>3, <1>6, <1>10 DEF WriteChunk, Storage
<1>12. IsFile(t)
  BY <1>3, <1>7 DEF IsFile
<1>13. \/ j = Idle
       \/ IsJob(j) /\ j.pos = p + 1 /\ j.chunks = t
  BY <1>3, <1>5, <1>7, <1>10, <1>12 DEF IsJob
<1>14. \/ j = Idle
       \/ /\ IsJob(j) /\ j.pos = p + 1
          /\ Len(j.chunks) = Len(c) - 1
          /\ \A i \in 1 .. Len(j.chunks) : j.chunks[i] = c[i + 1]
  BY <1>7, <1>13
<1> QED
  BY <1>1, <1>3, <1>8, <1>9, <1>11, <1>14

(* What the database e holds for a key is what d holds.                    *)
Kept(d, e, j) ==
  /\ j \in DOMAIN e.cache <=> j \in DOMAIN d.cache
  /\ j \in DOMAIN d.cache => e.cache[j] = d.cache[j]
  /\ j \in DOMAIN e.ttl <=> j \in DOMAIN d.ttl
  /\ j \in DOMAIN d.ttl => e.ttl[j] = d.ttl[j]

(* Setting the value of one key keeps the others.                          *)
LEMMA SetValueKeeps ==
  ASSUME NEW d, Sound(d), NEW k, NEW node, NEW j, j # k
  PROVE  Kept(d, setValue(d, k, node), j)
  BY DEF Sound, Kept, setValue, Put

(* Setting the deadline of one key keeps the others.                       *)
LEMMA SetTTLKeeps ==
  ASSUME NEW d, Sound(d), NEW k, NEW at, NEW j, j # k
  PROVE  Kept(d, setTTL(d, k, at), j)
  BY DEF Sound, Kept, setTTL, Put

(* Dropping one expired key keeps the others.                              *)
LEMMA TouchKeeps ==
  ASSUME NEW d, Sound(d), NEW k, NEW t, NEW j, j # k
  PROVE  Kept(d, touch(d, k, t), j)
  BY DEF Sound, Kept, touch, erase, Without

(* Doing nothing keeps every key.                                          *)
LEMMA KeptSelf == \A d, j : Kept(d, d, j)
  BY DEF Kept

(* What keeps a key, done twice, keeps it.                                 *)
LEMMA KeptTwice ==
  ASSUME NEW d, NEW e, NEW f, NEW j, Kept(d, e, j), Kept(e, f, j)
  PROVE  Kept(d, f, j)
  BY DEF Kept

(* A command writes no file, and if the server survives it, it leaves the  *)
(* keys that it does not name as they are.                                 *)
LEMMA CommandEffect ==
  ASSUME Storage, NEW k \in Keys, Command(k)
  PROVE  /\ now' \in Int /\ now <= now'
         /\ saves' = saves /\ dump' = dump /\ overlapped' = overlapped
         /\ job' = job \/ job' = [job EXCEPT !["server"] = Idle]
         /\ up' => \A j \in Keys : Command(j) \/ Kept(db, db', j)
<1> DEFINE Others == \A j \in Keys : j = k \/ Kept(db, db', j)
           Frame == /\ now' \in Int /\ now <= now'
                    /\ saves' = saves /\ dump' = dump /\ overlapped' = overlapped
                    /\ job' = job \/ job' = [job EXCEPT !["server"] = Idle]
<1>1. now \in Int /\ Sound(db) /\ MaxTime \in Int
  BY RedisBounds DEF Storage
<1>2. CASE \E x \in Texts : Set(k, x)
  <2>1. Frame
    BY <1>1, <1>2 DEF Set, Becomes
  <2>2. Others
    BY <1>1, <1>2, SetValueKeeps DEF Set, Becomes
  <2> QED
    BY <2>1, <2>2
<1>3. CASE \E x \in Texts, at \in Deadlines : SetUntil(k, x, at)
  <2>1. PICK x \in Texts, at \in Deadlines : SetUntil(k, x, at)
    BY <1>3
  <2>2. Frame
    BY <1>1, <2>1 DEF SetUntil, Becomes
  <2>3. PICK e : e = setValue(db, k, Variant(x))
    OBVIOUS
  <2>4. Sound(e) /\ \A j \in Keys : j = k \/ Kept(db, e, j)
    BY <1>1, <2>3, SetValueSound, SetValueKeeps
  <2>5. db' = setTTL(e, k, at)
    BY <2>1, <2>3 DEF SetUntil, Becomes
  <2>6. \A j \in Keys : j = k \/ Kept(e, db', j)
    BY <2>4, <2>5, SetTTLKeeps
  <2>7. Others
    BY <2>4, <2>6, KeptTwice
  <2> QED
    BY <2>2, <2>7
<1>4. CASE \E ks \in SUBSET Keys : k \in ks /\ Del(ks)
  <2>1. PICK ks \in SUBSET Keys : Del(ks)
    BY <1>4
  <2>2. Frame
    BY <1>1, <2>1 DEF Del, Becomes
  <2>3. \A j \in Keys : j \in ks => Command(j)
    BY <2>1 DEF Command
  <2>4. \A j \in Keys : j \notin ks => Kept(db, db', j)
    BY <2>1 DEF Del, Becomes, Kept, exists
  <2> QED
    BY <2>2, <2>3, <2>4
<1>5. CASE RangeBeyond(k)
  BY <1>1, <1>5 DEF RangeBeyond, Die
<1>6. CASE \E t \in now .. MaxTime : Get(k, t)
  <2>1. Frame
    BY <1>1, <1>6 DEF Get, Becomes, Later
  <2>2. Others
    BY <1>1, <1>6, TouchKeeps DEF Get, Becomes
  <2> QED
    BY <2>1, <2>2
<1>7. CASE \E t \in now .. MaxTime : ReadList(k, t)
  <2>1. Frame
    BY <1>1, <1>7 DEF ReadList, Becomes, Later, Die
  <2>2. up' => Others
    BY <1>7, KeptSelf DEF ReadList, Becomes, Die
  <2> QED
    BY <2>1, <2>2
<1>8. CASE \E t \in now .. MaxTime, n \in 1 .. MaxLen : Push(k, n, t)
  <2>1. PICK t \in now .. MaxTime, n \in 1 .. MaxLen : Push(k, n, t)
    BY <1>8
  <2>2. Frame
    BY <1>1, <2>1 DEF Push, Becomes, Later, Die
  <2>3. PICK new : new = IF Absent(k) THEN setValue(db, k, Aggregate(<<>>)) ELSE db
    OBVIOUS
  <2>4. Sound(new) /\ \A j \in Keys : j = k \/ Kept(db, new, j)
    BY <1>1, <2>3, SetValueSound, SetValueKeeps, KeptSelf
  <2>5. \/ ~up' \/ db' = db
        \/ \E node : db' = setValue(new, k, node)
    BY <2>1, <2>3 DEF Push, Becomes, Die
  <2>6. up' => Others
    BY <2>4, <2>5, SetValueKeeps, KeptSelf, KeptTwice
  <2> QED
    BY <2>2, <2>6
<1>9. CASE \E t \in now .. MaxTime, by \in {-1, 1} : LAdd(k, by, t)
  <2>1. PICK t \in now .. MaxTime, by \in {-1, 1} : LAdd(k, by, t)
    BY <1>9
  <2>2. Frame
    BY <1>1, <2>1 DEF LAdd, Becomes, Later, Die
  <2>3. \/ ~up' \/ db' = db
        \/ \E node : db' = setValue(db, k, node)
    BY <2>1 DEF LAdd, Becomes, Die, Incremented
  <2>4. up' => Others
    BY <1>1, <2>3, SetValueKeeps, KeptSelf
  <2> QED
    BY <2>2, <2>4
<1> QED
  BY <1>2, <1>3, <1>4, <1>5, <1>6, <1>7, <1>8, <1>9 DEF Command

(* Every action preserves Storage.                                         *)
LEMMA StorageStep == Storage /\ [Next]_vars => Storage'
<1> SUFFICES ASSUME Storage, [Next]_vars PROVE Storage'
  OBVIOUS
<1> USE DEF Storage
<1>1. ASSUME Sound(db'), now' \in Int, UNCHANGED dump,
             job' = job \/ job' = [job EXCEPT !["server"] = Idle]
      PROVE  Storage'
  BY <1>1 DEF Busy, Writers
<1>2. ASSUME Sound(db'), now' \in Int, IsFile(dump'),
             NEW w \in Writers, NEW j, IsJob(j) \/ j = Idle, job' = [job EXCEPT ![w] = j]
      PROVE  Storage'
  BY <1>2 DEF Busy
<1>3. CASE \E k \in Keys : Command(k)
  <2>1. PICK k \in Keys : Command(k)
    BY <1>3
  <2> QED
    BY <1>1, <2>1, CommandEffect, CommandSound
<1>4. CASE SetUnparsable \/ Kill
  BY <1>1, <1>4, EmptySound DEF SetUnparsable, Kill, Die
<1>5. CASE Tick \/ UNCHANGED vars
  BY <1>1, <1>5 DEF Tick, vars
<1>6. CASE Save
  <2>1. Sound(db') /\ now' \in Int /\ BeginSave("server", db') /\ "server" \in Writers
    BY <1>6, PurgedSound DEF Save, Writers
  <2> QED
    BY <1>2, <2>1, BeginSaveFiles, EmptyFile
<1>7. CASE \E c \in Children : BgSave(c)
  <2>1. PICK c \in Writers : /\ Sound(db') /\ now' \in Int /\ BeginSave(c, purged(db, now))
                             /\ Sound(purged(db, now))
    BY <1>7, PurgedSound DEF BgSave, Writers
  <2> QED
    BY <1>2, <2>1, BeginSaveFiles, EmptyFile
<1>8. CASE \E w \in Writers : WriteChunk(w)
  <2>1. PICK w \in Writers : WriteChunk(w)
    BY <1>8
  <2>2. Sound(db') /\ now' \in Int
    BY <2>1 DEF WriteChunk
  <2> QED
    BY <1>2, <2>1, <2>2, WriteChunkFiles
<1>9. CASE \E w \in Writers : SaveFails(w)
  BY <1>2, <1>9 DEF SaveFails
<1>10. CASE Restart
  <2>1. Sound(db')
    BY <1>10, EmptySound, LoadedSound DEF Restart
  <2> QED
    BY <1>1, <1>10, <2>1 DEF Restart
<1> QED
  BY <1>3, <1>4, <1>5, <1>6, <1>7, <1>8, <1>9, <1>10 DEF Next

(* Storage holds always.                                                   *)
LEMMA StorageAlways == Spec => []Storage
<1>1. Init => Storage
  BY EmptySound, EmptyFile DEF Init, Storage, Busy
<1> QED
  BY <1>1, StorageStep, PTL DEF Spec

(* A deadline always belongs to a key that exists: commands, the purge of  *)
(* a save and loads, of a dump in whatever state they find it, keep the    *)
(* two maps in step.                                                       *)
THEOREM DeadlinesHaveKeys == Spec => []TtlHasKey
<1>1. Storage => TtlHasKey
  BY DEF Storage, Sound, TtlHasKey
<1> QED
  BY <1>1, StorageAlways, PTL

-----------------------------------------------------------------------------
(* What a step changes of what is seen.                                    *)

Untouched(k) ==
  \/ Visible(k)' = Visible(k)
  \/ Visible(k)' = {} /\ expired(db, k, now')
  \/ Command(k)

(* A key whose entries stay is seen until its deadline passes.             *)
LEMMA KeptUntouched ==
  ASSUME Storage, NEW k, Kept(db, db', k), now' \in Int, now <= now'
  PROVE  Untouched(k)
<1>1. /\ k \in DOMAIN db'.cache <=> k \in DOMAIN db.cache
      /\ k \in DOMAIN db.cache => db'.cache[k] = db.cache[k]
      /\ expired(db', k, now') <=> expired(db, k, now')
  BY DEF Kept, expired
<1>2. expired(db, k, now) => expired(db, k, now')
  BY DEF expired, Storage, Sound
<1>3. Visible(k)' = IF k \notin DOMAIN db'.cache \/ expired(db', k, now') THEN {} ELSE {db'.cache[k]}
  BY DEF Visible, Absent, exists, expired
<1>4. Visible(k) = IF k \notin DOMAIN db.cache \/ expired(db, k, now) THEN {} ELSE {db.cache[k]}
  BY DEF Visible, Absent, exists
<1> QED
  BY <1>1, <1>2, <1>3, <1>4 DEF Untouched

(* A save removes what cannot be seen any more.                            *)
LEMMA PurgeUntouched ==
  ASSUME Storage, NEW k, db' = purged(db, now), now' = now
  PROVE  Untouched(k)
<1>1. CASE Absent(k)
  <2>1. k \notin DOMAIN db'.cache
    BY <1>1 DEF Absent, exists, purged
  <2> QED
    BY <1>1, <2>1 DEF Untouched, Visible, Absent, exists
<1>2. CASE ~Absent(k)
  <2>1. Kept(db, db', k)
    BY <1>2 DEF Absent, exists, purged, Kept
  <2> QED
    BY <2>1, KeptUntouched DEF Storage
<1> QED
  BY <1>1, <1>2

(* Whatever the server does, between a start and its end, changes what is  *)
(* seen of one key only; the others stay until their own deadline.         *)
THEOREM OneKeyAtATime == Spec => OthersUntouched
<1>1. ASSUME Storage, [Next]_vars, up, up', NEW k \in Keys
      PROVE  Untouched(k)
  <2>1. now \in Int
    BY <1>1 DEF Storage
  <2>2. CASE \E j \in Keys : Command(j)
    <3>1. PICK j \in Keys : Command(j)
      BY <2>2
    <3>2. now' \in Int /\ now <= now' /\ (Command(k) \/ Kept(db, db', k))
      BY <1>1, <3>1, CommandEffect
    <3> QED
      BY <1>1, <3>2, KeptUntouched DEF Untouched
  <2>3. CASE SetUnparsable \/ Kill \/ Restart
    BY <1>1, <2>3 DEF SetUnparsable, Kill, Restart, Die
  <2>4. CASE Save
    BY <1>1, <2>4, PurgeUntouched DEF Save
  <2>5. CASE Tick \/ (\E c \in Children : BgSave(c)) \/ UNCHANGED vars
             \/ \E w \in Writers : WriteChunk(w) \/ SaveFails(w)
    <3>1. db' = db /\ (now' = now \/ now' = now + 1)
      BY <2>5 DEF Tick, BgSave, vars, WriteChunk, SaveFails
    <3>2. now' \in Int /\ now <= now' /\ Kept(db, db', k)
      BY <2>1, <3>1, KeptSelf
    <3> QED
      BY <1>1, <3>2, KeptUntouched
  <2> QED
    BY <1>1, <2>2, <2>3, <2>4, <2>5 DEF Next
<1>2. Storage /\ [Next]_vars =>
        [up /\ up' => \A k \in Keys :
            \/ Visible(k)' = Visible(k)
            \/ Visible(k)' = {} /\ expired(db, k, now')
            \/ Command(k)]_vars
  BY <1>1 DEF Untouched
<1> QED
  BY <1>2, StorageAlways, PTL DEF Spec, OthersUntouched

-----------------------------------------------------------------------------
(* The file.                                                               *)

LEMMA BeginSaveInOrder ==
  ASSUME Storage, NEW w \in Writers, NEW d, Sound(d), BeginSave(w, d), ~overlapped'
  PROVE  InOrder'
<1>1. PICK j : /\ job' = [job EXCEPT ![w] = j] /\ IsJob(j) /\ j.pos = 1
               /\ \A i \in 1 .. Len(j.chunks) : /\ j.chunks[i].of = saves'
                                                /\ j.chunks[i].kind = "header" <=> i = 1
  BY BeginSaveFiles
<1>2. Len(dump') = 0
  BY BeginSaveFiles, EmptyFile
<1>3. \A v \in Writers : job[v] = Idle
  BY DEF BeginSave, Busy
<1>4. \A v \in Writers : Busy(v)' => v = w /\ job'[v] = j
  BY <1>1, <1>3 DEF Busy, Storage
<1>5. Len(j.chunks) \in Nat
  BY <1>1 DEF IsJob, IsFile
<1>6. /\ j.pos = Len(dump') + 1
      /\ \A i \in 1 .. Len(j.chunks) :
           j.chunks[i].of = saves' /\ (j.chunks[i].kind = "header" <=> Len(dump') + i = 1)
  <2>1. \A i \in 1 .. Len(j.chunks) : Len(dump') + i = 1 <=> i = 1
    BY <1>2, <1>5
  <2>2. j.pos = 1 /\ 0 + 1 = 1
    BY <1>1
  <2>3. j.pos = Len(dump') + 1
    BY <1>2, <2>2
  <2>4. \A i \in 1 .. Len(j.chunks) : j.chunks[i].of = saves' /\ (j.chunks[i].kind = "header" <=> i = 1)
    BY <1>1
  <2> QED
    BY <2>1, <2>3, <2>4
<1>7. \A i \in 1 .. Len(dump') : FALSE
  BY <1>2
<1> QED
  BY <1>4, <1>6, <1>7 DEF InOrder

(* With one writer the next chunk goes right behind the last one.          *)
LEMMA WriteChunkInOrder ==
  ASSUME Storage, InOrder, NEW w \in Writers, WriteChunk(w)
  PROVE  InOrder'
<1>1. IsJob(job[w]) /\ dump' = WriteAt(dump, job[w].pos, job[w].chunks[1]) /\ saves' = saves
  BY WriteChunkFiles DEF WriteChunk
<1>2. PICK j : /\ job' = [job EXCEPT ![w] = j]
               /\ \/ j = Idle
                  \/ /\ IsJob(j) /\ j.pos = job[w].pos + 1
                     /\ Len(j.chunks) = Len(job[w].chunks) - 1
                     /\ \A i \in 1 .. Len(j.chunks) : j.chunks[i] = job[w].chunks[i + 1]
  BY WriteChunkFiles
<1>3. PICK c : c = job[w].chunks
  OBVIOUS
<1>4. PICK n \in Nat, m \in Nat \ {0} : n = Len(dump) /\ m = Len(c)
  BY <1>1, <1>3 DEF Storage, IsJob, IsFile
<1>5. /\ job[w].pos = n + 1 /\ WellFormed(c[1])
      /\ \A i \in 1 .. m : c[i].of = saves /\ (c[i].kind = "header" <=> n + i = 1)
  BY <1>1, <1>3, <1>4 DEF InOrder, IsJob, IsFile, WriteChunk
<1>6. Len(dump') = n + 1 /\ dump'[n + 1] = c[1] /\ \A i \in 1 .. n : dump'[i] = dump[i]
  <2>1. dump' = WriteAt(dump, n + 1, c[1])
    BY <1>1, <1>3, <1>5
  <2>2. dump' = [i \in 1 .. n + 1 |-> IF i = n + 1 THEN c[1] ELSE IF i <= n THEN dump[i] ELSE Hole]
    BY <1>4, <2>1 DEF WriteAt
  <2>3. Len(dump') = n + 1
    BY <2>2, ListOfLength
  <2> QED
    BY <2>2, <2>3
<1>7. \A i \in 1 .. Len(dump') : dump'[i].of = saves /\ (dump'[i].kind = "header" <=> i = 1)
  <2>1. \A i \in 1 .. n : dump[i].of = saves /\ (dump[i].kind = "header" <=> i = 1)
    BY <1>4 DEF InOrder
  <2>2. c[1].of = saves /\ (c[1].kind = "header" <=> n + 1 = 1)
    BY <1>5
  <2>3. \A i \in 1 .. n + 1 : i = n + 1 \/ i \in 1 .. n
    OBVIOUS
  <2> QED
    BY <1>6, <2>1, <2>2, <2>3
<1>8. \A v \in Writers : Busy(v)' => v = w /\ job'[v] = j /\ j # Idle
  BY <1>2 DEF Storage, InOrder, Busy, WriteChunk
<1>9. ASSUME j # Idle
      PROVE  /\ j.pos = Len(dump') + 1
             /\ \A i \in 1 .. Len(j.chunks) :
                  j.chunks[i].of = saves /\ (j.chunks[i].kind = "header" <=> Len(dump') + i = 1)
  <2>1. j.pos = n + 1 + 1 /\ Len(j.chunks) = m - 1 /\ \A i \in 1 .. m - 1 : j.chunks[i] = c[i + 1]
    BY <1>2, <1>3, <1>4, <1>5, <1>9
  <2>2. \A i \in 1 .. m - 1 : i + 1 \in 1 .. m /\ n + (i + 1) = n + 1 + i
    OBVIOUS
  <2>3. \A i \in 1 .. m - 1 : j.chunks[i].of = saves /\ (j.chunks[i].kind = "header" <=> n + 1 + i = 1)
    <3> TAKE i \in 1 .. m - 1
    <3>1. j.chunks[i] = c[i + 1] /\ i + 1 \in 1 .. m
      BY <2>1, <2>2
    <3>2. c[i + 1].of = saves /\ (c[i + 1].kind = "header" <=> n + (i + 1) = 1)
      BY <1>5, <3>1
    <3> QED
      BY <2>2, <3>1, <3>2
  <2> QED
    BY <1>6, <2>1, <2>3
<1> QED
  BY <1>1, <1>7, <1>8, <1>9 DEF InOrder

(* Every action preserves it, a save that begins alone establishes it.     *)
LEMMA InOrderStep ==
  ASSUME Storage, ~overlapped => InOrder, [Next]_vars, ~overlapped'
  PROVE  InOrder'
<1>1. ASSUME saves' = saves, dump' = dump, overlapped' = overlapped, NEW w \in Writers,
             job' = job \/ job' = [job EXCEPT ![w] = Idle]
      PROVE  InOrder'
  BY <1>1 DEF Storage, InOrder, Busy
<1>2. "server" \in Writers
  BY DEF Writers
<1>3. CASE \E k \in Keys : Command(k)
  BY <1>1, <1>2, <1>3, CommandEffect
<1>4. CASE SetUnparsable \/ Kill \/ Restart \/ Tick \/ UNCHANGED vars
  BY <1>1, <1>2, <1>4 DEF SetUnparsable, Kill, Restart, Tick, Die, vars
<1>5. CASE Save
  <2>1. Sound(db') /\ BeginSave("server", db')
    BY <1>5, PurgedSound DEF Save, Storage
  <2> QED
    BY <1>2, <2>1, BeginSaveInOrder
<1>6. CASE \E c \in Children : BgSave(c)
  <2>1. PICK c \in Writers : BeginSave(c, purged(db, now))
    BY <1>6 DEF BgSave, Writers
  <2>2. Sound(purged(db, now))
    BY PurgedSound DEF Storage
  <2> QED
    BY <2>1, <2>2, BeginSaveInOrder
<1>7. CASE \E w \in Writers : WriteChunk(w)
  <2>1. PICK w \in Writers : WriteChunk(w)
    BY <1>7
  <2>2. InOrder
    BY <2>1 DEF WriteChunk
  <2> QED
    BY <2>1, <2>2, WriteChunkInOrder
<1>8. CASE \E w \in Writers : SaveFails(w)
  BY <1>1, <1>8 DEF SaveFails
<1> QED
  BY <1>3, <1>4, <1>5, <1>6, <1>7, <1>8 DEF Next

(* However saves, children, failing writes and kills follow each other,    *)
(* overlapping or not, dump.rdb is the beginning of one snapshot unless    *)
(* the save that last emptied it began while another was writing.          *)
THEOREM FileIsOneMoment == Spec => []OneMoment
<1>1. Init => (~overlapped => InOrder)
  BY EmptyFile DEF Init, InOrder, Busy
<1>2. (~overlapped => InOrder) => OneMoment
  BY DEF InOrder, OneMoment, OfOneSave
<1>3. Storage /\ (~overlapped => InOrder) /\ [Next]_vars => (~overlapped => InOrder)'
  BY InOrderStep
<1> QED
  BY <1>1, <1>2, <1>3, StorageAlways, PTL DEF Spec
=============================================================================
