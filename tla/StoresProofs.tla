---------------------------- MODULE StoresProofs ----------------------------
(***************************************************************************)
(* Proofs about the two stores on disk, each for any constants.            *)
(*                                                                         *)
(* Bitcask: the store implements KeyValueStore, whatever happens, and the  *)
(* places kept in the index lead to entries of their keys unless a merged  *)
(* store is killed or merged again.                                        *)
(*                                                                         *)
(* GitRepository: everything that is referred to is stored, no commit is   *)
(* lost, and a clean status means that HEAD has the files.                 *)
(***************************************************************************)
EXTENDS Bitcask, GitRepository, FiniteSetTheorems, SequenceTheorems, WellFoundedInduction, TLAPS

(* What the properties need of the events.  An index is exact unless a     *)
(* store that has been merged is killed, or merged again, and restarted.   *)
IndexEvents == "any" \in Happens => "remerge" \notin Happens /\ ~({"merge", "crash"} \subseteq Happens)

-----------------------------------------------------------------------------
(* The invariants.                                                         *)

Entries ==
  {e \in [key : Keys \cup {none}, val : Values \cup {none, "garbage"}, tstamp : Nat] :
     e.key = none => e.val = none}
Places == [id : Nat, vpos : Nat, tstamp : Nat]

IsFiles(f) ==
  /\ f = [id \in DOMAIN f |-> f[id]] /\ DOMAIN f \subseteq Nat /\ IsFiniteSet(DOMAIN f)
  /\ \A id \in DOMAIN f : f[id] \in Seq(Entries)
IsDir(d) ==
  /\ d = [k \in DOMAIN d |-> d[k]] /\ DOMAIN d \subseteq Keys /\ IsFiniteSet(DOMAIN d)
  /\ \A k \in DOMAIN d : d[k] \in Places

Types ==
  /\ IsFiles(log) /\ IsFiles(merged)
  /\ IsDir(keyDir) /\ IsDir(hint.dir)
  /\ hint = [state |-> hint.state, dir |-> hint.dir] /\ hint.state \in {"none", "opened", "written"}
  /\ currId \in Nat /\ buffered \in Int /\ renamed \in Nat
  /\ stage \in {"idle", "hint", "rename"} /\ up \in BOOLEAN
  /\ may = [k \in Keys |-> may[k]]

Unmerged == stage = "idle" /\ hint.state = "none"

(* While a merge is on its way the index knows the merged files only.      *)
Merging ==
  /\ stage # "idle" => up /\ \A k \in DOMAIN keyDir : keyDir[k].id <= currId
  /\ stage = "hint" => renamed = 0
  /\ stage = "rename" => hint.state # "none"

Stopped == ~up => stage = "idle" /\ buffered = 0

InBuffer == Unmerged => buffered \in 0 .. Len(Contents(log, currId))

(* What holds whatever happens.                                            *)
BaseInv == Types /\ Merging /\ Stopped /\ InBuffer

(* What is read at a place of a file as a value of k.                      *)
At(file, vpos, k) == IF vpos \in DOMAIN file /\ file[vpos].key = k THEN file[vpos].val ELSE "garbage"

(* Every place of the index leads to a value of its key, in an index that  *)
(* may be read back as well, and bytes misread have not been copied.       *)
Exact == up => \A k \in DOMAIN keyDir : Read(k) \in Values

HintExact ==
  "any" \in Happens /\ hint.state = "written" =>
     /\ stage = "idle"
     /\ \A k \in DOMAIN hint.dir : At(Contents(log, hint.dir[k].id), hint.dir[k].vpos, k) \in Values

PureFile(file) == \A i \in 1 .. Len(file) : file[i].val # "garbage"
Pure(files) == \A id : PureFile(Contents(files, id))

(* No merge is cut short and then read back.                               *)
Spared ==
  /\ stage = "idle" => hint.state # "opened"
  /\ "merge" \notin Happens => Unmerged
  /\ ~up /\ hint.state # "none" => "any" \in Happens

IndexInv == BaseInv /\ Exact /\ HintExact /\ Pure(log) /\ Pure(merged) /\ Spared

-----------------------------------------------------------------------------
(* Counting up to a number, as a fact about a set.                         *)
LEMMA CountingUp ==
  ASSUME NEW n \in Nat, NEW S, 0 \in S, \A i \in 0 .. n - 1 : i \in S => i + 1 \in S
  PROVE  \A i \in 0 .. n : i \in S
<1> SUFFICES ASSUME NEW i \in 0 .. n, i \notin S PROVE FALSE
  OBVIOUS
<1>1. PICK D : D = {j \in 0 .. n : j \notin S}
  OBVIOUS
<1>2. D \subseteq Nat /\ D # {}
  BY <1>1
<1>3. PICK m \in D : \A x \in D : ~(<<x, m>> \in OpToRel(<, Nat))
  BY <1>2, WFMin, NatLessThanWellFounded, Zenon
<1>4. \A x \in D : ~(x < m)
  BY <1>2, <1>3 DEF OpToRel
<1>5. m \in 0 .. n /\ m \notin S /\ m # 0
  BY <1>1, <1>3
<1>6. m - 1 \in 0 .. n - 1 /\ m - 1 < m /\ (m - 1) + 1 = m
  BY <1>5
<1>7. m - 1 \in S
  BY <1>1, <1>4, <1>5, <1>6
<1> QED
  BY <1>5, <1>6, <1>7

(* The orders in which all of a finite set can be listed.                  *)
LEMMA OrderFacts ==
  ASSUME NEW S, IsFiniteSet(S), NEW o \in SetToSeqs(S)
  PROVE  /\ Len(o) \in Nat /\ o \in Seq(S)
         /\ \A i \in 1 .. Len(o) : o[i] \in S
         /\ \A x \in S : \E i \in 1 .. Len(o) : o[i] = x
         /\ \A i, j \in 1 .. Len(o) : i # j => o[i] # o[j]
<1>1. PICK n \in Nat : n = Cardinality(S)
  BY FS_CardinalityType
<1>2. o \in [1 .. n -> S] /\ \A i, j \in 1 .. n : i # j => o[i] # o[j]
  BY <1>1 DEF SetToSeqs
<1>3. o \in Seq(S) /\ Len(o) = n
  BY <1>1, <1>2
<1>4. o \in Injection(1 .. n, S)
  BY <1>2 DEF Injection, IsInjective
<1>5. Cardinality(1 .. n) = n
  BY FS_Interval, <1>1
<1>6. o \in Surjection(1 .. n, S)
  BY <1>1, <1>4, <1>5, FS_Injection
<1>7. \A x \in S : \E i \in 1 .. n : o[i] = x
  BY <1>6 DEF Surjection
<1> QED
  BY <1>2, <1>3, <1>7

-----------------------------------------------------------------------------
(* Files and indexes.                                                      *)

LEMMA EmptyFacts == IsFiles(Empty) /\ IsDir(Empty) /\ DOMAIN Empty = {}
  BY FS_EmptySet DEF IsFiles, IsDir, Empty

LEMMA PutFile ==
  ASSUME NEW f, IsFiles(f), NEW id \in Nat, NEW s \in Seq(Entries)
  PROVE  /\ IsFiles(Put(f, id, s))
         /\ \A j : Contents(Put(f, id, s), j) = IF j = id THEN s ELSE Contents(f, j)
<1>1. IsFiniteSet(DOMAIN f \cup {id})
  BY FS_AddElement DEF IsFiles
<1> QED
  BY <1>1 DEF IsFiles, Put, Contents

LEMMA WithoutFile ==
  ASSUME NEW f, IsFiles(f), NEW id
  PROVE  /\ IsFiles(Without(f, id))
         /\ \A j : j # id => Contents(Without(f, id), j) = Contents(f, j)
<1>1. IsFiniteSet(DOMAIN f \ {id})
  BY FS_RemoveElement DEF IsFiles
<1> QED
  BY <1>1 DEF IsFiles, Without, Contents

LEMMA ContentsType ==
  ASSUME NEW f, IsFiles(f), NEW id
  PROVE  Contents(f, id) \in Seq(Entries) /\ Len(Contents(f, id)) \in Nat
<1>1. Contents(f, id) \in Seq(Entries)
  <2>1. <<>> \in Seq(Entries)
    OBVIOUS
  <2> QED
    BY <2>1 DEF IsFiles, Contents
<1> QED
  BY <1>1

LEMMA PutPlace ==
  ASSUME NEW d, IsDir(d), NEW k \in Keys, NEW p \in Places
  PROVE  /\ IsDir(Put(d, k, p)) /\ DOMAIN Put(d, k, p) = DOMAIN d \cup {k}
         /\ Put(d, k, p)[k] = p /\ \A j \in DOMAIN d : j # k => Put(d, k, p)[j] = d[j]
<1>1. IsFiniteSet(DOMAIN d \cup {k})
  BY FS_AddElement DEF IsDir
<1> QED
  BY <1>1 DEF IsDir, Put

LEMMA WithoutPlace ==
  ASSUME NEW d, IsDir(d), NEW k
  PROVE  /\ IsDir(Without(d, k)) /\ DOMAIN Without(d, k) = DOMAIN d \ {k}
         /\ \A j \in DOMAIN d : j # k => Without(d, k)[j] = d[j]
<1>1. IsFiniteSet(DOMAIN d \ {k})
  BY FS_RemoveElement DEF IsDir
<1> QED
  BY <1>1 DEF IsDir, Without

(* A file that grows keeps its entries.                                    *)
LEMMA AppendEntry ==
  ASSUME NEW s \in Seq(Entries), NEW e \in Entries
  PROVE  /\ Append(s, e) \in Seq(Entries) /\ Len(Append(s, e)) = Len(s) + 1 /\ Len(s) \in Nat
         /\ Append(s, e)[Len(s) + 1] = e
         /\ \A i \in 1 .. Len(s) : Append(s, e)[i] = s[i]
  BY AppendProperties

(* What is at a place in it, unless the place is the one of the new entry. *)
LEMMA AppendAt ==
  ASSUME NEW s \in Seq(Entries), NEW e \in Entries, NEW p, NEW k
  PROVE  /\ At(Append(s, e), Len(s) + 1, e.key) = e.val
         /\ k # e.key => At(Append(s, e), p, k) = At(s, p, k)
         /\ At(s, p, k) \in Values => At(Append(s, e), p, k) = At(s, p, k)
<1>1. PICK r \in Seq(Entries) : r = Append(s, e)
  BY AppendEntry
<1>2. PICK n \in Nat : /\ n = Len(s) /\ Len(r) = n + 1 /\ r[n + 1] = e
                       /\ \A i \in 1 .. n : r[i] = s[i]
  BY <1>1, AppendEntry
<1>3. DOMAIN s = 1 .. n /\ DOMAIN r = 1 .. n + 1 /\ n + 1 \in 1 .. n + 1
  BY <1>2
<1>4. \A i : i \in 1 .. n + 1 <=> i \in 1 .. n \/ i = n + 1
  OBVIOUS
<1>5. At(r, n + 1, e.key) = e.val
  BY <1>2, <1>3 DEF At
<1>6. k # e.key => At(r, p, k) = At(s, p, k)
  BY <1>2, <1>3, <1>4 DEF At
<1>7. At(s, p, k) \in Values => At(r, p, k) = At(s, p, k)
  BY <1>2, <1>3, <1>4, ValuesDistinct DEF At
<1> QED
  BY <1>1, <1>2, <1>5, <1>6, <1>7

LEMMA AppendPure ==
  ASSUME NEW s \in Seq(Entries), NEW e \in Entries, PureFile(s), e.val # "garbage"
  PROVE  PureFile(Append(s, e))
<1>1. \A i \in 1 .. Len(s) + 1 : i \in 1 .. Len(s) \/ i = Len(s) + 1
  BY AppendEntry
<1> QED
  BY <1>1, AppendEntry DEF PureFile

-----------------------------------------------------------------------------
(* The three loops of the code are recursive functions.  A recursive       *)
(* function on 0 .. n whose values stay in a set D exists, and any         *)
(* function that satisfies its equation has values in D.                   *)
Follows(f, n, base, step) == f = [i \in 0 .. n |-> IF i = 0 THEN base ELSE step[i][f[i - 1]]]

LEMMA Recursion ==
  ASSUME NEW n \in Nat, NEW D, NEW base \in D, NEW step \in [1 .. n -> [D -> D]]
  PROVE  \E f \in [0 .. n -> D] : Follows(f, n, base, step)
<1> DEFINE Runs == {j \in 0 .. n : \E g \in [0 .. j -> D] : Follows(g, j, base, step)}
<1>1. 0 \in Runs
  <2>1. PICK g : g = [i \in 0 .. 0 |-> base]
    OBVIOUS
  <2>2. \A i \in 0 .. 0 : i = 0
    OBVIOUS
  <2>3. g \in [0 .. 0 -> D] /\ Follows(g, 0, base, step)
    BY <2>1, <2>2 DEF Follows
  <2> QED
    BY <2>3
<1>2. ASSUME NEW j \in 0 .. n - 1, j \in Runs PROVE j + 1 \in Runs
  <2>1. PICK g \in [0 .. j -> D] : Follows(g, j, base, step)
    BY <1>2
  <2>2. PICK h : h = [i \in 0 .. j + 1 |-> IF i = j + 1 THEN step[j + 1][g[j]] ELSE g[i]]
    OBVIOUS
  <2>3. j + 1 \in 1 .. n /\ g[j] \in D
    BY <1>2
  <2>4. h \in [0 .. j + 1 -> D]
    BY <2>2, <2>3
  <2>5. \A i \in 0 .. j + 1 : h[i] = IF i = 0 THEN base ELSE step[i][h[i - 1]]
    <3> SUFFICES ASSUME NEW i \in 0 .. j + 1 PROVE h[i] = IF i = 0 THEN base ELSE step[i][h[i - 1]]
      OBVIOUS
    <3>1. CASE i = j + 1
      <4>1. i # 0 /\ i - 1 = j /\ j \in 0 .. j + 1 /\ j # j + 1
        BY <3>1
      <4>2. h[j] = g[j] /\ h[i] = step[j + 1][g[j]]
        BY <2>2, <3>1, <4>1
      <4> QED
        BY <3>1, <4>1, <4>2
    <3>2. CASE i # j + 1
      <4>1. i \in 0 .. j /\ h[i] = g[i]
        BY <2>2, <3>2
      <4>2. g[i] = IF i = 0 THEN base ELSE step[i][g[i - 1]]
        BY <2>1, <4>1 DEF Follows
      <4>3. i # 0 => i - 1 \in 0 .. j + 1 /\ i - 1 # j + 1
        BY <4>1
      <4>4. i # 0 => h[i - 1] = g[i - 1]
        BY <2>2, <4>3
      <4> QED
        BY <4>1, <4>2, <4>4
    <3> QED
      BY <3>1, <3>2
  <2>6. Follows(h, j + 1, base, step)
    BY <2>4, <2>5 DEF Follows
  <2> QED
    BY <1>2, <2>4, <2>6
<1>3. \A j \in 0 .. n - 1 : j \in Runs => j + 1 \in Runs
  BY <1>2
<1>4. \A j \in 0 .. n : j \in Runs
  <2> HIDE DEF Runs
  <2> QED
    BY <1>1, <1>3, CountingUp
<1> QED
  BY <1>4

LEMMA RecursionType ==
  ASSUME NEW n \in Nat, NEW D, NEW base \in D, NEW f, DOMAIN f = 0 .. n, f = [i \in 0 .. n |-> f[i]],
         f[0] = base, \A i \in 1 .. n : f[i - 1] \in D => f[i] \in D
  PROVE  f \in [0 .. n -> D]
<1>1. PICK S : S = {i \in 0 .. n : f[i] \in D}
  OBVIOUS
<1>2. 0 \in S
  BY <1>1
<1>3. ASSUME NEW i \in 0 .. n - 1, i \in S PROVE i + 1 \in S
  <2>1. i + 1 \in 1 .. n /\ (i + 1) - 1 = i
    OBVIOUS
  <2>2. f[i + 1] \in D
    BY <1>1, <1>3, <2>1
  <2> QED
    BY <1>1, <2>1, <2>2
<1>4. \A i \in 0 .. n - 1 : i \in S => i + 1 \in S
  BY <1>3
<1>5. \A i \in 0 .. n : i \in S
  BY <1>2, <1>4, CountingUp
<1> QED
  BY <1>1, <1>5

(* loadFromFile.                                                           *)
Loads(f, n, dir, id) ==
  /\ f[0] = dir /\ \A i \in 1 .. n : f[i] = LoadEntry(f[i - 1], id, i)
  /\ loadFromFile(dir, id) = f[Cardinality(Readable(id))]

LEMMA LoadRuns ==
  ASSUME NEW id, NEW n \in Nat, n = Len(log[id]), NEW D, NEW dir \in D,
         \A d \in D, i \in 1 .. n : LoadEntry(d, id, i) \in D
  PROVE  \E f \in [0 .. n -> D] : Loads(f, n, dir, id)
<1> DEFINE Fits(f) == f = [i \in 0 .. Len(log[id]) |-> IF i = 0 THEN dir ELSE LoadEntry(f[i - 1], id, i)]
<1>1. \E f : Fits(f)
  <2>1. PICK step : step = [i \in 1 .. n |-> [d \in D |-> LoadEntry(d, id, i)]]
    OBVIOUS
  <2>2. step \in [1 .. n -> [D -> D]]
    BY <2>1
  <2>3. PICK f \in [0 .. n -> D] : Follows(f, n, dir, step)
    BY <2>2, Recursion
  <2>4. \A i \in 1 .. n : i - 1 \in 0 .. n
    OBVIOUS
  <2>5. \A i \in 1 .. n : step[i][f[i - 1]] = LoadEntry(f[i - 1], id, i)
    BY <2>1, <2>4
  <2>6. \A i \in 0 .. n : f[i] = IF i = 0 THEN dir ELSE step[i][f[i - 1]]
    BY <2>3 DEF Follows
  <2>7. \A i \in 0 .. n : i = 0 \/ i \in 1 .. n
    OBVIOUS
  <2>8. \A i \in 0 .. n : f[i] = IF i = 0 THEN dir ELSE LoadEntry(f[i - 1], id, i)
    BY <2>5, <2>6, <2>7
  <2>9. f = [i \in 0 .. n |-> IF i = 0 THEN dir ELSE LoadEntry(f[i - 1], id, i)]
    BY <2>8
  <2> QED
    BY <2>9
<1>2. PICK f : f = CHOOSE g : Fits(g)
  OBVIOUS
<1>3. Fits(f)
  <2> HIDE DEF Fits
  <2> QED
    BY <1>1, <1>2, Zenon
<1>4. loadFromFile(dir, id) = f[Cardinality(Readable(id))]
  BY <1>2, Zenon DEF loadFromFile
<1>5. /\ DOMAIN f = 0 .. n /\ f = [i \in 0 .. n |-> f[i]] /\ f[0] = dir
      /\ \A i \in 1 .. n : f[i] = LoadEntry(f[i - 1], id, i)
  BY <1>3
<1>6. f \in [0 .. n -> D]
  <2>1. \A i \in 1 .. n : f[i - 1] \in D => f[i] \in D
    BY <1>5
  <2> QED
    BY <1>5, <2>1, RecursionType
<1> QED
  BY <1>4, <1>5, <1>6 DEF Loads

(* The index that is read from the logs.                                   *)
Indexes(f, n, order) ==
  /\ f[0] = Empty /\ \A i \in 1 .. n : f[i] = loadFromFile(f[i - 1], order[i])
  /\ IndexFrom(order) = f[n]

LEMMA IndexRuns ==
  ASSUME NEW order, NEW n \in Nat, n = Len(order), NEW D, Empty \in D,
         \A d \in D, i \in 1 .. n : loadFromFile(d, order[i]) \in D
  PROVE  \E f \in [0 .. n -> D] : Indexes(f, n, order)
<1> DEFINE Fits(f) == f = [i \in 0 .. Len(order) |-> IF i = 0 THEN Empty ELSE loadFromFile(f[i - 1], order[i])]
<1>1. \E f : Fits(f)
  <2>1. PICK step : step = [i \in 1 .. n |-> [d \in D |-> loadFromFile(d, order[i])]]
    OBVIOUS
  <2>2. step \in [1 .. n -> [D -> D]]
    BY <2>1
  <2>3. PICK f \in [0 .. n -> D] : Follows(f, n, Empty, step)
    BY <2>2, Recursion
  <2>4. \A i \in 1 .. n : i - 1 \in 0 .. n
    OBVIOUS
  <2>5. \A i \in 1 .. n : step[i][f[i - 1]] = loadFromFile(f[i - 1], order[i])
    BY <2>1, <2>4
  <2>6. \A i \in 0 .. n : f[i] = IF i = 0 THEN Empty ELSE step[i][f[i - 1]]
    BY <2>3 DEF Follows
  <2>7. \A i \in 0 .. n : i = 0 \/ i \in 1 .. n
    OBVIOUS
  <2>8. \A i \in 0 .. n : f[i] = IF i = 0 THEN Empty ELSE loadFromFile(f[i - 1], order[i])
    BY <2>5, <2>6, <2>7
  <2>9. f = [i \in 0 .. n |-> IF i = 0 THEN Empty ELSE loadFromFile(f[i - 1], order[i])]
    BY <2>8
  <2> QED
    BY <2>9
<1>2. PICK f : f = CHOOSE g : Fits(g)
  OBVIOUS
<1>3. Fits(f)
  <2> HIDE DEF Fits
  <2> QED
    BY <1>1, <1>2, Zenon
<1>4. IndexFrom(order) = f[n]
  BY <1>2, Zenon DEF IndexFrom
<1>5. /\ DOMAIN f = 0 .. n /\ f = [i \in 0 .. n |-> f[i]] /\ f[0] = Empty
      /\ \A i \in 1 .. n : f[i] = loadFromFile(f[i - 1], order[i])
  BY <1>3
<1>6. f \in [0 .. n -> D]
  <2>1. \A i \in 1 .. n : f[i - 1] \in D => f[i] \in D
    BY <1>5
  <2> QED
    BY <1>5, <2>1, RecursionType
<1> QED
  BY <1>4, <1>5, <1>6 DEF Indexes

(* The loop of merge.                                                      *)
Merges(f, n, order, t, start) ==
  /\ f[0] = start /\ \A i \in 1 .. n : f[i] = MergeKey(f[i - 1], order[i], t)
  /\ Merged(order, t) = f[n]

LEMMA MergeRuns ==
  ASSUME NEW order, NEW t, NEW n \in Nat, n = Len(order), NEW D,
         NEW start \in D, start = [files |-> merged, dir |-> keyDir, id |-> 0],
         \A m \in D, i \in 1 .. n : MergeKey(m, order[i], t) \in D
  PROVE  \E f \in [0 .. n -> D] : Merges(f, n, order, t, start)
<1> DEFINE Fits(f) == f = [i \in 0 .. Len(order) |-> IF i = 0 THEN [files |-> merged, dir |-> keyDir, id |-> 0]
                                                        ELSE MergeKey(f[i - 1], order[i], t)]
<1>1. \E f : Fits(f)
  <2>1. PICK step : step = [i \in 1 .. n |-> [d \in D |-> MergeKey(d, order[i], t)]]
    OBVIOUS
  <2>2. step \in [1 .. n -> [D -> D]]
    BY <2>1
  <2>3. PICK f \in [0 .. n -> D] : Follows(f, n, start, step)
    BY <2>2, Recursion
  <2>4. \A i \in 1 .. n : i - 1 \in 0 .. n
    OBVIOUS
  <2>5. \A i \in 1 .. n : step[i][f[i - 1]] = MergeKey(f[i - 1], order[i], t)
    BY <2>1, <2>4
  <2>6. \A i \in 0 .. n : f[i] = IF i = 0 THEN start ELSE step[i][f[i - 1]]
    BY <2>3 DEF Follows
  <2>7. \A i \in 0 .. n : i = 0 \/ i \in 1 .. n
    OBVIOUS
  <2>8. \A i \in 0 .. n : f[i] = IF i = 0 THEN start ELSE MergeKey(f[i - 1], order[i], t)
    BY <2>5, <2>6, <2>7
  <2>9. f = [i \in 0 .. n |-> IF i = 0 THEN start ELSE MergeKey(f[i - 1], order[i], t)]
    BY <2>8
  <2> QED
    BY <2>9
<1>2. PICK f : f = CHOOSE g : Fits(g)
  OBVIOUS
<1>3. Fits(f)
  <2> HIDE DEF Fits
  <2> QED
    BY <1>1, <1>2, Zenon
<1>4. Merged(order, t) = f[n]
  BY <1>2, Zenon DEF Merged
<1>5. /\ DOMAIN f = 0 .. n /\ f = [i \in 0 .. n |-> f[i]] /\ f[0] = start
      /\ \A i \in 1 .. n : f[i] = MergeKey(f[i - 1], order[i], t)
  BY <1>3
<1>6. f \in [0 .. n -> D]
  <2>1. \A i \in 1 .. n : f[i - 1] \in D => f[i] \in D
    BY <1>5
  <2> QED
    BY <1>5, <2>1, RecursionType
<1> QED
  BY <1>4, <1>5, <1>6 DEF Merges

-----------------------------------------------------------------------------
(* Reading a value.                                                        *)

LEMMA FileType ==
  /\ Types => \A id : FileOf(id) \in Seq(Entries) /\ Len(FileOf(id)) \in Nat
  /\ Types' => \A id : FileOf(id)' \in Seq(Entries) /\ Len(FileOf(id)') \in Nat
  BY ContentsType DEF Types, FileOf

LEMMA ReadAt ==
  \A k : /\ Read(k) = IF k \notin DOMAIN keyDir THEN none ELSE At(FileOf(keyDir[k].id), keyDir[k].vpos, k)
         /\ Read(k)' = IF k \notin DOMAIN keyDir' THEN none ELSE At(FileOf(keyDir[k].id)', keyDir'[k].vpos, k)
  BY DEF Read, At

LEMMA AtType ==
  ASSUME NEW s \in Seq(Entries), NEW p, NEW k
  PROVE  /\ At(s, p, k) \in Values \cup {none, "garbage"}
         /\ PureFile(s) /\ At(s, p, k) = "garbage" => ~(p \in DOMAIN s /\ s[p].key = k)
  BY DEF At, Entries, PureFile

LEMMA ReadType ==
  /\ Types => \A k : Read(k) \in Values \cup {none, "garbage"}
  /\ Types' => \A k : Read(k)' \in Values \cup {none, "garbage"}
  BY FileType, ReadAt, AtType

(* The entries the code writes.                                            *)
LEMMA EntryTypes ==
  /\ \A k \in Keys, v \in Values \cup {none, "garbage"}, t \in Nat :
       /\ Entry(k, v, t) \in Entries
       /\ Entry(k, v, t).key = k /\ Entry(k, v, t).val = v /\ Entry(k, v, t).tstamp = t
  /\ Torn \in Entries /\ Torn.key = none /\ Torn.val = none
  BY ValuesDistinct DEF Entry, Entries, Torn

LEMMA StampType == Stamps \subseteq Nat
  BY BoundsPositive DEF Stamps

LEMMA PlaceType ==
  ASSUME NEW s \in Seq(Entries), NEW id \in Nat, NEW t \in Nat
  PROVE  /\ PlaceAfter(s, id, t) \in Places
         /\ PlaceAfter(s, id, t).id = id /\ PlaceAfter(s, id, t).vpos = Len(s) + 1
<1>1. Len(s) + 1 \in Nat
  OBVIOUS
<1> QED
  BY <1>1 DEF PlaceAfter, Places

-----------------------------------------------------------------------------
(* Loading: whatever is in the logs, and whichever of them is read first,  *)
(* an index is read from them, and it is exact if they are pure.           *)

SoundDirs ==
  {d \in UNION {[S -> Places] : S \in SUBSET Keys} :
     IsDir(d) /\ (Pure(log) => \A k \in DOMAIN d : At(Contents(log, d[k].id), d[k].vpos, k) \in Values)}

LEMMA SoundDirIntro ==
  ASSUME NEW d, IsDir(d), Pure(log) => \A k \in DOMAIN d : At(Contents(log, d[k].id), d[k].vpos, k) \in Values
  PROVE  d \in SoundDirs
<1>1. d \in [DOMAIN d -> Places] /\ DOMAIN d \in SUBSET Keys
  BY DEF IsDir
<1> QED
  BY <1>1 DEF SoundDirs

LEMMA LoadEntrySound ==
  ASSUME IsFiles(log), NEW id \in DOMAIN log, NEW d \in SoundDirs, NEW i \in 1 .. Len(log[id])
  PROVE  LoadEntry(d, id, i) \in SoundDirs
<1>0. log[id] \in Seq(Entries) /\ Contents(log, id) = log[id] /\ id \in Nat /\ i \in Nat
  BY DEF IsFiles, Contents
<1>1. PICK e \in Entries : e = log[id][i]
  BY <1>0
<1>2. IsDir(d) /\ (Pure(log) => \A k \in DOMAIN d : At(Contents(log, d[k].id), d[k].vpos, k) \in Values)
  BY DEF SoundDirs
<1>3. CASE e.val = none
  <2>1. LoadEntry(d, id, i) = Without(d, e.key)
    BY <1>1, <1>3 DEF LoadEntry
  <2>2. PICK w : w = Without(d, e.key)
    OBVIOUS
  <2>3. IsDir(w) /\ DOMAIN w \subseteq DOMAIN d /\ \A k \in DOMAIN w : w[k] = d[k]
    <3>1. /\ IsDir(Without(d, e.key)) /\ DOMAIN Without(d, e.key) = DOMAIN d \ {e.key}
          /\ \A j \in DOMAIN d : j # e.key => Without(d, e.key)[j] = d[j]
      BY <1>2, WithoutPlace, Zenon
    <3> QED
      BY <2>2, <3>1
  <2>4. w \in SoundDirs
    BY <1>2, <2>3, SoundDirIntro
  <2> QED
    BY <2>1, <2>2, <2>4
<1>4. CASE e.val # none /\ Supersedes(d, e)
  <2>1. PICK p : p = [id |-> id, vpos |-> i, tstamp |-> e.tstamp]
    OBVIOUS
  <2>2. LoadEntry(d, id, i) = Put(d, e.key, p)
    BY <1>1, <1>4, <2>1 DEF LoadEntry
  <2>3. p \in Places /\ e.key \in Keys /\ e.val \in Values \cup {"garbage"}
    BY <1>0, <1>1, <1>4, <2>1 DEF Places, Entries
  <2>4. Pure(log) => At(Contents(log, p.id), p.vpos, e.key) \in Values
    <3>1. Pure(log) => e.val # "garbage"
      BY <1>0, <1>1 DEF Pure, PureFile
    <3>2. i \in DOMAIN log[id] /\ At(log[id], i, e.key) = e.val
      BY <1>0, <1>1 DEF At
    <3> QED
      BY <1>0, <2>1, <2>3, <3>1, <3>2
  <2>5. PICK w : w = Put(d, e.key, p)
    OBVIOUS
  <2>6. /\ IsDir(w) /\ DOMAIN w = DOMAIN d \cup {e.key} /\ w[e.key] = p
        /\ \A k \in DOMAIN d : k # e.key => w[k] = d[k]
    <3>1. PICK key \in Keys : key = e.key
      BY <2>3
    <3>2. w = Put(d, key, p)
      BY <2>5, <3>1
    <3>3. IsDir(d) /\ p \in Places
      BY <1>2, <2>3
    <3>4. /\ IsDir(Put(d, key, p)) /\ DOMAIN Put(d, key, p) = DOMAIN d \cup {key} /\ Put(d, key, p)[key] = p
          /\ \A j \in DOMAIN d : j # key => Put(d, key, p)[j] = d[j]
      BY <3>3, PutPlace, Zenon
    <3> QED
      BY <3>1, <3>2, <3>4
  <2>7. Pure(log) => \A k \in DOMAIN w : At(Contents(log, w[k].id), w[k].vpos, k) \in Values
    BY <1>2, <2>4, <2>6
  <2>8. w \in SoundDirs
    BY <2>6, <2>7, SoundDirIntro
  <2> QED
    BY <2>2, <2>5, <2>8
<1>5. CASE e.val # none /\ ~Supersedes(d, e)
  BY <1>1, <1>5 DEF LoadEntry
<1> QED
  BY <1>3, <1>4, <1>5

LEMMA ReadableUpTo ==
  ASSUME NEW id, NEW n \in Nat, n = Len(log[id])
  PROVE  Cardinality(Readable(id)) \in 0 .. n
<1>1. IsFiniteSet(1 .. n) /\ Cardinality(1 .. n) = n
  <2>1. 1 \in Int /\ n \in Int
    OBVIOUS
  <2>2. IsFiniteSet(1 .. n) /\ Cardinality(1 .. n) = IF 1 > n THEN 0 ELSE n - 1 + 1
    BY <2>1, FS_Interval
  <2> QED
    BY <2>2
<1>2. Readable(id) \in SUBSET (1 .. n)
  BY DEF Readable
<1>3. Cardinality(Readable(id)) \in Nat /\ Cardinality(Readable(id)) <= n
  BY <1>1, <1>2, FS_Subset, FS_CardinalityType
<1> QED
  BY <1>3

LEMMA LoadFileSound ==
  ASSUME IsFiles(log), NEW id \in DOMAIN log, NEW d \in SoundDirs
  PROVE  loadFromFile(d, id) \in SoundDirs
<1>1. PICK n \in Nat : n = Len(log[id])
  BY DEF IsFiles
<1>2. \A e \in SoundDirs, i \in 1 .. n : LoadEntry(e, id, i) \in SoundDirs
  BY <1>1, LoadEntrySound
<1>3. \E f \in [0 .. n -> SoundDirs] : loadFromFile(d, id) = f[Cardinality(Readable(id))]
  <2>1. PICK D : D = SoundDirs
    OBVIOUS
  <2>2. d \in D /\ \A e \in D, i \in 1 .. n : LoadEntry(e, id, i) \in D
    BY <1>2, <2>1
  <2>3. \E f \in [0 .. n -> D] : Loads(f, n, d, id)
    BY <1>1, <2>2, LoadRuns, Zenon
  <2> QED
    BY <2>1, <2>3 DEF Loads
<1> QED
  BY <1>1, <1>3, ReadableUpTo

LEMMA IndexSound ==
  ASSUME IsFiles(log), NEW order \in SetToSeqs(DOMAIN log)
  PROVE  IndexFrom(order) \in SoundDirs
<1>1. PICK n \in Nat : n = Len(order) /\ \A i \in 1 .. n : order[i] \in DOMAIN log
  BY OrderFacts DEF IsFiles
<1>2. Empty \in SoundDirs
  BY EmptyFacts, SoundDirIntro
<1>3. \A d \in SoundDirs, i \in 1 .. n : loadFromFile(d, order[i]) \in SoundDirs
  BY <1>1, LoadFileSound
<1>4. \E f \in [0 .. n -> SoundDirs] : IndexFrom(order) = f[n]
  <2>1. PICK D : D = SoundDirs
    OBVIOUS
  <2>2. Empty \in D /\ \A d \in D, i \in 1 .. n : loadFromFile(d, order[i]) \in D
    BY <1>2, <1>3, <2>1
  <2>3. \E f \in [0 .. n -> D] : Indexes(f, n, order)
    BY <1>1, <2>2, IndexRuns, Zenon
  <2> QED
    BY <2>1, <2>3 DEF Indexes
<1> QED
  BY <1>4

-----------------------------------------------------------------------------
(* Merging: the index that the loop builds leads into the merged files, to *)
(* what was read before, be it a value or not.                             *)

CleanCopy == Pure(merged) /\ \A k \in DOMAIN keyDir : Read(k) # "garbage"

MergeStates ==
  {m \in [files : UNION {[S -> Seq(Entries)] : S \in SUBSET Nat},
          dir : UNION {[S -> Places] : S \in SUBSET Keys}, id : Nat] :
     /\ IsFiles(m.files) /\ IsDir(m.dir) /\ DOMAIN m.dir = DOMAIN keyDir
     /\ CleanCopy => Pure(m.files)}

Copied(m, k) ==
  /\ m.dir[k].id <= m.id
  /\ At(Contents(m.files, m.dir[k].id), m.dir[k].vpos, k) = Read(k)

LEMMA MergeStateIntro ==
  ASSUME NEW f, NEW d, NEW i \in Nat, IsFiles(f), IsDir(d), DOMAIN d = DOMAIN keyDir, CleanCopy => Pure(f)
  PROVE  [files |-> f, dir |-> d, id |-> i] \in MergeStates
<1>1. f \in [DOMAIN f -> Seq(Entries)] /\ DOMAIN f \in SUBSET Nat
  BY DEF IsFiles
<1>2. d \in [DOMAIN d -> Places] /\ DOMAIN d \in SUBSET Keys
  BY DEF IsDir
<1>3. PICK m : m = [files |-> f, dir |-> d, id |-> i]
  OBVIOUS
<1>4. m \in [files : UNION {[S -> Seq(Entries)] : S \in SUBSET Nat},
             dir : UNION {[S -> Places] : S \in SUBSET Keys}, id : Nat]
  BY <1>1, <1>2, <1>3
<1>5. m.files = f /\ m.dir = d
  BY <1>3
<1>6. m \in MergeStates
  BY <1>4, <1>5 DEF MergeStates
<1> QED
  BY <1>3, <1>6

LEMMA MergeKeyFacts ==
  ASSUME Types, NEW m \in MergeStates, NEW k \in DOMAIN keyDir, NEW t \in Nat
  PROVE  /\ MergeKey(m, k, t) \in MergeStates
         /\ Copied(MergeKey(m, k, t), k)
         /\ \A j \in DOMAIN keyDir : Copied(m, j) => Copied(MergeKey(m, k, t), j)
<1>1. /\ IsFiles(m.files) /\ IsDir(m.dir) /\ DOMAIN m.dir = DOMAIN keyDir /\ m.id \in Nat
      /\ CleanCopy => Pure(m.files)
  BY DEF MergeStates
<1>2. k \in Keys /\ Read(k) \in Values \cup {none, "garbage"}
  BY ReadType DEF Types, IsDir
<1>3. PICK s \in Seq(Entries) : s = Contents(m.files, m.id) /\ Len(s) \in Nat
  BY <1>1, ContentsType
<1>4. PICK e \in Entries : e = Entry(k, Read(k), t) /\ e.key = k /\ e.val = Read(k)
  BY <1>2, EntryTypes
<1>5. PICK s2 \in Seq(Entries) : s2 = Append(s, e)
  BY AppendEntry
<1>6. /\ At(s2, Len(s) + 1, k) = Read(k)
      /\ \A p, j : j # k => At(s2, p, j) = At(s, p, j)
  BY <1>4, <1>5, AppendAt
<1>7. PICK p \in Places : p = PlaceAfter(s, m.id, t) /\ p.id = m.id /\ p.vpos = Len(s) + 1
  BY <1>1, PlaceType
<1>8. PICK f : f = Put(m.files, m.id, s2)
  OBVIOUS
<1>9. IsFiles(f) /\ \A j : Contents(f, j) = IF j = m.id THEN s2 ELSE Contents(m.files, j)
  BY <1>1, <1>8, PutFile
<1>10. PICK d : d = Put(m.dir, k, p)
  OBVIOUS
<1>11. IsDir(d) /\ DOMAIN d = DOMAIN keyDir /\ d[k] = p /\ \A j \in DOMAIN keyDir : j # k => d[j] = m.dir[j]
  <2>1. /\ IsDir(Put(m.dir, k, p)) /\ DOMAIN Put(m.dir, k, p) = DOMAIN m.dir \cup {k}
        /\ Put(m.dir, k, p)[k] = p /\ \A j \in DOMAIN m.dir : j # k => Put(m.dir, k, p)[j] = m.dir[j]
    BY <1>1, <1>2, PutPlace, Zenon
  <2> QED
    BY <1>1, <1>10, <2>1
<1>12. PICK i \in Nat : i = (IF Len(s2) >= LogSize THEN m.id + 1 ELSE m.id) /\ i >= m.id
  BY <1>1
<1>13. PICK m2 : m2 = [files |-> f, dir |-> d, id |-> i]
  OBVIOUS
<1>14. m2.files = f /\ m2.dir = d /\ m2.id = i
  BY <1>13
<1>15. MergeKey(m, k, t) = m2
  BY <1>3, <1>4, <1>5, <1>7, <1>8, <1>10, <1>12, <1>13 DEF MergeKey
<1>16. m2 \in MergeStates
  <2>1. ASSUME CleanCopy PROVE Pure(f)
    <3>1. PureFile(s) /\ e.val # "garbage" /\ \A j : PureFile(Contents(m.files, j))
      BY <1>1, <1>3, <1>4, <2>1 DEF CleanCopy, Pure
    <3>2. PureFile(s2)
      BY <1>5, <3>1, AppendPure
    <3> QED
      BY <1>9, <3>1, <3>2 DEF Pure
  <2> QED
    BY <1>9, <1>11, <1>13, <2>1, MergeStateIntro
<1>17. Copied(m2, k)
  <2>1. Contents(f, p.id) = s2 /\ p.id <= i
    BY <1>1, <1>7, <1>9, <1>12
  <2> QED
    BY <1>6, <1>7, <1>11, <1>14, <2>1 DEF Copied
<1>18. ASSUME NEW j \in DOMAIN keyDir, Copied(m, j), j # k PROVE Copied(m2, j)
  <2>1. PICK q \in Places : q = m.dir[j]
    BY <1>1 DEF IsDir
  <2>2. q.id <= m.id /\ At(Contents(m.files, q.id), q.vpos, j) = Read(j)
    BY <1>18, <2>1 DEF Copied
  <2>3. m2.dir[j] = q
    BY <1>11, <1>14, <1>18, <2>1
  <2>4. q.id <= i
    BY <1>1, <1>12, <2>2 DEF Places
  <2>5. At(Contents(f, q.id), q.vpos, j) = Read(j)
    BY <1>3, <1>6, <1>9, <1>18, <2>2
  <2> QED
    BY <1>14, <2>3, <2>4, <2>5 DEF Copied
<1> QED
  BY <1>15, <1>16, <1>17, <1>18

LEMMA MergedFacts ==
  ASSUME Types, NEW order \in SetToSeqs(DOMAIN keyDir), NEW t \in Nat
  PROVE  Merged(order, t) \in MergeStates /\ \A k \in DOMAIN keyDir : Copied(Merged(order, t), k)
<1>1. PICK n \in Nat : /\ n = Len(order) /\ \A i \in 1 .. n : order[i] \in DOMAIN keyDir
                       /\ \A k \in DOMAIN keyDir : \E i \in 1 .. n : order[i] = k
  <2>1. IsFiniteSet(DOMAIN keyDir)
    BY DEF Types, IsDir
  <2> QED
    BY <2>1, OrderFacts
<1>2. PICK start \in MergeStates : start = [files |-> merged, dir |-> keyDir, id |-> 0]
  BY MergeStateIntro DEF Types, CleanCopy
<1>3. PICK f \in [0 .. n -> MergeStates] : Merges(f, n, order, t, start)
  <2>1. PICK D : D = MergeStates
    OBVIOUS
  <2>2. start \in D /\ \A m \in D, i \in 1 .. n : MergeKey(m, order[i], t) \in D
    BY <1>1, <1>2, <2>1, MergeKeyFacts
  <2>3. \E g \in [0 .. n -> D] : Merges(g, n, order, t, start)
    BY <1>1, <1>2, <2>2, MergeRuns, Zenon
  <2> QED
    BY <2>1, <2>3
<1>4. PICK S : S = {i \in 0 .. n : \A j \in 1 .. i : Copied(f[i], order[j])}
  OBVIOUS
<1>5. 0 \in S
  BY <1>4
<1>6. ASSUME NEW i \in 0 .. n - 1, i \in S PROVE i + 1 \in S
  <2>1. i + 1 \in 1 .. n /\ (i + 1) - 1 = i /\ i \in 0 .. n /\ i + 1 \in 0 .. n
    OBVIOUS
  <2>2. f[i + 1] = MergeKey(f[i], order[i + 1], t)
    BY <1>3, <2>1 DEF Merges
  <2>3. f[i] \in MergeStates /\ order[i + 1] \in DOMAIN keyDir
    BY <1>1, <2>1
  <2>4. Copied(f[i + 1], order[i + 1])
    BY <2>2, <2>3, MergeKeyFacts
  <2>5. \A k \in DOMAIN keyDir : Copied(f[i], k) => Copied(f[i + 1], k)
    BY <2>2, <2>3, MergeKeyFacts
  <2>6. \A j \in 1 .. i : Copied(f[i], order[j]) /\ order[j] \in DOMAIN keyDir
    <3>1. \A j \in 1 .. i : Copied(f[i], order[j])
      BY <1>4, <1>6, Zenon
    <3>2. \A j \in 1 .. i : j \in 1 .. n
      OBVIOUS
    <3> QED
      BY <1>1, <3>1, <3>2, Zenon
  <2>7. \A j \in 1 .. i + 1 : j = i + 1 \/ j \in 1 .. i
    OBVIOUS
  <2>8. \A j \in 1 .. i + 1 : Copied(f[i + 1], order[j])
    BY <2>4, <2>5, <2>6, <2>7
  <2> QED
    BY <1>4, <2>1, <2>8
<1>7. n \in S
  <2>1. \A i \in 0 .. n : i \in S
    BY <1>5, <1>6, CountingUp
  <2> QED
    BY <2>1
<1>8. Merged(order, t) = f[n] /\ n \in 0 .. n
  BY <1>3 DEF Merges
<1> QED
  BY <1>1, <1>4, <1>7, <1>8

-----------------------------------------------------------------------------
(* What holds whatever happens: one lemma for each action, which also says *)
(* what the action does to the values read.                                *)

LEMMA WriteFacts ==
  ASSUME Types, NEW e \in Entries, NEW u \in Int, Write(e, u)
  PROVE  /\ IsFiles(log') /\ currId' \in Nat /\ buffered' \in Int
         /\ Contents(log', currId) = Append(Contents(log, currId), e)
         /\ \A id : id # currId => Contents(log', id) = Contents(log, id)
         /\ At(Contents(log', currId), Len(Contents(log, currId)) + 1, e.key) = e.val
         /\ \A id, p, k : k # e.key \/ At(Contents(log, id), p, k) \in Values =>
              At(Contents(log', id), p, k) = At(Contents(log, id), p, k)
         /\ Pure(log) /\ e.val # "garbage" => Pure(log')
<1>1. IsFiles(log) /\ currId \in Nat
  BY DEF Types
<1>2. PICK s \in Seq(Entries) : s = Contents(log, currId) /\ Len(s) \in Nat
  BY <1>1, ContentsType
<1>3. PICK s2 \in Seq(Entries) : s2 = Append(s, e)
  BY AppendEntry
<1>4. /\ At(s2, Len(s) + 1, e.key) = e.val
      /\ \A p, k : k # e.key \/ At(s, p, k) \in Values => At(s2, p, k) = At(s, p, k)
  BY <1>3, AppendAt
<1>5. log' = Put(log, currId, s2)
  BY <1>2, <1>3 DEF Write
<1>6. IsFiles(log') /\ \A j : Contents(log', j) = IF j = currId THEN s2 ELSE Contents(log, j)
  BY <1>1, <1>5, PutFile
<1>7. currId' \in Nat /\ buffered' \in Int
  BY <1>1 DEF Write
<1>8. Pure(log) /\ e.val # "garbage" => PureFile(s2)
  BY <1>2, <1>3, AppendPure DEF Pure
<1> QED
  BY <1>2, <1>3, <1>4, <1>6, <1>7, <1>8 DEF Pure

LEMMA WriteInBuffer ==
  ASSUME Types, NEW e \in Entries, NEW u \in Int, Write(e, u), UNCHANGED <<stage, hint>>,
         Unmerged => u \in 0 .. Len(Contents(log, currId))
  PROVE  InBuffer'
<1> SUFFICES ASSUME Unmerged' PROVE buffered' \in 0 .. Len(Contents(log', currId'))
  BY DEF InBuffer
<1>1. PICK s \in Seq(Entries) : s = Contents(log, currId) /\ Len(s) \in Nat
  BY ContentsType DEF Types
<1>2. Len(Append(s, e)) = Len(s) + 1 /\ Contents(log', currId) = Append(s, e)
  BY <1>1, AppendEntry, WriteFacts
<1>3. u \in 0 .. Len(s)
  BY <1>1 DEF Unmerged
<1>4. CASE currId' = currId /\ buffered' = u + 1
  BY <1>1, <1>2, <1>3, <1>4
<1>5. CASE buffered' = 0
  <2>1. Len(Contents(log', currId')) \in Nat
    BY WriteFacts, ContentsType
  <2> QED
    BY <1>5, <2>1
<1> QED
  BY <1>4, <1>5 DEF Write

(* What set and erase write.                                               *)
Wrote(k, v, u) == \E e \in Entries : e.key = k /\ e.val = v /\ Write(e, u)

LEMMA SetBase ==
  ASSUME BaseInv, NEW k \in Keys, NEW v \in Values, set(k, v)
  PROVE  /\ BaseInv' /\ Wrote(k, v, buffered) /\ DOMAIN keyDir' = DOMAIN keyDir \cup {k}
         /\ \A j \in Keys : Read(j)' = IF j = k THEN v ELSE Read(j)
<1>1. up /\ stage = "idle" /\ up' /\ stage' = "idle" /\ UNCHANGED <<merged, hint, renamed>>
  BY DEF set, CanWrite, Ready
<1>2. Types /\ IsFiles(log) /\ IsDir(keyDir) /\ currId \in Nat /\ buffered \in Int
  BY DEF BaseInv, Types
<1>3. PICK t \in Nat : /\ keyDir' = Put(keyDir, k, PlaceAfter(Contents(log, currId), currId, t))
                       /\ Write(Entry(k, v, t), buffered)
  BY StampType DEF set
<1>4. PICK e \in Entries : e = Entry(k, v, t) /\ e.key = k /\ e.val = v
  BY <1>3, EntryTypes
<1>5. Write(e, buffered)
  BY <1>3, <1>4
<1>6. PICK s \in Seq(Entries) : s = Contents(log, currId) /\ Len(s) \in Nat
  BY <1>2, ContentsType
<1>7. PICK p \in Places : p = PlaceAfter(s, currId, t) /\ p.id = currId /\ p.vpos = Len(s) + 1
  BY <1>2, <1>3, PlaceType
<1>8. keyDir' = Put(keyDir, k, p)
  BY <1>3, <1>6, <1>7
<1>9. /\ IsDir(keyDir') /\ DOMAIN keyDir' = DOMAIN keyDir \cup {k}
      /\ keyDir'[k] = p /\ \A j \in DOMAIN keyDir : j # k => keyDir'[j] = keyDir[j]
  <2>1. /\ IsDir(Put(keyDir, k, p)) /\ DOMAIN Put(keyDir, k, p) = DOMAIN keyDir \cup {k}
        /\ Put(keyDir, k, p)[k] = p /\ \A j \in DOMAIN keyDir : j # k => Put(keyDir, k, p)[j] = keyDir[j]
    BY <1>2, PutPlace, Zenon
  <2> QED
    BY <1>8, <2>1
<1>10. may' = [j \in Keys |-> may'[j]]
  <2>1. may = [j \in Keys |-> may[j]]
    BY DEF BaseInv, Types
  <2> QED
    BY <2>1 DEF set, OnDisk
<1>11. Types'
  BY <1>1, <1>2, <1>5, <1>9, <1>10, WriteFacts DEF Types
<1>12. \A id : FileOf(id) = Contents(log, id) /\ FileOf(id)' = Contents(log', id)
  BY <1>1 DEF FileOf
<1>13. Merging' /\ Stopped'
  BY <1>1 DEF BaseInv, Merging, Stopped
<1>14. InBuffer'
  <2>1. Unmerged => buffered \in 0 .. Len(Contents(log, currId))
    BY DEF BaseInv, InBuffer
  <2> QED
    BY <1>1, <1>2, <1>5, <2>1, WriteInBuffer
<1>15. ASSUME NEW j \in Keys PROVE Read(j)' = IF j = k THEN v ELSE Read(j)
  <2>1. CASE j = k
    <3>1. At(Contents(log', currId), Len(s) + 1, k) = v
      BY <1>2, <1>4, <1>5, <1>6, WriteFacts
    <3>2. FileOf(keyDir[k].id)' = Contents(log', currId)
      BY <1>7, <1>9, <1>12 DEF FileOf
    <3> QED
      BY <1>7, <1>9, <2>1, <3>1, <3>2, ReadAt
  <2>2. CASE j # k /\ j \in DOMAIN keyDir
    <3>1. \A id, q : At(Contents(log', id), q, j) = At(Contents(log, id), q, j)
      BY <1>2, <1>4, <1>5, <2>2, WriteFacts
    <3>2. FileOf(keyDir[j].id)' = Contents(log', keyDir[j].id)
      BY <1>9, <1>12, <2>2 DEF FileOf
    <3> QED
      BY <1>9, <1>12, <2>2, <3>1, <3>2, ReadAt
  <2>3. CASE j # k /\ j \notin DOMAIN keyDir
    BY <1>9, <2>3, ReadAt
  <2> QED
    BY <2>1, <2>2, <2>3
<1> QED
  BY <1>4, <1>5, <1>9, <1>11, <1>13, <1>14, <1>15 DEF BaseInv, Wrote

LEMMA EraseBase ==
  ASSUME BaseInv, NEW k \in Keys, erase(k)
  PROVE  /\ BaseInv' /\ Wrote(k, none, IF Flushes(k) THEN 0 ELSE buffered) /\ DOMAIN keyDir' = DOMAIN keyDir \ {k}
         /\ \A j \in Keys : Read(j)' = IF j = k THEN none ELSE Read(j)
<1>1. up /\ stage = "idle" /\ up' /\ stage' = "idle" /\ UNCHANGED <<merged, hint, renamed>>
  BY DEF erase, CanWrite, Ready
<1>2. Types /\ IsFiles(log) /\ IsDir(keyDir) /\ currId \in Nat /\ buffered \in Int
  BY DEF BaseInv, Types
<1>3. PICK e \in Entries : e = Tombstone(k) /\ e.key = k /\ e.val = none
  BY EntryTypes DEF Tombstone
<1>4. PICK u \in Int : /\ u = (IF Flushes(k) THEN 0 ELSE buffered)
                       /\ Unmerged => u \in 0 .. Len(Contents(log, currId))
  <2>1. Len(Contents(log, currId)) \in Nat
    BY <1>2, ContentsType
  <2> QED
    BY <1>2, <2>1 DEF BaseInv, InBuffer
<1>5. Write(e, u)
  BY <1>3, <1>4 DEF erase, WriteTombstone
<1>6. keyDir' = Without(keyDir, k)
  BY DEF erase
<1>7. IsDir(keyDir') /\ DOMAIN keyDir' = DOMAIN keyDir \ {k} /\ \A j \in DOMAIN keyDir' : keyDir'[j] = keyDir[j]
  <2>1. /\ IsDir(Without(keyDir, k)) /\ DOMAIN Without(keyDir, k) = DOMAIN keyDir \ {k}
        /\ \A j \in DOMAIN keyDir : j # k => Without(keyDir, k)[j] = keyDir[j]
    BY <1>2, WithoutPlace, Zenon
  <2> QED
    BY <1>6, <2>1
<1>8. may' = [j \in Keys |-> may'[j]]
  <2>1. may = [j \in Keys |-> may[j]]
    BY DEF BaseInv, Types
  <2> QED
    BY <2>1 DEF erase, OnDisk
<1>9. Types'
  BY <1>1, <1>2, <1>5, <1>7, <1>8, WriteFacts DEF Types
<1>10. \A id : FileOf(id) = Contents(log, id) /\ FileOf(id)' = Contents(log', id)
  BY <1>1 DEF FileOf
<1>11. Merging' /\ Stopped'
  BY <1>1 DEF BaseInv, Merging, Stopped
<1>12. InBuffer'
  BY <1>1, <1>2, <1>4, <1>5, WriteInBuffer
<1>13. ASSUME NEW j \in Keys PROVE Read(j)' = IF j = k THEN none ELSE Read(j)
  <2>1. CASE j \notin DOMAIN keyDir'
    BY <1>7, <2>1, ReadAt
  <2>2. CASE j \in DOMAIN keyDir'
    <3>1. j # k /\ \A id, q : At(Contents(log', id), q, j) = At(Contents(log, id), q, j)
      BY <1>2, <1>3, <1>5, <1>7, <2>2, WriteFacts
    <3>2. FileOf(keyDir[j].id)' = Contents(log', keyDir[j].id)
      BY <1>7, <1>10, <2>2 DEF FileOf
    <3> QED
      BY <1>7, <1>10, <2>2, <3>1, <3>2, ReadAt
  <2> QED
    BY <2>1, <2>2
<1> QED
  BY <1>3, <1>4, <1>5, <1>7, <1>9, <1>11, <1>12, <1>13 DEF BaseInv, Wrote

LEMMA GetBase ==
  ASSUME BaseInv, NEW k \in Keys, get(k)
  PROVE  BaseInv' /\ \A j : Read(j)' = Read(j)
<1>1. UNCHANGED <<log, merged, hint, keyDir, currId, stage, renamed, up>> /\ buffered' = 0 /\ up
  BY DEF get, Ready
<1>2. may' = [j \in Keys |-> may'[j]]
  BY DEF get, OnDisk
<1>3. Types'
  BY <1>1, <1>2 DEF BaseInv, Types
<1>4. Merging' /\ Stopped'
  BY <1>1 DEF BaseInv, Merging, Stopped
<1>5. InBuffer'
  <2>1. Len(Contents(log', currId')) \in Nat
    BY <1>3, ContentsType DEF Types
  <2> QED
    BY <1>1, <2>1 DEF InBuffer
<1>6. \A j : Read(j)' = Read(j)
  BY <1>1 DEF Read, FileOf
<1> QED
  BY <1>3, <1>4, <1>5, <1>6 DEF BaseInv

LEMMA MergeCopyBase ==
  ASSUME BaseInv, MergeCopy
  PROVE  /\ BaseInv' /\ DOMAIN keyDir' = DOMAIN keyDir
         /\ CleanCopy => Pure(merged')
         /\ \A j : Read(j)' = Read(j)
<1>1. up /\ stage = "idle" /\ up' /\ stage' = "hint" /\ renamed' = 0 /\ UNCHANGED <<log, hint>>
  BY DEF MergeCopy, CanWrite, Ready
<1>2. Types
  BY DEF BaseInv
<1>3. PICK order \in SetToSeqs(DOMAIN keyDir), t \in Nat :
        /\ merged' = Merged(order, t).files /\ keyDir' = Merged(order, t).dir
        /\ currId' = Merged(order, t).id
        /\ buffered' = Len(Contents(merged', currId')) - Len(Contents(merged, currId'))
  BY StampType DEF MergeCopy
<1>4. PICK m \in MergeStates : m = Merged(order, t) /\ \A k \in DOMAIN keyDir : Copied(m, k)
  BY <1>2, <1>3, MergedFacts
<1>5. /\ IsFiles(merged') /\ IsDir(keyDir') /\ DOMAIN keyDir' = DOMAIN keyDir /\ currId' \in Nat
      /\ CleanCopy => Pure(merged')
  BY <1>3, <1>4 DEF MergeStates
<1>6. buffered' \in Int
  <2>1. Len(Contents(merged', currId')) \in Nat /\ Len(Contents(merged, currId')) \in Nat
    BY <1>2, <1>5, ContentsType DEF Types
  <2> QED
    BY <1>3, <2>1
<1>7. may' = [j \in Keys |-> may'[j]]
  BY DEF MergeCopy, OnDisk
<1>8. Types'
  BY <1>1, <1>2, <1>5, <1>6, <1>7 DEF Types
<1>9. \A k \in DOMAIN keyDir : /\ keyDir'[k].id <= currId'
                               /\ At(Contents(merged', keyDir'[k].id), keyDir'[k].vpos, k) = Read(k)
  BY <1>3, <1>4 DEF Copied
<1>10. Merging' /\ Stopped' /\ InBuffer'
  BY <1>1, <1>5, <1>9 DEF Merging, Stopped, InBuffer, Unmerged
<1>11. ASSUME NEW j PROVE Read(j)' = Read(j)
  <2>1. CASE j \notin DOMAIN keyDir
    BY <1>5, <2>1, ReadAt
  <2>2. CASE j \in DOMAIN keyDir
    <3>1. FileOf(keyDir[j].id)' = Contents(merged', keyDir'[j].id)
      BY <1>1 DEF FileOf
    <3> QED
      BY <1>5, <1>9, <2>2, <3>1, ReadAt
  <2> QED
    BY <2>1, <2>2
<1> QED
  BY <1>5, <1>8, <1>10, <1>11 DEF BaseInv

(* From the opening of .hint to its closing no value moves.                *)
LEMMA MergeHintBase ==
  ASSUME BaseInv, MergeHint
  PROVE  BaseInv' /\ hint'.state # "none" /\ \A j : Read(j)' = Read(j)
<1>1. /\ up /\ stage = "hint" /\ stage' = "rename" /\ renamed = 0
      /\ UNCHANGED <<log, merged, keyDir, currId, buffered, renamed, may, up>>
  BY DEF MergeHint, BaseInv, Merging
<1>2. Types /\ IsDir(keyDir)
  BY DEF BaseInv, Types
<1>3. /\ hint' = [state |-> hint'.state, dir |-> hint'.dir] /\ hint'.dir = hint.dir
      /\ hint'.state = IF hint.state = "none" THEN "opened" ELSE hint.state
  BY <1>2 DEF MergeHint, Types
<1>4. Types'
  BY <1>1, <1>2, <1>3 DEF Types
<1>5. \A k \in DOMAIN keyDir : FileOf(keyDir[k].id)' = FileOf(keyDir[k].id)
  <2>1. \A k \in DOMAIN keyDir : ~(keyDir[k].id < renamed)
    BY <1>1, <1>2 DEF IsDir, Places
  <2> QED
    BY <1>1, <2>1 DEF FileOf
<1>6. \A j : Read(j)' = Read(j)
  BY <1>1, <1>5, ReadAt
<1>7. Merging' /\ Stopped' /\ InBuffer'
  BY <1>1, <1>3 DEF BaseInv, Merging, Stopped, InBuffer, Unmerged
<1> QED
  BY <1>3, <1>4, <1>6, <1>7 DEF BaseInv

LEMMA MergeRenameBase ==
  ASSUME BaseInv, MergeRename
  PROVE  BaseInv' /\ (Pure(log) /\ Pure(merged) => Pure(log') /\ Pure(merged')) /\ \A j : Read(j)' = Read(j)
<1>1. /\ up /\ stage = "rename" /\ renamed' = renamed + 1
      /\ UNCHANGED <<hint, keyDir, currId, buffered, stage, may, up>>
  BY DEF MergeRename
<1>2. Types /\ IsDir(keyDir) /\ renamed \in Nat /\ IsFiles(log) /\ IsFiles(merged)
  BY DEF BaseInv, Types
<1>3. PICK s \in Seq(Entries) : s = Contents(merged, renamed)
  BY <1>2, ContentsType
<1>4. log' = Put(log, renamed, s) /\ merged' = Without(merged, renamed)
  BY <1>3 DEF MergeRename
<1>5. IsFiles(log') /\ \A j : Contents(log', j) = IF j = renamed THEN s ELSE Contents(log, j)
  BY <1>2, <1>4, PutFile
<1>6. /\ IsFiles(merged')
      /\ \A j : Contents(merged', j) = IF j = renamed THEN <<>> ELSE Contents(merged, j)
  BY <1>2, <1>4, WithoutFile DEF Without, Contents
<1>7. Types'
  BY <1>1, <1>2, <1>5, <1>6 DEF Types
<1>8. \A id \in Nat : FileOf(id)' = FileOf(id)
  <2> SUFFICES ASSUME NEW id \in Nat PROVE FileOf(id)' = FileOf(id)
    OBVIOUS
  <2>1. FileOf(id) = IF id < renamed THEN Contents(log, id) ELSE Contents(merged, id)
    BY <1>1 DEF FileOf
  <2>2. FileOf(id)' = IF id < renamed + 1 THEN Contents(log', id) ELSE Contents(merged', id)
    BY <1>1 DEF FileOf
  <2>3. CASE id < renamed
    BY <1>2, <1>5, <2>1, <2>2, <2>3
  <2>4. CASE id = renamed
    BY <1>2, <1>3, <1>5, <2>1, <2>2, <2>4
  <2>5. CASE id > renamed
    BY <1>2, <1>6, <2>1, <2>2, <2>5
  <2> QED
    BY <1>2, <2>3, <2>4, <2>5
<1>9. \A k \in DOMAIN keyDir : FileOf(keyDir[k].id)' = FileOf(keyDir[k].id)
  <2>1. \A k \in DOMAIN keyDir : keyDir[k].id \in Nat /\ keyDir'[k].id = keyDir[k].id
    BY <1>1, <1>2 DEF IsDir, Places
  <2> QED
    BY <1>1, <1>8, <2>1 DEF FileOf
<1>10. \A j : Read(j)' = Read(j)
  BY <1>1, <1>9, ReadAt
<1>11. Merging' /\ Stopped' /\ InBuffer'
  BY <1>1 DEF BaseInv, Merging, Stopped, InBuffer, Unmerged
<1>12. ASSUME Pure(log), Pure(merged) PROVE Pure(log') /\ Pure(merged')
  <2>1. PureFile(s) /\ PureFile(<<>>)
    BY <1>3, <1>12 DEF Pure, PureFile
  <2> QED
    BY <1>5, <1>6, <1>12, <2>1 DEF Pure
<1> QED
  BY <1>7, <1>10, <1>11, <1>12 DEF BaseInv

LEMMA MergeEndBase ==
  ASSUME BaseInv, MergeEnd
  PROVE  BaseInv' /\ hint'.state # "none" /\ \A j : Read(j)' = Read(j)
<1>1. /\ up /\ stage = "rename" /\ stage' = "idle" /\ renamed > currId /\ hint.state # "none"
      /\ UNCHANGED <<log, merged, keyDir, currId, buffered, renamed, may, up>>
  BY DEF MergeEnd, LastToRename, BaseInv, Merging
<1>2. Types /\ IsDir(keyDir) /\ renamed \in Nat /\ currId \in Nat
  BY DEF BaseInv, Types
<1>3. IF hint.state = "opened" THEN hint' = [state |-> "written", dir |-> keyDir] ELSE hint' = hint
  BY DEF MergeEnd
<1>4. Types' /\ hint'.state # "none"
  BY <1>1, <1>2, <1>3 DEF Types
<1>5. \A k \in DOMAIN keyDir : FileOf(keyDir[k].id)' = FileOf(keyDir[k].id)
  <2>1. \A k \in DOMAIN keyDir : keyDir[k].id < renamed
    BY <1>1, <1>2 DEF IsDir, Places, BaseInv, Merging
  <2> QED
    BY <1>1, <2>1 DEF FileOf
<1>6. \A j : Read(j)' = Read(j)
  BY <1>1, <1>5, ReadAt
<1>7. Merging' /\ Stopped' /\ InBuffer'
  BY <1>1, <1>4 DEF BaseInv, Merging, Stopped, InBuffer, Unmerged
<1> QED
  BY <1>4, <1>6, <1>7 DEF BaseInv

(* The program ends: nothing is left to read.                              *)
LEMMA DownBase ==
  ASSUME BaseInv, Down, IsFiles(log'), IsFiles(merged'), UNCHANGED currId, may' = [j \in Keys |-> may'[j]]
  PROVE  BaseInv'
<1>1. up' = FALSE /\ buffered' = 0 /\ stage' = "idle" /\ keyDir' = Empty /\ UNCHANGED <<hint, renamed>>
  BY DEF Down
<1>2. Types'
  <2>1. IsDir(keyDir')
    BY <1>1, EmptyFacts
  <2>2. up' \in BOOLEAN
    BY <1>1
  <2> QED
    BY <1>1, <2>1, <2>2 DEF BaseInv, Types
<1>3. Merging' /\ Stopped'
  BY <1>1 DEF Merging, Stopped
<1>4. InBuffer'
  <2>1. Len(Contents(log', currId')) \in Nat
    BY <1>2, ContentsType DEF Types
  <2> QED
    BY <1>1, <2>1 DEF InBuffer
<1> QED
  BY <1>2, <1>3, <1>4 DEF BaseInv

LEMMA QuitBase ==
  ASSUME BaseInv, Quit
  PROVE  BaseInv'
<1>1. Down /\ UNCHANGED <<log, merged, currId>> /\ may' = [j \in Keys |-> may'[j]]
  BY DEF Quit, OnDisk
<1> QED
  BY <1>1, DownBase DEF BaseInv, Types

(* A crash leaves a beginning of the current file, perhaps with an entry   *)
(* cut off.                                                                *)
LEMMA RemainsFiles ==
  ASSUME NEW s \in Seq(Entries), NEW n \in Int, NEW file \in Remains(s, n)
  PROVE  file \in Seq(Entries) /\ (PureFile(s) => PureFile(file))
<1>1. PICK len \in Nat : len = Len(s)
  OBVIOUS
<1>2. ASSUME NEW i \in 0 .. n
      PROVE  /\ SubSeq(s, 1, len - i) \in Seq(Entries)
             /\ PureFile(s) => PureFile(SubSeq(s, 1, len - i))
  <2>1. PICK h \in Int : h = len - i /\ h <= len
    OBVIOUS
  <2>2. CASE h >= 1
    <3>1. \A j \in 1 .. h : j \in 1 .. Len(s) /\ s[j] \in Entries
      BY <1>1, <2>1
    <3>2. SubSeq(s, 1, h) \in Seq(Entries) /\ Len(SubSeq(s, 1, h)) = h /\ \A j \in 1 .. h : SubSeq(s, 1, h)[j] = s[j]
      BY <2>2, <3>1, SubSeqProperties
    <3> QED
      BY <2>1, <3>1, <3>2 DEF PureFile
  <2>3. CASE h < 1
    <3>1. SubSeq(s, 1, h) \in Seq(Entries) /\ Len(SubSeq(s, 1, h)) = 0
      BY <2>3, SubSeqProperties
    <3> QED
      BY <2>1, <3>1 DEF PureFile
  <2> QED
    BY <2>2, <2>3
<1>3. ASSUME NEW q \in Seq(Entries)
      PROVE  q \o <<Torn>> \in Seq(Entries) /\ (PureFile(q) => PureFile(q \o <<Torn>>))
  <2>1. q \o <<Torn>> = Append(q, Torn)
    BY EntryTypes
  <2>2. Torn \in Entries /\ Torn.val # "garbage"
    BY EntryTypes, ValuesDistinct DEF Torn, Entry
  <2>3. Append(q, Torn) \in Seq(Entries) /\ (PureFile(q) => PureFile(Append(q, Torn)))
    BY <2>2, AppendEntry, AppendPure
  <2> QED
    BY <2>1, <2>3
<1>4. \A i \in 1 .. n : i \in 0 .. n
  OBVIOUS
<1>5. CASE \E i \in 0 .. n : file = SubSeq(s, 1, Len(s) - i)
  BY <1>1, <1>2, <1>5
<1>6. CASE \E i \in 1 .. n : file = SubSeq(s, 1, Len(s) - i) \o <<Torn>>
  <2>1. PICK i, q : i \in 1 .. n /\ q = SubSeq(s, 1, Len(s) - i) /\ file = q \o <<Torn>>
    BY <1>6
  <2>2. q \in Seq(Entries) /\ (PureFile(s) => PureFile(q))
    BY <1>1, <1>2, <1>4, <2>1
  <2> QED
    BY <1>3, <2>1, <2>2
<1> QED
  BY <1>5, <1>6 DEF Remains

LEMMA CrashBase ==
  ASSUME BaseInv, Crash
  PROVE  BaseInv' /\ (Pure(log) /\ Pure(merged) => Pure(log') /\ Pure(merged'))
<1>1. Down /\ UNCHANGED <<currId, may>> /\ currId \in Nat /\ buffered \in Int /\ IsFiles(log) /\ IsFiles(merged)
      /\ may = [j \in Keys |-> may[j]]
  BY DEF Crash, BaseInv, Types
<1>2. PICK file \in Remains(FileOf(currId), buffered) :
        \/ log' = Put(log, currId, file) /\ UNCHANGED merged
        \/ merged' = Put(merged, currId, file) /\ UNCHANGED log
  BY DEF Crash
<1>3. FileOf(currId) \in Seq(Entries) /\ (Pure(log) /\ Pure(merged) => PureFile(FileOf(currId)))
  BY FileType DEF BaseInv, FileOf, Pure
<1>4. file \in Seq(Entries) /\ (Pure(log) /\ Pure(merged) => PureFile(file))
  BY <1>1, <1>2, <1>3, RemainsFiles
<1>5. \A f : IsFiles(f) => /\ IsFiles(Put(f, currId, file))
                           /\ Pure(log) /\ Pure(merged) /\ Pure(f) => Pure(Put(f, currId, file))
  BY <1>1, <1>4, PutFile DEF Pure
<1>6. IsFiles(log') /\ IsFiles(merged') /\ (Pure(log) /\ Pure(merged) => Pure(log') /\ Pure(merged'))
  BY <1>1, <1>2, <1>5
<1> QED
  BY <1>1, <1>6, DownBase

LEMMA LoadBase ==
  ASSUME BaseInv, load
  PROVE  BaseInv'
<1>1. /\ ~up /\ up' /\ stage = "idle" /\ stage' = "idle" /\ buffered' = 0
      /\ UNCHANGED <<log, merged, hint, renamed, may>>
  BY DEF load, BaseInv, Stopped
<1>2. Types /\ IsFiles(log)
  BY DEF BaseInv, Types
<1>3. ASSUME LoadLogs PROVE IsDir(keyDir') /\ currId' \in Nat
  <2>1. keyDir' \in SoundDirs
    BY <1>2, <1>3, IndexSound DEF LoadLogs
  <2>2. \A id \in DOMAIN log : id \in Nat /\ id + 1 \in Nat
    BY <1>2 DEF IsFiles
  <2> QED
    BY <1>3, <2>1, <2>2 DEF SoundDirs, LoadLogs, Highest
<1>4. ASSUME loadFromHintFile PROVE IsDir(keyDir') /\ currId' \in Nat
  <2>1. IsDir(keyDir')
    BY <1>2, <1>4 DEF loadFromHintFile, Types
  <2>2. \A k \in DOMAIN keyDir' : keyDir'[k].id \in Nat
    BY <2>1 DEF IsDir, Places
  <2> QED
    BY <1>4, <2>1, <2>2 DEF loadFromHintFile, Highest
<1>5. Types'
  BY <1>1, <1>2, <1>3, <1>4 DEF load, Types
<1>6. Merging' /\ Stopped'
  BY <1>1 DEF Merging, Stopped
<1>7. InBuffer'
  <2>1. Len(Contents(log', currId')) \in Nat
    BY <1>5, ContentsType DEF Types
  <2> QED
    BY <1>1, <2>1 DEF InBuffer
<1> QED
  BY <1>5, <1>6, <1>7 DEF BaseInv

LEMMA BaseInit == Init => BaseInv
<1> SUFFICES ASSUME Init PROVE BaseInv
  OBVIOUS
<1>1. Types
  <2>1. hint.state = "none" /\ hint.dir = Empty /\ hint = [state |-> hint.state, dir |-> hint.dir]
    BY DEF Init
  <2>2. IsFiles(log) /\ IsFiles(merged) /\ IsDir(keyDir) /\ IsDir(hint.dir)
    BY <2>1, EmptyFacts DEF Init
  <2>3. may = [k \in Keys |-> may[k]] /\ up \in BOOLEAN
    BY DEF Init
  <2> QED
    BY <2>1, <2>2, <2>3 DEF Init, Types
<1>2. Merging /\ Stopped
  BY EmptyFacts DEF Init, Merging, Stopped
<1>3. InBuffer
  <2>1. Len(Contents(log, currId)) \in Nat
    BY <1>1, ContentsType DEF Types
  <2> QED
    BY <2>1 DEF Init, InBuffer
<1> QED
  BY <1>1, <1>2, <1>3 DEF BaseInv

-----------------------------------------------------------------------------
(* The index leads to values.                                              *)

LEMMA IndexWrite ==
  ASSUME IndexInv, NEW k \in Keys, NEW v \in Values \cup {none}, NEW u \in Int, Wrote(k, v, u), up, up', BaseInv',
         UNCHANGED <<merged, hint, stage>>, v = none => k \notin DOMAIN keyDir',
         DOMAIN keyDir' \subseteq DOMAIN keyDir \cup {k},
         \A j \in Keys : Read(j)' = IF j = k THEN v ELSE Read(j)
  PROVE  IndexInv'
<1>1. PICK e \in Entries : e.key = k /\ e.val = v /\ Write(e, u)
  BY DEF Wrote
<1>2. /\ \A id, p, j : At(Contents(log, id), p, j) \in Values =>
              At(Contents(log', id), p, j) = At(Contents(log, id), p, j)
      /\ Pure(log) /\ e.val # "garbage" => Pure(log')
  BY <1>1, WriteFacts DEF IndexInv, BaseInv
<1>3. Exact'
  <2>1. \A j \in DOMAIN keyDir' : j \in Keys
    BY DEF BaseInv, Types, IsDir
  <2>2. \A j \in DOMAIN keyDir : Read(j) \in Values
    BY DEF IndexInv, Exact
  <2> QED
    BY <2>1, <2>2 DEF Exact
<1>4. HintExact'
  BY <1>2 DEF IndexInv, HintExact
<1>5. Pure(log') /\ Pure(merged')
  BY <1>1, <1>2, ValuesDistinct DEF IndexInv
<1>6. Spared'
  BY DEF IndexInv, Spared, Unmerged
<1> QED
  BY <1>3, <1>4, <1>5, <1>6 DEF IndexInv

LEMMA IndexStop ==
  ASSUME IndexInv, Down, BaseInv', Pure(log'), Pure(merged'),
         Unmerged \/ (stage = "idle" /\ UNCHANGED log)
  PROVE  IndexInv'
<1>1. up' = FALSE /\ stage' = "idle" /\ hint' = hint /\ (hint.state = "none" \/ "any" \in Happens)
  BY DEF Down, SingleLog
<1>2. Exact'
  BY <1>1 DEF Exact
<1>3. HintExact'
  <2>1. CASE Unmerged
    BY <1>1, <2>1 DEF HintExact, Unmerged
  <2>2. CASE stage = "idle" /\ UNCHANGED log
    BY <1>1, <2>2 DEF IndexInv, HintExact
  <2> QED
    BY <2>1, <2>2
<1>4. Spared'
  BY <1>1 DEF IndexInv, Spared, Unmerged
<1> QED
  BY <1>2, <1>3, <1>4 DEF IndexInv

LEMMA IndexMerge ==
  ASSUME IndexInv, IndexEvents, MergeCopy \/ MergeHint \/ MergeRename \/ MergeEnd
  PROVE  IndexInv'
<1>0. BaseInv /\ Types
  BY DEF IndexInv, BaseInv
<1>1. CASE MergeCopy
  <2>1. /\ up /\ up' /\ stage = "idle" /\ stage' = "hint" /\ UNCHANGED <<log, hint>>
        /\ IF hint.state = "none" THEN "merge" \in Happens ELSE "remerge" \in Happens
    BY <1>1 DEF MergeCopy, CanWrite, Ready
  <2>2. /\ BaseInv' /\ DOMAIN keyDir' = DOMAIN keyDir /\ (CleanCopy => Pure(merged'))
        /\ \A j : Read(j)' = Read(j)
    BY <1>0, <1>1, MergeCopyBase
  <2>3. \A j \in DOMAIN keyDir : Read(j) \in Values
    BY <2>1 DEF IndexInv, Exact
  <2>4. Exact'
    BY <2>2, <2>3 DEF Exact
  <2>5. Pure(log') /\ Pure(merged')
    BY <2>1, <2>2, <2>3, ValuesDistinct DEF IndexInv, CleanCopy
  <2>6. HintExact'
    BY <2>1 DEF IndexEvents, HintExact
  <2>7. Spared'
    BY <2>1 DEF IndexInv, Spared, Unmerged
  <2> QED
    BY <2>2, <2>4, <2>5, <2>6, <2>7 DEF IndexInv
<1>2. CASE MergeHint
  <2>1. /\ up /\ up' /\ stage = "hint" /\ stage' = "rename" /\ UNCHANGED <<log, merged, keyDir>>
        /\ hint' = IF hint.state = "none" THEN [hint EXCEPT !.state = "opened"] ELSE hint
    BY <1>2 DEF MergeHint
  <2>2. BaseInv' /\ \A j : Read(j)' = Read(j)
    BY <1>0, <1>2, MergeHintBase
  <2>3. Exact' /\ Pure(log') /\ Pure(merged')
    BY <2>1, <2>2 DEF IndexInv, Exact
  <2>4. HintExact'
    <3>1. hint'.state = "written" => hint.state = "written"
      BY <1>0, <2>1 DEF Types
    <3> QED
      BY <2>1, <3>1 DEF IndexInv, HintExact
  <2>5. Spared'
    BY <2>1 DEF IndexInv, Spared, Unmerged
  <2> QED
    BY <2>2, <2>3, <2>4, <2>5 DEF IndexInv
<1>3. CASE MergeRename
  <2>1. up /\ up' /\ stage = "rename" /\ stage' = "rename" /\ UNCHANGED <<hint, keyDir>>
    BY <1>3 DEF MergeRename
  <2>2. BaseInv' /\ (Pure(log) /\ Pure(merged) => Pure(log') /\ Pure(merged')) /\ \A j : Read(j)' = Read(j)
    BY <1>0, <1>3, MergeRenameBase
  <2>3. Exact' /\ Pure(log') /\ Pure(merged')
    BY <2>1, <2>2 DEF IndexInv, Exact
  <2>4. HintExact'
    BY <2>1 DEF IndexInv, HintExact
  <2>5. Spared'
    BY <2>1 DEF IndexInv, Spared, Unmerged
  <2> QED
    BY <2>2, <2>3, <2>4, <2>5 DEF IndexInv
<1>4. CASE MergeEnd
  <2>1. /\ up /\ up' /\ stage = "rename" /\ stage' = "idle" /\ UNCHANGED <<log, merged, keyDir>>
        /\ hint' = IF hint.state = "opened" THEN [state |-> "written", dir |-> keyDir] ELSE hint
        /\ hint.state # "none"
    BY <1>0, <1>4 DEF MergeEnd, BaseInv, Merging
  <2>2. BaseInv' /\ \A j : Read(j)' = Read(j)
    BY <1>0, <1>4, MergeEndBase
  <2>3. Exact' /\ Pure(log') /\ Pure(merged')
    BY <2>1, <2>2 DEF IndexInv, Exact
  <2>4. HintExact'
    <3>1. SUFFICES ASSUME "any" \in Happens
                   PROVE  \A k \in DOMAIN hint'.dir : At(Contents(log', hint'.dir[k].id), hint'.dir[k].vpos, k) \in Values
      BY <2>1 DEF HintExact
    <3>2. hint'.dir = keyDir'
      BY <1>0, <2>1, <3>1 DEF IndexInv, HintExact, Types
    <3>3. \A k \in DOMAIN keyDir' : Read(k)' \in Values
      BY <2>1, <2>3 DEF Exact
    <3>4. \A k \in DOMAIN keyDir' : Read(k)' = At(Contents(log', keyDir'[k].id), keyDir'[k].vpos, k)
      BY <2>1, ReadAt DEF FileOf
    <3> QED
      BY <3>2, <3>3, <3>4
  <2>5. Spared'
    BY <1>0, <2>1 DEF IndexInv, Spared, Unmerged, Types
  <2> QED
    BY <2>2, <2>3, <2>4, <2>5 DEF IndexInv
<1> QED
  BY <1>1, <1>2, <1>3, <1>4

LEMMA IndexLoad ==
  ASSUME IndexInv, load
  PROVE  IndexInv'
<1>0. BaseInv /\ IsFiles(log) /\ Pure(log)
  BY DEF IndexInv, BaseInv, Types
<1>1. ~up /\ up' /\ stage = "idle" /\ stage' = "idle" /\ UNCHANGED <<log, merged, hint>>
  BY DEF load, IndexInv, BaseInv, Stopped
<1>2. \A k \in DOMAIN keyDir' : At(Contents(log, keyDir'[k].id), keyDir'[k].vpos, k) \in Values
  <2>1. CASE LoadLogs
    <3>1. keyDir' \in SoundDirs
      BY <1>0, <2>1, IndexSound DEF LoadLogs
    <3> QED
      BY <1>0, <3>1 DEF SoundDirs
  <2>2. CASE loadFromHintFile
    <3>1. keyDir' = hint.dir /\ hint.state # "none"
      BY <2>2 DEF loadFromHintFile
    <3>2. "any" \in Happens /\ hint.state = "written"
      BY <1>1, <3>1 DEF IndexInv, Spared, BaseInv, Types
    <3> QED
      BY <3>1, <3>2 DEF IndexInv, HintExact
  <2> QED
    BY <2>1, <2>2 DEF load
<1>3. Exact'
  <2>1. \A k \in DOMAIN keyDir' : Read(k)' = At(Contents(log, keyDir'[k].id), keyDir'[k].vpos, k)
    BY <1>1, ReadAt DEF FileOf
  <2> QED
    BY <1>2, <2>1 DEF Exact
<1>4. HintExact' /\ Spared' /\ Pure(log') /\ Pure(merged')
  BY <1>1 DEF IndexInv, HintExact, Spared, Unmerged
<1>5. BaseInv'
  BY <1>0, LoadBase
<1> QED
  BY <1>3, <1>4, <1>5 DEF IndexInv

LEMMA IndexStep ==
  ASSUME IndexEvents, IndexInv, [Next]_vars
  PROVE  IndexInv'
<1>0. BaseInv /\ buffered \in Int /\ Pure(log) /\ Pure(merged)
  BY DEF IndexInv, BaseInv, Types
<1>1. ASSUME NEW k \in Keys, NEW v \in Values, set(k, v) PROVE IndexInv'
  <2>1. /\ BaseInv' /\ Wrote(k, v, buffered) /\ DOMAIN keyDir' = DOMAIN keyDir \cup {k}
        /\ \A j \in Keys : Read(j)' = IF j = k THEN v ELSE Read(j)
    BY <1>0, <1>1, SetBase
  <2>2. up /\ up' /\ UNCHANGED <<merged, hint, stage>>
    BY <1>1 DEF set, CanWrite, Ready
  <2> QED
    BY <1>0, <2>1, <2>2, ValuesDistinct, IndexWrite
<1>2. ASSUME NEW k \in Keys, erase(k) PROVE IndexInv'
  <2>1. PICK u \in Int : u = IF Flushes(k) THEN 0 ELSE buffered
    BY <1>0
  <2>2. /\ BaseInv' /\ Wrote(k, none, u) /\ DOMAIN keyDir' = DOMAIN keyDir \ {k}
        /\ \A j \in Keys : Read(j)' = IF j = k THEN none ELSE Read(j)
    BY <1>0, <1>2, <2>1, EraseBase
  <2>3. up /\ up' /\ UNCHANGED <<merged, hint, stage>>
    BY <1>2 DEF erase, CanWrite, Ready
  <2> QED
    BY <2>2, <2>3, IndexWrite
<1>3. ASSUME NEW k \in Keys, get(k) PROVE IndexInv'
  <2>1. BaseInv' /\ \A j : Read(j)' = Read(j)
    BY <1>0, <1>3, GetBase
  <2>2. UNCHANGED <<log, merged, hint, keyDir, stage, up>>
    BY <1>3 DEF get
  <2> QED
    BY <2>1, <2>2 DEF IndexInv, Exact, HintExact, Spared, Unmerged
<1>4. CASE MergeCopy \/ MergeHint \/ MergeRename \/ MergeEnd
  BY <1>4, IndexMerge
<1>5. CASE Quit
  <2>1. Down /\ stage = "idle" /\ UNCHANGED <<log, merged>>
    BY <1>5 DEF Quit, Ready
  <2> QED
    BY <1>0, <1>5, <2>1, QuitBase, IndexStop
<1>6. CASE Crash
  <2>1. Down /\ Unmerged
    BY <1>6 DEF Crash, Down, SingleLog, IndexEvents, IndexInv, Spared, Unmerged
  <2> QED
    BY <1>0, <1>6, <2>1, CrashBase, IndexStop
<1>7. CASE load
  BY <1>7, IndexLoad
<1>8. CASE UNCHANGED vars
  <2>1. UNCHANGED <<log, merged, hint, keyDir, currId, buffered, stage, renamed, may, up>>
    BY <1>8 DEF vars
  <2>2. \A k : Read(k)' = Read(k)
    BY <2>1 DEF Read, FileOf
  <2>3. BaseInv'
    BY <1>0, <2>1 DEF BaseInv, Types, Merging, Stopped, InBuffer, Unmerged
  <2> QED
    BY <2>1, <2>2, <2>3 DEF IndexInv, Exact, HintExact, Spared, Unmerged
<1> QED
  BY <1>1, <1>2, <1>3, <1>4, <1>5, <1>6, <1>7, <1>8 DEF Next

LEMMA IndexInit == Init => IndexInv
<1> SUFFICES ASSUME Init PROVE IndexInv
  OBVIOUS
<1>1. BaseInv
  BY BaseInit
<1>2. Exact /\ HintExact /\ Spared
  BY EmptyFacts DEF Init, Exact, HintExact, Spared, Unmerged
<1>3. \A id : Contents(Empty, id) = <<>>
  BY EmptyFacts DEF Contents
<1>4. Pure(log) /\ Pure(merged)
  BY <1>3 DEF Init, Pure, PureFile
<1> QED
  BY <1>1, <1>2, <1>4 DEF IndexInv

(* The places kept in memory survive new files, merges and restarts:       *)
(* whatever key is asked for, get finds a value of that key, never the     *)
(* bytes of another entry.  This holds for every choice of the events in   *)
(* which a store that has been merged is neither killed nor merged again   *)
(* before it is restarted: either can leave a hint file, from which alone  *)
(* the next start reads, that is not the index of the files.               *)
THEOREM IndexIsExact ==
  ASSUME IndexEvents
  PROVE  Spec => []IndexExact
<1>1. Init => IndexInv
  BY IndexInit
<1>2. IndexInv /\ [Next]_vars => IndexInv'
  BY IndexStep
<1>3. IndexInv => IndexExact
  <2> SUFFICES ASSUME IndexInv, up, NEW k \in Keys PROVE Read(k) # "garbage"
    BY DEF IndexExact
  <2> QED
    BY ReadAt, ValuesDistinct DEF IndexInv, Exact
<1> QED
  BY <1>1, <1>2, <1>3, PTL DEF Spec

-----------------------------------------------------------------------------
(* What the store is restored to.  The last of the first n entries of a    *)
(* file about k gives it value v; and those entries are whole and in the   *)
(* order of their timestamps, as far as k is concerned.                    *)

ValueAt(s, n, k, v) ==
  \/ v = none /\ \A i \in 1 .. n : s[i].key # k
  \/ \E i \in 1 .. n : s[i].key = k /\ s[i].val = v /\ \A j \in i + 1 .. n : s[j].key # k

Orderly(s, n, k) ==
  \A j \in 1 .. n : s[j].key = k =>
    \A i \in 1 .. j - 1 :
      /\ s[i] # Torn
      /\ \/ s[i].key # k \/ s[i].val = none \/ s[j].val = none
         \/ \E h \in i + 1 .. j - 1 : s[h].key = k
         \/ s[i].tstamp < s[j].tstamp

(* The next start reads a single log and nothing else, of which `Unsaved'  *)
(* entries may still be lost.  Of a key that is in order there, what is    *)
(* left has a value that it may have, and the index knows the last one.    *)
Sole == hint.state = "none" /\ DOMAIN log \subseteq {0}

Unsaved == IF stage = "idle" /\ currId = 0 THEN buffered ELSE 0

Kept(s, b, m) ==
  \A n \in Len(s) - b .. Len(s), k \in Keys : \A v :
    Orderly(s, n, k) /\ ValueAt(s, n, k, v) => v \in m[k]

Known(s, b, f) == \A k \in Keys : Orderly(s, Len(s) - b, k) => ValueAt(s, Len(s), k, f[k])

Recorded ==
  Sole => /\ Kept(Contents(log, 0), Unsaved, may)
          /\ up => Known(Contents(log, 0), Unsaved, Store)

StoreInv == BaseInv /\ Recorded

LEMMA ValueAtSame ==
  ASSUME NEW n \in Nat, NEW s, NEW r, \A i \in 1 .. n : r[i] = s[i], NEW k, NEW v
  PROVE  ValueAt(r, n, k, v) <=> ValueAt(s, n, k, v)
<1>1. \A i \in 1 .. n : \A j \in i + 1 .. n : j \in 1 .. n
  OBVIOUS
<1> QED
  BY <1>1 DEF ValueAt

LEMMA ValueAtUnique ==
  ASSUME NEW n \in Nat, NEW s, NEW k, NEW v, NEW w, ValueAt(s, n, k, v), ValueAt(s, n, k, w)
  PROVE  v = w
<1>1. CASE \A i \in 1 .. n : s[i].key # k
  BY <1>1 DEF ValueAt
<1>2. CASE \E i \in 1 .. n : s[i].key = k
  <2>1. PICK i \in 1 .. n : s[i].key = k /\ s[i].val = v /\ \A j \in i + 1 .. n : s[j].key # k
    BY <1>2 DEF ValueAt
  <2>2. PICK j \in 1 .. n : s[j].key = k /\ s[j].val = w /\ \A h \in j + 1 .. n : s[h].key # k
    BY <1>2 DEF ValueAt
  <2>3. i = j
    BY <2>1, <2>2
  <2> QED
    BY <2>1, <2>2, <2>3
<1> QED
  BY <1>1, <1>2

LEMMA ValueAtNext ==
  ASSUME NEW n \in Nat, NEW s, NEW k, NEW v
  PROVE  ValueAt(s, n + 1, k, v) <=> IF s[n + 1].key = k THEN v = s[n + 1].val ELSE ValueAt(s, n, k, v)
<1>1. CASE s[n + 1].key = k
  <2>1. n + 1 \in 1 .. n + 1 /\ \A j \in (n + 1) + 1 .. n + 1 : FALSE
    OBVIOUS
  <2>2. ValueAt(s, n + 1, k, s[n + 1].val)
    BY <1>1, <2>1 DEF ValueAt
  <2>3. ValueAt(s, n + 1, k, v) => v = s[n + 1].val
    BY <2>2, ValueAtUnique
  <2> QED
    BY <1>1, <2>2, <2>3
<1>2. CASE s[n + 1].key # k
  <2>1. \A i \in 1 .. n : i \in 1 .. n + 1 /\ \A j \in i + 1 .. n + 1 : j \in i + 1 .. n \/ j = n + 1
    OBVIOUS
  <2>2. \A i \in 1 .. n + 1 : i \in 1 .. n \/ i = n + 1
    OBVIOUS
  <2>3. \A i \in 1 .. n : \A j \in i + 1 .. n : j \in i + 1 .. n + 1
    OBVIOUS
  <2> QED
    BY <1>2, <2>1, <2>2, <2>3 DEF ValueAt
<1> QED
  BY <1>1, <1>2

LEMMA ValueAtAppend ==
  ASSUME NEW s \in Seq(Entries), NEW e \in Entries, NEW k, NEW v
  PROVE  /\ \A n \in 0 .. Len(s) : ValueAt(Append(s, e), n, k, v) <=> ValueAt(s, n, k, v)
         /\ ValueAt(Append(s, e), Len(s) + 1, k, v) <=> IF e.key = k THEN v = e.val ELSE ValueAt(s, Len(s), k, v)
<1>1. Len(s) \in Nat /\ Append(s, e)[Len(s) + 1] = e /\ \A i \in 1 .. Len(s) : Append(s, e)[i] = s[i]
  BY AppendEntry
<1>2. \A n \in 0 .. Len(s) : n \in Nat /\ \A i \in 1 .. n : i \in 1 .. Len(s)
  BY <1>1
<1>3. \A n \in 0 .. Len(s) : ValueAt(Append(s, e), n, k, v) <=> ValueAt(s, n, k, v)
  BY <1>1, <1>2, ValueAtSame
<1>4. ValueAt(Append(s, e), Len(s) + 1, k, v) <=> IF e.key = k THEN v = e.val ELSE ValueAt(Append(s, e), Len(s), k, v)
  <2>1. PICK n \in Nat : n = Len(s)
    BY <1>1
  <2>2. PICK r : r = Append(s, e)
    OBVIOUS
  <2>3. r[n + 1] = e
    BY <1>1, <2>1, <2>2
  <2>4. ValueAt(r, n + 1, k, v) <=> IF r[n + 1].key = k THEN v = r[n + 1].val ELSE ValueAt(r, n, k, v)
    BY ValueAtNext
  <2> QED
    BY <2>1, <2>2, <2>3, <2>4
<1>5. Len(s) \in 0 .. Len(s)
  BY <1>1
<1> QED
  BY <1>3, <1>4, <1>5


LEMMA OrderlyLess ==
  ASSUME NEW n \in Int, NEW m \in Int, m <= n, NEW s, NEW k, Orderly(s, n, k)
  PROVE  Orderly(s, m, k)
<1>1. \A j \in 1 .. m : j \in 1 .. n
  OBVIOUS
<1> QED
  BY <1>1 DEF Orderly

LEMMA OrderlySame ==
  ASSUME NEW n \in Int, NEW s, NEW r, \A i \in 1 .. n : r[i] = s[i], NEW k
  PROVE  Orderly(r, n, k) <=> Orderly(s, n, k)
<1>1. \A j \in 1 .. n : \A i \in 1 .. j - 1 : i \in 1 .. n /\ \A h \in i + 1 .. j - 1 : h \in 1 .. n
  OBVIOUS
<1> QED
  BY <1>1 DEF Orderly

(* What is on disk when everything is flushed.                             *)
LEMMA KeptFlushed ==
  ASSUME NEW s \in Seq(Entries), NEW b \in Nat, NEW f, Known(s, b, f), NEW m, \A k \in Keys : f[k] \in m[k]
  PROVE  Kept(s, 0, m) /\ Known(s, 0, f)
<1>1. PICK len \in Nat : len = Len(s)
  OBVIOUS
<1>2. \A k \in Keys : Orderly(s, len, k) => ValueAt(s, len, k, f[k])
  <2>1. len - b \in Int /\ len \in Int /\ len - b <= len
    OBVIOUS
  <2> QED
    BY <1>1, <2>1, OrderlyLess DEF Known
<1>3. \A k, v, w : ValueAt(s, len, k, v) /\ ValueAt(s, len, k, w) => v = w
  BY ValueAtUnique
<1>4. len - 0 = len /\ \A n \in len - 0 .. len : n = len
  OBVIOUS
<1>5. Kept(s, 0, m)
  BY <1>1, <1>2, <1>3, <1>4 DEF Kept
<1>6. Known(s, 0, f)
  BY <1>1, <1>2, <1>4 DEF Known
<1> QED
  BY <1>5, <1>6

(* A file that grows by an entry of k, with value v, and of which c        *)
(* entries were unsaved.                                                   *)
LEMMA KeptAppend ==
  ASSUME NEW s \in Seq(Entries), NEW e \in Entries, NEW b \in Nat, NEW c \in 0 .. b,
         NEW f, NEW g, Known(s, b, f), g[e.key] = e.val, \A j \in Keys : j # e.key => g[j] = f[j],
         NEW m, NEW w, Kept(s, c, m), \A j \in Keys : m[j] \subseteq w[j], e.key \in Keys => e.val \in w[e.key]
  PROVE  Kept(Append(s, e), c + 1, w) /\ Known(Append(s, e), c + 1, g)
<1>1. PICK r \in Seq(Entries), len \in Nat :
         /\ r = Append(s, e) /\ len = Len(s) /\ Len(r) = len + 1 /\ r[len + 1] = e
         /\ \A i \in 1 .. len : r[i] = s[i]
  BY AppendEntry
<1>2. \A n \in Int : n <= len => \A k : Orderly(r, n, k) <=> Orderly(s, n, k)
  <2> SUFFICES ASSUME NEW n \in Int, n <= len, NEW k PROVE Orderly(r, n, k) <=> Orderly(s, n, k)
    OBVIOUS
  <2>1. \A i \in 1 .. n : r[i] = s[i]
    BY <1>1
  <2> QED
    BY <2>1, OrderlySame
<1>3. \A n \in 0 .. len : \A k, v : ValueAt(r, n, k, v) <=> ValueAt(s, n, k, v)
  BY <1>1, ValueAtAppend
<1>4. \A k, v : ValueAt(r, len + 1, k, v) <=> IF e.key = k THEN v = e.val ELSE ValueAt(s, len, k, v)
  BY <1>1, ValueAtAppend
<1>5. ASSUME NEW n \in len - c .. len + 1, NEW k \in Keys, NEW v, Orderly(r, n, k), ValueAt(r, n, k, v)
      PROVE  v \in w[k]
  <2>1. CASE n <= len
    <3>1. n \in len - c .. len /\ n \in Int
      BY <2>1
    <3>2. Orderly(s, n, k)
      BY <1>2, <1>5, <2>1, <3>1
    <3>3. ValueAt(s, n, k, v)
      <4>1. CASE n >= 0
        <5>1. n \in 0 .. len
          BY <2>1, <3>1, <4>1
        <5> QED
          BY <1>3, <1>5, <5>1
      <4>2. CASE n < 0
        BY <1>5, <4>2 DEF ValueAt
      <4> QED
        BY <4>1, <4>2, <3>1
    <3> QED
      BY <1>1, <3>1, <3>2, <3>3 DEF Kept
  <2>2. CASE n = len + 1
    <3>1. CASE e.key = k
      BY <1>4, <1>5, <2>2, <3>1
    <3>2. CASE e.key # k
      <4>1. ValueAt(s, len, k, v)
        BY <1>4, <1>5, <2>2, <3>2
      <4>2. len \in Int /\ len + 1 \in Int /\ len <= len + 1 /\ len \in len - c .. len
        OBVIOUS
      <4>3. Orderly(s, len, k)
        BY <1>2, <1>5, <2>2, <4>2, OrderlyLess
      <4> QED
        BY <1>1, <4>1, <4>2, <4>3 DEF Kept
    <3> QED
      BY <3>1, <3>2
  <2> QED
    BY <2>1, <2>2
<1>6. ASSUME NEW k \in Keys, Orderly(r, len - c, k) PROVE ValueAt(r, len + 1, k, g[k])
  <2>1. len - b \in Int /\ len - c \in Int /\ len - b <= len - c /\ len - c <= len
    OBVIOUS
  <2>2. Orderly(s, len - b, k)
    BY <1>2, <1>6, <2>1, OrderlyLess
  <2>3. ValueAt(s, len, k, f[k])
    BY <1>1, <2>2 DEF Known
  <2> QED
    BY <1>4, <2>3
<1>7. PICK q \in Int : q = c + 1
  OBVIOUS
<1>8. Len(r) - q = len - c /\ Len(r) = len + 1
  BY <1>1, <1>7
<1>9. Kept(r, q, w)
  BY <1>5, <1>8 DEF Kept
<1>10. Known(r, q, g)
  BY <1>6, <1>8 DEF Known
<1> QED
  BY <1>1, <1>7, <1>9, <1>10

LEMMA RecordedFacts ==
  ASSUME StoreInv, Sole
  PROVE  /\ Contents(log, 0) \in Seq(Entries) /\ Unsaved \in 0 .. Len(Contents(log, 0)) /\ Unsaved \in Nat
         /\ Kept(Contents(log, 0), Unsaved, may)
         /\ up => Known(Contents(log, 0), Unsaved, Store)
<1>1. Contents(log, 0) \in Seq(Entries) /\ Len(Contents(log, 0)) \in Nat
  BY ContentsType DEF StoreInv, BaseInv, Types
<1>2. Unsaved \in 0 .. Len(Contents(log, 0))
  BY <1>1 DEF Unsaved, Sole, StoreInv, BaseInv, InBuffer, Unmerged
<1> QED
  BY <1>1, <1>2 DEF StoreInv, Recorded

(* A value is written to the log, or a tombstone is.                       *)
LEMMA WriteRecorded ==
  ASSUME StoreInv, Ready, NEW k \in Keys, NEW v \in Values \cup {none}, NEW u, NEW m,
         Wrote(k, v, u), UNCHANGED <<hint, stage>>, up',
         \A j \in Keys : Read(j)' = IF j = k THEN v ELSE Read(j),
         (u = buffered /\ m = may) \/ (u = 0 /\ m = OnDisk(Store)),
         may' = IF currId' # currId THEN OnDisk([Store EXCEPT ![k] = v]) ELSE [m EXCEPT ![k] = @ \cup {v}]
  PROVE  Recorded'
<1> SUFFICES ASSUME Sole'
             PROVE  Kept(Contents(log', 0), Unsaved', may') /\ Known(Contents(log', 0), Unsaved', Store')
  BY DEF Recorded
<1>1. PICK e \in Entries : e.key = k /\ e.val = v /\ Write(e, u)
  BY DEF Wrote
<1>2. Types /\ currId \in Nat /\ buffered \in Int /\ u \in Int /\ may = [j \in Keys |-> may[j]]
  BY DEF StoreInv, BaseInv, Types
<1>3. Sole /\ currId = 0
  <2>1. DOMAIN log' = DOMAIN log \cup {currId}
    BY <1>1 DEF Write, Put
  <2> QED
    BY <2>1 DEF Sole
<1>4. PICK s \in Seq(Entries), b \in Nat :
        /\ s = Contents(log, 0) /\ b = Unsaved /\ b = buffered /\ Len(s) \in Nat
        /\ Kept(s, b, may) /\ Known(s, b, Store)
  BY <1>3, RecordedFacts DEF Ready, Unsaved
<1>5. Contents(log', 0) = Append(s, e)
  BY <1>1, <1>2, <1>3, <1>4, WriteFacts
<1>6. u \in 0 .. b /\ Kept(s, u, m) /\ m = [j \in Keys |-> m[j]]
  <2>1. CASE u = buffered /\ m = may
    BY <1>2, <1>4, <2>1
  <2>2. CASE u = 0 /\ m = OnDisk(Store)
    <3>1. \A j \in Keys : Store[j] \in m[j]
      BY <2>2 DEF OnDisk
    <3>2. Kept(s, 0, m)
      BY <1>4, <3>1, KeptFlushed
    <3> QED
      BY <1>4, <2>2, <3>2 DEF OnDisk
  <2> QED
    BY <2>1, <2>2
<1>7. Store'[k] = v /\ \A j \in Keys : j # k => Store'[j] = Store[j]
  BY DEF Store
<1>8. PICK w : w = [m EXCEPT ![k] = @ \cup {v}]
  OBVIOUS
<1>9. (\A j \in Keys : m[j] \subseteq w[j]) /\ v \in w[k]
  BY <1>6, <1>8
<1>10. Kept(Append(s, e), u + 1, w) /\ Known(Append(s, e), u + 1, Store')
  BY <1>1, <1>4, <1>6, <1>7, <1>9, KeptAppend
<1>11. CASE currId' = currId
  <2>1. buffered' = u + 1
    BY <1>1, <1>2, <1>11 DEF Write
  <2>2. Unsaved' = u + 1
    BY <1>3, <1>11, <2>1 DEF Unsaved, Ready
  <2> QED
    BY <1>5, <1>8, <1>10, <1>11, <2>2
<1>12. CASE currId' # currId
  <2>1. Unsaved' = 0
    BY <1>3, <1>12 DEF Unsaved
  <2>2. may' = [j \in Keys |-> {Store'[j]}]
    BY <1>7, <1>12 DEF OnDisk, Store
  <2>3. \A j \in Keys : Store'[j] \in may'[j]
    BY <2>2
  <2>4. Append(s, e) \in Seq(Entries) /\ u + 1 \in Nat
    BY <1>4, <1>6, AppendEntry
  <2>5. Kept(Append(s, e), 0, may') /\ Known(Append(s, e), 0, Store')
    BY <1>10, <2>3, <2>4, KeptFlushed
  <2> QED
    BY <1>5, <2>1, <2>5
<1> QED
  BY <1>11, <1>12

LEMMA SetRecorded ==
  ASSUME StoreInv, NEW k \in Keys, NEW v \in Values, set(k, v)
  PROVE  Recorded'
<1>1. Wrote(k, v, buffered) /\ \A j \in Keys : Read(j)' = IF j = k THEN v ELSE Read(j)
  BY SetBase DEF StoreInv
<1>2. /\ Ready /\ up' /\ UNCHANGED <<hint, stage>>
      /\ may' = IF currId' # currId THEN OnDisk([Store EXCEPT ![k] = v]) ELSE [may EXCEPT ![k] = @ \cup {v}]
  BY DEF set, CanWrite, Ready
<1> QED
  BY <1>1, <1>2, WriteRecorded

LEMMA EraseRecorded ==
  ASSUME StoreInv, NEW k \in Keys, erase(k)
  PROVE  Recorded'
<1>1. PICK u, m : /\ u = IF Flushes(k) THEN 0 ELSE buffered
                  /\ m = IF Flushes(k) THEN OnDisk(Store) ELSE may
  OBVIOUS
<1>2. Wrote(k, none, u) /\ \A j \in Keys : Read(j)' = IF j = k THEN none ELSE Read(j)
  BY <1>1, EraseBase DEF StoreInv
<1>3. /\ Ready /\ up' /\ UNCHANGED <<hint, stage>>
      /\ may' = IF currId' # currId THEN OnDisk([Store EXCEPT ![k] = none]) ELSE [m EXCEPT ![k] = @ \cup {none}]
  BY <1>1 DEF erase, CanWrite, Ready
<1>4. (u = buffered /\ m = may) \/ (u = 0 /\ m = OnDisk(Store))
  BY <1>1
<1> QED
  BY <1>2, <1>3, <1>4, WriteRecorded

(* Everything is flushed, and the log stays what it is.                    *)
LEMMA FlushRecorded ==
  ASSUME StoreInv, up, UNCHANGED <<log, hint>>, may' = OnDisk(Store), Unsaved' = 0, up' => Store' = Store
  PROVE  Recorded'
<1> SUFFICES ASSUME Sole'
             PROVE  Kept(Contents(log', 0), Unsaved', may') /\ (up' => Known(Contents(log', 0), Unsaved', Store'))
  BY DEF Recorded
<1>1. Sole
  BY DEF Sole
<1>2. PICK s \in Seq(Entries), b \in Nat : s = Contents(log, 0) /\ Known(s, b, Store)
  BY <1>1, RecordedFacts
<1>3. \A j \in Keys : Store[j] \in may'[j]
  BY DEF OnDisk
<1>4. Kept(s, 0, may') /\ Known(s, 0, Store)
  BY <1>2, <1>3, KeptFlushed
<1> QED
  BY <1>2, <1>4

LEMMA GetRecorded ==
  ASSUME StoreInv, NEW k \in Keys, get(k)
  PROVE  Recorded'
<1>1. up /\ UNCHANGED <<log, hint>> /\ may' = OnDisk(Store) /\ buffered' = 0
  BY DEF get, Ready
<1>2. Unsaved' = 0
  BY <1>1 DEF Unsaved
<1>3. Store' = Store
  BY GetBase DEF Store, StoreInv
<1> QED
  BY <1>1, <1>2, <1>3, FlushRecorded

LEMMA QuitRecorded ==
  ASSUME StoreInv, Quit
  PROVE  Recorded'
<1>1. up /\ UNCHANGED <<log, hint>> /\ may' = OnDisk(Store) /\ buffered' = 0 /\ up' = FALSE
  BY DEF Quit, Ready, Down
<1>2. Unsaved' = 0
  BY <1>1 DEF Unsaved
<1> QED
  BY <1>1, <1>2, FlushRecorded

LEMMA MergeRecorded ==
  ASSUME StoreInv, MergeCopy \/ MergeHint \/ MergeRename \/ MergeEnd
  PROVE  Recorded'
<1>1. CASE MergeCopy
  <2>1. up /\ UNCHANGED <<log, hint>> /\ may' = OnDisk(Store) /\ stage' = "hint"
    BY <1>1 DEF MergeCopy, CanWrite, Ready
  <2>2. Unsaved' = 0
    BY <2>1 DEF Unsaved
  <2>3. Store' = Store
    BY <1>1, MergeCopyBase DEF Store, StoreInv
  <2> QED
    BY <2>1, <2>2, <2>3, FlushRecorded
<1>2. CASE MergeHint \/ MergeEnd
  <2>1. hint'.state # "none"
    BY <1>2, MergeHintBase, MergeEndBase DEF StoreInv
  <2> QED
    BY <2>1 DEF Recorded, Sole
<1>3. CASE MergeRename
  <2>1. hint'.state # "none"
    BY <1>3 DEF MergeRename, StoreInv, BaseInv, Merging
  <2> QED
    BY <2>1 DEF Recorded, Sole
<1> QED
  BY <1>1, <1>2, <1>3

(* The program is killed: of a single log, a beginning is left that holds  *)
(* all but unsaved entries, and perhaps one more that is cut off.          *)
LEMMA RemainsKept ==
  ASSUME NEW s \in Seq(Entries), NEW b \in 0 .. Len(s), NEW m, Kept(s, b, m), NEW file \in Remains(s, b)
  PROVE  Kept(file, 0, m)
<1>1. PICK len \in Nat : len = Len(s) /\ b \in 0 .. len
  OBVIOUS
<1>2. PICK i, r : /\ i \in 0 .. b /\ r = SubSeq(s, 1, len - i)
                  /\ file = r \/ file = r \o <<Torn>>
  <2>1. \/ \E i \in 0 .. b : file = SubSeq(s, 1, len - i)
        \/ \E i \in 1 .. b : file = SubSeq(s, 1, len - i) \o <<Torn>>
    BY <1>1 DEF Remains
  <2>2. \A i \in 1 .. b : i \in 0 .. b
    BY <1>1
  <2> QED
    BY <2>1, <2>2
<1>3. PICK h \in Nat : h = len - i /\ h \in len - b .. len /\ h <= len
  <2>1. b \in Nat /\ b <= len
    BY <1>1
  <2>2. i \in Nat /\ i <= b
    BY <1>2, <2>1
  <2>3. len - i \in Nat /\ len - i \in len - b .. len /\ len - i <= len
    BY <2>1, <2>2
  <2> QED
    BY <2>3
<1>4. r \in Seq(Entries) /\ Len(r) = h /\ \A j \in 1 .. h : r[j] = s[j]
  <2>1. \A j \in 1 .. h : s[j] \in Entries
    BY <1>1, <1>3
  <2> QED
    BY <1>2, <1>3, <2>1, SubSeqProperties
<1>5. ASSUME NEW k \in Keys, NEW v, Orderly(r, h, k), ValueAt(r, h, k, v) PROVE v \in m[k]
  <2>1. Orderly(s, h, k)
    BY <1>4, <1>5, OrderlySame
  <2>2. ValueAt(s, h, k, v)
    BY <1>4, <1>5, ValueAtSame
  <2> QED
    BY <1>1, <1>3, <2>1, <2>2 DEF Kept
<1>6. CASE file = r
  <2>1. h - 0 = h /\ \A n \in h - 0 .. h : n = h
    OBVIOUS
  <2> QED
    BY <1>4, <1>5, <1>6, <2>1 DEF Kept
<1>7. CASE file = r \o <<Torn>>
  <2>1. file = Append(r, Torn) /\ Torn \in Entries /\ Torn.key = none
    BY <1>4, <1>7, EntryTypes
  <2>2. file \in Seq(Entries) /\ Len(file) = h + 1 /\ \A j \in 1 .. h : file[j] = r[j]
    BY <1>4, <2>1, AppendEntry
  <2>3. ASSUME NEW k \in Keys, NEW v, Orderly(file, h + 1, k), ValueAt(file, h + 1, k, v) PROVE v \in m[k]
    <3>1. Orderly(file, h, k)
      <4>1. h + 1 \in Int /\ h \in Int /\ h <= h + 1
        OBVIOUS
      <4> QED
        BY <2>3, <4>1, OrderlyLess
    <3>2. Orderly(r, h, k)
      <4>1. h \in Int /\ \A j \in 1 .. h : file[j] = r[j]
        BY <2>2
      <4>2. Orderly(file, h, k) <=> Orderly(r, h, k)
        BY <4>1, OrderlySame
      <4> QED
        BY <3>1, <4>2
    <3>3. ValueAt(r, h, k, v)
      <4>1. ValueAt(Append(r, Torn), Len(r) + 1, k, v) <=>
              IF Torn.key = k THEN v = Torn.val ELSE ValueAt(r, Len(r), k, v)
        BY <1>4, <2>1, ValueAtAppend
      <4>2. Torn.key # k /\ ValueAt(Append(r, Torn), Len(r) + 1, k, v)
        BY <1>4, <2>1, <2>3, ValuesDistinct
      <4> QED
        BY <1>4, <4>1, <4>2
    <3> QED
      BY <1>5, <3>2, <3>3
  <2>4. (h + 1) - 0 = h + 1 /\ \A n \in (h + 1) - 0 .. h + 1 : n = h + 1
    OBVIOUS
  <2> QED
    BY <2>2, <2>3, <2>4 DEF Kept
<1> QED
  BY <1>2, <1>6, <1>7

LEMMA CrashRecorded ==
  ASSUME StoreInv, Crash
  PROVE  Recorded'
<1> SUFFICES ASSUME Sole' PROVE Kept(Contents(log', 0), Unsaved', may')
  BY DEF Recorded, Crash, Down
<1>1. up' = FALSE /\ buffered' = 0 /\ UNCHANGED <<hint, may>> /\ Unsaved' = 0
  BY DEF Crash, Down, Unsaved
<1>2. stage \in {"idle", "hint"} /\ Types
  BY <1>1 DEF Sole, StoreInv, BaseInv, Merging, Types
<1>3. PICK file \in Remains(FileOf(currId), buffered) :
        IF stage = "idle" \/ (stage = "rename" /\ currId < renamed)
          THEN log' = Put(log, currId, file) /\ UNCHANGED merged
          ELSE merged' = Put(merged, currId, file) /\ UNCHANGED log
  BY DEF Crash
<1>4. CASE stage = "idle"
  <2>1. log' = Put(log, currId, file)
    BY <1>3, <1>4
  <2>2. Sole /\ currId = 0
    <3>1. DOMAIN log' = DOMAIN log \cup {currId}
      BY <2>1 DEF Put
    <3> QED
      BY <1>1, <3>1 DEF Sole
  <2>3. PICK s, b : s \in Seq(Entries) /\ s = Contents(log, 0) /\ b = buffered /\ b \in 0 .. Len(s) /\ Kept(s, b, may)
    BY <1>4, <2>2, RecordedFacts DEF Unsaved
  <2>4. file \in Remains(s, b)
    BY <1>3, <1>4, <2>2, <2>3 DEF FileOf
  <2>5. Contents(log', 0) = file
    BY <2>1, <2>2 DEF Contents, Put
  <2>6. Kept(file, 0, may)
    BY <2>3, <2>4, RemainsKept
  <2> QED
    BY <1>1, <2>5, <2>6
<1>5. CASE stage = "hint"
  <2>1. UNCHANGED log
    BY <1>3, <1>5
  <2>2. Sole /\ Unsaved = 0
    BY <1>1, <1>5, <2>1 DEF Sole, Unsaved
  <2> QED
    BY <1>1, <2>1, <2>2, RecordedFacts
<1> QED
  BY <1>2, <1>4, <1>5

(* A log is read back: after i entries the index knows what they say of a  *)
(* key that is in order.                                                   *)
KnowsOf(d, s, i, k) ==
  IF k \in DOMAIN d
    THEN /\ d[k].id = 0 /\ d[k].vpos \in 1 .. i
         /\ s[d[k].vpos].key = k /\ s[d[k].vpos].val # none /\ d[k].tstamp = s[d[k].vpos].tstamp
         /\ \A j \in d[k].vpos + 1 .. i : s[j].key # k
    ELSE ValueAt(s, i, k, none)

LEMMA KnowsNext ==
  ASSUME IsFiles(log), 0 \in DOMAIN log, NEW i \in 1 .. Len(log[0]), NEW k \in Keys, Orderly(log[0], Len(log[0]), k),
         NEW d, IsDir(d), KnowsOf(d, log[0], i - 1, k)
  PROVE  KnowsOf(LoadEntry(d, 0, i), log[0], i, k)
<1>1. PICK s \in Seq(Entries) : s = log[0] /\ Len(s) \in Nat
  BY DEF IsFiles
<1>2. PICK e \in Entries : e = s[i]
  BY <1>1
<1>3. PICK h \in Nat : h = i - 1 /\ i = h + 1 /\ i \in Nat /\ KnowsOf(d, s, h, k)
  BY <1>1
<1>4. PICK w : w = LoadEntry(d, 0, i)
  OBVIOUS
<1>5. ValueAt(s, i, k, none) <=> IF e.key = k THEN none = e.val ELSE ValueAt(s, h, k, none)
  <2>1. ValueAt(s, h + 1, k, none) <=> IF s[h + 1].key = k THEN none = s[h + 1].val ELSE ValueAt(s, h, k, none)
    BY ValueAtNext
  <2> QED
    BY <1>2, <1>3, <2>1
<1>6. ASSUME k # e.key, k \in DOMAIN w <=> k \in DOMAIN d, k \in DOMAIN d => w[k] = d[k]
      PROVE  KnowsOf(w, s, i, k)
  <2>1. CASE k \in DOMAIN d
    <3>1. \A p \in 1 .. h : p \in 1 .. i /\ \A j \in p + 1 .. i : j \in p + 1 .. h \/ j = i
      BY <1>3
    <3> QED
      BY <1>2, <1>3, <1>6, <2>1, <3>1 DEF KnowsOf
  <2>2. CASE k \notin DOMAIN d
    BY <1>3, <1>5, <1>6, <2>2 DEF KnowsOf
  <2> QED
    BY <2>1, <2>2
<1>7. CASE e.val = none
  <2>1. w = Without(d, e.key)
    BY <1>1, <1>2, <1>4, <1>7 DEF LoadEntry
  <2>2. DOMAIN w = DOMAIN d \ {e.key} /\ \A j \in DOMAIN d : j # e.key => w[j] = d[j]
    <3>1. PICK key : key = e.key
      OBVIOUS
    <3>2. w = Without(d, key)
      BY <2>1, <3>1
    <3> QED
      BY <3>1, <3>2, WithoutPlace
  <2>3. CASE e.key = k
    BY <1>1, <1>4, <1>5, <1>7, <2>2, <2>3 DEF KnowsOf
  <2>4. CASE e.key # k
    BY <1>1, <1>4, <1>6, <2>2, <2>4
  <2> QED
    BY <2>3, <2>4
<1>8. CASE e.val # none /\ ~Supersedes(d, e)
  <2>1. w = d
    BY <1>1, <1>2, <1>4, <1>8 DEF LoadEntry
  <2>2. e.key # k
    <3> SUFFICES ASSUME e.key = k PROVE FALSE
      OBVIOUS
    <3>1. k \in DOMAIN d /\ ~(d[k].tstamp < e.tstamp)
      BY <1>8 DEF Supersedes
    <3>2. PICK p : p = d[k].vpos
      OBVIOUS
    <3>3. /\ p \in 1 .. h /\ s[p].key = k /\ s[p].val # none /\ d[k].tstamp = s[p].tstamp
          /\ \A j \in p + 1 .. h : s[j].key # k
      BY <1>3, <3>1, <3>2 DEF KnowsOf
    <3>4. p \in 1 .. i - 1 /\ \A j \in p + 1 .. i - 1 : j \in p + 1 .. h
      BY <1>3, <3>3
    <3>5. s[p].tstamp < s[i].tstamp
      BY <1>1, <1>2, <1>8, <3>3, <3>4 DEF Orderly
    <3> QED
      BY <1>2, <3>1, <3>3, <3>5
  <2> QED
    BY <1>1, <1>4, <1>6, <2>1, <2>2
<1>9. CASE e.val # none /\ Supersedes(d, e)
  <2>1. PICK p : p = [id |-> 0, vpos |-> i, tstamp |-> e.tstamp]
    OBVIOUS
  <2>2. p \in Places /\ p.id = 0 /\ p.vpos = i /\ p.tstamp = e.tstamp
    BY <1>3, <2>1 DEF Places, Entries
  <2>3. PICK key \in Keys : key = e.key
    BY <1>9 DEF Entries
  <2>4. w = Put(d, key, p)
    BY <1>1, <1>2, <1>4, <1>9, <2>1, <2>3 DEF LoadEntry
  <2>5. DOMAIN w = DOMAIN d \cup {key} /\ w[key] = p /\ \A j \in DOMAIN d : j # key => w[j] = d[j]
    BY <2>4 DEF Put
  <2>6. CASE e.key = k
    <3>1. i \in 1 .. i /\ \A j \in i + 1 .. i : FALSE
      BY <1>3
    <3> QED
      BY <1>1, <1>2, <1>4, <1>9, <2>2, <2>3, <2>5, <2>6, <3>1 DEF KnowsOf
  <2>7. CASE e.key # k
    BY <1>1, <1>4, <1>6, <2>3, <2>5, <2>7
  <2> QED
    BY <2>6, <2>7
<1> QED
  BY <1>7, <1>8, <1>9

(* The read ends at the end of the file or at an entry that is cut off.    *)
LEMMA ReadableEnd ==
  ASSUME NEW n \in Nat, n = Len(log[0])
  PROVE  /\ Cardinality(Readable(0)) \in 0 .. n
         /\ Cardinality(Readable(0)) = n \/ log[0][Cardinality(Readable(0)) + 1] = Torn
<1>1. PICK s : s = log[0]
  OBVIOUS
<1>2. PICK S : S = {i \in 0 .. n : \A j \in 1 .. i : s[j] # Torn}
  OBVIOUS
<1>3. 0 \in S
  BY <1>2
<1>4. ASSUME NEW m \in 0 .. n, m \in S, m = n \/ s[m + 1] = Torn
      PROVE  Cardinality(Readable(0)) = m
  <2>1. \A i \in 1 .. m : i \in 1 .. n /\ \A j \in 1 .. i : j \in 1 .. m
    OBVIOUS
  <2>2. \A i \in 1 .. n : i \in 1 .. m \/ (m # n /\ m + 1 \in 1 .. i)
    OBVIOUS
  <2>3. \A j \in 1 .. m : s[j] # Torn
    BY <1>2, <1>4
  <2>4. Readable(0) = 1 .. m
    BY <1>1, <1>4, <2>1, <2>2, <2>3 DEF Readable
  <2>5. 1 \in Int /\ m \in Int /\ m >= 0
    OBVIOUS
  <2>6. Cardinality(1 .. m) = IF 1 > m THEN 0 ELSE m - 1 + 1
    BY <2>5, FS_Interval
  <2> QED
    BY <2>4, <2>5, <2>6
<1>5. CASE \A i \in 0 .. n - 1 : i \in S => i + 1 \in S
  <2>1. \A i \in 0 .. n : i \in S
    BY <1>3, <1>5, CountingUp
  <2>2. n \in 0 .. n /\ n \in S
    BY <2>1
  <2> QED
    BY <1>4, <2>2
<1>6. CASE \E i \in 0 .. n - 1 : i \in S /\ i + 1 \notin S
  <2>1. PICK i \in 0 .. n - 1 : i \in S /\ i + 1 \notin S
    BY <1>6
  <2>2. i \in 0 .. n /\ i + 1 \in 0 .. n /\ \A j \in 1 .. i + 1 : j \in 1 .. i \/ j = i + 1
    OBVIOUS
  <2>3. s[i + 1] = Torn
    BY <1>2, <2>1, <2>2
  <2> QED
    BY <1>1, <1>4, <2>1, <2>2, <2>3
<1> QED
  BY <1>5, <1>6

LEMMA LoadKnows ==
  ASSUME IsFiles(log), 0 \in DOMAIN log, NEW k \in Keys, Orderly(log[0], Len(log[0]), k)
  PROVE  KnowsOf(loadFromFile(Empty, 0), log[0], Len(log[0]), k)
<1>1. PICK n \in Nat : n = Len(log[0])
  BY DEF IsFiles
<1>2. PICK c \in 0 .. n : c = Cardinality(Readable(0)) /\ (c = n \/ log[0][c + 1] = Torn)
  BY <1>1, ReadableEnd
<1>3. PICK D : D = SoundDirs
  OBVIOUS
<1>4. PICK dir \in D : dir = Empty
  BY <1>3, EmptyFacts, SoundDirIntro
<1>5. \A d \in D, i \in 1 .. n : LoadEntry(d, 0, i) \in D
  BY <1>1, <1>3, LoadEntrySound
<1>6. \E f \in [0 .. n -> D] : Loads(f, n, dir, 0)
  BY <1>1, <1>5, LoadRuns, Zenon
<1>7. PICK f \in [0 .. n -> D] : Loads(f, n, dir, 0)
  BY <1>6
<1>8. PICK S : S = {i \in 0 .. n : KnowsOf(f[i], log[0], i, k)}
  OBVIOUS
<1>9. 0 \in S
  <2>1. f[0] = Empty
    BY <1>4, <1>7 DEF Loads
  <2>2. ValueAt(log[0], 0, k, none)
    BY DEF ValueAt
  <2> QED
    BY <1>8, <2>1, <2>2, EmptyFacts DEF KnowsOf
<1>10. ASSUME NEW i \in 0 .. n - 1, i \in S PROVE i + 1 \in S
  <2>1. i + 1 \in 1 .. n /\ (i + 1) - 1 = i /\ i \in 0 .. n /\ i + 1 \in 0 .. n
    OBVIOUS
  <2>2. f[i + 1] = LoadEntry(f[i], 0, i + 1)
    BY <1>7, <2>1 DEF Loads
  <2>3. IsDir(f[i])
    BY <1>3, <2>1 DEF SoundDirs
  <2>4. KnowsOf(f[i], log[0], (i + 1) - 1, k) /\ i + 1 \in 1 .. Len(log[0])
    BY <1>1, <1>8, <1>10, <2>1
  <2>5. KnowsOf(f[i + 1], log[0], i + 1, k)
    BY <2>2, <2>3, <2>4, KnowsNext
  <2> QED
    BY <1>8, <2>1, <2>5
<1>11. KnowsOf(f[c], log[0], c, k)
  <2>1. \A i \in 0 .. n : i \in S
    BY <1>9, <1>10, CountingUp
  <2> QED
    BY <1>8, <2>1
<1>12. loadFromFile(Empty, 0) = f[c]
  BY <1>2, <1>4, <1>7 DEF Loads
<1>13. \A j \in c + 1 .. n : log[0][j].key # k
  <2> SUFFICES ASSUME NEW j \in c + 1 .. n, log[0][j].key = k PROVE FALSE
    OBVIOUS
  <2>1. c # n /\ log[0][c + 1] = Torn
    BY <1>2
  <2>2. j # c + 1
    BY <2>1, EntryTypes, ValuesDistinct
  <2>3. j \in 1 .. n /\ c + 1 \in 1 .. j - 1
    BY <2>2
  <2> QED
    BY <1>1, <2>1, <2>3 DEF Orderly
<1>14. KnowsOf(f[c], log[0], n, k)
  <2>1. CASE k \in DOMAIN f[c]
    <3>1. \A p \in 1 .. c : p \in 1 .. n /\ \A j \in p + 1 .. n : j \in p + 1 .. c \/ j \in c + 1 .. n
      OBVIOUS
    <3> QED
      BY <1>11, <1>13, <2>1, <3>1 DEF KnowsOf
  <2>2. CASE k \notin DOMAIN f[c]
    <3>1. ValueAt(log[0], c, k, none)
      BY <1>11, <2>2 DEF KnowsOf
    <3>2. \A i \in 1 .. c : i \in 1 .. n /\ \A j \in i + 1 .. n : j \in i + 1 .. c \/ j \in c + 1 .. n
      OBVIOUS
    <3>3. \A i \in 1 .. n : i \in 1 .. c \/ i \in c + 1 .. n
      OBVIOUS
    <3>4. ValueAt(log[0], n, k, none)
      BY <1>13, <3>1, <3>2, <3>3 DEF ValueAt
    <3> QED
      BY <2>2, <3>4 DEF KnowsOf
  <2> QED
    BY <2>1, <2>2
<1> QED
  BY <1>1, <1>12, <1>14

LEMMA SingleIndex ==
  ASSUME IsFiles(log), DOMAIN log \subseteq {0}, NEW order \in SetToSeqs(DOMAIN log)
  PROVE  IndexFrom(order) = IF 0 \in DOMAIN log THEN loadFromFile(Empty, 0) ELSE Empty
<1>1. PICK n \in Nat : /\ n = Len(order) /\ \A i \in 1 .. n : order[i] \in DOMAIN log
                       /\ \A x \in DOMAIN log : \E i \in 1 .. n : order[i] = x
                       /\ \A i, j \in 1 .. n : i # j => order[i] # order[j]
  <2>1. IsFiniteSet(DOMAIN log)
    BY DEF IsFiles
  <2> QED
    BY <2>1, OrderFacts
<1>2. PICK D : D = SoundDirs
  OBVIOUS
<1>3. Empty \in D /\ \A d \in D, i \in 1 .. n : loadFromFile(d, order[i]) \in D
  BY <1>1, <1>2, EmptyFacts, SoundDirIntro, LoadFileSound
<1>4. \E f \in [0 .. n -> D] : Indexes(f, n, order)
  BY <1>1, <1>3, IndexRuns, Zenon
<1>5. PICK f \in [0 .. n -> D] : Indexes(f, n, order)
  BY <1>4
<1>6. CASE 0 \in DOMAIN log
  <2>1. n = 1
    <3>1. n # 0
      BY <1>1, <1>6
    <3>2. ASSUME n > 1 PROVE FALSE
      <4>1. 1 \in 1 .. n /\ 2 \in 1 .. n
        BY <3>2
      <4>2. order[1] = 0 /\ order[2] = 0
        BY <1>1, <4>1
      <4> QED
        BY <1>1, <4>1, <4>2
    <3> QED
      BY <3>1, <3>2
  <2>2. order[1] = 0
    BY <1>1, <2>1
  <2>3. f[0] = Empty /\ f[1] = loadFromFile(f[1 - 1], order[1]) /\ IndexFrom(order) = f[1]
    BY <1>5, <2>1 DEF Indexes
  <2> QED
    BY <1>6, <2>2, <2>3
<1>7. CASE 0 \notin DOMAIN log
  <2>1. n = 0
    BY <1>1, <1>7
  <2> QED
    BY <1>5, <1>7, <2>1 DEF Indexes
<1> QED
  BY <1>6, <1>7

LEMMA LoadRecorded ==
  ASSUME StoreInv, load
  PROVE  Recorded' /\ \A k \in Sure : Read(k)' \in may[k]
<1> SUFFICES ASSUME Sole PROVE Recorded' /\ \A k \in Sure : Read(k)' \in may[k]
  BY DEF Recorded, Sole, Sure, load
<1>1. /\ ~up /\ up' /\ LoadLogs /\ UNCHANGED <<log, hint, may>> /\ buffered' = 0
      /\ stage' = "idle"
  BY DEF load, StoreInv, BaseInv, Stopped, Sole, loadFromHintFile
<1>2. Types' /\ IsFiles(log) /\ DOMAIN log \subseteq {0}
  BY LoadBase DEF StoreInv, BaseInv, Types, Sole
<1>3. PICK s \in Seq(Entries), len \in Nat : s = Contents(log, 0) /\ len = Len(s) /\ Kept(s, 0, may)
  <2>1. Unsaved = 0
    BY <1>1 DEF Unsaved, StoreInv, BaseInv, Stopped
  <2> QED
    BY <2>1, RecordedFacts
<1>4. PICK order \in SetToSeqs(DOMAIN log) : keyDir' = IndexFrom(order)
  BY <1>1 DEF LoadLogs
<1>5. ASSUME NEW k \in Keys, Orderly(s, len, k) PROVE KnowsOf(keyDir', s, len, k)
  <2>1. CASE 0 \in DOMAIN log
    <3>1. keyDir' = loadFromFile(Empty, 0)
      BY <1>2, <1>4, <2>1, SingleIndex
    <3>2. s = log[0]
      BY <1>3, <2>1 DEF Contents
    <3>3. KnowsOf(loadFromFile(Empty, 0), log[0], Len(log[0]), k)
      BY <1>2, <1>3, <1>5, <2>1, <3>2, LoadKnows
    <3> QED
      BY <1>3, <3>1, <3>2, <3>3
  <2>2. CASE 0 \notin DOMAIN log
    <3>1. keyDir' = Empty
      BY <1>2, <1>4, <2>2, SingleIndex
    <3>2. len = 0
      BY <1>3, <2>2 DEF Contents
    <3> QED
      BY <3>1, <3>2, EmptyFacts DEF KnowsOf, ValueAt
  <2> QED
    BY <2>1, <2>2
<1>6. \A id : FileOf(id)' = Contents(log, id)
  BY <1>1 DEF FileOf
<1>7. ASSUME NEW k \in Keys, Orderly(s, len, k) PROVE ValueAt(s, len, k, Read(k)')
  <2>1. CASE k \in DOMAIN keyDir'
    <3>1. PICK p : p = keyDir'[k]
      OBVIOUS
    <3>2. /\ p.id = 0 /\ p.vpos \in 1 .. len /\ s[p.vpos].key = k
          /\ \A j \in p.vpos + 1 .. len : s[j].key # k
      BY <1>5, <1>7, <2>1, <3>1 DEF KnowsOf
    <3>3. Read(k)' = At(s, p.vpos, k)
      BY <1>3, <1>6, <2>1, <3>1, <3>2, ReadAt
    <3>4. Read(k)' = s[p.vpos].val
      BY <1>3, <3>2, <3>3 DEF At
    <3> QED
      BY <3>2, <3>4 DEF ValueAt
  <2>2. CASE k \notin DOMAIN keyDir'
    <3>1. Read(k)' = none
      BY <2>2, ReadAt
    <3> QED
      BY <1>5, <1>7, <2>2, <3>1 DEF KnowsOf
  <2> QED
    BY <2>1, <2>2
<1>8. len - 0 = len /\ len \in len - 0 .. len
  OBVIOUS
<1>9. Recorded'
  <2>1. Unsaved' = 0
    BY <1>1 DEF Unsaved
  <2>2. Known(s, 0, Store')
    BY <1>3, <1>7, <1>8 DEF Known, Store
  <2> QED
    BY <1>1, <1>3, <2>1, <2>2 DEF Recorded
<1>10. ASSUME NEW k \in Sure PROVE Read(k)' \in may[k]
  <2>1. k \in Keys /\ Orderly(s, len, k)
    BY <1>3 DEF Sure, InOrder, Orderly
  <2> QED
    BY <1>3, <1>7, <1>8, <2>1 DEF Kept
<1> QED
  BY <1>9, <1>10

LEMMA StoreInit == Init => StoreInv
<1> SUFFICES ASSUME Init PROVE StoreInv
  OBVIOUS
<1>1. BaseInv
  BY BaseInit
<1>2. Contents(log, 0) = <<>> /\ Unsaved = 0
  BY EmptyFacts DEF Init, Contents, Unsaved
<1>3. \A k \in Keys : Store[k] = none /\ may[k] = {none}
  BY EmptyFacts DEF Init, Read, Store
<1>4. PICK s \in Seq(Entries) : s = <<>> /\ Len(s) = 0
  <2>1. <<>> \in Seq(Entries) /\ Len(<<>>) = 0
    OBVIOUS
  <2> QED
    BY <2>1
<1>5. Known(s, 0, Store)
  BY <1>3, <1>4 DEF Known, ValueAt
<1>6. Kept(s, 0, may)
  BY <1>3, <1>5, KeptFlushed
<1> QED
  BY <1>1, <1>2, <1>4, <1>5, <1>6 DEF StoreInv, Recorded

LEMMA StoreStep ==
  ASSUME StoreInv, [Next]_vars
  PROVE  StoreInv'
<1>0. BaseInv
  BY DEF StoreInv
<1>1. ASSUME NEW k \in Keys, get(k) PROVE StoreInv'
  BY <1>0, <1>1, GetBase, GetRecorded DEF StoreInv
<1>2. ASSUME NEW k \in Keys, erase(k) PROVE StoreInv'
  BY <1>0, <1>2, EraseBase, EraseRecorded DEF StoreInv
<1>3. ASSUME NEW k \in Keys, NEW v \in Values, set(k, v) PROVE StoreInv'
  BY <1>0, <1>3, SetBase, SetRecorded DEF StoreInv
<1>4. CASE MergeCopy \/ MergeHint \/ MergeRename \/ MergeEnd
  <2>1. BaseInv'
    BY <1>0, <1>4, MergeCopyBase, MergeHintBase, MergeRenameBase, MergeEndBase
  <2> QED
    BY <1>4, <2>1, MergeRecorded DEF StoreInv
<1>5. CASE Quit
  BY <1>0, <1>5, QuitBase, QuitRecorded DEF StoreInv
<1>6. CASE Crash
  BY <1>0, <1>6, CrashBase, CrashRecorded DEF StoreInv
<1>7. CASE load
  BY <1>0, <1>7, LoadBase, LoadRecorded DEF StoreInv
<1>8. CASE UNCHANGED vars
  <2>1. UNCHANGED <<log, merged, hint, keyDir, currId, buffered, stage, renamed, may, up>>
    BY <1>8 DEF vars
  <2>2. \A k : Read(k)' = Read(k)
    BY <2>1 DEF Read, FileOf
  <2>3. BaseInv'
    BY <1>0, <2>1 DEF BaseInv, Types, Merging, Stopped, InBuffer, Unmerged
  <2>4. Store' = Store /\ Unsaved' = Unsaved
    BY <2>1, <2>2 DEF Store, Unsaved
  <2> QED
    BY <2>1, <2>3, <2>4 DEF StoreInv, Recorded, Sole
<1> QED
  BY <1>1, <1>2, <1>3, <1>4, <1>5, <1>6, <1>7, <1>8 DEF Next

-----------------------------------------------------------------------------
(* Every step of the store is a step of KeyValueStore, or none.            *)

Kv == IF up THEN Store ELSE [k \in Keys |-> none]

LEMMA AssignStep ==
  ASSUME up, up', NEW k \in Keys, NEW v \in Values \cup {none},
         \A j \in Keys : Read(j)' = IF j = k THEN v ELSE Read(j),
         \/ \E m \in {may, OnDisk(Store)} : may' = [m EXCEPT ![k] = @ \cup {v}]
         \/ may' = OnDisk([Store EXCEPT ![k] = v])
  PROVE  Abstract!Next
<1>1. Kv = Store /\ Kv' = [Store EXCEPT ![k] = v]
  BY DEF Kv, Store
<1>2. /\ Abstract!OnDisk(Kv) = OnDisk(Store)
      /\ Abstract!OnDisk([Store EXCEPT ![k] = v]) = OnDisk([Store EXCEPT ![k] = v])
  BY <1>1 DEF Abstract!OnDisk, OnDisk
<1>3. Abstract!Assign(k, v)
  BY <1>1, <1>2 DEF Abstract!Assign, Kv
<1> QED
  BY <1>3 DEF Abstract!Next

LEMMA SyncStep ==
  ASSUME up, up', \A j \in Keys : Read(j)' = Read(j), may' = OnDisk(Store)
  PROVE  Abstract!Next
<1>1. Kv = Store /\ Kv' = Store
  BY DEF Kv, Store
<1>2. Abstract!OnDisk(Kv) = OnDisk(Store)
  BY <1>1 DEF Abstract!OnDisk, OnDisk
<1>3. Abstract!Sync
  BY <1>1, <1>2 DEF Abstract!Sync, Kv
<1> QED
  BY <1>3 DEF Abstract!Next

LEMMA StopStep ==
  ASSUME up, up' = FALSE, may' \in {may, OnDisk(Store)}
  PROVE  Abstract!Next
<1>1. Kv = Store /\ Kv' = [k \in Keys |-> none]
  BY DEF Kv
<1>2. Abstract!OnDisk(Kv) = OnDisk(Store)
  BY <1>1 DEF Abstract!OnDisk, OnDisk
<1>3. Abstract!Stop
  BY <1>1, <1>2 DEF Abstract!Stop, Kv
<1> QED
  BY <1>3 DEF Abstract!Next

LEMMA StartStep ==
  ASSUME ~up, up', UNCHANGED may, \A k \in Sure : Read(k)' \in may[k],
         \A k \in Keys : Read(k)' \in Values \cup {none, "garbage"}
  PROVE  Abstract!Next
<1>1. Kv' = [k \in Keys |-> Read(k)'] /\ up' = TRUE /\ Sure \subseteq Keys
  BY DEF Kv, Store, Sure
<1>2. Kv' \in [Keys -> Values \cup {none, "garbage"}] /\ \A k \in Sure : Kv'[k] \in may[k]
  BY <1>1
<1>3. Abstract!Start
  BY <1>1, <1>2 DEF Abstract!Start, Kv
<1> QED
  BY <1>3 DEF Abstract!Next

LEMMA Refines ==
  ASSUME StoreInv, StoreInv', [Next]_vars
  PROVE  [Abstract!Next]_<<Kv, may, up>>
<1>0. BaseInv /\ Types'
  BY DEF StoreInv, BaseInv
<1>1. ASSUME NEW k \in Keys, get(k) PROVE Abstract!Next
  <2>1. up /\ up' /\ may' = OnDisk(Store)
    BY <1>1 DEF get, Ready
  <2>2. \A j \in Keys : Read(j)' = Read(j)
    BY <1>0, <1>1, GetBase
  <2> QED
    BY <2>1, <2>2, SyncStep
<1>2. ASSUME NEW k \in Keys, erase(k) PROVE Abstract!Next
  <2>1. up /\ up' /\ none \in Values \cup {none}
    BY <1>2 DEF erase, CanWrite, Ready
  <2>2. \A j \in Keys : Read(j)' = IF j = k THEN none ELSE Read(j)
    BY <1>0, <1>2, EraseBase
  <2>3. \/ \E m \in {may, OnDisk(Store)} : may' = [m EXCEPT ![k] = @ \cup {none}]
        \/ may' = OnDisk([Store EXCEPT ![k] = none])
    BY <1>2 DEF erase
  <2> QED
    BY <2>1, <2>2, <2>3, AssignStep
<1>3. ASSUME NEW k \in Keys, NEW v \in Values, set(k, v) PROVE Abstract!Next
  <2>1. up /\ up' /\ v \in Values \cup {none}
    BY <1>3 DEF set, CanWrite, Ready
  <2>2. \A j \in Keys : Read(j)' = IF j = k THEN v ELSE Read(j)
    BY <1>0, <1>3, SetBase
  <2>3. \/ \E m \in {may, OnDisk(Store)} : may' = [m EXCEPT ![k] = @ \cup {v}]
        \/ may' = OnDisk([Store EXCEPT ![k] = v])
    BY <1>3 DEF set
  <2> QED
    BY <2>1, <2>2, <2>3, AssignStep
<1>4. CASE MergeCopy
  <2>1. up /\ up' /\ may' = OnDisk(Store)
    BY <1>4 DEF MergeCopy, CanWrite, Ready
  <2>2. \A j \in Keys : Read(j)' = Read(j)
    BY <1>0, <1>4, MergeCopyBase
  <2> QED
    BY <2>1, <2>2, SyncStep
<1>5. CASE MergeHint \/ MergeRename \/ MergeEnd
  <2>1. up /\ UNCHANGED <<up, may>>
    BY <1>5 DEF MergeHint, MergeRename, MergeEnd
  <2>2. \A j \in Keys : Read(j)' = Read(j)
    BY <1>0, <1>5, MergeHintBase, MergeRenameBase, MergeEndBase
  <2>3. Kv' = Kv
    BY <2>1, <2>2 DEF Kv, Store
  <2> QED
    BY <2>1, <2>3
<1>6. CASE Quit
  BY <1>6, StopStep DEF Quit, Ready, Down
<1>7. CASE Crash
  BY <1>7, StopStep DEF Crash, Down
<1>8. CASE load
  <2>1. ~up /\ up' /\ UNCHANGED may
    BY <1>8 DEF load
  <2>2. \A k \in Sure : Read(k)' \in may[k]
    BY <1>8, LoadRecorded
  <2>3. \A k \in Keys : Read(k)' \in Values \cup {none, "garbage"}
    BY <1>0, ReadType
  <2> QED
    BY <2>1, <2>2, <2>3, StartStep
<1>9. CASE UNCHANGED vars
  <2>1. \A k \in Keys : Read(k)' = Read(k)
    BY <1>9 DEF vars, Read, FileOf
  <2> QED
    BY <1>9, <2>1 DEF vars, Kv, Store
<1> QED
  BY <1>1, <1>2, <1>3, <1>4, <1>5, <1>6, <1>7, <1>8, <1>9 DEF Next

(* The store is a key-value store, whatever happens: get returns what was  *)
(* last set and a merge changes no value, after any number of files, kills *)
(* and merges; and a program that is started again after it ended or was   *)
(* killed, with part of the log in a buffer, an entry cut in two or a      *)
(* merge half done, finds every key as it was when the store was last on   *)
(* disk, or later, if what it reads is a single log in which the entries   *)
(* of that key are whole and in the order of their timestamps.  Timestamps *)
(* are arbitrary: the clock may be set, and its 32 bits wrap.              *)
THEOREM StoreIsAStore == Spec => IsAStore
<1>1. Init => StoreInv
  BY StoreInit
<1>2. StoreInv /\ [Next]_vars => StoreInv'
  BY StoreStep
<1>3. Init => Abstract!Init
  <2> SUFFICES ASSUME Init PROVE Abstract!Init
    OBVIOUS
  <2>1. \A k : Read(k) = none
    BY EmptyFacts DEF Init, Read
  <2> QED
    BY <2>1 DEF Init, Abstract!Init, Store
<1>4. StoreInv /\ StoreInv' /\ [Next]_vars => [Abstract!Next]_<<IF up THEN Store ELSE [k \in Keys |-> none], may, up>>
  BY Refines DEF Kv
<1> QED
  BY <1>1, <1>2, <1>3, <1>4, PTL DEF Spec, IsAStore, Abstract!Spec

-----------------------------------------------------------------------------
(* cgit: what holds between the steps of its commands.                     *)

FileMaps == UNION {[S -> Data] : S \in SUBSET Paths}
Trees == {"tree"} \X FileMaps
Commits == {"commit"} \X (Seq(Trees) \ {<<>>})
Heads == Commits \cup {Nothing}

Running ==
  [op : {"add"}, todo : SUBSET Seq(STRING), entries : FileMaps]
    \cup [op : {"rm"}, todo : SUBSET Seq(STRING)] \cup [op : {"commit", "branch"}, object : Commits]

GitTypes ==
  /\ work \in FileMaps /\ index \in FileMaps
  /\ ref \in Heads /\ packed \in Heads
  /\ tags \in [Tags -> Heads \cup ({"tag"} \X Heads)]
  /\ cmd \in {Idle} \cup Running

(* No file of the working tree lies below another.                         *)
FilesApart == \A p, q \in DOMAIN work : ~IsStrictPrefix(p, q)

(* What the running command is about to refer to is stored, and a commit   *)
(* has the former one, which is still the head, as its parent.             *)
CommandReady ==
  /\ cmd.op = "add" => \A p \in DOMAIN cmd.entries : Blob(cmd.entries[p]) \in objects
  /\ cmd.op \in {"commit", "branch"} =>
       \E t \in Trees : cmd.object = Commit(t, refResolve) /\ TreeNeeds(t) \subseteq objects
  /\ cmd.op = "branch" => cmd.object \in objects

(* The last answer is about the files as they are.                         *)
StatusNow == out[1] = "status" => out = <<"status", getStatus>>

GitInv == GitTypes /\ FilesApart /\ ObjectsReachable /\ CommandReady /\ StatusNow

-----------------------------------------------------------------------------
(* Files and objects.                                                      *)

LEMMA FileMapIntro ==
  ASSUME NEW f, f = [p \in DOMAIN f |-> f[p]], DOMAIN f \subseteq Paths, \A p \in DOMAIN f : f[p] \in Data
  PROVE  f \in FileMaps
<1>1. f \in [DOMAIN f -> Data]
  OBVIOUS
<1> QED
  BY <1>1 DEF FileMaps

LEMMA FileMapElim ==
  ASSUME NEW f \in FileMaps
  PROVE  /\ DOMAIN f \subseteq Paths /\ \A p \in DOMAIN f : f[p] \in Data
         /\ f = [p \in DOMAIN f |-> f[p]]
  BY DEF FileMaps

LEMMA SingleFiles ==
  ASSUME NEW p \in Paths, NEW d \in Data
  PROVE  Single(p, d) \in FileMaps /\ DOMAIN Single(p, d) = {p} /\ Single(p, d)[p] = d
<1>1. DOMAIN Single(p, d) = {p} /\ Single(p, d)[p] = d
  BY DEF Single
<1>2. Single(p, d) = [q \in DOMAIN Single(p, d) |-> Single(p, d)[q]]
  BY DEF Single
<1> QED
  BY <1>1, <1>2, FileMapIntro

LEMMA OverFiles ==
  ASSUME NEW f \in FileMaps, NEW g \in FileMaps
  PROVE  /\ Over(f, g) \in FileMaps /\ DOMAIN Over(f, g) = DOMAIN f \cup DOMAIN g
         /\ \A p \in DOMAIN Over(f, g) : Over(f, g)[p] = IF p \in DOMAIN g THEN g[p] ELSE f[p]
<1>1. /\ DOMAIN Over(f, g) = DOMAIN f \cup DOMAIN g
      /\ \A p \in DOMAIN Over(f, g) : Over(f, g)[p] = IF p \in DOMAIN g THEN g[p] ELSE f[p]
      /\ Over(f, g) = [p \in DOMAIN Over(f, g) |-> Over(f, g)[p]]
  BY DEF Over
<1>2. DOMAIN Over(f, g) \subseteq Paths /\ \A p \in DOMAIN Over(f, g) : Over(f, g)[p] \in Data
  BY <1>1, FileMapElim
<1> QED
  BY <1>1, <1>2, FileMapIntro

LEMMA MinusFiles ==
  ASSUME NEW f \in FileMaps, NEW S
  PROVE  /\ Minus(f, S) \in FileMaps /\ DOMAIN Minus(f, S) = DOMAIN f \ S
         /\ \A p \in DOMAIN Minus(f, S) : Minus(f, S)[p] = f[p]
<1>1. /\ DOMAIN Minus(f, S) = DOMAIN f \ S
      /\ \A p \in DOMAIN Minus(f, S) : Minus(f, S)[p] = f[p]
      /\ Minus(f, S) = [p \in DOMAIN Minus(f, S) |-> Minus(f, S)[p]]
  BY DEF Minus
<1>2. DOMAIN Minus(f, S) \subseteq Paths /\ \A p \in DOMAIN Minus(f, S) : Minus(f, S)[p] \in Data
  BY <1>1, FileMapElim
<1> QED
  BY <1>1, <1>2, FileMapIntro

LEMMA NoFiles ==
  ASSUME NEW f, f = << >>
  PROVE  f \in FileMaps /\ DOMAIN f = {}
<1>1. DOMAIN f = {} /\ f \in [{} -> Data]
  OBVIOUS
<1> QED
  BY <1>1 DEF FileMaps

(* The tree of an index has no data but what is staged.                    *)
LEMMA TreeFacts ==
  ASSUME NEW f \in FileMaps
  PROVE  Tree(f) \in Trees /\ TreeNeeds(Tree(f)) \subseteq TreesOf(Tree(f)) \cup {Blob(f[p]) : p \in DOMAIN f}
<1> DEFINE g == [p \in Leaves(f) |-> f[p]]
<1>1. Leaves(f) \subseteq DOMAIN f
  BY DEF Leaves
<1>2. g \in FileMaps
  BY <1>1, FileMapIntro, FileMapElim
<1>3. Tree(f) = <<"tree", g>>
  BY DEF Tree
<1> QED
  BY <1>1, <1>2, <1>3 DEF Trees, TreeNeeds

(* A commit consists of itself, its tree and what its parent consists of.  *)
LEMMA CommitFacts ==
  ASSUME NEW t \in Trees, NEW h \in Heads
  PROVE  LET c == Commit(t, h)
         IN  /\ c \in Commits
             /\ h # Nothing => 2 \in 1 .. Len(c[2]) /\ Ancestor(c, 2) = h
             /\ CommitNeeds(c) \subseteq {c} \cup TreeNeeds(t) \cup IF h = Nothing THEN {} ELSE CommitNeeds(h)
             /\ TreeNeeds(t) \subseteq CommitNeeds(c)
<1> DEFINE s == IF h = Nothing THEN <<>> ELSE h[2]
           u == <<t>> \o s
           c == Commit(t, h)
<1>1. s \in Seq(Trees) /\ (h # Nothing => h = <<"commit", s>> /\ s # <<>>)
  BY DEF Heads, Commits, Nothing
<1> HIDE DEF s
<1>2. /\ u \in Seq(Trees) /\ Len(u) = Len(s) + 1 /\ u[1] = t /\ u # <<>>
      /\ \A n \in 2 .. Len(u) : u[n] = s[n - 1]
  BY <1>1
<1>3. c = <<"commit", u>> /\ c[1] = "commit" /\ c[2] = u
  BY DEF Commit, s
<1>4. c \in Commits
  BY <1>2, <1>3 DEF Commits
<1> HIDE DEF u, c
<1>5. SubSeq(u, 1, Len(u)) = u
  BY <1>2
<1>6. \A n \in 2 .. Len(u) : SubSeq(u, n, Len(u)) = SubSeq(s, n - 1, Len(s))
  BY <1>1, <1>2, SMTT(30)
<1>7. DOMAIN u = 1 .. Len(u) /\ DOMAIN s = 1 .. Len(s) /\ Len(s) \in Nat
  BY <1>1, <1>2
<1>8. ASSUME h # Nothing PROVE 2 \in 1 .. Len(u) /\ Ancestor(c, 2) = h /\ h[2] = s
  <2>1. Len(s) >= 1 /\ SubSeq(s, 1, Len(s)) = s
    BY <1>1, <1>8
  <2> QED
    BY <1>1, <1>2, <1>3, <1>6, <1>8, <2>1 DEF Ancestor
<1>9. ASSUME NEW n \in DOMAIN u
      PROVE  {Ancestor(c, n)} \cup TreeNeeds(u[n])
               \subseteq {c} \cup TreeNeeds(t) \cup IF h = Nothing THEN {} ELSE CommitNeeds(h)
  <2>1. CASE n = 1
    BY <1>2, <1>3, <1>5, <2>1 DEF Ancestor
  <2>2. CASE n # 1
    <3>1. n \in 2 .. Len(u) /\ n - 1 \in DOMAIN s /\ u[n] = s[n - 1]
      BY <1>2, <1>7, <2>2
    <3>2. h # Nothing
      BY <3>1, <1>7 DEF s
    <3>3. Ancestor(c, n) = Ancestor(h, n - 1)
      BY <1>3, <1>6, <1>8, <3>1, <3>2 DEF Ancestor
    <3> QED
      BY <1>8, <3>1, <3>2, <3>3 DEF CommitNeeds
  <2> QED
    BY <2>1, <2>2
<1>10. 1 \in DOMAIN u
  BY <1>2, <1>7
<1>11. CommitNeeds(c) = UNION {{Ancestor(c, n)} \cup TreeNeeds(u[n]) : n \in DOMAIN u}
  BY <1>3 DEF CommitNeeds
<1>12. TreeNeeds(t) \subseteq CommitNeeds(c)
  BY <1>2, <1>10, <1>11
<1>13. CommitNeeds(c) \subseteq {c} \cup TreeNeeds(t) \cup IF h = Nothing THEN {} ELSE CommitNeeds(h)
  BY <1>9, <1>11
<1> QED
  BY <1>3, <1>4, <1>8, <1>12, <1>13 DEF c

(* A commit is the first of its own history, its parent the second.        *)
LEMMA LogFacts ==
  ASSUME NEW c \in Commits, NEW n \in 1 .. Len(c[2])
  PROVE  Ancestor(c, n) \in Range(LogFrom(c, -1)) /\ Ancestor(c, 1) = c
<1>1. c[2] \in Seq(Trees) /\ c = <<"commit", c[2]>> /\ c # Nothing
  BY DEF Commits, Nothing
<1>2. SubSeq(c[2], 1, Len(c[2])) = c[2] /\ Len(c[2]) \in Nat
  BY <1>1
<1>3. LogFrom(c, -1) = [k \in 1 .. Len(c[2]) |-> Ancestor(c, k)]
  BY <1>1, <1>2 DEF LogFrom
<1> QED
  BY <1>1, <1>2, <1>3 DEF Ancestor, Range

-----------------------------------------------------------------------------
(* Working tree and index.                                                 *)

(* Nothing that was stored is lost, and what is newly referred to is there.*)
LEMMA StillReachable ==
  ASSUME GitTypes, ObjectsReachable,
         objects \subseteq objects', UNCHANGED <<ref, packed, tags>>,
         \A p \in DOMAIN index' : Blob(index'[p]) \in objects'
  PROVE  ObjectsReachable'
<1>1. refResolve' = refResolve /\ Tagged' = Tagged
  BY DEF refResolve, Tagged
<1> QED
  BY <1>1 DEF ObjectsReachable

(* A command that is under way is not disturbed.                           *)
LEMMA StillReady ==
  ASSUME CommandReady, objects \subseteq objects', UNCHANGED <<ref, packed, cmd>>
  PROVE  CommandReady'
<1>1. refResolve' = refResolve
  BY DEF refResolve
<1> QED
  BY <1>1 DEF CommandReady

LEMMA NoAnswer == ASSUME out' = Nothing PROVE StatusNow'
  BY DEF StatusNow, Nothing

(* Idle is not any of the commands.                                        *)
LEMMA IdleFacts ==
  /\ Idle.op = "idle"
  /\ cmd' = Idle => CommandReady'
<1>1. Idle.op = "idle"
  BY DEF Idle
<1>2. ASSUME cmd' = Idle PROVE CommandReady'
  <2>1. cmd'.op = "idle"
    BY <1>1, <1>2
  <2> QED
    BY <2>1 DEF CommandReady
<1> QED
  BY <1>1, <1>2

(* What the type of the running command says.                              *)
LEMMA CommandTypes ==
  ASSUME GitTypes
  PROVE  /\ cmd.op = "add" => cmd \in [op : {"add"}, todo : SUBSET Seq(STRING), entries : FileMaps]
         /\ cmd.op = "rm" => cmd \in [op : {"rm"}, todo : SUBSET Seq(STRING)]
         /\ cmd.op \in {"commit", "branch"} => cmd \in [op : {"commit", "branch"}, object : Commits]
         /\ refResolve \in Heads
<1>1. cmd = Idle => cmd.op = "idle"
  BY IdleFacts
<1>2. refResolve \in Heads
  BY DEF GitTypes, refResolve
<1>3. cmd = Idle \/ cmd \in [op : {"add"}, todo : SUBSET Seq(STRING), entries : FileMaps]
        \/ cmd \in [op : {"rm"}, todo : SUBSET Seq(STRING)] \/ cmd \in [op : {"commit", "branch"}, object : Commits]
  BY DEF GitTypes, Running
<1> QED
  BY <1>1, <1>2, <1>3

LEMMA Collected ==
  ASSUME GitTypes, NEW arg \in Arguments
  PROVE  collectFiles(arg) \subseteq Seq(STRING)
<1>1. Paths \subseteq Seq(STRING) /\ arg \in Seq(STRING)
  <2>1. Paths \subseteq Seq(STRING)
    BY GitConstants
  <2>2. arg \in Paths \/ arg = <<>>
    BY DEF Arguments
  <2> QED
    BY <2>1, <2>2, EmptySeq
<1>2. Below(arg) \subseteq Paths
  BY FileMapElim DEF Below, GitTypes
<1> QED
  BY <1>1, <1>2 DEF collectFiles

(* The user puts a file where none was above or below.                     *)
LEMMA EditStep ==
  ASSUME GitInv, NEW p \in Paths, NEW d \in Data, Edit(p, d)
  PROVE  GitInv'
<1>1. DOMAIN work' = DOMAIN work \cup {p} /\ work' \in FileMaps
  <2>1. work \in FileMaps /\ work' = Over(work, Single(p, d))
    BY DEF Edit, GitInv, GitTypes
  <2>2. Single(p, d) \in FileMaps /\ DOMAIN Single(p, d) = {p}
    BY SingleFiles
  <2> QED
    BY <2>1, <2>2, OverFiles
<1>2. GitTypes'
  BY <1>1 DEF Edit, GitInv, GitTypes
<1>3. ~IsStrictPrefix(p, p)
  BY DEF IsStrictPrefix
<1>4. FilesApart'
  BY <1>1, <1>3 DEF Edit, GitInv, FilesApart
<1>5. ObjectsReachable'
  BY StillReachable DEF Edit, GitInv, ObjectsReachable
<1>6. CommandReady'
  BY StillReady DEF Edit, GitInv
<1> QED
  BY <1>2, <1>4, <1>5, <1>6, NoAnswer DEF Edit, GitInv

LEMMA UnlinkStep ==
  ASSUME GitInv, NEW p \in Paths, Unlink(p)
  PROVE  GitInv'
<1>1. DOMAIN work' \subseteq DOMAIN work /\ work' \in FileMaps
  <2>1. work \in FileMaps /\ work' = Minus(work, {p})
    BY DEF Unlink, GitInv, GitTypes
  <2> QED
    BY <2>1, MinusFiles
<1>2. GitTypes'
  BY <1>1 DEF Unlink, GitInv, GitTypes
<1>3. FilesApart'
  BY <1>1 DEF GitInv, FilesApart
<1>4. ObjectsReachable'
  BY StillReachable DEF Unlink, GitInv, ObjectsReachable
<1>5. CommandReady'
  BY StillReady DEF Unlink, GitInv
<1> QED
  BY <1>2, <1>3, <1>4, <1>5, NoAnswer DEF Unlink, GitInv

-----------------------------------------------------------------------------
(* add and rm.                                                             *)

(* Entries leave the index before any are put back.                        *)
LEMMA AddStartStep ==
  ASSUME GitInv, NEW arg \in Arguments, AddStart(arg)
  PROVE  GitInv'
<1>1. /\ index' \in FileMaps /\ DOMAIN index' \subseteq DOMAIN index
      /\ \A p \in DOMAIN index' : index'[p] = index[p]
  <2>1. index \in FileMaps /\ index' = Minus(index, collectFiles(arg))
    BY DEF AddStart, GitInv, GitTypes
  <2>2. /\ Minus(index, collectFiles(arg)) \in FileMaps /\ DOMAIN Minus(index, collectFiles(arg)) = DOMAIN index \ collectFiles(arg)
        /\ \A p \in DOMAIN Minus(index, collectFiles(arg)) : Minus(index, collectFiles(arg))[p] = index[p]
    BY <2>1, MinusFiles
  <2> QED
    BY <2>1, <2>2
<1>2. /\ cmd' = [op |-> "add", todo |-> collectFiles(arg), entries |-> Minus(work, DOMAIN work)]
      /\ Minus(work, DOMAIN work) \in FileMaps /\ DOMAIN Minus(work, DOMAIN work) = {}
  <2>1. work \in FileMaps
    BY DEF GitInv, GitTypes
  <2>2. Minus(work, DOMAIN work) \in FileMaps /\ DOMAIN Minus(work, DOMAIN work) = DOMAIN work \ DOMAIN work
    BY <2>1, MinusFiles
  <2> QED
    BY <2>2 DEF AddStart
<1>3. GitTypes'
  BY <1>1, <1>2, Collected DEF AddStart, GitInv, GitTypes, Running
<1>4. FilesApart'
  BY DEF AddStart, GitInv, FilesApart
<1>5. ObjectsReachable'
  BY <1>1, StillReachable DEF AddStart, GitInv, ObjectsReachable
<1>6. CommandReady'
  BY <1>2 DEF CommandReady
<1> QED
  BY <1>3, <1>4, <1>5, <1>6, NoAnswer DEF AddStart, GitInv

(* An entry is noted after its object has been written.                    *)
LEMMA AddFileStep ==
  ASSUME GitInv, NEW p \in Paths, AddFile(p)
  PROVE  GitInv'
<1>1. cmd \in [op : {"add"}, todo : SUBSET Seq(STRING), entries : FileMaps]
  BY CommandTypes DEF AddFile, GitInv
<1>2. ReadFile(p) \in Data
  BY GitConstants, FileMapElim DEF ReadFile, GitInv, GitTypes
<1>3. objects \subseteq objects' /\ Blob(ReadFile(p)) \in objects'
  BY DEF AddFile, Written
<1> DEFINE e == Over(cmd.entries, Single(p, ReadFile(p)))
<1>4. /\ e \in FileMaps /\ DOMAIN e = DOMAIN cmd.entries \cup {p}
      /\ \A q \in DOMAIN e : e[q] = IF q = p THEN ReadFile(p) ELSE cmd.entries[q]
  <2>1. cmd.entries \in FileMaps
    BY <1>1
  <2>2. /\ Single(p, ReadFile(p)) \in FileMaps /\ DOMAIN Single(p, ReadFile(p)) = {p}
        /\ Single(p, ReadFile(p))[p] = ReadFile(p)
    BY <1>2, SingleFiles
  <2> QED
    BY <2>1, <2>2, OverFiles
<1>5. cmd' = Idle \/ cmd' = [op |-> "add", todo |-> cmd.todo \ {p}, entries |-> e]
  BY <1>1 DEF AddFile
<1> HIDE DEF e
<1>6. GitTypes'
  BY <1>1, <1>4, <1>5 DEF AddFile, GitInv, GitTypes, Running
<1>7. FilesApart'
  BY DEF AddFile, GitInv, FilesApart
<1>8. ObjectsReachable'
  BY <1>3, StillReachable DEF AddFile, GitInv, ObjectsReachable
<1>9. \A q \in DOMAIN cmd.entries : Blob(cmd.entries[q]) \in objects
  BY <1>1 DEF GitInv, CommandReady
<1>10. CommandReady'
  <2>1. CASE cmd' = Idle
    BY <2>1, IdleFacts
  <2>2. CASE cmd' = [op |-> "add", todo |-> cmd.todo \ {p}, entries |-> e]
    <3>1. cmd'.op = "add" /\ cmd'.entries = e
      BY <2>2
    <3>2. \A q \in DOMAIN e : Blob(e[q]) \in objects'
      BY <1>3, <1>4, <1>9
    <3> QED
      BY <3>1, <3>2 DEF CommandReady
  <2> QED
    BY <1>5, <2>1, <2>2
<1> QED
  BY <1>6, <1>7, <1>8, <1>10, NoAnswer DEF AddFile, GitInv

LEMMA AddEndStep ==
  ASSUME GitInv, AddEnd
  PROVE  GitInv'
<1>1. cmd \in [op : {"add"}, todo : SUBSET Seq(STRING), entries : FileMaps]
  BY CommandTypes DEF AddEnd, GitInv
<1>2. /\ index' \in FileMaps /\ DOMAIN index' = DOMAIN index \cup DOMAIN cmd.entries
      /\ \A p \in DOMAIN index' : index'[p] = IF p \in DOMAIN cmd.entries THEN cmd.entries[p] ELSE index[p]
  <2>1. index \in FileMaps /\ cmd.entries \in FileMaps /\ index' = Over(index, cmd.entries)
    BY <1>1 DEF AddEnd, GitInv, GitTypes
  <2> QED
    BY <2>1, OverFiles
<1>3. GitTypes'
  BY <1>2 DEF AddEnd, GitInv, GitTypes
<1>4. FilesApart'
  BY DEF AddEnd, GitInv, FilesApart
<1>5. \A p \in DOMAIN index' : Blob(index'[p]) \in objects
  BY <1>2 DEF AddEnd, GitInv, ObjectsReachable, CommandReady
<1>6. ObjectsReachable'
  BY <1>5, StillReachable DEF AddEnd, GitInv
<1> QED
  BY <1>3, <1>4, <1>6, IdleFacts, NoAnswer DEF AddEnd, GitInv

LEMMA RmFilesStep ==
  ASSUME GitInv, NEW arg \in Arguments, NEW cached \in BOOLEAN, RmFiles(arg, cached)
  PROVE  GitInv'
<1>1. DOMAIN work' \subseteq DOMAIN work /\ work' \in FileMaps
  <2>1. work \in FileMaps /\ (work' = work \/ work' = Minus(work, collectFiles(arg)))
    BY DEF RmFiles, GitInv, GitTypes
  <2> QED
    BY <2>1, MinusFiles
<1>2. cmd' = [op |-> "rm", todo |-> collectFiles(arg)]
  BY DEF RmFiles
<1>3. GitTypes'
  BY <1>1, <1>2, Collected DEF RmFiles, GitInv, GitTypes, Running
<1>4. FilesApart'
  BY <1>1 DEF GitInv, FilesApart
<1>5. ObjectsReachable'
  BY StillReachable DEF RmFiles, GitInv, ObjectsReachable
<1>6. CommandReady'
  BY <1>2 DEF CommandReady
<1> QED
  BY <1>3, <1>4, <1>5, <1>6, NoAnswer DEF RmFiles, GitInv

LEMMA RmIndexStep ==
  ASSUME GitInv, RmIndex
  PROVE  GitInv'
<1>1. /\ index' \in FileMaps /\ DOMAIN index' \subseteq DOMAIN index
      /\ \A p \in DOMAIN index' : index'[p] = index[p]
  <2>1. index \in FileMaps /\ index' = Minus(index, cmd.todo)
    BY DEF RmIndex, GitInv, GitTypes
  <2>2. /\ Minus(index, cmd.todo) \in FileMaps /\ DOMAIN Minus(index, cmd.todo) = DOMAIN index \ cmd.todo
        /\ \A p \in DOMAIN Minus(index, cmd.todo) : Minus(index, cmd.todo)[p] = index[p]
    BY <2>1, MinusFiles
  <2> QED
    BY <2>1, <2>2
<1>2. GitTypes'
  BY <1>1 DEF RmIndex, GitInv, GitTypes
<1>3. FilesApart'
  BY DEF RmIndex, GitInv, FilesApart
<1>4. ObjectsReachable'
  BY <1>1, StillReachable DEF RmIndex, GitInv, ObjectsReachable
<1> QED
  BY <1>2, <1>3, <1>4, IdleFacts, NoAnswer DEF RmIndex, GitInv

-----------------------------------------------------------------------------
(* commit and tag.                                                         *)

(* The trees are written; the data in them was, when it was staged.        *)
LEMMA CommitTreesStep ==
  ASSUME GitInv, CommitTrees
  PROVE  GitInv'
<1> DEFINE t == Tree(index)
<1>1. index \in FileMaps /\ refResolve \in Heads
  BY CommandTypes DEF GitInv, GitTypes
<1>2. t \in Trees /\ TreeNeeds(t) \subseteq TreesOf(t) \cup {Blob(index[p]) : p \in DOMAIN index}
  BY <1>1, TreeFacts
<1>3. Commit(t, refResolve) \in Commits
  BY <1>1, <1>2, CommitFacts
<1>4. objects' = objects \cup TreesOf(t) /\ cmd' = [op |-> "commit", object |-> Commit(t, refResolve)]
  BY DEF CommitTrees, Parent
<1>5. refResolve' = refResolve
  BY DEF CommitTrees, refResolve
<1> HIDE DEF t
<1>6. GitTypes'
  BY <1>3, <1>4 DEF CommitTrees, GitInv, GitTypes, Running
<1>7. FilesApart'
  BY DEF CommitTrees, GitInv, FilesApart
<1>8. ObjectsReachable'
  BY <1>4, StillReachable DEF CommitTrees, GitInv, ObjectsReachable
<1>9. TreeNeeds(t) \subseteq objects'
  BY <1>2, <1>4 DEF GitInv, ObjectsReachable
<1>10. cmd'.op = "commit" /\ cmd'.object = Commit(t, refResolve')
  BY <1>4, <1>5
<1>11. CommandReady'
  BY <1>2, <1>9, <1>10 DEF CommandReady
<1> QED
  BY <1>6, <1>7, <1>8, <1>11, NoAnswer DEF CommitTrees, GitInv

LEMMA CommitObjectStep ==
  ASSUME GitInv, CommitObject
  PROVE  GitInv'
<1>1. cmd \in [op : {"commit", "branch"}, object : Commits]
  BY CommandTypes DEF CommitObject, GitInv
<1>2. cmd' = [op |-> "branch", object |-> cmd.object] /\ cmd'.op = "branch" /\ cmd'.object = cmd.object
  BY <1>1 DEF CommitObject
<1>3. objects' = objects \cup {cmd.object} /\ refResolve' = refResolve
  BY DEF CommitObject, refResolve
<1>4. GitTypes'
  BY <1>1, <1>2 DEF CommitObject, GitInv, GitTypes, Running
<1>5. FilesApart'
  BY DEF CommitObject, GitInv, FilesApart
<1>6. ObjectsReachable'
  BY <1>3, StillReachable DEF CommitObject, GitInv, ObjectsReachable
<1>7. PICK t \in Trees : cmd.object = Commit(t, refResolve) /\ TreeNeeds(t) \subseteq objects
  BY DEF CommitObject, GitInv, CommandReady
<1>8. CommandReady'
  BY <1>2, <1>3, <1>7 DEF CommandReady
<1> QED
  BY <1>4, <1>5, <1>6, <1>8, NoAnswer DEF CommitObject, GitInv

(* Only now does anything refer to the commit, and all of it is there.     *)
LEMMA CommitRefStep ==
  ASSUME GitInv, CommitRef
  PROVE  /\ GitInv'
         /\ refResolve # Nothing => refResolve \in Range(LogFrom(refResolve', -1))
<1>1. PICK t \in Trees : cmd.object = Commit(t, refResolve) /\ TreeNeeds(t) \subseteq objects
  BY DEF CommitRef, GitInv, CommandReady
<1>2. refResolve \in Heads /\ cmd.object \in objects
  BY CommandTypes DEF CommitRef, GitInv, CommandReady
<1> DEFINE c == Commit(t, refResolve)
<1>3. /\ c \in Commits
      /\ refResolve # Nothing => 2 \in 1 .. Len(c[2]) /\ Ancestor(c, 2) = refResolve
      /\ CommitNeeds(c) \subseteq {c} \cup TreeNeeds(t) \cup IF refResolve = Nothing THEN {} ELSE CommitNeeds(refResolve)
  BY <1>2, CommitFacts
<1>4. ref' = c /\ c \in objects
  BY <1>1, <1>2 DEF CommitRef
<1> HIDE DEF c
<1>5. refResolve' = c
  BY <1>3, <1>4 DEF refResolve, Commits, Nothing
<1>6. CommitNeeds(c) \subseteq objects
  BY <1>1, <1>3, <1>4 DEF GitInv, ObjectsReachable
<1>7. GitTypes'
  BY <1>3, <1>4 DEF CommitRef, GitInv, GitTypes, Heads
<1>8. FilesApart'
  BY DEF CommitRef, GitInv, FilesApart
<1>9. Tagged' = Tagged /\ index' = index /\ objects' = objects
  BY DEF CommitRef, Tagged
<1>10. ObjectsReachable'
  BY <1>5, <1>6, <1>9 DEF GitInv, ObjectsReachable
<1>11. GitInv'
  BY <1>7, <1>8, <1>10, IdleFacts, NoAnswer DEF CommitRef, GitInv
<1>12. refResolve # Nothing => refResolve \in Range(LogFrom(refResolve', -1))
  BY <1>3, <1>5, LogFacts
<1> QED
  BY <1>11, <1>12

LEMMA TagStep ==
  ASSUME GitInv, NEW t \in Tags, NEW annotated \in BOOLEAN, createTag(t, annotated)
  PROVE  GitInv'
<1> DEFINE o == IF annotated THEN <<"tag", refResolve>> ELSE refResolve
<1>1. refResolve \in Heads
  BY CommandTypes DEF GitInv
<1>2. tags' = [tags EXCEPT ![t] = o] /\ objects' = IF annotated THEN objects \cup {o} ELSE objects
  BY DEF createTag
<1>3. o \in Heads \cup ({"tag"} \X Heads)
  BY <1>1
<1>4. Target(o) = refResolve /\ (o[1] = "tag" => annotated)
  BY <1>1 DEF Target, Heads, Commits, Nothing
<1>5. o \notin {Nothing, <<"tag", Nothing>>} => refResolve # Nothing
  OBVIOUS
<1> HIDE DEF o
<1>6. tags' \in [Tags -> Heads \cup ({"tag"} \X Heads)]
  BY <1>2, <1>3 DEF GitInv, GitTypes
<1>7. GitTypes'
  BY <1>6 DEF createTag, GitInv, GitTypes
<1>8. FilesApart'
  BY DEF createTag, GitInv, FilesApart
<1>9. \A u \in Tags : tags'[u] = tags[u] \/ tags'[u] = o
  BY <1>2 DEF GitInv, GitTypes
<1>10. Tagged' \subseteq Tagged \cup ({o} \ {Nothing, <<"tag", Nothing>>})
  BY <1>9 DEF Tagged
<1>11. objects \subseteq objects' /\ (o[1] = "tag" => o \in objects')
  BY <1>2, <1>4
<1>12. refResolve' = refResolve /\ index' = index
  BY DEF createTag, refResolve
<1>13. ObjectsReachable'
  <2>1. \A p \in DOMAIN index' : Blob(index'[p]) \in objects'
    BY <1>11, <1>12 DEF GitInv, ObjectsReachable
  <2>2. \A u \in Tagged' : u[1] = "tag" => u \in objects'
    BY <1>10, <1>11 DEF GitInv, ObjectsReachable
  <2>3. ASSUME NEW c \in ({refResolve'} \ {Nothing}) \cup {Target(u) : u \in Tagged'}
        PROVE  c \in ({refResolve} \ {Nothing}) \cup {Target(u) : u \in Tagged}
    BY <1>4, <1>5, <1>10, <1>12, <2>3
  <2>4. \A c \in ({refResolve'} \ {Nothing}) \cup {Target(u) : u \in Tagged'} : CommitNeeds(c) \subseteq objects'
    BY <1>11, <2>3 DEF GitInv, ObjectsReachable
  <2> QED
    BY <2>1, <2>2, <2>4 DEF ObjectsReachable
<1>14. CommandReady'
  BY <1>11, StillReady DEF createTag, GitInv
<1> QED
  BY <1>7, <1>8, <1>13, <1>14, NoAnswer DEF createTag, GitInv

(* A command that is killed leaves what it has written.                    *)
LEMMA KilledStep ==
  ASSUME GitInv, Killed
  PROVE  GitInv'
<1>1. GitTypes'
  BY DEF Killed, GitInv, GitTypes
<1>2. FilesApart'
  BY DEF Killed, GitInv, FilesApart
<1>3. ObjectsReachable'
  BY StillReachable DEF Killed, GitInv, ObjectsReachable
<1> QED
  BY <1>1, <1>2, <1>3, IdleFacts, NoAnswer DEF Killed, GitInv

(* Commands that print change nothing but the answer.                      *)
LEMMA ReadStep ==
  ASSUME GitInv, Reads
  PROVE  GitInv'
<1> DEFINE rest == <<work, index, objects, active, ref, packed, tags, cmd, inputs>>
<1>1. UNCHANGED rest /\ (out'[1] # "status" \/ out' = <<"status", getStatus>>)
  BY DEF Reads, Status, LsFiles, ShowRefs, Checkout, Log, LsTree, Answer
<1>2. getStatus' = getStatus
  BY <1>1 DEF getStatus, Staged, StagedFiles, HeadFiles, refResolve, Unstaged, Exists, Below, ReadFile,
              Untracked, Visible, Ignored
<1>3. StatusNow'
  BY <1>1, <1>2 DEF StatusNow
<1>4. GitTypes' /\ FilesApart'
  BY <1>1 DEF GitInv, GitTypes, FilesApart
<1>5. ObjectsReachable'
  BY <1>1, StillReachable DEF GitInv, ObjectsReachable
<1>6. CommandReady'
  BY <1>1, StillReady DEF GitInv
<1> QED
  BY <1>3, <1>4, <1>5, <1>6 DEF GitInv

-----------------------------------------------------------------------------
(* A clean status.                                                         *)

(* If every path is reported unless its directory is, and none is, there   *)
(* is nothing to report.                                                   *)
LEMMA Shortest ==
  ASSUME NEW S, S \subseteq Seq(STRING) \ {<<>>}, \A q \in S : Len(q) # 1 /\ Front(q) \in S
  PROVE  S = {}
<1> SUFFICES ASSUME S # {} PROVE FALSE
  OBVIOUS
<1>1. PICK D : D = {Len(q) : q \in S}
  OBVIOUS
<1>2. D \subseteq Nat /\ D # {}
  BY <1>1
<1>3. PICK m \in D : \A n \in D : ~(<<n, m>> \in OpToRel(<, Nat))
  BY <1>2, WFMin, NatLessThanWellFounded, Zenon
<1>4. \A n \in D : ~(n < m)
  BY <1>2, <1>3 DEF OpToRel
<1>5. PICK q \in S : m = Len(q)
  BY <1>1, <1>3
<1>6. q \in Seq(STRING) /\ Len(q) \in Nat \ {0} /\ Front(q) \in S
  <2>1. q \in Seq(STRING) /\ q # <<>>
    OBVIOUS
  <2> QED
    BY <2>1, LenProperties
<1>7. Len(Front(q)) = Len(q) - 1
  <2>1. Len(q) - 1 \in Int /\ \A i \in 1 .. Len(q) - 1 : q[i] \in STRING
    BY <1>6
  <2>2. Len(SubSeq(q, 1, Len(q) - 1)) = IF 1 <= Len(q) - 1 THEN Len(q) - 1 - 1 + 1 ELSE 0
    BY <2>1, SubSeqProperties
  <2>3. Front(q) = SubSeq(q, 1, Len(q) - 1)
    BY Zenon DEF Front
  <2>4. PICK k \in Nat \ {0} : k = Len(q)
    BY <1>6
  <2>5. (IF 1 <= k - 1 THEN k - 1 - 1 + 1 ELSE 0) = k - 1
    OBVIOUS
  <2>6. Len(Front(q)) = IF 1 <= Len(q) - 1 THEN Len(q) - 1 - 1 + 1 ELSE 0
    BY <2>2, <2>3, Zenon
  <2> QED
    BY <2>4, <2>5, <2>6
<1>8. m - 1 \in D
  BY <1>1, <1>5, <1>6, <1>7
<1>9. m \in Nat /\ m - 1 < m
  BY <1>5, <1>6
<1> QED
  BY <1>4, <1>8, <1>9

LEMMA PrefixFacts ==
  ASSUME NEW p \in Seq(STRING), NEW q \in Seq(STRING), NEW r \in Seq(STRING)
  PROVE  /\ IsPrefix(p, p)
         /\ IsPrefix(p, q) /\ IsPrefix(q, r) => IsPrefix(p, r)
         /\ IsPrefix(p, q) /\ IsStrictPrefix(q, r) => IsStrictPrefix(p, r)
<1>1. \A s, t \in Seq(STRING) : IsPrefix(s, t) <=> Len(s) <= Len(t) /\ \A i \in 1 .. Len(s) : s[i] = t[i]
  <2> SUFFICES ASSUME NEW s \in Seq(STRING), NEW t \in Seq(STRING), Len(s) <= Len(t)
               PROVE  SubSeq(s, 1, Len(s)) = SubSeq(t, 1, Len(s)) <=> \A i \in 1 .. Len(s) : s[i] = t[i]
    BY DEF IsPrefix
  <2>1. SubSeq(s, 1, Len(s)) = [i \in 1 .. Len(s) |-> s[i]] /\ SubSeq(t, 1, Len(s)) = [i \in 1 .. Len(s) |-> t[i]]
    OBVIOUS
  <2> QED
    BY <2>1
<1>2. IsPrefix(p, p)
  BY <1>1
<1>3. IsPrefix(p, q) /\ IsPrefix(q, r) => IsPrefix(p, r)
  BY <1>1
<1>4. ASSUME IsPrefix(p, q), IsStrictPrefix(q, r) PROVE p # r
  <2>1. SUFFICES ASSUME p = r PROVE q = r
    BY <1>4 DEF IsStrictPrefix
  <2>2. Len(q) = Len(r) /\ \A i \in 1 .. Len(q) : q[i] = r[i]
    BY <1>1, <1>4, <2>1 DEF IsStrictPrefix
  <2> QED
    BY <2>2, SeqEqual
<1> QED
  BY <1>2, <1>3, <1>4 DEF IsStrictPrefix

(* A file that is not ignored is staged, or reported as untracked itself   *)
(* or with its directory.                                                  *)
LEMMA NothingUntracked ==
  ASSUME GitInv, Unstaged = {}, Untracked = {}, NEW q \in DOMAIN work, Visible(q, index)
  PROVE  q \in DOMAIN index
<1> DEFINE all == {r \in UNION {{SubSeq(p, 1, n) : n \in 1 .. Len(p)} : p \in DOMAIN work} : Visible(r, index)}
           left == {r \in all : \A p \in DOMAIN index : p \in all => ~IsPrefix(r, p)}
<1>1. DOMAIN work \subseteq Seq(STRING) \ {<<>>} /\ DOMAIN index \subseteq Seq(STRING) \ {<<>>}
  <2>1. DOMAIN work \subseteq Paths /\ DOMAIN index \subseteq Paths
    BY FileMapElim DEF GitInv, GitTypes
  <2> QED
    BY <2>1, GitConstants
<1>2. all \subseteq Seq(STRING) \ {<<>>}
  <2> SUFFICES ASSUME NEW p \in DOMAIN work, NEW n \in 1 .. Len(p) PROVE SubSeq(p, 1, n) \in Seq(STRING) \ {<<>>}
    OBVIOUS
  <2>1. p \in Seq(STRING)
    BY <1>1
  <2> QED
    BY <2>1, SubSeqProperties
<1>3. {r \in left : Len(r) = 1 \/ Front(r) \notin left} = {}
  BY DEF Untracked
<1>4. left = {}
  <2> HIDE DEF all
  <2>1. left \subseteq Seq(STRING) \ {<<>>}
    BY <1>2
  <2> HIDE DEF left
  <2>2. \A r \in left : Len(r) # 1 /\ Front(r) \in left
    BY <1>3
  <2> QED
    BY <2>1, <2>2, Shortest
<1>5. q \in all
  <2>1. q \in Seq(STRING) /\ q # <<>>
    BY <1>1
  <2>2. Len(q) \in 1 .. Len(q) /\ SubSeq(q, 1, Len(q)) = q
    BY <2>1
  <2>3. q \in {SubSeq(q, 1, n) : n \in 1 .. Len(q)}
    BY <2>2
  <2> QED
    BY <2>3
<1>6. PICK p \in DOMAIN index : IsPrefix(q, p)
  BY <1>4, <1>5
<1>7. Exists(p)
  BY DEF Unstaged
<1>8. q \in Seq(STRING) /\ p \in Seq(STRING)
  BY <1>1
<1>9. CASE p \in DOMAIN work
  BY <1>6, <1>9 DEF GitInv, FilesApart, IsStrictPrefix
<1>10. CASE p \notin DOMAIN work
  <2>1. PICK r \in DOMAIN work : IsStrictPrefix(p, r)
    BY <1>7, <1>10 DEF Exists, Below
  <2>2. IsStrictPrefix(q, r)
    BY <1>1, <1>6, <1>8, <2>1, PrefixFacts
  <2> QED
    BY <2>1, <2>2 DEF GitInv, FilesApart
<1> QED
  BY <1>9, <1>10

LEMMA CleanSaved == GitInv => CleanMeansSaved
<1> SUFFICES ASSUME GitInv, out = <<"status", [staged |-> {}, unstaged |-> {}, untracked |-> {}]>>
             PROVE  LET saved == {<<p, work[p]>> : p \in {q \in DOMAIN work : q \in DOMAIN index \/ Visible(q, index)}}
                    IN  /\ saved \subseteq HeadFiles
                        /\ \A f \in HeadFiles \ saved : f[2] = NoData /\ Below(f[1]) # {}
  BY DEF CleanMeansSaved
<1>1. [staged |-> {}, unstaged |-> {}, untracked |-> {}] = getStatus
  BY DEF GitInv, StatusNow
<1>2. Staged = {} /\ Unstaged = {} /\ Untracked = {}
  BY <1>1 DEF getStatus
<1>3. StagedFiles \subseteq HeadFiles /\ \A f \in HeadFiles : f[1] \in DOMAIN index
  BY <1>2 DEF Staged
<1>4. \A p \in DOMAIN index : Exists(p) /\ ReadFile(p) = index[p]
  BY <1>2 DEF Unstaged
<1>5. ASSUME NEW q \in DOMAIN work, q \in DOMAIN index \/ Visible(q, index)
      PROVE  <<q, work[q]>> \in HeadFiles
  <2>1. q \in DOMAIN index
    BY <1>2, <1>5, NothingUntracked
  <2>2. work[q] = index[q]
    BY <1>4, <2>1 DEF ReadFile
  <2> QED
    BY <1>3, <2>1, <2>2 DEF StagedFiles
<1>6. ASSUME NEW f \in HeadFiles, ~(f[1] \in DOMAIN work /\ f = <<f[1], work[f[1]]>>)
      PROVE  f[2] = NoData /\ Below(f[1]) # {}
  <2>1. PICK t : HeadFiles = FilesOf(t)
    BY <1>6 DEF HeadFiles
  <2>2. f = <<f[1], t[2][f[1]]>> /\ f[2] = t[2][f[1]]
    BY <2>1 DEF FilesOf
  <2>3. f[1] \in DOMAIN index /\ <<f[1], index[f[1]]>> \in HeadFiles
    BY <1>3 DEF StagedFiles
  <2>4. index[f[1]] = t[2][f[1]]
    BY <2>1, <2>3 DEF FilesOf
  <2>5. ReadFile(f[1]) = f[2] /\ Exists(f[1])
    BY <1>4, <2>2, <2>3, <2>4
  <2>6. f[1] \notin DOMAIN work
    BY <1>6, <2>2, <2>5 DEF ReadFile
  <2> QED
    BY <2>5, <2>6 DEF ReadFile, Exists
<1> QED
  BY <1>3, <1>5, <1>6

-----------------------------------------------------------------------------
(* The theorems.                                                           *)

LEMMA GitStart == GitInit => GitInv
<1> SUFFICES ASSUME GitInit PROVE GitInv
  OBVIOUS
<1>1. out[1] # "status" /\ cmd = Idle /\ cmd.op = "idle"
  BY IdleFacts DEF GitInit, Nothing
<1>2. StatusNow /\ CommandReady
  BY <1>1 DEF StatusNow, CommandReady
<1>3. tags = [t \in Tags |-> Nothing] /\ Tagged = {}
  BY DEF GitInit, Tagged
<1>4. tags \in [Tags -> Heads \cup ({"tag"} \X Heads)] /\ Nothing \in Heads
  BY <1>3 DEF Heads
<1>5. CASE work = << >> /\ index = << >> /\ ref = Nothing /\ packed = Nothing
  <2>1. work \in FileMaps /\ index \in FileMaps /\ DOMAIN work = {} /\ DOMAIN index = {}
    BY <1>5, NoFiles
  <2>2. refResolve = Nothing
    BY <1>5 DEF refResolve
  <2> QED
    BY <1>1, <1>2, <1>3, <1>4, <1>5, <2>1, <2>2 DEF GitInv, GitTypes, FilesApart, ObjectsReachable
<1>6. ASSUME NEW p \in Paths, NEW d \in Data, NEW c, c = Commit(Tree(Single(p, d)), Nothing),
             work = Single(p, d), index = Single(p, d), objects = CommitNeeds(c),
             \/ ref = Nothing /\ packed = c
             \/ ref = c /\ packed = Nothing
      PROVE  GitInv
  <2> DEFINE f == Single(p, d)
  <2>1. f \in FileMaps /\ DOMAIN f = {p} /\ f[p] = d
    BY SingleFiles
  <2>2. Tree(f) \in Trees
    BY <2>1, TreeFacts
  <2>3. c \in Commits /\ TreeNeeds(Tree(f)) \subseteq CommitNeeds(c)
    BY <1>4, <1>6, <2>2, CommitFacts
  <2>4. p \in Leaves(f) /\ Tree(f)[2] = [q \in Leaves(f) |-> f[q]]
    BY <2>1 DEF Leaves, Tree, IsStrictPrefix
  <2>5. Blob(d) \in TreeNeeds(Tree(f))
    <3>1. p \in DOMAIN Tree(f)[2] /\ Tree(f)[2][p] = d
      BY <2>1, <2>4
    <3> QED
      BY <3>1 DEF TreeNeeds
  <2>6. refResolve = c
    BY <1>6 DEF refResolve
  <2>7. GitTypes
    BY <1>1, <1>4, <1>6, <2>1, <2>3 DEF GitTypes, Heads
  <2>8. FilesApart
    BY <1>6, <2>1 DEF FilesApart, IsStrictPrefix
  <2>9. ObjectsReachable
    BY <1>3, <1>6, <2>1, <2>3, <2>5, <2>6 DEF ObjectsReachable
  <2> QED
    BY <1>2, <2>7, <2>8, <2>9 DEF GitInv
<1> QED
  BY <1>5, <1>6 DEF GitInit

(* What a commit does to the head is all that happens to it.               *)
HeadKept == refResolve # Nothing => refResolve \in Range(LogFrom(refResolve', -1))

LEMMA SameHead ==
  ASSUME GitInv, UNCHANGED <<ref, packed>>
  PROVE  HeadKept
<1>1. refResolve' = refResolve
  BY DEF refResolve
<1>2. SUFFICES ASSUME refResolve # Nothing PROVE refResolve \in Range(LogFrom(refResolve, -1))
  BY <1>1 DEF HeadKept
<1>3. refResolve \in Commits
  BY <1>2, CommandTypes DEF GitInv, Heads
<1>4. 1 \in 1 .. Len(refResolve[2])
  BY <1>3 DEF Commits
<1> QED
  BY <1>3, <1>4, LogFacts

LEMMA GitStep ==
  ASSUME GitInv, [GitNext]_gitVars
  PROVE  GitInv' /\ HeadKept
<1>1. ASSUME NEW p \in Paths, Unlink(p) PROVE GitInv' /\ HeadKept
  BY <1>1, UnlinkStep, SameHead DEF Unlink
<1>2. ASSUME NEW p \in Paths, NEW d \in Data, Edit(p, d) PROVE GitInv' /\ HeadKept
  BY <1>2, EditStep, SameHead DEF Edit
<1>3. ASSUME NEW arg \in Arguments, AddStart(arg) PROVE GitInv' /\ HeadKept
  BY <1>3, AddStartStep, SameHead DEF AddStart
<1>4. ASSUME NEW arg \in Arguments, NEW cached \in BOOLEAN, RmFiles(arg, cached) PROVE GitInv' /\ HeadKept
  BY <1>4, RmFilesStep, SameHead DEF RmFiles
<1>5. ASSUME NEW p \in Paths, AddFile(p) PROVE GitInv' /\ HeadKept
  BY <1>5, AddFileStep, SameHead DEF AddFile
<1>6. CASE AddEnd
  BY <1>6, AddEndStep, SameHead DEF AddEnd
<1>7. CASE RmIndex
  BY <1>7, RmIndexStep, SameHead DEF RmIndex
<1>8. CASE CommitTrees
  BY <1>8, CommitTreesStep, SameHead DEF CommitTrees
<1>9. CASE CommitObject
  BY <1>9, CommitObjectStep, SameHead DEF CommitObject
<1>10. CASE CommitRef
  BY <1>10, CommitRefStep DEF HeadKept
<1>11. CASE Killed
  BY <1>11, KilledStep, SameHead DEF Killed
<1>12. ASSUME NEW t \in Tags, NEW annotated \in BOOLEAN, createTag(t, annotated) PROVE GitInv' /\ HeadKept
  BY <1>12, TagStep, SameHead DEF createTag
<1>13. CASE Reads
  <2>1. UNCHANGED <<ref, packed>>
    BY <1>13 DEF Reads, Status, LsFiles, ShowRefs, Checkout, Log, LsTree, Answer
  <2> QED
    BY <1>13, <2>1, ReadStep, SameHead
<1>14. CASE UNCHANGED gitVars
  <2>1. UNCHANGED <<work, index, objects, ref, packed, tags, cmd, out>>
    BY <1>14 DEF gitVars
  <2>2. refResolve' = refResolve /\ Tagged' = Tagged
    BY <2>1 DEF refResolve, Tagged
  <2>3. getStatus' = getStatus
    BY <2>1, <2>2 DEF getStatus, Staged, StagedFiles, HeadFiles, Unstaged, Exists, Below, ReadFile, Untracked, Visible, Ignored
  <2>4. GitInv'
    BY <2>1, <2>2, <2>3 DEF GitInv, GitTypes, FilesApart, ObjectsReachable, CommandReady, StatusNow
  <2> QED
    BY <2>1, <2>4, SameHead
<1> QED
  BY <1>1, <1>2, <1>3, <1>4, <1>5, <1>6, <1>7, <1>8, <1>9, <1>10, <1>11, <1>12, <1>13, <1>14 DEF GitNext, Writes

LEMMA GitAlways == GitSpec => []GitInv
<1>1. GitInv /\ [GitNext]_gitVars => GitInv'
  BY GitStep
<1> QED
  BY <1>1, GitStart, PTL DEF GitSpec

(* Whatever is staged, committed or tagged can be read, wherever a command *)
(* was killed: every object is written before anything refers to it, and   *)
(* none is taken away.                                                     *)
THEOREM EverythingIsStored == GitSpec => []ObjectsReachable
<1>1. GitInv => ObjectsReachable
  BY DEF GitInv
<1> QED
  BY <1>1, GitAlways, PTL

(* A commit becomes the head only if the head is its parent.               *)
THEOREM NoCommitIsLost == GitSpec => HistoryKept
<1>1. GitInv /\ [GitNext]_gitVars => [HeadKept]_gitVars
  BY GitStep
<1> QED
  BY <1>1, GitAlways, PTL DEF GitSpec, HistoryKept, HeadKept

(* After a clean status nothing but ignored files is missing in HEAD.      *)
THEOREM CleanIsSaved == GitSpec => []CleanMeansSaved
  BY CleanSaved, GitAlways, PTL
=============================================================================
