--------------------------- MODULE GitRepository ---------------------------
(***************************************************************************)
(* cgit (cgit/src): the object database, the index, the branch that HEAD   *)
(* names, tags and the working tree, and the commands of CommandHandler.   *)
(*                                                                         *)
(* An object is named by the hash of its contents: here it is what its     *)
(* contents say.  A tree never has an empty directory in it, so that the   *)
(* files below it tell which tree it is, and the trees of a commit and of  *)
(* its ancestors, newest first, which commit: <<"blob", data>>, <<"tree",  *)
(* paths to data>>, <<"commit", trees>>, <<"tag", commit>>.  `objects' is  *)
(* the set of those that are stored, loose or packed.                      *)
(*                                                                         *)
(* A path is a sequence of names.  One command runs at a time; a command   *)
(* that writes several files is several steps, between which it may be     *)
(* killed and the user may change files.  Permissions, dates, authors and  *)
(* messages are left out, and so are empty directories of the working      *)
(* tree, a path given twice to one command and a kill while one file is    *)
(* written.                                                                *)
(***************************************************************************)
EXTENDS Integers, Sequences, SequencesExt

CONSTANTS Paths,      \* paths a file may have
          Data,       \* contents of a file
          NoData,     \* the contents of an empty file
          IgnoreFile, \* the path of .gitignore
          Ignores,    \* what a .gitignore with given contents ignores
          Tags,
          MaxInputs   \* bound of the edits and of the commands that write

ASSUME GitConstants ==
  /\ Paths \subseteq Seq(STRING) \ {<<>>}
  /\ NoData \in Data
  /\ DOMAIN Ignores = Data
  /\ MaxInputs \in Nat

VARIABLES
  work,     \* the working tree: data of each file that exists
  index,    \* .git/index: data of each path that is staged
  objects,  \* .git/objects
  active,   \* what HEAD holds: "main", or "HEAD" when it is detached
  ref,      \* the commit in the file that a commit writes, if the file exists
  packed,   \* the commit of the branch in packed-refs, if any
  tags,     \* .git/refs/tags
  cmd,      \* the command that is running
  out,      \* what the last command printed or checked out
  inputs    \* edits and commands so far

gitVars == <<work, index, objects, active, ref, packed, tags, cmd, out, inputs>>

Input == inputs < MaxInputs /\ inputs' = inputs + 1

Nothing == <<"none">>
Idle == [op |-> "idle"]

Single(p, d) == [q \in {p} |-> d]
Over(f, g) == [p \in DOMAIN f \cup DOMAIN g |-> IF p \in DOMAIN g THEN g[p] ELSE f[p]]
Minus(f, ps) == [p \in DOMAIN f \ ps |-> f[p]]

(* A directory, and a file that does not exist, read as an empty file.     *)
Below(p) == {q \in DOMAIN work : IsStrictPrefix(p, q)}
Exists(p) == p \in DOMAIN work \/ Below(p) # {}
ReadFile(p) == IF p \in DOMAIN work THEN work[p] ELSE NoData

-----------------------------------------------------------------------------
(* Objects and names.                                                      *)

Blob(d) == <<"blob", d>>
Commit(tree, parent) == <<"commit", <<tree>> \o IF parent = Nothing THEN <<>> ELSE parent[2]>>

(* writeIndexAsTree.  A path that other paths lie below is a directory,    *)
(* even if it is staged as a file as well.                                 *)
Leaves(idx) == {p \in DOMAIN idx : \A q \in DOMAIN idx : ~IsStrictPrefix(p, q)}
Tree(idx) == <<"tree", [p \in Leaves(idx) |-> idx[p]]>>

(* The trees a tree consists of, one for each directory: all are written.  *)
SubTree(tree, dir) ==
  LET below == {p \in DOMAIN tree[2] : IsStrictPrefix(dir, p)}
  IN  <<"tree", [q \in {SubSeq(p, Len(dir) + 1, Len(p)) : p \in below} |-> tree[2][dir \o q]]>>
Directories(tree) == UNION {{SubSeq(p, 1, n) : n \in 0 .. Len(p) - 1} : p \in DOMAIN tree[2]}
TreesOf(tree) == {SubTree(tree, dir) : dir \in Directories(tree)}

(* checkout, getStatus, lsTree: the files of a tree.                       *)
FilesOf(tree) == {<<p, tree[2][p]>> : p \in DOMAIN tree[2]}

(* A commit (the first) and its ancestors.                                 *)
Ancestor(c, n) == <<"commit", SubSeq(c[2], n, Len(c[2]))>>

(* Everything that must be stored for a tree, or a commit, to be of use.   *)
TreeNeeds(tree) == TreesOf(tree) \cup {Blob(tree[2][p]) : p \in DOMAIN tree[2]}
CommitNeeds(c) == UNION {{Ancestor(c, n)} \cup TreeNeeds(c[2][n]) : n \in DOMAIN c[2]}

(* refResolve("HEAD"): the file of the branch before packed-refs.          *)
refResolve == IF ref = Nothing THEN packed ELSE ref

(* findObject with a type: a tag is followed to its commit, and that to    *)
(* its tree.                                                               *)
Target(o) == IF o[1] = "tag" THEN o[2] ELSE o
TreeOf(o) == Target(o)[2][1]

(* getLog: from a commit through its parents, count at most (-1: all).     *)
LogFrom(c, count) ==
  LET all == IF c = Nothing THEN 0 ELSE Len(c[2])
  IN  [n \in 1 .. (IF count \in 0 .. all THEN count ELSE all) |-> Ancestor(c, n)]

-----------------------------------------------------------------------------
(* .gitignore, and the arguments of add and rm.                            *)

(* gitIgnore goes by the .gitignore that is staged.                        *)
Ignored(idx) == IF IgnoreFile \in DOMAIN idx THEN Ignores[idx[IgnoreFile]] ELSE {}

(* Not ignored, nor below a directory that is: there recursion ends.       *)
Visible(p, idx) == \A q \in Ignored(idx) : ~IsPrefix(q, p)

(* collectFiles: an argument that is a directory stands for its files, any *)
(* other for itself, whether it exists or not.                             *)
collectFiles(arg) ==
  IF arg = <<>> \/ Below(arg) # {} THEN {p \in Below(arg) : Visible(p, index)} ELSE {arg}

Arguments == Paths \cup {<<>>}

-----------------------------------------------------------------------------
(* The user.                                                               *)

Edit(p, d) ==
  /\ Input
  /\ \A q \in DOMAIN work : ~IsStrictPrefix(p, q) /\ ~IsStrictPrefix(q, p)
  /\ work' = Over(work, Single(p, d))
  /\ out' = Nothing
  /\ UNCHANGED <<index, objects, active, ref, packed, tags, cmd>>

Unlink(p) ==
  /\ Input
  /\ p \in DOMAIN work
  /\ work' = Minus(work, {p})
  /\ out' = Nothing
  /\ UNCHANGED <<index, objects, active, ref, packed, tags, cmd>>

-----------------------------------------------------------------------------
(* add: the paths are taken out of the index, and that is written; then    *)
(* they are hashed one by one, and the index is written again.             *)

AddStart(arg) ==
  /\ Input
  /\ cmd = Idle
  /\ cmd' = [op |-> "add", todo |-> collectFiles(arg), entries |-> Minus(work, DOMAIN work)]
  /\ index' = Minus(index, collectFiles(arg))
  /\ out' = Nothing
  /\ UNCHANGED <<work, objects, active, ref, packed, tags>>

(* Mutant: writeObject is left with its default, which only hashes.        *)
Stored(o) == {}

Written(o) == {o}

(* Of a file that does not exist the object is written, and stat fails.    *)
AddFile(p) ==
  /\ cmd.op = "add"
  /\ p \in cmd.todo
  /\ objects' = objects \cup Written(Blob(ReadFile(p)))
  /\ cmd' = IF Exists(p)
              THEN [cmd EXCEPT !.todo = @ \ {p}, !.entries = Over(@, Single(p, ReadFile(p)))]
              ELSE Idle
  /\ out' = Nothing
  /\ UNCHANGED <<work, index, active, ref, packed, tags, inputs>>

AddEnd ==
  /\ cmd.op = "add" /\ cmd.todo = {}
  /\ index' = Over(index, cmd.entries)
  /\ cmd' = Idle
  /\ out' = Nothing
  /\ UNCHANGED <<work, objects, active, ref, packed, tags, inputs>>

(* rm: refused if a path is not staged; the files go before the entries.   *)
RmFiles(arg, cached) ==
  /\ Input
  /\ cmd = Idle
  /\ collectFiles(arg) \subseteq DOMAIN index
  /\ work' = IF cached THEN work ELSE Minus(work, collectFiles(arg))
  /\ cmd' = [op |-> "rm", todo |-> collectFiles(arg)]
  /\ out' = Nothing
  /\ UNCHANGED <<index, objects, active, ref, packed, tags>>

RmIndex ==
  /\ cmd.op = "rm"
  /\ index' = Minus(index, cmd.todo)
  /\ cmd' = Idle
  /\ out' = Nothing
  /\ UNCHANGED <<work, objects, active, ref, packed, tags, inputs>>

(* Mutant: packed-refs is not looked at.                                   *)
ParentLoose == ref

Parent == refResolve

(* commit: the trees, the commit, the branch (or HEAD).  An empty index    *)
(* has no tree: at() throws.                                               *)
CommitTrees ==
  /\ Input
  /\ cmd = Idle
  /\ index # << >>
  /\ objects' = objects \cup TreesOf(Tree(index))
  /\ cmd' = [op |-> "commit", object |-> Commit(Tree(index), Parent)]
  /\ out' = Nothing
  /\ UNCHANGED <<work, index, active, ref, packed, tags>>

CommitObject ==
  /\ cmd.op = "commit"
  /\ objects' = objects \cup {cmd.object}
  /\ cmd' = [cmd EXCEPT !.op = "branch"]
  /\ out' = Nothing
  /\ UNCHANGED <<work, index, active, ref, packed, tags, inputs>>

CommitRef ==
  /\ cmd.op = "branch"
  /\ ref' = cmd.object
  /\ cmd' = Idle
  /\ out' = Nothing
  /\ UNCHANGED <<work, index, objects, active, packed, tags, inputs>>

(* tag: of HEAD; with -a an object is made first.  Without a commit the    *)
(* file is written all the same, and resolves to nothing.                  *)
createTag(t, annotated) ==
  /\ Input
  /\ cmd = Idle
  /\ LET o == IF annotated THEN <<"tag", refResolve>> ELSE refResolve
     IN  /\ tags' = [tags EXCEPT ![t] = o]
         /\ objects' = IF annotated THEN objects \cup {o} ELSE objects
  /\ out' = Nothing
  /\ UNCHANGED <<work, index, active, ref, packed, cmd>>

Killed ==
  /\ cmd # Idle
  /\ cmd' = Idle
  /\ out' = Nothing
  /\ UNCHANGED <<work, index, objects, active, ref, packed, tags, inputs>>

-----------------------------------------------------------------------------
(* Commands that only print.                                               *)

(* getStatus: HEAD against the index, ...                                  *)
HeadFiles == IF refResolve = Nothing THEN {} ELSE FilesOf(TreeOf(refResolve))
StagedFiles == {<<p, index[p]>> : p \in DOMAIN index}
Staged == (StagedFiles \ HeadFiles) \cup {f \in HeadFiles : f[1] \notin DOMAIN index}

(* Mutant: the times are trusted, and a file changed at once after add     *)
(* has the time of the entry.                                              *)
UnstagedByTime == {p \in DOMAIN index : ~Exists(p)}

(* ... the index against the files (the times are never found equal, so    *)
(* that it is the contents that count), ...                                *)
Unstaged == {p \in DOMAIN index : ~Exists(p) \/ ReadFile(p) # index[p]}

(* ... and what is left: files, or directories in which nothing that is    *)
(* not ignored is staged.  A directory stands for what is below it.        *)
Untracked ==
  LET all == {q \in UNION {{SubSeq(p, 1, n) : n \in 1 .. Len(p)} : p \in DOMAIN work} : Visible(q, index)}
      left == {q \in all : \A p \in DOMAIN index : p \in all => ~IsPrefix(q, p)}
  IN  {q \in left : Len(q) = 1 \/ Front(q) \notin left}

getStatus == [staged |-> Staged, unstaged |-> Unstaged, untracked |-> Untracked]

Answer(what) ==
  /\ cmd = Idle
  /\ out' = what
  /\ UNCHANGED <<work, index, objects, active, ref, packed, tags, cmd, inputs>>

Status == Answer(<<"status", getStatus>>)
Log(count) == refResolve # Nothing /\ Answer(<<"log", LogFrom(refResolve, count)>>)
LsFiles == Answer(<<"ls-files", DOMAIN index>>)
LsTree(t) == tags[t] \notin {Nothing, <<"tag", Nothing>>} /\ Answer(<<"ls-tree", FilesOf(TreeOf(tags[t]))>>)
ShowRefs == Answer(<<"show-ref", {tags[t] : t \in Tags} \cup {ref, packed}>>)

(* checkout into an empty directory.  (An annotated tag is taken for a     *)
(* tree, with undefined results.)                                          *)
Checkout == refResolve # Nothing /\ Answer(<<"checkout", HeadFiles>>)

Reads == \/ Status \/ LsFiles \/ ShowRefs \/ Checkout
         \/ \E count \in {-1, 1} : Log(count)
         \/ \E t \in Tags : LsTree(t)

-----------------------------------------------------------------------------
(* A new repository, or a clone that git made: one commit, with a packed   *)
(* branch or a detached HEAD.                                              *)
GitInit ==
  /\ out = Nothing /\ cmd = Idle /\ inputs = 0 /\ tags = [t \in Tags |-> Nothing]
  /\ \/ /\ work = << >> /\ index = << >> /\ objects = {}
        /\ active = "main" /\ ref = Nothing /\ packed = Nothing
     \/ \E p \in Paths, d \in Data :
          LET c == Commit(Tree(Single(p, d)), Nothing)
          IN  /\ work = Single(p, d) /\ index = Single(p, d) /\ objects = CommitNeeds(c)
              /\ \/ active = "main" /\ ref = Nothing /\ packed = c
                 \/ active = "HEAD" /\ ref = c /\ packed = Nothing

Writes == \/ \E arg \in Arguments : AddStart(arg) \/ \E cached \in BOOLEAN : RmFiles(arg, cached)
          \/ \E p \in Paths : AddFile(p)
          \/ AddEnd \/ RmIndex \/ CommitTrees \/ CommitObject \/ CommitRef \/ Killed
          \/ \E t \in Tags, annotated \in BOOLEAN : createTag(t, annotated)

GitNext == \/ \E p \in Paths : Unlink(p) \/ \E d \in Data : Edit(p, d)
        \/ Writes \/ Reads

GitSpec == GitInit /\ [][GitNext]_gitVars

-----------------------------------------------------------------------------
(* Whatever is staged, committed or tagged can be read again: every object *)
(* it needs is stored, wherever a command was killed.                      *)
Tagged == {tags[t] : t \in Tags} \ {Nothing, <<"tag", Nothing>>}
ObjectsReachable ==
  /\ \A p \in DOMAIN index : Blob(index[p]) \in objects
  /\ \A o \in Tagged : o[1] = "tag" => o \in objects
  /\ \A c \in ({refResolve} \ {Nothing}) \cup {Target(o) : o \in Tagged} : CommitNeeds(c) \subseteq objects

(* No commit is lost: the branch only moves to a commit whose history has  *)
(* the former one in it.                                                   *)
HistoryKept == [][refResolve # Nothing => refResolve \in Range(LogFrom(refResolve', -1))]_gitVars

(* When status has nothing to report, a checkout of HEAD gives back every  *)
(* file of the working tree that is staged or not ignored, and no other    *)
(* file, but for an empty one in the place of which there is a directory.  *)
CleanMeansSaved ==
  out = <<"status", [staged |-> {}, unstaged |-> {}, untracked |-> {}]>> =>
    LET saved == {<<p, work[p]>> : p \in {q \in DOMAIN work : q \in DOMAIN index \/ Visible(q, index)}}
    IN  /\ saved \subseteq HeadFiles
        /\ \A f \in HeadFiles \ saved : f[2] = NoData /\ Below(f[1]) # {}
=============================================================================
