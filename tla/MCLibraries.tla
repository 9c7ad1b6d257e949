---------------------------- MODULE MCLibraries ----------------------------
(***************************************************************************)
(* The pure algorithms, the lists, the smart pointers, the ordered map     *)
(* with its cache and the arena, one of them at a time: the others have    *)
(* done all their work.                                                    *)
(***************************************************************************)
EXTENDS SmartPtr, Sequences, SequencesExt

-----------------------------------------------------------------------------
(* The pure algorithms and the inputs they are checked on: a state is an   *)
(* algorithm and one of its inputs.                                        *)

VARIABLES algorithm, asked, input

question == <<algorithm, asked, input>>

UpTo(n, S) == UNION {[1 .. k -> S] : k \in 0 .. n}

B == INSTANCE Brainfuck WITH MEMORY_SIZE <- 3, Cell <- 6, Fuel <- 60
J == INSTANCE Json
A == INSTANCE ArgParse
P == INSTANCE Puzzles
D == INSTANCE Diff WITH Context <- 1
G == INSTANCE GitPack WITH Radix <- 4, CopyWhole <- 8
E == INSTANCE Bencode
R == INSTANCE Resp
H == INSTANCE Http
U == INSTANCE Url
C == INSTANCE CshLine
X == INSTANCE WireProtocol WITH Width <- 2, Radix <- 11, Bits <- 3
T == INSTANCE TarFile WITH Block <- 2, NameMax <- 3, PrefixMax <- 4, LinkMax <- 1, Now <- 9

Programs ==
  {<<"+", "+">> \o <<"[">> \o body \o <<"]">> \o <<".">> : body \in UpTo(5, {"+", "-", ">", "<"})}
    \cup {<<"+", ",", "[">> \o body \o <<">", "]">> : body \in UpTo(4, {"+", "-", "<", "[", "]"})}
    \cup UpTo(3, {"+", "-", ">", "<", "[", "]", ".", ","})

Texts == UpTo(5, {"{", "}", "[", "]", ",", ":", "'a'", "1"})
           \cup {<<"{", "'a'", ":">> \o t \o <<"}">> : t \in UpTo(4, {"{", "}", "[", "]", "," , "'b'", "0"})}
           \cup UpTo(5, {"0", "1", "-", "."})
Escapes == UpTo(3, {"n", "b", "quote", "backslash", "nl", "cr", "tab", "control"})

Argument(name, type, alias, required, kind, implicit, default) ==
  [name |-> name, type |-> type, alias |-> alias, required |-> required, kind |-> kind,
   implicit |-> implicit, default |-> default,
   allowed |-> IF kind = "int" THEN {"0", "5"} ELSE {"", "true", "false", "w", "5", "-5", "-ab", "s"}]

Help == Argument("help", "NAMED", "h", FALSE, "bool", "true", "false")
Parsers ==
  LET flag == Argument("f", "NAMED", "f", FALSE, "bool", "true", A!None)
      num(req) == Argument("n", "BOTH", "n", req, "int", A!None, A!None)
      word(req) == Argument("w", "POSITIONAL", "", req, "string", A!None, A!None)
      sub == [args |-> <<Help, Argument("m", "BOTH", "m", TRUE, "int", A!None, A!None)>>, subs |-> << >>]
  IN  {[args |-> <<Help, flag, num(req), word(~req)>>, subs |-> ("s" :> sub)] : req \in BOOLEAN}

Word(kind, name, value) == [kind |-> kind, name |-> name, value |-> value]
Lines == UpTo(4, {Word("mark", "", "--"), Word("named", "f", ""), Word("named", "n", "5"), Word("named", "n", ""),
                  Word("alias", "f", ""), Word("alias", "h", ""), Word("alias", "ab", ""), Word("number", "5", "-5"),
                  Word("word", "", "5"), Word("word", "", "w"), Word("word", "", "s")})
Lists == UNION {[1 .. k -> UpTo(2, {"plain", "comma", "single", "double"})] : k \in 1 .. 2}

Node(type, data, link, mode, mtime) == [type |-> type, data |-> data, link |-> link, mode |-> mode, mtime |-> mtime]
Dirs == {Node("dir", <<>>, <<>>, mode, 1) : mode \in {"rw", "ro"}}
Leaves == {Node("file", data, <<>>, "rw", 2) : data \in UpTo(3, {0, 7})}
            \cup {Node("link", <<>>, link, "rw", 3) : link \in UpTo(2, {7})}
Trees ==
  {(<<1>> :> f) : f \in Leaves \cup Dirs}
    \cup {(<<1>> :> d) @@ (<<1, 1>> :> e) @@ (<<1, 1, 1>> :> f) @@ (<<1, 2>> :> g) :
           d, e \in Dirs, f \in Leaves \cup Dirs, g \in Leaves}
Names == UpTo(9, {"/", "a"}) \ {<<>>}

Recoloured(n, p, q, c, d) == [r \in P!Cells(n) |-> IF r = p THEN c ELSE IF r = q THEN d ELSE r[1]]
Regions(n, Q) ==
  {g \in {Recoloured(n, p, q, c, d) : p \in P!Cells(n), q \in Q, c, d \in 1 .. n} :
     \A c \in 1 .. n : \E p \in P!Cells(n) : g[p] = c}

Hints(n) ==
  LET all == P!Boards(n, [p \in P!Cells(n) |-> 0], 0)
      none == [i \in 1 .. n |-> 0]
  IN  {[s \in 1 .. 4 |-> IF s \in S THEN P!generateHints(b, n)[s] ELSE none] : b \in all, S \in SUBSET (1 .. 4)}
        \cup {<<top, right, none, none>> : top, right \in [1 .. n -> {0, 1, n}]}

Solved == LET row == <<1, 2, 3, 4, 3, 4, 1, 2, 2, 1, 4, 3, 4, 3, 2, 1>>
          IN  [p \in P!Cells(4) |-> row[4 * (p[1] - 1) + p[2]]]
Order(step, from) == [i \in 1 .. 16 |-> LET k == (from + step * i) % 16 IN <<(k \div 4) + 1, (k % 4) + 1>>]

Letters == {"A", "B"}
WordSet == UpTo(3, Letters) \ {<<>>}
Grid(letters) == [p \in (1 .. 2) \X (1 .. 3) |-> letters[3 * (p[1] - 1) + p[2]]]
Searches == {Grid(l) : l \in [1 .. 6 -> Letters]} \X ({<<v>> : v \in WordSet} \cup {<<v, w>> : v, w \in {u \in WordSet : u[1] = "A"}})
Blank == Grid([i \in 1 .. 6 |-> "*"])

Files == UpTo(4, {"x", "y"}) \X UpTo(4, {"x", "y", "z"})

Hashes == [i \in 1 .. 9 |-> <<(i - 1) \div 3, (i - 1) % 3>>]
Indexes == {[shas |-> SelectSeq(Hashes, LAMBDA s : s \in S), behind |-> b] : S \in SUBSET Range(Hashes), b \in Range(Hashes)}
Parts == {<<1>>, <<2>>, <<2, 1>>}
Byte == UpTo(1, {7, 8})
Versions == Byte \X Byte \X Byte \X BOOLEAN \X (0 .. 1) \X BOOLEAN

One == E!Simple("int", <<"1">>)
Simples == {E!Simple("string", s) : s \in UpTo(1, {"e", "1"})} \cup {One}
Dictionaries(nodes) ==
  LET keyed == {[n EXCEPT !.key = k] : n \in nodes, k \in {<<"e">>, <<"1">>, <<"e", "1">>}}
  IN  {[E!Empty("object") EXCEPT !.kids = kids] : kids \in {q \in UpTo(2, keyed) : Len(q) = 2 => q[1].key # q[2].key}}
Arrays(nodes) == {[E!Empty("array") EXCEPT !.kids = kids] : kids \in UpTo(2, nodes)}
Bencoded == Arrays(Simples \cup Arrays({One}) \cup Dictionaries({One}))
              \cup Dictionaries({One} \cup Arrays({E!Simple("string", <<"e">>)}) \cup Dictionaries({One}))
BencodeTexts == UpTo(5, {"d", "l", "e", "i", "1", "-", ":"})

Strings(n) == {R!Variant("string", s) : s \in UpTo(n, {"r", "n", "$"})}
Nodes == Strings(3) \cup {R!Nil, R!Variant("long", <<"1">>), R!Plain(<<"a">>, TRUE), R!Plain(<<"a">>, FALSE)}
           \cup {R!Aggregate(v) : v \in UpTo(2, Strings(2) \cup {R!Nil})}

Message(headers, body) == [first |-> "first", headers |-> headers, body |-> body]
Messages == {Message(h, b) : h \in UpTo(2, {"other", "server"}), b \in UpTo(4, {"x", "r", "n"})}
CutMessages == {Message(h, b) : h \in {<<>>, <<"server">>}, b \in {<<>>, <<"x", "y">>, <<"r", "n", "r", "n">>, <<"1", "2", "3", "4">>}}
Cuts(raw) == {{}} \cup {{i, j} : i, j \in 1 .. Len(raw) - 1}
Chunkings == UpTo(3, {<<"x">>, <<"1">>, <<"r", "n">>})
Answers == [status : {200}, to : {[host |-> "", path |-> ""]}] \cup [status : {301, 303}, to : [host : {"", "A", "B"}, path : {"p", "q"}]]
Webs == {(<<"A", "p">> :> r) @@ (<<"A", "q">> :> s) @@ (<<"B", "p">> :> t) @@ (<<"B", "q">> :> u) :
           r, s, t \in Answers, u \in {x \in Answers : x.status = 200}}
Start == [url |-> [host |-> "A", ip |-> "", path |-> "p"], host |-> "", method |-> "POST"]

UrlTexts ==
  {protocol \o <<"://">> \o user \o host \o port \o path :
     protocol \in {<<>>, <<"http">>, <<"udp">>}, user \in {<<>>, <<"t", ":", "t", "@">>}, host \in {<<>>, <<"h">>},
     port \in {<<>>, <<":", "p80">>, <<":", "p65616">>, <<":", "p65536">>, <<":">>},
     path \in {<<>>, <<"?", "t">>} \cup {<<"/">> \o p : p \in UpTo(3, {"?", "&", "=", "t"})}}
Characters(more) == Range(U!Chars) \cup more
Targets == {<<"http", "://", "h">>, <<"udp", "://", "h">>} \cup UpTo(2, Characters({"1"}))
Asked == Targets \X UpTo(1, Characters({"t"})) \X {<<"1">>, <<"+">>, <<>>} \X {<<"1">>, <<"+">>}

KeyPresses == UpTo(5, {"a", "intr", "up", "down", "left", "right", "del", "back"})
Quotable == {w \in UpTo(3, {"a", " ", "q", "Q"}) : w # <<>> /\ ~({"q", "Q"} \subseteq Range(w))}
TypedLines == UpTo(6, {"a", " ", "q", "\\", "|"})

PeerMessages ==
  {X!Bytes(0), X!Plain(1), X!buildMessageHelper(10, <<4>>), X!buildHave(12), X!buildBitField(<<5, 2>>),
   X!buildRequest(0, 1, 2, FALSE), X!buildRequest(11, 0, 2, TRUE), X!buildPiece(0, 12, <<7, 0>>)}
Peers == {X!buildHandshake(1, 3), X!buildHandshake(3, 3)}
PeerCuts(bytes) == {{}, 1 .. Len(bytes) - 1} \cup {{n} : n \in 1 .. Len(bytes) - 1} \cup {{n, n + 3} : n \in 1 .. Len(bytes) - 4}

Algorithms == {"brainfuck", "json", "escape", "argparse", "list", "tar", "path", "queens", "skyscrapers", "sudoku", "wordsearch", "wordlist",
               "diff", "pack index", "number", "pack", "bencode", "bencoded text", "resp", "message", "chunked", "cut message", "web",
               "url", "encoded", "proxy", "keys", "words", "line", "peer", "piece", "bit field"}

NothingAsked == algorithm \in Algorithms /\ asked = FALSE /\ input = <<>>
AllAsked == algorithm = "none" /\ asked = TRUE /\ input = <<>>

Ask ==
  /\ ~asked /\ asked' = TRUE /\ UNCHANGED algorithm
  /\ \/ algorithm = "brainfuck" /\ input' \in Programs
     \/ algorithm = "json" /\ input' \in Texts
     \/ algorithm = "escape" /\ input' \in Escapes
     \/ algorithm = "argparse" /\ input' \in Parsers \X Lines
     \/ algorithm = "list" /\ input' \in Lists
     \/ algorithm = "tar" /\ input' \in Trees
     \/ algorithm = "path" /\ input' \in Names
     \/ algorithm = "queens" /\ \/ \E g \in Regions(4, P!Cells(4)) : input' = <<4, g>>
                                \/ \E g \in Regions(5, {<<1, 3>>, <<4, 2>>}) : input' = <<5, g>>
     \/ algorithm = "skyscrapers" /\ input' \in Hints(3)
     \/ algorithm = "sudoku" /\ input' \in {Order(step, from) : step \in {1, 5}, from \in {0, 2}}
     \/ algorithm = "wordsearch" /\ input' \in Searches
     \/ algorithm = "wordlist" /\ input' \in {<<v, w>> : v, w \in WordSet}
     \/ algorithm = "diff" /\ input' \in Files
     \/ algorithm = "pack index" /\ input' \in Indexes \X Parts
     \/ algorithm = "number" /\ input' \in 0 .. 100
     \/ algorithm = "pack" /\ input' \in Versions
     \/ algorithm = "bencode" /\ input' \in Bencoded
     \/ algorithm = "bencoded text" /\ input' \in BencodeTexts
     \/ algorithm = "resp" /\ input' \in Nodes
     \/ algorithm = "message" /\ input' \in Messages
     \/ algorithm = "chunked" /\ \E c \in Chunkings : \E cuts \in Cuts(H!Chunked(c)) \cup {H!ChunkEnds(c)} : input' = <<c, cuts>>
     \/ algorithm = "cut message" /\ \E m \in CutMessages : \E cuts \in Cuts(H!toString(m)) : input' = <<m, cuts>>
     \/ algorithm = "web" /\ input' \in Webs
     \/ algorithm = "url" /\ input' \in UrlTexts
     \/ algorithm = "encoded" /\ input' \in UpTo(3, Characters({"0", "2", "t"}))
     \/ algorithm = "proxy" /\ input' \in Asked
     \/ algorithm = "keys" /\ input' \in KeyPresses
     \/ algorithm = "words" /\ input' \in {<<v, w>> : v, w \in Quotable}
     \/ algorithm = "line" /\ input' \in TypedLines
     \/ /\ algorithm = "peer"
        /\ \E h \in Peers, ms \in UpTo(2, PeerMessages) \cup {<<m, X!Plain(0), m>> : m \in PeerMessages} :
             \E cuts \in PeerCuts(h \o FlattenSeq(ms)) : input' = <<h, ms, cuts>>
     \/ algorithm = "piece" /\ input' \in {0, 1, 11, 120} \X {0, 10, 12} \X UpTo(2, {0, 10})
     \/ algorithm = "bit field" /\ \E n \in 1 .. 7 : \E haves \in SUBSET (0 .. n - 1) : input' = <<haves, n>>

-----------------------------------------------------------------------------
(* The containers, and all of it together.                                 *)

CONSTANTS MaxNodes, Values, MaxOps, Keys, MapValues, MaxMapOps, Capacities, Alignments, MAX_N, MaxAddress

VARIABLES kind, node, list, content, undefined, ops,
          data, lookup, expected, spoiled, cache, capacity, mapOps,
          size, align, BLOCK_START, CURR, given, refused

L == INSTANCE ForwardList
M == INSTANCE OrderedMap WITH content <- expected
Ar == INSTANCE Arena

lists == <<kind, node, list, content, undefined, ops>>
maps == <<data, lookup, expected, spoiled, cache, capacity, mapOps>>
arena == <<size, align, BLOCK_START, CURR, given, refused>>
all == <<lists, ptrVars, maps, arena, question>>

Init ==
  \/ L!Init /\ PtrEnded /\ M!Ended /\ Ar!Ended /\ AllAsked
  \/ L!Ended /\ PtrInit /\ M!Ended /\ Ar!Ended /\ AllAsked
  \/ L!Ended /\ PtrEnded /\ M!Init /\ Ar!Ended /\ AllAsked
  \/ L!Ended /\ PtrEnded /\ M!Ended /\ Ar!Init /\ AllAsked
  \/ L!Ended /\ PtrEnded /\ M!Ended /\ Ar!Ended /\ NothingAsked

Next ==
  \/ L!Next /\ UNCHANGED <<ptrVars, maps, arena, question>>
  \/ PtrNext /\ UNCHANGED <<lists, maps, arena, question>>
  \/ M!Next /\ UNCHANGED <<lists, ptrVars, arena, question>>
  \/ Ar!Next /\ UNCHANGED <<lists, ptrVars, maps, question>>
  \/ Ask /\ UNCHANGED <<lists, ptrVars, maps, arena>>

Spec == Init /\ [][Next]_all

-----------------------------------------------------------------------------
(* The containers hold what was put into them: nothing but the lists'      *)
(* nodes is allocated, iterators lead to their nodes, the cache holds what *)
(* was used last, and the arena's objects do not overlap.                  *)
ContainersExact == L!ListsExact /\ M!MapExact /\ M!LruExact /\ Ar!AllocationsFit

At(name) == asked /\ algorithm = name

(* misc/brainfuck.cpp: interpreting, compiling and transpiling a program   *)
(* do the same, outside the cases that its comments leave out.             *)
ExecutionsAgree == At("brainfuck") => B!ExecutionsAgree(input, <<1, 2>>)

(* json.hpp, tarfile.hpp, argparse.hpp, bencode.cpp, Node.cpp, net.hpp and *)
(* the torrent client's protocol.cpp and common.cpp:                       *)
(* what one half writes the other half reads back as it was, whatever      *)
(* delimiters the data holds, and an info hash is taken of what the author *)
(* wrote.                                                                  *)
WrittenIsRead ==
  /\ At("json") => J!LoadsDumps(input)
  /\ At("escape") => J!EscapeInverse(input)
  /\ At("list") => A!ListInverse(input)
  /\ At("tar") => T!ArchiveInverse(input, <<1>>)
  /\ At("path") => T!SplitInverse(input)
  /\ At("bencode") => E!BencodeInverse(input)
  /\ At("bencoded text") => E!ReadStable(input)
  /\ At("piece") => X!FieldsRead(input[1], input[2], input[3])
  /\ At("bit field") => X!BitFieldInverse(input[1], input[2])
  /\ At("resp") => R!RespInverse(input) /\ R!NoPartRead(input)
  /\ At("url") => U!UrlStable(input)
  /\ At("encoded") => U!EncodeInverse(input)
  /\ At("proxy") => U!ProxyUnderstands(input[1], input[2], input[3], input[4])

(* argparse.hpp and csh.cpp: every word of a command line ends up in one   *)
(* place, in order and whole, and the line is the one that was typed.      *)
WordsUsedOnce ==
  /\ At("argparse") => A!WordsUsedOnce(input[1], input[2])
  /\ At("keys") => C!EditExact(input, <<<<"h", "i">>, <<"j">>>>)
  /\ At("words") => C!SplitQuoted(input)
  /\ At("line") => C!LineParsed(input)

(* The puzzles, cdiff.cpp and GitPack.cpp: a search finds what a plain     *)
(* enumeration finds, no more and no less.                                 *)
SearchesExact ==
  /\ At("queens") => P!QueensExact(input[1], input[2])
  /\ At("skyscrapers") => P!SkyscrapersExact(3, input)
  /\ At("sudoku") => P!SudokuMinimal(2, Solved, input)
  /\ At("wordsearch") => P!SolveExact(input[1], input[2])
  /\ At("wordlist") => P!GenerateSound(Blank, input)
  /\ At("diff") => D!DiffExact(input[1], input[2])
  /\ At("pack index") => G!LookupExact(input[1], input[2])
  /\ At("number") => G!NumbersExact(input)
  /\ At("pack") => G!ExtractExact(input[1], input[2], input[3], input[4], input[5], input[6])

(* net.hpp, download-proxy.cpp and protocol.cpp: however the network cuts  *)
(* a message, no reader takes a part of it for the whole, and what it      *)
(* hands over is a beginning (of a download: an end) of what was sent, in  *)
(* order.  It is all of it for messages with a length, a download whose    *)
(* head comes in one fragment and peers that send no keep-alive.  For the  *)
(* others ChunkedComplete, StreamComplete, PipeComplete and FramesComplete *)
(* say so, and the code breaks them.                                       *)
MessagesFramed ==
  /\ At("message") => H!WholeMessage(input)
  /\ At("chunked") => H!StreamFaithful(input[1], input[2]) /\ H!ChunkedWaits(input[1])
  /\ At("cut message") => H!PlainFaithful(input[1], input[2]) /\ H!PipeFaithful(input[1], input[2])
  /\ At("peer") => X!FramesInOrder(input[1], input[2], input[3])
  /\ At("web") => H!RedirectsRight(input, Start, 2)

(* The same readers take, and hand over, all of a message: one in chunks   *)
(* that has come, a chunked response and a download however they are cut,  *)
(* and what a peer sends behind a keep-alive.  The code breaks each of     *)
(* these.                                                                  *)
ChunkedComplete == At("chunked") => H!ChunkedComplete(input[1])
StreamComplete == At("chunked") => H!StreamComplete(input[1], input[2])
PipeComplete == At("cut message") => H!PipeComplete(input[1], input[2])
FramesComplete == At("peer") => X!FramesComplete(input[2], input[3])
=============================================================================
