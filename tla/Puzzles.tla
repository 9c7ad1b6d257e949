------------------------------ MODULE Puzzles ------------------------------
(***************************************************************************)
(* puzzles/: the searches of queens.cpp (a grid of coloured regions), of   *)
(* skyscrapers.cpp, of sudoku.cpp and of wordsearch.cpp.                   *)
(*                                                                         *)
(* Grids are functions on pairs of numbers from 1; an empty cell is 0,     *)
(* and "*" among letters.                                                  *)
(* Where the code goes through candidates in the order of a hash table or  *)
(* of a shuffle, the operator gives the set of results that some order     *)
(* leads to.  How queens.cpp reads a grid from an image, its server, and   *)
(* reading and printing of boards are left out.                            *)
(***************************************************************************)
EXTENDS Integers, Sequences, SequencesExt, FiniteSets, FiniteSetsExt

Cells(n) == (1 .. n) \X (1 .. n)
With(grid, p, v) == [q \in DOMAIN grid |-> IF q = p THEN v ELSE grid[q]]

-----------------------------------------------------------------------------
(* QueensSolver: a queen in each row, column and region, none next to      *)
(* another.  The stack of solve() holds the column tried in each row; the  *)
(* sets of free columns and regions and the board follow from it.          *)

Queens(stk) == {<<r, stk[r]>> : r \in 1 .. Len(stk) - 1}
Region(grid, stk) == {grid[q] : q \in Queens(stk)}

checkNeighbours(stk, r, c) ==
  \E q \in Queens(stk) : q # <<r, c>> /\ q[1] - r \in -1 .. 1 /\ q[2] - c \in -1 .. 1

check(grid, stk, r, c) ==
  /\ c \notin {q[2] : q \in Queens(stk)}
  /\ grid[<<r, c>>] \notin Region(grid, stk)
  /\ ~checkNeighbours(stk, r, c)

RECURSIVE SolveQueens(_, _, _)
SolveQueens(n, grid, stk) ==
  LET r == Len(stk)
      c == stk[r]
      NextCol(s) == [s EXCEPT ![Len(s)] = @ + 1]
  IN  IF r = n + 1 THEN [solved |-> TRUE, queens |-> Queens(stk)]
      ELSE IF c = n + 1 /\ r = 1 THEN [solved |-> FALSE, queens |-> {}]
      ELSE SolveQueens(n, grid, IF c = n + 1 THEN NextCol(Front(stk))
                                ELSE IF check(grid, stk, r, c) THEN Append(stk, 1)
                                ELSE NextCol(stk))

IsQueens(n, grid, qs) ==
  /\ Cardinality(qs) = n /\ qs \subseteq Cells(n)
  /\ \A p, q \in qs : p # q => /\ p[1] # q[1] /\ p[2] # q[2] /\ grid[p] # grid[q]
                               /\ ~(p[1] - q[1] \in -1 .. 1 /\ p[2] - q[2] \in -1 .. 1)

(* solve() finds queens for the grid exactly when there are some.          *)
QueensExact(n, grid) ==
  LET r == SolveQueens(n, grid, <<1>>)
      placed(f) == {<<i, f[i]>> : i \in 1 .. n}
  IN  IF r.solved THEN IsQueens(n, grid, r.queens)
      ELSE \A f \in [1 .. n -> 1 .. n] : ~IsQueens(n, grid, placed(f))

-----------------------------------------------------------------------------
(* Skyscrapers.  Hints are four sequences: top, right, bottom, left; 0 is  *)
(* no hint.                                                                *)

Row(grid, n, r) == [i \in 1 .. n |-> grid[<<r, i>>]]
Col(grid, n, c) == [i \in 1 .. n |-> grid[<<i, c>>]]

(* computeHintActuals: the stack of what is seen from the left grows, the  *)
(* one from the right loses what is hidden.                                *)
computeHintActuals(line) ==
  LET left(stk, v) == IF stk = <<>> \/ Last(stk) < v THEN Append(stk, v) ELSE stk
      right(stk, v) == Append(SelectSeq(stk, LAMBDA w : w >= v), v)
  IN  <<Len(FoldLeft(left, <<>>, line)), Len(FoldLeft(right, <<>>, line))>>

generateHints(grid, n) ==
  <<[c \in 1 .. n |-> computeHintActuals(Col(grid, n, c))[1]], [r \in 1 .. n |-> computeHintActuals(Row(grid, n, r))[2]],
    [c \in 1 .. n |-> computeHintActuals(Col(grid, n, c))[2]], [r \in 1 .. n |-> computeHintActuals(Row(grid, n, r))[1]]>>

(* generateBoard: cell by cell, with what the row and column so far leave. *)
RECURSIVE Boards(_, _, _)
Boards(n, grid, k) ==
  IF k = n * n THEN {grid}
  ELSE LET r == (k \div n) + 1
           c == (k % n) + 1
           taken == {grid[<<i, c>>] : i \in 1 .. r - 1} \cup {grid[<<r, j>>] : j \in 1 .. c - 1}
       IN  UNION {Boards(n, With(grid, <<r, c>>, v), k + 1) : v \in (1 .. n) \ taken}

generateCandidates(n, grid, hints) ==
  [p \in Cells(n) |->
     IF grid[p] # 0 THEN {}
     ELSE {v \in 1 .. n :
             /\ \A i \in 1 .. n : grid[<<i, p[2]>>] # v /\ grid[<<p[1], i>>] # v
             /\ v <= n - hints[1][p[2]] + p[1]
             /\ v <= n - hints[2][p[1]] + n - p[2] + 2
             /\ v <= n - hints[3][p[2]] + n - p[1] + 2
             /\ v <= n - hints[4][p[1]] + p[2]}]

LineOkay(line, first, second) ==
  LET a == computeHintActuals(line)
  IN  0 \in Range(line) \/ (first \in {0, a[1]} /\ second \in {0, a[2]})

(* backtrackSolve: the empty cell with the fewest candidates, the first of *)
(* these; each of them is taken out of the row and column.                 *)
RECURSIVE backtrackSolve(_, _, _, _)
backtrackSolve(n, grid, hints, cand) ==
  LET empty == {p \in Cells(n) : grid[p] = 0}
      fewest == {p \in empty : \A q \in empty : Cardinality(cand[p]) <= Cardinality(cand[q])}
      before(p, q) == p[1] < q[1] \/ (p[1] = q[1] /\ p[2] <= q[2])
      p == CHOOSE p \in fewest : \A q \in fewest : before(p, q)
      filled(v) == With(grid, p, v)
      left(v) == [q \in Cells(n) |-> IF q # p /\ grid[q] = 0 /\ (q[1] = p[1] \/ q[2] = p[2]) THEN cand[q] \ {v} ELSE cand[q]]
      okay(v) == /\ \A q \in empty \ {p} : left(v)[q] # {}
                 /\ LineOkay(Row(filled(v), n, p[1]), hints[4][p[1]], hints[2][p[1]])
                 /\ LineOkay(Col(filled(v), n, p[2]), hints[1][p[2]], hints[3][p[2]])
  IN  IF empty = {} THEN {grid}
      ELSE UNION {backtrackSolve(n, filled(v), hints, left(v)) : v \in {w \in cand[p] : okay(w)}}

SolveSkyscrapers(n, grid, hints) == backtrackSolve(n, grid, hints, generateCandidates(n, grid, hints))

Seen(line) == Cardinality({i \in DOMAIN line : \A j \in 1 .. i - 1 : line[j] < line[i]})
IsSkyline(n, grid, hints) ==
  \A i \in 1 .. n :
    /\ Seen(Col(grid, n, i)) \in {hints[1][i]} \/ hints[1][i] = 0
    /\ Seen(Reverse(Row(grid, n, i))) \in {hints[2][i]} \/ hints[2][i] = 0
    /\ Seen(Reverse(Col(grid, n, i))) \in {hints[3][i]} \/ hints[3][i] = 0
    /\ Seen(Row(grid, n, i)) \in {hints[4][i]} \/ hints[4][i] = 0

(* From an empty board, solve() reaches exactly the boards that the hints  *)
(* describe, and so finds one when there is one; the hints that are made   *)
(* for a board describe it.                                                *)
SkyscrapersExact(n, hints) ==
  LET zero == [p \in Cells(n) |-> 0]
      all == Boards(n, zero, 0)
  IN  /\ SolveSkyscrapers(n, zero, hints) = {b \in all : IsSkyline(n, b, hints)}
      /\ \A b \in all : IsSkyline(n, b, generateHints(b, n))

-----------------------------------------------------------------------------
(* Sudoku, with boxes of k by k cells.                                     *)

Box(k, p) == {q \in Cells(k * k) : (q[1] - 1) \div k = (p[1] - 1) \div k /\ (q[2] - 1) \div k = (p[2] - 1) \div k}
getCandidates(k, board, p) ==
  {v \in 1 .. k * k : \A q \in Cells(k * k) : q[1] = p[1] \/ q[2] = p[2] \/ q \in Box(k, p) => board[q] # v}

(* backtrack, not randomized: every solution.                              *)
RECURSIVE Solutions(_, _)
Solutions(k, board) ==
  LET empty == {p \in Cells(k * k) : board[p] = 0}
      p == CHOOSE p \in empty : \A q \in empty : p[1] < q[1] \/ (p[1] = q[1] /\ p[2] <= q[2])
  IN  IF empty = {} THEN {board}
      ELSE UNION {Solutions(k, With(board, p, v)) : v \in getCandidates(k, board, p)}

Removed(k, board, p) ==
  LET less == With(board, p, 0) IN IF Cardinality(Solutions(k, less)) > 1 THEN board ELSE less

generate(k, solved, order) == FoldLeft(LAMBDA board, p : Removed(k, board, p), solved, order)

(* The puzzle that is made of a solved board, in any order of the cells,   *)
(* has that board as its only solution, and no clue it could do without.   *)
SudokuMinimal(k, solved, order) ==
  LET puzzle == generate(k, solved, order)
  IN  /\ Solutions(k, puzzle) = {solved}
      /\ \A p \in Cells(k * k) : puzzle[p] # 0 => Cardinality(Solutions(k, With(puzzle, p, 0))) > 1

-----------------------------------------------------------------------------
(* Word search: words are looked for in a grid in the eight directions     *)
(* with a trie that words are erased from as they are found, and a grid is *)
(* made from a list of words.  A trie is a function of prefixes: how far   *)
(* the next end of a word is said to be, and the set of prefixes that end  *)
(* a word.                                                                 *)

Rows(grid) == Max({p[1] : p \in DOMAIN grid})
Cols(grid) == Max({p[2] : p \in DOMAIN grid})
Dirs == ((-1 .. 1) \X (-1 .. 1)) \ {<<0, 0>>}
Ahead(p, d, k) == <<p[1] + k * d[1], p[2] + k * d[2]>>

Least(a, b) == IF a < b THEN a ELSE b

(* maxDist: one too many in the directions of growing coordinates.         *)
maxDist(grid, p, d) ==
  LET far == Rows(grid) + Cols(grid)
      x == CASE d[1] = 0 -> far [] d[1] < 0 -> p[1] - 1 [] d[1] > 0 -> Rows(grid) - (p[1] - 1)
      y == CASE d[2] = 0 -> far [] d[2] < 0 -> p[2] - 1 [] d[2] > 0 -> Cols(grid) - (p[2] - 1)
  IN  Least(x, y) + 1

-----------------------------------------------------------------------------
(* Trie.                                                                   *)

TrieOf(words) ==
  [ends |-> Range(words),
   dist |-> [p \in UNION {Prefixes(w) : w \in Range(words)} |->
               Min({Len(w) - Len(p) : w \in {v \in Range(words) : IsPrefix(p, v)}})]]

(* erase: nodes stay (each has at least the child the word goes through),  *)
(* and on the way up each takes over the least distance of its children.   *)
erase(t, w) ==
  LET child(dist, p) == {q \in DOMAIN dist : Len(q) = Len(p) + 1 /\ IsPrefix(p, q)}
      up(dist, k) == [dist EXCEPT ![SubSeq(w, 1, k)] = Min({dist[q] : q \in child(dist, SubSeq(w, 1, k))})]
  IN  [ends |-> t.ends \ {w},
       dist |-> FoldLeft(up, t.dist, [i \in 1 .. Len(w) |-> Len(w) - i])]

-----------------------------------------------------------------------------
(* solve: from each cell in each direction, as far as the trie goes and a  *)
(* word may fit.                                                           *)

RECURSIVE Walk(_, _, _, _, _)
Walk(grid, s, p, d, acc) ==
  LET next == Append(acc, grid[p])
  IN  IF p \notin DOMAIN grid \/ next \notin DOMAIN s.trie.dist THEN s
      ELSE IF s.trie.dist[next] > maxDist(grid, p, d) THEN s
      ELSE Walk(grid,
                IF next \in s.trie.ends
                  THEN [s EXCEPT !.trie = erase(@, next), !.found = @ \cup {next}]
                  ELSE s,
                Ahead(p, d, 1), d, next)

(* The cells row by row, and in each the eight directions in their order.  *)
Dir(k) == LET j == IF k < 4 THEN k ELSE k + 1 IN <<(j \div 3) - 1, (j % 3) - 1>>
Starts(grid) ==
  [i \in 1 .. 8 * Rows(grid) * Cols(grid) |->
     LET c == (i - 1) \div 8 IN <<<<(c \div Cols(grid)) + 1, (c % Cols(grid)) + 1>>, Dir((i - 1) % 8)>>]

solve(grid, words) ==
  FoldLeft(LAMBDA s, pd : Walk(grid, s, pd[1], pd[2], <<>>), [trie |-> TrieOf(words), found |-> {}], Starts(grid)).found

Reads(grid, p, d, w) ==
  \A k \in 1 .. Len(w) : Ahead(p, d, k - 1) \in DOMAIN grid /\ grid[Ahead(p, d, k - 1)] = w[k]
Occurs(grid, w) == \E p \in DOMAIN grid, d \in Dirs : Reads(grid, p, d, w)

(* Exactly the words of the list that are in the grid are found, although  *)
(* the trie changes during the search.                                     *)
SolveExact(grid, words) == solve(grid, words) = {w \in Range(words) : Occurs(grid, w)}

-----------------------------------------------------------------------------
(* generate: the words one by one where they overlap least with what is    *)
(* there (of equal candidates, any); no result if a word has no place, and *)
(* the code tries again with a larger grid.                                *)

Fits(grid, w, p, d) ==
  /\ Len(w) < maxDist(grid, p, d)
  /\ \A k \in 1 .. Len(w) :
       Ahead(p, d, k - 1) \in DOMAIN grid => grid[Ahead(p, d, k - 1)] \in {"*", w[k]}

Overlaps(grid, w, p, d) ==
  Cardinality({k \in 1 .. Len(w) : Ahead(p, d, k - 1) \in DOMAIN grid /\ grid[Ahead(p, d, k - 1)] # "*"})

Candidates(grid, w) ==
  LET all == {pd \in (DOMAIN grid) \X Dirs : Fits(grid, w, pd[1], pd[2])}
  IN  {c \in all : \A o \in all : Overlaps(grid, w, c[1], c[2]) <= Overlaps(grid, w, o[1], o[2])}

Inserted(grid, w, p, d) ==
  LET at == [k \in 1 .. Len(w) |-> Ahead(p, d, k - 1)]
  IN  [q \in DOMAIN grid |-> IF \E k \in 1 .. Len(w) : at[k] = q THEN w[CHOOSE k \in 1 .. Len(w) : at[k] = q] ELSE grid[q]]

RECURSIVE backtrackGenerate(_, _)
backtrackGenerate(grid, words) ==
  IF words = <<>> THEN {grid}
  ELSE UNION {backtrackGenerate(Inserted(grid, Last(words), c[1], c[2]), Front(words)) : c \in Candidates(grid, Last(words))}

(* Every grid that can be made has every word in it, whatever is put on    *)
(* the empty cells afterwards.                                             *)
GenerateSound(blank, words) == \A g \in backtrackGenerate(blank, words) : \A w \in Range(words) : Occurs(g, w)
=============================================================================
