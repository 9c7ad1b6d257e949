-------------------------------- MODULE Diff --------------------------------
(***************************************************************************)
(* cli/cdiff.cpp.  Files are sequences of lines.  An edit is a record of   *)
(* the positions i and j in both files where it starts, its sign and its   *)
(* line.  The texts of the three formats are kept as records of what their *)
(* headers and bodies say.                                                 *)
(***************************************************************************)
EXTENDS Integers, SequencesExt, FiniteSets, FiniteSetsExt

CONSTANTS Context \* unchanged lines shown around a change; 3 in the code

-----------------------------------------------------------------------------
computeLCSGrid(a, b) ==
  LET dp[i \in 0 .. Len(a), j \in 0 .. Len(b)] ==
        IF i = 0 \/ j = 0 THEN 0
        ELSE IF a[i] = b[j] THEN 1 + dp[i - 1, j - 1]
        ELSE Max({dp[i - 1, j], dp[i, j - 1]})
  IN  dp

Edit(i, j, sign, line) == [i |-> i, j |-> j, sign |-> sign, line |-> line]

(* The way back through the grid, as a sequence of edits.                  *)
RECURSIVE Edits(_, _, _, _, _)
Edits(a, b, dp, i, j) ==
  IF i = 0 /\ j = 0 THEN <<>>
  ELSE IF i > 0 /\ j > 0 /\ a[i] = b[j]
    THEN Append(Edits(a, b, dp, i - 1, j - 1), Edit(i - 1, j - 1, " ", a[i]))
  ELSE IF j = 0 \/ (i > 0 /\ dp[i - 1, j] > dp[i, j - 1])
    THEN Append(Edits(a, b, dp, i - 1, j), Edit(i - 1, j, "-", a[i]))
  ELSE Append(Edits(a, b, dp, i, j - 1), Edit(i, j - 1, "+", b[j]))
EditsOf(a, b) == Edits(a, b, computeLCSGrid(a, b), Len(a), Len(b))

LinesOf(es, signs) == LET kept == SelectSeq(es, LAMBDA e : e.sign \in signs)
                      IN  [k \in 1 .. Len(kept) |-> kept[k].line]

-----------------------------------------------------------------------------
(* The default format: a patch per run of changes, at the positions where  *)
(* the run starts.                                                         *)

IsRun(es, p, q) ==
  /\ \A k \in p .. q : es[k].sign # " "
  /\ (p > 1 => es[p - 1].sign = " ") /\ (q < Len(es) => es[q + 1].sign = " ")
Runs(es) == {<<p, q>> \in (1 .. Len(es)) \X (1 .. Len(es)) : p <= q /\ IsRun(es, p, q)}

defaultPatchText(es, p, q) ==
  LET part == SubSeq(es, p, q)
      f1 == LinesOf(part, {"-"})
      f2 == LinesOf(part, {"+"})
  IN  [from1 |-> IF f1 = <<>> THEN es[p].i ELSE es[p].i + 1, to1 |-> es[p].i + Len(f1),
       from2 |-> IF f2 = <<>> THEN es[p].j ELSE es[p].j + 1, to2 |-> es[p].j + Len(f2),
       kind |-> IF f1 = <<>> THEN "a" ELSE IF f2 = <<>> THEN "d" ELSE "c", f1 |-> f1, f2 |-> f2]

defaultDiff(a, b) ==
  LET es == EditsOf(a, b) IN {defaultPatchText(es, r[1], r[2]) : r \in Runs(es)}

-----------------------------------------------------------------------------
(* The lines that are shown: a window slides along, and the number of      *)
(* changes within it is kept.                                              *)

Changed(es, k) == IF k \in 1 .. Len(es) /\ es[k].sign # " " THEN 1 ELSE 0

toDisplay(es) ==
  LET seen[k \in 0 .. Len(es)] ==
        IF k = 0 THEN MapThenSumSet(LAMBDA p : Changed(es, p), 1 .. Context)
        ELSE seen[k - 1] + Changed(es, k + Context) - Changed(es, k - Context - 1)
  IN  [k \in 1 .. Len(es) |-> seen[k] # 0]

(* The unified format: deltas end with a mark for the ends of both files,  *)
(* whose positions count but whose line does not.                          *)
unifiedDiff(a, b) ==
  LET deltas == Append(EditsOf(a, b), Edit(Len(a), Len(b), " ", "end"))
      n == Len(deltas)
      shown == toDisplay(deltas)
      pieces == {<<p, q>> \in (1 .. n) \X (1 .. n) :
                   /\ p <= q /\ \A k \in p .. q : shown[k]
                   /\ (p > 1 => ~shown[p - 1]) /\ (q < n => ~shown[q + 1])}
      Hunk(p, q) ==
        LET last == IF q = n THEN 1 ELSE 0
        IN  [istart |-> deltas[p].i + 1, ilen |-> deltas[q].i - deltas[p].i + 1 - last,
             jstart |-> deltas[p].j + 1, jlen |-> deltas[q].j - deltas[p].j + 1 - last,
             body |-> SubSeq(deltas, p, q - last)]
  IN  {h \in {Hunk(r[1], r[2]) : r \in pieces} : h.body # <<>>}

(* The context format: the lines of either file by themselves, changes on  *)
(* both sides marked with "!"; both are gone through side by side.         *)
Side(es, sign) ==
  LET Other(k) == \E r \in Runs(es) : r[1] <= k /\ k <= r[2] /\ \E l \in r[1] .. r[2] : es[l].sign \notin {sign, " "}
      marked == [k \in 1 .. Len(es) |-> IF es[k].sign = sign /\ Other(k) THEN [es[k] EXCEPT !.sign = "!"] ELSE es[k]]
  IN  SelectSeq(marked, LAMBDA e : e.sign \in {sign, "!", " "})

Shown(s, k) == k <= Len(s) /\ toDisplay(s)[k]
Sign(s, k) == IF k <= Len(s) THEN s[k].sign ELSE " "
Out(acc, s, k) == IF Shown(s, k) THEN Append(acc, s[k].line) ELSE acc

(* What is printed of both files from positions i and j on.                *)
RECURSIVE contextPatchText(_, _, _, _, _, _)
contextPatchText(s1, s2, i, j, acc1, acc2) ==
  LET in1 == i <= Len(s1)
      in2 == j <= Len(s2)
  IN  IF ~in1 /\ ~in2 THEN <<acc1, acc2>>
      ELSE IF in1 /\ in2 /\ ~Shown(s1, i) /\ ~Shown(s2, j) THEN contextPatchText(s1, s2, i + 1, j + 1, acc1, acc2)
      ELSE IF Sign(s1, i) = "-" THEN contextPatchText(s1, s2, i + 1, j, Out(acc1, s1, i), acc2)
      ELSE IF Sign(s2, j) = "+" THEN contextPatchText(s1, s2, i, j + 1, acc1, Out(acc2, s2, j))
      ELSE contextPatchText(s1, s2, i + 1, j + 1, Out(acc1, s1, i), Out(acc2, s2, j))

contextDiff(a, b) ==
  LET es == EditsOf(a, b) IN contextPatchText(Side(es, "-"), Side(es, "+"), 1, 1, <<>>, <<>>)

-----------------------------------------------------------------------------
(* What the formats promise.                                               *)

Near(es, k, signs) == \E p \in k - Context .. k + Context : p \in 1 .. Len(es) /\ es[p].sign \in signs
Common(a, b) ==
  Max({Cardinality(S) : S \in {X \in SUBSET (1 .. Len(a)) :
         \E f \in [X -> 1 .. Len(b)] : \A x, y \in X : a[x] = b[f[x]] /\ (x < y => f[x] < f[y])}})

(* The edits make the second file of the first and keep as many lines as   *)
(* can be kept; the numbers of a default patch are those of its lines.     *)
DefaultExact(a, b) ==
  LET es == EditsOf(a, b)
  IN  /\ LinesOf(es, {" ", "-"}) = a /\ LinesOf(es, {" ", "+"}) = b
      /\ Len(LinesOf(es, {" "})) = Common(a, b)
      /\ \A h \in defaultDiff(a, b) :
           h.f1 = (IF h.kind = "a" THEN <<>> ELSE SubSeq(a, h.from1, h.to1))
             /\ h.f2 = (IF h.kind = "d" THEN <<>> ELSE SubSeq(b, h.from2, h.to2))

(* A unified hunk's numbers are those of the lines in it, and every change *)
(* is in one, with the lines around it.                                    *)
UnifiedExact(a, b) ==
  LET es == EditsOf(a, b)
      hunks == unifiedDiff(a, b)
  IN  /\ \A h \in hunks : /\ LinesOf(h.body, {" ", "-"}) = SubSeq(a, h.istart, h.istart + h.ilen - 1)
                          /\ LinesOf(h.body, {" ", "+"}) = SubSeq(b, h.jstart, h.jstart + h.jlen - 1)
      /\ \A k \in 1 .. Len(es) : Near(es, k, {"-", "+"}) <=> \E h \in hunks : es[k] \in Range(h.body)

(* The context format shows every line that is near a change of its file,  *)
(* once and in order.                                                      *)
ContextExact(a, b) ==
  LET es == EditsOf(a, b)
      Want(s) == [k \in 1 .. Len(s) |-> IF Near(s, k, {"-", "+", "!"}) THEN <<s[k].line>> ELSE <<>>]
  IN  contextDiff(a, b) = <<FlattenSeq(Want(Side(es, "-"))), FlattenSeq(Want(Side(es, "+")))>>

DiffExact(a, b) == DefaultExact(a, b) /\ UnifiedExact(a, b) /\ ContextExact(a, b)
=============================================================================
