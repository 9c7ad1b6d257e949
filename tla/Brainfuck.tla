------------------------------ MODULE Brainfuck ------------------------------
(***************************************************************************)
(* misc/brainfuck.cpp: one program has three executions, by the            *)
(* interpreter of the text, by the interpreter of the bytecode that        *)
(* compileFile makes of it, and as the C program that transpileByteCode    *)
(* makes of the bytecode.  Code is a sequence of one-character strings.    *)
(*                                                                         *)
(* A machine is a record: memory, pointer, position (from 1), stack of     *)
(* open loops, input left, output, the steps it may still take, and        *)
(* whether a cell came to its limit.  Files, the shell's line editing and  *)
(* the messages of main are left out.                                      *)
(***************************************************************************)
EXTENDS Integers, Sequences, FiniteSets

CONSTANTS MEMORY_SIZE, \* 30000 in the code
          Cell,        \* values of a cell: 256 in the code
          Fuel         \* bound of the steps of an execution

EOF == -1

Machine(input) ==
  [mem |-> [i \in 0 .. MEMORY_SIZE - 1 |-> 0], ptr |-> 0, pos |-> 1, stk |-> <<>>,
   in |-> input, out |-> <<>>, fuel |-> Fuel, edge |-> FALSE]

At(s) == s.mem[s.ptr]
SetCell(s, v) == [s EXCEPT !.mem[s.ptr] = v, !.edge = @ \/ v = Cell - 1]
Shifted(s, n) == (s.ptr + n) % MEMORY_SIZE
Char(s) == IF s.in = <<>> THEN EOF ELSE Head(s.in)
Rest(s) == IF s.in = <<>> THEN <<>> ELSE Tail(s.in)

(* validateCode: brackets match.                                           *)
RECURSIVE Balance(_, _)
Balance(code, open) ==
  IF code = <<>> THEN open = 0
  ELSE CASE Head(code) = "[" -> Balance(Tail(code), open + 1)
         [] Head(code) = "]" -> open > 0 /\ Balance(Tail(code), open - 1)
         [] OTHER -> Balance(Tail(code), open)
validateCode(code) == Balance(code, 0)

-----------------------------------------------------------------------------
(* interpretCode: a step of the text.                                      *)

(* The bracket that closes the one at pos.                                 *)
RECURSIVE SkipFrom(_, _, _)
SkipFrom(code, pos, open) ==
  LET left == CASE code[pos + 1] = "]" -> open - 1
                [] code[pos + 1] = "[" -> open + 1
                [] OTHER -> open
  IN  IF left = 0 THEN pos + 1 ELSE SkipFrom(code, pos + 1, left)

TextStep(code, s) ==
  LET ch == code[s.pos]
  IN  CASE ch = "+" -> SetCell(s, (At(s) + 1) % Cell)
        [] ch = "-" -> SetCell(s, (At(s) - 1) % Cell)
        [] ch = ">" -> [s EXCEPT !.ptr = Shifted(s, 1)]
        [] ch = "<" -> [s EXCEPT !.ptr = Shifted(s, -1)]
        [] ch = "." -> [s EXCEPT !.out = Append(@, At(s))]
        [] ch = "," -> SetCell([s EXCEPT !.in = Rest(s)], Char(s) % Cell)
        [] ch = "[" /\ At(s) # 0 -> [s EXCEPT !.stk = <<s.pos>> \o @]
        [] ch = "[" /\ At(s) = 0 -> [s EXCEPT !.pos = SkipFrom(code, s.pos, 1)]
        [] ch = "]" /\ At(s) # 0 -> [s EXCEPT !.pos = Head(s.stk)]
        [] ch = "]" /\ At(s) = 0 -> [s EXCEPT !.stk = Tail(@)]
        [] OTHER -> s

RECURSIVE RunText(_, _)
RunText(code, s) ==
  IF s.pos > Len(code) \/ s.fuel = 0 THEN s
  ELSE RunText(code, [TextStep(code, s) EXCEPT !.pos = @ + 1, !.fuel = @ - 1])

interpretCode(code, input) == RunText(code, Machine(input))

-----------------------------------------------------------------------------
(* compileFile: runs of + - and of > < become one instruction, loops of    *)
(* some forms none.  An instruction is <<opcode, val1, val2>>; positions   *)
(* count from 1.                                                           *)

Shift(ch) == IF ch \in {"+", ">"} THEN 1 ELSE -1

Merged(is, op, n) ==
  IF is # <<>> /\ is[Len(is)][1] = op
    THEN [is EXCEPT ![Len(is)][2] = @ + n]
    ELSE Append(is, <<op, n, 0>>)

(* What a loop's body adds where, if it has simple instructions only.      *)
RECURSIVE Distributed(_, _, _)
Distributed(body, shift, to) ==
  IF body = <<>> THEN [shift |-> shift, to |-> to]
  ELSE LET i == Head(body)
       IN  IF i[1] = "SHIFTPTR" THEN Distributed(Tail(body), shift + i[2], to)
           ELSE Distributed(Tail(body), shift,
                  [k \in DOMAIN to \cup {shift} |->
                     (IF k \in DOMAIN to THEN to[k] ELSE 0) + (IF k = shift THEN i[2] ELSE 0)])

(* Mutant: where the loop leaves the pointer is not looked at.             *)
AnyDistributionLoop(body) ==
  /\ \A i \in 1 .. Len(body) : body[i][1] \in {"SHIFTPTR", "UPDATEVAL"}
  /\ LET d == Distributed(body, 0, << >>) IN 0 \in DOMAIN d.to /\ d.to[0] = -1

validateSimpleDistributionLoop(body) ==
  /\ \A i \in 1 .. Len(body) : body[i][1] \in {"SHIFTPTR", "UPDATEVAL"}
  /\ LET d == Distributed(body, 0, << >>)
     IN  d.shift = 0 /\ 0 \in DOMAIN d.to /\ d.to[0] = -1

RECURSIVE SeqOf(_)
SeqOf(S) == IF S = {} THEN <<>> ELSE LET e == CHOOSE e \in S : TRUE IN <<e>> \o SeqOf(S \ {e})

(* What is left of the loop that opened at start, when it closes.          *)
Closed(is, start) ==
  LET body == SubSeq(is, start + 1, Len(is))
      before == SubSeq(is, 1, start - 1)
      to == Distributed(body, 0, << >>).to
  IN  IF Len(body) = 1 /\ body[1][1] = "UPDATEVAL" THEN Append(before, <<"CLEAR", 1, 0>>)
      ELSE IF Len(body) = 1 /\ body[1][1] = "SHIFTPTR"
        THEN Append(before, <<"SHIFTPTR_ZERO", body[1][2], 0>>)
      ELSE IF validateSimpleDistributionLoop(body)
        THEN before \o SeqOf({<<"UPDATE_BY_CURR", k, to[k]>> : k \in {j \in DOMAIN to : j # 0 /\ to[j] # 0}})
                    \o <<<<"CLEAR", 1, 0>>>>
      ELSE Append([is EXCEPT ![start][2] = Len(is) + 1], <<"LEND", start, 0>>)

RECURSIVE Compiled(_, _, _)
Compiled(code, is, stk) ==
  IF code = <<>> THEN is
  ELSE LET ch == Head(code)
           rest == Tail(code)
       IN  CASE ch \in {"+", "-"} -> Compiled(rest, Merged(is, "UPDATEVAL", Shift(ch)), stk)
             [] ch \in {">", "<"} -> Compiled(rest, Merged(is, "SHIFTPTR", Shift(ch)), stk)
             [] ch = "." -> Compiled(rest, Append(is, <<"OUTPUT", 1, 0>>), stk)
             [] ch = "," -> Compiled(rest, Append(is, <<"INPUT", 1, 0>>), stk)
             [] ch = "[" -> Compiled(rest, Append(is, <<"LSTART", -1, 0>>), <<Len(is) + 1>> \o stk)
             [] ch = "]" -> Compiled(rest, Closed(is, Head(stk)), Tail(stk))
             [] OTHER -> Compiled(rest, is, stk)

(* C's remainder, of the sign of the dividend, before the file is written. *)
Rem(n, k) == IF n < 0 THEN -((-n) % k) ELSE n % k

compileFile(code) ==
  LET is == Compiled(code, <<>>, <<>>)
  IN  [i \in 1 .. Len(is) |->
         [is[i] EXCEPT ![2] =
            CASE is[i][1] \in {"SHIFTPTR", "SHIFTPTR_ZERO", "UPDATE_BY_CURR"} -> Rem(@, MEMORY_SIZE)
              [] is[i][1] = "UPDATEVAL" -> Rem(@, Cell - 1)
              [] OTHER -> @]]

-----------------------------------------------------------------------------
(* executeByteCode ("byte") and the transpiled program ("c").  They differ *)
(* in UPDATEVAL, which has one value too few in the first, and at the end  *)
(* of the input.                                                           *)

Updated(backend, v, n) == IF backend = "byte" THEN (v + n) % (Cell - 1) ELSE (v + n) % Cell

RECURSIVE ShiftToZero(_, _)
ShiftToZero(s, n) ==
  IF At(s) = 0 \/ s.fuel = 0 THEN s ELSE ShiftToZero([s EXCEPT !.ptr = Shifted(s, n), !.fuel = @ - 1], n)

ByteStep(backend, is, s) ==
  LET op == is[s.pos][1]
      val1 == is[s.pos][2]
      val2 == is[s.pos][3]
      copyTo == Shifted(s, val1)
  IN  CASE op = "UPDATEVAL" -> SetCell(s, Updated(backend, At(s), val1))
        [] op = "SHIFTPTR" -> [s EXCEPT !.ptr = Shifted(s, val1)]
        [] op = "INPUT" /\ backend = "c" /\ Char(s) = EOF -> s
        [] op = "INPUT" /\ ~(backend = "c" /\ Char(s) = EOF) -> SetCell([s EXCEPT !.in = Rest(s)], Char(s) % Cell)
        [] op = "OUTPUT" -> [s EXCEPT !.out = Append(@, At(s))]
        [] op = "LSTART" -> [s EXCEPT !.pos = IF At(s) = 0 THEN val1 ELSE @]
        [] op = "LEND" -> [s EXCEPT !.pos = IF At(s) = 0 THEN @ ELSE val1]
        [] op = "CLEAR" -> SetCell(s, 0)
        [] op = "SHIFTPTR_ZERO" -> ShiftToZero(s, val1)
        [] op = "UPDATE_BY_CURR" -> [s EXCEPT !.mem[copyTo] = (@ + val2 * At(s)) % (Cell - 1)]

RECURSIVE RunBytes(_, _, _)
RunBytes(backend, is, s) ==
  IF s.pos > Len(is) \/ s.fuel = 0 THEN s
  ELSE RunBytes(backend, is, [ByteStep(backend, is, s) EXCEPT !.pos = @ + 1, !.fuel = @ - 1])

executeByteCode(is, input) == RunBytes("byte", is, Machine(input))
transpileByteCode(is, input) == RunBytes("c", is, Machine(input))

-----------------------------------------------------------------------------
Outcome(s) == [out |-> s.out, mem |-> s.mem, ptr |-> s.ptr]

(* A program that ends, keeps its cells below their last value and reads   *)
(* no further than the input has the same outcome in all three executions: *)
(* the merged instructions, the jumps over removed loops and the           *)
(* distribution of a loop's effect do what the text does.                  *)
ExecutionsAgree(code, input) ==
  LET text == interpretCode(code, input)
      is == compileFile(code)
  IN  validateCode(code) /\ text.pos > Len(code) /\ ~text.edge =>
        \A s \in {executeByteCode(is, input), transpileByteCode(is, input)} :
          s.pos > Len(is) /\ Outcome(s) = Outcome(text)
=============================================================================
