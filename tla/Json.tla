-------------------------------- MODULE Json --------------------------------
(***************************************************************************)
(* json-parser/json/json.hpp: Parser::loads, which reads a text in one     *)
(* pass over stacks and counts commas and colons, Parser::dumps, and the   *)
(* two escape helpers.                                                     *)
(*                                                                         *)
(* A text is a sequence of lexemes: the special characters, a space, the   *)
(* characters of numbers, words, and whole quoted strings ("'a'").         *)
(* Strings in texts hold no quote and no backslash (dumps escapes a quote  *)
(* that loads left escaped once more); how doubles are formatted and the   *)
(* exponent notation are left out.                                         *)
(***************************************************************************)
EXTENDS Integers, Sequences, SequencesExt

Digits == {"0", "1"}
Words == {"null", "true"}
Strings == {"'a'", "'b'"}
SplChars == {"{", "}", "[", "]", ",", ":"}

-----------------------------------------------------------------------------
(* simple_parse of a token, which is the sequence of its pieces.           *)

DigitCount(tok) == Len(SelectSeq(tok, LAMBDA c : c \in Digits))

leadingZeros(tok) ==
  LET ds == {i \in 1 .. Len(tok) : tok[i] \in Digits}
      first == CHOOSE i \in ds : \A j \in ds : i <= j
  IN  ds # {} /\ tok[first] = "0" /\ first + 1 \in ds

IsLong(tok) ==
  /\ \/ DigitCount(tok) = Len(tok)
     \/ DigitCount(tok) = Len(tok) - 1 /\ tok[1] = "-"
  /\ DigitCount(tok) > 0
  /\ ~leadingZeros(tok)

IsDouble(tok) ==
  \E dot \in 1 .. Len(tok) :
    /\ tok[dot] = "." /\ \A i \in 1 .. dot - 1 : tok[i] # "."
    /\ \/ DigitCount(tok) = Len(tok) - 1 /\ dot # 1
       \/ DigitCount(tok) = Len(tok) - 2 /\ tok[1] = "-" /\ dot # 2
    /\ dot # Len(tok)
    /\ ~leadingZeros(tok)

IsString(tok) == Len(tok) = 1 /\ tok[1] \in Strings
IsSimple(tok) == IsString(tok) \/ (Len(tok) = 1 /\ tok[1] \in Words) \/ IsLong(tok) \/ IsDouble(tok)

(* stoll forgets the sign of zero.                                         *)
simple_parse(tok) == IF tok = <<"-", "0">> THEN <<"0">> ELSE tok

-----------------------------------------------------------------------------
(* loads.  The stack of tokens holds raw tokens and finished nodes.        *)

Raw(tok) == [type |-> "raw", key |-> <<>>, value |-> tok]
Value(key, tok) == [type |-> "value", key |-> key, value |-> simple_parse(tok)]
Keyed(node, key) == IF node.type = "raw" THEN Value(key, node.value) ELSE [node EXCEPT !.key = key]

checkDuplicates(values) == \A i, j \in 1 .. Len(values) : values[i].key = values[j].key => i = j

(* A closing bracket: tokens are popped down to where it opened, in an     *)
(* object with the key below each, which may lie outside of the object.    *)
RECURSIVE Popped(_, _, _, _)
Popped(tokens, start, isObject, values) ==
  IF Len(tokens) <= start THEN [ok |-> TRUE, tokens |-> tokens, values |-> values]
  ELSE LET top == Last(tokens)
           rest == Front(tokens)
           good == top.type = "raw" => IsSimple(top.value)
       IN  IF good /\ ~isObject
             THEN Popped(rest, start, isObject, <<Keyed(top, <<>>)>> \o values)
           ELSE IF good /\ rest # <<>> /\ Last(rest).type = "raw" /\ IsString(Last(rest).value)
             THEN Popped(Front(rest), start, isObject, <<Keyed(top, Last(rest).value)>> \o values)
           ELSE [ok |-> FALSE, tokens |-> tokens, values |-> values]

Flushed(s) == IF s.acc = <<>> THEN s ELSE [s EXCEPT !.tokens = Append(@, Raw(s.acc)), !.acc = <<>>]
Failed(s) == [s EXCEPT !.ok = FALSE]

Close(s, open) ==
  IF s.stk = <<>> \/ Last(s.stk)[1] # open THEN Failed(s)
  ELSE LET p == Popped(s.tokens, Last(s.stk)[2], open = "{", <<>>)
           n == Len(p.values)
           type == IF open = "{" THEN "object" ELSE "array"
       IN  IF ~p.ok \/ (open = "{" /\ ~checkDuplicates(p.values)) THEN Failed(s)
           ELSE [s EXCEPT !.stk = Front(@),
                          !.tokens = Append(p.tokens, [type |-> type, key |-> <<>>, value |-> p.values]),
                          !.commas = IF n = 0 THEN @ ELSE @ - (n - 1),
                          !.colons = IF open = "{" THEN @ - n ELSE @]

(* One lexeme.  A space does not end a token; a string does.  The counts   *)
(* are kept as what was seen less what is expected.                        *)
Lexed(s, ch) ==
  IF ~s.ok THEN s
  ELSE CASE ch \in Strings -> Flushed([s EXCEPT !.acc = Append(@, ch)])
         [] ch = " " -> s
         [] ch \in {"{", "["} -> [Flushed(s) EXCEPT !.stk = Append(@, <<ch, Len(Flushed(s).tokens)>>)]
         [] ch = "}" -> Close(Flushed(s), "{")
         [] ch = "]" -> Close(Flushed(s), "[")
         [] ch = "," -> [Flushed(s) EXCEPT !.commas = @ + 1]
         [] ch = ":" -> [Flushed(s) EXCEPT !.colons = @ + 1]
         [] OTHER -> [s EXCEPT !.acc = Append(@, ch)]

Scan(raw) ==
  FoldLeft(Lexed, [ok |-> TRUE, tokens |-> <<>>, stk |-> <<>>, acc |-> <<>>, commas |-> 0, colons |-> 0], raw)

Accepted(s) == /\ s.ok /\ s.commas = 0 /\ s.colons = 0 /\ s.acc = <<>>
               /\ Len(s.tokens) = 1 /\ s.tokens[1].type # "raw"

loads(raw) == Scan(raw).tokens[1]

-----------------------------------------------------------------------------
(* dumps: nested nodes, with spaces when it is to be pretty.               *)

RECURSIVE Dumps(_, _, _)
Dumps(node, pretty, skipKey) ==
  LET space == IF pretty THEN <<" ">> ELSE <<>>
      name == IF skipKey THEN <<>> ELSE node.key \o <<":">> \o space
      members(skip) ==
        FlattenSeq([i \in 1 .. Len(node.value) |->
          space \o Dumps(node.value[i], pretty, skip) \o (IF i < Len(node.value) THEN <<",">> ELSE <<>>)])
  IN  CASE node.type = "value" -> name \o node.value
        [] node.type = "array" -> name \o <<"[">> \o members(TRUE) \o space \o <<"]">>
        [] node.type = "object" -> name \o <<"{">> \o members(FALSE) \o space \o <<"}">>

dumps(node, pretty) == Dumps(node, pretty, TRUE)

-----------------------------------------------------------------------------
(* jsonEscape and jsonUnescape, on kinds of characters.                    *)

Letter == [nl |-> "n", cr |-> "r", tab |-> "t", bs |-> "b", ff |-> "f"]
Control == <<"u", "0", "0", "h", "h">>

Escape(c) ==
  CASE c \in {"quote", "backslash"} -> <<"backslash", c>>
    [] c \in DOMAIN Letter -> <<"backslash", Letter[c]>>
    [] c = "control" -> <<"backslash">> \o Control
    [] OTHER -> <<c>>

jsonEscape(s) == FlattenSeq([i \in 1 .. Len(s) |-> Escape(s[i])])

(* The letters b and f stand for themselves when they are read.            *)
RECURSIVE jsonUnescape(_)
jsonUnescape(s) ==
  IF s = <<>> THEN <<>>
  ELSE IF Head(s) # "backslash" \/ Len(s) = 1 THEN <<Head(s)>> \o jsonUnescape(Tail(s))
  ELSE IF s[2] = "u" THEN <<"control">> \o jsonUnescape(SubSeq(s, 2 + Len(Control), Len(s)))
  ELSE LET known == {c \in {"nl", "cr", "tab"} : Letter[c] = s[2]}
       IN  <<IF known = {} THEN s[2] ELSE CHOOSE c \in known : TRUE>> \o jsonUnescape(SubSeq(s, 3, Len(s)))

-----------------------------------------------------------------------------
(* The numbers of the JSON grammar, without exponents.                     *)
IsNumber(tok) ==
  LET body == IF tok # <<>> /\ tok[1] = "-" THEN Tail(tok) ELSE tok
      digits(s) == s # <<>> /\ \A i \in 1 .. Len(s) : s[i] \in Digits
      whole(s) == digits(s) /\ (s[1] = "0" => Len(s) = 1)
  IN  \/ whole(body)
      \/ \E dot \in 1 .. Len(body) : /\ body[dot] = "." /\ whole(SubSeq(body, 1, dot - 1))
                                     /\ digits(SubSeq(body, dot + 1, Len(body)))

(* Whatever loads accepts, well formed or not, is a document that dumps    *)
(* writes, plain or pretty, so that loads gives the same document back;    *)
(* and a sequence of digits, signs and points is a number for loads        *)
(* exactly when it is one in the grammar.                                  *)
LoadsDumps(raw) ==
  /\ Accepted(Scan(raw)) =>
       \A pretty \in BOOLEAN :
         LET again == Scan(dumps(loads(raw), pretty))
         IN  Accepted(again) /\ again.tokens[1] = loads(raw)
  /\ (\A i \in 1 .. Len(raw) : raw[i] \in Digits \cup {"-", "."}) =>
       ((IsLong(raw) \/ IsDouble(raw)) <=> IsNumber(raw))

(* What jsonEscape writes, jsonUnescape reads, backspace and form feed     *)
(* excepted.                                                               *)
EscapeInverse(s) == jsonUnescape(jsonEscape(s)) = s
=============================================================================
