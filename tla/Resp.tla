-------------------------------- MODULE Resp --------------------------------
(***************************************************************************)
(* redis-server/src/Node.cpp: the nodes of the Redis protocol, as they are *)
(* written to a client or a snapshot and read from one.                    *)
(*                                                                         *)
(* A text is a sequence of one-character strings, with "r" and "n" for the *)
(* end of a line.  A node is plain (a message, an error or not), a variant *)
(* (a number of one digit, a string or nil) or an aggregate of variants.   *)
(***************************************************************************)
EXTENDS Integers, Sequences, SequencesExt, FiniteSets, FiniteSetsExt

SEP == <<"r", "n">>
Numerals == <<"0", "1", "2", "3", "4", "5", "6", "7", "8", "9">>
IsDigit(c) == Contains(Numerals, c)
NumeralOf(c) == (CHOOSE i \in 1 .. 10 : Numerals[i] = c) - 1

Plain(message, ok) == [type |-> "plain", ok |-> ok, val |-> message, of |-> <<>>]
Variant(kind, val) == [type |-> kind, ok |-> TRUE, val |-> val, of |-> <<>>]
Nil == Variant("nil", <<>>)
Aggregate(values) == [type |-> "aggregate", ok |-> TRUE, val |-> <<>>, of |-> values]
Invalid == Plain(<<"Invalid input">>, FALSE)

(* A node that is thrown, not returned: out of deserialize and of every    *)
(* caller up to main, where the uncaught exception ends the server.        *)
Thrown == [type |-> "thrown", ok |-> FALSE, val |-> <<"Invalid input">>, of |-> <<>>]

serializeVariant(n) ==
  CASE n.type = "long" -> <<":">> \o n.val \o SEP
    [] n.type = "string" -> <<"$", Numerals[Len(n.val) + 1]>> \o SEP \o n.val \o SEP
    [] n.type = "nil" -> <<"$", "-", "1">> \o SEP
serialize(n) ==
  CASE n.type = "plain" -> <<IF n.ok THEN "+" ELSE "-">> \o n.val \o SEP
    [] n.type = "aggregate" ->
         <<"*", Numerals[Len(n.of) + 1]>> \o SEP \o FlattenSeq([k \in 1 .. Len(n.of) |-> serializeVariant(n.of[k])])
    [] OTHER -> serializeVariant(n)

SepFrom(s, i) ==
  LET at == {k \in i .. Len(s) - 1 : s[k] = "r" /\ s[k + 1] = "n"} IN IF at = {} THEN 0 ELSE Min(at)
At(s, i) == IF i <= Len(s) THEN s[i] ELSE ""

(* std::from_chars: the digits from place i on; none is an error, -1 here. *)
Number(s, i) ==
  LET stop == SelectInSubSeq(s, i, Len(s), LAMBDA c : ~IsDigit(c))
      digits == SubSeq(s, i, IF stop = 0 THEN Len(s) ELSE stop - 1)
  IN  IF digits = <<>> THEN -1 ELSE FoldLeft(LAMBDA n, c : 10 * n + NumeralOf(c), 0, digits)

(* A bulk string at place i and the place behind it, a nil's being the end *)
(* of the text; place 0 says that the node is thrown.                      *)
deserializeBulkStr(s, i) ==
  LET end == SepFrom(s, i)
      length == Number(s, i + 1)
  IN  IF At(s, i) # "$" \/ end = 0 THEN [node |-> Thrown, at |-> 0]
      ELSE IF At(s, i + 1) = "-" THEN [node |-> Nil, at |-> Len(s) + 1]
      ELSE IF length = -1 THEN [node |-> Thrown, at |-> 0]
      ELSE [node |-> Variant("string", SubSeq(s, end + 2, Min({Len(s), end + 1 + length}))), at |-> end + 4 + length]

RECURSIVE BulksFrom(_, _, _, _)
BulksFrom(s, i, count, values) ==
  LET b == deserializeBulkStr(s, i)
  IN  IF count = 0 THEN (IF i = Len(s) + 1 THEN Aggregate(values) ELSE Invalid)
      ELSE IF b.at = 0 THEN b.node
      ELSE BulksFrom(s, b.at, count - 1, Append(values, b.node))

deserialize(s) ==
  LET end == SepFrom(s, 1)
      token == SubSeq(s, 2, end - 1)
      bulk == deserializeBulkStr(s, 1)
  IN  CASE At(s, 1) = "$" -> IF bulk.at \in {0, Len(s) + 1} THEN bulk.node ELSE Invalid
        [] At(s, 1) # "$" /\ end = 0 -> Invalid
        [] end # 0 /\ s[1] = "+" -> Plain(token, TRUE)
        [] end # 0 /\ s[1] = "-" -> Plain(token, FALSE)
        [] end # 0 /\ s[1] = ":" -> IF token # <<>> /\ \A k \in 1 .. Len(token) : IsDigit(token[k]) THEN Variant("long", token) ELSE Invalid
        [] end # 0 /\ s[1] = "*" -> IF At(s, 2) = "-" THEN Nil
                                    ELSE IF Number(s, 2) = -1 THEN Invalid
                                    ELSE BulksFrom(s, end + 2, Number(s, 2), <<>>)
        [] OTHER -> Invalid

(* What is written is read back, whatever the strings hold, unless it is   *)
(* an aggregate with a number in it or with a nil that is not its last.    *)
RespInverse(n) ==
  (n.type = "aggregate" => \A k \in 1 .. Len(n.of) : n.of[k].type = "string" \/ (n.of[k] = Nil /\ k = Len(n.of)))
    => deserialize(serialize(n)) = n

(* A text of which less than all was received is never taken for a whole   *)
(* aggregate: the node is an error, returned or thrown.                    *)
NoPartRead(n) ==
  n.type = "aggregate" /\ Nil \notin ToSet(n.of) /\ n.of # <<>>
    => \A k \in 0 .. Len(serialize(n)) - 1 : deserialize(SubSeq(serialize(n), 1, k)) \in {Invalid, Thrown}
=============================================================================
