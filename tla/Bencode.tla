------------------------------ MODULE Bencode ------------------------------
(***************************************************************************)
(* torrent/src/bencode.cpp: the stack machine that reads a bencoded text   *)
(* into a tree, and the writer whose output is hashed into the info hash   *)
(* (torrent/src/torrent_file.cpp).                                         *)
(*                                                                         *)
(* A text is a sequence of one-character strings, none of them white       *)
(* space; a number is kept as its sign and digits.  A node is a record of  *)
(* its key, its type, its value (a number, a sequence of characters, or    *)
(* nothing yet) and its children.                                          *)
(***************************************************************************)
EXTENDS Integers, Sequences, SequencesExt, FiniteSets, FiniteSetsExt

Decimal == <<"0", "1", "2", "3", "4", "5", "6", "7", "8", "9">>
Digit == ToSet(Decimal)
DigitOf(c) == (CHOOSE i \in 1 .. 10 : Decimal[i] = c) - 1

Node(key, type, kind, val, kids) == [key |-> key, type |-> type, kind |-> kind, val |-> val, kids |-> kids]
Empty(type) == Node(<<>>, type, "none", <<>>, <<>>)
Pending(key) == Node(key, "value", "null", <<>>, <<>>)
Simple(kind, val) == Node(<<>>, "value", kind, val, <<>>)

-----------------------------------------------------------------------------
(* Writing.                                                                *)

Digits(n) == IF n < 10 THEN <<Decimal[n + 1]>> ELSE <<Decimal[(n \div 10) + 1], Decimal[(n % 10) + 1]>>
Text(s) == Digits(Len(s)) \o <<":">> \o s

KeyBelow(a, b) ==
  \/ IsStrictPrefix(a, b)
  \/ \E k \in 1 .. Len(a) :
       /\ k <= Len(b) /\ a[k] # b[k] /\ SubSeq(a, 1, k - 1) = SubSeq(b, 1, k - 1)
       /\ (a[k] \in Digit /\ b[k] \notin Digit) \/ (a[k] \in Digit /\ b[k] \in Digit /\ DigitOf(a[k]) < DigitOf(b[k]))
Sorted(kids) == SetToSortSeq(ToSet(kids), LAMBDA a, b : KeyBelow(a.key, b.key))

RECURSIVE encode(_, _, _)
encode(n, sortKeys, skipKey) ==
  LET kids(ns, skip) == FlattenSeq([k \in 1 .. Len(ns) |-> encode(ns[k], sortKeys, skip)])
  IN  (IF n.key # <<>> /\ ~skipKey THEN Text(n.key) ELSE <<>>)
      \o CASE n.type = "value" /\ n.kind = "string" -> Text(n.val)
           [] n.type = "value" /\ n.kind = "int" -> <<"i">> \o n.val \o <<"e">>
           [] n.type = "array" -> <<"l">> \o kids(n.kids, TRUE) \o <<"e">>
           [] n.type = "object" -> <<"d">> \o kids(IF sortKeys THEN Sorted(n.kids) ELSE n.kids, FALSE) \o <<"e">>

-----------------------------------------------------------------------------
(* Reading.                                                                *)

Error == [ok |-> FALSE, node |-> Empty("value")]
Read(n) == [ok |-> TRUE, node |-> n]
Below(stk) == SubSeq(stk, 1, Len(stk) - 1)
SetTop(stk, n) == Append(Below(stk), n)

(* JSONObjectNode::push replaces a child of the same key.                  *)
PushObject(n, child) ==
  IF \E k \in 1 .. Len(n.kids) : n.kids[k].key = child.key
    THEN [n EXCEPT !.kids = [k \in 1 .. Len(@) |-> IF @[k].key = child.key THEN child ELSE @[k]]]
    ELSE [n EXCEPT !.kids = Append(@, child)]
Push(n, child) == IF n.type = "object" THEN PushObject(n, child) ELSE [n EXCEPT !.kids = Append(@, child)]

(* The top goes into the node below it, which is no value; an empty stack  *)
(* stands for the error that is thrown.                                    *)
extract_Push_to_ancestor(stk) ==
  IF Last(Below(stk)).type = "value" THEN <<>>
  ELSE SetTop(Below(stk), Push(Last(Below(stk)), Last(stk)))

Settled(stk) == IF Len(stk) > 1 THEN extract_Push_to_ancestor(stk) ELSE stk
pop_Setval_Extract_Push(stk, kind, val) ==
  IF Last(stk).kind # "null" THEN <<>> ELSE Settled(SetTop(stk, [Last(stk) EXCEPT !.kind = kind, !.val = val]))

(* A number or a string that is no key of an object.                       *)
Insert(stk, kind, val) ==
  IF stk = <<>> THEN <<Simple(kind, val)>>
  ELSE IF Last(stk).type = "array" THEN SetTop(stk, Push(Last(stk), Simple(kind, val)))
  ELSE pop_Setval_Extract_Push(stk, kind, val)

(* A closed container goes into the array or object below it, or takes the *)
(* place of the value node that holds its key.                             *)
CloseInto(rest, prev) ==
  IF Last(rest).type # "value" THEN SetTop(rest, Push(Last(rest), prev))
  ELSE Settled(SetTop(rest, [prev EXCEPT !.key = Last(rest).key]))
Close(stk) == CloseInto(Below(stk), Last(stk))

(* std::stoull and std::stoll: the digits from a place on, without leading *)
(* zeros.                                                                  *)
DigitsFrom(text, i) == SelectInSubSeq(text, i, Len(text), LAMBDA c : c \notin Digit)
Significant(all, first) == IF all = <<>> THEN <<>> ELSE IF first = 0 THEN <<"0">> ELSE SubSeq(all, first, Len(all))
Stripped(all) == Significant(all, SelectInSeq(all, LAMBDA c : c # "0"))
Leading(text, i, stop) == Stripped(SubSeq(text, i, IF stop = 0 THEN Len(text) ELSE stop - 1))
NumberAt(text, i) == Leading(text, i, DigitsFrom(text, i))
Signed(negative, digits) == IF negative /\ digits \notin {<<>>, <<"0">>} THEN <<"-">> \o digits ELSE digits
IntegerAt(text, i) ==
  LET negative == i <= Len(text) /\ text[i] = "-" IN Signed(negative, NumberAt(text, IF negative THEN i + 1 ELSE i))
Amount(digits) == FoldLeft(LAMBDA n, c : 10 * n + DigitOf(c), 0, digits)

(* One turn of the loop at place i.  Its result is the next place and the  *)
(* stack, or done with an answer.                                          *)
On(i, stk) == [done |-> FALSE, at |-> i, stk |-> stk, answer |-> Error]
End(answer) == [done |-> TRUE, at |-> 0, stk |-> <<>>, answer |-> answer]
Unless(bad, next) == IF bad THEN End(Error) ELSE next
OnNonEmpty(i, stk) == Unless(stk = <<>>, On(i, stk))

InObject(stk) == stk # <<>> /\ Last(stk).type = "object"
Find(text, i, ch) == SelectInSubSeq(text, i, Len(text), LAMBDA c : c = ch)
ReadInteger(stk, stop, number) ==
  Unless(stop = 0 \/ InObject(stk) \/ number = <<>>, OnNonEmpty(stop + 1, Insert(stk, "int", number)))
WithString(stk, str) == IF InObject(stk) THEN Append(stk, Pending(str)) ELSE Insert(stk, "string", str)
ReadString(text, stk, colon, len) ==
  Unless(colon = 0 \/ colon + len > Len(text),
         OnNonEmpty(colon + len + 1, WithString(stk, SubSeq(text, colon + 1, colon + len))))

Step(text, i, stk) ==
  LET N == Len(text)
      ch == text[i]
  IN  CASE ch \in {"d", "l"} ->
             Unless(InObject(stk), On(i + 1, Append(stk, Empty(IF ch = "d" THEN "object" ELSE "array"))))
        [] ch = "i" -> ReadInteger(stk, Find(text, i, "e"), IntegerAt(text, i + 1))
        [] ch \in Digit -> ReadString(text, stk, Find(text, i, ":"), Amount(NumberAt(text, i)))
        [] ch = "e" ->
             Unless(stk = <<>> \/ (i = N /\ Len(stk) # 1) \/ (Len(stk) = 1 /\ i < N),
                    IF i = N THEN End(Read(Last(stk))) ELSE OnNonEmpty(i + 1, Close(stk)))
        [] OTHER -> End(Error)

RECURSIVE Scan(_, _, _)
Continue(text, s) == IF s.done THEN s.answer ELSE Scan(text, s.at, s.stk)
Scan(text, i, stk) ==
  IF i > Len(text) THEN (IF Len(stk) = 1 THEN Read(Last(stk)) ELSE Error)
  ELSE Continue(text, Step(text, i, stk))
decode(text) == Scan(text, 1, <<>>)

-----------------------------------------------------------------------------
(* What a reader of the format expects.                                    *)

(* The texts of the format with their keys in order: what a torrent's      *)
(* author hashed.                                                          *)
RECURSIVE Canonical(_)
Canonical(n) ==
  /\ \A k \in 1 .. Len(n.kids) : Canonical(n.kids[k])
  /\ n.type = "object" => \A j, k \in 1 .. Len(n.kids) : j < k => KeyBelow(n.kids[j].key, n.kids[k].key)

(* A tree that is written is read back, and when the author wrote its keys *)
(* in order, writing again gives the author's text, which is what the info *)
(* hash is taken of.                                                       *)
ReadBack(n, text, r) == r = Read(n) /\ (Canonical(n) => encode(r.node, TRUE, TRUE) = text)
SameText(n, text) == ReadBack(n, text, decode(text))
BencodeInverse(n) == SameText(n, encode(n, FALSE, TRUE)) /\ Canonical(decode(encode(n, TRUE, TRUE)).node)

(* What is read of any text at all is read again from what is written of   *)
(* it, unless a key is empty or has no value.                              *)
RECURSIVE Writable(_)
Writable(n) == n.kind # "null" /\ \A k \in 1 .. Len(n.kids) : Writable(n.kids[k]) /\ (n.type = "object" => n.kids[k].key # <<>>)
ReadAgain(r) == r.ok /\ Writable(r.node) => decode(encode(r.node, FALSE, TRUE)) = Read([r.node EXCEPT !.key = <<>>])
ReadStable(text) == ReadAgain(decode(text))
=============================================================================
