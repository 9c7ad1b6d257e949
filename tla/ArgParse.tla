------------------------------ MODULE ArgParse ------------------------------
(***************************************************************************)
(* cli/argparse.hpp: how ArgumentParser gives the words of a command line  *)
(* to the arguments it knows, and how a quoted list is split.              *)
(*                                                                         *)
(* An argument is a record: name, type, alias ("" for none), required,     *)
(* kind of value, implicit and default value (None without), and the       *)
(* values its validator admits.  A parser is [args, subs]: a sequence of   *)
(* arguments, the first of which is help, and parsers by name.  A word of  *)
(* the command line is [kind, name, value]: "mark" is --, "named" is       *)
(* --name or --name=value, "alias" is -name, "number" is a word such as    *)
(* -5, and "word" is any other.  Help texts are left out.                  *)
(***************************************************************************)
EXTENDS Integers, Sequences, SequencesExt, FiniteSets

None == "none"
Numerals == {"5", "-5"}

(* The values of the kinds, and parse<T> of a word.                        *)
Zero == [bool |-> "false", int |-> "0", string |-> ""]
Parses(kind, text) == kind = "int" => text \in Numerals
parse(kind, text) ==
  IF kind = "bool" THEN (IF text \in {"", "0", "false"} THEN "false" ELSE "true") ELSE text

Text(w) == IF w.kind = "named" THEN "--" \o w.name \o (IF w.value = "" THEN "" ELSE "=" \o w.value)
           ELSE IF w.kind = "alias" THEN "-" \o w.name
           ELSE w.value

Positional(parser) == SelectSeq(parser.args, LAMBDA a : a.type \in {"POSITIONAL", "BOTH"})
Named(parser) == {a \in Range(parser.args) : a.type \in {"NAMED", "BOTH"}}

(* updateReferences throws at the second argument with an alias.           *)
RECURSIVE updateReferences(_)
updateReferences(parser) ==
  /\ \A a, b \in Range(parser.args) : a.alias # "" /\ a.alias = b.alias => a = b
  /\ \A n \in DOMAIN parser.subs : updateReferences(parser.subs[n])

-----------------------------------------------------------------------------
(* The state of _parseArgs: the next word, the values, the next positional *)
(* argument, whether positional arguments have begun, and a log of what    *)
(* became of each word.                                                    *)

Initial(parser, i) ==
  [i |-> i, position |-> 1, marker |-> FALSE, status |-> "parsing", log |-> <<>>,
   vals |-> [n \in {a.name : a \in Range(parser.args)} |->
     LET a == CHOOSE a \in Range(parser.args) : a.name = n
     IN  [set |-> FALSE, value |-> IF a.default # None THEN a.default ELSE Zero[a.kind]]]]

Log(s, i, role, name) == [s EXCEPT !.log = Append(@, <<i, role, name>>)]
Fail(s) == [s EXCEPT !.status = "error"]

(* Argument::set, with the word at i.                                      *)
SetTo(s, a, text, i, role) ==
  IF ~Parses(a.kind, text) THEN Fail(s)
  ELSE Log([s EXCEPT !.vals[a.name] = [set |-> TRUE, value |-> parse(a.kind, text)]], i, role, a.name)

SetImplicit(s, a) ==
  IF a.implicit = None THEN Fail(s)
  ELSE [s EXCEPT !.vals[a.name] = [set |-> TRUE, value |-> a.implicit]]

(* Is the next word a value?  Names and aliases of one letter are not;     *)
(* numbers, and words such as -abc, are.                                   *)
TakesNext(argv, i) ==
  /\ i < Len(argv) /\ argv[i + 1].kind \notin {"mark", "named"}
  /\ argv[i + 1].kind = "alias" => Len(argv[i + 1].name) # 1

(* Mutant: the word that was taken as a value is looked at again.          *)
TakenTwice(s, a, argv) ==
  LET t == SetTo(s, a, Text(argv[s.i + 1]), s.i + 1, "value") IN [t EXCEPT !.i = @ + 1]

Taken(s, a, argv) ==
  LET t == SetTo(s, a, Text(argv[s.i + 1]), s.i + 1, "value") IN [t EXCEPT !.i = @ + 2]

Option(s, a, argv) ==
  LET t == Log(s, s.i, "option", a.name)
  IN  IF TakesNext(argv, s.i) THEN Taken(t, a, argv) ELSE [SetImplicit(t, a) EXCEPT !.i = @ + 1]

(* The first positional argument from s.position on that is not set.       *)
NextPositional(parser, s) ==
  LET ps == Positional(parser)
      free == {k \in s.position .. Len(ps) : ~s.vals[ps[k].name].set}
  IN  IF free = {} THEN 0 ELSE CHOOSE k \in free : \A j \in free : k <= j

Place(parser, s, w) ==
  LET k == NextPositional(parser, s)
      t == [s EXCEPT !.marker = TRUE]
  IN  IF k = 0 THEN Fail(t)
      ELSE [SetTo(t, Positional(parser)[k], Text(w), s.i, "positional") EXCEPT !.i = @ + 1, !.position = k + 1]

Step(parser, argv, s) ==
  LET w == argv[s.i]
      named == {a \in Named(parser) : a.name = w.name}
      aliased == {a \in Range(parser.args) : a.alias # "" /\ a.alias = w.name}
      only(S) == CHOOSE a \in S : TRUE
      next(t) == [t EXCEPT !.i = @ + 1]
  IN  CASE w.kind = "mark" -> next(Log([s EXCEPT !.marker = TRUE], s.i, "mark", None))
        [] ~s.marker /\ w.kind = "named" ->
             IF named = {} THEN Fail(s)
             ELSE IF w.value # "" THEN next(SetTo(s, only(named), w.value, s.i, "value"))
             ELSE Option(s, only(named), argv)
        [] ~s.marker /\ w.kind \in {"alias", "number"} ->
             IF aliased = {} THEN Fail(s) ELSE Option(s, only(aliased), argv)
        [] OTHER -> Place(parser, s, w)

(* check(): a validator is asked of the value an argument has, set or not. *)
check(parser, s) ==
  \A a \in Range(parser.args) :
    s.vals[a.name].value \in a.allowed /\ (a.required => s.vals[a.name].set \/ a.default # None)

(* A subcommand takes the rest, and the parser above it is not checked.    *)
RECURSIVE Run(_, _, _)
Run(parser, argv, s) ==
  IF s.status # "parsing" THEN s
  ELSE IF s.i > Len(argv) THEN [s EXCEPT !.status = IF check(parser, s) THEN "ok" ELSE "error"]
  ELSE LET w == argv[s.i]
       IN  IF w.kind = "word" /\ ~s.marker /\ w.value \in DOMAIN parser.subs
             THEN LET sub == parser.subs[w.value]
                  IN  Run(sub, argv, [Initial(sub, s.i + 1) EXCEPT !.log = Append(s.log, <<s.i, "sub", w.value>>)])
             ELSE LET t == Step(parser, argv, s)
                  IN  IF t.status = "parsing" /\ t.vals[parser.args[1].name].value = "true"
                        THEN [t EXCEPT !.status = "help"]
                        ELSE Run(parser, argv, t)

parseArgs(parser, argv) ==
  IF updateReferences(parser) THEN Run(parser, argv, Initial(parser, 1)) ELSE Fail(Initial(parser, 1))

-----------------------------------------------------------------------------
(* parse<vector<string>>: text is a sequence of characters, `'' a quote.   *)

Split(s, ch) ==
  LET escaped == s.prev = "backslash"
      t == [s EXCEPT !.prev = ch]
  IN  IF ch = "comma" /\ s.quote = None THEN [t EXCEPT !.list = Append(@, s.acc), !.acc = <<>>]
      ELSE IF s.quote = ch /\ ~escaped THEN [t EXCEPT !.quote = None]
      ELSE IF s.quote = None /\ ch \in {"single", "double"} THEN [t EXCEPT !.quote = ch]
      ELSE [t EXCEPT !.acc = Append(IF escaped /\ ch = s.quote THEN Front(@) ELSE @, ch)]

SplitAll(text) == FoldLeft(Split, [list |-> <<>>, acc |-> <<>>, quote |-> None, prev |-> None], text)
ParseList(text) == LET s == SplitAll(text) IN Append(s.list, s.acc)

(* How a list is written so that it can be read: each element quoted, and  *)
(* a quote in it escaped.                                                  *)
Quoted(e) ==
  <<"double">> \o FlattenSeq([i \in 1 .. Len(e) |-> IF e[i] = "double" THEN <<"backslash", "double">> ELSE <<e[i]>>])
    \o <<"double">>

RECURSIVE QuotedList(_)
QuotedList(l) ==
  IF Len(l) = 1 THEN Quoted(l[1]) ELSE Quoted(Head(l)) \o <<"comma">> \o QuotedList(Tail(l))

-----------------------------------------------------------------------------
(* Of a command line that is accepted no word is dropped and none is used  *)
(* twice, and a positional word never replaces a value that an earlier     *)
(* word gave to the argument (a subcommand's names being its own).         *)
WordsUsedOnce(parser, argv) ==
  LET r == parseArgs(parser, argv)
      at(i) == {k \in 1 .. Len(r.log) : r.log[k][1] = i}
  IN  r.status = "ok" =>
        /\ \A i \in 1 .. Len(argv) : Cardinality(at(i)) = 1
        /\ \A j, k \in 1 .. Len(r.log) :
             j < k /\ r.log[k][2] = "positional" => r.log[j][3] # r.log[k][3]

(* A list of words without backslashes, quoted, is read as it was.         *)
ListInverse(l) == SplitAll(QuotedList(l)).quote = None /\ ParseList(QuotedList(l)) = l
=============================================================================
