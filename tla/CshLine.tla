------------------------------ MODULE CshLine ------------------------------
(***************************************************************************)
(* cli/csh.cpp: from keys to commands.  The line editor with its history,  *)
(* the splitter and the parser of pipelines.                               *)
(*                                                                         *)
(* A key is a printable character or the name of a key.  "q" and "Q" stand *)
(* for two kinds of quotes, "\" for a backslash, " " for white space.  The *)
(* bell and the echo are left out.                                         *)
(***************************************************************************)
EXTENDS Integers, Sequences, SequencesExt, FiniteSets

Quotes == {"q", "Q"}

-----------------------------------------------------------------------------
(* History::operator[].                                                    *)

Entry(history, idx) == IF idx >= Len(history) THEN Last(history) ELSE history[idx + 1]

(* The quote that a line ends within, after the character before.          *)
Quoting(line) ==
  FoldLeft(LAMBDA s, ch :
             [prev |-> ch,
              inside |-> IF s.prev = "\\" \/ ch \notin Quotes THEN s.inside
                         ELSE IF s.inside = "" THEN ch
                         ELSE IF s.inside = ch THEN "" ELSE s.inside],
           [prev |-> "", inside |-> ""], line)
checkLinePending(line) == Quoting(line).inside # "" \/ Quoting(line).prev = "\\"

-----------------------------------------------------------------------------
(* readLine.  Positions count from 0.                                      *)

Without(s, i) == SubSeq(s, 1, i) \o SubSeq(s, i + 2, Len(s))
With(s, i, ch) == SubSeq(s, 1, i) \o <<ch>> \o SubSeq(s, i + 1, Len(s))
Shows(e, line) == [e EXCEPT !.buffer = line, !.bufferIdx = Len(line)]

Key(e, key, history) ==
  CASE key = "intr" -> [e EXCEPT !.buffer = <<>>, !.bufferIdx = 0]
    [] key = "up" -> IF e.histIdx = 0 THEN e
                     ELSE Shows([e EXCEPT !.histIdx = @ - 1], Entry(history, e.histIdx - 1))
    [] key = "down" -> IF e.histIdx = Len(history) THEN e
                       ELSE Shows([e EXCEPT !.histIdx = @ + 1],
                                  IF e.histIdx + 1 = Len(history) THEN e.curr ELSE Entry(history, e.histIdx + 1))
    [] key = "right" -> IF e.bufferIdx >= Len(e.buffer) THEN e ELSE [e EXCEPT !.bufferIdx = @ + 1]
    [] key = "left" -> IF e.bufferIdx = 0 THEN e ELSE [e EXCEPT !.bufferIdx = @ - 1]
    [] key = "del" -> IF e.bufferIdx >= Len(e.buffer) THEN e ELSE [e EXCEPT !.buffer = Without(@, e.bufferIdx)]
    [] key = "back" -> IF e.bufferIdx = 0 THEN e
                       ELSE [e EXCEPT !.buffer = Without(@, e.bufferIdx - 1), !.bufferIdx = @ - 1]
    [] OTHER -> [e EXCEPT !.buffer = With(@, e.bufferIdx, key), !.bufferIdx = @ + 1, !.curr = With(e.buffer, e.bufferIdx, key)]

Editor(history) == [buffer |-> <<>>, bufferIdx |-> 0, curr |-> <<>>, histIdx |-> Len(history)]
Edited(keys, history) == FoldLeft(LAMBDA e, key : Key(e, key, history), Editor(history), keys)

(* A pending line is thrown away; the end of input leaves the shell.       *)
readLine(keys, last, history) ==
  LET line == Edited(keys, history).buffer
      kept == IF checkLinePending(line) THEN <<>> ELSE line
  IN  IF last = "eof" /\ kept = <<>> THEN <<"exit">> ELSE kept

-----------------------------------------------------------------------------
split(str) ==
  LET Step(s, ch) ==
        IF s.prev # "\\" /\ ch \in Quotes
          THEN IF s.inside = "" THEN [s EXCEPT !.inside = ch, !.prev = ch]
               ELSE IF s.inside = ch THEN [s EXCEPT !.inside = "", !.prev = ch]
               ELSE [s EXCEPT !.acc = Append(@, ch), !.prev = ch]
        ELSE IF s.inside # "" \/ ch # " "
          THEN [s EXCEPT !.prev = ch,
                  !.acc = Append(IF s.inside = "" /\ s.prev = "\\" THEN Front(@) ELSE @, ch)]
        ELSE IF s.acc # <<>> THEN [s EXCEPT !.splits = Append(@, s.acc), !.acc = <<>>, !.prev = ch]
        ELSE [s EXCEPT !.prev = ch]
      end == FoldLeft(Step, [splits |-> <<>>, acc |-> <<>>, inside |-> "", prev |-> ""], str)
  IN  IF end.acc = <<>> THEN end.splits ELSE Append(end.splits, end.acc)

(* A pipeline, or nothing: the words "&&" and "||" are not supported, nor  *)
(* is a word after one that ends in ";".  The home directory's name is not *)
(* put in the place of "~".                                                *)
RECURSIVE ParseFrom(_, _, _)
ParseFrom(splits, i, result) ==
  IF i > Len(splits) THEN result
  ELSE IF splits[i] = <<"|">>
    THEN IF result # <<>> /\ Last(result) # <<>> THEN ParseFrom(splits, i + 1, Append(result, <<>>)) ELSE <<>>
  ELSE IF splits[i] \in {<<"&", "&">>, <<"|", "|">>} \/ (i > 1 /\ Last(splits[i - 1]) = ";") THEN <<>>
  ELSE IF result = <<>> THEN ParseFrom(splits, i + 1, <<<<splits[i]>>>>)
  ELSE ParseFrom(splits, i + 1, Append(Front(result), Append(Last(result), splits[i])))
parseSplits(splits) == ParseFrom(splits, 1, <<>>)

-----------------------------------------------------------------------------
(* An editor without positions: what is left and right of the cursor, the  *)
(* lines above and below the one that is edited, and the draft, which is   *)
(* the line when a character was last typed.                               *)

Zipped(z, key) ==
  CASE key = "intr" -> [z EXCEPT !.l = <<>>, !.r = <<>>]
    [] key = "up" -> IF z.up = <<>> THEN z
                     ELSE [z EXCEPT !.l = Last(z.up), !.r = <<>>, !.up = Front(@), !.down = <<Last(z.up)>> \o @]
    [] key = "down" -> IF z.down = <<>> THEN z
                       ELSE [z EXCEPT !.l = IF Len(z.down) = 1 THEN z.draft ELSE z.down[2], !.r = <<>>,
                               !.up = Append(@, Head(z.down)), !.down = Tail(@)]
    [] key = "right" -> IF z.r = <<>> THEN z ELSE [z EXCEPT !.l = Append(@, Head(z.r)), !.r = Tail(@)]
    [] key = "left" -> IF z.l = <<>> THEN z ELSE [z EXCEPT !.l = Front(@), !.r = <<Last(z.l)>> \o @]
    [] key = "del" -> IF z.r = <<>> THEN z ELSE [z EXCEPT !.r = Tail(@)]
    [] key = "back" -> IF z.l = <<>> THEN z ELSE [z EXCEPT !.l = Front(@)]
    [] OTHER -> [z EXCEPT !.l = Append(@, key), !.draft = Append(z.l, key) \o z.r]

(* The line that is edited is that of the editor without positions, with   *)
(* the cursor at the same place.                                           *)
EditExact(keys, history) ==
  LET e == Edited(keys, history)
      z == FoldLeft(Zipped, [l |-> <<>>, r |-> <<>>, up |-> history, down |-> <<>>, draft |-> <<>>], keys)
  IN  e.buffer = z.l \o z.r /\ e.bufferIdx = Len(z.l)

(* Words that are quoted and joined are split into what they were; a line  *)
(* that is taken has no word that is empty, and its commands hold all of   *)
(* its words in order.                                                     *)
Quoted(word) == LET q == IF Contains(word, "q") THEN "Q" ELSE "q" IN <<q>> \o word \o <<q>>
SplitQuoted(words) ==
  LET line == FlattenSeq([k \in 1 .. Len(words) |-> Quoted(words[k]) \o <<" ">>])
  IN  ~checkLinePending(line) /\ split(line) = words
LineParsed(keys) ==
  LET words == split(readLine(keys, "enter", <<>>))
      commands == parseSplits(words)
  IN  /\ \A k \in 1 .. Len(words) : words[k] # <<>>
      /\ commands # <<>> => /\ FlattenSeq(commands) = SelectSeq(words, LAMBDA w : w # <<"|">>)
                            /\ \A k \in 1 .. Len(commands) - 1 : commands[k] # <<>>
=============================================================================
