-------------------------------- MODULE Url --------------------------------
(***************************************************************************)
(* networking/net.hpp, class URL: pieces of a URL, its parameters and      *)
(* their encoding; and what networking/download-proxy.cpp makes of the     *)
(* URL a client asks for.                                                  *)
(*                                                                         *)
(* A text is a sequence of characters.  The characters that need encoding  *)
(* have a code of two digits of base 3 (base 16 in the code).  A protocol, *)
(* "://" and a port's number are one unit each.                            *)
(***************************************************************************)
EXTENDS Integers, Sequences, SequencesExt, FiniteSets, FiniteSetsExt

Chars == <<" ", "+", "%", "&", "=", "/", "?", ":", "@">>
HexDigits == <<"0", "1", "2">>
CodeOf(c) == (CHOOSE i \in 1 .. 9 : Chars[i] = c) - 1
DigitOf(c) == IF Contains(HexDigits, c) THEN (CHOOSE i \in 1 .. 3 : HexDigits[i] = c) - 1 ELSE -1

FindChar(s, c) == SelectInSeq(s, LAMBDA x : x = c)
Before(s, i) == SubSeq(s, 1, i - 1)
After(s, i) == SubSeq(s, i + 1, Len(s))

-----------------------------------------------------------------------------

(* Mutant: a plus sign is left as it is.                                   *)
PlusKept(s, mapSpaceToPlus) ==
  FlattenSeq([k \in 1 .. Len(s) |->
    IF s[k] = " " /\ mapSpaceToPlus THEN <<"+">>
    ELSE IF ~Contains(Chars, s[k]) \/ s[k] = "+" THEN <<s[k]>>
    ELSE <<"%", HexDigits[(CodeOf(s[k]) \div 3) + 1], HexDigits[(CodeOf(s[k]) % 3) + 1]>>])

encode(s, mapSpaceToPlus) ==
  FlattenSeq([k \in 1 .. Len(s) |->
    IF s[k] = " " /\ mapSpaceToPlus THEN <<"+">>
    ELSE IF ~Contains(Chars, s[k]) THEN <<s[k]>>
    ELSE <<"%", HexDigits[(CodeOf(s[k]) \div 3) + 1], HexDigits[(CodeOf(s[k]) % 3) + 1]>>])

(* std::stoi of the two characters behind a percent sign: the digits it    *)
(* starts with, after a 0.                                                 *)
Hex(c, d) == IF DigitOf(c) < 0 THEN 0 ELSE IF DigitOf(d) < 0 THEN DigitOf(c) ELSE 3 * DigitOf(c) + DigitOf(d)

RECURSIVE decode(_)
decode(s) ==
  IF s = <<>> THEN <<>>
  ELSE IF s[1] = "%" THEN (IF Len(s) < 3 THEN <<>> ELSE <<Chars[Hex(s[2], s[3]) + 1]>> \o decode(After(s, 3)))
  ELSE <<IF s[1] = "+" THEN " " ELSE s[1]>> \o decode(Tail(s))

-----------------------------------------------------------------------------

extractKV(raw) ==
  LET sep == FindChar(raw, "=")
  IN  IF sep = 0 THEN <<raw, <<>>>> ELSE <<Before(raw, sep), After(raw, sep)>>
RECURSIVE ParamsIn(_)
ParamsIn(raw) ==
  LET pos == FindChar(raw, "&")
  IN  IF raw = <<>> THEN <<>>
      ELSE IF pos = 0 THEN <<extractKV(raw)>>
      ELSE <<extractKV(Before(raw, pos))>> \o ParamsIn(After(raw, pos))

(* The path and its parameters, of a text that starts with a slash.        *)
getParamsFromPath(text) ==
  LET pos == FindChar(text, "?")
  IN  IF pos = 0 THEN [path |-> text, params |-> <<>>]
      ELSE [path |-> Before(text, pos), params |-> ParamsIn(After(text, pos))]

getPath(u) ==
  IF u.params = <<>> THEN u.path
  ELSE u.path \o <<"?">>
         \o Before(FlattenSeq([k \in 1 .. Len(u.params) |-> u.params[k][1] \o <<"=">> \o u.params[k][2] \o <<"&">>]),
                   FoldLeft(LAMBDA n, kv : n + Len(kv[1]) + Len(kv[2]) + 2, 0, u.params))

setParam(u, key, value) == [u EXCEPT !.params = Append(@, <<encode(key, TRUE), encode(value, TRUE)>>)]
unsetParam(u, key) == [u EXCEPT !.params = SelectSeq(@, LAMBDA kv : kv[1] # encode(key, TRUE))]
getParams(u) == [k \in 1 .. Len(u.params) |-> <<decode(u.params[k][1]), decode(u.params[k][2])>>]

(* extractURLPieces and the constructor.  A port is cut to 16 bits; 0 is   *)
(* none, for which http has a number of its own.                           *)
Number == [p80 |-> 80, p65616 |-> 65616, p65536 |-> 65536]
PortIn(text) == IF text = <<>> \/ text[1] \notin DOMAIN Number THEN -1 ELSE Number[text[1]] % (2 ^ 16)
Pieces(protocol, domain, port, p) ==
  [ok |-> port # -1, protocol |-> protocol, domain |-> domain,
   port |-> IF port = 0 /\ protocol = <<"http">> THEN 80 ELSE port, path |-> p.path, params |-> p.params]
AtColon(protocol, place, colon, p) ==
  IF colon = 0 THEN Pieces(protocol, place, 0, p) ELSE Pieces(protocol, Before(place, colon), PortIn(After(place, colon)), p)
AtPlace(protocol, place, p) == AtColon(protocol, place, FindChar(place, ":"), p)
AtAuthority(protocol, authority, path) ==
  AtPlace(protocol, After(authority, FindChar(authority, "@")), getParamsFromPath(path))
AtSlash(protocol, rest, slash) ==
  IF slash = 0 THEN AtAuthority(protocol, rest, <<"/">>)
  ELSE AtAuthority(protocol, Before(rest, slash), SubSeq(rest, slash, Len(rest)))
AfterScheme(protocol, rest) == AtSlash(protocol, rest, FindChar(rest, "/"))
NoURL == Pieces(<<>>, <<>>, -1, [path |-> <<>>, params |-> <<>>])
URL(text) ==
  LET scheme == FindChar(text, "://")
  IN  IF scheme = 0 THEN NoURL ELSE AfterScheme(Before(text, scheme), After(text, scheme))

PortText(n) == IF n = 80 THEN <<"p80">> ELSE <<"p65536">>
getFullPath(u) ==
  IF u.protocol = <<>> \/ u.domain = <<>> THEN getPath(u)
  ELSE u.protocol \o <<"://">> \o u.domain \o (IF u.port # 0 THEN <<":">> \o PortText(u.port) ELSE <<>>) \o getPath(u)

-----------------------------------------------------------------------------
(* download-proxy, handleRequest: which reply a complete request gets.     *)
(* The last of several parameters of a name counts.                        *)

TargetKey == <<"t">>
FilenameKey == <<"f">>
TokenKey == <<"k">>
LastOf(params, key, otherwise) ==
  LET at == {i \in 1 .. Len(params) : params[i][1] = key} IN IF at = {} THEN otherwise ELSE params[Max(at)][2]

Rejected(why) == [reply |-> why, target |-> <<>>, filename |-> <<>>]
TargetReply(target, url, filename) ==
  IF ~url.ok THEN Rejected("error")
  ELSE IF url.port = 0 \/ url.domain = <<>> THEN Rejected("bad url")
  ELSE [reply |-> "stream", target |-> target, filename |-> filename]
Authorised(target, filename) == TargetReply(target, URL(target), filename)
ParamsReply(params, TOKEN) ==
  IF LastOf(params, TokenKey, <<"none">>) # TOKEN THEN Rejected("unauthorised")
  ELSE Authorised(LastOf(params, TargetKey, <<>>), LastOf(params, FilenameKey, <<"d">>))
PathReply(u, TOKEN) == IF u.path # <<"/", "s">> THEN Rejected("not found") ELSE ParamsReply(getParams(u), TOKEN)
handleRequest(uri, TOKEN) == PathReply(getParamsFromPath(uri), TOKEN)

-----------------------------------------------------------------------------
(* Decoding undoes encoding, for either way to write a space.              *)
EncodeInverse(s) == \A b \in BOOLEAN : decode(encode(s, b)) = s

(* A client that sets its parameters one by one and sends the path is      *)
(* understood as it meant, whatever the values hold.                       *)
Replied(h, target, filename, token, TOKEN) ==
  /\ h.reply = "stream" => token = TOKEN /\ h.target = target /\ h.filename = filename
  /\ token = TOKEN => h.reply # "unauthorised"
Understood(u, target, filename, token, TOKEN) ==
  /\ getParams(getParamsFromPath(getPath(u))) = <<<<TargetKey, target>>, <<FilenameKey, filename>>, <<TokenKey, token>>>>
  /\ Replied(handleRequest(getPath(u), TOKEN), target, filename, token, TOKEN)
  /\ handleRequest(getPath(unsetParam(u, TokenKey)), TOKEN).reply = "unauthorised"
ProxyUnderstands(target, filename, token, TOKEN) ==
  LET none == [path |-> <<"/", "s">>, params |-> <<>>]
  IN  Understood(setParam(setParam(setParam(none, TargetKey, target), FilenameKey, filename), TokenKey, token),
                 target, filename, token, TOKEN)

(* A URL that is written and read again stays what it is.                  *)
Stable(u) == u.ok /\ u.domain # <<>> /\ u.protocol # <<>> => URL(getFullPath(u)) = u
UrlStable(text) == Stable(URL(text))
=============================================================================
