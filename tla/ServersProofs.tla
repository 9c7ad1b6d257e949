--------------------------- MODULE ServersProofs ---------------------------
(***************************************************************************)
(* Proofs about the judge, the shell and the two servers, in the           *)
(* composition that MCServers checks: a step of one of them leaves the     *)
(* others alone, so that each has an invariant of its own.                 *)
(***************************************************************************)
EXTENDS MCServers, FiniteSetTheorems, SequenceTheorems, WellFoundedInduction, NaturalsInduction, TLAPS

-----------------------------------------------------------------------------
(* The judge.                                                              *)

Text == [lines : Seq(STRING), nl : BOOLEAN]
Messages == {"failed", "no fork", "Sandboxed process failed.", "TLE.", "message"}
Died == {"exit1", "crash", "killed"}
Spoken == errLog # <<>> /\ errLog[1] \in {"TLE.", "message"}

(* Where the processes are.  The program runs, or waits to be reaped, only *)
(* while the process of the sandbox waits for it.                          *)
Stages ==
  /\ box \in {"setup", "fork"} =>
       program = "none" /\ ended = "none" /\ timer = "none" /\ errLog = <<>> /\ actual = J!Nothing
  /\ program \in {"running", "exit0"} \cup Died => box = "wait"
  /\ box = "wait" => ended = "none"
  /\ ended \in Died <=> box = "failing" \/ (box = "exit1" /\ ended # "none")
  /\ box = "exit0" => ended = "exit0" \/ (ended = "none" /\ actual = J!Nothing)
  /\ verdict # "none" => box \in {"exit0", "exit1"}

(* The first line of the error file was written by the program or by the   *)
(* timer until the program has been reaped, and it was written before the  *)
(* program was killed.                                                     *)
FirstLine ==
  /\ box \in {"wait", "failing"} /\ errLog # <<>> => Spoken
  /\ timer = "killing" \/ program = "killed" \/ ended = "killed" => Spoken

Judged ==
  /\ verdict = "PASS" => ended = "exit0" /\ J!compareFiles(actual, expected)
  /\ verdict # "none" /\ ended = "killed" => verdict = IF errLog[1] = "TLE." THEN "TLE" ELSE "GERR"

JudgeTypes == expected \in Text /\ actual \in Text /\ errLog \in Seq(Messages)

JudgeInv ==
  /\ JudgeTypes
  /\ verdict # "GERR" => expected.lines # <<>> /\ expected.lines[1] # ""
  /\ Stages /\ FirstLine /\ Judged

(* What the judge itself writes into the file of errors.                   *)
LEMMA MessagesSaid ==
  "failed" \in Messages /\ "no fork" \in Messages /\ "Sandboxed process failed." \in Messages /\ "TLE." \in Messages
  BY DEF Messages

(* Writing at the end of a file leaves its first line.                     *)
LEMMA FirstOfAppend ==
  ASSUME NEW s \in Seq(Messages), NEW x \in Messages
  PROVE  /\ Append(s, x) \in Seq(Messages) /\ Append(s, x) # <<>>
         /\ s = <<>> => Append(s, x)[1] = x
         /\ s # <<>> => Append(s, x)[1] = s[1]
<1> HIDE DEF Messages
<1> QED
  BY AppendProperties

(* A file of one line.                                                     *)
LEMMA FirstMessage ==
  ASSUME NEW l \in {"TLE.", "message"}
  PROVE  <<l>> \in Seq(Messages) /\ <<l>> # <<>> /\ <<l>>[1] = l
<1> l \in Messages
  BY DEF Messages
<1> QED
  OBVIOUS

(* An empty file is not what is expected.                                  *)
LEMMA CompareNothing ==
  ASSUME NEW e \in Text
  PROVE  e.lines # <<>> /\ e.lines[1] # "" => ~J!compareFiles(J!Nothing, e)
<1>0. SUFFICES ASSUME e.lines # <<>>, e.lines[1] # "" PROVE ~J!compareFiles(J!Nothing, e)
  OBVIOUS
<1>1. Len(e.lines) \in Nat /\ Len(e.lines) >= 1
  <2> PICK s \in Seq(STRING) : s = e.lines
    BY DEF Text
  <2>1. s # <<>>
    BY <1>0
  <2> QED
    BY <2>1
<1>2. J!Nothing.lines = <<>> /\ Len(J!Nothing.lines) = 0 /\ ~J!Nothing.nl
  BY DEF J!Nothing
<1>3. J!Getlines(J!Nothing) = 1
  BY <1>2 DEF J!Getlines
<1>4. J!Line(J!Nothing, 1) = ""
  BY <1>2 DEF J!Line
<1>5. J!Getlines(e) \in Nat /\ J!Getlines(e) >= 1
  <2> PICK n \in Nat : n = Len(e.lines) /\ n >= 1
    BY <1>1
  <2>1. PICK d : d = IF e.nl \/ e.lines = <<>> THEN 1 ELSE 0
    OBVIOUS
  <2>2. J!Getlines(e) = n + d
    BY <2>1 DEF J!Getlines
  <2>3. d \in Nat
    BY <2>1
  <2> QED
    BY <2>2, <2>3
<1>6. J!Line(e, 1) = e.lines[1]
  BY <1>1 DEF J!Line
<1>7. 1 \in 1 .. J!Getlines(J!Nothing) /\ 1 <= J!Getlines(e)
  BY <1>3, <1>5
<1>8. J!Line(J!Nothing, 1) # J!Line(e, 1)
  BY <1>0, <1>4, <1>6, Zenon
<1> QED
  BY <1>7, <1>8 DEF J!compareFiles

(* The judge at its beginning, or ended while another component runs.      *)
LEMMA JudgeStart == Init => JudgeInv
<1> SUFFICES ASSUME Init PROVE JudgeInv
  OBVIOUS
<1> J!Nothing \in Text
  BY DEF J!Nothing, Text
<1>1. CASE J!Ended
  <2> JudgeTypes
    BY <1>1 DEF J!Ended, JudgeTypes, Messages
  <2> QED
    BY <1>1 DEF J!Ended, JudgeInv, Stages, FirstLine, Judged, Died
<1>2. CASE J!Init
  <2> expected \in Text
    BY <1>2, TextsAssumption DEF J!Init, Text
  <2> errLog \in Seq(Messages)
    BY <1>2, EmptySeq DEF J!Init
  <2> actual \in Text
    BY <1>2 DEF J!Init
  <2> JudgeTypes
    BY DEF JudgeTypes
  <2> QED
    BY <1>2 DEF J!Init, JudgeInv, Stages, FirstLine, Judged, Died
<1> QED
  BY <1>1, <1>2 DEF Init

(* One step per action of the judge, the sandbox, the program and the      *)
(* timer.                                                                  *)
LEMMA JudgeStep == JudgeInv /\ J!Next => JudgeInv'
<1> SUFFICES ASSUME JudgeInv, J!Next PROVE JudgeInv'
  OBVIOUS
<1>0. JudgeTypes /\ errLog \in Seq(Messages)
  BY DEF JudgeInv, JudgeTypes
<1> USE DEF JudgeInv, Stages, FirstLine, Judged, Spoken, Died
<1>1. CASE J!setupSandbox
  <2> JudgeTypes'
    BY <1>0, <1>1, FirstOfAppend, MessagesSaid DEF J!setupSandbox, JudgeTypes
  <2> QED
    BY <1>1 DEF J!setupSandbox
<1>2. CASE J!SandboxFork
  <2> JudgeTypes'
    BY <1>0, <1>2, FirstOfAppend, MessagesSaid DEF J!SandboxFork, JudgeTypes
  <2> QED
    BY <1>2 DEF J!SandboxFork
<1>3. CASE J!WaitProgram
  <2> JudgeTypes'
    BY <1>0, <1>3 DEF J!WaitProgram, JudgeTypes
  <2> QED
    BY <1>3 DEF J!WaitProgram
<1>4. CASE J!BoxFailed
  <2> JudgeTypes'
    BY <1>0, <1>4, FirstOfAppend, MessagesSaid DEF J!BoxFailed, JudgeTypes
  <2>1. errLog # <<>> => errLog' # <<>> /\ errLog'[1] = errLog[1]
    BY <1>0, <1>4, FirstOfAppend, MessagesSaid DEF J!BoxFailed
  <2>2. Stages'
    BY <1>4 DEF J!BoxFailed
  <2>3. FirstLine'
    BY <1>4, <2>1 DEF J!BoxFailed
  <2> QED
    BY <1>4, <2>1, <2>2, <2>3 DEF J!BoxFailed
<1>5. CASE J!ProgramWrites
  <2>1. errLog' # <<>> /\ errLog'[1] \in {"TLE.", "message"} /\ errLog' \in Seq(Messages)
    <3> PICK l \in {"TLE.", "message"} : errLog' = <<l>>
      BY <1>5 DEF J!ProgramWrites
    <3> QED
      BY FirstMessage
  <2> JudgeTypes'
    BY <1>0, <1>5, <2>1 DEF J!ProgramWrites, JudgeTypes
  <2> QED
    BY <1>5, <2>1 DEF J!ProgramWrites
<1>6. CASE J!ProgramEnds
  <2> JudgeTypes'
    BY <1>0, <1>6, TextsAssumption DEF J!ProgramEnds, JudgeTypes, Text
  <2> QED
    BY <1>6 DEF J!ProgramEnds
<1>7. CASE J!TimeUp
  <2> JudgeTypes'
    BY <1>0, <1>7 DEF J!TimeUp, JudgeTypes
  <2> QED
    BY <1>7 DEF J!TimeUp, J!BoxAlive
<1>8. CASE J!TimeLimit
  <2> JudgeTypes'
    BY <1>0, <1>8, FirstOfAppend, MessagesSaid DEF J!TimeLimit, J!Say, JudgeTypes
  <2>1. /\ errLog # <<>> => errLog' # <<>> /\ errLog'[1] = errLog[1]
        /\ timer' = "killing" /\ errLog = <<>> => errLog' # <<>> /\ errLog'[1] = "TLE."
    BY <1>0, <1>8, FirstOfAppend, MessagesSaid DEF J!TimeLimit, J!Say
  <2>2. Stages'
    BY <1>8 DEF J!TimeLimit, J!BoxAlive, J!Kill, J!Say
  <2>3. FirstLine'
    BY <1>8, <2>1 DEF J!TimeLimit, J!BoxAlive, J!Kill, J!Say
  <2> QED
    BY <1>8, <2>1, <2>2, <2>3 DEF J!TimeLimit, J!BoxAlive
<1>9. CASE J!Verdict
  <2> JudgeTypes'
    BY <1>0, <1>9 DEF J!Verdict, JudgeTypes
  <2>1. ASSUME box = "exit0", ended = "none" PROVE ~J!compareFiles(actual, expected)
    <3>1. expected \in Text /\ expected.lines # <<>> /\ expected.lines[1] # ""
      BY <1>0, <1>9 DEF J!Verdict, JudgeTypes
    <3>2. actual = J!Nothing
      BY <2>1
    <3> QED
      BY <3>1, <3>2, CompareNothing
  <2>2. Stages' /\ FirstLine'
    BY <1>9 DEF J!Verdict
  <2>3. Judged'
    BY <1>9, <2>1 DEF J!Verdict, J!compareFiles
  <2> QED
    BY <1>9, <2>2, <2>3 DEF J!Verdict
<1> QED
  BY <1>1, <1>2, <1>3, <1>4, <1>5, <1>6, <1>7, <1>8, <1>9 DEF J!Next, J!Box, J!Timer

(* Texts that the comparison does not tell apart are the same, if they     *)
(* have no empty lines and their last lines are ended.                     *)
LEMMA CompareExact ==
  ASSUME NEW a \in Text, NEW e \in Text, J!Plain(a), J!Plain(e), J!compareFiles(a, e)
  PROVE  a = e
<1> DEFINE m == Len(a.lines)  n == Len(e.lines)
<1>1. a.lines \in Seq(STRING) /\ e.lines \in Seq(STRING) /\ m \in Nat /\ n \in Nat
  BY DEF Text
<1>2. /\ \A k \in 1 .. m : a.lines[k] # ""
      /\ \A k \in 1 .. n : e.lines[k] # ""
  BY DEF J!Plain
<1>3. \A k \in 1 .. m + 1 : k <= n + 1 =>
        (IF k <= m THEN a.lines[k] ELSE "") = (IF k <= n THEN e.lines[k] ELSE "")
  BY DEF J!Plain, J!compareFiles, J!Getlines, J!Line
<1> HIDE DEF m, n
<1>4. ~(m < n)
  <2> SUFFICES ASSUME m < n PROVE FALSE
    OBVIOUS
  <2> m + 1 \in 1 .. m + 1 /\ m + 1 \in 1 .. n /\ ~(m + 1 <= m) /\ m + 1 <= n + 1 /\ m + 1 <= n
    BY <1>1
  <2> QED
    BY <1>2, <1>3
<1>5. ~(n < m)
  <2> SUFFICES ASSUME n < m PROVE FALSE
    OBVIOUS
  <2> n + 1 \in 1 .. m + 1 /\ n + 1 \in 1 .. m /\ ~(n + 1 <= n) /\ n + 1 <= n + 1 /\ n + 1 <= m
    BY <1>1
  <2> QED
    BY <1>2, <1>3
<1>6. m = n
  BY <1>1, <1>4, <1>5
<1>7. \A k \in 1 .. m : a.lines[k] = e.lines[k]
  <2> TAKE k \in 1 .. m
  <2> k \in 1 .. m + 1 /\ k <= n + 1 /\ k <= m /\ k <= n
    BY <1>1, <1>6
  <2> QED
    BY <1>3
<1>8. a.lines = e.lines
  BY <1>1, <1>6, <1>7 DEF m, n
<1>9. a = [lines |-> a.lines, nl |-> TRUE] /\ e = [lines |-> e.lines, nl |-> TRUE]
  BY DEF Text, J!Plain
<1> QED
  BY <1>8, <1>9

(* Steps of the other components leave the judge alone.                    *)
LEMMA JudgeAlways == Spec => []JudgeInv
<1>1. JudgeInv /\ [Next]_all => JudgeInv'
  <2> SUFFICES ASSUME JudgeInv, [Next]_all PROVE JudgeInv'
    OBVIOUS
  <2>1. CASE J!Next
    BY <2>1, JudgeStep
  <2>2. CASE UNCHANGED judge
    <3>1. JudgeTypes' /\ Stages' /\ FirstLine'
      BY <2>2 DEF judge, JudgeInv, JudgeTypes, Stages, FirstLine, Spoken
    <3>2. Judged'
      BY <2>2 DEF judge, JudgeInv, Judged, J!compareFiles
    <3> QED
      BY <2>2, <3>1, <3>2 DEF judge, JudgeInv
  <2> QED
    BY <2>1, <2>2 DEF Next, all
<1> QED
  BY JudgeStart, <1>1, PTL DEF Spec

(* cjudge.cpp: whatever the program prints and whenever its time is up, a  *)
(* verdict of PASS means that it ended by itself with 0 and, of texts      *)
(* without empty lines, printed what was expected; and a program that the  *)
(* timer killed before it had written an error is judged TLE.              *)
THEOREM VerdictsAreRight == Spec => []VerdictRight
<1>1. JudgeInv => VerdictRight
  <2> SUFFICES ASSUME JudgeInv PROVE J!VerdictRight
    BY DEF VerdictRight
  <2>1. verdict = "PASS" /\ J!Plain(actual) /\ J!Plain(expected) => actual = expected
    BY CompareExact DEF JudgeInv, JudgeTypes, Judged
  <2>2. verdict # "none" /\ ended = "killed" /\ errLog[1] # "message" => verdict = "TLE"
    BY DEF JudgeInv, FirstLine, Judged, Spoken
  <2> QED
    BY <2>1, <2>2 DEF JudgeInv, Judged, J!VerdictRight
<1> QED
  BY JudgeAlways, <1>1, PTL
-----------------------------------------------------------------------------
(* Naturals and sequences.                                                 *)

(* A set of naturals has a least element.                                  *)
LEMMA LeastNatural ==
  ASSUME NEW S, S \subseteq Nat, S # {}
  PROVE  \E n \in S : \A m \in S : n <= m
<1>1. PICK n \in S : \A m \in S : ~(<<m, n>> \in OpToRel(<, Nat))
  BY WFMin, NatLessThanWellFounded, Zenon
<1>2. \A m \in S : ~(m < n)
  BY <1>1 DEF OpToRel
<1> QED
  BY <1>2

(* A queue without its first element.                                      *)
LEMMA TailFacts ==
  ASSUME NEW S, NEW s \in Seq(S), s # <<>>
  PROVE  /\ Head(s) \in S /\ Tail(s) \in Seq(S) /\ 1 \in DOMAIN s /\ Head(s) = s[1]
         /\ \A k \in DOMAIN Tail(s) : k \in Nat /\ k + 1 \in DOMAIN s /\ k + 1 # 1 /\ Tail(s)[k] = s[k + 1]
  OBVIOUS

(* A queue with one element more.                                          *)
LEMMA AppendFacts ==
  ASSUME NEW S, NEW s \in Seq(S), NEW x \in S
  PROVE  /\ Append(s, x) \in Seq(S)
         /\ \A k \in DOMAIN Append(s, x) :
              (k \in DOMAIN s /\ Append(s, x)[k] = s[k]) \/ (k = Len(s) + 1 /\ Append(s, x)[k] = x)
  BY AppendProperties

(* The instances count with the Cardinality of their own FiniteSets, which *)
(* is the same.                                                            *)
LEMMA SameCount == ASSUME NEW S PROVE H!Cardinality(S) = Cardinality(S) /\ R!Cardinality(S) = Cardinality(S)
  BY DEF H!Cardinality, R!Cardinality, Cardinality

-----------------------------------------------------------------------------
(* The HTTP server.                                                        *)

Someone == Browsers \cup {"free"}
Places == {"idle", "insert", "recv", "send", "close", "erase", "stuck"}
HttpTypes ==
  /\ httpServerRunning \in BOOLEAN
  /\ main \in {"accept", "check", "acquire", "exit", "killed"}
  /\ tasks \in Seq(H!Fds)
  /\ worker \in [H!Threads -> [pc : Places, fd : {0} \cup H!Fds, from : Someone, part : H!Parts]]
  /\ backlog \in Seq(Browsers)
  /\ holder \in [H!Fds -> Someone]
  /\ client \in [Browsers -> {"connected", "begun", "sent", "left"}]
  /\ DOMAIN replies = Browsers

(* Who has a descriptor in hand: the accept loop, the queue and a thread   *)
(* that has not closed it yet.                                             *)
Accepting == main \in {"check", "acquire"}
Works(w) == worker[w].pc \in {"insert", "recv", "send", "close"}
Serves(w) == worker[w].pc \in {"insert", "recv", "send"}
InHand ==
  /\ Accepting => clientSocket \in H!Fds
  /\ \A w \in H!Threads : Works(w) => worker[w].fd \in H!Fds

(* No two have the same descriptor in hand.                                *)
Apart ==
  /\ \A v, w \in H!Threads : Works(v) /\ Works(w) /\ worker[v].fd = worker[w].fd => v = w
  /\ \A j, k \in DOMAIN tasks : tasks[j] = tasks[k] => j = k
  /\ \A w \in H!Threads, k \in DOMAIN tasks : Works(w) => tasks[k] # worker[w].fd
  /\ Accepting => /\ \A k \in DOMAIN tasks : tasks[k] # clientSocket
                  /\ \A w \in H!Threads : Works(w) => worker[w].fd # clientSocket

(* Until the interrupt, a descriptor in hand is an open one.               *)
StillOpen ==
  httpServerRunning =>
    /\ Accepting => holder[clientSocket] # "free"
    /\ \A k \in DOMAIN tasks : holder[tasks[k]] # "free"
    /\ \A w \in H!Threads : Works(w) => holder[worker[w].fd] # "free"

(* A connection waits in the backlog once, or has one descriptor.          *)
OneConnection ==
  /\ \A e, f \in H!Fds : holder[e] = holder[f] /\ holder[e] # "free" => e = f
  /\ \A j, k \in DOMAIN backlog : backlog[j] = backlog[k] => j = k
  /\ \A f \in H!Fds, k \in DOMAIN backlog : holder[f] # backlog[k]

(* Up to the send, a client has no answer; and what is about to be sent to *)
(* one that has not left answers a part of its own request.                *)
Quiet(f) == holder[f] # "free" => replies[holder[f]] = <<>>
NotYet ==
  /\ \A k \in DOMAIN backlog : replies[backlog[k]] = <<>>
  /\ \A k \in DOMAIN tasks : Quiet(tasks[k])
  /\ Accepting => Quiet(clientSocket)
  /\ \A w \in H!Threads : Serves(w) => Quiet(worker[w].fd)
HasRead ==
  \A w \in H!Threads : worker[w].pc = "send" /\ holder[worker[w].fd] # "free" =>
    /\ client[holder[worker[w].fd]] # "connected"
    /\ client[holder[worker[w].fd]] # "left" =>
         worker[w].from = holder[worker[w].fd] /\ worker[w].part # "nothing"

HttpInv ==
  HttpTypes /\ InHand /\ Apart /\ StillOpen /\ OneConnection /\ NotYet /\ HasRead /\ H!OwnReply

(* The queue in the kernel holds every browser once.                       *)
LEMMA BacklogStart ==
  /\ H!SetToSeq(Browsers) \in Seq(Browsers)
  /\ \A j, k \in DOMAIN H!SetToSeq(Browsers) : H!SetToSeq(Browsers)[j] = H!SetToSeq(Browsers)[k] => j = k
<1> PICK n \in Nat : n = Cardinality(Browsers)
  BY BrowsersAssumption, FS_CardinalityType
<1>1. PICK f \in [1 .. n -> Browsers] : \A a, b \in 1 .. n : f[a] = f[b] => a = b
  BY BrowsersAssumption, FS_CardinalityType DEF ExistsBijection, Bijection, Injection, IsInjective
<1>2. \E g \in [1 .. n -> Browsers] : H!IsInjective(g)
  BY <1>1 DEF H!IsInjective
<1>3. H!SetToSeq(Browsers) \in [1 .. n -> Browsers] /\ H!IsInjective(H!SetToSeq(Browsers))
  BY <1>2, SameCount DEF H!SetToSeq
<1> QED
  BY <1>3 DEF H!IsInjective

(* A connection to be accepted has no descriptor, so one is free.          *)
LEMMA LowestDescriptor ==
  ASSUME HttpTypes, OneConnection, backlog # <<>>
  PROVE  LET fd == H!Min({f \in H!Fds : holder[f] = "free"}) IN fd \in H!Fds /\ holder[fd] = "free"
<1> DEFINE F == {f \in H!Fds : holder[f] = "free"}
           x == Head(backlog)
<1>1. x \in Browsers /\ \A f \in H!Fds : holder[f] # x
  BY TailFacts DEF HttpTypes, OneConnection
<1>2. /\ Cardinality(Browsers) \in Nat
      /\ IsFiniteSet(H!Fds) /\ Cardinality(H!Fds) = Cardinality(Browsers)
      /\ IsFiniteSet(Browsers \ {x}) /\ Cardinality(Browsers \ {x}) = Cardinality(Browsers) - 1
  <2>1. Cardinality(Browsers) \in Nat
    BY BrowsersAssumption, FS_CardinalityType
  <2>2. IsFiniteSet(H!Fds) /\ Cardinality(H!Fds) = Cardinality(Browsers)
    BY <2>1, SameCount, FS_Interval DEF H!Fds
  <2>3. IsFiniteSet(Browsers \ {x}) /\ Cardinality(Browsers \ {x}) = Cardinality(Browsers) - 1
    BY <1>1, BrowsersAssumption, FS_RemoveElement
  <2> QED
    BY <2>1, <2>2, <2>3
<1>3. F # {}
  <2> SUFFICES ASSUME F = {} PROVE FALSE
    OBVIOUS
  <2>1. holder \in [H!Fds -> Browsers \ {x}]
    BY <1>1 DEF HttpTypes, Someone
  <2>2. Cardinality(Browsers \ {x}) < Cardinality(H!Fds)
    BY <1>2
  <2>3. PICK a, b \in H!Fds : a # b /\ holder[a] = holder[b]
    BY <1>2, <2>1, <2>2, FS_PigeonHole
  <2> QED
    BY <2>3 DEF OneConnection
<1>4. F \subseteq Nat
  BY <1>2 DEF H!Fds
<1>5. \E n \in F : \A m \in F : n <= m
  BY <1>3, <1>4, LeastNatural
<1>6. H!Min(F) \in F
  BY <1>5 DEF H!Min
<1> QED
  BY <1>6

(* The HTTP server at its beginning, or ended while another component      *)
(* runs.                                                                   *)
LEMMA HttpStart == H!Init \/ H!Ended => HttpInv
<1> SUFFICES ASSUME NEW running \in BOOLEAN, NEW at \in {"accept", "exit"}, NEW said \in {"connected", "left"},
                    NEW b \in {<<>>, H!SetToSeq(Browsers)}, H!Server(running, at, b, said)
             PROVE  HttpInv
  BY DEF H!Init, H!Ended
<1>1. b \in Seq(Browsers) /\ \A j, k \in DOMAIN b : b[j] = b[k] => j = k
  <2>1. CASE b = <<>>
    BY <2>1
  <2>2. CASE b = H!SetToSeq(Browsers)
    BY <2>2, BacklogStart
  <2> QED
    BY <2>1, <2>2
<1>2. \A k \in DOMAIN b : b[k] \in Browsers
  BY <1>1
<1>3. HttpTypes
  BY <1>1 DEF H!Server, HttpTypes, Someone, Places, H!Resting, H!Free, H!Parts
<1>4. \A w \in H!Threads : worker[w].pc = "idle"
  BY DEF H!Server, H!Resting
<1>5. InHand /\ Apart /\ StillOpen /\ HasRead
  BY <1>4 DEF H!Server, InHand, Apart, StillOpen, HasRead, Works, Accepting
<1>6. OneConnection
  BY <1>1, <1>2, BrowsersAssumption DEF H!Server, OneConnection, H!Free
<1>7. NotYet
  BY <1>2, <1>4 DEF H!Server, NotYet, Accepting, Serves
<1>8. H!OwnReply
  BY DEF H!Server, H!OwnReply
<1> QED
  BY <1>3, <1>5, <1>6, <1>7, <1>8 DEF HttpInv

(* Answers stay right.                                                     *)
LEMMA OwnReplyKept == H!OwnReply /\ UNCHANGED <<request, replies>> => H!OwnReply'
<1> SUFFICES ASSUME H!OwnReply, UNCHANGED <<request, replies>> PROVE H!OwnReply'
  OBVIOUS
<1> QED
  BY Zenon DEF H!OwnReply, H!ResponseCode

(* One step per action of the accept loop, the tasks, the interrupt and    *)
(* the browsers.                                                           *)
LEMMA HttpStep == HttpInv /\ H!Next => HttpInv'
<1> SUFFICES ASSUME HttpInv, H!Next PROVE HttpInv'
  OBVIOUS
<1> USE DEF HttpInv
<1>0. /\ HttpTypes /\ InHand /\ Apart /\ StillOpen /\ OneConnection /\ NotYet /\ HasRead /\ H!OwnReply
      /\ \A w \in H!Threads : worker[w] \in [pc : Places, fd : {0} \cup H!Fds, from : Someone, part : H!Parts]
      /\ \A c \in Browsers : c # "free"
  BY BrowsersAssumption DEF HttpTypes
<1>r. UNCHANGED <<request, replies>> => H!OwnReply'
  BY <1>0, OwnReplyKept
<1>1. ASSUME NEW c \in Browsers, NEW said \in {"begun", "sent", "left"}, H!Say(c, said),
             client[c] \in {"connected", "begun", "sent"}
      PROVE  HttpInv'
  <2>1. HttpTypes'
    BY <1>0, <1>1 DEF H!Say, HttpTypes
  <2>2. HasRead'
    <3>1. /\ UNCHANGED <<worker, holder>> /\ client'[c] = said
          /\ \A b \in Browsers : b # c => client'[b] = client[b]
      BY <1>0, <1>1 DEF H!Say, HttpTypes
    <3>2. ASSUME NEW w \in H!Threads, worker[w].pc = "send", holder[worker[w].fd] # "free"
          PROVE  LET b == holder[worker[w].fd]
                 IN  client'[b] # "connected" /\ (client'[b] # "left" => worker[w].from = b /\ worker[w].part # "nothing")
      <4>1. holder[worker[w].fd] \in Browsers
        BY <1>0, <3>2 DEF InHand, Works, HttpTypes, Someone
      <4>2. CASE holder[worker[w].fd] # c
        BY <1>0, <3>1, <3>2, <4>1, <4>2 DEF HasRead
      <4>3. CASE holder[worker[w].fd] = c
        <5>1. client[c] # "left" => worker[w].from = c /\ worker[w].part # "nothing"
          BY <1>0, <3>2, <4>3 DEF HasRead
        <5>2. client[c] # "left"
          BY <1>1
        <5> QED
          BY <3>1, <4>3, <5>1, <5>2
      <4> QED
        BY <4>2, <4>3
    <3> QED
      BY <3>1, <3>2 DEF HasRead
  <2>3. InHand' /\ Apart' /\ StillOpen' /\ OneConnection' /\ NotYet' /\ H!OwnReply'
    BY <1>0, <1>1, <1>r DEF H!Say, InHand, Apart, StillOpen, OneConnection, NotYet, Accepting, Works, Serves, Quiet
  <2> QED
    BY <2>1, <2>2, <2>3
<1>2. CASE H!Accept
  <2> PICK fd : fd = clientSocket'
    OBVIOUS
  <2>1. fd \in H!Fds /\ holder[fd] = "free"
    BY <1>0, <1>2, LowestDescriptor DEF H!Accept, H!Free
  <2>2. /\ Head(backlog) \in Browsers /\ backlog' = Tail(backlog) /\ backlog # <<>> /\ backlog \in Seq(Browsers)
        /\ holder' = [holder EXCEPT ![fd] = Head(backlog)]
        /\ httpServerRunning /\ httpServerRunning' /\ main = "accept" /\ main' = "check"
        /\ UNCHANGED <<tasks, worker, client, request, replies>>
    BY <1>0, <1>2, TailFacts DEF H!Accept, HttpTypes, H!outside
  <2>3. /\ backlog' \in Seq(Browsers) /\ 1 \in DOMAIN backlog /\ Head(backlog) = backlog[1]
        /\ \A k \in DOMAIN backlog' : k \in Nat /\ k + 1 \in DOMAIN backlog /\ k + 1 # 1 /\ backlog'[k] = backlog[k + 1]
    BY <2>2, TailFacts
  <2>4. /\ holder'[fd] = Head(backlog) /\ holder'[fd] # "free"
        /\ \A f \in H!Fds : f # fd => holder'[f] = holder[f]
        /\ \A k \in DOMAIN tasks : tasks[k] \in H!Fds
    BY <1>0, <2>1, <2>2 DEF HttpTypes
  <2>5. /\ \A k \in DOMAIN tasks : tasks[k] # fd
        /\ \A w \in H!Threads : Works(w) => worker[w].fd # fd
    BY <1>0, <2>1, <2>2 DEF StillOpen
  <2>6. HttpTypes'
    BY <1>0, <2>1, <2>2, <2>3 DEF HttpTypes, Someone
  <2>7. InHand' /\ Apart'
    BY <1>0, <2>1, <2>2, <2>5 DEF InHand, Apart, Works, Accepting
  <2>8. StillOpen'
    BY <1>0, <2>1, <2>2, <2>4, <2>5 DEF StillOpen, InHand, Works, Accepting
  <2>9. OneConnection'
    BY <1>0, <2>1, <2>2, <2>3, <2>4 DEF OneConnection
  <2>10. NotYet'
    <3>1. replies[Head(backlog)] = <<>>
      BY <1>0, <2>3 DEF NotYet
    <3>2. \A f \in H!Fds : Quiet(f) => Quiet(f)'
      BY <2>2, <2>4, <3>1 DEF Quiet
    <3>3. Quiet(fd)'
      BY <2>2, <2>4, <3>1 DEF Quiet
    <3>4. /\ \A k \in DOMAIN tasks : Quiet(tasks[k])
          /\ \A w \in H!Threads : Serves(w) => Quiet(worker[w].fd) /\ worker[w].fd \in H!Fds
          /\ \A k \in DOMAIN backlog : replies[backlog[k]] = <<>>
      BY <1>0 DEF NotYet, InHand, Serves, Works
    <3>5. /\ \A k \in DOMAIN tasks : Quiet(tasks[k])'
          /\ \A w \in H!Threads : Serves(w) => Quiet(worker[w].fd)'
      BY <2>2, <2>4, <3>2, <3>4 DEF Quiet
    <3> QED
      BY <2>2, <2>3, <3>3, <3>4, <3>5 DEF NotYet, Serves, Quiet
  <2>11. HasRead' /\ H!OwnReply'
    <3>1. \A w \in H!Threads : worker[w].pc = "send" => worker[w].fd \in H!Fds /\ worker[w].fd # fd
      BY <1>0, <2>5 DEF InHand, Works
    <3> QED
      BY <1>0, <1>r, <2>2, <2>4, <3>1 DEF HasRead
  <2> QED
    BY <2>6, <2>7, <2>8, <2>9, <2>10, <2>11
<1>3. CASE H!Check
  <2>1. HttpTypes'
    BY <1>0, <1>3 DEF H!Check, H!outside, HttpTypes
  <2>2. Accepting' => Accepting
    BY <1>3 DEF H!Check, Accepting
  <2>3. InHand' /\ Apart' /\ StillOpen' /\ NotYet'
    BY <1>0, <1>3, <2>2 DEF H!Check, H!outside, InHand, Apart, StillOpen, NotYet, Works, Serves, Quiet
  <2>4. OneConnection' /\ HasRead' /\ H!OwnReply'
    BY <1>0, <1>r, <1>3 DEF H!Check, H!outside, OneConnection, HasRead
  <2> QED
    BY <2>1, <2>3, <2>4
<1>4. CASE H!Enqueue
  <2>1. /\ Accepting /\ ~Accepting' /\ main' = "accept" /\ tasks' = Append(tasks, clientSocket) /\ clientSocket \in H!Fds
        /\ UNCHANGED <<httpServerRunning, worker, backlog, holder, client, request, replies>>
    BY <1>0, <1>4 DEF H!Enqueue, H!outside, Accepting, InHand
  <2>2. /\ tasks' \in Seq(H!Fds) /\ tasks \in Seq(H!Fds)
        /\ \A k \in DOMAIN tasks' :
             (k \in DOMAIN tasks /\ tasks'[k] = tasks[k]) \/ (k = Len(tasks) + 1 /\ tasks'[k] = clientSocket)
    BY <1>0, <2>1, AppendFacts DEF HttpTypes
  <2>3. HttpTypes'
    BY <1>0, <2>1, <2>2 DEF HttpTypes
  <2>4. InHand' /\ StillOpen'
    BY <1>0, <2>1, <2>2 DEF InHand, StillOpen, Works
  <2>5. Apart'
    BY <1>0, <2>1, <2>2 DEF Apart, Works
  <2>6. NotYet'
    BY <1>0, <2>1, <2>2 DEF NotYet, Serves, Quiet
  <2>7. OneConnection' /\ HasRead' /\ H!OwnReply'
    BY <1>0, <1>r, <2>1 DEF OneConnection, HasRead
  <2> QED
    BY <2>3, <2>4, <2>5, <2>6, <2>7
<1>5. ASSUME NEW w \in H!Threads, H!Take(w) PROVE HttpInv'
  <2>1. /\ tasks # <<>> /\ tasks \in Seq(H!Fds) /\ tasks' = Tail(tasks)
        /\ UNCHANGED <<httpServerRunning, main, clientSocket, backlog, holder, client, request, replies>>
        /\ worker' = [worker EXCEPT ![w] = [H!Resting EXCEPT !.pc = "insert", !.fd = Head(tasks)]]
    BY <1>0, <1>5 DEF H!Take, H!outside, HttpTypes
  <2>2. /\ Head(tasks) \in H!Fds /\ tasks' \in Seq(H!Fds) /\ 1 \in DOMAIN tasks /\ Head(tasks) = tasks[1]
        /\ \A k \in DOMAIN tasks' : k \in Nat /\ k + 1 \in DOMAIN tasks /\ k + 1 # 1 /\ tasks'[k] = tasks[k + 1]
    BY <2>1, TailFacts
  <2>3. /\ worker'[w].pc = "insert" /\ worker'[w].fd = Head(tasks)
        /\ \A v \in H!Threads : v # w => worker'[v] = worker[v]
    BY <1>0, <2>1 DEF HttpTypes, H!Resting
  <2>4. HttpTypes'
    BY <1>0, <2>1, <2>2 DEF HttpTypes, Places, Someone, H!Parts, H!Resting, H!Free
  <2>5. InHand' /\ StillOpen'
    BY <1>0, <2>1, <2>2, <2>3 DEF InHand, StillOpen, Works, Accepting
  <2>6. Apart'
    <3>1. \A k \in DOMAIN tasks' : tasks'[k] # Head(tasks)
      BY <1>0, <2>2 DEF Apart
    <3>2. /\ \A v \in H!Threads : v # w /\ Works(v) => worker[v].fd # Head(tasks)
          /\ Accepting => Head(tasks) # clientSocket
      BY <1>0, <2>2 DEF Apart
    <3>3. \A j, k \in DOMAIN tasks' : tasks'[j] = tasks'[k] => j = k
      BY <1>0, <2>2 DEF Apart
    <3>4. \A v \in H!Threads, k \in DOMAIN tasks' : Works(v)' => tasks'[k] # worker'[v].fd
      BY <1>0, <2>2, <2>3, <3>1 DEF Apart, Works
    <3>5. \A u, v \in H!Threads : Works(u)' /\ Works(v)' /\ worker'[u].fd = worker'[v].fd => u = v
      BY <1>0, <2>3, <3>2 DEF Apart, Works
    <3>6. Accepting' => /\ \A k \in DOMAIN tasks' : tasks'[k] # clientSocket'
                        /\ \A v \in H!Threads : Works(v)' => worker'[v].fd # clientSocket'
      BY <1>0, <2>1, <2>2, <2>3, <3>2 DEF Apart, Works, Accepting
    <3> QED
      BY <3>3, <3>4, <3>5, <3>6 DEF Apart
  <2>7. NotYet'
    BY <1>0, <2>1, <2>2, <2>3 DEF NotYet, Serves, Quiet, Accepting
  <2>8. OneConnection' /\ H!OwnReply'
    BY <1>0, <1>r, <2>1 DEF OneConnection
  <2>9. HasRead'
    BY <1>0, <2>1, <2>3 DEF HasRead
  <2> QED
    BY <2>4, <2>5, <2>6, <2>7, <2>8, <2>9
<1> DEFINE Moved(w, p, q, t) ==
             /\ worker' \in [H!Threads -> [pc : Places, fd : {0} \cup H!Fds, from : Someone, part : H!Parts]]
             /\ worker'[w].pc = p /\ worker'[w].from = q /\ worker'[w].part = t
             /\ p # "idle" => worker'[w].fd = worker[w].fd
             /\ \A v \in H!Threads : v # w => worker'[v] = worker[v]
<1>6. ASSUME NEW w \in H!Threads, NEW p \in Places, H!Goes(w, p)
      PROVE  Moved(w, p, worker[w].from, worker[w].part)
  BY <1>0, <1>6 DEF H!Goes, HttpTypes
<1>8. ASSUME NEW w \in H!Threads, NEW p \in Places, NEW q \in Someone, NEW t \in H!Parts, Moved(w, p, q, t),
             p \in {"insert", "recv", "send", "close"} => Works(w),
             p \in {"insert", "recv", "send"} => Serves(w),
             p = "send" /\ holder[worker[w].fd] # "free" =>
               /\ client[holder[worker[w].fd]] # "connected"
               /\ client[holder[worker[w].fd]] # "left" => q = holder[worker[w].fd] /\ t # "nothing",
             UNCHANGED <<main, clientSocket, tasks, backlog, holder, client, request, replies>>,
             httpServerRunning' \in BOOLEAN, httpServerRunning' => httpServerRunning
      PROVE  HttpInv'
  <2> HIDE DEF Moved
  <2>1. \A v \in H!Threads : /\ Works(v)' => Works(v) /\ worker'[v].fd = worker[v].fd
                             /\ Serves(v)' => Serves(v) /\ worker'[v].fd = worker[v].fd
    BY <1>8 DEF Moved, Works, Serves
  <2>2. HttpTypes'
    BY <1>0, <1>8 DEF HttpTypes, Moved
  <2>3. InHand' /\ Apart' /\ StillOpen'
    BY <1>0, <1>8, <2>1 DEF InHand, Apart, StillOpen, Accepting
  <2>4. OneConnection' /\ NotYet' /\ H!OwnReply'
    BY <1>0, <1>8, <1>r, <2>1 DEF OneConnection, NotYet, Accepting, Quiet
  <2>5. HasRead'
    BY <1>0, <1>8 DEF HasRead, Moved
  <2> QED
    BY <2>2, <2>3, <2>4, <2>5
<1> HIDE DEF Moved
<1>9. ASSUME NEW w \in H!Threads, H!Insert(w) PROVE HttpInv'
  <2>1. Moved(w, "recv", worker[w].from, worker[w].part) /\ worker[w].from \in Someone /\ worker[w].part \in H!Parts
    BY <1>0, <1>6, <1>9 DEF H!Insert, Places
  <2> QED
    BY <1>0, <1>8, <1>9, <2>1 DEF H!Insert, H!At, H!outside, Works, Serves, Places, HttpTypes
<1>10. ASSUME NEW w \in H!Threads, H!Recv(w) PROVE HttpInv'
  <2>1. PICK c : c = holder[worker[w].fd]
    OBVIOUS
  <2>2. worker[w].pc = "recv" /\ c \in Someone
    BY <1>0, <1>10, <2>1 DEF H!Recv, H!At, InHand, Works, HttpTypes
  <2>3. PICK t \in H!Arrived(c) :
          worker' = [worker EXCEPT ![w].pc = "send", ![w].part = t,
                                   ![w].from = IF t = "nothing" THEN "free" ELSE c]
    BY <1>10, <2>1 DEF H!Recv, H!Free
  <2>4. PICK q : q = IF t = "nothing" THEN "free" ELSE c
    OBVIOUS
  <2>5. /\ t \in H!Parts /\ q \in Someone
        /\ c # "free" => client[c] # "connected" /\ (client[c] # "left" => t # "nothing")
    <3>1. c # "free" => c \in Browsers /\ client[c] \in {"begun", "sent", "left"}
      BY <1>0, <1>10, <2>1, <2>2 DEF H!Recv, H!Free, HttpTypes, Someone
    <3>2. CASE c = "free"
      BY <2>3, <2>4, <3>2 DEF H!Arrived, H!Parts, H!Free, Someone
    <3>3. CASE c # "free" /\ client[c] = "begun"
      BY <2>2, <2>3, <2>4, <3>3 DEF H!Arrived, H!Parts, H!Free
    <3>4. CASE c # "free" /\ client[c] = "sent"
      BY <2>2, <2>3, <2>4, <3>4 DEF H!Arrived, H!Parts, H!Free
    <3>5. CASE c # "free" /\ client[c] = "left"
      <4>1. t \in H!Parts
        BY <2>3, <3>5 DEF H!Arrived, H!Free
      <4> QED
        BY <2>2, <2>4, <3>5, <4>1 DEF Someone
    <3> QED
      BY <3>1, <3>2, <3>3, <3>4, <3>5
  <2>6. Moved(w, "send", q, t)
    BY <1>0, <2>3, <2>4, <2>5 DEF Moved, HttpTypes, Places
  <2>7. Works(w) /\ Serves(w)
    BY <2>2 DEF Works, Serves
  <2>8. /\ UNCHANGED <<main, clientSocket, tasks, backlog, holder, client, request, replies>>
        /\ httpServerRunning' = httpServerRunning /\ httpServerRunning \in BOOLEAN
    BY <1>0, <1>10 DEF H!Recv, H!outside, HttpTypes
  <2>9. holder[worker[w].fd] # "free" =>
          /\ client[holder[worker[w].fd]] # "connected"
          /\ client[holder[worker[w].fd]] # "left" => q = holder[worker[w].fd] /\ t # "nothing"
    BY <2>1, <2>4, <2>5
  <2>10. "send" \in Places
    BY DEF Places
  <2> QED
    BY <1>8, <2>5, <2>6, <2>7, <2>8, <2>9, <2>10
<1>11. ASSUME NEW w \in H!Threads, H!Send(w) PROVE HttpInv'
  <2> PICK f : f = worker[w].fd
    OBVIOUS
  <2>1. PICK c : c = holder[f]
    OBVIOUS
  <2>2. worker[w].pc = "send" /\ Works(w) /\ Serves(w) /\ f \in H!Fds /\ c \in Someone
    BY <1>0, <1>11, <2>1 DEF H!Send, H!At, InHand, Works, Serves, HttpTypes
  <2> DEFINE r == worker[w].from
             t == worker[w].part
  <2>a. /\ UNCHANGED <<httpServerRunning, clientSocket, tasks, backlog, holder, client, request>>
        /\ \/ /\ worker' = [worker EXCEPT ![w] = [H!Resting EXCEPT !.pc = "close", !.fd = f]]
              /\ UNCHANGED main
              /\ \E code \in H!ResponseCodes(t, r) :
                   replies' = IF c # "free" => client[c] = "left" THEN replies
                              ELSE [replies EXCEPT ![c] = Append(@, <<r, t, code>>)]
           \/ main' = "killed" /\ UNCHANGED <<worker, replies>>
    BY <1>11, <2>1 DEF H!Send, H!Free
  <2>b. CASE main' = "killed" /\ UNCHANGED <<worker, replies>>
    <3>1. HttpTypes' /\ ~Accepting'
      BY <1>0, <2>a, <2>b DEF HttpTypes, Accepting
    <3>2. InHand' /\ Apart' /\ StillOpen'
      BY <1>0, <2>a, <2>b, <3>1 DEF InHand, Apart, StillOpen, Works
    <3>3. NotYet' /\ OneConnection' /\ HasRead' /\ H!OwnReply'
      BY <1>0, <1>r, <2>a, <2>b, <3>1 DEF NotYet, OneConnection, HasRead, Serves, Quiet
    <3> QED
      BY <3>1, <3>2, <3>3
  <2>c. SUFFICES ASSUME /\ worker' = [worker EXCEPT ![w] = [H!Resting EXCEPT !.pc = "close", !.fd = f]]
                        /\ UNCHANGED main
                        /\ \E code \in H!ResponseCodes(t, r) :
                             replies' = IF c # "free" => client[c] = "left" THEN replies
                                        ELSE [replies EXCEPT ![c] = Append(@, <<r, t, code>>)]
                 PROVE  HttpInv'
    BY <2>a, <2>b
  <2>3. Moved(w, "close", "free", "nothing")
    BY <1>0, <2>2, <2>c DEF Moved, HttpTypes, Places, Someone, H!Resting, H!Free, H!Parts
  <2>4. \A v \in H!Threads : worker'[v].fd = worker[v].fd /\ (Works(v)' => Works(v)) /\ (Serves(v)' => Serves(v) /\ v # w)
    BY <2>2, <2>3 DEF Works, Serves, Moved
  <2> DEFINE Right(code) == /\ code \in H!Codes
                            /\ t = "all" => code = H!ResponseCode(request[c])
                            /\ code # "405 Method Not Allowed" => request[c].get
  <2>5. UNCHANGED <<httpServerRunning, main, clientSocket, tasks, backlog, holder, client, request>>
    BY <2>a, <2>c
  <2>6. \/ replies' = replies
        \/ /\ c # "free" /\ c \in Browsers /\ t \in H!Parts \ {"nothing"}
           /\ \E code \in H!Codes : Right(code) /\ replies' = [replies EXCEPT ![c] = <<<<c, t, code>>>>]
    <3> SUFFICES ASSUME replies' # replies
                 PROVE  /\ c # "free" /\ c \in Browsers /\ t \in H!Parts \ {"nothing"}
                        /\ \E code \in H!Codes : Right(code) /\ replies' = [replies EXCEPT ![c] = <<<<c, t, code>>>>]
      OBVIOUS
    <3>1. c # "free" /\ client[c] # "left"
      BY <2>c
    <3>2. c \in Browsers /\ r = c /\ t \in H!Parts \ {"nothing"}
      BY <1>0, <2>1, <2>2, <3>1 DEF HasRead, Someone
    <3>3. replies[c] = <<>>
      BY <1>0, <2>1, <2>2, <3>1 DEF NotYet, Quiet
    <3>4. PICK code \in H!ResponseCodes(t, c) : replies' = [replies EXCEPT ![c] = Append(@, <<c, t, code>>)]
      BY <2>c, <3>1, <3>2
    <3>5. Append(replies[c], <<c, t, code>>) = <<<<c, t, code>>>>
      BY <3>3
    <3>6. Right(code)
      <4>1. CASE t = "all"
        <5>1. code = H!ResponseCode(request[c])
          BY <4>1, <3>4 DEF H!ResponseCodes
        <5> QED
          BY <5>1 DEF H!ResponseCode, H!Codes
      <4>2. CASE t = "path" /\ request[c].get
        BY <4>2, <3>4 DEF H!ResponseCodes, H!Codes
      <4>3. CASE t # "all" /\ ~(t = "path" /\ request[c].get)
        BY <4>3, <3>4 DEF H!ResponseCodes, H!Codes
      <4> QED
        BY <4>1, <4>2, <4>3
    <3> QED
      BY <3>1, <3>2, <3>4, <3>5, <3>6
  <2>7. /\ DOMAIN replies' = Browsers
        /\ \A b \in Browsers : b # c => replies'[b] = replies[b]
        /\ c \in Browsers =>
             \/ replies'[c] = replies[c]
             \/ /\ t \in H!Parts \ {"nothing"}
                /\ \E code \in H!Codes : Right(code) /\ replies'[c] = <<<<c, t, code>>>>
    BY <1>0, <2>6 DEF HttpTypes
  <2>8. HttpTypes'
    BY <1>0, <2>3, <2>5, <2>7 DEF HttpTypes, Moved
  <2>9. InHand' /\ Apart' /\ StillOpen'
    BY <1>0, <2>4, <2>5 DEF InHand, Apart, StillOpen, Accepting
  <2>10. OneConnection'
    BY <1>0, <2>5 DEF OneConnection
  <2>11. NotYet'
    <3>1. \A e \in H!Fds : e # f => (Quiet(e) => Quiet(e)')
      <4> SUFFICES ASSUME NEW e \in H!Fds, e # f, Quiet(e), holder[e] # "free" PROVE replies'[holder[e]] = <<>>
        BY <2>5 DEF Quiet
      <4>1. holder[e] # c
        BY <1>0, <2>1, <2>2 DEF OneConnection
      <4>2. holder[e] \in Browsers
        BY <1>0 DEF HttpTypes, Someone
      <4> QED
        BY <2>7, <4>1, <4>2 DEF Quiet
    <3>2. /\ \A k \in DOMAIN tasks : tasks[k] \in H!Fds /\ tasks[k] # f /\ Quiet(tasks[k])
          /\ Accepting => clientSocket \in H!Fds /\ clientSocket # f /\ Quiet(clientSocket)
          /\ \A v \in H!Threads : v # w /\ Serves(v) => worker[v].fd \in H!Fds /\ worker[v].fd # f /\ Quiet(worker[v].fd)
      BY <1>0, <2>2 DEF Apart, NotYet, InHand, Works, Serves, HttpTypes
    <3>3. \A k \in DOMAIN backlog : backlog[k] \in Browsers /\ backlog[k] # c
      BY <1>0, <2>1, <2>2 DEF OneConnection, HttpTypes
    <3>4. \A k \in DOMAIN backlog' : replies'[backlog'[k]] = <<>>
      BY <1>0, <2>5, <2>7, <3>3 DEF NotYet
    <3>5. (\A k \in DOMAIN tasks : Quiet(tasks[k]))'
      BY <2>5, <3>1, <3>2
    <3>6. Accepting' => Quiet(clientSocket)'
      BY <2>5, <3>1, <3>2 DEF Accepting
    <3>7. (\A v \in H!Threads : Serves(v) => Quiet(worker[v].fd))'
      BY <2>4, <2>5, <3>1, <3>2
    <3> QED
      BY <3>4, <3>5, <3>6, <3>7 DEF NotYet
  <2>12. HasRead'
    BY <1>0, <2>3, <2>5 DEF HasRead, Moved
  <2>13. H!OwnReply'
    <3> SUFFICES ASSUME NEW b \in Browsers
                 PROVE  \/ replies'[b] = <<>>
                        \/ \E part \in H!Parts \ {"nothing"}, code \in H!Codes :
                             /\ replies'[b] = <<<<b, part, code>>>>
                             /\ part = "all" => code = H!ResponseCode(request[b])
                             /\ code # "405 Method Not Allowed" => request[b].get
      BY <2>5 DEF H!OwnReply, H!ResponseCode
    <3>1. CASE replies'[b] = replies[b]
      BY <1>0, <3>1 DEF H!OwnReply
    <3>2. CASE replies'[b] # replies[b]
      BY <2>7, <3>2
    <3> QED
      BY <3>1, <3>2
  <2> QED
    BY <2>8, <2>9, <2>10, <2>11, <2>12, <2>13
<1>12. ASSUME NEW w \in H!Threads, H!Close(w) PROVE HttpInv'
  <2> PICK f : f = worker[w].fd
    OBVIOUS
  <2>1. worker[w].pc = "close" /\ Works(w) /\ f \in H!Fds
    BY <1>0, <1>12 DEF H!Close, H!At, InHand, Works
  <2>2. Moved(w, "erase", worker[w].from, worker[w].part)
    BY <1>6, <1>12 DEF H!Close, Places
  <2>3. \A v \in H!Threads : /\ worker'[v].fd = worker[v].fd /\ (Works(v)' => Works(v) /\ v # w)
                             /\ (Serves(v)' => Serves(v) /\ v # w)
    BY <2>1, <2>2 DEF Works, Serves, Moved
  <2>4. /\ UNCHANGED <<httpServerRunning, main, clientSocket, tasks, backlog, client, request, replies>>
        /\ holder' = [holder EXCEPT ![f] = "free"]
    BY <1>12 DEF H!Close, H!Free, H!outside
  <2>5. holder'[f] = "free" /\ \A e \in H!Fds : e # f => holder'[e] = holder[e]
    BY <1>0, <2>1, <2>4 DEF HttpTypes
  <2>6. /\ \A k \in DOMAIN tasks : tasks[k] \in H!Fds /\ tasks[k] # f
        /\ Accepting => clientSocket \in H!Fds /\ clientSocket # f
        /\ \A v \in H!Threads : v # w /\ Works(v) => worker[v].fd \in H!Fds /\ worker[v].fd # f
    BY <1>0, <2>1 DEF Apart, InHand, HttpTypes
  <2>7. HttpTypes'
    BY <1>0, <2>2, <2>4 DEF HttpTypes, Moved, Someone
  <2>8. InHand' /\ Apart'
    BY <1>0, <2>3, <2>4 DEF InHand, Apart, Accepting
  <2>9. StillOpen'
    BY <1>0, <2>3, <2>4, <2>5, <2>6 DEF StillOpen, Accepting
  <2>10. OneConnection'
    <3>1. \A k \in DOMAIN backlog : backlog[k] \in Browsers
      BY <1>0 DEF HttpTypes
    <3> QED
      BY <1>0, <2>1, <2>4, <2>5, <3>1 DEF OneConnection
  <2>11. NotYet'
    <3>1. \A e \in H!Fds : Quiet(e) => Quiet(e)'
      BY <2>4, <2>5 DEF Quiet
    <3>2. \A v \in H!Threads : Serves(v) => Works(v)
      BY DEF Works, Serves
    <3> QED
      BY <1>0, <2>3, <2>4, <2>5, <2>6, <3>1, <3>2 DEF NotYet, Quiet, Accepting
  <2>12. HasRead'
    <3>1. \A v \in H!Threads : worker'[v].pc = "send" => v # w /\ worker[v].fd \in H!Fds /\ worker[v].fd # f
      BY <2>2, <2>6 DEF Moved, Works
    <3> QED
      BY <1>0, <2>2, <2>4, <2>5, <3>1 DEF HasRead, Moved
  <2>13. H!OwnReply'
    BY <1>r, <2>4
  <2> QED
    BY <2>7, <2>8, <2>9, <2>10, <2>11, <2>12, <2>13
<1>13. ASSUME NEW w \in H!Threads, H!Erase(w) PROVE HttpInv'
  <2>1. Moved(w, "idle", "free", "nothing") /\ "free" \in Someone /\ "nothing" \in H!Parts /\ "idle" \in Places
    BY <1>0, <1>13 DEF H!Erase, H!Resting, H!Free, H!Parts, Places, Moved, HttpTypes, Someone
  <2> QED
    BY <1>0, <1>8, <1>13, <2>1 DEF H!Erase, H!outside, HttpTypes
<1>14. CASE H!handleInterrupt
  <2>1. CASE \E w \in H!Threads : H!Goes(w, "stuck") /\ UNCHANGED holder
    <3> PICK w \in H!Threads : H!Goes(w, "stuck") /\ UNCHANGED holder
      BY <2>1
    <3>1. Moved(w, "stuck", worker[w].from, worker[w].part) /\ worker[w].from \in Someone /\ worker[w].part \in H!Parts
      BY <1>0, <1>6 DEF Places
    <3> QED
      BY <1>0, <1>8, <1>14, <3>1 DEF H!handleInterrupt, H!outside, Places
  <2>2. CASE /\ holder' = [fd \in H!Fds |-> IF fd \in activeClientSockets THEN "free" ELSE holder[fd]]
             /\ UNCHANGED worker
    <3>1. /\ \A f \in H!Fds : holder'[f] \in {"free", holder[f]}
          /\ holder' \in [H!Fds -> Someone]
      BY <1>0, <2>2 DEF HttpTypes, Someone
    <3>2. /\ UNCHANGED <<main, clientSocket, tasks, worker, backlog, client, request, replies>>
          /\ httpServerRunning' = FALSE
      BY <1>14, <2>2 DEF H!handleInterrupt, H!outside
    <3>3. HttpTypes' /\ InHand' /\ Apart' /\ StillOpen'
      BY <1>0, <3>1, <3>2 DEF HttpTypes, InHand, Apart, StillOpen, Works, Accepting
    <3>4. OneConnection'
      <4>1. \A k \in DOMAIN backlog : backlog[k] \in Browsers
        BY <1>0 DEF HttpTypes
      <4> QED
        BY <1>0, <3>1, <3>2, <4>1 DEF OneConnection
    <3>5. NotYet'
      <4>1. \A e \in H!Fds : Quiet(e) => Quiet(e)'
        BY <3>1, <3>2 DEF Quiet
      <4>2. /\ \A k \in DOMAIN tasks : tasks[k] \in H!Fds
            /\ Accepting => clientSocket \in H!Fds
            /\ \A v \in H!Threads : Serves(v) => worker[v].fd \in H!Fds
        BY <1>0 DEF InHand, HttpTypes, Works, Serves
      <4> QED
        BY <1>0, <3>2, <4>1, <4>2 DEF NotYet, Accepting, Serves, Quiet
    <3>6. HasRead' /\ H!OwnReply'
      <4>1. \A v \in H!Threads : worker[v].pc = "send" => worker[v].fd \in H!Fds
        BY <1>0 DEF InHand, Works
      <4> QED
        BY <1>0, <1>r, <3>1, <3>2, <4>1 DEF HasRead
    <3> QED
      BY <3>3, <3>4, <3>5, <3>6
  <2> QED
    BY <1>14, <2>1, <2>2 DEF H!handleInterrupt, H!Free
<1>15. ASSUME NEW c \in Browsers, H!SendOrLeave(c) \/ H!LeaveWaiting(c) PROVE HttpInv'
  BY <1>1, <1>15 DEF H!SendOrLeave, H!LeaveWaiting
<1> QED
  BY <1>2, <1>3, <1>4, <1>5, <1>9, <1>10, <1>11, <1>12, <1>13, <1>14, <1>15
     DEF H!Next, H!Main, H!Thread

(* Steps of the other components leave the HTTP server alone.              *)
LEMMA HttpAlways == Spec => []HttpInv
<1>1. Init => HttpInv
  BY HttpStart DEF Init
<1>2. HttpInv /\ [Next]_all => HttpInv'
  <2> SUFFICES ASSUME HttpInv, [Next]_all PROVE HttpInv'
    OBVIOUS
  <2>1. CASE H!Next
    BY <2>1, HttpStep
  <2>2. CASE UNCHANGED http
    <3>1. HttpTypes' /\ InHand' /\ Apart' /\ StillOpen' /\ OneConnection'
      BY <2>2 DEF http, HttpInv, HttpTypes, InHand, Apart, StillOpen, OneConnection, Accepting, Works
    <3>2. NotYet' /\ HasRead' /\ H!OwnReply'
      BY <2>2, OwnReplyKept DEF http, HttpInv, NotYet, HasRead, Quiet, Serves, Accepting
    <3> QED
      BY <3>1, <3>2 DEF HttpInv
  <2> QED
    BY <2>1, <2>2 DEF Next, all
<1> QED
  BY <1>1, <1>2, PTL DEF Spec

-----------------------------------------------------------------------------
(* The Redis server.                                                       *)

Anyone == Clients \cup {"free"}
Tokens == {"*", "$", "nl", "v", "closed"}
ReplyParts == Clients \X Nat \X {1, 2}
Info == [event : {"POLLIN", "POLLOUT"}, text : Seq(Tokens), response : Seq(ReplyParts), left : Nat]
RedisTypes ==
  /\ owner \in [R!Fds -> Anyone]
  /\ DOMAIN socketInfo \subseteq R!Fds /\ socketInfo \in [DOMAIN socketInfo -> Info]
  /\ toServer \in [Clients -> Seq(Tokens)] /\ toClient \in [Clients -> Seq(ReplyParts)]
  /\ asked \in [Clients -> Seq(Requests)] /\ got \in [Clients -> Seq(ReplyParts)]

(* A client has one descriptor at most.                                    *)
OneDescriptor == \A e, f \in R!Fds : owner[e] = owner[f] /\ owner[e] # "free" => e = f

(* What has arrived, and what is on its way, are the replies in order.     *)
Delivered(c) == Len(got[c]) + Len(toClient[c])
Stream(c) ==
  /\ Delivered(c) <= 2 * Len(asked[c])
  /\ \A n \in 1 .. Len(got[c]) : got[c][n] = R!Reply(c, n)
  /\ \A n \in 1 .. Len(toClient[c]) : toClient[c][n] = R!Reply(c, Len(got[c]) + n)

(* How far the conversation on a descriptor has come: nothing is asked, a  *)
(* request is being read, or its reply is being sent.                      *)
Resting(c, info) == info.event = "POLLIN" /\ info.text \o toServer[c] = <<>> /\ Delivered(c) = 2 * Len(asked[c])
Asking(c, info) ==
  /\ info.event = "POLLIN" /\ asked[c] # <<>>
  /\ info.text \o toServer[c] = R!RequestText(asked[c][Len(asked[c])])
  /\ Delivered(c) = 2 * Len(asked[c]) - 2
Answering(c, info) ==
  /\ info.event = "POLLOUT" /\ asked[c] # <<>> /\ info.text = <<>> /\ toServer[c] = <<>>
  /\ info.response = R!Parts(c, Len(asked[c])) /\ info.left \in {1, 2}
  /\ Delivered(c) = 2 * Len(asked[c]) - info.left
Talks(c, info) == toServer[c] # <<"closed">> => Resting(c, info) \/ Asking(c, info) \/ Answering(c, info)
Conversations ==
  \A fd \in R!Fds : owner[fd] # "free" => fd \in DOMAIN socketInfo /\ Talks(owner[fd], socketInfo[fd])

RedisInv == RedisTypes /\ OneDescriptor /\ (\A c \in Clients : Stream(c)) /\ Conversations

(* What is left of a reply, cut once more.                                 *)
LEMMA RestCut ==
  ASSUME NEW q \in Seq(ReplyParts), Len(q) = 2, NEW left \in {1, 2}, NEW sent \in 1 .. left
  PROVE  LET p == SubSeq(SubSeq(q, 2 - left + 1, 2), 1, sent)
         IN  p \in Seq(ReplyParts) /\ Len(p) = sent /\ \A j \in 1 .. sent : p[j] = q[2 - left + j]
<1>1. PICK r : r = SubSeq(q, 2 - left + 1, 2)
  OBVIOUS
<1>2. 2 - left + 1 \in 1 .. 2 /\ left \in Nat /\ sent \in Nat /\ sent <= left /\ sent >= 1
  OBVIOUS
<1>3. r \in Seq(ReplyParts) /\ Len(r) = left /\ \A j \in 1 .. left : r[j] = q[2 - left + j]
  <2>1. CASE left = 1
    <3>1. r = SubSeq(q, 2, 2)
      BY <1>1, <2>1
    <3>2. r \in Seq(ReplyParts) /\ Len(r) = 1 /\ r[1] = q[2]
      BY <3>1
    <3> QED
      BY <2>1, <3>2
  <2>2. CASE left = 2
    <3>1. r = SubSeq(q, 1, 2)
      BY <1>1, <2>2
    <3>2. r \in Seq(ReplyParts) /\ Len(r) = 2 /\ \A j \in 1 .. 2 : r[j] = q[j]
      BY <3>1
    <3> QED
      BY <2>2, <3>2
  <2> QED
    BY <2>1, <2>2
<1>4. PICK p : p = SubSeq(r, 1, sent)
  OBVIOUS
<1>5. p \in Seq(ReplyParts) /\ Len(p) = sent /\ \A j \in 1 .. sent : p[j] = r[j]
  BY <1>2, <1>3, <1>4
<1>6. \A j \in 1 .. sent : j \in 1 .. left
  BY <1>2
<1> QED
  BY <1>1, <1>3, <1>4, <1>5, <1>6

(* A text of which the first k tokens of s are added to t.                 *)
CutOff(t, s, k) ==
  /\ t \o SubSeq(s, 1, k) \in Seq(Tokens) /\ SubSeq(s, k + 1, Len(s)) \in Seq(Tokens)
  /\ (t \o SubSeq(s, 1, k)) \o SubSeq(s, k + 1, Len(s)) = t \o s
  /\ t \o SubSeq(s, 1, k) = SubSeq(t \o s, 1, Len(t) + k)
  /\ Len(t) + k \in 1 .. Len(t \o s)
  /\ Len(t) + k = Len(t \o s) => SubSeq(s, k + 1, Len(s)) = <<>>

(* A read or send may cut a text anywhere.                                 *)
LEMMA CutWhole ==
  ASSUME NEW t \in Seq(Tokens), NEW s \in Seq(Tokens), NEW k \in 1 .. Len(s)
  PROVE  CutOff(t, s, k)
<1>1. k \in Nat /\ Len(s) \in Nat /\ Len(t) \in Nat /\ 1 <= k /\ k <= Len(s)
  OBVIOUS
<1>2. SubSeq(s, 1, k) \in Seq(Tokens) /\ SubSeq(s, k + 1, Len(s)) \in Seq(Tokens)
  BY <1>1, SubSeqProperties
<1>3. SubSeq(s, 1, k) \o SubSeq(s, k + 1, Len(s)) = s
  OBVIOUS
<1>4. (t \o SubSeq(s, 1, k)) \o SubSeq(s, k + 1, Len(s)) = t \o s
  <2>1. PICK a, b : a = SubSeq(s, 1, k) /\ b = SubSeq(s, k + 1, Len(s))
    OBVIOUS
  <2>2. a \in Seq(Tokens) /\ b \in Seq(Tokens)
    BY <1>2, <2>1
  <2>3. PICK x, y, z \in Nat : x = Len(t) /\ y = Len(a) /\ z = Len(b)
    BY <2>2
  <2>4. s = a \o b
    BY <1>3, <2>1
  <2>5. Len(s) = y + z /\ \A m \in 1 .. y + z : s[m] = IF m <= y THEN a[m] ELSE b[m - y]
    BY <2>2, <2>3, <2>4, ConcatProperties
  <2>6. PICK u : u = t \o a
    OBVIOUS
  <2>7. u \in Seq(Tokens) /\ Len(u) = x + y /\ \A m \in 1 .. x + y : u[m] = IF m <= x THEN t[m] ELSE a[m - x]
    BY <2>2, <2>3, <2>6, ConcatProperties
  <2>8. PICK l : l = u \o b
    OBVIOUS
  <2>9. l \in Seq(Tokens) /\ Len(l) = x + y + z /\ \A m \in 1 .. x + y + z : l[m] = IF m <= x + y THEN u[m] ELSE b[m - (x + y)]
    <3>1. l \in Seq(Tokens) /\ Len(l) = Len(u) + Len(b) /\ \A m \in 1 .. Len(u) + Len(b) : l[m] = IF m <= Len(u) THEN u[m] ELSE b[m - Len(u)]
      BY <2>2, <2>7, <2>8, ConcatProperties
    <3>2. Len(u) = x + y /\ Len(b) = z
      BY <2>3, <2>7
    <3> QED
      BY <2>3, <3>1, <3>2
  <2>10. PICK r : r = t \o s
    OBVIOUS
  <2>11. r \in Seq(Tokens) /\ Len(r) = x + y + z /\ \A m \in 1 .. x + y + z : r[m] = IF m <= x THEN t[m] ELSE s[m - x]
    <3>1. r \in Seq(Tokens) /\ Len(r) = Len(t) + Len(s) /\ \A m \in 1 .. Len(t) + Len(s) : r[m] = IF m <= Len(t) THEN t[m] ELSE s[m - Len(t)]
      BY <2>10, ConcatProperties
    <3>2. Len(t) = x /\ Len(s) = y + z /\ x + (y + z) = x + y + z
      BY <2>3, <2>5
    <3> QED
      BY <2>3, <3>1, <3>2
  <2>12. \A m \in 1 .. x + y + z : l[m] = r[m]
    <3> TAKE m \in 1 .. x + y + z
    <3>1. CASE m <= x
      BY <2>3, <2>7, <2>9, <2>11, <3>1
    <3>2. CASE m > x /\ m <= x + y
      <4>1. m - x \in 1 .. y + z /\ m - x <= y /\ ~(m <= x) /\ m \in 1 .. x + y
        BY <2>3, <3>2
      <4>2. l[m] = u[m] /\ u[m] = a[m - x]
        BY <2>7, <2>9, <3>2, <4>1
      <4>3. r[m] = s[m - x] /\ s[m - x] = a[m - x]
        BY <2>5, <2>11, <4>1
      <4> QED
        BY <4>2, <4>3
    <3>3. CASE m > x + y
      <4>1. m - x \in 1 .. y + z /\ ~(m - x <= y) /\ (m - x) - y = m - (x + y) /\ ~(m <= x) /\ ~(m <= x + y)
        BY <2>3, <3>3
      <4> QED
        BY <2>5, <2>9, <2>11, <4>1
    <3> QED
      BY <2>3, <3>1, <3>2, <3>3
  <2>13. l = r
    BY <2>9, <2>11, <2>12, SeqEqual
  <2> QED
    BY <2>1, <2>6, <2>8, <2>10, <2>13
<1>8. t \o SubSeq(s, 1, k) \in Seq(Tokens)
  BY <1>2, ConcatProperties
<1>5. t \o SubSeq(s, 1, k) = SubSeq(t \o s, 1, Len(t) + k)
  OBVIOUS
<1>6. Len(t \o s) = Len(t) + Len(s)
  OBVIOUS
<1>7. k = Len(s) => SubSeq(s, k + 1, Len(s)) = <<>>
  OBVIOUS
<1>9. Len(t) + k \in 1 .. Len(t \o s) /\ (Len(t) + k = Len(t \o s) => k = Len(s))
  BY <1>1, <1>6
<1> QED
  BY <1>2, <1>4, <1>5, <1>7, <1>8, <1>9 DEF CutOff

(* The text of a request with n strings: where its line ends and dollars   *)
(* are.                                                                    *)
LEMMA TextShape ==
  ASSUME NEW n \in Nat
  PROVE  /\ R!RequestText(n) \in Seq(Tokens)
         /\ n = 0 => R!RequestText(n)[1] = "$" /\ Len(R!RequestText(n)) = 4
         /\ n # 0 => /\ R!RequestText(n)[1] = "*" /\ Len(R!RequestText(n)) = 4 * n + 2
                     /\ \A k \in 1 .. 4 * n + 2 : /\ R!RequestText(n)[k] = "nl" => k % 2 = 0
                                                  /\ R!RequestText(n)[k] = "$" => k % 4 = 3
<1>1. CASE n = 0
  BY <1>1 DEF R!RequestText, R!Bulk, Tokens
<1>2. CASE n # 0
  <2>1. R!RequestText(n) = [k \in 1 .. 4 * n + 2 |-> IF k = 1 THEN "*" ELSE IF k = 2 THEN "nl" ELSE R!Bulk[((k - 3) % 4) + 1]]
    BY <1>2 DEF R!RequestText
  <2>2. R!Bulk[1] = "$" /\ R!Bulk[2] = "nl" /\ R!Bulk[3] = "v" /\ R!Bulk[4] = "nl"
    BY DEF R!Bulk
  <2>3. ASSUME NEW k \in 1 .. 4 * n + 2
        PROVE  /\ R!RequestText(n)[k] \in Tokens
               /\ R!RequestText(n)[k] = "nl" => k % 2 = 0
               /\ R!RequestText(n)[k] = "$" => k % 4 = 3
    <3>1. CASE k \in {1, 2}
      BY <2>1, <3>1 DEF Tokens
    <3>2. CASE k \notin {1, 2}
      <4>1. k \in Int /\ k >= 3 /\ R!RequestText(n)[k] = R!Bulk[((k - 3) % 4) + 1]
        BY <2>1, <3>2
      <4>2. /\ (k - 3) % 4 \in {0, 1, 2, 3}
            /\ (k - 3) % 4 = 0 => k % 4 = 3
            /\ (k - 3) % 4 \in {1, 3} => k % 2 = 0
        BY <4>1
      <4>3. CASE (k - 3) % 4 = 0
        BY <2>2, <4>1, <4>2, <4>3 DEF Tokens
      <4>4. CASE (k - 3) % 4 = 1
        BY <2>2, <4>1, <4>2, <4>4 DEF Tokens
      <4>5. CASE (k - 3) % 4 = 2
        BY <2>2, <4>1, <4>2, <4>5 DEF Tokens
      <4>6. CASE (k - 3) % 4 = 3
        BY <2>2, <4>1, <4>2, <4>6 DEF Tokens
      <4> QED
        BY <4>2, <4>3, <4>4, <4>5, <4>6
    <3> QED
      BY <3>1, <3>2
  <2>4. R!RequestText(n)[1] = "*" /\ DOMAIN R!RequestText(n) = 1 .. 4 * n + 2
    BY <2>1
  <2>5. R!RequestText(n) \in [1 .. 4 * n + 2 -> Tokens]
    BY <2>1, <2>3
  <2>6. R!RequestText(n) \in Seq(Tokens) /\ Len(R!RequestText(n)) = 4 * n + 2
    BY <2>4, <2>5
  <2> QED
    BY <1>2, <2>3, <2>4, <2>6
<1> QED
  BY <1>1, <1>2

(* Only the whole text of a request is taken for complete.                 *)
LEMMA CompleteWhole ==
  ASSUME NEW n \in Nat, NEW m \in 1 .. Len(R!RequestText(n)), R!Complete(SubSeq(R!RequestText(n), 1, m), n)
  PROVE  m = Len(R!RequestText(n))
<1> DEFINE s == R!RequestText(n)
           p == SubSeq(s, 1, m)
           nls == {k \in 1 .. Len(p) : p[k] = "nl"}
           dollars == {k \in 1 .. Len(p) : p[k] = "$"}
<1>1. s \in Seq(Tokens) /\ Len(s) \in Nat
  BY TextShape
<1> HIDE DEF s
<1>2. m \in 1 .. Len(s) /\ R!Complete(p, n)
  BY DEF s
<1>3. Len(p) = m /\ Head(p) = s[1] /\ \A k \in 1 .. m : p[k] = s[k]
  BY <1>1, <1>2
<1> HIDE DEF p
<1>4. CASE n = 0
  <2>1. s[1] = "$" /\ Len(s) = 4
    BY <1>4, TextShape DEF s
  <2> QED
    BY <1>2, <1>3, <2>1 DEF R!Complete
<1>5. CASE n # 0
  <2>1. /\ s[1] = "*" /\ Len(s) = 4 * n + 2
        /\ \A k \in 1 .. 4 * n + 2 : (s[k] = "nl" => k % 2 = 0) /\ (s[k] = "$" => k % 4 = 3)
    BY <1>5, TextShape DEF s
  <2> SUFFICES ASSUME m <= 4 * n + 1 PROVE FALSE
    BY <1>2, <2>1 DEF s
  <2>2. nls \subseteq {k \in 1 .. m : k % 2 = 0} /\ dollars \subseteq {k \in 1 .. m : k % 4 = 3}
    BY <1>2, <1>3, <2>1
  <2>3. IsFiniteSet(nls) /\ Cardinality(nls) <= 2 * n
    <3> DEFINE f == [k \in nls |-> k \div 2]
    <3>1. f \in [nls -> 1 .. 2 * n]
      BY <2>2
    <3>2. \A j, k \in nls : f[j] = f[k] => j = k
      BY <2>2
    <3>3. IsFiniteSet(1 .. 2 * n) /\ Cardinality(1 .. 2 * n) = 2 * n
      BY FS_Interval
    <3>4. f \in Injection(nls, 1 .. 2 * n)
      BY <3>1, <3>2 DEF Injection, IsInjective
    <3> HIDE DEF f, nls
    <3> QED
      BY <3>3, <3>4, FS_Injection
  <2>4. IsFiniteSet(dollars) /\ Cardinality(dollars) <= n
    <3> DEFINE f == [k \in dollars |-> (k + 1) \div 4]
    <3>1. f \in [dollars -> 1 .. n]
      BY <2>2
    <3>2. \A j, k \in dollars : f[j] = f[k] => j = k
      <4> SUFFICES ASSUME NEW j \in dollars, NEW k \in dollars, (j + 1) \div 4 = (k + 1) \div 4 PROVE j = k
        OBVIOUS
      <4>1. j \in Nat /\ k \in Nat /\ j % 4 = 3 /\ k % 4 = 3
        BY <2>2
      <4> QED
        BY <4>1
    <3>3. IsFiniteSet(1 .. n) /\ Cardinality(1 .. n) = n
      BY FS_Interval
    <3>4. f \in Injection(dollars, 1 .. n)
      BY <3>1, <3>2 DEF Injection, IsInjective
    <3> HIDE DEF f, dollars
    <3> QED
      BY <3>3, <3>4, FS_Injection
  <2>5. Cardinality(nls) \in Nat /\ Cardinality(dollars) \in Nat
    BY <2>3, <2>4, FS_CardinalityType
  <2>6. R!Count(p, "nl") = Cardinality(nls) /\ R!Count(p, "$") = Cardinality(dollars)
    BY SameCount DEF R!Count
  <2> HIDE DEF nls, dollars
  <2> QED
    BY <1>2, <1>3, <2>1, <2>3, <2>4, <2>5, <2>6 DEF R!Complete
<1> QED
  BY <1>4, <1>5

(* There is one descriptor more than clients: one is free.                 *)
LEMMA FreeDescriptor ==
  ASSUME RedisTypes, OneDescriptor
  PROVE  LET fd == R!Min({f \in R!Fds : owner[f] = "free"}) IN fd \in R!Fds /\ owner[fd] = "free"
<1> DEFINE F == {f \in R!Fds : owner[f] = "free"}
<1>1. Cardinality(Clients) \in Nat
  BY ClientsAssumption, FS_CardinalityType
<1>2. IsFiniteSet(R!Fds) /\ Cardinality(R!Fds) = Cardinality(Clients) + 1 /\ R!Fds \subseteq Nat
  BY <1>1, SameCount, FS_Interval DEF R!Fds
<1>3. F # {}
  <2> SUFFICES ASSUME F = {} PROVE FALSE
    OBVIOUS
  <2>1. owner \in [R!Fds -> Clients]
    BY DEF RedisTypes, Anyone
  <2>2. Cardinality(Clients) < Cardinality(R!Fds)
    BY <1>1, <1>2
  <2>4. IsFiniteSet(Clients) /\ IsFiniteSet(R!Fds)
    BY <1>2, ClientsAssumption
  <2>3. PICK a, b \in R!Fds : a # b /\ owner[a] = owner[b]
    BY <2>1, <2>2, <2>4, FS_PigeonHole
  <2> QED
    BY <2>3 DEF OneDescriptor
<1>4. F \subseteq Nat
  BY <1>2
<1>5. \E n \in F : \A m \in F : n <= m
  BY <1>3, <1>4, LeastNatural
<1>6. R!Min(F) \in F
  BY <1>5 DEF R!Min
<1> QED
  BY <1>6

(* The Redis server at its beginning, or ended while another component     *)
(* runs.                                                                   *)
LEMMA RedisStart == R!Init \/ R!Ended => RedisInv
<1> SUFFICES ASSUME NEW running \in BOOLEAN, R!Server(running) PROVE RedisInv
  BY DEF R!Init, R!Ended
<1>1. RedisTypes
  BY DEF R!Server, RedisTypes, Anyone, R!Free
<1>2. OneDescriptor /\ Conversations
  BY DEF R!Server, OneDescriptor, Conversations, R!Free
<1>3. \A c \in Clients : Stream(c)
  BY DEF R!Server, Stream, Delivered
<1> QED
  BY <1>1, <1>2, <1>3 DEF RedisInv

Alone(c, f) ==
  /\ \A e \in R!Fds : e # f => owner[e] # c /\ owner'[e] = owner[e]
  /\ \A e \in R!Fds \cap DOMAIN socketInfo : e # f => e \in DOMAIN socketInfo' /\ socketInfo'[e] = socketInfo[e]
  /\ \A d \in Clients : d # c => /\ toServer'[d] = toServer[d] /\ toClient'[d] = toClient[d]
                                 /\ asked'[d] = asked[d] /\ got'[d] = got[d]

(* What one client does, or is done for it, concerns nobody else.          *)
LEMMA RedisFrame ==
  ASSUME RedisInv, NEW c \in Clients, NEW f \in R!Fds, Alone(c, f), RedisTypes', Stream(c)',
         owner'[f] \in {"free", c},
         owner'[f] = c => f \in DOMAIN socketInfo' /\ \E info : info = socketInfo'[f] /\ Talks(c, info)'
  PROVE  RedisInv'
<1>0. c # "free"
  BY ClientsAssumption
<1>1. OneDescriptor'
  BY <1>0 DEF RedisInv, OneDescriptor, Alone
<1>2. ASSUME NEW d \in Clients PROVE Stream(d)'
  <2>1. CASE d = c
    BY <2>1
  <2>2. CASE d # c
    <3>1. toClient'[d] = toClient[d] /\ asked'[d] = asked[d] /\ got'[d] = got[d] /\ Stream(d)
      BY <2>2 DEF Alone, RedisInv
    <3> QED
      BY <3>1 DEF Stream, Delivered
  <2> QED
    BY <2>1, <2>2
<1>3. Conversations'
  <2> SUFFICES ASSUME NEW e \in R!Fds, owner'[e] # "free"
               PROVE  e \in DOMAIN socketInfo' /\ Talks(owner[e], socketInfo[e])'
    BY DEF Conversations
  <2>1. CASE e = f
    <3>1. owner'[e] = c
      BY <2>1
    <3>2. PICK info : info = socketInfo'[e] /\ Talks(c, info)'
      BY <2>1, <3>1
    <3> QED
      BY <2>1, <3>1, <3>2 DEF Talks, Resting, Asking, Answering, Delivered
  <2>2. CASE e # f
    <3> PICK d \in Clients : d = owner[e]
      BY <2>2 DEF RedisInv, RedisTypes, Anyone, Alone
    <3>1. d # c /\ owner'[e] = d /\ d # "free"
      BY <2>2 DEF Alone
    <3>2. e \in DOMAIN socketInfo /\ Talks(d, socketInfo[e])
      BY <3>1 DEF RedisInv, Conversations
    <3>3. e \in DOMAIN socketInfo' /\ socketInfo'[e] = socketInfo[e]
      BY <2>2, <3>2 DEF Alone
    <3>4. toServer'[d] = toServer[d] /\ toClient'[d] = toClient[d] /\ asked'[d] = asked[d] /\ got'[d] = got[d]
      BY <3>1 DEF Alone
    <3> QED
      BY <3>1, <3>2, <3>3, <3>4 DEF Talks, Resting, Asking, Answering, Delivered
  <2> QED
    BY <2>1, <2>2
<1> QED
  BY <1>1, <1>2, <1>3 DEF RedisInv

(* One step per action of the poll loop and the clients.                   *)
LEMMA RedisStep == RedisInv /\ R!Next => RedisInv'
<1> SUFFICES ASSUME RedisInv, R!Next PROVE RedisInv'
  OBVIOUS
<1>0. /\ RedisTypes /\ OneDescriptor /\ (\A c \in Clients : Stream(c)) /\ Conversations
      /\ \A c \in Clients : c # "free"
  BY ClientsAssumption DEF RedisInv
<1>1. ASSUME NEW c \in Clients
      PROVE  /\ got[c] \in Seq(ReplyParts) /\ toClient[c] \in Seq(ReplyParts)
             /\ asked[c] \in Seq(Requests) /\ toServer[c] \in Seq(Tokens)
             /\ Len(got[c]) \in Nat /\ Len(toClient[c]) \in Nat /\ Len(asked[c]) \in Nat
  BY <1>0 DEF RedisTypes
<1>2. ASSUME NEW f \in R!Fds, NEW info \in Info
      PROVE  /\ DOMAIN R!With(f, info) = DOMAIN socketInfo \cup {f}
             /\ R!With(f, info)[f] = info
             /\ \A e \in DOMAIN socketInfo : e # f => R!With(f, info)[e] = socketInfo[e]
             /\ DOMAIN R!With(f, info) \subseteq R!Fds
             /\ R!With(f, info) \in [DOMAIN R!With(f, info) -> Info]
  BY <1>0 DEF R!With, RedisTypes
<1>3. ASSUME NEW t \in Seq(Tokens) PROVE R!Reading(t) \in Info
  BY DEF R!Reading, Info
<1>4. ASSUME NEW c \in Clients, R!Accept(c) PROVE RedisInv'
  <2>1. PICK f : f = R!Min({e \in R!Fds : owner[e] = "free"})
    OBVIOUS
  <2>2. f \in R!Fds /\ owner[f] = "free"
    BY <1>0, <2>1, FreeDescriptor
  <2>3. R!Reading(<<>>) \in Info
    <3> <<>> \in Seq(Tokens)
      OBVIOUS
    <3> QED
      BY <1>3
  <2>4. /\ socketInfo' = R!With(f, R!Reading(<<>>))
        /\ owner' = [owner EXCEPT ![f] = c] \/ owner' = owner
        /\ asked' = [asked EXCEPT ![c] = <<>>] /\ got' = [got EXCEPT ![c] = <<>>]
        /\ toServer' = [toServer EXCEPT ![c] = <<>>] /\ toClient' = [toClient EXCEPT ![c] = <<>>]
        /\ \A e \in R!Fds : owner[e] # c
    BY <1>4, <2>1 DEF R!Accept, R!Free, R!Open
  <2>11. /\ f \in DOMAIN socketInfo' /\ socketInfo'[f] = R!Reading(<<>>)
         /\ \A e \in DOMAIN socketInfo : e # f => e \in DOMAIN socketInfo' /\ socketInfo'[e] = socketInfo[e]
         /\ DOMAIN socketInfo' \subseteq R!Fds /\ socketInfo' \in [DOMAIN socketInfo' -> Info]
    <3>1. PICK info \in Info : info = R!Reading(<<>>)
      BY <2>3
    <3>2. socketInfo' = R!With(f, info)
      BY <2>4, <3>1
    <3> QED
      BY <1>2, <2>2, <3>1, <3>2
  <2>12. /\ owner' \in [R!Fds -> Anyone] /\ owner'[f] \in {"free", c}
         /\ \A e \in R!Fds : e # f => owner'[e] = owner[e]
    BY <1>0, <2>2, <2>4 DEF RedisTypes, Anyone
  <2>5. RedisTypes'
    BY <1>0, <2>4, <2>11, <2>12 DEF RedisTypes
  <2>6. Alone(c, f)
    BY <1>0, <2>4, <2>11, <2>12 DEF RedisTypes, Alone
  <2>7. asked'[c] = <<>> /\ got'[c] = <<>> /\ toServer'[c] = <<>> /\ toClient'[c] = <<>>
    BY <1>0, <2>4 DEF RedisTypes
  <2>8. Stream(c)'
    BY <2>7 DEF Stream, Delivered
  <2>9. Talks(c, R!Reading(<<>>))'
    BY <2>7 DEF Talks, Resting, Delivered, R!Reading
  <2> QED
    BY <2>2, <2>5, <2>6, <2>8, <2>9, <2>11, <2>12, RedisFrame
<1>5. ASSUME NEW c \in Clients, R!Open(c),
             UNCHANGED <<socketInfo, owner>>, RedisTypes', Stream(c)',
             \A d \in Clients : d # c => /\ toServer'[d] = toServer[d] /\ toClient'[d] = toClient[d]
                                         /\ asked'[d] = asked[d] /\ got'[d] = got[d],
             \A f \in R!Fds : owner[f] = c => Talks(c, socketInfo[f])'
      PROVE  RedisInv'
  <2>1. PICK f \in R!Fds : owner[f] = c
    BY <1>5 DEF R!Open
  <2>2. Alone(c, f)
    BY <1>0, <1>5, <2>1 DEF Alone, OneDescriptor
  <2>3. f \in DOMAIN socketInfo'
    BY <1>0, <1>5, <2>1 DEF Conversations
  <2>4. PICK info : info = socketInfo'[f]
    OBVIOUS
  <2>5. Talks(c, info)'
    BY <1>5, <2>1, <2>4
  <2> QED
    BY <1>5, <2>1, <2>2, <2>3, <2>4, <2>5, RedisFrame
<1>6. ASSUME NEW c \in Clients, NEW f \in R!Fds, owner[f] = c
      PROVE  f \in DOMAIN socketInfo /\ socketInfo[f] \in Info /\ Talks(c, socketInfo[f])
  BY <1>0, <1>6 DEF Conversations, RedisTypes
<1>7. ASSUME NEW c \in Clients, R!Leave(c) PROVE RedisInv'
  <2>1. /\ R!Open(c) /\ toServer' = [toServer EXCEPT ![c] = <<"closed">>]
        /\ UNCHANGED <<socketInfo, owner, toClient, asked, got>>
    BY <1>7 DEF R!Leave
  <2>2. <<"closed">> \in Seq(Tokens)
    BY DEF Tokens
  <2>3. RedisTypes'
    BY <1>0, <2>1, <2>2 DEF RedisTypes
  <2>4. toServer'[c] = <<"closed">> /\ \A d \in Clients : d # c => toServer'[d] = toServer[d]
    BY <1>0, <2>1 DEF RedisTypes
  <2>5. Stream(c)'
    BY <1>0, <2>1 DEF Stream, Delivered
  <2>6. \A f \in R!Fds : Talks(c, socketInfo[f])'
    BY <2>4 DEF Talks
  <2> QED
    BY <1>5, <2>1, <2>3, <2>4, <2>5, <2>6
<1>8. ASSUME NEW c \in Clients, R!Receive(c) PROVE RedisInv'
  <2>1. /\ R!Open(c) /\ toClient[c] # <<>>
        /\ got' = [got EXCEPT ![c] = Append(@, Head(toClient[c]))]
        /\ toClient' = [toClient EXCEPT ![c] = Tail(@)]
        /\ UNCHANGED <<socketInfo, owner, toServer, asked>>
    BY <1>8 DEF R!Receive
  <2>2. PICK g, t : g = got[c] /\ t = toClient[c]
    OBVIOUS
  <2>3. g \in Seq(ReplyParts) /\ t \in Seq(ReplyParts) /\ t # <<>> /\ Head(t) \in ReplyParts
    BY <1>1, <2>1, <2>2
  <2>4. /\ got'[c] = Append(g, Head(t)) /\ toClient'[c] = Tail(t)
        /\ \A d \in Clients : d # c => got'[d] = got[d] /\ toClient'[d] = toClient[d]
    BY <1>0, <2>1, <2>2 DEF RedisTypes
  <2>5. Append(g, Head(t)) \in Seq(ReplyParts) /\ Tail(t) \in Seq(ReplyParts)
    BY <2>3
  <2>6. RedisTypes'
    BY <1>0, <2>1, <2>2, <2>5 DEF RedisTypes
  <2>7. PICK x, y \in Nat : x = Len(g) /\ y = Len(t) /\ y > 0
    BY <2>3
  <2>8. Len(Append(g, Head(t))) = x + 1 /\ Len(Tail(t)) = y - 1
    BY <2>3, <2>7
  <2>9. Delivered(c)' = Delivered(c)
    <3>1. Delivered(c) = x + y
      BY <2>2, <2>7 DEF Delivered
    <3>2. Delivered(c)' = (x + 1) + (y - 1)
      BY <2>4, <2>8 DEF Delivered
    <3> QED
      BY <2>7, <3>1, <3>2
  <2>10. Stream(c)'
    <3>1. /\ Delivered(c) <= 2 * Len(asked[c])
          /\ \A n \in 1 .. x : g[n] = R!Reply(c, n)
          /\ \A n \in 1 .. y : t[n] = R!Reply(c, x + n)
      BY <1>0, <2>2, <2>7 DEF Stream
    <3>2. \A n \in 1 .. x + 1 : Append(g, Head(t))[n] = R!Reply(c, n)
      <4> TAKE n \in 1 .. x + 1
      <4>1. CASE n \in 1 .. x
        BY <2>3, <2>7, <3>1, <4>1
      <4>2. CASE n = x + 1
        <5>1. Append(g, Head(t))[n] = t[1]
          BY <2>3, <2>7, <4>2
        <5>2. 1 \in 1 .. y
          BY <2>7
        <5> QED
          BY <3>1, <4>2, <5>1, <5>2
      <4> QED
        BY <2>7, <4>1, <4>2
    <3>3. \A n \in 1 .. y - 1 : Tail(t)[n] = R!Reply(c, x + 1 + n)
      <4> TAKE n \in 1 .. y - 1
      <4>1. Tail(t)[n] = t[n + 1]
        BY <2>3, <2>7, <2>8
      <4>2. n + 1 \in 1 .. y /\ x + (n + 1) = x + 1 + n
        BY <2>7
      <4> QED
        BY <3>1, <4>1, <4>2
    <3> QED
      BY <2>1, <2>4, <2>8, <2>9, <3>1, <3>2, <3>3 DEF Stream
  <2>11. \A f \in R!Fds : owner[f] = c => Talks(c, socketInfo[f])'
    BY <1>6, <2>1, <2>9 DEF Talks, Resting, Asking, Answering
  <2> QED
    BY <1>5, <2>1, <2>4, <2>6, <2>10, <2>11
<1>9. ASSUME NEW c \in Clients, NEW n \in Requests, R!Ask(c, n) PROVE RedisInv'
  <2>1. /\ R!Open(c) /\ Len(got[c]) = 2 * Len(asked[c]) /\ toServer[c] = <<>> /\ toClient[c] = <<>>
        /\ asked' = [asked EXCEPT ![c] = Append(@, n)]
        /\ toServer' = [toServer EXCEPT ![c] = R!RequestText(n)]
        /\ UNCHANGED <<socketInfo, owner, toClient, got>>
    BY <1>9 DEF R!Ask, R!Answered
  <2>2. n \in Nat /\ R!RequestText(n) \in Seq(Tokens)
    BY RequestsAssumption, TextShape
  <2>3. PICK a \in Seq(Requests) : a = asked[c]
    BY <1>1
  <2>4. /\ Append(a, n) \in Seq(Requests) /\ Append(a, n) # <<>> /\ Append(a, n)[Len(a) + 1] = n
        /\ Len(Append(a, n)) = Len(a) + 1 /\ Len(a) \in Nat
    BY <2>3
  <2>5. /\ asked'[c] = Append(a, n) /\ toServer'[c] = R!RequestText(n) /\ got'[c] = got[c] /\ toClient'[c] = <<>>
        /\ \A d \in Clients : d # c => asked'[d] = asked[d] /\ toServer'[d] = toServer[d]
    BY <1>0, <2>1, <2>3 DEF RedisTypes
  <2>6. RedisTypes'
    BY <1>0, <2>1, <2>2, <2>3, <2>4 DEF RedisTypes
  <2>7. Delivered(c) = 2 * Len(a) /\ Delivered(c)' = 2 * Len(a)
    <3>1. Len(toClient[c]) = 0 /\ Len(toClient'[c]) = 0 /\ Len(got'[c]) = Len(got[c])
      BY <2>1, <2>5
    <3>2. Len(got[c]) \in Nat /\ Len(got[c]) = 2 * Len(a)
      BY <1>1, <2>1, <2>3
    <3> QED
      BY <3>1, <3>2 DEF Delivered
  <2>8. Delivered(c)' <= 2 * (Len(a) + 1) /\ Delivered(c)' = 2 * (Len(a) + 1) - 2
    BY <2>4, <2>7
  <2>9. Stream(c)'
    BY <1>0, <2>1, <2>4, <2>5, <2>8 DEF Stream
  <2>10. ASSUME NEW f \in R!Fds, owner[f] = c PROVE Talks(c, socketInfo[f])'
    <3>1. PICK info \in Info : info = socketInfo[f]
      BY <1>6, <2>10
    <3>2. toServer[c] # <<"closed">>
      BY <2>1
    <3>3. Resting(c, info) \/ Asking(c, info) \/ Answering(c, info)
      BY <1>6, <2>10, <3>1, <3>2 DEF Talks
    <3>4. ~Asking(c, info) /\ ~Answering(c, info)
      <4>1. PICK x \in Nat : x = Len(asked[c])
        BY <1>1
      <4>2. Delivered(c) = 2 * x
        BY <2>3, <2>7, <4>1
      <4>3. 2 * x # 2 * x - 2 /\ 2 * x # 2 * x - 1
        BY <4>1
      <4> QED
        BY <4>1, <4>2, <4>3 DEF Asking, Answering
    <3>5. info.event = "POLLIN" /\ info.text \o <<>> = <<>> /\ info.text \in Seq(Tokens)
      BY <2>1, <3>1, <3>3, <3>4 DEF Resting, Info
    <3>6. info.text = <<>>
      BY <3>5, ConcatEmptySeq
    <3>7. info.text \o R!RequestText(n) = R!RequestText(n)
      BY <2>2, <3>6, ConcatEmptySeq
    <3>8. Asking(c, info)'
      BY <2>4, <2>5, <2>8, <3>5, <3>7 DEF Asking
    <3>9. socketInfo'[f] = info
      BY <2>1, <3>1
    <3> QED
      BY <3>8, <3>9 DEF Talks, Asking
  <2> QED
    BY <1>5, <2>1, <2>5, <2>6, <2>9, <2>10
<1>10. ASSUME owner' = [f \in R!Fds |-> "free"], UNCHANGED <<socketInfo, toServer, toClient, asked, got>>
       PROVE  RedisInv'
  <2>1. RedisTypes'
    BY <1>0, <1>10 DEF RedisTypes, Anyone
  <2>2. OneDescriptor' /\ Conversations'
    BY <1>10 DEF OneDescriptor, Conversations
  <2>3. \A c \in Clients : Stream(c)'
    BY <1>0, <1>10 DEF Stream, Delivered
  <2> QED
    BY <2>1, <2>2, <2>3 DEF RedisInv
<1>11. ASSUME NEW f \in R!Fds, NEW c \in Clients, owner[f] = c, NEW info \in Info, socketInfo' = R!With(f, info),
              owner' = owner, RedisTypes',
              \A d \in Clients : d # c => /\ toServer'[d] = toServer[d] /\ toClient'[d] = toClient[d]
                                          /\ asked'[d] = asked[d] /\ got'[d] = got[d],
              Stream(c)', Talks(c, info)'
       PROVE  RedisInv'
  <2>1. /\ f \in DOMAIN socketInfo' /\ socketInfo'[f] = info
        /\ \A e \in DOMAIN socketInfo : e # f => e \in DOMAIN socketInfo' /\ socketInfo'[e] = socketInfo[e]
    BY <1>2, <1>11
  <2>3. Alone(c, f)
    BY <1>0, <1>11, <2>1 DEF Alone, OneDescriptor
  <2> QED
    BY <1>11, <2>1, <2>3, RedisFrame
<1>12. ASSUME NEW f \in R!Fds, R!readRequest(f) PROVE RedisInv'
  <2>1. PICK c \in Clients : c = owner[f]
    BY <1>0, <1>12 DEF R!readRequest, R!Free, RedisTypes, Anyone
  <2>2. PICK info \in Info : info = socketInfo[f] /\ Talks(c, info) /\ info.event = "POLLIN" /\ f \in DOMAIN socketInfo
    BY <1>6, <1>12, <2>1 DEF R!readRequest
  <2>3. UNCHANGED <<toClient, asked, got>>
    BY <1>12 DEF R!readRequest
  <2>4. Stream(c)' /\ Delivered(c)' = Delivered(c)
    BY <1>0, <2>3 DEF Stream, Delivered
  <2>5. CASE toServer[c] = <<"closed">>
    <3>1. owner' = [owner EXCEPT ![f] = "free"] /\ socketInfo' = R!Without(f) /\ UNCHANGED toServer
      BY <1>12, <2>1, <2>5 DEF R!readRequest, R!Free
    <3>2. RedisTypes'
      BY <1>0, <2>3, <3>1 DEF RedisTypes, R!Without, Anyone
    <3>3. Alone(c, f) /\ owner'[f] = "free"
      BY <1>0, <2>1, <2>3, <3>1 DEF RedisTypes, R!Without, Alone, OneDescriptor
    <3> QED
      BY <1>0, <2>4, <3>2, <3>3, RedisFrame
  <2>6. CASE toServer[c] # <<"closed">>
    <3>1. PICK s \in Seq(Tokens) : s = toServer[c] /\ s # <<>>
      BY <1>1, <1>12, <2>1 DEF R!readRequest
    <3>2. PICK t \in Seq(Tokens) : t = info.text
      BY DEF Info
    <3>3. Asking(c, info)
      <4>1. t \o s # <<>>
        BY <3>1, <3>2
      <4>2. ~Resting(c, info)
        BY <3>1, <3>2, <4>1 DEF Resting
      <4>3. ~Answering(c, info)
        BY <2>2 DEF Answering
      <4> QED
        BY <2>2, <2>6, <4>2, <4>3 DEF Talks
    <3>4. PICK number \in Nat, n \in Nat : number = Len(asked[c]) /\ n = asked[c][number] /\ asked[c] # <<>>
      <4>1. asked[c] \in Seq(Requests) /\ asked[c] # <<>>
        BY <1>1, <3>3 DEF Asking
      <4>2. asked[c][Len(asked[c])] \in Requests /\ Len(asked[c]) \in Nat
        BY <4>1
      <4> QED
        BY <4>1, <4>2, RequestsAssumption
    <3>5. t \o s = R!RequestText(n) /\ Delivered(c) = 2 * number - 2
      BY <3>1, <3>2, <3>3, <3>4 DEF Asking
    <3>6. PICK k \in 1 .. Len(s) :
            /\ toServer' = [toServer EXCEPT ![c] = SubSeq(s, k + 1, Len(s))]
            /\ socketInfo' = R!With(f, IF R!Complete(t \o SubSeq(s, 1, k), n)
                                         THEN [event |-> "POLLOUT", text |-> <<>>, response |-> R!Parts(c, number), left |-> 2]
                                         ELSE R!Reading(t \o SubSeq(s, 1, k)))
            /\ UNCHANGED owner
      BY <1>12, <2>1, <2>2, <2>6, <3>1, <3>2, <3>4 DEF R!readRequest
    <3>7. PICK text, rest : text = t \o SubSeq(s, 1, k) /\ rest = SubSeq(s, k + 1, Len(s))
      OBVIOUS
    <3>8. /\ text \in Seq(Tokens) /\ rest \in Seq(Tokens) /\ text \o rest = R!RequestText(n)
          /\ text = SubSeq(R!RequestText(n), 1, Len(t) + k)
          /\ Len(t) + k \in 1 .. Len(R!RequestText(n))
          /\ Len(t) + k = Len(R!RequestText(n)) => rest = <<>>
      <4>1. s \in Seq(Tokens) /\ t \in Seq(Tokens) /\ k \in 1 .. Len(s)
        BY <3>1, <3>2, <3>6
      <4>2. CutOff(t, s, k)
        BY <4>1, CutWhole
      <4> QED
        BY <3>5, <3>7, <4>2 DEF CutOff
    <3>9. toServer'[c] = rest /\ toServer' \in [Clients -> Seq(Tokens)] /\ \A d \in Clients : d # c => toServer'[d] = toServer[d]
      BY <1>0, <3>6, <3>7, <3>8 DEF RedisTypes
    <3>10. CASE R!Complete(text, n)
      <4>1. rest = <<>>
        BY <3>8, <3>10, CompleteWhole
      <4>2. PICK new : new = [event |-> "POLLOUT", text |-> <<>>, response |-> R!Parts(c, number), left |-> 2]
        OBVIOUS
      <4>3. socketInfo' = R!With(f, new)
        BY <3>6, <3>7, <3>10, <4>2
      <4>4. R!Parts(c, number) \in Seq(ReplyParts)
        BY <3>4 DEF R!Parts, ReplyParts
      <4>5. new \in Info
        BY <4>2, <4>4 DEF Info
      <4>6. Answering(c, new)'
        BY <2>3, <2>4, <3>4, <3>5, <3>9, <4>1, <4>2 DEF Answering
      <4>7. Talks(c, new)'
        BY <4>6 DEF Talks
      <4>8. /\ f \in DOMAIN socketInfo' /\ DOMAIN socketInfo' \subseteq R!Fds /\ socketInfo' \in [DOMAIN socketInfo' -> Info]
        BY <1>2, <4>3, <4>5
      <4>9. RedisTypes'
        BY <1>0, <2>3, <3>6, <3>9, <4>8 DEF RedisTypes
      <4> QED
        BY <1>11, <2>1, <2>3, <2>4, <3>6, <3>9, <4>3, <4>5, <4>7, <4>9
    <3>11. CASE ~R!Complete(text, n)
      <4>2. PICK new : new = R!Reading(text)
        OBVIOUS
      <4>3. socketInfo' = R!With(f, new)
        BY <3>6, <3>7, <3>11, <4>2
      <4>5. new \in Info
        BY <1>3, <3>8, <4>2
      <4>6. Asking(c, new)'
        <5>1. new.event = "POLLIN" /\ new.text = text
          BY <4>2 DEF R!Reading
        <5> QED
          BY <2>3, <2>4, <3>4, <3>5, <3>8, <3>9, <5>1 DEF Asking
      <4>7. Talks(c, new)'
        BY <4>6 DEF Talks
      <4>8. /\ f \in DOMAIN socketInfo' /\ DOMAIN socketInfo' \subseteq R!Fds /\ socketInfo' \in [DOMAIN socketInfo' -> Info]
        BY <1>2, <4>3, <4>5
      <4>9. RedisTypes'
        BY <1>0, <2>3, <3>6, <3>9, <4>8 DEF RedisTypes
      <4> QED
        BY <1>11, <2>1, <2>3, <2>4, <3>6, <3>9, <4>3, <4>5, <4>7, <4>9
    <3> QED
      BY <3>10, <3>11
  <2> QED
    BY <2>5, <2>6
<1>13. ASSUME NEW f \in R!Fds, R!sendResponse(f) PROVE RedisInv'
  <2>1. PICK c \in Clients : c = owner[f]
    BY <1>0, <1>13 DEF R!sendResponse, R!Free, RedisTypes, Anyone
  <2>2. PICK info \in Info : info = socketInfo[f] /\ Talks(c, info) /\ info.event = "POLLOUT" /\ f \in DOMAIN socketInfo
    BY <1>6, <1>13, <2>1 DEF R!sendResponse
  <2>3. UNCHANGED <<toServer, asked, got>>
    BY <1>13 DEF R!sendResponse
  <2>4. <<>> \in Seq(Tokens) /\ R!Reading(<<>>) \in Info
    <3> <<>> \in Seq(Tokens)
      OBVIOUS
    <3> QED
      BY <1>3
  <2>5. CASE owner' = [e \in R!Fds |-> "free"] /\ UNCHANGED <<socketInfo, toClient>>
    BY <1>10, <2>3, <2>5
  <2>6. ASSUME NEW new \in Info, socketInfo' = R!With(f, new), UNCHANGED owner,
               toClient' \in [Clients -> Seq(ReplyParts)],
               \A d \in Clients : d # c => toClient'[d] = toClient[d],
               Stream(c)', Talks(c, new)'
        PROVE  RedisInv'
    <3>1. f \in DOMAIN socketInfo' /\ DOMAIN socketInfo' \subseteq R!Fds /\ socketInfo' \in [DOMAIN socketInfo' -> Info]
      BY <1>2, <2>6
    <3>2. RedisTypes'
      BY <1>0, <2>3, <2>6, <3>1 DEF RedisTypes
    <3> QED
      BY <1>11, <2>1, <2>3, <2>6, <3>2
  <2>7. CASE toServer[c] = <<"closed">> /\ ~(owner' = [e \in R!Fds |-> "free"] /\ UNCHANGED <<socketInfo, toClient>>)
    <3>1. PICK new \in Info : socketInfo' = R!With(f, new) /\ UNCHANGED owner
      <4>1. CASE socketInfo' = R!With(f, R!Reading(<<>>)) /\ UNCHANGED owner
        BY <2>4, <4>1
      <4>2. CASE \E sent \in 1 .. info.left : socketInfo' = R!With(f, [info EXCEPT !.left = @ - sent]) /\ UNCHANGED owner
        <5> PICK sent \in 1 .. info.left : socketInfo' = R!With(f, [info EXCEPT !.left = @ - sent]) /\ UNCHANGED owner
          BY <4>2
        <5>1. [info EXCEPT !.left = @ - sent] \in Info
          BY <2>2 DEF Info
        <5> QED
          BY <5>1
      <4> QED
        BY <1>13, <2>1, <2>2, <2>7, <4>1, <4>2 DEF R!sendResponse, R!Free
    <3>2. UNCHANGED toClient
      <4>1. \/ UNCHANGED toClient
            \/ toClient' = [toClient EXCEPT ![c] = @]
        BY <1>13, <2>1, <2>7 DEF R!sendResponse
      <4> QED
        BY <1>0, <4>1 DEF RedisTypes
    <3>3. Stream(c)' /\ Talks(c, new)'
      BY <1>0, <2>3, <2>7, <3>2 DEF Stream, Delivered, Talks
    <3>4. toClient' \in [Clients -> Seq(ReplyParts)]
      BY <1>0, <3>2 DEF RedisTypes
    <3> QED
      BY <2>6, <3>1, <3>2, <3>3, <3>4
  <2>8. CASE toServer[c] # <<"closed">>
    <3>1. Answering(c, info)
      BY <2>2, <2>8 DEF Talks, Resting, Asking
    <3>2. PICK a \in Nat : a = Len(asked[c])
      BY <1>1
    <3>3. /\ info.response = <<<<c, a, 1>>, <<c, a, 2>>>> /\ info.left \in {1, 2} /\ toServer[c] = <<>>
          /\ Delivered(c) = 2 * a - info.left
      BY <3>1, <3>2 DEF Answering, R!Parts
    <3>4. PICK sent \in 1 .. info.left :
            /\ toClient' = [toClient EXCEPT ![c] = @ \o SubSeq(R!Rest(info), 1, sent)]
            /\ socketInfo' = R!With(f, IF sent = info.left THEN R!Reading(<<>>) ELSE [info EXCEPT !.left = @ - sent])
            /\ UNCHANGED owner
      BY <1>13, <2>1, <2>2, <2>8 DEF R!sendResponse
    <3>15. sent \in {1, 2} /\ sent <= info.left
      BY <3>3, <3>4
    <3>5. PICK new : new = IF sent = info.left THEN R!Reading(<<>>) ELSE [info EXCEPT !.left = @ - sent]
      OBVIOUS
    <3>6. PICK p : p = SubSeq(R!Rest(info), 1, sent)
      OBVIOUS
    <3>7. /\ p \in Seq(ReplyParts) /\ Len(p) = sent
          /\ \A j \in 1 .. sent : p[j] = R!Reply(c, Delivered(c) + j)
      <4>1. <<c, a, 1>> \in ReplyParts /\ <<c, a, 2>> \in ReplyParts
        BY DEF ReplyParts
      <4>7. PICK b \in Nat : a = b + 1
        <5>1. asked[c] \in Seq(Requests) /\ asked[c] # <<>>
          BY <1>1, <3>1 DEF Answering
        <5>2. Len(asked[c]) # 0
          BY <5>1
        <5>3. a - 1 \in Nat /\ a = (a - 1) + 1
          BY <3>2, <5>2
        <5> QED
          BY <5>3
      <4>2. /\ (2 * a - 2 + 1 + 1) \div 2 = a /\ (2 * a - 2 + 1) % 2 = 1
            /\ (2 * a - 2 + 2 + 1) \div 2 = a /\ (2 * a - 2 + 2) % 2 # 1
            /\ (2 * a - 1 + 1 + 1) \div 2 = a /\ (2 * a - 1 + 1) % 2 # 1
        BY <4>7
      <4>3. /\ R!Reply(c, 2 * a - 2 + 1) = <<c, a, 1>> /\ R!Reply(c, 2 * a - 2 + 2) = <<c, a, 2>>
            /\ R!Reply(c, 2 * a - 1 + 1) = <<c, a, 2>>
        BY <4>2 DEF R!Reply, R!Parts
      <4>4. PICK q \in Seq(ReplyParts) : q = info.response /\ Len(q) = 2 /\ q[1] = <<c, a, 1>> /\ q[2] = <<c, a, 2>>
        <5>1. info.response \in Seq(ReplyParts)
          BY <2>2 DEF Info
        <5>2. PICK u, v : u = <<c, a, 1>> /\ v = <<c, a, 2>>
          OBVIOUS
        <5>3. info.response = <<u, v>>
          BY <3>3, <5>2
        <5>4. Len(info.response) = 2 /\ info.response[1] = u /\ info.response[2] = v
          BY <5>3
        <5> QED
          BY <5>1, <5>2, <5>4
      <4>5. /\ p \in Seq(ReplyParts) /\ Len(p) = sent
            /\ \A j \in 1 .. sent : p[j] = q[2 - info.left + j]
        <5>1. PICK left \in {1, 2} : left = info.left /\ sent \in 1 .. left
          BY <3>3, <3>4
        <5>2. p = SubSeq(SubSeq(q, 2 - left + 1, 2), 1, sent)
          BY <3>6, <4>4, <5>1 DEF R!Rest
        <5> QED
          BY <4>4, <5>1, <5>2, RestCut
      <4>6. ASSUME NEW j \in 1 .. sent PROVE p[j] = R!Reply(c, Delivered(c) + j)
        <5>1. CASE info.left = 1
          <6>1. j = 1 /\ 2 - info.left + j = 2 /\ Delivered(c) + j = 2 * a - 1 + 1
            BY <3>2, <3>3, <3>15, <5>1
          <6> QED
            BY <4>3, <4>4, <4>5, <6>1
        <5>2. CASE info.left = 2 /\ j = 1
          <6>1. 2 - info.left + j = 1 /\ Delivered(c) + j = 2 * a - 2 + 1
            BY <3>2, <3>3, <5>2
          <6> QED
            BY <4>3, <4>4, <4>5, <5>2, <6>1
        <5>3. CASE info.left = 2 /\ j = 2
          <6>1. 2 - info.left + j = 2 /\ Delivered(c) + j = 2 * a - 2 + 2
            BY <3>2, <3>3, <5>3
          <6> QED
            BY <4>3, <4>4, <4>5, <5>3, <6>1
        <5> QED
          BY <3>3, <3>15, <5>1, <5>2, <5>3
      <4> QED
        BY <4>5, <4>6
    <3>8. PICK t \in Seq(ReplyParts) : t = toClient[c]
      BY <1>1
    <3>9. PICK x, y \in Nat : x = Len(got[c]) /\ y = Len(t) /\ Delivered(c) = x + y
      BY <1>1, <3>8 DEF Delivered
    <3>10. /\ t \o p \in Seq(ReplyParts) /\ Len(t \o p) = y + sent
           /\ \A j \in 1 .. y + sent : (t \o p)[j] = IF j <= y THEN t[j] ELSE p[j - y]
      <4>1. /\ t \o p \in Seq(ReplyParts) /\ Len(t \o p) = Len(t) + Len(p)
            /\ \A j \in 1 .. Len(t) + Len(p) : (t \o p)[j] = IF j <= Len(t) THEN t[j] ELSE p[j - Len(t)]
        BY <3>7, <3>8, ConcatProperties
      <4> QED
        BY <3>7, <3>9, <4>1
    <3>11. /\ toClient'[c] = t \o p /\ toClient' \in [Clients -> Seq(ReplyParts)]
           /\ \A d \in Clients : d # c => toClient'[d] = toClient[d]
      BY <1>0, <3>4, <3>6, <3>8, <3>10 DEF RedisTypes
    <3>12. Delivered(c)' = Delivered(c) + sent
      <4>1. Delivered(c)' = x + (y + sent)
        BY <2>3, <3>9, <3>10, <3>11 DEF Delivered
      <4> QED
        BY <3>4, <3>9, <4>1
    <3>13. Stream(c)'
      <4>1. /\ \A n \in 1 .. x : got[c][n] = R!Reply(c, n)
            /\ \A n \in 1 .. y : t[n] = R!Reply(c, x + n)
        BY <1>0, <3>8, <3>9 DEF Stream
      <4>2. \A n \in 1 .. y + sent : (t \o p)[n] = R!Reply(c, x + n)
        <5> TAKE n \in 1 .. y + sent
        <5>1. CASE n <= y
          BY <3>9, <3>10, <4>1, <5>1
        <5>2. CASE n > y
          <6>1. n - y \in 1 .. sent /\ x + y + (n - y) = x + n /\ ~(n <= y)
            BY <3>9, <3>15, <5>2
          <6>2. (t \o p)[n] = p[n - y] /\ p[n - y] = R!Reply(c, x + y + (n - y))
            BY <3>7, <3>9, <3>10, <6>1
          <6> QED
            BY <6>1, <6>2
        <5>3. n <= y \/ n > y
          BY <3>9, <3>15
        <5> QED
          BY <5>1, <5>2, <5>3
      <4>3. Delivered(c)' <= 2 * Len(asked'[c])
        BY <2>3, <3>2, <3>3, <3>15, <3>12
      <4> QED
        BY <2>3, <3>9, <3>10, <3>11, <4>1, <4>2, <4>3 DEF Stream
    <3>14. new \in Info /\ Talks(c, new)'
      <4>1. CASE sent = info.left
        <5>1. new = R!Reading(<<>>) /\ new.event = "POLLIN" /\ new.text = <<>>
          BY <3>5, <4>1 DEF R!Reading
        <5>2. new.text \o toServer'[c] = <<>>
          BY <2>3, <3>3, <5>1
        <5>3. Delivered(c)' = 2 * Len(asked'[c])
          BY <2>3, <3>2, <3>3, <3>12, <4>1
        <5> QED
          BY <2>4, <5>1, <5>2, <5>3 DEF Talks, Resting
      <4>2. CASE sent # info.left
        <5>1. info.left = 2 /\ sent = 1
          BY <3>3, <3>4, <4>2
        <5>2. /\ new \in Info /\ new.event = "POLLOUT" /\ new.text = info.text /\ new.response = info.response
              /\ new.left = 1
          BY <2>2, <3>5, <5>1 DEF Info
        <5>3. Delivered(c)' = 2 * Len(asked'[c]) - 1
          BY <2>3, <3>2, <3>3, <3>12, <5>1
        <5> QED
          BY <2>3, <3>1, <5>2, <5>3 DEF Talks, Answering
      <4> QED
        BY <4>1, <4>2
    <3> QED
      BY <2>6, <3>4, <3>5, <3>11, <3>13, <3>14
  <2> QED
    BY <2>5, <2>7, <2>8
<1>14. CASE R!closeSockets
  BY <1>10, <1>14 DEF R!closeSockets, R!Free
<1> QED
  BY <1>4, <1>7, <1>8, <1>9, <1>12, <1>13, <1>14 DEF R!Next, R!Serve

(* Steps of the other components leave the Redis server alone.             *)
LEMMA RedisAlways == Spec => []RedisInv
<1>1. Init => RedisInv
  BY RedisStart DEF Init
<1>2. RedisInv /\ [Next]_all => RedisInv'
  <2> SUFFICES ASSUME RedisInv, [Next]_all PROVE RedisInv'
    OBVIOUS
  <2>1. CASE R!Next
    BY <2>1, RedisStep
  <2>2. CASE UNCHANGED redis
    BY <2>2 DEF redis, RedisInv, RedisTypes, OneDescriptor, Stream, Delivered, Conversations, Talks, Resting, Asking,
                Answering
  <2> QED
    BY <2>1, <2>2 DEF Next, all
<1> QED
  BY <1>1, <1>2, PTL DEF Spec

-----------------------------------------------------------------------------
(* redis.hpp and http-server.cpp: however requests are cut up on the way,  *)
(* connections come and go and descriptors are used again, a client of the *)
(* Redis server gets the replies to its own requests, in order, whole and  *)
(* once, over a descriptor that is waited on; and a browser gets the one   *)
(* response to its own request.                                            *)
THEOREM RepliesAreRight == Spec => []RepliesRight
<1>1. RedisInv => R!RepliesInOrder
  <2> SUFFICES ASSUME RedisInv, NEW c \in Clients
               PROVE  /\ Len(got[c]) <= 2 * Len(asked[c])
                      /\ \A n \in 1 .. Len(got[c]) : got[c][n] = R!Reply(c, n)
                      /\ R!Open(c) => R!FdOf(c) \in DOMAIN socketInfo
    BY DEF R!RepliesInOrder
  <2>1. got[c] \in Seq(ReplyParts) /\ toClient[c] \in Seq(ReplyParts) /\ asked[c] \in Seq(Requests)
    BY DEF RedisInv, RedisTypes
  <2>2. PICK x, y, z \in Nat : x = Len(got[c]) /\ y = Len(toClient[c]) /\ z = Len(asked[c])
    BY <2>1
  <2>3. \A n \in 1 .. x : got[c][n] = R!Reply(c, n)
    BY <2>2 DEF RedisInv, Stream
  <2>8. x + y <= 2 * z
    BY <2>2 DEF RedisInv, Stream, Delivered
  <2>4. R!Open(c) => R!FdOf(c) \in R!Fds /\ owner[R!FdOf(c)] = c
    BY DEF R!Open, R!FdOf
  <2>5. c # "free"
    BY ClientsAssumption
  <2>6. x <= 2 * z
    BY <2>8
  <2>7. R!Open(c) => R!FdOf(c) \in DOMAIN socketInfo
    BY <2>4, <2>5 DEF RedisInv, Conversations
  <2> QED
    BY <2>2, <2>3, <2>6, <2>7
<1>2. HttpInv => H!OwnReply
  BY DEF HttpInv
<1> QED
  BY RedisAlways, HttpAlways, <1>1, <1>2, PTL DEF RepliesRight

-----------------------------------------------------------------------------
(* The shell.                                                              *)

OneCommand == {"execute", "fork", "push", "read", "wait", "pop"}
Pipeline == {"errPipe", "outPipe", "spawn", "remember", "readErr", "readOut", "waitAll", "popAll"}
Between == {"prompt", "raw", "done"}
States == {"none", "forked", "running", "zombie", "reaped"}
Over == {"none", "reaped"}
CshTypes ==
  /\ pc \in OneCommand \cup Pipeline \cup Between \cup {"gone", "undefined"}
  /\ line \in Seq(Commands) /\ i \in {1, 2, 3} /\ pid \in -1 .. 2 /\ execIds \in Seq(-1 .. 2)
  /\ proc \in [C!Pids -> [state : States, out : Nat, err : Nat]]
  /\ fds \in [{0, 1, 2} -> SUBSET ({0, 1, 2} \X {"r", "w"})]
  /\ interrupts \in Nat /\ faults \in Nat

(* Which command is to be started, and of which line.                      *)
InLine ==
  /\ pc \in OneCommand => Len(line) = 1
  /\ pc \in Pipeline => Len(line) = 2
  /\ pc = "errPipe" => i = 1
  /\ pc \in {"outPipe", "spawn", "remember"} => i \in {1, 2}
  /\ \A p \in C!Pids : proc[p].state = "forked" => p <= Len(line)

(* What the shell itself holds open.                                       *)
ShellHolds ==
  /\ pc \in {"fork", "push"} => fds[0] = C!Ends(1)
  /\ pc = "read" => fds[0] = {<<1, "r">>}
  /\ pc = "outPipe" => fds[0] = C!Ends(0) \cup IF i = 2 THEN C!Ends(1) ELSE {}
  /\ pc \in {"spawn", "remember"} => fds[0] = C!Ends(0) \cup C!Ends(1) \cup IF i = 2 THEN C!Ends(2) ELSE {}
  /\ pc = "readErr" => fds[0] = {<<0, "r">>} \cup C!Ends(2)
  /\ pc = "readOut" => fds[0] = {<<2, "r">>}
  /\ pc \in Between \cup {"execute", "wait", "pop", "errPipe", "waitAll", "popAll"} => fds[0] = {}

(* A command that runs keeps the pipe of the errors from ending.           *)
KeepsOpen ==
  \A p \in C!Pids : C!Alive(p) => /\ pc \in {"push", "read", "outPipe", "spawn", "remember", "readErr"}
                                  /\ <<C!ErrTo, "w">> \in fds[p]

(* The pids that are remembered; unless there was an interrupt, a command  *)
(* that has not been waited for is among them.                             *)
Known(p) == (\E k \in DOMAIN execIds : execIds[k] = p) \/ (pc \in {"push", "remember"} /\ pid = p)
Remembers ==
  /\ pc \in Between \cup {"execute", "fork", "push", "errPipe"} => execIds = <<>>
  /\ pc \in {"read", "wait", "pop"} => execIds = <<>> \/ execIds = <<pid>>
Unreaped ==
  /\ \A p \in C!Pids : proc[p].state \notin Over => Known(p)
  /\ execIds \in Seq(C!Pids)
  /\ pc \in {"push", "remember", "read", "wait", "pop"} => pid \in C!Pids
  /\ pc \in {"read", "wait", "pop"} => execIds = <<pid>>
  /\ pc = "pop" => proc[pid].state \in Over
  /\ pc = "popAll" => execIds # <<>> /\ proc[Head(execIds)].state \in Over

Sound == faults = 0 /\ pc \notin {"gone", "undefined"}
CshInv ==
  /\ CshTypes /\ InLine
  /\ Sound => ShellHolds /\ KeepsOpen /\ Remembers /\ (interrupts = 0 => Unreaped)

(* The shell at its beginning, or ended while another component runs.      *)
LEMMA CshStart == C!Init \/ C!Ended => CshInv
<1> SUFFICES ASSUME NEW at \in {"prompt", "gone"}, C!Shell(at) PROVE CshInv
  BY DEF C!Init, C!Ended
<1>0. /\ pc = at /\ line = <<>> /\ i = 1 /\ pid = 0 /\ execIds = <<>> /\ interrupts = 0 /\ faults = 0
      /\ proc = [p \in C!Pids |-> C!Idle] /\ fds = [p \in {0, 1, 2} |-> {}]
  BY DEF C!Shell, C!Sh, C!Pids
<1>1. \A p \in C!Pids : proc[p].state = "none"
  BY <1>0 DEF C!Idle
<1>2. proc \in [C!Pids -> [state : States, out : Nat, err : Nat]]
  BY <1>0 DEF C!Idle, States
<1>3. CshTypes
  BY <1>0, <1>2 DEF CshTypes, Between
<1>4. InLine
  BY <1>0, <1>1 DEF InLine, OneCommand, Pipeline
<1>5. ShellHolds
  BY <1>0 DEF ShellHolds
<1>6. KeepsOpen
  BY <1>1 DEF KeepsOpen, C!Alive
<1>7. Remembers /\ Unreaped
  BY <1>0, <1>1 DEF Remembers, Unreaped, Over
<1> QED
  BY <1>3, <1>4, <1>5, <1>6, <1>7 DEF CshInv

(* What a process does, and what is done to it, concerns the shell only    *)
(* in that it may end.                                                     *)
Fades(p) ==
  /\ proc'[p].state = "forked" => proc[p].state = "forked"
  /\ C!Alive(p)' => C!Alive(p) /\ (<<C!ErrTo, "w">> \in fds[p] => <<C!ErrTo, "w">> \in fds'[p])
  /\ proc[p].state \in Over <=> proc'[p].state \in Over

(* If the shell stands still and its processes only fade, or an interrupt  *)
(* forgets their pids, the invariant is kept.                              *)
LEMMA ProcessFrame ==
  ASSUME CshInv, CshTypes', UNCHANGED <<pc, line, i, pid, faults>>, fds'[0] = fds[0],
         \A p \in C!Pids : Fades(p),
         \/ interrupts' = interrupts /\ execIds' = execIds
         \/ interrupts' # 0 /\ execIds' = <<>>
  PROVE  CshInv'
<1>0. /\ pc' = pc /\ line' = line /\ i' = i /\ pid' = pid /\ faults' = faults
      /\ C!ErrTo' = C!ErrTo
  BY DEF C!ErrTo, C!Single
<1>1. InLine'
  BY <1>0 DEF CshInv, InLine, Fades
<1>2. ASSUME Sound' PROVE (ShellHolds /\ KeepsOpen /\ Remembers)' /\ (interrupts' = 0 => Unreaped')
  <2>1. Sound /\ ShellHolds /\ KeepsOpen /\ Remembers /\ (interrupts = 0 => Unreaped)
    BY <1>0, <1>2 DEF Sound, CshInv
  <2>2. ShellHolds'
    BY <1>0, <2>1 DEF ShellHolds
  <2>3. KeepsOpen'
    BY <1>0, <2>1 DEF KeepsOpen, Fades
  <2>4. Remembers'
    BY <1>0, <2>1 DEF Remembers
  <2>5. ASSUME interrupts' = 0 PROVE Unreaped'
    <3>1. Unreaped /\ execIds' = execIds
      BY <2>1, <2>5
    <3>2. pc \in {"read", "wait", "pop"} => pid \in C!Pids
      BY <3>1 DEF Unreaped
    <3>3. pc = "popAll" => Head(execIds) \in C!Pids
      BY <3>1 DEF Unreaped
    <3>4. \A p \in C!Pids : Known(p)' <=> Known(p)
      BY <1>0, <3>1 DEF Known
    <3> QED
      BY <1>0, <3>1, <3>2, <3>3, <3>4 DEF Unreaped, Fades
  <2> QED
    BY <2>2, <2>3, <2>4, <2>5
<1> QED
  BY <1>1, <1>2 DEF CshInv

(* A process that is killed or exits drops all it holds and waits to be    *)
(* reaped.                                                                 *)
LEMMA DeadFades ==
  ASSUME CshTypes, NEW S \in SUBSET C!Pids, \A p \in S : C!Alive(p),
         proc' = C!Dead(proc, S), fds' = C!Dropped(S), line' = line
  PROVE  /\ proc' \in [C!Pids -> [state : States, out : Nat, err : Nat]]
         /\ fds' \in [{0, 1, 2} -> SUBSET ({0, 1, 2} \X {"r", "w"})] /\ fds'[0] = fds[0]
         /\ \A p \in C!Pids : Fades(p)
<1>1. \A p \in C!Pids : p \notin S => proc'[p] = proc[p] /\ fds'[p] = fds[p]
  BY DEF CshTypes, C!Dead, C!Dropped, C!Pids
<1>2. \A p \in C!Pids : proc[p] \in [state : States, out : Nat, err : Nat]
  BY DEF CshTypes
<1>3. ASSUME NEW p \in S
      PROVE  proc'[p] \in [state : States, out : Nat, err : Nat] /\ proc'[p].state = "zombie"
  <2>1. PICK old \in [state : States, out : Nat, err : Nat] : old = proc[p]
    BY <1>2
  <2>3. p \in C!Pids
    OBVIOUS
  <2>4. proc'[p] = [proc[p] EXCEPT !.state = "zombie"]
    BY <2>3 DEF C!Dead
  <2>2. proc'[p] = [old EXCEPT !.state = "zombie"]
    BY <2>1, <2>4
  <2> QED
    BY <2>2 DEF States
<1>4. proc' \in [C!Pids -> [state : States, out : Nat, err : Nat]]
  BY <1>1, <1>2, <1>3 DEF C!Dead
<1>5. fds' \in [{0, 1, 2} -> SUBSET ({0, 1, 2} \X {"r", "w"})] /\ fds'[0] = fds[0]
  BY DEF CshTypes, C!Dropped, C!Pids
<1>6. ASSUME NEW p \in C!Pids PROVE Fades(p)
  <2>1. C!ErrTo' = C!ErrTo
    BY DEF C!ErrTo, C!Single
  <2>2. CASE p \in S
    <3>1. proc'[p].state = "zombie" /\ proc[p].state \in {"forked", "running"}
      BY <1>3, <2>2 DEF C!Alive
    <3> QED
      BY <3>1 DEF Fades, C!Alive, Over
  <2>3. CASE p \notin S
    <3>1. proc'[p] = proc[p] /\ fds'[p] = fds[p]
      BY <1>1, <2>3
    <3>2. C!Alive(p)' <=> C!Alive(p)
      BY <3>1 DEF C!Alive
    <3> QED
      BY <2>1, <3>1, <3>2 DEF Fades
  <2> QED
    BY <2>2, <2>3
<1> QED
  BY <1>4, <1>5, <1>6

(* A step of a command: it writes, reads or exits.                         *)
LEMMA ProcessStep ==
  ASSUME CshInv, NEW p \in C!Pids, C!Process(p)
  PROVE  CshInv'
<1>0. CshTypes /\ p \in {1, 2}
  BY DEF CshInv, C!Pids
<1>1. UNCHANGED <<pc, line, i, pid, execIds, interrupts, faults>>
  BY DEF C!Process, C!Become, C!WriteOut, C!WriteErr, C!Put, C!ReadIn, C!Exit, C!shell, C!bounds
<1>2. ASSUME /\ proc' \in [C!Pids -> [state : States, out : Nat, err : Nat]]
             /\ fds' \in [{0, 1, 2} -> SUBSET ({0, 1, 2} \X {"r", "w"})] /\ fds'[0] = fds[0]
             /\ \A q \in C!Pids : Fades(q)
      PROVE  CshInv'
  <2>1. CshTypes'
    BY <1>0, <1>1, <1>2 DEF CshTypes
  <2> QED
    BY <1>1, <1>2, <2>1, ProcessFrame
<1>3. C!ErrTo' = C!ErrTo
  BY <1>1 DEF C!ErrTo, C!Single
<1>4. ASSUME C!Alive(p), proc' = C!Dead(proc, {p}), fds' = C!Dropped({p}) PROVE CshInv'
  <2>1. {p} \in SUBSET C!Pids /\ \A q \in {p} : C!Alive(q)
    BY <1>4
  <2>2. line' = line
    BY <1>1
  <2> QED
    BY <1>0, <1>2, <1>4, <2>1, <2>2, DeadFades
<1>5. CASE C!Become(p)
  <2>1. p \in 1 .. Len(line) /\ proc[p].state = "forked"
    BY <1>0, <1>5 DEF CshInv, InLine, C!Become, CshTypes
  <2>2. line[p] \in Commands
    BY <1>0, <2>1 DEF CshTypes
  <2>3. PICK new \in [state : States, out : Nat, err : Nat] : new.state = "running" /\ proc' = [proc EXCEPT ![p] = new]
    <3>1. [state |-> "running", out |-> line[p].out, err |-> line[p].err] \in [state : States, out : Nat, err : Nat]
      BY <2>2 DEF States, Commands
    <3> QED
      BY <1>5, <3>1 DEF C!Become
  <2>4. C!Ends1(p) \in SUBSET ({0, 1, 2} \X {"r", "w"}) /\ <<C!ErrTo, "w">> \in C!Ends1(p)
    <3>1. p > 1 => p - 1 = 1
      BY <1>0
    <3> QED
      BY <1>0, <3>1 DEF C!Ends1, C!ErrTo
  <2>5. fds' = [fds EXCEPT ![p] = C!Ends1(p)]
    BY <1>5 DEF C!Become
  <2>6. fds' \in [{0, 1, 2} -> SUBSET ({0, 1, 2} \X {"r", "w"})] /\ fds'[0] = fds[0] /\ fds'[p] = C!Ends1(p)
        /\ \A q \in C!Pids : q # p => fds'[q] = fds[q]
    BY <1>0, <2>4, <2>5 DEF CshTypes, C!Pids
  <2>7. proc' \in [C!Pids -> [state : States, out : Nat, err : Nat]] /\ proc'[p] = new
        /\ \A q \in C!Pids : q # p => proc'[q] = proc[q]
    BY <1>0, <2>3 DEF CshTypes
  <2>8. \A q \in C!Pids : Fades(q)
    BY <1>3, <2>1, <2>3, <2>4, <2>6, <2>7 DEF Fades, C!Alive, Over
  <2> QED
    BY <1>2, <2>6, <2>7, <2>8
<1>6. ASSUME NEW k, NEW field \in {"out", "err"}, C!Put(p, k, field) PROVE CshInv'
  <2>1. C!Alive(p)
    BY <1>6 DEF C!Put, C!Alive
  <2>2. CASE \A q \in DOMAIN fds : <<k, "r">> \notin fds[q]
    BY <1>4, <1>6, <2>1, <2>2 DEF C!Put
  <2>3. CASE ~(\A q \in DOMAIN fds : <<k, "r">> \notin fds[q])
    <3>1. proc' = [proc EXCEPT ![p][field] = @ - 1] /\ UNCHANGED fds /\ proc[p][field] > 0
      BY <1>6, <2>3 DEF C!Put
    <3>2. PICK old \in [state : States, out : Nat, err : Nat] : old = proc[p]
      BY <1>0 DEF CshTypes
    <3>3. PICK new : new = [old EXCEPT ![field] = @ - 1]
      OBVIOUS
    <3>4. old[field] - 1 \in Nat
      BY <1>6, <3>1, <3>2
    <3>5. new \in [state : States, out : Nat, err : Nat] /\ new.state = old.state
      BY <1>6, <3>3, <3>4
    <3>8. proc' = [proc EXCEPT ![p] = new]
      BY <1>0, <3>1, <3>2, <3>3 DEF CshTypes
    <3>6. proc' \in [C!Pids -> [state : States, out : Nat, err : Nat]] /\ \A q \in C!Pids : proc'[q].state = proc[q].state
      BY <1>0, <3>2, <3>5, <3>8 DEF CshTypes
    <3>7. \A q \in C!Pids : Fades(q)
      BY <1>3, <3>1, <3>6 DEF Fades, C!Alive
    <3> QED
      BY <1>0, <1>2, <3>1, <3>6, <3>7 DEF CshTypes
  <2> QED
    BY <2>2, <2>3
<1>7. CASE C!ReadIn(p)
  <2>1. UNCHANGED <<proc, fds>>
    BY <1>7 DEF C!ReadIn
  <2>2. \A q \in C!Pids : Fades(q)
    BY <1>3, <2>1 DEF Fades, C!Alive
  <2> QED
    BY <1>0, <1>2, <2>1, <2>2 DEF CshTypes
<1>8. CASE C!Exit(p)
  BY <1>4, <1>8 DEF C!Exit, C!Alive
<1> QED
  BY <1>5, <1>6, <1>7, <1>8 DEF C!Process, C!WriteOut, C!WriteErr

(* The interrupt kills what the handler and the terminal reach.            *)
LEMMA InterruptStep ==
  ASSUME CshInv, C!Interrupt
  PROVE  CshInv'
<1>0. CshTypes
  BY DEF CshInv
<1>1. interrupts' = interrupts + 1 /\ UNCHANGED <<line, i, pid, faults>>
  BY DEF C!Interrupt
<1>2. PICK S \in SUBSET C!Pids : (\A p \in S : C!Alive(p)) /\ proc' = C!Dead(proc, S) /\ fds' = C!Dropped(S)
  <2> DEFINE killed == IF handler = "kill"
                         THEN {p \in C!Pids : C!Alive(p) /\ (-1 \in C!Range(execIds) \/ p \in C!Range(execIds))} ELSE {}
             dead == killed \cup {p \in C!Pids : proc[p].state = "running" /\ line[p].kind = "bin"}
  <2>1. proc' = C!Dead(proc, dead) /\ fds' = C!Dropped(dead)
    BY DEF C!Interrupt
  <2>2. dead \in SUBSET C!Pids /\ \A p \in dead : C!Alive(p)
    BY DEF C!Alive
  <2> QED
    BY <2>1, <2>2
<1>3. /\ proc' \in [C!Pids -> [state : States, out : Nat, err : Nat]]
      /\ fds' \in [{0, 1, 2} -> SUBSET ({0, 1, 2} \X {"r", "w"})] /\ fds'[0] = fds[0]
      /\ \A p \in C!Pids : Fades(p)
  BY <1>0, <1>1, <1>2, DeadFades
<1>4. interrupts' \in Nat /\ interrupts' # 0
  BY <1>0, <1>1 DEF CshTypes
<1>5. CASE handler = "kill"
  <2>1. execIds' = <<>> /\ pc' = pc
    BY <1>5 DEF C!Interrupt
  <2>2. CshTypes'
    BY <1>0, <1>1, <1>3, <1>4, <2>1 DEF CshTypes
  <2> QED
    BY <1>1, <1>3, <1>4, <2>1, <2>2, ProcessFrame
<1>6. CASE handler # "kill"
  <2>1. execIds' = execIds /\ pc' = "gone"
    BY <1>6 DEF C!Interrupt
  <2>2. CshTypes'
    BY <1>0, <1>1, <1>3, <1>4, <2>1 DEF CshTypes
  <2>3. InLine'
    BY <1>1, <1>3, <2>1 DEF CshInv, InLine, Fades, OneCommand, Pipeline
  <2> QED
    BY <2>1, <2>2, <2>3 DEF CshInv, Sound
<1> QED
  BY <1>5, <1>6

(* A step of the shell that leaves its processes alone.                    *)
Apace ==
  /\ UNCHANGED <<line, proc, interrupts>> /\ pc \notin {"gone", "undefined"}
  /\ faults' = faults \/ faults' = faults + 1
  /\ \A p \in C!Pids : fds'[p] = fds[p]
Calm == \A p \in C!Pids : ~C!Alive(p)
Running == {"push", "read", "outPipe", "spawn", "remember", "readErr"}

(* A step of the shell keeps the invariant if what its next place requires *)
(* has been done.                                                          *)
LEMMA ShellFrame ==
  ASSUME CshInv, CshTypes', Apace,
         pc' \in OneCommand => Len(line) = 1,
         pc' \in Pipeline => Len(line) = 2,
         pc' = "errPipe" => i' = 1,
         pc' \in {"outPipe", "spawn", "remember"} => i' \in {1, 2},
         Sound /\ Sound' => /\ ShellHolds' /\ Remembers' /\ (interrupts = 0 => Unreaped')
                            /\ pc' \in Running \/ Calm
  PROVE  CshInv'
<1>1. faults' = 0 => faults = 0
  BY DEF Apace, CshInv, CshTypes
<1>2. Sound' => Sound
  BY <1>1 DEF Sound, Apace
<1>3. InLine'
  BY DEF CshInv, InLine, Apace
<1>4. ASSUME Sound' PROVE KeepsOpen'
  <2>1. C!ErrTo' = C!ErrTo /\ \A p \in C!Pids : C!Alive(p)' <=> C!Alive(p)
    BY DEF Apace, C!ErrTo, C!Single, C!Alive
  <2>2. pc' \in Running \/ Calm
    BY <1>2, <1>4
  <2>3. KeepsOpen
    BY <1>2, <1>4 DEF CshInv
  <2> QED
    BY <2>1, <2>2, <2>3 DEF KeepsOpen, Calm, Running, Apace
<1> QED
  BY <1>2, <1>3, <1>4 DEF CshInv, Apace

(* Outside these places no process of the shell is alive.                  *)
LEMMA CalmAt ==
  ASSUME CshInv, Sound, pc \notin Running
  PROVE  Calm
  BY DEF CshInv, KeepsOpen, Calm, Running

(* A pid that is appended, or taken off the front once it is waited for.   *)
LEMMA PidAppended ==
  ASSUME CshInv, Sound, interrupts = 0, pc \in {"push", "remember"}, UNCHANGED <<proc, pid>>,
         execIds' = Append(execIds, pid)
  PROVE  /\ execIds' \in Seq(C!Pids) /\ pid \in C!Pids
         /\ \A p \in C!Pids : proc[p].state \notin Over => \E k \in DOMAIN execIds' : execIds'[k] = p
<1>1. Unreaped
  BY DEF CshInv
<1>2. execIds \in Seq(C!Pids) /\ pid \in C!Pids
  BY <1>1 DEF Unreaped
<1>3. /\ execIds' \in Seq(C!Pids) /\ Len(execIds) + 1 \in DOMAIN execIds' /\ execIds'[Len(execIds) + 1] = pid
      /\ \A k \in DOMAIN execIds : k \in DOMAIN execIds' /\ execIds'[k] = execIds[k]
  BY <1>2
<1> QED
  BY <1>1, <1>2, <1>3 DEF Unreaped, Known

(* waitpid on a process of the line: it has ended and is reaped.           *)
LEMMA PidWaited ==
  ASSUME CshInv, NEW p \in C!Pids, C!Waited(p)
  PROVE  /\ proc' \in [C!Pids -> [state : States, out : Nat, err : Nat]]
         /\ proc'[p].state \in Over
         /\ \A q \in C!Pids : q # p => proc'[q] = proc[q]
         /\ \A q \in C!Pids : proc[q].state \in Over => proc'[q].state \in Over
         /\ \A q \in C!Pids : proc'[q].state \in {"forked", "running"} => proc'[q].state = proc[q].state
<1>1. \A q \in C!Pids : proc[q] \in [state : States, out : Nat, err : Nat]
  BY DEF CshInv, CshTypes
<1>2. p # -1
  BY DEF C!Pids
<1>3. CASE proc[p].state \in Over /\ UNCHANGED proc
  BY <1>3 DEF CshInv, CshTypes
<1>4. CASE proc[p].state = "zombie" /\ proc' = [proc EXCEPT ![p].state = "reaped"]
  <2>1. PICK old \in [state : States, out : Nat, err : Nat] : old = proc[p]
    BY <1>1
  <2>2. PICK new : new = [old EXCEPT !.state = "reaped"]
    OBVIOUS
  <2>3. new \in [state : States, out : Nat, err : Nat] /\ new.state = "reaped"
    BY <2>2 DEF States
  <2>4. proc' = [proc EXCEPT ![p] = new]
    BY <1>4, <2>1, <2>2
  <2> QED
    BY <1>1, <2>3, <2>4 DEF Over, CshInv, CshTypes
<1> QED
  BY <1>1, <1>2, <1>3, <1>4 DEF C!Waited, Over, States

(* A step that moves only bytes.                                           *)
LEMMA Unmoved ==
  ASSUME CshInv, UNCHANGED <<pc, line, i, pid, execIds, proc, fds, interrupts, faults>>
  PROVE  CshInv'
<1>1. CshTypes'
  BY DEF CshInv, CshTypes
<1>2. \A p \in C!Pids : Fades(p)
  BY DEF Fades, C!Alive, C!ErrTo, C!Single
<1> QED
  BY <1>1, <1>2, ProcessFrame

(* fork() gives the child all that the shell holds.                        *)
Forking(k) == proc' = [proc EXCEPT ![k].state = "forked"] /\ fds' = [fds EXCEPT ![k] = fds[0]]
(* The table of processes and that of pipe ends after fork().              *)
LEMMA ForkingFacts ==
  ASSUME CshInv, NEW k \in C!Pids, Forking(k)
  PROVE  /\ proc' \in [C!Pids -> [state : States, out : Nat, err : Nat]]
         /\ fds' \in [{0, 1, 2} -> SUBSET ({0, 1, 2} \X {"r", "w"})] /\ fds'[0] = fds[0] /\ fds'[k] = fds[0]
         /\ \A p \in C!Pids : p # k => proc'[p] = proc[p] /\ fds'[p] = fds[p]
         /\ proc'[k].state = "forked"
<1>1. PICK old \in [state : States, out : Nat, err : Nat] : old = proc[k]
  BY DEF CshInv, CshTypes
<1>2. PICK new : new = [old EXCEPT !.state = "forked"]
  OBVIOUS
<1>3. new \in [state : States, out : Nat, err : Nat] /\ new.state = "forked"
  BY <1>2 DEF States
<1>4. proc' = [proc EXCEPT ![k] = new]
  BY <1>1, <1>2 DEF Forking
<1>5. /\ proc' \in [C!Pids -> [state : States, out : Nat, err : Nat]] /\ proc'[k].state = "forked"
      /\ \A p \in C!Pids : p # k => proc'[p] = proc[p]
  BY <1>3, <1>4 DEF CshInv, CshTypes
<1>6. /\ fds' \in [{0, 1, 2} -> SUBSET ({0, 1, 2} \X {"r", "w"})] /\ fds'[0] = fds[0] /\ fds'[k] = fds[0]
      /\ \A p \in C!Pids : p # k => fds'[p] = fds[p]
  BY DEF CshInv, CshTypes, Forking, C!Pids
<1> QED
  BY <1>5, <1>6

(* waitpid, whatever it waits for, starts no process.                      *)
LEMMA AnyWaited ==
  ASSUME CshInv, NEW p, C!Waited(p)
  PROVE  /\ proc' \in [C!Pids -> [state : States, out : Nat, err : Nat]]
         /\ \A q \in C!Pids : proc'[q].state \in {"forked", "running"} => proc'[q].state = proc[q].state
<1>1. CASE UNCHANGED proc
  BY <1>1 DEF CshInv, CshTypes
<1>2. CASE \E q \in C!Pids : proc' = [proc EXCEPT ![q].state = "reaped"]
  <2>1. PICK q \in C!Pids : proc' = [proc EXCEPT ![q].state = "reaped"]
    BY <1>2
  <2>2. PICK old \in [state : States, out : Nat, err : Nat] : old = proc[q]
    BY DEF CshInv, CshTypes
  <2>3. PICK new : new = [old EXCEPT !.state = "reaped"]
    OBVIOUS
  <2>4. new \in [state : States, out : Nat, err : Nat] /\ new.state = "reaped"
    BY <2>3 DEF States
  <2>5. proc' = [proc EXCEPT ![q] = new]
    BY <2>1, <2>2, <2>3
  <2> QED
    BY <2>4, <2>5 DEF CshInv, CshTypes
<1> QED
  BY <1>1, <1>2 DEF C!Waited

(* The prompt, and a line of one command.                                  *)
LEMMA ExecuteStep ==
  ASSUME CshInv, C!Prompt \/ C!Done \/ C!Execute
  PROVE  CshInv'
<1>0. CshTypes /\ InLine /\ (Sound => ShellHolds /\ KeepsOpen /\ Remembers /\ (interrupts = 0 => Unreaped))
  BY DEF CshInv
<1>1. CASE C!Prompt \/ C!Done
  <2>1. /\ UNCHANGED <<line, i, pid, execIds, proc, fds, interrupts, faults>>
        /\ pc \in {"prompt", "done"} /\ pc' \in {"prompt", "raw"}
    BY <1>1 DEF C!Prompt, C!Done, C!kernel, C!bounds
  <2>2. CshTypes'
    BY <1>0, <2>1 DEF CshTypes, Between
  <2>3. Apace
    BY <2>1 DEF Apace
  <2>4. Sound => ShellHolds' /\ Remembers' /\ (interrupts = 0 => Unreaped') /\ Calm
    <3> SUFFICES ASSUME Sound PROVE ShellHolds' /\ Remembers' /\ (interrupts = 0 => Unreaped') /\ Calm
      OBVIOUS
    <3>1. execIds = <<>> /\ fds[0] = {} /\ Calm
      BY <1>0, <2>1, CalmAt DEF ShellHolds, Remembers, Between, Running
    <3>2. ShellHolds' /\ Remembers'
      BY <2>1, <3>1 DEF ShellHolds, Remembers
    <3>3. ASSUME interrupts = 0 PROVE Unreaped'
      BY <1>0, <2>1, <3>1, <3>3 DEF Unreaped, Known
    <3> QED
      BY <3>1, <3>2, <3>3
  <2>5. pc' \notin OneCommand \cup Pipeline
    BY <2>1 DEF OneCommand, Pipeline
  <2> QED
    BY <2>2, <2>3, <2>4, <2>5, ShellFrame DEF Pipeline
<1>2. CASE C!handleShellCommand
  <2>1. /\ UNCHANGED <<line, i, pid, execIds, proc, fds, interrupts, faults>>
        /\ pc = "execute" /\ pc' \in {"done", "gone"}
    BY <1>2 DEF C!handleShellCommand, C!kernel, C!bounds
  <2>2. CshTypes'
    BY <1>0, <2>1 DEF CshTypes, Between
  <2>3. Apace
    BY <2>1 DEF Apace
  <2>4. Sound /\ Sound' => ShellHolds' /\ Remembers' /\ (interrupts = 0 => Unreaped') /\ Calm
    <3> SUFFICES ASSUME Sound, Sound' PROVE ShellHolds' /\ Remembers' /\ (interrupts = 0 => Unreaped') /\ Calm
      OBVIOUS
    <3>1. execIds = <<>> /\ fds[0] = {} /\ Calm
      BY <1>0, <2>1, CalmAt DEF ShellHolds, Remembers, Running
    <3>2. ShellHolds' /\ Remembers'
      BY <2>1, <3>1 DEF ShellHolds, Remembers
    <3>3. ASSUME interrupts = 0 PROVE Unreaped'
      BY <1>0, <2>1, <3>1, <3>3 DEF Unreaped, Known
    <3> QED
      BY <3>1, <3>2, <3>3
  <2>5. pc' \notin OneCommand \cup Pipeline
    BY <2>1 DEF OneCommand, Pipeline
  <2> QED
    BY <2>2, <2>3, <2>4, <2>5, ShellFrame DEF Pipeline
<1>3. CASE C!ExecPipe
  <2>1. /\ UNCHANGED <<line, i, pid, execIds, proc, interrupts>> /\ pc = "execute"
        /\ \/ pc' = "fork" /\ fds' = [fds EXCEPT ![0] = @ \cup C!Ends(1)] /\ UNCHANGED faults
           \/ pc' = "done" /\ faults' = faults + 1 /\ UNCHANGED fds
    BY <1>3 DEF C!ExecPipe, C!bounds, C!Opened, C!Fails, C!Sh
  <2>2. /\ fds' \in [{0, 1, 2} -> SUBSET ({0, 1, 2} \X {"r", "w"})] /\ \A p \in C!Pids : fds'[p] = fds[p]
        /\ pc' = "fork" => fds'[0] = fds[0] \cup C!Ends(1)
    BY <1>0, <2>1 DEF CshTypes, C!Ends, C!Pids
  <2>3. CshTypes'
    BY <1>0, <2>1, <2>2 DEF CshTypes, Between, OneCommand
  <2>4. Apace
    BY <2>1, <2>2 DEF Apace
  <2>5. Sound /\ Sound' => ShellHolds' /\ Remembers' /\ (interrupts = 0 => Unreaped') /\ Calm
    <3> SUFFICES ASSUME Sound, Sound' PROVE ShellHolds' /\ Remembers' /\ (interrupts = 0 => Unreaped') /\ Calm
      OBVIOUS
    <3>1. execIds = <<>> /\ fds[0] = {} /\ Calm
      BY <1>0, <2>1, CalmAt DEF ShellHolds, Remembers, Running
    <3>2. pc' = "fork"
      BY <2>1 DEF Sound
    <3>3. ShellHolds' /\ Remembers'
      BY <2>1, <2>2, <3>1, <3>2 DEF ShellHolds, Remembers, Between
    <3>4. ASSUME interrupts = 0 PROVE Unreaped'
      BY <1>0, <2>1, <3>1, <3>2, <3>4 DEF Unreaped, Known
    <3> QED
      BY <3>1, <3>3, <3>4
  <2>6. pc' \notin Pipeline /\ Len(line) = 1
    BY <1>0, <2>1 DEF OneCommand, Pipeline, InLine
  <2> QED
    BY <2>3, <2>4, <2>5, <2>6, ShellFrame DEF Pipeline
<1>4. CASE C!ExecFork
  <2>1. CASE C!Forked(1) /\ pc' = "push" /\ UNCHANGED C!bounds
    <3>1. /\ UNCHANGED <<line, i, execIds, interrupts, faults>> /\ pc = "fork" /\ pid' = 1
          /\ proc' = [proc EXCEPT ![1].state = "forked"] /\ fds' = [fds EXCEPT ![1] = fds[0]]
      BY <1>4, <2>1 DEF C!ExecFork, C!bounds, C!Forked, C!Sh
    <3>2. Forking(1)
      BY <3>1 DEF Forking
    <3>3. Len(line) = 1
      BY <1>0, <3>1 DEF InLine, OneCommand
    <3>4. Sound => execIds = <<>> /\ fds[0] = C!Ends(1)
      BY <1>0, <3>1 DEF ShellHolds, Remembers
    <3>5. /\ proc' \in [C!Pids -> [state : States, out : Nat, err : Nat]]
          /\ fds' \in [{0, 1, 2} -> SUBSET ({0, 1, 2} \X {"r", "w"})] /\ fds'[0] = fds[0] /\ fds'[1] = fds[0]
          /\ \A p \in C!Pids : p # 1 => proc'[p] = proc[p] /\ fds'[p] = fds[p]
          /\ proc'[1].state = "forked"
      BY <3>2, ForkingFacts DEF C!Pids
    <3>6. CshTypes'
      BY <1>0, <2>1, <3>1, <3>5 DEF CshTypes, OneCommand
    <3>7. InLine'
      BY <1>0, <2>1, <3>1, <3>3, <3>5 DEF InLine, Pipeline
    <3>8. ASSUME Sound' PROVE ShellHolds' /\ KeepsOpen' /\ Remembers' /\ (interrupts' = 0 => Unreaped')
      <4>1. Sound
        BY <3>1, <3>8 DEF Sound
      <4>2. ShellHolds' /\ Remembers'
        BY <2>1, <3>1, <3>4, <3>5, <4>1 DEF ShellHolds, Remembers, Between
      <4>3. Calm
        BY <3>1, <4>1, CalmAt DEF Running
      <4>4. KeepsOpen'
        <5>1. ASSUME NEW p \in C!Pids, C!Alive(p)' PROVE p = 1
          BY <3>5, <4>3, <5>1 DEF Calm, C!Alive
        <5>2. C!ErrTo' = 1 /\ <<1, "w">> \in fds'[1]
          BY <3>1, <3>3, <3>4, <3>5, <4>1 DEF C!ErrTo, C!Single, C!Ends
        <5> QED
          BY <2>1, <5>1, <5>2 DEF KeepsOpen
      <4>5. ASSUME interrupts' = 0 PROVE Unreaped'
        <5>1. \A p \in C!Pids : p # 1 => proc'[p].state \in Over
          BY <1>0, <3>1, <3>4, <3>5, <4>1, <4>5 DEF Unreaped, Known
        <5>2. \A p \in C!Pids : proc'[p].state \notin Over => Known(p)'
          BY <2>1, <3>1, <5>1 DEF Known
        <5> QED
          BY <2>1, <3>1, <3>4, <4>1, <5>2 DEF Unreaped, C!Pids
      <4> QED
        BY <4>2, <4>4, <4>5
    <3> QED
      BY <3>6, <3>7, <3>8 DEF CshInv
  <2>2. CASE pc' = "done" /\ C!Fails /\ pid' = -1 /\ UNCHANGED <<proc, fds>>
    <3>1. /\ UNCHANGED <<line, i, execIds, proc, fds, interrupts>> /\ pc = "fork" /\ pid' = -1
          /\ pc' = "done" /\ faults' = faults + 1
      BY <1>4, <2>2 DEF C!ExecFork, C!Fails
    <3>2. CshTypes' /\ Apace /\ ~Sound' /\ pc' \notin OneCommand \cup Pipeline
      BY <1>0, <3>1 DEF CshTypes, Apace, Sound, Between, OneCommand, Pipeline
    <3> QED
      BY <3>2, ShellFrame DEF Pipeline
  <2> QED
    BY <1>4, <2>1, <2>2 DEF C!ExecFork
<1>5. CASE C!ExecPush
  <2>1. /\ UNCHANGED <<line, i, pid, proc, interrupts, faults>> /\ pc = "push" /\ pc' = "read"
        /\ execIds' = Append(execIds, pid) /\ fds' = [fds EXCEPT ![0] = @ \ {<<1, "w">>}]
    BY <1>5 DEF C!ExecPush, C!bounds, C!Closed, C!Sh
  <2>2. /\ fds' \in [{0, 1, 2} -> SUBSET ({0, 1, 2} \X {"r", "w"})] /\ \A p \in C!Pids : fds'[p] = fds[p]
        /\ fds'[0] = fds[0] \ {<<1, "w">>}
    BY <1>0, <2>1 DEF CshTypes, C!Pids
  <2>6. execIds' \in Seq(-1 .. 2)
    BY <1>0, <2>1, AppendFacts DEF CshTypes
  <2>3. CshTypes' /\ Apace
    BY <1>0, <2>1, <2>2, <2>6 DEF CshTypes, OneCommand, Apace
  <2>4. Sound /\ Sound' => ShellHolds' /\ Remembers' /\ (interrupts = 0 => Unreaped')
    <3> SUFFICES ASSUME Sound, Sound' PROVE ShellHolds' /\ Remembers' /\ (interrupts = 0 => Unreaped')
      OBVIOUS
    <3>1. execIds = <<>> /\ fds[0] = C!Ends(1)
      BY <1>0, <2>1 DEF ShellHolds, Remembers
    <3>2. execIds' = <<pid>>
      BY <2>1, <3>1
    <3>3. ShellHolds' /\ Remembers'
      BY <2>1, <2>2, <3>1, <3>2 DEF ShellHolds, Remembers, Between, C!Ends
    <3>4. ASSUME interrupts = 0 PROVE Unreaped'
      BY <2>1, <3>2, <3>4, PidAppended DEF Unreaped, Known
    <3> QED
      BY <3>3, <3>4
  <2>5. pc' \notin Pipeline /\ Len(line) = 1 /\ pc' \in Running
    BY <1>0, <2>1 DEF OneCommand, Pipeline, InLine, Running
  <2> QED
    BY <2>3, <2>4, <2>5, ShellFrame DEF Pipeline
<1>6. CASE C!ExecRead
  <2>1. UNCHANGED <<line, i, pid, execIds, proc, interrupts, faults>> /\ pc = "read"
    BY <1>6 DEF C!ExecRead, C!Drain, C!bounds
  <2>2. CASE UNCHANGED <<pc, fds>>
    BY <1>0, <2>1, <2>2, Unmoved
  <2>3. CASE C!Eof(1) /\ pc' = "wait" /\ C!Closed({<<1, "r">>})
    <3>1. fds' = [fds EXCEPT ![0] = @ \ {<<1, "r">>}]
      BY <2>3 DEF C!Closed, C!Sh
    <3>2. /\ fds' \in [{0, 1, 2} -> SUBSET ({0, 1, 2} \X {"r", "w"})] /\ \A p \in C!Pids : fds'[p] = fds[p]
          /\ fds'[0] = fds[0] \ {<<1, "r">>}
      BY <1>0, <3>1 DEF CshTypes, C!Pids
    <3>3. CshTypes' /\ Apace
      BY <1>0, <2>1, <2>3, <3>2 DEF CshTypes, OneCommand, Apace
    <3>4. pc' \notin Pipeline /\ Len(line) = 1
      BY <1>0, <2>1, <2>3 DEF OneCommand, Pipeline, InLine
    <3>5. Sound => ShellHolds' /\ Remembers' /\ (interrupts = 0 => Unreaped') /\ Calm
      <4> SUFFICES ASSUME Sound PROVE ShellHolds' /\ Remembers' /\ (interrupts = 0 => Unreaped') /\ Calm
        OBVIOUS
      <4>1. Calm
        <5>1. \A p \in C!Pids : <<1, "w">> \notin fds[p]
          BY <1>0, <2>3 DEF C!Eof, CshTypes, C!Pids
        <5> QED
          BY <1>0, <3>4, <5>1 DEF KeepsOpen, Calm, C!ErrTo, C!Single
      <4>2. ShellHolds'
        BY <1>0, <2>1, <2>3, <3>2 DEF ShellHolds
      <4>3. Remembers'
        BY <1>0, <2>1, <2>3 DEF Remembers, Between
      <4>4. ASSUME interrupts = 0 PROVE Unreaped'
        BY <1>0, <2>1, <2>3, <4>4 DEF Unreaped, Known
      <4> QED
        BY <4>1, <4>2, <4>3, <4>4
    <3> QED
      BY <3>3, <3>4, <3>5, ShellFrame DEF Pipeline
  <2> QED
    BY <1>6, <2>2, <2>3 DEF C!ExecRead, C!Drain
<1>7. CASE C!ExecWait
  <2>1. UNCHANGED <<line, i, pid, execIds, fds, interrupts, faults>> /\ pc = "wait" /\ pc' = "pop" /\ C!Waited(pid)
    BY <1>7 DEF C!ExecWait, C!bounds
  <2>2. /\ proc' \in [C!Pids -> [state : States, out : Nat, err : Nat]]
        /\ \A q \in C!Pids : proc'[q].state \in {"forked", "running"} => proc'[q].state = proc[q].state
    BY <2>1, AnyWaited
  <2>3. CshTypes' /\ InLine'
    BY <1>0, <2>1, <2>2 DEF CshTypes, InLine, OneCommand, Pipeline
  <2>4. ASSUME Sound' PROVE ShellHolds' /\ KeepsOpen' /\ Remembers' /\ (interrupts' = 0 => Unreaped')
    <3>1. Sound
      BY <2>1, <2>4 DEF Sound
    <3>2. Calm
      BY <2>1, <3>1, CalmAt DEF Running
    <3>3. ShellHolds' /\ Remembers'
      BY <1>0, <2>1, <3>1 DEF ShellHolds, Remembers, Between
    <3>4. KeepsOpen'
      BY <2>2, <3>2 DEF KeepsOpen, Calm, C!Alive
    <3>5. ASSUME interrupts' = 0 PROVE Unreaped'
      <4>1. Unreaped
        BY <1>0, <2>1, <3>1, <3>5
      <4>2. pid \in C!Pids /\ execIds = <<pid>> /\ execIds' = <<pid>>
        BY <2>1, <4>1 DEF Unreaped
      <4>3. proc'[pid].state \in Over /\ \A q \in C!Pids : proc[q].state \in Over => proc'[q].state \in Over
        BY <2>1, <4>2, PidWaited
      <4>4. \A q \in C!Pids : q = pid \/ proc[q].state \in Over
        BY <2>1, <4>1, <4>2 DEF Unreaped, Known
      <4>5. \A q \in C!Pids : proc'[q].state \in Over
        BY <4>3, <4>4
      <4> QED
        BY <2>1, <4>1, <4>2, <4>3, <4>5 DEF Unreaped
    <3> QED
      BY <3>3, <3>4, <3>5
  <2> QED
    BY <2>3, <2>4 DEF CshInv
<1>8. CASE C!ExecPop
  <2>1. /\ UNCHANGED <<line, i, pid, proc, fds, interrupts, faults>> /\ pc = "pop"
        /\ execIds' = IF execIds = <<>> THEN <<>> ELSE Tail(execIds)
        /\ pc' = IF execIds = <<>> THEN "undefined" ELSE "done"
    BY <1>8 DEF C!ExecPop, C!Popped, C!kernel, C!bounds
  <2>2. execIds' \in Seq(-1 .. 2)
    BY <1>0, <2>1 DEF CshTypes
  <2>3. CshTypes' /\ Apace
    BY <1>0, <2>1, <2>2 DEF CshTypes, Between, Apace
  <2>4. pc' \notin OneCommand \cup Pipeline
    BY <2>1 DEF OneCommand, Pipeline
  <2>5. Sound /\ Sound' => ShellHolds' /\ Remembers' /\ (interrupts = 0 => Unreaped') /\ Calm
    <3> SUFFICES ASSUME Sound, Sound' PROVE ShellHolds' /\ Remembers' /\ (interrupts = 0 => Unreaped') /\ Calm
      OBVIOUS
    <3>1. execIds = <<pid>> /\ pc' = "done"
      BY <1>0, <2>1 DEF Remembers, Sound
    <3>2. execIds' = <<>>
      BY <2>1, <3>1
    <3>3. ShellHolds' /\ Remembers' /\ Calm
      BY <1>0, <2>1, <3>1, <3>2, CalmAt DEF ShellHolds, Remembers, Running
    <3>4. ASSUME interrupts = 0 PROVE Unreaped'
      <4>1. \A q \in C!Pids : proc[q].state \in Over
        BY <1>0, <2>1, <3>1, <3>4 DEF Unreaped, Known
      <4> QED
        BY <2>1, <3>1, <3>2, <4>1 DEF Unreaped
    <3> QED
      BY <3>3, <3>4
  <2> QED
    BY <2>3, <2>4, <2>5, ShellFrame DEF Pipeline
<1> QED
  BY <1>1, <1>2, <1>3, <1>4, <1>5, <1>6, <1>7, <1>8 DEF C!Execute

(* A line of two commands: the pipes, the two forks, the wait.             *)
LEMMA PipelineStep ==
  ASSUME CshInv, C!ExecutePipe
  PROVE  CshInv'
<1>0. CshTypes /\ InLine /\ (Sound => ShellHolds /\ KeepsOpen /\ Remembers /\ (interrupts = 0 => Unreaped))
  BY DEF CshInv
<1>1. ASSUME pc = "errPipe" \/ pc = "outPipe", UNCHANGED <<line, i, pid, execIds, proc, fds, interrupts>>,
             pc' = "done", faults' = faults + 1
      PROVE  CshInv'
  <2>1. CshTypes' /\ Apace /\ ~Sound' /\ pc' \notin OneCommand \cup Pipeline
    BY <1>0, <1>1 DEF CshTypes, Apace, Sound, Between, OneCommand, Pipeline
  <2> QED
    BY <2>1, ShellFrame DEF Pipeline
<1>2. ASSUME pc = "errPipe" \/ pc = "outPipe", pc' = IF pc = "errPipe" THEN "outPipe" ELSE "spawn",
             UNCHANGED <<line, i, pid, execIds, proc, interrupts, faults>>,
             fds' = [fds EXCEPT ![0] = @ \cup C!Ends(IF pc = "errPipe" THEN 0 ELSE i)]
      PROVE  CshInv'
  <2>1. Len(line) = 2 /\ i \in {1, 2} /\ (pc = "errPipe" => i = 1)
    BY <1>0, <1>2 DEF InLine, Pipeline
  <2>2. /\ fds' \in [{0, 1, 2} -> SUBSET ({0, 1, 2} \X {"r", "w"})] /\ \A p \in C!Pids : fds'[p] = fds[p]
        /\ fds'[0] = fds[0] \cup C!Ends(IF pc = "errPipe" THEN 0 ELSE i)
    BY <1>0, <1>2, <2>1 DEF CshTypes, C!Ends, C!Pids
  <2>3. CshTypes' /\ Apace
    BY <1>0, <1>2, <2>2 DEF CshTypes, Apace, Pipeline
  <2>4. Sound => ShellHolds' /\ Remembers' /\ (interrupts = 0 => Unreaped')
    <3> SUFFICES ASSUME Sound PROVE ShellHolds' /\ Remembers' /\ (interrupts = 0 => Unreaped')
      OBVIOUS
    <3>1. CASE pc = "errPipe"
      <4>1. ShellHolds'
        BY <1>0, <1>2, <2>1, <2>2, <3>1 DEF ShellHolds, Between
      <4>2. Remembers'
        BY <1>0, <1>2, <3>1 DEF Remembers, Between
      <4> QED
        BY <1>0, <1>2, <3>1, <4>1, <4>2 DEF Unreaped, Known
    <3>2. CASE pc = "outPipe"
      <4>1. ShellHolds'
        BY <1>0, <1>2, <2>1, <2>2, <3>2 DEF ShellHolds, Between
      <4>2. Remembers'
        BY <1>0, <1>2, <3>2 DEF Remembers, Between
      <4> QED
        BY <1>0, <1>2, <3>2, <4>1, <4>2 DEF Unreaped, Known
    <3> QED
      BY <1>2, <3>1, <3>2
  <2>5. pc' \notin OneCommand /\ pc' # "errPipe" /\ pc' \in Running /\ i' \in {1, 2}
    BY <1>2, <2>1 DEF OneCommand, Running
  <2> QED
    BY <2>1, <2>3, <2>4, <2>5, ShellFrame
<1>3. CASE C!ErrPipe
  <2>1. pc = "errPipe" /\ UNCHANGED <<line, i, pid, execIds, proc, interrupts>>
    BY <1>3 DEF C!ErrPipe, C!Fails, C!bounds
  <2>2. \/ pc' = "outPipe" /\ fds' = [fds EXCEPT ![0] = @ \cup C!Ends(0)] /\ UNCHANGED faults
        \/ pc' = "done" /\ faults' = faults + 1 /\ UNCHANGED fds
    BY <1>3 DEF C!ErrPipe, C!Opened, C!Fails, C!bounds, C!Sh
  <2> QED
    BY <1>1, <1>2, <2>1, <2>2
<1>4. CASE C!OutPipe
  <2>1. pc = "outPipe" /\ UNCHANGED <<line, i, pid, execIds, proc, interrupts>>
    BY <1>4 DEF C!OutPipe, C!Fails, C!bounds
  <2>2. \/ pc' = "spawn" /\ fds' = [fds EXCEPT ![0] = @ \cup C!Ends(i)] /\ UNCHANGED faults
        \/ pc' = "done" /\ faults' = faults + 1 /\ UNCHANGED fds
    BY <1>4 DEF C!OutPipe, C!Opened, C!Fails, C!bounds, C!Sh
  <2> QED
    BY <1>1, <1>2, <2>1, <2>2
<1>5. CASE C!Spawn
  <2>0. Len(line) = 2 /\ i \in {1, 2} /\ pc = "spawn" /\ pc' = "remember"
    BY <1>0, <1>5 DEF InLine, Pipeline, C!Spawn
  <2>1. CASE C!Forked(i) /\ UNCHANGED C!bounds
    <3>1. UNCHANGED <<line, i, execIds, interrupts, faults>> /\ pid' = i /\ Forking(i) /\ i \in C!Pids
      BY <1>5, <2>0, <2>1 DEF C!Spawn, C!bounds, C!Forked, C!Sh, Forking, C!Pids
    <3>2. /\ proc' \in [C!Pids -> [state : States, out : Nat, err : Nat]]
          /\ fds' \in [{0, 1, 2} -> SUBSET ({0, 1, 2} \X {"r", "w"})] /\ fds'[0] = fds[0] /\ fds'[i] = fds[0]
          /\ \A p \in C!Pids : p # i => proc'[p] = proc[p] /\ fds'[p] = fds[p]
          /\ proc'[i].state = "forked"
      BY <3>1, ForkingFacts
    <3>3. CshTypes'
      BY <1>0, <2>0, <3>1, <3>2 DEF CshTypes, Pipeline
    <3>4. InLine'
      BY <1>0, <2>0, <3>1, <3>2 DEF InLine, OneCommand
    <3>5. ASSUME Sound' PROVE ShellHolds' /\ KeepsOpen' /\ Remembers' /\ (interrupts' = 0 => Unreaped')
      <4>1. Sound
        BY <2>0, <3>1, <3>5 DEF Sound
      <4>2. ShellHolds' /\ Remembers'
        BY <1>0, <2>0, <3>1, <3>2, <4>1 DEF ShellHolds, Remembers, Between
      <4>3. C!ErrTo = 0 /\ C!ErrTo' = 0 /\ <<0, "w">> \in fds[0]
        BY <1>0, <2>0, <3>1, <4>1 DEF C!ErrTo, C!Single, ShellHolds, C!Ends
      <4>4. \A p \in C!Pids : p # i /\ C!Alive(p)' => C!Alive(p)
        BY <3>2 DEF C!Alive
      <4>5. KeepsOpen'
        BY <1>0, <2>0, <3>2, <4>1, <4>3, <4>4 DEF KeepsOpen
      <4>6. ASSUME interrupts' = 0 PROVE Unreaped'
        <5>1. Unreaped
          BY <1>0, <3>1, <4>1, <4>6
        <5>2. \A p \in C!Pids : proc'[p].state \notin Over => Known(p)'
          BY <2>0, <3>1, <3>2, <5>1 DEF Unreaped, Known
        <5> QED
          BY <2>0, <3>1, <5>1, <5>2 DEF Unreaped
      <4> QED
        BY <4>2, <4>5, <4>6
    <3> QED
      BY <3>3, <3>4, <3>5 DEF CshInv
  <2>2. CASE pid' = -1 /\ C!Fails /\ UNCHANGED <<proc, fds>>
    <3>1. UNCHANGED <<line, i, execIds, proc, fds, interrupts>> /\ pid' = -1 /\ faults' = faults + 1
      BY <1>5, <2>2 DEF C!Spawn, C!Fails
    <3>2. CshTypes' /\ Apace /\ ~Sound' /\ pc' \notin OneCommand /\ pc' # "errPipe"
      BY <1>0, <2>0, <3>1 DEF CshTypes, Apace, Sound, OneCommand, Pipeline
    <3> QED
      BY <2>0, <3>1, <3>2, ShellFrame
  <2> QED
    BY <1>5, <2>1, <2>2 DEF C!Spawn
<1>6. CASE C!Remember
  <2>1. /\ UNCHANGED <<line, pid, proc, interrupts, faults>> /\ pc = "remember"
        /\ execIds' = Append(execIds, pid) /\ i' = i + 1
        /\ fds' = [fds EXCEPT ![0] = @ \ C!Behind] /\ pc' = IF i = Len(line) THEN "readErr" ELSE "outPipe"
    BY <1>6 DEF C!Remember, C!bounds, C!Closed, C!Sh
  <2>2. Len(line) = 2 /\ i \in {1, 2}
    BY <1>0, <2>1 DEF InLine, Pipeline
  <2>3. /\ fds' \in [{0, 1, 2} -> SUBSET ({0, 1, 2} \X {"r", "w"})] /\ \A p \in C!Pids : fds'[p] = fds[p]
        /\ fds'[0] = fds[0] \ C!Behind
    BY <1>0, <2>1 DEF CshTypes, C!Pids
  <2>4. execIds' \in Seq(-1 .. 2)
    BY <1>0, <2>1, AppendFacts DEF CshTypes
  <2>5. i' \in {1, 2, 3} /\ (pc' = "outPipe" => i = 1 /\ i' = 2) /\ (pc' = "readErr" => i = 2)
    BY <2>1, <2>2
  <2>6. CshTypes' /\ Apace
    BY <1>0, <2>1, <2>3, <2>4, <2>5 DEF CshTypes, Apace, Pipeline
  <2>7. Sound => ShellHolds' /\ Remembers' /\ (interrupts = 0 => Unreaped')
    <3> SUFFICES ASSUME Sound PROVE ShellHolds' /\ Remembers' /\ (interrupts = 0 => Unreaped')
      OBVIOUS
    <3>1. fds[0] = C!Ends(0) \cup C!Ends(1) \cup IF i = 2 THEN C!Ends(2) ELSE {}
      BY <1>0, <2>1 DEF ShellHolds
    <3>2. ASSUME i = 1 PROVE ShellHolds' /\ Remembers'
      <4>1. C!Behind = {} /\ pc' = "outPipe" /\ i' = 2
        BY <2>1, <2>2, <3>2 DEF C!Behind
      <4> QED
        BY <2>3, <3>1, <3>2, <4>1 DEF ShellHolds, Remembers, Between
    <3>3. ASSUME i = 2 PROVE ShellHolds' /\ Remembers'
      <4>1. C!Behind = C!Ends(1) \cup {<<0, "w">>} /\ pc' = "readErr"
        BY <2>1, <2>2, <3>3 DEF C!Behind
      <4>2. fds'[0] = {<<0, "r">>} \cup C!Ends(2)
        BY <2>3, <3>1, <3>3, <4>1 DEF C!Ends
      <4> QED
        BY <4>1, <4>2 DEF ShellHolds, Remembers, Between
    <3>4. ShellHolds' /\ Remembers'
      BY <2>2, <3>2, <3>3
    <3>5. ASSUME interrupts = 0 PROVE Unreaped'
      <4>1. /\ execIds' \in Seq(C!Pids) /\ pid \in C!Pids
            /\ \A p \in C!Pids : proc[p].state \notin Over => \E k \in DOMAIN execIds' : execIds'[k] = p
        BY <2>1, <3>5, PidAppended
      <4> QED
        BY <2>1, <4>1 DEF Unreaped, Known
    <3> QED
      BY <3>4, <3>5
  <2>8. pc' \notin OneCommand /\ pc' # "errPipe" /\ pc' \in Running /\ (pc' \in {"outPipe", "spawn", "remember"} => i' \in {1, 2})
    BY <2>1, <2>5 DEF OneCommand, Running
  <2> QED
    BY <2>2, <2>6, <2>7, <2>8, ShellFrame
<1>7. CASE C!ReadErr
  <2>1. UNCHANGED <<line, i, pid, execIds, proc, interrupts, faults>> /\ pc = "readErr"
    BY <1>7 DEF C!ReadErr, C!Drain, C!bounds
  <2>2. CASE UNCHANGED <<pc, fds>>
    BY <1>0, <2>1, <2>2, Unmoved
  <2>3. CASE C!Eof(0) /\ pc' = "readOut" /\ C!Closed({<<0, "r">>, <<Len(line), "w">>})
    <3>1. Len(line) = 2
      BY <1>0, <2>1 DEF InLine, Pipeline
    <3>2. fds' = [fds EXCEPT ![0] = @ \ {<<0, "r">>, <<2, "w">>}]
      BY <2>3, <3>1 DEF C!Closed, C!Sh
    <3>3. /\ fds' \in [{0, 1, 2} -> SUBSET ({0, 1, 2} \X {"r", "w"})] /\ \A p \in C!Pids : fds'[p] = fds[p]
          /\ fds'[0] = fds[0] \ {<<0, "r">>, <<2, "w">>}
      BY <1>0, <3>2 DEF CshTypes, C!Pids
    <3>4. CshTypes' /\ Apace
      BY <1>0, <2>1, <2>3, <3>3 DEF CshTypes, Pipeline, Apace
    <3>5. Sound => ShellHolds' /\ Remembers' /\ (interrupts = 0 => Unreaped') /\ Calm
      <4> SUFFICES ASSUME Sound PROVE ShellHolds' /\ Remembers' /\ (interrupts = 0 => Unreaped') /\ Calm
        OBVIOUS
      <4>1. Calm
        <5>1. \A p \in C!Pids : <<0, "w">> \notin fds[p]
          BY <1>0, <2>3 DEF C!Eof, CshTypes, C!Pids
        <5> QED
          BY <1>0, <3>1, <5>1 DEF KeepsOpen, Calm, C!ErrTo, C!Single
      <4>2. fds'[0] = {<<2, "r">>}
        BY <1>0, <2>1, <3>3 DEF ShellHolds, C!Ends
      <4>3. ShellHolds' /\ Remembers'
        BY <2>3, <4>2 DEF ShellHolds, Remembers, Between
      <4>4. ASSUME interrupts = 0 PROVE Unreaped'
        BY <1>0, <2>1, <2>3, <4>4 DEF Unreaped, Known
      <4> QED
        BY <4>1, <4>3, <4>4
    <3>6. pc' \notin OneCommand /\ pc' \notin {"errPipe", "outPipe", "spawn", "remember"}
      BY <2>3 DEF OneCommand
    <3> QED
      BY <3>1, <3>4, <3>5, <3>6, ShellFrame
  <2> QED
    BY <1>7, <2>2, <2>3 DEF C!ReadErr, C!Drain
<1>8. CASE C!ReadOut
  <2>1. UNCHANGED <<line, i, pid, execIds, proc, interrupts, faults>> /\ pc = "readOut"
    BY <1>8 DEF C!ReadOut, C!Drain, C!bounds
  <2>2. CASE UNCHANGED <<pc, fds>>
    BY <1>0, <2>1, <2>2, Unmoved
  <2>3. CASE pc' = "waitAll" /\ C!Closed({<<Len(line), "r">>})
    <3>1. Len(line) = 2
      BY <1>0, <2>1 DEF InLine, Pipeline
    <3>2. fds' = [fds EXCEPT ![0] = @ \ {<<2, "r">>}]
      BY <2>3, <3>1 DEF C!Closed, C!Sh
    <3>3. /\ fds' \in [{0, 1, 2} -> SUBSET ({0, 1, 2} \X {"r", "w"})] /\ \A p \in C!Pids : fds'[p] = fds[p]
          /\ fds'[0] = fds[0] \ {<<2, "r">>}
      BY <1>0, <3>2 DEF CshTypes, C!Pids
    <3>4. CshTypes' /\ Apace
      BY <1>0, <2>1, <2>3, <3>3 DEF CshTypes, Pipeline, Apace
    <3>5. Sound => ShellHolds' /\ Remembers' /\ (interrupts = 0 => Unreaped') /\ Calm
      <4> SUFFICES ASSUME Sound PROVE ShellHolds' /\ Remembers' /\ (interrupts = 0 => Unreaped') /\ Calm
        OBVIOUS
      <4>1. Calm
        BY <2>1, CalmAt DEF Running
      <4>2. fds'[0] = {}
        BY <1>0, <2>1, <3>3 DEF ShellHolds
      <4>3. ShellHolds' /\ Remembers'
        BY <2>3, <4>2 DEF ShellHolds, Remembers, Between
      <4>4. ASSUME interrupts = 0 PROVE Unreaped'
        BY <1>0, <2>1, <2>3, <4>4 DEF Unreaped, Known
      <4> QED
        BY <4>1, <4>3, <4>4
    <3>6. pc' \notin OneCommand /\ pc' \notin {"errPipe", "outPipe", "spawn", "remember"}
      BY <2>3 DEF OneCommand
    <3> QED
      BY <3>1, <3>4, <3>5, <3>6, ShellFrame
  <2> QED
    BY <1>8, <2>2, <2>3 DEF C!ReadOut, C!Drain
<1>9. CASE C!WaitAll
  <2>1. UNCHANGED <<line, i, pid, execIds, fds, interrupts, faults>> /\ pc = "waitAll"
    BY <1>9 DEF C!WaitAll, C!bounds
  <2>2. Len(line) = 2
    BY <1>0, <2>1 DEF InLine, Pipeline
  <2>3. CASE execIds = <<>> /\ pc' = "done" /\ UNCHANGED proc
    <3>1. CshTypes' /\ Apace
      BY <1>0, <2>1, <2>3 DEF CshTypes, Between, Apace
    <3>2. Sound => ShellHolds' /\ Remembers' /\ (interrupts = 0 => Unreaped') /\ Calm
      <4> SUFFICES ASSUME Sound PROVE ShellHolds' /\ Remembers' /\ (interrupts = 0 => Unreaped') /\ Calm
        OBVIOUS
      <4>1. ShellHolds' /\ Remembers' /\ Calm
        BY <1>0, <2>1, <2>3, CalmAt DEF ShellHolds, Remembers, Running
      <4>2. ASSUME interrupts = 0 PROVE Unreaped'
        BY <1>0, <2>1, <2>3, <4>2 DEF Unreaped, Known
      <4> QED
        BY <4>1, <4>2
    <3>3. pc' \notin OneCommand /\ pc' \notin {"errPipe", "outPipe", "spawn", "remember"}
      BY <2>3 DEF OneCommand
    <3> QED
      BY <2>2, <3>1, <3>2, <3>3, ShellFrame
  <2>4. CASE execIds # <<>> /\ pc' = "popAll" /\ C!Waited(Head(execIds))
    <3>1. /\ proc' \in [C!Pids -> [state : States, out : Nat, err : Nat]]
          /\ \A q \in C!Pids : proc'[q].state \in {"forked", "running"} => proc'[q].state = proc[q].state
      BY <2>4, AnyWaited
    <3>2. CshTypes' /\ InLine'
      BY <1>0, <2>1, <2>4, <3>1 DEF CshTypes, InLine, OneCommand, Pipeline
    <3>3. ASSUME Sound' PROVE ShellHolds' /\ KeepsOpen' /\ Remembers' /\ (interrupts' = 0 => Unreaped')
      <4>1. Sound
        BY <2>1, <3>3 DEF Sound
      <4>2. Calm
        BY <2>1, <4>1, CalmAt DEF Running
      <4>3. ShellHolds' /\ Remembers'
        BY <1>0, <2>1, <2>4, <4>1 DEF ShellHolds, Remembers, Between
      <4>4. KeepsOpen'
        BY <3>1, <4>2 DEF KeepsOpen, Calm, C!Alive
      <4>5. ASSUME interrupts' = 0 PROVE Unreaped'
        <5>1. Unreaped
          BY <1>0, <2>1, <4>1, <4>5
        <5>2. PICK h \in C!Pids : h = Head(execIds)
          BY <2>4, <5>1 DEF Unreaped
        <5>3. proc'[h].state \in Over /\ \A q \in C!Pids : proc[q].state \in Over => proc'[q].state \in Over
          BY <2>4, <5>2, PidWaited
        <5>4. \A q \in C!Pids : proc'[q].state \notin Over => Known(q)'
          BY <2>1, <2>4, <5>1, <5>3 DEF Unreaped, Known
        <5> QED
          BY <2>1, <2>4, <5>1, <5>2, <5>3, <5>4 DEF Unreaped
      <4> QED
        BY <4>3, <4>4, <4>5
    <3> QED
      BY <3>2, <3>3 DEF CshInv
  <2> QED
    BY <1>9, <2>3, <2>4 DEF C!WaitAll
<1>10. CASE C!PopAll
  <2>1. /\ UNCHANGED <<line, i, pid, proc, fds, interrupts, faults>> /\ pc = "popAll"
        /\ execIds' = IF execIds = <<>> THEN <<>> ELSE Tail(execIds)
        /\ pc' = IF execIds = <<>> THEN "undefined" ELSE "waitAll"
    BY <1>10 DEF C!PopAll, C!Popped, C!kernel, C!bounds
  <2>2. execIds' \in Seq(-1 .. 2)
    BY <1>0, <2>1 DEF CshTypes
  <2>3. CshTypes' /\ Apace /\ Len(line) = 2
    BY <1>0, <2>1, <2>2 DEF CshTypes, Apace, InLine, Pipeline
  <2>4. pc' \notin OneCommand /\ pc' \notin {"errPipe", "outPipe", "spawn", "remember"}
    BY <2>1 DEF OneCommand
  <2>5. Sound /\ Sound' => ShellHolds' /\ Remembers' /\ (interrupts = 0 => Unreaped') /\ Calm
    <3> SUFFICES ASSUME Sound, Sound' PROVE ShellHolds' /\ Remembers' /\ (interrupts = 0 => Unreaped') /\ Calm
      OBVIOUS
    <3>1. execIds # <<>> /\ pc' = "waitAll" /\ execIds' = Tail(execIds)
      BY <2>1 DEF Sound
    <3>2. ShellHolds' /\ Remembers' /\ Calm
      BY <1>0, <2>1, <3>1, CalmAt DEF ShellHolds, Remembers, Running, Between
    <3>3. ASSUME interrupts = 0 PROVE Unreaped'
      <4>1. Unreaped /\ execIds \in Seq(C!Pids)
        BY <1>0, <3>3 DEF Unreaped
      <4>2. /\ execIds' \in Seq(C!Pids)
            /\ \A k \in DOMAIN execIds : k = 1 \/ (k - 1 \in DOMAIN execIds' /\ execIds'[k - 1] = execIds[k])
            /\ Head(execIds) = execIds[1]
        BY <3>1, <4>1
      <4>3. \A q \in C!Pids : proc[q].state \notin Over => \E k \in DOMAIN execIds : execIds[k] = q /\ k # 1
        BY <2>1, <4>1, <4>2 DEF Unreaped, Known
      <4>4. ASSUME NEW q \in C!Pids, proc'[q].state \notin Over PROVE Known(q)'
        <5>1. PICK k \in DOMAIN execIds : execIds[k] = q /\ k # 1
          BY <2>1, <4>3, <4>4
        <5>2. k - 1 \in DOMAIN execIds' /\ execIds'[k - 1] = q
          BY <4>2, <5>1
        <5> QED
          BY <5>2 DEF Known
      <4> QED
        BY <3>1, <4>2, <4>4 DEF Unreaped
    <3> QED
      BY <3>2, <3>3
  <2> QED
    BY <2>3, <2>4, <2>5, ShellFrame
<1> QED
  BY <1>3, <1>4, <1>5, <1>6, <1>7, <1>8, <1>9, <1>10 DEF C!ExecutePipe

(* Every action of the shell and its processes.                            *)
LEMMA CshStep ==
  ASSUME CshInv, C!Next
  PROVE  CshInv'
<1>0. CshTypes /\ InLine /\ (Sound => ShellHolds /\ KeepsOpen /\ Remembers /\ (interrupts = 0 => Unreaped))
  BY DEF CshInv
<1>1. ASSUME NEW l \in Lines, C!ReadLine(l) PROVE CshInv'
  <2>1. /\ UNCHANGED <<pid, execIds, fds, interrupts, faults>> /\ pc = "raw" /\ line' = l /\ i' = 1
        /\ proc' = [p \in C!Pids |-> C!Idle]
        /\ pc' = IF l = <<>> THEN "prompt" ELSE IF Len(l) = 1 THEN "execute" ELSE "errPipe"
    BY <1>1 DEF C!ReadLine
  <2>2. /\ l \in Seq(Commands) /\ (pc' = "execute" => Len(l) = 1) /\ (pc' = "errPipe" => Len(l) = 2)
        /\ pc' \in {"prompt", "execute", "errPipe"}
    <3>1. l \in Seq(Commands) /\ Len(l) <= 2
      BY LinesAssumption
    <3>2. l # <<>> => Len(l) # 0
      BY <3>1
    <3>3. PICK n \in Nat : n = Len(l)
      BY <3>1
    <3>8. n <= 2 => n = 0 \/ n = 1 \/ n = 2
      OBVIOUS
    <3>4. l = <<>> \/ Len(l) = 1 \/ Len(l) = 2
      BY <3>1, <3>2, <3>3, <3>8, Zenon
    <3>5. CASE l = <<>>
      BY <2>1, <3>1, <3>5
    <3>6. CASE l # <<>> /\ Len(l) = 1
      BY <2>1, <3>1, <3>6
    <3>7. CASE l # <<>> /\ Len(l) = 2
      BY <2>1, <3>1, <3>7
    <3> QED
      BY <3>4, <3>5, <3>6, <3>7
  <2>3. \A p \in C!Pids : proc'[p].state = "none"
    BY <2>1 DEF C!Idle
  <2>4. proc' \in [C!Pids -> [state : States, out : Nat, err : Nat]]
    BY <2>1 DEF C!Idle, States
  <2>5. CshTypes'
    BY <1>0, <2>1, <2>2, <2>4 DEF CshTypes, OneCommand, Pipeline, Between
  <2>6. InLine'
    BY <2>1, <2>2, <2>3 DEF InLine, OneCommand, Pipeline
  <2>7. ASSUME Sound' PROVE ShellHolds' /\ KeepsOpen' /\ Remembers' /\ Unreaped'
    <3>1. fds[0] = {} /\ execIds = <<>>
      BY <1>0, <2>1, <2>7 DEF Sound, ShellHolds, Remembers, Between
    <3>2. ShellHolds' /\ Remembers'
      BY <2>1, <2>2, <3>1 DEF ShellHolds, Remembers
    <3>3. KeepsOpen'
      BY <2>3 DEF KeepsOpen, C!Alive
    <3>4. Unreaped'
      BY <2>1, <2>2, <2>3, <3>1 DEF Unreaped, Over
    <3> QED
      BY <3>2, <3>3, <3>4
  <2> QED
    BY <2>5, <2>6, <2>7 DEF CshInv
<1> QED
  BY <1>1, ExecuteStep, PipelineStep, ProcessStep, InterruptStep DEF C!Next

(* Steps of the other components leave the shell alone.                    *)
LEMMA CshAlways == Spec => []CshInv
<1>1. Init => CshInv
  BY CshStart DEF Init
<1>2. CshInv /\ [Next]_all => CshInv'
  <2> SUFFICES ASSUME CshInv, [Next]_all PROVE CshInv'
    OBVIOUS
  <2>1. CASE C!Next
    BY <2>1, CshStep
  <2>2. CASE UNCHANGED csh
    BY <2>2, Unmoved DEF csh
  <2> QED
    BY <2>1, <2>2 DEF Next, all
<1> QED
  BY <1>1, <1>2, PTL DEF Spec

(* csh.cpp: at every prompt that pipe() and fork() have let it come to,    *)
(* the shell holds no descriptor and remembers no pid, no command of a     *)
(* line before still runs, wherever the interrupts fell, and without an    *)
(* interrupt every one has been waited for.                                *)
THEOREM NothingIsLeft == Spec => []NothingLeft
<1>1. CshInv => C!NothingLeft
  <2> SUFFICES ASSUME CshInv, pc = "raw", faults = 0
               PROVE  /\ fds[0] = {} /\ execIds = <<>>
                      /\ \A p \in C!Pids : ~C!Alive(p) /\ (interrupts = 0 => proc[p].state \in {"none", "reaped"})
    BY DEF C!NothingLeft, C!Sh
  <2>1. Sound /\ ShellHolds /\ KeepsOpen /\ Remembers /\ (interrupts = 0 => Unreaped)
    BY DEF CshInv, Sound
  <2>2. fds[0] = {} /\ execIds = <<>>
    BY <2>1 DEF ShellHolds, Remembers, Between
  <2>3. \A p \in C!Pids : ~C!Alive(p)
    BY <2>1 DEF KeepsOpen
  <2>4. interrupts = 0 => \A p \in C!Pids : proc[p].state \in {"none", "reaped"}
    BY <2>1, <2>2 DEF Unreaped, Known, Over
  <2> QED
    BY <2>2, <2>3, <2>4
<1> QED
  BY CshAlways, <1>1, PTL DEF NothingLeft
=============================================================================
