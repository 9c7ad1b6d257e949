----------------------------- MODULE MCServers -----------------------------
(***************************************************************************)
(* The shell, the judge, the Redis server and the HTTP server, one of them *)
(* at a time: the others are in a state in which they have ended.          *)
(***************************************************************************)
EXTENDS Integers, Sequences, FiniteSets

CONSTANTS Lines, Capacity, MAX_HISTORY, MaxLines, MaxInterrupts, MaxFaults,
          Texts,
          Clients, Requests, MaxRequests, MaxConnects,
          Browsers, N_THREADS, HttpRequests

(* A command line has at most as many commands as the model of the shell   *)
(* has process numbers.  Users are not confused with a free descriptor.    *)
Commands == [kind : STRING, out : Nat, err : Nat, reads : BOOLEAN]
ASSUME LinesAssumption == \A l \in Lines : l \in Seq(Commands) /\ Len(l) <= 2
ASSUME TextsAssumption == \A t \in Texts : t \in [lines : Seq(STRING), nl : BOOLEAN]
ASSUME ClientsAssumption == IsFiniteSet(Clients) /\ "free" \notin Clients
ASSUME RequestsAssumption == Requests \subseteq Nat
ASSUME BrowsersAssumption == IsFiniteSet(Browsers) /\ "free" \notin Browsers
ASSUME ThreadsAssumption == N_THREADS \in Nat

VARIABLES pc, line, i, pid, execIds, handler, proc, fds, pipe, history, file, cwd, typed, interrupts, faults,
          expected, actual, errLog, box, program, ended, timer, verdict,
          serverRunning, socketInfo, owner, toServer, toClient, asked, got, connects, failures,
          httpServerRunning, main, clientSocket, semaphore, activeClientSockets, tasks, worker, backlog, holder,
          client, request, replies

Command(k, out, err, reads) == [kind |-> k, out |-> out, err |-> err, reads |-> reads]
MCLines ==
  {<<>>, <<Command("bin", 2, 1, TRUE)>>, <<Command("cd", 0, 0, FALSE)>>, <<Command("exit", 0, 0, FALSE)>>,
   <<Command("missing", 0, 1, FALSE)>>, <<Command("exit", 1, 0, FALSE), Command("missing", 0, 1, FALSE)>>}
  \cup {<<Command("bin", out, err, FALSE), Command("bin", last, 0, reads)>> :
          out \in {0, 2}, err \in {0, 1}, last \in {1, 2}, reads \in BOOLEAN}
MCTexts ==
  {[lines |-> l, nl |-> b] : l \in UNION {[1 .. k -> {"", "x"}] : k \in 0 .. 2}, b \in BOOLEAN}
    \ {[lines |-> <<>>, nl |-> TRUE]}
MCHttpRequests == {[get |-> TRUE, exists |-> TRUE, inside |-> TRUE]}

C == INSTANCE Csh
J == INSTANCE CodeJudge
R == INSTANCE RedisServer WITH faults <- failures
H == INSTANCE HttpServer WITH Clients <- Browsers, owner <- holder

-----------------------------------------------------------------------------
csh == <<pc, line, i, pid, execIds, handler, proc, fds, pipe, history, file, cwd, typed, interrupts, faults>>
judge == <<expected, actual, errLog, box, program, ended, timer, verdict>>
redis == <<serverRunning, socketInfo, owner, toServer, toClient, asked, got, connects, failures>>
http == <<httpServerRunning, main, clientSocket, semaphore, activeClientSockets, tasks, worker, backlog, holder,
          client, request, replies>>
all == <<csh, judge, redis, http>>

Init ==
  \/ C!Init /\ J!Ended /\ R!Ended /\ H!Ended
  \/ C!Ended /\ J!Init /\ R!Ended /\ H!Ended
  \/ C!Ended /\ J!Ended /\ R!Init /\ H!Ended
  \/ C!Ended /\ J!Ended /\ R!Ended /\ H!Init

Next ==
  \/ C!Next /\ UNCHANGED <<judge, redis, http>>
  \/ J!Next /\ UNCHANGED <<csh, redis, http>>
  \/ R!Next /\ UNCHANGED <<csh, judge, http>>
  \/ H!Next /\ UNCHANGED <<csh, judge, redis>>

Spec == Init /\ [][Next]_all /\ C!Fairness /\ J!Fairness /\ R!Fairness /\ H!Fairness

-----------------------------------------------------------------------------
(* The shell keeps no descriptor, pid or running command from one line to  *)
(* the next.                                                               *)
NothingLeft == C!NothingLeft

(* The judge's verdict fits how the program ended and what it printed.     *)
VerdictRight == J!VerdictRight

(* Both servers answer the connection that asked, in order and once,       *)
(* although descriptors are used again: Redis the whole of each request,   *)
(* the HTTP server what one recv() has read of it.                         *)
RepliesRight == R!RepliesInOrder /\ H!OwnReply

(* Every command line, every judgement and every request comes to its end, *)
(* unless the client leaves or the server is stopped.                      *)
AllAnswered == C!LineEnds /\ J!JudgeEnds /\ R!RequestAnswered /\ H!RequestServed

(* A browser is answered as its whole request asks, and one that leaves    *)
(* does not end the server.  The code of the HTTP server breaks both.      *)
RightReply == H!RightReply
NeverKilled == H!NeverKilled
=============================================================================
