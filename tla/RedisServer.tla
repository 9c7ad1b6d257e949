---------------------------- MODULE RedisServer ----------------------------
(***************************************************************************)
(* redis-server/src/Server.cpp: the poll loop, with what it keeps for each *)
(* socket, and clients that send a request and wait for its reply.         *)
(*                                                                         *)
(* Text is a sequence of tokens; an array of n bulk strings is "*n", "nl"  *)
(* and n times "$", "nl", "v", "nl".  It arrives, and leaves, in any       *)
(* pieces.  A reply is <<client, number of the request, part>>, part by    *)
(* part.  A descriptor is the smallest free number, as the kernel gives    *)
(* it.                                                                     *)
(***************************************************************************)
EXTENDS Integers, Sequences, SequencesExt, FiniteSets, FiniteSetsExt

CONSTANTS Clients,
          Requests,    \* numbers of strings in an array; 0 stands for a bulk string alone
          MaxRequests, \* bound of the requests of a connection
          MaxConnects, \* bound of the connections of a client
          MaxFaults    \* bound of the failures of fcntl()

VARIABLES serverRunning,
          socketInfo, \* per descriptor: the event waited for, the text (of the request, or of the response), characters left to send
          owner,      \* the kernel's table: whose connection an open descriptor is
          toServer, toClient,
          asked,      \* per client: the requests of this connection
          got,        \* per client: the replies received on this connection
          connects, faults

vars == <<serverRunning, socketInfo, owner, toServer, toClient, asked, got, connects, faults>>

Free == "free"
Fds == 1 .. Cardinality(Clients) + 1
Bulk == <<"$", "nl", "v", "nl">>
RequestText(n) ==
  IF n = 0 THEN Bulk
  ELSE [k \in 1 .. 4 * n + 2 |-> IF k = 1 THEN "*" ELSE IF k = 2 THEN "nl" ELSE Bulk[((k - 3) % 4) + 1]]
Parts(c, k) == <<<<c, k, 1>>, <<c, k, 2>>>>

Server(running) ==
  /\ serverRunning = running /\ socketInfo = << >> /\ owner = [fd \in Fds |-> Free]
  /\ toServer = [c \in Clients |-> <<>>] /\ toClient = [c \in Clients |-> <<>>]
  /\ asked = [c \in Clients |-> <<>>] /\ got = [c \in Clients |-> <<>>]
  /\ connects = [c \in Clients |-> 0] /\ faults = 0

Init == Server(TRUE)
Ended == Server(FALSE)

Open(c) == \E fd \in Fds : owner[fd] = c
FdOf(c) == CHOOSE fd \in Fds : owner[fd] = c
Count(s, t) == Cardinality({k \in 1 .. Len(s) : s[k] = t})
With(fd, v) == [f \in DOMAIN socketInfo \cup {fd} |-> IF f = fd THEN v ELSE socketInfo[f]]
Without(fd) == [f \in DOMAIN socketInfo \ {fd} |-> socketInfo[f]]
Reading(text) == [event |-> "POLLIN", text |-> text, response |-> <<>>, left |-> 0]

-----------------------------------------------------------------------------
(* The clients.  They leave at any time; what was in flight is lost.       *)

Accept(c) ==
  /\ serverRunning /\ ~Open(c) /\ connects[c] < MaxConnects
  /\ LET fd == Min({f \in Fds : owner[f] = Free})
     IN  /\ socketInfo' = With(fd, Reading(<<>>))
         /\ \/ owner' = [owner EXCEPT ![fd] = c] /\ UNCHANGED faults
            \/ faults < MaxFaults /\ faults' = faults + 1 /\ UNCHANGED owner
  /\ connects' = [connects EXCEPT ![c] = @ + 1]
  /\ asked' = [asked EXCEPT ![c] = <<>>] /\ got' = [got EXCEPT ![c] = <<>>]
  /\ toServer' = [toServer EXCEPT ![c] = <<>>] /\ toClient' = [toClient EXCEPT ![c] = <<>>]
  /\ UNCHANGED serverRunning

Answered(c) == Len(got[c]) = 2 * Len(asked[c])

Ask(c, n) ==
  /\ Open(c) /\ Answered(c) /\ Len(asked[c]) < MaxRequests
  /\ toServer[c] = <<>> /\ toClient[c] = <<>>
  /\ asked' = [asked EXCEPT ![c] = Append(@, n)]
  /\ toServer' = [toServer EXCEPT ![c] = RequestText(n)]
  /\ UNCHANGED <<serverRunning, socketInfo, owner, toClient, got, connects, faults>>

Receive(c) ==
  /\ Open(c) /\ toClient[c] # <<>>
  /\ got' = [got EXCEPT ![c] = Append(@, Head(toClient[c]))]
  /\ toClient' = [toClient EXCEPT ![c] = Tail(@)]
  /\ UNCHANGED <<serverRunning, socketInfo, owner, toServer, asked, connects, faults>>

Leave(c) ==
  /\ Open(c) /\ toServer[c] # <<"closed">>
  /\ toServer' = [toServer EXCEPT ![c] = <<"closed">>]
  /\ UNCHANGED <<serverRunning, socketInfo, owner, toClient, asked, got, connects, faults>>

-----------------------------------------------------------------------------
(* readRequest: is the text complete?  Arrays by the numbers of line ends  *)
(* and dollars, with too many of either an error that is answered as well; *)
(* a bulk string alone never is (the length is compared with `<'); text    *)
(* that starts with neither is an error.                                   *)

(* Mutant: one line end too many is waited for.                            *)
CompleteLate(text, n) ==
  CASE Head(text) = "$" -> 4 < Len(text)
    [] Head(text) = "*" -> Count(text, "nl") > 2 * n + 1 \/ Count(text, "$") > n
    [] OTHER -> TRUE

Complete(text, n) ==
  CASE Head(text) = "$" -> 4 < Len(text)
    [] Head(text) = "*" -> \/ Count(text, "nl") > 2 * n + 1 \/ Count(text, "$") > n
                           \/ Count(text, "nl") = 2 * n + 1 /\ Count(text, "$") = n
    [] OTHER -> TRUE

(* A piece is received: the text grows, is complete and gets its reply, or *)
(* the client is gone.                                                     *)
readRequest(fd) ==
  /\ serverRunning /\ fd \in DOMAIN socketInfo /\ owner[fd] # Free /\ socketInfo[fd].event = "POLLIN"
  /\ LET c == owner[fd]
     IN  /\ toServer[c] # <<>>
         /\ \/ /\ toServer[c] = <<"closed">>
               /\ owner' = [owner EXCEPT ![fd] = Free] /\ socketInfo' = Without(fd)
               /\ UNCHANGED toServer
            \/ /\ toServer[c] # <<"closed">>
               /\ \E k \in 1 .. Len(toServer[c]) :
                    LET text == socketInfo[fd].text \o SubSeq(toServer[c], 1, k)
                        number == Len(asked[c])
                    IN  /\ toServer' = [toServer EXCEPT ![c] = SubSeq(@, k + 1, Len(@))]
                        /\ socketInfo' = With(fd,
                             IF Complete(text, asked[c][number])
                               THEN [event |-> "POLLOUT", text |-> <<>>, response |-> Parts(c, number), left |-> 2]
                               ELSE Reading(text))
               /\ UNCHANGED owner
  /\ UNCHANGED <<serverRunning, toClient, asked, got, connects, faults>>

(* Mutant: after a partial send the response starts again.                 *)
RestAgain(info) == info.response

(* What is left of the response: its last characters.                      *)
Rest(info) == SubSeq(info.response, Len(info.response) - info.left + 1, Len(info.response))

(* To a client that is gone: lost like any other, an error that drops the  *)
(* response, or SIGPIPE, which nobody handles and which ends the process.  *)
sendResponse(fd) ==
  /\ serverRunning /\ fd \in DOMAIN socketInfo /\ owner[fd] # Free /\ socketInfo[fd].event = "POLLOUT"
  /\ LET c == owner[fd]
         info == socketInfo[fd]
         gone == toServer[c] = <<"closed">>
     IN  \/ /\ gone /\ socketInfo' = With(fd, Reading(<<>>)) /\ UNCHANGED <<serverRunning, owner, toClient>>
         \/ /\ gone /\ serverRunning' = FALSE /\ owner' = [f \in Fds |-> Free] /\ UNCHANGED <<socketInfo, toClient>>
         \/ /\ \E sent \in 1 .. info.left :
                 /\ toClient' = [toClient EXCEPT ![c] = IF gone THEN @ ELSE @ \o SubSeq(Rest(info), 1, sent)]
                 /\ socketInfo' = With(fd, IF sent = info.left THEN Reading(<<>>)
                                                               ELSE [info EXCEPT !.left = @ - sent])
            /\ UNCHANGED <<serverRunning, owner>>
  /\ UNCHANGED <<toServer, asked, got, connects, faults>>

(* SIGINT: every socket is closed, and the loop ends.                      *)
closeSockets ==
  /\ serverRunning /\ serverRunning' = FALSE
  /\ owner' = [fd \in Fds |-> Free]
  /\ UNCHANGED <<socketInfo, toServer, toClient, asked, got, connects, faults>>

-----------------------------------------------------------------------------
Serve == \E fd \in Fds : readRequest(fd) \/ sendResponse(fd)
Next ==
  \/ \E c \in Clients : Accept(c) \/ (\E n \in Requests : Ask(c, n)) \/ Receive(c) \/ Leave(c)
  \/ Serve \/ closeSockets

(* poll() reports every socket that is ready, and the loop goes through    *)
(* all of them; clients read what has arrived.                             *)
Fairness ==
  /\ \A fd \in Fds : WF_vars(readRequest(fd) \/ sendResponse(fd))
  /\ \A c \in Clients : WF_vars(Receive(c))
Spec == Init /\ [][Next]_vars /\ Fairness

-----------------------------------------------------------------------------
(* The n-th part that a client is to get.                                  *)
Reply(c, n) == Parts(c, (n + 1) \div 2)[IF n % 2 = 1 THEN 1 ELSE 2]

(* A client gets the replies to the requests of its own connection, in     *)
(* order, whole and once, however the text is cut and whoever had the      *)
(* descriptor before; and a descriptor that is open is waited on.          *)
RepliesInOrder ==
  \A c \in Clients :
    /\ Len(got[c]) <= 2 * Len(asked[c])
    /\ \A n \in 1 .. Len(got[c]) : got[c][n] = Reply(c, n)
    /\ serverRunning /\ Open(c) => FdOf(c) \in DOMAIN socketInfo

(* An array that was sent is answered, unless its client leaves or the     *)
(* server is stopped.                                                      *)
RequestAnswered ==
  \A c \in Clients :
    (Open(c) /\ asked[c] # <<>> /\ Last(asked[c]) # 0) ~> (Answered(c) \/ ~Open(c) \/ toServer[c] = <<"closed">>)
=============================================================================
