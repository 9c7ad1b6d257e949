----------------------------- MODULE HttpServer -----------------------------
(***************************************************************************)
(* networking/http-server.cpp: the accept loop, the tasks that answer one  *)
(* connection each on a thread pool, and the interrupt handler.            *)
(*                                                                         *)
(* A descriptor is the smallest free number, as the kernel gives it.  A    *)
(* request is what the code asks of it: the method, whether the path       *)
(* exists and whether it lies in the served directory; the answer is its   *)
(* status.  It arrives whole or in pieces, and recv() is called once.      *)
(* Request lines of more than the 512 bytes of the buffer, and files,      *)
(* which share the numbers of descriptors, are left out.                   *)
(***************************************************************************)
EXTENDS Integers, SequencesExt, FiniteSets, FiniteSetsExt

CONSTANTS Clients,
          N_THREADS,   \* 10 in the code: threads, and permits of the semaphore
          HttpRequests \* records: get, exists, inside

VARIABLES httpServerRunning, main, clientSocket, semaphore, activeClientSockets,
          tasks,   \* the pool's queue of descriptors
          worker,  \* per thread: where it is, its descriptor, what it read and of whom
          backlog, owner, \* the kernel: connections to be accepted, whose each open descriptor is
          client,  \* "connected", "begun", "sent", "left"
          request, \* per client
          replies  \* per client: the answers it got, with what they answer

vars == <<httpServerRunning, main, clientSocket, semaphore, activeClientSockets, tasks, worker,
          backlog, owner, client, request, replies>>
outside == <<client, request, replies>>

Free == "free"
Fds == 1 .. Cardinality(Clients)
Threads == 1 .. N_THREADS
Codes == {"200 OK", "404 Not Found", "405 Method Not Allowed"}
Parts == {"nothing", "method", "path", "all"}  \* how far recv() got in the request
Resting == [pc |-> "idle", fd |-> 0, from |-> Free, part |-> "nothing"]

Server(running, at, clients, said) ==
  /\ httpServerRunning = running /\ main = at /\ clientSocket = 0 /\ semaphore = N_THREADS
  /\ activeClientSockets = {} /\ tasks = <<>> /\ worker = [w \in Threads |-> Resting]
  /\ backlog = clients /\ owner = [fd \in Fds |-> Free]
  /\ client = [c \in Clients |-> said] /\ request \in [Clients -> HttpRequests]
  /\ replies = [c \in Clients |-> <<>>]

Init == Server(TRUE, "accept", SetToSeq(Clients), "connected")
Ended == Server(FALSE, "exit", <<>>, "left")

-----------------------------------------------------------------------------
(* The clients, whose connections wait in the backlog: one that comes      *)
(* later is one that is accepted later.                                    *)

Say(c, said) ==
  /\ client' = [client EXCEPT ![c] = said]
  /\ UNCHANGED <<httpServerRunning, main, clientSocket, semaphore, activeClientSockets, tasks, worker,
                 backlog, owner, request, replies>>

SendOrLeave(c) ==
  \/ client[c] = "connected" /\ \E said \in {"begun", "sent", "left"} : Say(c, said)
  \/ client[c] = "begun" /\ \E said \in {"sent", "left"} : Say(c, said)

LeaveWaiting(c) == client[c] = "sent" /\ Say(c, "left")

-----------------------------------------------------------------------------
(* main: accept, look at the flag, wait for a permit, hand over.           *)

Accept ==
  /\ main = "accept" /\ httpServerRunning /\ backlog # <<>> /\ main' = "check"
  /\ clientSocket' = Min({fd \in Fds : owner[fd] = Free})
  /\ owner' = [owner EXCEPT ![clientSocket'] = Head(backlog)] /\ backlog' = Tail(backlog)
  /\ UNCHANGED <<httpServerRunning, semaphore, activeClientSockets, tasks, worker, outside>>

Check ==
  /\ \/ main = "check"
     \/ main = "accept" /\ ~httpServerRunning
  /\ main' = IF httpServerRunning THEN "acquire" ELSE "exit"
  /\ UNCHANGED <<httpServerRunning, clientSocket, semaphore, activeClientSockets, tasks, worker, backlog,
                 owner, outside>>

Enqueue ==
  /\ main = "acquire" /\ semaphore > 0 /\ semaphore' = semaphore - 1
  /\ tasks' = Append(tasks, clientSocket) /\ clientSocket' = 0 /\ main' = "accept"
  /\ UNCHANGED <<httpServerRunning, activeClientSockets, worker, backlog, owner, outside>>

-----------------------------------------------------------------------------
(* handleClient on thread w.  Nobody gets the mutex once the handler is    *)
(* stuck on it.                                                            *)

Unlocked == \A w \in Threads : worker[w].pc # "stuck"
At(w, pc) == main # "killed" /\ worker[w].pc = pc
Goes(w, pc) == worker' = [worker EXCEPT ![w].pc = pc]

Take(w) ==
  /\ At(w, "idle") /\ tasks # <<>> /\ main # "exit" /\ tasks' = Tail(tasks)
  /\ worker' = [worker EXCEPT ![w] = [Resting EXCEPT !.pc = "insert", !.fd = Head(tasks)]]
  /\ UNCHANGED <<httpServerRunning, main, clientSocket, semaphore, activeClientSockets, backlog, owner, outside>>

Insert(w) ==
  /\ At(w, "insert") /\ Unlocked /\ Goes(w, "recv")
  /\ activeClientSockets' = activeClientSockets \cup {worker[w].fd}
  /\ UNCHANGED <<httpServerRunning, main, clientSocket, semaphore, tasks, backlog, owner, outside>>

(* recv returns with what has arrived of the request: nothing when the     *)
(* handler has shut the connection, anything up to what it had sent when   *)
(* the client has left or reset the connection.                            *)
Arrived(c) ==
  CASE c = Free -> {"nothing"}
    [] c # Free /\ client[c] = "begun" -> {"method", "path"}
    [] c # Free /\ client[c] = "sent" -> {"all"}
    [] OTHER -> Parts

Recv(w) ==
  /\ At(w, "recv")
  /\ LET c == owner[worker[w].fd]
     IN  /\ c # Free => client[c] # "connected"
         /\ \E part \in Arrived(c) :
              worker' = [worker EXCEPT ![w].pc = "send", ![w].part = part,
                                       ![w].from = IF part = "nothing" THEN Free ELSE c]
  /\ UNCHANGED <<httpServerRunning, main, clientSocket, semaphore, activeClientSockets, tasks, backlog, owner, outside>>

ResponseCode(r) ==
  IF r.get THEN (IF r.exists /\ r.inside THEN "200 OK" ELSE "404 Not Found") ELSE "405 Method Not Allowed"

(* What is read is taken for the whole request: a beginning of the method  *)
(* is not GET; from the whole method on ("path"), what there is may name a *)
(* file or the directory itself.  No other method begins with GET.         *)
ResponseCodes(part, c) ==
  CASE part = "all" -> {ResponseCode(request[c])}
    [] part = "path" /\ request[c].get -> {"200 OK", "404 Not Found"}
    [] OTHER -> {"405 Method Not Allowed"}

(* A send to a client that is gone succeeds, or raises SIGPIPE, which      *)
(* nobody handles and which ends the process.                              *)
Send(w) ==
  /\ At(w, "send")
  /\ LET c == owner[worker[w].fd]
         from == worker[w].from
         part == worker[w].part
         gone == c # Free => client[c] = "left"
     IN  \/ /\ worker' = [worker EXCEPT ![w] = [Resting EXCEPT !.pc = "close", !.fd = worker[w].fd]]
            /\ UNCHANGED main
            /\ \E code \in ResponseCodes(part, from) :
                 replies' = IF gone THEN replies
                            ELSE [replies EXCEPT ![c] = Append(@, <<from, part, code>>)]
         \/ gone /\ main' = "killed" /\ UNCHANGED <<worker, replies>>
  /\ UNCHANGED <<httpServerRunning, clientSocket, semaphore, activeClientSockets, tasks, backlog, owner,
                 client, request>>

Close(w) ==
  /\ At(w, "close") /\ Goes(w, "erase") /\ owner' = [owner EXCEPT ![worker[w].fd] = Free]
  /\ UNCHANGED <<httpServerRunning, main, clientSocket, semaphore, activeClientSockets, tasks, backlog, outside>>

Erase(w) ==
  /\ At(w, "erase") /\ Unlocked /\ worker' = [worker EXCEPT ![w] = Resting] /\ semaphore' = semaphore + 1
  /\ activeClientSockets' = activeClientSockets \ {worker[w].fd}
  /\ UNCHANGED <<httpServerRunning, main, clientSocket, tasks, backlog, owner, outside>>

-----------------------------------------------------------------------------
(* handleInterrupt, on a thread without the mutex; or on one that has it,  *)
(* and then waits for itself.                                              *)

handleInterrupt ==
  /\ main # "killed" /\ httpServerRunning /\ httpServerRunning' = FALSE
  /\ \/ /\ owner' = [fd \in Fds |-> IF fd \in activeClientSockets THEN Free ELSE owner[fd]]
        /\ activeClientSockets' = {} /\ UNCHANGED worker
     \/ /\ \E w \in Threads : worker[w].pc \in {"insert", "erase"} /\ Goes(w, "stuck")
        /\ UNCHANGED <<owner, activeClientSockets>>
  /\ UNCHANGED <<main, clientSocket, semaphore, tasks, backlog, outside>>

-----------------------------------------------------------------------------
Main == Accept \/ Check \/ Enqueue
Thread(w) == Take(w) \/ Insert(w) \/ Recv(w) \/ Send(w) \/ Close(w) \/ Erase(w)
Next ==
  (\E c \in Clients : SendOrLeave(c) \/ LeaveWaiting(c)) \/ Main \/ (\E w \in Threads : Thread(w)) \/ handleInterrupt

(* Threads are scheduled.  A client that is connected says something or    *)
(* leaves, and ends what it has begun: one that did neither would keep its *)
(* thread for ever, since recv() has no time-out.                          *)
Fairness ==
  /\ WF_vars(Main) /\ \A w \in Threads : WF_vars(Thread(w))
  /\ \A c \in Clients : WF_vars(SendOrLeave(c))
Spec == Init /\ [][Next]_vars /\ Fairness

-----------------------------------------------------------------------------
(* Whatever numbers descriptors get, whichever threads are at work and     *)
(* wherever the requests are cut, a client gets at most one answer, one to *)
(* what was read of its own request: the right one if that was all of it,  *)
(* and anything but a refusal of the method only if it asked with GET.     *)
OwnReply ==
  \A c \in Clients :
    \/ replies[c] = <<>>
    \/ \E part \in Parts \ {"nothing"}, code \in Codes :
         /\ replies[c] = <<<<c, part, code>>>>
         /\ part = "all" => code = ResponseCode(request[c])
         /\ code # "405 Method Not Allowed" => request[c].get

(* A client that has sent its request is answered, unless it leaves, or    *)
(* the server is interrupted or ended by a SIGPIPE.                        *)
RequestServed ==
  \A c \in Clients :
    (client[c] = "sent") ~> (replies[c] # <<>> \/ client[c] = "left" \/ ~httpServerRunning \/ main = "killed")

(* A client is answered as its request asks.  The code breaks this: it     *)
(* answers the first piece that arrives.                                   *)
RightReply ==
  \A c \in Clients : \A k \in DOMAIN replies[c] : replies[c][k][3] = ResponseCode(request[c])

(* A client that leaves does not end the server for the others.  The code  *)
(* breaks this: SIGPIPE is not ignored.                                    *)
NeverKilled == main # "killed"
=============================================================================
