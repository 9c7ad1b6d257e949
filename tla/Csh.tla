-------------------------------- MODULE Csh --------------------------------
(***************************************************************************)
(* cli/csh.cpp: the loop of the shell, a single command, a pipeline, and   *)
(* the interrupt key.                                                      *)
(*                                                                         *)
(* Pipe 0 carries the standard errors of a pipeline, pipe k the output of  *)
(* its k-th command (both outputs of a single command).  An end is         *)
(* <<pipe, "r">> or <<pipe, "w">>; a pipe ends for its reader when nobody  *)
(* holds its writing end.  A process with pid k runs the k-th command, pid *)
(* 0 is the shell, -1 what fork() says when it fails.  A command is a      *)
(* record: its kind, the chunks it writes to both outputs, and whether it  *)
(* reads its input to the end.  What is printed is left out.               *)
(***************************************************************************)
EXTENDS Integers, Sequences, SequencesExt, FiniteSets

CONSTANTS Lines,         \* command lines, sequences of commands
          Capacity,      \* chunks a pipe holds
          MAX_HISTORY,   \* 500 in the code
          MaxLines,      \* bound of the lines that are typed
          MaxInterrupts, \* bound of the interrupts
          MaxFaults      \* bound of the failures of pipe() and fork()

VARIABLES pc,      \* where the shell is
          line, i, \* the commands, and the one to be started
          pid,     \* what fork() returned
          execIds, \* static Shell::execIds
          handler, \* what SIGINT does: "default" or "kill"
          proc,    \* the processes
          fds,     \* the ends of pipes that each process holds
          pipe,    \* chunks in each pipe
          history, file, cwd,
          typed, interrupts, faults

vars == <<pc, line, i, pid, execIds, handler, proc, fds, pipe, history, file, cwd, typed, interrupts, faults>>
kernel == <<proc, fds, pipe>>
disk == <<history, file, cwd>>
bounds == <<typed, interrupts, faults>>

Sh == 0
Pids == 1 .. 2
Builtins == {"cd", "exit", "history", "help"}
Idle == [state |-> "none", out |-> 0, err |-> 0]

Shell(at) ==
  /\ pc = at /\ line = <<>> /\ i = 1 /\ pid = 0 /\ execIds = <<>> /\ handler = "default"
  /\ proc = [p \in Pids |-> Idle] /\ fds = [p \in {Sh} \cup Pids |-> {}] /\ pipe = [k \in 0 .. 2 |-> 0]
  /\ history = <<>> /\ file = <<>> /\ cwd = "start"
  /\ typed = 0 /\ interrupts = 0 /\ faults = 0

Init == Shell("prompt")
Ended == Shell("gone")

Single == Len(line) = 1
Ends(k) == {<<k, "r">>, <<k, "w">>}
Opened(k) == fds' = [fds EXCEPT ![Sh] = @ \cup Ends(k)]
Closed(S) == fds' = [fds EXCEPT ![Sh] = @ \ S]
Eof(k) == pipe[k] = 0 /\ \A p \in DOMAIN fds : <<k, "w">> \notin fds[p]
Alive(p) == proc[p].state \in {"forked", "running"}

(* pipe() or fork() fails, and the function returns.                       *)
Fails == faults < MaxFaults /\ faults' = faults + 1 /\ UNCHANGED <<typed, interrupts>>

-----------------------------------------------------------------------------
(* run: the prompt and the line.  A shell that leaked a descriptor is not  *)
(* followed any further.                                                   *)

Prompt == pc = "prompt" /\ pc' = "raw" /\ UNCHANGED <<line, i, pid, execIds, handler, kernel, disk, bounds>>

add(h, l) == IF Len(h) = MAX_HISTORY THEN Append(Tail(h), l) ELSE Append(h, l)

ReadLine(l) ==
  /\ pc = "raw" /\ typed < MaxLines /\ fds[Sh] = {}
  /\ typed' = typed + 1 /\ line' = l /\ i' = 1
  /\ proc' = [p \in Pids |-> Idle] /\ pipe' = [k \in 0 .. 2 |-> 0]
  /\ IF l = <<>>
       THEN pc' = "prompt" /\ UNCHANGED <<handler, history>>
       ELSE /\ history' = add(history, l) /\ handler' = "kill"
            /\ pc' = IF Len(l) = 1 THEN "execute" ELSE "errPipe"
  /\ UNCHANGED <<pid, execIds, fds, file, cwd, interrupts, faults>>

Done == /\ pc = "done" /\ handler' = "default" /\ pc' = "prompt"
        /\ UNCHANGED <<line, i, pid, execIds, kernel, disk, bounds>>

-----------------------------------------------------------------------------
(* execute: one command.                                                   *)

handleShellCommand ==
  /\ pc = "execute" /\ line[1].kind \in Builtins \cup {"missing"}
  /\ pc' = IF line[1].kind = "exit" THEN "gone" ELSE "done"
  /\ file' = IF line[1].kind = "exit" THEN history ELSE file
  /\ cwd' = IF line[1].kind = "cd" THEN "there" ELSE cwd
  /\ UNCHANGED <<line, i, pid, execIds, handler, kernel, history, bounds>>

ExecPipe ==
  /\ pc = "execute" /\ line[1].kind = "bin"
  /\ \/ pc' = "fork" /\ Opened(1) /\ UNCHANGED bounds
     \/ pc' = "done" /\ Fails /\ UNCHANGED fds
  /\ UNCHANGED <<line, i, pid, execIds, handler, proc, pipe, disk>>

Forked(k) == /\ proc' = [proc EXCEPT ![k].state = "forked"]
             /\ fds' = [fds EXCEPT ![k] = fds[Sh]]
             /\ pid' = k

ExecFork ==
  /\ pc = "fork"
  /\ \/ pc' = "push" /\ Forked(1) /\ UNCHANGED bounds
     \/ pc' = "done" /\ Fails /\ pid' = -1 /\ UNCHANGED <<proc, fds>>
  /\ UNCHANGED <<line, i, execIds, handler, pipe, disk>>

ExecPush ==
  /\ pc = "push" /\ pc' = "read" /\ execIds' = Append(execIds, pid) /\ Closed({<<1, "w">>})
  /\ UNCHANGED <<line, i, pid, handler, proc, pipe, disk, bounds>>

(* Read from pipe k until it ends, then close what is given.               *)
Drain(at, k, then, S) ==
  /\ pc = at
  /\ \/ pipe[k] > 0 /\ pipe' = [pipe EXCEPT ![k] = @ - 1] /\ UNCHANGED <<pc, fds>>
     \/ Eof(k) /\ pc' = then /\ Closed(S) /\ UNCHANGED pipe
  /\ UNCHANGED <<line, i, pid, execIds, handler, proc, disk, bounds>>

ExecRead == Drain("read", 1, "wait", {<<1, "r">>})

(* waitpid: -1 waits for any child; without children it returns at once.   *)
Waited(p) ==
  LET mine == {q \in Pids : (p = -1 \/ q = p) /\ proc[q].state \in {"forked", "running", "zombie"}}
  IN  \/ mine = {} /\ UNCHANGED proc
      \/ \E q \in mine : proc[q].state = "zombie" /\ proc' = [proc EXCEPT ![q].state = "reaped"]

ExecWait == /\ pc = "wait" /\ pc' = "pop" /\ Waited(pid)
            /\ UNCHANGED <<line, i, pid, execIds, handler, fds, pipe, disk, bounds>>

(* execIds.pop(): of an empty queue, undefined.                            *)
Popped(then) ==
  /\ execIds' = IF execIds = <<>> THEN <<>> ELSE Tail(execIds)
  /\ pc' = IF execIds = <<>> THEN "undefined" ELSE then

ExecPop == pc = "pop" /\ Popped("done") /\ UNCHANGED <<line, i, pid, handler, kernel, disk, bounds>>

-----------------------------------------------------------------------------
(* executePipe.                                                            *)

ErrPipe ==
  /\ pc = "errPipe"
  /\ \/ pc' = "outPipe" /\ Opened(0) /\ UNCHANGED bounds
     \/ pc' = "done" /\ Fails /\ UNCHANGED fds
  /\ UNCHANGED <<line, i, pid, execIds, handler, proc, pipe, disk>>

OutPipe ==
  /\ pc = "outPipe"
  /\ \/ pc' = "spawn" /\ Opened(i) /\ UNCHANGED bounds
     \/ pc' = "done" /\ Fails /\ UNCHANGED fds
  /\ UNCHANGED <<line, i, pid, execIds, handler, proc, pipe, disk>>

(* A fork that fails is not noticed.                                       *)
Spawn ==
  /\ pc = "spawn" /\ pc' = "remember"
  /\ \/ Forked(i) /\ UNCHANGED bounds
     \/ pid' = -1 /\ Fails /\ UNCHANGED <<proc, fds>>
  /\ UNCHANGED <<line, i, execIds, handler, pipe, disk>>

(* Mutant: the writing end of the previous command's pipe is kept.         *)
BehindKeepingWriter == IF i = Len(line) THEN {<<0, "w">>, <<i - 1, "r">>} ELSE {}

(* What the shell closes once command i is started.                        *)
Behind == (IF i > 1 THEN Ends(i - 1) ELSE {}) \cup (IF i = Len(line) THEN {<<0, "w">>} ELSE {})

Remember ==
  /\ pc = "remember" /\ execIds' = Append(execIds, pid) /\ i' = i + 1
  /\ Closed(Behind) /\ pc' = IF i = Len(line) THEN "readErr" ELSE "outPipe"
  /\ UNCHANGED <<line, pid, handler, proc, pipe, disk, bounds>>

(* The errors first, to their end; then the output of the last command.    *)
ReadErr == Drain("readErr", 0, "readOut", {<<0, "r">>, <<Len(line), "w">>})
ReadOut == Drain("readOut", Len(line), "waitAll", {<<Len(line), "r">>})

WaitAll ==
  /\ pc = "waitAll"
  /\ IF execIds = <<>> THEN pc' = "done" /\ UNCHANGED proc ELSE pc' = "popAll" /\ Waited(Head(execIds))
  /\ UNCHANGED <<line, i, pid, execIds, handler, fds, pipe, disk, bounds>>

PopAll == pc = "popAll" /\ Popped("waitAll") /\ UNCHANGED <<line, i, pid, handler, kernel, disk, bounds>>

-----------------------------------------------------------------------------
(* The processes.  A child takes its ends, closes the rest and becomes the *)
(* command; a builtin of a pipeline does its work in the child.            *)

shell == <<pc, line, i, pid, execIds, handler, history, cwd, bounds>>

Ends1(p) == IF Single THEN {<<1, "w">>}
            ELSE {<<0, "w">>, <<p, "w">>} \cup (IF p > 1 THEN {<<p - 1, "r">>} ELSE {})
ErrTo == IF Single THEN 1 ELSE 0

Become(p) ==
  /\ proc[p].state = "forked"
  /\ proc' = [proc EXCEPT ![p] = [state |-> "running", out |-> line[p].out, err |-> line[p].err]]
  /\ fds' = [fds EXCEPT ![p] = Ends1(p)]
  /\ file' = IF line[p].kind = "exit" THEN history ELSE file
  /\ UNCHANGED <<shell, pipe>>

Dead(pr, S) == [p \in Pids |-> IF p \in S THEN [pr[p] EXCEPT !.state = "zombie"] ELSE pr[p]]
Dropped(S) == [p \in DOMAIN fds |-> IF p \in S THEN {} ELSE fds[p]]

(* A chunk to pipe k; nobody left to read it: SIGPIPE.                     *)
Put(p, k, field) ==
  /\ proc[p].state = "running" /\ proc[p][field] > 0
  /\ IF \A q \in DOMAIN fds : <<k, "r">> \notin fds[q]
       THEN proc' = Dead(proc, {p}) /\ fds' = Dropped({p}) /\ UNCHANGED pipe
       ELSE /\ pipe[k] < Capacity /\ pipe' = [pipe EXCEPT ![k] = @ + 1]
            /\ proc' = [proc EXCEPT ![p][field] = @ - 1] /\ UNCHANGED fds
  /\ UNCHANGED <<shell, file>>

WriteOut(p) == Put(p, p, "out")
WriteErr(p) == Put(p, ErrTo, "err")

Reads(p) == p > 1 /\ line[p].reads

ReadIn(p) ==
  /\ proc[p].state = "running" /\ Reads(p) /\ pipe[p - 1] > 0
  /\ pipe' = [pipe EXCEPT ![p - 1] = @ - 1]
  /\ UNCHANGED <<shell, file, proc, fds>>

Exit(p) ==
  /\ proc[p].state = "running" /\ proc[p].out = 0 /\ proc[p].err = 0 /\ (Reads(p) => Eof(p - 1))
  /\ proc' = Dead(proc, {p}) /\ fds' = Dropped({p})
  /\ UNCHANGED <<shell, file, pipe>>

-----------------------------------------------------------------------------
(* The interrupt key, outside of the raw mode of readLine.  The terminal   *)
(* signals the whole group: commands die; the shell's handler, which a     *)
(* child has until it becomes its command, kills what is in execIds.       *)

Interrupt ==
  /\ interrupts < MaxInterrupts /\ pc \notin {"raw", "gone", "undefined"}
  /\ interrupts' = interrupts + 1
  /\ LET killed == IF handler = "kill" THEN {p \in Pids : Alive(p) /\ (-1 \in Range(execIds) \/ p \in Range(execIds))} ELSE {}
         dead == killed \cup {p \in Pids : proc[p].state = "running" /\ line[p].kind = "bin"}
     IN  proc' = Dead(proc, dead) /\ fds' = Dropped(dead)
  /\ IF handler = "kill" THEN execIds' = <<>> /\ UNCHANGED pc ELSE pc' = "gone" /\ UNCHANGED execIds
  /\ UNCHANGED <<line, i, pid, handler, pipe, disk, typed, faults>>

-----------------------------------------------------------------------------
Execute == handleShellCommand \/ ExecPipe \/ ExecFork \/ ExecPush \/ ExecRead \/ ExecWait \/ ExecPop
ExecutePipe == ErrPipe \/ OutPipe \/ Spawn \/ Remember \/ ReadErr \/ ReadOut \/ WaitAll \/ PopAll
Process(p) == Become(p) \/ WriteOut(p) \/ WriteErr(p) \/ ReadIn(p) \/ Exit(p)

Next == Prompt \/ (\E l \in Lines : ReadLine(l)) \/ Done \/ Execute \/ ExecutePipe \/ (\E p \in Pids : Process(p)) \/ Interrupt

(* The scheduler of the operating system runs every process that can run.  *)
Fairness == WF_vars(Prompt \/ Done \/ Execute \/ ExecutePipe) /\ \A p \in Pids : WF_vars(Process(p))

Spec == Init /\ [][Next]_vars /\ Fairness

-----------------------------------------------------------------------------
(* When the shell asks for the next line no descriptor and no pid is left  *)
(* over, no command still runs (interrupted or not), and unless it was     *)
(* interrupted every command has been waited for.                          *)
NothingLeft ==
  pc = "raw" /\ faults = 0 =>
    /\ fds[Sh] = {} /\ execIds = <<>>
    /\ \A p \in Pids : ~Alive(p) /\ (interrupts = 0 => proc[p].state \in {"none", "reaped"})

(* Every line comes to its end if what the last command of a pipeline      *)
(* writes fits into the pipe: the errors are read to their end before the  *)
(* first byte of the output, and a full pipe would hold the command, and   *)
(* with it the errors, open.                                               *)
LineEnds ==
  (pc \notin {"raw", "gone", "undefined"} /\ (line # <<>> => Single \/ Last(line).out <= Capacity))
    ~> (pc \in {"raw", "gone", "undefined"})
=============================================================================
