----------------------------- MODULE CodeJudge -----------------------------
(***************************************************************************)
(* misc/cjudge.cpp: CodeJudge::run.  The judge forks a process that sets   *)
(* up the sandbox, forks the program and waits for it, with a thread that  *)
(* kills the program when its time is up; the judge waits for that process *)
(* and gives the verdict.                                                  *)
(*                                                                         *)
(* A text is its lines and whether the last one is ended.  What the limits *)
(* and name spaces are set to is left out; that one of these calls failed  *)
(* is one outcome of the set-up.                                           *)
(***************************************************************************)
EXTENDS Integers, Sequences

CONSTANTS Texts \* what the program may print, and the expected output

VARIABLES expected,  \* answersFile
          actual,    \* .actual.out
          errLog,    \* .actual.err, its lines
          box,       \* the process that sets up the sandbox: "setup", "fork", "wait", or its exit
          program,   \* "none", "running", or how it ended; "reaped" once waited for
          ended,     \* how it ended, once waited for
          timer,     \* the thread of setTimeLimit
          verdict

vars == <<expected, actual, errLog, box, program, ended, timer, verdict>>

Nothing == [lines |-> <<>>, nl |-> FALSE]

Init ==
  /\ expected \in {t \in Texts : t.lines # <<>> /\ t.lines[1] # ""}
  /\ actual = Nothing /\ errLog = <<>>
  /\ box = "setup" /\ program = "none" /\ ended = "none" /\ timer = "none" /\ verdict = "none"

(* A judge whose sandbox could not be set up has given its verdict.        *)
Ended ==
  /\ expected = Nothing /\ actual = Nothing /\ errLog = <<"failed">>
  /\ box = "exit1" /\ program = "none" /\ ended = "none" /\ timer = "none" /\ verdict = "GERR"

-----------------------------------------------------------------------------
(* The process of the sandbox.                                             *)

setupSandbox ==
  /\ box = "setup"
  /\ \/ box' = "fork" /\ UNCHANGED errLog
     \/ box' = "exit1" /\ errLog' = Append(errLog, "failed")
  /\ UNCHANGED <<expected, actual, program, ended, timer, verdict>>

(* When the second fork fails run() returns false in the child, and main   *)
(* makes of it an exit with 0.                                             *)
SandboxFork ==
  /\ box = "fork"
  /\ \/ box' = "wait" /\ program' = "running" /\ timer' = "sleeping" /\ UNCHANGED errLog
     \/ box' = "exit0" /\ errLog' = Append(errLog, "no fork") /\ UNCHANGED <<program, timer>>
  /\ UNCHANGED <<expected, actual, ended, verdict>>

WaitProgram ==
  /\ box = "wait" /\ program \in {"exit0", "exit1", "crash", "killed"}
  /\ program' = "reaped" /\ ended' = program
  /\ box' = IF program = "exit0" THEN "exit0" ELSE "failing"
  /\ UNCHANGED <<expected, actual, errLog, timer, verdict>>

BoxFailed ==
  /\ box = "failing" /\ box' = "exit1" /\ errLog' = Append(errLog, "Sandboxed process failed.")
  /\ UNCHANGED <<expected, actual, program, ended, timer, verdict>>

-----------------------------------------------------------------------------
(* The program, which may also never end.                                  *)

ProgramWrites ==
  /\ program = "running" /\ errLog = <<>>
  /\ \E l \in {"TLE.", "message"} : errLog' = <<l>>
  /\ UNCHANGED <<expected, actual, box, program, ended, timer, verdict>>

ProgramEnds ==
  /\ program = "running" /\ program' \in {"exit0", "exit1", "crash"}
  /\ actual' \in Texts
  /\ UNCHANGED <<expected, errLog, box, ended, timer, verdict>>

-----------------------------------------------------------------------------
(* setTimeLimit's thread, which ends with its process.  A program that has *)
(* ended but is not yet waited for still counts as running.                *)

BoxAlive == box \in {"wait", "failing"}

TimeUp ==
  /\ timer = "sleeping" /\ BoxAlive
  /\ timer' = IF program = "reaped" THEN "over" ELSE "up"
  /\ UNCHANGED <<expected, actual, errLog, box, program, ended, verdict>>

Kill == program' = IF program = "running" THEN "killed" ELSE program
Say == errLog' = Append(errLog, "TLE.")

(* Mutant: the program is killed first.                                    *)
KillThenSay ==
  /\ BoxAlive
  /\ \/ timer = "up" /\ timer' = "killing" /\ Kill /\ UNCHANGED errLog
     \/ timer = "killing" /\ timer' = "over" /\ Say /\ UNCHANGED program
  /\ UNCHANGED <<expected, actual, box, ended, verdict>>

TimeLimit ==
  /\ BoxAlive
  /\ \/ timer = "up" /\ timer' = "killing" /\ Say /\ UNCHANGED program
     \/ timer = "killing" /\ timer' = "over" /\ Kill /\ UNCHANGED errLog
  /\ UNCHANGED <<expected, actual, box, ended, verdict>>

-----------------------------------------------------------------------------
(* The verdict.  compareFiles goes on while both streams are good; a       *)
(* stream is not after a last line without an end, and reads an empty line *)
(* past the end.                                                           *)

Getlines(t) == Len(t.lines) + (IF t.nl \/ t.lines = <<>> THEN 1 ELSE 0)
Line(t, k) == IF k <= Len(t.lines) THEN t.lines[k] ELSE ""
compareFiles(a, e) ==
  \A k \in 1 .. Getlines(a) : k <= Getlines(e) => Line(a, k) = Line(e, k)

(* The process of the sandbox ends by exit only, so that the signals that  *)
(* stand for MLE are never seen.                                           *)
Verdict ==
  /\ verdict = "none" /\ box \in {"exit0", "exit1"}
  /\ verdict' = IF box = "exit0" THEN (IF compareFiles(actual, expected) THEN "PASS" ELSE "FAIL")
                ELSE IF errLog # <<>> /\ errLog[1] = "TLE." THEN "TLE" ELSE "GERR"
  /\ UNCHANGED <<expected, actual, errLog, box, program, ended, timer>>

-----------------------------------------------------------------------------
Box == setupSandbox \/ SandboxFork \/ WaitProgram \/ BoxFailed
Timer == TimeUp \/ TimeLimit
Next == Box \/ ProgramWrites \/ ProgramEnds \/ Timer \/ Verdict

(* The judge's processes and its thread run; the program need not end.     *)
Fairness == WF_vars(Box) /\ WF_vars(Timer) /\ WF_vars(Verdict)
Spec == Init /\ [][Next]_vars /\ Fairness

-----------------------------------------------------------------------------
Plain(t) == t.nl /\ \A k \in 1 .. Len(t.lines) : t.lines[k] # ""

(* PASS is said of a program only that ended by itself with 0, and, of     *)
(* texts without empty lines whose last line is ended, only if it printed  *)
(* what was expected.  A program that was killed by the time limit without *)
(* having written an error is judged TLE.                                  *)
VerdictRight ==
  /\ verdict = "PASS" => /\ ended = "exit0"
                         /\ Plain(actual) /\ Plain(expected) => actual = expected
  /\ verdict # "none" /\ ended = "killed" /\ errLog[1] # "message" => verdict = "TLE"

(* There is a verdict even of a program that never ends.                   *)
JudgeEnds == <>(verdict # "none")
=============================================================================
