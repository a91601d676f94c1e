---------------------------- MODULE Checkpasswd -----------------------------
(***************************************************************************)
(* checkpasswd (lab 6): a parent writes a user id and a password into a    *)
(* pipe for its child, which becomes the program validate, and reads the   *)
(* verdict off validate's exit status.  Either may be ahead of the other.  *)
(* validate is not in the repository: it reads the two records, and exits  *)
(* with 0, 2 or 3 for its verdict or with 1 for an error.                  *)
(***************************************************************************)
EXTENDS Integers, Sequences

CONSTANTS
  MayFail        \* whether fork(), dup2(), execl() and validate may fail

Answers == {"match", "mismatch", "unknown"}

\* validate's exit codes (the tests of checkpasswd.c:54-58).
CodeOf(a) == CASE a = "match" -> 0 [] a = "mismatch" -> 2 [] a = "unknown" -> 3

\* What the parent prints for a verdict.
Verdict(a) ==
  CASE a = "match"    -> "Password verified"
    [] a = "mismatch" -> "Invalid password"
    [] a = "unknown"  -> "No such user"

Signalled == 256        \* not an exit code: killed by a signal

VARIABLES
  answer,        \* what validate finds for this user and password; constant
  parent, child, \* where each process is
  pipe,          \* records in the pipe
  status,        \* how the child ended
  executed,      \* ghost: execl() has succeeded
  said           \* what the parent has printed

vars == <<answer, parent, child, pipe, status, executed, said>>

Init ==
  /\ answer \in Answers
  /\ parent = "fork" /\ child = "none"
  /\ pipe = << >> /\ status = Signalled /\ executed = FALSE
  /\ said = "nothing"

-----------------------------------------------------------------------------
(***************************************************************************)
(* The parent.                                                             *)
(***************************************************************************)
Fork ==
  /\ parent = "fork"
  /\ \/ parent' = "user" /\ child' = "dup2"
     \/ MayFail /\ parent' = "failed" /\ UNCHANGED child
  /\ UNCHANGED <<answer, pipe, status, executed, said>>

\* write(): with nobody left to read, SIGPIPE ends the parent.
Send(record, next) ==
  /\ IF child = "ended"
     THEN parent' = "killed" /\ UNCHANGED pipe
     ELSE parent' = next /\ pipe' = Append(pipe, record)
  /\ UNCHANGED <<answer, child, status, executed, said>>

SendUser     == parent = "user" /\ Send("user", "password")
SendPassword == parent = "password" /\ Send("password", "wait")

\* Mutant: the exit code is taken from any status, so that of a killed child
\* reads as 0.
MessageUnchecked ==
  IF status \in {0, Signalled} THEN "Password verified"
  ELSE IF status = 2 THEN "Invalid password"
  ELSE IF status = 3 THEN "No such user" ELSE "terminates with error"

\* Mutant: the third exit code is not known.
MessageForTwo ==
  IF status = Signalled THEN "terminates abnormally"
  ELSE IF status = 0 THEN "Password verified"
  ELSE IF status = 2 THEN "Invalid password" ELSE "terminates with error"

\* What is printed for the child's status.
Message ==
  IF status = Signalled THEN "terminates abnormally"
  ELSE IF \E a \in Answers : CodeOf(a) = status
  THEN Verdict(CHOOSE a \in Answers : CodeOf(a) = status)
  ELSE "terminates with error"

Wait ==
  /\ parent = "wait" /\ child = "ended"
  /\ parent' = "done" /\ said' = Message
  /\ UNCHANGED <<answer, child, pipe, status, executed>>

-----------------------------------------------------------------------------
(***************************************************************************)
(* The child.  Its end closes the last read end of the pipe.               *)
(***************************************************************************)
ChildEnds(s) == child' = "ended" /\ status' = s

\* The pipe becomes its standard input.
Dup2 ==
  /\ child = "dup2"
  /\ \/ child' = "execl" /\ UNCHANGED status
     \/ MayFail /\ ChildEnds(1)
  /\ UNCHANGED <<answer, parent, pipe, executed, said>>

\* execl() returns only on failure; then main ends as if all were well.
Execl ==
  /\ child = "execl"
  /\ \/ child' = "user" /\ executed' = TRUE /\ UNCHANGED status
     \/ MayFail /\ ChildEnds(0) /\ UNCHANGED executed
  /\ UNCHANGED <<answer, parent, pipe, said>>

ReadUser ==
  /\ child = "user" /\ pipe # << >>
  /\ child' = "password" /\ pipe' = Tail(pipe)
  /\ UNCHANGED <<answer, parent, status, executed, said>>

ReadPassword ==
  /\ child = "password" /\ pipe # << >>
  /\ pipe' = Tail(pipe)
  /\ ChildEnds(CodeOf(answer))
  /\ UNCHANGED <<answer, parent, executed, said>>

\* validate cannot do its work, or is killed.
ValidateFails ==
  /\ MayFail /\ child \in {"user", "password"}
  /\ \E s \in {1, Signalled} : ChildEnds(s)
  /\ UNCHANGED <<answer, parent, pipe, executed, said>>

-----------------------------------------------------------------------------
Parent == Fork \/ SendUser \/ SendPassword \/ Wait
Child  == Dup2 \/ Execl \/ ReadUser \/ ReadPassword

Next == Parent \/ Child \/ ValidateFails

Fairness == WF_vars(Parent) /\ WF_vars(Child)

Spec == Init /\ [][Next]_vars /\ Fairness

-----------------------------------------------------------------------------
TypeOK ==
  /\ answer \in Answers
  /\ parent \in {"fork", "user", "password", "wait", "done", "killed", "failed"}
  /\ child \in {"none", "dup2", "execl", "user", "password", "ended"}
  /\ pipe \in Seq({"user", "password"}) /\ Len(pipe) <= 2
  /\ status \in {0, 1, 2, 3, Signalled}
  /\ executed \in BOOLEAN
  /\ said \in {Verdict(a) : a \in Answers}
              \cup {"nothing", "terminates abnormally", "terminates with error"}

(***************************************************************************)
(* A verdict that is printed is validate's; the one exception is a         *)
(* "Password verified" after execl() has failed, when no validate ran.     *)
(***************************************************************************)
SaysTruth ==
  \A a \in Answers :
    said = Verdict(a) /\ a # answer => a = "match" /\ ~executed

\* validate has come to its verdict.
HasVerdict == child = "ended" /\ executed /\ status \in {CodeOf(a) : a \in Answers}

(***************************************************************************)
(* Whenever validate comes to a verdict, the user is told it: the parent   *)
(* is not killed by SIGPIPE then, nor is the status lost, whoever was      *)
(* ahead.                                                                  *)
(***************************************************************************)
VerdictReported == HasVerdict ~> said = Verdict(answer)

\* Both processes have ended, or there never was a child.
Ended == parent \in {"done", "killed", "failed"} /\ child \in {"none", "ended"}

=============================================================================
