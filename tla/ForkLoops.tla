----------------------------- MODULE ForkLoops ------------------------------
(***************************************************************************)
(* childcreates and parentcreates (lab 6).  Both fork once in each of so   *)
(* many iterations, and both processes print a line.  In childcreates the  *)
(* new process goes on with the loop and the old one waits for it: a       *)
(* chain.  In parentcreates the old one goes on and the new one ends: a    *)
(* fan.  What stdio has not flushed at a fork is in both processes.        *)
(***************************************************************************)
EXTENDS Integers, FiniteSets

CONSTANTS
  MaxIter,       \* bound: the largest argument, a natural number; so many
                 \* lines fit into stdio's buffer for a file
  ForkMayFail    \* whether fork() may fail

Procs == 0..MaxIter                  \* process k + 1 is made in iteration k
Lines == Procs \X (0..MaxIter)       \* a line: pid and i

VARIABLES
  shape,         \* "chain" for childcreates, "fan" for parentcreates; constant
  iterations,    \* the argument; constant
  tty,           \* stdout is a terminal, which shows a line at once; constant
  at,            \* where each process is
  i,             \* its loop counter
  buf,           \* lines it has not flushed
  reaped,        \* processes that were waited for
  out,           \* how often each line has come out
  failed         \* ghost: a fork has failed

vars == <<shape, iterations, tty, at, i, buf, reaped, out, failed>>

Init ==
  /\ shape \in {"chain", "fan"} /\ iterations \in 0..MaxIter /\ tty \in BOOLEAN
  /\ at = [p \in Procs |-> IF p = 0 THEN "loop" ELSE "none"]
  /\ i = [p \in Procs |-> 0]
  /\ buf = [p \in Procs |-> {}]
  /\ reaped = {}
  /\ out = [l \in Lines |-> 0]
  /\ failed = FALSE

\* In its first iteration: fork() has returned 0.
Newborn(p) == p = i[p] + 1

Children(p) ==
  {q \in Procs : /\ at[q] # "none"
                 /\ IF shape = "chain" THEN q = p + 1 ELSE p = 0 /\ q # 0}

-----------------------------------------------------------------------------
\* Mutant: _exit() for exit().
EndUnflushed(p) ==
  /\ at' = [at EXCEPT ![p] = "ended"]
  /\ buf' = [buf EXCEPT ![p] = {}]
  /\ UNCHANGED out

\* exit() and return from main flush stdout.
End(p) ==
  /\ at' = [at EXCEPT ![p] = "ended"]
  /\ buf' = [buf EXCEPT ![p] = {}]
  /\ out' = [l \in Lines |-> out[l] + IF l \in buf[p] THEN 1 ELSE 0]

Fork(p) ==
  /\ at[p] = "loop" /\ i[p] < iterations
  /\ LET q == i[p] + 1
     IN  /\ at'  = [at  EXCEPT ![p] = "print", ![q] = "print"]
         /\ i'   = [i   EXCEPT ![q] = i[p]]
         /\ buf' = [buf EXCEPT ![q] = buf[p]]
  /\ UNCHANGED <<reaped, out, failed>>

\* exit(1), without a wait.
ForkFails(p) ==
  /\ ForkMayFail /\ at[p] = "loop" /\ i[p] < iterations
  /\ failed' = TRUE
  /\ End(p)
  /\ UNCHANGED <<i, reaped>>

\* printf(), and where each of the two goes.
PrintLine(p) ==
  /\ at[p] = "print"
  /\ IF tty
     THEN out' = [out EXCEPT ![<<p, i[p]>>] = @ + 1] /\ UNCHANGED buf
     ELSE buf' = [buf EXCEPT ![p] = @ \cup {<<p, i[p]>>}] /\ UNCHANGED out
  /\ IF Newborn(p) = (shape = "chain")
     THEN i' = [i EXCEPT ![p] = @ + 1] /\ at' = [at EXCEPT ![p] = "loop"]
     ELSE at' = [at EXCEPT ![p] = IF shape = "chain" THEN "wait" ELSE "exit"] /\ UNCHANGED i
  /\ UNCHANGED <<reaped, failed>>

\* exit(0) of the fan's child.
ChildExits(p) ==
  /\ at[p] = "exit"
  /\ End(p)
  /\ UNCHANGED <<i, reaped, failed>>

\* The loop is done: the fan's parent goes on to its waits.
LoopEnds(p) ==
  /\ at[p] = "loop" /\ i[p] >= iterations
  /\ IF shape = "fan" /\ iterations > 0
     THEN at' = [at EXCEPT ![p] = "wait"] /\ UNCHANGED <<buf, out>>
     ELSE End(p)
  /\ UNCHANGED <<i, reaped, failed>>

\* Mutant: the chain's parent goes its way without waiting.
WaitNot(p) ==
  /\ at[p] = "wait"
  /\ \E q \in Children(p) \ reaped :
       /\ at[q] = "ended" \/ shape = "chain"
       /\ reaped' = reaped \cup {q}
  /\ IF shape = "fan" /\ Cardinality(reaped') < iterations
     THEN UNCHANGED <<at, buf, out>>
     ELSE End(p)
  /\ UNCHANGED <<i, failed>>

\* One wait(); after the last one (the only one in a chain) main returns.
Wait(p) ==
  /\ at[p] = "wait"
  /\ \E q \in Children(p) \ reaped :
       /\ at[q] = "ended"
       /\ reaped' = reaped \cup {q}
  /\ IF shape = "fan" /\ Cardinality(reaped') < iterations
     THEN UNCHANGED <<at, buf, out>>
     ELSE End(p)
  /\ UNCHANGED <<i, failed>>

-----------------------------------------------------------------------------
Step(p) ==
  /\ Fork(p) \/ ForkFails(p) \/ PrintLine(p) \/ ChildExits(p) \/ LoopEnds(p) \/ Wait(p)
  /\ UNCHANGED <<shape, iterations, tty>>

Next == \E p \in Procs : Step(p)

Fairness == \A p \in Procs : WF_vars(Step(p))

Spec == Init /\ [][Next]_vars /\ Fairness

-----------------------------------------------------------------------------
TypeOK ==
  /\ shape \in {"chain", "fan"} /\ iterations \in 0..MaxIter /\ tty \in BOOLEAN
  /\ at \in [Procs -> {"none", "loop", "print", "exit", "wait", "ended"}]
  /\ i \in [Procs -> 0..MaxIter]
  /\ buf \in [Procs -> SUBSET Lines]
  /\ reaped \in SUBSET Procs
  /\ out \in [Lines -> Nat]
  /\ failed \in BOOLEAN

(***************************************************************************)
(* The parent ends last (lab 6): no process ends before one it has made,   *)
(* so no line ever shows 1 for its ppid.  Only the fan breaks the rule,    *)
(* when a fork fails: it exits at once and leaves its children behind.     *)
(***************************************************************************)
ParentsLast ==
  \A p \in Procs :
    at[p] = "ended" => \/ \A q \in Children(p) : at[q] = "ended"
                       \/ shape = "fan" /\ failed

AllEnded == \A p \in Procs : at[p] \in {"none", "ended"}

\* In iteration k two processes print a line: one goes on with the loop, the
\* other has done its part.
GoesOn(k)  == IF shape = "chain" THEN k + 1 ELSE 0
StopsIn(k) == IF shape = "chain" THEN k ELSE k + 1

(***************************************************************************)
(* The lines that come out more than once (lab 6): on a terminal none; in  *)
(* a file, in a chain as well as in a fan, the line of the one that goes   *)
(* on is in the buffer of all that are made later, and comes out once for  *)
(* each of them.  No line is lost, nor is there one of an iteration that   *)
(* was not reached.                                                        *)
(***************************************************************************)
LinesOut ==
  AllEnded =>
    LET m == Cardinality({p \in Procs \ {0} : at[p] # "none"})
    IN  \A l \in Lines :
          out[l] = IF l[2] >= m THEN 0
                   ELSE IF l[1] = GoesOn(l[2]) THEN (IF tty THEN 1 ELSE m - l[2])
                   ELSE IF l[1] = StopsIn(l[2]) THEN 1 ELSE 0

=============================================================================
