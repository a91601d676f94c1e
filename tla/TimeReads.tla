----------------------------- MODULE TimeReads ------------------------------
(***************************************************************************)
(* time_reads.c (lab 7): an endless loop of reads, counted in num_reads,   *)
(* and a handler of SIGPROF that reports the count and exits.  The signal  *)
(* comes from the timer, or from somebody's kill, between any two steps.   *)
(***************************************************************************)
EXTENDS Integers

CONSTANTS
  Seconds,       \* arguments to try
  MaxReads       \* bound: reads after which the timer has surely gone off

VARIABLES
  seconds,       \* the argument; constant
  at,            \* where main is
  armed,         \* the timer runs
  num_reads,
  done,          \* ghost: reads that were finished
  report         \* the count in the handler's message, or -1

vars == <<seconds, at, armed, num_reads, done, report>>

Init ==
  /\ seconds \in Seconds
  /\ at = "sigaction" /\ armed = FALSE
  /\ num_reads = 0 /\ done = 0 /\ report = -1

Running == at \notin {"reported", "killed"}

\* init_sigaction()
InitSigaction ==
  /\ at = "sigaction" /\ at' = "timer"
  /\ UNCHANGED <<seconds, armed, num_reads, done, report>>

\* Mutant: the timer is left as it is.
InitTimeNot ==
  /\ at = "timer" /\ at' = "zero"
  /\ UNCHANGED <<seconds, armed, num_reads, done, report>>

\* init_time(): an interval of zero stops a timer.
InitTime ==
  /\ at = "timer" /\ at' = "zero"
  /\ armed' = (seconds > 0)
  /\ UNCHANGED <<seconds, num_reads, done, report>>

\* Mutant: the count starts at one.
ZeroIsOne ==
  /\ at = "zero" /\ at' = "count"
  /\ num_reads' = 1
  /\ UNCHANGED <<seconds, armed, done, report>>

Zero ==
  /\ at = "zero" /\ at' = "count"
  /\ num_reads' = 0
  /\ UNCHANGED <<seconds, armed, done, report>>

\* num_reads++; this and the read that is counted are two steps.
Count ==
  /\ at = "count" /\ num_reads < MaxReads /\ at' = "read"
  /\ num_reads' = num_reads + 1
  /\ UNCHANGED <<seconds, armed, done, report>>

\* fseek() and fread(), then rewind() and printf().
Read ==
  /\ at = "read" /\ at' = "count"
  /\ done' = done + 1
  /\ UNCHANGED <<seconds, armed, num_reads, report>>

\* print_message(), the handler.
print_message ==
  /\ at' = "reported" /\ report' = num_reads
  /\ UNCHANGED <<seconds, armed, num_reads, done>>

\* The timer goes off.
Timer == Running /\ armed /\ print_message

\* kill -PROF: before the handler is there it ends the program.
Kill ==
  /\ Running
  /\ IF at = "sigaction"
     THEN at' = "killed" /\ UNCHANGED <<seconds, armed, num_reads, done, report>>
     ELSE print_message

Main == InitSigaction \/ InitTime \/ Zero \/ Count \/ Read

Next == Main \/ Timer \/ Kill

\* The loop uses processor time, which the timer counts.
Fairness == WF_vars(Main) /\ WF_vars(Timer)

Spec == Init /\ [][Next]_vars /\ Fairness

-----------------------------------------------------------------------------
TypeOK ==
  /\ seconds \in Seconds
  /\ at \in {"sigaction", "timer", "zero", "count", "read", "reported", "killed"}
  /\ armed \in BOOLEAN
  /\ num_reads \in 0..MaxReads /\ done \in 0..MaxReads
  /\ report \in -1..MaxReads

(***************************************************************************)
(* Whenever the signal comes, the report is the number of reads that were  *)
(* done, or one more, if it comes between a count and its read; never a    *)
(* count from before the loop.                                             *)
(***************************************************************************)
ReportTrue == at = "reported" => report \in {done, done + 1}

=============================================================================
