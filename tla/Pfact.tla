------------------------------- MODULE Pfact --------------------------------
(***************************************************************************)
(* pfact.c: the numbers 2..n run through a pipeline of forked filter       *)
(* processes.  Process 0 is main; process k is the k-th filter, reads pipe *)
(* k-1 and writes pipe k.  A filter takes the first number it reads as its *)
(* key and either forks the next filter and passes it what the key does    *)
(* not divide, or is the last one and prints the verdict on n.  Processes  *)
(* end in a chain of wait(), each adding one to the exit code of the next. *)
(***************************************************************************)
EXTENDS Primes, Sequences, FiniteSets

CONSTANTS
  Inputs,        \* the numbers pfact may be started with
  MaxProcs,      \* bound: filters the model has room for
  PipeCap,       \* integers a pipe holds before write() blocks
  MaxFds,        \* descriptors a process may have open (RLIMIT_NOFILE)
  StackInts,     \* longest possible_factors[] the stack has room for
  ExitMod,       \* exit codes are kept modulo this number, 256 in Unix
  Garbage,       \* values an uninitialised possible_factors[] entry may hold
  ForkMayFail    \* whether fork() or pipe() may fail for lack of resources

ASSUME PfactAssumption ==
  /\ Inputs \subseteq Nat \ {0, 1}
  /\ MaxProcs \in Nat \ {0}
  /\ PipeCap \in Nat \ {0}
  /\ MaxFds \in Nat
  /\ StackInts \in Nat
  /\ ExitMod \in Nat \ {0, 1}
  /\ Garbage \subseteq Int
  /\ ForkMayFail \in BOOLEAN

VARIABLES
  n,             \* the number to factor; every process has it
  phase,         \* where each process is in its code
  key,           \* filter_key of each process
  factors,       \* factors[0..num_factors-1] of each process
  got,           \* last number read: sender or receiver; main's i
  left,          \* iterations the current for loop has left
  seen,          \* the initialised entries of possible_factors[]
  pipe,          \* pipe[k]: numbers written by process k, not yet read
  rd,            \* the pipes whose read end each process has open
  wr,            \* the pipes whose write end each process has open
  status,        \* how each process ended: exit code, Killed or Running
  printed,       \* the verdicts on standard output, in order
  count          \* the number of filters main printed, or -1

vars == <<n, phase, key, factors, got, left, seen, pipe, rd, wr, status,
          printed, count>>

Procs  == 0..MaxProcs
Stages == 1..MaxProcs

Running == -1    \* the process has not ended
Killed  == -2    \* the process was ended by a signal

Failed == ExitMod - 1    \* exit(-1), as the parent sees it

Phase == {"unborn", "born", "fork", "closeRead", "readKey", "test", "filter",
          "write", "drain", "collect", "wait", "ended"}

\* The descriptors 0, 1 and 2 and the pipe ends process p has open.
OpenFds(p) == 3 + Cardinality(rd[p]) + Cardinality(wr[p])

Readers(k) == {p \in Procs : k \in rd[p]}
Writers(k) == {p \in Procs : k \in wr[p]}

\* read() on pipe k would return 0: it is empty and nobody can write to it.
EOF(k) == pipe[k] = << >> /\ Writers(k) = {}

Goto(p, from, to) ==
  /\ phase[p] = from
  /\ phase' = [phase EXCEPT ![p] = to]

\* Process p ends: the kernel closes what it left open and keeps its status.
End(p, code) ==
  /\ phase'  = [phase  EXCEPT ![p] = "ended"]
  /\ status' = [status EXCEPT ![p] = code]
  /\ rd' = [rd EXCEPT ![p] = {}]
  /\ wr' = [wr EXCEPT ![p] = {}]

-----------------------------------------------------------------------------
Init ==
  /\ n \in Inputs
  /\ phase   = [p \in Procs |-> IF p = 0 THEN "fork" ELSE "unborn"]
  /\ key     = [p \in Procs |-> 0]
  /\ factors = [p \in Procs |-> << >>]
  /\ got     = [p \in Procs |-> 0]
  /\ left    = [p \in Procs |-> 0]
  /\ seen    = [p \in Procs |-> {}]
  /\ pipe    = [p \in Procs |-> << >>]
  /\ rd      = [p \in Procs |-> {}]
  /\ wr      = [p \in Procs |-> {}]
  /\ status  = [p \in Procs |-> Running]
  /\ printed = << >>
  /\ count   = -1

(***************************************************************************)
(* pipe() and fork(), by main or by a filter that found its key.  The      *)
(* child gets a copy of every descriptor and of the variables it shares    *)
(* with its parent, the ends the parent reads from included.               *)
(***************************************************************************)
Fork(p) ==
  /\ p < MaxProcs
  /\ OpenFds(p) + 2 <= MaxFds
  /\ phase[p] = "fork"
  /\ phase'   = [phase EXCEPT ![p] = "closeRead", ![p + 1] = "born"]
  /\ key'     = [key EXCEPT ![p + 1] = key[p]]
  /\ factors' = [factors EXCEPT ![p + 1] = factors[p]]
  /\ rd' = [rd EXCEPT ![p] = @ \cup {p}, ![p + 1] = rd[p] \cup {p}]
  /\ wr' = [wr EXCEPT ![p] = @ \cup {p}, ![p + 1] = wr[p] \cup {p}]
  /\ UNCHANGED <<n, got, left, seen, pipe, status, printed, count>>

\* pipe() or fork() fails: perror and exit(-1).
ForkFails(p) ==
  /\ phase[p] = "fork"
  /\ ForkMayFail \/ OpenFds(p) + 2 > MaxFds
  /\ End(p, Failed)
  /\ UNCHANGED <<n, key, factors, got, left, seen, pipe, printed, count>>

\* Mutant: the filter's loop forgets the numbers up to the key.
CloseReadShort(p) ==
  /\ Goto(p, "closeRead", IF p = 0 THEN "write" ELSE "filter")
  /\ rd'   = [rd EXCEPT ![p] = @ \ {p}]
  /\ got'  = [got EXCEPT ![p] = IF p = 0 THEN 2 ELSE @]
  /\ left' = [left EXCEPT ![p] = IF p = 0 THEN @ ELSE n - key[p] - 1]
  /\ UNCHANGED <<n, key, factors, seen, pipe, wr, status, printed, count>>

(***************************************************************************)
(* The parent closes the read end it gave to its child and starts its      *)
(* loop: main to write 2..n, a filter to read at most n-1 numbers.         *)
(***************************************************************************)
CloseRead(p) ==
  /\ Goto(p, "closeRead", IF p = 0 THEN "write" ELSE "filter")
  /\ rd'   = [rd EXCEPT ![p] = @ \ {p}]
  /\ got'  = [got EXCEPT ![p] = IF p = 0 THEN 2 ELSE @]
  /\ left' = [left EXCEPT ![p] = IF p = 0 THEN @ ELSE n - 1]
  /\ UNCHANGED <<n, key, factors, seen, pipe, wr, status, printed, count>>

\* Mutant: the child keeps the write end of the pipe it reads.
CloseWriteForgotten(p) ==
  /\ Goto(p, "born", "readKey")
  /\ UNCHANGED <<n, key, factors, got, left, seen, pipe, rd, wr, status, printed,
                 count>>

\* The child closes the write end of the pipe it reads.
CloseWrite(p) ==
  /\ Goto(p, "born", "readKey")
  /\ wr' = [wr EXCEPT ![p] = @ \ {p - 1}]
  /\ UNCHANGED <<n, key, factors, got, left, seen, pipe, rd, status, printed,
                 count>>

(***************************************************************************)
(* The filter reads its key.  The code tests the result of read() for -1   *)
(* only: at end of file the key stays what the parent's was.               *)
(***************************************************************************)
ReadKey(p) ==
  /\ Goto(p, "readKey", "test")
  /\ \/ /\ pipe[p - 1] # << >>
        /\ key'  = [key EXCEPT ![p] = Head(pipe[p - 1])]
        /\ got'  = [got EXCEPT ![p] = Head(pipe[p - 1])]
        /\ pipe' = [pipe EXCEPT ![p - 1] = Tail(@)]
     \/ /\ EOF(p - 1)
        /\ UNCHANGED <<key, got, pipe>>
  /\ UNCHANGED <<n, factors, left, seen, rd, wr, status, printed, count>>

\* Mutant: the square root itself counts as below the root.
BelowOrEqual(p) == key[p] * key[p] <= n

(***************************************************************************)
(* What the filter does with its key.  sqrt(n) is compared with integers,  *)
(* so key < root is key * key < n.                                         *)
(***************************************************************************)
Below(p) == key[p] * key[p] < n

NoFactor(p) ==
  /\ Below(p) /\ ~Divides(key[p], n)
  /\ phase' = [phase EXCEPT ![p] = "fork"]
  /\ UNCHANGED <<factors, left, seen, rd, wr, status>>

FirstFactor(p) ==
  /\ Below(p) /\ Divides(key[p], n) /\ Len(factors[p]) # 1
  /\ phase' = [phase EXCEPT ![p] = "fork"]
  /\ factors' = [factors EXCEPT ![p] = Append(@, key[p])]
  /\ UNCHANGED <<left, seen, rd, wr, status>>

\* Mutant: the verdict is given without reading the rest of the input.
SecondFactorAtOnce(p) ==
  /\ Below(p) /\ Divides(key[p], n) /\ Len(factors[p]) = 1
  /\ phase' = [phase EXCEPT ![p] = "drain"]
  /\ left' = [left EXCEPT ![p] = 0]
  /\ UNCHANGED <<factors, seen, rd, wr, status>>

SecondFactor(p) ==
  /\ Below(p) /\ Divides(key[p], n) /\ Len(factors[p]) = 1
  /\ phase' = [phase EXCEPT ![p] = "drain"]
  /\ left' = [left EXCEPT ![p] = n - 1]
  /\ UNCHANGED <<factors, seen, rd, wr, status>>

SquareRoot(p) ==
  /\ key[p] * key[p] = n
  /\ phase' = [phase EXCEPT ![p] = "drain"]
  /\ left' = [left EXCEPT ![p] = n - 1]
  /\ UNCHANGED <<factors, seen, rd, wr, status>>

\* Beyond the root: possible_factors[n-1] goes on the stack, key first.
BeyondRoot(p) ==
  /\ key[p] * key[p] > n
  /\ n - 1 <= StackInts
  /\ phase' = [phase EXCEPT ![p] = "collect"]
  /\ left' = [left EXCEPT ![p] = n - 2]
  /\ seen' = [seen EXCEPT ![p] = {key[p]}]
  /\ UNCHANGED <<factors, rd, wr, status>>

\* The array does not fit and the filter dies of SIGSEGV.
StackOverflow(p) ==
  /\ key[p] * key[p] > n
  /\ n - 1 > StackInts
  /\ End(p, Killed)
  /\ UNCHANGED <<factors, left, seen>>

TestKey(p) ==
  /\ phase[p] = "test"
  /\ \/ NoFactor(p) \/ FirstFactor(p) \/ SecondFactor(p)
     \/ SquareRoot(p) \/ BeyondRoot(p) \/ StackOverflow(p)
  /\ UNCHANGED <<n, key, got, pipe, printed, count>>

-----------------------------------------------------------------------------
\* A loop takes one more number from the filter's input.
Take(p) ==
  /\ left[p] > 0
  /\ pipe[p - 1] # << >>
  /\ got'  = [got  EXCEPT ![p] = Head(pipe[p - 1])]
  /\ left' = [left EXCEPT ![p] = @ - 1]
  /\ pipe' = [pipe EXCEPT ![p - 1] = Tail(@)]

\* A loop ends: it has run n-1 times or read() returned 0.
LoopEnds(p) == left[p] = 0 \/ EOF(p - 1)

\* Mutant: the operands of % are swapped.
FilterReadSwapped(p) ==
  /\ Take(p)
  /\ Goto(p, "filter", IF Divides(got'[p], key[p]) THEN "filter" ELSE "write")
  /\ UNCHANGED <<n, key, factors, seen, rd, wr, status, printed, count>>

\* A number the key does not divide is for the next filter.
FilterRead(p) ==
  /\ Take(p)
  /\ Goto(p, "filter", IF Divides(key[p], got'[p]) THEN "filter" ELSE "write")
  /\ UNCHANGED <<n, key, factors, seen, rd, wr, status, printed, count>>

\* write() of the number in hand; it blocks while the pipe is full.
Write(p) ==
  /\ Readers(p) # {}
  /\ Len(pipe[p]) < PipeCap
  /\ pipe' = [pipe EXCEPT ![p] = Append(@, got[p])]
  /\ UNCHANGED <<n, key, factors, left, seen, rd, wr, status, printed, count>>

Forward(p) ==
  /\ Goto(p, "write", "filter")
  /\ Write(p)
  /\ UNCHANGED got

\* main's loop for(i = 2; i < n+1; i++).
Feed ==
  /\ phase[0] = "write" /\ got[0] < n + 1
  /\ Write(0)
  /\ got' = [got EXCEPT ![0] = @ + 1]
  /\ UNCHANGED phase

\* write() to a pipe nobody reads: the process dies of SIGPIPE.
SigPipe(p) ==
  /\ phase[p] = "write"
  /\ p = 0 => got[0] < n + 1
  /\ Readers(p) = {}
  /\ End(p, Killed)
  /\ UNCHANGED <<n, key, factors, got, left, seen, pipe, printed, count>>

\* main has written every number: close and wait.
FeedEnd ==
  /\ got[0] = n + 1
  /\ Goto(0, "write", "wait")
  /\ wr' = [wr EXCEPT ![0] = @ \ {0}]
  /\ UNCHANGED <<n, key, factors, got, left, seen, pipe, rd, status, printed,
                 count>>

\* Mutant: a filter that has passed on everything does not wait.
FilterEndAtOnce(p) ==
  /\ phase[p] = "filter"
  /\ LoopEnds(p)
  /\ End(p, 0)
  /\ UNCHANGED <<n, key, factors, got, left, seen, pipe, printed, count>>

\* A filter has passed on everything: close both pipes and wait.
FilterEnd(p) ==
  /\ Goto(p, "filter", "wait")
  /\ LoopEnds(p)
  /\ rd' = [rd EXCEPT ![p] = @ \ {p - 1}]
  /\ wr' = [wr EXCEPT ![p] = @ \ {p}]
  /\ UNCHANGED <<n, key, factors, got, left, seen, pipe, status, printed,
                 count>>

\* The last filter empties its input so that nobody writes to a dead pipe...
DrainRead(p) ==
  /\ phase[p] = "drain"
  /\ Take(p)
  /\ UNCHANGED <<n, phase, key, factors, seen, rd, wr, status, printed, count>>

\* Mutant: one factor found is taken for a square.
DrainEndAnyFactor(p) ==
  /\ phase[p] = "drain"
  /\ LoopEnds(p)
  /\ printed' = Append(printed,
                       IF Len(factors[p]) = 1
                       THEN Verdict(1, <<key[p], key[p]>>)
                       ELSE Verdict(3, << >>))
  /\ End(p, 0)
  /\ UNCHANGED <<n, key, factors, got, left, seen, pipe, count>>

\* ... and prints its verdict: n is the square of the key, or has too many
\* factors.
DrainEnd(p) ==
  /\ phase[p] = "drain"
  /\ LoopEnds(p)
  /\ printed' = Append(printed,
                       IF key[p] * key[p] = n
                       THEN Verdict(1, <<key[p], key[p]>>)
                       ELSE Verdict(3, << >>))
  /\ End(p, 0)
  /\ UNCHANGED <<n, key, factors, got, left, seen, pipe, count>>

\* Beyond the root the numbers left are kept in possible_factors[].
CollectRead(p) ==
  /\ phase[p] = "collect"
  /\ Take(p)
  /\ seen' = [seen EXCEPT ![p] = @ \cup {Head(pipe[p - 1])}]
  /\ UNCHANGED <<n, phase, key, factors, rd, wr, status, printed, count>>

(***************************************************************************)
(* The search for n / factors[0] covers all n-1 entries of the array, also *)
(* the ones that were never written: those hold what the stack held.       *)
(***************************************************************************)
Cofactor(p) == n \div factors[p][1]

Finds(p) ==
  IF Cofactor(p) \in seen[p] THEN {TRUE}
  ELSE IF left[p] > 0 /\ Cofactor(p) \in Garbage THEN {TRUE, FALSE}
  ELSE {FALSE}

CollectEnd(p) ==
  /\ phase[p] = "collect"
  /\ LoopEnds(p)
  /\ \/ /\ Len(factors[p]) # 1
        /\ printed' = Append(printed, Verdict(0, << >>))
     \/ /\ Len(factors[p]) = 1
        /\ \E find \in Finds(p) :
             printed' = Append(printed,
                               IF find
                               THEN Verdict(2, <<factors[p][1], Cofactor(p)>>)
                               ELSE Verdict(3, << >>))
  /\ End(p, 0)
  /\ UNCHANGED <<n, key, factors, got, left, seen, pipe, count>>

\* Mutant: the filter does not count itself.
WaitUncounted(p) ==
  /\ phase[p] = "wait" /\ phase[p + 1] = "ended"
  /\ End(p, IF status[p + 1] = Killed THEN Failed ELSE status[p + 1])
  /\ UNCHANGED <<n, key, factors, got, left, seen, pipe, printed, count>>

\* A filter's wait() returns: exit(1 + the child's code), or -1 if the child
\* was killed.
Wait(p) ==
  /\ phase[p] = "wait" /\ phase[p + 1] = "ended"
  /\ End(p, IF status[p + 1] = Killed THEN Failed
            ELSE (1 + status[p + 1]) % ExitMod)
  /\ UNCHANGED <<n, key, factors, got, left, seen, pipe, printed, count>>

\* Mutant: the status is used without asking whether the child exited.
MainWaitUnchecked ==
  /\ phase[0] = "wait" /\ phase[1] = "ended"
  /\ End(0, 0) /\ count' = status[1]
  /\ UNCHANGED <<n, key, factors, got, left, seen, pipe, printed>>

\* main's wait() returns: it prints the number of filters and exits with 0,
\* or reports that the first filter was killed and exits with 1.
MainWait ==
  /\ phase[0] = "wait" /\ phase[1] = "ended"
  /\ IF status[1] = Killed
     THEN End(0, 1) /\ UNCHANGED count
     ELSE End(0, 0) /\ count' = status[1]
  /\ UNCHANGED <<n, key, factors, got, left, seen, pipe, printed>>

-----------------------------------------------------------------------------
Main ==
  \/ Fork(0) \/ ForkFails(0) \/ CloseRead(0)
  \/ Feed \/ SigPipe(0) \/ FeedEnd \/ MainWait

Stage(p) ==
  \/ CloseWrite(p) \/ ReadKey(p) \/ TestKey(p)
  \/ Fork(p) \/ ForkFails(p) \/ CloseRead(p)
  \/ FilterRead(p) \/ Forward(p) \/ SigPipe(p) \/ FilterEnd(p)
  \/ DrainRead(p) \/ DrainEnd(p) \/ CollectRead(p) \/ CollectEnd(p)
  \/ Wait(p)

Next == Main \/ \E p \in Stages : Stage(p)

\* The kernel schedules every process that can run.
Fairness == WF_vars(Main) /\ \A p \in Stages : WF_vars(Stage(p))

Spec == Init /\ [][Next]_vars /\ Fairness

-----------------------------------------------------------------------------
TypeOK ==
  /\ n \in Inputs
  /\ phase   \in [Procs -> Phase]
  /\ key     \in [Procs -> Nat]
  /\ factors \in [Procs -> Seq(Nat \ {0})]
  /\ got     \in [Procs -> Nat]
  /\ left    \in [Procs -> Nat]
  /\ seen    \in [Procs -> SUBSET Nat]
  /\ pipe    \in [Procs -> Seq(Nat)]
  /\ rd      \in [Procs -> SUBSET Procs]
  /\ wr      \in [Procs -> SUBSET Procs]
  /\ status  \in [Procs -> {Running, Killed} \cup 0..(ExitMod - 1)]
  /\ printed \in Seq([result : 0..3, factors : Seq(Int)])
  /\ count   \in -1..(ExitMod - 1)

\* Filter p has taken its key.
HasKey(p) == p > 0 /\ phase[p] \notin {"unborn", "born", "readKey"}

Filters == {p \in Stages : HasKey(p)}

(***************************************************************************)
(* The k-th filter's key is the k-th prime: it is prime and the filters    *)
(* before it have every smaller prime, whatever the order in which the     *)
(* processes run and whichever of them fail.  In particular no filter ever *)
(* goes on with the stale key that ReadKey leaves at end of file.          *)
(***************************************************************************)
KeysArePrimes ==
  \A k \in Filters :
    /\ Prime(key[k])
    /\ \A m \in 2..(key[k] - 1) : Prime(m) => \E j \in 1..(k - 1) : key[j] = m

\* No key of the first k filters divides m.
Survives(m, k) == \A j \in 1..k : ~Divides(key[j], m)

(***************************************************************************)
(* What a pipe holds, and what a filter is about to write to it, has       *)
(* passed every filter up to that pipe, and is in ascending order.         *)
(***************************************************************************)
PipesAreSieved ==
  \A k \in Procs :
    /\ \A i \in DOMAIN pipe[k] :
         /\ pipe[k][i] \in 2..n
         /\ Survives(pipe[k][i], k)
         /\ \A j \in DOMAIN pipe[k] : i < j => pipe[k][i] < pipe[k][j]
    /\ k > 0 /\ phase[k] = "write" => Survives(got[k], k)

(***************************************************************************)
(* The verdicts "prime", "square of a prime" and "not the product of two   *)
(* primes" are right, and a printed pair multiplies to n with a prime      *)
(* first factor, whatever the uninitialised entries of possible_factors[]  *)
(* hold and whatever fails; and at most one verdict is printed.            *)
(***************************************************************************)
VerdictSound ==
  /\ Len(printed) <= 1
  /\ \A i \in DOMAIN printed :
       LET v == printed[i] IN
       \/ v = Answer(n)
       \/ /\ v.result = 2
          /\ v.factors[1] * v.factors[2] = n
          /\ v.factors[1] < v.factors[2]
          /\ Prime(v.factors[1])

(***************************************************************************)
(* The comment on `result' (pfact.c:30): result 2 is printed for two       *)
(* unequal PRIME factors.                                                  *)
(***************************************************************************)
PairIsPrime ==
  \A i \in DOMAIN printed :
    printed[i].result = 2 => Prime(printed[i].factors[2])

(***************************************************************************)
(* Once a verdict is out no process fails any more: each filter's exit     *)
(* code is the number of filters after it and main reports how many there  *)
(* are, modulo what an exit code can hold.                                 *)
(***************************************************************************)
OutcomeAfterVerdict ==
  printed # << >> =>
    /\ \A p \in Filters :
         phase[p] = "ended" => status[p] = (Cardinality(Filters) - p) % ExitMod
    /\ phase[0] = "ended" => status[0] = 0
    /\ count # -1 => count = (Cardinality(Filters) - 1) % ExitMod

(***************************************************************************)
(* A process outlives the child it forked, so when main ends nothing of    *)
(* the pipeline is left behind, even if main itself was killed.            *)
(***************************************************************************)
NothingLeftBehind ==
  \A p \in Procs :
    phase[p] = "ended" =>
      \A q \in Procs : q > p => phase[q] \in {"unborn", "ended"}

\* No process is ever killed by writing to a pipe its readers have left: each
\* filter reads its input to the end even after it has its verdict.
NoBrokenPipe == \A p \in Procs : status[p] # Killed

\* A report of the number of filters comes with a verdict (the assignment:
\* main prints the number "on successful completion").
ReportMeansVerdict == count # -1 => printed # << >>

-----------------------------------------------------------------------------
AllEnded == \A p \in Procs : phase[p] \in {"unborn", "ended"}

\* Every run of pfact ends, with faults or without: nobody waits for ever at
\* a full pipe, at an empty one or in wait().
Terminates == <>[]AllEnded

\* Without faults pfact answers as the sieve does: the filters' keys are the
\* primes found, and the one verdict printed is the answer.
Answers == INSTANCE Sieve
  WITH found     <- [k \in 1..Cardinality(Filters) |-> key[k]],
       verdict   <- IF printed = << >> THEN Verdict(-1, << >>) ELSE Head(printed),
       NoVerdict <- Verdict(-1, << >>)

AnswersAsSieve == Answers!Spec

=============================================================================
