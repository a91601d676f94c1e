------------------------------- MODULE Guess --------------------------------
(***************************************************************************)
(* guess.c (assignment 4): a parent process guesses the number its user    *)
(* keeps secret, a child process reads the user's judgements; they talk by *)
(* signals.  A signal that is pending is not pending twice; its handler    *)
(* runs between any two steps of the process and ends a pause() that has   *)
(* begun, not one that is about to begin.                                  *)
(***************************************************************************)
EXTENDS Integers, FiniteSets

CONSTANTS
  Highest,       \* 1023
  Patience       \* whether the user waits until the parent is in pause(): the cases

VARIABLES
  secret,        \* the user's number, constant
  patient,       \* the user's patience, constant
  fresh,         \* a guess is shown that the user has not judged yet
  \* the parent
  ppc, pending,  \* where it is; its pending signals
  lowest, higest, guess, num_guess,
  found,         \* its to_close
  shown,         \* history, read by no action: the numbers guessed so far
  \* the child
  cpc, told,     \* where it is; SIGINT is pending
  close          \* its to_close

parent == <<ppc, pending, lowest, higest, guess, num_guess, found, shown>>
child  == <<cpc, told, close>>
vars   == <<secret, patient, fresh, parent, child>>

Init ==
  /\ secret \in 0..Highest /\ patient \in Patience /\ fresh = FALSE
  /\ ppc = "loop" /\ pending = {} /\ found = FALSE
  /\ lowest = 0 /\ higest = Highest /\ guess = 0 /\ num_guess = 0 /\ shown = {}
  /\ cpc = "loop" /\ told = FALSE /\ close = FALSE

-----------------------------------------------------------------------------
\* Mutant: one more than the size of the range is taken for its size.
NewGuessBeyond ==
  /\ ppc = "loop" /\ ~found
  /\ num_guess' = num_guess + 1
  /\ guess' \in lowest..(higest + 1)
  /\ shown' = shown \cup {guess'}
  /\ fresh' = TRUE
  /\ ppc' = "toPause"
  /\ UNCHANGED <<secret, patient, pending, lowest, higest, found, child>>

\* The next guess is anything in the range; it is undefined (% 0) when the
\* range is empty.
NewGuess ==
  /\ ppc = "loop" /\ ~found
  /\ num_guess' = num_guess + 1
  /\ guess' \in lowest..higest
  /\ shown' = shown \cup {guess'}
  /\ fresh' = TRUE
  /\ ppc' = "toPause"
  /\ UNCHANGED <<secret, patient, pending, lowest, higest, found, child>>

\* The parent prints the number of guesses and tells the child to end it all.
SendInt ==
  /\ ppc = "loop" /\ found
  /\ told' = TRUE
  /\ ppc' = "toPause"
  /\ UNCHANGED <<secret, patient, fresh, pending, lowest, higest, guess, num_guess, found, shown,
                 cpc, close>>

Pause ==
  /\ ppc = "toPause"
  /\ ppc' = "paused"
  /\ UNCHANGED <<secret, patient, fresh, pending, lowest, higest, guess, num_guess,
                 found, shown, child>>

Wake(pc) == IF pc = "paused" THEN "loop" ELSE pc

\* The handler of a signal runs in the parent.
Delivered(signal) ==
  /\ ppc # "killed"
  /\ signal \in pending
  /\ pending' = pending \ {signal}
  /\ ppc' = Wake(ppc)
  /\ UNCHANGED <<secret, patient, fresh, guess, num_guess, shown, child>>

\* Mutant: the guess itself stays in the range.
HighKeeps ==
  Delivered("SIGUSR1") /\ higest' = guess /\ UNCHANGED <<lowest, found>>

High == Delivered("SIGUSR1") /\ higest' = guess - 1 /\ UNCHANGED <<lowest, found>>

Low == Delivered("SIGUSR2") /\ lowest' = guess + 1 /\ UNCHANGED <<higest, found>>

Found == Delivered("SIGINT") /\ found' = TRUE /\ UNCHANGED <<lowest, higest>>

-----------------------------------------------------------------------------
\* Mutant: the user's words and the signals are mixed up.
JudgementSwapped ==
  IF guess > secret THEN "SIGUSR2" ELSE IF guess < secret THEN "SIGUSR1" ELSE "SIGINT"

\* The signal for what the user, who is honest, has to say of the guess.
Judgement ==
  IF guess > secret THEN "SIGUSR1" ELSE IF guess < secret THEN "SIGUSR2" ELSE "SIGINT"

\* Mutant: pause() stands after the three cases.
JudgeAndPause ==
  /\ cpc = "loop" /\ ~close
  /\ fresh /\ fresh' = FALSE
  /\ patient => ppc = "paused"
  /\ pending' = pending \cup {Judgement}
  /\ cpc' = "toPause"
  /\ UNCHANGED <<secret, patient, ppc, lowest, higest, guess, num_guess,
                 found, shown, told, close>>

\* The user has seen a new guess and judges it; the child passes it on and
\* either asks again or, after "correct", is about to wait for SIGINT.
Judge ==
  /\ cpc = "loop" /\ ~close
  /\ fresh /\ fresh' = FALSE
  /\ patient => ppc = "paused"
  /\ pending' = pending \cup {Judgement}
  /\ cpc' = IF Judgement = "SIGINT" THEN "toPause" ELSE "loop"
  /\ UNCHANGED <<secret, patient, ppc, lowest, higest, guess, num_guess,
                 found, shown, told, close>>

ChildPause ==
  /\ cpc = "toPause"
  /\ cpc' = "paused"
  /\ UNCHANGED <<secret, patient, fresh, parent, told, close>>

\* Handler of SIGINT in the child.
End ==
  /\ told
  /\ told' = FALSE /\ close' = TRUE
  /\ cpc' = Wake(cpc)
  /\ UNCHANGED <<secret, patient, fresh, parent>>

\* The child kills the parent and ends.
KillParent ==
  /\ cpc = "loop" /\ close
  /\ cpc' = "ended" /\ ppc' = "killed"
  /\ UNCHANGED <<secret, patient, fresh, pending, lowest, higest, guess, num_guess,
                 found, shown, told, close>>

-----------------------------------------------------------------------------
Parent == NewGuess \/ SendInt \/ Pause \/ High \/ Low \/ Found
Child  == Judge \/ ChildPause \/ End \/ KillParent

Next == Parent \/ Child

\* Both processes are scheduled and the user answers.
Fairness == WF_vars(Parent) /\ WF_vars(Child)

Spec == Init /\ [][Next]_vars /\ Fairness

-----------------------------------------------------------------------------
Signals == {"SIGUSR1", "SIGUSR2", "SIGINT"}

TypeOK ==
  /\ secret \in 0..Highest /\ patient \in BOOLEAN /\ fresh \in BOOLEAN
  /\ ppc \in {"loop", "toPause", "paused", "killed"}
  /\ pending \subseteq Signals /\ found \in BOOLEAN
  /\ lowest \in 0..(Highest + 1) /\ higest \in -1..Highest /\ guess \in 0..Highest
  /\ num_guess \in 0..(Highest + 1) /\ shown \subseteq 0..Highest
  /\ cpc \in {"loop", "toPause", "paused", "ended"}
  /\ told \in BOOLEAN /\ close \in BOOLEAN

(***************************************************************************)
(* However signals and steps interleave, the secret stays in the range, so *)
(* that the range is never empty and rand() % (higest+1-lowest) is defined.*)
(***************************************************************************)
SecretInRange == lowest <= secret /\ secret <= higest

(***************************************************************************)
(* No number is guessed twice, whenever the handlers run: as many numbers  *)
(* have been shown as guesses counted (guess.c:112-118).                   *)
(***************************************************************************)
NoGuessTwice == num_guess = Cardinality(shown)

\* With a patient user no judgement is lost between the parent's print and
\* its pause(), and it finds the secret.
FindsSecret == patient => <>(found /\ guess = secret)

\* As guess.c:93 and the assignment say, the child, told by the parent's
\* SIGINT, kills the parent and ends.
BothEnd == <>(cpc = "ended" /\ ppc = "killed")

\* A guess that the parent has not been told about yet.
Open == fresh \/ pending # {}

(***************************************************************************)
(* The inductive invariant: at most one of the user, the pending signals   *)
(* and the parent holds the turn, the pending signal judges the guess that *)
(* is shown, and of the numbers shown only that guess is in the range.     *)
(***************************************************************************)
IInv ==
  /\ TypeOK
  /\ SecretInRange
  /\ Open => guess \in lowest..higest /\ ~found /\ ppc \in {"toPause", "paused"}
  /\ pending # {} => pending = {Judgement} /\ ~fresh
  /\ found => guess = secret
  /\ told \/ close => found
  /\ NoGuessTwice
  /\ \A g \in shown \cap (lowest..higest) : g = guess /\ (Open \/ found)

=============================================================================
