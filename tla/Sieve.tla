------------------------------- MODULE Sieve --------------------------------
(***************************************************************************)
(* What pfact promises, without processes or pipes: the primes are found   *)
(* in order, none of them beyond the first that reaches the square root    *)
(* of n, and the right answer is announced exactly once.                   *)
(***************************************************************************)
EXTENDS Primes, Sequences

CONSTANTS
  Inputs,        \* the numbers pfact may be asked about
  NoVerdict      \* no answer has been given yet

VARIABLES
  n,             \* the number in question
  found,         \* the primes found so far, in the order they were found
  verdict        \* the answer given, or NoVerdict

vars == <<n, found, verdict>>

\* The numbers that no prime found so far divides.
Unsieved == {m \in 2..n : \A i \in DOMAIN found : ~Divides(found[i], m)}

Init ==
  /\ n \in Inputs
  /\ found = << >>
  /\ verdict = NoVerdict

\* The least number left becomes the next prime, unless the last prime found
\* already reaches the square root of n.
FindPrime ==
  /\ verdict = NoVerdict
  /\ \A i \in DOMAIN found : found[i] * found[i] < n
  /\ \E p \in Unsieved :
       /\ \A m \in Unsieved : p <= m
       /\ Prime(p)
       /\ found' = Append(found, p)
  /\ UNCHANGED <<n, verdict>>

Announce ==
  /\ verdict = NoVerdict
  /\ verdict' = Answer(n)
  /\ UNCHANGED <<n, found>>

Next == FindPrime \/ Announce

Spec == Init /\ [][Next]_vars /\ WF_vars(Announce)

=============================================================================
