------------------------------- MODULE Primes -------------------------------
(***************************************************************************)
(* The arithmetic that the factoring pipeline is judged by: divisibility,  *)
(* primality and the answer pfact owes its user, stated by their           *)
(* definitions and not by how the program computes them.                   *)
(***************************************************************************)
EXTENDS Integers

\* d divides m, as the program tests it (m % d == 0).
Divides(d, m) == m % d = 0

Prime(m) == m > 1 /\ \A d \in 2..(m - 1) : ~Divides(d, m)

\* The numbers a and b, in order, are primes whose product is m.
PrimePair(a, b, m) == a <= b /\ a * b = m /\ Prime(a) /\ Prime(b)

\* m is the product of two primes, the lesser of them a.
LesserPrime(a, m) == Divides(a, m) /\ PrimePair(a, m \div a, m)

ProductOfTwoPrimes(m) == \E a \in 2..m : LesserPrime(a, m)

(***************************************************************************)
(* A verdict has the program's encoding of its result (the comment that    *)
(* declares `result'): 0 no factors, 1 two equal prime factors, 2 two      *)
(* unequal prime factors, 3 anything else; and the factors it prints.      *)
(***************************************************************************)
Verdict(r, f) == [result |-> r, factors |-> f]

\* What pfact must answer for m.
Answer(m) ==
  IF Prime(m) THEN Verdict(0, << >>)
  ELSE IF ~ProductOfTwoPrimes(m) THEN Verdict(3, << >>)
  ELSE LET a == CHOOSE a \in 2..m : LesserPrime(a, m)
           b == m \div a
       IN  Verdict(IF a = b THEN 1 ELSE 2, <<a, b>>)

=============================================================================
