---------------------------- MODULE PrimesProofs ----------------------------
(***************************************************************************)
(* What the pipeline's proof needs to know about divisibility.             *)
(***************************************************************************)
EXTENDS Primes, WellFoundedInduction, TLAPS

\* A number that a divides is a times its quotient.
LEMMA Quotient ==
  ASSUME NEW a \in Nat \ {0}, NEW b \in Nat, Divides(a, b)
  PROVE  b \div a \in Nat /\ b = a * (b \div a)
<1>1. b = a * (b \div a) + (b % a) /\ b \div a \in Nat
  OBVIOUS
<1> QED
  BY <1>1 DEF Divides

\* A number divides its multiples.
LEMMA DividesMultiple ==
  ASSUME NEW a \in Nat \ {0}, NEW q \in Nat
  PROVE  Divides(a, a * q)
BY DEF Divides

\* A number divides itself.
LEMMA DividesItself ==
  ASSUME NEW a \in Nat \ {0}
  PROVE  Divides(a, a)
BY DEF Divides

\* Multiplication is associative (a step of its own, for the prover).
LEMMA TimesAssociative ==
  ASSUME NEW a \in Nat, NEW q \in Nat, NEW r \in Nat
  PROVE  (a * q) * r = a * (q * r) /\ q * r \in Nat
OBVIOUS

\* Divisibility is transitive.
LEMMA DividesTransitive ==
  ASSUME NEW a \in Nat \ {0}, NEW b \in Nat \ {0}, NEW c \in Nat,
         Divides(a, b), Divides(b, c)
  PROVE  Divides(a, c)
<1>1. PICK q \in Nat : b = a * q
  BY Quotient
<1>2. PICK r \in Nat : c = b * r
  BY Quotient
<1>3. c = (a * q) * r
  BY <1>1, <1>2
<1>4. c = a * (q * r) /\ q * r \in Nat
  BY <1>3, TimesAssociative
<1> QED
  BY <1>4, DividesMultiple

\* A divisor of a number that is not 0 is not greater.
LEMMA DivisorAtMost ==
  ASSUME NEW a \in Nat \ {0}, NEW b \in Nat \ {0}, Divides(a, b)
  PROVE  a <= b
BY DEF Divides

\* A prime has no other divisor above 1.
LEMMA DivisorOfPrime ==
  ASSUME NEW p \in Nat, Prime(p), NEW d \in Nat, d > 1, Divides(d, p)
  PROVE  d = p
<1>1. d <= p
  BY DivisorAtMost DEF Prime
<1> QED
  BY <1>1 DEF Prime

\* What divides a number and a part of it divides the rest.
LEMMA DividesRest ==
  ASSUME NEW p \in Nat \ {0}, NEW x \in Nat, NEW y \in Nat, NEW q \in Nat, NEW r \in Nat,
         x = q * y + r, Divides(p, x), Divides(p, y)
  PROVE  Divides(p, r)
<1>1. PICK u \in Nat : x = p * u
  BY Quotient
<1>2. PICK v \in Nat : y = p * v
  BY Quotient
<1>3. u - q * v \in Int /\ q * v \in Int
  OBVIOUS
<1>4. q * y = p * (q * v)
  <2>1. q * y = q * (p * v)
    BY <1>2
  <2>2. q * (p * v) = (q * p) * v /\ (p * q) * v = p * (q * v) /\ q * p = p * q
    BY TimesAssociative
  <2> QED
    BY <2>1, <2>2
<1>5. r = p * (u - q * v)
  <2>1. p * (u - q * v) = p * u - p * (q * v)
    BY <1>3
  <2> QED
    BY <1>1, <1>4, <2>1
<1>6. ASSUME NEW w \in Int PROVE (p * w) % p = 0
  OBVIOUS
<1> QED
  BY <1>3, <1>5, <1>6 DEF Divides

\* Less-than on the natural numbers, as a set of pairs, is well founded.
LEMMA LessOnNat == IsWellFoundedOn({ss \in Nat \X Nat : ss[1] < ss[2]}, Nat)
BY NatLessThanWellFounded, Zenon DEF OpToRel

\* A set of numbers that is not empty has a least one.
LEMMA LeastOf ==
  ASSUME NEW S, S \subseteq Nat, S # {}
  PROVE  \E m \in S : \A x \in S : m <= x
<1> DEFINE L == {ss \in Nat \X Nat : ss[1] < ss[2]}
<1>1. IsWellFoundedOn(L, Nat)
  BY LessOnNat
<1>2. PICK m \in S : \A x \in S : ~(<<x, m>> \in L)
  <2> HIDE DEF L
  <2> QED
    BY <1>1, WFMin
<1>3. ASSUME NEW x \in S PROVE m <= x
  <2>1. x \in Nat /\ m \in Nat
    BY <1>2
  <2>2. <<x, m>> \in Nat \X Nat /\ <<x, m>>[1] = x /\ <<x, m>>[2] = m
    BY <2>1
  <2>3. ~(x < m)
    BY <1>2, <2>2
  <2> QED
    BY <2>1, <2>3
<1> QED
  BY <1>2, <1>3

\* Euclid: a prime that divides a product divides one of its factors.
LEMMA Euclid ==
  ASSUME NEW p \in Nat, Prime(p), NEW a \in Nat \ {0}, NEW b \in Nat, Divides(p, a * b)
  PROVE  Divides(p, a) \/ Divides(p, b)
<1> DEFINE S == {x \in Nat \ {0} : Divides(p, x * b)}
<1>1. p > 1 /\ p \in Nat \ {0}
  BY DEF Prime
<1>2. a \in S /\ p \in S
  <2>1. Divides(p, p * b)
    BY <1>1, DividesMultiple
  <2> QED
    BY <1>1, <2>1
<1>3. PICK d \in S : \A x \in S : d <= x
  BY <1>2, LeastOf
\* The least number that p divides, times b, divides all of them.
<1>4. ASSUME NEW x \in S PROVE Divides(d, x)
  <2> DEFINE q == x \div d
             r == x % d
  <2>1. d \in Nat /\ d > 0 /\ x \in Nat /\ q \in Nat /\ r \in Nat /\ x = q * d + r /\ r < d
    OBVIOUS
  <2>2. /\ x * b \in Nat /\ d * b \in Nat /\ r * b \in Nat
        /\ Divides(p, x * b) /\ Divides(p, d * b)
    BY <2>1
  <2> HIDE DEF q, r
  <2>3. x * b = q * (d * b) + r * b
    <3>1. (q * d + r) * b = (q * d) * b + r * b
      BY <2>1
    <3>2. (q * d) * b = q * (d * b)
      BY <2>1, TimesAssociative
    <3> QED
      BY <2>1, <3>1, <3>2
  <2>4. Divides(p, r * b)
    BY <1>1, <2>1, <2>2, <2>3, DividesRest
  <2>5. r = 0
    BY <1>3, <2>1, <2>4
  <2> QED
    BY <2>5 DEF r, Divides
<1>5. CASE d = 1
  <2>1. d * b = b
    BY <1>5
  <2> QED
    BY <2>1
<1>6. CASE d # 1
  <2>1. d = p
    BY <1>1, <1>2, <1>4, <1>6, DivisorOfPrime
  <2> QED
    BY <1>2, <1>4, <2>1
<1> QED
  BY <1>5, <1>6

\* Only the two primes of a product divide it, among the primes.
LEMMA PrimeOfPair ==
  ASSUME NEW a \in Nat, Prime(a), NEW b \in Nat, Prime(b),
         NEW f \in Nat, Prime(f), Divides(f, a * b)
  PROVE  f = a \/ f = b
<1>1. a > 1 /\ f > 1
  BY DEF Prime
<1> QED
  BY <1>1, Euclid, DivisorOfPrime

\* A number that is no prime has a divisor up to its root.
LEMMA SmallDivisor ==
  ASSUME NEW m \in Nat, m > 1, ~Prime(m)
  PROVE  \E d \in 2..(m - 1) : Divides(d, m) /\ d * d <= m
<1>1. PICK d \in 2..(m - 1) : Divides(d, m)
  BY DEF Prime
<1>2. CASE d * d <= m
  BY <1>1, <1>2
<1>3. CASE d * d > m
  <2>1. PICK e \in Nat : m = d * e
    BY <1>1, Quotient
  <2>2. e > 1 /\ e < d
    <3>1. d \in Nat /\ d > 1
      OBVIOUS
    <3>2. e # 0 /\ e # 1
      BY <2>1
    <3>3. ~(d <= e)
      <4>1. d <= e => d * d <= d * e
        BY <3>1
      <4> QED
        BY <1>3, <2>1, <4>1
    <3> QED
      BY <3>2, <3>3
  <2>3. e * e <= m
    <3>1. e * e <= e * d
      BY <2>2
    <3> QED
      BY <2>1, <3>1
  <2>4. Divides(e, m)
    <3>1. m = e * d
      BY <2>1
    <3> QED
      BY <2>2, <3>1, DividesMultiple
  <2> QED
    BY <2>2, <2>3, <2>4
<1> QED
  BY <1>2, <1>3

-----------------------------------------------------------------------------
(***************************************************************************)
(* What pfact must answer, from what its filters find out.                 *)
(***************************************************************************)

\* The root of a square is its quotient.
LEMMA RootIsQuotient ==
  ASSUME NEW k \in Nat, k > 1, NEW m \in Nat, m = k * k
  PROVE  m \div k = k /\ Divides(k, m) /\ k \in 2..(m - 1)
<1>1. Divides(k, m)
  BY DividesMultiple
<1>2. m \div k \in Nat /\ m = k * (m \div k)
  BY <1>1, Quotient
<1>3. m \div k = k
  <2> DEFINE e == m \div k
  <2>1. e \in Nat /\ k * e = k * k
    BY <1>2
  <2> HIDE DEF e
  <2>2. e = k
    BY <2>1
  <2> QED
    BY <2>2 DEF e
<1>4. k * k > k
  OBVIOUS
<1> QED
  BY <1>1, <1>3, <1>4

\* The square of a prime.
LEMMA AnswerSquare ==
  ASSUME NEW k \in Nat, Prime(k), NEW m \in Nat, m = k * k
  PROVE  Answer(m) = Verdict(1, <<k, k>>)
<1>1. k > 1 /\ m \div k = k /\ Divides(k, m) /\ k \in 2..(m - 1) /\ k <= k
  BY RootIsQuotient DEF Prime
<1>2. LesserPrime(k, m) /\ k \in 2..m
  BY <1>1 DEF LesserPrime, PrimePair
<1>3. ASSUME NEW a \in 2..m, LesserPrime(a, m) PROVE a = k
  <2> DEFINE b == m \div a
  <2>1. Prime(a) /\ Prime(b) /\ b \in Nat /\ a * b = m /\ a \in Nat /\ a > 1
    <3>1. b \in Nat
      BY <1>3, Quotient DEF LesserPrime
    <3> QED
      BY <1>3, <3>1 DEF LesserPrime, PrimePair
  <2> HIDE DEF b
  <2>2. k = a \/ k = b
    BY <1>1, <2>1, PrimeOfPair
  <2>3. k = b => a * k = k * k
    BY <2>1
  <2> QED
    BY <1>1, <2>1, <2>2, <2>3
<1>4. ~Prime(m) /\ ProductOfTwoPrimes(m)
  BY <1>1, <1>2 DEF Prime, ProductOfTwoPrimes
<1>5. (CHOOSE a \in 2..m : LesserPrime(a, m)) = k
  BY <1>2, <1>3
<1> QED
  BY <1>1, <1>4, <1>5 DEF Answer

\* Two different primes.
LEMMA AnswerPair ==
  ASSUME NEW f \in Nat, Prime(f), NEW e \in Nat, Prime(e), f < e, NEW m \in Nat, m = f * e
  PROVE  Answer(m) = Verdict(2, <<f, e>>)
<1>1. f > 1 /\ e > 1 /\ f < m
  <2>1. f > 1 /\ e > 1
    BY DEF Prime
  <2>2. f * 1 < f * e
    BY <2>1
  <2> QED
    BY <2>1, <2>2
<1>2. Divides(f, m) /\ m \div f \in Nat /\ f * (m \div f) = f * e
  BY <1>1, DividesMultiple, Quotient
<1>3. m \div f = e
  <2> DEFINE q == m \div f
  <2>1. q \in Nat /\ f * q = f * e
    BY <1>2
  <2> HIDE DEF q
  <2>2. q = e
    BY <1>1, <2>1
  <2> QED
    BY <2>2 DEF q
<1>4. LesserPrime(f, m) /\ f \in 2..m /\ f \in 2..(m - 1)
  BY <1>1, <1>2, <1>3 DEF LesserPrime, PrimePair
<1>5. ASSUME NEW a \in 2..m, LesserPrime(a, m) PROVE a = f
  <2> DEFINE b == m \div a
  <2>1. Prime(a) /\ Prime(b) /\ b \in Nat /\ a * b = m /\ a <= b /\ a \in Nat /\ a > 1
    <3>1. b \in Nat
      BY <1>5, Quotient DEF LesserPrime
    <3> QED
      BY <1>5, <3>1 DEF LesserPrime, PrimePair
  <2> HIDE DEF b
  <2>2. f = a \/ f = b
    BY <1>2, <2>1, PrimeOfPair
  <2>3. ASSUME f = b PROVE FALSE
    <3>1. a * b = e * b
      BY <2>1, <2>3
    <3>2. a = e
      BY <2>1, <3>1
    <3> QED
      BY <2>1, <2>3, <3>2
  <2> QED
    BY <2>2, <2>3
<1>6. ~Prime(m) /\ ProductOfTwoPrimes(m)
  BY <1>2, <1>4 DEF Prime, ProductOfTwoPrimes
<1>7. (CHOOSE a \in 2..m : LesserPrime(a, m)) = f
  BY <1>4, <1>5
<1>8. f # e
  OBVIOUS
<1> QED
  BY <1>3, <1>6, <1>7, <1>8, Zenon DEF Answer

\* The second of two unequal factors is a prime.
LEMMA AnswerPrimes ==
  ASSUME NEW m \in Nat, Answer(m).result = 2
  PROVE  Prime(Answer(m).factors[2])
<1> DEFINE a == CHOOSE a \in 2..m : LesserPrime(a, m)
<1>1. ~Prime(m) /\ ProductOfTwoPrimes(m)
  BY DEF Answer, Verdict
<1>2. a \in 2..m /\ LesserPrime(a, m)
  BY <1>1 DEF ProductOfTwoPrimes
<1>3. Answer(m) = Verdict(IF a = m \div a THEN 1 ELSE 2, <<a, m \div a>>)
  BY <1>1 DEF Answer
<1> HIDE DEF a
<1>4. Answer(m).factors = <<a, m \div a>>
  BY <1>3 DEF Verdict
<1> QED
  BY <1>2, <1>4 DEF LesserPrime, PrimePair

\* A number that is neither a prime nor the product of two.
LEMMA AnswerOther ==
  ASSUME NEW m \in Nat, NEW f \in 2..(m - 1), Divides(f, m),
         \A a, b \in Nat : ~(Prime(a) /\ Prime(b) /\ a <= b /\ a * b = m)
  PROVE  Answer(m) = Verdict(3, << >>)
<1>1. ~Prime(m)
  BY DEF Prime
<1>2. ~ProductOfTwoPrimes(m)
  <2>1. ASSUME NEW a \in 2..m, LesserPrime(a, m) PROVE FALSE
    <3>1. m \div a \in Nat
      BY <2>1, Quotient DEF LesserPrime
    <3> QED
      BY <2>1, <3>1 DEF LesserPrime, PrimePair
  <2> QED
    BY <2>1 DEF ProductOfTwoPrimes
<1> QED
  BY <1>1, <1>2 DEF Answer

\* Two primes below the root divide the number: these are too many factors.
LEMMA TwoBelowRoot ==
  ASSUME NEW m \in Nat, NEW f \in Nat, Prime(f), Divides(f, m),
         NEW k \in Nat, Prime(k), Divides(k, m), f # k, f * f < m, k * k < m
  PROVE  Answer(m) = Verdict(3, << >>)
<1>1. f > 1 /\ k > 1 /\ f * k < m
  <2>1. f > 1 /\ k > 1
    BY DEF Prime
  <2>2. f * k <= f * f \/ f * k <= k * k
    <3>1. CASE k <= f
      BY <3>1
    <3>2. CASE f <= k
      BY <3>2
    <3> QED
      BY <3>1, <3>2
  <2> QED
    BY <2>1, <2>2
<1>2. f \in 2..(m - 1)
  <2>1. f * f >= f
    BY <1>1
  <2> QED
    BY <1>1, <2>1
<1>3. ASSUME NEW a \in Nat, NEW b \in Nat, Prime(a), Prime(b), a * b = m PROVE FALSE
  <2>1. (f = a \/ f = b) /\ (k = a \/ k = b)
    BY <1>3, PrimeOfPair
  <2>2. a * b = f * k \/ a * b = k * f
    BY <2>1
  <2> QED
    BY <1>1, <1>3, <2>2
<1> QED
  BY <1>2, <1>3, AnswerOther

\* One prime below the root divides the number, but what it leaves is no prime.
LEMMA CofactorNoPrime ==
  ASSUME NEW m \in Nat, NEW f \in Nat, Prime(f), Divides(f, m), f * f < m,
         ~Prime(m \div f)
  PROVE  Answer(m) = Verdict(3, << >>)
<1>1. f > 1
  BY DEF Prime
<1>2. f \in 2..(m - 1)
  <2>1. f * f >= f
    BY <1>1
  <2> QED
    BY <1>1, <2>1
<1>3. ASSUME NEW a \in Nat, NEW b \in Nat, Prime(a), Prime(b), a <= b, a * b = m PROVE FALSE
  <2>1. f = a \/ f = b
    BY <1>3, PrimeOfPair
  <2>2. CASE f = a
    <3>1. m \div f \in Nat /\ m = f * (m \div f)
      BY <1>1, Quotient
    <3>2. m \div f = b
      <4> DEFINE e == m \div f
      <4>1. e \in Nat /\ f * e = f * b
        BY <1>3, <2>2, <3>1
      <4> HIDE DEF e
      <4>2. e = b
        BY <1>1, <4>1
      <4> QED
        BY <4>2 DEF e
    <3> QED
      BY <1>3, <3>2
  <2>3. CASE f = b
    <3>1. a * f <= f * f
      BY <1>3, <2>3
    <3> QED
      BY <1>3, <2>3, <3>1
  <2> QED
    BY <2>1, <2>2, <2>3
<1> QED
  BY <1>2, <1>3, AnswerOther

=============================================================================
