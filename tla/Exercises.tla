----------------------------- MODULE Exercises ------------------------------
(***************************************************************************)
(* Single functions of assignment 1 and labs 2, 3 and 5, beside what their *)
(* comments and assignments ask of them.  A string is a sequence of        *)
(* characters; the zero byte behind it is not written.                     *)
(***************************************************************************)
EXTENDS Integers, SequencesExt

CONSTANTS
  SinDigits,     \* 9, the digits of a Social Insurance Number
  IntWidth,      \* 2^32, the values of an int
  Capacity       \* 20, the size of greeting

ASSUME ExercisesAssumption ==
  /\ SinDigits \in Nat /\ SinDigits % 2 = 1
  /\ IntWidth \in Nat /\ IntWidth % 2 = 0 /\ IntWidth >= 2 * 10^SinDigits
  /\ \A k \in 0..SinDigits : 10^k > 0
  /\ Capacity \in Nat \ {0}

Abs(n) == IF n < 0 THEN -n ELSE n
First(s, n) == SubSeq(s, 1, Min({n, Len(s)}))

\* The sum of the first n elements of an array.
SumOf(a, n) ==
  LET sum[k \in 0..n] == IF k = 0 THEN 0 ELSE sum[k - 1] + a[k - 1]
  IN  sum[n]

-----------------------------------------------------------------------------
(***************************************************************************)
(* validate_sin (assignment 1).                                            *)
(***************************************************************************)
\* strtol() gives a long, of which an int keeps the low bits.
Cut(n) == ((n + IntWidth \div 2) % IntWidth) - IntWidth \div 2

\* Whether populate_array() finds as many digits as it wants; the sign of a
\* number is on each of its digits.
HasDigits(n) == 10^(SinDigits - 1) <= Abs(n) /\ Abs(n) < 10^SinDigits

\* The digits it writes, from the first one on.
populate_array(n) == [i \in 0..(SinDigits - 1) |-> (Abs(n) \div 10^(SinDigits - 1 - i)) % 10]

\* Mutant: the digits that are doubled are the others.
check_sinOther(digits) ==
  LET result == [i \in DOMAIN digits |->
                   LET product == (IF i % 2 = 0 THEN 2 ELSE 1) * digits[i]
                   IN  (product % 10) + product \div 10]
  IN  SumOf(result, SinDigits) % 10 = 0

\* check_sin(): the sum of the digits, every second one doubled and replaced
\* by the sum of its own digits.
check_sin(digits) ==
  LET result == [i \in DOMAIN digits |->
                   LET product == (IF i % 2 # 0 THEN 2 ELSE 1) * digits[i]
                   IN  (product % 10) + product \div 10]
  IN  SumOf(result, SinDigits) % 10 = 0

\* What main() prints for a number; with other than nine digits it does not
\* matter what check_sin() makes of an array that was not filled.
ValidSin(n) == HasDigits(Cut(n)) /\ check_sin(populate_array(Cut(n)))

\* The check of the assignment: the tens complement of the sum of the digits
\* before the last is the last one.
CheckDigit(n) ==
  LET digit(i) == (n \div 10^i) % 10
      double(d) == IF 2 * d > 9 THEN 2 * d - 9 ELSE 2 * d
      weighted == [j \in 0..(SinDigits - 2) |->
                     IF j % 2 = 0 THEN double(digit(j + 1)) ELSE digit(j + 1)]
  IN  (10 - (SumOf(weighted, SinDigits - 1) % 10)) % 10

(***************************************************************************)
(* Valid is a number of nine digits, the last of which is the check digit. *)
(***************************************************************************)
SinAsDocumented(n) ==
  ValidSin(n) <=> n \in (10^(SinDigits - 1))..(10^SinDigits - 1) /\ n % 10 = CheckDigit(n)

-----------------------------------------------------------------------------
(***************************************************************************)
(* split_array (lab 2): main() passes argc, one more than the elements.    *)
(***************************************************************************)
split_array(s, length) ==
  <<[j \in 1..(length \div 2)       |-> s[2 * j - 1]],
    [j \in 1..((length - 1) \div 2) |-> s[2 * j]]>>

\* Every element is in one of the two arrays, where its index says, and no
\* memory is allocated for more.
SplitAsDocumented(s) ==
  LET r == split_array(s, Len(s) + 1)
  IN  /\ Len(r[1]) + Len(r[2]) = Len(s)
      /\ \A i \in 0..(Len(s) - 1) : r[1 + (i % 2)][1 + (i \div 2)] = s[i + 1]

-----------------------------------------------------------------------------
(***************************************************************************)
(* strip_q_marks and truncate (lab 3): what is left of a string, and the   *)
(* number that is returned.                                                *)
(***************************************************************************)
\* The while loop: the least i at which it stops.  The byte before an empty
\* argument is the end of the one before it.
strip_q_marks(s) ==
  LET i == Min({k \in 0..Len(s) : k = Len(s) \/ s[Len(s) - k] # "?"})
  IN  <<First(s, Len(s) - i), i>>

StripAsDocumented(s) ==
  LET r == strip_q_marks(s)
  IN  /\ s = r[1] \o [k \in 1..r[2] |-> "?"]
      /\ r[1] # << >> => Last(r[1]) # "?"

truncate(s, amt) ==
  IF Len(s) <= amt THEN <<s, 0>> ELSE <<First(s, amt), Len(s) - amt>>

TruncateAsDocumented(s, n) ==
  LET r == truncate(s, n)
  IN  IsPrefix(r[1], s) /\ Len(r[1]) + r[2] = Len(s) /\ Len(r[1]) = Min({n, Len(s)})

-----------------------------------------------------------------------------
(***************************************************************************)
(* greeting (lab 3) and copy (lab 5): arrays of a given capacity.          *)
(***************************************************************************)
\* strncpy() and a zero byte at the end; a space; as much of the name as fits.
greeting(message, name) ==
  LET first == First(message, Capacity - 1)
      space == First(Append(first, " "), Capacity - 1)
  IN  space \o First(name, Capacity - 1 - Len(space))

\* The text of the message, a space and the name, cut to what the array holds.
\* (Behind a message that fills it strncat() puts a zero byte that lies outside
\* the array; the model has no memory there, and says nothing of that byte.)
GreetingAsDocumented(message, name) ==
  greeting(message, name) = First(message \o <<" ">> \o name, Capacity - 1)

\* The loop copies up to the zero byte or to the capacity, and then the last
\* byte is made zero.
copy(src, capacity) ==
  IF Len(src) < capacity THEN src ELSE First(src, capacity - 1)

CopyAsDocumented(src, capacity) ==
  capacity > 0 => IsPrefix(copy(src, capacity), src)
                  /\ Len(copy(src, capacity)) = Min({Len(src), capacity - 1})

=============================================================================
