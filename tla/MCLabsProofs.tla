---------------------------- MODULE MCLabsProofs ----------------------------
(***************************************************************************)
(* Of the small programs, whichever runs: checkpasswd's verdicts are       *)
(* validate's, in childcreates and parentcreates no process ends before    *)
(* its children, time_reads reports what was done, and client and server   *)
(* meet on the server's port or not at all.                                *)
(***************************************************************************)
EXTENDS MCLabs, LabLemmas

(***************************************************************************)
(* The others stay as they are: a step is one of a program or leaves its   *)
(* variables alone.                                                        *)
(***************************************************************************)
LEMMA OneRuns ==
  [Next]_vars => /\ [Rl!Next]_(Rl!vars)
                 /\ [Cp!Next]_(Cp!vars)
                 /\ [Fl!Next]_(Fl!vars)
                 /\ [Tr!Next]_(Tr!vars)
                 /\ [Mf!Next]_(Mf!vars)
                 /\ [Cy!Next]_(Cy!vars)
                 /\ [Sp!Next]_(Sp!vars)
                 /\ [Gu!Next]_(Gu!vars)
<1> SUFFICES ASSUME [Next]_vars
             PROVE  /\ [Rl!Next]_(Rl!vars)
                    /\ [Cp!Next]_(Cp!vars)
                    /\ [Fl!Next]_(Fl!vars)
                    /\ [Tr!Next]_(Tr!vars)
                    /\ [Mf!Next]_(Mf!vars)
                    /\ [Cy!Next]_(Cy!vars)
                    /\ [Sp!Next]_(Sp!vars)
                    /\ [Gu!Next]_(Gu!vars)
  OBVIOUS
<1>0. Rl!Next \/ UNCHANGED rlVars
  BY DEF Next, vars
<1>1. Cp!Next \/ UNCHANGED cpVars
  BY DEF Next, vars
<1>2. Fl!Next \/ UNCHANGED flVars
  BY DEF Next, vars
<1>3. Tr!Next \/ UNCHANGED trVars
  BY DEF Next, vars
<1>4. Mf!Next \/ UNCHANGED mfVars
  BY DEF Next, vars
<1>5. Cy!Next \/ UNCHANGED cyVars
  BY DEF Next, vars
<1>6. Sp!Next \/ UNCHANGED spVars
  BY DEF Next, vars
<1>7. Gu!Next \/ UNCHANGED guVars
  BY DEF Next, vars
<1> QED
  BY <1>0, <1>1, <1>2, <1>3, <1>4, <1>5, <1>6, <1>7
  DEF Rl!vars, rlVars, Cp!vars, Fl!vars, Tr!vars, Mf!vars, Cy!vars, Sp!vars,
      Gu!vars, Gu!parent, Gu!child, cpVars, flVars, trVars, mfVars, cyVars, spVars, guVars

-----------------------------------------------------------------------------
(***************************************************************************)
(* guess: whatever the order of steps and signals.                         *)
(***************************************************************************)
LEMMA HighestIsNat == Highest \in Nat
  BY BoundsAssumption

\* Guess's copy of the size of a set.
LEMMA SameSize == \A S : Gu!Cardinality(S) = Cardinality(S)
  BY Zenon DEF Gu!Cardinality, Cardinality, Gu!IsFiniteSet, IsFiniteSet

\* What the user says of a guess, case by case.
LEMMA Judged ==
  ASSUME guess \in Int, secret \in Int
  PROVE  /\ Gu!Judgement \in Gu!Signals
         /\ Gu!Judgement = "SIGUSR1" => secret < guess
         /\ Gu!Judgement = "SIGUSR2" => guess < secret
         /\ Gu!Judgement = "SIGINT" => guess = secret
  BY DEF Gu!Judgement, Gu!Signals

\* The invariant holds before the first guess.
LEMMA GuInvInit == Gu!Init => Gu!IInv
<1> SUFFICES ASSUME Gu!Init PROVE Gu!IInv
  OBVIOUS
<1>1. patient \in BOOLEAN
  BY PatienceAssumption, Zenon DEF Gu!Init
<1>2. /\ secret \in 0..Highest /\ guess \in 0..Highest
      /\ lowest \in 0..(Highest + 1) /\ higest \in -1..Highest
      /\ num_guess \in 0..(Highest + 1)
  BY HighestIsNat DEF Gu!Init
<1>3. Gu!TypeOK
  BY <1>1, <1>2, Zenon DEF Gu!Init, Gu!TypeOK, Gu!Signals
<1>4. Gu!NoGuessTwice
  BY FS_EmptySet, SameSize DEF Gu!Init, Gu!NoGuessTwice
<1>5. QED
  BY <1>2, <1>3, <1>4, HighestIsNat DEF Gu!Init, Gu!IInv, Gu!SecretInRange, Gu!Open

\* A guess is a number not shown before, and what was shown stays in 0..Highest.
LEMMA GuessIsNew ==
  ASSUME Gu!IInv, Gu!NewGuess
  PROVE  /\ guess' \in lowest..higest /\ guess' \in 0..Highest
         /\ seen' \subseteq 0..Highest
         /\ \A g \in seen' \cap (lowest..higest) : g = guess'
         /\ num_guess' \in 0..(Highest + 1) /\ Gu!NoGuessTwice'
<1> USE HighestIsNat
<1>1. /\ guess' \in lowest..higest /\ guess' \in 0..Highest
      /\ seen' = seen \cup {guess'} /\ num_guess' = num_guess + 1
      /\ seen \cap (lowest..higest) = {}
  BY DEF Gu!NewGuess, Gu!IInv, Gu!TypeOK
<1>2. seen' \subseteq 0..Highest
  BY <1>1 DEF Gu!IInv, Gu!TypeOK
<1>3. IsFiniteSet(0..Highest) /\ Cardinality(0..Highest) = Highest + 1
  BY FS_Interval
<1>4. IsFiniteSet(seen) /\ Cardinality(seen') <= Highest + 1
  BY <1>2, <1>3, FS_Subset DEF Gu!IInv, Gu!TypeOK
<1>5. guess' \notin seen
  BY <1>1
<1>6. Cardinality(seen') = Cardinality(seen) + 1
  BY <1>1, <1>4, <1>5, FS_AddElement
<1>7. num_guess \in Nat /\ num_guess = Cardinality(seen)
  BY SameSize DEF Gu!IInv, Gu!TypeOK, Gu!NoGuessTwice
<1>8. num_guess' \in 0..(Highest + 1) /\ Gu!NoGuessTwice'
  BY <1>1, <1>4, <1>6, <1>7, SameSize DEF Gu!NoGuessTwice
<1>9. QED
  BY <1>1, <1>2, <1>8

\* A step that shows no number leaves the count right.
LEMMA CountStays ==
  ASSUME Gu!IInv, UNCHANGED <<num_guess, seen>>
  PROVE  Gu!NoGuessTwice'
  BY Zenon DEF Gu!IInv, Gu!NoGuessTwice

\* Every step of the parent keeps it.
LEMMA GuParentStep == Gu!IInv /\ Gu!Parent => Gu!IInv'
<1> SUFFICES ASSUME Gu!IInv, Gu!Parent PROVE Gu!IInv'
  OBVIOUS
<1> USE HighestIsNat
<1>1. CASE Gu!NewGuess
  BY <1>1, GuessIsNew DEF Gu!NewGuess, Gu!IInv, Gu!TypeOK, Gu!SecretInRange,
         Gu!Open, Gu!Signals, Gu!Judgement, Gu!child
<1>2. CASE Gu!SendInt
  BY <1>2, CountStays DEF Gu!SendInt, Gu!IInv, Gu!TypeOK, Gu!SecretInRange,
         Gu!Open, Gu!Signals, Gu!Judgement
<1>3. CASE Gu!Pause
  BY <1>3, CountStays DEF Gu!Pause, Gu!IInv, Gu!TypeOK, Gu!SecretInRange,
         Gu!Open, Gu!Signals, Gu!Judgement, Gu!child
<1>4. CASE Gu!High
  BY <1>4, CountStays, Judged DEF Gu!High, Gu!Delivered, Gu!Wake, Gu!IInv, Gu!TypeOK, Gu!SecretInRange,
         Gu!Open, Gu!Signals, Gu!child
<1>5. CASE Gu!Low
  BY <1>5, CountStays, Judged DEF Gu!Low, Gu!Delivered, Gu!Wake, Gu!IInv, Gu!TypeOK, Gu!SecretInRange,
         Gu!Open, Gu!Signals, Gu!child
<1>6. CASE Gu!Found
  BY <1>6, CountStays, Judged DEF Gu!Found, Gu!Delivered, Gu!Wake, Gu!IInv, Gu!TypeOK, Gu!SecretInRange,
         Gu!Open, Gu!Signals, Gu!child
<1>7. QED
  BY <1>1, <1>2, <1>3, <1>4, <1>5, <1>6 DEF Gu!Parent

\* Every step of the child keeps it.
LEMMA GuChildStep == Gu!IInv /\ Gu!Child => Gu!IInv'
<1> SUFFICES ASSUME Gu!IInv, Gu!Child PROVE Gu!IInv'
  OBVIOUS
<1> USE HighestIsNat
<1>1. CASE Gu!Judge
  BY <1>1, CountStays, Judged DEF Gu!Judge, Gu!IInv, Gu!TypeOK, Gu!SecretInRange,
         Gu!Open, Gu!Signals, Gu!Judgement
<1>2. CASE Gu!ChildPause
  BY <1>2, CountStays DEF Gu!ChildPause, Gu!IInv, Gu!TypeOK, Gu!SecretInRange,
         Gu!Open, Gu!Judgement, Gu!parent
<1>3. CASE Gu!End
  BY <1>3, CountStays DEF Gu!End, Gu!Wake, Gu!IInv, Gu!TypeOK, Gu!SecretInRange,
         Gu!Open, Gu!Judgement, Gu!parent
<1>4. CASE Gu!KillParent
  BY <1>4, CountStays DEF Gu!KillParent, Gu!IInv, Gu!TypeOK, Gu!SecretInRange,
         Gu!Open, Gu!Judgement
<1>5. QED
  BY <1>1, <1>2, <1>3, <1>4 DEF Gu!Child

\* Every step of the game keeps the invariant.
LEMMA GuInvStep == Gu!IInv /\ [Gu!Next]_(Gu!vars) => Gu!IInv'
<1>1. Gu!IInv /\ UNCHANGED Gu!vars => Gu!IInv'
  BY CountStays DEF Gu!vars, Gu!parent, Gu!child, Gu!IInv, Gu!TypeOK, Gu!SecretInRange, Gu!Open,
                    Gu!Judgement
<1> QED
  BY <1>1, GuParentStep, GuChildStep DEF Gu!Next

(***************************************************************************)
(* The invariant of the game holds for every size of the range, with a     *)
(* patient or an impatient user.                                           *)
(***************************************************************************)
THEOREM GameInvariant == Spec => []IInv
<1>1. Init => IInv
  BY GuInvInit DEF Init, IInv
<1>2. IInv /\ [Next]_vars => IInv'
  BY GuInvStep, OneRuns DEF IInv
<1> QED
  BY <1>1, <1>2, PTL DEF Spec

\* The secret is always in the range the parent guesses from (guess.c:117).
THEOREM RangeKeepsSecret == Spec => []SecretInRange
<1>1. IInv => SecretInRange
  BY DEF IInv, SecretInRange, Gu!IInv
<1> QED
  BY <1>1, GameInvariant, PTL

\* No number is guessed twice (guess.c:112-118), for every size of the range.
THEOREM NoRepetition == Spec => []NoGuessTwice
<1>1. IInv => NoGuessTwice
  BY DEF IInv, NoGuessTwice, Gu!IInv
<1> QED
  BY <1>1, GameInvariant, PTL

-----------------------------------------------------------------------------
(***************************************************************************)
(* compress_file and uncompress_file.                                      *)
(***************************************************************************)
\* RunLength's copy of the operators of Runs.
LEMMA SameRuns ==
  /\ Rl!Byte = Byte
  /\ \A s : Rl!Kept(s) = Kept(s) /\ Rl!Expand(s) = Expand(s) /\ Rl!RunsFit(s) = RunsFit(s)
<1>1. Rl!Byte = Byte
  BY DEF Rl!Byte, Byte
<1>2. ASSUME NEW s PROVE Rl!Kept(s) = Kept(s)
  BY Zenon DEF Rl!Kept, Kept, Rl!RunAround, RunAround, Rl!Min, Min,
               Rl!Cardinality, Cardinality, Rl!IsFiniteSet, IsFiniteSet
<1>3. ASSUME NEW s PROVE Rl!Expand(s) = Expand(s)
  BY Zenon DEF Rl!Expand, Expand
<1>4. ASSUME NEW s PROVE Rl!RunsFit(s) = RunsFit(s)
  BY Zenon DEF Rl!RunsFit, RunsFit
<1> QED
  BY <1>1, <1>2, <1>3, <1>4

RlTypes ==
  /\ prompt \in {"start", "count", "write", "expand", "packed", "unpacked", "interrupted"}
  /\ text \in Seq(Byte) /\ packed \in Seq(Byte) /\ unread \in Seq(Byte)
  /\ count \in Byte /\ byte \in Byte
  /\ cut \in {"none", "text", "packed"}
  /\ source \in Seq(Byte) /\ careless \in BOOLEAN

\* compress_file has read up to p, the last bytes from m on being equal; it
\* has written what is kept of the bytes before m.
HasRead(m, p) ==
  /\ m \in 1..Len(source) /\ p \in m..Len(source)
  /\ unread = SubSeq(source, p + 1, Len(source))
  /\ \A j \in m..p : source[j] = byte
  /\ m = 1 \/ source[m - 1] # byte
  /\ Expand(packed) = KeptUpTo(source)[m - 1]

Counting ==
  prompt \in {"count", "write"} =>
    /\ text = source /\ cut = "packed" /\ Len(packed) % 2 = 0
    /\ \E m, p : /\ HasRead(m, p)
                 /\ prompt = "count" => count = (p - m) % Width
                 /\ prompt = "write" => /\ count = (p - m + 1) % Width
                                        /\ p # Len(source) => source[p + 1] # byte

\* uncompress_file has read k pairs, and the last of them has still count
\* copies to be written.
Expanding ==
  prompt = "expand" =>
    /\ cut = "text"
    /\ \E k \in 1..Pairs(packed) :
         /\ unread = SubSeq(packed, 2 * k + 1, Len(packed))
         /\ text \o Copies(count, byte) = ExpandUpTo(packed)[k]

\* What the two files hold, when a program has ended or was interrupted.
Files ==
  /\ prompt = "start" => cut = "packed"
  /\ prompt \in {"packed", "unpacked"} => cut = "none"
  /\ prompt = "interrupted" => cut \in {"text", "packed"}
  /\ cut = "packed" \/ prompt = "packed" => text = source
  /\ prompt = "packed" => Expand(packed) = Kept(source)
  /\ prompt = "unpacked" => text = Expand(packed)
  /\ careless = FALSE /\ (cut = "text" \/ prompt = "unpacked") => Expand(packed) = Kept(source)

RlInv == RlTypes /\ Counting /\ Expanding /\ Files

\* The empty text is packed as it is.
LEMMA OfNothing == Kept(<< >>) = << >> /\ \A f \in Seq(Byte) : Len(f) < 2 => Expand(f) = << >>
<1>1. << >> \in Seq(Byte) /\ Len(<< >>) = 0
  OBVIOUS
<1>2. Kept(<< >>) = << >>
  BY <1>1, KeptSteps, KeptIs
<1>3. ASSUME NEW f \in Seq(Byte), Len(f) < 2 PROVE Expand(f) = << >>
  <2>1. Pairs(f) = 0
    BY <1>3 DEF Pairs
  <2> QED
    BY <2>1, ExpandSteps, ExpandIs DEF Pairs
<1> QED
  BY <1>2, <1>3

\* The invariant of run-length encoding holds at the start.
LEMMA RlInvInit == ASSUME MaxLength \in Nat PROVE Rl!Init => RlInv
<1> SUFFICES ASSUME Rl!Init PROVE RlInv
  OBVIOUS
<1>1. text \in Strings({0, 1}, MaxLength)
  BY DEF Rl!Init
<1>2. text \in Seq(Byte) /\ 0 \in Byte
  <2>1. PICK l \in 0..MaxLength : text \in [1..l -> {0, 1}]
    BY <1>1 DEF Strings
  <2>2. {0, 1} \subseteq Byte
    BY WidthAssumption DEF Byte
  <2> QED
    BY <2>1, <2>2
<1>3. << >> \in Seq(Byte)
  OBVIOUS
<1> QED
  BY <1>2, <1>3 DEF Rl!Init, RlInv, RlTypes, Counting, Expanding, Files

\* compress_file begins.
LEMMA CompressKeepsRlInv == RlInv /\ Rl!Compress => RlInv'
<1> SUFFICES ASSUME RlInv, Rl!Compress PROVE RlInv'
  OBVIOUS
<1>1. /\ source' = text /\ packed' = << >> /\ text' = text
      /\ careless' = (careless \/ cut = "text")
  BY DEF Rl!Compress
<1>2. text \in Seq(Byte) /\ << >> \in Seq(Byte) /\ careless' \in BOOLEAN
  BY <1>1 DEF RlInv, RlTypes
<1>3. CASE text = << >>
  <2>1. prompt' = "packed" /\ cut' = "none" /\ UNCHANGED <<unread, count, byte>>
    BY <1>3 DEF Rl!Compress
  <2>2. Expand(packed') = Kept(source')
    <3>1. Len(<< >>) < 2 /\ << >> \in Seq(Byte)
      OBVIOUS
    <3>2. Expand(<< >>) = << >> /\ Kept(<< >>) = << >>
      BY <3>1, OfNothing, Zenon
    <3> QED
      BY <1>1, <1>3, <3>2
  <2>3. RlTypes'
    BY <1>1, <1>2, <2>1 DEF RlInv, RlTypes
  <2> QED
    BY <1>1, <2>1, <2>2, <2>3 DEF RlInv, Counting, Expanding, Files
<1>4. CASE text # << >>
  <2>1. /\ prompt' = "count" /\ cut' = "packed"
        /\ byte' = Head(text) /\ unread' = Tail(text) /\ count' = 0
    BY <1>4 DEF Rl!Compress
  <2>2. /\ Len(text) \in Nat /\ Len(text) >= 1 /\ byte' = text[1] /\ byte' \in Byte
        /\ unread' = SubSeq(text, 2, Len(text)) /\ unread' \in Seq(Byte) /\ 0 \in Byte
    BY <1>2, <1>4, <2>1, TailIsSubSeq, WidthAssumption DEF Byte
  <2>3. RlTypes'
    BY <1>1, <1>2, <2>1, <2>2 DEF RlTypes
  <2>4. HasRead(1, 1)'
    <3>1. Expand(<< >>) = KeptUpTo(text)[0]
      BY <1>2, KeptSteps, OfNothing
    <3>2. 1 \in 1..Len(text) /\ 1 + 1 = 2 /\ \A j \in 1..1 : j = 1
      BY <2>2
    <3> QED
      BY <1>1, <2>2, <3>1, <3>2 DEF HasRead
  <2>5. Counting'
    <3>1. count' = (1 - 1) % Width /\ Len(packed') % 2 = 0
      BY <1>1, <2>1, WidthAssumption
    <3> QED
      BY <1>1, <2>1, <2>4, <3>1 DEF Counting
  <2> QED
    BY <1>1, <2>1, <2>3, <2>5 DEF RlInv, Expanding, Files
<1> QED
  BY <1>3, <1>4

\* A byte is counted, and the next one looked at.
LEMMA CountKeepsRlInv == RlInv /\ Rl!Count => RlInv'
<1> SUFFICES ASSUME RlInv, Rl!Count PROVE RlInv'
  OBVIOUS
<1>1. /\ prompt = "count" /\ count' = (count + 1) % Width
      /\ UNCHANGED <<text, packed, byte, cut, source, careless>>
  BY DEF Rl!Count
<1>2. /\ source \in Seq(Byte) /\ unread \in Seq(Byte) /\ count \in Nat
      /\ text = source /\ cut = "packed" /\ Len(packed) % 2 = 0
  BY <1>1, WidthAssumption DEF RlInv, RlTypes, Counting, Byte
<1>3. PICK m, p : HasRead(m, p) /\ count = (p - m) % Width
  BY <1>1 DEF RlInv, Counting
<1>4. /\ m \in Nat /\ p \in Nat /\ 1 <= m /\ m <= p /\ p <= Len(source) /\ Len(source) \in Nat
      /\ unread = SubSeq(source, p + 1, Len(source))
      /\ \A j \in m..p : source[j] = byte
      /\ m = 1 \/ source[m - 1] # byte
      /\ Expand(packed) = KeptUpTo(source)[m - 1]
  BY <1>2, <1>3 DEF HasRead
<1>5. count' = (p - m + 1) % Width /\ count' \in Byte
  <2>1. PICK d \in Nat : d = p - m
    BY <1>4
  <2> QED
    BY <1>1, <1>3, <2>1, CountNext
<1>6. CASE unread # << >> /\ Head(unread) = byte
  <2>1. unread' = Tail(unread) /\ prompt' = "count"
    BY <1>1, <1>6 DEF Rl!Count
  <2>2. p + 1 \in m..Len(source)
    <3>1. p # Len(source)
      BY <1>2, <1>4, <1>6
    <3> QED
      BY <1>4, <3>1
  <2>3. source[p + 1] = byte /\ unread' = SubSeq(source, p + 2, Len(source))
    <3>1. /\ Head(SubSeq(source, p + 1, Len(source))) = source[p + 1]
          /\ Tail(SubSeq(source, p + 1, Len(source))) = SubSeq(source, (p + 1) + 1, Len(source))
      BY <1>2, <1>4, <2>2, HeadTailOfSubSeq
    <3> QED
      BY <1>4, <1>6, <2>1, <3>1
  <2>4. HasRead(m, p + 1)'
    <3>1. \A j \in m..(p + 1) : j \in m..p \/ j = p + 1
      BY <1>4
    <3>2. m \in 1..Len(source)
      BY <1>4
    <3>3. (p + 1) + 1 = p + 2
      BY <1>4
    <3> QED
      BY <1>1, <1>4, <2>2, <2>3, <3>1, <3>2, <3>3 DEF HasRead
  <2>5. Counting'
    <3>1. (p + 1) - m = p - m + 1
      BY <1>4
    <3> QED
      BY <1>1, <1>2, <1>5, <2>1, <2>4, <3>1 DEF Counting
  <2>6. RlTypes'
    <3>1. unread' \in Seq(Byte)
      BY <1>2, <1>6, <2>1
    <3> QED
      BY <1>1, <1>5, <2>1, <3>1 DEF RlInv, RlTypes
  <2> QED
    BY <1>1, <1>2, <2>1, <2>5, <2>6 DEF RlInv, Expanding, Files
<1>7. CASE ~(unread # << >> /\ Head(unread) = byte)
  <2>1. unread' = unread /\ prompt' = "write"
    BY <1>1, <1>7 DEF Rl!Count
  <2>2. p # Len(source) => source[p + 1] # byte
    <3> SUFFICES ASSUME p # Len(source) PROVE source[p + 1] # byte
      OBVIOUS
    <3>1. p + 1 \in 1..Len(source) /\ Len(source) \in (p + 1)..Len(source)
      BY <1>4
    <3>2. Head(unread) = source[p + 1]
      BY <1>2, <1>4, <3>1, HeadTailOfSubSeq
    <3>3. unread # << >>
      <4>1. p \in 0..Len(source)
        BY <1>4
      <4> QED
        BY <1>2, <1>4, <4>1, RestIs
    <3> QED
      BY <1>7, <3>2, <3>3
  <2>3. HasRead(m, p)'
    BY <1>1, <1>3, <2>1 DEF HasRead
  <2>4. Counting'
    BY <1>1, <1>2, <1>5, <2>1, <2>2, <2>3 DEF Counting
  <2>5. RlTypes'
    BY <1>1, <1>5, <2>1 DEF RlInv, RlTypes
  <2> QED
    BY <1>1, <1>2, <2>1, <2>4, <2>5 DEF RlInv, Expanding, Files
<1> QED
  BY <1>6, <1>7

\* The pair for a run is written.
LEMMA WriteKeepsRlInv == RlInv /\ Rl!Write => RlInv'
<1> SUFFICES ASSUME RlInv, Rl!Write PROVE RlInv'
  OBVIOUS
<1>1. /\ prompt = "write" /\ packed' = packed \o <<count, byte>>
      /\ UNCHANGED <<text, source, careless>>
  BY DEF Rl!Write
<1>2. /\ source \in Seq(Byte) /\ packed \in Seq(Byte) /\ unread \in Seq(Byte)
      /\ count \in Byte /\ byte \in Byte
      /\ text = source /\ cut = "packed" /\ Len(packed) % 2 = 0
  BY <1>1 DEF RlInv, RlTypes, Counting
<1>3. PICK m, p : /\ HasRead(m, p) /\ count = (p - m + 1) % Width
                  /\ p # Len(source) => source[p + 1] # byte
  BY <1>1 DEF RlInv, Counting
<1>4. /\ m \in Nat /\ p \in Nat /\ 1 <= m /\ m <= p /\ p <= Len(source) /\ Len(source) \in Nat
      /\ unread = SubSeq(source, p + 1, Len(source))
      /\ m \in m..p /\ source[m] = byte
      /\ Expand(packed) = KeptUpTo(source)[m - 1]
  <2>1. /\ m \in Nat /\ p \in Nat /\ 1 <= m /\ m <= p /\ p <= Len(source) /\ Len(source) \in Nat
        /\ m \in m..p
    BY <1>2, <1>3 DEF HasRead
  <2> QED
    BY <1>3, <2>1 DEF HasRead
<1>5. IsRun(source, m, p)
  BY <1>3, <1>4 DEF IsRun, HasRead
<1>6. Expand(packed') = KeptUpTo(source)[p]
  <2>1. Expand(packed') = Expand(packed) \o Copies(count, byte)
    BY <1>1, <1>2, ExpandAdded
  <2>2. KeptUpTo(source)[p] = KeptUpTo(source)[m - 1] \o Copies((p - m + 1) % Width, source[m])
    BY <1>2, <1>5, KeptRun
  <2> QED
    BY <1>3, <1>4, <2>1, <2>2
<1>7. packed' \in Seq(Byte) /\ Len(packed') % 2 = 0
  <2>1. PICK l \in Nat : l = Len(packed) /\ l % 2 = 0
    BY <1>2
  <2>2. Len(packed') = l + 2 /\ packed' \in Seq(Byte)
    BY <1>1, <1>2, <2>1
  <2> QED
    BY <2>1, <2>2
<1>8. CASE unread = << >>
  <2>1. prompt' = "packed" /\ cut' = "none" /\ UNCHANGED <<unread, count, byte>>
    BY <1>8 DEF Rl!Write
  <2>2. p = Len(source)
    <3>1. p \in 0..Len(source)
      BY <1>4
    <3> QED
      BY <1>2, <1>4, <1>8, <3>1, RestIs
  <2>3. Expand(packed') = Kept(source')
    BY <1>1, <1>6, <2>2, KeptIs
  <2>4. RlTypes'
    BY <1>1, <1>2, <1>7, <2>1 DEF RlInv, RlTypes
  <2> QED
    BY <1>1, <1>2, <2>1, <2>3, <2>4 DEF RlInv, Counting, Expanding, Files
<1>9. CASE unread # << >>
  <2>1. /\ prompt' = "count" /\ byte' = Head(unread) /\ unread' = Tail(unread)
        /\ count' = 0 /\ cut' = cut
    BY <1>9 DEF Rl!Write
  <2>2. p # Len(source)
    BY <1>2, <1>4, <1>9
  <2>3. p + 1 \in 1..Len(source) /\ Len(source) \in (p + 1)..Len(source)
    BY <1>4, <2>2
  <2>4. byte' = source[p + 1] /\ unread' = SubSeq(source, (p + 1) + 1, Len(source))
    BY <1>2, <1>4, <2>1, <2>3, HeadTailOfSubSeq
  <2>5. HasRead(p + 1, p + 1)'
    <3>1. p + 1 \in (p + 1)..Len(source) /\ (p + 1) - 1 = p /\ \A j \in (p + 1)..(p + 1) : j = p + 1
      BY <1>4, <2>3
    <3>2. source[p] # byte'
      <4>1. p \in m..p
        BY <1>4
      <4> QED
        BY <1>3, <2>2, <2>4, <4>1 DEF HasRead
    <3> QED
      BY <1>1, <1>6, <2>3, <2>4, <3>1, <3>2 DEF HasRead
  <2>6. Counting'
    <3>1. count' = ((p + 1) - (p + 1)) % Width
      <4>1. (p + 1) - (p + 1) = 0 /\ 0 % Width = 0
        BY <1>4, WidthAssumption
      <4> QED
        BY <2>1, <4>1
    <3> QED
      BY <1>1, <1>2, <1>7, <2>1, <2>5, <3>1 DEF Counting
  <2>7. RlTypes'
    <3>1. byte' \in Byte /\ unread' \in Seq(Byte) /\ 0 \in Byte
      BY <1>2, <1>9, <2>1, <2>3, <2>4, WidthAssumption DEF Byte
    <3> QED
      BY <1>1, <1>2, <1>7, <2>1, <3>1 DEF RlInv, RlTypes
  <2> QED
    BY <1>1, <1>2, <2>1, <2>6, <2>7 DEF RlInv, Expanding, Files
<1> QED
  BY <1>8, <1>9

\* A pair that is read: of the packed text k pairs were read before.
LEMMA PairRead ==
  ASSUME NEW f \in Seq(Byte), NEW k \in 0..Pairs(f), NEW r, r = SubSeq(f, 2 * k + 1, Len(f))
  PROVE  /\ r \in Seq(Byte)
         /\ Len(r) < 2 => k = Pairs(f)
         /\ Len(r) >= 2 => /\ k + 1 \in 1..Pairs(f)
                           /\ r[1] \in Byte /\ r[2] \in Byte
                           /\ SubSeq(r, 3, Len(r)) = SubSeq(f, 2 * (k + 1) + 1, Len(f))
                           /\ SubSeq(r, 3, Len(r)) \in Seq(Byte)
                           /\ ExpandUpTo(f)[k + 1] = ExpandUpTo(f)[k] \o Copies(r[1], r[2])
<1>1. PICK l \in Nat : l = Len(f) /\ f \in [1..l -> Byte]
  OBVIOUS
<1>2. PICK h \in Nat : h = Pairs(f) /\ (l = 2 * h \/ l = 2 * h + 1)
  <2>1. l \div 2 \in Nat /\ (l = 2 * (l \div 2) \/ l = 2 * (l \div 2) + 1)
    OBVIOUS
  <2> QED
    BY <1>1, <2>1, Zenon DEF Pairs
<1>3. k \in Nat /\ k <= h /\ 2 * k \in 0..l
  BY <1>2
<1>4. /\ r \in Seq(Byte) /\ Len(r) = l - 2 * k
      /\ \A j \in 1..(l - 2 * k) : r[j] = f[2 * k + j]
  BY <1>1, <1>3, RestIs
<1>n. PICK n \in Nat : n = Len(r) /\ n = l - 2 * k
  <2>1. l - 2 * k \in Nat
    BY <1>3
  <2> QED
    BY <1>4, <2>1
<1>5. ASSUME Len(r) < 2 PROVE k = h
  <2>1. l - 2 * k < 2
    BY <1>5, <1>n
  <2> QED
    BY <1>2, <1>3, <2>1
<1>6. ASSUME Len(r) >= 2
      PROVE  /\ k + 1 \in 1..h
             /\ r[1] \in Byte /\ r[2] \in Byte
             /\ SubSeq(r, 3, Len(r)) = SubSeq(f, 2 * (k + 1) + 1, Len(f))
             /\ SubSeq(r, 3, Len(r)) \in Seq(Byte)
             /\ ExpandUpTo(f)[k + 1] = ExpandUpTo(f)[k] \o Copies(r[1], r[2])
  <2>1. 2 * k + 2 <= l /\ k + 1 \in 1..h
    <3>1. l - 2 * k >= 2
      BY <1>6, <1>n
    <3> QED
      BY <1>2, <1>3, <3>1
  <2>2. /\ 1 \in 1..(l - 2 * k) /\ 2 \in 1..(l - 2 * k)
        /\ 2 * k + 1 = 2 * (k + 1) - 1 /\ 2 * k + 2 = 2 * (k + 1) /\ (k + 1) - 1 = k
        /\ 2 * k + 1 \in 1..l /\ 2 * k + 2 \in 1..l
    BY <1>3, <2>1
  <2>3. r[1] = f[2 * (k + 1) - 1] /\ r[2] = f[2 * (k + 1)] /\ r[1] \in Byte /\ r[2] \in Byte
    BY <1>1, <1>4, <2>2
  <2>4. ExpandUpTo(f)[k + 1] = ExpandUpTo(f)[k] \o Copies(r[1], r[2])
    BY <1>2, <2>1, <2>2, <2>3, ExpandSteps
  <2>5. /\ SubSeq(r, 3, Len(r)) \in Seq(Byte)
        /\ SubSeq(r, 3, Len(r)) = SubSeq(f, 2 * (k + 1) + 1, Len(f))
    <3> DEFINE a == SubSeq(r, 2 + 1, Len(r))
               b == SubSeq(f, (2 * k + 2) + 1, Len(f))
    <3>1. 2 \in 0..Len(r) /\ 2 * k + 2 \in 0..Len(f)
      BY <1>1, <1>3, <1>4, <2>1
    <3>2. /\ a \in Seq(Byte) /\ Len(a) = Len(r) - 2
          /\ \A j \in 1..(Len(r) - 2) : a[j] = r[2 + j]
      BY <1>4, <3>1, RestIs
    <3>3. /\ b \in Seq(Byte) /\ Len(b) = Len(f) - (2 * k + 2)
          /\ \A j \in 1..(Len(f) - (2 * k + 2)) : b[j] = f[(2 * k + 2) + j]
      BY <3>1, RestIs
    <3>4. 2 + 1 = 3 /\ (2 * k + 2) + 1 = 2 * (k + 1) + 1
      BY <1>3
    <3> HIDE DEF a, b
    <3>5. Len(a) = l - 2 * k - 2 /\ Len(b) = l - 2 * k - 2
      BY <1>1, <1>3, <1>4, <3>2, <3>3
    <3>6. ASSUME NEW j \in 1..Len(a) PROVE a[j] = b[j]
      <4>1. /\ j \in 1..(Len(r) - 2) /\ j \in 1..(Len(f) - (2 * k + 2))
            /\ 2 + j \in 1..(l - 2 * k) /\ 2 * k + (2 + j) = (2 * k + 2) + j
        BY <1>1, <1>3, <1>4, <3>5
      <4> QED
        BY <1>4, <3>2, <3>3, <4>1
    <3>7. a = b
      BY <3>2, <3>3, <3>5, <3>6, SeqEqual
    <3> QED
      BY <3>2, <3>4, <3>7 DEF a, b
  <2> QED
    BY <2>1, <2>3, <2>4, <2>5
<1> QED
  BY <1>2, <1>4, <1>5, <1>6

\* uncompress_file begins.
LEMMA UncompressKeepsRlInv == RlInv /\ Rl!Uncompress => RlInv'
<1> SUFFICES ASSUME RlInv, Rl!Uncompress PROVE RlInv'
  OBVIOUS
<1>1. /\ Rl!Prompt /\ prompt # "start" /\ text' = << >> /\ packed' = packed /\ source' = source
      /\ careless' = (careless \/ cut = "packed")
      /\ Rl!ReadPair(packed, "expand", "unpacked")
  BY DEF Rl!Uncompress
<1>2. /\ packed \in Seq(Byte) /\ unread \in Seq(Byte) /\ source \in Seq(Byte) /\ << >> \in Seq(Byte)
      /\ count \in Byte /\ byte \in Byte /\ careless \in BOOLEAN /\ careless' \in BOOLEAN
  BY <1>1 DEF RlInv, RlTypes
<1>3. careless' = FALSE => Expand(packed) = Kept(source)
  BY <1>1, <1>2 DEF RlInv, RlTypes, Files, Rl!Prompt
<1>4. /\ 0 \in 0..Pairs(packed) /\ packed = SubSeq(packed, 2 * 0 + 1, Len(packed))
      /\ ExpandUpTo(packed)[0] = << >>
  <2>1. packed = SubSeq(packed, 1, Len(packed))
    BY <1>2, SubSeqFull
  <2>2. 0 \in 0..Pairs(packed)
    BY <1>2, PairsIn
  <2>3. ExpandUpTo(packed)[0] = << >>
    BY <1>2, ExpandSteps
  <2>4. 2 * 0 + 1 = 1
    OBVIOUS
  <2> QED
    BY <2>1, <2>2, <2>3, <2>4
<1>5. CASE Len(packed) >= 2
  <2>1. /\ count' = packed[1] /\ byte' = packed[2] /\ unread' = SubSeq(packed, 3, Len(packed))
        /\ prompt' = "expand" /\ cut' = "text"
    BY <1>1, <1>5 DEF Rl!ReadPair
  <2>2. /\ 0 + 1 \in 1..Pairs(packed) /\ count' \in Byte /\ byte' \in Byte
        /\ unread' = SubSeq(packed, 2 * (0 + 1) + 1, Len(packed)) /\ unread' \in Seq(Byte)
        /\ ExpandUpTo(packed)[0 + 1] = ExpandUpTo(packed)[0] \o Copies(count', byte')
    BY <1>2, <1>4, <1>5, <2>1, PairRead
  <2>3. Expanding'
    BY <1>1, <1>4, <2>1, <2>2 DEF Expanding
  <2>4. RlTypes'
    BY <1>1, <1>2, <2>1, <2>2 DEF RlTypes
  <2> QED
    BY <1>1, <1>3, <2>1, <2>3, <2>4 DEF RlInv, Counting, Files
<1>6. CASE ~(Len(packed) >= 2)
  <2>1. unread' = << >> /\ prompt' = "unpacked" /\ cut' = "none" /\ UNCHANGED <<count, byte>>
    BY <1>1, <1>6 DEF Rl!ReadPair
  <2>2. Expand(packed) = << >>
    <3>1. Len(packed) < 2
      BY <1>2, <1>6
    <3> QED
      BY <1>2, <3>1, OfNothing
  <2>3. RlTypes'
    BY <1>1, <1>2, <2>1 DEF RlTypes
  <2> QED
    BY <1>1, <1>3, <2>1, <2>2, <2>3 DEF RlInv, Counting, Expanding, Files
<1> QED
  BY <1>5, <1>6

\* A copy more or less.
LEMMA CopyMoved ==
  ASSUME NEW t \in Seq(Byte), NEW n \in Nat \ {0}, NEW c \in Byte
  PROVE  Append(t, c) \o Copies(n - 1, c) = t \o Copies(n, c)
<1>1. PICK q \in Nat : n = q + 1
  <2>1. n - 1 \in Nat /\ n = (n - 1) + 1
    OBVIOUS
  <2> QED
    BY <2>1
<1>2. <<c>> \o Copies(q, c) = Copies(q + 1, c)
  BY DEF Copies
<1>3. Copies(q, c) \in Seq(Byte) /\ <<c>> \in Seq(Byte)
  BY CopiesAre
<1>4. Append(t, c) = t \o <<c>>
  BY AppendIsConcat
<1>5. (t \o <<c>>) \o Copies(q, c) = t \o (<<c>> \o Copies(q, c))
  BY <1>3, ConcatAssociative
<1>6. n - 1 = q
  BY <1>1
<1> QED
  BY <1>1, <1>2, <1>4, <1>5, <1>6

\* A copy is written, or the next pair read.
LEMMA ExpandPairKeepsRlInv == RlInv /\ Rl!ExpandPair => RlInv'
<1> SUFFICES ASSUME RlInv, Rl!ExpandPair PROVE RlInv'
  OBVIOUS
<1>1. prompt = "expand" /\ UNCHANGED <<packed, source, careless>>
  BY DEF Rl!ExpandPair
<1>2. /\ text \in Seq(Byte) /\ packed \in Seq(Byte) /\ unread \in Seq(Byte) /\ source \in Seq(Byte)
      /\ count \in Byte /\ byte \in Byte /\ count \in Nat /\ careless \in BOOLEAN /\ cut = "text"
      /\ careless = FALSE => Expand(packed) = Kept(source)
  BY <1>1, WidthAssumption DEF RlInv, RlTypes, Expanding, Files, Byte
<1>3. PICK k \in 1..Pairs(packed) :
         /\ unread = SubSeq(packed, 2 * k + 1, Len(packed))
         /\ text \o Copies(count, byte) = ExpandUpTo(packed)[k]
  BY <1>1 DEF RlInv, Expanding
<1>4. CASE count > 0
  <2>1. /\ text' = Append(text, byte) /\ count' = count - 1
        /\ UNCHANGED <<prompt, unread, byte, cut>>
    BY <1>4 DEF Rl!ExpandPair
  <2>2. text' \in Seq(Byte) /\ count' \in Byte
    BY <1>2, <1>4, <2>1, WidthAssumption DEF Byte
  <2>3. text' \o Copies(count', byte) = ExpandUpTo(packed)[k]
    <3>1. count \in Nat \ {0}
      BY <1>2, <1>4
    <3> QED
      BY <1>2, <1>3, <2>1, <3>1, CopyMoved
  <2>4. Expanding'
    BY <1>1, <1>2, <1>3, <2>1, <2>3 DEF Expanding
  <2>5. RlTypes'
    BY <1>1, <2>1, <2>2 DEF RlInv, RlTypes
  <2> QED
    BY <1>1, <1>2, <2>1, <2>4, <2>5 DEF RlInv, Counting, Files
<1>5. CASE ~(count > 0)
  <2>1. text' = text /\ Rl!ReadPair(unread, "expand", "unpacked")
    BY <1>5 DEF Rl!ExpandPair
  <2>2. text = ExpandUpTo(packed)[k]
    <3>1. Copies(count, byte) = << >>
      <4>1. count = 0
        BY <1>2, <1>5
      <4> QED
        BY <4>1 DEF Copies
    <3> QED
      BY <1>2, <1>3, <3>1, ConcatEmptySeq
  <2>3. k \in 0..Pairs(packed)
    BY <1>2, PairsIn
  <2>4. CASE Len(unread) >= 2
    <3>1. /\ count' = unread[1] /\ byte' = unread[2] /\ unread' = SubSeq(unread, 3, Len(unread))
          /\ prompt' = "expand" /\ cut' = "text"
      BY <2>1, <2>4 DEF Rl!ReadPair
    <3>2. /\ k + 1 \in 1..Pairs(packed) /\ count' \in Byte /\ byte' \in Byte
          /\ unread' = SubSeq(packed, 2 * (k + 1) + 1, Len(packed)) /\ unread' \in Seq(Byte)
          /\ ExpandUpTo(packed)[k + 1] = ExpandUpTo(packed)[k] \o Copies(count', byte')
      <4>1. /\ k + 1 \in 1..Pairs(packed) /\ unread[1] \in Byte /\ unread[2] \in Byte
            /\ SubSeq(unread, 3, Len(unread)) = SubSeq(packed, 2 * (k + 1) + 1, Len(packed))
            /\ SubSeq(unread, 3, Len(unread)) \in Seq(Byte)
            /\ ExpandUpTo(packed)[k + 1] = ExpandUpTo(packed)[k] \o Copies(unread[1], unread[2])
        <5>1. packed \in Seq(Byte) /\ k \in 0..Pairs(packed)
          BY <1>2, <2>3
        <5>2. unread = SubSeq(packed, 2 * k + 1, Len(packed))
          BY <1>3
        <5> QED
          BY <2>4, <5>1, <5>2, PairRead
      <4> QED
        BY <3>1, <4>1
    <3>3. Expanding'
      BY <1>1, <2>1, <2>2, <3>1, <3>2 DEF Expanding
    <3>4. RlTypes'
      BY <1>1, <2>1, <3>1, <3>2 DEF RlInv, RlTypes
    <3> QED
      BY <1>1, <1>2, <3>1, <3>3, <3>4 DEF RlInv, Counting, Files
  <2>5. CASE ~(Len(unread) >= 2)
    <3>1. unread' = << >> /\ prompt' = "unpacked" /\ cut' = "none" /\ UNCHANGED <<count, byte>>
      BY <2>1, <2>5 DEF Rl!ReadPair
    <3>2. text = Expand(packed)
      <4>1. Len(unread) < 2
        BY <1>2, <2>5
      <4>2. k = Pairs(packed)
        BY <1>2, <1>3, <2>3, <4>1, PairRead
      <4> QED
        BY <2>2, <4>2, ExpandIs DEF Pairs
    <3>3. RlTypes'
      BY <1>1, <1>2, <2>1, <3>1 DEF RlTypes
    <3> QED
      BY <1>1, <1>2, <2>1, <3>1, <3>2, <3>3 DEF RlInv, Counting, Expanding, Files
  <2> QED
    BY <2>4, <2>5
<1> QED
  BY <1>4, <1>5

\* The user stops the program.
LEMMA InterruptKeepsRlInv == RlInv /\ Rl!Interrupt => RlInv'
<1> SUFFICES ASSUME RlInv, Rl!Interrupt PROVE RlInv'
  OBVIOUS
<1>1. /\ ~Rl!Prompt /\ prompt' = "interrupted"
      /\ UNCHANGED <<unread, count, byte, cut, source, careless>>
  BY DEF Rl!Interrupt
<1>2. RlTypes /\ Counting /\ Expanding /\ Files
  BY DEF RlInv
<1>3. CASE prompt = "expand"
  <2>1. PICK k \in 0..Len(text) : text' = SubSeq(text, 1, k) /\ packed' = packed
    BY <1>3 DEF Rl!Interrupt
  <2>2. text' \in Seq(Byte)
    BY <1>2, <2>1 DEF RlTypes
  <2>3. RlTypes'
    BY <1>1, <1>2, <2>1, <2>2 DEF RlTypes
  <2> QED
    BY <1>1, <1>2, <1>3, <2>1, <2>3 DEF RlInv, Counting, Expanding, Files
<1>4. CASE prompt # "expand"
  <2>1. PICK k \in 0..Len(packed) : packed' = SubSeq(packed, 1, k) /\ text' = text
    BY <1>4 DEF Rl!Interrupt
  <2>2. packed' \in Seq(Byte)
    BY <1>2, <2>1 DEF RlTypes
  <2>3. RlTypes'
    BY <1>1, <1>2, <2>1, <2>2 DEF RlTypes
  <2>4. prompt \in {"count", "write"}
    BY <1>1, <1>2, <1>4 DEF RlTypes, Rl!Prompt
  <2> QED
    BY <1>1, <1>2, <2>1, <2>3, <2>4 DEF RlInv, Counting, Expanding, Files
<1> QED
  BY <1>3, <1>4

\* Every step of the two programs, or of the user, keeps the invariant.
LEMMA RlInvStep == RlInv /\ [Rl!Next]_(Rl!vars) => RlInv'
<1> SUFFICES ASSUME RlInv, [Rl!Next]_(Rl!vars) PROVE RlInv'
  OBVIOUS
<1>1. CASE UNCHANGED Rl!vars
  BY <1>1 DEF RlInv, RlTypes, Counting, HasRead, Expanding, Files, Rl!vars
<1>2. CASE Rl!Next
  BY <1>2, CountKeepsRlInv, WriteKeepsRlInv, ExpandPairKeepsRlInv, CompressKeepsRlInv,
     UncompressKeepsRlInv, InterruptKeepsRlInv DEF Rl!Next, Rl!Program
<1> QED
  BY <1>1, <1>2

\* By the invariant one of the two files holds the text.
LEMMA RlInvLosesNothing == RlInv => NothingLost
<1> SUFFICES ASSUME RlInv, careless = FALSE PROVE text = source \/ Expand(packed) = Kept(source)
  BY SameRuns DEF NothingLost, Rl!NothingLost, RlInv, RlTypes
<1> QED
  BY DEF RlInv, RlTypes, Counting, Expanding, Files

\* By the invariant what comes back is the text, but for runs that are too long.
LEMMA RlInvRestores == RlInv => Restores
<1> SUFFICES ASSUME RlInv, prompt = "unpacked", careless = FALSE
             PROVE  text = Kept(source) /\ (RunsFit(source) => text = source)
  BY SameRuns DEF Restores, Rl!Restores, RlInv, RlTypes
<1>1. source \in Seq(Byte) /\ text = Expand(packed) /\ Expand(packed) = Kept(source)
  BY DEF RlInv, RlTypes, Files
<1> QED
  BY <1>1, KeptAll

(***************************************************************************)
(* For every text, however long, every width of a count, and whatever the  *)
(* user stops: unless a program was started on the file that the one       *)
(* before left cut off, the text is still there or the packed file stands  *)
(* for it, as far as runs are not too long.                                *)
(***************************************************************************)
THEOREM TextIsKept == Spec => []NothingLost
<1>1. Init => RlInv
  BY RlInvInit, BoundsAssumption DEF Init
<1>2. RlInv /\ [Next]_vars => RlInv'
  BY RlInvStep, OneRuns
<1>3. RlInv => NothingLost
  BY RlInvLosesNothing
<1> QED
  BY <1>1, <1>2, <1>3, PTL DEF Spec

(***************************************************************************)
(* For every text, however long: when uncompress_file ends, what it has    *)
(* written is the text, and of a run that is too long for the width of a   *)
(* count its length modulo that width.                                     *)
(***************************************************************************)
THEOREM TextComesBack == Spec => []Restores
<1>1. Init => RlInv
  BY RlInvInit, BoundsAssumption DEF Init
<1>2. RlInv /\ [Next]_vars => RlInv'
  BY RlInvStep, OneRuns
<1>3. RlInv => Restores
  BY RlInvRestores
<1> QED
  BY <1>1, <1>2, <1>3, PTL DEF Spec

-----------------------------------------------------------------------------
(***************************************************************************)
(* checkpasswd.                                                            *)
(***************************************************************************)
\* A status is validate's code for the answer, or an error, or the 0 of a
\* child that has failed to become validate; what was said follows from it.
StatusOrigin ==
  child = "ended" => \/ status = Cp!CodeOf(answer)
                     \/ status \in {1, Cp!Signalled}
                     \/ status = 0 /\ executed = FALSE

CInv ==
  /\ answer \in Cp!Answers
  /\ parent = "fork" => child = "none"
  /\ child \in {"none", "dup2", "execl"} => executed = FALSE
  /\ StatusOrigin
  /\ said # "nothing" => child = "ended" /\ said = Cp!Message

\* The exit codes and messages of validate's answers.
LEMMA Values ==
  /\ Cp!CodeOf("match") = 0 /\ Cp!CodeOf("mismatch") = 2 /\ Cp!CodeOf("unknown") = 3
  /\ Cp!Verdict("match") = "Password verified" /\ Cp!Verdict("mismatch") = "Invalid password"
  /\ Cp!Verdict("unknown") = "No such user"
BY DEF Cp!CodeOf, Cp!Verdict

\* Distinct answers have distinct codes.
LEMMA CodesDiffer ==
  \A a \in Cp!Answers : /\ Cp!CodeOf(a) # 1
                        /\ \A b \in Cp!Answers : Cp!CodeOf(a) = Cp!CodeOf(b) => a = b
<1>1. 0 # 1 /\ 0 # 2 /\ 0 # 3 /\ 2 # 1 /\ 2 # 3 /\ 3 # 1
  OBVIOUS
<1> QED
  BY <1>1, Values, Zenon DEF Cp!Answers

\* Distinct answers have distinct verdicts, and none of them is one of the
\* other messages.
LEMMA VerdictsDiffer ==
  \A a \in Cp!Answers :
    /\ Cp!Verdict(a) \notin {"nothing", "terminates abnormally", "terminates with error"}
    /\ \A b \in Cp!Answers : Cp!Verdict(a) = Cp!Verdict(b) => a = b
BY Values DEF Cp!Answers

\* The invariant of checkpasswd holds at the start.
LEMMA CInvInit == Cp!Init => CInv
BY DEF Cp!Init, CInv, StatusOrigin

\* What is to be printed depends on the exit status only.
LEMMA MessageKept == status' = status => Cp!Message' = Cp!Message
BY DEF Cp!Message

\* The parent's steps: only Wait says something, and the child has ended then.
LEMMA ParentKeepsCInv == CInv /\ Cp!Parent => CInv'
<1> SUFFICES ASSUME CInv, Cp!Parent PROVE CInv'
  OBVIOUS
<1>1. CASE Cp!Fork
  BY <1>1, MessageKept DEF Cp!Fork, CInv, StatusOrigin
<1>2. CASE Cp!SendUser \/ Cp!SendPassword
  BY <1>2, MessageKept DEF Cp!SendUser, Cp!SendPassword, Cp!Send, CInv, StatusOrigin
<1>3. CASE Cp!Wait
  BY <1>3, MessageKept DEF Cp!Wait, CInv, StatusOrigin
<1> QED
  BY <1>1, <1>2, <1>3 DEF Cp!Parent

\* The child's steps: nothing has been said before it ends.
LEMMA ChildKeepsCInv == CInv /\ (Cp!Child \/ Cp!ValidateFails) => CInv'
<1> SUFFICES ASSUME CInv, Cp!Child \/ Cp!ValidateFails PROVE CInv'
  OBVIOUS
<1>1. CASE Cp!Dup2
  BY <1>1 DEF Cp!Dup2, Cp!ChildEnds, CInv, StatusOrigin
<1>2. CASE Cp!Execl
  BY <1>2 DEF Cp!Execl, Cp!ChildEnds, CInv, StatusOrigin
<1>3. CASE Cp!ReadUser
  BY <1>3 DEF Cp!ReadUser, CInv, StatusOrigin
<1>4. CASE Cp!ReadPassword
  BY <1>4 DEF Cp!ReadPassword, Cp!ChildEnds, CInv, StatusOrigin
<1>5. CASE Cp!ValidateFails
  BY <1>5 DEF Cp!ValidateFails, Cp!ChildEnds, CInv, StatusOrigin
<1> QED
  BY <1>1, <1>2, <1>3, <1>4, <1>5 DEF Cp!Child

\* Every step of checkpasswd keeps its invariant.
LEMMA CInvStep == CInv /\ [Cp!Next]_(Cp!vars) => CInv'
<1>1. CInv /\ UNCHANGED Cp!vars => CInv'
  BY MessageKept DEF CInv, StatusOrigin, Cp!vars
<1> QED
  BY <1>1, ParentKeepsCInv, ChildKeepsCInv DEF Cp!Next

\* What was said is a verdict of the answer, or follows from a failed execl().
LEMMA CInvTruth == CInv => Cp!SaysTruth
<1> SUFFICES ASSUME CInv, NEW a \in Cp!Answers, said = Cp!Verdict(a), a # answer
             PROVE  a = "match" /\ ~executed
  BY DEF Cp!SaysTruth
<1>1. child = "ended" /\ said = Cp!Message
  BY VerdictsDiffer DEF CInv
<1>2. status # Cp!Signalled /\ \E b \in Cp!Answers : Cp!CodeOf(b) = status
  BY <1>1, VerdictsDiffer DEF Cp!Message
<1>3. PICK b \in Cp!Answers : Cp!CodeOf(b) = status /\ said = Cp!Verdict(b)
  BY <1>1, <1>2 DEF Cp!Message
<1>4. Cp!CodeOf(a) = status
  BY <1>3, VerdictsDiffer
<1>5. status # Cp!CodeOf(answer)
  BY <1>4, CodesDiffer DEF CInv
<1>6. status # 1
  BY <1>4, CodesDiffer
<1>7. status = 0 /\ executed = FALSE
  BY <1>1, <1>2, <1>5, <1>6 DEF CInv, StatusOrigin
<1>8. a = "match"
  BY <1>4, <1>7, Values, CodesDiffer DEF Cp!Answers
<1> QED
  BY <1>7, <1>8

(***************************************************************************)
(* For every answer of validate and every failure: a verdict that          *)
(* checkpasswd prints is validate's, or it is "Password verified" after an *)
(* execl() that has failed.                                                *)
(***************************************************************************)
THEOREM VerdictsTrue == Spec => []SaysTruth
<1>1. Init => CInv
  BY CInvInit DEF Init
<1>2. CInv /\ [Next]_vars => CInv'
  BY CInvStep, OneRuns
<1>3. CInv => SaysTruth
  BY CInvTruth DEF SaysTruth
<1> QED
  BY <1>1, <1>2, <1>3, PTL DEF Spec

-----------------------------------------------------------------------------
(***************************************************************************)
(* childcreates and parentcreates.                                         *)
(***************************************************************************)
\* ForkLoops brings its own copy of the cardinality.
LEMMA SameCardinality == \A S : Fl!Cardinality(S) = Cardinality(S)
BY DEF Fl!Cardinality, Cardinality, Fl!IsFiniteSet, IsFiniteSet

Types ==
  /\ shape \in {"chain", "fan"}
  /\ iterations \in 0..MaxIter
  /\ at \in [Fl!Procs -> {"none", "loop", "print", "exit", "wait", "ended"}]
  /\ i \in [Fl!Procs -> Nat]
  /\ reaped \subseteq Fl!Procs
  /\ failed \in BOOLEAN

\* No process after the k-th has been made.
NoneAbove(k) == \A q \in Fl!Procs : q > k => at[q] = "none"

\* A chain: only the last process is in the loop, and what it has made when
\* it ends has ended.
ChainInv ==
  \A p \in Fl!Procs :
    /\ at[p] # "exit"
    /\ at[p] = "loop"  => i[p] = p /\ NoneAbove(p)
    /\ at[p] = "print" => i[p] = p \/ (i[p] + 1 = p /\ NoneAbove(p))
    /\ at[p] = "ended" => \A q \in Fl!Procs : q = p + 1 => at[q] \in {"none", "ended"}

\* A fan: process 0 has made as many as it has gone through iterations, and
\* has waited for processes that had ended.
FanInv ==
  /\ at[0] \in {"loop", "print", "wait", "ended"}
  /\ i[0] <= iterations
  /\ at[0] = "loop"  => NoneAbove(i[0])
  /\ at[0] = "print" => i[0] < iterations /\ NoneAbove(i[0] + 1)
  /\ at[0] = "wait"  => NoneAbove(iterations)
  /\ at[0] = "ended" /\ failed = FALSE =>
       \A q \in Fl!Procs : q # 0 => at[q] \in {"none", "ended"}
  /\ \A p \in Fl!Procs : p # 0 => /\ at[p] \in {"none", "print", "exit", "ended"}
                                  /\ at[p] = "print" => i[p] + 1 = p
  /\ \A q \in reaped : q # 0 /\ at[q] = "ended"

FInv == Types /\ (shape = "chain" => ChainInv) /\ (shape = "fan" => FanInv)

\* The invariant of the fork loops holds at the start.
LEMMA FInvInit == ASSUME MaxIter \in Nat PROVE Fl!Init => FInv
<1> SUFFICES ASSUME MaxIter \in Nat, Fl!Init PROVE FInv
  OBVIOUS
<1>1. Types
  BY DEF Fl!Init, Types, Fl!Procs
<1>2. ChainInv
  BY DEF Fl!Init, ChainInv, NoneAbove, Fl!Procs
<1>3. FanInv
  BY DEF Fl!Init, FanInv, NoneAbove, Fl!Procs
<1> QED
  BY <1>1, <1>2, <1>3 DEF FInv

\* What a process keeps that ends, whatever it does with its output.
LEMMA FInvEnd ==
  ASSUME MaxIter \in Nat, FInv, NEW p \in Fl!Procs,
         at[p] # "none",
         at' = [at EXCEPT ![p] = "ended"],
         UNCHANGED <<i, shape, iterations>>,
         reaped' \subseteq Fl!Procs, failed' \in BOOLEAN,
         shape = "chain" => \A q \in Fl!Procs : q = p + 1 => at[q] \in {"none", "ended"},
         shape = "fan" => /\ failed = TRUE => failed' = TRUE
                          /\ p = 0 /\ failed' = FALSE =>
                               \A q \in Fl!Procs : q # 0 => at[q] \in {"none", "ended"}
                          /\ \A q \in reaped' : q # 0 /\ (q \in reaped \/ at[q] = "ended" \/ q = p)
  PROVE  FInv'
<1>1. Types'
  BY DEF FInv, Types
<1>2. ASSUME shape = "chain" PROVE ChainInv'
  BY <1>2 DEF FInv, Types, ChainInv, NoneAbove, Fl!Procs
<1>3. ASSUME shape = "fan" PROVE FanInv'
  BY <1>3 DEF FInv, Types, FanInv, NoneAbove, Fl!Procs
<1> QED
  BY <1>1, <1>2, <1>3 DEF FInv

\* A fork that succeeds keeps the invariant, in a chain and in a fan.
LEMMA ForkKeepsFInv ==
  ASSUME MaxIter \in Nat, FInv, NEW p \in Fl!Procs, Fl!Fork(p), UNCHANGED <<shape, iterations>>
  PROVE  FInv'
<1> DEFINE q == i[p] + 1
<1>1. at[p] = "loop" /\ i[p] < iterations /\ q \in Fl!Procs
  BY DEF Fl!Fork, FInv, Types, Fl!Procs
<1>2. /\ at' = [at EXCEPT ![p] = "print", ![q] = "print"]
      /\ i' = [i EXCEPT ![q] = i[p]]
      /\ UNCHANGED <<reaped, failed>>
  BY DEF Fl!Fork
<1> HIDE DEF q
<1>3. Types'
  BY <1>1, <1>2 DEF FInv, Types
<1>4. ASSUME shape = "chain" PROVE ChainInv'
  <2>1. i[p] = p /\ q = p + 1 /\ NoneAbove(p)
    BY <1>1, <1>4 DEF FInv, ChainInv, q
  <2>2. at'[p] = "print" /\ i'[p] = p /\ at'[q] = "print" /\ i'[q] + 1 = q
    BY <1>1, <1>2, <2>1 DEF FInv, Types, Fl!Procs
  <2>3. \A r \in Fl!Procs \ {p, q} : at'[r] = at[r] /\ i'[r] = i[r]
    BY <1>1, <1>2 DEF FInv, Types
  <2>4. \A r \in Fl!Procs : r > q => at'[r] = "none"
    BY <1>1, <2>1, <2>3 DEF NoneAbove, Fl!Procs
  <2>5. \A r \in Fl!Procs : r > p /\ r # q => at'[r] = "none"
    BY <1>1, <2>1, <2>3 DEF NoneAbove, Fl!Procs
  <2>6. \A r \in Fl!Procs : r < p => /\ at[r] # "loop"
                                     /\ at[r] = "print" => i[r] = r
                                     /\ at[r] = "ended" => r + 1 # p
    BY <1>1, <1>4 DEF FInv, ChainInv, NoneAbove, Fl!Procs
  <2>7. ASSUME NEW r \in Fl!Procs, r < p
        PROVE  /\ at'[r] \notin {"exit", "loop"}
               /\ at'[r] = "print" => i'[r] = r
               /\ at'[r] = "ended" => \A c \in Fl!Procs : c = r + 1 => at'[c] \in {"none", "ended"}
    <3>1. at'[r] = at[r] /\ i'[r] = i[r] /\ at[r] # "exit"
      BY <1>1, <1>4, <2>1, <2>3, <2>7 DEF FInv, ChainInv, Fl!Procs
    <3>2. ASSUME at[r] = "ended", NEW c \in Fl!Procs, c = r + 1
          PROVE  at'[c] \in {"none", "ended"}
      <4>1. at[c] \in {"none", "ended"}
        BY <1>4, <3>2 DEF FInv, ChainInv
      <4>2. c # p /\ c # q
        BY <2>1, <2>6, <2>7, <3>2 DEF Fl!Procs
      <4> QED
        BY <2>3, <4>1, <4>2
    <3>3. at[r] # "loop" /\ (at[r] = "print" => i[r] = r)
      BY <2>6, <2>7
    <3> QED
      BY <3>1, <3>2, <3>3
  <2> QED
    BY <1>1, <2>1, <2>2, <2>4, <2>5, <2>7 DEF ChainInv, NoneAbove, Fl!Procs
<1>5. ASSUME shape = "fan" PROVE FanInv'
  <2>1. p = 0 /\ q = i[0] + 1 /\ NoneAbove(i[0])
    BY <1>1, <1>5 DEF FInv, FanInv, q
  <2> QED
    BY <1>1, <1>2, <1>5, <2>1 DEF FInv, Types, FanInv, NoneAbove, Fl!Procs
<1> QED
  BY <1>3, <1>4, <1>5 DEF FInv

\* Printing the line keeps the invariant.
LEMMA PrintKeepsFInv ==
  ASSUME MaxIter \in Nat, FInv, NEW p \in Fl!Procs, Fl!PrintLine(p), UNCHANGED <<shape, iterations>>
  PROVE  FInv'
<1>1. at[p] = "print" /\ UNCHANGED <<reaped, failed>>
  BY DEF Fl!PrintLine
<1>2. CASE Fl!Newborn(p) = (shape = "chain")
  <2>1. i' = [i EXCEPT ![p] = @ + 1] /\ at' = [at EXCEPT ![p] = "loop"]
    BY <1>2 DEF Fl!PrintLine
  <2>2. Types'
    BY <1>1, <2>1 DEF FInv, Types
  <2>3. ASSUME shape = "chain" PROVE ChainInv'
    <3>1. i[p] + 1 = p /\ NoneAbove(p)
      BY <1>1, <1>2, <2>3 DEF FInv, Types, ChainInv, Fl!Newborn, Fl!Procs
    <3> QED
      BY <1>1, <2>1, <2>3, <3>1 DEF FInv, Types, ChainInv, NoneAbove, Fl!Procs
  <2>4. ASSUME shape = "fan" PROVE FanInv'
    <3>1. p = 0
      BY <1>1, <1>2, <2>4 DEF FInv, Types, FanInv, Fl!Newborn
    <3> QED
      BY <1>1, <2>1, <2>4, <3>1 DEF FInv, Types, FanInv, NoneAbove, Fl!Procs
  <2> QED
    BY <2>2, <2>3, <2>4 DEF FInv
<1>3. CASE Fl!Newborn(p) # (shape = "chain")
  <2>1. i' = i /\ at' = [at EXCEPT ![p] = IF shape = "chain" THEN "wait" ELSE "exit"]
    BY <1>3 DEF Fl!PrintLine
  <2>2. Types'
    BY <1>1, <2>1 DEF FInv, Types
  <2>3. ASSUME shape = "chain" PROVE ChainInv'
    BY <1>1, <2>1, <2>3 DEF FInv, Types, ChainInv, NoneAbove, Fl!Procs
  <2>4. ASSUME shape = "fan" PROVE FanInv'
    <3>1. p # 0
      <4>1. p = i[p] + 1
        BY <1>3, <2>4 DEF Fl!Newborn
      <4> QED
        BY <4>1 DEF FInv, Types, Fl!Procs
    <3> QED
      BY <1>1, <2>1, <2>4, <3>1 DEF FInv, Types, FanInv, NoneAbove, Fl!Procs
  <2> QED
    BY <2>2, <2>3, <2>4 DEF FInv
<1> QED
  BY <1>2, <1>3

\* When the fan's last wait() has returned, every child has been waited for.
LEMMA AllReaped ==
  ASSUME MaxIter \in Nat, FInv, shape = "fan", at[0] = "wait",
         NEW S, S \subseteq Fl!Procs \ {0}, \A q \in S : at[q] = "ended",
         ~(Cardinality(S) < iterations)
  PROVE  \A q \in Fl!Procs : q # 0 => at[q] \in {"none", "ended"}
<1>1. S \subseteq 1..iterations
  BY DEF FInv, Types, FanInv, NoneAbove, Fl!Procs
<1>2. iterations \in Nat /\ IsFiniteSet(1..iterations) /\ Cardinality(1..iterations) = iterations
  <2>1. iterations \in Nat
    BY DEF FInv, Types
  <2> QED
    BY <2>1, FS_Interval
<1>3. IsFiniteSet(S) /\ Cardinality(S) \in Nat /\ Cardinality(S) <= iterations
  <2>1. IsFiniteSet(S) /\ Cardinality(S) <= Cardinality(1..iterations)
    BY <1>1, <1>2, FS_Subset
  <2> QED
    BY <1>2, <2>1, FS_CardinalityType
<1>4. Cardinality(S) = iterations
  BY <1>2, <1>3
<1>5. S = 1..iterations
  BY <1>1, <1>2, <1>4, FS_Subset
<1> QED
  BY <1>5 DEF FInv, Types, FanInv, NoneAbove, Fl!Procs

\* A wait() keeps the invariant.
LEMMA WaitKeepsFInv ==
  ASSUME MaxIter \in Nat, FInv, NEW p \in Fl!Procs, Fl!Wait(p), UNCHANGED <<shape, iterations>>
  PROVE  FInv'
<1>1. PICK q \in Fl!Children(p) \ reaped : at[q] = "ended" /\ reaped' = reaped \cup {q}
  BY DEF Fl!Wait
<1>2. at[p] = "wait" /\ UNCHANGED <<i, failed>>
  BY DEF Fl!Wait
<1>3. /\ q \in Fl!Procs
      /\ shape = "chain" => q = p + 1
      /\ shape # "chain" => p = 0 /\ q # 0
  BY DEF Fl!Children
<1>4. CASE shape = "fan" /\ Cardinality(reaped') < iterations
  <2>1. at' = at
    BY <1>4, SameCardinality DEF Fl!Wait
  <2>2. Types'
    BY <1>1, <1>2, <1>3, <2>1 DEF FInv, Types
  <2>3. FanInv'
    BY <1>1, <1>2, <1>3, <1>4, <2>1 DEF FInv, FanInv, NoneAbove
  <2> QED
    BY <1>4, <2>2, <2>3 DEF FInv
<1>5. CASE ~(shape = "fan" /\ Cardinality(reaped') < iterations)
  <2>1. at' = [at EXCEPT ![p] = "ended"]
    BY <1>5, SameCardinality DEF Fl!Wait, Fl!End
  <2>2. reaped' \subseteq Fl!Procs /\ failed' \in BOOLEAN
    BY <1>1, <1>2, <1>3 DEF FInv, Types
  <2>3. shape = "chain" => \A r \in Fl!Procs : r = p + 1 => at[r] \in {"none", "ended"}
    BY <1>1, <1>3
  <2>4. shape = "fan" => \A r \in reaped' : r \in Fl!Procs \ {0} /\ at[r] = "ended"
    BY <1>1, <1>3 DEF FInv, Types, FanInv
  <2>5. shape = "fan" => p = 0 /\ \A r \in Fl!Procs : r # 0 => at[r] \in {"none", "ended"}
    <3> SUFFICES ASSUME shape = "fan"
                 PROVE  p = 0 /\ \A r \in Fl!Procs : r # 0 => at[r] \in {"none", "ended"}
      OBVIOUS
    <3>1. p = 0
      BY <1>3
    <3>2. reaped' \subseteq Fl!Procs \ {0}
      BY <2>4
    <3> QED
      BY <1>2, <1>5, <2>4, <3>1, <3>2, AllReaped
  <2> QED
    BY <1>2, <2>1, <2>2, <2>3, <2>4, <2>5, FInvEnd
<1> QED
  BY <1>4, <1>5

\* So do a fork that fails, the end of a child and the end of a loop.
LEMMA EndsKeepFInv ==
  ASSUME MaxIter \in Nat, FInv, NEW p \in Fl!Procs,
         Fl!ForkFails(p) \/ Fl!ChildExits(p) \/ Fl!LoopEnds(p), UNCHANGED <<shape, iterations>>
  PROVE  FInv'
<1>1. CASE Fl!ForkFails(p)
  <2>1. /\ at[p] = "loop" /\ failed' = TRUE /\ UNCHANGED <<i, reaped>>
        /\ at' = [at EXCEPT ![p] = "ended"]
    BY <1>1 DEF Fl!ForkFails, Fl!End
  <2>2. shape = "chain" => \A q \in Fl!Procs : q = p + 1 => at[q] \in {"none", "ended"}
    BY <2>1 DEF FInv, ChainInv, NoneAbove, Fl!Procs
  <2>3. reaped \subseteq Fl!Procs /\ \A q \in reaped : shape = "fan" => q # 0
    BY DEF FInv, Types, FanInv
  <2> QED
    BY <2>1, <2>2, <2>3, FInvEnd
<1>2. CASE Fl!ChildExits(p)
  <2>1. /\ at[p] = "exit" /\ UNCHANGED <<i, reaped, failed>>
        /\ at' = [at EXCEPT ![p] = "ended"]
    BY <1>2 DEF Fl!ChildExits, Fl!End
  <2>2. shape = "fan" /\ p # 0
    BY <2>1 DEF FInv, Types, ChainInv, FanInv
  <2>3. reaped \subseteq Fl!Procs /\ failed \in BOOLEAN /\ \A q \in reaped : q # 0
    BY <2>2 DEF FInv, Types, FanInv
  <2> QED
    BY <2>1, <2>2, <2>3, FInvEnd
<1>3. CASE Fl!LoopEnds(p) /\ shape = "fan" /\ iterations > 0
  <2>1. /\ at[p] = "loop" /\ i[p] >= iterations /\ UNCHANGED <<i, reaped, failed>>
        /\ at' = [at EXCEPT ![p] = "wait"]
    BY <1>3 DEF Fl!LoopEnds
  <2>2. p = 0
    BY <1>3, <2>1 DEF FInv, FanInv
  <2>3. Types'
    BY <2>1 DEF FInv, Types
  <2>4. FanInv'
    BY <1>3, <2>1, <2>2 DEF FInv, Types, FanInv, NoneAbove, Fl!Procs
  <2> QED
    BY <1>3, <2>3, <2>4 DEF FInv
<1>4. CASE Fl!LoopEnds(p) /\ ~(shape = "fan" /\ iterations > 0)
  <2>1. /\ at[p] = "loop" /\ i[p] >= iterations /\ UNCHANGED <<i, reaped, failed>>
        /\ at' = [at EXCEPT ![p] = "ended"]
    BY <1>4 DEF Fl!LoopEnds, Fl!End
  <2>2. shape = "chain" => \A q \in Fl!Procs : q = p + 1 => at[q] \in {"none", "ended"}
    BY <2>1 DEF FInv, ChainInv, NoneAbove, Fl!Procs
  <2>3. shape = "fan" => \A q \in Fl!Procs : q # 0 => at[q] \in {"none", "ended"}
    BY <1>4, <2>1 DEF FInv, Types, FanInv, NoneAbove, Fl!Procs
  <2>4. /\ reaped \subseteq Fl!Procs /\ failed \in BOOLEAN
        /\ \A q \in reaped : shape = "fan" => q # 0
    BY DEF FInv, Types, FanInv
  <2> QED
    BY <2>1, <2>2, <2>3, <2>4, FInvEnd
<1> QED
  BY <1>1, <1>2, <1>3, <1>4

\* Every step of the fork loops keeps the invariant.
LEMMA FInvStep == ASSUME MaxIter \in Nat PROVE FInv /\ [Fl!Next]_(Fl!vars) => FInv'
<1> SUFFICES ASSUME MaxIter \in Nat, FInv, [Fl!Next]_(Fl!vars) PROVE FInv'
  OBVIOUS
<1>1. CASE UNCHANGED Fl!vars
  BY <1>1 DEF FInv, Types, ChainInv, FanInv, NoneAbove, Fl!vars
<1>2. CASE Fl!Next
  <2>1. PICK p \in Fl!Procs : Fl!Step(p)
    BY <1>2 DEF Fl!Next
  <2> QED
    BY <2>1, ForkKeepsFInv, PrintKeepsFInv, WaitKeepsFInv, EndsKeepFInv DEF Fl!Step
<1> QED
  BY <1>1, <1>2

\* By the invariant parents end last.
LEMMA FInvParents == ASSUME MaxIter \in Nat PROVE FInv => Fl!ParentsLast
BY DEF FInv, Types, ChainInv, FanInv, Fl!ParentsLast, Fl!Children, Fl!Procs

(***************************************************************************)
(* For every number of iterations of childcreates and parentcreates, on a  *)
(* terminal or not, with or without failing forks: the parent ends last.   *)
(***************************************************************************)
THEOREM ParentsEndLast == Spec => []ParentsLast
<1>1. Init => FInv
  BY FInvInit, BoundsAssumption DEF Init
<1>2. FInv /\ [Next]_vars => FInv'
  BY FInvStep, OneRuns, BoundsAssumption
<1>3. FInv => ParentsLast
  BY FInvParents, BoundsAssumption DEF ParentsLast
<1> QED
  BY <1>1, <1>2, <1>3, PTL DEF Spec

-----------------------------------------------------------------------------
(***************************************************************************)
(* time_reads.                                                             *)
(***************************************************************************)
\* The loop is behind by the read that was counted last; a report is made
\* once, and then nothing moves any more.  Before the loop nothing was done.
RInv ==
  /\ main \in {"sigaction", "timer", "zero", "count", "read", "reported", "killed"}
  /\ num_reads \in Nat /\ done \in Nat
  /\ main \in {"sigaction", "timer", "zero"} => num_reads = 0 /\ done = 0
  /\ main = "count" => num_reads = done
  /\ main = "read"  => num_reads = done + 1
  /\ main = "reported" => report \in {done, done + 1}

\* The invariant of time_reads holds at the start.
LEMMA RInvInit == Tr!Init => RInv
BY DEF Tr!Init, RInv

\* Every step of time_reads keeps its invariant.
LEMMA RInvStep == RInv /\ [Tr!Next]_(Tr!vars) => RInv'
<1> SUFFICES ASSUME RInv, [Tr!Next]_(Tr!vars) PROVE RInv'
  OBVIOUS
<1>1. CASE UNCHANGED Tr!vars
  BY <1>1 DEF RInv, Tr!vars
<1>2. CASE Tr!InitSigaction \/ Tr!InitTime \/ Tr!Zero
  BY <1>2 DEF RInv, Tr!InitSigaction, Tr!InitTime, Tr!Zero
<1>3. CASE Tr!Count \/ Tr!Read
  BY <1>3 DEF RInv, Tr!Count, Tr!Read
<1>4. CASE Tr!Timer \/ Tr!Kill
  BY <1>4 DEF RInv, Tr!Timer, Tr!Kill, Tr!Running, Tr!print_message
<1> QED
  BY <1>1, <1>2, <1>3, <1>4 DEF Tr!Next, Tr!Main

(***************************************************************************)
(* For every number of seconds and whenever the timer goes off or somebody *)
(* sends SIGPROF: time_reads reports the reads that were done, or one      *)
(* more.                                                                   *)
(***************************************************************************)
THEOREM ReportIsTrue == Spec => []ReportTrue
<1>1. Init => RInv
  BY RInvInit DEF Init
<1>2. RInv /\ [Next]_vars => RInv'
  BY RInvStep, OneRuns
<1>3. RInv => ReportTrue
  BY DEF RInv, ReportTrue, Tr!ReportTrue
<1> QED
  BY <1>1, <1>2, <1>3, PTL DEF Spec

-----------------------------------------------------------------------------
(***************************************************************************)
(* Server and client of assignment 4, and the port they agree on.          *)
(***************************************************************************)
\* The server is in a port it has bound, and only there as long as it has
\* one; it is the port the client begins with, so that a client that comes
\* when the server listens is never sent on to the next one.
PInv ==
  /\ owner \in [Sp!Ports -> {"nobody", "stranger", "server"}]
  /\ \A p \in Sp!Ports : owner[p] = "stranger" => p \in listening
  /\ bound \in BOOLEAN
  /\ server \in {"bind", "listen", "serving"}
  /\ bound = TRUE => owner[Sp!Port] = "server"
  /\ bound = FALSE => owner[Sp!Port] # "server"
  /\ owner[Sp!NextPort] # "server"
  /\ server = "bind" => bound = FALSE
  /\ bound = TRUE /\ server = "serving" => Sp!Port \in listening
  /\ client \in {"first", "second", "connected", "failed"}
  /\ client # "connected" => peer = "nobody"
  /\ late = TRUE /\ client # "first" => server = "serving"
  /\ late = TRUE /\ client = "second" => bound = FALSE
  /\ late = TRUE /\ bound = TRUE /\ client \in {"connected", "failed"} => peer = "server"

\* The invariant of the port programs holds at the start.
LEMMA PInvInit == Sp!Init => PInv
<1> SUFFICES ASSUME Sp!Init PROVE PInv
  OBVIOUS
<1>1. owner \in [Sp!Ports -> {"nobody", "stranger", "server"}]
  BY DEF Sp!Init
<1>2. \A p \in Sp!Ports : owner[p] # "server" /\ (owner[p] = "stranger" => p \in listening)
  BY DEF Sp!Init
<1>3. owner[Sp!Port] # "server" /\ owner[Sp!NextPort] # "server"
  BY <1>2 DEF Sp!Ports, Sp!Port, Sp!NextPort
<1>4. /\ server = "bind" /\ bound = FALSE
      /\ client = "first" /\ late = FALSE /\ peer = "nobody"
  BY DEF Sp!Init
<1> QED
  BY <1>1, <1>2, <1>3, <1>4 DEF PInv

\* Every step of the port programs keeps their invariant.
LEMMA PInvStep == PInv /\ [Sp!Next]_(Sp!vars) => PInv'
<1> SUFFICES ASSUME PInv, [Sp!Next]_(Sp!vars) PROVE PInv'
  OBVIOUS
<1> USE DEF Sp!Ports, Sp!Port, Sp!NextPort, Sp!AnyPort
<1>1. CASE UNCHANGED Sp!vars
  BY <1>1 DEF PInv, Sp!vars
<1>2. CASE Sp!Bind
  <2>1. CASE owner[Sp!Port] = "nobody"
    BY <1>2, <2>1 DEF PInv, Sp!Bind
  <2>2. CASE owner[Sp!Port] # "nobody"
    BY <1>2, <2>2 DEF PInv, Sp!Bind
  <2> QED
    BY <2>1, <2>2
<1>3. CASE Sp!Listen
  BY <1>3 DEF PInv, Sp!Listen
<1>4. CASE Sp!Connect
  BY <1>4 DEF PInv, Sp!Connect, Sp!ConnectTo
<1>5. CASE Sp!ConnectAgain
  BY <1>5 DEF PInv, Sp!ConnectAgain, Sp!ConnectTo
<1>6. ASSUME NEW p \in {Sp!Port, Sp!NextPort}, Sp!Take(p) PROVE PInv'
  BY <1>6 DEF PInv, Sp!Take
<1>7. ASSUME NEW p \in {Sp!Port, Sp!NextPort}, Sp!Leave(p) PROVE PInv'
  BY <1>7 DEF PInv, Sp!Leave
<1> QED
  BY <1>1, <1>2, <1>3, <1>4, <1>5, <1>6, <1>7 DEF Sp!Next, Sp!Server, Sp!Client

(***************************************************************************)
(* Whatever other programs take the ports and give them back: a client     *)
(* that begins when a server is there that has got its port reaches it.    *)
(***************************************************************************)
THEOREM ClientMeetsServer == Spec => []Meet
<1>1. Init => PInv
  BY PInvInit DEF Init
<1>2. PInv /\ [Next]_vars => PInv'
  BY PInvStep, OneRuns
<1>3. PInv => Meet
  <2>1. PInv /\ late => late = TRUE
    OBVIOUS
  <2> QED
    BY <2>1 DEF PInv, Meet, Sp!Meet
<1> QED
  BY <1>1, <1>2, <1>3, PTL DEF Spec

-----------------------------------------------------------------------------
\* Cycle and Myfind bring their own copies of the operators on trees.
LEMMA SameTree ==
  /\ Cy!Entry = Entry /\ Mf!Entry = Entry /\ Cy!Start = Start /\ Mf!Start = Start
  /\ Cy!Shapes = Shapes /\ Mf!Shapes = Shapes
  /\ \A t : Cy!Dirs(t) = Dirs(t) /\ Mf!Dirs(t) = Dirs(t)
  /\ \A t : Cy!Links(t) = Links(t) /\ Mf!Links(t) = Links(t)
  /\ \A t, d : Mf!Children(t, d) = Children(t, d)
  /\ \A t, e : Cy!Above(t, e) = Above(t, e) /\ Mf!Above(t, e) = Above(t, e)
  /\ \A t, c : Cy!Reachable(t, c) = Reachable(t, c) /\ Mf!Reachable(t, c) = Reachable(t, c)
<1>1. Cy!Entry = Entry /\ Mf!Entry = Entry /\ Cy!Start = Start /\ Mf!Start = Start
  BY DEF Cy!Entry, Mf!Entry, Entry, Cy!Start, Mf!Start, Start
<1>2. Cy!Shapes = Shapes /\ Mf!Shapes = Shapes
  BY <1>1 DEF Cy!Shapes, Mf!Shapes, Shapes
<1>3. \A t : Cy!Dirs(t) = Dirs(t) /\ Mf!Dirs(t) = Dirs(t)
  BY <1>1 DEF Cy!Dirs, Mf!Dirs, Dirs
<1>4. \A t : Cy!Links(t) = Links(t) /\ Mf!Links(t) = Links(t)
  BY <1>1 DEF Cy!Links, Mf!Links, Links
<1>5. \A t, d : Mf!Children(t, d) = Children(t, d)
  BY <1>1 DEF Mf!Children, Children
<1>6. \A t, e : Cy!Above(t, e) = Above(t, e) /\ Mf!Above(t, e) = Above(t, e)
  BY DEF Cy!Above, Mf!Above, Above, Cy!Entry, Mf!Entry, Entry, Cy!Start, Mf!Start, Start
<1>7. \A t, c : Cy!Reachable(t, c) = Reachable(t, c) /\ Mf!Reachable(t, c) = Reachable(t, c)
  BY <1>1, <1>6 DEF Cy!Reachable, Mf!Reachable, Reachable
<1> QED
  BY <1>1, <1>2, <1>3, <1>4, <1>5, <1>6, <1>7

(***************************************************************************)
(* cycle.                                                                  *)
(***************************************************************************)
\* What fn() has looked at it has found harmless, as long as it has not found
\* a cycle; and the walk is over only when nothing is ahead of it.
WInv ==
  /\ forest \in Shapes
  /\ visited \in SUBSET Entry
  /\ says # "cycle" => \A e \in visited : e \in Links(forest) => FALSE \in Cy!fn(e)
  /\ says = "none" => Cy!Ahead = {}

\* The invariant of cycle holds at the start.
LEMMA WInvInit == Cy!Init => WInv
BY SameTree DEF Cy!Init, WInv

\* Every step of cycle keeps its invariant.
LEMMA WInvStep == WInv /\ [Cy!Next]_(Cy!vars) => WInv'
<1> SUFFICES ASSUME WInv, [Cy!Next]_(Cy!vars) PROVE WInv'
  OBVIOUS
<1>1. /\ forest' = forest /\ links' = links /\ locked' = locked
      /\ \A e : Cy!fn(e)' = Cy!fn(e)
  <2>1. forest' = forest /\ links' = links /\ locked' = locked
    BY DEF Cy!Next, Cy!vars, Cy!Visit, Cy!NoCycle, Cy!WalkFails, Cy!World
  <2>2. \A e : Cy!Followed(e)' = Cy!Followed(e)
    BY <2>1 DEF Cy!Followed, Cy!Links
  <2> QED
    BY <2>1, <2>2 DEF Cy!fn
<1>2. CASE UNCHANGED Cy!vars
  BY <1>1, <1>2 DEF WInv, Cy!vars, Cy!Ahead
<1>3. CASE Cy!Visit
  <2>1. PICK e \in Cy!Ahead :
          /\ visited' = visited \cup {e}
          /\ \E hit \in (IF e \in Cy!Links(forest) THEN Cy!fn(e) ELSE {FALSE}) :
               IF hit THEN says' = "cycle" /\ alarm' = forest.parent[e]
                        ELSE UNCHANGED <<says, alarm>>
    BY <1>3 DEF Cy!Visit
  <2>2. e \in Entry
    BY <2>1, SameTree DEF Cy!Ahead
  <2>3. says = "walking"
    BY <1>3 DEF Cy!Visit
  <2>4. PICK hit \in (IF e \in Links(forest) THEN Cy!fn(e) ELSE {FALSE}) :
          IF hit THEN says' = "cycle" ELSE says' = says
    BY <2>1, SameTree
  <2>5. says' # "cycle" /\ e \in Links(forest) => FALSE \in Cy!fn(e)
    <3>1. hit \in BOOLEAN
      BY <2>4 DEF Cy!fn
    <3>2. hit = TRUE \/ hit = FALSE
      BY <3>1
    <3> QED
      BY <2>4, <3>2
  <2>6. says' # "none"
    BY <2>3, <2>4
  <2> QED
    BY <1>1, <2>1, <2>2, <2>3, <2>5, <2>6 DEF WInv
<1>4. CASE Cy!NoCycle
  <2>1. Cy!Ahead' = Cy!Ahead
    BY <1>1, <1>4 DEF Cy!NoCycle, Cy!Ahead
  <2> QED
    BY <1>1, <1>4, <2>1 DEF WInv, Cy!NoCycle
<1>5. CASE Cy!WalkFails
  BY <1>1, <1>5 DEF WInv, Cy!WalkFails
<1> QED
  BY <1>2, <1>3, <1>4, <1>5 DEF Cy!Next

\* After a walk that has found nothing all ways lead down.
LEMMA WaysLeadDown ==
  ASSUME WInv, says = "none"
  PROVE  \A w \in Cy!Ways : w[1] < w[2] /\ w[2] \in 0..N
<1>1. Reachable(forest, locked) \subseteq visited
  <2>1. \A e \in Entry \ visited :
          forest.parent[e] \in {Start} \cup visited => forest.parent[e] \in locked
    BY SameTree DEF WInv, Cy!Ahead
  <2> QED
    BY <2>1, WalkIsComplete DEF WInv
<1>2. ASSUME NEW e \in Reachable(forest, locked), e \in Links(forest),
             Cy!Followed(e)[1] = "entry"
      PROVE  Cy!Followed(e)[2] = forest.parent[e]
  <2>1. FALSE \in Cy!fn(e)
    BY <1>1, <1>2 DEF WInv
  <2>2. Cy!Followed(e) # Cy!Out("nowhere") /\ Cy!Prefixed(Cy!Followed(e))
    BY <1>2 DEF Cy!Out, Cy!Prefixed
  <2>3. Cy!fn(e) = {Cy!Followed(e) # Cy!In(forest.parent[e])}
    BY <2>2 DEF Cy!fn
  <2>4. Cy!Followed(e) = Cy!In(forest.parent[e])
    BY <2>1, <2>3, Zenon
  <2> QED
    BY <2>4 DEF Cy!In
<1>3. ASSUME NEW w \in Cy!Ways PROVE w[1] < w[2] /\ w[2] \in 0..N
  <2>1. \/ \E e \in Reachable(forest, locked) : w = <<forest.parent[e], e>>
        \/ \E e \in Reachable(forest, locked) :
             /\ e \in Links(forest) /\ Cy!Followed(e)[1] = "entry"
             /\ w = <<forest.parent[e], Cy!Followed(e)[2]>>
    BY <1>3, SameTree DEF Cy!Ways
  <2>2. w[1] # w[2]
    BY <1>3 DEF Cy!Ways
  <2>3. PICK e \in Reachable(forest, locked) : w = <<forest.parent[e], e>>
    BY <1>2, <2>1, <2>2
  <2> QED
    BY <2>3, ParentBefore DEF Reachable, Entry, WInv
<1> QED
  BY <1>3

(***************************************************************************)
(* For a tree of any size, links that point anywhere and directories that  *)
(* cannot be read: when cycle says that there is none, no way leads back   *)
(* to where it began.                                                      *)
(***************************************************************************)
THEOREM SilenceIsFree == Spec => []SilentMeansFree
<1>1. Init => WInv
  BY WInvInit DEF Init
<1>2. WInv /\ [Next]_vars => WInv'
  BY WInvStep, OneRuns
<1>3. WInv => SilentMeansFree
  <2> SUFFICES ASSUME WInv, says = "none", NEW c \in Cy!Circles PROVE FALSE
    BY DEF SilentMeansFree, Cy!SilentMeansFree
  <2>1. \A w \in Cy!Ways : w[1] < w[2] /\ w[2] \in 0..N
    BY WaysLeadDown
  <2>2. /\ c # {} /\ c \in SUBSET Cy!Dirs(forest)
        /\ \A d \in c : \E w \in Cy!Ways : w[1] = d /\ w[2] \in c
    BY DEF Cy!Circles
  <2>3. c \in SUBSET (0..N)
    BY <2>2, TreeAssumption DEF Cy!Dirs, Cy!Entry, Cy!Start
  <2>4. \A d \in c : \E e \in c : d < e
    BY <2>1, <2>2
  <2> QED
    BY <2>2, <2>3, <2>4, NoWayBack
<1> QED
  BY <1>1, <1>2, <1>3, PTL DEF Spec

-----------------------------------------------------------------------------
(***************************************************************************)
(* myfind.                                                                 *)
(***************************************************************************)
\* An active searchdir(): its directory and what it has still to read.
Call == [dir : Dirs(tree), left : SUBSET Entry]

\* The active searchdir()s are a way down from the start; each has left only
\* entries of its directory, and the one that comes next on the way is not
\* among them, nor is the directory that is to be opened.
Stack ==
  /\ \A j \in 1..Len(calls) : calls[j].left \subseteq Children(tree, calls[j].dir)
  /\ calls # << >> => calls[1].dir = Start
  /\ \A j \in 1..(Len(calls) - 1) :
       /\ calls[j + 1].dir \in Children(tree, calls[j].dir)
       /\ calls[j + 1].dir \notin calls[j].left
  /\ calls = << >> => open \in {Start, Mf!Nothing}
  /\ calls # << >> /\ open # Mf!Nothing =>
       /\ open \in Children(tree, calls[Len(calls)].dir)
       /\ open \notin calls[Len(calls)].left

\* The walk has still to read e, or a directory above it.
Unread(e) ==
  \/ open \in Above(tree, e)
  \/ \E j \in 1..Len(calls) : \E a \in WayTo(tree, e) : a \in calls[j].left

\* What was printed: once, right, and not for what is still to be read.
Printed ==
  \A e \in Entry :
    shown[e] # << >> => /\ ~Unread(e)
                        /\ e \in sought
                        /\ e \notin removed => shown[e] = <<Mf!Resolved(e)>>

\* An entry that can be reached is read or still will be.
Covered ==
  \A e \in Reachable(tree, closed) \ removed :
    \/ Unread(e)
    \/ /\ e \in sought => shown[e] = <<Mf!Resolved(e)>>
       /\ e \in closed => e \in refused \/ open = e

StartTried == Start \in closed => Start \in refused \/ open = Start

MTypes ==
  /\ tree \in Shapes /\ sought \subseteq Entry /\ closed \subseteq Dirs(tree)
  /\ target \in [Entry -> {In(Start), Out("nowhere"), NoTarget}]
  /\ \A e \in Entry : target[e] = NoTarget <=> e \notin Links(tree)
  /\ removed \subseteq Entry /\ \A e \in removed : Children(tree, e) \subseteq removed
  /\ calls \in Seq(Call)
  /\ open \in Dirs(tree) \cup {Mf!Nothing}
  /\ shown = [e \in Entry |-> shown[e]]
  /\ smashed \in BOOLEAN

MInv == MTypes /\ (smashed = FALSE => Stack /\ Printed /\ Covered /\ StartTried)

\* What is not gone is in a directory that is not gone.
LEMMA NothingGoneAbove ==
  ASSUME MTypes, NEW e \in Entry \ removed
  PROVE  Above(tree, e) \cap removed = {}
<1> DEFINE S == {x \in Entry : x \notin removed => Above(tree, x) \cap removed = {}}
<1>1. ASSUME NEW x \in Entry, tree.parent[x] # Start => tree.parent[x] \in S
      PROVE  x \in S
  <2>1. tree.parent[x] \in removed => x \in removed
    BY DEF MTypes, Children
  <2>2. Start \notin removed
    BY DEF MTypes, Start, Entry
  <2> QED
    BY <1>1, <2>1, <2>2, AboveParent DEF MTypes, WayTo
<1>2. S = Entry
  <2> HIDE DEF S
  <2>1. S \in SUBSET Entry
    BY DEF S
  <2> QED
    BY <1>1, <2>1, TreeInduction DEF MTypes
<1> QED
  BY <1>2

\* Nothing is no directory and above no entry, and no entry is above itself.
LEMMA NothingIsNowhere ==
  ASSUME MTypes
  PROVE  /\ Mf!Nothing \notin Dirs(tree)
         /\ \A e \in Entry : Mf!Nothing \notin Above(tree, e) /\ e \notin Above(tree, e)
BY AboveBefore DEF MTypes, Mf!Nothing, Dirs, Entry, Start

\* The directories of the active searchdir()s are above what they have left.
LEMMA StackIsAbove ==
  ASSUME MTypes, Stack, NEW e \in Entry, calls # << >>,
         e \in Children(tree, calls[Len(calls)].dir)
  PROVE  \A j \in 1..Len(calls) : calls[j].dir \in Above(tree, e)
<1> DEFINE k == Len(calls)
           S == {m \in Nat : m < k /\ calls[k - m].dir \notin Above(tree, e)}
<1>1. k \in Nat /\ k # 0
  BY DEF MTypes
<1>2. ASSUME S # {} PROVE FALSE
  <2>1. PICK m \in S : \A x \in S : m <= x
    BY <1>2, LeastNumber
  <2>2. m # 0
    BY <1>1, <2>1, AboveParent DEF Children, MTypes
  <2>3. m - 1 \in Nat /\ m - 1 < k /\ ~(m <= m - 1) /\ k - (m - 1) = (k - m) + 1
        /\ k - m \in 1..(k - 1)
    BY <1>1, <2>1, <2>2
  <2>4. calls[(k - m) + 1].dir \in Above(tree, e)
    BY <2>1, <2>3
  <2>5. calls[(k - m) + 1].dir \in Children(tree, calls[k - m].dir)
    BY <2>3 DEF Stack
  <2>6. tree.parent[calls[(k - m) + 1].dir] \in Above(tree, e)
    BY <2>4, <2>5, WayHasNoGaps DEF Children, WayTo, Entry, Start, MTypes
  <2> QED
    BY <2>1, <2>5, <2>6 DEF Children
<1>3. ASSUME NEW j \in 1..k PROVE calls[j].dir \in Above(tree, e)
  <2>1. k - j \in Nat /\ k - j < k /\ k - (k - j) = j
    BY <1>1
  <2> QED
    BY <1>2, <2>1
<1> QED
  BY <1>3

\* A stack whose top is changed, or taken off.
LEMMA LastChanged ==
  ASSUME NEW R, NEW s \in Seq(R), Len(s) # 0, NEW v \in R,
         NEW r, r = [s EXCEPT ![Len(s)] = v]
  PROVE  /\ r \in Seq(R) /\ Len(r) = Len(s) /\ r[Len(s)] = v
         /\ \A j \in 1..Len(s) : j # Len(s) => r[j] = s[j]
OBVIOUS

\* A sequence without its last member.
LEMMA LastDropped ==
  ASSUME NEW R, NEW s \in Seq(R), Len(s) # 0, NEW r, r = SubSeq(s, 1, Len(s) - 1)
  PROVE  /\ r \in Seq(R) /\ Len(r) = Len(s) - 1
         /\ \A j \in 1..(Len(s) - 1) : r[j] = s[j]
<1>1. PICK m \in Nat : m = Len(s) - 1
  OBVIOUS
<1>2. m \in Int /\ 1 \in Int /\ \A j \in 1..m : s[j] \in R
  BY <1>1
<1>3. m - 1 + 1 = m /\ (1 <= m \/ m = 0) /\ \A j \in 1..m : 1 + j - 1 = j
  OBVIOUS
<1>4. r = SubSeq(s, 1, m)
  BY <1>1
<1>5. /\ r \in Seq(R)
      /\ Len(r) = IF 1 <= m THEN m - 1 + 1 ELSE 0
      /\ \A j \in 1..(m - 1 + 1) : r[j] = s[1 + j - 1]
  BY <1>2, <1>4, SubSeqProperties
<1>6. Len(r) = m
  BY <1>3, <1>5
<1> QED
  BY <1>1, <1>3, <1>5, <1>6

\* A directory is opened: what was below it is now in it or below that.
LEMMA OpendirKeepsMInv ==
  ASSUME MInv, smashed = FALSE, Mf!Opendir, UNCHANGED Mf!World
  PROVE  MInv'
<1> DEFINE d == open
           k == Len(calls)
           new == [dir |-> d, left |-> Children(tree, d) \ removed]
<1>1. /\ d \in Dirs(tree) /\ d \notin closed \cup removed
      /\ calls' = Append(calls, new) /\ open' = Mf!Nothing
      /\ UNCHANGED <<tree, target, sought, closed, removed, shown, refused, smashed>>
  BY SameTree DEF Mf!Opendir, Mf!World, MInv, MTypes
<1>2. /\ calls \in Seq(Call)
      /\ new \in Call
      /\ k \in Nat
  BY <1>1 DEF MInv, MTypes, Children, Call
<1>3. /\ calls' \in Seq(Call) /\ Len(calls') = k + 1
      /\ calls'[k + 1] = new /\ \A j \in 1..k : calls'[j] = calls[j]
      /\ calls' # << >> /\ (calls # << >> <=> k # 0)
  BY <1>1, <1>2
<1>4. new.dir = d /\ new.left = Children(tree, d) \ removed
  OBVIOUS
<1> HIDE DEF new
<1>5. MTypes'
  BY <1>1, <1>3 DEF MInv, MTypes, Call
<1>6. Stack /\ d # Mf!Nothing
  BY <1>1, NothingIsNowhere DEF MInv
<1>7. Stack'
  <2>1. ASSUME NEW j \in 1..(k + 1) PROVE calls'[j].left \subseteq Children(tree, calls'[j].dir)
    <3>1. CASE j = k + 1
      BY <1>3, <1>4, <3>1
    <3>2. CASE j # k + 1
      BY <1>2, <1>3, <1>6, <3>2 DEF Stack
    <3> QED
      BY <3>1, <3>2
  <2>2. calls'[1].dir = Start
    <3>1. CASE k = 0
      BY <1>3, <1>4, <1>6, <3>1 DEF Stack
    <3>2. CASE k # 0
      BY <1>2, <1>3, <1>6, <3>2 DEF Stack
    <3> QED
      BY <3>1, <3>2
  <2>3. ASSUME NEW j \in 1..k
        PROVE  /\ calls'[j + 1].dir \in Children(tree, calls'[j].dir)
               /\ calls'[j + 1].dir \notin calls'[j].left
    <3>1. CASE j = k
      BY <1>2, <1>3, <1>4, <1>6, <3>1 DEF Stack
    <3>2. CASE j # k
      <4>1. j \in 1..(k - 1) /\ j + 1 \in 1..k
        BY <1>2, <3>2
      <4> QED
        BY <1>3, <1>6, <4>1 DEF Stack
    <3> QED
      BY <3>1, <3>2
  <2>4. (k + 1) - 1 = k
    BY <1>2
  <2> QED
    BY <1>1, <1>3, <2>1, <2>2, <2>3, <2>4 DEF Stack
<1>8. ASSUME NEW e \in Entry, Unread(e)' PROVE Unread(e)
  <2>1. PICK j \in 1..(k + 1) : \E a \in WayTo(tree, e) : a \in calls'[j].left
    BY <1>1, <1>3, <1>5, <1>8, NothingIsNowhere DEF Unread, MInv
  <2>2. PICK a \in WayTo(tree, e) : a \in calls'[j].left
    BY <2>1
  <2>3. CASE j = k + 1
    <3>1. a \in Entry /\ tree.parent[a] = d
      BY <1>3, <1>4, <2>2, <2>3 DEF Children
    <3> QED
      BY <2>2, <3>1, WayHasNoGaps DEF Unread, MInv, MTypes, Entry, Start
  <2>4. CASE j # k + 1
    BY <1>2, <1>3, <2>2, <2>4 DEF Unread
  <2> QED
    BY <2>3, <2>4
<1>9. ASSUME NEW e \in Entry \ removed, Unread(e) PROVE Unread(e)'
  <2>1. CASE open \in Above(tree, e)
    <3>1. PICK c \in WayTo(tree, e) \cap Entry : tree.parent[c] = d
      BY <2>1, WayHasNoGaps DEF MInv, MTypes
    <3>2. c \in calls'[k + 1].left
      BY <1>3, <1>4, <3>1, NothingGoneAbove DEF WayTo, Children, MInv
    <3>3. k + 1 \in 1..Len(calls')
      BY <1>2, <1>3
    <3> QED
      BY <1>1, <3>1, <3>2, <3>3 DEF Unread
  <2>2. CASE open \notin Above(tree, e)
    <3>1. PICK j \in 1..k : \E a \in WayTo(tree, e) : a \in calls[j].left
      BY <1>9, <2>2 DEF Unread
    <3>2. j \in 1..Len(calls') /\ calls'[j] = calls[j]
      BY <1>2, <1>3
    <3> QED
      BY <1>1, <3>1, <3>2 DEF Unread
  <2> QED
    BY <2>1, <2>2
<1>10. \A e : Mf!Resolved(e)' = Mf!Resolved(e)
  BY <1>1 DEF Mf!Resolved, Mf!Links
<1>11. Printed'
  BY <1>1, <1>8, <1>10 DEF MInv, Printed
<1>12. Covered'
  BY <1>1, <1>9, <1>10 DEF MInv, Covered, Reachable
<1>13. StartTried'
  BY <1>1 DEF MInv, StartTried
<1> QED
  BY <1>5, <1>7, <1>11, <1>12, <1>13 DEF MInv

\* A directory cannot be opened: nothing that is reachable is below it.
LEMMA OpendirFailsKeepsMInv ==
  ASSUME MInv, smashed = FALSE, Mf!OpendirFails, UNCHANGED Mf!World
  PROVE  MInv'
<1>1. /\ open \in closed \cup removed /\ refused' = refused \cup {open}
      /\ open' = Mf!Nothing
      /\ UNCHANGED <<tree, target, sought, closed, removed, calls, shown, smashed>>
  BY DEF Mf!OpendirFails, Mf!World
<1>2. MTypes'
  BY <1>1 DEF MInv, MTypes, Call
<1>3. Stack'
  BY <1>1 DEF MInv, Stack
<1>4. ASSUME NEW e \in Entry, Unread(e)' PROVE Unread(e)
  BY <1>1, <1>4, NothingIsNowhere DEF Unread, MInv
<1>5. ASSUME NEW e \in Reachable(tree, closed) \ removed, Unread(e) PROVE Unread(e)'
  <2>1. open \notin Above(tree, e)
    BY <1>1, NothingGoneAbove DEF Reachable, MInv
  <2> QED
    BY <1>1, <1>5, <2>1 DEF Unread
<1>6. \A e : Mf!Resolved(e)' = Mf!Resolved(e)
  BY <1>1 DEF Mf!Resolved, Mf!Links
<1>7. Printed'
  BY <1>1, <1>4, <1>6 DEF MInv, Printed
<1>8. Covered'
  BY <1>1, <1>5, <1>6 DEF MInv, Covered, Reachable
<1>9. StartTried'
  BY <1>1 DEF MInv, StartTried
<1> QED
  BY <1>2, <1>3, <1>7, <1>8, <1>9 DEF MInv

\* The record of a searchdir() that has read an entry.
LEMMA LeftChanged ==
  ASSUME NEW D, NEW L, NEW c \in [dir : D, left : L], NEW T
  PROVE  [c EXCEPT !.left = @ \ T] = [dir |-> c.dir, left |-> c.left \ T]
<1>1. c = [dir |-> c.dir, left |-> c.left]
  OBVIOUS
<1>2. ASSUME NEW U
      PROVE  [[dir |-> c.dir, left |-> c.left] EXCEPT !.left = U]
             = [dir |-> c.dir, left |-> U]
  OBVIOUS
<1> QED
  BY <1>1, <1>2, Zenon

\* An entry is read: it is printed for the first time and left for good, and
\* what is below it waits for its directory.
LEMMA ReaddirKeepsMInv ==
  ASSUME MInv, smashed = FALSE, NEW b \in Entry, open = Mf!Nothing, calls # << >>,
         Mf!Readdir(b), UNCHANGED Mf!World
  PROVE  MInv'
<1> DEFINE k == Len(calls)
           Rest(j) == IF j = k THEN calls[k].left \ {b} ELSE calls[j].left
<1>1. /\ b \in calls[k].left
      /\ calls' = [calls EXCEPT ![k].left = @ \ {b}]
      /\ UNCHANGED <<tree, target, sought, closed, removed, refused>>
  BY DEF Mf!Readdir, Mf!Current, Mf!World
<1>2. /\ calls \in Seq(Call)
      /\ k \in Nat /\ k # 0 /\ k \in 1..k
  BY DEF MInv, MTypes
<1>3. /\ calls' \in Seq(Call) /\ Len(calls') = k
      /\ calls' # << >>
      /\ \A j \in 1..k : calls'[j].dir = calls[j].dir
  <2> DEFINE top == [dir |-> calls[k].dir, left |-> calls[k].left \ {b}]
  <2>1. calls[k] \in Call
    BY <1>2
  <2>2. top \in Call
    BY <2>1 DEF Call
  <2>3. calls' = [calls EXCEPT ![k] = top]
    <3>1. [calls[k] EXCEPT !.left = @ \ {b}] = top
      BY <2>1, LeftChanged DEF Call
    <3>2. calls' = [calls EXCEPT ![k] = [calls[k] EXCEPT !.left = @ \ {b}]]
      BY <1>1, Zenon
    <3> QED
      BY <3>1, <3>2
  <2>4. top.dir = calls[k].dir
    OBVIOUS
  <2> HIDE DEF top
  <2>5. /\ calls' \in Seq(Call) /\ Len(calls') = k
        /\ calls'[k] = top /\ \A j \in 1..k : j # k => calls'[j] = calls[j]
    BY <1>2, <2>2, <2>3, LastChanged
  <2> QED
    BY <1>2, <2>4, <2>5
<1>4. \A j \in 1..k : calls'[j].left = Rest(j)
  <2>1. ASSUME NEW j \in 1..k, j # k PROVE calls'[j].left = calls[j].left
    BY <1>1, <1>2, <2>1
  <2>2. calls'[k].left = calls[k].left \ {b}
    BY <1>1, <1>2
  <2> QED
    BY <2>1, <2>2
<1>5. CASE ~Mf!Fits(b)
  <2>1. smashed' = TRUE /\ UNCHANGED <<shown, open>>
    BY <1>5 DEF Mf!Readdir
  <2> QED
    BY <1>1, <1>3, <2>1 DEF MInv, MTypes, Call
<1>6. CASE Mf!Fits(b)
  <2>1. /\ shown' = IF b \in sought
                    THEN [shown EXCEPT ![b] = Append(@, Mf!Resolved(b))] ELSE shown
        /\ open' = IF b \in Dirs(tree) THEN b ELSE Mf!Nothing
        /\ smashed' = smashed
    BY <1>6, SameTree DEF Mf!Readdir
  <2>2. Stack /\ Printed /\ Covered /\ StartTried /\ MTypes
    BY DEF MInv
  <2>3. b \in Children(tree, calls[k].dir)
    BY <1>1, <1>2, <2>2 DEF Stack
  <2>4. MTypes'
    BY <1>1, <1>3, <2>1, <2>2 DEF MTypes, Call
  <2>5. Stack'
    <3>1. ASSUME NEW j \in 1..k PROVE calls'[j].left \subseteq Children(tree, calls'[j].dir)
      BY <1>3, <1>4, <2>2 DEF Stack
    <3>2. calls'[1].dir = Start
      BY <1>2, <1>3, <2>2 DEF Stack
    <3>3. ASSUME NEW j \in 1..(k - 1)
          PROVE  /\ calls'[j + 1].dir \in Children(tree, calls'[j].dir)
                 /\ calls'[j + 1].dir \notin calls'[j].left
      <4>1. j \in 1..k /\ j + 1 \in 1..k /\ j # k
        BY <1>2
      <4> QED
        BY <1>3, <1>4, <2>2, <4>1 DEF Stack
    <3>4. open' # Mf!Nothing => open' = b
      BY <2>1
    <3>5. b \in Children(tree, calls'[k].dir) /\ b \notin calls'[k].left
      BY <1>2, <1>3, <1>4, <2>3
    <3> QED
      BY <1>1, <1>3, <3>1, <3>2, <3>3, <3>4, <3>5 DEF Stack
  <2>6. ASSUME NEW e \in Entry, Unread(e)' PROVE Unread(e)
    <3>1. CASE open' \in Above(tree, e)
      <4>1. b \in WayTo(tree, e)
        BY <2>1, <2>2, <3>1, NothingIsNowhere DEF WayTo
      <4> QED
        BY <1>1, <1>2, <4>1 DEF Unread
    <3>2. CASE open' \notin Above(tree, e)
      <4>1. PICK j \in 1..k : \E a \in WayTo(tree, e) : a \in calls'[j].left
        BY <1>1, <1>3, <2>6, <3>2 DEF Unread
      <4>2. calls'[j].left \subseteq calls[j].left
        BY <1>2, <1>4
      <4> QED
        BY <4>1, <4>2 DEF Unread
    <3> QED
      BY <3>1, <3>2
  <2>7. ~Unread(b)'
    <3>1. open' \notin Above(tree, b)
      BY <2>1, <2>2, NothingIsNowhere
    <3>2. ASSUME NEW j \in 1..k, NEW a \in WayTo(tree, b), a \in calls'[j].left PROVE FALSE
      <4>1. a \in calls[j].left /\ a \in Entry /\ tree.parent[a] = calls[j].dir
        BY <1>2, <1>4, <2>2, <3>2 DEF Stack, Children
      <4>2. CASE j = k
        <5>1. a = b
          BY <2>2, <2>3, <3>2, <4>1, <4>2, WayHasNoGaps DEF Children, WayTo, MTypes
        <5> QED
          BY <1>4, <3>2, <4>2, <5>1
      <4>3. CASE j # k
        <5>1. j \in 1..(k - 1) /\ j + 1 \in 1..k
          BY <1>2, <4>3
        <5> DEFINE c == calls[j + 1].dir
        <5>2. c \in Children(tree, calls[j].dir) /\ c \notin calls[j].left
          BY <2>2, <5>1 DEF Stack
        <5>3. c \in WayTo(tree, b) \cap Entry
          BY <2>2, <2>3, <5>1, <5>2, StackIsAbove DEF WayTo, Children
        <5>4. a = c
          BY <2>2, <3>2, <4>1, <5>2, <5>3, WayHasNoGaps DEF Children, MTypes
        <5> QED
          BY <4>1, <5>2, <5>4
      <4> QED
        BY <4>2, <4>3
    <3> QED
      BY <1>1, <1>3, <3>1, <3>2 DEF Unread
  <2>8. ASSUME NEW e \in Entry, e # b, Unread(e) PROVE Unread(e)'
    <3>1. PICK j \in 1..k : \E a \in WayTo(tree, e) : a \in calls[j].left
      BY <2>2, <2>8, NothingIsNowhere DEF Unread
    <3>2. PICK a \in WayTo(tree, e) : a \in calls[j].left
      BY <3>1
    <3>3. CASE a = b
      <4>1. b \in Above(tree, e) /\ b \in Dirs(tree)
        BY <2>2, <2>8, <3>2, <3>3, AboveBefore DEF WayTo, MTypes
      <4> QED
        BY <1>1, <2>1, <4>1 DEF Unread
    <3>4. CASE a # b
      <4>1. a \in calls'[j].left /\ j \in 1..Len(calls')
        BY <1>3, <1>4, <3>2, <3>4
      <4> QED
        BY <1>1, <3>2, <4>1 DEF Unread
    <3> QED
      BY <3>3, <3>4
  <2>9. \A e : Mf!Resolved(e)' = Mf!Resolved(e)
    BY <1>1 DEF Mf!Resolved, Mf!Links
  <2>10. /\ \A e \in Entry : e # b => shown'[e] = shown[e]
         /\ b \in sought => shown'[b] = <<Mf!Resolved(b)>>
         /\ b \notin sought => shown'[b] = << >>
    <3>1. Unread(b)
      BY <1>1, <1>2 DEF Unread, WayTo
    <3>2. shown[b] = << >>
      BY <2>2, <3>1 DEF Printed
    <3>3. shown = [e \in Entry |-> shown[e]]
      BY <2>2 DEF MTypes
    <3>4. b \notin sought => shown' = shown
      BY <2>1
    <3>5. b \in sought => shown' = [shown EXCEPT ![b] = <<Mf!Resolved(b)>>]
      BY <2>1, <3>2, <3>3
    <3> QED
      BY <3>2, <3>3, <3>4, <3>5
  <2>11. Printed'
    BY <1>1, <2>2, <2>6, <2>7, <2>9, <2>10 DEF Printed
  <2>12. Covered'
    <3> SUFFICES ASSUME NEW e \in Reachable(tree, closed) \ removed
                 PROVE  \/ Unread(e)'
                        \/ /\ e \in sought => shown'[e] = <<Mf!Resolved(e)>>
                           /\ e \in closed => e \in refused \/ open' = e
      BY <1>1, <2>9 DEF Covered, Reachable
    <3>1. e \in Entry
      BY DEF Reachable
    <3>2. CASE e = b
      BY <2>1, <2>2, <2>10, <3>2 DEF MTypes
    <3>3. CASE e # b
      <4>1. open # e
        BY <3>1, NothingIsNowhere DEF Mf!Nothing, Entry
      <4> QED
        BY <2>2, <2>8, <2>10, <3>1, <3>3, <4>1 DEF Covered
    <3> QED
      BY <3>2, <3>3
  <2>13. StartTried'
    <3>1. Start # Mf!Nothing
      BY DEF Start, Mf!Nothing
    <3> QED
      BY <1>1, <2>2, <3>1 DEF StartTried
  <2> QED
    BY <2>4, <2>5, <2>11, <2>12, <2>13 DEF MInv
<1> QED
  BY <1>5, <1>6

\* A directory is closed: all that was left of it is gone.
LEMMA ClosedirKeepsMInv ==
  ASSUME MInv, smashed = FALSE, open = Mf!Nothing, calls # << >>,
         Mf!Closedir, UNCHANGED Mf!World
  PROVE  MInv'
<1> DEFINE k == Len(calls)
<1>1. /\ calls[k].left \subseteq removed
      /\ calls' = SubSeq(calls, 1, k - 1)
      /\ UNCHANGED <<tree, target, sought, closed, removed, open, shown, refused, smashed>>
  BY DEF Mf!Closedir, Mf!Current, Mf!World
<1>2. /\ calls \in Seq(Call)
      /\ k \in Nat /\ k # 0
  BY DEF MInv, MTypes
<1>3. /\ calls' \in Seq(Call) /\ Len(calls') = k - 1
      /\ \A j \in 1..(k - 1) : calls'[j] = calls[j]
  BY <1>1, <1>2, LastDropped
<1>4. MTypes'
  BY <1>1, <1>3 DEF MInv, MTypes, Call
<1>5. Stack'
  <2>1. calls' # << >> => 1 \in 1..(k - 1)
    BY <1>2, <1>3
  <2>2. \A j \in 1..((k - 1) - 1) : j \in 1..(k - 1) /\ j + 1 \in 1..(k - 1)
    BY <1>2
  <2>3. \A j \in 1..(k - 1) : j \in 1..k
    BY <1>2
  <2>4. open' = Mf!Nothing
    BY <1>1
  <2> QED
    BY <1>1, <1>3, <2>1, <2>2, <2>3, <2>4 DEF MInv, Stack
<1>6. ASSUME NEW e \in Entry, Unread(e)' PROVE Unread(e)
  <2>1. \A j \in 1..(k - 1) : j \in 1..k
    BY <1>2
  <2> QED
    BY <1>1, <1>3, <1>6, <2>1 DEF Unread
<1>7. ASSUME NEW e \in Entry \ removed, Unread(e) PROVE Unread(e)'
  <2>1. PICK j \in 1..k : \E a \in WayTo(tree, e) : a \in calls[j].left
    BY <1>7, NothingIsNowhere DEF Unread, MInv
  <2>2. j # k
    BY <1>1, <2>1, NothingGoneAbove DEF WayTo, MInv
  <2>3. j \in 1..(k - 1)
    BY <1>2, <2>2
  <2> QED
    BY <1>1, <1>3, <2>1, <2>3 DEF Unread
<1>8. \A e : Mf!Resolved(e)' = Mf!Resolved(e)
  BY <1>1 DEF Mf!Resolved, Mf!Links
<1>9. Printed'
  BY <1>1, <1>6, <1>8 DEF MInv, Printed
<1>10. Covered'
  BY <1>1, <1>7, <1>8 DEF MInv, Covered, Reachable
<1>11. StartTried'
  BY <1>1 DEF MInv, StartTried
<1> QED
  BY <1>4, <1>5, <1>9, <1>10, <1>11 DEF MInv

\* Somebody else removes an entry: what is said of the others stays true.
LEMMA RemoveKeepsMInv ==
  ASSUME MInv, NEW b \in Entry, Mf!Remove(b)
  PROVE  MInv'
<1>1. /\ Children(tree, b) \subseteq removed /\ removed' = removed \cup {b}
      /\ UNCHANGED <<tree, target, sought, closed, calls, open, shown, refused, smashed>>
  BY SameTree DEF Mf!Remove, Mf!World
<1>2. MTypes'
  BY <1>1 DEF MInv, MTypes, Call
<1>3. \A e \in Entry : Unread(e)' <=> Unread(e)
  BY <1>1 DEF Unread
<1>4. \A e \in Entry \ removed' : Mf!Resolved(e)' = Mf!Resolved(e) /\ e \notin removed
  BY <1>1 DEF Mf!Resolved, Mf!Links
<1>5. ASSUME smashed = FALSE PROVE Stack' /\ Printed' /\ Covered' /\ StartTried'
  <2>1. Stack'
    BY <1>1, <1>5 DEF MInv, Stack
  <2>2. Printed'
    BY <1>1, <1>3, <1>4, <1>5 DEF MInv, Printed
  <2>3. Covered'
    BY <1>1, <1>3, <1>4, <1>5 DEF MInv, Covered, Reachable
  <2>4. StartTried'
    BY <1>1, <1>5 DEF MInv, StartTried
  <2> QED
    BY <2>1, <2>2, <2>3, <2>4
<1> QED
  BY <1>1, <1>2, <1>5 DEF MInv

\* Every step of myfind, or of those who remove entries, keeps its invariant.
LEMMA MInvStep == MInv /\ [Mf!Next]_(Mf!vars) => MInv'
<1> SUFFICES ASSUME MInv, [Mf!Next]_(Mf!vars) PROVE MInv'
  OBVIOUS
<1>1. CASE UNCHANGED Mf!vars
  BY <1>1
  DEF MInv, MTypes, Stack, Printed, Covered, StartTried, Unread, Call, Mf!Resolved, Mf!Links, Mf!vars
<1>2. CASE Mf!searchdir
  <2>1. smashed = FALSE /\ UNCHANGED Mf!World
    BY <1>2 DEF Mf!searchdir, MInv, MTypes
  <2> QED
    BY <1>2, <2>1, SameTree,
       OpendirKeepsMInv, OpendirFailsKeepsMInv, ReaddirKeepsMInv, ClosedirKeepsMInv
    DEF Mf!searchdir
<1>3. ASSUME NEW b \in Entry, Mf!Remove(b) PROVE MInv'
  BY <1>3, RemoveKeepsMInv
<1> QED
  BY <1>1, <1>2, <1>3, SameTree DEF Mf!Next

\* The invariant of myfind holds at the start.
LEMMA MInvInit == Mf!Init => MInv
<1> SUFFICES ASSUME Mf!Init PROVE MInv
  OBVIOUS
<1>1. /\ tree \in Shapes /\ sought \subseteq Entry /\ closed \subseteq Dirs(tree)
      /\ removed = {} /\ calls = << >> /\ open = Start /\ smashed = FALSE
      /\ shown = [e \in Entry |-> << >>]
  BY SameTree DEF Mf!Init
<1>2. /\ target \in [Entry -> {In(Start), Out("nowhere"), NoTarget}]
      /\ \A e \in Entry : target[e] = NoTarget <=> e \notin Links(tree)
  BY SameTree DEF Mf!Init, Mf!NoTarget, NoTarget
<1>3. MTypes
  <2>1. /\ open \in Dirs(tree) \cup {Mf!Nothing}
        /\ calls \in Seq(Call)
        /\ shown = [e \in Entry |-> shown[e]]
    BY <1>1 DEF Dirs
  <2> QED
    BY <1>1, <1>2, <2>1 DEF MTypes
<1>4. Stack
  BY <1>1 DEF Stack
<1>5. Printed
  BY <1>1 DEF Printed
<1>6. Covered
  BY <1>1, AboveBefore DEF Covered, Unread, Reachable
<1>7. StartTried
  BY <1>1 DEF StartTried
<1> QED
  BY <1>3, <1>4, <1>5, <1>6, <1>7 DEF MInv

\* A path that is wrong was printed for what is gone or leads nowhere.
LEMMA WrongForNowhere ==
  ASSUME MTypes, NEW e \in Entry \ removed, Mf!Resolved(e) = Mf!Wrong
  PROVE  e \in Links(tree) /\ target[e] = Mf!Out("nowhere")
<1>1. Mf!Out("anything") = <<"anything", 0>> /\ Mf!Out("nowhere") = <<"nowhere", 0>>
  BY DEF Mf!Out
<1>2. /\ target[e] \in {<<"entry", 0>>, <<"nowhere", 0>>, <<"none", 0>>}
      /\ target[e] = <<"none", 0>> <=> e \notin Links(tree)
  BY DEF MTypes, In, Out, Start, NoTarget
<1>3. Mf!Resolved(e) # <<"anything", 0>> \/ target[e] = <<"nowhere", 0>>
  BY <1>1, <1>2, SameTree DEF Mf!Resolved, Mf!In
<1> QED
  BY <1>1, <1>2, <1>3 DEF Mf!Wrong

(***************************************************************************)
(* For a tree of any size, with links, directories that cannot be opened   *)
(* and others who remove entries meanwhile: myfind prints what can be      *)
(* reached and stays, once and with its path, and nothing else.            *)
(***************************************************************************)
THEOREM EveryMatchFound == Spec => []FindsAll
<1>1. Init => MInv
  BY MInvInit DEF Init
<1>2. MInv /\ [Next]_vars => MInv'
  BY MInvStep, OneRuns
<1>3. MInv => FindsAll
  <2> SUFFICES ASSUME MInv, Mf!Done, smashed = FALSE
               PROVE  Mf!FindsAll
    BY DEF FindsAll, Mf!FindsAll, MInv, MTypes
  <2>1. MTypes /\ Printed /\ Covered /\ StartTried
    BY DEF MInv
  <2>2. open = Mf!Nothing /\ Len(calls) = 0
    BY DEF Mf!Done
  <2>3. open # Start /\ \A e \in Entry : ~Unread(e) /\ open # e
    BY <2>1, <2>2, NothingIsNowhere DEF Unread, Mf!Nothing, Entry, Start
  <2>4. \A e \in (sought \cap Reachable(tree, closed)) \ removed :
          shown[e] = <<Mf!Resolved(e)>>
    BY <2>1, <2>3 DEF Covered, Reachable
  <2>5. \A e \in Entry : shown[e] # << >> => e \in sought
    BY <2>1 DEF Printed
  <2>6. ASSUME NEW e \in sought \ removed, shown[e] = <<Mf!Wrong>>
        PROVE  e \in Links(tree) /\ target[e] = Mf!Out("nowhere")
    <3>1. e \in Entry
      BY <2>1 DEF MTypes
    <3>2. shown[e] = <<Mf!Resolved(e)>>
      BY <2>1, <2>6, <3>1 DEF Printed
    <3>3. Mf!Resolved(e) = Mf!Wrong
      BY <2>6, <3>2
    <3> QED
      BY <2>1, <3>1, <3>3, WrongForNowhere
  <2>7. (closed \cap (Reachable(tree, closed) \cup {Start})) \ removed \subseteq refused
    BY <2>1, <2>3 DEF Covered, StartTried, Reachable
  <2>8. /\ Mf!Reachable(tree, closed) = Reachable(tree, closed)
        /\ Mf!Entry = Entry /\ Mf!Start = Start /\ Mf!Links(tree) = Links(tree)
    BY SameTree
  <2> QED
    BY <2>4, <2>5, <2>6, <2>7, <2>8 DEF Mf!FindsAll
<1> QED
  BY <1>1, <1>2, <1>3, PTL DEF Spec

-----------------------------------------------------------------------------
(***************************************************************************)
(* The types.                                                              *)
(***************************************************************************)
\* compress_file and uncompress_file: a session has its bound.
LEMMA RlTypesStep ==
  ASSUME Rl!TypeOK, RlInv', [Rl!Next]_(Rl!vars)
  PROVE  Rl!TypeOK'
<1>1. commands \in 0..MaxCommands /\ MaxCommands \in Nat
  BY BoundsAssumption DEF Rl!TypeOK
<1>2. commands' \in {commands, commands + 1} /\ (commands' # commands => commands < MaxCommands)
  BY <1>1 DEF Rl!Next, Rl!Program, Rl!Compress, Rl!Count, Rl!Write, Rl!Uncompress, Rl!ExpandPair,
         Rl!Interrupt, Rl!vars
<1>3. commands' \in 0..MaxCommands
  BY <1>1, <1>2
<1> QED
  BY <1>3, SameRuns DEF RlInv, RlTypes, Rl!TypeOK

\* checkpasswd: the pipe has the records that were sent, at most two.
CpTypes ==
  /\ Cp!TypeOK
  /\ parent \in {"fork", "user"} => pipe = << >>
  /\ parent = "password" => Len(pipe) <= 1

\* The types of checkpasswd hold at the start.
LEMMA CpTypesInit == Cp!Init => CpTypes
<1> SUFFICES ASSUME Cp!Init PROVE CpTypes
  OBVIOUS
<1>1. pipe = << >> /\ << >> \in Seq({"user", "password"}) /\ Len(<< >>) <= 2
  BY DEF Cp!Init
<1> QED
  BY <1>1 DEF Cp!Init, CpTypes, Cp!TypeOK

\* Every step of checkpasswd keeps them.
LEMMA CpTypesStep ==
  ASSUME CpTypes, [Cp!Next]_(Cp!vars)
  PROVE  CpTypes'
<1> DEFINE Records == {"user", "password"}
<1>1. pipe \in Seq(Records) /\ Len(pipe) <= 2
  BY DEF CpTypes, Cp!TypeOK
<1>0. Len(pipe) \in Nat
  BY <1>1
<1>2. CASE UNCHANGED Cp!vars
  BY <1>2 DEF CpTypes, Cp!TypeOK, Cp!vars
<1>3. CASE Cp!Fork
  BY <1>3 DEF CpTypes, Cp!TypeOK, Cp!Fork
<1>4. CASE Cp!SendUser \/ Cp!SendPassword
  <2>1. ASSUME NEW r \in Records
        PROVE  Append(pipe, r) \in Seq(Records) /\ Len(Append(pipe, r)) = Len(pipe) + 1
    BY <1>1
  <2>2. CASE child = "ended"
    BY <1>4, <2>2 DEF CpTypes, Cp!TypeOK, Cp!SendUser, Cp!SendPassword, Cp!Send
  <2>3. CASE child # "ended" /\ Cp!SendUser
    <3>1. /\ parent = "user" /\ parent' = "password" /\ pipe' = Append(pipe, "user")
          /\ UNCHANGED <<answer, child, status, executed, said>>
      BY <2>3 DEF Cp!SendUser, Cp!Send
    <3>2. Len(pipe) = 0
      BY <3>1 DEF CpTypes
    <3>3. pipe' \in Seq(Records) /\ Len(pipe') <= 1 /\ Len(pipe') <= 2
      BY <2>1, <3>1, <3>2
    <3> QED
      BY <3>1, <3>3 DEF CpTypes, Cp!TypeOK
  <2>4. CASE child # "ended" /\ Cp!SendPassword
    <3>1. /\ parent = "password" /\ parent' = "wait" /\ pipe' = Append(pipe, "password")
          /\ UNCHANGED <<answer, child, status, executed, said>>
      BY <2>4 DEF Cp!SendPassword, Cp!Send
    <3>2. Len(pipe) <= 1
      BY <3>1 DEF CpTypes
    <3>3. pipe' \in Seq(Records) /\ Len(pipe') <= 2
      BY <1>0, <1>1, <2>1, <3>1, <3>2
    <3> QED
      BY <3>1, <3>3 DEF CpTypes, Cp!TypeOK
  <2> QED
    BY <1>4, <2>2, <2>3, <2>4
<1>5. CASE Cp!Wait
  <2>1. Cp!Message \in {Cp!Verdict(a) : a \in Cp!Answers}
                        \cup {"terminates abnormally", "terminates with error"}
    BY DEF Cp!Message
  <2> QED
    BY <1>5, <2>1 DEF CpTypes, Cp!TypeOK, Cp!Wait
<1>6. CASE Cp!Dup2 \/ Cp!Execl
  BY <1>6 DEF CpTypes, Cp!TypeOK, Cp!Dup2, Cp!Execl, Cp!ChildEnds
<1>7. CASE Cp!ReadUser \/ Cp!ReadPassword
  <2>1. pipe # << >> /\ pipe' = Tail(pipe) /\ UNCHANGED <<answer, parent, executed, said>>
    BY <1>7 DEF Cp!ReadUser, Cp!ReadPassword
  <2>2. pipe' \in Seq(Records) /\ Len(pipe') = Len(pipe) - 1
    BY <1>1, <2>1
  <2>3. parent \notin {"fork", "user"}
    BY <2>1 DEF CpTypes
  <2>4. /\ Len(pipe') <= 2
        /\ Len(pipe) <= 1 => Len(pipe') <= 1
    BY <1>0, <1>1, <2>2
  <2>5. child' \in {"password", "ended"} /\ status' \in {0, 1, 2, 3, Cp!Signalled}
    <3>1. Cp!CodeOf(answer) \in {0, 2, 3}
      BY Values DEF CpTypes, Cp!TypeOK, Cp!Answers
    <3> QED
      BY <1>7, <3>1 DEF Cp!ReadUser, Cp!ReadPassword, Cp!ChildEnds, CpTypes, Cp!TypeOK
  <2> QED
    BY <2>1, <2>2, <2>3, <2>4, <2>5 DEF CpTypes, Cp!TypeOK
<1>8. CASE Cp!ValidateFails
  BY <1>8 DEF CpTypes, Cp!TypeOK, Cp!ValidateFails, Cp!ChildEnds
<1> QED
  BY <1>2, <1>3, <1>4, <1>5, <1>6, <1>7, <1>8 DEF Cp!Next, Cp!Parent, Cp!Child

\* time_reads: what was counted is bounded, and what was done is counted.
TrTypes == Tr!TypeOK /\ done <= num_reads

\* Every step of time_reads keeps its types.
LEMMA TrTypesStep ==
  ASSUME TrTypes, RInv, [Tr!Next]_(Tr!vars)
  PROVE  TrTypes'
<1>1. MaxReads \in Nat /\ (seconds > 0) \in BOOLEAN
  BY BoundsAssumption
<1>2. CASE UNCHANGED Tr!vars
  BY <1>2 DEF TrTypes, Tr!TypeOK, Tr!vars
<1>3. CASE Tr!InitSigaction
  BY <1>3 DEF TrTypes, Tr!TypeOK, Tr!InitSigaction
<1>4. CASE Tr!InitTime
  <2>1. armed' \in BOOLEAN
    BY <1>1, <1>4, Zenon DEF Tr!InitTime
  <2>2. main' = "zero" /\ UNCHANGED <<seconds, num_reads, done, report>>
    BY <1>4 DEF Tr!InitTime
  <2> QED
    BY <2>1, <2>2 DEF TrTypes, Tr!TypeOK
<1>5. CASE Tr!Zero
  BY <1>1, <1>5 DEF TrTypes, Tr!TypeOK, Tr!Zero, RInv
<1>6. CASE Tr!Count
  BY <1>1, <1>6 DEF TrTypes, Tr!TypeOK, Tr!Count, RInv
<1>7. CASE Tr!Read
  BY <1>1, <1>7 DEF TrTypes, Tr!TypeOK, Tr!Read, RInv
<1>8. CASE Tr!Timer \/ Tr!Kill
  <2>1. \/ main' = "killed" /\ UNCHANGED <<seconds, armed, num_reads, done, report>>
        \/ main' = "reported" /\ report' = num_reads /\ UNCHANGED <<seconds, armed, num_reads, done>>
    BY <1>8 DEF Tr!Timer, Tr!Kill, Tr!print_message
  <2> QED
    BY <1>1, <2>1 DEF TrTypes, Tr!TypeOK
<1> QED
  BY <1>2, <1>3, <1>4, <1>5, <1>6, <1>7, <1>8 DEF Tr!Next, Tr!Main

\* Server and client: who listens has a port.
LEMMA SpTypesStep ==
  ASSUME Sp!TypeOK, PInv, [Sp!Next]_(Sp!vars)
  PROVE  Sp!TypeOK'
<1> USE DEF Sp!Ports, Sp!Port, Sp!NextPort, Sp!AnyPort
<1>1. CASE UNCHANGED Sp!vars
  BY <1>1 DEF Sp!TypeOK, Sp!vars
<1>2. CASE Sp!Bind
  BY <1>2 DEF Sp!TypeOK, Sp!Bind
<1>3. CASE Sp!Listen
  BY <1>3 DEF Sp!TypeOK, Sp!Listen
<1>4. CASE Sp!Connect \/ Sp!ConnectAgain
  BY <1>4 DEF Sp!TypeOK, Sp!Connect, Sp!ConnectAgain, Sp!ConnectTo
<1>5. ASSUME NEW p \in {Sp!Port, Sp!NextPort}, Sp!Take(p) PROVE Sp!TypeOK'
  <2>1. /\ owner' = [owner EXCEPT ![p] = "stranger"] /\ listening' = listening \cup {p}
        /\ UNCHANGED <<server, bound, client, late, peer>>
    BY <1>5 DEF Sp!Take
  <2> QED
    BY <2>1 DEF Sp!TypeOK
<1>6. ASSUME NEW p \in {Sp!Port, Sp!NextPort}, Sp!Leave(p) PROVE Sp!TypeOK'
  <2>1. /\ owner' = [owner EXCEPT ![p] = "nobody"] /\ listening' = listening \ {p}
        /\ UNCHANGED <<server, bound, client, late, peer>>
    BY <1>6 DEF Sp!Leave
  <2> QED
    BY <2>1 DEF Sp!TypeOK
<1> QED
  BY <1>1, <1>2, <1>3, <1>4, <1>5, <1>6 DEF Sp!Next, Sp!Server, Sp!Client

\* childcreates and parentcreates: no counter passes the argument, and lines
\* are those of a process that is there.
LEMMA FlTypesInit == Fl!Init => Fl!TypeOK
<1> SUFFICES ASSUME Fl!Init PROVE Fl!TypeOK
  OBVIOUS
<1>1. MaxIter \in Nat
  BY BoundsAssumption
<1>2. /\ shape \in {"chain", "fan"} /\ iterations \in 0..MaxIter /\ tty \in BOOLEAN
      /\ reaped = {} /\ failed = FALSE
      /\ at = [p \in Fl!Procs |-> IF p = 0 THEN "loop" ELSE "none"]
      /\ i = [p \in Fl!Procs |-> 0]
      /\ buf = [p \in Fl!Procs |-> {}]
      /\ out = [l \in Fl!Lines |-> 0]
  BY DEF Fl!Init
<1>3. at \in [Fl!Procs -> {"none", "loop", "print", "exit", "wait", "ended"}]
  BY <1>2
<1>4. i \in [Fl!Procs -> 0..MaxIter] /\ out \in [Fl!Lines -> Nat]
  BY <1>1, <1>2
<1>5. buf \in [Fl!Procs -> SUBSET Fl!Lines]
  BY <1>2
<1> QED
  BY <1>2, <1>3, <1>4, <1>5 DEF Fl!TypeOK

\* The lines of a process that ends are counted.
LEMMA EndKeepsLines ==
  ASSUME Fl!TypeOK, NEW p \in Fl!Procs, Fl!End(p)
  PROVE  buf' \in [Fl!Procs -> SUBSET Fl!Lines] /\ out' \in [Fl!Lines -> Nat]
<1>1. buf' = [buf EXCEPT ![p] = {}] /\ out' = [l \in Fl!Lines |-> out[l] + IF l \in buf[p] THEN 1 ELSE 0]
  BY DEF Fl!End
<1>2. buf \in [Fl!Procs -> SUBSET Fl!Lines] /\ out \in [Fl!Lines -> Nat]
  BY DEF Fl!TypeOK
<1>3. ASSUME NEW l \in Fl!Lines PROVE out[l] + (IF l \in buf[p] THEN 1 ELSE 0) \in Nat
  BY <1>2
<1>4. out' \in [Fl!Lines -> Nat]
  BY <1>1, <1>3
<1> QED
  BY <1>1, <1>2, <1>4

\* Every step of the fork loops keeps their types.
LEMMA FlTypesStep ==
  ASSUME Fl!TypeOK, FInv, FInv', [Fl!Next]_(Fl!vars)
  PROVE  Fl!TypeOK'
<1> DEFINE B == [Fl!Procs -> SUBSET Fl!Lines]
           O == [Fl!Lines -> Nat]
           I == [Fl!Procs -> 0..MaxIter]
<1>0. MaxIter \in Nat
  BY BoundsAssumption
<1>1. buf \in B /\ out \in O /\ i \in I /\ tty \in BOOLEAN /\ iterations \in 0..MaxIter
  BY DEF Fl!TypeOK
<1>2. SUFFICES buf' \in B /\ out' \in O /\ i' \in I /\ tty' \in BOOLEAN
  BY DEF FInv, Types, Fl!TypeOK
<1>3. CASE UNCHANGED Fl!vars
  BY <1>1, <1>3 DEF Fl!vars
<1>4. ASSUME NEW p \in Fl!Procs, Fl!Step(p)
      PROVE  buf' \in B /\ out' \in O /\ i' \in I /\ tty' \in BOOLEAN
  <2>1. tty' \in BOOLEAN
    BY <1>1, <1>4 DEF Fl!Step
  <2>2. CASE Fl!Fork(p)
    <3>1. i[p] < iterations /\ i' = [i EXCEPT ![i[p] + 1] = i[p]]
          /\ buf' = [buf EXCEPT ![i[p] + 1] = buf[p]] /\ out' = out
      BY <2>2 DEF Fl!Fork
    <3> QED
      BY <1>1, <2>1, <3>1
  <2>3. CASE Fl!ForkFails(p) \/ Fl!ChildExits(p)
    BY <1>1, <2>1, <2>3, EndKeepsLines DEF Fl!ForkFails, Fl!ChildExits
  <2>4. CASE Fl!LoopEnds(p)
    BY <1>1, <2>1, <2>4, EndKeepsLines DEF Fl!LoopEnds
  <2>5. CASE Fl!Wait(p)
    BY <1>1, <2>1, <2>5, EndKeepsLines DEF Fl!Wait
  <2>6. CASE Fl!PrintLine(p)
    <3>1. i[p] \in 0..MaxIter /\ <<p, i[p]>> \in Fl!Lines
      BY <1>1 DEF Fl!Lines
    <3>2. buf' \in B /\ out' \in O
      <4>1. CASE tty
        <5>1. buf' = buf /\ out' = [out EXCEPT ![<<p, i[p]>>] = @ + 1]
          BY <2>6, <4>1 DEF Fl!PrintLine
        <5>2. out[<<p, i[p]>>] + 1 \in Nat
          BY <1>1, <3>1
        <5> QED
          BY <1>1, <5>1, <5>2
      <4>2. CASE ~tty
        <5>1. out' = out /\ buf' = [buf EXCEPT ![p] = @ \cup {<<p, i[p]>>}]
          BY <2>6, <4>2 DEF Fl!PrintLine
        <5> QED
          BY <1>1, <3>1, <5>1
      <4> QED
        BY <4>1, <4>2
    <3>3. i' \in I
      <4>1. CASE i' = i
        BY <1>1, <4>1
      <4>2. CASE i' # i
        <5>1. (p = i[p] + 1) = (shape = "chain") /\ i' = [i EXCEPT ![p] = @ + 1] /\ at[p] = "print"
          BY <2>6, <4>2 DEF Fl!PrintLine, Fl!Newborn
        <5>2. i[p] + 1 \in 0..MaxIter
          <6>1. CASE shape = "chain"
            BY <5>1, <6>1 DEF Fl!Procs
          <6>2. CASE shape = "fan"
            <7>1. p = 0 /\ i[0] < iterations
              BY <5>1, <6>2 DEF FInv, FanInv, Types
            <7> QED
              BY <1>0, <1>1, <3>1, <7>1
          <6> QED
            BY <6>1, <6>2 DEF FInv, Types
        <5> QED
          BY <1>1, <5>1, <5>2
      <4> QED
        BY <4>1, <4>2
    <3> QED
      BY <2>1, <3>2, <3>3
  <2> QED
    BY <1>4, <2>2, <2>3, <2>4, <2>5, <2>6 DEF Fl!Step
<1> QED
  BY <1>3, <1>4 DEF Fl!Next

\* cycle: nftw() has come only to what can be reached, and the directory of
\* "Cycle found at" is one it could read.
LEMMA CyTypesInit == Cy!Init => Cy!TypeOK
BY SameTree DEF Cy!Init, Cy!TypeOK, Cy!Dirs

\* Every step of cycle keeps its types.
LEMMA CyTypesStep ==
  ASSUME Cy!TypeOK, [Cy!Next]_(Cy!vars)
  PROVE  Cy!TypeOK'
<1>1. /\ forest' = forest /\ links' = links /\ locked' = locked
      /\ Reachable(forest, locked)' = Reachable(forest, locked) /\ Dirs(forest)' = Dirs(forest)
  <2>1. forest' = forest /\ links' = links /\ locked' = locked
    BY DEF Cy!Next, Cy!vars, Cy!Visit, Cy!NoCycle, Cy!WalkFails, Cy!World
  <2> QED
    BY <2>1
<1>2. /\ forest \in Shapes /\ locked \subseteq Dirs(forest)
      /\ links \in [Entry -> Targets \cup {NoTarget}]
      /\ visited \subseteq Reachable(forest, locked)
      /\ says \in {"walking", "none", "cycle", "nothing"}
      /\ alarm \in Dirs(forest) /\ (says = "cycle" => alarm \notin locked)
  BY SameTree DEF Cy!TypeOK, Cy!NoTarget, NoTarget
<1>3. SUFFICES /\ visited' \subseteq Reachable(forest, locked)
               /\ says' \in {"walking", "none", "cycle", "nothing"}
               /\ alarm' \in Dirs(forest) /\ (says' = "cycle" => alarm' \notin locked)
  BY <1>1, <1>2, SameTree DEF Cy!TypeOK, Cy!NoTarget, NoTarget
<1>4. CASE Cy!Visit
  <2>1. PICK e \in Cy!Ahead :
          /\ visited' = visited \cup {e}
          /\ \/ says' = "cycle" /\ alarm' = forest.parent[e]
             \/ UNCHANGED <<says, alarm>>
    BY <1>4 DEF Cy!Visit
  <2>2. /\ e \in Entry /\ forest.parent[e] \in {Start} \cup visited
        /\ forest.parent[e] \notin locked
    BY <2>1, SameTree DEF Cy!Ahead
  <2>3. e \in Reachable(forest, locked)
    <3>1. CASE forest.parent[e] = Start
      BY <1>2, <2>2, <3>1, AboveParent DEF Reachable
    <3>2. CASE forest.parent[e] # Start
      BY <1>2, <2>2, <3>2, AboveParent DEF Reachable, WayTo
    <3> QED
      BY <3>1, <3>2
  <2>4. forest.parent[e] \in Dirs(forest)
    BY <1>2, <2>2, ParentBefore DEF Dirs
  <2> QED
    BY <1>2, <2>1, <2>2, <2>3, <2>4
<1>5. CASE Cy!NoCycle \/ Cy!WalkFails \/ UNCHANGED Cy!vars
  BY <1>2, <1>5 DEF Cy!NoCycle, Cy!WalkFails, Cy!vars
<1> QED
  BY <1>4, <1>5 DEF Cy!Next

\* myfind: nothing was printed twice, and what was refused is closed or gone.
MfTypes == /\ \A e \in Entry : Len(shown[e]) <= 1
           /\ refused \subseteq closed \cup removed

\* That holds at the start.
LEMMA MfTypesInit == Mf!Init => MfTypes
BY SameTree DEF Mf!Init, MfTypes

\* Every step of myfind, or of who removes entries, keeps it.
LEMMA MfTypesStep ==
  ASSUME MfTypes, MInv, [Mf!Next]_(Mf!vars)
  PROVE  MfTypes'
<1>1. CASE UNCHANGED Mf!vars
  BY <1>1 DEF MfTypes, Mf!vars
<1>2. ASSUME NEW e \in Entry, Mf!Remove(e) PROVE MfTypes'
  BY <1>2 DEF MfTypes, Mf!Remove, Mf!World
<1>3. CASE Mf!searchdir
  <2>1. smashed = FALSE /\ UNCHANGED <<tree, target, sought, closed>>
    BY <1>3 DEF Mf!searchdir, Mf!World, MInv, MTypes
  <2>2. CASE Mf!Opendir
    BY <2>1, <2>2 DEF Mf!Opendir, MfTypes
  <2>3. CASE Mf!OpendirFails
    BY <2>1, <2>3 DEF Mf!OpendirFails, MfTypes
  <2>4. CASE Mf!Closedir
    BY <2>1, <2>4 DEF Mf!Closedir, MfTypes
  <2>5. ASSUME NEW b \in Entry, calls # << >>, Mf!Readdir(b) PROVE MfTypes'
    <3>1. /\ b \in calls[Len(calls)].left /\ UNCHANGED <<removed, refused>>
          /\ \/ shown' = shown
             \/ shown' = [shown EXCEPT ![b] = Append(@, Mf!Resolved(b))]
      BY <2>5 DEF Mf!Readdir, Mf!Current
    <3>2. shown[b] = << >>
      <4>1. Len(calls) \in 1..Len(calls)
        BY <2>5 DEF MInv, MTypes
      <4>2. Unread(b)
        BY <3>1, <4>1 DEF Unread, WayTo
      <4> QED
        BY <2>1, <4>2 DEF MInv, Printed
    <3>3. shown = [e \in Entry |-> shown[e]]
      BY DEF MInv, MTypes
    <3>4. Len(Append(<< >>, Mf!Resolved(b))) <= 1
      OBVIOUS
    <3>5. ASSUME NEW e \in Entry PROVE Len(shown'[e]) <= 1
      <4>1. shown'[e] = shown[e] \/ shown'[e] = Append(<< >>, Mf!Resolved(b))
        BY <3>1, <3>2, <3>3
      <4>2. Len(shown[e]) <= 1
        BY DEF MfTypes
      <4>3. shown'[e] = shown[e] => Len(shown'[e]) <= 1
        BY <4>2, Zenon
      <4> QED
        BY <3>4, <4>1, <4>3, Zenon
    <3> QED
      BY <2>1, <3>1, <3>5 DEF MfTypes
  <2> QED
    BY <1>3, <2>2, <2>3, <2>4, <2>5, SameTree DEF Mf!searchdir
<1> QED
  BY <1>1, <1>2, <1>3, SameTree DEF Mf!Next

\* The types of myfind.
LEMMA MfTypesAre == MInv /\ MfTypes => Mf!TypeOK
<1> SUFFICES ASSUME MInv, MfTypes PROVE Mf!TypeOK
  OBVIOUS
<1>1. MTypes
  BY DEF MInv
<1>2. Mf!NoTarget = NoTarget /\ Mf!In(Start) = In(Start) /\ Mf!Out("nowhere") = Out("nowhere")
  BY DEF Mf!NoTarget, NoTarget, Mf!In, In, Mf!Out, Out
<1>3. \A k \in DOMAIN calls : calls[k].dir \in Dirs(tree) /\ calls[k].left \subseteq Entry
  <2>1. ASSUME NEW k \in DOMAIN calls PROVE calls[k] \in Call
    BY <1>1, <2>1 DEF MTypes
  <2> QED
    BY <2>1 DEF Call
<1> QED
  BY <1>1, <1>2, <1>3, SameTree DEF MTypes, MfTypes, Mf!TypeOK

\* The types of all programs, with what they rest on.
TypeInv ==
  /\ program \in Programs
  /\ RlInv /\ Rl!TypeOK
  /\ CpTypes
  /\ FInv /\ Fl!TypeOK
  /\ RInv /\ TrTypes
  /\ MInv /\ MfTypes
  /\ Cy!TypeOK
  /\ PInv /\ Sp!TypeOK
  /\ Gu!IInv

(***************************************************************************)
(* For texts, trees, numbers of processes and of seconds of any size: no   *)
(* count of a packed file leaves its byte, the pipe to validate never      *)
(* holds more than its two records, no fork loop counts beyond its         *)
(* argument, myfind prints nothing twice and refuses nothing that is open  *)
(* and there, nftw() comes only to what it can reach, and who listens has  *)
(* a port.                                                                 *)
(***************************************************************************)
THEOREM TypesKept == Spec => []TypeOK
<1>0. MaxIter \in Nat /\ MaxLength \in Nat /\ MaxReads \in Nat /\ MaxCommands \in Nat
  BY BoundsAssumption
<1>1. Init => TypeInv
  <2> SUFFICES ASSUME Init PROVE TypeInv
    OBVIOUS
  <2>1. /\ program \in Programs /\ Rl!Init /\ Cp!Init /\ Fl!Init /\ Tr!Init /\ Mf!Init
        /\ Cy!Init /\ Sp!Init /\ Gu!Init
    BY DEF Init
  <2>2. RlInv
    BY <1>0, <2>1, RlInvInit
  <2>3. Rl!TypeOK
    <3>1. commands \in 0..MaxCommands
      BY <1>0, <2>1 DEF Rl!Init
    <3> QED
      BY <2>2, <3>1, SameRuns DEF RlInv, RlTypes, Rl!TypeOK
  <2>4. RInv /\ TrTypes
    <3>1. RInv
      BY <2>1, RInvInit
    <3>2. /\ main = "sigaction" /\ armed = FALSE /\ num_reads = 0 /\ done = 0
          /\ report = -1 /\ seconds \in Seconds
      BY <2>1 DEF Tr!Init
    <3>3. 0 \in 0..MaxReads /\ -1 \in -1..MaxReads /\ 0 <= 0
      BY <1>0
    <3> QED
      BY <3>1, <3>2, <3>3 DEF Tr!TypeOK, TrTypes
  <2>5. PInv /\ Sp!TypeOK
    BY <2>1, PInvInit DEF Sp!Init, Sp!TypeOK, PInv
  <2> QED
    BY <1>0, <2>1, <2>2, <2>3, <2>4, <2>5, CpTypesInit, FInvInit, FlTypesInit, MInvInit,
       MfTypesInit, CyTypesInit, GuInvInit DEF TypeInv
<1>2. TypeInv /\ [Next]_vars => TypeInv'
  <2> SUFFICES ASSUME TypeInv, [Next]_vars PROVE TypeInv'
    OBVIOUS
  <2>1. /\ [Rl!Next]_(Rl!vars) /\ [Cp!Next]_(Cp!vars) /\ [Fl!Next]_(Fl!vars)
        /\ [Tr!Next]_(Tr!vars) /\ [Mf!Next]_(Mf!vars) /\ [Cy!Next]_(Cy!vars)
        /\ [Sp!Next]_(Sp!vars) /\ [Gu!Next]_(Gu!vars)
    BY OneRuns
  <2>2. program' \in Programs
    BY DEF TypeInv, Next, vars
  <2>3. RlInv' /\ Rl!TypeOK'
    BY <2>1, RlInvStep, RlTypesStep DEF TypeInv
  <2>4. CpTypes'
    BY <2>1, CpTypesStep DEF TypeInv
  <2>5. FInv' /\ Fl!TypeOK'
    BY <1>0, <2>1, FInvStep, FlTypesStep DEF TypeInv
  <2>6. RInv' /\ TrTypes'
    BY <2>1, RInvStep, TrTypesStep DEF TypeInv
  <2>7. MInv' /\ MfTypes'
    BY <2>1, MInvStep, MfTypesStep DEF TypeInv
  <2>8. Cy!TypeOK'
    BY <2>1, CyTypesStep DEF TypeInv
  <2>9. PInv' /\ Sp!TypeOK'
    BY <2>1, PInvStep, SpTypesStep DEF TypeInv
  <2>10. Gu!IInv'
    BY <2>1, GuInvStep DEF TypeInv
  <2> QED
    BY <2>2, <2>3, <2>4, <2>5, <2>6, <2>7, <2>8, <2>9, <2>10 DEF TypeInv
<1>3. TypeInv => TypeOK
  BY MfTypesAre DEF TypeInv, TypeOK, CpTypes, TrTypes, Gu!IInv
<1> QED
  BY <1>1, <1>2, <1>3, PTL DEF Spec


-----------------------------------------------------------------------------
(***************************************************************************)
(* The lines of childcreates and parentcreates.                            *)
(***************************************************************************)
\* A process has printed the line of the iteration in which it stopped.
Own(q) ==
  IF shape = "chain"
  THEN at[q] \in {"wait", "ended"} /\ q + 1 \in Fl!Procs /\ at[q + 1] # "none"
  ELSE q # 0 /\ at[q] \in {"exit", "ended"}

\* The lines a process has taken along or printed: those of the ones that
\* went on, up to its counter, and its own.
Holds(q) ==
  {l \in Fl!Lines : \/ l[1] = Fl!GoesOn(l[2]) /\ l[2] < i[q]
                    \/ Own(q) /\ l = <<q, i[q]>>}

\* The first m processes after process 0 have been made, in order.
Made(m) == \A q \in Fl!Procs : at[q] # "none" <=> q <= m

ChainCounters(m) ==
  \A q \in Fl!Procs :
    /\ at[q] # "none" => i[q] = q \/ (at[q] = "print" /\ i[q] + 1 = q)
    /\ at[q] = "wait" \/ (at[q] = "print" /\ i[q] = q) => q < m

FanCounters(m) ==
  /\ m = i[0] + IF at[0] = "print" THEN 1 ELSE 0
  /\ \A q \in Fl!Procs : q # 0 /\ at[q] # "none" => i[q] + 1 = q

Counters ==
  \E m \in Fl!Procs :
    /\ Made(m)
    /\ \A q \in Fl!Procs : at[q] = "none" => i[q] = 0
    /\ shape = "chain" => ChainCounters(m)
    /\ shape = "fan"   => FanCounters(m)

\* In a file a process that runs still has all its lines in the buffer.
Buffers ==
  \A q \in Fl!Procs :
    buf[q] = IF tty \/ at[q] \in {"none", "ended"} THEN {} ELSE Holds(q)

\* On a terminal a line was shown when it was printed; in a file it is there
\* for each process that has ended with it.
Shown ==
  \A l \in Fl!Lines :
    out[l] = IF tty THEN (IF l \in Holds(l[1]) THEN 1 ELSE 0)
             ELSE Cardinality({q \in Fl!Procs : at[q] = "ended" /\ l \in Holds(q)})

LInv == FInv /\ Fl!TypeOK /\ Counters /\ Buffers /\ Shown

\* What is true of every process that is there or not.
LEMMA LinesBasics ==
  ASSUME LInv
  PROVE  /\ MaxIter \in Nat /\ iterations \in 0..MaxIter /\ tty \in BOOLEAN
         /\ shape = "chain" \/ shape = "fan"
         /\ at \in [Fl!Procs -> {"none", "loop", "print", "exit", "wait", "ended"}]
         /\ i \in [Fl!Procs -> 0..MaxIter]
         /\ buf \in [Fl!Procs -> SUBSET Fl!Lines] /\ out \in [Fl!Lines -> Nat]
         /\ shape = "chain" => ChainInv
         /\ shape = "fan" => FanInv
         /\ Fl!Procs = 0..MaxIter /\ 0 \in Fl!Procs
BY BoundsAssumption DEF LInv, FInv, Fl!TypeOK, Fl!Procs

\* At the start nobody has a line.
LEMMA LInvInit == Fl!Init => LInv
<1> SUFFICES ASSUME Fl!Init PROVE LInv
  OBVIOUS
<1>1. FInv /\ Fl!TypeOK /\ MaxIter \in Nat
  BY FInvInit, FlTypesInit, BoundsAssumption
<1>2. /\ at = [q \in Fl!Procs |-> IF q = 0 THEN "loop" ELSE "none"]
      /\ i = [q \in Fl!Procs |-> 0] /\ buf = [q \in Fl!Procs |-> {}]
      /\ out = [l \in Fl!Lines |-> 0] /\ shape \in {"chain", "fan"}
  BY DEF Fl!Init
<1>3. Counters
  <2>1. Made(0) /\ ChainCounters(0) /\ FanCounters(0) /\ 0 \in Fl!Procs
    BY <1>1, <1>2 DEF Made, ChainCounters, FanCounters, Fl!Procs
  <2> QED
    BY <1>2, <2>1 DEF Counters
<1>4. \A q \in Fl!Procs : Holds(q) = {}
  <2>1. ASSUME NEW q \in Fl!Procs PROVE ~Own(q)
    BY <1>1, <1>2 DEF Own, Fl!Procs
  <2>2. ASSUME NEW q \in Fl!Procs, NEW l \in Fl!Lines PROVE ~(l[2] < i[q])
    BY <1>1, <1>2 DEF Fl!Lines
  <2> QED
    BY <2>1, <2>2 DEF Holds
<1>5. Buffers
  BY <1>2, <1>4 DEF Buffers
<1>6. Shown
  <2>1. \A l \in Fl!Lines : l[1] \in Fl!Procs
    BY DEF Fl!Lines
  <2>2. \A l \in Fl!Lines : {q \in Fl!Procs : at[q] = "ended" /\ l \in Holds(q)} = {}
    BY <1>2
  <2> QED
    BY <1>2, <1>4, <2>1, <2>2, FS_EmptySet DEF Shown
<1> QED
  BY <1>1, <1>3, <1>5, <1>6 DEF LInv

\* A fork: the new process holds what its parent holds.
LEMMA ForkKeepsLines ==
  ASSUME LInv, NEW p \in Fl!Procs, Fl!Fork(p), UNCHANGED <<shape, iterations, tty>>
  PROVE  Counters' /\ Buffers' /\ Shown'
<1>2. PICK m \in Fl!Procs :
        /\ Made(m)
        /\ \A q \in Fl!Procs : at[q] = "none" => i[q] = 0
        /\ shape = "chain" => ChainCounters(m)
        /\ shape = "fan"   => FanCounters(m)
  BY DEF LInv, Counters
<1>b. /\ MaxIter \in Nat /\ iterations \in 0..MaxIter /\ tty \in BOOLEAN
      /\ shape = "chain" \/ shape = "fan"
      /\ at \in [Fl!Procs -> {"none", "loop", "print", "exit", "wait", "ended"}]
      /\ i \in [Fl!Procs -> 0..MaxIter]
      /\ buf \in [Fl!Procs -> SUBSET Fl!Lines] /\ out \in [Fl!Lines -> Nat]
      /\ shape = "chain" => ChainInv
      /\ shape = "fan" => FanInv
      /\ Fl!Procs = 0..MaxIter /\ 0 \in Fl!Procs
  BY LinesBasics, Zenon
<1>r. PICK r \in Fl!Procs : r = i[p] + 1
  BY <1>b DEF Fl!Fork
<1>1. /\ at[p] = "loop" /\ i[p] < iterations
      /\ at' = [at EXCEPT ![p] = "print", ![r] = "print"]
      /\ i' = [i EXCEPT ![r] = i[p]] /\ buf' = [buf EXCEPT ![r] = buf[p]] /\ out' = out
  BY <1>r DEF Fl!Fork
<1>3. /\ r # p /\ at[r] = "none" /\ i[r] = 0 /\ r = m + 1
      /\ shape = "chain" => i[p] = p
      /\ shape = "fan" => p = 0
  <2>2. CASE shape = "chain"
    <3>1. i[p] = p /\ NoneAbove(p)
      BY <1>1, <1>b, <2>2 DEF ChainInv
    <3>2. at[r] = "none"
      BY <1>b, <1>r, <3>1 DEF NoneAbove
    <3>3. m = p
      BY <1>1, <1>2, <1>b, <1>r, <3>1, <3>2 DEF Made
    <3> QED
      BY <1>2, <1>b, <1>r, <2>2, <3>1, <3>2, <3>3
  <2>3. CASE shape = "fan"
    <3>1. p = 0 /\ NoneAbove(i[0])
      BY <1>1, <1>b, <2>3 DEF FanInv
    <3>2. at[r] = "none"
      BY <1>b, <1>r, <3>1 DEF NoneAbove
    <3>3. m = i[0]
      <4>1. m = i[0] + IF at[0] = "print" THEN 1 ELSE 0
        BY <1>2, <2>3 DEF FanCounters
      <4>2. at[0] # "print" /\ i[0] \in Nat
        BY <1>1, <1>b, <3>1
      <4> QED
        BY <4>1, <4>2
    <3> QED
      BY <1>2, <1>b, <1>r, <2>3, <3>1, <3>2, <3>3
  <2> QED
    BY <1>b, <2>2, <2>3
<1>4. /\ at' = [at EXCEPT ![p] = "print", ![r] = "print"]
      /\ at'[p] = "print" /\ at'[r] = "print"
      /\ \A q \in Fl!Procs : q # r /\ q # p => at'[q] = at[q]
  BY <1>1, <1>3, <1>r, <1>b
<1>5. /\ i'[r] = i[p] /\ buf'[r] = buf[p]
      /\ \A q \in Fl!Procs : q # r => i'[q] = i[q] /\ buf'[q] = buf[q]
  BY <1>1, <1>3, <1>r, <1>b
<1>6. i[p] \in Nat /\ i'[p] = i[p] /\ m \in Nat
  BY <1>3, <1>5, <1>b
<1>7. Counters'
  <2>1. Made(r)'
    <3>1. ASSUME NEW q \in Fl!Procs PROVE at'[q] # "none" <=> q <= r
      <4>0. q \in Nat /\ p \in Nat /\ p <= m
        BY <1>1, <1>2, <1>b DEF Made
      <4>1. CASE q = r \/ q = p
        BY <1>3, <1>4, <1>6, <4>0, <4>1
      <4>2. CASE q # r /\ q # p
        <5>1. at'[q] # "none" <=> q <= m
          BY <1>2, <1>4, <4>2 DEF Made
        <5> QED
          BY <1>3, <1>6, <4>0, <4>2, <5>1
      <4> QED
        BY <4>1, <4>2
    <3> QED
      BY <3>1 DEF Made
  <2>2. \A q \in Fl!Procs : at'[q] = "none" => i'[q] = 0
    BY <1>2, <1>4, <1>5
  <2>3. ASSUME shape = "chain" PROVE ChainCounters(r)'
    <3>1. ASSUME NEW q \in Fl!Procs
          PROVE  /\ at'[q] # "none" => i'[q] = q \/ (at'[q] = "print" /\ i'[q] + 1 = q)
                 /\ at'[q] = "wait" \/ (at'[q] = "print" /\ i'[q] = q) => q < r
      <4>1. CASE q = r
        BY <1>3, <1>4, <1>5, <1>6, <2>3, <4>1, <1>r
      <4>2. CASE q = p
        BY <1>3, <1>4, <1>6, <2>3, <4>2, <1>r
      <4>3. CASE q # r /\ q # p
        <5>1. at'[q] = at[q] /\ i'[q] = i[q]
          BY <1>4, <1>5, <4>3
        <5>2. q \in Nat
          BY <1>b
        <5> QED
          BY <1>2, <1>3, <1>6, <2>3, <5>1, <5>2 DEF ChainCounters
      <4> QED
        BY <4>1, <4>2, <4>3
    <3> QED
      BY <3>1 DEF ChainCounters
  <2>4. ASSUME shape = "fan" PROVE FanCounters(r)'
    <3>1. r = i'[0] + IF at'[0] = "print" THEN 1 ELSE 0
      BY <1>3, <1>4, <1>6, <2>4, <1>r
    <3>2. ASSUME NEW q \in Fl!Procs, q # 0, at'[q] # "none" PROVE i'[q] + 1 = q
      <4>1. CASE q = r
        BY <1>5, <4>1, <1>r
      <4>2. CASE q # r
        BY <1>2, <1>3, <1>4, <1>5, <2>4, <3>2, <4>2 DEF FanCounters
      <4> QED
        BY <4>1, <4>2
    <3> QED
      BY <3>1, <3>2 DEF FanCounters
  <2> QED
    BY <1>r, <2>1, <2>2, <2>3, <2>4 DEF Counters, Fl!Procs
<1>8. /\ ~Own(p) /\ ~Own(r) /\ ~Own(p)' /\ ~Own(r)'
      /\ \A q \in Fl!Procs : q # p /\ q # r => (Own(q)' <=> Own(q))
  <2>1. ~Own(p) /\ ~Own(r) /\ ~Own(p)' /\ ~Own(r)'
    BY <1>1, <1>3, <1>4, <1>b DEF Own
  <2>2. ASSUME NEW q \in Fl!Procs, q # p, q # r PROVE Own(q)' <=> Own(q)
    <3>1. CASE shape = "chain"
      <4>1. q + 1 # r
        BY <1>3, <1>b, <2>2, <3>1, <1>r
      <4>2. q + 1 \in Fl!Procs => (at'[q + 1] # "none" <=> at[q + 1] # "none")
        BY <1>1, <1>4, <4>1
      <4> QED
        BY <1>1, <1>4, <2>2, <3>1, <4>2 DEF Own, Fl!Procs
    <3>2. CASE shape = "fan"
      BY <1>4, <2>2, <3>2 DEF Own
    <3> QED
      BY <1>b, <3>1, <3>2
  <2> QED
    BY <2>1, <2>2
<1>9. ASSUME NEW q \in Fl!Procs, q # r PROVE Holds(q)' = Holds(q)
  BY <1>5, <1>8, <1>9 DEF Holds, Fl!Lines, Fl!Procs, Fl!GoesOn
<1>10. Holds(r)' = Holds(p)
  BY <1>5, <1>8 DEF Holds, Fl!Lines, Fl!Procs, Fl!GoesOn
<1>11. Buffers'
  <2>1. ASSUME NEW q \in Fl!Procs
        PROVE  buf'[q] = IF tty \/ at'[q] \in {"none", "ended"} THEN {} ELSE Holds(q)'
    <3>1. \A x \in Fl!Procs : buf[x] = IF tty \/ at[x] \in {"none", "ended"} THEN {} ELSE Holds(x)
      BY DEF LInv, Buffers
    <3>2. CASE q = r
      <4>1. buf[p] = IF tty THEN {} ELSE Holds(p)
        BY <1>1, <3>1
      <4> QED
        BY <1>4, <1>5, <1>10, <3>2, <4>1
    <3>3. CASE q = p
      BY <1>1, <1>3, <1>4, <1>5, <1>9, <3>1, <3>3
    <3>4. CASE q # r /\ q # p
      BY <1>4, <1>5, <1>9, <3>1, <3>4
    <3> QED
      BY <3>2, <3>3, <3>4
  <2> QED
    BY <2>1 DEF Buffers, Fl!Procs
<1>12. Shown'
  <2>1. ASSUME NEW l \in Fl!Lines, tty PROVE l \in Holds(l[1])' <=> l \in Holds(l[1])
    <3>1. l[1] \in Fl!Procs /\ l[2] \in Nat
      BY <1>b DEF Fl!Lines
    <3>2. CASE l[1] # r
      BY <1>9, <3>1, <3>2
    <3>3. CASE l[1] = r
      <4>1. ~(l[2] < i[r])
        BY <1>3, <3>1
      <4>2. l \notin Holds(r)
        BY <1>8, <4>1 DEF Holds
      <4>3. l[2] < i[p] => l[1] # Fl!GoesOn(l[2])
        <5>1. l[2] < i[p] => r # l[2] + 1 /\ r # 0
          BY <1>6, <1>r, <3>1
        <5> QED
          BY <3>3, <5>1 DEF Fl!GoesOn
      <4>4. l \notin Holds(p)
        BY <1>8, <4>3 DEF Holds
      <4> QED
        BY <1>10, <3>3, <4>2, <4>4
    <3> QED
      BY <3>2, <3>3
  <2>2. ASSUME NEW l \in Fl!Lines
        PROVE  {q \in Fl!Procs : at'[q] = "ended" /\ l \in Holds(q)'}
                 = {q \in Fl!Procs : at[q] = "ended" /\ l \in Holds(q)}
    <3>1. ASSUME NEW q \in Fl!Procs
          PROVE  at'[q] = "ended" /\ l \in Holds(q)' <=> at[q] = "ended" /\ l \in Holds(q)
      BY <1>1, <1>3, <1>4, <1>9
    <3> QED
      BY <3>1
  <2> QED
    BY <1>1, <2>1, <2>2 DEF LInv, Shown, Fl!Lines, Fl!Procs
<1> QED
  BY <1>7, <1>11, <1>12


\* Who prints has the line in the end and did not have it before.
LEMMA PrintKeepsLines ==
  ASSUME LInv, Fl!TypeOK', NEW p \in Fl!Procs, Fl!PrintLine(p), UNCHANGED <<shape, iterations, tty>>
  PROVE  Counters' /\ Buffers' /\ Shown'
<1>b. /\ MaxIter \in Nat /\ iterations \in 0..MaxIter /\ tty \in BOOLEAN
      /\ shape = "chain" \/ shape = "fan"
      /\ at \in [Fl!Procs -> {"none", "loop", "print", "exit", "wait", "ended"}]
      /\ i \in [Fl!Procs -> 0..MaxIter]
      /\ buf \in [Fl!Procs -> SUBSET Fl!Lines] /\ out \in [Fl!Lines -> Nat]
      /\ shape = "chain" => ChainInv
      /\ shape = "fan" => FanInv
      /\ Fl!Procs = 0..MaxIter /\ 0 \in Fl!Procs
  BY LinesBasics, Zenon
<1>1. PICK k \in 0..MaxIter : k = i[p]
  BY <1>b
<1>2. PICK m \in Fl!Procs :
        /\ Made(m)
        /\ \A q \in Fl!Procs : at[q] = "none" => i[q] = 0
        /\ shape = "chain" => ChainCounters(m)
        /\ shape = "fan"   => FanCounters(m)
  BY DEF LInv, Counters
<1>3. k \in Nat /\ p \in Nat /\ m \in Nat /\ p <= m /\ m <= MaxIter /\ at[p] = "print"
  BY <1>1, <1>2, <1>b DEF Fl!PrintLine, Made
<1>4. \/ /\ p = Fl!GoesOn(k) /\ at'[p] = "loop" /\ i'[p] = k + 1
         /\ shape = "fan" => p = 0
         /\ shape = "chain" => k + 1 = p
      \/ /\ at'[p] = (IF shape = "chain" THEN "wait" ELSE "exit") /\ i'[p] = k
         /\ shape = "fan" => p # 0
         /\ shape = "chain" => k = p /\ p < m
  <2>1. CASE shape = "chain"
    <3>1. k = p \/ k + 1 = p
      BY <1>1, <1>2, <1>3, <2>1 DEF ChainCounters
    <3>2. CASE k + 1 = p
      BY <1>1, <1>b, <2>1, <3>2 DEF Fl!PrintLine, Fl!Newborn, Fl!GoesOn
    <3>3. CASE k = p
      <4>1. k + 1 # p /\ p < m
        <5>1. p < m
          BY <1>1, <1>2, <1>3, <2>1, <3>3 DEF ChainCounters
        <5> QED
          BY <1>3, <3>3, <5>1
      <4> QED
        BY <1>1, <1>b, <2>1, <3>3, <4>1 DEF Fl!PrintLine, Fl!Newborn
    <3> QED
      BY <3>1, <3>2, <3>3
  <2>2. CASE shape = "fan"
    <3>1. p # 0 => k + 1 = p
      BY <1>1, <1>2, <1>3, <2>2 DEF FanCounters
    <3>2. CASE p = 0
      <4>1. k + 1 # p
        BY <1>3, <3>2
      <4> QED
        BY <1>1, <1>b, <2>2, <3>2, <4>1 DEF Fl!PrintLine, Fl!Newborn, Fl!GoesOn
    <3>3. CASE p # 0
      BY <1>1, <1>b, <2>2, <3>1, <3>3 DEF Fl!PrintLine, Fl!Newborn
    <3> QED
      BY <3>2, <3>3
  <2> QED
    BY <1>b, <2>1, <2>2
<1>5. at'[p] \in {"loop", "wait", "exit"} /\ \A q \in Fl!Procs : q # p => at'[q] = at[q] /\ i'[q] = i[q]
  BY <1>4, <1>b DEF Fl!PrintLine
<1>6. /\ tty => buf' = buf /\ out' = [out EXCEPT ![<<p, k>>] = @ + 1]
      /\ ~tty => out' = out /\ buf' = [buf EXCEPT ![p] = @ \cup {<<p, k>>}]
      /\ <<p, k>> \in Fl!Lines
  BY <1>1, <1>b DEF Fl!PrintLine, Fl!Lines
<1>7. Counters'
  <2>1. Made(m)'
    BY <1>2, <1>3, <1>5 DEF Made, Fl!Procs
  <2>2. \A q \in Fl!Procs : at'[q] = "none" => i'[q] = 0
    BY <1>2, <1>5
  <2>3. ASSUME shape = "chain" PROVE ChainCounters(m)'
    <3>1. ASSUME NEW q \in Fl!Procs
          PROVE  /\ at'[q] # "none" => i'[q] = q \/ (at'[q] = "print" /\ i'[q] + 1 = q)
                 /\ at'[q] = "wait" \/ (at'[q] = "print" /\ i'[q] = q) => q < m
      <4>1. CASE q = p
        BY <1>3, <1>4, <2>3, <4>1
      <4>2. CASE q # p
        BY <1>2, <1>5, <2>3, <4>2 DEF ChainCounters
      <4> QED
        BY <4>1, <4>2
    <3> QED
      BY <3>1 DEF ChainCounters, Fl!Procs
  <2>4. ASSUME shape = "fan" PROVE FanCounters(m)'
    <3>0. m = i[0] + IF at[0] = "print" THEN 1 ELSE 0
      BY <1>2, <2>4 DEF FanCounters
    <3>1. m = i'[0] + IF at'[0] = "print" THEN 1 ELSE 0
      <4>1. CASE p = 0
        BY <1>1, <1>3, <1>4, <1>5, <2>4, <3>0, <4>1
      <4>2. CASE p # 0
        BY <1>5, <1>b, <3>0, <4>2
      <4> QED
        BY <4>1, <4>2
    <3>2. ASSUME NEW q \in Fl!Procs, q # 0, at'[q] # "none" PROVE i'[q] + 1 = q
      <4>1. CASE q = p
        BY <1>1, <1>2, <1>3, <1>4, <2>4, <3>2, <4>1 DEF FanCounters
      <4>2. CASE q # p
        BY <1>2, <1>5, <2>4, <3>2, <4>2 DEF FanCounters
      <4> QED
        BY <4>1, <4>2
    <3> QED
      BY <3>1, <3>2 DEF FanCounters, Fl!Procs
  <2> QED
    BY <1>2, <2>1, <2>2, <2>3, <2>4 DEF Counters, Fl!Procs
<1>8. ~Own(p) /\ \A q \in Fl!Procs : q # p => (Own(q)' <=> Own(q))
  <2>1. ~Own(p)
    BY <1>3 DEF Own
  <2>2. ASSUME NEW q \in Fl!Procs, q # p PROVE Own(q)' <=> Own(q)
    <3>1. q + 1 \in Fl!Procs => (at'[q + 1] # "none" <=> at[q + 1] # "none")
      BY <1>3, <1>5
    <3> QED
      BY <1>5, <2>2, <3>1 DEF Own, Fl!Procs
  <2> QED
    BY <2>1, <2>2
<1>9. ASSUME NEW q \in Fl!Procs, q # p PROVE Holds(q)' = Holds(q)
  BY <1>5, <1>8, <1>9 DEF Holds, Fl!Lines, Fl!Procs, Fl!GoesOn
<1>10. <<p, k>> \notin Holds(p) /\ Holds(p)' = Holds(p) \cup {<<p, k>>}
  <2>1. ASSUME NEW l \in Fl!Lines
        PROVE  l \in Holds(p) <=> l[1] = Fl!GoesOn(l[2]) /\ l[2] < k
    BY <1>1, <1>8 DEF Holds
  <2>2. \A l \in Fl!Lines : l = <<l[1], l[2]>> /\ l[2] \in Nat
    BY <1>b DEF Fl!Lines
  <2>3. ASSUME NEW l \in Fl!Lines
        PROVE  l \in Holds(p)' <=> l \in Holds(p) \/ l = <<p, k>>
    <3>1. l \in Holds(p)' <=> \/ l[1] = Fl!GoesOn(l[2]) /\ l[2] < i'[p]
                              \/ Own(p)' /\ l = <<p, i'[p]>>
      BY DEF Holds, Fl!Lines, Fl!Procs, Fl!GoesOn
    <3>2. CASE p = Fl!GoesOn(k) /\ at'[p] = "loop" /\ i'[p] = k + 1
      <4>1. ~Own(p)'
        <5>1. shape = "fan" => p = 0
          BY <1>4, <3>2
        <5> QED
          BY <3>2, <5>1 DEF Own
      <4>2. l[2] < k + 1 <=> l[2] < k \/ l[2] = k
        BY <1>3, <2>2
      <4>3. l = <<p, k>> <=> l[1] = p /\ l[2] = k
        BY <2>2
      <4> QED
        BY <2>1, <3>1, <3>2, <4>1, <4>2, <4>3
    <3>3. CASE /\ at'[p] = (IF shape = "chain" THEN "wait" ELSE "exit") /\ i'[p] = k
               /\ shape = "fan" => p # 0
               /\ shape = "chain" => k = p /\ p < m
      <4>1. Own(p)'
        <5>1. CASE shape = "chain"
          <6>1. p + 1 \in Fl!Procs /\ p + 1 <= m /\ p + 1 # p
            BY <1>3, <1>b, <3>3, <5>1
          <6>2. at'[p + 1] # "none"
            BY <1>2, <1>5, <6>1 DEF Made
          <6> QED
            BY <3>3, <5>1, <6>1, <6>2 DEF Own, Fl!Procs
        <5>2. CASE shape = "fan"
          BY <3>3, <5>2 DEF Own
        <5> QED
          BY <1>b, <5>1, <5>2
      <4> QED
        BY <2>1, <3>1, <3>3, <4>1
    <3> QED
      BY <1>4, <3>2, <3>3
  <2>4. Holds(p) \subseteq Fl!Lines /\ Holds(p)' \subseteq Fl!Lines
    BY DEF Holds, Fl!Lines, Fl!Procs
  <2>5. <<p, k>> \notin Holds(p)
    BY <1>3, <1>6, <2>1
  <2> QED
    BY <1>6, <2>3, <2>4, <2>5
<1>11. Buffers'
  <2>1. ASSUME NEW q \in Fl!Procs
        PROVE  buf'[q] = IF tty \/ at'[q] \in {"none", "ended"} THEN {} ELSE Holds(q)'
    <3>1. \A x \in Fl!Procs : buf[x] = IF tty \/ at[x] \in {"none", "ended"} THEN {} ELSE Holds(x)
      BY DEF LInv, Buffers
    <3>2. CASE q = p
      <4>1. buf[p] = IF tty THEN {} ELSE Holds(p)
        BY <1>3, <3>1
      <4>2. buf'[p] = IF tty THEN {} ELSE Holds(p) \cup {<<p, k>>}
        BY <1>6, <1>b, <4>1
      <4> QED
        BY <1>5, <1>10, <3>2, <4>2
    <3>3. CASE q # p
      <4>1. buf'[q] = buf[q]
        BY <1>6, <1>b, <3>3
      <4> QED
        BY <1>5, <1>9, <3>1, <3>3, <4>1
    <3> QED
      BY <3>2, <3>3
  <2> QED
    BY <2>1 DEF Buffers, Fl!Procs
<1>12. Shown'
  <2>0. \A l \in Fl!Lines :
          out[l] = IF tty THEN (IF l \in Holds(l[1]) THEN 1 ELSE 0)
                   ELSE Cardinality({q \in Fl!Procs : at[q] = "ended" /\ l \in Holds(q)})
    BY DEF LInv, Shown
  <2>1. ASSUME NEW l \in Fl!Lines, tty PROVE out'[l] = IF l \in Holds(l[1])' THEN 1 ELSE 0
    <3>1. l[1] \in Fl!Procs
      BY DEF Fl!Lines
    <3>2. CASE l = <<p, k>>
      <4>1. l[1] = p /\ out[l] = 0
        BY <1>10, <2>0, <2>1, <3>2
      <4>2. out'[l] = 1
        BY <1>6, <1>b, <2>1, <3>2, <4>1
      <4> QED
        BY <1>10, <3>2, <4>1, <4>2
    <3>3. CASE l # <<p, k>>
      <4>1. out'[l] = out[l]
        BY <1>6, <1>b, <2>1, <3>3
      <4>2. l \in Holds(l[1])' <=> l \in Holds(l[1])
        BY <1>9, <1>10, <3>1, <3>3
      <4> QED
        BY <2>0, <2>1, <4>1, <4>2
    <3> QED
      BY <3>2, <3>3
  <2>2. ASSUME NEW l \in Fl!Lines, ~tty
        PROVE  out'[l] = Cardinality({q \in Fl!Procs : at'[q] = "ended" /\ l \in Holds(q)'})
    <3>1. ASSUME NEW q \in Fl!Procs
          PROVE  at'[q] = "ended" /\ l \in Holds(q)' <=> at[q] = "ended" /\ l \in Holds(q)
      BY <1>3, <1>5, <1>9
    <3>2. {q \in Fl!Procs : at'[q] = "ended" /\ l \in Holds(q)'}
            = {q \in Fl!Procs : at[q] = "ended" /\ l \in Holds(q)}
      BY <3>1
    <3> QED
      BY <1>6, <2>0, <2>2, <3>2
  <2> QED
    BY <2>1, <2>2 DEF Shown, Fl!Lines, Fl!Procs
<1> QED
  BY <1>7, <1>11, <1>12


\* Who ends has printed all its lines, or none after those it took along.
LEMMA EndsWithOwn ==
  ASSUME LInv, NEW p \in Fl!Procs, at[p] \in {"loop", "exit", "wait"},
         UNCHANGED shape, at' = [at EXCEPT ![p] = "ended"]
  PROVE  \A q \in Fl!Procs : Own(q)' <=> Own(q)
<1>b. /\ MaxIter \in Nat /\ Fl!Procs = 0..MaxIter
      /\ shape = "chain" \/ shape = "fan"
      /\ at \in [Fl!Procs -> {"none", "loop", "print", "exit", "wait", "ended"}]
      /\ i \in [Fl!Procs -> 0..MaxIter]
      /\ shape = "chain" => ChainInv
      /\ shape = "fan" => FanInv
  BY LinesBasics, Zenon
<1>1. at'[p] = "ended" /\ \A q \in Fl!Procs : q # p => at'[q] = at[q]
  BY <1>b
<1>2. ASSUME NEW q \in Fl!Procs, q + 1 \in Fl!Procs PROVE at'[q + 1] # "none" <=> at[q + 1] # "none"
  BY <1>1
<1>3. CASE shape = "chain"
  <2>1. at[p] # "exit"
    BY <1>3, <1>b DEF ChainInv
  <2>2. ASSUME at[p] = "loop", p + 1 \in Fl!Procs PROVE at[p + 1] = "none"
    <3>1. NoneAbove(p) /\ p + 1 > p
      BY <1>3, <1>b, <2>2 DEF ChainInv
    <3> QED
      BY <2>2, <3>1 DEF NoneAbove
  <2> QED
    BY <1>1, <1>2, <1>3, <2>1, <2>2 DEF Own, Fl!Procs
<1>4. CASE shape = "fan"
  <2>1. at[p] = "exit" => p # 0
    BY <1>4, <1>b DEF FanInv
  <2>2. at[p] # "exit" => p = 0
    BY <1>4, <1>b DEF FanInv
  <2> QED
    BY <1>1, <1>4, <2>1, <2>2 DEF Own
<1> QED
  BY <1>3, <1>4, <1>b

\* An end: what was in the buffer comes out.
LEMMA EndKeepsAll ==
  ASSUME LInv, NEW p \in Fl!Procs, at[p] \in {"loop", "exit", "wait"},
         UNCHANGED <<shape, iterations, tty, i>>, Fl!End(p)
  PROVE  Counters' /\ Buffers' /\ Shown'
<1>b. /\ MaxIter \in Nat /\ Fl!Procs = 0..MaxIter /\ 0 \in Fl!Procs
      /\ tty \in BOOLEAN
      /\ shape = "chain" \/ shape = "fan"
      /\ at \in [Fl!Procs -> {"none", "loop", "print", "exit", "wait", "ended"}]
      /\ i \in [Fl!Procs -> 0..MaxIter]
      /\ buf \in [Fl!Procs -> SUBSET Fl!Lines] /\ out \in [Fl!Lines -> Nat]
  BY LinesBasics, Zenon
<1>1. /\ at' = [at EXCEPT ![p] = "ended"] /\ buf' = [buf EXCEPT ![p] = {}]
      /\ out' = [l \in Fl!Lines |-> out[l] + IF l \in buf[p] THEN 1 ELSE 0]
  BY DEF Fl!End
<1>2. /\ at'[p] = "ended" /\ \A q \in Fl!Procs : q # p => at'[q] = at[q]
      /\ buf'[p] = {} /\ \A q \in Fl!Procs : q # p => buf'[q] = buf[q]
  BY <1>1, <1>b
<1>3. \A q \in Fl!Procs : Own(q)' <=> Own(q)
  BY <1>1, EndsWithOwn
<1>4. ASSUME NEW q \in Fl!Procs PROVE Holds(q)' = Holds(q)
  BY <1>3 DEF Holds, Fl!Lines, Fl!Procs, Fl!GoesOn
<1>5. Counters'
  <2>1. PICK m \in Fl!Procs :
          /\ Made(m)
          /\ \A q \in Fl!Procs : at[q] = "none" => i[q] = 0
          /\ shape = "chain" => ChainCounters(m)
          /\ shape = "fan"   => FanCounters(m)
    BY DEF LInv, Counters
  <2>2. Made(m)' /\ \A q \in Fl!Procs : at'[q] = "none" => i'[q] = 0
    BY <1>2, <2>1 DEF Made, Fl!Procs
  <2>3. ASSUME shape = "chain" PROVE ChainCounters(m)'
    BY <1>2, <2>1, <2>3 DEF ChainCounters, Fl!Procs
  <2>4. ASSUME shape = "fan" PROVE FanCounters(m)'
    <3>1. at'[0] = "print" <=> at[0] = "print"
      BY <1>2, <1>b
    <3>2. \A q \in Fl!Procs : at'[q] # "none" => at[q] # "none"
      BY <1>2
    <3> QED
      BY <2>1, <2>4, <3>1, <3>2 DEF FanCounters, Fl!Procs
  <2> QED
    BY <2>1, <2>2, <2>3, <2>4 DEF Counters, Fl!Procs
<1>6. \A x \in Fl!Procs : buf[x] = IF tty \/ at[x] \in {"none", "ended"} THEN {} ELSE Holds(x)
  BY DEF LInv, Buffers
<1>7. Buffers'
  <2>1. ASSUME NEW q \in Fl!Procs
        PROVE  buf'[q] = IF tty \/ at'[q] \in {"none", "ended"} THEN {} ELSE Holds(q)'
    BY <1>2, <1>4, <1>6
  <2> QED
    BY <2>1 DEF Buffers, Fl!Procs
<1>8. Shown'
  <2>0. \A l \in Fl!Lines :
          out[l] = IF tty THEN (IF l \in Holds(l[1]) THEN 1 ELSE 0)
                   ELSE Cardinality({q \in Fl!Procs : at[q] = "ended" /\ l \in Holds(q)})
    BY DEF LInv, Shown
  <2>1. ASSUME NEW l \in Fl!Lines, tty PROVE out'[l] = IF l \in Holds(l[1])' THEN 1 ELSE 0
    <3>1. l[1] \in Fl!Procs
      BY DEF Fl!Lines
    <3>2. buf[p] = {}
      BY <1>6, <2>1
    <3>3. out'[l] = out[l]
      BY <1>1, <1>b, <3>2
    <3> QED
      BY <1>4, <2>0, <2>1, <3>1, <3>3
  <2>2. ASSUME NEW l \in Fl!Lines, ~tty
        PROVE  out'[l] = Cardinality({q \in Fl!Procs : at'[q] = "ended" /\ l \in Holds(q)'})
    <3> DEFINE S == {q \in Fl!Procs : at[q] = "ended" /\ l \in Holds(q)}
               T == {q \in Fl!Procs : at'[q] = "ended" /\ l \in Holds(q)'}
    <3>1. buf[p] = Holds(p)
      BY <1>6, <2>2
    <3>2. IsFiniteSet(S) /\ p \notin S
      <4>1. IsFiniteSet(Fl!Procs) /\ S \subseteq Fl!Procs
        BY <1>b, FS_Interval
      <4> QED
        BY <4>1, FS_Subset
    <3>3. T = IF l \in Holds(p) THEN S \cup {p} ELSE S
      <4>1. ASSUME NEW q \in Fl!Procs
            PROVE  q \in T <=> q \in S \/ (q = p /\ l \in Holds(p))
        BY <1>2, <1>4
      <4> QED
        BY <4>1
    <3>4. out[l] = Cardinality(S) /\ out'[l] = Cardinality(S) + IF l \in Holds(p) THEN 1 ELSE 0
      BY <1>1, <2>0, <2>2, <3>1
    <3> HIDE DEF S, T
    <3>5. out[l] \in Nat
      BY <1>b
    <3>6. Cardinality(S \cup {p}) = Cardinality(S) + 1
      BY <3>2, FS_AddElement
    <3>7. out'[l] = Cardinality(T)
      BY <3>3, <3>4, <3>5, <3>6
    <3> QED
      BY <3>7 DEF T
  <2> QED
    BY <2>1, <2>2 DEF Shown, Fl!Lines, Fl!Procs
<1> QED
  BY <1>5, <1>7, <1>8

\* The fan's parent goes on to its waits, or to the next one.
LEMMA WaitsKeepLines ==
  ASSUME LInv, UNCHANGED <<shape, iterations, tty, i, buf, out>>,
         \/ at' = at
         \/ shape = "fan" /\ at[0] = "loop" /\ at' = [at EXCEPT ![0] = "wait"]
  PROVE  Counters' /\ Buffers' /\ Shown'
<1>b. /\ Fl!Procs = 0..MaxIter /\ 0 \in Fl!Procs
      /\ at \in [Fl!Procs -> {"none", "loop", "print", "exit", "wait", "ended"}]
  BY LinesBasics, Zenon
<1>1. CASE at' = at
  BY <1>1 DEF LInv, Counters, Made, ChainCounters, FanCounters, Buffers, Shown, Holds, Own,
              Fl!Lines, Fl!Procs, Fl!GoesOn
<1>2. CASE shape = "fan" /\ at[0] = "loop" /\ at' = [at EXCEPT ![0] = "wait"]
  <2>1. at'[0] = "wait" /\ \A q \in Fl!Procs : q # 0 => at'[q] = at[q]
    BY <1>2, <1>b
  <2>2. ASSUME NEW q \in Fl!Procs PROVE Holds(q)' = Holds(q)
    <3>1. Own(q)' <=> Own(q)
      BY <1>2, <2>1 DEF Own
    <3> QED
      BY <3>1 DEF Holds, Fl!Lines, Fl!Procs, Fl!GoesOn
  <2>3. Counters'
    <3>1. PICK m \in Fl!Procs :
            Made(m) /\ FanCounters(m) /\ \A q \in Fl!Procs : at[q] = "none" => i[q] = 0
      BY <1>2 DEF LInv, Counters
    <3>2. Made(m)' /\ FanCounters(m)' /\ \A q \in Fl!Procs : at'[q] = "none" => i'[q] = 0
      BY <1>2, <2>1, <3>1 DEF Made, FanCounters, Fl!Procs
    <3> QED
      BY <1>2, <3>2 DEF Counters, Fl!Procs
  <2>4. Buffers'
    <3>1. \A x \in Fl!Procs : buf[x] = IF tty \/ at[x] \in {"none", "ended"} THEN {} ELSE Holds(x)
      BY DEF LInv, Buffers
    <3>2. \A x \in Fl!Procs : at'[x] \in {"none", "ended"} <=> at[x] \in {"none", "ended"}
      BY <1>2, <2>1
    <3> QED
      BY <2>2, <3>1, <3>2 DEF Buffers, Fl!Procs
  <2>5. Shown'
    <3>1. ASSUME NEW l \in Fl!Lines
          PROVE  /\ l[1] \in Fl!Procs
                 /\ {q \in Fl!Procs : at'[q] = "ended" /\ l \in Holds(q)'}
                      = {q \in Fl!Procs : at[q] = "ended" /\ l \in Holds(q)}
      <4>1. \A q \in Fl!Procs : at'[q] = "ended" /\ l \in Holds(q)' <=> at[q] = "ended" /\ l \in Holds(q)
        BY <1>2, <2>1, <2>2
      <4> QED
        BY <4>1 DEF Fl!Lines
    <3> QED
      BY <2>2, <3>1 DEF LInv, Shown, Fl!Lines, Fl!Procs
  <2> QED
    BY <2>3, <2>4, <2>5
<1> QED
  BY <1>1, <1>2

\* Every step of the fork loops keeps the lines.
LEMMA LInvStep == LInv /\ [Fl!Next]_(Fl!vars) => LInv'
<1> SUFFICES ASSUME LInv, [Fl!Next]_(Fl!vars) PROVE LInv'
  OBVIOUS
<1>1. FInv' /\ Fl!TypeOK'
  BY FInvStep, FlTypesStep, BoundsAssumption DEF LInv
<1>2. CASE UNCHANGED Fl!vars
  <2>1. UNCHANGED <<shape, iterations, tty, i, buf, out>> /\ at' = at
    BY <1>2 DEF Fl!vars
  <2> QED
    BY <1>1, <2>1, WaitsKeepLines DEF LInv
<1>3. ASSUME NEW p \in Fl!Procs, Fl!Step(p) PROVE Counters' /\ Buffers' /\ Shown'
  <2>0. UNCHANGED <<shape, iterations, tty>>
    BY <1>3 DEF Fl!Step
  <2>1. CASE Fl!Fork(p)
    BY <2>0, <2>1, ForkKeepsLines
  <2>2. CASE Fl!PrintLine(p)
    BY <1>1, <2>0, <2>2, PrintKeepsLines
  <2>3. CASE Fl!ForkFails(p) \/ Fl!ChildExits(p)
    <3>1. at[p] \in {"loop", "exit"} /\ Fl!End(p) /\ UNCHANGED i
      BY <2>3 DEF Fl!ForkFails, Fl!ChildExits
    <3> QED
      BY <2>0, <3>1, EndKeepsAll
  <2>4. CASE Fl!LoopEnds(p)
    <3>1. at[p] = "loop" /\ UNCHANGED i
      BY <2>4 DEF Fl!LoopEnds
    <3>2. CASE Fl!End(p)
      BY <2>0, <3>1, <3>2, EndKeepsAll
    <3>3. CASE shape = "fan" /\ at' = [at EXCEPT ![p] = "wait"] /\ UNCHANGED <<buf, out>>
      <4>1. p = 0
        BY <3>1, <3>3, LinesBasics DEF FanInv
      <4> QED
        BY <2>0, <3>1, <3>3, <4>1, WaitsKeepLines
    <3> QED
      BY <2>4, <3>2, <3>3 DEF Fl!LoopEnds
  <2>5. CASE Fl!Wait(p)
    <3>1. at[p] = "wait" /\ UNCHANGED i
      BY <2>5 DEF Fl!Wait
    <3>2. CASE Fl!End(p)
      BY <2>0, <3>1, <3>2, EndKeepsAll
    <3>3. CASE UNCHANGED <<at, buf, out>>
      BY <2>0, <3>1, <3>3, WaitsKeepLines
    <3> QED
      BY <2>5, <3>2, <3>3 DEF Fl!Wait
  <2> QED
    BY <1>3, <2>1, <2>2, <2>3, <2>4, <2>5 DEF Fl!Step
<1> QED
  BY <1>1, <1>2, <1>3 DEF LInv, Fl!Next


\* When all have ended, of the processes up to m, each line is there as often
\* as it should.
LEMMA LInvLines == LInv => Fl!LinesOut
<1> SUFFICES ASSUME LInv, Fl!AllEnded PROVE Fl!LinesOut
  BY DEF Fl!LinesOut
<1>b. /\ MaxIter \in Nat /\ Fl!Procs = 0..MaxIter /\ 0 \in Fl!Procs
      /\ tty \in BOOLEAN
      /\ shape = "chain" \/ shape = "fan"
      /\ i \in [Fl!Procs -> 0..MaxIter]
  BY LinesBasics, Zenon
<1>1. PICK m \in Fl!Procs :
        /\ Made(m)
        /\ \A q \in Fl!Procs : at[q] = "none" => i[q] = 0
        /\ shape = "chain" => ChainCounters(m)
        /\ shape = "fan"   => FanCounters(m)
  BY DEF LInv, Counters
<1>2. m \in Nat /\ m <= MaxIter
  BY <1>b
<1>3. \A q \in Fl!Procs : (at[q] = "ended" <=> q <= m) /\ (at[q] = "none" <=> ~(q <= m))
  BY <1>1 DEF Made, Fl!AllEnded
<1>4. Fl!Cardinality({q \in Fl!Procs \ {0} : at[q] # "none"}) = m
  <2>1. {q \in Fl!Procs \ {0} : at[q] # "none"} = 1..m
    <3>1. ASSUME NEW q \in Fl!Procs PROVE q \in Nat /\ (q # 0 /\ at[q] # "none" <=> q \in 1..m)
      <4>1. q \in Nat
        BY <1>b
      <4>2. at[q] # "none" <=> q <= m
        BY <1>3
      <4> QED
        BY <1>2, <4>1, <4>2
    <3>2. \A q \in 1..m : q \in Fl!Procs
      BY <1>2, <1>b
    <3> QED
      BY <3>1, <3>2
  <2>2. Cardinality(1..m) = m
    BY <1>2, FS_Interval
  <2> QED
    BY <2>1, <2>2, SameCardinality
<1>5. ASSUME NEW q \in Fl!Procs
      PROVE  /\ q > m => i[q] = 0 /\ ~Own(q)
             /\ shape = "chain" /\ q <= m => i[q] = q /\ (Own(q) <=> q < m)
             /\ shape = "fan" /\ q # 0 /\ q <= m => i[q] + 1 = q /\ Own(q)
  <2>1. ASSUME q > m PROVE i[q] = 0 /\ ~Own(q)
    <3>1. at[q] = "none"
      BY <1>2, <1>3, <1>b, <2>1
    <3> QED
      BY <1>1, <3>1 DEF Own
  <2>2. ASSUME shape = "chain", q <= m PROVE i[q] = q /\ (Own(q) <=> q < m)
    <3>1. at[q] = "ended"
      BY <1>3, <2>2
    <3>2. q + 1 \in Fl!Procs /\ at[q + 1] # "none" <=> q < m
      <4>1. q + 1 \in Fl!Procs <=> q < MaxIter
        BY <1>b
      <4>2. q + 1 <= m <=> q < m
        BY <1>2, <1>b
      <4>3. q < m => q < MaxIter
        BY <1>2, <1>b
      <4> QED
        BY <1>3, <4>1, <4>2, <4>3
    <3> QED
      BY <1>1, <2>2, <3>1, <3>2 DEF ChainCounters, Own
  <2>3. ASSUME shape = "fan", q # 0, q <= m PROVE i[q] + 1 = q /\ Own(q)
    BY <1>1, <1>3, <2>3 DEF FanCounters, Own
  <2> QED
    BY <2>1, <2>2, <2>3
<1>6. shape = "fan" => i[0] = m /\ ~Own(0)
  <2>1. at[0] = "ended" /\ i[0] \in Nat
    BY <1>2, <1>3, <1>b
  <2> QED
    BY <1>1, <2>1 DEF FanCounters, Own
<1>7. ASSUME NEW l \in Fl!Lines, l[2] >= m, NEW q \in Fl!Procs PROVE l \notin Holds(q)
  <2>1. l[2] \in Nat /\ l = <<l[1], l[2]>> /\ q \in Nat /\ i[q] \in Nat
    <3>1. l[2] \in Nat /\ l = <<l[1], l[2]>>
      BY <1>b DEF Fl!Lines
    <3>2. q \in Nat
      BY <1>b
    <3>3. i[q] \in Nat
      BY <1>b
    <3> QED
      BY <3>1, <3>2, <3>3
  <2>2. i[q] <= m /\ (Own(q) => i[q] < m)
    <3>1. CASE q > m
      BY <1>2, <1>5, <3>1
    <3>2. CASE q <= m /\ shape = "chain"
      BY <1>5, <3>2
    <3>3. CASE q <= m /\ shape = "fan" /\ q # 0
      BY <1>2, <1>5, <2>1, <3>3
    <3>4. CASE shape = "fan" /\ q = 0
      BY <1>2, <1>6, <3>4
    <3> QED
      BY <1>2, <1>b, <2>1, <3>1, <3>2, <3>3, <3>4
  <2>3. ~(l[2] < i[q])
    BY <1>2, <1>7, <2>1, <2>2
  <2>4. ~(Own(q) /\ l = <<q, i[q]>>)
    BY <1>2, <1>7, <2>1, <2>2
  <2> QED
    BY <2>3, <2>4 DEF Holds
<1>8. ASSUME NEW l \in Fl!Lines, l[2] < m, NEW q \in Fl!Procs
      PROVE  l \in Holds(q) <=>
               \/ l[1] = Fl!GoesOn(l[2]) /\ (IF shape = "chain" THEN l[2] < q /\ q <= m
                                             ELSE q = 0 \/ (l[2] + 1 < q /\ q <= m))
               \/ l[1] = Fl!StopsIn(l[2]) /\ q = Fl!StopsIn(l[2])
  <2>1. l[2] \in Nat /\ l = <<l[1], l[2]>> /\ q \in Nat /\ i[q] \in Nat
    <3>1. l[2] \in Nat /\ l = <<l[1], l[2]>>
      BY <1>b DEF Fl!Lines
    <3>2. q \in Nat
      BY <1>b
    <3>3. i[q] \in Nat
      BY <1>b
    <3> QED
      BY <3>1, <3>2, <3>3
  <2>2. l \in Holds(q) <=> \/ l[1] = Fl!GoesOn(l[2]) /\ l[2] < i[q]
                           \/ Own(q) /\ l[1] = q /\ l[2] = i[q]
    BY <2>1 DEF Holds
  <2>3. CASE shape = "chain"
    <3>1. l[2] < i[q] <=> l[2] < q /\ q <= m
      BY <1>2, <1>5, <2>1, <2>3
    <3>2. Own(q) /\ l[2] = i[q] <=> l[2] = q
      BY <1>2, <1>5, <1>8, <2>1, <2>3
    <3> QED
      BY <2>2, <2>3, <3>1, <3>2 DEF Fl!StopsIn
  <2>4. CASE shape = "fan"
    <3>1. l[2] < i[q] <=> q = 0 \/ (l[2] + 1 < q /\ q <= m)
      <4>1. CASE q = 0
        BY <1>6, <1>8, <2>4, <4>1
      <4>2. CASE q # 0
        BY <1>2, <1>5, <2>1, <2>4, <4>2
      <4> QED
        BY <4>1, <4>2
    <3>2. Own(q) /\ l[2] = i[q] <=> q = l[2] + 1
      <4>1. CASE q = 0
        BY <1>6, <2>1, <2>4, <4>1
      <4>2. CASE q # 0
        BY <1>2, <1>5, <1>8, <2>1, <2>4, <4>2
      <4> QED
        BY <4>1, <4>2
    <3> QED
      BY <2>2, <2>4, <3>1, <3>2 DEF Fl!StopsIn
  <2> QED
    BY <1>b, <2>3, <2>4
<1>9. ASSUME NEW l \in Fl!Lines
      PROVE  out[l] = IF l[2] >= m THEN 0
                      ELSE IF l[1] = Fl!GoesOn(l[2]) THEN (IF tty THEN 1 ELSE m - l[2])
                      ELSE IF l[1] = Fl!StopsIn(l[2]) THEN 1 ELSE 0
  <2> DEFINE S == {q \in Fl!Procs : at[q] = "ended" /\ l \in Holds(q)}
             k == l[2]
  <2>1. /\ out[l] = IF tty THEN (IF l \in Holds(l[1]) THEN 1 ELSE 0) ELSE Cardinality(S)
        /\ l[1] \in Fl!Procs /\ k \in Nat
    <3>1. out[l] = IF tty THEN (IF l \in Holds(l[1]) THEN 1 ELSE 0) ELSE Cardinality(S)
      BY DEF LInv, Shown
    <3>2. l[1] \in Fl!Procs
      BY DEF Fl!Lines
    <3>3. k \in Nat
      BY <1>b DEF Fl!Lines
    <3> QED
      BY <3>1, <3>2, <3>3
  <2>2. S = {q \in Fl!Procs : q <= m /\ l \in Holds(q)}
    BY <1>3
  <2>3. CASE k >= m
    <3>1. S = {} /\ l \notin Holds(l[1])
      BY <1>7, <2>1, <2>3
    <3> HIDE DEF S
    <3> QED
      BY <2>1, <2>3, <3>1, FS_EmptySet
  <2>4. CASE k < m /\ l[1] = Fl!GoesOn(k)
    <3>1. l[1] # Fl!StopsIn(k)
      BY <2>1, <2>4 DEF Fl!GoesOn, Fl!StopsIn
    <3>2. l \in Holds(l[1])
      <4>1. IF shape = "chain" THEN k < l[1] /\ l[1] <= m ELSE l[1] = 0
        BY <1>2, <2>1, <2>4 DEF Fl!GoesOn
      <4> QED
        BY <1>8, <2>1, <2>4, <4>1
    <3>3. Cardinality(S) = m - k
      <4>1. CASE shape = "chain"
        <5>1. S = (k + 1)..m
          <6>1. \A q \in Fl!Procs : l \in Holds(q) <=> k < q /\ q <= m
            BY <1>8, <2>4, <3>1, <4>1
          <6>2. ASSUME NEW q \in Fl!Procs PROVE q \in S <=> q \in (k + 1)..m
            <7>1. q \in Nat
              BY <1>b
            <7>2. q \in S <=> k < q /\ q <= m
              BY <2>2, <6>1
            <7> QED
              BY <1>2, <2>1, <7>1, <7>2
          <6>3. \A q \in (k + 1)..m : q \in Fl!Procs
            BY <1>2, <1>b, <2>1
          <6> QED
            BY <6>2, <6>3
        <5> HIDE DEF S
        <5>2. Cardinality((k + 1)..m) = m - (k + 1) + 1
          BY <1>2, <2>1, <2>4, FS_Interval, SMTT(30)
        <5> QED
          BY <1>2, <2>1, <5>1, <5>2
      <4>2. CASE shape = "fan"
        <5>1. S = ((k + 2)..m) \cup {0}
          <6>1. \A q \in Fl!Procs : l \in Holds(q) <=> q = 0 \/ (k + 1 < q /\ q <= m)
            BY <1>8, <2>4, <3>1, <4>2
          <6>2. ASSUME NEW q \in Fl!Procs PROVE q \in S <=> q \in ((k + 2)..m) \cup {0}
            <7>1. q \in Nat
              BY <1>b
            <7>2. q \in S <=> q = 0 \/ (k + 1 < q /\ q <= m)
              BY <1>2, <2>2, <6>1, <7>1
            <7> QED
              BY <1>2, <2>1, <7>1, <7>2
          <6>3. \A q \in ((k + 2)..m) \cup {0} : q \in Fl!Procs
            BY <1>2, <1>b, <2>1
          <6> QED
            BY <6>2, <6>3
        <5> HIDE DEF S
        <5>2. /\ IsFiniteSet((k + 2)..m) /\ 0 \notin (k + 2)..m
              /\ Cardinality((k + 2)..m) = m - (k + 1)
          <6>1. k + 2 \in Int /\ m \in Int
            BY <1>2, <2>1
          <6>2. /\ IsFiniteSet((k + 2)..m)
                /\ Cardinality((k + 2)..m) = IF k + 2 > m THEN 0 ELSE m - (k + 2) + 1
            BY <6>1, FS_Interval
          <6> QED
            BY <1>2, <2>1, <2>4, <6>2
        <5>3. Cardinality(S) = m - (k + 1) + 1
          BY <5>1, <5>2, FS_AddElement
        <5> QED
          BY <1>2, <2>1, <5>3
      <4> QED
        BY <1>b, <4>1, <4>2
    <3> HIDE DEF S
    <3> QED
      BY <1>2, <2>1, <2>4, <3>2, <3>3
  <2>5. CASE k < m /\ l[1] # Fl!GoesOn(k) /\ l[1] = Fl!StopsIn(k)
    <3>1. l \in Holds(l[1])
      BY <1>8, <2>1, <2>5
    <3>2. S = {l[1]}
      <4>1. l[1] <= m
        BY <1>2, <2>1, <2>5 DEF Fl!StopsIn
      <4>2. \A q \in Fl!Procs : l \in Holds(q) <=> q = l[1]
        BY <1>8, <2>5
      <4> QED
        BY <2>1, <2>2, <4>1, <4>2
    <3>3. Cardinality({l[1]}) = 1
      BY FS_Singleton
    <3> HIDE DEF S
    <3> QED
      BY <1>2, <2>1, <2>5, <3>1, <3>2, <3>3
  <2>6. CASE k < m /\ l[1] # Fl!GoesOn(k) /\ l[1] # Fl!StopsIn(k)
    <3>1. \A q \in Fl!Procs : l \notin Holds(q)
      BY <1>8, <2>6
    <3>2. S = {}
      BY <3>1
    <3> HIDE DEF S
    <3> QED
      BY <1>2, <2>1, <2>6, <3>1, <3>2, FS_EmptySet
  <2> QED
    BY <1>2, <2>1, <2>3, <2>4, <2>5, <2>6
<1> QED
  BY <1>4, <1>9 DEF Fl!LinesOut

(***************************************************************************)
(* For every argument, on a terminal and in a file, with or without        *)
(* failing forks: of each iteration that was reached two lines come out;   *)
(* in a file that of the process that goes on comes out once for each      *)
(* process that is made from then on.                                      *)
(***************************************************************************)
THEOREM LinesComeOut == Spec => []LinesOut
<1>1. Init => LInv
  BY LInvInit DEF Init
<1>2. LInv /\ [Next]_vars => LInv'
  BY LInvStep, OneRuns
<1>3. LInv => LinesOut
  BY LInvLines DEF LinesOut
<1> QED
  BY <1>1, <1>2, <1>3, PTL DEF Spec

-----------------------------------------------------------------------------
(***************************************************************************)
(* The functions of Exercises.                                             *)
(***************************************************************************)
EInv ==
  program = "exercises" =>
    string \in Seq({"a", "?", " "}) /\ name \in Seq({"a", "?", " "}) /\ number \in Int

\* Strings of a length up to m are sequences.
LEMMA StringsAreSequences ==
  ASSUME NEW Y, NEW X, X \subseteq Y, NEW m \in Nat
  PROVE  Strings(X, m) \subseteq Seq(Y)
<1>1. ASSUME NEW k \in 0..m, NEW s \in [1..k -> X] PROVE s \in Seq(Y)
  <2>1. k \in Nat
    OBVIOUS
  <2>2. s \in [1..k -> Y]
    OBVIOUS
  <2> QED
    BY <2>1, <2>2
<1> QED
  BY <1>1 DEF Strings

\* The inputs are strings and numbers.
LEMMA EInvInit == Init => EInv
<1> SUFFICES ASSUME Init, program = "exercises" PROVE EInv
  BY DEF EInv
<1>1. MaxString \in Nat /\ MaxNumber \in Nat /\ Capacity \in Nat
  BY BoundsAssumption, ExercisesAssumption
<1>2. string \in Seq({"a", "?", " "}) /\ name \in Seq({"a", "?", " "})
  <2>1. CASE string = << >> /\ name = << >>
    <3>1. << >> \in Seq({"a", "?", " "})
      BY EmptySeq, Zenon
    <3> QED
      BY <2>1, <3>1, Zenon
  <2>2. CASE string \in Strings({"a", "?"}, MaxString) /\ name \in Strings({"a"}, Capacity)
    <3>1. {"a", "?"} \subseteq {"a", "?", " "} /\ {"a"} \subseteq {"a", "?", " "}
      BY Zenon
    <3> QED
      BY <1>1, <2>2, <3>1, StringsAreSequences, Zenon
  <2> QED
    BY <2>1, <2>2, Zenon DEF Init
<1>3. number \in Int
  BY <1>1 DEF Init
<1> QED
  BY <1>2, <1>3, Zenon DEF EInv

(***************************************************************************)
(* The functions do what their comments and assignments say, for every     *)
(* natural number that an int holds and whatever the strings.              *)
(***************************************************************************)
THEOREM FunctionsAsDocumented == Spec => []AsDocumented
<1>1. Init => EInv
  BY EInvInit
<1>2. EInv /\ [Next]_vars => EInv'
  BY Zenon DEF EInv, Next, vars, exVars
<1>3. EInv => AsDocumented
  <2>1. SUFFICES ASSUME EInv, program = "exercises" PROVE AsDocumented
    BY Zenon DEF AsDocumented
  <2>2. " " \in {"a", "?", " "}
    BY Zenon
  <2>3. /\ \A n \in Nat : 2 * n < IntWidth => SinAsDocumented(n)
        /\ SplitAsDocumented(string) /\ StripAsDocumented(string)
        /\ \A n \in Nat : TruncateAsDocumented(string, n) /\ CopyAsDocumented(string, n)
        /\ GreetingAsDocumented(string, name)
    BY <2>1, <2>2, FunctionsKeepTheirWord, Zenon DEF EInv
  <2>4. number \in Int /\ (number >= 0 => number \in Nat)
    <3>1. number \in Int
      BY <2>1, Zenon DEF EInv
    <3> QED
      BY <3>1
  <2>5. number \in 0..(IntWidth \div 2 - 1) => number \in Nat /\ 2 * number < IntWidth
    <3>1. PICK h \in Nat : IntWidth = 2 * h
      BY ExercisesAssumption
    <3>2. IntWidth \div 2 = h
      BY <3>1
    <3> QED
      BY <3>1, <3>2
  <2> QED
    BY <2>3, <2>4, <2>5, Zenon DEF AsDocumented
<1> QED
  BY <1>1, <1>2, <1>3, PTL DEF Spec

=============================================================================
