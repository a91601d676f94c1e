-------------------------- MODULE BufServerProofs ---------------------------
(***************************************************************************)
(* bufserver keeps what LineStream promises, for any bytes, any buffer and *)
(* streams of any length.                                                  *)
(***************************************************************************)
EXTENDS BufServer, SequenceTheorems, WellFoundedInduction, TLAPS

\* The bytes of the client's stream that are dealt with.
Pos == Len(input) - Len(rest) - Len(buf)

\* The stream is cut in three: what is dealt with, the buffer, and the rest.
Placed ==
  /\ input \in Seq(Bytes) /\ rest \in Seq(Bytes) /\ buf \in Seq(Bytes)
  /\ Len(buf) <= BufSize
  /\ Pos \in Nat
  /\ \A i \in 1..Len(buf)  : buf[i] = input[Pos + i]
  /\ \A i \in 1..Len(rest) : rest[i] = input[Pos + Len(buf) + i]

\* Bytes are read only when no line is left in the buffer, and a client is
\* left only at the end of its stream or with a full buffer.
Searched ==
  /\ pc \in {"read", "accept"} => Newlines = {}
  /\ pc = "accept" => rest = << >> \/ Len(buf) = BufSize

Printed ==
  /\ printed \in Seq(Seq(Bytes))
  /\ \A i \in 1..Len(printed) : Len(printed[i]) <= BufSize - 2

BInv ==
  /\ pc \in {"accept", "read", "search", "crashed"} /\ clients \in 0..MaxClients
  /\ Placed /\ Searched /\ Printed

-----------------------------------------------------------------------------
\* Less-than on the natural numbers, as a set of pairs, is well founded.
LEMMA LessOnNat == IsWellFoundedOn({ss \in Nat \X Nat : ss[1] < ss[2]}, Nat)
BY NatLessThanWellFounded, Zenon DEF OpToRel

\* A set of numbers that is not empty has a least one, which Min chooses.
LEMMA LeastNumber ==
  ASSUME NEW S, S \subseteq Nat, S # {}
  PROVE  Min(S) \in S /\ \A x \in S : Min(S) <= x
<1> DEFINE L == {ss \in Nat \X Nat : ss[1] < ss[2]}
<1>1. IsWellFoundedOn(L, Nat)
  BY LessOnNat
<1>2. PICK m \in S : \A x \in S : ~(<<x, m>> \in L)
  <2> HIDE DEF L
  <2> QED
    BY <1>1, WFMin
<1>3. ASSUME NEW x \in S PROVE m <= x
  <2>1. x \in Nat /\ m \in Nat
    BY <1>2
  <2>2. <<x, m>> \in Nat \X Nat /\ <<x, m>>[1] = x /\ <<x, m>>[2] = m
    BY <2>1
  <2>3. ~(x < m)
    BY <1>2, <2>2
  <2> QED
    BY <2>1, <2>3
<1> QED
  BY <1>2, <1>3 DEF Min

\* A part of a sequence, element by element.
LEMMA PartOf ==
  ASSUME NEW s \in Seq(Bytes), NEW a \in 0..Len(s), NEW b \in a..Len(s)
  PROVE  /\ SubSeq(s, a + 1, b) \in Seq(Bytes)
         /\ Len(SubSeq(s, a + 1, b)) = b - a
         /\ \A i \in 1..(b - a) : SubSeq(s, a + 1, b)[i] = s[a + i]
<1>1. Len(s) \in Nat /\ \A i \in (a + 1)..b : s[i] \in Bytes
  BY LenProperties, ElementOfSeq
<1>2. a + 1 \in Int /\ a \in Int /\ b \in Int
  OBVIOUS
<1>3. /\ SubSeq(s, a + 1, b) \in Seq(Bytes)
      /\ Len(SubSeq(s, a + 1, b)) = IF a + 1 <= b THEN b - (a + 1) + 1 ELSE 0
      /\ \A i \in 1..(b - (a + 1) + 1) : SubSeq(s, a + 1, b)[i] = s[(a + 1) + i - 1]
  BY <1>1, <1>2, SubSeqProperties
<1>4. b - (a + 1) + 1 = b - a /\ \A i \in 1..(b - a) : (a + 1) + i - 1 = a + i
  BY <1>2
<1> QED
  BY <1>1, <1>2, <1>3, <1>4

\* The beginning of a sequence, element by element.
LEMMA BeginningOf ==
  ASSUME NEW s \in Seq(Bytes), NEW b \in 0..Len(s)
  PROVE  /\ SubSeq(s, 1, b) \in Seq(Bytes)
         /\ Len(SubSeq(s, 1, b)) = b
         /\ \A i \in 1..b : SubSeq(s, 1, b)[i] = s[i]
<1>1. 0 \in 0..Len(s) /\ b \in 0..Len(s) /\ 0 + 1 = 1 /\ b - 0 = b /\ \A i \in 1..b : 0 + i = i
  BY LenProperties
<1> QED
  BY <1>1, PartOf

-----------------------------------------------------------------------------
\* read() moves bytes from the rest to the buffer.
LEMMA ReadPlaced ==
  ASSUME BInv, Read
  PROVE  Placed' /\ Pos' = Pos
<1> USE BufServerAssumption DEF BInv, Placed
<1>1. /\ Len(rest) \in Nat /\ Len(buf) \in Nat /\ Len(input) \in Nat
      /\ Room \in Nat /\ UNCHANGED input
  BY LenProperties DEF Room, Read
<1>2. PICK k \in 1..Min({Room, Len(rest)}) :
        /\ buf'  = buf \o SubSeq(rest, 1, k)
        /\ rest' = SubSeq(rest, k + 1, Len(rest))
  BY DEF Read
<1>3. k \in 1..Len(rest) /\ k <= BufSize - Len(buf)
  <2>1. Min({Room, Len(rest)}) \in Nat /\ Min({Room, Len(rest)}) <= Room
        /\ Min({Room, Len(rest)}) <= Len(rest)
    BY <1>1, LeastNumber
  <2> QED
    BY <1>1, <2>1 DEF Room
<1>4. /\ SubSeq(rest, 1, k) \in Seq(Bytes) /\ Len(SubSeq(rest, 1, k)) = k
      /\ \A i \in 1..k : SubSeq(rest, 1, k)[i] = rest[i]
  BY <1>1, <1>3, BeginningOf
<1>5. /\ rest' \in Seq(Bytes) /\ Len(rest') = Len(rest) - k
      /\ \A i \in 1..(Len(rest) - k) : rest'[i] = rest[k + i]
  <2>1. k \in 0..Len(rest) /\ Len(rest) \in k..Len(rest)
    BY <1>1, <1>3
  <2> QED
    BY <1>2, <2>1, PartOf
<1>6. /\ buf' \in Seq(Bytes) /\ Len(buf') = Len(buf) + k
      /\ \A i \in 1..(Len(buf) + k) :
           buf'[i] = IF i <= Len(buf) THEN buf[i] ELSE rest[i - Len(buf)]
  <2>1. /\ buf' \in Seq(Bytes) /\ Len(buf') = Len(buf) + k
        /\ \A i \in 1..(Len(buf) + k) :
             buf'[i] = IF i <= Len(buf) THEN buf[i] ELSE SubSeq(rest, 1, k)[i - Len(buf)]
    BY <1>2, <1>4, ConcatProperties
  <2> QED
    BY <1>1, <1>3, <1>4, <2>1
<1>7. Pos' = Pos
  BY <1>1, <1>3, <1>5, <1>6 DEF Pos
<1>8. \A i \in 1..Len(buf') : buf'[i] = input'[Pos' + i]
  <2> SUFFICES ASSUME NEW i \in 1..(Len(buf) + k) PROVE buf'[i] = input[Pos + i]
    BY <1>1, <1>6, <1>7
  <2>1. CASE i <= Len(buf)
    BY <1>1, <1>3, <1>6, <2>1
  <2>2. CASE i > Len(buf)
    <3> DEFINE j == i - Len(buf)
    <3>1. j \in 1..Len(rest) /\ Pos + Len(buf) + j = Pos + i
      BY <1>1, <1>3, <2>2
    <3>2. buf'[i] = rest[j]
      BY <1>1, <1>3, <1>6, <2>2
    <3>3. rest[j] = input[Pos + Len(buf) + j]
      <4> HIDE DEF j
      <4> QED
        BY <3>1
    <3> QED
      BY <3>1, <3>2, <3>3
  <2> QED
    BY <1>1, <1>3, <2>1, <2>2
<1>9. \A i \in 1..Len(rest') : rest'[i] = input'[Pos' + Len(buf') + i]
  <2> SUFFICES ASSUME NEW i \in 1..(Len(rest) - k)
               PROVE  rest'[i] = input[Pos + (Len(buf) + k) + i]
    BY <1>1, <1>5, <1>6, <1>7
  <2>1. k + i \in 1..Len(rest) /\ Pos + Len(buf) + (k + i) = Pos + (Len(buf) + k) + i
    BY <1>1, <1>3
  <2> QED
    BY <1>5, <2>1
<1> QED
  BY <1>1, <1>3, <1>5, <1>6, <1>7, <1>8, <1>9

\* What Min(Newlines) is: the end of the first line that strstr() finds.
LEMMA FirstNewline ==
  ASSUME BInv, Newlines # {}
  PROVE  /\ Min(Newlines) \in 2..Len(buf) /\ Min(Newlines) \in Newlines
         /\ buf[Min(Newlines) - 1] = "CR" /\ buf[Min(Newlines)] = "LF"
         /\ \A i \in 1..Min(Newlines) : buf[i] # "0"
         /\ \A e \in Newlines : Min(Newlines) <= e
<1>1. Len(buf) \in Nat
  BY LenProperties DEF BInv, Placed
<1>2. Newlines \subseteq Nat
  BY <1>1 DEF Newlines
<1>3. Min(Newlines) \in Newlines /\ \A e \in Newlines : Min(Newlines) <= e
  BY <1>2, LeastNumber
<1> QED
  BY <1>3 DEF Newlines

\* A line that is cut off is dealt with, and the buffer keeps what follows it.
LEMMA CutPlaced ==
  ASSUME BInv, Cut
  PROVE  Placed' /\ Pos' = Pos + Min(Newlines)
<1> USE DEF BInv, Placed
<1> DEFINE m == Min(Newlines)
<1>1. /\ Len(rest) \in Nat /\ Len(buf) \in Nat /\ Len(input) \in Nat
      /\ UNCHANGED <<input, rest>>
  BY LenProperties DEF Cut
<1>2. m \in 2..Len(buf) /\ buf' = SubSeq(buf, m + 1, Len(buf))
  BY FirstNewline DEF Cut
<1> HIDE DEF m
<1>3. /\ buf' \in Seq(Bytes) /\ Len(buf') = Len(buf) - m
      /\ \A i \in 1..(Len(buf) - m) : buf'[i] = buf[m + i]
  <2>1. m \in 0..Len(buf) /\ Len(buf) \in m..Len(buf)
    BY <1>1, <1>2
  <2> QED
    BY <1>2, <2>1, PartOf
<1>4. Pos' = Pos + m /\ Len(buf') <= BufSize /\ Pos' \in Nat
  <2>1. Len(rest') = Len(rest) /\ Len(input') = Len(input)
    BY <1>1
  <2>2. Pos' = Pos + m
    <3>1. Pos' = Len(input') - Len(rest') - Len(buf')
      BY DEF Pos
    <3>2. Pos = Len(input) - Len(rest) - Len(buf)
      BY DEF Pos
    <3> QED
      BY <1>1, <1>2, <1>3, <2>1, <3>1, <3>2
  <2>3. Len(buf') <= BufSize
    BY <1>1, <1>2, <1>3, BufServerAssumption
  <2> QED
    BY <1>2, <2>2, <2>3
<1>5. \A i \in 1..Len(buf') : buf'[i] = input'[Pos' + i]
  <2> SUFFICES ASSUME NEW i \in 1..(Len(buf) - m) PROVE buf'[i] = input[(Pos + m) + i]
    BY <1>1, <1>3, <1>4
  <2>1. m + i \in 1..Len(buf) /\ Pos + (m + i) = (Pos + m) + i
    BY <1>1, <1>2
  <2> QED
    BY <1>3, <2>1
<1>6. \A i \in 1..Len(rest') : rest'[i] = input'[Pos' + Len(buf') + i]
  <2> SUFFICES ASSUME NEW i \in 1..Len(rest)
               PROVE  rest[i] = input[(Pos + m) + (Len(buf) - m) + i]
    BY <1>1, <1>3, <1>4
  <2>1. Pos + Len(buf) + i = (Pos + m) + (Len(buf) - m) + i
    BY <1>1, <1>2
  <2> QED
    BY <2>1
<1> QED
  BY <1>1, <1>3, <1>4, <1>5, <1>6 DEF m

\* The lines printed are short enough to have been in the buffer.
LEMMA CutPrinted ==
  ASSUME BInv, Cut
  PROVE  Printed'
<1> DEFINE m    == Min(Newlines)
           line == SubSeq(buf, 1, m - 2)
<1>1. Len(buf) \in Nat /\ Len(buf) <= BufSize /\ BufSize \in Nat /\ buf \in Seq(Bytes)
  BY LenProperties, BufServerAssumption DEF BInv, Placed
<1>2. m \in 2..Len(buf)
  BY FirstNewline DEF Cut
<1>3. line \in Seq(Bytes) /\ Len(line) <= BufSize - 2
  <2> HIDE DEF m
  <2>1. m - 2 \in 0..Len(buf)
    BY <1>1, <1>2
  <2> QED
    BY <1>1, <1>2, <2>1, BeginningOf
<1>4. printed' = Append(printed, line)
  BY DEF Cut
<1> HIDE DEF line
<1>5. /\ printed' \in Seq(Seq(Bytes)) /\ Len(printed') = Len(printed) + 1
      /\ \A i \in 1..Len(printed) : printed'[i] = printed[i]
      /\ printed'[Len(printed) + 1] = line
  BY <1>3, <1>4, AppendProperties DEF BInv, Printed
<1>6. /\ Len(printed) \in Nat
      /\ \A i \in 1..Len(printed) : Len(printed[i]) <= BufSize - 2
  BY LenProperties DEF BInv, Printed
<1>7. ASSUME NEW i \in 1..Len(printed') PROVE Len(printed'[i]) <= BufSize - 2
  <2>1. CASE i = Len(printed) + 1
    BY <1>3, <1>5, <2>1
  <2>2. CASE i # Len(printed) + 1
    <3>1. i \in 1..Len(printed)
      BY <1>5, <1>6, <2>2
    <3> QED
      BY <1>5, <1>6, <3>1
  <2> QED
    BY <2>1, <2>2
<1> QED
  BY <1>5, <1>7 DEF Printed

-----------------------------------------------------------------------------
\* Init establishes the inductive invariant.
LEMMA BInvInit == Init => BInv
<1> SUFFICES ASSUME Init PROVE BInv
  OBVIOUS
<1>1. /\ << >> \in Seq(Bytes) /\ << >> \in Seq(Seq(Bytes))
      /\ Len(input) = 0 /\ Len(rest) = 0 /\ Len(buf) = 0 /\ Len(printed) = 0
  BY DEF Init
<1>2. Placed
  BY <1>1, BufServerAssumption DEF Init, Placed, Pos
<1>3. Searched
  BY <1>1 DEF Init, Searched, Newlines
<1>4. Printed
  BY <1>1 DEF Init, Printed
<1> QED
  BY <1>2, <1>3, <1>4, BufServerAssumption DEF Init, BInv

\* A new client's stream is placed in the rest, all of it.
LEMMA AcceptBInv ==
  ASSUME BInv, Accept
  PROVE  BInv' /\ Pos' = 0
<1>1. PICK k \in 0..MaxLen : input' \in [1..k -> Bytes]
  BY DEF Accept, Streams
<1>2. /\ input' \in Seq(Bytes) /\ rest' = input' /\ Len(input') \in Nat
      /\ buf' = << >> /\ printed' = << >> /\ Len(buf') = 0 /\ Len(printed') = 0
      /\ << >> \in Seq(Bytes) /\ << >> \in Seq(Seq(Bytes))
  <2>1. k \in Nat
    BY BufServerAssumption
  <2>2. input' \in Seq(Bytes)
    BY <1>1, <2>1, SeqDef
  <2> QED
    BY <2>2, LenProperties DEF Accept
<1>3. Pos' = 0
  <2>1. Len(rest') = Len(input')
    BY <1>2
  <2>2. Pos' = Len(input') - Len(rest') - Len(buf')
    BY DEF Pos
  <2> QED
    BY <1>2, <2>1, <2>2
<1>4. Placed'
  BY <1>2, <1>3, BufServerAssumption DEF Placed
<1>5. Searched' /\ Printed'
  BY <1>2 DEF Accept, Searched, Printed, Newlines
<1> QED
  BY <1>3, <1>4, <1>5, BufServerAssumption DEF Accept, BInv

\* Every step keeps the inductive invariant.
LEMMA BInvStep == BInv /\ [Next]_vars => BInv'
<1> SUFFICES ASSUME BInv, [Next]_vars PROVE BInv'
  OBVIOUS
<1> USE DEF BInv
<1>1. CASE Accept
  BY <1>1, AcceptBInv
<1>2. CASE Read
  <2>1. Placed'
    BY <1>2, ReadPlaced
  <2>2. Searched' /\ Printed'
    BY <1>2 DEF Read, Searched, Printed
  <2> QED
    BY <1>2, <2>1, <2>2 DEF Read
<1>3. CASE ReadEnd
  <2>1. UNCHANGED <<input, rest, buf, printed>> /\ Len(buf) \in Nat
    BY <1>3, LenProperties DEF ReadEnd, Placed
  <2>2. Placed' /\ Printed'
    BY <2>1 DEF Placed, Printed, Pos
  <2>3. Searched'
    BY <1>3, <2>1, BufServerAssumption DEF ReadEnd, Searched, Newlines, Room
  <2> QED
    BY <1>3, <2>2, <2>3 DEF ReadEnd
<1>4. CASE Cut
  <2>1. Placed' /\ Printed'
    BY <1>4, CutPlaced, CutPrinted
  <2>2. Searched'
    BY <1>4 DEF Cut, Searched
  <2> QED
    BY <1>4, <2>1, <2>2 DEF Cut
<1>5. CASE NoLine
  <2>1. Placed' /\ Printed'
    BY <1>5 DEF NoLine, Placed, Printed, Pos
  <2>2. Searched'
    BY <1>5 DEF NoLine, Searched, Newlines
  <2> QED
    BY <1>5, <2>1, <2>2 DEF NoLine
<1>6. CASE Overrun
  <2>1. Placed' /\ Printed'
    BY <1>6 DEF Overrun, Placed, Printed, Pos
  <2>2. Searched'
    BY <1>6 DEF Overrun, Searched
  <2> QED
    BY <1>6, <2>1, <2>2 DEF Overrun
<1>7. CASE UNCHANGED vars
  BY <1>7 DEF vars, Placed, Pos, Searched, Newlines, Printed
<1> QED
  BY <1>1, <1>2, <1>3, <1>4, <1>5, <1>6, <1>7 DEF Next, Serve

\* BInv is an invariant of the server.
LEMMA BInvAlways == Spec => []BInv
BY BInvInit, BInvStep, PTL DEF Spec

\* The three parts, put together again, are the stream.
LEMMA PartsOfStream ==
  ASSUME Placed
  PROVE  Pos \in 0..Len(input) /\ input = SubSeq(input, 1, Pos) \o buf \o rest
<1> USE DEF Placed
<1> DEFINE front == SubSeq(input, 1, Pos)
           whole == front \o buf \o rest
<1>1. /\ Len(rest) \in Nat /\ Len(buf) \in Nat /\ Len(input) \in Nat
      /\ Len(input) = Pos + Len(buf) + Len(rest)
  BY LenProperties DEF Pos
<1>2. Pos \in 0..Len(input)
  BY <1>1
<1>3. /\ front \in Seq(Bytes) /\ Len(front) = Pos
      /\ \A i \in 1..Pos : front[i] = input[i]
  BY <1>2, BeginningOf
<1> HIDE DEF front
<1>4. /\ front \o buf \in Seq(Bytes) /\ Len(front \o buf) = Pos + Len(buf)
      /\ \A i \in 1..(Pos + Len(buf)) :
           (front \o buf)[i] = IF i <= Pos THEN front[i] ELSE buf[i - Pos]
  <2>1. /\ front \o buf \in Seq(Bytes) /\ Len(front \o buf) = Len(front) + Len(buf)
        /\ \A i \in 1..(Len(front) + Len(buf)) :
             (front \o buf)[i] = IF i <= Len(front) THEN front[i] ELSE buf[i - Len(front)]
    BY <1>3, ConcatProperties
  <2> QED
    BY <1>3, <2>1
<1>5. /\ whole \in Seq(Bytes) /\ Len(whole) = Pos + Len(buf) + Len(rest)
      /\ \A i \in 1..(Pos + Len(buf) + Len(rest)) :
           whole[i] = IF i <= Pos + Len(buf) THEN (front \o buf)[i]
                                             ELSE rest[i - (Pos + Len(buf))]
  <2> DEFINE head == front \o buf
  <2>1. head \in Seq(Bytes) /\ Len(head) = Pos + Len(buf) /\ whole = head \o rest
    BY <1>4
  <2> HIDE DEF head, whole
  <2>2. /\ whole \in Seq(Bytes) /\ Len(whole) = Len(head) + Len(rest)
        /\ \A i \in 1..(Len(head) + Len(rest)) :
             whole[i] = IF i <= Len(head) THEN head[i] ELSE rest[i - Len(head)]
    BY <2>1, ConcatProperties
  <2> QED
    BY <2>1, <2>2 DEF head
<1> HIDE DEF whole
<1>6. ASSUME NEW i \in 1..Len(input) PROVE input[i] = whole[i]
  <2>1. CASE i <= Pos
    BY <1>1, <1>3, <1>4, <1>5, <2>1
  <2>2. CASE i > Pos /\ i <= Pos + Len(buf)
    <3> DEFINE j == i - Pos
    <3>1. j \in 1..Len(buf) /\ Pos + j = i
      BY <1>1, <2>2
    <3>2. whole[i] = (front \o buf)[i] /\ (front \o buf)[i] = buf[j]
      <4>1. i \in 1..(Pos + Len(buf)) /\ ~(i <= Pos) /\ i <= Pos + Len(buf)
            /\ i \in 1..(Pos + Len(buf) + Len(rest))
        BY <1>1, <2>2
      <4> QED
        BY <1>4, <1>5, <4>1
    <3>3. buf[j] = input[Pos + j]
      <4> HIDE DEF j
      <4> QED
        BY <3>1
    <3> QED
      BY <3>1, <3>2, <3>3
  <2>3. CASE i > Pos + Len(buf)
    <3> DEFINE j == i - (Pos + Len(buf))
    <3>1. j \in 1..Len(rest) /\ Pos + Len(buf) + j = i
      BY <1>1, <2>3
    <3>2. whole[i] = rest[j]
      BY <1>1, <1>5, <2>3
    <3>3. rest[j] = input[Pos + Len(buf) + j]
      <4> HIDE DEF j
      <4> QED
        BY <3>1
    <3> QED
      BY <3>1, <3>2, <3>3
  <2> QED
    BY <1>1, <2>1, <2>2, <2>3
<1>7. input = whole
  BY <1>1, <1>5, <1>6, SeqEqual
<1> QED
  BY <1>2, <1>7 DEF whole, front

\* The server never holds more than its buffer, loses no byte between the
\* buffer and the socket, and prints no line longer than the buffer.
THEOREM BufServerTypeOK == Spec => []TypeOK
<1>1. BInv => TypeOK
  <2> SUFFICES ASSUME BInv PROVE TypeOK
    OBVIOUS
  <2>1. \E k \in 0..Len(input) : input = SubSeq(input, 1, k) \o buf \o rest
    BY PartsOfStream DEF BInv
  <2>2. DOMAIN printed = 1..Len(printed)
    BY LenProperties DEF BInv, Printed
  <2> QED
    BY <2>1, <2>2 DEF BInv, Placed, Printed, TypeOK
<1> QED
  BY <1>1, BInvAlways, PTL

-----------------------------------------------------------------------------
\* The ends of the lines to come, in bufserver's own words.
LEMMA PendingIs ==
  Promise!Pending = {e \in 2..Len(input) : /\ input[e - 1] = "CR" /\ input[e] = "LF"
                                           /\ e >= Pos + 2}
BY DEF Promise!Pending, Promise!Ends, Pos

\* LineStream's Min is the Min of bufserver's module.
LEMMA SameMin == \A S : Promise!Min(S) = Min(S)
BY DEF Promise!Min, Min

\* The least of them, when there is one.
LEMMA FirstPending ==
  ASSUME BInv, Promise!Pending # {}
  PROVE  /\ Min(Promise!Pending) \in Promise!Pending
         /\ Min(Promise!Pending) \in (Pos + 2)..Len(input)
         /\ \A e \in Promise!Pending : Min(Promise!Pending) <= e
<1>1. Len(input) \in Nat /\ Pos \in Nat
  BY LenProperties DEF BInv, Placed
<1>2. Promise!Pending \subseteq Nat
  BY <1>1, PendingIs
<1>3. Min(Promise!Pending) \in Promise!Pending /\ \A e \in Promise!Pending : Min(Promise!Pending) <= e
  BY <1>2, LeastNumber
<1> QED
  BY <1>1, <1>3, PendingIs

\* The first line that strstr() finds is the first one to come.
LEMMA NewlineIsPending ==
  ASSUME BInv, Newlines # {}
  PROVE  Promise!Pending # {} /\ Min(Promise!Pending) = Pos + Min(Newlines)
<1> DEFINE m == Min(Newlines)
           p == Min(Promise!Pending)
<1>1. /\ Len(rest) \in Nat /\ Len(buf) \in Nat /\ Len(input) \in Nat /\ Pos \in Nat
      /\ Len(input) = Pos + Len(buf) + Len(rest)
      /\ \A i \in 1..Len(buf) : buf[i] = input[Pos + i]
  BY LenProperties DEF BInv, Placed, Pos
<1>2. /\ m \in 2..Len(buf) /\ buf[m - 1] = "CR" /\ buf[m] = "LF"
      /\ \A i \in 1..m : buf[i] # "0"
      /\ \A e \in Newlines : m <= e
  BY FirstNewline
<1> HIDE DEF m
<1>3. Pos + m \in Promise!Pending
  <2>1. /\ m - 1 \in 1..Len(buf) /\ m \in 1..Len(buf)
        /\ Pos + (m - 1) = (Pos + m) - 1 /\ Pos + m \in 2..Len(input) /\ Pos + m >= Pos + 2
    BY <1>1, <1>2
  <2>2. input[(Pos + m) - 1] = "CR" /\ input[Pos + m] = "LF"
    BY <1>1, <1>2, <2>1
  <2> QED
    BY <2>1, <2>2, PendingIs
<1>4. /\ p \in Promise!Pending /\ p \in (Pos + 2)..Len(input) /\ p <= Pos + m
  BY <1>3, FirstPending
<1>5. input[p - 1] = "CR" /\ input[p] = "LF"
  BY <1>4, PendingIs
<1> HIDE DEF p
<1>6. ~(p < Pos + m)
  <2> SUFFICES ASSUME p < Pos + m PROVE FALSE
    OBVIOUS
  <2> DEFINE e == p - Pos
  <2>1. /\ e \in 2..Len(buf) /\ e - 1 \in 1..Len(buf) /\ e \in 1..Len(buf) /\ e < m
        /\ Pos + e = p /\ Pos + (e - 1) = p - 1
    BY <1>1, <1>2, <1>4
  <2> HIDE DEF e
  <2>2. buf[e - 1] = "CR" /\ buf[e] = "LF"
    BY <1>1, <1>5, <2>1
  <2>3. \A i \in 1..e : buf[i] # "0"
    BY <1>2, <2>1
  <2>4. e \in Newlines
    BY <2>1, <2>2, <2>3 DEF Newlines
  <2> QED
    BY <1>2, <2>1, <2>4
<1> QED
  <2>1. p = Pos + m
    BY <1>1, <1>2, <1>4, <1>6
  <2> QED
    BY <1>3, <2>1 DEF m, p

\* Cutting a line off the buffer is printing the next line of the stream.
LEMMA CutPrintsLine ==
  ASSUME BInv, Cut
  PROVE  Promise!PrintLine
<1> DEFINE m == Min(Newlines)
<1>1. /\ Newlines # {} /\ UNCHANGED input
      /\ printed' = Append(printed, SubSeq(buf, 1, m - 2))
  BY DEF Cut
<1>2. Promise!Pending # {} /\ Min(Promise!Pending) = Pos + m /\ Pos' = Pos + m
  BY <1>1, NewlineIsPending, CutPlaced
<1>3. m \in 2..Len(buf)
  BY <1>1, FirstNewline
<1> HIDE DEF m
<1>4. /\ Len(rest) \in Nat /\ Len(buf) \in Nat /\ Len(input) \in Nat /\ Pos \in Nat
      /\ Len(input) = Pos + Len(buf) + Len(rest)
      /\ input \in Seq(Bytes) /\ buf \in Seq(Bytes)
      /\ \A i \in 1..Len(buf) : buf[i] = input[Pos + i]
  BY LenProperties DEF BInv, Placed, Pos
<1>5. SubSeq(buf, 1, m - 2) = SubSeq(input, Pos + 1, (Pos + m) - 2)
  <2> DEFINE b == SubSeq(buf, 1, m - 2)
             s == SubSeq(input, Pos + 1, (Pos + m) - 2)
  <2>1. b \in Seq(Bytes) /\ Len(b) = m - 2 /\ \A i \in 1..(m - 2) : b[i] = buf[i]
    <3>1. m - 2 \in 0..Len(buf)
      BY <1>3, <1>4
    <3> QED
      BY <1>4, <3>1, BeginningOf
  <2>2. s \in Seq(Bytes) /\ Len(s) = m - 2 /\ \A i \in 1..(m - 2) : s[i] = input[Pos + i]
    <3>1. /\ Pos \in 0..Len(input) /\ (Pos + m) - 2 \in Pos..Len(input)
          /\ ((Pos + m) - 2) - Pos = m - 2
      BY <1>3, <1>4
    <3> QED
      BY <1>4, <3>1, PartOf
  <2> HIDE DEF b, s
  <2>3. \A i \in 1..Len(b) : b[i] = s[i]
    BY <1>3, <1>4, <2>1, <2>2
  <2>4. b = s
    BY <2>1, <2>2, <2>3, SeqEqual
  <2> QED
    BY <2>4 DEF b, s
<1> QED
  <2>1. printed' = Append(printed, SubSeq(input, Pos + 1, Min(Promise!Pending) - 2))
    BY <1>1, <1>2, <1>5
  <2> QED
    BY <1>1, <1>2, <2>1, SameMin DEF Promise!PrintLine, Pos

\* A client is left only when no line is left that could have been printed.
LEMMA AcceptIsNextClient ==
  ASSUME BInv, Accept, "0" \notin Bytes
  PROVE  Promise!NextClient
<1> DEFINE p    == Min(Promise!Pending)
           line == SubSeq(input, Pos + 1, p)
<1>1. /\ Len(rest) \in Nat /\ Len(buf) \in Nat /\ Len(input) \in Nat /\ Pos \in Nat
      /\ Len(input) = Pos + Len(buf) + Len(rest) /\ input \in Seq(Bytes)
      /\ \A i \in 1..Len(buf) : buf[i] = input[Pos + i]
  BY LenProperties DEF BInv, Placed, Pos
<1>2. Newlines = {} /\ (Len(rest) = 0 \/ Len(buf) = BufSize)
  BY DEF BInv, Searched, Accept
<1>3. Promise!Pending # {} => Promise!Hopeless(line)
  <2> SUFFICES ASSUME Promise!Pending # {} PROVE Promise!Hopeless(line)
    OBVIOUS
  <2>1. p \in Promise!Pending /\ p \in (Pos + 2)..Len(input)
    BY FirstPending
  <2>2. input[p - 1] = "CR" /\ input[p] = "LF"
    BY <2>1, PendingIs
  <2> HIDE DEF p
  <2> DEFINE e == p - Pos
  <2>3. line \in Seq(Bytes) /\ Len(line) = e /\ \A i \in 1..e : line[i] = input[Pos + i]
    <3>1. Pos \in 0..Len(input) /\ p \in Pos..Len(input)
      BY <1>1, <2>1
    <3> QED
      BY <1>1, <3>1, PartOf
  <2>4. e \in 2..(Len(buf) + Len(rest)) /\ Pos + e = p /\ Pos + (e - 1) = p - 1
    BY <1>1, <2>1
  <2> HIDE DEF e, line
  <2>5. CASE e <= Len(buf)
    <3>1. e \in 2..Len(buf) /\ e - 1 \in 1..Len(buf) /\ e \in 1..Len(buf)
      BY <1>1, <2>4, <2>5
    <3>2. buf[e - 1] = "CR" /\ buf[e] = "LF"
      BY <1>1, <2>2, <2>4, <3>1
    <3>3. PICK i \in 1..e : buf[i] = "0"
      BY <1>2, <3>1, <3>2 DEF Newlines
    <3>4. i \in 1..Len(buf)
      BY <1>1, <3>1
    <3>5. buf[i] \in Bytes
      BY <3>4, ElementOfSeq DEF BInv, Placed
    <3> QED
      BY <3>3, <3>5
  <2>6. CASE e > Len(buf)
    <3>1. Len(line) > BufSize
      BY <1>1, <1>2, <2>3, <2>4, <2>6, BufServerAssumption
    <3> QED
      BY <3>1 DEF Promise!Hopeless
  <2> QED
    BY <1>1, <2>4, <2>5, <2>6
<1>4. input' \in Streams /\ printed' = << >> /\ Pos' = 0
  BY AcceptBInv DEF Accept
<1> QED
  BY <1>3, <1>4, SameMin DEF Promise!NextClient, Pos

\* bufserver implements LineStream for clients that send text: whatever pieces
\* read() delivers, it prints the lines of each client as they were sent, each
\* once, and gives up only what does not fit into its buffer.
THEOREM BufServerImplements ==
  ASSUME "0" \notin Bytes
  PROVE  Spec => LinesAsSent
<1>1. Init => Promise!Init
  <2> SUFFICES ASSUME Init PROVE Promise!Init
    OBVIOUS
  <2>1. Len(input) = 0 /\ Len(rest) = 0 /\ Len(buf) = 0
    BY DEF Init
  <2>2. Len(input) - Len(rest) - Len(buf) = 0
    BY <2>1
  <2> QED
    BY <2>2 DEF Init, Promise!Init
<1>2. BInv /\ [Next]_vars => [Promise!Next]_(Promise!vars)
  <2> SUFFICES ASSUME BInv, [Next]_vars PROVE [Promise!Next]_(Promise!vars)
    OBVIOUS
  <2> USE DEF Promise!vars
  <2>1. CASE Accept
    BY <2>1, AcceptIsNextClient DEF Promise!Next
  <2>2. CASE Read
    BY <2>2, ReadPlaced DEF Read, Pos
  <2>3. CASE Cut
    BY <2>3, CutPrintsLine DEF Promise!Next
  <2>4. CASE ReadEnd \/ NoLine \/ Overrun \/ UNCHANGED vars
    BY <2>4 DEF ReadEnd, NoLine, Overrun, vars
  <2> QED
    BY <2>1, <2>2, <2>3, <2>4 DEF Next, Serve
<1> QED
  BY <1>1, <1>2, BInvAlways, PTL DEF Spec, LinesAsSent, Promise!Spec

=============================================================================
