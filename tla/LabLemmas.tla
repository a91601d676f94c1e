----------------------------- MODULE LabLemmas -----------------------------
(***************************************************************************)
(* Facts about what the small programs work on: trees of any size, with    *)
(* the way from the start to an entry and what a walk that does not follow *)
(* links comes to; texts of any length, with their runs; digits and        *)
(* strings.                                                                *)
(***************************************************************************)
EXTENDS Tree, Runs, Exercises, SequenceTheorems, FiniteSetTheorems, WellFoundedInduction, TLAPS

\* Less-than on the natural numbers, as a set of pairs, is well founded.
LEMMA LessOnNat == IsWellFoundedOn({ss \in Nat \X Nat : ss[1] < ss[2]}, Nat)
BY NatLessThanWellFounded, Zenon DEF OpToRel

\* A set of numbers that is not empty has a least one.
LEMMA LeastNumber ==
  ASSUME NEW S, S \subseteq Nat, S # {}
  PROVE  \E least \in S : \A x \in S : least <= x
<1> DEFINE L == {ss \in Nat \X Nat : ss[1] < ss[2]}
<1>1. IsWellFoundedOn(L, Nat)
  BY LessOnNat
<1>2. PICK m \in S : \A x \in S : ~(<<x, m>> \in L)
  <2> HIDE DEF L
  <2> QED
    BY <1>1, WFMin
<1>3. ASSUME NEW x \in S PROVE m <= x
  <2>1. x \in Nat /\ m \in Nat
    BY <1>2
  <2>2. <<x, m>> \in Nat \X Nat /\ <<x, m>>[1] = x /\ <<x, m>>[2] = m
    BY <2>1
  <2>3. ~(x < m)
    BY <1>2, <2>2
  <2> QED
    BY <2>1, <2>3
<1> QED
  BY <1>2, <1>3

-----------------------------------------------------------------------------
\* The parent of an entry is the start or an entry before it.
LEMMA ParentBefore ==
  ASSUME NEW t \in Shapes, NEW e \in Entry
  PROVE  /\ t.parent[e] \in 0..N /\ t.parent[e] < e /\ e \in Nat
         /\ t.parent[e] # Start => t.parent[e] \in Entry /\ t.parent[e] \in Dirs(t)
<1>1. /\ t.parent[e] < e /\ t.parent[e] \in 0..(N - 1)
      /\ t.parent[e] # Start => t.kind[t.parent[e]] = "dir"
  BY DEF Shapes
<1> QED
  BY <1>1, TreeAssumption DEF Entry, Start, Dirs

\* The recursion in Above defines a function: parents come first.
LEMMA AboveExists ==
  ASSUME NEW t \in Shapes
  PROVE  \E f : f = [x \in Entry |-> IF t.parent[x] = Start
                                     THEN {Start} ELSE {t.parent[x]} \cup f[t.parent[x]]]
<1> DEFINE Body(f, x) == IF t.parent[x] = Start
                         THEN {Start} ELSE {t.parent[x]} \cup f[t.parent[x]]
           UpTo(k) == \E f : f = [x \in 1..k |-> Body(f, x)]
           Bad == {k \in Nat : k <= N /\ ~UpTo(k)}
<1>1. ASSUME Bad # {} PROVE FALSE
  <2>1. PICK k \in Bad : \A j \in Bad : k <= j
    BY <1>1, LeastNumber
  <2>2. CASE k = 0
    <3> DEFINE f == [x \in 1..k |-> {}]
    <3>1. f = [x \in 1..k |-> Body(f, x)]
      BY <2>2
    <3> QED
      BY <2>1, <3>1
  <2>3. CASE k # 0
    <3>1. k - 1 \in Nat /\ k - 1 <= N /\ k - 1 \notin Bad
      <4> HIDE DEF UpTo
      <4>1. k \in Nat /\ k - 1 \in Nat /\ k <= N /\ ~(k <= k - 1)
        BY <2>1, <2>3
      <4> QED
        BY <2>1, <4>1, TreeAssumption
    <3>2. PICK g : g = [x \in 1..(k - 1) |-> Body(g, x)]
      BY <3>1
    <3> DEFINE f == [x \in 1..k |-> Body(g, x)]
    <3>3. ASSUME NEW x \in 1..k PROVE f[x] = Body(f, x)
      <4>1. x \in Entry /\ x \in Nat /\ x <= k /\ k \in Nat
        BY <2>1, TreeAssumption DEF Entry
      <4>2. t.parent[x] # Start => t.parent[x] \in 1..(k - 1)
        BY <4>1, ParentBefore DEF Entry
      <4>3. ASSUME NEW y \in 1..(k - 1) PROVE f[y] = g[y]
        <5>1. y \in 1..k
          BY <4>1
        <5>2. g[y] = Body(g, y)
          <6> HIDE DEF Body
          <6> QED
            BY <3>2
        <5>3. f[y] = Body(g, y)
          <6> HIDE DEF Body
          <6> QED
            BY <5>1
        <5> QED
          BY <5>2, <5>3
      <4> QED
        BY <4>2, <4>3
    <3>4. f = [x \in 1..k |-> Body(f, x)]
      BY <3>3
    <3> QED
      BY <2>1, <3>4
  <2> QED
    BY <2>2, <2>3
<1>2. UpTo(N)
  <2>1. N \notin Bad
    BY <1>1
  <2> HIDE DEF UpTo
  <2> QED
    BY <2>1, TreeAssumption
<1> QED
  BY <1>2 DEF Entry

\* What Above is, from what it is for the parent.
LEMMA AboveIs ==
  ASSUME NEW t \in Shapes, NEW e \in Entry
  PROVE  Above(t, e) = IF t.parent[e] = Start
                       THEN {Start} ELSE {t.parent[e]} \cup Above(t, t.parent[e])
<1> DEFINE F == CHOOSE f : f = [x \in Entry |-> IF t.parent[x] = Start
                                  THEN {Start} ELSE {t.parent[x]} \cup f[t.parent[x]]]
<1>1. F = [x \in Entry |-> IF t.parent[x] = Start
                           THEN {Start} ELSE {t.parent[x]} \cup F[t.parent[x]]]
  BY AboveExists, Zenon
<1>2. \A x : Above(t, x) = F[x]
  BY DEF Above
<1> HIDE DEF F
<1> QED
  BY <1>1, <1>2

\* Induction on trees: what holds for an entry if it holds for its parent
\* holds for all entries.
LEMMA TreeInduction ==
  ASSUME NEW t \in Shapes, NEW S \in SUBSET Entry,
         \A e \in Entry : (t.parent[e] # Start => t.parent[e] \in S) => e \in S
  PROVE  S = Entry
<1> SUFFICES ASSUME Entry \ S # {} PROVE FALSE
  OBVIOUS
<1>1. PICK e \in Entry \ S : \A x \in Entry \ S : e <= x
  <2>1. Entry \ S \subseteq Nat
    BY DEF Entry
  <2> QED
    BY <2>1, LeastNumber
<1>2. t.parent[e] # Start => t.parent[e] \in Entry /\ ~(e <= t.parent[e])
  BY <1>1, ParentBefore
<1> QED
  BY <1>1, <1>2

\* An entry and the directories on the way to it.
WayTo(t, e) == Above(t, e) \cup {e}

\* The same for the way to an entry.
LEMMA AboveParent ==
  ASSUME NEW t \in Shapes, NEW e \in Entry
  PROVE  /\ t.parent[e] \in Above(t, e)
         /\ t.parent[e] = Start => Above(t, e) = {Start}
         /\ t.parent[e] # Start => Above(t, e) = WayTo(t, t.parent[e])
BY AboveIs DEF WayTo

\* What is above an entry are directories before it, the start among them.
LEMMA AboveBefore ==
  ASSUME NEW t \in Shapes, NEW e \in Entry
  PROVE  /\ Start \in Above(t, e)
         /\ \A d \in Above(t, e) : d \in Dirs(t) /\ d \in 0..N /\ d < e
<1> DEFINE S == {x \in Entry : /\ Start \in Above(t, x)
                               /\ \A d \in Above(t, x) : d \in Dirs(t) /\ d \in 0..N /\ d < x}
<1>1. ASSUME NEW x \in Entry, t.parent[x] # Start => t.parent[x] \in S
      PROVE  x \in S
  <2>1. CASE t.parent[x] = Start
    BY <2>1, AboveParent, ParentBefore DEF Dirs
  <2>2. CASE t.parent[x] # Start
    <3>1. t.parent[x] \in S /\ Above(t, x) = WayTo(t, t.parent[x])
      BY <1>1, <2>2, AboveParent
    <3>2. /\ t.parent[x] \in Nat /\ x \in Nat /\ t.parent[x] < x
          /\ t.parent[x] \in Dirs(t) /\ t.parent[x] \in 0..N
      BY <2>2, ParentBefore
    <3>3. ASSUME NEW d \in Above(t, x) PROVE d \in Dirs(t) /\ d \in 0..N /\ d < x
      BY <3>1, <3>2, <3>3 DEF WayTo
    <3> QED
      BY <3>1, <3>3 DEF WayTo
  <2> QED
    BY <2>1, <2>2
<1>2. S = Entry
  <2> HIDE DEF S
  <2>1. S \in SUBSET Entry
    BY DEF S
  <2> QED
    BY <1>1, <2>1, TreeInduction
<1> QED
  BY <1>2

\* The way to an entry has no gaps: the parents of what is on it are the
\* directories above the entry, and each is the parent of only one of them.
LEMMA WayHasNoGaps ==
  ASSUME NEW t \in Shapes, NEW e \in Entry
  PROVE  /\ \A c \in WayTo(t, e) : c # Start => c \in Entry /\ t.parent[c] \in Above(t, e)
         /\ \A d \in Above(t, e) : \E c \in WayTo(t, e) \cap Entry : t.parent[c] = d
         /\ \A b, c \in WayTo(t, e) \cap Entry : t.parent[b] = t.parent[c] => b = c
<1> DEFINE Up(x) == \A c \in WayTo(t, x) : c # Start => c \in Entry /\ t.parent[c] \in Above(t, x)
           Down(x) == \A d \in Above(t, x) : \E c \in WayTo(t, x) \cap Entry : t.parent[c] = d
           One(x) == \A b, c \in WayTo(t, x) \cap Entry : t.parent[b] = t.parent[c] => b = c
           S == {x \in Entry : Up(x) /\ Down(x) /\ One(x)}
<1>1. ASSUME NEW x \in Entry, t.parent[x] # Start => t.parent[x] \in S
      PROVE  x \in S
  <2>1. CASE t.parent[x] = Start
    <3>1. WayTo(t, x) = {Start, x} /\ Above(t, x) = {Start} /\ Start \notin Entry
      BY <2>1, AboveParent DEF WayTo, Start, Entry
    <3> QED
      BY <2>1, <3>1
  <2>2. CASE t.parent[x] # Start
    <3> DEFINE p == t.parent[x]
    <3>1. /\ p \in Entry /\ Up(p) /\ Down(p) /\ One(p)
          /\ Above(t, x) = WayTo(t, p) /\ WayTo(t, x) = WayTo(t, p) \cup {x}
      BY <1>1, <2>2, AboveParent DEF WayTo
    <3>2. Above(t, p) \subseteq WayTo(t, p) /\ p \in WayTo(t, p)
      BY DEF WayTo
    <3>3. ASSUME NEW c \in WayTo(t, p) \cap Entry PROVE t.parent[c] # p
      <4>1. t.parent[c] \in Above(t, p)
        BY <3>1 DEF Start, Entry
      <4> QED
        BY <3>1, <4>1, AboveBefore, ParentBefore
    <3>4. Up(x)
      BY <3>1, <3>2
    <3>5. Down(x)
      <4>1. \A d \in WayTo(t, p) : d = p \/ d \in Above(t, p)
        BY DEF WayTo
      <4> QED
        BY <3>1, <4>1
    <3>6. One(x)
      BY <3>1, <3>3
    <3> QED
      BY <3>4, <3>5, <3>6
  <2> QED
    BY <2>1, <2>2
<1>2. S = Entry
  <2> HIDE DEF S
  <2>1. S \in SUBSET Entry
    BY DEF S
  <2> QED
    BY <1>1, <2>1, TreeInduction
<1> QED
  BY <1>2

\* A walk that has gone on as long as there was an entry in a directory that
\* was come to, and that can be read, has come to every reachable entry.
LEMMA WalkIsComplete ==
  ASSUME NEW t \in Shapes, NEW closed, NEW visited \in SUBSET Entry,
         \A e \in Entry \ visited : t.parent[e] \in {Start} \cup visited => t.parent[e] \in closed
  PROVE  Reachable(t, closed) \subseteq visited
<1> DEFINE S == {e \in Entry : e \in Reachable(t, closed) => e \in visited}
<1>1. ASSUME NEW e \in Entry, t.parent[e] # Start => t.parent[e] \in S
      PROVE  e \in S
  <2> SUFFICES ASSUME e \in Reachable(t, closed) PROVE e \in visited
    OBVIOUS
  <2>1. t.parent[e] \notin closed
    BY AboveParent DEF Reachable
  <2>2. ASSUME t.parent[e] # Start PROVE t.parent[e] \in visited
    <3>1. t.parent[e] \in Entry /\ Above(t, t.parent[e]) \subseteq Above(t, e)
      BY <2>2, AboveParent, ParentBefore DEF WayTo
    <3> QED
      BY <1>1, <2>2, <3>1 DEF Reachable
  <2> QED
    BY <2>1, <2>2
<1>2. S = Entry
  <2> HIDE DEF S
  <2>1. S \in SUBSET Entry
    BY DEF S
  <2> QED
    BY <1>1, <2>1, TreeInduction
<1> QED
  BY <1>2 DEF Reachable

\* Edges that lead to larger numbers do not lead back.
LEMMA NoWayBack ==
  ASSUME NEW S \in SUBSET (0..N), S # {}
  PROVE  ~ \A d \in S : \E e \in S : d < e
<1> DEFINE T == {k \in Nat : k <= N /\ N - k \in S}
<1>1. PICK d \in S : TRUE
  OBVIOUS
<1>2. d \in 0..N /\ N - d \in Nat /\ N - d <= N /\ N - (N - d) = d
  BY <1>1, TreeAssumption
<1>3. N - d \in T
  BY <1>1, <1>2
<1>4. PICK k \in T : \A j \in T : k <= j
  BY <1>3, LeastNumber
<1>5. ASSUME NEW e \in S, N - k < e PROVE FALSE
  <2>1. e \in 0..N /\ N - e \in Nat /\ N - e <= N /\ N - (N - e) = e
    BY TreeAssumption
  <2>2. k <= N - e
    BY <1>4, <2>1
  <2> QED
    BY <1>4, <1>5, <2>1, <2>2, TreeAssumption
<1> QED
  BY <1>4, <1>5

-----------------------------------------------------------------------------
\* Induction over the numbers up to n.
LEMMA InductionUpTo ==
  ASSUME NEW n \in Nat, NEW S \in SUBSET (0..n), 0 \in S,
         \A k \in 1..n : k - 1 \in S => k \in S
  PROVE  S = 0..n
<1> SUFFICES ASSUME (0..n) \ S # {} PROVE FALSE
  OBVIOUS
<1>1. PICK k \in (0..n) \ S : \A x \in (0..n) \ S : k <= x
  <2>1. (0..n) \ S \subseteq Nat
    OBVIOUS
  <2> QED
    BY <2>1, LeastNumber
<1>2. k \in 1..n /\ k - 1 \in 0..n /\ ~(k <= k - 1)
  BY <1>1
<1> QED
  BY <1>1, <1>2

\* A step for each of the numbers up to n.
Steps(n, X) == [1..n -> [X -> X]]

\* A function that is given by a first value and by what follows from each
\* value exists.
LEMMA RecursionUpTo ==
  ASSUME NEW n \in Nat, NEW X, NEW first \in X, NEW next \in Steps(n, X)
  PROVE  \E f \in [0..n -> X] : f[0] = first /\ \A k \in 1..n : f[k] = next[k][f[k - 1]]
<1> DEFINE Good(m, f) == f[0] = first /\ \A k \in 1..m : f[k] = next[k][f[k - 1]]
           S == {m \in 0..n : \E f \in [0..m -> X] : Good(m, f)}
<1> USE DEF Steps
<1>1. 0 \in S
  <2> DEFINE f == [k \in 0..0 |-> first]
  <2>1. f \in [0..0 -> X] /\ f[0] = first /\ 1..0 = {} /\ 0 \in 0..n
    OBVIOUS
  <2>2. Good(0, f)
    BY <2>1
  <2> HIDE DEF f, Good
  <2> QED
    BY <2>1, <2>2
<1>2. ASSUME NEW m \in 1..n, m - 1 \in S PROVE m \in S
  <2>1. PICK f \in [0..(m - 1) -> X] : Good(m - 1, f)
    BY <1>2
  <2> DEFINE g == [k \in 0..m |-> IF k = m THEN next[m][f[m - 1]] ELSE f[k]]
  <2>2. m \in 1..n /\ m - 1 \in 0..(m - 1) /\ m \in 0..n
    BY <1>2
  <2>3. g \in [0..m -> X]
    <3>1. ASSUME NEW k \in 0..m PROVE (IF k = m THEN next[m][f[m - 1]] ELSE f[k]) \in X
      BY <2>2
    <3> QED
      BY <3>1
  <2>4. ASSUME NEW k \in 1..m PROVE g[k] = next[k][g[k - 1]]
    BY <2>1, <2>2
  <2>5. g[0] = first
    BY <2>1, <2>2
  <2> HIDE DEF g
  <2> QED
    BY <2>2, <2>3, <2>4, <2>5
<1>3. S = 0..n
  <2> HIDE DEF S
  <2>1. S \in SUBSET (0..n)
    BY DEF S
  <2> QED
    BY <1>1, <1>2, <2>1, InductionUpTo
<1> QED
  BY <1>3

-----------------------------------------------------------------------------
\* What is kept of the first bytes of a text, and what the first pairs of a
\* packed one stand for.
KeptUpTo(s) ==
  CHOOSE kept : kept =
    [i \in 0..Len(s) |->
        IF i = 0 THEN << >>
        ELSE LET run == RunAround(s, i)
             IN  IF i - Min(run) < Cardinality(run) % Width
                 THEN Append(kept[i - 1], s[i]) ELSE kept[i - 1]]

ExpandUpTo(f) ==
  CHOOSE copies : copies =
    [k \in 0..(Len(f) \div 2) |->
        IF k = 0 THEN << >> ELSE copies[k - 1] \o [j \in 1..f[2 * k - 1] |-> f[2 * k]]]

\* Whether the byte at a position is kept.
Stays(s, p) == p - Min(RunAround(s, p)) < Cardinality(RunAround(s, p)) % Width

\* The same byte n times.
Copies(n, c) == [j \in 1..n |-> c]

\* What is kept of a text is what is kept of all its bytes.
LEMMA KeptIs == \A s : Kept(s) = KeptUpTo(s)[Len(s)]
BY DEF Kept, KeptUpTo

\* So is what a packed one stands for.
LEMMA ExpandIs == \A f : Expand(f) = ExpandUpTo(f)[Len(f) \div 2]
BY DEF Expand, ExpandUpTo

\* KeptUpTo is a function on the positions, and takes a byte or leaves it.
LEMMA KeptSteps ==
  ASSUME NEW s \in Seq(Byte)
  PROVE  /\ KeptUpTo(s) \in [0..Len(s) -> Seq(Byte)]
         /\ KeptUpTo(s)[0] = << >>
         /\ \A p \in 1..Len(s) :
              KeptUpTo(s)[p] = IF Stays(s, p) THEN Append(KeptUpTo(s)[p - 1], s[p])
                                              ELSE KeptUpTo(s)[p - 1]
<1> DEFINE n == Len(s)
           X == Seq(Byte)
           next == [p \in 1..n |-> [t \in X |-> IF Stays(s, p) THEN Append(t, s[p]) ELSE t]]
           Body(f, p) == IF p = 0 THEN << >>
                         ELSE IF Stays(s, p) THEN Append(f[p - 1], s[p]) ELSE f[p - 1]
<1>1. n \in Nat /\ << >> \in X
  OBVIOUS
<1>2. next \in Steps(n, X)
  <2>1. ASSUME NEW p \in 1..n, NEW t \in X
        PROVE  (IF Stays(s, p) THEN Append(t, s[p]) ELSE t) \in X
    <3>1. s[p] \in Byte
      OBVIOUS
    <3> QED
      BY <3>1
  <2> QED
    BY <2>1 DEF Steps
<1>3. PICK f \in [0..n -> X] : f[0] = << >> /\ \A p \in 1..n : f[p] = next[p][f[p - 1]]
  <2> HIDE DEF n, X, next, Body
  <2> QED
    BY <1>1, <1>2, RecursionUpTo
<1>4. ASSUME NEW p \in 0..n PROVE f[p] = Body(f, p)
  <2>1. CASE p = 0
    BY <1>3, <2>1
  <2>2. CASE p # 0
    <3>1. p \in 1..n /\ p - 1 \in 0..n
      BY <2>2, <1>1
    <3>2. f[p - 1] \in X
      BY <3>1
    <3> QED
      BY <1>3, <2>2, <3>1, <3>2
  <2> QED
    BY <2>1, <2>2
<1>5. f = [p \in 0..n |-> Body(f, p)]
  <2> HIDE DEF Body, X
  <2> QED
    BY <1>4
<1>6. KeptUpTo(s) = [p \in 0..n |-> Body(KeptUpTo(s), p)]
  <2>1. \E g : g = [p \in 0..n |-> Body(g, p)]
    <3> HIDE DEF Body, n
    <3> QED
      BY <1>5
  <2> QED
    BY <2>1, Zenon DEF KeptUpTo, Stays
<1> DEFINE K == KeptUpTo(s)
           S == {p \in 0..n : K[p] \in X}
<1>7. /\ K = [p \in 0..n |-> K[p]] /\ K[0] = << >>
      /\ \A p \in 1..n : K[p] = IF Stays(s, p) THEN Append(K[p - 1], s[p]) ELSE K[p - 1]
  <2> HIDE DEF n, K
  <2>1. K = [p \in 0..n |-> Body(K, p)]
    BY <1>6 DEF K
  <2>2. /\ K = [p \in 0..n |-> K[p]]
        /\ \A p \in 0..n : K[p] = Body(K, p)
    <3> HIDE DEF Body
    <3> QED
      BY <2>1
  <2>3. 0 \in 0..n /\ \A p \in 1..n : p \in 0..n /\ p # 0
    BY <1>1
  <2> QED
    BY <2>2, <2>3
<1> HIDE DEF K
<1>8. ASSUME NEW p \in 1..n, p - 1 \in S PROVE p \in S
  <2>1. s[p] \in Byte /\ K[p - 1] \in X
    BY <1>8
  <2>2. p \in 0..n
    BY <1>1
  <2>3. Append(K[p - 1], s[p]) \in X
    BY <2>1
  <2> HIDE DEF X, n
  <2> QED
    BY <1>7, <2>1, <2>2, <2>3
<1>9. S = 0..n
  <2>1. S \in SUBSET (0..n) /\ 0 \in S
    <3> HIDE DEF X, n
    <3> QED
      BY <1>1, <1>7
  <2> HIDE DEF S, n
  <2> QED
    BY <1>1, <1>8, <2>1, InductionUpTo
<1> QED
  BY <1>7, <1>9 DEF K

\* The pairs of a packed text.
Pairs(f) == Len(f) \div 2

\* The two bytes of a pair are in the text.
LEMMA PairsIn ==
  ASSUME NEW f \in Seq(Byte)
  PROVE  /\ Pairs(f) \in Nat
         /\ \A k \in 1..Pairs(f) : /\ 2 * k - 1 \in 1..Len(f) /\ 2 * k \in 1..Len(f)
                                   /\ f[2 * k - 1] \in Byte /\ f[2 * k] \in Byte
                                   /\ f[2 * k - 1] \in Nat
<1>1. PICK n \in Nat : n = Len(f)
  OBVIOUS
<1>2. PICK m : m = n \div 2
  OBVIOUS
<1>3. m \in Nat /\ 2 * m <= n
  BY <1>1, <1>2
<1>4. ASSUME NEW k \in 1..m PROVE 2 * k - 1 \in 1..n /\ 2 * k \in 1..n
  BY <1>3
<1>5. ASSUME NEW j \in 1..n PROVE f[j] \in Byte /\ f[j] \in Nat
  BY <1>1, WidthAssumption DEF Byte
<1> QED
  BY <1>1, <1>2, <1>3, <1>4, <1>5 DEF Pairs

\* Copies as a sequence.
LEMMA CopiesAre ==
  ASSUME NEW n \in Nat, NEW c \in Byte
  PROVE  /\ Copies(n, c) \in Seq(Byte) /\ Len(Copies(n, c)) = n
         /\ \A j \in 1..n : Copies(n, c)[j] = c
BY DEF Copies

\* ExpandUpTo is a function on the pairs, and adds the copies of each.
LEMMA ExpandSteps ==
  ASSUME NEW f \in Seq(Byte)
  PROVE  /\ ExpandUpTo(f) \in [0..Pairs(f) -> Seq(Byte)]
         /\ ExpandUpTo(f)[0] = << >>
         /\ \A k \in 1..Pairs(f) :
              ExpandUpTo(f)[k] = ExpandUpTo(f)[k - 1] \o Copies(f[2 * k - 1], f[2 * k])
<1> DEFINE n == Pairs(f)
           X == Seq(Byte)
           Pair(k) == Copies(f[2 * k - 1], f[2 * k])
           next == [k \in 1..n |-> [t \in X |-> t \o Pair(k)]]
           Body(e, k) == IF k = 0 THEN << >> ELSE e[k - 1] \o Pair(k)
<1>1. n \in Nat /\ << >> \in X
  BY PairsIn
<1>p. ASSUME NEW k \in 1..n PROVE Pair(k) \in X
  BY PairsIn, CopiesAre
<1>2. next \in Steps(n, X)
  <2>1. ASSUME NEW k \in 1..n, NEW t \in X PROVE t \o Pair(k) \in X
    <3> HIDE DEF Pair, n
    <3> QED
      BY <1>p
  <2> HIDE DEF X, n, Pair
  <2> QED
    BY <2>1 DEF Steps
<1>3. PICK e \in [0..n -> X] : e[0] = << >> /\ \A k \in 1..n : e[k] = next[k][e[k - 1]]
  <2> HIDE DEF n, X, next, Body
  <2> QED
    BY <1>1, <1>2, RecursionUpTo
<1>4. ASSUME NEW k \in 0..n PROVE e[k] = Body(e, k)
  <2>1. CASE k = 0
    BY <1>3, <2>1
  <2>2. CASE k # 0
    <3> HIDE DEF n, X, Pair
    <3>1. k \in 1..n /\ k - 1 \in 0..n
      BY <2>2, <1>1
    <3>2. e[k - 1] \in X
      BY <3>1
    <3> QED
      BY <1>3, <2>2, <3>1, <3>2
  <2> QED
    BY <2>1, <2>2
<1>5. e = [k \in 0..n |-> Body(e, k)]
  <2> HIDE DEF Body, X, n
  <2> QED
    BY <1>4
<1> DEFINE E == ExpandUpTo(f)
           S == {k \in 0..n : E[k] \in X}
<1>6. E = [k \in 0..n |-> Body(E, k)]
  <2>1. \E g : g = [k \in 0..n |-> Body(g, k)]
    <3> HIDE DEF Body, n
    <3> QED
      BY <1>5
  <2> QED
    BY <2>1, Zenon DEF ExpandUpTo, Pairs, Copies
<1>7. /\ E = [k \in 0..n |-> E[k]] /\ E[0] = << >>
      /\ \A k \in 1..n : E[k] = E[k - 1] \o Pair(k)
  <2> HIDE DEF n, E, Pair
  <2>2. /\ E = [k \in 0..n |-> E[k]]
        /\ \A k \in 0..n : E[k] = Body(E, k)
    <3> HIDE DEF Body
    <3> QED
      BY <1>6
  <2>3. 0 \in 0..n /\ \A k \in 1..n : k \in 0..n /\ k # 0
    BY <1>1
  <2> QED
    BY <2>2, <2>3
<1> HIDE DEF E, n, Pair
<1>8. ASSUME NEW k \in 1..n, k - 1 \in S PROVE k \in S
  <2>1. E[k - 1] \o Pair(k) \in X
    BY <1>8, <1>p
  <2>2. k \in 0..n
    BY <1>1
  <2>3. E[k] \in X
    BY <1>7, <2>1, Zenon
  <2> HIDE DEF X
  <2> QED
    BY <2>2, <2>3
<1>9. S = 0..n
  <2>1. S \in SUBSET (0..n)
    OBVIOUS
  <2>2. 0 \in S
    <3> HIDE DEF X
    <3> QED
      BY <1>1, <1>7
  <2> HIDE DEF S
  <2> QED
    BY <1>1, <1>8, <2>1, <2>2, InductionUpTo
<1> QED
  BY <1>7, <1>9 DEF E, n, Pair

\* A pair that is added to a packed text stands for what it says.
LEMMA ExpandAdded ==
  ASSUME NEW f \in Seq(Byte), Len(f) % 2 = 0, NEW n \in Byte, NEW c \in Byte
  PROVE  Expand(f \o <<n, c>>) = Expand(f) \o Copies(n, c)
<1> DEFINE g == f \o <<n, c>>
           m == Pairs(f)
           S == {k \in 0..m : ExpandUpTo(g)[k] = ExpandUpTo(f)[k]}
<1>1. /\ g \in Seq(Byte) /\ Len(g) = Len(f) + 2
      /\ g[Len(f) + 1] = n /\ g[Len(f) + 2] = c
      /\ \A j \in 1..Len(f) : g[j] = f[j]
  OBVIOUS
<1> HIDE DEF g
<1>2. m \in Nat /\ Len(f) = 2 * m /\ Pairs(g) = m + 1
  <2>1. PICK l \in Nat : l = Len(f)
    OBVIOUS
  <2> QED
    BY <1>1, <2>1 DEF Pairs
<1> HIDE DEF m
<1>3. ASSUME NEW k \in 1..m, k - 1 \in S PROVE k \in S
  <2>1. k \in 1..Pairs(f) /\ k \in 1..Pairs(g) /\ k \in 0..m
    BY <1>2 DEF m
  <2>2. g[2 * k - 1] = f[2 * k - 1] /\ g[2 * k] = f[2 * k]
    BY <1>1, <2>1, PairsIn
  <2> QED
    BY <1>1, <1>3, <2>1, <2>2, ExpandSteps
<1>4. S = 0..m
  <2>1. S \in SUBSET (0..m)
    OBVIOUS
  <2>2. 0 \in S
    <3>1. 0 \in 0..m
      BY <1>2
    <3>2. ExpandUpTo(f)[0] = << >>
      BY ExpandSteps
    <3>3. ExpandUpTo(g)[0] = << >>
      BY <1>1, ExpandSteps, Zenon
    <3> QED
      BY <3>1, <3>2, <3>3
  <2> HIDE DEF S
  <2> QED
    BY <1>2, <1>3, <2>1, <2>2, InductionUpTo
<1>5. ExpandUpTo(g)[m] = ExpandUpTo(f)[m]
  BY <1>2, <1>4
<1>6. ExpandUpTo(g)[m + 1] = ExpandUpTo(g)[m] \o Copies(g[2 * (m + 1) - 1], g[2 * (m + 1)])
  <2>1. m + 1 \in 1..Pairs(g) /\ (m + 1) - 1 = m
    BY <1>2
  <2> QED
    BY <1>1, <2>1, ExpandSteps
<1>7. g[2 * (m + 1) - 1] = n /\ g[2 * (m + 1)] = c
  <2>1. 2 * (m + 1) - 1 = Len(f) + 1 /\ 2 * (m + 1) = Len(f) + 2
    BY <1>2
  <2> QED
    BY <1>1, <2>1
<1>8. Expand(f) = ExpandUpTo(f)[m] /\ Expand(g) = ExpandUpTo(g)[m + 1]
  BY <1>2, ExpandIs DEF m, Pairs
<1> QED
  BY <1>5, <1>6, <1>7, <1>8 DEF g

-----------------------------------------------------------------------------
\* From m to n a text has one of its runs.
IsRun(s, m, n) ==
  /\ m \in 1..Len(s) /\ n \in m..Len(s)
  /\ \A j \in m..n : s[j] = s[m]
  /\ m = 1 \/ s[m - 1] # s[m]
  /\ n = Len(s) \/ s[n + 1] # s[m]

\* Around each of its positions there is this run.
LEMMA RunIs ==
  ASSUME NEW s \in Seq(Byte), NEW m, NEW n, IsRun(s, m, n), NEW p \in m..n
  PROVE  /\ RunAround(s, p) = m..n
         /\ Min(RunAround(s, p)) = m /\ Cardinality(RunAround(s, p)) = n - m + 1
<1>1. /\ m \in Nat /\ n \in Nat /\ p \in Nat /\ Len(s) \in Nat /\ 1 <= m /\ m <= n /\ n <= Len(s)
      /\ DOMAIN s = 1..Len(s) /\ m <= p /\ p <= n
      /\ s[p] = s[m]
  BY DEF IsRun
<1>2. ASSUME NEW j \in m..n PROVE j \in RunAround(s, p)
  <2>1. j \in DOMAIN s
    BY <1>1, SMTT(30)
  <2>2. ASSUME NEW k \in DOMAIN s, (p <= k /\ k <= j) \/ (j <= k /\ k <= p) PROVE s[k] = s[p]
    <3>1. k \in m..n
      BY <1>1, <2>2
    <3> QED
      BY <1>1, <3>1 DEF IsRun
  <2> QED
    BY <2>1, <2>2 DEF RunAround
<1>3. ASSUME NEW j \in RunAround(s, p) PROVE j \in m..n
  <2>1. /\ j \in 1..Len(s)
        /\ \A k \in 1..Len(s) : (p <= k /\ k <= j) \/ (j <= k /\ k <= p) => s[k] = s[p]
    BY <1>1, SMTT(30) DEF RunAround
  <2>2. ~(j < m)
    <3> SUFFICES ASSUME j < m PROVE FALSE
      OBVIOUS
    <3>1. m - 1 \in 1..Len(s) /\ j <= m - 1 /\ m - 1 <= p /\ m # 1
      BY <1>1, <2>1, SMTT(30)
    <3> QED
      BY <1>1, <2>1, <3>1 DEF IsRun
  <2>3. ~(j > n)
    <3> SUFFICES ASSUME j > n PROVE FALSE
      OBVIOUS
    <3>0. j \in Nat /\ j <= Len(s)
      BY <2>1
    <3>1. n + 1 \in 1..Len(s) /\ p <= n + 1 /\ n + 1 <= j /\ n # Len(s)
      <4>1. PICK l : l = Len(s)
        OBVIOUS
      <4>2. l \in Nat /\ j <= l /\ n < j /\ n \in Nat /\ p \in Nat /\ p <= n
        BY <1>1, <3>0, <4>1
      <4> QED
        BY <3>0, <4>1, <4>2
    <3> QED
      BY <1>1, <2>1, <3>1 DEF IsRun
  <2> QED
    BY <1>1, <2>1, <2>2, <2>3
<1>4. RunAround(s, p) = m..n
  BY <1>2, <1>3
<1>5. Min(m..n) = m
  <2>1. m \in m..n /\ \A y \in m..n : m <= y
    BY <1>1
  <2>2. \A x \in m..n : (\A y \in m..n : x <= y) => x = m
    BY <1>1
  <2> QED
    BY <2>1, <2>2, Zenon DEF Min
<1>6. Cardinality(m..n) = n - m + 1
  BY <1>1, FS_Interval
<1> QED
  BY <1>4, <1>5, <1>6

\* What is kept at the end of a run: what was kept before it, and of the run
\* its length modulo Width.
LEMMA KeptRun ==
  ASSUME NEW s \in Seq(Byte), NEW m, NEW n, IsRun(s, m, n)
  PROVE  KeptUpTo(s)[n] = KeptUpTo(s)[m - 1] \o Copies((n - m + 1) % Width, s[m])
<1> DEFINE K == KeptUpTo(s)
           l == n - m + 1
           c == l % Width
           Least(q) == IF q <= c THEN q ELSE c
           S == {q \in 0..l : K[m - 1 + q] = K[m - 1] \o Copies(Least(q), s[m])}
<1>1. /\ m \in Nat /\ n \in Nat /\ Len(s) \in Nat /\ 1 <= m /\ m <= n /\ n <= Len(s)
      /\ l \in Nat /\ m - 1 \in 0..Len(s) /\ s[m] \in Byte
      /\ \A j \in m..n : s[j] = s[m]
  BY DEF IsRun
<1>2. c \in Nat /\ c <= l
  <2> HIDE DEF l
  <2> QED
    BY <1>1, WidthAssumption
<1>3. /\ K \in [0..Len(s) -> Seq(Byte)]
      /\ \A p \in 1..Len(s) : K[p] = IF Stays(s, p) THEN Append(K[p - 1], s[p]) ELSE K[p - 1]
  BY KeptSteps
<1>4. \A p \in m..n : Stays(s, p) <=> p - m < c
  BY RunIs DEF Stays
<1> HIDE DEF K, c
<1>5. K[m - 1] \in Seq(Byte)
  BY <1>1, <1>3
<1>6. 0 \in S
  <2>1. K[m - 1] \o Copies(0, s[m]) = K[m - 1]
    <3>1. Copies(0, s[m]) = << >>
      BY DEF Copies
    <3> QED
      BY <1>5, <3>1, ConcatEmptySeq
  <2>2. Least(0) = 0 /\ (m - 1) + 0 = m - 1 /\ 0 \in 0..l
    BY <1>1, <1>2
  <2> QED
    BY <2>1, <2>2
<1>7. ASSUME NEW q \in 1..l, q - 1 \in S PROVE q \in S
  <2> DEFINE p == m - 1 + q
  <2>1. /\ p \in m..n /\ p \in 1..Len(s) /\ p - 1 = m - 1 + (q - 1) /\ q \in 0..l
        /\ p - m = q - 1 /\ q \in Nat
    BY <1>1
  <2>2. K[p - 1] = K[m - 1] \o Copies(Least(q - 1), s[m])
    BY <1>7, <2>1
  <2>3. s[p] = s[m] /\ K[p] = IF q - 1 < c THEN Append(K[p - 1], s[m]) ELSE K[p - 1]
    BY <1>1, <1>3, <1>4, <2>1
  <2> HIDE DEF p
  <2>4. CASE q - 1 < c
    <3>1. Least(q - 1) = q - 1 /\ Least(q) = q /\ q - 1 \in Nat
      BY <1>2, <2>1, <2>4
    <3>2. Append(K[m - 1] \o Copies(q - 1, s[m]), s[m]) = K[m - 1] \o Copies(q, s[m])
      <4>1. PICK x \in Byte : x = s[m]
        BY <1>1
      <4>2. PICK t \in Seq(Byte) : t = K[m - 1]
        BY <1>5
      <4>3. PICK r \in Nat : r = q - 1
        BY <3>1
      <4>4. Append(Copies(r, x), x) = Copies(r + 1, x)
        BY DEF Copies
      <4>5. Copies(r, x) \in Seq(Byte)
        BY CopiesAre
      <4>6. Append(t \o Copies(r, x), x) = t \o Append(Copies(r, x), x)
        <5>1. t \o Copies(r, x) \in Seq(Byte) /\ <<x>> \in Seq(Byte)
          BY <4>5
        <5>2. Append(t \o Copies(r, x), x) = (t \o Copies(r, x)) \o <<x>>
          BY <5>1, AppendIsConcat
        <5>3. Append(Copies(r, x), x) = Copies(r, x) \o <<x>>
          BY <4>5, AppendIsConcat
        <5>4. (t \o Copies(r, x)) \o <<x>> = t \o (Copies(r, x) \o <<x>>)
          BY <4>5, <5>1, ConcatAssociative
        <5> QED
          BY <5>2, <5>3, <5>4
      <4>7. q = r + 1
        BY <2>1, <4>3
      <4> QED
        BY <4>1, <4>2, <4>3, <4>4, <4>6, <4>7
    <3> HIDE DEF Least
    <3>3. K[p] = K[m - 1] \o Copies(Least(q), s[m])
      BY <2>2, <2>3, <2>4, <3>1, <3>2
    <3> QED
      BY <2>1, <3>3 DEF p
  <2>5. CASE ~(q - 1 < c)
    <3>1. Least(q - 1) = c /\ Least(q) = c
      BY <1>2, <2>1, <2>5
    <3> HIDE DEF Least
    <3>2. K[p] = K[m - 1] \o Copies(Least(q), s[m])
      BY <2>2, <2>3, <2>5, <3>1
    <3> QED
      BY <2>1, <3>2 DEF p
  <2> QED
    BY <2>4, <2>5
<1>8. S = 0..l
  <2>1. S \in SUBSET (0..l)
    OBVIOUS
  <2> HIDE DEF S, l
  <2> QED
    BY <1>1, <1>6, <1>7, <2>1, InductionUpTo
<1>9. l \in S /\ Least(l) = c /\ m - 1 + l = n
  <2>1. l \in 0..l /\ Least(l) = c /\ m - 1 + l = n
    BY <1>1, <1>2
  <2> HIDE DEF S
  <2> QED
    BY <1>8, <2>1
<1> QED
  BY <1>9 DEF K, c

\* Every position is in a run.
LEMMA RunFound ==
  ASSUME NEW s \in Seq(Byte), NEW p \in 1..Len(s)
  PROVE  \E m, n : IsRun(s, m, n) /\ p \in m..n
<1> DEFINE Before == {x \in 1..p : \A j \in x..p : s[j] = s[p]}
           Behind == {x \in p..(Len(s) + 1) : x = Len(s) + 1 \/ s[x] # s[p]}
<1>1. PICK l \in Nat : l = Len(s) /\ p \in 1..l
  OBVIOUS
<1>2. PICK m \in Before : \A x \in Before : m <= x
  <2>1. Before \subseteq Nat /\ p \in Before
    BY <1>1
  <2> HIDE DEF Before
  <2> QED
    BY <2>1, LeastNumber
<1>3. PICK y \in Behind : \A x \in Behind : y <= x
  <2>1. Behind \subseteq Nat /\ l + 1 \in Behind
    BY <1>1
  <2> HIDE DEF Behind
  <2> QED
    BY <2>1, LeastNumber
<1>4. m \in Nat /\ y \in Nat /\ p \in Nat /\ 1 <= m /\ m <= p /\ p < y /\ y <= l + 1
  BY <1>1, <1>2, <1>3
<1>5. ASSUME NEW j \in m..(y - 1) PROVE s[j] = s[p]
  <2>1. j \in Nat /\ m <= j /\ j < y
    BY <1>4
  <2>2. CASE j <= p
    <3>1. j \in m..p
      BY <1>4, <2>1, <2>2
    <3> QED
      BY <1>2, <3>1
  <2>3. CASE p < j
    <3>1. j \in p..(l + 1) /\ ~(y <= j) /\ j # l + 1
      BY <1>4, <2>1, <2>3
    <3> QED
      BY <1>1, <1>3, <3>1
  <2> QED
    BY <1>4, <2>1, <2>2, <2>3
<1>6. m = 1 \/ s[m - 1] # s[p]
  <2> SUFFICES ASSUME m # 1, s[m - 1] = s[p] PROVE FALSE
    OBVIOUS
  <2>1. m - 1 \in 1..p /\ ~(m <= m - 1)
    BY <1>4
  <2>2. ASSUME NEW j \in (m - 1)..p PROVE s[j] = s[p]
    <3>1. j = m - 1 \/ j \in m..p
      BY <1>4
    <3> QED
      BY <1>2, <3>1
  <2> QED
    BY <1>2, <2>1, <2>2
<1>7. y - 1 = l \/ s[(y - 1) + 1] # s[p]
  <2>1. (y - 1) + 1 = y /\ (y = l + 1 => y - 1 = l)
    BY <1>4
  <2> QED
    BY <1>1, <1>3, <2>1
<1>8. s[m] = s[p] /\ m \in 1..l /\ y - 1 \in m..l /\ p \in m..(y - 1)
  <2>1. m \in 1..l /\ y - 1 \in m..l /\ p \in m..(y - 1) /\ m \in m..(y - 1)
    BY <1>1, <1>4
  <2> QED
    BY <1>5, <2>1
<1>9. IsRun(s, m, y - 1)
  BY <1>1, <1>5, <1>6, <1>7, <1>8 DEF IsRun
<1> QED
  BY <1>8, <1>9

\* Of runs that are not too long everything is kept.
LEMMA KeptAll ==
  ASSUME NEW s \in Seq(Byte), RunsFit(s)
  PROVE  Kept(s) = s
<1> DEFINE K == KeptUpTo(s)
           S == {p \in 0..Len(s) : K[p] = SubSeq(s, 1, p)}
<1>1. ASSUME NEW p \in 1..Len(s) PROVE Stays(s, p)
  <2>1. PICK m, n : IsRun(s, m, n) /\ p \in m..n
    BY RunFound
  <2>2. /\ Min(RunAround(s, p)) = m /\ Cardinality(RunAround(s, p)) = n - m + 1
    BY <2>1, RunIs
  <2>3. /\ m \in Nat /\ n \in Nat /\ p \in Nat /\ m <= p /\ p <= n
        /\ m \in DOMAIN s /\ n \in DOMAIN s
        /\ \A j \in m..n : j \in DOMAIN s /\ s[j] = s[m]
    <3>1. PICK l \in Nat : l = Len(s) /\ DOMAIN s = 1..l
      OBVIOUS
    <3>2. m \in 1..l /\ n \in m..l /\ \A j \in m..n : s[j] = s[m]
      BY <2>1, <3>1 DEF IsRun
    <3> QED
      BY <2>1, <3>1, <3>2
  <2>4. n - m + 1 < Width
    <3> SUFFICES ASSUME ~(n - m + 1 < Width) PROVE FALSE
      OBVIOUS
    <3>1. m + Width - 1 \in m..n
      BY <2>3, WidthAssumption
    <3>2. PICK j \in m..(m + Width - 1) : s[j] # s[m]
      BY <2>3, <3>1 DEF RunsFit
    <3>3. j \in m..n
      BY <2>3, <3>1, <3>2, WidthAssumption
    <3> QED
      BY <2>3, <3>2, <3>3
  <2>5. (n - m + 1) % Width = n - m + 1 /\ p - m < n - m + 1
    <3>1. PICK d \in Nat : d = n - m + 1
      BY <2>3
    <3>2. d % Width = d
      BY <2>4, <3>1, WidthAssumption
    <3> QED
      BY <2>3, <3>1, <3>2
  <2> QED
    BY <2>2, <2>5 DEF Stays
<1>2. Len(s) \in Nat /\ s \in [1..Len(s) -> Byte]
  OBVIOUS
<1>3. 0 \in S
  BY <1>2, KeptSteps
<1>4. ASSUME NEW p \in 1..Len(s), p - 1 \in S PROVE p \in S
  <2>1. K[p] = Append(SubSeq(s, 1, p - 1), s[p])
    BY <1>1, <1>4, KeptSteps
  <2>2. Append(SubSeq(s, 1, p - 1), s[p]) = SubSeq(s, 1, p)
    BY SubSeqRecursiveSecond
  <2>3. p \in 0..Len(s)
    BY <1>2
  <2> QED
    BY <2>1, <2>2, <2>3
<1>5. S = 0..Len(s)
  <2>1. S \in SUBSET (0..Len(s))
    OBVIOUS
  <2> HIDE DEF S
  <2> QED
    BY <1>2, <1>3, <1>4, <2>1, InductionUpTo
<1>6. Len(s) \in S
  <2>1. Len(s) \in 0..Len(s)
    BY <1>2
  <2> HIDE DEF S
  <2> QED
    BY <1>5, <2>1
<1>7. SubSeq(s, 1, Len(s)) = s
  OBVIOUS
<1> QED
  BY <1>6, <1>7, KeptIs

\* One more, modulo what a count holds.
LEMMA CountNext ==
  ASSUME NEW a \in Nat
  PROVE  ((a % Width) + 1) % Width = (a + 1) % Width /\ (a + 1) % Width \in Byte
<1> USE WidthAssumption
<1> DEFINE r == a % Width
           d == a \div Width
<1>1. r \in Nat /\ r < Width /\ d \in Nat /\ a = Width * d + r
  OBVIOUS
<1>2. (a + 1) % Width \in Byte
  BY DEF Byte
<1> HIDE DEF r, d
<1>3. CASE r + 1 < Width
  <2>1. a + 1 = Width * d + (r + 1)
    BY <1>1
  <2>2. (a + 1) % Width = r + 1
    BY <1>1, <1>3, <2>1
  <2>3. (r + 1) % Width = r + 1
    BY <1>1, <1>3
  <2> QED
    BY <1>2, <2>2, <2>3 DEF r
<1>4. CASE r + 1 = Width
  <2>1. a + 1 = Width * (d + 1)
    BY <1>1, <1>4
  <2>2. \A w \in Int : (Width * w) % Width = 0
    OBVIOUS
  <2>3. (a + 1) % Width = 0
    BY <1>1, <2>1, <2>2
  <2>4. (r + 1) % Width = 0
    BY <1>1, <1>4, SMTT(30)
  <2> QED
    BY <1>2, <2>3, <2>4 DEF r
<1> QED
  BY <1>1, <1>3, <1>4

\* What is left of a sequence behind a position.
LEMMA RestIs ==
  ASSUME NEW s \in Seq(Byte), NEW p \in 0..Len(s)
  PROVE  /\ SubSeq(s, p + 1, Len(s)) \in Seq(Byte)
         /\ Len(SubSeq(s, p + 1, Len(s))) = Len(s) - p
         /\ SubSeq(s, p + 1, Len(s)) = << >> <=> p = Len(s)
         /\ \A j \in 1..(Len(s) - p) : SubSeq(s, p + 1, Len(s))[j] = s[p + j]
<1> DEFINE r == SubSeq(s, p + 1, Len(s))
<1>1. PICK l \in Nat : l = Len(s) /\ s \in [1..l -> Byte]
  OBVIOUS
<1>2. p \in Nat /\ p <= l
  BY <1>1
<1>3. \A j \in (p + 1)..l : s[j] \in Byte
  BY <1>1, <1>2
<1>4. /\ r \in Seq(Byte)
      /\ Len(r) = IF p + 1 <= l THEN l - (p + 1) + 1 ELSE 0
      /\ \A j \in 1..(l - (p + 1) + 1) : r[j] = s[(p + 1) + j - 1]
  BY <1>1, <1>2, <1>3, SubSeqProperties
<1> HIDE DEF r
<1>5. Len(r) = l - p
  BY <1>2, <1>4
<1>6. r = << >> <=> p = l
  BY <1>2, <1>4, <1>5, EmptySeq
<1>7. \A j \in 1..(l - p) : r[j] = s[p + j]
  BY <1>2, <1>4
<1> QED
  BY <1>1, <1>4, <1>5, <1>6, <1>7 DEF r

-----------------------------------------------------------------------------
\* What the first elements of an array add up to.
SumUpTo(a, n) ==
  CHOOSE sum : sum = [k \in 0..n |-> IF k = 0 THEN 0 ELSE sum[k - 1] + a[k - 1]]

\* A function from 0 on, by what each element adds to the one before.
AddsUp(g, a, n) == g[0] = 0 /\ \A k \in 1..n : g[k] = g[k - 1] + a[k - 1]

\* A sum is the sum of all elements.
LEMMA SumIs == \A a, n : SumOf(a, n) = SumUpTo(a, n)[n]
BY DEF SumOf, SumUpTo

\* The functions that add up an array are one, and its last value is the sum.
LEMMA SumFound ==
  ASSUME NEW n \in Nat, NEW a, NEW g \in [0..n -> Int], AddsUp(g, a, n)
  PROVE  SumOf(a, n) = g[n]
<1> DEFINE Body(e, k) == IF k = 0 THEN 0 ELSE e[k - 1] + a[k - 1]
           E == SumUpTo(a, n)
           S == {k \in 0..n : E[k] = g[k]}
<1>1. g = [k \in 0..n |-> Body(g, k)]
  <2>1. ASSUME NEW k \in 0..n PROVE g[k] = Body(g, k)
    <3>1. k = 0 \/ k \in 1..n
      OBVIOUS
    <3> QED
      BY <3>1 DEF AddsUp
  <2> HIDE DEF Body
  <2> QED
    BY <2>1
<1>2. E = [k \in 0..n |-> Body(E, k)]
  <2>1. \E e : e = [k \in 0..n |-> Body(e, k)]
    <3> HIDE DEF Body
    <3> QED
      BY <1>1
  <2> QED
    BY <2>1, Zenon DEF SumUpTo
<1>3. E[0] = 0 /\ \A k \in 1..n : E[k] = E[k - 1] + a[k - 1]
  <2> HIDE DEF E
  <2>1. \A k \in 0..n : E[k] = Body(E, k)
    <3> HIDE DEF Body
    <3> QED
      BY <1>2
  <2>2. 0 \in 0..n /\ \A k \in 1..n : k \in 0..n /\ k # 0
    OBVIOUS
  <2> QED
    BY <2>1, <2>2
<1> HIDE DEF E
<1>4. ASSUME NEW k \in 1..n, k - 1 \in S PROVE k \in S
  BY <1>3, <1>4 DEF AddsUp
<1>5. S = 0..n
  <2>1. S \in SUBSET (0..n) /\ 0 \in S
    BY <1>3 DEF AddsUp
  <2> HIDE DEF S
  <2> QED
    BY <1>4, <2>1, InductionUpTo
<1> QED
  BY <1>5, SumIs DEF E

\* There is such a function, for any array of numbers.
LEMMA SumExists ==
  ASSUME NEW n \in Nat, NEW a, \A k \in 1..n : a[k - 1] \in Int
  PROVE  \E g \in [0..n -> Int] : AddsUp(g, a, n)
<1> DEFINE next == [k \in 1..n |-> [t \in Int |-> t + a[k - 1]]]
<1>1. next \in Steps(n, Int) /\ 0 \in Int
  <2>1. \A k \in 1..n : a[k - 1] \in Int
    OBVIOUS
  <2>2. \A k \in 1..n : [t \in Int |-> t + a[k - 1]] \in [Int -> Int]
    BY <2>1
  <2> QED
    BY <2>2 DEF Steps
<1>2. PICK g \in [0..n -> Int] : g[0] = 0 /\ \A k \in 1..n : g[k] = next[k][g[k - 1]]
  <2>1. PICK X, first : X = Int /\ first = 0
    OBVIOUS
  <2>2. first \in X /\ next \in Steps(n, X)
    BY <1>1, <2>1
  <2> HIDE DEF next
  <2>3. \E g \in [0..n -> X] : g[0] = first /\ \A k \in 1..n : g[k] = next[k][g[k - 1]]
    BY <2>2, RecursionUpTo
  <2> QED
    BY <2>1, <2>3
<1>3. ASSUME NEW k \in 1..n PROVE g[k] = g[k - 1] + a[k - 1]
  <2>1. k - 1 \in 0..n
    OBVIOUS
  <2>2. g[k - 1] \in Int
    BY <2>1
  <2> QED
    BY <1>2, <2>2
<1> QED
  BY <1>2, <1>3 DEF AddsUp

\* The last element is added to the sum of the others.
LEMMA SumWithLast ==
  ASSUME NEW n \in Nat, NEW a, \A k \in 1..(n + 1) : a[k - 1] \in Int
  PROVE  /\ SumOf(a, n) \in Int
         /\ SumOf(a, n + 1) = SumOf(a, n) + a[n]
<1>0. n + 1 \in Nat
  OBVIOUS
<1>1. PICK g \in [0..(n + 1) -> Int] : AddsUp(g, a, n + 1)
  BY <1>0, SumExists
<1>2. SumOf(a, n + 1) = g[n + 1]
  BY <1>0, <1>1, SumFound
<1>3. SumOf(a, n) = g[n] /\ g[n] \in Int
  <2> DEFINE h == [k \in 0..n |-> g[k]]
  <2>1. h \in [0..n -> Int]
    OBVIOUS
  <2>2. AddsUp(h, a, n)
    BY <1>1 DEF AddsUp
  <2>3. h[n] = g[n] /\ g[n] \in Int
    OBVIOUS
  <2> HIDE DEF h
  <2> QED
    BY <2>1, <2>2, <2>3, SumFound
<1>4. g[n + 1] = g[n] + a[n]
  <2>1. n + 1 \in 1..(n + 1) /\ (n + 1) - 1 = n
    OBVIOUS
  <2> QED
    BY <1>1, <2>1 DEF AddsUp
<1> QED
  BY <1>2, <1>3, <1>4

\* An array and the same array backwards have the same sum.
LEMMA SumBackwards ==
  ASSUME NEW n \in Nat, NEW a, NEW b,
         \A k \in 1..n : a[k - 1] \in Int /\ b[k - 1] = a[n - k]
  PROVE  SumOf(a, n) = SumOf(b, n)
<1>0. \A k \in 1..n : b[k - 1] \in Int
  <2>1. ASSUME NEW k \in 1..n PROVE b[k - 1] \in Int
    <3>1. (n - k) + 1 \in 1..n /\ ((n - k) + 1) - 1 = n - k
      OBVIOUS
    <3>2. a[n - k] \in Int
      BY <3>1
    <3> QED
      BY <3>2
  <2> QED
    BY <2>1
<1>1. PICK g \in [0..n -> Int] : AddsUp(g, a, n)
  BY SumExists
<1>2. PICK h \in [0..n -> Int] : AddsUp(h, b, n)
  BY <1>0, SumExists
<1> DEFINE S == {k \in 0..n : g[n - k] + h[k] = g[n]}
<1>3. ASSUME NEW k \in 1..n, k - 1 \in S PROVE k \in S
  <2>1. /\ n - k \in 0..n /\ k - 1 \in 0..n /\ (n - k) + 1 \in 1..n
        /\ ((n - k) + 1) - 1 = n - k /\ n - (k - 1) = (n - k) + 1
    OBVIOUS
  <2>2. g[(n - k) + 1] = g[n - k] + a[n - k]
    BY <1>1, <2>1 DEF AddsUp
  <2>3. h[k] = h[k - 1] + a[n - k]
    BY <1>2 DEF AddsUp
  <2>4. a[n - k] \in Int
    BY <2>1
  <2>5. g[n - k] \in Int /\ h[k - 1] \in Int
    BY <2>1
  <2>6. g[(n - k) + 1] + h[k - 1] = g[n]
    BY <1>3, <2>1
  <2>7. PICK x \in Int, y \in Int, z \in Int : x = g[n - k] /\ y = h[k - 1] /\ z = a[n - k]
    BY <2>4, <2>5
  <2>8. g[n] = (x + z) + y /\ h[k] = y + z
    BY <2>2, <2>3, <2>6, <2>7
  <2>9. g[n - k] + h[k] = g[n] /\ k \in 0..n
    BY <2>7, <2>8
  <2> QED
    BY <2>9
<1>4. S = 0..n
  <2>1. S \in SUBSET (0..n) /\ 0 \in S
    <3>1. n - 0 = n /\ n \in 0..n /\ 0 \in 0..n
      OBVIOUS
    <3>2. g[n] \in Int /\ h[0] = 0
      BY <1>2, <3>1 DEF AddsUp
    <3>3. g[n - 0] + h[0] = g[n]
      BY <3>1, <3>2
    <3> QED
      BY <3>1, <3>3
  <2> HIDE DEF S
  <2> QED
    BY <1>3, <2>1, InductionUpTo
<1>5. g[0] + h[n] = g[n] /\ g[0] = 0 /\ h[n] \in Int
  <2>1. n \in S /\ n - n = 0
    BY <1>4
  <2>2. g[0] + h[n] = g[n]
    BY <2>1
  <2> QED
    BY <1>1, <2>2 DEF AddsUp
<1>6. SumOf(a, n) = g[n] /\ SumOf(b, n) = h[n]
  BY <1>1, <1>2, SumFound
<1> QED
  BY <1>5, <1>6

-----------------------------------------------------------------------------
\* A natural number that an int holds is not cut.
LEMMA CutIs ==
  ASSUME NEW n \in Nat, 2 * n < IntWidth
  PROVE  Cut(n) = n
<1>1. PICK h \in Nat : IntWidth = 2 * h
  BY ExercisesAssumption
<1>2. IntWidth \div 2 = h
  BY <1>1
<1>3. n + h \in 0..(IntWidth - 1) /\ IntWidth \in Nat
  BY <1>1
<1>4. (n + h) % IntWidth = n + h
  BY <1>3
<1> QED
  BY <1>2, <1>4 DEF Cut

-----------------------------------------------------------------------------
\* The digit with that many digits behind it, and what a digit counts for.
Digit(x, j) == (x \div 10^j) % 10
Doubled(d) == IF 2 * d > 9 THEN 2 * d - 9 ELSE 2 * d

\* A digit is one.
LEMMA DigitIs ==
  ASSUME NEW x \in Nat, NEW j \in 0..(SinDigits - 1)
  PROVE  Digit(x, j) \in 0..9
<1>1. 10^j \in Int /\ 10^j > 0
  BY ExercisesAssumption
<1>2. PICK p \in Int : p = 10^j /\ p > 0
  BY <1>1
<1>3. x \div p \in Int
  BY <1>2
<1> QED
  BY <1>2, <1>3 DEF Digit

\* The two digits of a product of a digit.
LEMMA ProductDigits ==
  ASSUME NEW d \in 0..9
  PROVE  /\ ((1 * d) % 10) + (1 * d) \div 10 = d
         /\ ((2 * d) % 10) + (2 * d) \div 10 = Doubled(d)
<1>1. d \in {0, 1, 2, 3, 4, 5, 6, 7, 8, 9}
  OBVIOUS
<1> QED
  BY <1>1 DEF Doubled

\* check_sin() on the digits of x: every second one doubled.
LEMMA CheckSinIs ==
  ASSUME NEW n \in Int, NEW x \in Nat, x = Abs(n)
  PROVE  check_sin(populate_array(n)) <=> x % 10 = CheckDigit(x)
<1> DEFINE D == SinDigits
           P == populate_array(n)
           R == [i \in DOMAIN P |-> LET product == (IF i % 2 # 0 THEN 2 ELSE 1) * P[i]
                                    IN  (product % 10) + product \div 10]
           W == [j \in 0..(D - 2) |-> IF j % 2 = 0 THEN Doubled(Digit(x, j + 1)) ELSE Digit(x, j + 1)]
<1>1. PICK h \in Nat : D = 2 * h + 1
  BY ExercisesAssumption
<1>2. ASSUME NEW i \in 0..(D - 1)
      PROVE  /\ i \in DOMAIN P /\ P[i] = Digit(x, D - 1 - i) /\ Digit(x, D - 1 - i) \in 0..9
             /\ R[i] = IF i % 2 # 0 THEN Doubled(P[i]) ELSE P[i]
  <2>1. i \in DOMAIN P /\ P[i] = Digit(x, D - 1 - i)
    BY DEF populate_array, Digit
  <2>2. D - 1 - i \in 0..(D - 1)
    BY <1>1
  <2>3. Digit(x, D - 1 - i) \in 0..9
    BY <2>2, DigitIs
  <2>4. R[i] = IF i % 2 # 0 THEN ((2 * P[i]) % 10) + (2 * P[i]) \div 10
                            ELSE ((1 * P[i]) % 10) + (1 * P[i]) \div 10
    <3> HIDE DEF P
    <3> QED
      BY <2>1
  <2> HIDE DEF P, R
  <2>5. P[i] \in 0..9
    BY <2>1, <2>3
  <2> QED
    BY <2>1, <2>3, <2>4, <2>5, ProductDigits
<1> HIDE DEF P
<1>3. check_sin(P) <=> SumOf(R, D) % 10 = 0
  BY DEF check_sin
<1>4. CheckDigit(x) = (10 - (SumOf(W, D - 1) % 10)) % 10
  BY DEF CheckDigit, Doubled, Digit
<1>5. ASSUME NEW k \in 1..(D - 1) PROVE W[k - 1] = R[(D - 1) - k]
  <2>1. PICK i \in 0..(D - 1) : i = (D - 1) - k
    <3>1. (D - 1) - k \in 0..(D - 1)
      BY <1>1
    <3> QED
      BY <3>1
  <2>2. D - 1 - i = k /\ (k - 1) + 1 = k /\ k - 1 \in 0..(D - 2)
    BY <1>1, <2>1
  <2>3. (k - 1) % 2 = 0 <=> i % 2 # 0
    BY <1>1, <2>1
  <2>4. P[i] = Digit(x, k) /\ R[i] = IF i % 2 # 0 THEN Doubled(P[i]) ELSE P[i]
    BY <1>2, <2>2
  <2>5. W[k - 1] = IF (k - 1) % 2 = 0 THEN Doubled(Digit(x, k)) ELSE Digit(x, k)
    BY <2>2
  <2> HIDE DEF R, W
  <2> QED
    BY <2>1, <2>3, <2>4, <2>5
<1>6. ASSUME NEW i \in 0..(D - 1) PROVE R[i] \in Int
  <2> HIDE DEF R
  <2>1. P[i] \in 0..9 /\ R[i] = IF i % 2 # 0 THEN Doubled(P[i]) ELSE P[i]
    BY <1>2
  <2>2. Doubled(P[i]) \in Int
    BY <2>1 DEF Doubled
  <2> QED
    BY <2>1, <2>2
<1> HIDE DEF R, W
<1>7. D - 1 \in Nat /\ (D - 1) + 1 = D /\ D - 1 \in 0..(D - 1)
  BY <1>1
<1>8. PICK m \in Nat : m = D - 1
  BY <1>7
<1>9. \A k \in 1..m : R[k - 1] \in Int /\ W[k - 1] = R[m - k]
  <2>1. ASSUME NEW k \in 1..m PROVE R[k - 1] \in Int /\ W[k - 1] = R[m - k]
    <3>1. k - 1 \in 0..(D - 1) /\ k \in 1..(D - 1)
      BY <1>8
    <3> QED
      BY <1>5, <1>6, <1>8, <3>1
  <2> QED
    BY <2>1
<1>10. SumOf(R, m) = SumOf(W, m)
  BY <1>9, SumBackwards
<1>11. SumOf(R, m) \in Int /\ SumOf(R, m + 1) = SumOf(R, m) + R[m]
  <2>1. ASSUME NEW k \in 1..(m + 1) PROVE R[k - 1] \in Int
    <3>1. k - 1 \in 0..(D - 1)
      BY <1>7, <1>8
    <3> QED
      BY <1>6, <3>1
  <2> QED
    BY <2>1, SumWithLast
<1>12. R[m] = x % 10
  <2>1. m \in 0..(D - 1) /\ D - 1 - m = 0 /\ m % 2 = 0
    BY <1>1, <1>8
  <2>2. R[m] = Digit(x, 0)
    BY <1>2, <2>1
  <2>3. 10^0 = 1
    OBVIOUS
  <2>4. Digit(x, 0) = x % 10
    BY <2>3 DEF Digit
  <2> QED
    BY <2>2, <2>4
<1>13. PICK t \in Int, d \in 0..9 : t = SumOf(R, m) /\ d = x % 10
  BY <1>11
<1>14. (t + d) % 10 = 0 <=> d = (10 - (t % 10)) % 10
  OBVIOUS
<1>15. SumOf(R, D) = t + d /\ SumOf(W, D - 1) = t
  BY <1>7, <1>8, <1>10, <1>11, <1>12, <1>13
<1> QED
  BY <1>3, <1>4, <1>13, <1>14, <1>15 DEF P

\* The check of a number, for every natural number that an int holds.
LEMMA SinIsChecked ==
  ASSUME NEW n \in Nat, 2 * n < IntWidth
  PROVE  SinAsDocumented(n)
<1>2. Cut(n) = n
  BY CutIs
<1>3. Abs(n) = n
  BY DEF Abs
<1>4. HasDigits(n) <=> n \in (10^(SinDigits - 1))..(10^SinDigits - 1)
  <2>1. 10^(SinDigits - 1) \in Int /\ 10^SinDigits \in Int
    BY ExercisesAssumption
  <2> QED
    BY <1>3, <2>1 DEF HasDigits
<1>5. check_sin(populate_array(n)) <=> n % 10 = CheckDigit(n)
  BY <1>3, CheckSinIs
<1> QED
  BY <1>2, <1>4, <1>5 DEF ValidSin, SinAsDocumented

-----------------------------------------------------------------------------
\* The first characters of a string, as many as there are.
LEMMA FirstIs ==
  ASSUME NEW X, NEW s \in Seq(X), NEW n \in Nat
  PROVE  /\ First(s, n) \in Seq(X)
         /\ Len(First(s, n)) = IF n <= Len(s) THEN n ELSE Len(s)
         /\ \A k \in 1..Len(First(s, n)) : First(s, n)[k] = s[k]
         /\ Min({n, Len(s)}) = IF n <= Len(s) THEN n ELSE Len(s)
<1>1. PICK l \in Nat : l = Len(s)
  OBVIOUS
<1>2. PICK m \in 0..l : m = IF n <= l THEN n ELSE l
  OBVIOUS
<1>3. Min({n, l}) = m
  <2>1. m \in {n, l} /\ \A y \in {n, l} : m <= y
    BY <1>2
  <2>2. \A z \in {n, l} : (\A y \in {n, l} : z <= y) => z = m
    BY <1>2
  <2> QED
    BY <2>1, <2>2 DEF Min
<1>4. First(s, n) = SubSeq(s, 1, m)
  BY <1>1, <1>3 DEF First
<1>5. SubSeq(s, 1, m) \in Seq(X) /\ Len(SubSeq(s, 1, m)) = m /\ \A k \in 1..m : SubSeq(s, 1, m)[k] = s[k]
  BY <1>1, <1>2
<1> QED
  BY <1>1, <1>2, <1>3, <1>4, <1>5

\* A string whose characters are those of another is a prefix of it.
LEMMA PrefixIs ==
  ASSUME NEW X, NEW s \in Seq(X), NEW r \in Seq(X), Len(r) <= Len(s),
         \A k \in 1..Len(r) : r[k] = s[k]
  PROVE  IsPrefix(r, s)
<1>1. SubSeq(r, 1, Len(r)) = r
  OBVIOUS
<1>2. SubSeq(s, 1, Len(r)) = r
  OBVIOUS
<1> QED
  BY <1>1, <1>2 DEF IsPrefix

\* What truncate() leaves, and what it returns.
LEMMA TruncateIs ==
  ASSUME NEW X, NEW s \in Seq(X), NEW n \in Nat
  PROVE  TruncateAsDocumented(s, n)
<1>1. CASE Len(s) <= n
  <2>1. truncate(s, n) = <<s, 0>> /\ Min({n, Len(s)}) = Len(s)
    <3>1. PICK l \in Nat : l = Len(s)
      OBVIOUS
    <3>2. Min({n, l}) = IF n <= l THEN n ELSE l
      BY <3>1, FirstIs
    <3> QED
      BY <1>1, <3>1, <3>2 DEF truncate
  <2>2. IsPrefix(s, s)
    BY PrefixIs
  <2> QED
    BY <2>1, <2>2 DEF TruncateAsDocumented
<1>2. CASE ~(Len(s) <= n)
  <2>1. truncate(s, n) = <<First(s, n), Len(s) - n>>
    BY <1>2 DEF truncate
  <2>2. PICK l \in Nat : l = Len(s)
    OBVIOUS
  <2>3. /\ First(s, n) \in Seq(X) /\ Len(First(s, n)) = n /\ Min({n, l}) = n
        /\ \A k \in 1..Len(First(s, n)) : First(s, n)[k] = s[k]
    <3>1. /\ First(s, n) \in Seq(X)
          /\ Len(First(s, n)) = IF n <= Len(s) THEN n ELSE Len(s)
          /\ \A k \in 1..Len(First(s, n)) : First(s, n)[k] = s[k]
          /\ Min({n, Len(s)}) = IF n <= Len(s) THEN n ELSE Len(s)
      BY FirstIs, Zenon
    <3>2. n <= l
      BY <1>2, <2>2
    <3> QED
      BY <2>2, <3>1, <3>2
  <2>4. IsPrefix(First(s, n), s)
    BY <1>2, <2>2, <2>3, PrefixIs
  <2> QED
    BY <2>1, <2>2, <2>3, <2>4 DEF TruncateAsDocumented
<1> QED
  BY <1>1, <1>2

\* What copy() leaves.
LEMMA CopyIs ==
  ASSUME NEW X, NEW s \in Seq(X), NEW n \in Nat
  PROVE  CopyAsDocumented(s, n)
<1> SUFFICES ASSUME n > 0
             PROVE  /\ IsPrefix(copy(s, n), s)
                    /\ Len(copy(s, n)) = Min({Len(s), n - 1})
  BY DEF CopyAsDocumented
<1>1. PICK l \in Nat : l = Len(s)
  OBVIOUS
<1>2. PICK m \in Nat : m = n - 1
  OBVIOUS
<1>3. Min({l, m}) = IF m <= l THEN m ELSE l
  <2>1. {l, m} = {m, l}
    OBVIOUS
  <2> QED
    BY <1>1, <2>1, FirstIs
<1>4. CASE l < n
  <2>1. copy(s, n) = s /\ IsPrefix(s, s)
    BY <1>1, <1>4, PrefixIs DEF copy
  <2> QED
    BY <1>1, <1>2, <1>3, <1>4, <2>1
<1>5. CASE ~(l < n)
  <2>1. copy(s, n) = First(s, m)
    BY <1>1, <1>2, <1>5 DEF copy
  <2>2. /\ First(s, m) \in Seq(X) /\ Len(First(s, m)) = m
        /\ \A k \in 1..Len(First(s, m)) : First(s, m)[k] = s[k]
    <3>1. /\ First(s, m) \in Seq(X)
          /\ Len(First(s, m)) = IF m <= Len(s) THEN m ELSE Len(s)
          /\ \A k \in 1..Len(First(s, m)) : First(s, m)[k] = s[k]
      BY FirstIs, Zenon
    <3>2. m <= l
      BY <1>1, <1>2, <1>5
    <3> QED
      BY <1>1, <3>1, <3>2
  <2>3. IsPrefix(First(s, m), s)
    BY <1>1, <1>2, <1>5, <2>2, PrefixIs
  <2> QED
    BY <1>1, <1>2, <1>3, <1>5, <2>1, <2>2, <2>3
<1> QED
  BY <1>4, <1>5

\* The two halves of an array.
LEMMA SplitIs ==
  ASSUME NEW X, NEW s \in Seq(X)
  PROVE  SplitAsDocumented(s)
<1>1. PICK l \in Nat : l = Len(s)
  OBVIOUS
<1>2. PICK u \in Nat, v \in Nat : u = (l + 1) \div 2 /\ v = ((l + 1) - 1) \div 2
  OBVIOUS
<1> DEFINE odd  == [j \in 1..u |-> s[2 * j - 1]]
           even == [j \in 1..v |-> s[2 * j]]
<1>3. split_array(s, l + 1) = <<odd, even>>
  BY <1>2 DEF split_array
<1>4. Len(odd) = u /\ Len(even) = v /\ u + v = l
  BY <1>2
<1>5. ASSUME NEW i \in 0..(l - 1)
      PROVE  <<odd, even>>[1 + (i % 2)][1 + (i \div 2)] = s[i + 1]
  <2>1. PICK h \in Nat : i \div 2 = h /\ (i = 2 * h \/ i = 2 * h + 1)
    <3>1. i \div 2 \in Nat
      OBVIOUS
    <3>2. i = 2 * (i \div 2) \/ i = 2 * (i \div 2) + 1
      OBVIOUS
    <3> QED
      BY <3>1, <3>2
  <2>2. CASE i = 2 * h
    <3>1. i % 2 = 0 /\ h + 1 \in 1..u /\ 2 * (h + 1) - 1 = i + 1
      BY <1>2, <2>1, <2>2
    <3>2. odd[h + 1] = s[i + 1]
      BY <3>1
    <3> HIDE DEF odd, even
    <3> QED
      BY <2>1, <3>1, <3>2
  <2>3. CASE i = 2 * h + 1
    <3>1. i % 2 = 1 /\ h + 1 \in 1..v /\ 2 * (h + 1) = i + 1
      BY <1>2, <2>1, <2>3
    <3>2. even[h + 1] = s[i + 1]
      BY <3>1
    <3> HIDE DEF odd, even
    <3> QED
      BY <2>1, <3>1, <3>2
  <2> QED
    BY <2>1, <2>2, <2>3
<1> HIDE DEF odd, even
<1> QED
  <2>1. split_array(s, l + 1)[1] = odd /\ split_array(s, l + 1)[2] = even
    BY <1>3
  <2>2. \A i \in 0..(l - 1) : split_array(s, l + 1)[1 + (i % 2)][1 + (i \div 2)] = s[i + 1]
    BY <1>3, <1>5
  <2> QED
    BY <1>1, <1>4, <2>1, <2>2 DEF SplitAsDocumented

\* The question marks at the end of a string.
LEMMA StripIs ==
  ASSUME NEW X, NEW s \in Seq(X)
  PROVE  StripAsDocumented(s)
<1> DEFINE Stop == {k \in 0..Len(s) : k = Len(s) \/ s[Len(s) - k] # "?"}
<1>1. PICK l \in Nat : l = Len(s)
  OBVIOUS
<1>2. PICK i \in Stop : \A y \in Stop : i <= y
  <2>1. Stop \subseteq Nat /\ l \in Stop
    BY <1>1
  <2> HIDE DEF Stop
  <2> QED
    BY <2>1, LeastNumber
<1>3. i \in 0..l /\ (i = l \/ s[l - i] # "?")
  BY <1>1, <1>2
<1>4. Min(Stop) = i
  <2>1. \A y \in Stop : y \in Nat
    BY <1>1
  <2> HIDE DEF Stop
  <2>2. \A z \in Stop : (\A y \in Stop : z <= y) => z = i
    BY <1>2, <2>1
  <2> QED
    BY <1>2, <2>2 DEF Min
<1>5. strip_q_marks(s) = <<First(s, l - i), i>>
  BY <1>1, <1>4 DEF strip_q_marks
<1>6. PICK m \in Nat : m = l - i
  BY <1>3
<1>7. /\ First(s, m) \in Seq(X) /\ Len(First(s, m)) = m
      /\ \A k \in 1..m : First(s, m)[k] = s[k]
  <2>1. /\ First(s, m) \in Seq(X)
        /\ Len(First(s, m)) = IF m <= Len(s) THEN m ELSE Len(s)
        /\ \A k \in 1..Len(First(s, m)) : First(s, m)[k] = s[k]
    BY FirstIs, Zenon
  <2>2. m <= l
    BY <1>3, <1>6
  <2> QED
    BY <1>1, <2>1, <2>2
<1>8. ASSUME NEW k \in 1..i PROVE s[m + k] = "?"
  <2>1. i - k \in 0..l /\ ~(i <= i - k) /\ l - (i - k) = m + k /\ i - k # l
    BY <1>3, <1>6
  <2>2. i - k \notin Stop
    BY <1>2, <2>1
  <2> QED
    BY <1>1, <2>1, <2>2
<1> DEFINE marks == [k \in 1..i |-> "?"]
           r == First(s, m)
<1>9. s = r \o marks
  <2>1. marks \in Seq({"?"}) /\ Len(marks) = i
    BY <1>3
  <2> HIDE DEF r
  <2>2. r \o marks \in Seq(X \cup {"?"}) /\ s \in Seq(X \cup {"?"}) /\ Len(r \o marks) = m + i /\ m + i = l
    BY <1>3, <1>6, <1>7, <2>1 DEF r
  <2>3. ASSUME NEW k \in 1..l PROVE (r \o marks)[k] = s[k]
    <3>1. CASE k <= m
      <4>1. k \in 1..m
        BY <3>1
      <4>2. (r \o marks)[k] = r[k]
        BY <1>7, <2>1, <4>1 DEF r
      <4> QED
        BY <1>7, <4>1, <4>2 DEF r
    <3>2. CASE ~(k <= m)
      <4>1. k - m \in 1..i /\ m + (k - m) = k
        BY <1>3, <1>6, <3>2
      <4>2. (r \o marks)[k] = marks[k - m]
        BY <1>7, <2>1, <3>2, <4>1 DEF r
      <4> QED
        BY <1>8, <4>1, <4>2
    <3> QED
      BY <3>1, <3>2
  <2> HIDE DEF marks
  <2> QED
    BY <1>1, <2>2, <2>3
<1>10. r # << >> => Last(r) # "?"
  <2>1. ASSUME r # << >> PROVE m \in 1..m /\ i # l
    BY <1>3, <1>6, <1>7, <2>1
  <2> QED
    BY <1>3, <1>6, <1>7, <2>1 DEF Last
<1>11. strip_q_marks(s) = <<r, i>>
  BY <1>5, <1>6
<1> HIDE DEF r
<1> QED
  <2>1. strip_q_marks(s)[1] = r /\ strip_q_marks(s)[2] = i
    BY <1>11
  <2> QED
    BY <1>9, <1>10, <2>1 DEF StripAsDocumented

\* As much as fits of a message, a blank and a name, one after the other, is
\* as much as fits of the three.
SameGreeting(blank, message, name, c) ==
  First(Append(First(message, c), blank), c)
    \o First(name, c - Len(First(Append(First(message, c), blank), c)))
    = First(message \o <<blank>> \o name, c)

\* That is so for a blank, and for any other character.
LEMMA FitsInTurn ==
  ASSUME NEW Y, NEW blank \in Y, NEW message \in Seq(Y), NEW name \in Seq(Y), NEW c \in Nat
  PROVE  SameGreeting(blank, message, name, c)
<1>2. PICK l \in Nat : l = Len(message)
  OBVIOUS
<1> DEFINE first == First(message, c)
           space == First(Append(first, blank), c)
           third == First(name, c - Len(space))
           whole == message \o <<blank>> \o name
<1>3. /\ first \in Seq(Y) /\ Len(first) = IF c <= Len(message) THEN c ELSE Len(message)
      /\ \A k \in 1..Len(first) : first[k] = message[k]
  BY FirstIs, Zenon
<1>4. Append(first, blank) \in Seq(Y) /\ Len(Append(first, blank)) = Len(first) + 1
      /\ Append(first, blank)[Len(first) + 1] = blank
      /\ \A k \in 1..Len(first) : Append(first, blank)[k] = first[k]
  <2> HIDE DEF first
  <2> QED
    BY <1>3
<1>5. /\ space \in Seq(Y)
      /\ Len(space) = IF c <= Len(Append(first, blank)) THEN c ELSE Len(Append(first, blank))
      /\ \A k \in 1..Len(space) : space[k] = Append(first, blank)[k]
  <2> HIDE DEF first
  <2> QED
    BY <1>4, FirstIs, Zenon
<1> HIDE DEF first
<1>6. PICK b \in Nat : b = Len(space) /\ b = IF l < c THEN l + 1 ELSE c
  <2> HIDE DEF space
  <2> QED
    BY <1>2, <1>3, <1>4, <1>5
<1>7. PICK d \in Nat : d = c - b
  <2> HIDE DEF space
  <2>1. b <= c /\ b \in Nat
    BY <1>6
  <2> QED
    BY <2>1
<1>8. /\ third \in Seq(Y) /\ Len(third) = IF d <= Len(name) THEN d ELSE Len(name)
      /\ \A k \in 1..Len(third) : third[k] = name[k]
  <2>1. third = First(name, d)
    BY <1>6, <1>7
  <2> HIDE DEF third, space
  <2> QED
    BY <2>1, FirstIs, Zenon
<1>9. PICK q \in Nat : q = Len(name)
  OBVIOUS
<1>10. /\ whole \in Seq(Y) /\ Len(whole) = l + 1 + q
       /\ \A k \in 1..l : whole[k] = message[k]
       /\ whole[l + 1] = blank
       /\ \A k \in 1..q : whole[l + 1 + k] = name[k]
  <2>1. <<blank>> \in Seq(Y) /\ Len(<<blank>>) = 1 /\ <<blank>>[1] = blank
    OBVIOUS
  <2>2. PICK h \in Seq(Y) : h = message \o <<blank>>
    <3>1. message \o <<blank>> \in Seq(Y)
      BY <2>1, ConcatProperties
    <3> QED
      BY <3>1
  <2>3. Len(h) = l + 1 /\ h[l + 1] = blank /\ \A k \in 1..l : h[k] = message[k]
    BY <1>2, <2>1, <2>2
  <2>4. whole = h \o name
    BY <2>2
  <2> HIDE DEF whole
  <2>5. /\ whole \in Seq(Y) /\ Len(whole) = (l + 1) + q
        /\ \A k \in 1..(l + 1) : whole[k] = h[k]
        /\ \A k \in 1..q : whole[(l + 1) + k] = name[k]
    <3>1. /\ whole \in Seq(Y) /\ Len(whole) = Len(h) + Len(name)
          /\ \A k \in 1..(Len(h) + Len(name)) :
               whole[k] = IF k <= Len(h) THEN h[k] ELSE name[k - Len(h)]
      <4>1. /\ h \o name \in Seq(Y) /\ Len(h \o name) = Len(h) + Len(name)
            /\ \A k \in 1..(Len(h) + Len(name)) :
                 (h \o name)[k] = IF k <= Len(h) THEN h[k] ELSE name[k - Len(h)]
        BY ConcatProperties
      <4> QED
        BY <2>4, <4>1, Zenon
    <3>2. ASSUME NEW k \in 1..q PROVE whole[(l + 1) + k] = name[k]
      <4>1. /\ (l + 1) + k \in 1..(Len(h) + Len(name)) /\ ~((l + 1) + k <= Len(h))
            /\ ((l + 1) + k) - Len(h) = k
        BY <1>9, <2>3
      <4> QED
        BY <3>1, <4>1
    <3>3. ASSUME NEW k \in 1..(l + 1) PROVE whole[k] = h[k]
      <4>1. k \in 1..(Len(h) + Len(name)) /\ k <= Len(h)
        BY <1>9, <2>3
      <4> QED
        BY <3>1, <4>1
    <3> QED
      BY <1>9, <2>3, <3>1, <3>2, <3>3
  <2> QED
    BY <2>3, <2>5
<1> DEFINE cutOff == First(whole, c)
<1>11. /\ cutOff \in Seq(Y) /\ Len(cutOff) = IF c <= Len(whole) THEN c ELSE Len(whole)
       /\ \A k \in 1..Len(cutOff) : cutOff[k] = whole[k]
  <2> HIDE DEF whole
  <2> QED
    BY <1>10, FirstIs, Zenon
<1> HIDE DEF space, third, whole, cutOff
<1>12. ASSUME NEW k \in 1..b PROVE space[k] = whole[k]
  <2>1. CASE l < c
    <3>1. Len(first) = l /\ b = l + 1
      BY <1>2, <1>3, <1>6, <2>1
    <3>2. space[k] = Append(first, blank)[k]
      BY <1>5, <1>6
    <3>3. CASE k = l + 1
      BY <1>4, <1>10, <3>1, <3>2, <3>3
    <3>4. CASE k # l + 1
      <4>1. k \in 1..l
        BY <3>1, <3>4
      <4> QED
        BY <1>3, <1>4, <1>10, <3>1, <3>2, <4>1
    <3> QED
      BY <3>3, <3>4
  <2>2. CASE ~(l < c)
    <3>1. Len(first) = c /\ b = c /\ k \in 1..l /\ k \in 1..c
      BY <1>2, <1>3, <1>6, <2>2
    <3>2. space[k] = Append(first, blank)[k]
      BY <1>5, <1>6
    <3> QED
      BY <1>3, <1>4, <1>10, <3>1, <3>2
  <2> QED
    BY <2>1, <2>2
<1>13. PICK t \in Nat : t = Len(third) /\ t = IF d <= q THEN d ELSE q
  BY <1>8, <1>9
<1>14. Len(cutOff) = b + t
  BY <1>6, <1>7, <1>10, <1>11, <1>13
<1>15. ASSUME NEW k \in 1..t PROVE third[k] = whole[b + k]
  <2>1. b = l + 1 /\ k \in 1..q
    BY <1>6, <1>7, <1>13
  <2> QED
    BY <1>8, <1>10, <1>13, <2>1
<1>16. space \o third = cutOff
  <2>1. space \o third \in Seq(Y) /\ Len(space \o third) = b + t
    <3>1. space \o third \in Seq(Y) /\ Len(space \o third) = Len(space) + Len(third)
      BY <1>5, <1>8, ConcatProperties, Zenon
    <3> QED
      BY <1>6, <1>13, <3>1
  <2>2. ASSUME NEW k \in 1..(b + t) PROVE (space \o third)[k] = cutOff[k]
    <3>1. cutOff[k] = whole[k]
      BY <1>11, <1>14
    <3>2. CASE k <= b
      <4>1. k \in 1..b
        BY <3>2
      <4>2. (space \o third)[k] = space[k]
        BY <1>5, <1>6, <1>8, <4>1
      <4> QED
        BY <1>12, <3>1, <4>1, <4>2
    <3>3. CASE ~(k <= b)
      <4>1. PICK j \in 1..t : k = b + j
        <5>1. k - b \in 1..t /\ k = b + (k - b)
          BY <3>3
        <5> QED
          BY <5>1
      <4>2. (space \o third)[k] = third[j]
        <5>1. k \in (Len(space) + 1)..(Len(space) + Len(third)) /\ k - Len(space) = j
          BY <1>6, <1>13, <4>1
        <5> QED
          <6>1. \A x \in 1..(Len(space) + Len(third)) :
                  (space \o third)[x] = IF x <= Len(space) THEN space[x] ELSE third[x - Len(space)]
            <7>1. PICK u \in Seq(Y), v \in Seq(Y) : u = space /\ v = third
              BY <1>5, <1>8
            <7>2. \A x \in 1..(Len(u) + Len(v)) :
                    (u \o v)[x] = IF x <= Len(u) THEN u[x] ELSE v[x - Len(u)]
              BY ConcatProperties
            <7> QED
              BY <7>1, <7>2, Zenon
          <6>2. k \in 1..(Len(space) + Len(third)) /\ ~(k <= Len(space))
            BY <1>6, <5>1
          <6> QED
            BY <5>1, <6>1, <6>2
      <4> QED
        BY <1>15, <3>1, <4>1, <4>2
    <3> QED
      BY <3>2, <3>3
  <2> QED
    BY <1>11, <1>14, <2>1, <2>2
<1> QED
  BY <1>16 DEF SameGreeting, cutOff, whole, third, space, first

\* There is room for a zero byte.
LEMMA RoomForZero == Capacity - 1 \in Nat
  BY ExercisesAssumption

\* The greeting is as much as fits of the message, a space and the name.
LEMMA GreetingIs ==
  ASSUME NEW Y, NEW blank \in Y, blank = " ", NEW message \in Seq(Y), NEW name \in Seq(Y)
  PROVE  GreetingAsDocumented(message, name)
<1>1. PICK c \in Nat : c = Capacity - 1
  BY RoomForZero, Zenon
<1>2. SameGreeting(blank, message, name, c)
  BY FitsInTurn, Zenon
<1> QED
  BY <1>1, <1>2, Zenon DEF greeting, SameGreeting, GreetingAsDocumented

(***************************************************************************)
(* The functions do what their comments and assignments say: for every     *)
(* natural number that an int holds, every capacity and all strings of any *)
(* characters.                                                             *)
(***************************************************************************)
THEOREM FunctionsKeepTheirWord ==
  ASSUME NEW Chars, " " \in Chars
  PROVE  /\ \A n \in Nat : 2 * n < IntWidth => SinAsDocumented(n)
         /\ \A s \in Seq(Chars) :
              /\ SplitAsDocumented(s) /\ StripAsDocumented(s)
              /\ \A n \in Nat : TruncateAsDocumented(s, n) /\ CopyAsDocumented(s, n)
              /\ \A t \in Seq(Chars) : GreetingAsDocumented(s, t)
<1>1. \A n \in Nat : 2 * n < IntWidth => SinAsDocumented(n)
  BY SinIsChecked, Zenon
<1>2. ASSUME NEW s \in Seq(Chars)
      PROVE  /\ SplitAsDocumented(s) /\ StripAsDocumented(s)
             /\ \A n \in Nat : TruncateAsDocumented(s, n) /\ CopyAsDocumented(s, n)
             /\ \A t \in Seq(Chars) : GreetingAsDocumented(s, t)
  <2>1. SplitAsDocumented(s) /\ StripAsDocumented(s)
    BY SplitIs, StripIs, Zenon
  <2>2. \A n \in Nat : TruncateAsDocumented(s, n) /\ CopyAsDocumented(s, n)
    BY TruncateIs, CopyIs, Zenon
  <2>3. \A t \in Seq(Chars) : GreetingAsDocumented(s, t)
    BY GreetingIs, Zenon
  <2> QED
    BY <2>1, <2>2, <2>3, Zenon
<1> QED
  BY <1>1, <1>2, Zenon

=============================================================================
