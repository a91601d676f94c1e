-------------------------- MODULE PfactVerdictProofs ------------------------
(***************************************************************************)
(* What pfact prints and how it ends, for every set of inputs and every    *)
(* limit: the verdict is sound and given at most once, and after it every  *)
(* process ends with the exit code it owes its parent.                     *)
(***************************************************************************)
EXTENDS PfactProofs, FiniteSetTheorems

\* A step of process p.
Steps(p) == (p = 0 /\ Main) \/ (p \in Stages /\ Stage(p))

\* Main is process 0 and the filters are the others.
LEMMA Indices ==
  /\ 0 \in Procs /\ 1 \in Procs /\ Stages \subseteq Procs
  /\ \A p \in Procs : p \in Int /\ p >= 0 /\ p <= MaxProcs /\ (p # 0 => p \in Stages)
  /\ \A p \in Stages : p # 0 /\ p > 0 /\ p \in Procs /\ p - 1 \in Procs /\ (p - 1) + 1 = p
BY PfactAssumption DEF Procs, Stages

\* Every step is one of some process, or of none.
LEMMA SomebodySteps ==
  ASSUME [Next]_vars
  PROVE  (\E p \in Procs : Steps(p)) \/ UNCHANGED vars
BY Indices DEF Next, Steps

\* A step that neither reads a key, nor tries one on n, nor forks.
LEMMA PlainStep ==
  ASSUME IInv, NEW p \in Procs, Steps(p), ~Fork(p), p \in Stages => ~ReadKey(p) /\ ~TestKey(p)
  PROVE  /\ UNCHANGED <<n, key, factors>>
         /\ \A q \in Procs : q # p => /\ phase'[q] = phase[q] /\ got'[q] = got[q]
                                      /\ left'[q] = left[q] /\ seen'[q] = seen[q]
                                      /\ status'[q] = status[q]
         /\ Alive(p)' => Alive(p) /\ Tried(p)' = Tried(p)
<1> USE DEF IInv
<1>0. 0 \in Procs /\ \A q \in Stages : q \in Procs
  BY Indices
<1>a. phase \in [Procs -> Phase] /\ DOMAIN got = Procs /\ DOMAIN left = Procs
      /\ DOMAIN seen = Procs /\ DOMAIN status = Procs
  BY DEF TypeOK
\* What every such step does.
<1>1. ASSUME NEW to, UNCHANGED <<n, key, factors>>, phase' = [phase EXCEPT ![p] = to],
             got' = got \/ (\E x : got' = [got EXCEPT ![p] = x]),
             left' = left \/ (\E x : left' = [left EXCEPT ![p] = x]),
             seen' = seen \/ (\E x : seen' = [seen EXCEPT ![p] = x]),
             status' = status \/ (\E x : status' = [status EXCEPT ![p] = x]),
             \/ to = "ended"
             \/ phase[p] = "born" /\ to = "readKey"
             \/ phase[p] \in HasChild /\ to \in HasChild
             \/ phase[p] \in {"drain", "collect"} /\ to = phase[p]
      PROVE  /\ UNCHANGED <<n, key, factors>>
             /\ \A q \in Procs : q # p => /\ phase'[q] = phase[q] /\ got'[q] = got[q]
                                          /\ left'[q] = left[q] /\ seen'[q] = seen[q]
                                          /\ status'[q] = status[q]
             /\ Alive(p)' => Alive(p) /\ Tried(p)' = Tried(p)
  <2>1. phase'[p] = to /\ \A q \in Procs : q # p => phase'[q] = phase[q]
    BY <1>1, <1>a
  <2>2. \A q \in Procs : q # p => got'[q] = got[q] /\ left'[q] = left[q]
    BY <1>1, <1>a
  <2>3. \A q \in Procs : q # p => seen'[q] = seen[q] /\ status'[q] = status[q]
    BY <1>1, <1>a
  <2>4. Alive(p)' => Alive(p) /\ Tried(p)' = Tried(p)
    BY <1>1, <2>1 DEF Alive, Tried, HasChild
  <2> QED
    BY <1>1, <2>1, <2>2, <2>3, <2>4
<1>2. CASE ForkFails(p) \/ SigPipe(p) \/ DrainEnd(p) \/ CollectEnd(p) \/ Wait(p)
           \/ (p = 0 /\ MainWait)
  <2>1. /\ UNCHANGED <<n, key, factors, got, left, seen>> /\ phase' = [phase EXCEPT ![p] = "ended"]
        /\ \E x : status' = [status EXCEPT ![p] = x]
    BY <1>2 DEF ForkFails, SigPipe, DrainEnd, CollectEnd, Wait, MainWait, End
  <2> QED
    BY <1>1, <2>1
<1>3. CASE CloseWrite(p)
  BY <1>1, <1>3 DEF CloseWrite, Goto
<1>4. CASE CloseRead(p)
  <2>1. /\ UNCHANGED <<n, key, factors, seen, status>> /\ phase[p] = "closeRead"
        /\ phase' = [phase EXCEPT ![p] = IF p = 0 THEN "write" ELSE "filter"]
        /\ \E x : got' = [got EXCEPT ![p] = x]
        /\ \E x : left' = [left EXCEPT ![p] = x]
    BY <1>4 DEF CloseRead, Goto
  <2>2. (IF p = 0 THEN "write" ELSE "filter") \in HasChild /\ phase[p] \in HasChild
    BY <2>1 DEF HasChild
  <2> QED
    BY <1>1, <2>1, <2>2
<1>5. CASE FilterRead(p)
  <2>1. /\ UNCHANGED <<n, key, factors, seen, status>> /\ phase[p] = "filter"
        /\ \E x : got' = [got EXCEPT ![p] = x]
        /\ \E x : left' = [left EXCEPT ![p] = x]
        /\ \E to \in {"filter", "write"} : phase' = [phase EXCEPT ![p] = to]
    BY <1>5 DEF FilterRead, Take, Goto
  <2>2. PICK to \in {"filter", "write"} : phase' = [phase EXCEPT ![p] = to]
    BY <2>1
  <2>3. phase[p] \in HasChild /\ to \in HasChild
    BY <2>1 DEF HasChild
  <2> QED
    BY <1>1, <2>1, <2>2, <2>3
<1>6. CASE Forward(p) \/ FilterEnd(p)
  <2>1. /\ UNCHANGED <<n, key, factors, got, left, seen, status>>
        /\ phase[p] \in HasChild /\ \E to \in HasChild : phase' = [phase EXCEPT ![p] = to]
    BY <1>6 DEF Forward, Write, FilterEnd, Goto, HasChild
  <2> QED
    BY <1>1, <2>1
<1>7. CASE p = 0 /\ (Feed \/ FeedEnd)
  <2>1. CASE Feed
    <3>1. /\ UNCHANGED <<n, key, factors, left, seen, status>> /\ phase[p] = "write"
          /\ phase' = phase /\ \E x : got' = [got EXCEPT ![p] = x]
      BY <1>7, <2>1 DEF Feed, Write
    <3>2. phase' = [phase EXCEPT ![p] = "write"] /\ "write" \in HasChild
      BY <1>a, <3>1 DEF HasChild
    <3> QED
      BY <1>1, <3>1, <3>2
  <2>2. CASE FeedEnd
    <3>1. /\ UNCHANGED <<n, key, factors, got, left, seen, status>> /\ phase[p] = "write"
          /\ phase' = [phase EXCEPT ![p] = "wait"]
      BY <1>7, <2>2 DEF FeedEnd, Goto
    <3> QED
      BY <1>1, <3>1 DEF HasChild
  <2> QED
    BY <1>7, <2>1, <2>2
<1>8. CASE DrainRead(p) \/ CollectRead(p)
  <2>1. /\ UNCHANGED <<n, key, factors, status>> /\ phase[p] \in {"drain", "collect"}
        /\ phase' = phase
        /\ \E x : got' = [got EXCEPT ![p] = x]
        /\ \E x : left' = [left EXCEPT ![p] = x]
        /\ seen' = seen \/ \E x : seen' = [seen EXCEPT ![p] = x]
    BY <1>8 DEF DrainRead, CollectRead, Take
  <2>2. phase' = [phase EXCEPT ![p] = phase[p]]
    BY <1>a, <2>1
  <2> QED
    BY <1>1, <2>1, <2>2
<1> QED
  BY <1>2, <1>3, <1>4, <1>5, <1>6, <1>7, <1>8 DEF Steps, Main, Stage

-----------------------------------------------------------------------------
(***************************************************************************)
(* possible factors: which keys have been tried on n, and with what result. *)
(***************************************************************************)

\* One number behind none.
LEMMA AppendToNone ==
  ASSUME NEW x \in Nat
  PROVE  Append(<< >>, x) = <<x>> /\ Len(<<x>>) = 1 /\ <<x>>[1] = x
<1>1. << >> \in Seq(Nat) /\ <<x>> \in Seq(Nat) /\ Len(<< >>) = 0
  OBVIOUS
<1>2. /\ Append(<< >>, x) \in Seq(Nat) /\ Len(Append(<< >>, x)) = 1
      /\ Append(<< >>, x)[1] = x
  BY <1>1, AppendProperties
<1>3. Len(<<x>>) = 1 /\ <<x>>[1] = x
  OBVIOUS
<1>4. \A i \in 1..1 : Append(<< >>, x)[i] = <<x>>[i]
  BY <1>2, <1>3
<1> QED
  BY <1>1, <1>2, <1>3, <1>4, SeqEqual

\* What process p knows of the factors of n stays true, for itself or its child.
LEMMA FactorsFrame ==
  ASSUME NEW p \in Procs, NEW q \in Procs, FactorsOK(p), n' = n, factors'[q] = factors[p],
         Tried(q)' = Tried(p), \A j \in 1..Tried(p) : key'[j] = key[j]
  PROVE  FactorsOK(q)'
<1>1. CASE factors[p] = << >> /\ \A j \in 1..Tried(p) : ~Divides(key[j], n)
  <2>1. factors'[q] = << >> /\ \A j \in 1..Tried(q)' : ~Divides(key'[j], n')
    BY <1>1
  <2> QED
    BY <2>1 DEF FactorsOK
<1>2. CASE \E i \in 1..Tried(p) :
             /\ factors[p] = <<key[i]>> /\ Divides(key[i], n) /\ key[i] * key[i] < n
             /\ \A j \in 1..Tried(p) : Divides(key[j], n) => j = i
  <2>1. PICK i \in 1..Tried(p) :
          /\ factors[p] = <<key[i]>> /\ Divides(key[i], n) /\ key[i] * key[i] < n
          /\ \A j \in 1..Tried(p) : Divides(key[j], n) => j = i
    BY <1>2
  <2>2. i \in 1..Tried(q)' /\ factors'[q] = <<key'[i]>> /\ Divides(key'[i], n')
        /\ key'[i] * key'[i] < n'
    BY <2>1
  <2>3. \A j \in 1..Tried(q)' : Divides(key'[j], n') => j = i
    BY <2>1
  <2> QED
    BY <2>2, <2>3 DEF FactorsOK
<1> QED
  BY <1>1, <1>2 DEF FactorsOK

\* At most one factor has been found.
LEMMA OneFactor ==
  ASSUME NEW p \in Procs, FactorsOK(p)
  PROVE  /\ Len(factors[p]) # 1 => /\ factors[p] = << >>
                                   /\ \A j \in 1..Tried(p) : ~Divides(key[j], n)
         /\ Len(factors[p]) = 1 =>
              \E i \in 1..Tried(p) :
                /\ factors[p] = <<key[i]>> /\ factors[p][1] = key[i]
                /\ Divides(key[i], n) /\ key[i] * key[i] < n
                /\ \A j \in 1..Tried(p) : Divides(key[j], n) => j = i
<1>1. ASSUME NEW x PROVE Len(<<x>>) = 1 /\ <<x>>[1] = x
  OBVIOUS
<1>2. Len(<< >>) = 0
  OBVIOUS
<1>3. CASE factors[p] = << >> /\ \A j \in 1..Tried(p) : ~Divides(key[j], n)
  <2>1. Len(factors[p]) = 0
    BY <1>2, <1>3
  <2> QED
    BY <1>3, <2>1
<1>4. ASSUME NEW i \in 1..Tried(p),
             factors[p] = <<key[i]>> /\ Divides(key[i], n) /\ key[i] * key[i] < n,
             \A j \in 1..Tried(p) : Divides(key[j], n) => j = i
      PROVE  /\ Len(factors[p]) = 1 /\ factors[p][1] = key[i]
             /\ \E k \in 1..Tried(p) :
                  /\ factors[p] = <<key[k]>> /\ factors[p][1] = key[k]
                  /\ Divides(key[k], n) /\ key[k] * key[k] < n
                  /\ \A j \in 1..Tried(p) : Divides(key[j], n) => j = k
  <2>1. Len(factors[p]) = 1 /\ factors[p][1] = key[i]
    BY <1>1, <1>4
  <2> QED
    BY <1>4, <2>1
<1> QED
  BY <1>3, <1>4 DEF FactorsOK

\* A filter tries its key: it goes on, or reads its pipe to the end.
LEMMA FactoredTest ==
  ASSUME IInv, Factored, NEW p \in Stages, TestKey(p)
  PROVE  Factored'
<1> USE DEF IInv
<1>0. p \in Procs /\ p - 1 \in Int /\ p \in Int /\ p > 0
  BY Indices
<1>1. /\ phase[p] = "test" /\ UNCHANGED <<n, key, got>> /\ key[p] \in Nat /\ FactorsOK(p)
      /\ Tried(p) = p - 1
  <2>1. phase[p] = "test" /\ UNCHANGED <<n, key, got>>
    BY DEF TestKey
  <2> QED
    BY <1>0, <2>1 DEF TypeOK, Factored, Alive, Tried, HasChild
<1>2. ASSUME NEW to, NEW q \in Procs, q # p, phase' = [phase EXCEPT ![p] = to],
             factors'[q] = factors[q], Alive(q)'
      PROVE  FactorsOK(q)'
  <2>1. phase'[q] = phase[q]
    BY <1>2 DEF TypeOK
  <2>2. Alive(q) /\ Tried(q)' = Tried(q)
    BY <1>2, <2>1 DEF Alive, Tried
  <2> QED
    BY <1>1, <1>2, <2>2, FactorsFrame DEF Factored
<1>3. CASE NoFactor(p)
  <2>1. phase' = [phase EXCEPT ![p] = "fork"] /\ factors' = factors /\ ~Divides(key[p], n)
    BY <1>3 DEF NoFactor
  <2>2. Tried(p)' = p
    BY <1>0, <2>1 DEF Tried, TypeOK
  <2>3. \A j \in 1..p : j \in 1..(p - 1) \/ j = p
    BY <1>0
  <2>4. FactorsOK(p)'
    <3>1. CASE factors[p] = << >> /\ \A j \in 1..(p - 1) : ~Divides(key[j], n)
      BY <1>1, <2>1, <2>2, <2>3, <3>1 DEF FactorsOK
    <3>2. ASSUME NEW i \in 1..(p - 1),
                 factors[p] = <<key[i]>> /\ Divides(key[i], n) /\ key[i] * key[i] < n,
                 \A j \in 1..(p - 1) : Divides(key[j], n) => j = i
          PROVE  FactorsOK(p)'
      <4>1. i \in 1..p /\ \A j \in 1..p : Divides(key[j], n) => j = i
        BY <1>0, <2>1, <2>3, <3>2
      <4> QED
        BY <1>1, <2>1, <2>2, <3>2, <4>1 DEF FactorsOK
    <3> QED
      BY <1>1, <3>1, <3>2 DEF FactorsOK
  <2> QED
    BY <1>2, <2>1, <2>4 DEF Factored
<1>4. CASE FirstFactor(p)
  <2>1. /\ phase' = [phase EXCEPT ![p] = "fork"] /\ Divides(key[p], n) /\ key[p] * key[p] < n
        /\ factors' = [factors EXCEPT ![p] = Append(factors[p], key[p])] /\ Len(factors[p]) # 1
    BY <1>4 DEF FirstFactor, Below
  <2>2. Tried(p)' = p
    BY <1>0, <2>1 DEF Tried, TypeOK
  <2>3. factors[p] = << >> /\ \A j \in 1..(p - 1) : ~Divides(key[j], n)
    BY <1>0, <1>1, <2>1, OneFactor
  <2>4. factors'[p] = <<key[p]>> /\ \A q \in Procs : q # p => factors'[q] = factors[q]
    BY <1>0, <1>1, <2>1, <2>3, AppendToNone DEF TypeOK
  <2>5. p \in 1..p /\ \A j \in 1..p : Divides(key[j], n) => j = p
    BY <1>0, <2>3
  <2>6. FactorsOK(p)'
    BY <1>1, <2>1, <2>2, <2>4, <2>5 DEF FactorsOK
  <2> QED
    BY <1>2, <2>1, <2>4, <2>6 DEF Factored
<1>5. CASE SecondFactor(p) \/ SquareRoot(p) \/ BeyondRoot(p)
  <2>1. factors' = factors /\ \E to \in {"drain", "collect"} : phase' = [phase EXCEPT ![p] = to]
    BY <1>5 DEF SecondFactor, SquareRoot, BeyondRoot
  <2>2. PICK to \in {"drain", "collect"} : phase' = [phase EXCEPT ![p] = to]
    BY <2>1
  <2>3. Tried(p)' = Tried(p)
    BY <1>0, <1>1, <2>2 DEF Tried, TypeOK, HasChild
  <2>4. FactorsOK(p)'
    BY <1>0, <1>1, <2>1, <2>3, FactorsFrame
  <2> QED
    BY <1>2, <2>1, <2>2, <2>4 DEF Factored
<1>6. CASE StackOverflow(p)
  <2>1. factors' = factors /\ phase' = [phase EXCEPT ![p] = "ended"]
    BY <1>6 DEF StackOverflow, End
  <2>2. ~Alive(p)'
    BY <1>0, <2>1 DEF Alive, TypeOK
  <2> QED
    BY <1>2, <2>1, <2>2 DEF Factored
<1> QED
  BY <1>3, <1>4, <1>5, <1>6 DEF TestKey

\* The child inherits what its parent knows of the factors of n.
LEMMA FactoredFork ==
  ASSUME IInv, Factored, NEW p \in Procs, Fork(p)
  PROVE  Factored'
<1> USE PfactAssumption DEF IInv
<1>1. /\ p + 1 \in Procs /\ p \in Int /\ p + 1 # p /\ p >= 0 /\ phase[p] = "fork"
      /\ phase' = [phase EXCEPT ![p] = "closeRead", ![p + 1] = "born"]
      /\ factors' = [factors EXCEPT ![p + 1] = factors[p]] /\ n' = n
  BY DEF Fork, Procs
<1>2. /\ \A j \in Procs : j <= p => key'[j] = key[j]
      /\ \A q \in Procs : p < q => phase[q] = "unborn"
  BY <1>1, ForkKeys DEF Chain, Childless
<1>3. /\ phase'[p] = "closeRead" /\ phase'[p + 1] = "born" /\ factors'[p + 1] = factors[p]
      /\ \A q \in Procs : q # p + 1 => factors'[q] = factors[q]
      /\ \A q \in Procs : q # p + 1 /\ q # p => phase'[q] = phase[q]
  BY <1>1 DEF TypeOK
<1>4. FactorsOK(p) /\ Tried(p) = p /\ Tried(p)' = p /\ Tried(p + 1)' = p
  BY <1>1, <1>3 DEF Factored, Alive, Tried, HasChild
<1>5. \A j \in 1..p : key'[j] = key[j]
  BY <1>1, <1>2 DEF Procs
<1>6. FactorsOK(p)' /\ FactorsOK(p + 1)'
  BY <1>1, <1>3, <1>4, <1>5, FactorsFrame
<1>7. ASSUME NEW q \in Procs, q # p, q # p + 1, Alive(q)' PROVE FactorsOK(q)'
  <2>1. phase'[q] = phase[q] /\ Alive(q) /\ Tried(q)' = Tried(q)
    BY <1>3, <1>7 DEF Alive, Tried
  <2>2. q \in Int /\ q < p
    BY <1>1, <1>2, <1>7, <2>1 DEF Alive, Procs
  <2>3. \A j \in 1..Tried(q) : key'[j] = key[j]
    BY <1>1, <1>5, <2>2 DEF Tried
  <2> QED
    BY <1>1, <1>3, <1>7, <2>1, <2>3, FactorsFrame DEF Factored
<1> QED
  BY <1>6, <1>7 DEF Factored

\* A key that is read has not been tried yet.
LEMMA FactoredReadKey ==
  ASSUME IInv, Factored, NEW p \in Stages, ReadKey(p)
  PROVE  Factored'
<1> USE PfactAssumption DEF IInv
<1>1. /\ p \in Procs /\ p \in Int /\ p > 0 /\ phase[p] = "readKey" /\ UNCHANGED <<n, factors>>
      /\ phase' = [phase EXCEPT ![p] = "test"]
  BY Indices DEF ReadKey, Goto
<1>2. phase'[p] = "test" /\ \A q \in Procs : q # p => phase'[q] = phase[q]
  BY <1>1 DEF TypeOK
<1>3. \A q \in Procs : p < q => phase[q] = "unborn"
  BY <1>1 DEF Chain, Childless
<1>4. ASSUME NEW q \in Procs, Alive(q)' PROVE FactorsOK(q)'
  <2>1. Alive(q) /\ Tried(q)' = Tried(q)
    BY <1>1, <1>2, <1>4 DEF Alive, Tried, HasChild
  <2>2. q \in Int /\ q <= p
    BY <1>1, <1>3, <2>1 DEF Alive, Procs
  <2>3. Tried(q) \in Int /\ Tried(q) < p
    BY <1>1, <2>2 DEF Tried, HasChild
  <2>4. \A j \in 1..Tried(q) : j \in Procs /\ j # p
    BY <1>1, <2>3 DEF Procs
  <2> QED
    BY <1>1, <2>1, <2>4, ReadKeys, FactorsFrame DEF Factored
<1> QED
  BY <1>4 DEF Factored

\* Every step keeps what the processes know of the factors of n.
LEMMA FactoredStep ==
  ASSUME IInv, Factored, NEW p \in Procs, Steps(p)
  PROVE  Factored'
<1>1. CASE Fork(p)
  BY <1>1, FactoredFork
<1>2. CASE p \in Stages /\ (ReadKey(p) \/ TestKey(p))
  BY <1>2, FactoredReadKey, FactoredTest
<1>3. CASE ~Fork(p) /\ (p \in Stages => ~ReadKey(p) /\ ~TestKey(p))
  <2>1. ASSUME NEW q \in Procs, Alive(q)' PROVE FactorsOK(q)'
    <3>1. UNCHANGED <<n, key, factors>> /\ Alive(q) /\ Tried(q)' = Tried(q)
      BY <1>3, <2>1, PlainStep DEF Alive, Tried
    <3> QED
      BY <2>1, <3>1, FactorsFrame DEF Factored
  <2> QED
    BY <2>1 DEF Factored
<1> QED
  BY <1>1, <1>2, <1>3

-----------------------------------------------------------------------------
(***************************************************************************)
(* The last filter: why it drains its pipe, and what it collects.          *)
(***************************************************************************)

\* While one filter reads its pipe to the end nobody else touches what it knows.
LEMMA LastIsLeftAlone ==
  ASSUME IInv, NEW p \in Procs, Steps(p), NEW q \in Procs, q # p,
         phase'[q] \in {"drain", "collect"}
  PROVE  /\ UNCHANGED <<n, key, factors>> /\ phase'[q] = phase[q] /\ got'[q] = got[q]
         /\ left'[q] = left[q] /\ seen'[q] = seen[q]
<1> USE DEF IInv
<1>1. ASSUME phase[q] \in {"drain", "collect"}, phase[p] \in {"fork", "readKey", "test"}
      PROVE  FALSE
  <2>1. p < q \/ q < p
    BY Indices
  <2> QED
    BY <1>1, <2>1 DEF Chain, Childless
<1>2. CASE Fork(p)
  <2>1. p + 1 \in Procs /\ phase[p] = "fork"
        /\ phase' = [phase EXCEPT ![p] = "closeRead", ![p + 1] = "born"]
    BY <1>2, PfactAssumption DEF Fork, Procs
  <2>2. phase[q] \in {"drain", "collect"}
    BY <2>1 DEF TypeOK
  <2> QED
    BY <1>1, <2>1, <2>2
<1>3. CASE p \in Stages /\ ReadKey(p)
  <2>1. phase[p] = "readKey" /\ phase' = [phase EXCEPT ![p] = "test"]
    BY <1>3 DEF ReadKey, Goto
  <2>2. phase[q] \in {"drain", "collect"}
    BY <2>1 DEF TypeOK
  <2> QED
    BY <1>1, <2>1, <2>2
<1>4. CASE p \in Stages /\ TestKey(p)
  <2>1. phase[p] = "test" /\ \E to : phase' = [phase EXCEPT ![p] = to]
    BY <1>4 DEF TestKey, NoFactor, FirstFactor, SecondFactor, SquareRoot, BeyondRoot,
                StackOverflow, End
  <2>2. phase[q] \in {"drain", "collect"}
    BY <2>1 DEF TypeOK
  <2> QED
    BY <1>1, <2>1, <2>2
<1> QED
  BY <1>2, <1>3, <1>4, PlainStep

\* The key a filter has read has passed all filters before it.
LEMMA KeySurvives ==
  ASSUME IInv, NEW p \in Stages, HasKey(p)
  PROVE  Prime(key[p]) /\ key[p] \in Nat /\ Survives(key[p], p - 1)
<1> USE DEF IInv
<1>1. Prime(key[p]) /\ key[p] \in Nat /\ p \in Procs /\ \A j \in 1..(p - 1) : key[j] < key[p]
  BY Indices DEF Keys, KeyOK, TypeOK
<1>2. ASSUME NEW j \in 1..(p - 1) PROVE ~Divides(key[j], key[p])
  <2>1. j \in Stages /\ j < p /\ j \in Procs /\ phase[p] # "unborn"
    BY PfactAssumption DEF Stages, Procs, HasKey
  <2>2. HasKey(j)
    BY <1>1, <2>1, Ancestors
  <2>3. Prime(key[j]) /\ key[j] \in Nat
    BY <2>1, <2>2 DEF Keys, KeyOK, TypeOK
  <2> QED
    BY <1>1, <2>3, DivisorOfPrime DEF Prime
<1> QED
  BY <1>1, <1>2 DEF Survives

\* A filter that has tried its key knows why it goes on reading.
LEMMA JudgingTest ==
  ASSUME IInv, NEW p \in Stages, TestKey(p)
  PROVE  /\ phase'[p] = "drain" => DrainOK(p)'
         /\ phase'[p] = "collect" => CollectOK(p)'
<1> USE DEF IInv
<1>0. p \in Procs /\ p - 1 \in Int /\ p > 0
  BY Indices
<1>1. /\ phase[p] = "test" /\ UNCHANGED <<n, key, got>> /\ HasKey(p) /\ LoopOK(p)
      /\ key[p] \in Nat /\ n \in Nat
  <2>1. phase[p] = "test" /\ UNCHANGED <<n, key, got>>
    BY DEF TestKey
  <2> QED
    BY <1>0, <2>1, PfactAssumption DEF HasKey, Loops, TypeOK
<1>2. CASE NoFactor(p) \/ FirstFactor(p) \/ StackOverflow(p)
  <2>1. \E to \in {"fork", "ended"} : phase' = [phase EXCEPT ![p] = to]
    BY <1>2 DEF NoFactor, FirstFactor, StackOverflow, End
  <2>2. phase'[p] \in {"fork", "ended"}
    BY <1>0, <2>1 DEF TypeOK
  <2> QED
    BY <2>2
<1>3. CASE SecondFactor(p) \/ SquareRoot(p)
  <2>1. phase'[p] = "drain"
    BY <1>0, <1>3 DEF SecondFactor, SquareRoot, TypeOK
  <2>2. factors' = factors /\ DrainOK(p)
    BY <1>3 DEF SecondFactor, SquareRoot, Below, DrainOK
  <2>3. DrainOK(p)'
    BY <1>1, <2>2 DEF DrainOK
  <2> QED
    BY <2>1, <2>3
<1>4. CASE BeyondRoot(p)
  <2>1. /\ key[p] * key[p] > n /\ phase'[p] = "collect" /\ left'[p] = n - 2
        /\ seen'[p] = {key[p]}
    BY <1>0, <1>4 DEF BeyondRoot, TypeOK
  <2>2. got[p] = key[p] /\ key[p] \in 2..n /\ Survives(key[p], p - 1)
    BY <1>1, KeySurvives DEF LoopOK
  <2>3. key'[p] * key'[p] > n' /\ left'[p] + got'[p] >= n' - 2 + key'[p]
    BY <1>1, <2>1, <2>2
  <2>4. \A m \in seen'[p] : m \in 2..n' /\ Survives(m, p - 1)'
    <3>1. Survives(key[p], p - 1)'
      BY <1>1, <2>2 DEF Survives
    <3> QED
      BY <1>1, <2>1, <2>2, <3>1
  <2>5. \A m \in 2..n' :
          Survives(m, p - 1)' /\ key'[p] <= m /\ m <= got'[p] => m \in seen'[p]
    BY <1>1, <2>1, <2>2
  <2> QED
    BY <2>1, <2>3, <2>4, <2>5 DEF CollectOK
<1> QED
  BY <1>2, <1>3, <1>4 DEF TestKey

\* What is read beyond the root is collected, and nothing is skipped.
LEMMA JudgingCollect ==
  ASSUME IInv, NEW p \in Stages, CollectRead(p), CollectOK(p)
  PROVE  CollectOK(p)'
<1> USE DEF IInv
<1> DEFINE h == Head(pipe[p - 1])
<1>0. p \in Procs /\ p - 1 \in Procs
  BY Indices
<1>1. /\ UNCHANGED <<n, key>> /\ got'[p] = h /\ h \in 2..n /\ got[p] < h /\ Survives(h, p - 1)
      /\ pipe[p - 1] # << >> /\ phase[p] = "collect" /\ key[p] \in Nat /\ got[p] \in Nat
      /\ left[p] \in Nat /\ n \in Nat /\ HasKey(p)
  <2>1. /\ UNCHANGED <<n, key>> /\ got' = [got EXCEPT ![p] = h] /\ h \in 2..n
        /\ got[p] < h /\ Survives(h, p - 1) /\ pipe[p - 1] # << >> /\ HasKey(p)
    BY ReadEffect
  <2>2. phase[p] = "collect"
    BY DEF CollectRead
  <2> QED
    BY <1>0, <2>1, <2>2, PfactAssumption DEF TypeOK
<1>2. left'[p] = left[p] - 1 /\ seen'[p] = seen[p] \cup {h}
  <2>1. left' = [left EXCEPT ![p] = left[p] - 1] /\ seen' = [seen EXCEPT ![p] = seen[p] \cup {h}]
    BY DEF CollectRead, Take
  <2> QED
    BY <1>0, <2>1 DEF TypeOK
<1> HIDE DEF h
<1>3. key'[p] * key'[p] > n'
  BY <1>1 DEF CollectOK
<1>4. left'[p] + got'[p] >= n' - 2 + key'[p]
  BY <1>1, <1>2 DEF CollectOK
<1>5. \A m, k : Survives(m, k)' <=> Survives(m, k)
  BY <1>1 DEF Survives
<1>6. \A m \in seen'[p] : m \in 2..n' /\ Survives(m, p - 1)'
  BY <1>1, <1>2, <1>5 DEF CollectOK
<1>7. ASSUME NEW m \in 2..n, Survives(m, p - 1), key[p] <= m, m <= h
      PROVE  m \in seen'[p]
  <2>1. CASE m = h
    BY <1>2, <2>1
  <2>2. CASE m # h
    <3>1. m < h
      BY <1>1, <1>7, <2>2
    <3>2. m <= got[p]
      BY <1>0, <1>1, <1>7, <3>1, Gap DEF h
    <3> QED
      BY <1>2, <1>7, <3>2 DEF CollectOK
  <2> QED
    BY <2>1, <2>2
<1> QED
  BY <1>1, <1>3, <1>4, <1>5, <1>6, <1>7 DEF CollectOK

\* Every step keeps what the last filter knows.
LEMMA JudgingStep ==
  ASSUME IInv, Judging, NEW p \in Procs, Steps(p)
  PROVE  Judging'
<1> USE DEF IInv
<1>1. ASSUME NEW q \in Stages, q # p, phase'[q] \in {"drain", "collect"}
      PROVE  /\ phase'[q] = "drain" => DrainOK(q)'
             /\ phase'[q] = "collect" => CollectOK(q)'
  <2>1. /\ UNCHANGED <<n, key, factors>> /\ phase'[q] = phase[q] /\ got'[q] = got[q]
        /\ left'[q] = left[q] /\ seen'[q] = seen[q]
    BY <1>1, Indices, LastIsLeftAlone
  <2>2. phase[q] = "drain" /\ DrainOK(q) => DrainOK(q)'
    BY <2>1 DEF DrainOK
  <2>3. phase[q] = "collect" /\ CollectOK(q) => CollectOK(q)'
    <3>1. \A m, k : Survives(m, k)' <=> Survives(m, k)
      BY <2>1 DEF Survives
    <3> QED
      BY <2>1, <3>1 DEF CollectOK
  <2> QED
    BY <2>1, <2>2, <2>3 DEF Judging
<1>2. ASSUME p \in Stages
      PROVE  /\ phase'[p] = "drain" => DrainOK(p)'
             /\ phase'[p] = "collect" => CollectOK(p)'
  <2>1. Stage(p) /\ phase \in [Procs -> Phase]
    BY <1>2, Indices DEF Steps, TypeOK
  <2>2. CASE TestKey(p)
    BY <1>2, <2>2, JudgingTest
  <2>3. CASE DrainRead(p)
    <3>1. phase' = phase /\ phase[p] = "drain" /\ UNCHANGED <<n, key, factors>>
      BY <2>3 DEF DrainRead
    <3> QED
      BY <1>2, <3>1 DEF Judging, DrainOK
  <2>4. CASE CollectRead(p)
    <3>1. phase' = phase /\ phase[p] = "collect"
      BY <2>4 DEF CollectRead
    <3> QED
      BY <1>2, <2>4, <3>1, JudgingCollect DEF Judging
  <2>5. CASE Fork(p)
    <3>1. p \in Int /\ p + 1 # p /\ phase' = [phase EXCEPT ![p] = "closeRead", ![p + 1] = "born"]
      BY <2>5, Indices DEF Fork
    <3>2. phase'[p] = "closeRead"
      BY <2>1, <3>1
    <3> QED
      BY <3>2
  <2>6. CASE ~(TestKey(p) \/ DrainRead(p) \/ CollectRead(p) \/ Fork(p))
    <3>1. \E to \in {"readKey", "test", "write", "filter", "wait", "ended"} :
            phase' = [phase EXCEPT ![p] = to]
      BY <2>1, <2>6 DEF Stage, CloseWrite, ReadKey, ForkFails, CloseRead, FilterRead, Forward,
                        SigPipe, FilterEnd, DrainEnd, CollectEnd, Wait, Goto, End
    <3>2. phase'[p] \notin {"drain", "collect"}
      BY <2>1, <3>1
    <3> QED
      BY <3>2
  <2> QED
    BY <2>2, <2>3, <2>4, <2>5, <2>6
<1> QED
  BY <1>1, <1>2 DEF Judging

\* When the last filter stops reading it has read all that can come, and its
\* parent has nothing left to write.
LEMMA InputRead ==
  ASSUME IInv, Judging, Closing, NEW p \in Stages, phase[p] \in {"drain", "collect"}, LoopEnds(p)
  PROVE  /\ \A m \in 2..n : Survives(m, p - 1) => m <= got[p]
         /\ phase[p - 1] = "wait" \/ (p = 1 /\ phase[0] = "write" /\ got[0] = n + 1)
<1> USE DEF IInv
<1>0. /\ p \in Procs /\ p - 1 \in Procs /\ (p - 1) + 1 = p /\ p - 1 < MaxProcs /\ p > 0
      /\ 0 \in Procs /\ 1 \in Stages
  BY Indices, PfactAssumption DEF Stages, Procs
<1>1. HasKey(p) /\ Alive(p) /\ LoopOK(p) /\ NextHasKey(p - 1)
  <2>1. HasKey(p)
    BY <1>0 DEF HasKey
  <2> QED
    BY <1>0, <2>1 DEF Alive, Loops, NextHasKey
<1>2. /\ key[p] \in Nat /\ got[p] \in Nat /\ n \in Nat /\ key[p] >= 2 /\ got[p] <= n
      /\ got[0] \in Nat
  BY <1>0, <1>1, PfactAssumption DEF LoopOK, TypeOK
<1>3. CASE EOF(p - 1)
  <2>1. phase[p - 1] = "wait"
    BY <1>1, <1>3, EndOfInput
  <2>2. NoneLost(p - 1) /\ pipe[p - 1] = << >>
    BY <1>0, <1>3, <2>1 DEF Complete, HasChild, EOF
  <2>3. \A m : ~Contains(p - 1, m)
    BY <2>2 DEF Contains
  <2> QED
    BY <1>0, <2>1, <2>2, <2>3 DEF NoneLost
<1>4. CASE left[p] = 0
  <2>1. phase[p] = "collect" /\ got[p] = n /\ key[p] = 2
    <3>1. phase[p] = "drain" => got[p] >= n - 1 + key[p]
      BY <1>1, <1>2, <1>4 DEF LoopOK
    <3>2. phase[p] = "collect" => got[p] >= n - 2 + key[p]
      BY <1>2, <1>4 DEF Judging, CollectOK
    <3> QED
      BY <1>2, <3>1, <3>2
  <2>2. p = 1
    <3>1. ASSUME p # 1 PROVE FALSE
      <4>0. p \in Int
        BY <1>0, Indices
      <4>1. 1 < p /\ 1 \in 1..(p - 1) /\ phase[p] # "unborn"
        BY <1>0, <3>1, <4>0
      <4>2. HasKey(1) /\ key[1] < key[p]
        BY <1>0, <1>1, <4>1, Ancestors DEF Keys, KeyOK
      <4>3. key[1] >= 2 /\ key[1] \in Nat
        BY <1>0, <4>2, Indices DEF Loops, LoopOK, TypeOK
      <4> QED
        BY <2>1, <4>2, <4>3
    <3> QED
      BY <3>1
  <2>3. Ahead(0, got[1]) /\ 0 + 1 = 1
    BY <1>0, <1>1, <2>2 DEF Pipes, PipeOK
  <2>4. n < got[0]
    BY <2>1, <2>2, <2>3 DEF Ahead
  <2>5. phase[0] \in {"closeRead", "write", "wait"}
    BY <1>0, <2>2 DEF Chain, Childless, HasChild, Closing
  <2>6. phase[0] = "wait" \/ (phase[0] = "write" /\ got[0] = n + 1)
    BY <1>2, <2>4, <2>5 DEF Loops
  <2> QED
    BY <2>1, <2>2, <2>6
<1> QED
  BY <1>3, <1>4 DEF LoopEnds


-----------------------------------------------------------------------------
(***************************************************************************)
(* The verdict is sound.                                                   *)
(***************************************************************************)

\* What may be printed for m.
Sound(v, m) ==
  \/ v = Answer(m)
  \/ /\ v.result = 2
     /\ v.factors[1] * v.factors[2] = m
     /\ v.factors[1] < v.factors[2]
     /\ Prime(v.factors[1])

\* The filters before one that exists have their keys, which are primes.
LEMMA KeysBefore ==
  ASSUME IInv, NEW p \in Stages, phase[p] # "unborn", NEW j \in 1..(p - 1)
  PROVE  /\ j \in Stages /\ j \in Procs /\ j < p /\ HasKey(j)
         /\ key[j] \in Nat /\ Prime(key[j]) /\ key[j] > 1
<1> USE DEF IInv
<1>1. j \in Stages /\ j < p /\ j \in Procs /\ p \in Procs
  BY PfactAssumption DEF Stages, Procs
<1>2. HasKey(j)
  BY <1>1, Ancestors
<1>3. key[j] \in Nat /\ Prime(key[j])
  BY <1>1, <1>2 DEF Keys, KeyOK, TypeOK
<1> QED
  BY <1>1, <1>2, <1>3 DEF Prime

\* What a filter with a key knows of it.
LEMMA KeyFacts ==
  ASSUME IInv, NEW p \in Stages, HasKey(p)
  PROVE  /\ key[p] \in Nat \ {0} /\ key[p] > 1 /\ key[p] <= n
         /\ \A x \in 2..key[p] : ~Survives(x, p)
<1>1. p \in Procs /\ key[p] \in Nat /\ got[p] \in Nat /\ n \in Nat
  BY Indices, PfactAssumption DEF IInv, TypeOK
<1>2. 2 <= key[p] /\ key[p] <= got[p] /\ got[p] <= n
  BY DEF IInv, Loops, LoopOK
<1>3. \A x \in 2..key[p] : ~Survives(x, p)
  BY DEF IInv, Keys, KeyOK
<1> QED
  BY <1>1, <1>2, <1>3

\* A number that has passed all filters before p and is below the square of
\* p's key is a prime.
LEMMA SievedIsPrime ==
  ASSUME IInv, NEW p \in Stages, HasKey(p), NEW m \in 2..n, Survives(m, p - 1),
         m < key[p] * key[p]
  PROVE  Prime(m)
<1> USE DEF IInv
<1>0. p \in Procs /\ p \in Int /\ n \in Nat /\ m \in Nat /\ m > 1 /\ phase[p] # "unborn"
  BY Indices, PfactAssumption DEF TypeOK, HasKey
<1>1. key[p] \in Nat /\ key[p] > 1 /\ \A x \in 2..key[p] : ~Survives(x, p)
  BY <1>0, KeyFacts
<1>2. SUFFICES ASSUME ~Prime(m) PROVE FALSE
  OBVIOUS
<1>3. PICK d \in 2..(m - 1) : Divides(d, m) /\ d * d <= m
  BY <1>0, <1>2, SmallDivisor
<1>4. d < key[p]
  <2>1. key[p] <= d => key[p] * key[p] <= d * d
    BY <1>0, <1>1
  <2>2. d * d < key[p] * key[p]
    BY <1>0, <1>1, <1>3
  <2> QED
    BY <1>0, <1>1, <2>1, <2>2
<1>5. PICK j \in 1..p : Divides(key[j], d)
  <2>1. d \in 2..key[p]
    BY <1>0, <1>1, <1>4
  <2> QED
    BY <1>1, <2>1 DEF Survives
<1>6. j # p
  BY <1>0, <1>1, <1>4, <1>5, DivisorAtMost
<1>7. j \in 1..(p - 1)
  BY <1>0, <1>5, <1>6
<1>8. key[j] \in Nat \ {0}
  BY <1>0, <1>7, KeysBefore
<1>9. Divides(key[j], m)
  BY <1>0, <1>3, <1>5, <1>8, DividesTransitive
<1> QED
  BY <1>7, <1>9 DEF Survives

\* A prime cofactor has been read: it passes every filter before the last.
LEMMA PrimeCofactorSeen ==
  ASSUME IInv, Judging, Closing, NEW p \in Stages, phase[p] = "collect", LoopEnds(p),
         NEW i \in 1..(p - 1), Divides(key[i], n), key[i] * key[i] < n,
         Prime(n \div key[i])
  PROVE  n \div key[i] \in seen[p]
<1> USE DEF IInv
<1> DEFINE e == n \div key[i]
<1>0. p \in Procs /\ p \in Int /\ n \in Nat /\ HasKey(p) /\ phase[p] # "unborn"
  BY Indices, PfactAssumption DEF TypeOK, HasKey
<1>1. key[i] \in Nat /\ key[i] > 1
  BY <1>0, KeysBefore
<1>2. e \in Nat /\ n = key[i] * e /\ Prime(e)
  <2>1. key[i] \in Nat \ {0}
    BY <1>1
  <2>2. e \in Nat /\ n = key[i] * e
    BY <1>0, <2>1, Quotient
  <2> QED
    BY <2>2
<1> HIDE DEF e
<1>3. key[i] < e
  <2>1. e <= key[i] => key[i] * e <= key[i] * key[i]
    BY <1>1, <1>2
  <2> QED
    BY <1>0, <1>1, <1>2, <2>1
<1>4. n < e * e /\ e <= n /\ e > 1
  <2>1. key[i] * e < e * e
    BY <1>1, <1>2, <1>3
  <2>2. e <= key[i] * e
    BY <1>1, <1>2
  <2> QED
    BY <1>1, <1>2, <1>3, <2>1, <2>2
<1>5. ASSUME NEW j \in 1..(p - 1) PROVE ~Divides(key[j], e)
  <2>1. j \in Stages /\ j \in Procs /\ j < p /\ HasKey(j) /\ key[j] \in Nat /\ key[j] > 1
    BY <1>0, KeysBefore
  <2>2. phase[j] \in HasChild
    BY <1>0, <2>1, AliveGroups DEF Chain, Alive
  <2>3. key[j] * key[j] < n
    BY <2>1, <2>2 DEF Loops, LoopOK, Below
  <2>4. Divides(key[j], e) => key[j] = e
    BY <1>2, <2>1, DivisorOfPrime
  <2>5. key[j] # e
    <3>1. ASSUME key[j] = e PROVE FALSE
      <4>1. e * e < n
        BY <2>3, <3>1
      <4>2. e * e \in Nat
        BY <1>2
      <4> QED
        BY <1>0, <1>4, <4>1, <4>2
    <3> QED
      BY <3>1
  <2> QED
    BY <2>4, <2>5
<1>6. Survives(e, p - 1)
  BY <1>5 DEF Survives
<1>7. key[p] <= e
  <2>1. key[p] \in Nat /\ key[p] > 1 /\ \A x \in 2..key[p] : ~Survives(x, p)
    BY <1>0, KeyFacts
  <2>2. ASSUME e < key[p] PROVE FALSE
    <3>1. e \in 2..key[p]
      BY <1>2, <1>4, <2>1, <2>2
    <3>2. PICK j \in 1..p : Divides(key[j], e)
      BY <2>1, <3>1 DEF Survives
    <3>3. j # p
      BY <1>2, <1>4, <2>1, <2>2, <3>2, DivisorAtMost
    <3> QED
      BY <1>0, <1>5, <3>2, <3>3
  <2> QED
    BY <1>2, <2>1, <2>2
<1>8. e \in 2..n /\ e <= got[p]
  BY <1>0, <1>2, <1>4, <1>6, InputRead
<1>9. e \in seen[p]
  BY <1>6, <1>7, <1>8 DEF Judging, CollectOK
<1> QED
  BY <1>9 DEF e

\* What the filters before the last have found, when it judges.
LEMMA FactorsFound ==
  ASSUME IInv, Factored, NEW p \in Stages, phase[p] \in {"drain", "collect"}
  PROVE  /\ Len(factors[p]) # 1 => \A j \in 1..(p - 1) : ~Divides(key[j], n)
         /\ Len(factors[p]) = 1 =>
              \E i \in 1..(p - 1) :
                /\ factors[p] = <<key[i]>> /\ factors[p][1] = key[i]
                /\ Divides(key[i], n) /\ key[i] * key[i] < n
                /\ key[i] \in Nat /\ key[i] > 1 /\ Prime(key[i])
<1>1. p \in Procs /\ Alive(p) /\ Tried(p) = p - 1 /\ phase[p] # "unborn"
  BY Indices DEF Alive, Tried, HasChild
<1>2. FactorsOK(p)
  BY <1>1 DEF Factored
<1>3. CASE factors[p] = << >> /\ \A j \in 1..Tried(p) : ~Divides(key[j], n)
  BY <1>1, <1>3
<1>4. ASSUME NEW i \in 1..(p - 1), factors[p] = <<key[i]>>, Divides(key[i], n),
             key[i] * key[i] < n
      PROVE  /\ Len(factors[p]) = 1 /\ factors[p] = <<key[i]>> /\ factors[p][1] = key[i]
             /\ Divides(key[i], n) /\ key[i] * key[i] < n
             /\ key[i] \in Nat /\ key[i] > 1 /\ Prime(key[i])
  <2>1. key[i] \in Nat /\ key[i] > 1 /\ Prime(key[i])
    BY <1>1, KeysBefore
  <2>2. Len(<<key[i]>>) = 1 /\ <<key[i]>>[1] = key[i]
    BY <2>1, AppendToNone
  <2> QED
    BY <1>4, <2>1, <2>2
<1> QED
  BY <1>1, <1>2, <1>3, <1>4 DEF FactorsOK

\* The verdict of a filter that drains its pipe.
LEMMA DrainSound ==
  ASSUME IInv, Factored, Judging, NEW p \in Stages, phase[p] = "drain"
  PROVE  Sound(IF key[p] * key[p] = n THEN Verdict(1, <<key[p], key[p]>>)
               ELSE Verdict(3, << >>), n)
<1> USE DEF IInv
<1>0. p \in Procs /\ p \in Int /\ n \in Nat /\ HasKey(p) /\ DrainOK(p) /\ phase[p] # "unborn"
  BY Indices, PfactAssumption DEF TypeOK, HasKey, Judging
<1>1. Prime(key[p]) /\ key[p] \in Nat
  BY <1>0, KeySurvives
<1>2. CASE key[p] * key[p] = n
  BY <1>0, <1>1, <1>2, AnswerSquare DEF Sound
<1>3. CASE key[p] * key[p] # n
  <2>1. key[p] * key[p] < n /\ Divides(key[p], n) /\ Len(factors[p]) = 1
    BY <1>0, <1>3 DEF DrainOK
  <2>2. PICK i \in 1..(p - 1) : /\ Divides(key[i], n) /\ key[i] * key[i] < n
                               /\ key[i] \in Nat /\ Prime(key[i])
    BY <2>1, FactorsFound
  <2>3. key[i] # key[p]
    BY <1>0, <1>1, <2>2 DEF Keys, KeyOK
  <2>4. Answer(n) = Verdict(3, << >>)
    BY <1>0, <1>1, <2>1, <2>2, <2>3, TwoBelowRoot
  <2> QED
    BY <1>3, <2>4 DEF Sound
<1> QED
  BY <1>2, <1>3

\* The verdict of a filter that has collected its input.
LEMMA CollectSound ==
  ASSUME IInv, Factored, Judging, Closing, NEW p \in Stages, phase[p] = "collect", LoopEnds(p)
  PROVE  /\ Len(factors[p]) # 1 => Sound(Verdict(0, << >>), n)
         /\ Len(factors[p]) = 1 =>
              /\ Sound(Verdict(2, <<factors[p][1], Cofactor(p)>>), n)
              /\ FALSE \in Finds(p) => Sound(Verdict(3, << >>), n)
<1> USE DEF IInv
<1>0. /\ p \in Procs /\ n \in Nat /\ n >= 2 /\ HasKey(p) /\ CollectOK(p) /\ key[p] \in Nat
      /\ n < key[p] * key[p]
  <2>1. p \in Procs /\ n \in Nat /\ n >= 2 /\ HasKey(p) /\ CollectOK(p) /\ key[p] \in Nat
    BY Indices, PfactAssumption DEF TypeOK, HasKey, Judging
  <2> QED
    BY <2>1 DEF CollectOK
<1>1. ASSUME Len(factors[p]) # 1 PROVE Sound(Verdict(0, << >>), n)
  <2>1. Survives(n, p - 1) /\ n \in 2..n
    BY <1>0, <1>1, FactorsFound DEF Survives
  <2>2. Prime(n)
    BY <1>0, <2>1, SievedIsPrime
  <2> QED
    BY <2>2 DEF Sound, Answer
<1>2. ASSUME Len(factors[p]) = 1
      PROVE  /\ Sound(Verdict(2, <<factors[p][1], Cofactor(p)>>), n)
             /\ FALSE \in Finds(p) => Sound(Verdict(3, << >>), n)
  <2>1. PICK i \in 1..(p - 1) :
               /\ factors[p][1] = key[i]
               /\ Divides(key[i], n) /\ key[i] * key[i] < n
               /\ key[i] \in Nat /\ key[i] > 1 /\ Prime(key[i])
    BY <1>2, FactorsFound
  <2> DEFINE e == n \div key[i]
  <2>2. e \in Nat /\ n = key[i] * e /\ Cofactor(p) = e
    <3>1. key[i] \in Nat \ {0}
      BY <2>1
    <3>2. e \in Nat /\ n = key[i] * e
      BY <1>0, <2>1, <3>1, Quotient
    <3>3. Cofactor(p) = e
      BY <2>1 DEF Cofactor
    <3> QED
      BY <3>2, <3>3
  <2>3. Sound(Verdict(2, <<factors[p][1], Cofactor(p)>>), n)
    <3> HIDE DEF e
    <3>1. key[i] < e
      <4>1. e <= key[i] => key[i] * e <= key[i] * key[i]
        BY <2>1, <2>2
      <4> QED
        BY <1>0, <2>1, <2>2, <4>1
    <3> DEFINE v == Verdict(2, <<key[i], e>>)
    <3>2. v.result = 2 /\ v.factors[1] = key[i] /\ v.factors[2] = e
      BY DEF Verdict
    <3>3. Sound(v, n)
      BY <2>1, <2>2, <3>1, <3>2 DEF Sound
    <3> QED
      BY <2>1, <2>2, <3>3
  <2>4. ASSUME FALSE \in Finds(p) PROVE Sound(Verdict(3, << >>), n)
    <3>1. e \notin seen[p]
      BY <2>2, <2>4 DEF Finds
    <3>2. ~Prime(e)
      BY <2>1, <3>1, PrimeCofactorSeen
    <3>3. Answer(n) = Verdict(3, << >>)
      BY <1>0, <2>1, <3>2, CofactorNoPrime
    <3> QED
      BY <3>3 DEF Sound
  <2> QED
    BY <2>3, <2>4
<1> QED
  BY <1>1, <1>2

\* Whoever ends with a verdict prints a sound one.
LEMMA VerdictGiven ==
  ASSUME IInv, Factored, Judging, Closing, NEW p \in Stages, DrainEnd(p) \/ CollectEnd(p)
  PROVE  \E v : printed' = Append(printed, v) /\ Sound(v, n)
<1>1. CASE DrainEnd(p)
  BY <1>1, DrainSound DEF DrainEnd
<1>2. CASE CollectEnd(p)
  <2>1. phase[p] = "collect" /\ LoopEnds(p)
    BY <1>2 DEF CollectEnd
  <2>2. CASE Len(factors[p]) # 1
    BY <1>2, <2>1, <2>2, CollectSound DEF CollectEnd
  <2>3. CASE Len(factors[p]) = 1
    <3>1. PICK find \in Finds(p) :
                 printed' = Append(printed,
                                   IF find
                                   THEN Verdict(2, <<factors[p][1], Cofactor(p)>>)
                                   ELSE Verdict(3, << >>))
      BY <1>2, <2>3 DEF CollectEnd
    <3>2. find = TRUE \/ find = FALSE
      BY DEF Finds
    <3>3. CASE find = TRUE
      BY <2>1, <2>3, <3>1, <3>3, CollectSound
    <3>4. CASE find = FALSE
      BY <2>1, <2>3, <3>1, <3>4, CollectSound
    <3> QED
      BY <3>2, <3>3, <3>4
  <2> QED
    BY <2>2, <2>3
<1> QED
  BY <1>1, <1>2

-----------------------------------------------------------------------------
(***************************************************************************)
(* After the verdict: a chain of wait()s that count.                       *)
(***************************************************************************)

\* Nobody prints but the last filter, and nobody counts but main.
LEMMA QuietStep ==
  ASSUME NEW p \in Procs, Steps(p)
  PROVE  /\ n' = n
         /\ ~(p \in Stages /\ (DrainEnd(p) \/ CollectEnd(p))) => printed' = printed
         /\ ~(p = 0 /\ MainWait) => count' = count
<1>1. CASE p = 0 /\ Main
  BY <1>1, Indices DEF Main, Fork, ForkFails, CloseRead, Feed, Write, SigPipe, FeedEnd,
                       MainWait, End
<1>2. CASE p \in Stages /\ Stage(p)
  BY <1>2, Indices DEF Stage, CloseWrite, ReadKey, TestKey, Fork, ForkFails, CloseRead, FilterRead,
                       Forward, Write, SigPipe, FilterEnd, DrainRead, DrainEnd, CollectRead,
                       CollectEnd, Wait, End
<1> QED
  BY <1>1, <1>2 DEF Steps

\* main never filters, and where it is changes by its own steps only.
LEMMA MainStays ==
  ASSUME TypeOK, NEW p \in Procs, Steps(p), phase[0] \notin {"filter", "drain", "collect"}
  PROVE  /\ phase'[0] \notin {"filter", "drain", "collect"}
         /\ p = 0 \/ phase'[0] = phase[0]
         /\ phase'[0] # "ended" => phase[0] # "ended" /\ ~(p = 0 /\ MainWait)
<1>0. 0 \in Procs /\ phase \in [Procs -> Phase] /\ p \in Int /\ p >= 0
  BY Indices DEF TypeOK
<1>1. CASE p = 0 /\ Main
  <2>1. CASE Fork(0)
    <3>1. phase'[0] = "closeRead" /\ phase[0] = "fork"
      BY <1>0, <2>1 DEF Fork
    <3> QED
      BY <1>1, <3>1 DEF MainWait
  <2>2. CASE ForkFails(0) \/ SigPipe(0) \/ MainWait
    <3>1. phase'[0] = "ended"
      BY <1>0, <2>2 DEF ForkFails, SigPipe, MainWait, End
    <3> QED
      BY <1>1, <3>1
  <2>3. CASE CloseRead(0)
    <3>1. phase'[0] = "write" /\ phase[0] = "closeRead"
      BY <1>0, <2>3 DEF CloseRead, Goto
    <3> QED
      BY <1>1, <3>1 DEF MainWait
  <2>4. CASE Feed \/ FeedEnd
    <3>1. phase'[0] \in {"write", "wait"} /\ phase[0] = "write"
      BY <1>0, <2>4 DEF Feed, FeedEnd, Goto
    <3> QED
      BY <1>1, <3>1 DEF MainWait
  <2> QED
    BY <1>1, <2>1, <2>2, <2>3, <2>4 DEF Main
<1>2. CASE p \in Stages /\ Stage(p)
  <2>1. p # 0 /\ p + 1 # 0
    BY <1>0, <1>2, Indices
  <2>2. CASE Fork(p)
    <3>1. phase'[0] = phase[0]
      BY <1>0, <2>1, <2>2 DEF Fork
    <3> QED
      BY <2>1, <3>1
  <2>3. CASE TestKey(p)
    <3>1. \E to : phase' = [phase EXCEPT ![p] = to]
      BY <2>3 DEF TestKey, NoFactor, FirstFactor, SecondFactor, SquareRoot, BeyondRoot,
                  StackOverflow, End
    <3>2. phase'[0] = phase[0]
      BY <1>0, <2>1, <3>1
    <3> QED
      BY <2>1, <3>2
  <2>4. CASE ~(Fork(p) \/ TestKey(p))
    <3>1. phase' = phase \/ \E to : phase' = [phase EXCEPT ![p] = to]
      BY <1>2, <2>4 DEF Stage, CloseWrite, ReadKey, ForkFails, CloseRead, FilterRead, Forward,
                        SigPipe, FilterEnd, DrainRead, DrainEnd, CollectRead, CollectEnd, Wait,
                        Goto, End
    <3>2. phase'[0] = phase[0]
      BY <1>0, <2>1, <3>1
    <3> QED
      BY <2>1, <3>2
  <2> QED
    BY <2>2, <2>3, <2>4
<1> QED
  BY <1>1, <1>2 DEF Steps

\* Everybody before a process that waits is waiting.
LEMMA WaitBefore ==
  ASSUME TypeOK, Chain, NEW k \in Procs, phase[k] = "wait", NEW q \in 0..k
  PROVE  phase[q] = "wait"
<1> DEFINE S == {d \in Nat : d <= k /\ phase[k - d] # "wait"}
<1>0. k \in Nat /\ q \in Nat /\ q <= k
  BY PfactAssumption DEF Procs
<1>1. SUFFICES ASSUME phase[q] # "wait" PROVE FALSE
  OBVIOUS
<1>2. k - q \in S
  <2>1. k - q \in Nat /\ k - q <= k /\ k - (k - q) = q
    BY <1>0
  <2> QED
    BY <1>1, <2>1
<1>3. PICK d \in S : \A x \in S : d <= x
  BY <1>2, LeastOf
<1>4. d \in Nat /\ d <= k /\ phase[k - d] # "wait" /\ d # 0
  <2>1. d \in Nat /\ d <= k /\ phase[k - d] # "wait"
    BY <1>3
  <2>2. k - 0 = k
    BY <1>0
  <2> QED
    BY <2>1, <2>2
<1>5. d - 1 \notin S
  BY <1>3, <1>4
<1>6. d - 1 \in Nat /\ d - 1 <= k /\ k - (d - 1) = (k - d) + 1
  BY <1>0, <1>4
<1>7. phase[(k - d) + 1] = "wait"
  BY <1>5, <1>6
<1>8. (k - d) + 1 \in Stages /\ ((k - d) + 1) - 1 = k - d
  BY <1>0, <1>4, PfactAssumption DEF Stages, Procs
<1> QED
  BY <1>4, <1>7, <1>8 DEF Chain

\* The filter that prints the verdict is the last one, and everybody before
\* it has nothing left to do but wait.
LEMMA PrinterCloses ==
  ASSUME IInv, Judging, Closing, NEW p \in Stages, DrainEnd(p) \/ CollectEnd(p)
  PROVE  Closes(p)'
<1> USE DEF IInv
<1>0. p \in Procs /\ p - 1 \in Procs /\ (p - 1) + 1 = p /\ p \in Int /\ p > 0
  BY Indices
<1>1. /\ phase[p] \in {"drain", "collect"} /\ LoopEnds(p)
      /\ phase' = [phase EXCEPT ![p] = "ended"] /\ status' = [status EXCEPT ![p] = 0]
      /\ UNCHANGED <<n, got>>
  BY DEF DrainEnd, CollectEnd, End
<1>2. phase'[p] = "ended" /\ status'[p] = 0 /\ \A q \in Procs : q # p => phase'[q] = phase[q]
  BY <1>0, <1>1 DEF TypeOK
<1>3. \A q \in Procs : q \in Int /\ q >= 0 /\ (p < q => phase[q] = "unborn")
                       /\ (q < p => phase[q] # "unborn")
  BY <1>0, <1>1, Indices DEF Chain, Childless
<1>4. ASSUME NEW q \in 0..(p - 1)
      PROVE  phase[q] = "wait" \/ (q = 0 /\ phase[0] = "write" /\ got[0] = n + 1)
  <2>1. CASE phase[p - 1] = "wait"
    BY <1>0, <2>1, WaitBefore
  <2>2. CASE p = 1 /\ phase[0] = "write" /\ got[0] = n + 1
    BY <1>4, <2>2
  <2> QED
    BY <1>1, <2>1, <2>2, InputRead
<1>5. \A q \in 0..(p - 1) : q \in Procs /\ q # p
  BY <1>0, PfactAssumption DEF Procs
<1>6. \A q \in Procs : phase'[q] = "unborn" <=> p < q
  BY <1>0, <1>2, <1>3
<1>7. \A q \in 0..(p - 1) :
        \/ phase'[q] \in {"wait", "ended"}
        \/ q = 0 /\ phase'[0] = "write" /\ got'[0] = n' + 1
  BY <1>1, <1>2, <1>4, <1>5
<1>8. \A q \in 0..(p - 1) : phase'[q] # "ended"
  BY <1>2, <1>4, <1>5
<1>9. ASSUME NEW q \in 1..p, phase'[q] = "ended" PROVE status'[q] = (p - q) % ExitMod
  <2>1. q = p
    BY <1>0, <1>8, <1>9
  <2>2. 0 % ExitMod = 0 /\ p - p = 0
    BY <1>0, PfactAssumption
  <2> QED
    BY <1>2, <2>1, <2>2
<1>10. phase'[0] # "ended"
  BY <1>0, <1>8
<1> QED
  BY <1>2, <1>6, <1>7, <1>9, <1>10 DEF Closes

\* One more, modulo what an exit code holds.
LEMMA CodeNext ==
  ASSUME NEW a \in Nat, NEW s, s = a % ExitMod, NEW b, b = a + 1
  PROVE  s \in Nat /\ (1 + s) % ExitMod = b % ExitMod
<1> USE PfactAssumption
<1> DEFINE E == ExitMod
           r == a % E
           d == a \div E
<1>1. E \in Nat /\ E > 1
  OBVIOUS
<1>2. r \in Nat /\ r < E /\ d \in Nat /\ a = E * d + r
  BY <1>1
<1> HIDE DEF E, r, d
<1>3. CASE r + 1 < E
  <2>1. a + 1 = E * d + (r + 1)
    BY <1>1, <1>2
  <2>2. (a + 1) % E = r + 1
    BY <1>1, <1>2, <1>3, <2>1
  <2>3. (1 + r) % E = r + 1
    BY <1>1, <1>2, <1>3
  <2> QED
    BY <1>2, <2>2, <2>3 DEF r, E
<1>4. CASE r + 1 = E
  <2>1. a + 1 = E * (d + 1)
    BY <1>1, <1>2, <1>4
  <2>2. (a + 1) % E = 0
    BY <1>1, <1>2, <2>1, DividesMultiple DEF Divides
  <2>3. (1 + r) % E = 0
    BY <1>1, <1>2, <1>4
  <2> QED
    BY <1>2, <2>2, <2>3 DEF r, E
<1> QED
  BY <1>1, <1>2, <1>3, <1>4

\* After the verdict only the waits remain, and each adds one.
LEMMA ClosesStep ==
  ASSUME IInv, NEW l \in Stages, Closes(l), NEW p \in Procs, Steps(p)
  PROVE  /\ Closes(l)'
         /\ ~(p \in Stages /\ (DrainEnd(p) \/ CollectEnd(p)))
<1> USE DEF IInv
<1>0. /\ 0 \in Procs /\ l \in Int /\ l > 0 /\ p \in Int /\ p >= 0 /\ l \in Procs
      /\ phase \in [Procs -> Phase] /\ status \in [Procs -> {Running, Killed} \cup 0..(ExitMod - 1)]
  BY Indices DEF TypeOK
<1>1. \/ phase[p] \in {"wait", "ended", "unborn"}
      \/ p = 0 /\ phase[0] = "write" /\ got[0] = n + 1
  <2>1. p \in 0..(l - 1) \/ p = l \/ l < p
    BY <1>0
  <2> QED
    BY <2>1 DEF Closes
\* What is left to do.
<1>2. (p \in Stages /\ Wait(p)) \/ (p = 0 /\ (MainWait \/ FeedEnd))
  <2>1. CASE phase[p] \in {"wait", "ended", "unborn"}
    <3>1. CASE p \in Stages /\ Stage(p)
      BY <2>1, <3>1 DEF Stage, CloseWrite, ReadKey, TestKey, Fork, ForkFails, CloseRead,
                        FilterRead, Forward, SigPipe, FilterEnd, DrainRead, DrainEnd, CollectRead,
                        CollectEnd, Goto
    <3>2. CASE p = 0 /\ Main
      BY <2>1, <3>2 DEF Main, Fork, ForkFails, CloseRead, Feed, SigPipe, FeedEnd, Goto
    <3> QED
      BY <3>1, <3>2 DEF Steps
  <2>2. CASE p = 0 /\ phase[0] = "write" /\ got[0] = n + 1
    <3>1. n + 1 \in Int /\ ~(n + 1 < n + 1) /\ p \notin Stages
      BY <2>2, Indices, PfactAssumption DEF TypeOK
    <3> QED
      BY <2>2, <3>1 DEF Steps, Main, Fork, ForkFails, CloseRead, Feed, SigPipe, Goto
  <2> QED
    BY <1>1, <2>1, <2>2
<1>3. ~(p \in Stages /\ (DrainEnd(p) \/ CollectEnd(p)))
  <2>1. p \in Stages => p # 0 /\ phase[p] \notin {"drain", "collect"}
    BY <1>1, Indices
  <2> QED
    BY <2>1 DEF DrainEnd, CollectEnd
<1>4. CASE p \in Stages /\ Wait(p)
  <2> DEFINE code == IF status[p + 1] = Killed THEN Failed ELSE (1 + status[p + 1]) % ExitMod
  <2>1. /\ phase[p] = "wait" /\ phase[p + 1] = "ended" /\ UNCHANGED <<n, got, count>>
        /\ phase' = [phase EXCEPT ![p] = "ended"]
        /\ status' = [status EXCEPT ![p] = code]
    BY <1>4 DEF Wait, End
  <2>2. p # 0 /\ p < l /\ p + 1 \in 1..l
    <3>1. p # 0 /\ p # l
      BY <1>4, <2>1, Indices DEF Closes
    <3>2. ~(l < p)
      BY <2>1 DEF Closes
    <3> QED
      BY <1>0, <3>1, <3>2
  <2>3. status[p + 1] = (l - (p + 1)) % ExitMod
    BY <2>1, <2>2 DEF Closes
  <2>4. l - (p + 1) \in Nat /\ (l - (p + 1)) + 1 = l - p
    BY <1>0, <2>2
  <2>5. status[p + 1] \in Nat /\ (1 + status[p + 1]) % ExitMod = (l - p) % ExitMod
    <3> DEFINE a == l - (p + 1)
               b == l - p
               s == status[p + 1]
    <3>1. a \in Nat /\ b = a + 1 /\ s = a % ExitMod
      BY <2>3, <2>4
    <3> HIDE DEF a, b, s
    <3>2. s \in Nat /\ (1 + s) % ExitMod = b % ExitMod
      BY <3>1, CodeNext
    <3> QED
      BY <3>2 DEF b, s
  <2>6. code = (l - p) % ExitMod
    BY <2>5 DEF Killed
  <2> HIDE DEF code
  <2>7. /\ phase'[p] = "ended" /\ status'[p] = code
        /\ \A q \in Procs : q # p => phase'[q] = phase[q] /\ status'[q] = status[q]
    BY <1>0, <2>1
  <2>8. \A q \in 0..l : q \in Procs
    BY <1>0, PfactAssumption DEF Procs
  <2>9. phase'[l] = "ended"
    BY <1>0, <2>2, <2>7 DEF Closes
  <2>10. \A q \in Procs : phase'[q] = "unborn" <=> l < q
    BY <1>0, <2>1, <2>7 DEF Closes
  <2>11. \A q \in 0..(l - 1) :
           \/ phase'[q] \in {"wait", "ended"}
           \/ q = 0 /\ phase'[0] = "write" /\ got'[0] = n' + 1
    BY <1>0, <2>1, <2>7, <2>8 DEF Closes
  <2>12. \A q \in 1..l : phase'[q] = "ended" => status'[q] = (l - q) % ExitMod
    BY <2>6, <2>7, <2>8 DEF Closes
  <2>13. phase'[0] = "ended" => status'[0] = 0 /\ count' = (l - 1) % ExitMod
    BY <1>0, <2>1, <2>2, <2>7 DEF Closes
  <2> QED
    BY <1>3, <2>9, <2>10, <2>11, <2>12, <2>13 DEF Closes
<1>5. CASE p = 0 /\ MainWait
  <2>1. phase[0] = "wait" /\ phase[1] = "ended" /\ 1 \in 1..l
    BY <1>0, <1>5 DEF MainWait
  <2>2. status[1] = (l - 1) % ExitMod /\ l - 1 \in Nat
    BY <1>0, <2>1 DEF Closes
  <2>3. status[1] # Killed
    BY <2>2, PfactAssumption DEF Killed
  <2>4. /\ UNCHANGED <<n, got>> /\ phase' = [phase EXCEPT ![0] = "ended"]
        /\ status' = [status EXCEPT ![0] = 0] /\ count' = status[1]
    BY <1>5, <2>3 DEF MainWait, End
  <2>5. /\ phase'[0] = "ended" /\ status'[0] = 0
        /\ \A q \in Procs : q # 0 => phase'[q] = phase[q] /\ status'[q] = status[q]
    BY <1>0, <2>4
  <2>6. \A q \in 0..l : q \in Procs
    BY <1>0, PfactAssumption DEF Procs
  <2>7. phase'[l] = "ended"
    BY <1>0, <2>5 DEF Closes
  <2>8. \A q \in Procs : phase'[q] = "unborn" <=> l < q
    BY <1>0, <2>1, <2>5 DEF Closes
  <2>9. \A q \in 0..(l - 1) :
          \/ phase'[q] \in {"wait", "ended"}
          \/ q = 0 /\ phase'[0] = "write" /\ got'[0] = n' + 1
    BY <1>0, <2>4, <2>5, <2>6 DEF Closes
  <2>10. \A q \in 1..l : phase'[q] = "ended" => status'[q] = (l - q) % ExitMod
    <3>1. \A q \in 1..l : q # 0 /\ q \in Procs
      BY <2>6
    <3> QED
      BY <2>5, <3>1 DEF Closes
  <2> QED
    BY <1>3, <2>2, <2>4, <2>5, <2>7, <2>8, <2>9, <2>10 DEF Closes
<1>6. CASE p = 0 /\ FeedEnd
  <2>1. /\ UNCHANGED <<n, got, status, count>> /\ phase[0] = "write"
        /\ phase' = [phase EXCEPT ![0] = "wait"]
    BY <1>6 DEF FeedEnd, Goto
  <2>2. phase'[0] = "wait" /\ \A q \in Procs : q # 0 => phase'[q] = phase[q]
    BY <1>0, <2>1
  <2>3. \A q \in 0..l : q \in Procs
    BY <1>0, PfactAssumption DEF Procs
  <2>4. phase'[l] = "ended"
    BY <1>0, <2>2 DEF Closes
  <2>5. \A q \in Procs : phase'[q] = "unborn" <=> l < q
    BY <1>0, <2>1, <2>2 DEF Closes
  <2>6. \A q \in 0..(l - 1) : phase'[q] \in {"wait", "ended"}
    BY <1>0, <2>2, <2>3 DEF Closes
  <2>7. \A q \in 1..l : phase'[q] = "ended" => status'[q] = (l - q) % ExitMod
    <3>1. \A q \in 1..l : q # 0 /\ q \in Procs
      BY <2>3
    <3> QED
      BY <2>1, <2>2, <3>1 DEF Closes
  <2> QED
    BY <1>3, <2>2, <2>4, <2>5, <2>6, <2>7 DEF Closes
<1> QED
  BY <1>2, <1>4, <1>5, <1>6

-----------------------------------------------------------------------------
(***************************************************************************)
(* The full invariant, and what follows from it.                           *)
(***************************************************************************)

\* Once something is printed nobody prints any more, and before it is printed
\* there is no verdict; so one is printed at most.
LEMMA ClosingStep ==
  ASSUME IInv, Factored, Judging, Closing, VerdictSound, NEW p \in Procs, Steps(p), IInv'
  PROVE  Closing' /\ VerdictSound'
<1>1. phase'[0] \notin {"filter", "drain", "collect"}
      /\ (phase'[0] # "ended" => phase[0] # "ended" /\ ~(p = 0 /\ MainWait))
  BY MainStays DEF IInv, Closing
<1>2. phase'[0] # "ended" => count' = -1
  BY <1>1, QuietStep DEF Closing
<1>3. n' = n
  BY QuietStep
<1>4. CASE p \in Stages /\ (DrainEnd(p) \/ CollectEnd(p))
  <2>1. printed = << >>
    BY <1>4, ClosesStep DEF Closing
  <2>2. PICK v : printed' = Append(printed, v) /\ Sound(v, n)
    BY <1>4, VerdictGiven
  <2>3. Closes(p)'
    BY <1>4, PrinterCloses
  <2>4. Len(printed') = 1 /\ printed'[1] = v /\ DOMAIN printed' = {1}
    BY <2>1, <2>2
  <2>5. Len(printed') <= 1
    BY <2>4
  <2>6. \A i \in DOMAIN printed' : Sound(printed'[i], n')
    BY <1>3, <2>2, <2>4
  <2>7. VerdictSound'
    <3>1. (\A i \in DOMAIN printed : Sound(printed[i], n))'
      BY <2>6 DEF Sound
    <3> QED
      BY <2>5, <3>1 DEF VerdictSound, Sound
  <2> QED
    BY <1>1, <1>2, <1>4, <2>3, <2>7 DEF Closing
<1>5. CASE ~(p \in Stages /\ (DrainEnd(p) \/ CollectEnd(p)))
  <2>1. printed' = printed
    BY <1>5, QuietStep
  <2>2. VerdictSound'
    BY <1>3, <2>1 DEF VerdictSound
  <2>3. printed' # << >> => \E l \in Stages : Closes(l)'
    BY <2>1, ClosesStep DEF Closing
  <2> QED
    BY <1>1, <1>2, <2>2, <2>3 DEF Closing
<1> QED
  BY <1>4, <1>5

\* The invariant holds when pfact starts.
LEMMA FullInit == Init => FullInv
<1> SUFFICES ASSUME Init PROVE FullInv
  OBVIOUS
<1>1. IInv
  BY InvInit
<1>2. /\ 0 \in Procs /\ phase[0] = "fork" /\ count = -1 /\ printed = << >>
      /\ \A p \in Procs : factors[p] = << >> /\ (p # 0 => phase[p] = "unborn")
  BY Indices DEF Init
<1>3. Factored
  <2>1. ASSUME NEW p \in Procs, Alive(p) PROVE FactorsOK(p)
    <3>1. p = 0 /\ factors[p] = << >> /\ Tried(p) = 0
      BY <1>2, <2>1 DEF Alive, Tried
    <3>2. 1..Tried(p) = {}
      BY <3>1
    <3> QED
      BY <3>1, <3>2 DEF FactorsOK
  <2> QED
    BY <2>1 DEF Factored
<1>4. Judging
  BY <1>2, Indices DEF Judging
<1>5. Closing /\ VerdictSound
  BY <1>2 DEF Closing, VerdictSound
<1> QED
  BY <1>1, <1>3, <1>4, <1>5 DEF FullInv

\* Every step preserves it.
LEMMA FullStep == FullInv /\ [Next]_vars => FullInv'
<1> SUFFICES ASSUME FullInv, [Next]_vars PROVE FullInv'
  OBVIOUS
<1>1. IInv'
  BY InvStep DEF FullInv
<1>2. CASE UNCHANGED vars
  <2>1. Factored'
    BY <1>2 DEF FullInv, vars, Factored, FactorsOK, Tried, Alive
  <2>2. Judging'
    BY <1>2 DEF FullInv, vars, Judging, DrainOK, CollectOK, Survives
  <2>3. Closing' /\ VerdictSound'
    BY <1>2 DEF FullInv, vars, Closing, Closes, VerdictSound
  <2> QED
    BY <1>1, <2>1, <2>2, <2>3 DEF FullInv
<1>3. ASSUME NEW p \in Procs, Steps(p) PROVE FullInv'
  BY <1>1, <1>3, FactoredStep, JudgingStep, ClosingStep DEF FullInv
<1> QED
  BY <1>2, <1>3, SomebodySteps

\* In every state of every run, whatever fails: the keys that divide n are known,
\* the last filter has collected every number that can matter, and once it has
\* answered only waits remain.
THEOREM FullInvariant == Spec => []FullInv
<1> QED
  BY FullInit, FullStep, PTL DEF Spec

\* For every n, every limit, every failure and whatever an uninitialised
\* possible_factors[] holds: at most one verdict is printed; "prime", "square"
\* and "not the product of two primes" are right, and a printed pair multiplies
\* to n and has a prime for its first.
THEOREM VerdictsAreSound == Spec => []VerdictSound
<1>1. FullInv => VerdictSound
  BY DEF FullInv
<1> QED
  BY <1>1, FullInvariant, PTL

\* Once a verdict is out nobody fails: each filter's exit code is the number of
\* filters after it, modulo what an exit code holds, and main exits with 0 and
\* reports how many there are.
THEOREM OutcomeIsCounted == Spec => []OutcomeAfterVerdict
<1>1. ASSUME FullInv PROVE OutcomeAfterVerdict
  <2>1. SUFFICES ASSUME printed # << >>
                 PROVE  /\ \A p \in Filters :
                             phase[p] = "ended" => status[p] = (Cardinality(Filters) - p) % ExitMod
                        /\ phase[0] = "ended" => status[0] = 0
                        /\ count # -1 => count = (Cardinality(Filters) - 1) % ExitMod
    BY DEF OutcomeAfterVerdict
  <2>2. PICK l \in Stages : Closes(l)
    BY <1>1, <2>1 DEF FullInv, Closing
  <2>3. l \in Int /\ l > 0 /\ l <= MaxProcs
    BY <2>2, Indices
  <2>4. Filters = 1..l
    <3>1. ASSUME NEW p \in Filters PROVE p \in 1..l
      <4>1. p \in Stages /\ p \in Procs /\ p \in Int /\ p > 0 /\ phase[p] # "unborn"
        BY Indices DEF Filters, HasKey
      <4> QED
        BY <2>2, <2>3, <4>1 DEF Closes
    <3>2. ASSUME NEW p \in 1..l PROVE p \in Filters
      <4>1. p \in Stages /\ p \in Procs /\ p > 0
        BY <2>3, PfactAssumption DEF Stages, Procs
      <4>2. phase[p] \in {"wait", "ended"}
        BY <2>2, <2>3 DEF Closes
      <4> QED
        BY <4>1, <4>2 DEF Filters, HasKey
    <3> QED
      BY <3>1, <3>2
  <2>5. Cardinality(Filters) = l
    BY <2>3, <2>4, FS_Interval
  <2>6. phase[0] # "ended" => count = -1
    BY <1>1 DEF FullInv, Closing
  <2> QED
    BY <2>2, <2>4, <2>5, <2>6 DEF Closes
<1> QED
  BY <1>1, FullInvariant, PTL

-----------------------------------------------------------------------------
(***************************************************************************)
(* Without garbage on the stack the second factor is a prime too.          *)
(***************************************************************************)

\* If no entry that was never written can look like a number, a cofactor is found
\* only if it has been read, and then it is a prime: the verdict is the answer.
LEMMA VerdictRight ==
  ASSUME Garbage = {}, FullInv, NEW p \in Stages, DrainEnd(p) \/ CollectEnd(p)
  PROVE  printed' = Append(printed, Answer(n))
<1> USE DEF FullInv
<1>1. CASE DrainEnd(p)
  <2> DEFINE v == IF key[p] * key[p] = n THEN Verdict(1, <<key[p], key[p]>>)
                  ELSE Verdict(3, << >>)
  <2>1. v.result # 2
    BY DEF Verdict
  <2>2. printed' = Append(printed, v) /\ Sound(v, n)
    BY <1>1, DrainSound DEF DrainEnd
  <2> QED
    BY <2>1, <2>2 DEF Sound
<1>2. CASE CollectEnd(p)
  <2>1. phase[p] = "collect" /\ LoopEnds(p)
    BY <1>2 DEF CollectEnd
  <2>2. CASE Len(factors[p]) # 1
    <3>1. printed' = Append(printed, Verdict(0, << >>)) /\ Sound(Verdict(0, << >>), n)
      BY <1>2, <2>1, <2>2, CollectSound DEF CollectEnd
    <3>2. Verdict(0, << >>).result # 2
      BY DEF Verdict
    <3> QED
      BY <3>1, <3>2 DEF Sound
  <2>3. CASE Len(factors[p]) = 1 /\ Cofactor(p) \notin seen[p]
    <3>1. Finds(p) = {FALSE}
      BY <2>3 DEF Finds
    <3>2. printed' = Append(printed, Verdict(3, << >>))
      BY <1>2, <2>3, <3>1 DEF CollectEnd
    <3>3. Sound(Verdict(3, << >>), n)
      BY <2>1, <2>3, <3>1, CollectSound
    <3>4. Verdict(3, << >>).result # 2
      BY DEF Verdict
    <3> QED
      BY <3>2, <3>3, <3>4 DEF Sound
  <2>4. CASE Len(factors[p]) = 1 /\ Cofactor(p) \in seen[p]
    <3>1. Finds(p) = {TRUE}
      BY <2>4 DEF Finds
    <3>2. printed' = Append(printed, Verdict(2, <<factors[p][1], Cofactor(p)>>))
      BY <1>2, <2>4, <3>1 DEF CollectEnd
    <3>3. PICK i \in 1..(p - 1) : /\ factors[p][1] = key[i] /\ Divides(key[i], n)
                                 /\ key[i] * key[i] < n /\ key[i] \in Nat /\ key[i] > 1
                                 /\ Prime(key[i])
      BY <2>1, <2>4, FactorsFound
    <3>4. /\ HasKey(p) /\ n \in Nat /\ key[p] \in Nat /\ Cofactor(p) \in 2..n
          /\ Survives(Cofactor(p), p - 1) /\ n < key[p] * key[p]
      <4>1. CollectOK(p) /\ HasKey(p) /\ n \in Nat /\ key[p] \in Nat
        BY <2>1, Indices, PfactAssumption DEF Judging, HasKey, IInv, TypeOK
      <4> QED
        BY <2>4, <4>1 DEF CollectOK
    <3>5. Cofactor(p) < key[p] * key[p]
      BY <3>4
    <3>6. Prime(Cofactor(p)) /\ Cofactor(p) \in Nat
      BY <3>4, <3>5, SievedIsPrime
    <3> DEFINE e == Cofactor(p)
    <3>7. n = key[i] * e
      <4>1. key[i] \in Nat \ {0}
        BY <3>3
      <4>2. n = key[i] * (n \div key[i])
        BY <3>3, <3>4, <4>1, Quotient
      <4> QED
        BY <3>3, <4>2 DEF Cofactor
    <3>8. e \in Nat /\ Prime(e)
      BY <3>6
    <3> HIDE DEF e
    <3>9. key[i] < e
      <4>1. e <= key[i] => key[i] * e <= key[i] * key[i]
        BY <3>3, <3>8
      <4> QED
        BY <3>3, <3>4, <3>7, <3>8, <4>1
    <3>10. Answer(n) = Verdict(2, <<key[i], e>>)
      BY <3>3, <3>4, <3>7, <3>8, <3>9, AnswerPair
    <3> QED
      BY <3>2, <3>3, <3>10 DEF e
  <2> QED
    BY <2>2, <2>3, <2>4
<1> QED
  BY <1>1, <1>2

\* So a printed pair is one of primes.
LEMMA PairStep ==
  ASSUME Garbage = {}, FullInv, PairIsPrime, NEW p \in Procs, Steps(p)
  PROVE  PairIsPrime'
<1> USE DEF FullInv
<1>1. CASE ~(p \in Stages /\ (DrainEnd(p) \/ CollectEnd(p)))
  <2>1. printed' = printed
    BY <1>1, QuietStep
  <2> QED
    BY <2>1 DEF PairIsPrime
<1>2. CASE p \in Stages /\ (DrainEnd(p) \/ CollectEnd(p))
  <2>1. printed = << >>
    BY <1>2, ClosesStep DEF Closing
  <2>2. printed' = Append(printed, Answer(n))
    BY <1>2, VerdictRight
  <2>3. DOMAIN printed' = {1} /\ printed'[1] = Answer(n)
    BY <2>1, <2>2
  <2>4. n \in Nat
    BY PfactAssumption DEF IInv, TypeOK
  <2> QED
    BY <2>3, <2>4, AnswerPrimes DEF PairIsPrime
<1> QED
  BY <1>1, <1>2

\* The comment on `result' (two unequal prime factors) is true of a program that
\* looks at the written entries of possible_factors[] only, or whose stack never
\* happens to hold the cofactor: it is the uninitialised entries alone that
\* break it.
THEOREM PairsArePrime ==
  ASSUME Garbage = {}
  PROVE  Spec => []PairIsPrime
<1>1. Init => PairIsPrime
  BY DEF Init, PairIsPrime
<1>2. FullInv /\ PairIsPrime /\ [Next]_vars => PairIsPrime'
  <2>1. UNCHANGED vars /\ PairIsPrime => PairIsPrime'
    BY DEF vars, PairIsPrime
  <2> QED
    BY <2>1, PairStep, SomebodySteps
<1> QED
  BY <1>1, <1>2, FullInvariant, PTL DEF Spec

-----------------------------------------------------------------------------
(***************************************************************************)
(* With descriptors and stack enough nobody is killed.                     *)
(***************************************************************************)

\* Every resource suffices: fork() and pipe() succeed, the descriptors are
\* enough for 0, 1 and 2, an end of every pipe so far and two of a new one, and
\* the stack is enough for possible_factors[].
Resources ==
  /\ ForkMayFail = FALSE
  /\ MaxFds >= MaxProcs + 5
  /\ \A m \in Inputs : m - 1 <= StackInts

\* A process holds no more than the read ends of the pipes before it: its own
\* pipe's is for the child.
Held ==
  \A p \in Procs : /\ rd[p] \subseteq 0..p
                   /\ phase[p] # "closeRead" => p \notin rd[p]

\* Only fork() opens a read end, and the parent closes it at once.
LEMMA HeldStep ==
  ASSUME IInv, Held, NEW p \in Procs, Steps(p)
  PROVE  Held'
<1>0. phase \in [Procs -> Phase] /\ rd \in [Procs -> SUBSET Procs] /\ p \in Int /\ p >= 0
  BY Indices DEF IInv, TypeOK
\* What every step but fork() does.
<1>1. ASSUME NEW to, NEW r, phase' = [phase EXCEPT ![p] = to],
             rd' = [rd EXCEPT ![p] = r], r \subseteq rd[p],
             to # "closeRead", phase[p] = "closeRead" => p \notin r
      PROVE  Held'
  <2>1. ASSUME NEW q \in Procs
        PROVE  rd'[q] \subseteq 0..q /\ (phase'[q] # "closeRead" => q \notin rd'[q])
    <3>1. CASE q = p
      BY <1>0, <1>1, <3>1 DEF Held
    <3>2. CASE q # p
      BY <1>0, <1>1, <3>2 DEF Held
    <3> QED
      BY <3>1, <3>2
  <2> QED
    BY <2>1 DEF Held
<1>2. ASSUME NEW to, phase' = [phase EXCEPT ![p] = to], rd' = rd,
             to # "closeRead", phase[p] # "closeRead"
      PROVE  Held'
  <2>1. rd' = [rd EXCEPT ![p] = rd[p]]
    BY <1>0, <1>2
  <2> QED
    BY <1>1, <1>2, <2>1
<1>3. CASE Fork(p)
  <2>1. /\ p + 1 \in Procs /\ p + 1 # p /\ p \in Int
        /\ phase' = [phase EXCEPT ![p] = "closeRead", ![p + 1] = "born"]
        /\ rd' = [rd EXCEPT ![p] = rd[p] \cup {p}, ![p + 1] = rd[p] \cup {p}]
    <3>1. p < MaxProcs /\ phase' = [phase EXCEPT ![p] = "closeRead", ![p + 1] = "born"]
      BY <1>3 DEF Fork
    <3>2. p + 1 \in Procs /\ p + 1 # p
      BY <3>1, PfactAssumption DEF Procs
    <3>3. rd' = [rd EXCEPT ![p] = rd[p] \cup {p}, ![p + 1] = rd[p] \cup {p}]
      BY <1>0, <1>3 DEF Fork
    <3> QED
      BY <1>0, <3>1, <3>2, <3>3
  <2>2. /\ phase'[p] = "closeRead" /\ rd'[p] = rd[p] \cup {p} /\ rd'[p + 1] = rd[p] \cup {p}
        /\ \A q \in Procs : q # p /\ q # p + 1 => phase'[q] = phase[q] /\ rd'[q] = rd[q]
    BY <1>0, <2>1
  <2>3. rd[p] \subseteq 0..p /\ p \in 0..p /\ 0..p \subseteq 0..(p + 1) /\ p + 1 \notin 0..p
    BY <1>0 DEF Held
  <2>4. ASSUME NEW q \in Procs
        PROVE  rd'[q] \subseteq 0..q /\ (phase'[q] # "closeRead" => q \notin rd'[q])
    <3>1. CASE q = p
      BY <2>2, <2>3, <3>1
    <3>2. CASE q = p + 1
      <4>1. rd'[q] \subseteq 0..p
        BY <2>2, <2>3, <3>2
      <4> QED
        BY <2>3, <3>2, <4>1
    <3>3. CASE q # p /\ q # p + 1
      BY <2>2, <3>3 DEF Held
    <3> QED
      BY <3>1, <3>2, <3>3
  <2> QED
    BY <2>4 DEF Held
<1>4. ASSUME NEW code, End(p, code) PROVE Held'
  <2>1. phase' = [phase EXCEPT ![p] = "ended"]
    BY <1>4 DEF End
  <2>2. PICK r : r = {} /\ rd' = [rd EXCEPT ![p] = r]
    BY <1>4 DEF End
  <2>3. r \subseteq rd[p] /\ p \notin r
    BY <2>2
  <2> QED
    BY <1>1, <2>1, <2>2, <2>3
<1>5. CASE CloseRead(p)
  <2>1. /\ phase' = [phase EXCEPT ![p] = IF p = 0 THEN "write" ELSE "filter"]
        /\ (IF p = 0 THEN "write" ELSE "filter") # "closeRead"
    BY <1>5 DEF CloseRead, Goto
  <2>2. rd' = [rd EXCEPT ![p] = rd[p] \ {p}]
    BY <1>0, <1>5 DEF CloseRead
  <2> QED
    BY <1>1, <2>1, <2>2
<1>6. CASE FilterEnd(p)
  <2>1. phase[p] = "filter" /\ phase' = [phase EXCEPT ![p] = "wait"]
    BY <1>6 DEF FilterEnd, Goto
  <2>2. rd' = [rd EXCEPT ![p] = rd[p] \ {p - 1}]
    BY <1>0, <1>6 DEF FilterEnd
  <2> QED
    BY <1>1, <2>1, <2>2
<1>7. CASE CloseWrite(p) \/ ReadKey(p) \/ FilterRead(p) \/ Forward(p) \/ (p = 0 /\ FeedEnd)
  <2>1. /\ rd' = rd /\ phase[p] # "closeRead"
        /\ \E to \in {"readKey", "test", "filter", "write", "wait"} :
             phase' = [phase EXCEPT ![p] = to]
    BY <1>7 DEF CloseWrite, ReadKey, FilterRead, Forward, Write, FeedEnd, Goto
  <2> QED
    BY <1>2, <2>1
<1>8. CASE TestKey(p)
  <2>1. CASE \E code : End(p, code)
    BY <1>4, <2>1
  <2>2. CASE ~\E code : End(p, code)
    <3>1. /\ rd' = rd /\ phase[p] # "closeRead"
          /\ \E to \in {"fork", "drain", "collect"} : phase' = [phase EXCEPT ![p] = to]
      BY <1>8, <2>2 DEF TestKey, NoFactor, FirstFactor, SecondFactor, SquareRoot, BeyondRoot,
                        StackOverflow
    <3> QED
      BY <1>2, <3>1
  <2> QED
    BY <2>1, <2>2
<1>9. CASE DrainRead(p) \/ CollectRead(p) \/ (p = 0 /\ Feed)
  <2>1. rd' = rd /\ phase' = phase /\ phase[p] \in {"drain", "collect", "write"}
    BY <1>9 DEF DrainRead, CollectRead, Feed, Write
  <2>2. phase' = [phase EXCEPT ![p] = phase[p]]
    BY <1>0, <2>1
  <2> QED
    BY <1>2, <2>1, <2>2
<1>10. CASE ForkFails(p) \/ SigPipe(p) \/ DrainEnd(p) \/ CollectEnd(p) \/ Wait(p)
            \/ (p = 0 /\ MainWait)
  BY <1>4, <1>10 DEF ForkFails, SigPipe, DrainEnd, CollectEnd, Wait, MainWait
<1> QED
  BY <1>3, <1>5, <1>6, <1>7, <1>8, <1>9, <1>10 DEF Steps, Main, Stage

LEMMA HeldAlways == Spec => []Held
<1>1. Init => Held
  BY DEF Init, Held
<1>2. IInv /\ Held /\ [Next]_vars => Held'
  <2>1. UNCHANGED vars /\ Held => Held'
    BY DEF vars, Held
  <2> QED
    BY <2>1, HeldStep, SomebodySteps
<1> QED
  BY <1>1, <1>2, Invariant, PTL DEF Spec

\* fork() does not fail.
LEMMA NoForkFails ==
  ASSUME Resources, IInv, Held, NEW p \in Procs
  PROVE  ~ForkFails(p)
<1>1. SUFFICES ASSUME ForkFails(p) PROVE FALSE
  OBVIOUS
<1>2. phase[p] = "fork" /\ OpenFds(p) + 2 > MaxFds
  BY <1>1 DEF ForkFails, Resources
<1>3. wr[p] = {} /\ Cardinality({}) = 0
  BY <1>2, FS_EmptySet DEF IInv, Ends
<1>4. IsFiniteSet(0..(p - 1)) /\ Cardinality(0..(p - 1)) = p /\ p <= MaxProcs
  <2>1. /\ 0 \in Int /\ p - 1 \in Int /\ p >= 0 /\ p <= MaxProcs
        /\ (IF 0 > p - 1 THEN 0 ELSE (p - 1) - 0 + 1) = p
    BY PfactAssumption DEF Procs
  <2> QED
    BY <2>1, FS_Interval
<1>5. rd[p] \subseteq 0..(p - 1)
  <2>1. rd[p] \subseteq 0..p /\ p \notin rd[p] /\ p \in Int
    BY <1>2, Indices DEF Held
  <2> QED
    BY <2>1
<1>6. Cardinality(rd[p]) <= p /\ Cardinality(rd[p]) \in Nat /\ p \in Int
  BY <1>4, <1>5, FS_Subset, FS_CardinalityType, Indices
<1>7. OpenFds(p) = 3 + Cardinality(rd[p])
  BY <1>3, <1>6 DEF OpenFds
<1> QED
  BY <1>2, <1>4, <1>6, <1>7, PfactAssumption DEF Resources

\* A filter whose child has ended has nothing left to write, so nobody writes
\* to a pipe that nobody reads.
LEMMA NoSigPipe ==
  ASSUME IInv, Healthy, NEW p \in Procs
  PROVE  ~SigPipe(p)
<1> USE DEF IInv
<1>1. SUFFICES ASSUME SigPipe(p) PROVE FALSE
  OBVIOUS
<1>2. phase[p] = "write" /\ Readers(p) = {} /\ (p = 0 => got[0] < n + 1)
  BY <1>1 DEF SigPipe
<1>3. p < MaxProcs /\ phase[p + 1] # "unborn"
  BY <1>2 DEF Chain, HasChild
<1>4. p + 1 \in Stages /\ p + 1 \in Procs /\ p < p + 1 /\ (p + 1) - 1 = p
  BY <1>3, PfactAssumption DEF Stages, Procs
<1>5. phase[p + 1] = "ended"
  BY <1>2, <1>3, <1>4, NoReaders
<1>6. NothingToWrite(p)
  BY <1>4, <1>5 DEF Healthy
<1>7. p = 0 /\ got[0] = n + 1 /\ n + 1 \in Int
  BY <1>2, <1>6, PfactAssumption DEF NothingToWrite, TypeOK
<1> QED
  BY <1>2, <1>7

\* Who has nothing to write can only go on to wait and to end.
LEMMA OnlyWaits ==
  ASSUME IInv, NEW p \in Procs, Steps(p), NothingToWrite(p)
  PROVE  (p \in Stages /\ Wait(p)) \/ (p = 0 /\ (MainWait \/ FeedEnd))
<1>1. CASE phase[p] \in {"wait", "ended"}
  <2>1. CASE p \in Stages /\ Stage(p)
    BY <1>1, <2>1 DEF Stage, CloseWrite, ReadKey, TestKey, Fork, ForkFails, CloseRead,
                      FilterRead, Forward, SigPipe, FilterEnd, DrainRead, DrainEnd, CollectRead,
                      CollectEnd, Goto
  <2>2. CASE p = 0 /\ Main
    BY <1>1, <2>2 DEF Main, Fork, ForkFails, CloseRead, Feed, SigPipe, FeedEnd, Goto
  <2> QED
    BY <2>1, <2>2 DEF Steps
<1>2. CASE p = 0 /\ phase[0] = "write" /\ got[0] = n + 1
  <2>1. n + 1 \in Int /\ ~(n + 1 < n + 1) /\ p \notin Stages
    BY <1>2, Indices, PfactAssumption DEF IInv, TypeOK
  <2> QED
    BY <1>2, <2>1 DEF Steps, Main, Fork, ForkFails, CloseRead, Feed, SigPipe, Goto
<1> QED
  BY <1>1, <1>2 DEF NothingToWrite

\* A process that ends of itself ends with an exit code; whoever reads to the
\* end, or waits for its child, has a parent with nothing left to write.
LEMMA HealthyEnd ==
  ASSUME Resources, FullInv, Held, Healthy, NEW p \in Procs, Steps(p),
         phase'[p] = "ended"
  PROVE  /\ \E code \in 0..(ExitMod - 1) : End(p, code)
         /\ p \in Stages => NothingToWrite(p - 1)
         /\ UNCHANGED <<n, got>>
<1> USE DEF FullInv
<1>0. /\ 0 \in 0..(ExitMod - 1) /\ 1 \in 0..(ExitMod - 1) /\ phase \in [Procs -> Phase]
      /\ \A s \in 0..(ExitMod - 1) : (1 + s) % ExitMod \in 0..(ExitMod - 1)
  BY PfactAssumption DEF IInv, TypeOK
<1>1. CASE p \in Stages /\ (DrainEnd(p) \/ CollectEnd(p))
  <2>1. End(p, 0) /\ UNCHANGED <<n, got>> /\ phase[p] \in {"drain", "collect"} /\ LoopEnds(p)
    BY <1>1 DEF DrainEnd, CollectEnd
  <2>2. phase[p - 1] = "wait" \/ (p = 1 /\ phase[0] = "write" /\ got[0] = n + 1)
    BY <1>1, <2>1, InputRead
  <2>3. NothingToWrite(p - 1)
    BY <2>2 DEF NothingToWrite
  <2> QED
    BY <1>0, <2>1, <2>3
<1>2. CASE p \in Stages /\ Wait(p)
  <2>1. /\ phase[p] = "wait" /\ UNCHANGED <<n, got>>
        /\ End(p, IF status[p + 1] = Killed THEN Failed ELSE (1 + status[p + 1]) % ExitMod)
    BY <1>2 DEF Wait
  <2>2. p < MaxProcs
    BY <2>1 DEF IInv, Chain, HasChild
  <2>3. p + 1 \in Procs
    BY <2>2, PfactAssumption DEF Procs
  <2>4. status[p + 1] # Killed /\ status[p + 1] \in {Running, Killed} \cup 0..(ExitMod - 1)
    BY <2>3 DEF Healthy, IInv, TypeOK
  <2>5. (1 + status[p + 1]) % ExitMod \in 0..(ExitMod - 1)
    <3>1. CASE status[p + 1] = Running
      <4>1. 1 + status[p + 1] = 0 /\ 0 % ExitMod = 0
        BY <3>1, PfactAssumption DEF Running
      <4> QED
        BY <1>0, <4>1
    <3> QED
      BY <1>0, <2>4, <3>1
  <2>6. phase[p - 1] = "wait"
    BY <1>2, <2>1 DEF IInv, Chain
  <2> QED
    BY <2>1, <2>4, <2>5, <2>6 DEF NothingToWrite
<1>3. CASE p = 0 /\ MainWait
  <2>1. UNCHANGED <<n, got>> /\ (End(0, 0) \/ End(0, 1))
    BY <1>3 DEF MainWait
  <2> QED
    BY <1>0, <1>3, <2>1, Indices
<1>4. CASE p \in Stages /\ TestKey(p)
  <2>1. n - 1 <= StackInts
    BY DEF Resources, IInv, TypeOK
  <2>2. ~StackOverflow(p)
    BY <2>1, PfactAssumption DEF StackOverflow, IInv, TypeOK
  <2>3. \E to \in {"fork", "drain", "collect"} : phase' = [phase EXCEPT ![p] = to]
    BY <1>4, <2>2 DEF TestKey, NoFactor, FirstFactor, SecondFactor, SquareRoot, BeyondRoot
  <2> QED
    BY <1>0, <2>3
<1>5. CASE Fork(p)
  <2>1. phase' = [phase EXCEPT ![p] = "closeRead", ![p + 1] = "born"] /\ p \in Int /\ p + 1 # p
    BY <1>5, Indices DEF Fork
  <2>2. phase'[p] = "closeRead"
    BY <1>0, <2>1
  <2> QED
    BY <2>2
<1>6. ~ForkFails(p) /\ ~SigPipe(p)
  BY NoForkFails, NoSigPipe
<1>7. CASE \/ CloseRead(p) \/ CloseWrite(p) \/ ReadKey(p) \/ FilterRead(p) \/ Forward(p)
           \/ FilterEnd(p) \/ (p = 0 /\ FeedEnd)
  <2>1. \E to \in {"write", "filter", "readKey", "test", "wait"} :
          phase' = [phase EXCEPT ![p] = to]
    BY <1>7 DEF CloseRead, CloseWrite, ReadKey, FilterRead, Forward, FilterEnd, FeedEnd, Goto
  <2> QED
    BY <1>0, <2>1
<1>8. CASE DrainRead(p) \/ CollectRead(p) \/ (p = 0 /\ Feed)
  <2>1. phase' = phase /\ phase[p] \in {"drain", "collect", "write"}
    BY <1>8 DEF DrainRead, CollectRead, Feed
  <2> QED
    BY <2>1
<1> QED
  BY <1>1, <1>2, <1>3, <1>4, <1>5, <1>6, <1>7, <1>8, Indices DEF Steps, Main, Stage

\* A step that ends nobody changes no status and brings nobody to an end.
LEMMA HealthyMove ==
  ASSUME FullInv, NEW p \in Procs, Steps(p), phase'[p] # "ended"
  PROVE  /\ status' = status
         /\ \A q \in Procs : phase'[q] = "ended" => phase[q] = "ended" /\ q # p
<1> USE DEF FullInv
<1>0. phase \in [Procs -> Phase]
  BY DEF IInv, TypeOK
<1>1. ASSUME NEW code, End(p, code) PROVE FALSE
  <2>1. phase' = [phase EXCEPT ![p] = "ended"]
    BY <1>1 DEF End
  <2> QED
    BY <1>0, <2>1
<1>2. status' = status
  <2>1. CASE p = 0 /\ Main
    BY <1>1, <2>1 DEF Main, Fork, ForkFails, CloseRead, Feed, Write, SigPipe, FeedEnd, MainWait
  <2>2. CASE p \in Stages /\ Stage(p)
    <3>1. CASE TestKey(p)
      BY <1>1, <3>1 DEF TestKey, NoFactor, FirstFactor, SecondFactor, SquareRoot, BeyondRoot,
                        StackOverflow
    <3>2. CASE ~TestKey(p)
      BY <1>1, <2>2, <3>2 DEF Stage, CloseWrite, ReadKey, Fork, ForkFails, CloseRead, FilterRead,
                              Forward, Write, SigPipe, FilterEnd, DrainRead, DrainEnd,
                              CollectRead, CollectEnd, Wait
    <3> QED
      BY <3>1, <3>2
  <2> QED
    BY <2>1, <2>2 DEF Steps
<1>3. CASE Fork(p)
  <2>1. phase' = [phase EXCEPT ![p] = "closeRead", ![p + 1] = "born"]
    BY <1>3 DEF Fork
  <2>2. \A q \in Procs : phase'[q] = "ended" => phase[q] = "ended" /\ q # p
    BY <1>0, <2>1
  <2> QED
    BY <1>2, <2>2
<1>4. CASE ~Fork(p)
  <2>1. CASE p \in Stages /\ (ReadKey(p) \/ TestKey(p))
    <3>1. \E to : phase' = [phase EXCEPT ![p] = to]
      BY <2>1 DEF ReadKey, Goto, TestKey, NoFactor, FirstFactor, SecondFactor, SquareRoot,
                  BeyondRoot, StackOverflow, End
    <3> QED
      BY <1>0, <1>2, <3>1
  <2>2. CASE ~(p \in Stages /\ (ReadKey(p) \/ TestKey(p)))
    <3>1. \A q \in Procs : q # p => phase'[q] = phase[q]
      BY <1>4, <2>2, PlainStep
    <3> QED
      BY <1>2, <3>1
  <2> QED
    BY <2>1, <2>2
<1> QED
  BY <1>3, <1>4

\* Every step keeps everybody healthy.
LEMMA HealthyStep ==
  ASSUME Resources, FullInv, Held, Healthy, NEW p \in Procs, Steps(p)
  PROVE  Healthy'
<1> USE DEF FullInv
<1>0. /\ p \in Int /\ p >= 0 /\ phase \in [Procs -> Phase] /\ 0 \in Procs
      /\ status \in [Procs -> {Running, Killed} \cup 0..(ExitMod - 1)]
  BY Indices DEF IInv, TypeOK
<1>1. CASE phase'[p] = "ended"
  <2>1. PICK code \in 0..(ExitMod - 1) : End(p, code)
    BY <1>1, HealthyEnd
  <2>2. UNCHANGED <<n, got>> /\ (p \in Stages => NothingToWrite(p - 1))
    BY <1>1, HealthyEnd
  <2>3. /\ \A q \in Procs : q # p => phase'[q] = phase[q] /\ status'[q] = status[q]
        /\ status'[p] = code /\ code # Killed
    BY <1>0, <2>1 DEF End, Killed
  <2>4. \A q \in Procs : status'[q] # Killed
    BY <2>3 DEF Healthy
  <2>5. \A q \in Procs : NothingToWrite(q) => NothingToWrite(q)'
    <3>1. ASSUME NEW q \in Procs, NothingToWrite(q) PROVE NothingToWrite(q)'
      <4>1. CASE q = p
        BY <1>1, <4>1 DEF NothingToWrite
      <4>2. CASE q # p
        BY <2>2, <2>3, <3>1, <4>2 DEF NothingToWrite
      <4> QED
        BY <4>1, <4>2
    <3> QED
      BY <3>1
  <2>6. ASSUME NEW q \in Stages, phase'[q] = "ended" PROVE NothingToWrite(q - 1)'
    <3>1. q \in Procs /\ q - 1 \in Procs
      BY Indices
    <3>2. NothingToWrite(q - 1)
      BY <2>2, <2>3, <2>6, <3>1 DEF Healthy
    <3> QED
      BY <2>5, <3>1, <3>2
  <2> QED
    BY <2>4, <2>6 DEF Healthy
<1>2. CASE phase'[p] # "ended"
  <2>1. /\ status' = status
        /\ \A q \in Procs : phase'[q] = "ended" => phase[q] = "ended" /\ q # p
    BY <1>2, HealthyMove
  <2>2. ASSUME NEW q \in Stages, phase'[q] = "ended" PROVE NothingToWrite(q - 1)'
    <3>1. q \in Procs /\ q - 1 \in Procs /\ phase[q] = "ended" /\ q # p
      BY <2>1, <2>2, Indices
    <3>2. NothingToWrite(q - 1)
      BY <3>1 DEF Healthy
    <3>3. CASE q - 1 = p
      <4>1. p = 0 /\ FeedEnd
        <5>1. ~(p \in Stages /\ Wait(p)) /\ ~(p = 0 /\ MainWait)
          <6>1. ASSUME NEW code, End(p, code) PROVE FALSE
            <7>1. phase' = [phase EXCEPT ![p] = "ended"]
              BY <6>1 DEF End
            <7> QED
              BY <1>0, <1>2, <7>1
          <6> QED
            BY <6>1 DEF Wait, MainWait
        <5> QED
          BY <3>2, <3>3, <5>1, OnlyWaits
      <4>2. phase'[0] = "wait"
        BY <1>0, <4>1 DEF FeedEnd, Goto
      <4> QED
        BY <3>3, <4>1, <4>2 DEF NothingToWrite
    <3>4. CASE q - 1 # p
      <4>1. ~Fork(p) /\ (p \in Stages => ~ReadKey(p) /\ ~TestKey(p))
        <5>1. phase[p] \notin {"fork", "readKey", "test"}
          <6>1. ASSUME phase[p] \in {"fork", "readKey", "test"} PROVE FALSE
            <7>1. ~(p < q)
              BY <3>1, <6>1 DEF IInv, Chain, Childless
            <7>2. q < p
              BY <1>0, <2>2, <3>1, <7>1, Indices
            <7> QED
              BY <3>1, <6>1, <7>2 DEF IInv, Chain
          <6> QED
            BY <6>1
        <5> QED
          BY <5>1 DEF Fork, ReadKey, TestKey, Goto
      <4>2. n' = n /\ phase'[q - 1] = phase[q - 1] /\ got'[q - 1] = got[q - 1]
        BY <3>1, <3>4, <4>1, PlainStep
      <4> QED
        BY <3>2, <4>2 DEF NothingToWrite
    <3> QED
      BY <3>3, <3>4
  <2> QED
    BY <2>1, <2>2 DEF Healthy
<1> QED
  BY <1>1, <1>2

\* Where every resource suffices, for every n and every size of pipe: nobody is
\* killed, neither by its stack nor by writing to a pipe its readers have left.
\* Every filter reads its input to the end, even after it knows the answer.
THEOREM NobodyIsKilled ==
  ASSUME Resources
  PROVE  Spec => []NoBrokenPipe
<1>1. Init => Healthy
  <2>1. SUFFICES ASSUME Init PROVE Healthy
    OBVIOUS
  <2>2. ASSUME NEW p \in Procs PROVE status[p] # Killed /\ phase[p] # "ended"
    <3>1. status[p] = -1 /\ phase[p] \in {"fork", "unborn"}
      BY <2>1 DEF Init, Running
    <3> QED
      BY <3>1 DEF Killed
  <2> QED
    BY <2>2, Indices DEF Healthy
<1>2. FullInv /\ Held /\ Healthy /\ [Next]_vars => Healthy'
  <2>1. UNCHANGED vars /\ Healthy => Healthy'
    BY DEF vars, Healthy, NothingToWrite
  <2> QED
    BY <2>1, HealthyStep, SomebodySteps
<1>3. Healthy => NoBrokenPipe
  BY DEF Healthy, NoBrokenPipe
<1> QED
  BY <1>1, <1>2, <1>3, FullInvariant, HeldAlways, PTL DEF Spec

-----------------------------------------------------------------------------
(***************************************************************************)
(* The pipeline implements the sieve, step by step.                        *)
(***************************************************************************)

\* What the sieve has found, and what it has answered.
Found == [k \in 1..Cardinality(Filters) |-> key[k]]
Given == IF printed = << >> THEN Verdict(-1, << >>) ELSE Head(printed)

\* The sieve's arithmetic is the pipeline's.
LEMMA SameArithmetic ==
  /\ \A d, m : Answers!Divides(d, m) <=> Divides(d, m)
  /\ \A m : Answers!Prime(m) <=> Prime(m)
  /\ \A m : Answers!Answer(m) = Answer(m)
<1>1. \A d, m : Answers!Divides(d, m) <=> Divides(d, m)
  BY DEF Answers!Divides, Divides
<1>2. \A m : Answers!Prime(m) <=> Prime(m)
  BY DEF Answers!Divides, Divides, Answers!Prime, Prime
<1>3. \A m : Answers!Answer(m) = Answer(m)
  BY DEF Answers!Divides, Divides, Answers!Prime, Prime, Answers!PrimePair, PrimePair,
         Answers!LesserPrime, LesserPrime, Answers!ProductOfTwoPrimes, ProductOfTwoPrimes,
         Answers!Verdict, Verdict, Answers!Answer, Answer
<1> QED
  BY <1>1, <1>2, <1>3

\* The filters that have their keys are the first ones.
LEMMA FiltersAre ==
  ASSUME IInv, NEW p \in Procs, \A q \in Filters : q <= p, p = 0 \/ phase[p] # "unborn"
  PROVE  1..(p - 1) \subseteq Filters /\ Filters \subseteq 1..p
<1> USE DEF IInv
<1>0. p \in Int /\ p >= 0 /\ \A q \in Stages : q \in Int /\ q > 0 /\ q \in Procs
  BY Indices
<1>1. ASSUME NEW j \in 1..(p - 1) PROVE j \in Filters
  <2>1. j \in Stages /\ j < p /\ p > 0
    BY <1>0, PfactAssumption DEF Stages, Procs
  <2>2. HasKey(j)
    BY <1>0, <2>1, Ancestors
  <2> QED
    BY <2>1, <2>2 DEF Filters
<1>2. \A q \in Filters : q \in 1..p
  BY <1>0 DEF Filters
<1> QED
  BY <1>1, <1>2

\* The number of keys found so far.
LEMMA FoundLength ==
  ASSUME IInv
  PROVE  \E l \in 0..MaxProcs : Filters = 1..l /\ Cardinality(Filters) = l
<1> DEFINE S == {l \in Procs : \A q \in Filters : q <= l}
<1>0. /\ MaxProcs \in Procs /\ S \subseteq Nat /\ 0 \in Procs
      /\ \A q \in Stages : q \in Int /\ q > 0 /\ q <= MaxProcs
  BY Indices, PfactAssumption DEF Procs, Stages
<1>1. MaxProcs \in S
  BY <1>0 DEF Filters
<1>2. PICK l \in S : \A x \in S : l <= x
  BY <1>0, <1>1, LeastOf
<1> HIDE DEF S
<1>3. l \in Procs /\ l \in Nat /\ l <= MaxProcs /\ \A q \in Filters : q <= l
  BY <1>2, PfactAssumption DEF S, Procs
<1>4. l = 0 \/ l \in Filters
  <2>1. ASSUME l # 0, l \notin Filters PROVE FALSE
    <3>1. l - 1 \in Procs /\ ~(l <= l - 1)
      BY <1>3, <2>1, PfactAssumption DEF Procs
    <3>2. PICK q \in Filters : ~(q <= l - 1)
      BY <1>2, <3>1 DEF S
    <3>3. q \in Int /\ q <= l
      BY <1>0, <1>3 DEF Filters
    <3>4. q = l
      BY <1>3, <3>2, <3>3
    <3> QED
      BY <2>1, <3>4
  <2> QED
    BY <2>1
<1>5. Filters = 1..l
  <2>1. l = 0 \/ phase[l] # "unborn"
    BY <1>4 DEF Filters, HasKey
  <2>2. 1..(l - 1) \subseteq Filters /\ Filters \subseteq 1..l
    BY <1>3, <2>1, FiltersAre
  <2>3. \A k \in 1..l : k \in 1..(l - 1) \/ k = l
    BY <1>3
  <2>4. l = 0 => 1..l = {}
    OBVIOUS
  <2> QED
    BY <1>4, <2>2, <2>3, <2>4
<1>6. Cardinality(1..l) = l
  BY <1>3, FS_Interval
<1> QED
  BY <1>3, <1>5, <1>6, PfactAssumption DEF Procs

\* Only ReadKey brings a key, and no key changes while it is a filter's.
LEMMA FoundStays ==
  ASSUME IInv, IInv', NEW p \in Procs, Steps(p), ~(p \in Stages /\ ReadKey(p))
  PROVE  Found' = Found /\ n' = n
<1> USE DEF IInv
<1>0. /\ phase \in [Procs -> Phase] /\ key \in [Procs -> Nat] /\ Stages \subseteq Procs
      /\ p \in Int /\ p >= 0
  BY Indices DEF TypeOK
<1>1. \A q \in Stages : (HasKey(q)' <=> HasKey(q)) /\ (HasKey(q) => key'[q] = key[q])
  <2>1. CASE Fork(p)
    <3>1. /\ phase[p] = "fork" /\ p + 1 \in Procs /\ p + 1 # p
          /\ phase' = [phase EXCEPT ![p] = "closeRead", ![p + 1] = "born"]
          /\ key' = [key EXCEPT ![p + 1] = key[p]]
      BY <1>0, <2>1, PfactAssumption DEF Fork, Procs
    <3>2. phase[p + 1] = "unborn"
      BY <1>0, <3>1 DEF Chain, Childless
    <3>3. ~HasKey(p + 1) /\ ~HasKey(p + 1)'
      BY <1>0, <3>1, <3>2 DEF HasKey
    <3>4. \A q \in Stages : q # p + 1 => key'[q] = key[q] /\ (HasKey(q)' <=> HasKey(q))
      BY <1>0, <3>1 DEF HasKey
    <3> QED
      BY <3>3, <3>4
  <2>2. CASE p \in Stages /\ TestKey(p)
    <3>1. /\ phase[p] = "test" /\ key' = key
          /\ \E to \in {"fork", "drain", "collect", "ended"} : phase' = [phase EXCEPT ![p] = to]
      BY <2>2 DEF TestKey, NoFactor, FirstFactor, SecondFactor, SquareRoot, BeyondRoot,
                  StackOverflow, End
    <3> QED
      BY <1>0, <3>1 DEF HasKey
  <2>3. CASE ~Fork(p) /\ ~(p \in Stages /\ TestKey(p))
    <3>1. /\ key' = key
          /\ \A q \in Procs : q # p => phase'[q] = phase[q]
      BY <2>3, PlainStep
    <3>2. p \in Stages => (HasKey(p)' <=> HasKey(p))
      <4>1. ASSUME p \in Stages, CloseWrite(p) PROVE HasKey(p)' <=> HasKey(p)
        <5>1. phase[p] = "born" /\ phase' = [phase EXCEPT ![p] = "readKey"]
          BY <4>1 DEF CloseWrite, Goto
        <5>2. phase'[p] = "readKey"
          BY <1>0, <5>1
        <5> QED
          BY <5>1, <5>2 DEF HasKey
      <4>2. ASSUME p \in Stages, ~CloseWrite(p) PROVE HasKey(p)' <=> HasKey(p)
        <5>1. /\ \/ phase' = phase
                 \/ \E to \in {"write", "filter", "wait", "ended"} :
                      phase' = [phase EXCEPT ![p] = to]
              /\ phase[p] \notin {"unborn", "born", "readKey"}
          BY <2>3, <4>2, Indices
             DEF Steps, Stage, ForkFails, CloseRead, FilterRead, Forward, SigPipe, FilterEnd,
                 DrainRead, DrainEnd, CollectRead, CollectEnd, Wait, Goto, End
        <5>2. phase'[p] = phase[p] \/ phase'[p] \in {"write", "filter", "wait", "ended"}
          BY <1>0, <5>1
        <5> QED
          BY <5>1, <5>2 DEF HasKey
      <4> QED
        BY <4>1, <4>2
    <3>3. \A q \in Stages : q # p => (HasKey(q)' <=> HasKey(q))
      BY <1>0, <3>1 DEF HasKey
    <3> QED
      BY <1>0, <3>1, <3>2, <3>3
  <2> QED
    BY <2>1, <2>2, <2>3
<1>2. Filters' = Filters
  BY <1>1 DEF Filters
<1>3. PICK l \in 0..MaxProcs : Filters = 1..l /\ Cardinality(Filters) = l
  BY FoundLength
<1>4. \A k \in 1..l : key'[k] = key[k]
  BY <1>1, <1>3 DEF Filters
<1>5. Found = [k \in 1..l |-> key[k]] /\ Found' = [k \in 1..l |-> key'[k]]
  BY <1>2, <1>3 DEF Found
<1>6. n' = n
  BY QuietStep
<1> QED
  BY <1>4, <1>5, <1>6

\* A filter that reads its key finds the next prime.
LEMMA ReadKeyFinds ==
  ASSUME FullInv, IInv', NEW p \in Stages, ReadKey(p)
  PROVE  Answers!FindPrime
<1> USE DEF FullInv, IInv
<1> DEFINE h == Head(pipe[p - 1])
<1>0. /\ p \in Procs /\ p - 1 \in Procs /\ p \in Int /\ p > 0 /\ n \in Nat /\ Stages \subseteq Procs
      /\ phase \in [Procs -> Phase] /\ key \in [Procs -> Nat] /\ (p - 1) + 1 = p
  BY Indices, PfactAssumption DEF TypeOK
<1>1. /\ phase[p] = "readKey" /\ phase' = [phase EXCEPT ![p] = "test"]
      /\ n' = n /\ printed' = printed
      /\ pipe[p - 1] # << >> /\ key' = [key EXCEPT ![p] = h]
  BY KeyRead DEF ReadKey, Goto
<1>2. h \in 2..n /\ Survives(h, p - 1)
  BY <1>0, <1>1, HeadOfPipe
\* Filters 1 to p-1 have their keys, and now p has its own.
<1>3. Filters = 1..(p - 1) /\ Filters' = 1..p
  <2>1. \A q \in Stages : p < q => phase[q] = "unborn"
    BY <1>0, <1>1 DEF Chain, Childless
  <2>2. \A q \in Stages : q \in Filters => q <= p
    BY <1>0, <2>1, Indices DEF Filters, HasKey
  <2>3. p \notin Filters
    BY <1>1 DEF Filters, HasKey
  <2>4. \A q \in Filters : q <= p
    BY <2>2 DEF Filters
  <2>5. Filters = 1..(p - 1)
    <3>1. 1..(p - 1) \subseteq Filters /\ Filters \subseteq 1..p
      BY <1>0, <1>1, <2>4, FiltersAre
    <3>2. \A k \in 1..p : k \in 1..(p - 1) \/ k = p
      BY <1>0
    <3> QED
      BY <2>3, <3>1, <3>2
  <2>6. HasKey(p)' /\ \A q \in Stages : q # p => (HasKey(q)' <=> HasKey(q))
    BY <1>0, <1>1 DEF HasKey
  <2>7. Filters' = Filters \cup {p}
    BY <2>3, <2>6 DEF Filters
  <2> QED
    BY <1>0, <2>5, <2>7
<1>4. Cardinality(Filters) = p - 1 /\ Cardinality(Filters') = p
  <2>1. Cardinality(1..(p - 1)) = p - 1 /\ Cardinality(1..p) = p
    BY <1>0, FS_Interval
  <2> QED
    BY <1>3, <2>1
<1>5. Found = [k \in 1..(p - 1) |-> key[k]] /\ Found' = [k \in 1..p |-> key'[k]]
  <2>1. Found' = [k \in 1..Cardinality(Filters') |-> key'[k]]
    BY DEF Found
  <2> QED
    BY <1>4, <2>1 DEF Found
<1> HIDE DEF h
<1>6. Found' = Append(Found, h)
  <2>1. Found \in Seq(Nat) /\ Len(Found) = p - 1
    <3>1. \A k \in 1..(p - 1) : key[k] \in Nat
      BY <1>0, PfactAssumption DEF Procs
    <3> QED
      BY <1>0, <1>5, <3>1
  <2>2. h \in Nat
    BY <1>2
  <2>3. Append(Found, h) = [k \in 1..p |-> IF k = p THEN h ELSE key[k]]
    BY <1>0, <1>5, <2>1, <2>2
  <2>4. \A k \in 1..p : key'[k] = IF k = p THEN h ELSE key[k]
    BY <1>0, <1>1, PfactAssumption DEF Procs
  <2> QED
    BY <1>5, <2>3, <2>4
<1>7. DOMAIN Found = 1..(p - 1) /\ \A i \in 1..(p - 1) : Found[i] = key[i]
  BY <1>5
<1>8. printed = << >>
  <2>1. ASSUME NEW l \in Stages, Closes(l) PROVE FALSE
    <3>1. p \in 0..(l - 1) \/ p = l \/ l < p
      BY <1>0, Indices
    <3> QED
      BY <1>0, <1>1, <2>1, <3>1 DEF Closes
  <2> QED
    BY <2>1 DEF Closing
<1>9. \A i \in DOMAIN Found : Found[i] * Found[i] < n
  <2>1. ASSUME NEW i \in 1..(p - 1) PROVE key[i] * key[i] < n
    <3>1. i \in Stages /\ i \in Procs /\ i < p /\ HasKey(i)
      BY <1>1, KeysBefore
    <3>2. phase[i] \in HasChild
      BY <1>0, <1>1, <3>1, AliveGroups DEF Chain, Alive
    <3> QED
      BY <3>1, <3>2 DEF Loops, LoopOK, Below
  <2> QED
    BY <1>7, <2>1
<1>10. \A m : m \in Answers!Unsieved <=> m \in 2..n /\ Survives(m, p - 1)
  <2>1. Answers!Unsieved = {m \in 2..n : \A i \in DOMAIN Found : ~Answers!Divides(Found[i], m)}
    BY DEF Answers!Unsieved, Found
  <2> QED
    BY <1>7, <2>1, SameArithmetic DEF Survives
<1>11. ASSUME NEW m \in 2..n, Survives(m, p - 1) PROVE h <= m
  <2>1. ASSUME m < h PROVE FALSE
    <3>1. HasKey(p)
      BY <1>1, <1>11, <2>1, Gap DEF h
    <3> QED
      BY <1>1, <3>1 DEF HasKey
  <2> QED
    BY <1>2, <2>1
<1>12. Answers!Prime(h)
  <2>1. HasKey(p)'
    BY <1>0, <1>1 DEF HasKey
  <2>2. Prime(key'[p])
    BY <2>1 DEF Keys, KeyOK
  <2>3. key'[p] = h
    BY <1>0, <1>1
  <2> QED
    BY <2>2, <2>3, SameArithmetic
<1>13. Given = Verdict(-1, << >>) /\ Given' = Given
  BY <1>1, <1>8 DEF Given
<1> QED
  BY <1>1, <1>2, <1>6, <1>9, <1>10, <1>11, <1>12, <1>13 DEF Answers!FindPrime, Found, Given

\* The sieve is idle in every other step.
LEMMA SieveStep ==
  ASSUME Garbage = {}, FullInv, IInv', NEW p \in Procs, Steps(p)
  PROVE  Answers!Next \/ UNCHANGED Answers!vars
<1>1. CASE p \in Stages /\ ReadKey(p)
  BY <1>1, ReadKeyFinds DEF Answers!Next
<1>2. CASE p \in Stages /\ (DrainEnd(p) \/ CollectEnd(p))
  <2>1. ~ReadKey(p)
    BY <1>2 DEF DrainEnd, CollectEnd, ReadKey, Goto
  <2>2. Found' = Found /\ n' = n
    BY <2>1, FoundStays DEF FullInv
  <2>3. printed = << >>
    BY <1>2, ClosesStep DEF FullInv, Closing
  <2>4. printed' = <<Answer(n)>>
    BY <1>2, <2>3, VerdictRight
  <2>5. Given = Verdict(-1, << >>) /\ Given' = Answers!Answer(n)
    BY <2>3, <2>4, SameArithmetic DEF Given
  <2> QED
    BY <2>2, <2>5 DEF Answers!Announce, Answers!Next, Found, Given
<1>3. CASE ~(p \in Stages /\ (ReadKey(p) \/ DrainEnd(p) \/ CollectEnd(p)))
  <2>1. Found' = Found /\ n' = n
    BY <1>3, FoundStays DEF FullInv
  <2>2. Given' = Given
    BY <1>3, QuietStep DEF Given
  <2> QED
    BY <2>1, <2>2 DEF Answers!vars, Found, Given
<1> QED
  BY <1>1, <1>2, <1>3

\* The pipeline implements the sieve's steps, whatever fails and in whatever order
\* its processes run: keys are found as the sieve finds primes, none beyond the
\* root, and the one verdict printed is the sieve's answer.  (That there is an
\* answer in the end, without faults, is left to TLC.)
THEOREM ImplementsSieve ==
  ASSUME Garbage = {}
  PROVE  Spec => Answers!Init /\ [][Answers!Next]_(Answers!vars)
<1>1. Init => Answers!Init
  <2> SUFFICES ASSUME Init PROVE Answers!Init
    OBVIOUS
  <2>1. n \in Inputs /\ printed = << >>
    BY DEF Init
  <2>2. Filters = {}
    <3>1. \A q \in Stages : phase[q] = "unborn"
      BY Indices DEF Init
    <3> QED
      BY <3>1 DEF Filters, HasKey
  <2>3. Cardinality(Filters) = 0
    BY <2>2, FS_EmptySet
  <2>4. Found = << >>
    BY <2>3 DEF Found
  <2> QED
    BY <2>1, <2>4 DEF Answers!Init, Found
<1>2. FullInv /\ FullInv' /\ [Next]_vars => [Answers!Next]_(Answers!vars)
  <2> SUFFICES ASSUME FullInv, FullInv', [Next]_vars
               PROVE  Answers!Next \/ UNCHANGED Answers!vars
    OBVIOUS
  <2>1. CASE UNCHANGED vars
    <3>1. Found' = Found /\ Given' = Given /\ n' = n
      BY <2>1 DEF vars, Found, Given, Filters, HasKey
    <3> QED
      BY <3>1 DEF Answers!vars, Found, Given
  <2>2. ASSUME NEW p \in Procs, Steps(p) PROVE Answers!Next \/ UNCHANGED Answers!vars
    BY <2>2, SieveStep DEF FullInv
  <2> QED
    BY <2>1, <2>2, SomebodySteps
<1> QED
  BY <1>1, <1>2, FullInvariant, PTL DEF Spec
=============================================================================
