----------------------------- MODULE PfactProofs ----------------------------
(***************************************************************************)
(* Proofs about the pipeline, for every set of inputs, every size of pipe, *)
(* every limit on descriptors and stack, and with every fault of Pfact.    *)
(***************************************************************************)
EXTENDS PfactInv, PrimesProofs, SequenceTheorems, TLAPS

\* The two actions a process ends or moves on with, on the type of the state.
LEMMA EndType ==
  ASSUME TypeOK, NEW p \in Procs,
         NEW code \in {Running, Killed} \cup 0..(ExitMod - 1), End(p, code)
  PROVE  /\ phase' \in [Procs -> Phase]
         /\ status' \in [Procs -> {Running, Killed} \cup 0..(ExitMod - 1)]
         /\ rd' \in [Procs -> SUBSET Procs]
         /\ wr' \in [Procs -> SUBSET Procs]
BY DEF End, TypeOK, Phase

\* Initially every variable has its type.
LEMMA TypeInit == Init => TypeOK
<1> SUFFICES ASSUME Init PROVE TypeOK
  OBVIOUS
<1>1. ExitMod - 1 \in Nat /\ Running \in Int /\ Killed \in Int
  BY PfactAssumption DEF Running, Killed
<1>2. << >> \in Seq([result : 0..3, factors : Seq(Int)])
  OBVIOUS
<1>3. << >> \in Seq(Nat) /\ << >> \in Seq(Nat \ {0})
  OBVIOUS
<1> QED
  BY <1>1, <1>2, <1>3, PfactAssumption DEF Init, TypeOK, Phase, Procs

\* What taking a number from a pipe does to the type of the state.
LEMMA TakeType ==
  ASSUME TypeOK, NEW p \in Stages, Take(p)
  PROVE  /\ got'  \in [Procs -> Nat]
         /\ left' \in [Procs -> Nat]
         /\ pipe' \in [Procs -> Seq(Nat)]
         /\ Head(pipe[p - 1]) \in Nat
<1>1. p \in Procs /\ p - 1 \in Procs
  BY PfactAssumption DEF Stages, Procs
<1>2. pipe[p - 1] \in Seq(Nat) /\ pipe[p - 1] # << >>
  BY <1>1 DEF TypeOK, Take
<1>3. Head(pipe[p - 1]) \in Nat /\ Tail(pipe[p - 1]) \in Seq(Nat)
  BY <1>2, HeadTailProperties
<1>4. left[p] - 1 \in Nat
  <2>1. left[p] \in Nat
    BY <1>1 DEF TypeOK
  <2>2. left[p] > 0
    BY DEF Take
  <2> QED
    BY <2>1, <2>2
<1>5. /\ got'  = [got  EXCEPT ![p] = Head(pipe[p - 1])]
      /\ left' = [left EXCEPT ![p] = left[p] - 1]
      /\ pipe' = [pipe EXCEPT ![p - 1] = Tail(pipe[p - 1])]
  BY DEF Take
<1>6. got' \in [Procs -> Nat] /\ left' \in [Procs -> Nat]
  BY <1>1, <1>3, <1>4, <1>5 DEF TypeOK
<1>7. pipe' \in [Procs -> Seq(Nat)]
  BY <1>1, <1>3, <1>5 DEF TypeOK
<1> QED
  BY <1>3, <1>6, <1>7

\* A verdict has the type of what is printed.
LEMMA VerdictType ==
  ASSUME NEW r \in 0..3, NEW f \in Seq(Int)
  PROVE  Verdict(r, f) \in [result : 0..3, factors : Seq(Int)]
BY DEF Verdict

\* A step of a process that ends, or only reads or writes, keeps the types.
LEMMA TypeStage ==
  ASSUME TypeOK, Chain, Loops, NEW p \in Stages, Stage(p)
  PROVE  TypeOK'
<1> USE PfactAssumption
<1>0. p \in Procs /\ p - 1 \in Procs /\ p # 0 /\ n \in Nat \ {0, 1}
  BY DEF Stages, Procs, TypeOK
<1>a. Failed \in 0..(ExitMod - 1) /\ 0 \in 0..(ExitMod - 1)
  BY DEF Failed
<1>1. CASE CloseWrite(p)
  BY <1>0, <1>1 DEF CloseWrite, Goto, TypeOK, Phase
<1>2. CASE ReadKey(p)
  <2>1. pipe[p - 1] # << >> =>
          Head(pipe[p - 1]) \in Nat /\ Tail(pipe[p - 1]) \in Seq(Nat)
    BY <1>0, HeadTailProperties DEF TypeOK
  <2> QED
    <3>1. CASE pipe[p - 1] # << >>
      <4>1. /\ key' = [key EXCEPT ![p] = Head(pipe[p - 1])]
            /\ got' = [got EXCEPT ![p] = Head(pipe[p - 1])]
            /\ pipe' = [pipe EXCEPT ![p - 1] = Tail(pipe[p - 1])]
        BY <1>2, <3>1 DEF ReadKey, EOF
      <4>2. /\ key' \in [Procs -> Nat]
            /\ got' \in [Procs -> Nat]
            /\ pipe' \in [Procs -> Seq(Nat)]
        BY <1>0, <2>1, <3>1, <4>1 DEF TypeOK
      <4> QED
        BY <1>0, <1>2, <4>2 DEF ReadKey, Goto, TypeOK, Phase
    <3>2. CASE pipe[p - 1] = << >>
      BY <1>0, <1>2, <3>2 DEF ReadKey, Goto, TypeOK, Phase
    <3> QED
      BY <3>1, <3>2
<1>3. CASE TestKey(p)
  <2>1. CASE NoFactor(p)
    BY <1>0, <1>3, <2>1 DEF TestKey, NoFactor, TypeOK, Phase
  <2>2. CASE FirstFactor(p)
    <3>1. key[p] \in Nat \ {0}
      <4>1. HasKey(p)
        BY <1>3 DEF TestKey, HasKey, Stages
      <4>2. key[p] \in Nat /\ 2 <= key[p]
        BY <1>0, <4>1 DEF Loops, LoopOK, TypeOK
      <4> QED
        BY <4>2
    <3>2. /\ phase' = [phase EXCEPT ![p] = "fork"]
          /\ factors' = [factors EXCEPT ![p] = Append(factors[p], key[p])]
      BY <2>2 DEF FirstFactor
    <3>3. phase' \in [Procs -> Phase]
      BY <1>0, <3>2 DEF TypeOK, Phase
    <3>4. factors' \in [Procs -> Seq(Nat \ {0})]
      <4>1. Append(factors[p], key[p]) \in Seq(Nat \ {0})
        BY <1>0, <3>1 DEF TypeOK
      <4> QED
        BY <1>0, <3>2, <4>1 DEF TypeOK
    <3> QED
      BY <1>3, <2>2, <3>3, <3>4 DEF TestKey, FirstFactor, TypeOK
  <2>3. CASE SecondFactor(p) \/ SquareRoot(p)
    <3>1. /\ phase' = [phase EXCEPT ![p] = "drain"]
          /\ left' = [left EXCEPT ![p] = n - 1]
          /\ UNCHANGED <<factors, seen, rd, wr, status>>
      BY <2>3 DEF SecondFactor, SquareRoot
    <3>2. phase' \in [Procs -> Phase]
      BY <1>0, <3>1 DEF TypeOK, Phase
    <3>3. left' \in [Procs -> Nat]
      BY <1>0, <3>1 DEF TypeOK
    <3> QED
      BY <1>3, <3>1, <3>2, <3>3 DEF TestKey, TypeOK
  <2>5. CASE BeyondRoot(p)
    <3>1. n - 2 \in Nat /\ key[p] \in Nat
      BY <1>0 DEF TypeOK
    <3> QED
      BY <1>0, <1>3, <2>5, <3>1 DEF TestKey, BeyondRoot, TypeOK, Phase
  <2>6. CASE StackOverflow(p)
    BY <1>0, <1>3, <2>6, EndType DEF TestKey, StackOverflow, TypeOK
  <2> QED
    BY <1>3, <2>1, <2>2, <2>3, <2>5, <2>6 DEF TestKey
<1>4. CASE Fork(p)
  BY <1>0, <1>4 DEF Fork, TypeOK, Phase, Procs
<1>5. CASE ForkFails(p)
  BY <1>0, <1>a, <1>5, EndType DEF ForkFails, TypeOK
<1>6. CASE CloseRead(p)
  <2>1. n - 1 \in Nat
    BY <1>0
  <2>2. /\ got' \in [Procs -> Nat]
        /\ left' \in [Procs -> Nat]
        /\ rd' \in [Procs -> SUBSET Procs]
    BY <1>0, <1>6, <2>1 DEF CloseRead, TypeOK
  <2> QED
    BY <1>0, <1>6, <2>2 DEF CloseRead, Goto, TypeOK, Phase
<1>7. CASE FilterRead(p)
  BY <1>0, <1>7, TakeType DEF FilterRead, Goto, TypeOK, Phase
<1>8. CASE Forward(p)
  <2>1. /\ phase' = [phase EXCEPT ![p] = "filter"]
        /\ pipe' = [pipe EXCEPT ![p] = Append(pipe[p], got[p])]
    BY <1>8 DEF Forward, Write, Goto
  <2>2. phase' \in [Procs -> Phase]
    BY <1>0, <2>1 DEF TypeOK, Phase
  <2>3. pipe' \in [Procs -> Seq(Nat)]
    <3>1. Append(pipe[p], got[p]) \in Seq(Nat)
      BY <1>0 DEF TypeOK
    <3> QED
      BY <1>0, <2>1, <3>1 DEF TypeOK
  <2> QED
    BY <1>8, <2>2, <2>3 DEF Forward, Write, TypeOK
<1>9. CASE SigPipe(p)
  BY <1>0, <1>9, EndType DEF SigPipe, TypeOK
<1>10. CASE FilterEnd(p)
  BY <1>0, <1>10 DEF FilterEnd, Goto, TypeOK, Phase
<1>11. CASE DrainRead(p)
  BY <1>0, <1>11, TakeType DEF DrainRead, TypeOK
<1>12. CASE DrainEnd(p)
  <2>1. printed' \in Seq([result : 0..3, factors : Seq(Int)])
    BY <1>0, <1>12 DEF DrainEnd, Verdict, TypeOK
  <2> QED
    BY <1>0, <1>a, <1>12, <2>1, EndType DEF DrainEnd, TypeOK
<1>13. CASE CollectRead(p)
  <2>1. seen' \in [Procs -> SUBSET Nat]
    BY <1>0, <1>13, TakeType DEF CollectRead, TypeOK
  <2> QED
    BY <1>0, <1>13, <2>1, TakeType DEF CollectRead, TypeOK
<1>14. CASE CollectEnd(p)
  <2>1. printed' \in Seq([result : 0..3, factors : Seq(Int)])
    <3>1. CASE Len(factors[p]) # 1
      <4>1. printed' = Append(printed, Verdict(0, << >>))
        BY <1>14, <3>1 DEF CollectEnd
      <4>2. Verdict(0, << >>) \in [result : 0..3, factors : Seq(Int)]
        BY DEF Verdict
      <4> QED
        BY <4>1, <4>2 DEF TypeOK
    <3>2. CASE Len(factors[p]) = 1
      <4>1. factors[p][1] \in Nat \ {0}
        <5>1. factors[p] \in Seq(Nat \ {0}) /\ 1 \in 1..Len(factors[p])
          BY <1>0, <3>2 DEF TypeOK
        <5> QED
          BY <5>1, ElementOfSeq
      <4>2. Cofactor(p) \in Int
        BY <1>0, <4>1 DEF Cofactor
      <4>3. PICK v : /\ v = Verdict(2, <<factors[p][1], Cofactor(p)>>)
                        \/ v = Verdict(3, << >>)
                     /\ printed' = Append(printed, v)
        BY <1>14, <3>2 DEF CollectEnd
      <4>4. v \in [result : 0..3, factors : Seq(Int)]
        <5>1. <<factors[p][1], Cofactor(p)>> \in Seq(Int) /\ << >> \in Seq(Int)
          BY <4>1, <4>2
        <5>2. /\ Verdict(2, <<factors[p][1], Cofactor(p)>>)
                   \in [result : 0..3, factors : Seq(Int)]
              /\ Verdict(3, << >>) \in [result : 0..3, factors : Seq(Int)]
          <6>1. 2 \in 0..3 /\ 3 \in 0..3
            OBVIOUS
          <6> QED
            BY <5>1, <6>1, VerdictType
        <5> QED
          BY <4>3, <5>2
      <4> QED
        BY <4>3, <4>4 DEF TypeOK
    <3> QED
      BY <3>1, <3>2
  <2> QED
    BY <1>0, <1>a, <1>14, <2>1, EndType DEF CollectEnd, TypeOK
<1>15. CASE Wait(p)
  <2>1. p + 1 \in Procs
    BY <1>0, <1>15 DEF Wait, Chain, HasChild, Procs
  <2>2. status[p + 1] # Killed => (1 + status[p + 1]) % ExitMod \in 0..(ExitMod - 1)
    <3>1. status[p + 1] \in {Running, Killed} \cup 0..(ExitMod - 1)
      BY <2>1 DEF TypeOK
    <3>2. status[p + 1] # Killed => 1 + status[p + 1] \in Nat
      BY <3>1 DEF Running
    <3> QED
      BY <3>2
  <2> QED
    BY <1>0, <1>a, <1>15, <2>2, EndType DEF Wait, TypeOK
<1> QED
  BY <1>1, <1>2, <1>3, <1>4, <1>5, <1>6, <1>7, <1>8, <1>9, <1>10, <1>11,
     <1>12, <1>13, <1>14, <1>15 DEF Stage

\* A step of main keeps the type of the state.
LEMMA TypeMain ==
  ASSUME TypeOK, Chain, Loops, Main
  PROVE  TypeOK'
<1> USE PfactAssumption
<1>0. 0 \in Procs /\ 1 \in Procs /\ n \in Nat
  BY DEF Procs, TypeOK
<1>a. Failed \in 0..(ExitMod - 1) /\ {0, 1} \subseteq 0..(ExitMod - 1)
  BY DEF Failed
<1>1. CASE Fork(0)
  BY <1>0, <1>1 DEF Fork, TypeOK, Phase, Procs
<1>2. CASE ForkFails(0)
  BY <1>0, <1>a, <1>2, EndType DEF ForkFails, TypeOK
<1>3. CASE CloseRead(0)
  BY <1>0, <1>3 DEF CloseRead, Goto, TypeOK, Phase
<1>4. CASE Feed
  <2>1. pipe' \in [Procs -> Seq(Nat)]
    BY <1>0, <1>4 DEF Feed, Write, TypeOK
  <2>2. got' \in [Procs -> Nat]
    BY <1>0, <1>4 DEF Feed, TypeOK
  <2> QED
    BY <1>4, <2>1, <2>2 DEF Feed, Write, TypeOK
<1>5. CASE SigPipe(0)
  BY <1>0, <1>5, EndType DEF SigPipe, TypeOK
<1>6. CASE FeedEnd
  BY <1>0, <1>6 DEF FeedEnd, Goto, TypeOK, Phase
<1>7. CASE MainWait
  <2>1. count' \in -1..(ExitMod - 1)
    <3>1. status[1] \in {Running, Killed} \cup 0..(ExitMod - 1)
      BY <1>0 DEF TypeOK
    <3>2. CASE status[1] = Killed
      BY <1>7, <3>2 DEF MainWait, TypeOK
    <3>3. CASE status[1] # Killed
      <4>1. count' = status[1]
        BY <1>7, <3>3 DEF MainWait
      <4> QED
        BY <3>1, <3>3, <4>1 DEF Running
    <3> QED
      BY <3>2, <3>3
  <2>2. End(0, 0) \/ End(0, 1)
    BY <1>7 DEF MainWait
  <2>3. /\ phase' \in [Procs -> Phase]
        /\ status' \in [Procs -> {Running, Killed} \cup 0..(ExitMod - 1)]
        /\ rd' \in [Procs -> SUBSET Procs]
        /\ wr' \in [Procs -> SUBSET Procs]
    BY <1>0, <1>a, <2>2, EndType
  <2> QED
    BY <1>7, <2>1, <2>3 DEF MainWait, TypeOK
<1> QED
  BY <1>1, <1>2, <1>3, <1>4, <1>5, <1>6, <1>7 DEF Main

-----------------------------------------------------------------------------
\* A process that moves on within Childless or HasChild, or ends when the
\* processes after it have ended, keeps the chain.
LEMMA ChainMove ==
  ASSUME TypeOK, Chain, NEW p \in Procs, NEW to \in Phase,
         phase' = [phase EXCEPT ![p] = to],
         \/ phase[p] \in Childless /\ to \in Childless \cup {"ended"}
         \/ phase[p] \in HasChild \ {"wait"} /\ to \in HasChild
         \/ /\ phase[p] \in HasChild /\ to = "ended"
            /\ \A q \in Procs : p < q => phase[q] \in {"unborn", "ended"},
         p = 0 => to \in HasChild \cup {"fork", "ended"},
         to = "wait" /\ p > 0 => phase[p - 1] = "wait"
  PROVE  Chain'
<1> USE PfactAssumption
<1>0. \A q \in Procs : phase'[q] = IF q = p THEN to ELSE phase[q]
  BY DEF TypeOK
<1>1. phase'[0] \in HasChild \cup {"fork", "ended"}
  BY <1>0 DEF Chain, Procs
<1>2. ASSUME NEW a \in Procs, NEW b \in Procs, a < b
      PROVE  /\ phase'[a] \in Childless \cup {"unborn"} => phase'[b] = "unborn"
             /\ phase'[a] = "ended" => phase'[b] \in {"unborn", "ended"}
  <2>1. CASE a = p
    BY <1>0, <1>2, <2>1 DEF Chain, Childless, HasChild, Procs
  <2>2. CASE a # p
    BY <1>0, <1>2, <2>2 DEF Chain, Childless, HasChild, Procs
  <2> QED
    BY <2>1, <2>2
<1>3. ASSUME NEW q \in Procs, phase'[q] \in HasChild
      PROVE  q < MaxProcs /\ phase'[q + 1] # "unborn"
  <2>1. q < MaxProcs /\ phase[q + 1] # "unborn"
    BY <1>0, <1>3 DEF Chain, Childless, HasChild
  <2>2. q + 1 \in Procs
    BY <2>1 DEF Procs
  <2> QED
    BY <1>0, <2>1, <2>2 DEF Childless, HasChild
<1>4. ASSUME NEW q \in Stages, phase'[q] = "wait"
      PROVE  phase'[q - 1] = "wait"
  <2>1. q \in Procs /\ q - 1 \in Procs /\ q > 0 /\ q # q - 1 /\ q - 1 < q
    BY DEF Stages, Procs
  <2>2. phase[q - 1] = "wait"
    BY <1>0, <1>4, <2>1 DEF Chain, Childless, HasChild
  <2>3. q - 1 # p
    <3>1. SUFFICES ASSUME q - 1 = p PROVE FALSE
      OBVIOUS
    <3>2. phase[q] = "wait"
      BY <1>0, <1>4, <2>1, <3>1
    <3> QED
      BY <2>1, <2>2, <3>1, <3>2 DEF Childless, HasChild
  <2> QED
    BY <1>0, <2>1, <2>2, <2>3
<1> QED
  BY <1>1, <1>2, <1>3, <1>4 DEF Chain

\* Where a process that is alive is: in one of the two groups.
LEMMA AliveGroups ==
  ASSUME TypeOK, NEW p \in Procs, Alive(p)
  PROVE  phase[p] \in Childless \cup HasChild
BY DEF TypeOK, Alive, Phase, Childless, HasChild

\* When a process finds that nobody reads its pipe, all after it have ended.
LEMMA NoReaders ==
  ASSUME TypeOK, Chain, Ends, NEW p \in Procs, phase[p] = "write",
         Readers(p) = {}, NEW q \in Procs, p < q
  PROVE  phase[q] \in {"unborn", "ended"}
<1>1. SUFFICES ASSUME Alive(q) PROVE FALSE
  BY DEF Alive
<1>2. p \in 0..(q - 1) /\ p \notin rd[q]
  BY DEF Readers, Procs
<1>3. p = q - 1 /\ phase[q] = "wait"
  BY <1>1, <1>2 DEF Ends
<1>4. q \in Stages
  BY DEF Stages, Procs
<1> QED
  BY <1>3, <1>4 DEF Chain

\* A filter that has nothing left to read has a parent that has sent all.
LEMMA EndOfInput ==
  ASSUME TypeOK, Chain, Ends, NEW p \in Stages, Alive(p), EOF(p - 1)
  PROVE  phase[p - 1] = "wait" \/ phase[p] = "born"
<1> USE PfactAssumption
<1>1. p \in Procs /\ p - 1 \in Procs /\ p - 1 < p
  BY DEF Stages, Procs
<1>2. Alive(p - 1) /\ phase[p - 1] \notin Childless
  BY <1>1 DEF Chain, Alive
<1>3. phase[p - 1] \in HasChild
  BY <1>1, <1>2, AliveGroups
<1>4. p - 1 \notin wr[p - 1]
  BY <1>1 DEF EOF, Writers
<1>5. phase[p - 1] \notin {"closeRead", "filter", "write"}
  BY <1>1, <1>4 DEF Ends
<1> QED
  BY <1>3, <1>5 DEF HasChild

\* A filter's loop always has iterations left: it ends at end of file only.
LEMMA FilterLoopEnds ==
  ASSUME TypeOK, Chain, Ends, Loops, NEW p \in Stages,
         phase[p] = "filter", LoopEnds(p)
  PROVE  EOF(p - 1) /\ phase[p - 1] = "wait"
<1> USE PfactAssumption
<1>1. p \in Procs /\ HasKey(p) /\ Alive(p)
  BY DEF Stages, Procs, HasKey, Alive
<1>2. /\ 2 <= key[p] /\ got[p] <= n
      /\ left[p] + got[p] >= n - 1 + key[p]
  BY <1>1 DEF Loops, LoopOK
<1>3. n \in Int /\ key[p] \in Int /\ got[p] \in Int /\ left[p] \in Int
  BY <1>1 DEF TypeOK
<1>4. left[p] # 0
  BY <1>2, <1>3
<1> QED
  BY <1>1, <1>4, EndOfInput DEF LoopEnds

-----------------------------------------------------------------------------
\* The first number in a filter's pipe cannot be missing when it reads its
\* key: its parent still had a prime to send.
LEMMA Ancestors ==
  ASSUME TypeOK, Chain, NEW p \in Procs, phase[p] # "unborn",
         NEW j \in Stages, j < p
  PROVE  HasKey(j)
BY DEF Chain, Childless, HasKey, Stages, Procs

\* A filter that waits for its key always gets one: it never sees the end of
\* its pipe, since its parent still has a number to send (the next prime).
LEMMA NotStale ==
  ASSUME IInv, NEW p \in Stages, phase[p] = "readKey"
  PROVE  ~EOF(p - 1)
<1> USE PfactAssumption DEF IInv
<1>0. p \in Procs /\ p - 1 \in Procs /\ Alive(p) /\ ~HasKey(p)
  BY DEF Stages, Procs, Alive, HasKey
<1>1. SUFFICES ASSUME EOF(p - 1) PROVE FALSE
  OBVIOUS
<1>2. phase[p - 1] = "wait" /\ pipe[p - 1] = << >>
  BY <1>0, <1>1, EndOfInput DEF EOF
<1>3. \A m \in 2..n : ~Survives(m, p - 1)
  <2>1. phase[p - 1] \in HasChild /\ (p - 1) + 1 = p
    BY <1>2 DEF HasChild, Stages
  <2>2. \A m \in 2..n : Survives(m, p - 1) =>
          Contains(p - 1, m) \/ (HasKey(p) /\ m <= got[p])
    <3>1. NoneLost(p - 1)
      BY <1>0, <2>1 DEF Complete
    <3> QED
      BY <1>2, <2>1, <3>1 DEF NoneLost, NextHasKey
  <2>3. DOMAIN pipe[p - 1] = {}
    BY <1>2
  <2> QED
    BY <1>0, <2>2, <2>3 DEF Contains
<1>4. n \in Nat /\ n >= 2
  BY DEF TypeOK
<1>5. CASE p = 1
  BY <1>3, <1>4, <1>5 DEF Survives
<1>6. CASE p > 1
  <2>1. p - 1 \in Stages /\ HasKey(p - 1)
    BY <1>2, <1>6 DEF Stages, HasKey
  <2>2. /\ key[p - 1] \in Nat /\ 2 <= key[p - 1] /\ key[p - 1] <= n
        /\ Prime(key[p - 1]) /\ key[p - 1] * key[p - 1] < n
    BY <1>0, <1>2, <1>4, <2>1 DEF Loops, LoopOK, Keys, KeyOK, TypeOK, HasChild, Below
  <2>3. PICK q \in (key[p - 1] + 1)..n : Prime(q)
    <3>1. n \in Inputs /\ key[p - 1] \in 2..n
      BY <1>4, <2>2 DEF TypeOK
    <3> QED
      BY <2>2, <3>1, NextPrimeExists
  <2>4. ASSUME NEW j \in 1..(p - 1) PROVE ~Divides(key[j], q)
    <3>1. j \in Stages /\ j \in Procs /\ HasKey(j)
      BY <1>0, Ancestors DEF Stages, Procs
    <3>2. key[j] \in Nat /\ 2 <= key[j]
      BY <3>1 DEF Loops, LoopOK, TypeOK
    <3>3. key[j] <= key[p - 1]
      BY <2>1, <2>2, <3>1, <3>2 DEF Keys, KeyOK
    <3>4. key[j] \in 2..(q - 1)
      BY <2>2, <3>2, <3>3
    <3> QED
      BY <2>3, <3>4 DEF Prime
  <2>5. q \in 2..n
    BY <1>4, <2>2
  <2> QED
    BY <1>3, <2>4, <2>5 DEF Survives
<1> QED
  BY <1>5, <1>6 DEF Stages

\* So a filter's key is always the first number in its pipe.
LEMMA KeyRead ==
  ASSUME IInv, NEW p \in Stages, ReadKey(p)
  PROVE  /\ pipe[p - 1] # << >>
         /\ key'  = [key EXCEPT ![p] = Head(pipe[p - 1])]
         /\ got'  = [got EXCEPT ![p] = Head(pipe[p - 1])]
         /\ pipe' = [pipe EXCEPT ![p - 1] = Tail(pipe[p - 1])]
<1>1. phase[p] = "readKey"
  BY DEF ReadKey, Goto
<1>2. ~EOF(p - 1)
  BY <1>1, NotStale
<1> QED
  BY <1>2 DEF ReadKey

\* The number at the head of a pipe: sieved, ahead of what was read before
\* it and less than what comes after it.
LEMMA HeadOfPipe ==
  ASSUME IInv, NEW k \in Procs, pipe[k] # << >>
  PROVE  /\ Head(pipe[k]) \in 2..n
         /\ Survives(Head(pipe[k]), k)
         /\ Ahead(k, Head(pipe[k]))
         /\ NextHasKey(k) => got[k + 1] < Head(pipe[k])
         /\ Tail(pipe[k]) \in Seq(Nat)
         /\ Len(Tail(pipe[k])) = Len(pipe[k]) - 1
         /\ \A i \in DOMAIN Tail(pipe[k]) :
              /\ Tail(pipe[k])[i] = pipe[k][i + 1]
              /\ i + 1 \in DOMAIN pipe[k]
              /\ Head(pipe[k]) < Tail(pipe[k])[i]
<1> USE DEF IInv
<1>1. pipe[k] \in Seq(Nat) /\ Len(pipe[k]) \in Nat \ {0}
  BY EmptySeq, LenProperties DEF TypeOK
<1>2. Head(pipe[k]) = pipe[k][1] /\ 1 \in DOMAIN pipe[k]
  BY <1>1
<1>3. /\ Head(pipe[k]) \in 2..n
      /\ Survives(Head(pipe[k]), k)
      /\ Ahead(k, Head(pipe[k]))
      /\ NextHasKey(k) => got[k + 1] < Head(pipe[k])
  BY <1>2 DEF Pipes, PipeOK
<1>4. /\ Tail(pipe[k]) \in Seq(Nat)
      /\ Len(Tail(pipe[k])) = Len(pipe[k]) - 1
      /\ \A i \in 1..Len(Tail(pipe[k])) : Tail(pipe[k])[i] = pipe[k][i + 1]
  BY <1>1, HeadTailProperties
<1>5. ASSUME NEW i \in DOMAIN Tail(pipe[k])
      PROVE  /\ i + 1 \in DOMAIN pipe[k] /\ 1 < i + 1
             /\ Tail(pipe[k])[i] = pipe[k][i + 1]
  BY <1>1, <1>4
<1>6. \A i \in DOMAIN pipe[k] : 1 < i => pipe[k][1] < pipe[k][i]
  BY <1>2 DEF Pipes, PipeOK
<1> QED
  BY <1>2, <1>3, <1>4, <1>5, <1>6

-----------------------------------------------------------------------------
\* Chain is preserved.
LEMMA ChainFork ==
  ASSUME TypeOK, Chain, NEW p \in Procs, Fork(p)
  PROVE  Chain'
<1> USE PfactAssumption
<1>0. p + 1 \in Procs /\ p < MaxProcs /\ phase[p] = "fork"
  BY DEF Fork, Procs
<1>1. \A q \in Procs : phase'[q] = IF q = p THEN "closeRead"
                                   ELSE IF q = p + 1 THEN "born" ELSE phase[q]
  <2>1. phase' = [phase EXCEPT ![p] = "closeRead", ![p + 1] = "born"]
    BY DEF Fork
  <2>2. phase \in [Procs -> Phase] /\ p + 1 # p
    BY <1>0 DEF TypeOK, Procs
  <2> QED
    BY <2>1, <2>2
<1>2. \A q \in Procs : p < q => phase[q] = "unborn"
  BY <1>0 DEF Chain, Childless
<1>3. \A q \in Procs : q < p => phase[q] \in HasChild
  BY <1>0, AliveGroups DEF Chain, Childless, Alive
<1>4. phase'[0] \in HasChild \cup {"fork", "ended"}
  BY <1>0, <1>1 DEF Chain, HasChild, Procs
<1>5. ASSUME NEW a \in Procs, NEW b \in Procs, a < b
      PROVE  /\ phase'[a] \in Childless \cup {"unborn"} => phase'[b] = "unborn"
             /\ phase'[a] = "ended" => phase'[b] \in {"unborn", "ended"}
  BY <1>0, <1>1, <1>2, <1>3, <1>5 DEF Childless, HasChild, Procs
<1>6. ASSUME NEW q \in Procs, phase'[q] \in HasChild
      PROVE  q < MaxProcs /\ phase'[q + 1] # "unborn"
  <2>1. q <= p
    BY <1>0, <1>1, <1>2, <1>6 DEF HasChild, Procs
  <2>2. CASE q = p
    BY <1>0, <1>1, <2>2
  <2>3. CASE q < p
    <3>1. q < MaxProcs /\ phase[q + 1] # "unborn" /\ q + 1 \in Procs
      BY <1>3, <2>3 DEF Chain, Procs
    <3> QED
      BY <1>1, <3>1
  <2> QED
    BY <2>1, <2>2, <2>3 DEF Procs
<1>7. ASSUME NEW q \in Stages, phase'[q] = "wait"
      PROVE  phase'[q - 1] = "wait"
  <2>1. q \in Procs /\ q - 1 \in Procs /\ q - 1 # p /\ q < p
    <3>1. q \in Procs /\ q - 1 \in Procs
      BY DEF Stages, Procs
    <3>2. q < p
      BY <1>0, <1>1, <1>2, <1>7, <3>1 DEF Procs
    <3> QED
      BY <3>1, <3>2 DEF Procs
  <2>2. phase[q] = "wait" /\ phase[q - 1] = "wait"
    BY <1>1, <1>7, <2>1 DEF Chain, Procs
  <2> QED
    BY <1>0, <1>1, <2>1, <2>2 DEF Procs
<1> QED
  BY <1>4, <1>5, <1>6, <1>7 DEF Chain

\* A step of a filter keeps the processes a chain.
LEMMA ChainStage ==
  ASSUME IInv, NEW p \in Stages, Stage(p)
  PROVE  Chain'
<1> USE PfactAssumption DEF IInv
<1>0. p \in Procs /\ p > 0 /\ p - 1 \in Procs
  BY DEF Stages, Procs
<1> USE <1>0
<1> DEFINE Move(to) == phase' = [phase EXCEPT ![p] = to]
<1>1. CASE CloseWrite(p)
  <2>1. phase[p] = "born" /\ Move("readKey")
    BY <1>1 DEF CloseWrite, Goto
  <2>2. PICK to \in {"readKey"} : Move(to)
    BY <2>1
  <2>3. /\ to \in Phase /\ to \in Childless \cup {"ended"} /\ to # "wait"
        /\ phase[p] \in Childless /\ p # 0
    BY <2>1 DEF Phase, Childless
  <2> QED
    BY <2>2, <2>3, ChainMove
<1>2. CASE ReadKey(p)
  <2>1. phase[p] = "readKey" /\ Move("test")
    BY <1>2 DEF ReadKey, Goto
  <2>2. PICK to \in {"test"} : Move(to)
    BY <2>1
  <2>3. /\ to \in Phase /\ to \in Childless \cup {"ended"} /\ to # "wait"
        /\ phase[p] \in Childless /\ p # 0
    BY <2>1 DEF Phase, Childless
  <2> QED
    BY <2>2, <2>3, ChainMove
<1>3. CASE TestKey(p)
  <2>1. phase[p] = "test" /\
        (Move("fork") \/ Move("drain") \/ Move("collect") \/ Move("ended"))
    BY <1>3 DEF TestKey, NoFactor, FirstFactor, SecondFactor, SquareRoot,
                BeyondRoot, StackOverflow, End
  <2>2. PICK to \in {"fork", "drain", "collect", "ended"} : Move(to)
    BY <2>1
  <2>3. to \in Phase /\ to \in Childless \cup {"ended"} /\ to # "wait"
        /\ phase[p] \in Childless /\ p # 0
    BY <2>1 DEF Phase, Childless
  <2> QED
    BY <2>2, <2>3, ChainMove
<1>4. CASE Fork(p)
  BY <1>4, ChainFork
<1>5. CASE ForkFails(p)
  <2>1. phase[p] = "fork" /\ Move("ended")
    BY <1>5 DEF ForkFails, End
  <2> QED
    BY <2>1, ChainMove DEF Phase, Childless
<1>6. CASE CloseRead(p)
  <2>1. phase[p] = "closeRead" /\ Move("filter")
    <3>1. p # 0
      OBVIOUS
    <3> QED
      BY <1>6, <3>1 DEF CloseRead, Goto
  <2> QED
    BY <2>1, ChainMove DEF Phase, HasChild
<1>7. CASE FilterRead(p)
  <2>1. phase[p] = "filter" /\ (Move("filter") \/ Move("write"))
    BY <1>7 DEF FilterRead, Goto
  <2> QED
    BY <2>1, ChainMove DEF Phase, HasChild
<1>8. CASE Forward(p)
  <2>1. phase[p] = "write" /\ Move("filter")
    BY <1>8 DEF Forward, Goto
  <2> QED
    BY <2>1, ChainMove DEF Phase, HasChild
<1>9. CASE SigPipe(p)
  <2>1. phase[p] = "write" /\ Move("ended") /\ Readers(p) = {}
    BY <1>9 DEF SigPipe, End
  <2>2. \A q \in Procs : p < q => phase[q] \in {"unborn", "ended"}
    BY <2>1, NoReaders
  <2> QED
    BY <2>1, <2>2, ChainMove DEF Phase, HasChild
<1>10. CASE FilterEnd(p)
  <2>1. phase[p] = "filter" /\ Move("wait") /\ LoopEnds(p)
    BY <1>10 DEF FilterEnd, Goto
  <2>2. phase[p - 1] = "wait"
    BY <2>1, FilterLoopEnds
  <2> QED
    BY <2>1, <2>2, ChainMove DEF Phase, HasChild
<1>11. CASE DrainRead(p) \/ CollectRead(p)
  BY <1>11 DEF DrainRead, CollectRead, Chain
<1>12. CASE DrainEnd(p) \/ CollectEnd(p)
  <2>1. phase[p] \in {"drain", "collect"} /\ Move("ended")
    BY <1>12 DEF DrainEnd, CollectEnd, End
  <2> QED
    BY <2>1, ChainMove DEF Phase, Childless
<1>13. CASE Wait(p)
  <2>1. phase[p] = "wait" /\ Move("ended") /\ phase[p + 1] = "ended"
    BY <1>13 DEF Wait, End
  <2>2. \A q \in Procs : p < q => phase[q] \in {"unborn", "ended"}
    BY <2>1 DEF Chain, HasChild, Procs
  <2> QED
    BY <2>1, <2>2, ChainMove DEF Phase, HasChild
<1> QED
  BY <1>1, <1>2, <1>3, <1>4, <1>5, <1>6, <1>7, <1>8, <1>9, <1>10, <1>11,
     <1>12, <1>13 DEF Stage

\* A step of main keeps the processes a chain.
LEMMA ChainMain ==
  ASSUME IInv, Main
  PROVE  Chain'
<1> USE PfactAssumption DEF IInv
<1>0. 0 \in Procs /\ 1 \in Procs
  BY DEF Procs
<1> USE <1>0
<1> DEFINE Move(to) == phase' = [phase EXCEPT ![0] = to]
<1>1. CASE Fork(0)
  BY <1>1, ChainFork
<1>2. CASE ForkFails(0)
  <2>1. phase[0] = "fork" /\ Move("ended")
    BY <1>2 DEF ForkFails, End
  <2> QED
    BY <2>1, ChainMove DEF Phase, Childless
<1>3. CASE CloseRead(0)
  <2>1. phase[0] = "closeRead" /\ Move("write")
    BY <1>3 DEF CloseRead, Goto
  <2> QED
    BY <2>1, ChainMove DEF Phase, HasChild
<1>4. CASE Feed
  BY <1>4 DEF Feed, Chain
<1>5. CASE SigPipe(0)
  <2>1. phase[0] = "write" /\ Move("ended") /\ Readers(0) = {}
    BY <1>5 DEF SigPipe, End
  <2>2. \A q \in Procs : 0 < q => phase[q] \in {"unborn", "ended"}
    BY <2>1, NoReaders
  <2> QED
    BY <2>1, <2>2, ChainMove DEF Phase, HasChild
<1>6. CASE FeedEnd
  <2>1. phase[0] = "write" /\ Move("wait")
    BY <1>6 DEF FeedEnd, Goto
  <2>2. PICK to \in {"wait"} : Move(to)
    BY <2>1
  <2>3. /\ to \in Phase /\ to \in HasChild /\ ~(0 > 0)
        /\ phase[0] \in HasChild \ {"wait"}
    BY <2>1 DEF Phase, HasChild
  <2> QED
    BY <2>2, <2>3, ChainMove
<1>7. CASE MainWait
  <2>1. phase[0] = "wait" /\ Move("ended") /\ phase[1] = "ended"
    BY <1>7 DEF MainWait, End
  <2>2. \A q \in Procs : 0 < q => phase[q] \in {"unborn", "ended"}
    BY <2>1 DEF Chain, HasChild, Procs
  <2> QED
    BY <2>1, <2>2, ChainMove DEF Phase, HasChild
<1> QED
  BY <1>1, <1>2, <1>3, <1>4, <1>5, <1>6, <1>7 DEF Main

-----------------------------------------------------------------------------
\* Ends is preserved: what a process that moves to a phase must hold.
LEMMA EndsMove ==
  ASSUME TypeOK, Ends, NEW p \in Procs, NEW to \in Phase, NEW r, NEW w,
         phase' = [phase EXCEPT ![p] = to],
         rd' = [rd EXCEPT ![p] = r],
         wr' = [wr EXCEPT ![p] = w],
         w = IF to \in {"closeRead", "filter", "write"} THEN {p}
             ELSE IF to = "born" THEN {p - 1} ELSE {},
         to \notin {"unborn", "ended"} =>
           \A k \in 0..(p - 1) : k \in r \/ (k = p - 1 /\ to = "wait")
  PROVE  Ends'
<1>1. ASSUME NEW q \in Procs, q # p
      PROVE  phase'[q] = phase[q] /\ rd'[q] = rd[q] /\ wr'[q] = wr[q]
  BY <1>1 DEF TypeOK
<1>2. phase'[p] = to /\ rd'[p] = r /\ wr'[p] = w
  BY DEF TypeOK
<1>3. ASSUME NEW q \in Procs
      PROVE  /\ wr'[q] = IF phase'[q] \in {"closeRead", "filter", "write"}
                         THEN {q}
                         ELSE IF phase'[q] = "born" THEN {q - 1} ELSE {}
             /\ phase'[q] \notin {"unborn", "ended"} =>
                  \A k \in 0..(q - 1) :
                    k \in rd'[q] \/ (k = q - 1 /\ phase'[q] = "wait")
  <2>1. CASE q = p
    BY <1>2, <2>1
  <2>2. CASE q # p
    BY <1>1, <2>2 DEF Ends, Alive
  <2> QED
    BY <2>1, <2>2
<1> QED
  BY <1>3 DEF Ends, Alive

\* A process that ends closes its pipe ends, and nobody else is concerned.
LEMMA EndsEnd ==
  ASSUME TypeOK, Ends, NEW p \in Procs, NEW code, End(p, code)
  PROVE  Ends'
<1>1. "ended" \in Phase
  BY DEF Phase
<1> QED
  BY <1>1, EndsMove DEF End

\* fork() gives the child the ends that Ends says it has.
LEMMA EndsFork ==
  ASSUME TypeOK, Chain, Ends, NEW p \in Procs, Fork(p)
  PROVE  Ends'
<1> USE PfactAssumption
<1>0. p + 1 \in Procs /\ p # p + 1 /\ phase[p] = "fork" /\ Alive(p)
      /\ phase[p + 1] = "unborn"
  BY DEF Fork, Procs, Chain, Childless, Alive
<1>1. wr[p] = {} /\ wr[p + 1] = {} /\ \A k \in 0..(p - 1) : k \in rd[p]
  BY <1>0 DEF Ends
<1>2. /\ phase'[p] = "closeRead" /\ phase'[p + 1] = "born"
      /\ rd'[p] = rd[p] \cup {p} /\ rd'[p + 1] = rd[p] \cup {p}
      /\ wr'[p] = {p} /\ wr'[p + 1] = {p}
  BY <1>0, <1>1 DEF Fork, TypeOK
<1>3. ASSUME NEW q \in Procs, q # p, q # p + 1
      PROVE  phase'[q] = phase[q] /\ rd'[q] = rd[q] /\ wr'[q] = wr[q]
  BY <1>3 DEF Fork, TypeOK
<1>4. ASSUME NEW q \in Procs
      PROVE  /\ wr'[q] = IF phase'[q] \in {"closeRead", "filter", "write"}
                         THEN {q}
                         ELSE IF phase'[q] = "born" THEN {q - 1} ELSE {}
             /\ phase'[q] \notin {"unborn", "ended"} =>
                  \A k \in 0..(q - 1) :
                    k \in rd'[q] \/ (k = q - 1 /\ phase'[q] = "wait")
  <2>1. CASE q = p
    BY <1>1, <1>2, <2>1
  <2>2. CASE q = p + 1
    <3>1. \A k \in 0..(q - 1) : k \in rd[p] \/ k = p
      BY <1>1, <2>2 DEF Procs
    <3>2. q - 1 = p
      BY <2>2 DEF Procs
    <3>3. phase'[q] = "born" /\ rd'[q] = rd[p] \cup {p} /\ wr'[q] = {q - 1}
      BY <1>2, <2>2, <3>2
    <3> QED
      BY <3>1, <3>3
  <2>3. CASE q # p /\ q # p + 1
    BY <1>3, <2>3 DEF Ends, Alive
  <2> QED
    BY <2>1, <2>2, <2>3
<1> QED
  BY <1>4 DEF Ends, Alive

\* A step of a filter keeps the pipe ends as Ends says.
LEMMA EndsStage ==
  ASSUME IInv, NEW p \in Stages, Stage(p)
  PROVE  Ends'
<1> USE DEF IInv
<1>0. p \in Procs /\ p > 0 /\ p - 1 \in Procs /\ p # 0
  BY PfactAssumption DEF Stages, Procs
<1> USE <1>0
<1>w. /\ wr[p] = IF phase[p] \in {"closeRead", "filter", "write"} THEN {p}
                 ELSE IF phase[p] = "born" THEN {p - 1} ELSE {}
      /\ Alive(p) =>
           \A k \in 0..(p - 1) : k \in rd[p] \/ (k = p - 1 /\ phase[p] = "wait")
  BY DEF Ends
<1>same. rd = [rd EXCEPT ![p] = rd[p]] /\ wr = [wr EXCEPT ![p] = wr[p]]
  BY DEF TypeOK
\* A process that keeps its pipe ends moves within a group that agrees on them.
<1>keep. ASSUME NEW to \in Phase, phase' = [phase EXCEPT ![p] = to],
                rd' = rd, wr' = wr, Alive(p), phase[p] # "wait",
                \/ phase[p] \in {"filter", "write"} /\ to \in {"filter", "write"}
                \/ /\ phase[p] \notin {"closeRead", "filter", "write", "born"}
                   /\ to \notin {"closeRead", "filter", "write", "born"}
         PROVE  Ends'
  <2>1. rd' = [rd EXCEPT ![p] = rd[p]] /\ wr' = [wr EXCEPT ![p] = wr[p]]
    BY <1>same, <1>keep
  <2>2. wr[p] = IF to \in {"closeRead", "filter", "write"} THEN {p}
                ELSE IF to = "born" THEN {p - 1} ELSE {}
    BY <1>w, <1>keep
  <2>3. \A k \in 0..(p - 1) : k \in rd[p]
    BY <1>w, <1>keep
  <2> QED
    BY <1>keep, <2>1, <2>2, <2>3, EndsMove
<1>1. CASE CloseWrite(p)
  <2>1. /\ phase[p] = "born" /\ phase' = [phase EXCEPT ![p] = "readKey"]
        /\ rd' = rd /\ wr' = [wr EXCEPT ![p] = wr[p] \ {p - 1}]
    BY <1>1 DEF CloseWrite, Goto
  <2>2. wr[p] \ {p - 1} = {} /\ \A k \in 0..(p - 1) : k \in rd[p]
    BY <1>w, <2>1 DEF Alive
  <2>3. "readKey" \in Phase
    BY DEF Phase
  <2> QED
    BY <1>same, <2>1, <2>2, <2>3, EndsMove
<1>2. CASE ReadKey(p)
  BY <1>2, <1>keep DEF ReadKey, Goto, Phase, Alive
<1>3. CASE TestKey(p)
  <2>1. CASE StackOverflow(p)
    BY <2>1, EndsEnd DEF StackOverflow
  <2>2. CASE ~StackOverflow(p)
    <3>1. PICK to \in {"fork", "drain", "collect"} :
            phase' = [phase EXCEPT ![p] = to] /\ rd' = rd /\ wr' = wr
      BY <1>3, <2>2 DEF TestKey, NoFactor, FirstFactor, SecondFactor,
                        SquareRoot, BeyondRoot
    <3>2. phase[p] = "test"
      BY <1>3 DEF TestKey
    <3> QED
      BY <1>keep, <3>1, <3>2 DEF Phase, Alive
  <2> QED
    BY <2>1, <2>2
<1>4. CASE Fork(p)
  BY <1>4, EndsFork
<1>5. CASE ForkFails(p) \/ SigPipe(p) \/ DrainEnd(p) \/ CollectEnd(p) \/ Wait(p)
  BY <1>5, EndsEnd DEF ForkFails, SigPipe, DrainEnd, CollectEnd, Wait
<1>6. CASE CloseRead(p)
  <2>1. /\ phase[p] = "closeRead" /\ phase' = [phase EXCEPT ![p] = "filter"]
        /\ rd' = [rd EXCEPT ![p] = rd[p] \ {p}] /\ wr' = wr
    BY <1>6 DEF CloseRead, Goto
  <2>2. wr[p] = {p} /\ \A k \in 0..(p - 1) : k \in rd[p] \ {p}
    BY <1>w, <2>1 DEF Alive
  <2>3. "filter" \in Phase
    BY DEF Phase
  <2> QED
    BY <1>same, <2>1, <2>2, <2>3, EndsMove
<1>7. CASE FilterRead(p) \/ Forward(p)
  <2>1. PICK to \in {"filter", "write"} :
          phase' = [phase EXCEPT ![p] = to] /\ rd' = rd /\ wr' = wr
    BY <1>7 DEF FilterRead, Forward, Write, Goto
  <2>2. phase[p] \in {"filter", "write"}
    BY <1>7 DEF FilterRead, Forward, Goto
  <2> QED
    BY <1>keep, <2>1, <2>2 DEF Phase, Alive
<1>8. CASE FilterEnd(p)
  <2>1. /\ phase[p] = "filter" /\ phase' = [phase EXCEPT ![p] = "wait"]
        /\ rd' = [rd EXCEPT ![p] = rd[p] \ {p - 1}]
        /\ wr' = [wr EXCEPT ![p] = wr[p] \ {p}]
    BY <1>8 DEF FilterEnd, Goto
  <2>2. /\ wr[p] \ {p} = {}
        /\ \A k \in 0..(p - 1) : k \in rd[p] \ {p - 1} \/ k = p - 1
    BY <1>w, <2>1 DEF Alive
  <2>3. "wait" \in Phase
    BY DEF Phase
  <2> QED
    BY <2>1, <2>2, <2>3, EndsMove
<1>9. CASE DrainRead(p) \/ CollectRead(p)
  BY <1>9 DEF DrainRead, CollectRead, Ends, Alive
<1> QED
  BY <1>1, <1>2, <1>3, <1>4, <1>5, <1>6, <1>7, <1>8, <1>9 DEF Stage

\* A step of main keeps the pipe ends as Ends says.
LEMMA EndsMain ==
  ASSUME IInv, Main
  PROVE  Ends'
<1> USE DEF IInv
<1>0. 0 \in Procs /\ 0..(0 - 1) = {}
  BY PfactAssumption DEF Procs
<1> USE <1>0
<1>same. rd = [rd EXCEPT ![0] = rd[0]] /\ wr = [wr EXCEPT ![0] = wr[0]]
  BY DEF TypeOK
<1>1. CASE Fork(0)
  BY <1>1, EndsFork
<1>2. CASE ForkFails(0) \/ SigPipe(0)
  BY <1>2, EndsEnd DEF ForkFails, SigPipe
<1>3. CASE CloseRead(0)
  <2>1. /\ phase[0] = "closeRead" /\ phase' = [phase EXCEPT ![0] = "write"]
        /\ rd' = [rd EXCEPT ![0] = rd[0] \ {0}] /\ wr' = wr
    BY <1>3 DEF CloseRead, Goto
  <2>2. wr[0] = {0} /\ "write" \in Phase
    BY <2>1 DEF Ends, Phase
  <2> QED
    BY <1>same, <2>1, <2>2, EndsMove
<1>4. CASE Feed
  BY <1>4 DEF Feed, Write, Ends, Alive
<1>5. CASE FeedEnd
  <2>1. /\ phase[0] = "write" /\ phase' = [phase EXCEPT ![0] = "wait"]
        /\ rd' = rd /\ wr' = [wr EXCEPT ![0] = wr[0] \ {0}]
    BY <1>5 DEF FeedEnd, Goto
  <2>2. wr[0] \ {0} = {} /\ "wait" \in Phase
    BY <2>1 DEF Ends, Phase
  <2> QED
    BY <1>same, <2>1, <2>2, EndsMove
<1>6. CASE MainWait
  BY <1>6, EndsEnd DEF MainWait
<1> QED
  BY <1>1, <1>2, <1>3, <1>4, <1>5, <1>6 DEF Main

-----------------------------------------------------------------------------
\* Loops is preserved: only the process that steps needs a look.
LEMMA LoopsFrame ==
  ASSUME TypeOK, Loops, NEW p \in Stages,
         n' = n, phase'[0] = phase[0], got'[0] = got[0],
         HasKey(p)' => LoopOK(p)',
         \A q \in Stages : q # p /\ HasKey(q)' =>
           /\ phase'[q] = phase[q] /\ key'[q] = key[q]
           /\ got'[q] = got[q] /\ left'[q] = left[q]
  PROVE  Loops'
<1>1. ASSUME NEW q \in Stages, q # p, HasKey(q)' PROVE LoopOK(q)'
  <2>1. /\ phase'[q] = phase[q] /\ key'[q] = key[q]
        /\ got'[q] = got[q] /\ left'[q] = left[q]
    BY <1>1
  <2>2. HasKey(q)
    BY <1>1, <2>1 DEF HasKey
  <2>3. LoopOK(q)
    BY <2>2 DEF Loops
  <2> QED
    BY <2>1, <2>3 DEF LoopOK, Below
<1> QED
  BY <1>1 DEF Loops

\* A step of a filter keeps every loop counter sound.
LEMMA LoopsStage ==
  ASSUME IInv, NEW p \in Stages, Stage(p)
  PROVE  Loops'
<1> USE DEF IInv
<1>0. /\ p \in Procs /\ p > 0 /\ p - 1 \in Procs /\ p # 0 /\ 0 \in Procs
      /\ n \in Nat \ {0, 1} /\ Stages \subseteq Procs /\ (p - 1) + 1 = p
      /\ p - 1 < MaxProcs
  <2>1. n \in Nat \ {0, 1}
    BY PfactAssumption DEF TypeOK
  <2> QED
    BY <2>1, PfactAssumption DEF Stages, Procs
<1> USE <1>0
<1>t. /\ key[p] \in Nat /\ got[p] \in Nat /\ left[p] \in Nat
      /\ HasKey(p) => LoopOK(p)
  BY DEF TypeOK, Loops
<1>h. phase[p] \notin {"unborn", "born", "readKey"} => HasKey(p)
  BY DEF HasKey
\* A step that reads and forks nothing.
<1>keep. ASSUME NEW to, phase' = [phase EXCEPT ![p] = to],
                UNCHANGED <<n, key, got>>,
                left' = left \/ (left' = [left EXCEPT ![p] = n - 1])
                             \/ (left' = [left EXCEPT ![p] = n - 2]),
                HasKey(p)' => LoopOK(p)'
         PROVE  Loops'
  <2>1. ASSUME NEW q \in Stages, q # p
        PROVE  phase'[q] = phase[q] /\ left'[q] = left[q]
    BY <1>keep, <2>1 DEF TypeOK
  <2>2. phase'[0] = phase[0]
    BY <1>keep DEF TypeOK
  <2> QED
    BY <1>keep, <2>1, <2>2, LoopsFrame
<1>1. CASE CloseWrite(p)
  <2>1. phase' = [phase EXCEPT ![p] = "readKey"] /\ left' = left
        /\ UNCHANGED <<n, key, got>>
    BY <1>1 DEF CloseWrite, Goto
  <2>2. ~HasKey(p)'
    BY <2>1 DEF HasKey, TypeOK
  <2> QED
    BY <1>keep, <2>1, <2>2
<1>2. CASE ReadKey(p)
  <2> DEFINE h == Head(pipe[p - 1])
  <2>1. /\ phase' = [phase EXCEPT ![p] = "test"]
        /\ key' = [key EXCEPT ![p] = h] /\ got' = [got EXCEPT ![p] = h]
        /\ n' = n /\ left' = left /\ pipe[p - 1] # << >>
    BY <1>2, KeyRead DEF ReadKey, Goto
  <2>2. h \in 2..n
    BY <2>1, HeadOfPipe
  <2>3. /\ phase'[p] = "test" /\ key'[p] = h /\ got'[p] = h
        /\ phase'[0] = phase[0] /\ got'[0] = got[0]
        /\ \A q \in Stages : q # p => /\ phase'[q] = phase[q] /\ key'[q] = key[q]
                                      /\ got'[q] = got[q] /\ left'[q] = left[q]
    BY <2>1 DEF TypeOK
  <2>4. LoopOK(p)'
    BY <2>1, <2>2, <2>3 DEF LoopOK, HasChild
  <2> QED
    BY <2>1, <2>3, <2>4, LoopsFrame
<1>3. CASE TestKey(p)
  <2>1. /\ phase[p] = "test" /\ LoopOK(p) /\ UNCHANGED <<n, key, got>>
    BY <1>3, <1>t, <1>h DEF TestKey
  <2>2. CASE NoFactor(p) \/ FirstFactor(p)
    <3>1. phase' = [phase EXCEPT ![p] = "fork"] /\ left' = left /\ Below(p)
      BY <2>2 DEF NoFactor, FirstFactor
    <3>2. phase'[p] = "fork"
      BY <3>1 DEF TypeOK
    <3>3. LoopOK(p)'
      BY <2>1, <3>1, <3>2 DEF LoopOK, Below
    <3> QED
      BY <1>keep, <2>1, <3>1, <3>3
  <2>3. CASE SecondFactor(p) \/ SquareRoot(p)
    <3>1. /\ phase' = [phase EXCEPT ![p] = "drain"]
          /\ left' = [left EXCEPT ![p] = n - 1]
      BY <2>3 DEF SecondFactor, SquareRoot
    <3>2. phase'[p] = "drain" /\ left'[p] = n - 1
      BY <3>1 DEF TypeOK
    <3>3. LoopOK(p)'
      BY <1>t, <2>1, <3>2 DEF LoopOK, HasChild
    <3> QED
      BY <1>keep, <2>1, <3>1, <3>3
  <2>4. CASE BeyondRoot(p)
    <3>1. /\ phase' = [phase EXCEPT ![p] = "collect"]
          /\ left' = [left EXCEPT ![p] = n - 2]
      BY <2>4 DEF BeyondRoot
    <3>2. phase'[p] = "collect"
      BY <3>1 DEF TypeOK
    <3>3. LoopOK(p)'
      BY <1>t, <2>1, <3>2 DEF LoopOK, HasChild
    <3> QED
      BY <1>keep, <2>1, <3>1, <3>3
  <2>5. CASE StackOverflow(p)
    <3>1. phase' = [phase EXCEPT ![p] = "ended"] /\ left' = left
      BY <2>5 DEF StackOverflow, End
    <3>2. phase'[p] = "ended"
      BY <3>1 DEF TypeOK
    <3>3. LoopOK(p)'
      BY <2>1, <3>2 DEF LoopOK, HasChild
    <3> QED
      BY <1>keep, <2>1, <3>1, <3>3
  <2> QED
    BY <1>3, <2>2, <2>3, <2>4, <2>5 DEF TestKey
<1>4. CASE Fork(p)
  <2>1. /\ p + 1 \in Procs /\ phase[p] = "fork" /\ LoopOK(p)
        /\ p + 1 # p /\ p + 1 # 0
    <3>1. phase[p] = "fork" /\ p < MaxProcs
      BY <1>4 DEF Fork
    <3> QED
      BY <1>t, <1>h, <3>1, PfactAssumption DEF Procs
  <2>2. /\ phase'[p] = "closeRead" /\ phase'[p + 1] = "born"
        /\ UNCHANGED <<n, got, left>> /\ key'[p] = key[p] /\ phase'[0] = phase[0]
        /\ \A q \in Stages : q # p /\ q # p + 1 =>
             phase'[q] = phase[q] /\ key'[q] = key[q]
    <3>1. /\ phase' = [phase EXCEPT ![p] = "closeRead", ![p + 1] = "born"]
          /\ key' = [key EXCEPT ![p + 1] = key[p]]
          /\ UNCHANGED <<n, got, left>>
      BY <1>4 DEF Fork
    <3> QED
      BY <2>1, <3>1 DEF TypeOK
  <2>3. ~HasKey(p + 1)'
    BY <2>2 DEF HasKey
  <2>4. LoopOK(p)'
    BY <2>1, <2>2 DEF LoopOK, Below
  <2> QED
    BY <2>2, <2>3, <2>4, LoopsFrame
<1>5. CASE ForkFails(p) \/ SigPipe(p) \/ DrainEnd(p) \/ CollectEnd(p) \/ Wait(p)
  <2>1. /\ phase' = [phase EXCEPT ![p] = "ended"] /\ left' = left
        /\ UNCHANGED <<n, key, got>>
        /\ phase[p] \in {"fork", "write", "drain", "collect", "wait"}
    BY <1>5 DEF ForkFails, SigPipe, DrainEnd, CollectEnd, Wait, End
  <2>2. phase'[p] = "ended" /\ LoopOK(p)
    BY <1>t, <1>h, <2>1 DEF TypeOK
  <2>3. LoopOK(p)'
    BY <2>1, <2>2 DEF LoopOK, HasChild
  <2> QED
    BY <1>keep, <2>1, <2>3
<1>6. CASE CloseRead(p)
  <2>1. /\ phase' = [phase EXCEPT ![p] = "filter"]
        /\ left' = [left EXCEPT ![p] = n - 1]
        /\ n' = n /\ key' = key /\ phase[p] = "closeRead"
        /\ got' = [got EXCEPT ![p] = got[p]]
    BY <1>6 DEF CloseRead, Goto
  <2>2. got' = got
    BY <2>1 DEF TypeOK
  <2>3. phase'[p] = "filter" /\ left'[p] = n - 1 /\ LoopOK(p)
    BY <1>t, <1>h, <2>1 DEF TypeOK
  <2>4. LoopOK(p)'
    BY <1>t, <2>1, <2>2, <2>3 DEF LoopOK, HasChild, Below
  <2> QED
    BY <1>keep, <2>1, <2>2, <2>4
<1>7. CASE FilterRead(p) \/ DrainRead(p) \/ CollectRead(p)
  <2> DEFINE h == Head(pipe[p - 1])
  <2>1. /\ phase[p] \in {"filter", "drain", "collect"}
        /\ phase[p] = "filter" => phase'[p] \in {"filter", "write"}
        /\ phase[p] # "filter" => phase'[p] = phase[p]
        /\ \A q \in Procs : q # p => phase'[q] = phase[q]
        /\ n' = n /\ key' = key /\ Take(p)
    BY <1>7 DEF FilterRead, DrainRead, CollectRead, Goto, TypeOK
  <2>2. /\ got' = [got EXCEPT ![p] = h] /\ left' = [left EXCEPT ![p] = left[p] - 1]
        /\ pipe[p - 1] # << >> /\ HasKey(p) /\ LoopOK(p)
    BY <1>t, <1>h, <2>1 DEF Take
  <2>3. h \in 2..n /\ got[p] < h
    BY <2>2, HeadOfPipe DEF NextHasKey
  <2>4. /\ got'[p] = h /\ left'[p] = left[p] - 1
        /\ \A q \in Procs : q # p => got'[q] = got[q] /\ left'[q] = left[q]
    BY <2>2 DEF TypeOK
  <2>5. LoopOK(p)'
    <3>1. Below(p)' <=> Below(p)
      BY <2>1 DEF Below
    <3>2. 2 <= key'[p] /\ key'[p] <= got'[p] /\ got'[p] <= n'
      BY <1>t, <2>1, <2>2, <2>3, <2>4 DEF LoopOK
    <3>3. phase'[p] \in {"filter", "write", "drain"} =>
            left'[p] + got'[p] >= n' - 1 + key'[p]
      <4>1. CASE phase[p] \in {"filter", "drain"}
        <5>1. left[p] + got[p] >= n - 1 + key[p] /\ h \in Nat
          BY <1>t, <2>2, <2>3, <4>1 DEF LoopOK
        <5> QED
          BY <1>t, <2>1, <2>3, <2>4, <5>1
      <4> QED
        BY <2>1, <4>1
    <3>4. /\ phase'[p] \notin {"test", "fork", "closeRead"}
          /\ phase'[p] \in HasChild \cup {"fork"} => phase[p] \in HasChild
      BY <2>1 DEF HasChild
    <3> QED
      BY <2>2, <3>1, <3>2, <3>3, <3>4 DEF LoopOK
  <2> QED
    BY <2>1, <2>4, <2>5, LoopsFrame
<1>8. CASE Forward(p) \/ FilterEnd(p)
  <2>1. PICK to \in {"filter", "wait"} :
          /\ phase' = [phase EXCEPT ![p] = to] /\ left' = left
          /\ UNCHANGED <<n, key, got>>
          /\ phase[p] \in {"write", "filter"}
    BY <1>8 DEF Forward, Write, FilterEnd, Goto
  <2>2. phase'[p] = to /\ LoopOK(p)
    BY <1>t, <1>h, <2>1 DEF TypeOK
  <2>3. LoopOK(p)'
    BY <2>1, <2>2 DEF LoopOK, HasChild, Below
  <2> QED
    BY <1>keep, <2>1, <2>3
<1> QED
  BY <1>1, <1>2, <1>3, <1>4, <1>5, <1>6, <1>7, <1>8 DEF Stage

\* A step of main keeps every loop counter sound.
LEMMA LoopsMain ==
  ASSUME IInv, Main
  PROVE  Loops'
<1> USE DEF IInv
<1>0. 0 \in Procs /\ n \in Nat \ {0, 1} /\ got[0] \in Nat
  <2>1. n \in Nat \ {0, 1}
    BY PfactAssumption DEF TypeOK
  <2> QED
    BY <2>1, PfactAssumption DEF Procs, TypeOK
\* The filters are not touched; what counts is where main is afterwards.
<1>keep. ASSUME \A q \in Stages : HasKey(q)' =>
                  /\ phase'[q] = phase[q] /\ key'[q] = key[q]
                  /\ got'[q] = got[q] /\ left'[q] = left[q],
                n' = n,
                phase'[0] \in {"fork", "closeRead"} => got'[0] = 0,
                phase'[0] = "write" => got'[0] \in 2..(n + 1),
                phase'[0] = "wait" => got'[0] = n + 1
         PROVE  Loops'
  <2>1. ASSUME NEW q \in Stages, HasKey(q)' PROVE LoopOK(q)'
    <3>1. /\ phase'[q] = phase[q] /\ key'[q] = key[q]
          /\ got'[q] = got[q] /\ left'[q] = left[q]
      BY <1>keep, <2>1
    <3>2. HasKey(q)
      BY <2>1, <3>1 DEF HasKey
    <3>3. LoopOK(q)
      BY <3>2 DEF Loops
    <3> QED
      BY <1>keep, <3>1, <3>3 DEF LoopOK, Below
  <2> QED
    BY <1>keep, <2>1 DEF Loops
<1>s. \A q \in Stages : q \in Procs /\ q # 0
  BY PfactAssumption DEF Stages, Procs
<1>1. CASE Fork(0)
  <2>1. /\ phase' = [phase EXCEPT ![0] = "closeRead", ![1] = "born"]
        /\ key' = [key EXCEPT ![1] = key[0]]
        /\ UNCHANGED <<n, got, left>>
    BY <1>1 DEF Fork
  <2>2. /\ phase'[0] = "closeRead"
        /\ \A q \in Stages : IF q = 1 THEN phase'[q] = "born"
                             ELSE phase'[q] = phase[q] /\ key'[q] = key[q]
    BY <1>0, <1>s, <2>1 DEF TypeOK
  <2>3. \A q \in Stages : HasKey(q)' => q # 1
    BY <2>2 DEF HasKey
  <2> QED
    <3>1. got[0] = 0
      BY <1>1 DEF Fork, Loops
    <3> QED
      BY <1>keep, <2>1, <2>2, <2>3, <3>1
<1>2. CASE ForkFails(0) \/ SigPipe(0) \/ MainWait
  <2>1. phase' = [phase EXCEPT ![0] = "ended"] /\ UNCHANGED <<n, key, got, left>>
    BY <1>2 DEF ForkFails, SigPipe, MainWait, End
  <2>2. phase'[0] = "ended" /\ \A q \in Stages : phase'[q] = phase[q]
    BY <1>0, <1>s, <2>1 DEF TypeOK
  <2> QED
    BY <1>keep, <2>1, <2>2
<1>3. CASE CloseRead(0)
  <2>1. /\ phase' = [phase EXCEPT ![0] = "write"] /\ n' = n /\ key' = key
        /\ got' = [got EXCEPT ![0] = 2] /\ left' = [left EXCEPT ![0] = left[0]]
    BY <1>3 DEF CloseRead, Goto
  <2>2. /\ phase'[0] = "write" /\ got'[0] = 2
        /\ \A q \in Stages : phase'[q] = phase[q] /\ got'[q] = got[q]
                             /\ left'[q] = left[q]
    BY <1>0, <1>s, <2>1 DEF TypeOK
  <2> QED
    BY <1>0, <1>keep, <2>1, <2>2
<1>4. CASE Feed
  <2>1. /\ phase' = phase /\ UNCHANGED <<n, key, left>> /\ phase[0] = "write"
        /\ got' = [got EXCEPT ![0] = got[0] + 1] /\ got[0] < n + 1
    BY <1>4 DEF Feed, Write
  <2>2. /\ got'[0] = got[0] + 1 /\ got[0] \in 2..(n + 1)
        /\ \A q \in Stages : got'[q] = got[q]
    BY <1>0, <1>s, <2>1 DEF Loops, TypeOK
  <2> QED
    BY <1>0, <1>keep, <2>1, <2>2
<1>5. CASE FeedEnd
  <2>1. /\ phase' = [phase EXCEPT ![0] = "wait"] /\ UNCHANGED <<n, key, got, left>>
        /\ got[0] = n + 1
    BY <1>5 DEF FeedEnd, Goto
  <2>2. phase'[0] = "wait" /\ \A q \in Stages : phase'[q] = phase[q]
    BY <1>0, <1>s, <2>1 DEF TypeOK
  <2> QED
    BY <1>keep, <2>1, <2>2
<1> QED
  BY <1>1, <1>2, <1>3, <1>4, <1>5 DEF Main

-----------------------------------------------------------------------------
\* Keys is preserved.  First, what is known of the number at the head of a
\* filter's pipe: the numbers before it have all been sieved or read.
LEMMA Gap ==
  ASSUME IInv, NEW p \in Stages, phase[p] \notin {"unborn", "ended"},
         pipe[p - 1] # << >>, NEW m \in 2..n, m < Head(pipe[p - 1]),
         Survives(m, p - 1)
  PROVE  HasKey(p) /\ m <= got[p]
<1> USE PfactAssumption DEF IInv
<1>0. /\ p \in Procs /\ p - 1 \in Procs /\ p - 1 < p /\ (p - 1) + 1 = p
      /\ n \in Nat /\ got[p - 1] \in Nat
  BY DEF Stages, Procs, TypeOK
<1>1. phase[p - 1] \in HasChild
  <2>1. Alive(p - 1) /\ phase[p - 1] \notin Childless
    BY <1>0 DEF Chain, Alive
  <2> QED
    BY <1>0, <2>1, AliveGroups
<1>2. Ahead(p - 1, m)
  <2>1. Head(pipe[p - 1]) \in 2..n /\ Ahead(p - 1, Head(pipe[p - 1]))
    BY <1>0, HeadOfPipe
  <2> QED
    BY <1>0, <2>1 DEF Ahead
<1>3. Contains(p - 1, m) \/ (NextHasKey(p - 1) /\ m <= got[p])
  BY <1>0, <1>1, <1>2 DEF Complete, NoneLost
<1>4. ~Contains(p - 1, m)
  <2>1. SUFFICES ASSUME NEW i \in DOMAIN pipe[p - 1], pipe[p - 1][i] = m
                 PROVE  FALSE
    BY DEF Contains
  <2>2. /\ pipe[p - 1] \in Seq(Nat) /\ Head(pipe[p - 1]) = pipe[p - 1][1]
        /\ i \in 1..Len(pipe[p - 1]) /\ 1 \in DOMAIN pipe[p - 1]
    <3>1. pipe[p - 1] \in Seq(Nat)
      BY <1>0 DEF TypeOK
    <3>2. DOMAIN pipe[p - 1] = 1..Len(pipe[p - 1]) /\ Len(pipe[p - 1]) \in Nat
      BY <3>1
    <3> QED
      BY <2>1, <3>1, <3>2
  <2>3. i > 1 => pipe[p - 1][1] < pipe[p - 1][i]
    BY <1>0, <2>1, <2>2 DEF Pipes, PipeOK
  <2>4. pipe[p - 1][1] \in Nat
    BY <2>2
  <2> QED
    BY <2>1, <2>2, <2>3, <2>4
<1> QED
  BY <1>0, <1>3, <1>4 DEF NextHasKey

\* The key a filter reads is the next prime.
LEMMA NextKey ==
  ASSUME IInv, NEW p \in Stages, ReadKey(p)
  PROVE  KeyOK(p)'
<1> USE PfactAssumption DEF IInv
<1> DEFINE h == Head(pipe[p - 1])
<1>0. /\ p \in Procs /\ p - 1 \in Procs /\ (p - 1) + 1 = p /\ n \in Nat
      /\ phase[p] = "readKey" /\ ~HasKey(p)
  BY DEF Stages, Procs, TypeOK, ReadKey, Goto, HasKey
<1>1. /\ pipe[p - 1] # << >> /\ key' = [key EXCEPT ![p] = h]
  BY KeyRead
<1>2. h \in 2..n /\ Survives(h, p - 1)
  BY <1>0, <1>1, HeadOfPipe
<1>3. key'[p] = h /\ \A j \in 1..(p - 1) : key'[j] = key[j]
  BY <1>0, <1>1 DEF TypeOK, Stages, Procs
<1>4. \A m \in 2..(h - 1) : ~Survives(m, p - 1)
  <2>1. SUFFICES ASSUME NEW m \in 2..(h - 1), Survives(m, p - 1) PROVE FALSE
    OBVIOUS
  <2>2. m \in 2..n /\ m < h
    BY <1>0, <1>2
  <2> QED
    BY <1>0, <1>1, <2>1, <2>2, Gap
<1>5. \A j \in 1..(p - 1) : j \in Stages /\ HasKey(j) /\ KeyOK(j)
                            /\ key[j] \in Nat /\ 2 <= key[j]
  <2>1. ASSUME NEW j \in 1..(p - 1)
        PROVE  j \in Stages /\ HasKey(j) /\ j \in Procs
    BY <1>0, Ancestors DEF Stages, Procs
  <2> QED
    BY <2>1 DEF Keys, Loops, LoopOK, TypeOK
<1>6. Prime(h)
  <2>1. SUFFICES ASSUME NEW d \in 2..(h - 1), Divides(d, h) PROVE FALSE
    BY <1>2 DEF Prime
  <2>2. PICK j \in 1..(p - 1) : Divides(key[j], d)
    BY <1>2, <1>4 DEF Survives
  <2>3. Divides(key[j], h)
    <3>1. key[j] \in Nat \ {0} /\ d \in Nat \ {0} /\ h \in Nat
      BY <1>2, <1>5
    <3> QED
      BY <2>1, <2>2, <3>1, DividesTransitive
  <2> QED
    BY <1>2, <2>3 DEF Survives
<1>7. \A j \in 1..(p - 1) : key[j] < h
  <2>1. SUFFICES ASSUME NEW j \in 1..(p - 1), h <= key[j] PROVE FALSE
    BY <1>2, <1>5
  <2>2. ~Survives(h, j)
    BY <1>2, <1>5, <2>1 DEF KeyOK
  <2> QED
    BY <1>2, <2>2 DEF Survives, Stages
<1>8. ASSUME NEW m \in 2..h PROVE ~Survives(m, p)'
  <2>1. CASE m = h
    <3>1. Divides(h, h)
      BY <1>2, DividesItself
    <3> QED
      BY <1>3, <2>1, <3>1 DEF Survives, Stages
  <2>2. CASE m < h
    <3>1. PICK j \in 1..(p - 1) : Divides(key[j], m)
      BY <1>2, <1>4, <2>2 DEF Survives
    <3> QED
      BY <1>3, <3>1 DEF Survives, Stages
  <2> QED
    BY <1>2, <2>1, <2>2
<1> QED
  BY <1>3, <1>6, <1>7, <1>8 DEF KeyOK

\* A filter with a key keeps it, and its predecessors keep theirs.
LEMMA KeysFrame ==
  ASSUME Keys, NEW q \in Stages, HasKey(q),
         \A j \in 1..q : key'[j] = key[j]
  PROVE  KeyOK(q)'
<1>1. KeyOK(q) /\ key'[q] = key[q]
  BY DEF Keys, Stages
<1>2. \A m \in 2..key[q] : Survives(m, q)' <=> Survives(m, q)
  BY DEF Survives
<1>3. \A j \in 1..(q - 1) : key'[j] = key[j]
  BY DEF Stages
<1> QED
  BY <1>1, <1>2, <1>3 DEF KeyOK

\* Apart from reading a key and forking, no step changes a key or gives one.
LEMMA KeysUnchanged ==
  ASSUME IInv, NEW p \in Stages, Stage(p), ~ReadKey(p), ~Fork(p)
  PROVE  key' = key /\ \A q \in Stages : HasKey(q)' => HasKey(q)
<1> USE DEF IInv
<1>0. p \in Procs /\ Stages \subseteq Procs
  BY PfactAssumption DEF Stages, Procs
<1>1. CASE CloseWrite(p)
  <2>1. phase' = [phase EXCEPT ![p] = "readKey"] /\ key' = key
    BY <1>1 DEF CloseWrite, Goto
  <2> QED
    BY <1>0, <2>1 DEF HasKey, TypeOK
<1>2. CASE ~CloseWrite(p)
  <2>1. \/ TestKey(p) \/ ForkFails(p) \/ CloseRead(p) \/ FilterRead(p)
        \/ Forward(p) \/ SigPipe(p) \/ FilterEnd(p) \/ DrainRead(p)
        \/ DrainEnd(p) \/ CollectRead(p) \/ CollectEnd(p) \/ Wait(p)
    BY <1>2 DEF Stage
  <2>2. key' = key /\ HasKey(p)
    BY <2>1 DEF TestKey, ForkFails, CloseRead, FilterRead, Forward, Write,
                SigPipe, FilterEnd, DrainRead, DrainEnd, CollectRead,
                CollectEnd, Wait, Goto, HasKey, Stages
  <2>3. \A q \in Procs : q # p => phase'[q] = phase[q]
    <3>1. phase' = phase \/ \E to : phase' = [phase EXCEPT ![p] = to]
      BY <2>1 DEF TestKey, NoFactor, FirstFactor, SecondFactor, SquareRoot,
                  BeyondRoot, StackOverflow, ForkFails, CloseRead,
                  FilterRead, Forward, SigPipe, FilterEnd, DrainRead,
                  DrainEnd, CollectRead, CollectEnd, Wait, Goto, End
    <3> QED
      BY <3>1 DEF TypeOK
  <2> QED
    BY <1>0, <2>2, <2>3 DEF HasKey
<1> QED
  BY <1>1, <1>2

\* fork() gives no process a key of its own and changes none before it.
LEMMA ForkKeys ==
  ASSUME IInv, NEW p \in Procs, Fork(p)
  PROVE  /\ \A q \in Stages : HasKey(q)' => HasKey(q) /\ q <= p
         /\ \A j \in Procs : j <= p => key'[j] = key[j]
<1> USE PfactAssumption DEF IInv
<1>0. p + 1 \in Procs /\ phase[p] = "fork" /\ p + 1 # p
      /\ Stages \subseteq Procs
  BY DEF Fork, Procs, Stages
<1>1. /\ phase' = [phase EXCEPT ![p] = "closeRead", ![p + 1] = "born"]
      /\ key' = [key EXCEPT ![p + 1] = key[p]]
  BY DEF Fork
<1>2. \A j \in Procs : j <= p => key'[j] = key[j]
  BY <1>0, <1>1 DEF TypeOK, Procs
<1>3. \A q \in Procs : p < q => phase[q] = "unborn"
  BY <1>0 DEF Chain, Childless
<1>4. ASSUME NEW q \in Stages, HasKey(q)' PROVE HasKey(q) /\ q <= p
  <2>1. q \in Procs /\ q \in Int /\ p \in Int
    BY DEF Stages, Procs
  <2>2. q # p + 1
    BY <1>0, <1>1, <1>4 DEF HasKey, TypeOK
  <2>3. CASE q = p
    BY <1>0, <1>4, <2>1, <2>3 DEF HasKey
  <2>4. CASE q # p
    <3>1. phase'[q] = phase[q]
      BY <1>1, <2>1, <2>2, <2>4 DEF TypeOK
    <3>2. HasKey(q)
      BY <1>4, <3>1 DEF HasKey
    <3>3. ~(p < q)
      BY <1>3, <2>1, <3>2 DEF HasKey
    <3> QED
      BY <2>1, <3>2, <3>3
  <2> QED
    BY <2>3, <2>4
<1> QED
  BY <1>2, <1>4

\* Reading a key changes no other, and what comes after it does not exist.
LEMMA ReadKeys ==
  ASSUME IInv, NEW p \in Stages, ReadKey(p)
  PROVE  /\ \A q \in Stages : HasKey(q)' => q = p \/ (HasKey(q) /\ q < p)
         /\ \A j \in Procs : j # p => key'[j] = key[j]
<1> USE PfactAssumption DEF IInv
<1>0. p \in Procs /\ phase[p] = "readKey" /\ Stages \subseteq Procs
      /\ phase' = [phase EXCEPT ![p] = "test"]
  BY DEF Procs, Stages, ReadKey, Goto
<1>1. \A j \in Procs : j # p => key'[j] = key[j] /\ phase'[j] = phase[j]
  <2>1. key' = [key EXCEPT ![p] = Head(pipe[p - 1])]
    BY KeyRead
  <2> QED
    BY <1>0, <2>1 DEF TypeOK
<1>2. \A q \in Procs : p < q => phase[q] = "unborn"
  BY <1>0 DEF Chain, Childless
<1>3. ASSUME NEW q \in Stages, HasKey(q)', q # p PROVE HasKey(q) /\ q < p
  <2>1. q \in Int /\ p \in Int /\ phase'[q] = phase[q]
    BY <1>0, <1>1, <1>3 DEF Stages
  <2>2. HasKey(q)
    BY <1>3, <2>1 DEF HasKey
  <2>3. ~(p < q)
    BY <1>0, <1>2, <2>2 DEF HasKey
  <2> QED
    BY <1>3, <2>1, <2>2, <2>3
<1> QED
  BY <1>1, <1>3

\* Every step keeps the keys the first primes.
LEMMA KeysStep ==
  ASSUME IInv, [Next]_vars
  PROVE  Keys'
<1> USE DEF IInv
<1>0. Stages \subseteq Procs /\ 0 \in Procs
      /\ \A q \in Stages : q \in Int /\ \A j \in 1..q : j \in Procs
  BY PfactAssumption DEF Stages, Procs
\* It is enough that keys and their predecessors stay.
<1>frame. ASSUME \A q \in Stages : HasKey(q)' =>
                   HasKey(q) /\ \A j \in 1..q : key'[j] = key[j]
          PROVE  Keys'
  BY <1>frame, KeysFrame DEF Keys
<1>1. ASSUME NEW p \in Procs, Fork(p) PROVE Keys'
  <2>1. /\ \A q \in Stages : HasKey(q)' => HasKey(q) /\ q <= p
        /\ \A j \in Procs : j <= p => key'[j] = key[j]
    BY <1>1, ForkKeys
  <2>2. \A q \in Stages : HasKey(q)' => \A j \in 1..q : key'[j] = key[j]
    BY <1>0, <2>1 DEF Procs
  <2> QED
    BY <1>frame, <2>1, <2>2
<1>2. ASSUME NEW p \in Stages, ReadKey(p) PROVE Keys'
  <2>1. /\ \A q \in Stages : HasKey(q)' => q = p \/ (HasKey(q) /\ q < p)
        /\ \A j \in Procs : j # p => key'[j] = key[j]
    BY <1>2, ReadKeys
  <2>2. ASSUME NEW q \in Stages, HasKey(q)', q # p PROVE KeyOK(q)'
    <3>1. HasKey(q) /\ \A j \in 1..q : key'[j] = key[j]
      BY <1>0, <2>1, <2>2
    <3> QED
      BY <3>1, KeysFrame
  <2>3. KeyOK(p)'
    BY <1>2, NextKey
  <2> QED
    BY <2>2, <2>3 DEF Keys
<1>3. ASSUME NEW p \in Stages, Stage(p) PROVE Keys'
  <2>1. CASE ReadKey(p)
    BY <1>2, <2>1
  <2>2. CASE Fork(p)
    BY <1>0, <1>1, <2>2
  <2>3. CASE ~ReadKey(p) /\ ~Fork(p)
    <3>1. key' = key /\ \A q \in Stages : HasKey(q)' => HasKey(q)
      BY <1>3, <2>3, KeysUnchanged
    <3> QED
      BY <1>frame, <3>1
  <2> QED
    BY <2>1, <2>2, <2>3
<1>4. CASE Main
  <2>1. CASE Fork(0)
    BY <1>0, <1>1, <2>1
  <2>2. CASE ~Fork(0)
    <3>1. key' = key
      BY <1>4, <2>2 DEF Main, ForkFails, CloseRead, Feed, Write, SigPipe,
                        FeedEnd, MainWait
    <3>2. phase' = phase \/ \E to : phase' = [phase EXCEPT ![0] = to]
      BY <1>4, <2>2 DEF Main, ForkFails, CloseRead, Feed, SigPipe,
                        FeedEnd, MainWait, Goto, End
    <3>3. \A q \in Stages : phase'[q] = phase[q]
      <4>1. \A q \in Stages : q # 0 /\ q \in Procs
        BY <1>0 DEF Stages
      <4> QED
        BY <3>2, <4>1 DEF TypeOK
    <3> QED
      BY <1>frame, <3>1, <3>3 DEF HasKey
  <2> QED
    BY <2>1, <2>2
<1>5. CASE UNCHANGED vars
  BY <1>frame, <1>5 DEF vars, HasKey
<1> QED
  BY <1>3, <1>4, <1>5 DEF Next

-----------------------------------------------------------------------------
\* Pipes is preserved.  A pipe that is not touched stays well-formed while its
\* reader keeps what it has and its writer does not start to write.
LEMMA PipeFrame ==
  ASSUME TypeOK, NEW k \in Procs, PipeOK(k), n' = n, pipe'[k] = pipe[k],
         got'[k] = got[k],
         phase'[k] \in {"unborn", "closeRead"} \cup Childless =>
           phase[k] \in {"unborn", "closeRead"} \cup Childless,
         phase'[k] = "write" /\ k > 0 => phase[k] = "write",
         NextHasKey(k)' => NextHasKey(k) /\ got'[k + 1] = got[k + 1],
         \A j \in 1..k : key'[j] = key[j]
  PROVE  PipeOK(k)'
<1>1. \A m : Survives(m, k)' <=> Survives(m, k)
  BY DEF Survives
<1>2. \A m \in Nat : Ahead(k, m) => Ahead(k, m)'
  <2>1. got[k] \in Nat /\ (k = 0 \/ k > 0)
    BY DEF TypeOK, Procs
  <2> QED
    BY <2>1 DEF Ahead
<1>3. pipe[k] \in Seq(Nat)
  BY DEF TypeOK
<1>4. NextHasKey(k) => got[k + 1] \in Nat
  BY PfactAssumption DEF NextHasKey, TypeOK, Procs
<1>5. \A i \in DOMAIN pipe[k] : pipe[k][i] \in Nat
  BY <1>3
<1>6. NextHasKey(k)' => Ahead(k, got[k + 1])' /\ got'[k + 1] = got[k + 1]
  BY <1>2, <1>4 DEF PipeOK, Ahead
<1>7. ASSUME NEW i \in DOMAIN pipe[k]
      PROVE  /\ Ahead(k, pipe[k][i])'
             /\ Survives(pipe[k][i], k)'
             /\ NextHasKey(k)' => got'[k + 1] < pipe'[k][i]
             /\ pipe'[k][i] \in 2..n'
             /\ \A j \in DOMAIN pipe[k] : i < j => pipe[k][i] < pipe[k][j]
  <2>1. Survives(pipe[k][i], k)'
    BY <1>1, <1>7 DEF PipeOK, Survives
  <2>2. Ahead(k, pipe[k][i])'
    BY <1>2, <1>5, <1>7 DEF PipeOK, Ahead
  <2> QED
    BY <1>7, <2>1, <2>2 DEF PipeOK
<1>8. k > 0 /\ phase'[k] = "write" => Survives(got[k], k)'
  BY <1>1 DEF PipeOK, Survives
<1> QED
  BY <1>6, <1>7, <1>8 DEF PipeOK, Ahead, Survives

\* A pipe that does not exist yet is empty and has no reader with a key.
LEMMA PipeEmpty ==
  ASSUME NEW k \in Procs, pipe'[k] = << >>, ~NextHasKey(k)',
         ~(k > 0 /\ phase'[k] = "write")
  PROVE  PipeOK(k)'
BY DEF PipeOK

\* The reader takes the first number.
LEMMA PipeTail ==
  ASSUME IInv, NEW p \in Stages, pipe[p - 1] # << >>,
         pipe'[p - 1] = Tail(pipe[p - 1]), got'[p] = Head(pipe[p - 1]),
         phase'[p - 1] = phase[p - 1], got'[p - 1] = got[p - 1], n' = n,
         phase[p] # "unborn",
         \A j \in 1..(p - 1) : key'[j] = key[j]
  PROVE  PipeOK(p - 1)'
<1> USE PfactAssumption DEF IInv
<1> DEFINE k == p - 1
           h == Head(pipe[k])
           t == Tail(pipe[k])
<1>0. p \in Procs /\ k \in Procs /\ k + 1 = p /\ k < p
  BY DEF Stages, Procs
<1>1. /\ h \in 2..n /\ Ahead(k, h)
      /\ Len(t) = Len(pipe[k]) - 1 /\ t \in Seq(Nat)
      /\ \A i \in DOMAIN t : /\ t[i] = pipe[k][i + 1] /\ i + 1 \in DOMAIN pipe[k]
                             /\ h < t[i]
  BY <1>0, HeadOfPipe
<1>2. PipeOK(k)
  BY <1>0 DEF Pipes
<1>3. phase[k] \notin {"unborn", "closeRead"} \cup Childless
  BY <1>2 DEF PipeOK
<1>4. \A m : (Survives(m, k) => Survives(m, k)') /\ (Ahead(k, m) => Ahead(k, m)')
  BY DEF Survives, Ahead
<1>5. ASSUME NEW i \in DOMAIN t
      PROVE  /\ t[i] \in 2..n /\ Survives(t[i], k) /\ Ahead(k, t[i]) /\ h < t[i]
             /\ \A j \in DOMAIN t : i < j => t[i] < t[j]
  <2>1. i + 1 \in DOMAIN pipe[k] /\ t[i] = pipe[k][i + 1] /\ i \in Nat
    BY <1>1, <1>5
  <2>2. /\ t[i] \in 2..n /\ Survives(t[i], k) /\ Ahead(k, t[i])
    BY <1>2, <2>1 DEF PipeOK
  <2>3. ASSUME NEW j \in DOMAIN t, i < j PROVE t[i] < t[j]
    <3>1. j \in Nat
      BY <1>1, <2>3
    <3>2. j + 1 \in DOMAIN pipe[k] /\ t[j] = pipe[k][j + 1]
      BY <1>1, <2>3
    <3>3. i + 1 < j + 1
      BY <2>1, <2>3, <3>1
    <3> QED
      BY <1>2, <2>1, <3>2, <3>3 DEF PipeOK
  <2> QED
    BY <1>1, <1>5, <2>2, <2>3
<1>6. k > 0 /\ phase'[k] = "write" => Survives(got[k], k)'
  BY <1>2 DEF PipeOK, Survives
<1>7. Ahead(k, got[k + 1])'
  <2>1. got'[k + 1] = h /\ got'[k] = got[k] /\ phase'[k] = phase[k]
    BY <1>0
  <2> QED
    BY <1>1, <2>1 DEF Ahead
<1> HIDE DEF t, h
<1>8. pipe'[k] = t /\ got'[k + 1] = h
  BY <1>0 DEF t, h
<1>9. ASSUME NEW i \in DOMAIN t
      PROVE  /\ pipe'[k][i] \in 2..n'
             /\ Survives(pipe[k][i], k)'
             /\ Ahead(k, pipe[k][i])'
             /\ got'[k + 1] < pipe'[k][i]
             /\ \A j \in DOMAIN t : i < j => pipe'[k][i] < pipe'[k][j]
  <2>1. PICK m \in 2..n : m = t[i] /\ m = pipe'[k][i]
    BY <1>5, <1>8, <1>9
  <2>2. Survives(m, k)' /\ Ahead(k, m)'
    BY <1>4, <1>5, <1>9, <2>1
  <2>3. Survives(pipe[k][i], k)' /\ Ahead(k, pipe[k][i])'
    BY <2>1, <2>2 DEF Survives, Ahead
  <2> QED
    BY <1>5, <1>8, <1>9, <2>1, <2>3
<1>10. phase'[k] \notin {"unborn", "closeRead"} \cup Childless
  BY <1>3
<1> QED
  BY <1>0, <1>6, <1>7, <1>8, <1>9, <1>10 DEF PipeOK, Survives, Ahead

\* The writer appends the number in hand.
LEMMA PipeAppend ==
  ASSUME IInv, NEW p \in Procs, phase[p] = "write",
         got[p] \in 2..n, Survives(got[p], p),
         pipe'[p] = Append(pipe[p], got[p]), n' = n,
         \A j \in 1..p : key'[j] = key[j],
         NextHasKey(p)' => NextHasKey(p) /\ got'[p + 1] = got[p + 1],
         \/ p = 0 /\ phase'[p] = "write" /\ got'[p] = got[p] + 1
         \/ p > 0 /\ phase'[p] = "filter" /\ got'[p] = got[p]
  PROVE  PipeOK(p)'
<1> USE PfactAssumption DEF IInv
<1> DEFINE N == Len(pipe[p])
<1>s. PICK s : s = Append(pipe[p], got[p])
  OBVIOUS
<1>0. /\ pipe[p] \in Seq(Nat) /\ got[p] \in Nat /\ N \in Nat /\ n \in Nat
      /\ NextHasKey(p) => got[p + 1] \in Nat
  <2>1. NextHasKey(p) => p + 1 \in Procs
    BY DEF NextHasKey, Procs
  <2>2. n \in Nat
    BY DEF TypeOK
  <2> QED
    BY <2>1, <2>2 DEF TypeOK
<1>1. /\ DOMAIN s = 1..(N + 1) /\ s[N + 1] = got[p]
      /\ \A i \in 1..N : s[i] = pipe[p][i] /\ i \in DOMAIN pipe[p]
  BY <1>0, <1>s
<1>2. PipeOK(p)
  BY DEF Pipes
<1>3. /\ \A i \in 1..N : s[i] \in 2..n /\ Survives(s[i], p) /\ s[i] < got[p]
      /\ \A i, j \in 1..N : i < j => s[i] < s[j]
      /\ NextHasKey(p) => got[p + 1] < got[p] /\ \A i \in 1..N : got[p + 1] < s[i]
  BY <1>1, <1>2 DEF PipeOK, Ahead
<1>4. ASSUME NEW i \in DOMAIN s
      PROVE  /\ s[i] \in 2..n /\ Survives(s[i], p) /\ s[i] <= got[p]
             /\ NextHasKey(p) => got[p + 1] < s[i]
             /\ \A j \in DOMAIN s : i < j => s[i] < s[j]
  <2>0. /\ i \in 1..N \/ i = N + 1
        /\ \A j \in DOMAIN s : i < j => i \in 1..N /\ (j \in 1..N \/ j = N + 1)
    BY <1>0, <1>1, <1>4
  <2>1. CASE i \in 1..N
    <3>1. /\ s[i] \in 2..n /\ Survives(s[i], p) /\ s[i] < got[p]
          /\ NextHasKey(p) => got[p + 1] < s[i]
      BY <1>3, <2>1
    <3>2. s[i] <= got[p]
      <4>1. s[i] \in Nat
        BY <1>0, <3>1
      <4> QED
        BY <1>0, <3>1, <4>1
    <3>3. \A j \in DOMAIN s : i < j => s[i] < s[j]
      BY <1>1, <1>3, <2>0, <2>1, <3>1
    <3> QED
      BY <3>1, <3>2, <3>3
  <2>2. CASE i = N + 1
    <3>1. i \notin 1..N
      BY <1>0, <2>2
    <3>2. s[i] = got[p] /\ got[p] <= got[p]
      BY <1>0, <1>1, <2>2
    <3> QED
      BY <1>3, <2>0, <3>1, <3>2
  <2> QED
    BY <2>0, <2>1, <2>2
<1>5. ASSUME NEW i \in DOMAIN s
      PROVE  Survives(s[i], p)' /\ Ahead(p, s[i])'
  <2>1. Survives(s[i], p) /\ s[i] <= got[p] /\ s[i] \in Nat
    BY <1>0, <1>4, <1>5
  <2>2. Survives(s[i], p)'
    BY <2>1 DEF Survives
  <2>3. Ahead(p, s[i])'
    <3>1. p = 0 \/ p > 0
      BY DEF Procs
    <3>2. CASE p = 0
      <4>1. got'[p] = got[p] + 1 /\ s[i] < got[p] + 1
        BY <1>0, <2>1, <3>2
      <4> QED
        BY <3>2, <4>1 DEF Ahead
    <3>3. CASE p > 0
      BY <2>1, <3>3 DEF Ahead
    <3> QED
      BY <3>1, <3>2, <3>3
  <2> QED
    BY <2>2, <2>3
<1>6. NextHasKey(p)' => Ahead(p, got[p + 1])' /\ got'[p + 1] = got[p + 1]
  BY <1>0, <1>3 DEF Ahead
<1>7. phase'[p] \notin {"unborn", "closeRead"} \cup Childless
  BY DEF Childless
<1>8. ~(p > 0 /\ phase'[p] = "write")
  OBVIOUS
<1>9. pipe'[p] = s
  BY <1>s
<1> QED
  BY <1>4, <1>5, <1>6, <1>7, <1>8, <1>9 DEF PipeOK, Survives, Ahead

\* The writer, a filter, reads its next number.
LEMMA PipeGot ==
  ASSUME IInv, NEW p \in Stages, phase[p] = "filter",
         phase'[p] \in {"filter", "write"},
         pipe'[p] = pipe[p], got'[p] \in Nat, got[p] < got'[p], n' = n,
         \A j \in 1..p : key'[j] = key[j],
         NextHasKey(p)' => NextHasKey(p) /\ got'[p + 1] = got[p + 1],
         phase'[p] = "write" => Survives(got'[p], p)
  PROVE  PipeOK(p)'
<1> USE PfactAssumption DEF IInv
<1>0. /\ p \in Procs /\ p # 0 /\ pipe[p] \in Seq(Nat) /\ got[p] \in Nat
      /\ NextHasKey(p) => got[p + 1] \in Nat
  <2>1. p \in Procs /\ p # 0 /\ (NextHasKey(p) => p + 1 \in Procs)
    BY DEF NextHasKey, Procs, Stages
  <2> QED
    BY <2>1 DEF TypeOK
<1>1. PipeOK(p)
  BY <1>0 DEF Pipes
<1>2. \A m \in Nat : Ahead(p, m) => m < got'[p]
  BY <1>0 DEF Ahead
<1>3. ASSUME NEW i \in DOMAIN pipe[p]
      PROVE  Survives(pipe[p][i], p)' /\ Ahead(p, pipe[p][i])'
  <2>1. Survives(pipe[p][i], p) /\ Ahead(p, pipe[p][i]) /\ pipe[p][i] \in Nat
    BY <1>0, <1>1, <1>3 DEF PipeOK
  <2>2. Survives(pipe[p][i], p)'
    BY <2>1 DEF Survives
  <2>3. Ahead(p, pipe[p][i])'
    BY <1>0, <1>2, <2>1 DEF Ahead
  <2> QED
    BY <2>2, <2>3
<1>4. NextHasKey(p)' => Ahead(p, got[p + 1])' /\ got'[p + 1] = got[p + 1]
  <2>1. NextHasKey(p) => Ahead(p, got[p + 1])
    BY <1>1 DEF PipeOK
  <2> QED
    BY <1>0, <1>2, <2>1 DEF Ahead
<1>5. phase'[p] = "write" => Survives(got[p], p)'
  BY DEF Survives
<1>6. phase'[p] \notin {"unborn", "closeRead"} \cup Childless
  BY DEF Childless
<1> QED
  BY <1>0, <1>1, <1>3, <1>4, <1>5, <1>6 DEF PipeOK, Survives, Ahead

\* A pipe before the process that steps, or beyond its end, is not touched.
LEMMA PipesElsewhere ==
  ASSUME IInv, NEW p \in Procs, NEW k \in Procs, n' = n, pipe'[k] = pipe[k],
         got'[k] = got[k], phase'[k] = phase[k],
         NextHasKey(k)' => NextHasKey(k) /\ got'[k + 1] = got[k + 1],
         \A j \in 1..k : key'[j] = key[j]
  PROVE  PipeOK(k)'
BY PipeFrame DEF IInv, Pipes

\* A step of filter p that moves no number.
LEMMA PipesMove ==
  ASSUME IInv, NEW p \in Stages, Stage(p), ~ReadKey(p), ~Fork(p),
         UNCHANGED <<n, got, pipe>>,
         phase'[p] \in Childless => phase[p] \in Childless,
         phase'[p] \notin {"unborn", "closeRead", "write"},
         \A q \in Procs : q # p => phase'[q] = phase[q]
  PROVE  Pipes'
<1> USE PfactAssumption DEF IInv
<1>1. key' = key /\ \A q \in Stages : HasKey(q)' => HasKey(q)
  BY KeysUnchanged
<1>2. ASSUME NEW k \in Procs PROVE PipeOK(k)'
  <2>1. NextHasKey(k)' => NextHasKey(k)
    <3>1. k < MaxProcs => k + 1 \in Stages
      BY DEF Procs, Stages
    <3> QED
      BY <1>1, <3>1 DEF NextHasKey
  <2>2. PipeOK(k)
    BY DEF Pipes
  <2> QED
    BY <1>1, <2>1, <2>2, PipeFrame
<1> QED
  BY <1>2 DEF Pipes

\* A fork keeps every pipe sieved: the new pipe is empty.
LEMMA PipesFork ==
  ASSUME IInv, NEW p \in Procs, Fork(p)
  PROVE  Pipes'
<1> USE PfactAssumption DEF IInv
<1>0. p + 1 \in Procs /\ phase[p] = "fork" /\ p + 1 # p
  BY DEF Fork, Procs
<1>1. /\ phase' = [phase EXCEPT ![p] = "closeRead", ![p + 1] = "born"]
      /\ UNCHANGED <<n, got, pipe>>
  BY DEF Fork
<1>2. \A q \in Procs : p < q => phase[q] = "unborn"
  BY <1>0 DEF Chain, Childless
<1>3. /\ \A q \in Stages : HasKey(q)' => HasKey(q) /\ q <= p
      /\ \A j \in Procs : j <= p => key'[j] = key[j]
  BY ForkKeys
<1>4. ASSUME NEW k \in Procs PROVE PipeOK(k)'
  <2>0. k \in Int /\ p \in Int /\ PipeOK(k)
        /\ (k < MaxProcs => k + 1 \in Stages) /\ \A j \in 1..k : j \in Procs
    BY DEF Procs, Stages, Pipes
  <2>1. NextHasKey(k)' => NextHasKey(k) /\ k < p
    BY <1>3, <2>0 DEF NextHasKey
  <2>2. CASE k <= p
    <3>1. \A j \in 1..k : key'[j] = key[j]
      BY <1>3, <2>0, <2>2
    <3>2. phase'[k] = IF k = p THEN "closeRead" ELSE phase[k]
      <4>1. k # p + 1
        BY <2>0, <2>2
      <4> QED
        BY <1>0, <1>1, <4>1 DEF TypeOK
    <3>3. /\ phase'[k] \in {"unborn", "closeRead"} \cup Childless =>
               phase[k] \in {"unborn", "closeRead"} \cup Childless
          /\ phase'[k] = "write" => phase[k] = "write"
      BY <1>0, <3>2 DEF Childless
    <3>4. /\ n' = n /\ pipe'[k] = pipe[k] /\ got'[k] = got[k]
          /\ NextHasKey(k)' => NextHasKey(k) /\ got'[k + 1] = got[k + 1]
      BY <1>1, <2>1
    <3> QED
      BY <2>0, <3>1, <3>3, <3>4, PipeFrame
  <2>3. CASE p < k
    <3>1. phase[k] = "unborn"
      BY <1>2, <2>3
    <3>2. pipe[k] = << >>
      BY <2>0, <3>1 DEF PipeOK
    <3>3. phase'[k] \in {"born", "unborn"}
      BY <1>0, <1>1, <2>0, <2>3, <3>1 DEF TypeOK
    <3>4. pipe'[k] = << >> /\ ~NextHasKey(k)' /\ phase'[k] # "write"
      BY <1>1, <2>0, <2>1, <2>3, <3>2, <3>3
    <3> QED
      BY <3>4, PipeEmpty
  <2> QED
    BY <2>0, <2>2, <2>3
<1> QED
  BY <1>4 DEF Pipes

\* A filter that takes its key keeps every pipe sieved.
LEMMA PipesReadKey ==
  ASSUME IInv, NEW p \in Stages, ReadKey(p)
  PROVE  Pipes'
<1> USE PfactAssumption DEF IInv
<1>0. p \in Procs /\ p - 1 \in Procs /\ phase[p] = "readKey" /\ p > 0 /\ p # p - 1
      /\ (p - 1) + 1 = p
  BY DEF ReadKey, Goto, Procs, Stages
<1>1. /\ phase' = [phase EXCEPT ![p] = "test"] /\ n' = n
      /\ got' = [got EXCEPT ![p] = Head(pipe[p - 1])]
      /\ pipe' = [pipe EXCEPT ![p - 1] = Tail(pipe[p - 1])]
      /\ pipe[p - 1] # << >>
  BY KeyRead DEF ReadKey, Goto
<1>2. \A q \in Procs : p < q => phase[q] = "unborn"
  BY <1>0 DEF Chain, Childless
<1>3. /\ \A q \in Stages : HasKey(q)' => q = p \/ (HasKey(q) /\ q < p)
      /\ \A j \in Procs : j # p => key'[j] = key[j]
  BY ReadKeys
<1>4. ASSUME NEW k \in Procs PROVE PipeOK(k)'
  <2>0. k \in Int /\ p \in Int /\ PipeOK(k) /\ (k >= 1 => k \in Stages)
        /\ (k < MaxProcs => k + 1 \in Stages /\ k + 1 \in Procs)
        /\ \A j \in 1..k : j \in Procs
    BY DEF Procs, Stages, Pipes
  <2>1. CASE k = p - 1
    <3>1. \A j \in 1..(p - 1) : key'[j] = key[j]
      BY <1>3, <2>0, <2>1
    <3>2. /\ pipe'[p - 1] = Tail(pipe[p - 1]) /\ got'[p] = Head(pipe[p - 1])
          /\ phase'[p - 1] = phase[p - 1] /\ got'[p - 1] = got[p - 1]
      BY <1>0, <1>1 DEF TypeOK
    <3> QED
      BY <1>0, <1>1, <2>1, <3>1, <3>2, PipeTail
  <2>2. CASE k < p - 1
    <3>1. \A j \in 1..k : key'[j] = key[j]
      BY <1>3, <2>0, <2>2
    <3>2. k + 1 \in Procs /\ k + 1 \in Stages /\ k + 1 < p
      BY <2>0, <2>2 DEF Stages, Procs
    <3>3. /\ pipe'[k] = pipe[k] /\ got'[k] = got[k] /\ phase'[k] = phase[k]
          /\ got'[k + 1] = got[k + 1]
      BY <1>1, <2>0, <2>2, <3>2 DEF TypeOK
    <3>4. NextHasKey(k)' => NextHasKey(k)
      <4>1. HasKey(k + 1)' => HasKey(k + 1)
        BY <1>3, <2>0, <3>2
      <4> QED
        BY <4>1 DEF NextHasKey
    <3> QED
      BY <1>0, <1>1, <3>1, <3>3, <3>4, PipesElsewhere
  <2>3. CASE p <= k
    <3>1. phase[k] \in {"unborn"} \cup Childless
      BY <1>0, <1>2, <2>0, <2>3 DEF Childless
    <3>2. pipe'[k] = << >>
      BY <1>0, <1>1, <2>0, <2>3, <3>1 DEF PipeOK, TypeOK
    <3>3. ~NextHasKey(k)'
      BY <1>3, <2>0, <2>3 DEF NextHasKey
    <3>4. phase'[k] # "write"
      BY <1>0, <1>1, <3>1 DEF TypeOK, Childless
    <3> QED
      BY <3>2, <3>3, <3>4, PipeEmpty
  <2> QED
    BY <2>0, <2>1, <2>2, <2>3
<1> QED
  BY <1>4 DEF Pipes

\* What a filter's read does, for Pipes and Complete.
LEMMA ReadEffect ==
  ASSUME IInv, NEW p \in Stages, FilterRead(p) \/ DrainRead(p) \/ CollectRead(p)
  PROVE  /\ p \in Procs /\ p - 1 \in Procs /\ p > 0 /\ p # p - 1
         /\ (p - 1) + 1 = p
         /\ n' = n /\ key' = key
         /\ got' = [got EXCEPT ![p] = Head(pipe[p - 1])]
         /\ pipe' = [pipe EXCEPT ![p - 1] = Tail(pipe[p - 1])]
         /\ pipe[p - 1] # << >>
         /\ HasKey(p) /\ Head(pipe[p - 1]) \in 2..n
         /\ got[p] < Head(pipe[p - 1]) /\ Survives(Head(pipe[p - 1]), p - 1)
         /\ phase[p] \in {"filter", "drain", "collect"}
         /\ IF phase[p] = "filter"
            THEN phase'[p] = IF Divides(key[p], Head(pipe[p - 1]))
                             THEN "filter" ELSE "write"
            ELSE phase'[p] = phase[p]
         /\ \A q \in Procs : q # p => phase'[q] = phase[q]
<1> USE PfactAssumption DEF IInv
<1>0. p \in Procs /\ p - 1 \in Procs /\ p > 0 /\ p # p - 1 /\ (p - 1) + 1 = p
      /\ p - 1 < MaxProcs
  BY DEF Stages, Procs
<1>1. Take(p) /\ n' = n /\ key' = key
  BY DEF FilterRead, DrainRead, CollectRead
<1>2. /\ got' = [got EXCEPT ![p] = Head(pipe[p - 1])]
      /\ pipe' = [pipe EXCEPT ![p - 1] = Tail(pipe[p - 1])]
      /\ pipe[p - 1] # << >>
  BY <1>1 DEF Take
<1>3. got'[p] = Head(pipe[p - 1])
  BY <1>0, <1>2 DEF TypeOK
<1>4. phase[p] \in {"filter", "drain", "collect"} /\ HasKey(p)
  BY <1>0 DEF FilterRead, DrainRead, CollectRead, Goto, HasKey
<1>5. /\ Head(pipe[p - 1]) \in 2..n /\ got[p] < Head(pipe[p - 1])
      /\ Survives(Head(pipe[p - 1]), p - 1)
  BY <1>0, <1>2, <1>4, HeadOfPipe DEF NextHasKey
<1>6. CASE phase[p] = "filter"
  <2>1. phase' = [phase EXCEPT ![p] =
                   IF Divides(key[p], got'[p]) THEN "filter" ELSE "write"]
    BY <1>6 DEF FilterRead, DrainRead, CollectRead, Goto
  <2>2. phase'[p] = IF Divides(key[p], Head(pipe[p - 1])) THEN "filter" ELSE "write"
    BY <1>0, <1>3, <2>1 DEF TypeOK
  <2>3. \A q \in Procs : q # p => phase'[q] = phase[q]
    BY <2>1 DEF TypeOK
  <2> QED
    BY <1>0, <1>1, <1>2, <1>4, <1>5, <1>6, <2>2, <2>3
<1>7. CASE phase[p] # "filter"
  <2>1. phase' = phase
    BY <1>7 DEF FilterRead, DrainRead, CollectRead, Goto
  <2> QED
    BY <1>0, <1>1, <1>2, <1>4, <1>5, <1>7, <2>1
<1> QED
  BY <1>6, <1>7

\* A read by the loop of a filter keeps every pipe sieved.
LEMMA PipesRead ==
  ASSUME IInv, NEW p \in Stages, FilterRead(p) \/ DrainRead(p) \/ CollectRead(p)
  PROVE  Pipes'
<1> USE PfactAssumption DEF IInv
<1> DEFINE h == Head(pipe[p - 1])
<1>0. /\ p \in Procs /\ p - 1 \in Procs /\ p > 0 /\ p # p - 1
      /\ (p - 1) + 1 = p /\ n' = n /\ key' = key
      /\ got' = [got EXCEPT ![p] = h]
      /\ pipe' = [pipe EXCEPT ![p - 1] = Tail(pipe[p - 1])]
      /\ pipe[p - 1] # << >>
      /\ HasKey(p) /\ h \in 2..n /\ got[p] < h /\ Survives(h, p - 1)
  BY ReadEffect
<1>1. /\ phase[p] \in {"filter", "drain", "collect"}
      /\ IF phase[p] = "filter"
         THEN phase'[p] = IF Divides(key[p], h) THEN "filter" ELSE "write"
         ELSE phase'[p] = phase[p]
      /\ \A q \in Procs : q # p => phase'[q] = phase[q]
  BY ReadEffect
<1> HIDE DEF h
<1>2. /\ got'[p] = h /\ \A q \in Procs : q # p => got'[q] = got[q]
      /\ \A q \in Procs : q # p - 1 => pipe'[q] = pipe[q]
      /\ pipe'[p - 1] = Tail(pipe[p - 1])
  BY <1>0 DEF TypeOK
<1>3. \A q \in Procs : phase'[q] \notin {"unborn", "born", "readKey"}
                       => phase[q] \notin {"unborn", "born", "readKey"}
  BY <1>1
<1>4. ASSUME NEW k \in Procs PROVE PipeOK(k)'
  <2>0. /\ k \in Int /\ p \in Int /\ PipeOK(k)
        /\ k < MaxProcs => k + 1 \in Procs
    BY DEF Procs, Stages, Pipes
  <2>1. NextHasKey(k)' => NextHasKey(k)
    BY <1>3, <2>0 DEF NextHasKey, HasKey
  <2>2. CASE k = p - 1
    <3>1. got'[p] = Head(pipe[p - 1])
      BY <1>2 DEF h
    <3>2. phase'[p - 1] = phase[p - 1] /\ got'[p - 1] = got[p - 1]
          /\ phase[p] # "unborn"
      BY <1>0, <1>1, <1>2
    <3>3. PipeOK(p - 1)'
      BY <1>0, <1>2, <3>1, <3>2, PipeTail
    <3> QED
      BY <2>2, <3>3
  <2>3. CASE k = p /\ phase[p] = "filter"
    <3>1. phase'[p] \in {"filter", "write"}
      BY <1>1, <2>3
    <3>2. phase'[p] = "write" => Survives(got'[p], p)
      <4>1. phase'[p] = "write" => ~Divides(key[p], h)
        BY <1>1, <2>3
      <4> QED
        BY <1>0, <1>2, <4>1 DEF Survives, Stages
    <3>3. pipe'[p] = pipe[p] /\ got'[p] \in Nat /\ got[p] < got'[p]
      BY <1>0, <1>2
    <3>4. NextHasKey(p)' => NextHasKey(p) /\ got'[p + 1] = got[p + 1]
      <4>1. NextHasKey(p)' => NextHasKey(p) /\ p + 1 \in Procs /\ p + 1 # p
        BY <2>0, <2>1, <2>3 DEF NextHasKey
      <4> QED
        BY <1>2, <4>1
    <3>5. PipeOK(p)'
      BY <1>0, <2>3, <3>1, <3>2, <3>3, <3>4, PipeGot
    <3> QED
      BY <2>3, <3>5
  <2>4. CASE k = p /\ phase[p] # "filter"
    <3>1. phase[p] \in Childless /\ phase'[p] = phase[p] /\ phase'[p] # "write"
      BY <1>1, <2>4 DEF Childless
    <3>2. pipe'[p] = << >>
      BY <1>0, <1>2, <2>0, <2>4, <3>1 DEF PipeOK
    <3>3. ~NextHasKey(p)
      <4>1. p < MaxProcs => phase[p + 1] = "unborn"
        BY <1>0, <2>0, <2>4, <3>1 DEF Chain
      <4> QED
        BY <4>1 DEF NextHasKey, HasKey
    <3>4. ~NextHasKey(p)'
      BY <2>1, <2>4, <3>3
    <3> QED
      BY <2>4, <3>1, <3>2, <3>4, PipeEmpty
  <2>5. CASE k # p /\ k # p - 1
    <3>1. NextHasKey(k)' => NextHasKey(k) /\ got'[k + 1] = got[k + 1]
      <4>1. NextHasKey(k)' => k + 1 \in Procs /\ k + 1 # p
        BY <2>0, <2>5 DEF NextHasKey
      <4> QED
        BY <1>2, <2>1, <4>1
    <3> QED
      BY <1>0, <1>1, <1>2, <2>5, <3>1, PipesElsewhere
  <2> QED
    BY <2>2, <2>3, <2>4, <2>5
<1> QED
  BY <1>4 DEF Pipes

\* A number that a filter passes on is in order and sieved.
LEMMA PipesForward ==
  ASSUME IInv, NEW p \in Stages, Forward(p)
  PROVE  Pipes'
<1> USE PfactAssumption DEF IInv
<1>0. /\ p \in Procs /\ p > 0 /\ p \in Int /\ phase[p] = "write"
      /\ n' = n /\ key' = key /\ got' = got
      /\ pipe' = [pipe EXCEPT ![p] = Append(pipe[p], got[p])]
      /\ phase' = [phase EXCEPT ![p] = "filter"]
  BY DEF Forward, Write, Goto, Stages, Procs
<1>1. /\ pipe'[p] = Append(pipe[p], got[p]) /\ phase'[p] = "filter"
      /\ \A q \in Procs : q # p => pipe'[q] = pipe[q] /\ phase'[q] = phase[q]
  BY <1>0 DEF TypeOK
<1>2. got[p] \in 2..n /\ Survives(got[p], p)
  <2>1. HasKey(p)
    BY <1>0 DEF HasKey
  <2>2. LoopOK(p) /\ PipeOK(p) /\ key[p] \in Nat /\ got[p] \in Nat /\ n \in Nat
    BY <1>0, <2>1 DEF Loops, Pipes, TypeOK
  <2> QED
    BY <1>0, <2>2 DEF LoopOK, PipeOK
<1>3. \A q \in Procs : phase'[q] \notin {"unborn", "born", "readKey"}
                       => phase[q] \notin {"unborn", "born", "readKey"}
  BY <1>0, <1>1
<1>4. ASSUME NEW k \in Procs PROVE PipeOK(k)'
  <2>1. NextHasKey(k)' => NextHasKey(k)
    <3>1. k < MaxProcs => k + 1 \in Procs
      BY DEF Procs
    <3> QED
      BY <1>3, <3>1 DEF NextHasKey, HasKey
  <2>2. CASE k = p
    BY <1>0, <1>1, <1>2, <2>1, <2>2, PipeAppend
  <2>3. CASE k # p
    BY <1>0, <1>1, <2>1, <2>3, PipesElsewhere
  <2> QED
    BY <2>2, <2>3
<1> QED
  BY <1>4 DEF Pipes

\* The steps of a filter that move no number, as they change its phase.
LEMMA SilentStep ==
  ASSUME IInv, NEW p \in Stages, Stage(p), ~ReadKey(p), ~Fork(p), ~Forward(p),
         ~FilterRead(p), ~DrainRead(p), ~CollectRead(p)
  PROVE  /\ UNCHANGED <<n, key, got, pipe>>
         /\ \A q \in Procs : q # p => phase'[q] = phase[q]
         /\ \/ phase[p] = "born" /\ phase'[p] = "readKey"
            \/ phase[p] = "test" /\ phase'[p] \in {"fork", "drain", "collect"}
            \/ phase[p] = "closeRead" /\ phase'[p] = "filter"
            \/ phase[p] = "filter" /\ phase'[p] = "wait" /\ LoopEnds(p)
            \/ /\ phase[p] \in {"test", "fork", "write", "drain", "collect", "wait"}
               /\ phase'[p] = "ended"
<1> USE PfactAssumption DEF IInv
<1>0. p \in Procs /\ p # 0
  BY DEF Stages, Procs
<1> DEFINE Move(to) == phase' = [phase EXCEPT ![p] = to]
<1>1. CASE CloseWrite(p)
  <2>1. UNCHANGED <<n, key, got, pipe>> /\ phase[p] = "born" /\ Move("readKey")
    BY <1>1 DEF CloseWrite, Goto
  <2> QED
    BY <1>0, <2>1 DEF TypeOK
<1>2. CASE TestKey(p)
  <2>1. UNCHANGED <<n, key, got, pipe>> /\ phase[p] = "test"
        /\ (Move("fork") \/ Move("drain") \/ Move("collect") \/ Move("ended"))
    BY <1>2 DEF TestKey, NoFactor, FirstFactor, SecondFactor, SquareRoot,
                BeyondRoot, StackOverflow, End
  <2> QED
    BY <1>0, <2>1 DEF TypeOK
<1>3. CASE CloseRead(p)
  <2>1. UNCHANGED <<n, key, pipe>> /\ phase[p] = "closeRead" /\ Move("filter")
        /\ got' = [got EXCEPT ![p] = got[p]]
    BY <1>0, <1>3 DEF CloseRead, Goto
  <2> QED
    BY <1>0, <2>1 DEF TypeOK
<1>4. CASE FilterEnd(p)
  <2>1. UNCHANGED <<n, key, got, pipe>> /\ phase[p] = "filter" /\ Move("wait")
        /\ LoopEnds(p)
    BY <1>4 DEF FilterEnd, Goto
  <2> QED
    BY <1>0, <2>1 DEF TypeOK
<1>5. CASE ForkFails(p) \/ SigPipe(p) \/ DrainEnd(p) \/ CollectEnd(p) \/ Wait(p)
  <2>1. UNCHANGED <<n, key, got, pipe>> /\ Move("ended")
        /\ phase[p] \in {"fork", "write", "drain", "collect", "wait"}
    BY <1>5 DEF ForkFails, SigPipe, DrainEnd, CollectEnd, Wait, End
  <2> QED
    BY <1>0, <2>1 DEF TypeOK
<1> QED
  BY <1>1, <1>2, <1>3, <1>4, <1>5 DEF Stage

\* Every step of a filter keeps every pipe sieved.
LEMMA PipesStage ==
  ASSUME IInv, NEW p \in Stages, Stage(p)
  PROVE  Pipes'
<1>1. CASE ReadKey(p)
  BY <1>1, PipesReadKey
<1>2. CASE Fork(p)
  BY <1>2, PipesFork DEF Stages, Procs
<1>3. CASE Forward(p)
  BY <1>3, PipesForward
<1>4. CASE FilterRead(p) \/ DrainRead(p) \/ CollectRead(p)
  BY <1>4, PipesRead
<1>5. CASE ~(ReadKey(p) \/ Fork(p) \/ Forward(p) \/ FilterRead(p) \/ DrainRead(p)
             \/ CollectRead(p))
  <2>1. /\ UNCHANGED <<n, got, pipe>>
        /\ \A q \in Procs : q # p => phase'[q] = phase[q]
        /\ phase'[p] \in Childless => phase[p] \in Childless
        /\ phase'[p] \notin {"unborn", "closeRead", "write"}
    BY <1>5, SilentStep DEF Childless
  <2> QED
    BY <1>5, <2>1, PipesMove
<1> QED
  BY <1>1, <1>2, <1>3, <1>4, <1>5

\* Every step of main keeps every pipe sieved.
LEMMA PipesMain ==
  ASSUME IInv, Main
  PROVE  Pipes'
<1> USE PfactAssumption DEF IInv
<1>0. 0 \in Procs /\ 1 \in Procs /\ 1 \in Stages /\ 1..0 = {} /\ n \in Nat /\ 0 < MaxProcs
      /\ got[0] \in Nat /\ PipeOK(0) /\ got[1] \in Nat
  <2>1. 0 \in Procs /\ 1 \in Procs /\ 1 \in Stages /\ 1..0 = {} /\ 0 < MaxProcs
    BY DEF Procs, Stages
  <2>2. n \in Nat
    BY DEF TypeOK
  <2> QED
    BY <2>1, <2>2 DEF TypeOK, Pipes
\* Pipes from filters on see nothing of main.
<1>rest. ASSUME n' = n, key' = key,
                \A q \in Stages : /\ pipe'[q] = pipe[q] /\ got'[q] = got[q]
                                  /\ phase'[q] = phase[q],
                PipeOK(0)'
         PROVE  Pipes'
  <2>1. ASSUME NEW k \in Stages PROVE PipeOK(k)'
    <3>1. k \in Procs /\ (k < MaxProcs => k + 1 \in Stages)
      BY DEF Stages, Procs
    <3>2. NextHasKey(k)' => NextHasKey(k) /\ got'[k + 1] = got[k + 1]
      BY <1>rest, <3>1 DEF NextHasKey, HasKey
    <3> QED
      BY <1>rest, <3>1, <3>2, PipesElsewhere
  <2>2. \A k \in Procs : k = 0 \/ k \in Stages
    BY DEF Procs, Stages
  <2> QED
    BY <1>rest, <2>1, <2>2 DEF Pipes
<1>s. \A q \in Stages : q \in Procs /\ q # 0
  BY DEF Stages, Procs
<1>1. CASE Fork(0)
  BY <1>0, <1>1, PipesFork
<1>2. CASE ForkFails(0) \/ SigPipe(0) \/ MainWait \/ FeedEnd
  <2>1. /\ UNCHANGED <<n, key, got, pipe>>
        /\ phase' = [phase EXCEPT ![0] = "ended"] \/ phase' = [phase EXCEPT ![0] = "wait"]
    BY <1>2 DEF ForkFails, SigPipe, MainWait, FeedEnd, End, Goto
  <2>2. phase'[0] \in {"ended", "wait"} /\ \A q \in Stages : phase'[q] = phase[q]
    BY <1>0, <1>s, <2>1 DEF TypeOK
  <2>3. NextHasKey(0)' => NextHasKey(0) /\ got'[0 + 1] = got[0 + 1]
    BY <1>0, <2>1, <2>2 DEF NextHasKey, HasKey
  <2>4. PipeOK(0)'
    BY <1>0, <2>1, <2>2, <2>3, PipeFrame DEF Childless
  <2> QED
    BY <1>rest, <2>1, <2>2, <2>4
<1>3. CASE CloseRead(0)
  <2>1. /\ UNCHANGED <<n, key, pipe>> /\ phase[0] = "closeRead"
        /\ phase' = [phase EXCEPT ![0] = "write"]
        /\ got' = [got EXCEPT ![0] = 2]
    BY <1>3 DEF CloseRead, Goto
  <2>2. /\ phase'[0] = "write" /\ got'[0] = 2
        /\ \A q \in Stages : phase'[q] = phase[q] /\ got'[q] = got[q]
    BY <1>0, <1>s, <2>1 DEF TypeOK
  <2>3. ~NextHasKey(0)
    <3>1. got[0] = 0
      BY <2>1 DEF Loops
    <3>2. NextHasKey(0) => got[1] < 0
      BY <1>0, <3>1 DEF PipeOK, Ahead
    <3> QED
      BY <1>0, <3>2
  <2>4. ~NextHasKey(0)' /\ pipe'[0] = << >>
    BY <1>0, <2>1, <2>2, <2>3 DEF NextHasKey, HasKey, PipeOK
  <2>5. PipeOK(0)'
    BY <1>0, <2>4, PipeEmpty
  <2> QED
    BY <1>rest, <2>1, <2>2, <2>5
<1>4. CASE Feed
  <2>1. /\ UNCHANGED <<n, key, phase>> /\ phase[0] = "write" /\ got[0] < n + 1
        /\ pipe' = [pipe EXCEPT ![0] = Append(pipe[0], got[0])]
        /\ got' = [got EXCEPT ![0] = got[0] + 1]
    BY <1>4 DEF Feed, Write
  <2>2. /\ pipe'[0] = Append(pipe[0], got[0]) /\ got'[0] = got[0] + 1
        /\ \A q \in Stages : pipe'[q] = pipe[q] /\ got'[q] = got[q]
    BY <1>0, <1>s, <2>1 DEF TypeOK
  <2>3. got[0] \in 2..n
    BY <1>0, <2>1 DEF Loops
  <2>4. NextHasKey(0)' => NextHasKey(0) /\ got'[0 + 1] = got[0 + 1]
    BY <1>0, <2>1, <2>2 DEF NextHasKey, HasKey
  <2>5. Survives(got[0], 0)
    BY <1>0 DEF Survives
  <2>6. PipeOK(0)'
    BY <1>0, <2>1, <2>2, <2>3, <2>4, <2>5, PipeAppend
  <2> QED
    BY <1>rest, <2>1, <2>2, <2>6
<1> QED
  BY <1>1, <1>2, <1>3, <1>4 DEF Main

-----------------------------------------------------------------------------
\* Complete is preserved.  A pipe that keeps its numbers loses none while the
\* writer claims to have sent no more than before and the reader no less read.
LEMMA LostFrame ==
  ASSUME TypeOK, NEW k \in Procs, NoneLost(k), n' = n, pipe'[k] = pipe[k],
         \A j \in 1..k : key'[j] = key[j],
         NextHasKey(k) => NextHasKey(k)' /\ got'[k + 1] = got[k + 1],
         \A m \in 2..n : Survives(m, k) /\ (phase'[k] = "wait" \/ Ahead(k, m)')
                           => phase[k] = "wait" \/ Ahead(k, m)
  PROVE  NoneLost(k)'
<1>1. \A m : Survives(m, k)' <=> Survives(m, k)
  BY DEF Survives
<1>2. \A m : Contains(k, m)' <=> Contains(k, m)
  BY DEF Contains
<1>3. ASSUME NEW m \in 2..n, Survives(m, k)',
             phase'[k] = "wait" \/ Ahead(k, m)'
      PROVE  Contains(k, m)' \/ (NextHasKey(k)' /\ m <= got'[k + 1])
  <2>1. Contains(k, m) \/ (NextHasKey(k) /\ m <= got[k + 1])
    BY <1>1, <1>3 DEF NoneLost
  <2> QED
    BY <1>2, <2>1
<1> QED
  BY <1>3 DEF NoneLost

\* The reader takes the first number: it is read, the others stay.
LEMMA LostTail ==
  ASSUME IInv, NEW p \in Stages, phase[p - 1] \in HasChild, pipe[p - 1] # << >>,
         pipe'[p - 1] = Tail(pipe[p - 1]), got'[p] = Head(pipe[p - 1]),
         phase'[p - 1] = phase[p - 1], got'[p - 1] = got[p - 1], n' = n,
         HasKey(p)', \A j \in 1..(p - 1) : key'[j] = key[j]
  PROVE  NoneLost(p - 1)'
<1> USE PfactAssumption DEF IInv
<1> DEFINE k == p - 1
           h == Head(pipe[k])
<1>0. /\ p \in Procs /\ k \in Procs /\ k + 1 = p /\ k < MaxProcs
      /\ pipe[k] \in Seq(Nat) /\ NoneLost(k)
  BY DEF Stages, Procs, TypeOK, Complete
<1>1. h \in 2..n /\ (HasKey(p) => got[p] < h)
  BY <1>0, HeadOfPipe DEF NextHasKey
<1>2. \A m : (Survives(m, k)' <=> Survives(m, k)) /\ (Ahead(k, m)' <=> Ahead(k, m))
  BY DEF Survives, Ahead
<1>3. ASSUME NEW m \in 2..n, Contains(k, m)
      PROVE  m = h \/ \E i \in DOMAIN Tail(pipe[k]) : Tail(pipe[k])[i] = m
  <2>1. PICK i \in DOMAIN pipe[k] : pipe[k][i] = m
    BY <1>3 DEF Contains
  <2>2. CASE i = 1
    BY <1>0, <2>1, <2>2
  <2>3. CASE i > 1
    <3>1. i - 1 \in DOMAIN Tail(pipe[k]) /\ Tail(pipe[k])[i - 1] = pipe[k][i]
      <4>1. /\ Len(Tail(pipe[k])) = Len(pipe[k]) - 1
            /\ DOMAIN Tail(pipe[k]) = 1..Len(Tail(pipe[k]))
            /\ \A j \in 1..Len(Tail(pipe[k])) : Tail(pipe[k])[j] = pipe[k][j + 1]
        BY <1>0, HeadTailProperties
      <4>2. i \in 1..Len(pipe[k]) /\ Len(pipe[k]) \in Nat
        BY <1>0, <2>1
      <4>3. i - 1 \in 1..Len(Tail(pipe[k])) /\ (i - 1) + 1 = i
        BY <2>3, <4>1, <4>2
      <4> QED
        BY <4>1, <4>3
    <3> QED
      BY <2>1, <3>1
  <2> QED
    BY <1>0, <2>1, <2>2, <2>3
<1>4. got[p] \in Nat
  BY <1>0 DEF TypeOK
<1> HIDE DEF h
<1>5. got'[p] = h /\ pipe'[k] = Tail(pipe[k]) /\ NextHasKey(k)'
  BY <1>0 DEF h, NextHasKey
<1>6. ASSUME NEW m \in 2..n, Survives(m, k)',
             phase'[k] = "wait" \/ Ahead(k, m)'
      PROVE  Contains(k, m)' \/ (NextHasKey(k)' /\ m <= got'[k + 1])
  <2>1. Survives(m, k) /\ (phase[k] = "wait" \/ Ahead(k, m))
    BY <1>2, <1>6
  <2>2. Contains(k, m) \/ (NextHasKey(k) /\ m <= got[k + 1])
    BY <1>0, <2>1 DEF NoneLost
  <2>3. CASE Contains(k, m)
    BY <1>0, <1>1, <1>3, <1>5, <2>3 DEF Contains
  <2>4. CASE NextHasKey(k) /\ m <= got[k + 1]
    BY <1>0, <1>1, <1>4, <1>5, <2>4 DEF NextHasKey
  <2> QED
    BY <2>2, <2>3, <2>4
<1> QED
  BY <1>6 DEF NoneLost

\* The writer appends the number in hand and so has sent it.
LEMMA LostAppend ==
  ASSUME IInv, NEW p \in Procs, phase[p] = "write",
         pipe'[p] = Append(pipe[p], got[p]), n' = n,
         \A j \in 1..p : key'[j] = key[j],
         NextHasKey(p) => NextHasKey(p)' /\ got'[p + 1] = got[p + 1],
         \/ p = 0 /\ phase'[p] = "write" /\ got'[p] = got[p] + 1
         \/ p > 0 /\ phase'[p] = "filter" /\ got'[p] = got[p]
  PROVE  NoneLost(p)'
<1> USE PfactAssumption DEF IInv
<1>0. pipe[p] \in Seq(Nat) /\ got[p] \in Nat /\ NoneLost(p)
  BY DEF TypeOK, Complete, HasChild
<1>1. ASSUME NEW m, m = got[p] \/ Contains(p, m) PROVE Contains(p, m)'
  <2>1. CASE m = got[p]
    <3>1. Len(pipe[p]) + 1 \in DOMAIN pipe'[p] /\ pipe'[p][Len(pipe[p]) + 1] = m
      BY <1>0, <2>1
    <3> QED
      BY <3>1 DEF Contains
  <2>2. CASE Contains(p, m)
    <3>1. PICK i \in DOMAIN pipe[p] : pipe[p][i] = m
      BY <2>2 DEF Contains
    <3>2. i \in DOMAIN pipe'[p] /\ pipe'[p][i] = m
      BY <1>0, <3>1
    <3> QED
      BY <3>2 DEF Contains
  <2> QED
    BY <1>1, <2>1, <2>2
<1>2. ASSUME NEW m \in 2..n, Survives(m, p)',
             phase'[p] = "wait" \/ Ahead(p, m)'
      PROVE  Contains(p, m)' \/ (NextHasKey(p)' /\ m <= got'[p + 1])
  <2>1. Survives(m, p)
    BY <1>2 DEF Survives
  <2>2. m = got[p] \/ Ahead(p, m)
    <3>1. m \in Int /\ n \in Int
      BY DEF TypeOK
    <3> QED
      BY <1>0, <1>2, <3>1 DEF Ahead
  <2>3. m = got[p] \/ Contains(p, m) \/ (NextHasKey(p) /\ m <= got[p + 1])
    BY <1>0, <2>1, <2>2 DEF NoneLost
  <2> QED
    BY <1>1, <2>3
<1> QED
  BY <1>2 DEF NoneLost

\* A filter reads on: of the numbers it passes over, none was for its pipe.
LEMMA LostGot ==
  ASSUME IInv, NEW p \in Stages, phase[p] = "filter", FilterRead(p)
  PROVE  NoneLost(p)'
<1> USE PfactAssumption DEF IInv
<1> DEFINE h == Head(pipe[p - 1])
<1>0. /\ p \in Procs /\ p - 1 \in Procs /\ p > 0 /\ p # p - 1
      /\ n' = n /\ key' = key
      /\ got' = [got EXCEPT ![p] = h]
      /\ pipe' = [pipe EXCEPT ![p - 1] = Tail(pipe[p - 1])]
      /\ pipe[p - 1] # << >> /\ HasKey(p) /\ h \in 2..n
      /\ phase'[p] = IF Divides(key[p], h) THEN "filter" ELSE "write"
      /\ \A q \in Procs : q # p => phase'[q] = phase[q]
  BY ReadEffect
<1>1. got'[p] = h /\ pipe'[p] = pipe[p]
      /\ \A q \in Procs : q # p => got'[q] = got[q]
  BY <1>0 DEF TypeOK
<1>2. NextHasKey(p) => NextHasKey(p)' /\ got'[p + 1] = got[p + 1]
  <2>1. p < MaxProcs => p + 1 \in Procs /\ p + 1 # p
    BY <1>0 DEF Procs
  <2> QED
    BY <1>0, <1>1, <2>1 DEF NextHasKey, HasKey
<1>3. NoneLost(p) /\ got[p] \in Nat /\ n \in Nat
  <2>1. n \in Nat
    BY DEF TypeOK
  <2> QED
    BY <1>0, <2>1 DEF Complete, HasChild, TypeOK
<1>4. ASSUME NEW m \in 2..n, Survives(m, p), phase'[p] = "wait" \/ Ahead(p, m)'
      PROVE  Ahead(p, m)
  <2>1. Survives(m, p - 1) /\ ~Divides(key[p], m)
    BY <1>0, <1>4 DEF Survives, Stages
  <2>2. m < h
    <3>1. m <= h
      BY <1>0, <1>1, <1>3, <1>4 DEF Ahead
    <3>2. m # h
      BY <1>0, <1>1, <1>4, <2>1 DEF Ahead
    <3> QED
      BY <1>0, <3>1, <3>2
  <2>3. m <= got[p]
    BY <1>0, <2>1, <2>2, Gap
  <2> QED
    BY <1>0, <2>3 DEF Ahead
<1> QED
  BY <1>0, <1>1, <1>2, <1>3, <1>4, LostFrame

\* A filter at the end of its input has read all that is for its pipe.
LEMMA LostEnd ==
  ASSUME IInv, NEW p \in Stages, phase[p] = "filter", LoopEnds(p),
         UNCHANGED <<n, key, got, pipe>>,
         \A q \in Procs : q # p => phase'[q] = phase[q]
  PROVE  NoneLost(p)'
<1> USE PfactAssumption DEF IInv
<1>0. /\ p \in Procs /\ p - 1 \in Procs /\ p > 0 /\ (p - 1) + 1 = p /\ HasKey(p)
      /\ phase[p] \in HasChild
  BY DEF Stages, Procs, HasKey, HasChild
<1>1. EOF(p - 1) /\ phase[p - 1] = "wait"
  BY FilterLoopEnds
<1>2. NoneLost(p) /\ NoneLost(p - 1)
  BY <1>0, <1>1 DEF Complete, HasChild
<1>3. ASSUME NEW m \in 2..n, Survives(m, p) PROVE Ahead(p, m)
  <2>1. Survives(m, p - 1)
    BY <1>3 DEF Survives, Stages
  <2>2. ~Contains(p - 1, m)
    BY <1>1 DEF EOF, Contains
  <2>3. m <= got[p]
    BY <1>0, <1>1, <1>2, <2>1, <2>2 DEF NoneLost
  <2> QED
    BY <1>0, <2>3 DEF Ahead
<1>4. NextHasKey(p) => NextHasKey(p)' /\ got'[p + 1] = got[p + 1]
  <2>1. p < MaxProcs => p + 1 \in Procs /\ p + 1 # p
    BY <1>0 DEF Procs
  <2> QED
    BY <2>1 DEF NextHasKey, HasKey
<1> QED
  BY <1>0, <1>2, <1>3, <1>4, LostFrame

\* A process that has just forked has sent nothing, and had nothing to send.
LEMMA LostFork ==
  ASSUME IInv, NEW p \in Procs, Fork(p)
  PROVE  NoneLost(p)'
<1> USE PfactAssumption DEF IInv
<1>0. p + 1 \in Procs /\ phase[p] = "fork" /\ p + 1 # p
  BY DEF Fork, Procs
<1>1. /\ phase' = [phase EXCEPT ![p] = "closeRead", ![p + 1] = "born"]
      /\ UNCHANGED <<n, got, pipe>>
  BY DEF Fork
<1>2. phase'[p] = "closeRead"
  BY <1>0, <1>1 DEF TypeOK
<1>3. \A j \in 1..p : key'[j] = key[j]
  <2>1. \A j \in 1..p : j \in Procs /\ j <= p
    BY DEF Procs
  <2> QED
    BY <2>1, ForkKeys
<1>4. CASE p = 0
  <2>1. got[0] = 0
    BY <1>0, <1>4 DEF Loops
  <2>2. \A m \in 2..n : ~Ahead(p, m)'
    BY <1>1, <1>4, <2>1 DEF Ahead
  <2> QED
    BY <1>1, <1>2, <2>2 DEF NoneLost
<1>5. CASE p # 0
  <2>1. p \in Stages /\ HasKey(p)
    BY <1>0, <1>5 DEF Stages, Procs, HasKey
  <2>2. LoopOK(p) /\ KeyOK(p) /\ got[p] = key[p]
    BY <1>0, <2>1 DEF Loops, Keys, LoopOK
  <2>3. \A m \in 2..n : m <= got[p] => ~Survives(m, p)
    BY <2>2 DEF KeyOK
  <2>4. \A m \in 2..n : Survives(m, p)' /\ Ahead(p, m)' => FALSE
    BY <1>1, <1>2, <1>3, <1>5, <2>3 DEF Ahead, Survives
  <2> QED
    BY <1>1, <1>2, <2>4 DEF NoneLost
<1> QED
  BY <1>4, <1>5

\* A pipe is as complete as it was when neither its ends nor what it holds
\* move.
LEMMA LostElsewhere ==
  ASSUME TypeOK, Complete, NEW k \in Procs, phase[k] \in HasChild, n' = n,
         pipe'[k] = pipe[k], \A j \in 1..k : key'[j] = key[j],
         phase'[k] = phase[k], got'[k] = got[k],
         NextHasKey(k) => NextHasKey(k)' /\ got'[k + 1] = got[k + 1]
  PROVE  NoneLost(k)'
<1>1. NoneLost(k)
  BY DEF Complete
<1>2. \A m \in 2..n : Survives(m, k) /\ (phase'[k] = "wait" \/ Ahead(k, m)')
                        => phase[k] = "wait" \/ Ahead(k, m)
  BY DEF Ahead
<1> QED
  BY <1>1, <1>2, LostFrame

\* A filter takes its key: it is the last process, and only the pipe it reads
\* changes.
LEMMA CompleteReadKey ==
  ASSUME IInv, NEW p \in Stages, ReadKey(p)
  PROVE  Complete'
<1> USE PfactAssumption DEF IInv
<1>0. /\ p \in Procs /\ p - 1 \in Procs /\ phase[p] = "readKey" /\ (p - 1) + 1 = p
      /\ phase' = [phase EXCEPT ![p] = "test"] /\ n' = n
  BY DEF ReadKey, Goto, Stages, Procs
<1>1. /\ pipe[p - 1] # << >>
      /\ key' = [key EXCEPT ![p] = Head(pipe[p - 1])]
      /\ got' = [got EXCEPT ![p] = Head(pipe[p - 1])]
      /\ pipe' = [pipe EXCEPT ![p - 1] = Tail(pipe[p - 1])]
  BY KeyRead
<1>2. /\ phase'[p] = "test" /\ got'[p] = Head(pipe[p - 1])
      /\ pipe'[p - 1] = Tail(pipe[p - 1])
      /\ \A q \in Procs : q # p => /\ phase'[q] = phase[q] /\ got'[q] = got[q]
                                   /\ key'[q] = key[q]
      /\ \A q \in Procs : q # p - 1 => pipe'[q] = pipe[q]
  BY <1>0, <1>1 DEF TypeOK
<1>3. ASSUME NEW k \in Procs, phase'[k] \in HasChild PROVE NoneLost(k)'
  <2>1. k # p /\ phase[k] \in HasChild
    BY <1>2, <1>3 DEF HasChild
  <2>2. k < p
    BY <1>0, <2>1 DEF Chain, Childless, HasChild, Procs, Stages
  <2>3. \A j \in 1..k : key'[j] = key[j]
    <3>1. \A j \in 1..k : j \in Procs /\ j # p
      BY <2>2 DEF Procs, Stages
    <3> QED
      BY <1>2, <3>1
  <2>4. CASE k = p - 1
    <3>1. HasKey(p)' /\ k # p
      BY <1>0, <1>2, <2>1 DEF HasKey, Stages
    <3> QED
      BY <1>0, <1>1, <1>2, <2>1, <2>3, <2>4, <3>1, LostTail
  <2>5. CASE k # p - 1
    <3>1. k + 1 \in Procs /\ k + 1 # p
      BY <1>0, <2>2, <2>5 DEF Procs
    <3>2. NextHasKey(k) => NextHasKey(k)' /\ got'[k + 1] = got[k + 1]
      BY <1>2, <3>1 DEF NextHasKey, HasKey
    <3> QED
      BY <1>0, <1>2, <2>1, <2>3, <2>5, <3>2, LostElsewhere
  <2> QED
    BY <2>4, <2>5
<1> QED
  BY <1>3 DEF Complete

\* A process forks: it is the last one, its pipe is new and the pipes before it
\* do not change.
LEMMA CompleteFork ==
  ASSUME IInv, NEW p \in Procs, Fork(p)
  PROVE  Complete'
<1> USE PfactAssumption DEF IInv
<1>0. /\ p + 1 \in Procs /\ phase[p] = "fork" /\ p + 1 # p
      /\ phase' = [phase EXCEPT ![p] = "closeRead", ![p + 1] = "born"]
      /\ UNCHANGED <<n, got, pipe>>
  BY DEF Fork, Procs
<1>1. /\ phase'[p + 1] = "born"
      /\ \A q \in Procs : q # p /\ q # p + 1 => phase'[q] = phase[q]
  BY <1>0 DEF TypeOK
<1>2. ASSUME NEW k \in Procs, phase'[k] \in HasChild, k # p PROVE NoneLost(k)'
  <2>1. k # p + 1 /\ phase'[k] = phase[k]
    BY <1>1, <1>2 DEF HasChild
  <2>2. k < p
    BY <1>0, <1>2, <2>1 DEF Chain, Childless, HasChild, Procs
  <2>3. \A j \in 1..k : key'[j] = key[j]
    <3>1. \A j \in 1..k : j \in Procs /\ j <= p
      BY <2>2 DEF Procs
    <3> QED
      BY <3>1, ForkKeys
  <2>4. NextHasKey(k) => NextHasKey(k)'
    <3>1. k + 1 \in Procs /\ k + 1 # p + 1
      BY <2>2 DEF Procs
    <3>2. phase'[k + 1] = IF k + 1 = p THEN "closeRead" ELSE phase[k + 1]
      BY <1>0, <3>1 DEF TypeOK
    <3> QED
      BY <3>2 DEF NextHasKey, HasKey
  <2> QED
    BY <1>0, <1>2, <2>1, <2>3, <2>4, LostElsewhere
<1> QED
  BY <1>2, LostFork DEF Complete

\* A loop of a filter reads: the pipe it reads and the one it writes change
\* together with what it has read.
LEMMA CompleteRead ==
  ASSUME IInv, NEW p \in Stages, FilterRead(p) \/ DrainRead(p) \/ CollectRead(p)
  PROVE  Complete'
<1> USE PfactAssumption DEF IInv
<1>0. /\ p \in Procs /\ p - 1 \in Procs /\ p > 0 /\ p # p - 1
      /\ (p - 1) + 1 = p /\ n' = n /\ key' = key
      /\ got' = [got EXCEPT ![p] = Head(pipe[p - 1])]
      /\ pipe' = [pipe EXCEPT ![p - 1] = Tail(pipe[p - 1])]
      /\ pipe[p - 1] # << >> /\ HasKey(p)
      /\ phase[p] \in {"filter", "drain", "collect"}
  BY ReadEffect
<1>1. /\ IF phase[p] = "filter" THEN phase'[p] \in {"filter", "write"}
         ELSE phase'[p] = phase[p]
      /\ \A q \in Procs : q # p => phase'[q] = phase[q]
  BY ReadEffect
<1>2. /\ got'[p] = Head(pipe[p - 1]) /\ pipe'[p - 1] = Tail(pipe[p - 1])
      /\ \A q \in Procs : q # p => got'[q] = got[q]
      /\ \A q \in Procs : q # p - 1 => pipe'[q] = pipe[q]
      /\ HasKey(p)'
  BY <1>0, <1>1 DEF TypeOK, HasKey
<1>3. phase[p] = "filter" => FilterRead(p)
  BY DEF FilterRead, DrainRead, CollectRead
<1>4. ASSUME NEW k \in Procs, phase'[k] \in HasChild PROVE NoneLost(k)'
  <2>1. CASE k = p
    BY <1>0, <1>1, <1>3, <1>4, <2>1, LostGot DEF HasChild
  <2>2. CASE k = p - 1
    BY <1>0, <1>1, <1>2, <1>4, <2>2, LostTail
  <2>3. CASE k # p /\ k # p - 1
    <3>1. k < MaxProcs => k + 1 \in Procs /\ k + 1 # p
      BY <1>0, <2>3 DEF Procs
    <3>2. NextHasKey(k) => NextHasKey(k)' /\ got'[k + 1] = got[k + 1]
      BY <1>1, <1>2, <3>1 DEF NextHasKey, HasKey
    <3> QED
      BY <1>0, <1>1, <1>2, <1>4, <2>3, <3>2, LostElsewhere
  <2> QED
    BY <2>1, <2>2, <2>3
<1> QED
  BY <1>4 DEF Complete

\* A filter writes the number in hand.
LEMMA CompleteForward ==
  ASSUME IInv, NEW p \in Stages, Forward(p)
  PROVE  Complete'
<1> USE PfactAssumption DEF IInv
<1>0. /\ p \in Procs /\ p > 0 /\ p \in Int /\ phase[p] = "write"
      /\ n' = n /\ key' = key /\ got' = got
      /\ pipe' = [pipe EXCEPT ![p] = Append(pipe[p], got[p])]
      /\ phase' = [phase EXCEPT ![p] = "filter"]
  BY DEF Forward, Write, Goto, Stages, Procs
<1>1. /\ pipe'[p] = Append(pipe[p], got[p]) /\ phase'[p] = "filter"
      /\ \A q \in Procs : q # p => pipe'[q] = pipe[q] /\ phase'[q] = phase[q]
  BY <1>0 DEF TypeOK
<1>2. ASSUME NEW k \in Procs, phase'[k] \in HasChild PROVE NoneLost(k)'
  <2>1. NextHasKey(k) => NextHasKey(k)'
    <3>1. k < MaxProcs => k + 1 \in Procs
      BY DEF Procs
    <3> QED
      BY <1>1, <3>1 DEF NextHasKey, HasKey
  <2>2. CASE k = p
    BY <1>0, <1>1, <2>1, <2>2, LostAppend
  <2>3. CASE k # p
    BY <1>0, <1>1, <1>2, <2>1, <2>3, LostElsewhere
  <2> QED
    BY <2>2, <2>3
<1> QED
  BY <1>2 DEF Complete

\* Every step of a filter keeps Complete.
LEMMA CompleteStage ==
  ASSUME IInv, NEW p \in Stages, Stage(p)
  PROVE  Complete'
<1> USE PfactAssumption DEF IInv
<1>0. p \in Procs /\ Stages \subseteq Procs
  BY DEF Stages, Procs
<1>1. CASE ReadKey(p)
  BY <1>1, CompleteReadKey
<1>2. CASE Fork(p)
  BY <1>0, <1>2, CompleteFork
<1>3. CASE Forward(p)
  BY <1>3, CompleteForward
<1>4. CASE FilterRead(p) \/ DrainRead(p) \/ CollectRead(p)
  BY <1>4, CompleteRead
<1>5. CASE ~(ReadKey(p) \/ Fork(p) \/ Forward(p) \/ FilterRead(p) \/ DrainRead(p)
             \/ CollectRead(p))
  <2>1. /\ UNCHANGED <<n, key, got, pipe>>
        /\ \A q \in Procs : q # p => phase'[q] = phase[q]
    BY <1>5, SilentStep
  <2>2. \/ phase'[p] \notin HasChild
        \/ phase[p] = "closeRead" /\ phase'[p] = "filter"
        \/ phase[p] = "filter" /\ phase'[p] = "wait" /\ LoopEnds(p)
    BY <1>5, SilentStep DEF HasChild
  <2>3. phase[p] \notin {"unborn", "born", "readKey"}
          => phase'[p] \notin {"unborn", "born", "readKey"}
    BY <1>5, SilentStep
  <2>4. ASSUME NEW k \in Procs, phase'[k] \in HasChild PROVE NoneLost(k)'
    <3>1. NextHasKey(k) => NextHasKey(k)'
      <4>1. k < MaxProcs => k + 1 \in Procs
        BY DEF Procs
      <4> QED
        BY <2>1, <2>3, <4>1 DEF NextHasKey, HasKey
    <3>2. CASE k # p
      BY <2>1, <2>4, <3>1, <3>2, LostElsewhere
    <3>3. CASE k = p /\ phase[p] = "closeRead" /\ phase'[p] = "filter"
      <4>1. NoneLost(p)
        BY <1>0, <3>3 DEF Complete, HasChild
      <4>2. \A m \in 2..n : Survives(m, p) /\ (phase'[p] = "wait" \/ Ahead(p, m)')
                              => phase[p] = "wait" \/ Ahead(p, m)
        BY <2>1, <3>3 DEF Ahead
      <4> QED
        BY <1>0, <2>1, <3>1, <3>3, <4>1, <4>2, LostFrame
    <3>4. CASE k = p /\ phase[p] = "filter" /\ phase'[p] = "wait" /\ LoopEnds(p)
      BY <2>1, <3>4, LostEnd
    <3> QED
      BY <2>2, <2>4, <3>2, <3>3, <3>4
  <2> QED
    BY <2>4 DEF Complete
<1> QED
  BY <1>1, <1>2, <1>3, <1>4, <1>5

\* Every step of main keeps Complete.
LEMMA CompleteMain ==
  ASSUME IInv, Main
  PROVE  Complete'
<1> USE PfactAssumption DEF IInv
<1>0. 0 \in Procs /\ 1 \in Procs /\ 0 < MaxProcs /\ 1..0 = {} /\ n \in Nat
      /\ got[0] \in Nat
  <2>1. 0 \in Procs /\ 1 \in Procs /\ 0 < MaxProcs /\ 1..0 = {}
    BY DEF Procs
  <2> QED
    BY <2>1 DEF TypeOK
<1>s. \A q \in Procs : q # 0 => q \in Stages
  BY DEF Stages, Procs
\* Pipes from filters on see nothing of main.
<1>rest. ASSUME n' = n, key' = key,
                \A q \in Procs : q # 0 => /\ pipe'[q] = pipe[q] /\ got'[q] = got[q]
                                          /\ phase'[q] = phase[q],
                phase'[0] \in HasChild => NoneLost(0)'
         PROVE  Complete'
  <2>1. ASSUME NEW k \in Procs, phase'[k] \in HasChild, k # 0 PROVE NoneLost(k)'
    <3>1. k < MaxProcs => k + 1 \in Procs /\ k + 1 # 0
      BY DEF Procs
    <3>2. NextHasKey(k) => NextHasKey(k)' /\ got'[k + 1] = got[k + 1]
      BY <1>rest, <3>1 DEF NextHasKey, HasKey
    <3> QED
      BY <1>rest, <2>1, <3>2, LostElsewhere
  <2> QED
    BY <1>rest, <2>1 DEF Complete
<1>1. CASE Fork(0)
  BY <1>0, <1>1, CompleteFork
<1>2. CASE ForkFails(0) \/ SigPipe(0) \/ MainWait
  <2>1. /\ UNCHANGED <<n, key, got, pipe>>
        /\ phase' = [phase EXCEPT ![0] = "ended"]
    BY <1>2 DEF ForkFails, SigPipe, MainWait, End
  <2>2. phase'[0] = "ended" /\ \A q \in Procs : q # 0 => phase'[q] = phase[q]
    BY <1>0, <2>1 DEF TypeOK
  <2> QED
    BY <1>rest, <2>1, <2>2 DEF HasChild
<1>3. CASE CloseRead(0)
  <2>1. /\ UNCHANGED <<n, key, pipe>>
        /\ phase' = [phase EXCEPT ![0] = "write"]
        /\ got' = [got EXCEPT ![0] = 2]
    BY <1>3 DEF CloseRead, Goto
  <2>2. phase'[0] = "write" /\ got'[0] = 2
        /\ \A q \in Procs : q # 0 => phase'[q] = phase[q] /\ got'[q] = got[q]
    BY <1>0, <2>1 DEF TypeOK
  <2>3. NoneLost(0)'
    <3>1. \A m \in 2..n : ~Ahead(0, m)'
      BY <1>0, <2>2 DEF Ahead
    <3> QED
      BY <2>1, <2>2, <3>1 DEF NoneLost
  <2> QED
    BY <1>rest, <2>1, <2>2, <2>3
<1>4. CASE Feed
  <2>1. /\ UNCHANGED <<n, key, phase>> /\ phase[0] = "write"
        /\ pipe' = [pipe EXCEPT ![0] = Append(pipe[0], got[0])]
        /\ got' = [got EXCEPT ![0] = got[0] + 1]
    BY <1>4 DEF Feed, Write
  <2>2. /\ pipe'[0] = Append(pipe[0], got[0]) /\ got'[0] = got[0] + 1
        /\ \A q \in Procs : q # 0 => pipe'[q] = pipe[q] /\ got'[q] = got[q]
    BY <1>0, <2>1 DEF TypeOK
  <2>3. NextHasKey(0) => NextHasKey(0)' /\ got'[0 + 1] = got[0 + 1]
    BY <1>0, <2>1, <2>2 DEF NextHasKey, HasKey
  <2>4. NoneLost(0)'
    BY <1>0, <2>1, <2>2, <2>3, LostAppend
  <2> QED
    BY <1>rest, <2>1, <2>2, <2>4
<1>5. CASE FeedEnd
  <2>1. /\ UNCHANGED <<n, key, got, pipe>> /\ phase[0] = "write" /\ got[0] = n + 1
        /\ phase' = [phase EXCEPT ![0] = "wait"]
    BY <1>5 DEF FeedEnd, Goto
  <2>2. phase'[0] = "wait" /\ \A q \in Procs : q # 0 => phase'[q] = phase[q]
    BY <1>0, <2>1 DEF TypeOK
  <2>3. NextHasKey(0) => NextHasKey(0)' /\ got'[0 + 1] = got[0 + 1]
    BY <1>0, <2>1, <2>2 DEF NextHasKey, HasKey
  <2>4. \A m \in 2..n : Ahead(0, m)
    BY <1>0, <2>1 DEF Ahead
  <2>5. NoneLost(0)
    BY <1>0, <2>1 DEF Complete, HasChild
  <2>6. NoneLost(0)'
    BY <1>0, <2>1, <2>3, <2>4, <2>5, LostFrame
  <2> QED
    BY <1>rest, <2>1, <2>2, <2>6
<1> QED
  BY <1>1, <1>2, <1>3, <1>4, <1>5 DEF Main

-----------------------------------------------------------------------------
\* The invariant holds when pfact starts: there is only main.
LEMMA InvInit == Init => IInv
<1> USE PfactAssumption
<1> SUFFICES ASSUME Init PROVE IInv
  OBVIOUS
<1>0. /\ n \in Nat /\ 0 \in Procs
      /\ phase[0] = "fork" /\ got[0] = 0
      /\ \A p \in Procs : p # 0 => phase[p] = "unborn"
      /\ \A p \in Procs : pipe[p] = << >> /\ wr[p] = {}
  BY DEF Init, Procs
<1>1. TypeOK
  BY TypeInit
<1>2. \A p \in Stages : p \in Procs /\ p # 0 /\ ~HasKey(p)
  BY <1>0 DEF Stages, Procs, HasKey
<1>3. Chain
  BY <1>0, <1>2 DEF Chain, HasChild, Childless, Procs
<1>4. Ends
  <2>1. \A k : k \notin 0..(0 - 1)
    OBVIOUS
  <2> QED
    BY <1>0, <2>1 DEF Ends, Alive
<1>5. Loops
  BY <1>0, <1>2 DEF Loops
<1>6. Keys
  BY <1>2 DEF Keys
<1>7. Complete
  <2>1. \A k \in Procs : phase[k] \notin HasChild
    BY <1>0 DEF HasChild
  <2> QED
    BY <2>1 DEF Complete
<1>8. Pipes
  <2>1. ASSUME NEW k \in Procs PROVE PipeOK(k)
    <3>1. ~NextHasKey(k)
      <4>1. k < MaxProcs => k + 1 \in Stages
        BY DEF Procs, Stages
      <4> QED
        BY <1>2, <4>1 DEF NextHasKey
    <3> QED
      BY <1>0, <3>1 DEF PipeOK
  <2> QED
    BY <2>1 DEF Pipes
<1> QED
  BY <1>1, <1>3, <1>4, <1>5, <1>6, <1>7, <1>8 DEF IInv

\* The invariant speaks of the variables only.
LEMMA InvStutter == IInv /\ UNCHANGED vars => IInv'
<1> SUFFICES ASSUME IInv, UNCHANGED vars PROVE IInv'
  OBVIOUS
<1>1. TypeOK' /\ Chain' /\ Ends'
  BY DEF IInv, vars, TypeOK, Chain, Ends, Alive
<1>2. Loops' /\ Keys'
  BY DEF IInv, vars, Loops, LoopOK, HasKey, Below, Keys, KeyOK, Survives
<1>3. Pipes' /\ Complete'
  BY DEF IInv, vars, Pipes, PipeOK, Complete, NoneLost, NextHasKey, HasKey,
         Ahead, Contains, Survives
<1> QED
  BY <1>1, <1>2, <1>3 DEF IInv

\* Every step of the program preserves the invariant.
LEMMA InvStep == IInv /\ [Next]_vars => IInv'
<1> SUFFICES ASSUME IInv, [Next]_vars PROVE IInv'
  OBVIOUS
<1>1. CASE Main
  BY <1>1, TypeMain, ChainMain, EndsMain, LoopsMain, PipesMain, CompleteMain,
     KeysStep DEF IInv
<1>2. ASSUME NEW p \in Stages, Stage(p) PROVE IInv'
  BY <1>2, TypeStage, ChainStage, EndsStage, LoopsStage, PipesStage,
     CompleteStage, KeysStep DEF IInv
<1>3. CASE UNCHANGED vars
  BY <1>3, InvStutter
<1> QED
  BY <1>1, <1>2, <1>3 DEF Next

\* In every state of every run: the processes are a chain, their pipe ends are
\* those that fork and close leave, the keys are the first primes, and the
\* pipes hold every sieved number on its way, once and in order.
THEOREM Invariant == Spec => []IInv
<1> QED
  BY InvInit, InvStep, PTL DEF Spec

\* Every variable keeps its type; in particular an exit code is what exit()
\* keeps of it and the loops never count below zero.
THEOREM TypeCorrect == Spec => []TypeOK
<1>1. IInv => TypeOK
  BY DEF IInv
<1> QED
  BY <1>1, Invariant, PTL

\* For every n and every number of filters: the k-th filter's key is the k-th
\* prime, whatever the order in which the processes run and whichever fail.
THEOREM KeysPrime == Spec => []KeysArePrimes
<1>1. ASSUME IInv PROVE KeysArePrimes
  <2> USE PfactAssumption, <1>1 DEF IInv
  <2>1. ASSUME NEW k \in Filters, NEW m \in 2..(key[k] - 1), Prime(m)
        PROVE  \E j \in 1..(k - 1) : key[j] = m
    <3>0. k \in Stages /\ HasKey(k) /\ k \in Procs /\ key[k] \in Nat
      BY DEF Filters, Stages, Procs, TypeOK
    <3>1. m \in 2..key[k]
      BY <3>0
    <3>2. PICK j \in 1..k : Divides(key[j], m)
      BY <3>0, <3>1 DEF Keys, KeyOK, Survives
    <3>3. j \in Stages /\ j \in Procs /\ (j = k \/ j < k) /\ phase[k] # "unborn"
      BY <3>0 DEF Stages, Procs, HasKey
    <3>4. HasKey(j)
      BY <3>0, <3>3, Ancestors
    <3>5. Prime(key[j]) /\ key[j] \in Nat /\ m \in Nat /\ m > 0
      BY <3>3, <3>4 DEF Keys, KeyOK, TypeOK
    <3>6. key[j] > 1 /\ key[j] \notin 2..(m - 1)
      BY <2>1, <3>2, <3>5 DEF Prime
    <3>7. ~(key[j] > m)
      BY <3>2, <3>5 DEF Divides
    <3>8. key[j] = m
      BY <3>5, <3>6, <3>7
    <3>9. j # k
      BY <3>0, <3>8
    <3> QED
      BY <3>0, <3>3, <3>8, <3>9
  <2>2. ASSUME NEW k \in Filters PROVE Prime(key[k])
    BY DEF Filters, Keys, KeyOK
  <2> QED
    BY <2>1, <2>2 DEF KeysArePrimes
<1> QED
  BY <1>1, Invariant, PTL

\* For every n and every size of pipe: what a pipe holds has passed every
\* filter before it and is in ascending order.
THEOREM PipesSieved == Spec => []PipesAreSieved
<1>1. IInv => PipesAreSieved
  BY DEF IInv, Pipes, PipeOK, PipesAreSieved
<1> QED
  BY <1>1, Invariant, PTL

\* Whatever fails or is killed, a process ends after every process it is an
\* ancestor of.
THEOREM NobodyLeftBehind == Spec => []NothingLeftBehind
<1>1. IInv => NothingLeftBehind
  <2>1. \A p, q \in Procs : q > p <=> p < q
    BY PfactAssumption DEF Procs
  <2> QED
    BY <2>1 DEF IInv, Chain, NothingLeftBehind
<1> QED
  BY <1>1, Invariant, PTL

=============================================================================
