---------------------------- MODULE RpslsProofs -----------------------------
(***************************************************************************)
(* The game server and its clients keep step, for any names, any number of *)
(* rounds and any player who may leave; and as long as nobody leaves they  *)
(* play the match of module Match.                                         *)
(***************************************************************************)
EXTENDS Rpsls, SequenceTheorems, FiniteSetTheorems, TLAPS

(***************************************************************************)
(* test() of rpsls_server.c decides by the rules of the game.              *)
(***************************************************************************)

\* set_number assigns each gesture its place on the circle.
LEMMA Circle ==
  ASSUME NEW stack
  PROVE  /\ Numbers("r", stack) = {0} /\ Numbers("S", stack) = {1}
         /\ Numbers("p", stack) = {2} /\ Numbers("l", stack) = {3}
         /\ Numbers("s", stack) = {4}
  BY DEF Numbers

\* Where a gesture stands on the circle.
Place(g) == CASE g = "r" -> 0 [] g = "S" -> 1 [] g = "p" -> 2 [] g = "l" -> 3 [] g = "s" -> 4

\* set_number, for a gesture, does not depend on the stack.
LEMMA NumberIsPlace ==
  ASSUME NEW g \in Gestures, NEW stack
  PROVE  Numbers(g, stack) = {Place(g)}
<1>1. CASE g = "r"
  BY <1>1, Circle DEF Place
<1>2. CASE g = "S"
  BY <1>2, Circle DEF Place
<1>3. CASE g = "p"
  BY <1>3, Circle DEF Place
<1>4. CASE g = "l"
  BY <1>4, Circle DEF Place
<1>5. CASE g = "s"
  BY <1>5, Circle DEF Place
<1>6. QED
  BY <1>1, <1>2, <1>3, <1>4, <1>5 DEF Gestures

\* For two gestures the locals of test() are set, and it returns one result.
LEMMA TestIsCompare ==
  ASSUME NEW g, NEW h, NEW stack, NEW a, NEW b,
         Numbers(g, stack) = {a}, Numbers(h, stack) = {b}
  PROVE  Test(g, h, stack) = {Compare(a, b)}
  BY DEF Test

\* For any two gestures, and whatever the stack holds, test() finds the winner
\* the rules name (rpsls_server.c:224-239).
THEOREM TestByTheRules ==
  ASSUME NEW g \in Gestures, NEW h \in Gestures, NEW stack
  PROVE  Test(g, h, stack) = {Winner(g, h)}
<1>1. Numbers(g, stack) = {Place(g)} /\ Numbers(h, stack) = {Place(h)}
  BY NumberIsPlace
<1>2. Test(g, h, stack) = {Compare(Place(g), Place(h))}
  BY <1>1, TestIsCompare
<1>3. Compare(Place(g), Place(h)) = Winner(g, h)
  <2>1. CASE g = "r"
    BY <2>1 DEF Gestures, Place, Compare, Winner, Beats
  <2>2. CASE g = "S"
    BY <2>2 DEF Gestures, Place, Compare, Winner, Beats
  <2>3. CASE g = "p"
    BY <2>3 DEF Gestures, Place, Compare, Winner, Beats
  <2>4. CASE g = "l"
    BY <2>4 DEF Gestures, Place, Compare, Winner, Beats
  <2>5. CASE g = "s"
    BY <2>5 DEF Gestures, Place, Compare, Winner, Beats
  <2>6. QED
    BY <2>1, <2>2, <2>3, <2>4, <2>5 DEF Gestures
<1>4. QED
  BY <1>2, <1>3

-----------------------------------------------------------------------------
(***************************************************************************)
(* The inductive invariant.  The server never looks at what a client has   *)
(* read and the client never at where the server is; what ties the two     *)
(* together is how many lines are under way between them.                  *)
(***************************************************************************)

\* What has been written to a client and not been obeyed yet: nothing, one
\* line, or two.
Nothing(p)   == have[p] = << >> /\ down[p] = << >>
One(p, n)    == \/ have[p] = << >> /\ down[p] = <<n>>
                \/ have[p] = <<n>> /\ down[p] = << >>
Two(p, n, i) == \/ have[p] = << >> /\ down[p] = <<n, i>>
                \/ have[p] = <<n>> /\ down[p] = <<i>>

\* The news that a client is told next, or has been told last.
News(p) == IF over THEN Stats(win[p], total)
           ELSE IF total = 0 THEN Greeting ELSE Result(outcome)

\* Where the server stands with client p: it has nothing to tell it yet, it
\* has written the news, or it has written the instruction too.
Quiet(p)    == \/ spc = "decide"
               \/ spc = "gather" /\ p \in answered
               \/ spc \in {"greet", "tell"} /\ to <= p
Informed(p) == \/ spc \in {"greet", "tell"} /\ p < to
               \/ spc = "ask" /\ to <= p
Asked(p)    == \/ spc = "ask" /\ p < to
               \/ spc = "gather" /\ p \notin answered
               \/ spc = "done"

\* Where client p is in these cases.
InLobby(p) ==
  /\ Nothing(p)
  /\ \/ cpc[p] \in {"away", "naming"} /\ up[p] = << >> /\ p \notin named
     \/ cpc[p] = "listen" /\ up[p] = <<Hello>> /\ p \notin named
     \/ cpc[p] = "listen" /\ up[p] = << >> /\ p \in named

Waits(p)   == cpc[p] = "listen" /\ up[p] = << >> /\ Nothing(p)
Hears(p)   == cpc[p] = "listen" /\ up[p] = << >> /\ One(p, News(p))
Told(p)    == cpc[p] = "listen" /\ up[p] = << >> /\ Two(p, News(p), Instruction(~over))
Chooses(p) == /\ cpc[p] = "play" /\ up[p] = << >> /\ Nothing(p) /\ over = FALSE
              /\ total > 0 => said[p] = [kind |-> Word(p, News(p))]
Chosen(p)  == /\ cpc[p] = "listen" /\ Nothing(p) /\ over = FALSE
              /\ \E g \in Figures : up[p] = <<g>>
Knows(p)   == /\ cpc[p] = "over" /\ up[p] = << >> /\ Nothing(p) /\ over = TRUE
              /\ said[p] = News(p)

InStep(p) ==
  /\ spc = "lobby" => InLobby(p)
  /\ Quiet(p)      => Waits(p)
  /\ Informed(p)   => Hears(p)
  /\ Asked(p)      => Told(p) \/ Chooses(p) \/ Chosen(p) \/ Knows(p)

\* The gesture p has sent, as far as the server has read it.
Kept(p) ==
  /\ gesture[p] \in Figures \cup {NoGesture}
  /\ \/ over = TRUE \/ gesture[p] = NoGesture
     \/ spc \in {"gather", "decide"} /\ p \in answered
  /\ spc \in {"gather", "decide"} /\ p \in answered => gesture[p] \in Figures

\* The gestures p has sent, against the rounds that are decided.
Counted(p) ==
  /\ plays[p] = total + (IF over = TRUE \/ Hand(p) # NoGesture THEN 1 ELSE 0)
  /\ total <= MaxRounds
  /\ plays[p] <= MaxRounds \/ over = TRUE \/ Hand(p) = "e"

Follows(p) == InStep(p) /\ Kept(p) /\ Counted(p)

\* What is left of it when the server is dead.
Orderly(p) ==
  /\ \/ Chooses(p)
     \/ cpc[p] \notin {"away", "naming", "play"} /\ Nothing(p)
     \/ /\ cpc[p] \notin {"away", "naming", "play", "over"} /\ up[p] = << >>
        /\ One(p, News(p)) \/ Two(p, News(p), Instruction(~over))
  /\ over = TRUE => plays[p] = total + 1
  /\ cpc[p] = "over" => over = TRUE /\ said[p] = News(p)
  /\ \/ over = TRUE \/ plays[p] <= MaxRounds
     \/ cpc[p] # "play" /\ Nothing(p)

\* A client that has been closed is told nothing any more.
HasLeft(p) == cpc[p] = "left" => sock[p] # "open" /\ Nothing(p)

Stays(p) ==
  cpc[p] # "left" => /\ sock[p] = "open"
                     /\ spc = "dead" => Orderly(p)
                     /\ spc # "dead" => Follows(p)

\* The server by itself.
Control ==
  /\ spc \in {"lobby", "greet", "ask", "gather", "decide", "tell", "done", "dead"}
  /\ to \in Players /\ over \in BOOLEAN
  /\ spc \in {"lobby", "gather", "decide", "done"} => to = 0
  /\ spc \in {"lobby", "greet"} => total = 0 /\ over = FALSE
  /\ spc \notin {"lobby", "dead"} => named = Players
  /\ spc \in {"gather", "decide"} => over = FALSE
  /\ spc = "decide" => answered = Players
  /\ spc = "tell" => over = TRUE \/ total > 0
  /\ spc = "done" => over = TRUE

Score ==
  /\ outcome \in 0..2 /\ total \in Nat /\ win \in [Players -> Nat]
  /\ win[0] + win[1] <= total

Shapes ==
  /\ name \in [Players -> Names] /\ accepted \in 0..2
  /\ named \subseteq Players /\ answered \subseteq Players
  /\ sock \in [Players -> {"open", "closed", "doomed", "reset"}]
  /\ cpc \in [Players -> {"away", "naming", "listen", "play", "over", "spin",
                          "failed", "left"}]
  /\ plays \in [Players -> Nat]
  /\ DOMAIN have = Players /\ DOMAIN down = Players /\ DOMAIN up = Players
  /\ DOMAIN said = Players /\ gesture = [p \in Players |-> gesture[p]]
  /\ \A p \in Players : cpc[p] # "over" => said[p] \in Words

RInv == Shapes /\ Control /\ Score /\ \A p \in Players : HasLeft(p) /\ Stays(p)

\* What a player has sent, who may have left since.
Sent(p) ==
  /\ gesture[p] \in Figures \cup {NoGesture}
  /\ \/ up[p] = << >>
     \/ up[p] = <<Hello>> /\ p \notin named
     \/ /\ \E g \in Figures : up[p] = <<g>>
        /\ total <= MaxRounds
        /\ spc \in {"gather", "decide"} => p \notin answered
  /\ plays[p] <= MaxRounds + 1

\* How far the score can get: a player who stays, or whose end of stream is new
\* to the server, has not been asked more than MaxRounds + 1 times.
Late ==
  /\ total <= MaxTotal
  /\ spc \in {"gather", "decide"} /\ answered # {} => total < MaxTotal
  /\ \A p \in Players :
       sock[p] = "closed" => total <= MaxRounds \/ spc = "dead" \/ (spc = "tell" /\ to <= p)

TInv == Late /\ \A p \in Players : Sent(p)

-----------------------------------------------------------------------------
\* A sequence of one line.
LEMMA Singly ==
  ASSUME NEW S, NEW s \in Seq(S), NEW x, Len(s) = 1, s[1] = x
  PROVE  s = <<x>>
<1>1. <<x>> \in Seq(S) /\ Len(<<x>>) = 1
  <2>1. x \in S
    BY ElementOfSeq
  <2> QED
    BY <2>1
<1>2. \A j \in 1..1 : s[j] = <<x>>[j]
  OBVIOUS
<1> QED
  BY <1>1, <1>2, SeqEqual

\* A sequence of two lines.
LEMMA Doubly ==
  ASSUME NEW S, NEW s \in Seq(S), NEW x, NEW y, Len(s) = 2, s[1] = x, s[2] = y
  PROVE  s = <<x, y>>
<1>1. <<x, y>> \in Seq(S) /\ Len(<<x, y>>) = 2
  <2>1. x \in S /\ y \in S
    BY ElementOfSeq
  <2> QED
    BY <2>1
<1>2. \A j \in 1..2 : s[j] = <<x, y>>[j]
  OBVIOUS
<1> QED
  BY <1>1, <1>2, SeqEqual

\* A line written behind none, and behind one.
LEMMA Written ==
  ASSUME NEW n, NEW i
  PROVE  Append(<< >>, n) = <<n>> /\ Append(<<n>>, i) = <<n, i>>
<1> DEFINE S == {n, i}
           s == Append(<< >>, n)
           t == Append(<<n>>, i)
<1>1. /\ << >> \in Seq(S) /\ <<n>> \in Seq(S) /\ n \in S /\ i \in S
      /\ Len(<< >>) = 0 /\ Len(<<n>>) = 1 /\ <<n>>[1] = n
  OBVIOUS
<1> HIDE DEF S
<1>2. s \in Seq(S) /\ Len(s) = 1 /\ s[1] = n
  BY <1>1, AppendProperties
<1>3. t \in Seq(S) /\ Len(t) = 2 /\ t[1] = n /\ t[2] = i
  BY <1>1, AppendProperties
<1> HIDE DEF s, t
<1>4. s = <<n>> /\ t = <<n, i>>
  BY <1>2, <1>3, Singly, Doubly
<1> QED
  BY <1>4 DEF s, t

\* What is read of one line.
LEMMA PartsOfOne ==
  ASSUME NEW n
  PROVE  SubSeq(<<n>>, 1, 1) = <<n>> /\ SubSeq(<<n>>, 2, 1) = << >>
<1> DEFINE S == {n}
           s == SubSeq(<<n>>, 1, 1)
<1>1. <<n>> \in Seq(S) /\ n \in S /\ <<n>>[1] = n /\ Len(<<n>>) = 1
  OBVIOUS
<1>2. s \in Seq(S) /\ Len(s) = 1 /\ s[1] = n
  <2> HIDE DEF S
  <2> QED
    BY <1>1, SubSeqProperties
<1>3. SubSeq(<<n>>, 2, 1) = << >>
  OBVIOUS
<1> HIDE DEF s, S
<1>4. s = <<n>>
  BY <1>2, Singly
<1> QED
  BY <1>3, <1>4 DEF s

\* What is read of two lines.
LEMMA PartsOfTwo ==
  ASSUME NEW n, NEW i
  PROVE  /\ SubSeq(<<n, i>>, 1, 1) = <<n>> /\ SubSeq(<<n, i>>, 2, 2) = <<i>>
         /\ SubSeq(<<n, i>>, 1, 2) = <<n, i>> /\ SubSeq(<<n, i>>, 3, 2) = << >>
<1> DEFINE S       == {n, i}
           s(a, b) == SubSeq(<<n, i>>, a, b)
<1>1. /\ <<n, i>> \in Seq(S) /\ n \in S /\ i \in S
      /\ <<n, i>>[1] = n /\ <<n, i>>[2] = i /\ Len(<<n, i>>) = 2
  OBVIOUS
<1> HIDE DEF S
<1>2. s(1, 1) \in Seq(S) /\ Len(s(1, 1)) = 1 /\ s(1, 1)[1] = n
  BY <1>1, SubSeqProperties
<1>3. s(2, 2) \in Seq(S) /\ Len(s(2, 2)) = 1 /\ s(2, 2)[1] = i
  BY <1>1, SubSeqProperties
<1>4. s(1, 2) \in Seq(S) /\ Len(s(1, 2)) = 2 /\ s(1, 2)[1] = n /\ s(1, 2)[2] = i
  BY <1>1, SubSeqProperties
<1>5. SubSeq(<<n, i>>, 3, 2) = << >>
  OBVIOUS
<1> HIDE DEF s
<1>6. s(1, 1) = <<n>> /\ s(2, 2) = <<i>> /\ s(1, 2) = <<n, i>>
  BY <1>2, <1>3, <1>4, Singly, Doubly
<1> QED
  BY <1>5, <1>6 DEF s

\* What has been read before, and what is read now, put together.
LEMMA Joined ==
  ASSUME NEW n, NEW i
  PROVE  << >> \o <<n>> = <<n>> /\ <<n>> \o <<i>> = <<n, i>> /\ << >> \o <<n, i>> = <<n, i>>
<1> DEFINE S == {n, i}
           s == <<n>> \o <<i>>
<1>1. /\ <<n>> \in Seq(S) /\ <<i>> \in Seq(S) /\ Len(<<n>>) = 1 /\ Len(<<i>>) = 1
      /\ <<n>>[1] = n /\ <<i>>[1] = i
  OBVIOUS
<1>2. s \in Seq(S) /\ Len(s) = 2 /\ s[1] = n /\ s[2] = i
  <2> HIDE DEF S
  <2> QED
    BY <1>1, ConcatProperties
<1>3. << >> \o <<n>> = <<n>> /\ << >> \o <<n, i>> = <<n, i>>
  OBVIOUS
<1> HIDE DEF s, S
<1>4. s = <<n, i>>
  BY <1>2, Doubly
<1> QED
  BY <1>3, <1>4 DEF s

-----------------------------------------------------------------------------
\* The instruction tells whether the match is over.
LEMMA InstructionKind ==
  ASSUME over \in BOOLEAN
  PROVE  Instruction(~over).kind = IF over = TRUE THEN "stop" ELSE "go"
<1>1. CASE over = TRUE
  BY <1>1 DEF Instruction
<1>2. CASE over = FALSE
  BY <1>2 DEF Instruction
<1> QED
  BY <1>1, <1>2

\* The news is about the match, a round or its beginning.
LEMMA NewsIs ==
  ASSUME NEW p, over \in BOOLEAN
  PROVE  /\ over = TRUE => News(p) = Stats(win[p], total)
         /\ over = FALSE /\ total = 0 => News(p) = Greeting
         /\ over = FALSE /\ total # 0 => News(p) = Result(outcome)
         /\ News(p).kind = IF over = TRUE THEN "stats"
                           ELSE IF total = 0 THEN "greeting" ELSE "result"
<1>1. CASE over = TRUE
  BY <1>1 DEF News, Stats
<1>2. CASE over = FALSE
  BY <1>2 DEF News, Greeting, Result
<1> QED
  BY <1>1, <1>2

\* The client finds a word for any news of a match that goes on.
LEMMA WordIsOne ==
  ASSUME NEW p, over = FALSE
  PROVE  [kind |-> Word(p, News(p))] \in Words
<1>1. Word(p, News(p)) \in {"nothing", "tie", "win", "lose"}
  <2>1. News(p).kind \in {"greeting", "result"}
    BY DEF News, Greeting, Result
  <2>2. CASE News(p).kind = "greeting"
    BY <2>2 DEF Word
  <2>3. CASE News(p).kind = "result"
    BY <2>3 DEF Word
  <2> QED
    BY <2>1, <2>2, <2>3
<1> QED
  BY <1>1 DEF Words

\* A client nothing happens to stays where it is.
LEMMA Bystander ==
  ASSUME NEW q \in Players, HasLeft(q), Stays(q), UNCHANGED <<name, server>>,
         sock'[q] = sock[q], cpc'[q] = cpc[q], have'[q] = have[q], said'[q] = said[q],
         plays'[q] = plays[q], up'[q] = up[q], down'[q] = down[q]
  PROVE  HasLeft(q)' /\ Stays(q)'
<1>1. /\ spc' = spc /\ to' = to /\ named' = named /\ answered' = answered
      /\ gesture' = gesture /\ outcome' = outcome /\ win' = win /\ total' = total
      /\ over' = over /\ name' = name
  BY DEF server
<1>2. HasLeft(q)'
  BY DEF HasLeft, Nothing
<1>3. /\ Quiet(q)' <=> Quiet(q)
      /\ Informed(q)' <=> Informed(q)
      /\ Asked(q)' <=> Asked(q)
  BY <1>1 DEF Quiet, Informed, Asked
<1>4. News(q)' = News(q) /\ Word(q, News(q))' = Word(q, News(q)) /\ Hand(q)' = Hand(q)
  BY <1>1 DEF News, Word, Hand
<1>5. /\ Nothing(q)' <=> Nothing(q)
      /\ One(q, News(q))' <=> One(q, News(q))
      /\ Two(q, News(q), Instruction(~over))' <=> Two(q, News(q), Instruction(~over))
  BY <1>1, <1>4 DEF Nothing, One, Two
<1>6. Orderly(q)' <=> Orderly(q)
  <2>1. Chooses(q)' <=> Chooses(q)
    BY <1>1, <1>4, <1>5 DEF Chooses
  <2> QED
    BY <1>1, <1>4, <1>5, <2>1 DEF Orderly
<1>7. InStep(q)' <=> InStep(q)
  <2>1. (InLobby(q)' <=> InLobby(q)) /\ (Waits(q)' <=> Waits(q)) /\ (Hears(q)' <=> Hears(q))
    BY <1>1, <1>5 DEF InLobby, Waits, Hears
  <2>2. (Told(q)' <=> Told(q)) /\ (Chosen(q)' <=> Chosen(q))
    BY <1>1, <1>5 DEF Told, Chosen
  <2>3. (Chooses(q)' <=> Chooses(q)) /\ (Knows(q)' <=> Knows(q))
    BY <1>1, <1>4, <1>5 DEF Chooses, Knows
  <2> QED
    BY <1>1, <1>3, <2>1, <2>2, <2>3 DEF InStep
<1>8. Kept(q)' <=> Kept(q)
  BY <1>1 DEF Kept
<1>9. Counted(q)' <=> Counted(q)
  BY <1>1, <1>4 DEF Counted
<1> QED
  BY <1>1, <1>2, <1>6, <1>7, <1>8, <1>9 DEF Stays, Follows

\* What the clients cannot change.
LEMMA ServerKeeps ==
  ASSUME Control, Score, UNCHANGED <<name, server>>
  PROVE  Control' /\ Score'
BY DEF Control, Score, server

\* A client reads the one line that is there, and waits for another.
LEMMA ListenToOne ==
  ASSUME NEW p \in Players, NEW n, Shapes, One(p, n), Listen(p)
  PROVE  One(p, n)' /\ UNCHANGED <<cpc, said>>
<1>1. PICK k \in 1..Len(down[p]) :
        LET lines == have[p] \o SubSeq(down[p], 1, k)
        IN  /\ down' = [down EXCEPT ![p] = SubSeq(@, k + 1, Len(@))]
            /\ ~Complete(lines) => have' = [have EXCEPT ![p] = lines] /\ UNCHANGED <<cpc, said>>
  BY DEF Listen
<1>2. have[p] = << >> /\ down[p] = <<n>> /\ k = 1
  <2>1. down[p] # << >>
    OBVIOUS
  <2>2. have[p] = << >> /\ down[p] = <<n>>
    BY <2>1 DEF One
  <2> QED
    BY <2>2
<1>3. have[p] \o SubSeq(down[p], 1, k) = <<n>> /\ SubSeq(down[p], k + 1, Len(down[p])) = << >>
  <2>1. k + 1 = 2 /\ Len(down[p]) = 1
    BY <1>2
  <2> QED
    BY <1>2, <2>1, PartsOfOne, Joined
<1>4. ~Complete(<<n>>)
  BY DEF Complete
<1>5. have'[p] = <<n>> /\ down'[p] = << >> /\ UNCHANGED <<cpc, said>>
  BY <1>1, <1>3, <1>4 DEF Shapes
<1> QED
  BY <1>5 DEF One

\* A client reads one line of two, or both and obeys the second one.
LEMMA ListenToTwo ==
  ASSUME NEW p \in Players, NEW n, NEW i, Shapes, Two(p, n, i), Listen(p)
  PROVE  \/ Two(p, n, i)' /\ UNCHANGED <<cpc, said>>
         \/ /\ Nothing(p)'
            /\ i.kind = "stop" => cpc'[p] = "over" /\ said'[p] = n
            /\ i.kind # "stop" => cpc'[p] = "play" /\ said'[p] = [kind |-> Word(p, n)]
<1>1. PICK k \in 1..Len(down[p]) :
        LET lines == have[p] \o SubSeq(down[p], 1, k)
        IN  /\ down' = [down EXCEPT ![p] = SubSeq(@, k + 1, Len(@))]
            /\ IF ~Complete(lines)
               THEN have' = [have EXCEPT ![p] = lines] /\ UNCHANGED <<cpc, said>>
               ELSE /\ have' = [have EXCEPT ![p] = << >>]
                    /\ IF lines[2].kind = "stop"
                       THEN /\ cpc'  = [cpc EXCEPT ![p] = "over"]
                            /\ said' = [said EXCEPT ![p] = lines[1]]
                       ELSE /\ cpc'  = [cpc EXCEPT ![p] = "play"]
                            /\ said' = [said EXCEPT ![p] = [kind |-> Word(p, lines[1])]]
  BY DEF Listen
<1> DEFINE lines == have[p] \o SubSeq(down[p], 1, k)
           left  == SubSeq(down[p], k + 1, Len(down[p]))
<1>2. down'[p] = left
  BY <1>1 DEF Shapes
<1>3. \/ have[p] = << >> /\ lines = <<n>> /\ left = <<i>>
      \/ lines = <<n, i>> /\ left = << >>
  <2>1. CASE have[p] = << >> /\ down[p] = <<n, i>>
    <3>1. Len(down[p]) = 2 /\ (k = 1 \/ k = 2)
      BY <1>1, <2>1
    <3>2. CASE k = 1
      BY <2>1, <3>1, <3>2, PartsOfTwo, Joined
    <3>3. CASE k = 2
      BY <2>1, <3>1, <3>3, PartsOfTwo, Joined
    <3> QED
      BY <3>1, <3>2, <3>3
  <2>2. CASE have[p] = <<n>> /\ down[p] = <<i>>
    <3>1. Len(down[p]) = 1 /\ k = 1 /\ k + 1 = 2
      BY <1>1, <2>2
    <3> QED
      BY <2>2, <3>1, PartsOfOne, Joined
  <2> QED
    BY <2>1, <2>2 DEF Two
<1> HIDE DEF left
<1>4. CASE lines = <<n>> /\ left = <<i>>
  <2>1. ~Complete(lines)
    BY <1>4 DEF Complete
  <2>2. have'[p] = <<n>> /\ UNCHANGED <<cpc, said>>
    BY <1>1, <1>4, <2>1 DEF Shapes
  <2> QED
    BY <1>2, <1>4, <2>2 DEF Two
<1>5. CASE lines = <<n, i>> /\ left = << >>
  <2> HIDE DEF lines
  <2>1. Complete(lines) /\ lines[1] = n /\ lines[2] = i
    BY <1>5 DEF Complete
  <2>2. have'[p] = << >>
    BY <1>1, <2>1 DEF Shapes, lines
  <2>3. CASE i.kind = "stop"
    BY <1>1, <1>2, <1>5, <2>1, <2>2, <2>3 DEF Shapes, Nothing, lines
  <2>4. CASE i.kind # "stop"
    BY <1>1, <1>2, <1>5, <2>1, <2>2, <2>4 DEF Shapes, Nothing, lines
  <2> QED
    BY <2>3, <2>4
<1> QED
  BY <1>3, <1>4, <1>5

\* A client with nothing to read does not read.
LEMMA ListenToNothing ==
  ASSUME NEW p \in Players, Nothing(p)
  PROVE  ~Listen(p)
BY DEF Nothing, Listen

-----------------------------------------------------------------------------
\* A step of one client leaves the server and the other client alone.
LEMMA OneClient ==
  ASSUME NEW p \in Players, RInv, UNCHANGED <<name, server>>,
         \A q \in Players \ {p} :
           /\ sock'[q] = sock[q] /\ cpc'[q] = cpc[q] /\ have'[q] = have[q]
           /\ said'[q] = said[q] /\ plays'[q] = plays[q] /\ up'[q] = up[q]
           /\ down'[q] = down[q],
         Shapes', HasLeft(p)', Stays(p)'
  PROVE  RInv'
<1>1. Control' /\ Score'
  BY ServerKeeps DEF RInv
<1>2. ASSUME NEW q \in Players \ {p} PROVE HasLeft(q)' /\ Stays(q)'
  BY Bystander DEF RInv
<1> QED
  BY <1>1, <1>2 DEF RInv

\* Where a client is that the lobby has let go.
LEMMA Positions ==
  ASSUME NEW p \in Players, Follows(p), spc # "lobby", spc # "dead", Control
  PROVE  \/ Quiet(p) /\ Waits(p)
         \/ Informed(p) /\ Hears(p)
         \/ Asked(p) /\ (Told(p) \/ Chooses(p) \/ Chosen(p) \/ Knows(p))
<1>1. Quiet(p) \/ Informed(p) \/ Asked(p)
  <2>1. to = 0 \/ to = 1
    BY DEF Control, Players
  <2>2. p = 0 \/ p = 1
    BY DEF Players
  <2>3. spc \in {"greet", "ask", "gather", "decide", "tell", "done"}
    BY DEF Control
  <2> QED
    BY <2>1, <2>2, <2>3 DEF Quiet, Informed, Asked
<1> QED
  BY <1>1 DEF Follows, InStep

\* connect() happens while the server is in its lobby.
LEMMA JoinRInv ==
  ASSUME NEW p \in Players, RInv, Join(p)
  PROVE  RInv'
<1>1. /\ cpc[p] = "away" /\ cpc' = [cpc EXCEPT ![p] = "naming"] /\ UNCHANGED <<name, server>>
      /\ UNCHANGED <<sock, have, said, plays, up, down>> /\ Shapes /\ HasLeft(p) /\ Stays(p)
  BY DEF Join, ServerStays, RInv
<1>2. cpc'[p] = "naming" /\ (\A q \in Players \ {p} : cpc'[q] = cpc[q]) /\ Shapes'
  BY <1>1 DEF Shapes, server
<1>3. spc' = "lobby" /\ Follows(p) /\ sock[p] = "open"
  <2>1. spc # "dead"
    BY <1>1 DEF Stays, Orderly, Chooses
  <2>2. Follows(p) /\ sock[p] = "open"
    BY <1>1, <2>1 DEF Stays
  <2>3. spc = "lobby"
    BY <1>1, <2>1, <2>2, Positions DEF RInv, Waits, Hears, Told, Chooses, Chosen, Knows
  <2> QED
    BY <1>1, <2>2, <2>3 DEF server
<1>4. InStep(p)'
  BY <1>1, <1>2, <1>3 DEF Follows, InStep, InLobby, Nothing, server, Quiet, Informed, Asked
<1>5. Kept(p)' /\ Counted(p)'
  BY <1>1, <1>3 DEF Follows, Kept, Counted, Hand, server
<1> QED
  BY <1>1, <1>2, <1>3, <1>4, <1>5, OneClient DEF HasLeft, Stays, Follows

\* The name is the client's first line, and nothing is under way to it.
LEMMA SendNameRInv ==
  ASSUME NEW p \in Players, RInv, SendName(p)
  PROVE  RInv'
<1>1. /\ cpc[p] = "naming" /\ cpc' = [cpc EXCEPT ![p] = "listen"] /\ UNCHANGED <<name, server>>
      /\ up' = [up EXCEPT ![p] = Append(@, Hello)]
      /\ UNCHANGED <<sock, have, said, plays, down>> /\ Shapes /\ HasLeft(p) /\ Stays(p)
  BY DEF SendName, ServerStays, RInv
<1>2. /\ cpc'[p] = "listen" /\ (\A q \in Players \ {p} : cpc'[q] = cpc[q] /\ up'[q] = up[q])
      /\ up'[p] = Append(up[p], Hello) /\ Shapes'
  BY <1>1 DEF Shapes, server
<1>3. spc' = "lobby" /\ Follows(p) /\ sock[p] = "open" /\ InLobby(p) /\ spc = "lobby"
  <2>1. spc # "dead"
    BY <1>1 DEF Stays, Orderly, Chooses
  <2>2. Follows(p) /\ sock[p] = "open"
    BY <1>1, <2>1 DEF Stays
  <2>3. spc = "lobby"
    BY <1>1, <2>1, <2>2, Positions DEF RInv, Waits, Hears, Told, Chooses, Chosen, Knows
  <2> QED
    BY <1>1, <2>2, <2>3 DEF server, Follows, InStep
<1>4. up'[p] = <<Hello>> /\ p \notin named
  <2>1. up[p] = << >> /\ p \notin named
    BY <1>1, <1>3 DEF InLobby
  <2> QED
    BY <1>2, <2>1, Written
<1>5. InStep(p)'
  BY <1>1, <1>2, <1>3, <1>4 DEF Follows, InStep, InLobby, Nothing, server, Quiet, Informed, Asked
<1>6. Kept(p)' /\ Counted(p)'
  BY <1>1, <1>3, <1>4 DEF Follows, Kept, Counted, Hand, server
<1> QED
  BY <1>1, <1>2, <1>3, <1>5, <1>6, OneClient DEF HasLeft, Stays, Follows

\* What a client that has been given two lines makes of them.
LEMMA HeardTwo ==
  ASSUME NEW p \in Players, RInv, Listen(p), UNCHANGED <<name, server>>,
         Two(p, News(p), Instruction(~over))
  PROVE  \/ Two(p, News(p), Instruction(~over))' /\ UNCHANGED <<cpc, said>>
         \/ Nothing(p)' /\ over = TRUE /\ cpc'[p] = "over" /\ said'[p] = News(p)'
         \/ /\ Nothing(p)' /\ over = FALSE /\ cpc'[p] = "play"
            /\ said'[p] = [kind |-> Word(p, News(p))'] /\ said'[p] \in Words
<1> DEFINE n == News(p)
           i == Instruction(~over)
<1>1. Shapes /\ over \in BOOLEAN
  BY DEF RInv, Control
<1>2. n' = n /\ i' = i /\ Word(p, n)' = Word(p, n)
  BY DEF News, Word, server
<1>3. /\ over = TRUE => i.kind = "stop"
      /\ over = FALSE => i.kind # "stop" /\ [kind |-> Word(p, n)] \in Words
  BY <1>1, InstructionKind, WordIsOne
<1> HIDE DEF n, i
<1>4. Two(p, n, i)
  BY DEF n, i
<1>5. \/ Two(p, n, i)' /\ UNCHANGED <<cpc, said>>
      \/ /\ Nothing(p)'
         /\ i.kind = "stop" => cpc'[p] = "over" /\ said'[p] = n
         /\ i.kind # "stop" => cpc'[p] = "play" /\ said'[p] = [kind |-> Word(p, n)]
  <2>1. ASSUME NEW x, NEW y, Two(p, x, y)
        PROVE  \/ (/\ \/ have'[p] = << >> /\ down'[p] = <<x, y>>
                      \/ have'[p] = <<x>> /\ down'[p] = <<y>>
                   /\ UNCHANGED <<cpc, said>>)
               \/ /\ Nothing(p)'
                  /\ y.kind = "stop" => cpc'[p] = "over" /\ said'[p] = x
                  /\ y.kind # "stop" => cpc'[p] = "play" /\ said'[p] = [kind |-> Word(p, x)]
    BY <1>1, <2>1, ListenToTwo DEF Two
  <2> QED
    BY <1>2, <1>4, <2>1 DEF Two
<1> QED
  BY <1>1, <1>2, <1>3, <1>5 DEF n, i

\* read() in a client: it obeys what has been written to it and drops nothing.
LEMMA ListenRInv ==
  ASSUME NEW p \in Players, RInv, Listen(p)
  PROVE  RInv'
<1>1. /\ cpc[p] = "listen" /\ UNCHANGED <<name, server>> /\ UNCHANGED <<sock, plays, up>>
      /\ Shapes /\ Control /\ HasLeft(p) /\ Stays(p) /\ over \in BOOLEAN
  BY DEF Listen, ServerStays, RInv, Control
<1>2. /\ DOMAIN have' = DOMAIN have /\ DOMAIN down' = DOMAIN down
      /\ DOMAIN said' = DOMAIN said
      /\ cpc' \in [Players -> {"away", "naming", "listen", "play", "over", "spin",
                               "failed", "left"}]
      /\ \A q \in Players \ {p} : /\ cpc'[q] = cpc[q] /\ have'[q] = have[q]
                                  /\ said'[q] = said[q] /\ down'[q] = down[q]
  <2>1. \/ cpc' = cpc
        \/ cpc' = [cpc EXCEPT ![p] = "over"]
        \/ cpc' = [cpc EXCEPT ![p] = "play"]
    BY <1>1 DEF Listen
  <2>2. /\ cpc' \in [Players -> {"away", "naming", "listen", "play", "over", "spin",
                                 "failed", "left"}]
        /\ \A q \in Players \ {p} : cpc'[q] = cpc[q]
    BY <1>1, <2>1 DEF Shapes
  <2>3. /\ DOMAIN have' = DOMAIN have /\ DOMAIN down' = DOMAIN down
        /\ DOMAIN said' = DOMAIN said
        /\ \A q \in Players \ {p} : have'[q] = have[q] /\ said'[q] = said[q] /\ down'[q] = down[q]
    BY <1>1 DEF Listen, Shapes
  <2> QED
    BY <2>2, <2>3
<1>3. /\ spc' = spc /\ to' = to /\ named' = named /\ answered' = answered /\ accepted' = accepted
      /\ gesture' = gesture /\ outcome' = outcome /\ win' = win /\ total' = total
      /\ over' = over /\ name' = name
  BY <1>1 DEF server
<1>4. sock[p] = "open" /\ sock' = sock
  BY <1>1 DEF Stays
<1>5. News(p)' = News(p)
  BY <1>3 DEF News
<1>6. Hand(p)' = Hand(p) /\ (Quiet(p)' <=> Quiet(p)) /\ (Informed(p)' <=> Informed(p))
      /\ (Asked(p)' <=> Asked(p))
  BY <1>1, <1>3 DEF Hand, Quiet, Informed, Asked
<1>10. ~Nothing(p)
  BY ListenToNothing
<1>7. \/ /\ One(p, News(p)) /\ up[p] = << >> /\ (spc = "dead" \/ (Informed(p) /\ spc # "lobby"))
      \/ /\ Two(p, News(p), Instruction(~over)) /\ up[p] = << >>
         /\ spc = "dead" \/ (Asked(p) /\ spc # "lobby")
  <2>1. ~Nothing(p)
    BY ListenToNothing
  <2>2. CASE spc = "dead"
    BY <1>1, <2>1, <2>2 DEF Stays, Orderly, Chooses
  <2>3. CASE spc = "lobby"
    BY <1>1, <2>1, <2>3 DEF Stays, Follows, InStep, InLobby
  <2>4. CASE spc \notin {"dead", "lobby"}
    <3>1. Follows(p)
      BY <1>1, <2>4 DEF Stays
    <3> QED
      BY <1>1, <2>1, <2>4, <3>1, Positions DEF Waits, Hears, Told, Chooses, Chosen, Knows
  <2> QED
    BY <2>2, <2>3, <2>4
<1>8. CASE One(p, News(p)) /\ up[p] = << >> /\ (spc = "dead" \/ (Informed(p) /\ spc # "lobby"))
  <2>1. One(p, News(p))' /\ cpc' = cpc /\ said' = said
    <3>1. ASSUME NEW x, One(p, x)
          PROVE  /\ \/ have'[p] = << >> /\ down'[p] = <<x>>
                    \/ have'[p] = <<x>> /\ down'[p] = << >>
                 /\ UNCHANGED <<cpc, said>>
      BY <1>1, <3>1, ListenToOne DEF One
    <3> QED
      BY <1>5, <1>8, <3>1 DEF One
  <2>2. Shapes'
    BY <1>1, <1>2, <1>3, <2>1 DEF Shapes
  <2>3. CASE spc = "dead"
    <3>1. Orderly(p)'
      <4>1. (over = TRUE => plays[p] = total + 1) /\ (over = TRUE \/ plays[p] <= MaxRounds)
        BY <1>1, <1>10, <2>3 DEF Stays, Orderly
      <4>2. cpc'[p] = "listen" /\ plays'[p] = plays[p] /\ up'[p] = << >>
        BY <1>1, <1>8, <2>1
      <4> QED
        BY <1>3, <2>1, <4>1, <4>2 DEF Orderly
    <3> QED
      BY <1>1, <1>2, <1>3, <1>4, <2>1, <2>2, <2>3, <3>1, OneClient DEF HasLeft, Stays
  <2>4. CASE spc # "dead" /\ Informed(p) /\ spc # "lobby"
    <3>1. ~Quiet(p) /\ ~Asked(p) /\ Follows(p)
      BY <1>1, <2>4 DEF Quiet, Informed, Asked, Stays, Control, Players
    <3>2. InStep(p)'
      BY <1>1, <1>3, <1>6, <1>8, <2>1, <2>4, <3>1 DEF InStep, Hears
    <3>3. Kept(p)' /\ Counted(p)'
      BY <1>1, <1>3, <1>6, <3>1 DEF Follows, Kept, Counted
    <3> QED
      BY <1>1, <1>2, <1>3, <1>4, <2>1, <2>2, <2>4, <3>2, <3>3, OneClient DEF HasLeft, Stays, Follows
  <2> QED
    BY <1>8, <2>3, <2>4
<1>9. CASE /\ Two(p, News(p), Instruction(~over)) /\ up[p] = << >>
           /\ spc = "dead" \/ (Asked(p) /\ spc # "lobby")
  <2>1. \/ Two(p, News(p), Instruction(~over))' /\ UNCHANGED <<cpc, said>>
        \/ Nothing(p)' /\ over = TRUE /\ cpc'[p] = "over" /\ said'[p] = News(p)'
        \/ /\ Nothing(p)' /\ over = FALSE /\ cpc'[p] = "play"
           /\ said'[p] = [kind |-> Word(p, News(p))'] /\ said'[p] \in Words
    BY <1>1, <1>9, HeardTwo
  <2>2. Shapes'
    <3>1. \A q \in Players : cpc'[q] # "over" => said'[q] \in Words
      BY <1>1, <1>2, <2>1 DEF Shapes
    <3> QED
      BY <1>1, <1>2, <1>3, <3>1 DEF Shapes
  <2>3. CASE spc = "dead"
    <3>1. Orderly(p)'
      <4>1. (over = TRUE => plays[p] = total + 1) /\ (over = TRUE \/ plays[p] <= MaxRounds)
        BY <1>1, <1>10, <2>3 DEF Stays, Orderly
      <4>2. plays'[p] = plays[p] /\ up'[p] = << >>
        BY <1>1, <1>9
      <4>3. CASE Two(p, News(p), Instruction(~over))' /\ UNCHANGED <<cpc, said>>
        BY <1>1, <1>3, <4>1, <4>2, <4>3 DEF Orderly
      <4>4. CASE Nothing(p)' /\ over = TRUE /\ cpc'[p] = "over" /\ said'[p] = News(p)'
        BY <1>3, <4>1, <4>2, <4>4 DEF Orderly
      <4>5. CASE /\ Nothing(p)' /\ over = FALSE /\ cpc'[p] = "play"
                 /\ said'[p] = [kind |-> Word(p, News(p))'] /\ said'[p] \in Words
        <5>1. Chooses(p)'
          BY <1>3, <4>2, <4>5 DEF Chooses
        <5> QED
          BY <1>3, <4>1, <4>2, <4>5, <5>1 DEF Orderly
      <4> QED
        BY <2>1, <4>3, <4>4, <4>5
    <3> QED
      BY <1>1, <1>2, <1>3, <1>4, <2>1, <2>2, <2>3, <3>1, OneClient DEF HasLeft, Stays
  <2>4. CASE spc # "dead" /\ Asked(p) /\ spc # "lobby"
    <3>1. ~Quiet(p) /\ ~Informed(p) /\ Follows(p)
      BY <1>1, <2>4 DEF Quiet, Informed, Asked, Stays, Control, Players
    <3>2. Told(p)' \/ Chooses(p)' \/ Knows(p)'
      BY <1>1, <1>3, <1>9, <2>1 DEF Told, Chooses, Knows
    <3>3. InStep(p)'
      BY <1>3, <1>6, <2>4, <3>1, <3>2 DEF InStep
    <3>4. Kept(p)' /\ Counted(p)'
      BY <1>1, <1>3, <1>6, <3>1 DEF Follows, Kept, Counted
    <3> QED
      BY <1>1, <1>2, <1>3, <1>4, <2>1, <2>2, <2>4, <3>3, <3>4, OneClient DEF HasLeft, Stays, Follows
  <2> QED
    BY <1>9, <2>3, <2>4
<1> QED
  BY <1>7, <1>8, <1>9

\* At the end of its stream a client has been told all, unless the server died.
LEMMA EndOfStreamRInv ==
  ASSUME NEW p \in Players, RInv, EndOfStream(p)
  PROVE  RInv'
<1>1. /\ cpc[p] = "listen" /\ Gone /\ UNCHANGED <<name, server>>
      /\ UNCHANGED <<sock, have, said, plays, up, down>>
      /\ Shapes /\ Control /\ HasLeft(p) /\ Stays(p)
  BY DEF EndOfStream, ServerStays, RInv
<1>2. /\ Reset(p) \/ down[p] = << >>
      /\ cpc' = [cpc EXCEPT ![p] = "failed"] \/ cpc' = [cpc EXCEPT ![p] = "spin"]
  BY DEF EndOfStream
<1>3. /\ cpc'[p] \in {"failed", "spin"} /\ (\A q \in Players \ {p} : cpc'[q] = cpc[q])
      /\ Shapes'
  BY <1>1, <1>2 DEF Shapes, server
<1>4. spc = "dead"
  <2> SUFFICES ASSUME spc # "dead" PROVE FALSE
    OBVIOUS
  <2>1. spc = "done" /\ Follows(p) /\ over = TRUE
    BY <1>1 DEF Gone, Stays, Control
  <2>2. Asked(p) /\ (Told(p) \/ Chooses(p) \/ Chosen(p) \/ Knows(p))
    BY <2>1 DEF Follows, InStep, Asked
  <2>3. Told(p)
    BY <1>1, <2>1, <2>2 DEF Chooses, Chosen, Knows
  <2> QED
    BY <1>2, <2>3 DEF Told, Two, Reset
<1>5. Orderly(p)'
  <2>1. Orderly(p)
    BY <1>1, <1>4 DEF Stays
  <2>2. News(p)' = News(p) /\ over' = over /\ total' = total
    BY <1>1 DEF News, server
  <2>3. /\ Nothing(p)' <=> Nothing(p)
        /\ One(p, News(p))' <=> One(p, News(p))
        /\ Two(p, News(p), Instruction(~over))' <=> Two(p, News(p), Instruction(~over))
    BY <1>1, <2>2 DEF Nothing, One, Two
  <2> QED
    BY <1>1, <1>3, <2>1, <2>2, <2>3 DEF Orderly, Chooses
<1> QED
  BY <1>1, <1>3, <1>4, <1>5, OneClient DEF HasLeft, Stays, server

\* Where a client is that asks its player.
LEMMA AtPlay ==
  ASSUME NEW p \in Players, RInv, cpc[p] = "play", spc # "dead"
  PROVE  /\ Follows(p) /\ Asked(p) /\ ~Quiet(p) /\ ~Informed(p) /\ p \in named
         /\ over = FALSE /\ spc # "lobby" /\ ~Gone /\ up[p] = << >> /\ Nothing(p)
         /\ gesture[p] = NoGesture /\ Hand(p) = NoGesture /\ plays[p] = total
<1>1. Follows(p) /\ Control /\ total \in Nat
  BY DEF RInv, Stays, Score
<1>2. spc # "lobby"
  BY <1>1 DEF Follows, InStep, InLobby
<1>3. Asked(p) /\ Chooses(p)
  BY <1>1, <1>2, Positions DEF Waits, Hears, Told, Chosen, Knows
<1>4. ~Quiet(p) /\ ~Informed(p)
  BY <1>1, <1>3 DEF Quiet, Informed, Asked, Control, Players
<1>5. over = FALSE /\ up[p] = << >> /\ Nothing(p)
  BY <1>3 DEF Chooses
<1>6. ~Gone /\ p \in named
  BY <1>1, <1>2, <1>5 DEF Control, Gone
<1>7. gesture[p] = NoGesture
  BY <1>1, <1>3, <1>5, <1>6 DEF Follows, Kept, Asked, Gone
<1>8. Hand(p) = NoGesture
  BY <1>5, <1>7 DEF Hand
<1>9. plays[p] = total
  BY <1>1, <1>5, <1>8 DEF Follows, Counted
<1> QED
  BY <1>1, <1>2, <1>3, <1>4, <1>5, <1>6, <1>7, <1>8, <1>9

\* A client sends a gesture only when it has obeyed the server, and the server
\* has read the one before.
LEMMA PlayRInv ==
  ASSUME NEW p \in Players, RInv, Play(p)
  PROVE  RInv'
<1>1. /\ cpc[p] = "play" /\ UNCHANGED <<name, server>> /\ UNCHANGED <<sock, have, said, down>>
      /\ Shapes /\ Control /\ HasLeft(p) /\ Stays(p)
  BY DEF Play, ServerStays, RInv
<1>2. PICK g \in Figures :
        /\ plays[p] >= MaxRounds => g = "e"
        /\ up' = IF Gone THEN up ELSE [up EXCEPT ![p] = Append(@, g)]
  BY DEF Play
<1>3. /\ cpc'[p] = IF Reset(p) THEN "failed" ELSE "listen"
      /\ plays'[p] = plays[p] + 1 /\ plays[p] \in Nat
      /\ \A q \in Players \ {p} : cpc'[q] = cpc[q] /\ plays'[q] = plays[q] /\ up'[q] = up[q]
      /\ Shapes'
  <2>1. /\ cpc'   = [cpc EXCEPT ![p] = IF Reset(p) THEN "failed" ELSE "listen"]
        /\ plays' = [plays EXCEPT ![p] = @ + 1]
    BY DEF Play
  <2>2. plays' \in [Players -> Nat] /\ plays'[p] = plays[p] + 1 /\ plays[p] \in Nat
        /\ \A q \in Players \ {p} : plays'[q] = plays[q]
    BY <1>1, <2>1 DEF Shapes
  <2>3. /\ cpc' \in [Players -> {"away", "naming", "listen", "play", "over", "spin",
                                 "failed", "left"}]
        /\ cpc'[p] = IF Reset(p) THEN "failed" ELSE "listen"
        /\ \A q \in Players \ {p} : cpc'[q] = cpc[q]
    BY <1>1, <2>1 DEF Shapes
  <2>4. DOMAIN up' = Players /\ \A q \in Players \ {p} : up'[q] = up[q]
    BY <1>1, <1>2 DEF Shapes
  <2> QED
    BY <1>1, <2>2, <2>3, <2>4 DEF Shapes, server
<1>4. CASE spc = "dead"
  <2>1. up' = up
    BY <1>2, <1>4 DEF Gone
  <2>2. Orderly(p)'
    <3>1. Nothing(p) /\ over = FALSE
      BY <1>1, <1>4 DEF Stays, Orderly, Chooses
    <3>2. Nothing(p)' /\ over' = FALSE /\ cpc'[p] \in {"failed", "listen"}
      BY <1>1, <1>3, <3>1 DEF Nothing, server
    <3> QED
      BY <3>2 DEF Orderly
  <2> QED
    BY <1>1, <1>3, <1>4, <2>2, OneClient DEF HasLeft, Stays, server
<1>5. CASE spc # "dead"
  <2>1. /\ Follows(p) /\ Asked(p) /\ ~Quiet(p) /\ ~Informed(p) /\ p \in named
        /\ over = FALSE /\ spc # "lobby" /\ ~Gone /\ up[p] = << >> /\ Nothing(p)
        /\ gesture[p] = NoGesture /\ Hand(p) = NoGesture /\ plays[p] = total
    BY <1>1, <1>5, AtPlay
  <2>2. up'[p] = <<g>> /\ cpc'[p] = "listen"
    <3>1. up'[p] = Append(up[p], g)
      BY <1>1, <1>2, <2>1 DEF Shapes
    <3> QED
      BY <1>3, <2>1, <3>1, Written DEF Reset
  <2>3. Chosen(p)'
    BY <1>1, <2>1, <2>2 DEF Chosen, Nothing, server
  <2>4. InStep(p)'
    BY <1>1, <2>1, <2>3 DEF InStep, Quiet, Informed, Asked, server
  <2>5. Kept(p)'
    BY <1>1, <2>1 DEF Follows, Kept, server
  <2>6. Counted(p)'
    <3>1. Hand(p)' = g /\ g # NoGesture
      <4>1. up'[p] # << >> /\ Head(up'[p]) = g
        BY <2>2
      <4> QED
        BY <1>1, <2>1, <4>1 DEF Hand, server, Figures, Gestures, NoGesture
    <3>2. plays'[p] = total' + 1 /\ over' = FALSE
      BY <1>1, <1>3, <2>1 DEF server
    <3>3. plays'[p] <= MaxRounds \/ g = "e"
      BY <1>2, <1>3, RpslsAssumption
    <3>4. total' <= MaxRounds
      BY <1>1, <2>1 DEF Follows, Counted, server
    <3> QED
      BY <3>1, <3>2, <3>3, <3>4 DEF Counted
  <2> QED
    BY <1>1, <1>3, <1>5, <2>1, <2>2, <2>4, <2>5, <2>6, OneClient DEF HasLeft, Stays, Follows, server
<1> QED
  BY <1>4, <1>5

\* A client that is closed takes what was under way to it with it.
LEMMA LeaveRInv ==
  ASSUME NEW p \in Players, RInv, Leave(p)
  PROVE  RInv'
<1>1. /\ cpc'  = [cpc  EXCEPT ![p] = "left"]
      /\ sock' = [sock EXCEPT ![p] = IF down[p] = << >> THEN "closed" ELSE "reset"]
      /\ down' = [down EXCEPT ![p] = << >>] /\ have' = [have EXCEPT ![p] = << >>]
      /\ UNCHANGED <<name, server>> /\ UNCHANGED <<said, plays, up>> /\ Shapes
      /\ cpc[p] # "over"
  BY DEF Leave, ServerStays, RInv
<1>2. /\ cpc'[p] = "left" /\ sock'[p] # "open" /\ down'[p] = << >> /\ have'[p] = << >>
      /\ \A q \in Players \ {p} : /\ cpc'[q] = cpc[q] /\ sock'[q] = sock[q]
                                  /\ have'[q] = have[q] /\ down'[q] = down[q]
  BY <1>1 DEF Shapes
<1>3. Shapes'
  BY <1>1, <1>2 DEF Shapes, server
<1> QED
  BY <1>1, <1>2, <1>3, OneClient DEF HasLeft, Stays, Nothing

\* Only a client that has left is reset.
LEMMA ResetRInv ==
  ASSUME NEW p \in Players, RInv, ResetArrives(p)
  PROVE  RInv'
<1>1. /\ sock[p] = "doomed" /\ sock' = [sock EXCEPT ![p] = "reset"]
      /\ UNCHANGED <<name, server>> /\ UNCHANGED <<cpc, have, said, plays, up, down>> /\ Shapes
      /\ HasLeft(p) /\ Stays(p)
  BY DEF ResetArrives, ServerStays, clients, RInv
<1>2. sock'[p] = "reset" /\ (\A q \in Players \ {p} : sock'[q] = sock[q]) /\ Shapes'
  BY <1>1 DEF Shapes, server
<1>3. cpc[p] = "left" /\ Nothing(p)
  BY <1>1 DEF HasLeft, Stays
<1> QED
  BY <1>1, <1>2, <1>3, OneClient DEF HasLeft, Stays, Nothing

-----------------------------------------------------------------------------
\* read_name and accept() leave a client that has not got its greeting.
LEMMA LobbyRInv ==
  ASSUME RInv, Lobby
  PROVE  RInv'
<1> DEFINE ready == {p \in Players : p < accepted /\ up[p] # << >>}
<1>1. /\ spc = "lobby"
      /\ accepted' = IF Cardinality(Connected) > accepted THEN accepted + 1 ELSE accepted
      /\ named' = named \cup ready
      /\ up' = [p \in Players |-> IF p \in ready THEN Tail(up[p]) ELSE up[p]]
      /\ spc' = IF accepted' = 2 /\ named' = Players THEN "greet" ELSE "lobby"
      /\ UNCHANGED <<name, to, answered, gesture, outcome, win, total, over, sock, clients, down>>
  BY DEF Lobby, ReadNames
<1>2. cpc' = cpc /\ have' = have /\ said' = said /\ plays' = plays /\ Shapes /\ Control /\ Score
  BY <1>1 DEF clients, RInv
<1>3. to = 0 /\ total = 0 /\ over = FALSE /\ over' = FALSE /\ total' = 0 /\ to' = 0
  BY <1>1, <1>2 DEF Control
<1>4. accepted' \in 0..2
  <2>1. Connected \subseteq Players /\ Players = {0, 1}
    BY DEF Connected, Players
  <2>2. IsFiniteSet(Players) /\ Cardinality(Players) = 2
    <3>1. IsFiniteSet({0, 1}) /\ Cardinality({0, 1}) = 2
      <4>1. IsFiniteSet({0}) /\ Cardinality({0}) = 1
        BY FS_Singleton
      <4>2. {0, 1} = {0} \cup {1} /\ 1 \notin {0}
        OBVIOUS
      <4> QED
        BY <4>1, <4>2, FS_AddElement
    <3> QED
      BY <2>1, <3>1
  <2>3. Cardinality(Connected) \in Nat /\ Cardinality(Connected) <= 2
    BY <2>1, <2>2, FS_Subset, FS_CardinalityType
  <2> QED
    BY <1>1, <1>2, <2>3 DEF Shapes
<1>5. Shapes'
  BY <1>1, <1>2, <1>4 DEF Shapes
<1>6. Control' /\ Score'
  BY <1>1, <1>2, <1>3 DEF Control, Score
<1>7. ASSUME NEW p \in Players PROVE HasLeft(p)' /\ Stays(p)'
  <2>1. HasLeft(p)'
    BY <1>1, <1>2 DEF RInv, HasLeft, Nothing
  <2>2. CASE cpc[p] # "left"
    <3>1. Follows(p) /\ InLobby(p) /\ sock[p] = "open" /\ spc' # "dead"
      BY <1>1, <2>2 DEF RInv, Stays, Follows, InStep
    <3>2. gesture[p] = NoGesture /\ gesture' = gesture
      BY <1>1, <1>3, <3>1 DEF Follows, Kept
    <3>3. Kept(p)'
      BY <1>1, <3>2 DEF Kept
    <3>4. InLobby(p)'
      <4>1. CASE p \in ready
        <5>1. cpc[p] = "listen" /\ up[p] = <<Hello>> /\ p \in named'
          BY <1>1, <3>1, <4>1 DEF InLobby
        <5>2. up'[p] = Tail(up[p])
          BY <1>1, <4>1
        <5>3. up'[p] = << >>
          BY <5>1, <5>2
        <5> QED
          BY <1>1, <1>2, <3>1, <5>1, <5>3 DEF InLobby, Nothing
      <4>2. CASE p \notin ready
        <5>1. up'[p] = up[p] /\ (p \in named' <=> p \in named)
          BY <1>1, <4>2
        <5> QED
          BY <1>1, <1>2, <3>1, <5>1 DEF InLobby, Nothing
      <4> QED
        BY <4>1, <4>2
    <3>5. spc' = "greet" => Waits(p)'
      <4>1. spc' = "greet" => p \in named'
        BY <1>1
      <4> QED
        BY <3>4, <4>1 DEF InLobby, Waits
    <3>6. InStep(p)'
      <4>1. spc' \in {"lobby", "greet"} /\ ~(p < 0) /\ to' = 0
        BY <1>1, <1>3 DEF Players
      <4>2. ~Informed(p)' /\ ~Asked(p)' /\ (Quiet(p)' => spc' = "greet")
        BY <4>1 DEF Quiet, Informed, Asked
      <4> QED
        BY <3>4, <3>5, <4>2 DEF InStep
    <3>7. Hand(p) = NoGesture /\ Hand(p)' = NoGesture
      BY <1>3, <3>1, <3>2, <3>4 DEF Hand, InLobby
    <3>8. Counted(p)'
      BY <1>2, <1>3, <3>1, <3>7, RpslsAssumption DEF Follows, Counted
    <3> QED
      BY <1>1, <2>1, <3>1, <3>3, <3>6, <3>8 DEF Stays, Follows
  <2>3. CASE cpc[p] = "left"
    BY <1>2, <2>1, <2>3 DEF Stays
  <2> QED
    BY <2>2, <2>3
<1> QED
  BY <1>5, <1>6, <1>7 DEF RInv

\* What a write() of the server changes.
LEMMA WriteChanges ==
  ASSUME NEW here, NEW line, NEW next, Shapes, Control, WriteBoth(here, line, next)
  PROVE  /\ spc = here
         /\ UNCHANGED <<name, accepted, named, gesture, outcome, win, total, over>>
         /\ cpc' = cpc /\ have' = have /\ said' = said /\ plays' = plays /\ up' = up
         /\ \A p \in Players \ {to} : sock'[p] = sock[p] /\ down'[p] = down[p]
         /\ sock[to] = "open" => sock'[to] = "open" /\ down'[to] = Append(down[to], line)
         /\ sock[to] # "open" => sock'[to] # "open" /\ down'[to] = down[to]
         /\ DOMAIN down' = Players
         /\ sock' \in [Players -> {"open", "closed", "doomed", "reset"}]
         /\ \/ sock[to] = "reset" /\ spc' = "dead" /\ down' = down /\ to' = to
            \/ sock[to] # "reset" /\ to' = Other(to) /\ spc' = IF to = 1 THEN next ELSE here
<1>1. to \in Players
  BY DEF Control
<1>2. /\ spc = here
      /\ IF sock[to] = "reset"
         THEN spc' = "dead" /\ UNCHANGED <<to, sock, down>>
         ELSE /\ down' = IF sock[to] = "open" THEN [down EXCEPT ![to] = Append(@, line)] ELSE down
              /\ sock' = IF sock[to] = "closed" THEN [sock EXCEPT ![to] = "doomed"] ELSE sock
              /\ to'   = Other(to)
              /\ spc'  = IF to = 1 THEN next ELSE here
      /\ UNCHANGED <<name, accepted, named, gesture, outcome, win, total, over, clients, up>>
  BY DEF WriteBoth
<1>3. cpc' = cpc /\ have' = have /\ said' = said /\ plays' = plays /\ up' = up
      /\ UNCHANGED <<name, accepted, named, gesture, outcome, win, total, over>>
  BY <1>2 DEF clients
<1>4. CASE sock[to] = "reset"
  BY <1>1, <1>2, <1>3, <1>4 DEF Shapes
<1>5. CASE sock[to] # "reset"
  <2>1. /\ DOMAIN down' = Players /\ \A p \in Players \ {to} : down'[p] = down[p]
        /\ sock[to] = "open" => down'[to] = Append(down[to], line)
        /\ sock[to] # "open" => down'[to] = down[to]
    BY <1>1, <1>2, <1>5 DEF Shapes
  <2>2. /\ sock' \in [Players -> {"open", "closed", "doomed", "reset"}]
        /\ \A p \in Players \ {to} : sock'[p] = sock[p]
        /\ sock[to] = "open" => sock'[to] = "open"
        /\ sock[to] # "open" => sock'[to] # "open"
    BY <1>1, <1>2, <1>5 DEF Shapes
  <2> QED
    BY <1>2, <1>3, <1>5, <2>1, <2>2
<1> QED
  BY <1>4, <1>5

\* Whatever a client was doing, it is found in order when the server dies.
LEMMA FollowsOrderly ==
  ASSUME NEW p \in Players, Follows(p), spc \notin {"lobby", "dead"}, Control, Score
  PROVE  Orderly(p)
<1>1. \/ Waits(p) \/ Hears(p) \/ Told(p) \/ Chooses(p) \/ Chosen(p) \/ Knows(p)
  BY Positions
<1>2. /\ total \in Nat /\ (over = TRUE \/ over = FALSE) /\ InStep(p) /\ Kept(p) /\ Counted(p)
      /\ MaxRounds \in Nat
  BY RpslsAssumption DEF Control, Score, Follows
<1>3. over = TRUE => plays[p] = total + 1
  BY <1>2 DEF Counted
<1>4. cpc[p] = "over" => over = TRUE /\ said[p] = News(p)
  BY <1>1 DEF Waits, Hears, Told, Chooses, Chosen, Knows
<1>5. ASSUME over = FALSE, Hears(p) \/ Told(p) \/ Chooses(p) PROVE plays[p] <= MaxRounds
  <2>1. ~Waits(p) /\ up[p] = << >>
    <3>1. ASSUME NEW x, NEW y, One(p, x) \/ Two(p, x, y) PROVE ~Nothing(p)
      <4>1. <<x>> # << >> /\ <<y>> # << >> /\ <<x, y>> # << >>
        OBVIOUS
      <4> QED
        BY <3>1, <4>1, Zenon DEF One, Two, Nothing
    <3> QED
      BY <1>5, <3>1 DEF Hears, Told, Chooses, Waits
  <2>2. gesture[p] = NoGesture
    BY <1>2, <1>5, <2>1 DEF InStep, Kept, Quiet
  <2>3. Hand(p) = NoGesture
    BY <2>1, <2>2 DEF Hand
  <2> QED
    BY <1>2, <1>5, <2>3 DEF Counted
<1>6. \/ over = TRUE \/ plays[p] <= MaxRounds
      \/ cpc[p] # "play" /\ Nothing(p)
  BY <1>1, <1>2, <1>5 DEF Waits, Chosen, Knows
<1>7. \/ Chooses(p)
      \/ cpc[p] \notin {"away", "naming", "play"} /\ Nothing(p)
      \/ /\ cpc[p] \notin {"away", "naming", "play", "over"} /\ up[p] = << >>
         /\ One(p, News(p)) \/ Two(p, News(p), Instruction(~over))
  BY <1>1 DEF Waits, Hears, Told, Chosen, Knows
<1> QED
  BY <1>3, <1>4, <1>6, <1>7 DEF Orderly

\* How a write() moves the server on, with respect to each client.
LEMMA WriteMovesOn ==
  ASSUME NEW here \in {"greet", "ask", "tell"}, NEW next, NEW p \in Players, Control,
         spc = here, to' = Other(to), spc' = IF to = 1 THEN next ELSE here,
         here \in {"greet", "tell"} => next = "ask",
         here = "ask" => next = (IF over THEN "done" ELSE "gather") /\ answered' = {}
  PROVE  /\ p = to /\ here # "ask" =>
              Quiet(p) /\ Informed(p)' /\ ~Quiet(p)' /\ ~Asked(p)'
         /\ p = to /\ here = "ask" =>
              Informed(p) /\ Asked(p)' /\ ~Quiet(p)' /\ ~Informed(p)'
         /\ p # to => /\ Quiet(p)' => Quiet(p)
                      /\ Informed(p)' => Informed(p)
                      /\ Asked(p)' => Asked(p)
         /\ spc' # "lobby" /\ spc' # "dead"
<1>1. (to = 0 \/ to = 1) /\ (p = 0 \/ p = 1)
  BY DEF Control, Players
<1>2. (to = 0 => to' = 1 /\ spc' = here) /\ (to = 1 => to' = 0 /\ spc' = next)
  BY <1>1 DEF Other
<1>3. CASE here = "ask"
  <2>1. next \in {"done", "gather"} /\ answered' = {}
    BY <1>3
  <2> QED
    BY <1>1, <1>2, <1>3, <2>1 DEF Quiet, Informed, Asked
<1>4. CASE here # "ask"
  <2>1. here \in {"greet", "tell"} /\ next = "ask"
    BY <1>4
  <2> QED
    BY <1>1, <1>2, <1>4, <2>1 DEF Quiet, Informed, Asked
<1> QED
  BY <1>3, <1>4

\* The server writes to a client that waits for this line, or dies.
LEMMA WriteRInv ==
  ASSUME NEW here \in {"greet", "ask", "tell"}, NEW line, NEW next,
         RInv, WriteBoth(here, line, next), answered' \subseteq Players,
         here \in {"greet", "tell"} => next = "ask" /\ line = News(to) /\ answered' = answered,
         here = "ask" => /\ next = (IF over THEN "done" ELSE "gather")
                         /\ line = Instruction(~over) /\ answered' = {}
  PROVE  RInv'
<1>1. Shapes /\ Control /\ Score /\ over \in BOOLEAN /\ to \in Players
  BY DEF RInv, Control
<1>2. /\ spc = here
      /\ UNCHANGED <<name, accepted, named, gesture, outcome, win, total, over>>
      /\ cpc' = cpc /\ have' = have /\ said' = said /\ plays' = plays /\ up' = up
      /\ \A p \in Players \ {to} : sock'[p] = sock[p] /\ down'[p] = down[p]
      /\ sock[to] = "open" => sock'[to] = "open" /\ down'[to] = Append(down[to], line)
      /\ sock[to] # "open" => sock'[to] # "open" /\ down'[to] = down[to]
      /\ DOMAIN down' = Players
      /\ sock' \in [Players -> {"open", "closed", "doomed", "reset"}]
      /\ \/ sock[to] = "reset" /\ spc' = "dead" /\ down' = down /\ to' = to
         \/ sock[to] # "reset" /\ to' = Other(to) /\ spc' = IF to = 1 THEN next ELSE here
  BY <1>1, WriteChanges
<1>3. Shapes' /\ Score'
  BY <1>1, <1>2 DEF Shapes, Score
<1>4. Control'
  <2>1. CASE spc' = "dead" /\ to' = to
    BY <1>1, <1>2, <2>1 DEF Control
  <2>2. CASE to' = Other(to) /\ spc' = IF to = 1 THEN next ELSE here
    <3>1. named = Players
      BY <1>1, <1>2 DEF Control
    <3>2. to' \in Players /\ (spc' # here => to' = 0)
      BY <1>1, <2>2 DEF Players, Other
    <3>3. CASE spc' = here
      BY <1>1, <1>2, <3>1, <3>2, <3>3 DEF Control
    <3>4. CASE spc' # here
      <4>1. spc' = next /\ to' = 0
        BY <2>2, <3>2, <3>4
      <4>2. CASE here = "ask"
        <5>1. (over = TRUE /\ spc' = "done") \/ (over = FALSE /\ spc' = "gather")
          BY <1>1, <4>1, <4>2
        <5> QED
          BY <1>1, <1>2, <3>1, <3>2, <4>1, <5>1 DEF Control
      <4>3. CASE here # "ask"
        BY <1>1, <1>2, <3>1, <3>2, <4>1, <4>3 DEF Control
      <4> QED
        BY <4>2, <4>3
    <3> QED
      BY <3>3, <3>4
  <2> QED
    BY <1>2, <2>1, <2>2
<1>5. ASSUME NEW p \in Players PROVE HasLeft(p)' /\ Stays(p)'
  <2>1. HasLeft(p) /\ Stays(p) /\ spc # "lobby" /\ spc # "dead"
    BY <1>2 DEF RInv
  <2>2. News(p)' = News(p) /\ Word(p, News(p))' = Word(p, News(p)) /\ Hand(p)' = Hand(p)
    BY <1>2 DEF News, Word, Hand
  <2>3. CASE cpc[p] = "left"
    <3>1. sock[p] # "open" /\ Nothing(p)
      BY <2>1, <2>3 DEF HasLeft
    <3>2. sock'[p] # "open" /\ down'[p] = down[p]
      BY <1>2, <3>1
    <3> QED
      BY <1>2, <2>3, <3>1, <3>2 DEF HasLeft, Stays, Nothing
  <2>4. CASE cpc[p] # "left"
    <3>1. Follows(p) /\ sock[p] = "open" /\ sock'[p] = "open"
      BY <1>2, <2>1, <2>4 DEF Stays
    <3>2. CASE spc' = "dead" /\ down' = down
      <4>1. Orderly(p)
        BY <1>1, <2>1, <3>1, FollowsOrderly
      <4>2. Orderly(p)'
        BY <1>2, <2>2, <3>2, <4>1 DEF Orderly, Chooses, Nothing, One, Two
      <4> QED
        BY <1>2, <2>4, <3>1, <3>2, <4>2 DEF HasLeft, Stays
    <3>3. CASE to' = Other(to) /\ spc' = IF to = 1 THEN next ELSE here
      <4>1. /\ p = to /\ here # "ask" =>
                 Quiet(p) /\ Informed(p)' /\ ~Quiet(p)' /\ ~Asked(p)'
            /\ p = to /\ here = "ask" =>
                 Informed(p) /\ Asked(p)' /\ ~Quiet(p)' /\ ~Informed(p)'
            /\ p # to => /\ Quiet(p)' => Quiet(p)
                         /\ Informed(p)' => Informed(p)
                         /\ Asked(p)' => Asked(p)
            /\ spc' # "lobby" /\ spc' # "dead"
        BY <1>1, <1>2, <3>3, WriteMovesOn
      <4>2. InStep(p)'
        <5>1. CASE p # to
          <6>1. down'[p] = down[p]
            BY <1>2, <5>1
          <6>2. (Waits(p) => Waits(p)') /\ (Hears(p) => Hears(p)') /\ (Told(p) => Told(p)')
            BY <1>2, <2>2, <6>1 DEF Waits, Hears, Told, Nothing, One, Two
          <6>3. /\ Chooses(p) => Chooses(p)'
                /\ Chosen(p) => Chosen(p)'
                /\ Knows(p) => Knows(p)'
            BY <1>2, <2>2, <6>1 DEF Chooses, Chosen, Knows, Nothing
          <6> QED
            BY <3>1, <4>1, <5>1, <6>2, <6>3 DEF Follows, InStep
        <5>2. CASE p = to /\ here # "ask"
          <6>1. Waits(p) /\ line = News(p) /\ down'[p] = Append(down[p], line)
            BY <1>2, <3>1, <4>1, <5>2 DEF Follows, InStep
          <6>2. down'[p] = <<News(p)>> /\ have'[p] = << >>
            BY <1>2, <6>1, Written DEF Waits, Nothing
          <6>3. Hears(p)'
            BY <1>2, <2>2, <6>1, <6>2 DEF Waits, Hears, One
          <6> QED
            BY <4>1, <5>2, <6>3 DEF InStep
        <5>3. CASE p = to /\ here = "ask"
          <6>1. Hears(p) /\ line = Instruction(~over) /\ down'[p] = Append(down[p], line)
            BY <1>2, <3>1, <4>1, <5>3 DEF Follows, InStep
          <6>2. \/ have[p] = << >> /\ down'[p] = <<News(p), line>>
                \/ have[p] = <<News(p)>> /\ down'[p] = <<line>>
            BY <6>1, Written DEF Hears, One
          <6>3. Two(p, News(p), Instruction(~over))'
            BY <1>2, <2>2, <6>1, <6>2 DEF Two
          <6>4. Told(p)'
            BY <1>2, <6>1, <6>3 DEF Hears, Told
          <6> QED
            BY <4>1, <5>3, <6>4 DEF InStep
        <5> QED
          BY <5>1, <5>2, <5>3
      <4>3. Kept(p)'
        <5>1. gesture'[p] = gesture[p] /\ over' = over
          BY <1>2
        <5>2. spc' \in {"gather", "decide"} => p \notin answered'
          BY <1>2, <3>3
        <5>3. gesture[p] \in Figures \cup {NoGesture} /\ (over = TRUE \/ gesture[p] = NoGesture)
          BY <1>2, <3>1 DEF Follows, Kept
        <5> QED
          BY <5>1, <5>2, <5>3 DEF Kept
      <4>4. Counted(p)'
        BY <1>2, <2>2, <3>1 DEF Follows, Counted
      <4> QED
        BY <1>2, <2>4, <3>1, <4>1, <4>2, <4>3, <4>4 DEF HasLeft, Stays, Follows
    <3> QED
      BY <1>2, <3>2, <3>3
  <2> QED
    BY <2>3, <2>4
<1> QED
  BY <1>3, <1>4, <1>5 DEF RInv

\* The greeting, the instructions and the results are written when the clients
\* wait for them.
LEMMA WritesRInv ==
  ASSUME RInv, Greet \/ Ask \/ Tell
  PROVE  RInv'
<1>1. Shapes /\ Control /\ over \in BOOLEAN
  BY DEF RInv, Control
<1>2. CASE Greet
  <2>1. spc = "greet"
    BY <1>2 DEF Greet, WriteBoth
  <2>2. News(to) = Greeting
    BY <1>1, <2>1 DEF Control, News
  <2>3. WriteBoth("greet", Greeting, "ask") /\ answered' = answered
    BY <1>2 DEF Greet
  <2> QED
    BY <1>1, <2>2, <2>3, WriteRInv DEF Shapes
<1>3. CASE Ask
  <2>1. WriteBoth("ask", Instruction(~over), IF over THEN "done" ELSE "gather") /\ answered' = {}
    BY <1>3 DEF Ask
  <2> QED
    BY <2>1, WriteRInv
<1>4. CASE Tell
  <2>1. spc = "tell" /\ answered' = answered
    BY <1>4 DEF Tell, WriteBoth
  <2>2. News(to) = IF over THEN Stats(win[to], total) ELSE Result(outcome)
    <3>1. over = TRUE \/ (over = FALSE /\ total # 0)
      BY <1>1, <2>1 DEF Control
    <3> QED
      BY <3>1 DEF News
  <2>3. WriteBoth("tell", News(to), "ask")
    BY <1>4, <2>2 DEF Tell
  <2> QED
    BY <1>1, <2>1, <2>3, WriteRInv DEF Shapes
<1> QED
  BY <1>2, <1>3, <1>4

\* read() in the server: what is read is the gesture for this round, or nothing
\* from a client that has left.
LEMMA GatherRInv ==
  ASSUME NEW p \in Players, RInv, Gather(p)
  PROVE  RInv'
<1>1. /\ spc = "gather" /\ p \notin answered
      /\ UNCHANGED <<name, to, accepted, named, outcome, win, total, over, sock, clients, down>>
      /\ cpc' = cpc /\ have' = have /\ said' = said /\ plays' = plays
      /\ Shapes /\ Control /\ Score
  BY DEF Gather, clients, RInv
<1>2. to = 0 /\ over = FALSE /\ named = Players /\ to' = 0 /\ over' = FALSE
  BY <1>1 DEF Control
<1>3. ASSUME NEW q \in Players PROVE HasLeft(q)'
  BY <1>1 DEF RInv, HasLeft, Nothing
<1>4. Score'
  BY <1>1 DEF Score
<1>5. CASE sock[p] = "reset" /\ spc' = "dead" /\ UNCHANGED <<gesture, up, answered>>
  <2>1. Shapes' /\ Control'
    BY <1>1, <1>2, <1>5 DEF Shapes, Control
  <2>2. ASSUME NEW q \in Players, cpc[q] # "left" PROVE Orderly(q)' /\ sock'[q] = "open"
    <3>1. Follows(q) /\ sock[q] = "open"
      BY <1>1, <2>2 DEF RInv, Stays
    <3>2. Orderly(q)
      BY <1>1, <3>1, FollowsOrderly
    <3>3. News(q)' = News(q) /\ Word(q, News(q))' = Word(q, News(q))
      BY <1>1 DEF News, Word
    <3> QED
      BY <1>1, <1>5, <3>1, <3>2, <3>3 DEF Orderly, Chooses, Nothing, One, Two
  <2> QED
    BY <1>1, <1>3, <1>4, <1>5, <2>1, <2>2 DEF RInv, Stays
<1>6. CASE (ReadGesture(p) \/ ReadNothing(p)) /\ Answered(p)
  <2>1. /\ answered' = answered \cup {p}
        /\ spc' = IF answered' = Players THEN "decide" ELSE "gather"
    BY <1>6 DEF Answered
  <2>2. /\ gesture' = [q \in Players |-> gesture'[q]] /\ DOMAIN up' = Players
        /\ \A q \in Players \ {p} : gesture'[q] = gesture[q] /\ up'[q] = up[q]
    <3>1. gesture = [q \in Players |-> gesture[q]] /\ DOMAIN gesture = Players /\ DOMAIN up = Players
      BY <1>1 DEF Shapes
    <3>2. CASE ReadGesture(p)
      <4>1. /\ gesture' = [gesture EXCEPT ![p] = Head(up[p])]
            /\ up' = [up EXCEPT ![p] = Tail(up[p])]
        BY <3>2 DEF ReadGesture
      <4> QED
        BY <3>1, <4>1
    <3>3. CASE ReadNothing(p)
      BY <3>1, <3>3 DEF ReadNothing
    <3> QED
      BY <1>6, <3>2, <3>3
  <2>3. Shapes' /\ Control'
    BY <1>1, <1>2, <2>1, <2>2 DEF Shapes, Control
  <2>4. ASSUME NEW q \in Players \ {p}, cpc[q] # "left"
        PROVE  Follows(q)' /\ sock'[q] = "open"
    <3>1. Follows(q) /\ sock[q] = "open"
      BY <1>1, <2>4 DEF RInv, Stays
    <3>2. (q \in answered' <=> q \in answered) /\ up'[q] = up[q] /\ gesture'[q] = gesture[q]
      BY <2>1, <2>2, <2>4
    <3>3. News(q)' = News(q) /\ Word(q, News(q))' = Word(q, News(q)) /\ Hand(q)' = Hand(q)
      BY <1>1, <3>2 DEF News, Word, Hand
    <3>4. (Quiet(q)' => Quiet(q)) /\ (Asked(q)' => Asked(q)) /\ ~Informed(q)' /\ spc' # "lobby"
      BY <1>1, <2>1, <3>2 DEF Quiet, Informed, Asked
    <3>5. Waits(q) => Waits(q)'
      BY <1>1, <3>2 DEF Waits, Nothing
    <3>6. /\ Told(q) => Told(q)'
          /\ Chooses(q) => Chooses(q)'
          /\ Chosen(q) => Chosen(q)'
          /\ Knows(q) => Knows(q)'
      BY <1>1, <3>2, <3>3 DEF Told, Chooses, Chosen, Knows, Nothing, Two
    <3>7. InStep(q)'
      BY <3>1, <3>4, <3>5, <3>6 DEF Follows, InStep
    <3>8. Kept(q)'
      BY <1>1, <1>2, <2>1, <3>1, <3>2 DEF Follows, Kept
    <3>9. Counted(q)'
      BY <1>1, <3>1, <3>3 DEF Follows, Counted
    <3> QED
      BY <1>1, <3>1, <3>7, <3>8, <3>9 DEF Follows
  <2>5. ASSUME cpc[p] # "left" PROVE Follows(p)' /\ sock'[p] = "open"
    <3>1. Follows(p) /\ sock[p] = "open" /\ Asked(p)
      BY <1>1, <2>5 DEF RInv, Stays, Asked
    <3>2. ReadGesture(p)
      BY <1>6, <3>1 DEF ReadNothing
    <3>3. Chosen(p)
      BY <3>1, <3>2 DEF Follows, InStep, ReadGesture, Told, Chooses, Knows
    <3>4. PICK g \in Figures : up[p] = <<g>>
      BY <3>3 DEF Chosen
    <3>5. gesture'[p] = g /\ up'[p] = << >>
      <4>1. gesture'[p] = Head(up[p]) /\ up'[p] = Tail(up[p])
        BY <1>1, <3>2 DEF ReadGesture, Shapes
      <4> QED
        BY <3>4, <4>1
    <3>6. Waits(p)' /\ Quiet(p)' /\ ~Asked(p)' /\ ~Informed(p)' /\ spc' # "lobby"
      BY <1>1, <2>1, <3>3, <3>5 DEF Waits, Chosen, Nothing, Quiet, Asked, Informed
    <3>7. InStep(p)'
      BY <3>6 DEF InStep
    <3>8. Kept(p)'
      BY <2>1, <3>5 DEF Kept
    <3>9. Hand(p)' = Hand(p)
      <4>1. Hand(p) = g
        BY <1>2, <3>4 DEF Hand
      <4>2. Hand(p)' = g
        BY <1>2, <3>5 DEF Hand
      <4> QED
        BY <4>1, <4>2
    <3>10. Counted(p)'
      BY <1>1, <3>1, <3>9 DEF Follows, Counted
    <3> QED
      BY <1>1, <3>1, <3>7, <3>8, <3>10 DEF Follows
  <2>6. ASSUME NEW q \in Players PROVE Stays(q)'
    BY <1>1, <2>1, <2>4, <2>5 DEF Stays
  <2> QED
    BY <1>3, <1>4, <2>3, <2>6 DEF RInv
<1> QED
  BY <1>5, <1>6 DEF Gather

\* Where the clients are when the server has an answer from each of them.
LEMMA AtDecision ==
  ASSUME NEW p \in Players, RInv, spc = "decide", cpc[p] # "left"
  PROVE  /\ Follows(p) /\ sock[p] = "open" /\ Waits(p) /\ over = FALSE
         /\ gesture[p] \in Figures /\ Hand(p) = gesture[p] /\ Hand(p) # NoGesture
         /\ plays[p] = total + 1 /\ total <= MaxRounds
<1>1. Follows(p) /\ sock[p] = "open" /\ over = FALSE /\ p \in answered /\ total \in Nat
  BY DEF RInv, Stays, Control, Score
<1>2. Waits(p)
  BY <1>1 DEF Follows, InStep, Quiet
<1>3. gesture[p] \in Figures
  BY <1>1 DEF Follows, Kept
<1>4. Hand(p) = gesture[p]
  BY <1>1, <1>2 DEF Hand, Waits
<1>5. gesture[p] # NoGesture
  BY <1>3 DEF Figures, Gestures, NoGesture
<1>6. plays[p] = total + 1 /\ total <= MaxRounds
  BY <1>1, <1>4, <1>5 DEF Follows, Counted
<1> QED
  BY <1>1, <1>2, <1>3, <1>4, <1>5, <1>6

\* The end of the match changes no score, and both clients wait for it.
LEMMA DecideEndRInv ==
  ASSUME RInv, DecideEnd
  PROVE  RInv'
<1>1. /\ spc = "decide" /\ spc' = "tell" /\ over' = TRUE
      /\ UNCHANGED <<name, to, accepted, named, answered, gesture, outcome, win, total, sock, up, down>>
      /\ cpc' = cpc /\ have' = have /\ said' = said /\ plays' = plays
      /\ Shapes /\ Control /\ Score /\ to = 0
  BY DEF DecideEnd, clients, RInv, Control
<1>2. Shapes' /\ Control' /\ Score'
  BY <1>1 DEF Shapes, Control, Score
<1>3. ASSUME NEW p \in Players PROVE HasLeft(p)'
  BY <1>1 DEF RInv, HasLeft, Nothing
<1>4. ASSUME NEW p \in Players, cpc[p] # "left" PROVE Follows(p)' /\ sock'[p] = "open"
  <2>1. /\ Follows(p) /\ sock[p] = "open" /\ Waits(p) /\ gesture[p] \in Figures
        /\ plays[p] = total + 1 /\ total <= MaxRounds
    BY <1>1, <1>4, AtDecision
  <2>2. Waits(p)' /\ ~Informed(p)' /\ ~Asked(p)' /\ spc' # "lobby"
    BY <1>1, <2>1 DEF Waits, Nothing, Informed, Asked, Players
  <2>3. InStep(p)'
    BY <2>2 DEF InStep
  <2>4. Kept(p)' /\ Counted(p)'
    BY <1>1, <2>1 DEF Kept, Counted
  <2> QED
    BY <1>1, <2>1, <2>3, <2>4 DEF Follows
<1> QED
  BY <1>1, <1>2, <1>3, <1>4 DEF RInv, Stays

\* test() knows three results.
LEMMA TestResults ==
  ASSUME NEW g, NEW h, NEW stack, NEW o \in Test(g, h, stack)
  PROVE  o \in 0..2
<1>1. ASSUME NEW a, NEW b PROVE Compare(a, b) \in {0, 1, 2}
  BY DEF Compare
<1>2. PICK a \in Numbers(g, stack), b \in Numbers(h, stack) : o = Compare(a, b)
  BY DEF Test
<1> QED
  BY <1>1, <1>2

\* A round is counted for the winner, and the gestures are forgotten.
LEMMA DecideRoundRInv ==
  ASSUME RInv, DecideRound
  PROVE  RInv'
<1>1. /\ spc = "decide" /\ spc' = "tell"
      /\ \A p \in Players : gesture[p] # "e"
      /\ outcome' \in Test(gesture[0], gesture[1], Stack)
      /\ win' = [p \in Players |-> IF outcome' = p + 1 THEN win[p] + 1 ELSE win[p]]
      /\ total' = total + 1
      /\ gesture' = [p \in Players |-> NoGesture]
      /\ UNCHANGED <<name, to, accepted, named, answered, over, sock, up, down>>
      /\ cpc' = cpc /\ have' = have /\ said' = said /\ plays' = plays
      /\ Shapes /\ Control /\ Score /\ to = 0 /\ over = FALSE
  BY DEF DecideRound, clients, RInv, Control
<1>2. Score'
  <2>1. outcome' \in 0..2 /\ total \in Nat /\ win[0] \in Nat /\ win[1] \in Nat
    BY <1>1, TestResults DEF Score, Players
  <2>2. win' \in [Players -> Nat]
    BY <1>1 DEF Score
  <2>3. /\ win'[0] = IF outcome' = 1 THEN win[0] + 1 ELSE win[0]
        /\ win'[1] = IF outcome' = 2 THEN win[1] + 1 ELSE win[1]
    BY <1>1 DEF Players
  <2> QED
    BY <1>1, <2>1, <2>2, <2>3 DEF Score
<1>3. Shapes'
  BY <1>1 DEF Shapes
<1>4. Control'
  BY <1>1 DEF Control, Score
<1>5. ASSUME NEW p \in Players PROVE HasLeft(p)'
  BY <1>1 DEF RInv, HasLeft, Nothing
<1>6. ASSUME NEW p \in Players, cpc[p] # "left" PROVE Follows(p)' /\ sock'[p] = "open"
  <2>1. /\ Follows(p) /\ sock[p] = "open" /\ Waits(p) /\ gesture[p] \in Figures
        /\ Hand(p) = gesture[p] /\ plays[p] = total + 1
    BY <1>1, <1>6, AtDecision
  <2>2. Waits(p)' /\ ~Informed(p)' /\ ~Asked(p)' /\ spc' # "lobby"
    BY <1>1, <2>1 DEF Waits, Nothing, Informed, Asked, Players
  <2>3. InStep(p)'
    BY <2>2 DEF InStep
  <2>4. gesture'[p] = NoGesture /\ Hand(p)' = NoGesture
    BY <1>1, <2>1 DEF Hand, Waits
  <2>5. Kept(p)'
    BY <1>1, <2>4 DEF Kept
  <2>6. plays[p] <= MaxRounds
    BY <1>1, <2>1 DEF Follows, Counted
  <2>7. Counted(p)'
    BY <1>1, <2>1, <2>4, <2>6 DEF Counted, Score
  <2> QED
    BY <1>1, <2>1, <2>3, <2>5, <2>7 DEF Follows
<1> QED
  BY <1>1, <1>2, <1>3, <1>4, <1>5, <1>6 DEF RInv, Stays

-----------------------------------------------------------------------------
\* At the start nobody has connected.
LEMMA RInvInit == Init => RInv
<1> SUFFICES ASSUME Init PROVE RInv
  OBVIOUS
<1>1. Shapes /\ Control /\ Score
  <2>1. Shapes
    BY DEF Init, Shapes, Words
  <2>2. Control
    BY DEF Init, Control, Players
  <2>3. Score
    <3>1. win \in [Players -> Nat] /\ win[0] = 0 /\ win[1] = 0
      BY DEF Init, Players
    <3> QED
      BY <3>1 DEF Init, Score
  <2> QED
    BY <2>1, <2>2, <2>3
<1>2. ASSUME NEW p \in Players PROVE HasLeft(p) /\ Stays(p)
  <2>1. /\ cpc[p] = "away" /\ sock[p] = "open" /\ Nothing(p) /\ up[p] = << >> /\ p \notin named
        /\ gesture[p] = NoGesture /\ plays[p] = 0 /\ total = 0 /\ over = FALSE /\ spc = "lobby"
    BY DEF Init, Nothing
  <2>2. InStep(p)
    BY <2>1 DEF InStep, InLobby, Quiet, Informed, Asked
  <2>3. Kept(p) /\ Hand(p) = NoGesture
    BY <2>1 DEF Kept, Hand
  <2>4. Counted(p)
    BY <2>1, <2>3, RpslsAssumption DEF Counted
  <2> QED
    BY <2>1, <2>2, <2>3, <2>4 DEF HasLeft, Stays, Follows
<1> QED
  BY <1>1, <1>2 DEF RInv

\* Every step of the server, of a client or of the network keeps RInv.
LEMMA RInvStep == RInv /\ [Next]_vars => RInv'
<1> SUFFICES ASSUME RInv, [Next]_vars PROVE RInv'
  OBVIOUS
<1>1. CASE Lobby
  BY <1>1, LobbyRInv
<1>2. CASE Greet \/ Ask \/ Tell
  BY <1>2, WritesRInv
<1>3. CASE \E p \in Players : Gather(p)
  BY <1>3, GatherRInv
<1>4. CASE DecideEnd
  BY <1>4, DecideEndRInv
<1>5. CASE DecideRound
  BY <1>5, DecideRoundRInv
<1>6. ASSUME NEW p \in Players, Client(p) \/ Leave(p) \/ ResetArrives(p) PROVE RInv'
  BY <1>6, JoinRInv, SendNameRInv, ListenRInv, EndOfStreamRInv, PlayRInv, LeaveRInv, ResetRInv
     DEF Client
<1>7. CASE UNCHANGED vars
  <2>1. /\ UNCHANGED <<name, server>> /\ UNCHANGED <<sock, cpc, have, said, plays, up, down>>
    BY <1>7 DEF vars, clients
  <2>2. Control' /\ Score' /\ Shapes'
    BY <2>1, ServerKeeps DEF RInv, Shapes, server
  <2>3. ASSUME NEW q \in Players PROVE HasLeft(q)' /\ Stays(q)'
    BY <2>1, Bystander DEF RInv
  <2> QED
    BY <2>2, <2>3 DEF RInv
<1> QED
  BY <1>1, <1>2, <1>3, <1>4, <1>5, <1>6, <1>7 DEF Next, Server

\* RInv is an invariant of the server, its clients and the network.
LEMMA RInvAlways == Spec => []RInv
BY RInvInit, RInvStep, PTL DEF Spec

-----------------------------------------------------------------------------
(***************************************************************************)
(* What holds whoever leaves.                                              *)
(***************************************************************************)

\* A client that has not left is in order, in its lobby, in the match, or with
\* a server that has died.
LEMMA InOrder ==
  ASSUME RInv, NEW p \in Players, cpc[p] # "left"
  PROVE  Orderly(p) \/ (cpc[p] \in {"away", "naming"} /\ Nothing(p))
<1>1. CASE spc = "lobby"
  <2>1. InLobby(p)
    BY <1>1 DEF RInv, Stays, Follows, InStep
  <2> QED
    BY <1>1, <2>1 DEF InLobby, Orderly, RInv, Control
<1>2. CASE spc = "dead"
  BY <1>2 DEF RInv, Stays
<1>3. CASE spc \notin {"lobby", "dead"}
  BY <1>3, FollowsOrderly DEF RInv, Stays
<1> QED
  BY <1>1, <1>2, <1>3

\* Server and clients keep step for any names, any number of rounds and
\* whoever leaves: each client is given one news line and one instruction at a
\* time, in this order, so that check_end() never meets a third line, and
\* nothing is under way to a client that asks its player.
THEOREM RpslsLockstep == Spec => []Lockstep
<1>1. RInv => Lockstep
  <2> SUFFICES ASSUME RInv, NEW p \in Players
               PROVE  LET ahead == have[p] \o down[p]
                      IN  /\ Len(ahead) <= 2
                          /\ Len(ahead) > 0 => ahead[1].kind \in {"greeting", "result", "stats"}
                          /\ Len(ahead) > 1 => ahead[2].kind \in {"go", "stop"}
                          /\ cpc[p] \in {"play", "over"} => ahead = << >>
                          /\ cpc[p] = "play" => up[p] = << >>
    BY DEF Lockstep
  <2> DEFINE ahead == have[p] \o down[p]
  <2>1. over \in BOOLEAN
    BY DEF RInv, Control
  <2>2. News(p).kind \in {"greeting", "result", "stats"}
    BY <2>1 DEF News, Greeting, Result, Stats
  <2>3. Instruction(~over).kind \in {"go", "stop"}
    BY <2>1, InstructionKind
  <2>4. \/ Nothing(p) /\ (cpc[p] = "play" => up[p] = << >>)
        \/ /\ cpc[p] \notin {"play", "over"}
           /\ One(p, News(p)) \/ Two(p, News(p), Instruction(~over))
    <3>1. CASE cpc[p] = "left"
      BY <3>1 DEF RInv, HasLeft
    <3>2. CASE cpc[p] # "left"
      BY <3>2, InOrder DEF Orderly, Chooses
    <3> QED
      BY <3>1, <3>2
  <2>5. ASSUME NEW n PROVE <<n>> \o << >> = <<n>> /\ << >> \o << >> = << >>
    OBVIOUS
  <2>6. \/ ahead = << >> /\ (cpc[p] = "play" => up[p] = << >>)
        \/ cpc[p] \notin {"play", "over"} /\ ahead = <<News(p)>>
        \/ cpc[p] \notin {"play", "over"} /\ ahead = <<News(p), Instruction(~over)>>
    <3>1. CASE Nothing(p) /\ (cpc[p] = "play" => up[p] = << >>)
      BY <2>5, <3>1 DEF Nothing
    <3>2. CASE cpc[p] \notin {"play", "over"} /\ One(p, News(p))
      BY <2>5, <3>2, Joined DEF One
    <3>3. CASE cpc[p] \notin {"play", "over"} /\ Two(p, News(p), Instruction(~over))
      BY <3>3, Joined DEF Two
    <3> QED
      BY <2>4, <3>1, <3>2, <3>3
  <2> HIDE DEF ahead
  <2> QED
    <3>1. CASE ahead = << >> /\ (cpc[p] = "play" => up[p] = << >>)
      BY <3>1 DEF ahead
    <3>2. CASE cpc[p] \notin {"play", "over"} /\ ahead = <<News(p)>>
      <4>1. Len(ahead) = 1 /\ ahead[1] = News(p)
        BY <3>2
      <4> QED
        BY <2>2, <3>2, <4>1 DEF ahead
    <3>3. CASE cpc[p] \notin {"play", "over"} /\ ahead = <<News(p), Instruction(~over)>>
      <4>1. Len(ahead) = 2 /\ ahead[1] = News(p) /\ ahead[2] = Instruction(~over)
        BY <3>3
      <4> QED
        BY <2>2, <2>3, <3>3, <4>1 DEF ahead
    <3> QED
      BY <2>6, <3>1, <3>2, <3>3
<1> QED
  BY <1>1, RInvAlways, PTL

\* A word that is not the truth needs a name with "tie" in it or a name that
\* begins the winner's.
LEMMA WordIsRight ==
  ASSUME NEW p \in Players, outcome \in 0..2, Word(p, Result(outcome)) # RightWord(p)
  PROVE  Confusable(p)
<1>1. p = 0 \/ p = 1
  BY DEF Players
<1> DEFINE Text == IF outcome = 1 THEN 0 ELSE 1
           Prefix(q) == p = q \/ name[p] = name[q] \/ <<name[p], name[q]>> \in Begins
<1>2. Word(p, Result(outcome)) =
        IF outcome = 0 \/ \E q \in Players : name[q] \in TieNames THEN "tie"
        ELSE IF Prefix(Text) THEN "win" ELSE "lose"
  BY DEF Word, Result
<1>3. RightWord(p) = IF outcome = 0 THEN "tie" ELSE IF outcome = p + 1 THEN "win" ELSE "lose"
  BY <1>1 DEF RightWord
<1> SUFFICES ASSUME ~(\E q \in Players : name[q] \in TieNames), outcome # 0
             PROVE  Confusable(p)
  BY <1>2, <1>3 DEF Confusable
<1>4. outcome = 1 \/ outcome = 2
  OBVIOUS
<1>5. p = Text <=> outcome = p + 1
  BY <1>1, <1>4
<1>6. p # Text /\ Prefix(Text)
  BY <1>2, <1>3, <1>5
<1>7. Text = Other(p) /\ Text \in Players
  BY <1>1, <1>4, <1>6 DEF Other, Players
<1>8. name[p] = name[Other(p)] \/ <<name[p], name[Other(p)]>> \in Begins
  BY <1>6, <1>7
<1>9. name[p] = name[Other(p)] => name[0] = name[1]
  BY <1>1 DEF Other
<1> QED
  BY <1>8, <1>9 DEF Confusable

\* The word a client prints after a round is the truth about this round for
\* any names that cannot be confused, whoever leaves.
THEOREM RpslsTellsWinner == Spec => []TellsWinner
<1>1. RInv => TellsWinner
  <2> SUFFICES ASSUME RInv, NEW p \in Players, cpc[p] = "play", total > 0,
                      said[p].kind # RightWord(p)
               PROVE  Confusable(p)
    BY DEF TellsWinner
  <2>1. Chooses(p) /\ total \in Nat /\ outcome \in 0..2
    BY InOrder DEF Orderly, RInv, Score
  <2>2. News(p) = Result(outcome)
    BY <2>1 DEF Chooses, News
  <2>3. said[p].kind = Word(p, Result(outcome))
    <3>1. said[p] = [kind |-> Word(p, Result(outcome))]
      BY <2>1, <2>2 DEF Chooses
    <3> QED
      BY <3>1
  <2> QED
    BY <2>1, <2>3, WordIsRight
<1> QED
  BY <1>1, RInvAlways, PTL

-----------------------------------------------------------------------------
\* Who has not left follows the server, as long as the server is there.
LEMMA WhoStays ==
  ASSUME RInv, NEW p \in Players, cpc[p] # "left" \/ sock[p] = "open", spc # "dead"
  PROVE  /\ sock[p] = "open" /\ cpc[p] # "left" /\ Follows(p) /\ total <= MaxRounds
         /\ plays[p] <= MaxRounds + 1
<1>1. cpc[p] # "left"
  BY DEF RInv, HasLeft
<1>2. sock[p] = "open" /\ Follows(p)
  BY <1>1 DEF RInv, Stays
<1>3. total \in Nat
  BY DEF RInv, Score
<1>4. total <= MaxRounds /\ (plays[p] = total \/ plays[p] = total + 1)
  BY <1>2, <1>3 DEF Follows, Counted
<1> QED
  BY <1>1, <1>2, <1>3, <1>4, RpslsAssumption

\* A player for whom nothing changes has still sent what it had.
LEMMA SentStays ==
  ASSUME NEW q \in Players, Sent(q), total' = total, q \in named' <=> q \in named,
         gesture'[q] = gesture[q], up'[q] = up[q], plays'[q] = plays[q],
         spc' \in {"gather", "decide"} /\ q \in answered'
           => spc \in {"gather", "decide"} /\ q \in answered
  PROVE  Sent(q)'
BY DEF Sent

\* At the start nobody has sent anything.
LEMMA TInvInit == Init => TInv
BY RpslsAssumption DEF Init, TInv, Late, Sent

\* In the lobby names are read, and no gestures.
LEMMA LobbyTInv ==
  ASSUME RInv, TInv, Lobby
  PROVE  TInv'
<1> DEFINE ready == {p \in Players : p < accepted /\ up[p] # << >>}
<1>1. /\ spc' \in {"lobby", "greet"} /\ spc = "lobby" /\ total = 0
      /\ named' = named \cup ready
      /\ up' = [p \in Players |-> IF p \in ready THEN Tail(up[p]) ELSE up[p]]
      /\ UNCHANGED <<to, answered, gesture, total, sock>> /\ plays' = plays
  BY DEF Lobby, ReadNames, clients, RInv, Control
<1>2. Late'
  BY <1>1, RpslsAssumption DEF TInv, Late
<1>3. ASSUME NEW p \in Players PROVE Sent(p)'
  <2>1. Sent(p)
    BY DEF TInv
  <2>2. CASE p \in ready
    <3>1. up[p] # << >> /\ up'[p] = Tail(up[p])
      BY <1>1, <2>2
    <3>2. ASSUME NEW x, up[p] = <<x>> PROVE up'[p] = << >>
      BY <3>1, <3>2
    <3>3. up'[p] = << >>
      BY <2>1, <3>1, <3>2 DEF Sent
    <3> QED
      BY <1>1, <2>1, <3>3 DEF Sent
  <2>3. CASE p \notin ready
    <3>1. up'[p] = up[p] /\ (p \in named' <=> p \in named)
      BY <1>1, <2>3
    <3> QED
      BY <1>1, <2>1, <3>1, SentStays
  <2> QED
    BY <2>2, <2>3
<1> QED
  BY <1>2, <1>3 DEF TInv

\* A write() to a client whose end of stream has come tells the server more.
LEMMA WritesTInv ==
  ASSUME RInv, TInv, Greet \/ Ask \/ Tell
  PROVE  TInv'
<1>1. PICK here, line, next :
        /\ here \in {"greet", "ask", "tell"} /\ WriteBoth(here, line, next)
        /\ next \in {"ask", "gather", "done"} /\ (next # "ask" => answered' = {})
        /\ here = "tell" => next = "ask"
  BY DEF Greet, Ask, Tell
<1>2. Shapes /\ Control /\ (to = 0 \/ to = 1)
  BY DEF RInv, Control, Players
<1>3. /\ spc = here /\ UNCHANGED <<named, gesture, total>> /\ plays' = plays /\ up' = up
      /\ \A p \in Players \ {to} : sock'[p] = sock[p]
  BY <1>1, <1>2, WriteChanges
<1>4. \/ spc' = "dead"
      \/ /\ sock' = IF sock[to] = "closed" THEN [sock EXCEPT ![to] = "doomed"] ELSE sock
         /\ to' = Other(to) /\ spc' = IF to = 1 THEN next ELSE here
  BY <1>1 DEF WriteBoth
<1>5. spc' \in {"gather", "decide"} => answered' = {}
  BY <1>1, <1>4
<1>6. ASSUME NEW p \in Players, sock'[p] = "closed", spc' # "dead"
      PROVE  total <= MaxRounds \/ (spc' = "tell" /\ to' <= p)
  <2>1. p # to /\ sock[p] = "closed"
    <3>1. sock'[to] # "closed"
      BY <1>2, <1>4, <1>6 DEF Shapes, Players
    <3> QED
      BY <1>3, <1>6, <3>1
  <2>2. total <= MaxRounds \/ (spc = "tell" /\ to <= p)
    BY <1>1, <1>3, <2>1 DEF TInv, Late
  <2>3. CASE spc = "tell" /\ to <= p
    <3>1. p = 1 /\ to = 0
      BY <1>2, <2>1, <2>3 DEF Players
    <3> QED
      BY <1>3, <1>4, <1>6, <2>3, <3>1 DEF Other
  <2> QED
    BY <2>2, <2>3
<1>7. Late'
  BY <1>3, <1>5, <1>6 DEF TInv, Late
<1>8. ASSUME NEW p \in Players PROVE Sent(p)'
  BY <1>3, <1>5, SentStays DEF TInv
<1> QED
  BY <1>7, <1>8 DEF TInv

\* A gesture that is read late is one of a round that can still be counted.
LEMMA GatherTInv ==
  ASSUME RInv, TInv, NEW p \in Players, Gather(p)
  PROVE  TInv'
<1>1. /\ spc = "gather" /\ p \notin answered /\ named = Players
      /\ UNCHANGED <<to, named, total, sock>> /\ plays' = plays /\ Shapes
      /\ total \in Nat
  BY DEF Gather, clients, RInv, Control, Score
<1>2. CASE sock[p] = "reset" /\ spc' = "dead" /\ UNCHANGED <<gesture, up, answered>>
  <2>1. Late'
    BY <1>1, <1>2 DEF TInv, Late
  <2>2. ASSUME NEW q \in Players PROVE Sent(q)'
    BY <1>1, <1>2, SentStays DEF TInv
  <2> QED
    BY <2>1, <2>2 DEF TInv
<1>3. CASE (ReadGesture(p) \/ ReadNothing(p)) /\ Answered(p)
  <2>1. answered' = answered \cup {p} /\ spc' \in {"gather", "decide"}
    BY <1>3 DEF Answered
  <2>2. Sent(p)
    BY DEF TInv
  <2>3. total < MaxTotal
    <3>1. total <= MaxRounds => total < MaxTotal
      BY <1>1, RpslsAssumption
    <3>2. CASE ReadGesture(p)
      BY <1>1, <2>2, <3>1, <3>2 DEF ReadGesture, Sent
    <3>3. CASE ReadNothing(p)
      BY <1>1, <3>1, <3>3 DEF ReadNothing, TInv, Late
    <3> QED
      BY <1>3, <3>2, <3>3
  <2>4. Late'
    BY <1>1, <2>1, <2>3 DEF TInv, Late
  <2>5. ASSUME NEW q \in Players, q # p PROVE Sent(q)'
    <3>1. gesture'[q] = gesture[q] /\ up'[q] = up[q]
      BY <1>1, <1>3, <2>5 DEF ReadGesture, ReadNothing, Shapes
    <3> QED
      BY <1>1, <2>1, <2>5, <3>1, SentStays DEF TInv
  <2>6. Sent(p)'
    <3>1. CASE ReadGesture(p)
      <4>1. PICK g \in Figures : up[p] = <<g>>
        BY <1>1, <2>2, <3>1 DEF ReadGesture, Sent
      <4>2. gesture'[p] = Head(up[p]) /\ up'[p] = Tail(up[p])
        BY <1>1, <3>1 DEF ReadGesture, Shapes
      <4>3. gesture'[p] = g /\ up'[p] = << >>
        BY <4>1, <4>2
      <4> QED
        BY <1>1, <2>2, <4>3 DEF Sent
    <3>2. CASE ReadNothing(p)
      BY <1>1, <2>2, <3>2 DEF ReadNothing, Sent
    <3> QED
      BY <1>3, <3>1, <3>2
  <2> QED
    BY <2>4, <2>5, <2>6 DEF TInv
<1> QED
  BY <1>2, <1>3 DEF Gather

\* When all have answered nothing more is under way to the server.
LEMMA DecideTInv ==
  ASSUME RInv, TInv, DecideEnd \/ DecideRound
  PROVE  TInv'
<1>1. /\ spc = "decide" /\ spc' = "tell" /\ answered = Players /\ to = 0 /\ named = Players
      /\ UNCHANGED <<to, named, answered, sock, up>> /\ plays' = plays /\ total \in Nat
      /\ (total' = total \/ total' = total + 1)
  BY DEF DecideEnd, DecideRound, clients, RInv, Control, Score
<1>2. total < MaxTotal /\ 0 \in Players
  BY <1>1 DEF TInv, Late, Players
<1>3. Late'
  BY <1>1, <1>2, RpslsAssumption DEF TInv, Late, Players
<1>4. ASSUME NEW p \in Players PROVE Sent(p)'
  <2>1. up[p] = << >> /\ gesture[p] \in Figures \cup {NoGesture} /\ plays[p] <= MaxRounds + 1
    BY <1>1 DEF TInv, Sent
  <2>2. gesture'[p] \in Figures \cup {NoGesture}
    BY <2>1 DEF DecideEnd, DecideRound
  <2> QED
    BY <1>1, <2>1, <2>2 DEF Sent
<1> QED
  BY <1>3, <1>4 DEF TInv

\* Clients send when it is their turn, and leave whenever they like.
LEMMA ClientTInv ==
  ASSUME RInv, TInv, NEW p \in Players, Client(p) \/ Leave(p) \/ ResetArrives(p)
  PROVE  TInv'
<1>1. UNCHANGED <<name, server>> /\ Shapes /\ Control
  BY DEF Client, Join, SendName, Listen, EndOfStream, Play, Leave, ResetArrives, ServerStays,
         RInv
<1>2. UNCHANGED <<spc, to, named, answered, gesture, total, over>>
  BY <1>1 DEF server
<1>3. ASSUME NEW q \in Players, sock'[q] = "closed"
      PROVE  sock[q] = "closed" \/ total <= MaxRounds
  <2>1. CASE Client(p)
    BY <1>3, <2>1 DEF Client, Join, SendName, Listen, EndOfStream, Play
  <2>2. CASE ResetArrives(p)
    BY <1>1, <1>3, <2>2 DEF ResetArrives, Shapes
  <2>3. CASE Leave(p)
    <3>1. CASE q = p
      BY <2>3, WhoStays DEF Leave, Gone
    <3>2. CASE q # p
      BY <1>1, <1>3, <2>3, <3>2 DEF Leave, Shapes
    <3> QED
      BY <3>1, <3>2
  <2> QED
    BY <2>1, <2>2, <2>3
<1>4. Late'
  BY <1>2, <1>3 DEF TInv, Late
<1>5. ASSUME NEW q \in Players, up'[q] = up[q], plays'[q] = plays[q] PROVE Sent(q)'
  BY <1>2, <1>5, SentStays DEF TInv
<1>6. CASE UNCHANGED <<up, plays>>
  BY <1>4, <1>5, <1>6 DEF TInv
<1>7. CASE SendName(p)
  <2>1. cpc[p] = "naming" /\ up' = [up EXCEPT ![p] = Append(@, Hello)] /\ plays' = plays
    BY <1>7 DEF SendName
  <2>2. spc # "dead"
    BY <2>1 DEF RInv, Stays, Orderly, Chooses
  <2>3. Follows(p)
    BY <2>1, <2>2, WhoStays
  <2>4. spc = "lobby"
    BY <1>1, <2>1, <2>2, <2>3, Positions DEF Waits, Hears, Told, Chooses, Chosen, Knows
  <2>5. up[p] = << >> /\ p \notin named
    BY <2>1, <2>3, <2>4 DEF Follows, InStep, InLobby
  <2>6. up'[p] = <<Hello>> /\ \A q \in Players \ {p} : up'[q] = up[q]
    <3>1. up'[p] = Append(up[p], Hello)
      BY <1>1, <2>1 DEF Shapes
    <3> QED
      BY <1>1, <2>1, <2>5, <3>1, Written DEF Shapes
  <2>7. Sent(p)'
    BY <1>2, <2>1, <2>5, <2>6 DEF TInv, Sent
  <2> QED
    BY <1>4, <1>5, <2>1, <2>6, <2>7 DEF TInv
<1>8. CASE Play(p)
  <2>1. /\ cpc[p] = "play" /\ plays[p] \in Nat /\ plays'[p] = plays[p] + 1
        /\ \A q \in Players \ {p} : up'[q] = up[q] /\ plays'[q] = plays[q]
    BY <1>1, <1>8 DEF Play, Shapes
  <2>2. CASE spc = "dead"
    <3>1. Chooses(p) /\ plays[p] <= MaxRounds
      BY <2>1, <2>2 DEF RInv, Stays, Orderly, Chooses
    <3>2. up' = up /\ plays'[p] <= MaxRounds + 1
      BY <1>8, <2>1, <2>2, <3>1, RpslsAssumption DEF Play, Gone
    <3>3. Sent(p)'
      BY <1>2, <3>2 DEF TInv, Sent
    <3> QED
      BY <1>4, <1>5, <2>1, <3>3 DEF TInv
  <2>3. CASE spc # "dead"
    <3>1. /\ Asked(p) /\ ~Quiet(p) /\ ~Gone /\ up[p] = << >> /\ plays[p] = total
          /\ total <= MaxRounds
      BY <2>1, <2>3, AtPlay, WhoStays
    <3>2. PICK g \in Figures : up' = [up EXCEPT ![p] = Append(@, g)]
      BY <1>8, <3>1 DEF Play
    <3>3. up'[p] = <<g>>
      <4>1. up'[p] = Append(up[p], g)
        BY <1>1, <3>2 DEF Shapes
      <4> QED
        BY <3>1, <4>1, Written
    <3>4. spc \in {"gather", "decide"} => p \notin answered
      BY <3>1 DEF Quiet
    <3>5. plays'[p] <= MaxRounds + 1
      BY <2>1, <3>1, RpslsAssumption
    <3>6. Sent(p)'
      BY <1>2, <3>1, <3>3, <3>4, <3>5 DEF TInv, Sent
    <3> QED
      BY <1>4, <1>5, <2>1, <3>6 DEF TInv
  <2> QED
    BY <2>2, <2>3
<1> QED
  BY <1>6, <1>7, <1>8 DEF Client, Join, Listen, EndOfStream, Leave, ResetArrives, clients

\* Every step keeps TInv, whoever leaves.
LEMMA TInvAlways == Spec => [](RInv /\ TInv)
<1>1. Init => RInv /\ TInv
  BY RInvInit, TInvInit
<1>2. (RInv /\ TInv) /\ [Next]_vars => (RInv /\ TInv)'
  <2> SUFFICES ASSUME RInv, TInv, [Next]_vars PROVE TInv'
    BY RInvStep
  <2>1. CASE UNCHANGED vars
    <3>1. UNCHANGED <<spc, to, named, answered, gesture, total, over, sock, up, plays>>
      BY <2>1 DEF vars, server, clients
    <3>2. Late'
      BY <3>1 DEF TInv, Late
    <3>3. \A q \in Players : Sent(q)'
      BY <3>1, SentStays DEF TInv
    <3> QED
      BY <3>2, <3>3 DEF TInv
  <2>2. CASE Server
    BY <2>2, LobbyTInv, WritesTInv, GatherTInv, DecideTInv DEF Server
  <2> QED
    BY <2>1, <2>2, ClientTInv DEF Next
<1> QED
  BY <1>1, <1>2, PTL DEF Spec

\* The scores and the lines that hold them are within the bound.
LEMMA Bounds ==
  ASSUME RInv, TInv, NEW p \in Players
  PROVE  /\ total \in 0..MaxTotal /\ win[p] \in 0..MaxTotal
         /\ News(p) \in Lines /\ Instruction(~over) \in Lines
<1>1. /\ total \in Nat /\ win[0] \in Nat /\ win[1] \in Nat /\ win[0] + win[1] <= total
      /\ over \in BOOLEAN /\ outcome \in 0..2 /\ total <= MaxTotal
  BY DEF RInv, Score, Control, Players, TInv, Late
<1>2. total \in 0..MaxTotal
  BY <1>1, RpslsAssumption
<1>3. win[p] \in 0..MaxTotal
  <2>1. win[p] \in Nat /\ win[p] <= total
    BY <1>1 DEF Players
  <2> QED
    BY <1>2, <2>1, RpslsAssumption
<1> DEFINE Fixed  == {Greeting, Instruction(TRUE), Instruction(FALSE)}
           Rounds == {Result(o) : o \in 0..2}
           Ends   == {Stats(w, t) : w \in 0..MaxTotal, t \in 0..MaxTotal}
<1>4. Lines = Fixed \cup Rounds \cup Ends
  BY DEF Lines
<1>5. News(p) \in Lines
  <2>1. CASE over = TRUE
    <3>1. News(p) = Stats(win[p], total)
      BY <2>1 DEF News
    <3>2. Stats(win[p], total) \in Ends
      BY <1>2, <1>3
    <3> HIDE DEF Fixed, Rounds, Ends
    <3> QED
      BY <1>4, <3>1, <3>2
  <2>2. CASE over = FALSE
    <3>1. News(p) = Greeting \/ News(p) = Result(outcome)
      BY <2>2 DEF News
    <3>2. Result(outcome) \in Rounds /\ Greeting \in Fixed
      BY <1>1
    <3> HIDE DEF Fixed, Rounds, Ends
    <3> QED
      BY <1>4, <3>1, <3>2
  <2> QED
    BY <1>1, <2>1, <2>2
<1>6. Instruction(~over) \in Lines
  <2>1. CASE over = TRUE
    BY <2>1 DEF Instruction, Lines
  <2>2. CASE over = FALSE
    BY <2>2 DEF Instruction, Lines
  <2> QED
    BY <1>1, <2>1, <2>2
<1> QED
  BY <1>2, <1>3, <1>5, <1>6

\* Every variable keeps its type, whoever leaves: in particular no client ever
\* has two lines of its own under way, the second of which the server's read()
\* of a gesture would cut.
THEOREM RpslsTypeOK == Spec => []TypeOK
<1>1. RInv /\ TInv => TypeOK
  <2> SUFFICES ASSUME RInv, TInv PROVE TypeOK
    OBVIOUS
  <2>1. Shapes /\ Control /\ Score /\ \A p \in Players : Sent(p)
    BY DEF RInv, TInv
  <2>2. gesture \in [Players -> Gestures \cup {"e", NoGesture}]
    <3>1. \A p \in Players : gesture[p] \in Figures \cup {NoGesture}
      BY <2>1 DEF Sent
    <3> QED
      BY <2>1, <3>1 DEF Shapes, Figures
  <2>3. win \in [Players -> 0..MaxTotal] /\ total \in 0..MaxTotal
    <3>1. \A p \in Players : win[p] \in 0..MaxTotal
      BY Bounds
    <3>2. total \in 0..MaxTotal
      BY Bounds DEF Players
    <3> QED
      BY <2>1, <3>1, <3>2 DEF Score
  <2>4. plays \in [Players -> 0..(MaxRounds + 1)]
    <3>1. \A p \in Players : plays[p] \in 0..(MaxRounds + 1)
      BY <2>1, RpslsAssumption DEF Shapes, Sent
    <3> QED
      BY <2>1, <3>1 DEF Shapes
  <2>5. ASSUME NEW p \in Players
        PROVE  /\ Len(have[p]) <= 1 /\ \A i \in DOMAIN have[p] : have[p][i] \in Lines
               /\ \A i \in DOMAIN down[p] : down[p][i] \in Lines
               /\ Len(up[p]) <= 1
               /\ \A i \in DOMAIN up[p] : up[p][i] \in Gestures \cup {"e", Hello}
               /\ said[p] \in Words \cup Lines
    <3> DEFINE n == News(p)
               i == Instruction(~over)
    <3>1. n \in Lines /\ i \in Lines
      BY Bounds
    <3>2. Nothing(p) \/ One(p, n) \/ Two(p, n, i)
      <4>1. CASE cpc[p] = "left"
        BY <4>1 DEF RInv, HasLeft
      <4>2. CASE cpc[p] # "left"
        BY <4>2, InOrder DEF Orderly, Chooses
      <4> QED
        BY <4>1, <4>2
    <3>3. cpc[p] = "over" => said[p] = n
      BY InOrder DEF Orderly
    <3> HIDE DEF n, i
    <3>4. have[p] = << >> \/ have[p] = <<n>>
      BY <3>2 DEF Nothing, One, Two
    <3>5. down[p] = << >> \/ down[p] = <<n>> \/ down[p] = <<i>> \/ down[p] = <<n, i>>
      BY <3>2 DEF Nothing, One, Two
    <3>6. Len(have[p]) <= 1 /\ \A j \in DOMAIN have[p] : have[p][j] \in Lines
      <4>1. CASE have[p] = << >>
        BY <4>1
      <4>2. CASE have[p] = <<n>>
        BY <3>1, <4>2
      <4> QED
        BY <3>4, <4>1, <4>2
    <3>7. \A j \in DOMAIN down[p] : down[p][j] \in Lines
      BY <3>1, <3>5
    <3>8. Len(up[p]) <= 1 /\ \A j \in DOMAIN up[p] : up[p][j] \in Gestures \cup {"e", Hello}
      <4>1. CASE up[p] = << >>
        BY <4>1
      <4>2. ASSUME NEW x \in Figures \cup {Hello}, up[p] = <<x>>
            PROVE  Len(up[p]) <= 1 /\ \A j \in DOMAIN up[p] : up[p][j] \in Gestures \cup {"e", Hello}
        <5>1. x \in Gestures \cup {"e", Hello}
          BY DEF Figures
        <5> QED
          BY <4>2, <5>1
      <4>3. up[p] = << >> \/ \E x \in Figures \cup {Hello} : up[p] = <<x>>
        BY <2>1 DEF Sent
      <4> QED
        BY <4>1, <4>2, <4>3
    <3>9. said[p] \in Words \cup Lines
      BY <2>1, <3>1, <3>3 DEF Shapes
    <3> QED
      BY <3>6, <3>7, <3>8, <3>9
  <2> QED
    BY <2>1, <2>2, <2>3, <2>4, <2>5 DEF TypeOK, Shapes, Control, Score
<1> QED
  BY <1>1, TInvAlways, PTL

\* A player who reads a score at the end reads its own, of exactly the rounds
\* for which everybody who has not left has sent a gesture.
THEOREM RpslsStatsTrue == Spec => []StatsTrue
<1>1. RInv => StatsTrue
  <2> SUFFICES ASSUME RInv PROVE StatsTrue
    OBVIOUS
  <2>1. win[0] + win[1] <= total
    BY DEF RInv, Score
  <2>2. ASSUME NEW p \in Players, cpc[p] = "over", NEW q \in Players, cpc[q] # "left"
        PROVE  said[p] = Stats(win[p], total) /\ plays[q] = total + 1
    <3>1. over = TRUE /\ said[p] = Stats(win[p], total)
      <4>1. over = TRUE /\ said[p] = News(p)
        BY <2>2, InOrder DEF Orderly
      <4> QED
        BY <4>1 DEF News
    <3>2. Orderly(q)
      <4>1. spc # "lobby"
        BY <3>1 DEF RInv, Control
      <4>2. spc = "dead" => Orderly(q)
        BY <2>2 DEF RInv, Stays
      <4>3. spc # "dead" => Orderly(q)
        BY <2>2, <4>1, FollowsOrderly DEF RInv, Stays
      <4> QED
        BY <4>2, <4>3
    <3> QED
      BY <3>1, <3>2 DEF Orderly
  <2> QED
    BY <2>1, <2>2 DEF StatsTrue
<1> QED
  BY <1>1, RInvAlways, PTL

-----------------------------------------------------------------------------
(***************************************************************************)
(* What holds as long as nobody leaves.                                    *)
(***************************************************************************)

\* Nobody has left, and neither the server nor a client has failed.
AllWell ==
  /\ spc # "dead"
  /\ \A p \in Players : cpc[p] \in {"away", "naming", "listen", "play", "over"}

\* As long as nobody leaves, nothing else fails.
LEMMA AllWellStep ==
  ASSUME RInv, AllWell, [Next]_vars, ~SomebodyLeft'
  PROVE  AllWell'
<1>1. Shapes /\ Control /\ \A p \in Players : sock[p] = "open" /\ Follows(p)
  BY DEF RInv, Stays, AllWell
<1>2. to \in Players
  BY <1>1 DEF Control
<1>3. CASE Lobby
  BY <1>3 DEF Lobby, clients, AllWell
<1>4. CASE Greet \/ Ask \/ Tell
  <2>1. PICK here \in {"greet", "ask", "tell"} : \E line, next :
          WriteBoth(here, line, next) /\ next # "dead"
    <3>1. CASE Greet
      BY <3>1 DEF Greet
    <3>2. CASE Tell
      BY <3>2 DEF Tell
    <3>3. CASE Ask
      <4>1. (IF over THEN "done" ELSE "gather") # "dead"
        OBVIOUS
      <4> QED
        BY <3>3, <4>1 DEF Ask
    <3> QED
      BY <1>4, <3>1, <3>2, <3>3
  <2>2. PICK line, next : WriteBoth(here, line, next) /\ next # "dead"
    BY <2>1
  <2>3. cpc' = cpc /\ sock[to] # "reset" /\ spc' = IF to = 1 THEN next ELSE here
    BY <1>1, <1>2, <2>2, WriteChanges
  <2> QED
    BY <2>1, <2>2, <2>3 DEF AllWell
<1>5. CASE \E p \in Players : Gather(p)
  <2>1. PICK p \in Players : Gather(p)
    BY <1>5
  <2>2. cpc' = cpc
    BY <2>1 DEF Gather, clients
  <2>3. Answered(p)
    BY <1>1, <2>1 DEF Gather
  <2> QED
    BY <2>2, <2>3 DEF AllWell, Answered
<1>6. CASE DecideEnd \/ DecideRound
  BY <1>6 DEF DecideEnd, DecideRound, clients, AllWell
<1>7. ASSUME NEW p \in Players, Client(p) \/ Leave(p) \/ ResetArrives(p) PROVE AllWell'
  <2>1. CASE Join(p)
    BY <1>1, <2>1 DEF Join, ServerStays, server, AllWell, Shapes
  <2>2. CASE SendName(p)
    BY <1>1, <2>2 DEF SendName, ServerStays, server, AllWell, Shapes
  <2>3. CASE Listen(p)
    <3>1. \/ cpc' = cpc
          \/ cpc' = [cpc EXCEPT ![p] = "over"]
          \/ cpc' = [cpc EXCEPT ![p] = "play"]
      BY <2>3 DEF Listen
    <3>2. spc' = spc
      BY <2>3 DEF Listen, ServerStays, server
    <3> QED
      BY <1>1, <3>1, <3>2 DEF AllWell, Shapes
  <2>4. CASE EndOfStream(p)
    <3>1. spc = "done" /\ over = TRUE /\ cpc[p] = "listen" /\ (Reset(p) \/ down[p] = << >>)
      BY <1>1, <2>4 DEF EndOfStream, Gone, AllWell, Control
    <3>2. Asked(p)
      BY <3>1 DEF Asked
    <3>3. Told(p)
      BY <1>1, <3>1, <3>2 DEF Follows, InStep, Chooses, Chosen, Knows
    <3> QED
      BY <3>1, <3>3 DEF Told, Two, Reset
  <2>5. CASE Play(p)
    <3>1. cpc[p] = "play" /\ spc # "dead" /\ spc' = spc
      BY <2>5 DEF Play, AllWell, ServerStays, server
    <3>2. ~Reset(p)
      BY <3>1, AtPlay DEF Reset
    <3>3. cpc' = [cpc EXCEPT ![p] = "listen"]
      BY <2>5, <3>2 DEF Play
    <3> QED
      BY <1>1, <3>1, <3>3 DEF AllWell, Shapes
  <2>6. ~Leave(p)
    <3>1. SUFFICES ASSUME Leave(p) PROVE cpc'[p] = "left"
      BY DEF SomebodyLeft
    <3> QED
      BY <1>1, <3>1 DEF Leave, Shapes
  <2>7. CASE ResetArrives(p)
    BY <1>1, <2>7 DEF ResetArrives
  <2> QED
    BY <1>7, <2>1, <2>2, <2>3, <2>4, <2>5, <2>6, <2>7 DEF Client
<1>8. CASE UNCHANGED vars
  BY <1>8 DEF vars, server, clients, AllWell
<1> QED
  BY <1>3, <1>4, <1>5, <1>6, <1>7, <1>8 DEF Next, Server

\* Nobody comes back.
LEMMA LeftForGood ==
  ASSUME RInv, SomebodyLeft, [Next]_vars
  PROVE  SomebodyLeft'
<1>1. PICK q \in Players : cpc[q] = "left"
  BY DEF SomebodyLeft
<1>2. cpc'[q] = "left"
  <2>1. DOMAIN cpc = Players
    BY DEF RInv, Shapes
  <2>2. ASSUME NEW p \in Players, Client(p) \/ Leave(p) \/ ResetArrives(p)
        PROVE  cpc'[q] = "left"
    <3>1. cpc' = cpc \/ \E there : cpc[p] # "left" /\ cpc' = [cpc EXCEPT ![p] = there]
      BY <2>2 DEF Client, Join, SendName, Listen, EndOfStream, Play, Leave, ResetArrives, clients
    <3> QED
      BY <1>1, <2>1, <3>1
  <2>3. CASE Server
    <3>1. cpc' = cpc
      BY <2>3 DEF Server, Lobby, Greet, Ask, Gather, DecideEnd, DecideRound, Tell, WriteBoth,
                  clients
    <3> QED
      BY <1>1, <3>1
  <2>4. CASE UNCHANGED vars
    BY <1>1, <2>4 DEF vars, clients
  <2> QED
    BY <2>2, <2>3, <2>4 DEF Next
<1> QED
  BY <1>2 DEF SomebodyLeft

\* So this stays until a player leaves, with RInv.
LEMMA AllWellAlways == Spec => [](RInv /\ (SomebodyLeft \/ AllWell))
<1>1. Init => RInv /\ AllWell
  <2>1. Init => AllWell
    BY DEF Init, AllWell
  <2> QED
    BY <2>1, RInvInit
<1>2. RInv /\ (SomebodyLeft \/ AllWell) /\ [Next]_vars
        => (RInv /\ (SomebodyLeft \/ AllWell))'
  BY RInvStep, AllWellStep, LeftForGood
<1> QED
  BY <1>1, <1>2, PTL DEF Spec

\* Where each client is, and what is under way from it.
LEMMA Whereabouts ==
  ASSUME RInv, AllWell, NEW p \in Players
  PROVE  \/ Nothing(p) /\ (up[p] = << >> \/ \E x \in Figures \cup {Hello} : up[p] = <<x>>)
            /\ (cpc[p] = "over" => Knows(p))
         \/ /\ up[p] = << >> /\ cpc[p] # "over"
            /\ One(p, News(p)) \/ Two(p, News(p), Instruction(~over))
<1>1. Follows(p) /\ Control
  BY DEF RInv, AllWell, Stays
<1>2. CASE spc = "lobby"
  BY <1>1, <1>2 DEF Follows, InStep, InLobby
<1>3. CASE spc # "lobby"
  <2>1. Waits(p) \/ Hears(p) \/ Told(p) \/ Chooses(p) \/ Chosen(p) \/ Knows(p)
    BY <1>1, <1>3, Positions DEF AllWell
  <2> QED
    BY <2>1 DEF Waits, Hears, Told, Chooses, Chosen, Knows
<1> QED
  BY <1>2, <1>3

-----------------------------------------------------------------------------
(***************************************************************************)
(* Until a player leaves, the match of module Match is played.             *)
(***************************************************************************)

\* The choices made for this round, and who knows how the last one ended.
Hands  == [p \in Players |-> Hand(p)]
Knowing == {p \in Players : cpc[p] \in {"play", "over"} \/ Hand(p) # NoGesture}

\* Whoever is well has not left, before a step and after it.
LEMMA WellIsHere ==
  ASSUME AllWell, AllWell'
  PROVE  SomebodyLeft = FALSE /\ SomebodyLeft' = FALSE
BY DEF AllWell, SomebodyLeft

\* A step that changes none of these is none of the match.
LEMMA Stutters ==
  ASSUME \A p \in Players : Hand(p)' = Hand(p),
         \A p \in Players : cpc'[p] \in {"play", "over"} <=> cpc[p] \in {"play", "over"},
         UNCHANGED <<win, total, over>>, AllWell, AllWell'
  PROVE  UNCHANGED Abstract!vars
<1>1. Hands' = Hands
  BY DEF Hands
<1>2. Knowing' = Knowing
  BY DEF Knowing
<1>3. SomebodyLeft' = SomebodyLeft
  BY WellIsHere
<1> QED
  BY <1>1, <1>2, <1>3 DEF Abstract!vars, Hands, Knowing

\* Nobody has chosen, nor can, while the server gathers names.
LEMMA LobbyStutters ==
  ASSUME RInv, AllWell, AllWell', Lobby
  PROVE  UNCHANGED Abstract!vars
<1>1. RInv' /\ cpc' = cpc /\ UNCHANGED <<win, total, over, gesture>> /\ spc = "lobby"
      /\ spc' \in {"lobby", "greet"}
  BY LobbyRInv DEF Lobby, clients
<1>2. ASSUME NEW p \in Players PROVE Hand(p) = NoGesture /\ Hand(p)' = NoGesture
  <2>1. Follows(p) /\ over = FALSE
    BY <1>1 DEF RInv, AllWell, Stays, Control
  <2>2. InLobby(p) /\ gesture[p] = NoGesture
    BY <1>1, <2>1 DEF Follows, InStep, Kept
  <2>3. Follows(p)' /\ over' = FALSE /\ to' \in Players
    BY <1>1 DEF RInv, AllWell, Stays, Control
  <2>4. InLobby(p)' \/ Waits(p)' \/ Hears(p)'
    <3>1. CASE spc' = "lobby"
      BY <2>3, <3>1 DEF Follows, InStep
    <3>2. CASE spc' = "greet"
      <4>1. Quiet(p)' \/ Informed(p)'
        BY <2>3, <3>2 DEF Quiet, Informed, Players
      <4> QED
        BY <2>3, <4>1 DEF Follows, InStep
    <3> QED
      BY <1>1, <3>1, <3>2
  <2>5. gesture'[p] = NoGesture
    BY <1>1, <2>2
  <2> QED
    BY <2>1, <2>2, <2>3, <2>4, <2>5 DEF InLobby, Waits, Hears, Hand
<1> QED
  BY <1>1, <1>2, Stutters


\* A player's hand depends only on its last line to the server, and on what the
\* server has read of it.
LEMMA HandStays ==
  ASSUME NEW q \in Players, over' = over, named' = named, up'[q] = up[q],
         gesture'[q] = gesture[q]
  PROVE  Hand(q)' = Hand(q)
BY DEF Hand

\* What the server writes changes neither hands nor score.
LEMMA WritesStutter ==
  ASSUME RInv, AllWell, AllWell', Greet \/ Ask \/ Tell
  PROVE  UNCHANGED Abstract!vars
<1>1. Shapes /\ Control
  BY DEF RInv
<1>2. PICK here, line, next : WriteBoth(here, line, next)
  BY DEF Greet, Ask, Tell
<1>3. UNCHANGED <<named, gesture, win, total, over>> /\ cpc' = cpc /\ up' = up
  BY <1>1, <1>2, WriteChanges
<1>4. \A q \in Players : Hand(q)' = Hand(q)
  BY <1>3, HandStays
<1> QED
  BY <1>3, <1>4, Stutters

\* The gesture that the server reads was the player's hand before it was read.
LEMMA GatherStutters ==
  ASSUME RInv, AllWell, AllWell', NEW p \in Players, Gather(p)
  PROVE  UNCHANGED Abstract!vars
<1>1. /\ spc = "gather" /\ p \notin answered /\ cpc' = cpc
      /\ UNCHANGED <<named, win, total, over>>
      /\ Follows(p) /\ sock[p] = "open" /\ Shapes /\ Control
  BY DEF Gather, clients, RInv, AllWell, Stays
<1>2. ReadGesture(p) /\ over = FALSE /\ p \in named
  BY <1>1 DEF Gather, ReadNothing, Control
<1>3. Chosen(p)
  BY <1>1, <1>2 DEF Follows, InStep, Asked, ReadGesture, Told, Chooses, Knows
<1>4. PICK g \in Figures : up[p] = <<g>>
  BY <1>3 DEF Chosen
<1>5. /\ gesture'[p] = Head(up[p]) /\ up'[p] = Tail(up[p])
      /\ \A q \in Players \ {p} : gesture'[q] = gesture[q] /\ up'[q] = up[q]
  <2>1. DOMAIN gesture = Players /\ DOMAIN up = Players
    BY <1>1 DEF Shapes
  <2> QED
    BY <1>2, <2>1 DEF ReadGesture
<1>6. gesture'[p] = g /\ up'[p] = << >>
  BY <1>4, <1>5
<1>7. Hand(p) = g /\ Hand(p)' = g
  BY <1>1, <1>2, <1>4, <1>6 DEF Hand
<1>8. \A q \in Players : Hand(q)' = Hand(q)
  BY <1>1, <1>5, <1>7, HandStays
<1> QED
  BY <1>1, <1>8, Stutters

\* The winner that Match names is the one the rules name.
LEMMA SameWinner ==
  /\ Abstract!Gestures = Gestures
  /\ \A g, h : Abstract!Winner(g, h) = Winner(g, h)
BY DEF Abstract!Gestures, Gestures, Abstract!Winner, Winner, Abstract!Beats, Beats

\* Before a decision both hands are known, and after it both clients wait, with
\* no hand and no news.
LEMMA AroundDecision ==
  ASSUME RInv, AllWell, AllWell', DecideEnd \/ DecideRound
  PROVE  /\ \A p \in Players : /\ Hand(p) = gesture[p] /\ Hand(p) # NoGesture
                               /\ gesture[p] \in Figures
         /\ Hands' = [p \in Players |-> NoGesture] /\ Knowing' = {}
<1>1. spc = "decide" /\ UNCHANGED <<cpc, up>>
  BY DEF DecideEnd, DecideRound, clients
<1>2. ASSUME NEW p \in Players
      PROVE  /\ Waits(p) /\ Hand(p) = gesture[p] /\ Hand(p) # NoGesture
             /\ gesture[p] \in Figures
  BY <1>1, AtDecision DEF AllWell
<1>3. ASSUME NEW p \in Players
      PROVE  Hand(p)' = NoGesture /\ cpc'[p] = "listen"
  <2>1. up'[p] = << >> /\ cpc'[p] = "listen"
    BY <1>1, <1>2 DEF Waits
  <2>2. CASE DecideEnd
    BY <2>1, <2>2 DEF DecideEnd, Hand
  <2>3. CASE DecideRound
    <3>1. gesture'[p] = NoGesture
      BY <2>3 DEF DecideRound
    <3> QED
      BY <2>1, <3>1 DEF Hand
  <2> QED
    BY <2>1, <2>2, <2>3
<1>4. Hands' = [p \in Players |-> NoGesture]
  BY <1>3 DEF Hands
<1>5. Knowing' = {}
  BY <1>3 DEF Knowing
<1> QED
  BY <1>2, <1>4, <1>5

\* The end that a player has asked for is a decision of the match.
LEMMA DecideEndDecides ==
  ASSUME RInv, AllWell, AllWell', DecideEnd
  PROVE  Abstract!Decide
<1>1. /\ \A p \in Players : Hands[p] # NoGesture
      /\ \E p \in Players : Hands[p] = "e"
      /\ Hands' = [p \in Players |-> NoGesture] /\ Knowing' = {}
  <2>1. \A p \in Players : Hands[p] = gesture[p] /\ Hands[p] # NoGesture
    BY AroundDecision DEF Hands
  <2>2. \E p \in Players : gesture[p] = "e"
    BY DEF DecideEnd
  <2> QED
    BY <2>1, <2>2, AroundDecision
<1>2. over' = TRUE /\ UNCHANGED <<win, total>>
  BY DEF DecideEnd
<1> QED
  BY <1>1, <1>2, WellIsHere DEF Abstract!Decide, Hands, Knowing

\* A round is decided by the rules, from the two gestures sent for it.
LEMMA DecideRoundDecides ==
  ASSUME RInv, AllWell, AllWell', DecideRound
  PROVE  Abstract!Decide
<1>1. /\ \A p \in Players : gesture[p] # "e"
      /\ outcome' \in Test(gesture[0], gesture[1], Stack)
      /\ win' = [p \in Players |-> IF outcome' = p + 1 THEN win[p] + 1 ELSE win[p]]
      /\ total' = total + 1 /\ UNCHANGED over
  BY DEF DecideRound
<1>2. /\ \A p \in Players : Hands[p] = gesture[p] /\ Hands[p] # NoGesture
      /\ \A p \in Players : gesture[p] \in Gestures
      /\ Hands' = [p \in Players |-> NoGesture] /\ Knowing' = {}
  BY <1>1, AroundDecision DEF Hands, Figures
<1>3. 0 \in Players /\ 1 \in Players
  BY DEF Players
<1>4. outcome' = Winner(gesture[0], gesture[1])
  <2>1. Test(gesture[0], gesture[1], Stack) = {Winner(gesture[0], gesture[1])}
    BY <1>2, <1>3, TestByTheRules
  <2> QED
    BY <1>1, <2>1
<1>5. outcome' = Abstract!Winner(Hands[0], Hands[1])
  BY <1>2, <1>3, <1>4, SameWinner
<1>6. \A p \in Players : Hands[p] # "e"
  BY <1>1, <1>2
<1>7. win' = [p \in Players |-> IF Abstract!Winner(Hands[0], Hands[1]) = p + 1
                                THEN win[p] + 1 ELSE win[p]]
  BY <1>1, <1>5
<1> QED
  BY <1>1, <1>2, <1>6, <1>7, WellIsHere DEF Abstract!Decide, Hands, Knowing

\* Connecting and giving a name are no part of the match: a name that is under
\* way is not taken for a gesture.
LEMMA EntryStutters ==
  ASSUME RInv, AllWell, AllWell', NEW p \in Players, Join(p) \/ SendName(p)
  PROVE  UNCHANGED Abstract!vars
<1>1. /\ UNCHANGED <<name, server>> /\ Shapes /\ Follows(p) /\ Control
      /\ cpc[p] \in {"away", "naming"} /\ spc # "dead"
      /\ \/ cpc' = [cpc EXCEPT ![p] = "naming"] /\ up' = up
         \/ /\ cpc' = [cpc EXCEPT ![p] = "listen"]
            /\ up' = [up EXCEPT ![p] = Append(@, Hello)]
  BY DEF Join, SendName, ServerStays, RInv, AllWell, Stays
<1>2. UNCHANGED <<named, gesture, win, total, over>>
  BY <1>1 DEF server
<1>3. /\ cpc'[p] \in {"naming", "listen"}
      /\ \A q \in Players \ {p} : cpc'[q] = cpc[q] /\ up'[q] = up[q]
  BY <1>1 DEF Shapes
<1>4. p \notin named
  <2>1. InLobby(p)
    <3>1. CASE spc = "lobby"
      BY <1>1, <3>1 DEF Follows, InStep
    <3>2. CASE spc # "lobby"
      BY <1>1, <3>2, Positions DEF Waits, Hears, Told, Chooses, Chosen, Knows
    <3> QED
      BY <3>1, <3>2
  <2> QED
    BY <1>1, <2>1 DEF InLobby
<1>5. Hand(p)' = Hand(p)
  BY <1>2, <1>4 DEF Hand
<1>6. \A q \in Players : Hand(q)' = Hand(q)
  BY <1>2, <1>3, <1>5, HandStays
<1>7. \A q \in Players : cpc'[q] \in {"play", "over"} <=> cpc[q] \in {"play", "over"}
  BY <1>1, <1>3
<1> QED
  BY <1>2, <1>6, <1>7, Stutters

\* A client that hears the second line tells its player how the match stands;
\* one that does not changes nothing.
LEMMA ListenTells ==
  ASSUME RInv, AllWell, AllWell', NEW p \in Players, Listen(p)
  PROVE  Abstract!Tell(p) \/ UNCHANGED Abstract!vars
<1>1. /\ cpc[p] = "listen" /\ UNCHANGED <<name, server>> /\ up' = up
      /\ Shapes /\ Follows(p) /\ ~Nothing(p)
      /\ \/ cpc' = cpc
         \/ cpc' = [cpc EXCEPT ![p] = "over"]
         \/ cpc' = [cpc EXCEPT ![p] = "play"]
  <2>1. \/ cpc' = cpc
        \/ cpc' = [cpc EXCEPT ![p] = "over"]
        \/ cpc' = [cpc EXCEPT ![p] = "play"]
    BY DEF Listen
  <2>2. ~Nothing(p)
    BY ListenToNothing
  <2> QED
    BY <2>1, <2>2 DEF Listen, ServerStays, RInv, AllWell, Stays
<1>2. UNCHANGED <<named, gesture, win, total, over>>
  BY <1>1 DEF server
<1>3. \A q \in Players : Hand(q)' = Hand(q)
  BY <1>1, <1>2, HandStays
<1>4. CASE cpc' = cpc
  BY <1>2, <1>3, <1>4, Stutters
<1>5. CASE cpc'[p] \in {"play", "over"} /\ \A q \in Players \ {p} : cpc'[q] = cpc[q]
  <2>1. up[p] = << >>
    BY <1>1, Whereabouts
  <2>2. over = TRUE \/ gesture[p] = NoGesture
    <3>1. ~Quiet(p)
      BY <1>1 DEF Follows, InStep, Waits
    <3> QED
      BY <1>1, <3>1 DEF Follows, Kept, Quiet
  <2>3. Hand(p) = NoGesture
    BY <2>1, <2>2 DEF Hand
  <2>4. p \notin Knowing
    BY <1>1, <2>3 DEF Knowing
  <2>5. Knowing' = Knowing \cup {p}
    BY <1>3, <1>5 DEF Knowing
  <2>6. Hands' = Hands
    BY <1>3 DEF Hands
  <2> QED
    BY <1>2, <2>4, <2>5, <2>6, WellIsHere DEF Abstract!Tell, Hands, Knowing
<1>6. \/ cpc' = cpc
      \/ cpc'[p] \in {"play", "over"} /\ \A q \in Players \ {p} : cpc'[q] = cpc[q]
  BY <1>1 DEF Shapes
<1> QED
  BY <1>4, <1>5, <1>6

\* A player's answer is its choice for the round that has begun.
LEMMA PlayChooses ==
  ASSUME RInv, AllWell, AllWell', NEW p \in Players, Play(p)
  PROVE  Abstract!Choose(p)
<1>1. cpc[p] = "play" /\ UNCHANGED <<name, server>> /\ Shapes /\ spc # "dead"
  BY DEF Play, ServerStays, RInv, AllWell
<1>2. p \in named /\ over = FALSE /\ ~Gone /\ up[p] = << >> /\ Hand(p) = NoGesture
  BY <1>1, AtPlay
<1>3. PICK g \in Figures : up' = [up EXCEPT ![p] = Append(@, g)]
  BY <1>2 DEF Play
<1>4. cpc' = [cpc EXCEPT ![p] = "listen"]
  BY <1>2 DEF Play, Reset
<1>5. UNCHANGED <<named, gesture, win, total, over>>
  BY <1>1 DEF server
<1>6. /\ cpc'[p] = "listen" /\ up'[p] = <<g>>
      /\ \A q \in Players \ {p} : cpc'[q] = cpc[q] /\ up'[q] = up[q]
  <2>1. up'[p] = Append(<< >>, g)
    BY <1>1, <1>2, <1>3 DEF Shapes
  <2> QED
    BY <1>1, <1>3, <1>4, <2>1, Written DEF Shapes
<1>7. Hand(p)' = g /\ g # NoGesture
  <2>1. Hand(p)' = g
    BY <1>2, <1>5, <1>6 DEF Hand
  <2> QED
    BY <2>1 DEF Figures, Gestures, NoGesture
<1>8. \A q \in Players \ {p} : Hand(q)' = Hand(q)
  BY <1>5, <1>6, HandStays
<1>9. Hands' = [Hands EXCEPT ![p] = g] /\ Hands[p] = NoGesture
  <2>1. /\ Hands' = [q \in Players |-> Hand(q)']
        /\ Hands = [q \in Players |-> Hand(q)]
    BY DEF Hands
  <2>2. Hands' = [q \in Players |-> IF q = p THEN g ELSE Hands[q]]
    <3>1. \A q \in Players : Hand(q)' = IF q = p THEN g ELSE Hands[q]
      BY <1>7, <1>8, <2>1
    <3> QED
      BY <2>1, <3>1
  <2> QED
    BY <1>2, <2>1, <2>2
<1>10. Knowing' = Knowing /\ p \in Knowing
  BY <1>1, <1>6, <1>7, <1>8 DEF Knowing
<1>11. g \in Abstract!Gestures \cup {"e"}
  BY SameWinner DEF Figures
<1> QED
  BY <1>2, <1>5, <1>9, <1>10, <1>11, WellIsHere DEF Abstract!Choose, Hands, Knowing

\* Until a player leaves, server and clients play the match that module Match
\* promises: each round is decided by the rules from the two gestures sent
\* for it, both players are told before they choose again, and the first wish
\* for the end ends the match.
THEOREM RpslsPlaysMatch ==
  Spec => Abstract!Init /\ [][Abstract!Next]_(Abstract!vars)
<1>1. Init => Abstract!Init
  <2> SUFFICES ASSUME Init PROVE Abstract!Init
    OBVIOUS
  <2>1. \A p \in Players : Hand(p) = NoGesture /\ cpc[p] = "away"
    BY DEF Init, Hand
  <2>2. Hands = [p \in Players |-> NoGesture] /\ Knowing = {}
    BY <2>1 DEF Hands, Knowing
  <2>3. SomebodyLeft = FALSE
    BY <2>1 DEF SomebodyLeft
  <2> QED
    BY <2>2, <2>3 DEF Init, Abstract!Init, Hands, Knowing
<1> DEFINE Well == RInv /\ (SomebodyLeft \/ AllWell)
<1>2. Well /\ Well' /\ [Next]_vars => [Abstract!Next]_(Abstract!vars)
  <2> SUFFICES ASSUME RInv, AllWell, AllWell', [Next]_vars
               PROVE  Abstract!Next \/ UNCHANGED Abstract!vars
    <3>1. ASSUME Well, Well', [Next]_vars, SomebodyLeft'
          PROVE  Abstract!Next
      <4>1. SomebodyLeft' = TRUE
        BY <3>1 DEF SomebodyLeft
      <4> QED
        BY <4>1 DEF Abstract!Next, Abstract!Abandon
    <3>2. ASSUME Well, Well', [Next]_vars, ~SomebodyLeft'
          PROVE  RInv /\ AllWell /\ AllWell'
      BY <3>2, LeftForGood
    <3> QED
      BY <3>1, <3>2
  <2>1. CASE Lobby
    BY <2>1, LobbyStutters
  <2>2. CASE Greet \/ Ask \/ Tell
    BY <2>2, WritesStutter
  <2>3. CASE \E p \in Players : Gather(p)
    BY <2>3, GatherStutters
  <2>4. CASE DecideEnd \/ DecideRound
    BY <2>4, DecideEndDecides, DecideRoundDecides DEF Abstract!Next
  <2>5. ASSUME NEW p \in Players, Client(p) \/ Leave(p) \/ ResetArrives(p)
        PROVE  Abstract!Next \/ UNCHANGED Abstract!vars
    <3>1. CASE Join(p) \/ SendName(p)
      BY <3>1, EntryStutters
    <3>2. CASE Listen(p)
      BY <3>2, ListenTells DEF Abstract!Next
    <3>3. CASE EndOfStream(p)
      <4>1. cpc'[p] \in {"failed", "spin"}
        BY <3>3 DEF EndOfStream, RInv, Shapes
      <4> QED
        BY <4>1 DEF AllWell
    <3>4. CASE Play(p)
      BY <3>4, PlayChooses DEF Abstract!Next
    <3>5. ~Leave(p)
      <4>1. SUFFICES ASSUME Leave(p) PROVE cpc'[p] = "left"
        BY DEF AllWell
      <4> QED
        BY <4>1 DEF Leave, RInv, Shapes
    <3>6. CASE ResetArrives(p)
      BY <3>6 DEF ResetArrives, RInv, AllWell, Stays
    <3> QED
      BY <2>5, <3>1, <3>2, <3>3, <3>4, <3>5, <3>6 DEF Client
  <2>6. CASE UNCHANGED vars
    <3>1. UNCHANGED <<named, gesture, win, total, over, cpc, up>>
      BY <2>6 DEF vars, server, clients
    <3>2. \A q \in Players : Hand(q)' = Hand(q)
      BY <3>1, HandStays
    <3> QED
      BY <3>1, <3>2, Stutters
  <2> QED
    BY <2>1, <2>2, <2>3, <2>4, <2>5, <2>6 DEF Next, Server
<1> QED
  BY <1>1, <1>2, AllWellAlways, PTL DEF Spec

=============================================================================
