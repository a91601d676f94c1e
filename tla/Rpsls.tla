------------------------------- MODULE Rpsls --------------------------------
(***************************************************************************)
(* The rock-paper-scissors-lizard-Spock server and its two clients         *)
(* (assignment 4), joined by one stream of lines in each direction.  A     *)
(* player may leave (close its socket) at any moment; the model follows    *)
(* what TCP then tells the other side: end of file first, a reset after    *)
(* the next write, SIGPIPE after that.                                     *)
(*                                                                         *)
(* A line is written and read whole: each is a few bytes in one write().   *)
(***************************************************************************)
EXTENDS Gestures, Sequences, FiniteSets

CONSTANTS
  Names,         \* names a player may give
  Begins,        \* pairs <<a, b>> of different names, a being a prefix of b
  TieNames,      \* names with "tie" in them
  GreetHeads,    \* names the greeting "All players ready, ..." begins with
  GreetParts,    \* names found elsewhere in the greeting
  Stack,         \* what an int of test() may hold before it is set
  MayLeave,      \* players who may leave
  MaxRounds,     \* after so many gestures a player asks for the end
  MaxTotal       \* bound: no reset is so late that more rounds are decided

Players == {0, 1}          \* in the order in which they are accepted
Other(p) == 1 - p

ASSUME RpslsAssumption ==
  /\ MayLeave \subseteq Players
  /\ MaxRounds \in Nat /\ MaxTotal \in Nat /\ MaxRounds < MaxTotal

NoGesture == "none"        \* a gestures[] entry of zeros
Hello     == "hello"       \* the line with a client's name

\* What the server writes: two lines at a time, the first one news, the
\* second one an instruction to go on or to stop.
Greeting        == [kind |-> "greeting"]
Result(outcome) == [kind |-> "result", outcome |-> outcome]
Stats(won, of)  == [kind |-> "stats", won |-> won, of |-> of]
Instruction(go) == [kind |-> IF go THEN "go" ELSE "stop"]

VARIABLES
  name,          \* name[p]: chosen by the player, constant
  \* the server
  spc,           \* where it is
  to,            \* the client it writes to next
  accepted,      \* num_players
  named,         \* clients whose name has been read
  answered,      \* first, second: clients whose gesture has been read
  gesture,       \* gestures[]
  outcome,       \* what test() returned last
  win, total,    \* the score
  over,          \* instru[0] = '0'
  sock,          \* what the server's end of each connection has been told
  \* the clients
  cpc,           \* where each is
  have,          \* lines in its buffer
  said,          \* what it printed last about a round or the match
  plays,         \* ghost: gestures it has sent
  \* the connections
  up, down       \* lines on their way to the server, to a client

server  == <<spc, to, accepted, named, answered, gesture, outcome, win, total, over>>
clients == <<cpc, have, said, plays>>
vars    == <<name, server, sock, clients, up, down>>

Init ==
  /\ name \in [Players -> Names]
  /\ spc = "lobby" /\ to = 0 /\ accepted = 0 /\ named = {} /\ answered = {}
  /\ gesture = [p \in Players |-> NoGesture] /\ outcome = 0
  /\ win = [p \in Players |-> 0] /\ total = 0 /\ over = FALSE
  /\ sock = [p \in Players |-> "open"]
  /\ cpc  = [p \in Players |-> "away"]
  /\ have = [p \in Players |-> << >>]
  /\ said = [p \in Players |-> [kind |-> "nothing"]]
  /\ plays = [p \in Players |-> 0]
  /\ up   = [p \in Players |-> << >>]
  /\ down = [p \in Players |-> << >>]

\* The server process has ended, and with it its sockets.
Gone == spc \in {"done", "dead"}

\* They end in a reset for a client whose last line was never read.
Reset(p) == Gone /\ up[p] # << >>

-----------------------------------------------------------------------------
(***************************************************************************)
(* The server.                                                             *)
(***************************************************************************)
Connected == {p \in Players : cpc[p] # "away"}

\* read_name for every accepted client whose name has come.
ReadNames ==
  LET ready == {p \in Players : p < accepted /\ up[p] # << >>}
  IN  /\ named' = named \cup ready
      /\ up' = [p \in Players |-> IF p \in ready THEN Tail(up[p]) ELSE up[p]]

\* One turn of the first loop: select(), then accept a client and read the
\* names that have come from those accepted before.  (Woken by the end of a
\* stream the loop turns without doing anything, as fast as it can.)
Lobby ==
  /\ spc = "lobby"
  /\ accepted' = IF Cardinality(Connected) > accepted THEN accepted + 1 ELSE accepted
  /\ ReadNames
  /\ spc' = IF accepted' = 2 /\ named' = Players THEN "greet" ELSE "lobby"
  /\ UNCHANGED <<name, to, answered, gesture, outcome, win, total, over, sock, clients, down>>

\* write() to client `to', then to the other one, then on to `next'.  The
\* first write after the peer has closed draws a reset; a write after the
\* reset ends the server, by SIGPIPE or in check_error.
WriteBoth(here, line, next) ==
  /\ spc = here
  /\ IF sock[to] = "reset"
     THEN spc' = "dead" /\ UNCHANGED <<to, sock, down>>
     ELSE /\ down' = IF sock[to] = "open" THEN [down EXCEPT ![to] = Append(@, line)] ELSE down
          /\ sock' = IF sock[to] = "closed" THEN [sock EXCEPT ![to] = "doomed"] ELSE sock
          /\ to'   = Other(to)
          /\ spc'  = IF to = 1 THEN next ELSE here
  /\ UNCHANGED <<name, accepted, named, gesture, outcome, win, total, over, clients, up>>

Greet == WriteBoth("greet", Greeting, "ask") /\ UNCHANGED answered

\* Mutant: the instruction to stop is sent, but the server does not stop.
AskOnAndOn == WriteBoth("ask", Instruction(~over), "gather") /\ answered' = {}

\* The instruction; after the one to stop the server closes and ends.
Ask ==
  /\ WriteBoth("ask", Instruction(~over), IF over THEN "done" ELSE "gather")
  /\ answered' = {}

\* first or second is set; with both, sum ends the loop.
Answered(p) ==
  /\ answered' = answered \cup {p}
  /\ spc' = IF answered' = Players THEN "decide" ELSE "gather"

\* read() of a gesture; the client's next line is not there yet.
ReadGesture(p) ==
  /\ up[p] # << >>
  /\ gesture' = [gesture EXCEPT ![p] = Head(up[p])]
  /\ up' = [up EXCEPT ![p] = Tail(@)]

\* read() returns 0; once it has, the player answers for ever, so MaxTotal
\* bounds how many rounds are decided before the reset.
ReadNothing(p) ==
  /\ up[p] = << >> /\ sock[p] # "open"
  /\ sock[p] # "closed" => total < MaxTotal
  /\ UNCHANGED <<gesture, up>>

\* Mutant: the round is decided as soon as one answer is there.
GatherOne(p) ==
  /\ spc = "gather" /\ p \notin answered
  /\ ReadGesture(p)
  /\ answered' = answered \cup {p} /\ spc' = "decide"
  /\ UNCHANGED <<name, to, accepted, named, outcome, win, total, over, sock, clients, down>>

\* Mutant: a player who has left is never taken for one who has answered.
GatherLines(p) ==
  /\ spc = "gather" /\ p \notin answered
  /\ ReadGesture(p) /\ Answered(p)
  /\ UNCHANGED <<name, to, accepted, named, outcome, win, total, over, sock, clients, down>>

\* A client the server still waits for is readable and is read: a gesture,
\* or nothing at the end of the stream, which counts as an answer too and
\* leaves zeros in gestures[]; or read() fails because of a reset.
Gather(p) ==
  /\ spc = "gather" /\ p \notin answered
  /\ \/ ReadGesture(p) /\ Answered(p)
     \/ ReadNothing(p) /\ Answered(p)
     \/ sock[p] = "reset" /\ spc' = "dead" /\ UNCHANGED <<gesture, up, answered>>
  /\ UNCHANGED <<name, to, accepted, named, outcome, win, total, over, sock, clients, down>>

\* Somebody asks for the end.
DecideEnd ==
  /\ spc = "decide"
  /\ \E p \in Players : gesture[p] = "e"
  /\ over' = TRUE /\ spc' = "tell"
  /\ UNCHANGED <<name, to, accepted, named, answered, gesture, outcome, win, total,
                 sock, clients, up, down>>

\* A round is decided and the gestures are forgotten.
DecideRound ==
  /\ spc = "decide"
  /\ \A p \in Players : gesture[p] # "e"
  /\ outcome' \in Test(gesture[0], gesture[1], Stack)
  /\ win' = [p \in Players |-> IF outcome' = p + 1 THEN win[p] + 1 ELSE win[p]]
  /\ total' = total + 1
  /\ gesture' = [p \in Players |-> NoGesture]
  /\ spc' = "tell"
  /\ UNCHANGED <<name, to, accepted, named, answered, over, sock, clients, up, down>>

\* Mutant: both players are told the same score.
TellFirst ==
  /\ WriteBoth("tell", IF over THEN Stats(win[0], total) ELSE Result(outcome), "ask")
  /\ UNCHANGED answered

\* The result of the round, or at the end each player's score.
Tell ==
  /\ WriteBoth("tell", IF over THEN Stats(win[to], total) ELSE Result(outcome), "ask")
  /\ UNCHANGED answered

-----------------------------------------------------------------------------
(***************************************************************************)
(* The clients.                                                            *)
(***************************************************************************)
ServerStays == UNCHANGED <<name, server>>

\* connect(); clients are numbered as they come.
Join(p) ==
  /\ cpc[p] = "away" /\ \A q \in Players : q < p => cpc[q] # "away"
  /\ cpc' = [cpc EXCEPT ![p] = "naming"]
  /\ ServerStays /\ UNCHANGED <<sock, have, said, plays, up, down>>

SendName(p) ==
  /\ cpc[p] = "naming"
  /\ cpc' = [cpc EXCEPT ![p] = "listen"]
  /\ up' = [up EXCEPT ![p] = Append(@, Hello)]
  /\ ServerStays /\ UNCHANGED <<sock, have, said, plays, down>>

\* Mutant: the name may stand anywhere in the line.
WordAnywhere(p, line) ==
  IF line.kind = "result" /\ line.outcome = 0 THEN "tie"
  ELSE IF line.kind = "result" THEN "win" ELSE "nothing"

\* strstr(): the word for a line, from its text alone: "X beat Y." begins with
\* the winner's name.
Word(p, line) ==
  LET Text == IF line.outcome = 1 THEN 0 ELSE 1      \* who comes first in it
      Prefix(q) == p = q \/ name[p] = name[q] \/ <<name[p], name[q]>> \in Begins
  IN  CASE line.kind = "greeting" ->
             IF name[p] \in GreetHeads THEN "win"
             ELSE IF name[p] \in GreetParts THEN "lose" ELSE "nothing"
        [] line.kind = "result" ->
             IF line.outcome = 0 \/ \E q \in Players : name[q] \in TieNames THEN "tie"
             ELSE IF Prefix(Text) THEN "win" ELSE "lose"

\* check_end finds as many lines as the client waits for.
Complete(lines) == Len(lines) >= 2

\* read() of some of the lines that have come.  With two lines the client
\* prints the first and obeys the second; what else was read is dropped.
Listen(p) ==
  /\ cpc[p] = "listen"
  /\ \E k \in 1..Len(down[p]) :
       LET lines == have[p] \o SubSeq(down[p], 1, k)
       IN  /\ down' = [down EXCEPT ![p] = SubSeq(@, k + 1, Len(@))]
           /\ IF ~Complete(lines)
              THEN have' = [have EXCEPT ![p] = lines] /\ UNCHANGED <<cpc, said>>
              ELSE /\ have' = [have EXCEPT ![p] = << >>]
                   /\ IF lines[2].kind = "stop"
                      THEN /\ cpc'  = [cpc EXCEPT ![p] = "over"]
                           /\ said' = [said EXCEPT ![p] = lines[1]]
                      ELSE /\ cpc'  = [cpc EXCEPT ![p] = "play"]
                           /\ said' = [said EXCEPT ![p] = [kind |-> Word(p, lines[1])]]
  /\ ServerStays /\ UNCHANGED <<sock, plays, up>>

\* The server is gone.  read() returns 0, which the client takes for zero
\* bytes of a line and tries again, for ever; or it fails.
EndOfStream(p) ==
  /\ cpc[p] = "listen" /\ Gone
  /\ \/ Reset(p) /\ cpc' = [cpc EXCEPT ![p] = "failed"]
     \/ ~Reset(p) /\ down[p] = << >> /\ cpc' = [cpc EXCEPT ![p] = "spin"]
  /\ ServerStays /\ UNCHANGED <<sock, have, said, plays, up, down>>

\* What check_figure lets through.
Figures == Gestures \cup {"e"}

\* Mutant: the loop that asks for a gesture goes on after a valid one.
PlayOn(p) ==
  /\ cpc[p] = "play"
  /\ \E g \in Figures :
       /\ plays[p] >= MaxRounds => g = "e"
       /\ up' = IF Gone THEN up ELSE [up EXCEPT ![p] = Append(@, g)]
  /\ plays' = [plays EXCEPT ![p] = @ + 1]
  /\ ServerStays /\ UNCHANGED <<sock, cpc, have, said, down>>

\* A gesture is typed and sent; a write to a server that has just gone
\* succeeds, one after a reset fails.
Play(p) ==
  /\ cpc[p] = "play"
  /\ \E g \in Figures :
       /\ plays[p] >= MaxRounds => g = "e"
       /\ up' = IF Gone THEN up ELSE [up EXCEPT ![p] = Append(@, g)]
  /\ cpc'   = [cpc EXCEPT ![p] = IF Reset(p) THEN "failed" ELSE "listen"]
  /\ plays' = [plays EXCEPT ![p] = @ + 1]
  /\ ServerStays /\ UNCHANGED <<sock, have, said, down>>

\* The player stops the client; what it has not read makes the end of its
\* stream a reset.
Leave(p) ==
  /\ p \in MayLeave /\ ~Gone
  /\ cpc[p] \in {"naming", "listen", "play"}
  /\ cpc'  = [cpc  EXCEPT ![p] = "left"]
  /\ sock' = [sock EXCEPT ![p] = IF down[p] = << >> THEN "closed" ELSE "reset"]
  /\ down' = [down EXCEPT ![p] = << >>]
  /\ have' = [have EXCEPT ![p] = << >>]
  /\ ServerStays /\ UNCHANGED <<said, plays, up>>

\* The reset that a write to a closed peer has drawn arrives.
ResetArrives(p) ==
  /\ sock[p] = "doomed"
  /\ sock' = [sock EXCEPT ![p] = "reset"]
  /\ ServerStays /\ UNCHANGED <<clients, up, down>>

-----------------------------------------------------------------------------
Server ==
  \/ Lobby \/ Greet \/ Ask \/ (\E p \in Players : Gather(p))
  \/ DecideEnd \/ DecideRound \/ Tell

Client(p) ==
  Join(p) \/ SendName(p) \/ Listen(p) \/ EndOfStream(p) \/ Play(p)

Next ==
  \/ Server
  \/ \E p \in Players : Client(p) \/ Leave(p) \/ ResetArrives(p)

\* The processes are scheduled, packets arrive, and the players come, answer
\* and end the match some day; nobody has to leave.
Fairness ==
  /\ WF_vars(Server)
  /\ \A p \in Players : WF_vars(Client(p)) /\ WF_vars(ResetArrives(p))

Spec == Init /\ [][Next]_vars /\ Fairness

-----------------------------------------------------------------------------
Lines == {Greeting, Instruction(TRUE), Instruction(FALSE)}
         \cup {Result(o) : o \in 0..2}
         \cup {Stats(w, t) : w \in 0..MaxTotal, t \in 0..MaxTotal}

Words == {[kind |-> k] : k \in {"nothing", "tie", "win", "lose"}}

\* Every variable stays in its type; no client has more than one line of its
\* own on the way, whose end the server's 3-byte read would cut off.
TypeOK ==
  /\ name \in [Players -> Names]
  /\ spc \in {"lobby", "greet", "ask", "gather", "decide", "tell", "done", "dead"}
  /\ to \in Players /\ accepted \in 0..2
  /\ named \subseteq Players /\ answered \subseteq Players
  /\ gesture \in [Players -> Gestures \cup {"e", NoGesture}]
  /\ outcome \in 0..2 /\ win \in [Players -> 0..MaxTotal] /\ total \in 0..MaxTotal
  /\ over \in BOOLEAN
  /\ sock \in [Players -> {"open", "closed", "doomed", "reset"}]
  /\ cpc \in [Players -> {"away", "naming", "listen", "play", "over", "spin",
                          "failed", "left"}]
  /\ \A p \in Players :
       /\ Len(have[p]) <= 1 /\ \A i \in DOMAIN have[p] : have[p][i] \in Lines
       /\ \A i \in DOMAIN down[p] : down[p][i] \in Lines
       /\ Len(up[p]) <= 1
       /\ \A i \in DOMAIN up[p] : up[p][i] \in Gestures \cup {"e", Hello}
       /\ said[p] \in Words \cup Lines
  /\ plays \in [Players -> 0..(MaxRounds + 1)]

(***************************************************************************)
(* Server and clients keep step although neither counts: a client has at   *)
(* most one news line and one instruction ahead of it, in this order, so   *)
(* that check_end() never sees a third line (it would be dropped), and     *)
(* nothing is on its way to a client that is asking its player.            *)
(***************************************************************************)
Lockstep ==
  \A p \in Players :
    LET ahead == have[p] \o down[p]
    IN  /\ Len(ahead) <= 2
        /\ Len(ahead) > 0 => ahead[1].kind \in {"greeting", "result", "stats"}
        /\ Len(ahead) > 1 => ahead[2].kind \in {"go", "stop"}
        /\ cpc[p] \in {"play", "over"} => ahead = << >>
        /\ cpc[p] = "play" => up[p] = << >>

(***************************************************************************)
(* What a player reads at the end is its own score, of exactly the rounds  *)
(* for which everybody who has not left has sent a gesture; between them   *)
(* the players did not win more.                                           *)
(***************************************************************************)
StatsTrue ==
  /\ win[0] + win[1] <= total
  /\ \A p \in Players : cpc[p] = "over" =>
       /\ said[p] = Stats(win[p], total)
       /\ \A q \in Players : cpc[q] # "left" => plays[q] = total + 1

\* The word a player should read after a round.
RightWord(p) == CASE outcome = 0 -> "tie" [] outcome = p + 1 -> "win" [] OTHER -> "lose"

Confusable(p) ==
  \/ \E q \in Players : name[q] \in TieNames
  \/ name[0] = name[1]
  \/ <<name[p], name[Other(p)]>> \in Begins

(***************************************************************************)
(* The word on a client's standard error is the truth about the round just *)
(* decided, unless a name contains "tie" or the loser's name begins the    *)
(* winner's.                                                               *)
(***************************************************************************)
TellsWinner ==
  \A p \in Players :
    cpc[p] = "play" /\ total > 0 /\ said[p].kind # RightWord(p) => Confusable(p)

\* What the assignment asks for: the word says who won, whatever the names.
SaysWhoWon ==
  \A p \in Players : cpc[p] = "play" /\ total > 0 => said[p].kind = RightWord(p)

\* The match both players believe to be in.
Hand(p) ==
  IF over THEN NoGesture
  ELSE IF p \in named /\ up[p] # << >> THEN Head(up[p]) ELSE gesture[p]

SomebodyLeft == \E p \in Players : cpc[p] = "left"

Abstract == INSTANCE Match WITH
  hand <- [p \in Players |-> Hand(p)],
  told <- {p \in Players : cpc[p] \in {"play", "over"} \/ Hand(p) # NoGesture},
  wins <- win,
  None <- NoGesture,
  abandoned <- SomebodyLeft

(***************************************************************************)
(* Until a player leaves, server and clients play the match of module      *)
(* Match: each round is decided by the rules from the two gestures sent    *)
(* for it, and by nothing older, and counted once, however the processes   *)
(* run.                                                                    *)
(***************************************************************************)
PlaysMatch == Abstract!Spec

\* Unless a player leaves, the match comes to its end: the server stops and both
\* clients know it.
GameEnds ==
  <>(\/ SomebodyLeft
     \/ spc = "done" /\ \A p \in Players : cpc[p] = "over")

(***************************************************************************)
(* Once the lobby is left, a player who leaves takes the server with it:   *)
(* it does not play on alone nor wait for ever.                            *)
(***************************************************************************)
LeavingEndsServer ==
  (spc # "lobby" /\ SomebodyLeft) ~> Gone

\* A round is decided once both players have sent a gesture for it.
RoundsArePlayed == \A p \in Players : total <= plays[p]

=============================================================================
