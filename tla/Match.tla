------------------------------- MODULE Match --------------------------------
(***************************************************************************)
(* What the rpsls server and its two clients promise together, without     *)
(* sockets: the players choose independently, each round is decided by the *)
(* rules from the two choices made for it, both players are told, and the  *)
(* match is over when one of them asks for the end.  All this is promised  *)
(* until a player leaves in the middle of it; from then on nothing is.     *)
(***************************************************************************)
EXTENDS Gestures

CONSTANTS
  Players,       \* {0, 1}
  None           \* no choice has been made

VARIABLES
  hand,          \* each player's choice for this round
  told,          \* the players who know how the last round ended
  wins,          \* rounds won by each player
  total,         \* rounds played
  over,          \* a player has asked for the end
  abandoned      \* a player has left

vars == <<hand, told, wins, total, over, abandoned>>

Init ==
  /\ hand  = [p \in Players |-> None]
  /\ told  = {}
  /\ wins  = [p \in Players |-> 0]
  /\ total = 0
  /\ over  = FALSE
  /\ abandoned = FALSE

\* A player who knows where the match stands chooses a gesture, or the end.
Choose(p) ==
  /\ ~abandoned /\ ~over /\ p \in told /\ hand[p] = None
  /\ \E g \in Gestures \cup {"e"} : hand' = [hand EXCEPT ![p] = g]
  /\ UNCHANGED <<told, wins, total, over, abandoned>>

Decide ==
  /\ ~abandoned /\ UNCHANGED abandoned
  /\ \A p \in Players : hand[p] # None
  /\ hand' = [p \in Players |-> None]
  /\ told' = {}
  /\ IF \E p \in Players : hand[p] = "e"
     THEN over' = TRUE /\ UNCHANGED <<wins, total>>
     ELSE /\ total' = total + 1
          /\ wins' = [p \in Players |->
                        IF Winner(hand[0], hand[1]) = p + 1 THEN wins[p] + 1
                        ELSE wins[p]]
          /\ UNCHANGED over

Tell(p) ==
  /\ ~abandoned /\ p \notin told
  /\ told' = told \cup {p}
  /\ UNCHANGED <<hand, wins, total, over, abandoned>>

\* A player leaves; whatever then happens to the rest is no part of a match.
Abandon == abandoned' = TRUE

Next == Decide \/ (\E p \in Players : Choose(p) \/ Tell(p)) \/ Abandon

Fairness == WF_vars(Decide) /\ \A p \in Players : WF_vars(Tell(p))

Spec == Init /\ [][Next]_vars /\ Fairness

=============================================================================
