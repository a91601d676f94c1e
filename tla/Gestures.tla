------------------------------ MODULE Gestures ------------------------------
(***************************************************************************)
(* The rules of rock-paper-scissors-lizard-Spock, as the players know them *)
(* and as rpsls_server.c computes them: on a circle of five numbers a      *)
(* gesture beats the two before it.                                        *)
(***************************************************************************)
EXTENDS Integers

Gestures == {"r", "p", "s", "l", "S"}

\* A gesture and one it beats.
Beats == {<<"r", "s">>, <<"r", "l">>, <<"p", "r">>, <<"p", "S">>, <<"s", "p">>,
          <<"s", "l">>, <<"l", "p">>, <<"l", "S">>, <<"S", "r">>, <<"S", "s">>}

\* Who wins by the rules: 1, 2, or 0 for a tie.
Winner(g, h) == IF <<g, h>> \in Beats THEN 1
                ELSE IF <<h, g>> \in Beats THEN 2 ELSE 0

-----------------------------------------------------------------------------
\* set_number: a character that is no gesture leaves the variable as it was,
\* which for the locals of test() is one of the values in `stack'.
Numbers(g, stack) ==
  CASE g = "r" -> {0} [] g = "S" -> {1} [] g = "p" -> {2}
    [] g = "l" -> {3} [] g = "s" -> {4} [] OTHER -> stack

\* Mutant: the circle is cut open between scissors and rock.
CompareOpen(a, b) == IF a > b THEN 1 ELSE IF a < b THEN 2 ELSE 0

\* Numbers more than two apart are compared the other way round the circle.
Compare(a, b) ==
  LET c == IF a - b > 2 THEN a - 5 ELSE IF a - b < -2 THEN a + 5 ELSE a
  IN  IF c > b THEN 1 ELSE IF c < b THEN 2 ELSE 0

\* The results test() may return.
Test(g, h, stack) ==
  {Compare(a, b) : a \in Numbers(g, stack), b \in Numbers(h, stack)}

=============================================================================
