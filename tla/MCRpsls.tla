------------------------------ MODULE MCRpsls -------------------------------
(***************************************************************************)
(* Rpsls with a few names that stand for all the cases strstr() tells      *)
(* apart, and a few integers for what the stack may hold.                  *)
(***************************************************************************)
EXTENDS Rpsls

\* "Al" is the beginning of "Alan" and of "All players ready, start game!".
MCBegins == {<<"Al", "Alan">>}

=============================================================================
