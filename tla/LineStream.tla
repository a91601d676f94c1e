----------------------------- MODULE LineStream -----------------------------
(***************************************************************************)
(* What a line-oriented server promises each of its clients, one after the *)
(* other: the lines of the client's stream are printed in order, each once *)
(* and whole, and none is left out unless it is longer than the server can *)
(* hold.  A line ends with "\r\n".                                         *)
(***************************************************************************)
EXTENDS Integers, Sequences, FiniteSetsExt

CONSTANTS
  Streams,       \* the streams a client may send
  Limit          \* a longer line, its end included, may be given up

VARIABLES
  input,         \* the current client's stream
  pos,           \* the bytes of it that are dealt with
  printed        \* its lines printed so far

vars == <<input, pos, printed>>

\* Where the "\r\n" of a sequence of bytes end.
Ends(s) == {e \in 2..Len(s) : s[e - 1] = "CR" /\ s[e] = "LF"}

\* The ends of the lines that are still to be printed.
Pending == {e \in Ends(input) : e >= pos + 2}

Init ==
  /\ input = << >>
  /\ pos = 0
  /\ printed = << >>

PrintLine ==
  /\ Pending # {}
  /\ printed' = Append(printed, SubSeq(input, pos + 1, Min(Pending) - 2))
  /\ pos' = Min(Pending)
  /\ UNCHANGED input

\* The next line, its end included, may be given up.
Hopeless(line) == Len(line) > Limit

NextClient ==
  /\ Pending # {} => Hopeless(SubSeq(input, pos + 1, Min(Pending)))
  /\ input' \in Streams
  /\ pos' = 0
  /\ printed' = << >>

Next == PrintLine \/ NextClient

Spec == Init /\ [][Next]_vars

=============================================================================
