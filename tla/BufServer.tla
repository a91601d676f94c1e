----------------------------- MODULE BufServer ------------------------------
(***************************************************************************)
(* bufserver.c (lab 8): a server that reads a client's bytes into a buffer *)
(* as they come, prints every line that is complete and keeps the rest for *)
(* the next read().  A byte is "CR", "LF", "0" for zero, or something else.*)
(* Behind the bytes in use the buffer holds zeros: memset() sees to it.    *)
(***************************************************************************)
EXTENDS Integers, Sequences, FiniteSetsExt

CONSTANTS
  Bytes,         \* the bytes clients send
  MaxLen,        \* bound: the longest stream of a client
  MaxClients,    \* bound: clients served
  BufSize        \* BUFSIZE

ASSUME BufServerAssumption ==
  /\ MaxLen \in Nat /\ MaxClients \in Nat
  /\ BufSize \in Nat \ {0}

Streams == UNION {[1..k -> Bytes] : k \in 0..MaxLen}

VARIABLES
  pc,            \* accept, read, search or crashed
  clients,       \* clients accepted so far
  input,         \* ghost: all the current client sends
  rest,          \* what of it has not been read
  buf,           \* the first inbuf bytes of the buffer
  printed        \* the lines printed for this client

vars == <<pc, clients, input, rest, buf, printed>>

Init ==
  /\ pc = "accept" /\ clients = 0
  /\ input = << >> /\ rest = << >> /\ buf = << >> /\ printed = << >>

Room == BufSize - Len(buf)

\* Where a newline ends that strstr() sees: it stops at a zero byte.
Newlines ==
  {e \in 2..Len(buf) : /\ buf[e - 1] = "CR" /\ buf[e] = "LF"
                       /\ \A i \in 1..e : buf[i] # "0"}

Accept ==
  /\ pc = "accept" /\ clients < MaxClients
  /\ clients' = clients + 1
  /\ input' \in Streams /\ rest' = input'
  /\ buf' = << >> /\ printed' = << >>
  /\ pc' = "read"

\* Mutant: the room is not updated as the buffer fills.
ReadBeyond ==
  /\ pc = "read"
  /\ \E k \in 1..Min({BufSize, Len(rest)}) :
       /\ buf'  = buf \o SubSeq(rest, 1, k)
       /\ rest' = SubSeq(rest, k + 1, Len(rest))
  /\ pc' = "search"
  /\ UNCHANGED <<clients, input, printed>>

\* read() of some of the bytes, as many as have come and as there is room for.
Read ==
  /\ pc = "read"
  /\ \E k \in 1..Min({Room, Len(rest)}) :
       /\ buf'  = buf \o SubSeq(rest, 1, k)
       /\ rest' = SubSeq(rest, k + 1, Len(rest))
  /\ pc' = "search"
  /\ UNCHANGED <<clients, input, printed>>

\* Mutant: read() is called again after it has returned 0.
ReadEndAgain ==
  /\ pc = "read"
  /\ rest = << >> \/ Room = 0
  /\ pc' = "search"
  /\ UNCHANGED <<clients, input, rest, buf, printed>>

\* read() returns 0, because the client has closed or because the buffer is
\* full: the connection is closed.
ReadEnd ==
  /\ pc = "read"
  /\ rest = << >> \/ Room = 0
  /\ pc' = "accept"
  /\ UNCHANGED <<clients, input, rest, buf, printed>>

\* Mutant: what stands behind the line is thrown away.
CutAll ==
  /\ pc = "search" /\ Newlines # {}
  /\ printed' = Append(printed, SubSeq(buf, 1, Min(Newlines) - 2))
  /\ buf' = << >>
  /\ UNCHANGED <<pc, clients, input, rest>>

\* The first line in the buffer is printed and cut off, and the search goes
\* on: there may be another one.
Cut ==
  /\ pc = "search" /\ Newlines # {}
  /\ printed' = Append(printed, SubSeq(buf, 1, Min(Newlines) - 2))
  /\ buf' = SubSeq(buf, Min(Newlines) + 1, Len(buf))
  /\ UNCHANGED <<pc, clients, input, rest>>

NoLine ==
  /\ pc = "search" /\ Newlines = {}
  /\ pc' = "read"
  /\ UNCHANGED <<clients, input, rest, buf, printed>>

\* Unless there is a zero byte among the n bytes, strcpy() puts one into
\* search[n], behind the array; from a full buffer it even reads on.  What
\* comes of it is up to the build: nothing, or whatever "crashed" stands for.
Overrun ==
  /\ pc = "search"
  /\ \A i \in DOMAIN buf : buf[i] # "0"
  /\ pc' = "crashed"
  /\ UNCHANGED <<clients, input, rest, buf, printed>>

Serve == Accept \/ Read \/ ReadEnd \/ Cut \/ NoLine

Next == Serve \/ Overrun

\* The server runs; each client sends what it has to and closes.
Spec == Init /\ [][Next]_vars /\ WF_vars(Serve)

-----------------------------------------------------------------------------
\* The buffer is never overfull, and no byte is in two places or in none.
TypeOK ==
  /\ pc \in {"accept", "read", "search", "crashed"} /\ clients \in 0..MaxClients
  /\ Len(buf) <= BufSize
  /\ pc # "accept" => \E k \in 0..Len(input) : input = SubSeq(input, 1, k) \o buf \o rest
  /\ \A i \in DOMAIN printed : Len(printed[i]) <= BufSize - 2

Promise == INSTANCE LineStream WITH
  pos   <- Len(input) - Len(rest) - Len(buf),
  Limit <- BufSize

(***************************************************************************)
(* However TCP cuts a stream of text into pieces, its lines are printed as *)
(* they were sent, all of them and none of them twice, and nothing one     *)
(* client sent is printed for another; only a line longer than the buffer  *)
(* is given up, with what follows it.  (With zero bytes in the stream the  *)
(* server does not keep this promise: see FindsNewline.)                   *)
(***************************************************************************)
LinesAsSent == Promise!Spec

\* No client keeps the server for ever: every one is served, also after one
\* with a line that does not fit, as long as writing behind the array
\* (Overrun) does no harm.
AllServed == <>(pc = "crashed" \/ (pc = "accept" /\ clients = MaxClients))

(***************************************************************************)
(* "Search the first n characters of buf for a network newline"            *)
(* (bufserver.c:93): when the server goes back to read(), there is none in *)
(* the buffer.                                                             *)
(***************************************************************************)
FindsNewline ==
  pc = "read" => ~\E e \in 2..Len(buf) : buf[e - 1] = "CR" /\ buf[e] = "LF"

=============================================================================
