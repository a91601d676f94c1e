----------------------------- MODULE ServerPort -----------------------------
(***************************************************************************)
(* How the server and a client of assignment 4 meet (socket.c): the server *)
(* binds a port and listens, the client connects to the port or else to    *)
(* the next one, while other programs take ports and give them back.       *)
(***************************************************************************)
EXTENDS Integers

Port     == 0    \* PORT, or the one that follows from the command line
NextPort == 1
AnyPort  == 2    \* what the kernel gives to a socket that is not bound
Ports    == 0..2

VARIABLES
  owner,         \* who has each port
  listening,     \* the ports one can connect to
  server,        \* where the server is: bind, listen, serving
  bound,         \* ghost: the server's bind() has succeeded
  client,        \* where the client is: first, second, connected, failed
  late,          \* ghost: the client began when the server was serving
  peer           \* whom the client is connected to

vars == <<owner, listening, server, bound, client, late, peer>>

Init ==
  /\ owner \in [Ports -> {"nobody", "stranger"}] /\ owner[AnyPort] = "nobody"
  /\ listening = {p \in Ports : owner[p] = "stranger"}
  /\ server = "bind" /\ bound = FALSE
  /\ client = "first" /\ late = FALSE /\ peer = "nobody"

-----------------------------------------------------------------------------
\* bind() in set_up_server_socket(): it returns 0 or -1, and the second port
\* is tried only for a result above 0.
Bind ==
  /\ server = "bind" /\ server' = "listen"
  /\ IF owner[Port] = "nobody"
     THEN owner' = [owner EXCEPT ![Port] = "server"] /\ bound' = TRUE
     ELSE UNCHANGED <<owner, bound>>
  /\ UNCHANGED <<listening, client, late, peer>>

\* listen(): a socket that is not bound gets any port.
Listen ==
  /\ server = "listen" /\ server' = "serving"
  /\ LET p == IF bound THEN Port ELSE AnyPort
     IN  owner' = [owner EXCEPT ![p] = "server"] /\ listening' = listening \cup {p}
  /\ UNCHANGED <<bound, client, late, peer>>

\* connect() to a port in connect_to_server(); what follows if nobody listens.
ConnectTo(p, otherwise) ==
  /\ IF p \in listening
     THEN client' = "connected" /\ peer' = owner[p]
     ELSE client' = otherwise /\ UNCHANGED peer
  /\ UNCHANGED <<owner, listening, server, bound>>

\* Mutant: the second port is tried first.
ConnectSwapped ==
  /\ client = "first"
  /\ late' = (server = "serving")
  /\ ConnectTo(NextPort, "second")

Connect ==
  /\ client = "first"
  /\ late' = (server = "serving")
  /\ ConnectTo(Port, "second")

ConnectAgain ==
  /\ client = "second"
  /\ ConnectTo(NextPort, "failed")
  /\ UNCHANGED late

\* Another program begins to listen, or ends.
Take(p) ==
  /\ owner[p] = "nobody"
  /\ owner' = [owner EXCEPT ![p] = "stranger"] /\ listening' = listening \cup {p}
  /\ UNCHANGED <<server, bound, client, late, peer>>

Leave(p) ==
  /\ owner[p] = "stranger"
  /\ owner' = [owner EXCEPT ![p] = "nobody"] /\ listening' = listening \ {p}
  /\ UNCHANGED <<server, bound, client, late, peer>>

Server == Bind \/ Listen
Client == Connect \/ ConnectAgain

Next == Server \/ Client \/ \E p \in {Port, NextPort} : Take(p) \/ Leave(p)

Fairness == WF_vars(Server) /\ WF_vars(Client)

Spec == Init /\ [][Next]_vars /\ Fairness

-----------------------------------------------------------------------------
TypeOK ==
  /\ owner \in [Ports -> {"nobody", "stranger", "server"}]
  /\ listening \subseteq {p \in Ports : owner[p] # "nobody"}
  /\ server \in {"bind", "listen", "serving"} /\ bound \in BOOLEAN
  /\ client \in {"first", "second", "connected", "failed"} /\ late \in BOOLEAN
  /\ peer \in {"nobody", "stranger", "server"}

(***************************************************************************)
(* A client that begins when a server is there that has got its port       *)
(* reaches it, whatever other programs do with the next port meanwhile.    *)
(***************************************************************************)
Meet == late /\ bound /\ client \in {"connected", "failed"} => peer = "server"

(***************************************************************************)
(* The server serves one of the two ports the clients try, also when the   *)
(* first one is in use (socket.c:50-51, the assignment).                   *)
(***************************************************************************)
ServesPort == server = "serving" => \E p \in {Port, NextPort} : owner[p] = "server"

\* Both are done with their preparations.
Ended == server = "serving" /\ client \in {"connected", "failed"}

=============================================================================
