------------------------------ MODULE PfactInv ------------------------------
(***************************************************************************)
(* The inductive invariant of the pipeline, in parts.  PfactProofs proves  *)
(* that every step of Pfact preserves it; a run checks it first on a small *)
(* instance, with every fault of the model.                                *)
(***************************************************************************)
EXTENDS Pfact

(***************************************************************************)
(* The assumption about numbers that the proof takes: between a prime and  *)
(* any number above its square lies another prime.  (Bertrand's postulate  *)
(* gives more, a prime below twice the first.)  It is what guarantees that *)
(* a filter that forks has a number left to pass on.                       *)
(***************************************************************************)
ASSUME NextPrimeExists ==
  \A m \in Inputs : \A p \in 2..m :
    Prime(p) /\ p * p < m => \E q \in (p + 1)..m : Prime(q)

\* Phases in which a process has no child yet, and those in which it has one.
Childless == {"fork", "born", "readKey", "test", "drain", "collect"}
HasChild  == {"closeRead", "filter", "write", "wait"}

Alive(p) == phase[p] \notin {"unborn", "ended"}

\* The processes that exist are a chain in which children end first, and in
\* which a filter has read everything only when its parent has sent everything.
Chain ==
  /\ phase[0] \in HasChild \cup {"fork", "ended"}
  /\ \A p, q \in Procs : p < q =>
       /\ phase[p] \in Childless \cup {"unborn"} => phase[q] = "unborn"
       /\ phase[p] = "ended" => phase[q] \in {"unborn", "ended"}
  /\ \A p \in Procs :
       phase[p] \in HasChild => p < MaxProcs /\ phase[p + 1] # "unborn"
  /\ \A p \in Stages : phase[p] = "wait" => phase[p - 1] = "wait"

(***************************************************************************)
(* Who may write to a pipe is known exactly.  A process that is alive      *)
(* holds the read end of every pipe before it, until it has read its own   *)
(* to the end: the ends it inherited are never closed.                     *)
(***************************************************************************)
Ends ==
  \A p \in Procs :
    /\ wr[p] = IF phase[p] \in {"closeRead", "filter", "write"} THEN {p}
               ELSE IF phase[p] = "born" THEN {p - 1} ELSE {}
    /\ Alive(p) =>
         \A k \in 0..(p - 1) : k \in rd[p] \/ (k = p - 1 /\ phase[p] = "wait")

\* Where a filter that has its key is in its loop: iterations are left for
\* every number that can still come.
LoopOK(p) ==
  /\ 2 <= key[p] /\ key[p] <= got[p] /\ got[p] <= n
  /\ phase[p] \in {"test", "fork", "closeRead"} => got[p] = key[p]
  /\ phase[p] \in {"filter", "write", "drain"} =>
       left[p] + got[p] >= n - 1 + key[p]
  /\ phase[p] \in HasChild \cup {"fork"} => Below(p)

Loops ==
  /\ phase[0] \in {"fork", "closeRead"} => got[0] = 0
  /\ phase[0] = "write" => got[0] \in 2..(n + 1)
  /\ phase[0] = "wait" => got[0] = n + 1
  /\ \A p \in Stages : HasKey(p) => LoopOK(p)

\* Process p has sent what it read before m.
Ahead(p, m) == IF p = 0 \/ phase[p] = "write" THEN m < got[p] ELSE m <= got[p]

\* The next filter of process k has its key.
NextHasKey(k) == k < MaxProcs /\ HasKey(k + 1)

Contains(k, m) == \E i \in DOMAIN pipe[k] : pipe[k][i] = m

\* Pipe k holds, in order, sieved numbers between where its reader and its
\* writer are.
PipeOK(k) ==
  /\ phase[k] \in {"unborn", "closeRead"} \cup Childless => pipe[k] = << >>
  /\ \A i \in DOMAIN pipe[k] :
       /\ pipe[k][i] \in 2..n
       /\ Survives(pipe[k][i], k)
       /\ Ahead(k, pipe[k][i])
       /\ NextHasKey(k) => got[k + 1] < pipe[k][i]
       /\ \A j \in DOMAIN pipe[k] : i < j => pipe[k][i] < pipe[k][j]
  /\ NextHasKey(k) => Ahead(k, got[k + 1])
  /\ k > 0 /\ phase[k] = "write" => Survives(got[k], k)

Pipes == \A k \in Procs : PipeOK(k)

\* No number that passes the first k filters is lost: as far as process k has
\* come, each is in its pipe or has reached process k+1.
NoneLost(k) ==
  \A m \in 2..n :
    Survives(m, k) /\ (phase[k] = "wait" \/ Ahead(k, m)) =>
      Contains(k, m) \/ (NextHasKey(k) /\ m <= got[k + 1])

Complete == \A k \in Procs : phase[k] \in HasChild => NoneLost(k)

\* The keys are the first primes: key k is a prime, and every number up to it
\* is sieved by the keys so far.
KeyOK(k) ==
  /\ Prime(key[k])
  /\ \A j \in 1..(k - 1) : key[j] < key[k]
  /\ \A m \in 2..key[k] : ~Survives(m, k)

Keys == \A k \in Stages : HasKey(k) => KeyOK(k)

IInv == TypeOK /\ Chain /\ Ends /\ Loops /\ Pipes /\ Complete /\ Keys

(***************************************************************************)
(* What the verdict rests on.  The filters up to Tried(p) have tried their *)
(* key on n before process p goes on; at most one of those keys divides n. *)
(***************************************************************************)
Tried(p) == IF phase[p] \in HasChild \cup {"fork"} THEN p ELSE p - 1

FactorsOK(p) ==
  \/ factors[p] = << >> /\ \A j \in 1..Tried(p) : ~Divides(key[j], n)
  \/ \E i \in 1..Tried(p) :
       /\ factors[p] = <<key[i]>> /\ Divides(key[i], n) /\ key[i] * key[i] < n
       /\ \A j \in 1..Tried(p) : Divides(key[j], n) => j = i

Factored == \A p \in Procs : Alive(p) => FactorsOK(p)

\* Why a filter only drains its pipe.
DrainOK(p) ==
  \/ key[p] * key[p] = n
  \/ key[p] * key[p] < n /\ Divides(key[p], n) /\ Len(factors[p]) = 1

\* What a filter beyond the root has collected: everything it has read.
CollectOK(p) ==
  /\ key[p] * key[p] > n
  /\ left[p] + got[p] >= n - 2 + key[p]
  /\ \A m \in seen[p] : m \in 2..n /\ Survives(m, p - 1)
  /\ \A m \in 2..n :
       Survives(m, p - 1) /\ key[p] <= m /\ m <= got[p] => m \in seen[p]

Judging ==
  \A p \in Stages : /\ phase[p] = "drain" => DrainOK(p)
                    /\ phase[p] = "collect" => CollectOK(p)

(***************************************************************************)
(* Filter l has given the verdict: no process is without a child any more, *)
(* nobody has anything left to write, and what is left is a chain of       *)
(* wait()s that count.                                                     *)
(***************************************************************************)
Closes(l) ==
  /\ phase[l] = "ended"
  /\ \A q \in Procs : phase[q] = "unborn" <=> l < q
  /\ \A q \in 0..(l - 1) :
       \/ phase[q] \in {"wait", "ended"}
       \/ q = 0 /\ phase[0] = "write" /\ got[0] = n + 1
  /\ \A q \in 1..l : phase[q] = "ended" => status[q] = (l - q) % ExitMod
  /\ phase[0] = "ended" => status[0] = 0 /\ count = (l - 1) % ExitMod

Closing ==
  /\ phase[0] \notin {"filter", "drain", "collect"}
  /\ phase[0] # "ended" => count = -1
  /\ printed # << >> => \E l \in Stages : Closes(l)

FullInv == IInv /\ Factored /\ Judging /\ Closing /\ VerdictSound

(***************************************************************************)
(* What holds as well where fork() and the stack never fail: nobody was    *)
(* killed, and a filter has ended only if its parent has nothing left to   *)
(* write to it.                                                            *)
(***************************************************************************)
NothingToWrite(p) ==
  phase[p] \in {"wait", "ended"} \/ (p = 0 /\ phase[0] = "write" /\ got[0] = n + 1)

Healthy ==
  /\ \A p \in Procs : status[p] # Killed
  /\ \A p \in Stages : phase[p] = "ended" => NothingToWrite(p - 1)

=============================================================================
