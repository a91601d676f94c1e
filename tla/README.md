# TLA+ models of the CSC209 systems programs

The repository collects small C programs written for a course on systems
programming. Four are systems whose steps interleave with somebody else's for a
whole session, and they have modules of their own: a pipeline of forked
processes that factors a number (assignment 3), a game server with two clients
over TCP, a guessing game of two processes that talk by signals (both assignment
4), and a server that cuts a byte stream into lines (lab 8). Of the others, those
that fork, are interrupted, walk through a file system that may change, or have
an arithmetic or string boundary are modelled too, each in a small module; they
share one run. The rest are formulas and formatted output.

## The system's parts

| part | state | operations | interacts by | what is hard |
|---|---|---|---|---|
| `pfact.c` | per process: `filter_key`, `factors`, loop counters, pipe ends; stdout | fork a filter, take a key, filter, drain, collect, verdict, wait | pipes, `fork`, exit codes | scheduling, blocking on full and empty pipes, SIGPIPE, end of file, faults half way, exit codes of 8 bits, uninitialised memory |
| `rpsls_server.c` | `connections`, `names`, `gestures`, `win`, `total`, `instru` | accept, read names, greet, ask, gather, decide, tell | TCP, `select` | two clients in any order, a client that leaves, a write to a closed peer |
| `rpsls_client.c` | name, line buffer, gesture | connect, send name, listen, play | TCP, a player | segment boundaries, the server's end, parsing the result |
| `socket.c` | port, sockets | bind, listen, accept, connect, find a newline | kernel, other programs' ports | a `bind` that fails |
| `guess.c` | `lowest`, `higest`, `guess`, `to_close` twice | guess, judge, handlers, `pause`, `kill` | signals, a user | signals between any two steps, lost wakeups |
| `compress_file.c`, `uncompress_file.c` | a run and its count | encode, decode | two files, each the other's input | the count is 8 bits wide; an interruption leaves half a file |
| `cycle.c`, `myfind.c` | path, result, directories that are open | walk a tree | the file system | symbolic links, entries that vanish, paths that do not fit |
| `bufserver.c` (lab 8) | a byte buffer | read, cut off lines | TCP | lines cut anywhere, a full buffer |
| `checkpasswd.c` (lab 6) | exit code | fork, write, exec, wait | a pipe, exit codes | a failed `execl`, a reader that ends early |
| `childcreates.c`, `parentcreates.c` (lab 6) | loop counters, stdio's buffer | fork, print, wait | exit codes, one terminal or file | who ends first, lines that are copied by `fork`, a `fork` that fails |
| `time_reads.c` (lab 7) | `num_reads`, the timer | arm, count, read, report | SIGPROF, from the timer or by `kill` | the handler's moment |
| `validate_sin.c`, `split_array.c`, `strip.c`, `truncate.c`, `greeting.c`, `copy.c` | none that lasts | one function each | - | widths, odd and even, the last byte of an array |
| the rest of the labs and assignment 1, the lectures | none that lasts | formulas, formatted output | - | - |

What makes each of the four correct: *pfact* gives the right verdict once, its
filters are the primes in order, it ends, and it reports failure as failure.
*rpsls* decides each round by the rules from the gestures sent for it, tells
both players the truth, and ends when a player wants or has to. *guess* never
loses the secret from its range, finds it, and ends both processes. *bufserver*
prints the lines it was sent, whatever pieces they come in.

What makes the small ones correct: decoding gives back what was encoded, and
never are both files lost; a reported verdict is the one that was given, and one
that was given is reported; no process ends before its children; a walk misses
nothing that it can reach; a client reaches the server that is in its port; a report counts
what was done; a function does what its comment asks at every boundary; each
program comes to its end.

## Modules

| module | models | kind |
|---|---|---|
| `Primes` | divisibility, primes, the verdict owed for a number | operators |
| `Sieve` | what pfact promises: primes in order, one right verdict | abstract spec |
| `Pfact` | `pfact.c` | detailed spec |
| `PfactInv` | the inductive invariants of `Pfact` | invariants |
| `PrimesProofs`, `PfactProofs`, `PfactVerdictProofs` | divisors; what is in the pipes; verdicts and exit codes | proofs |
| `Gestures` | `test`, `set_number`, and the rules of the game | operators |
| `Match` | what server and clients promise together | abstract spec |
| `Rpsls`, `MCRpsls` | `rpsls_server.c`, `rpsls_client.c`, the parts of `socket.c` they call | detailed spec |
| `RpslsProofs` | | proofs |
| `Guess` | `guess.c` | detailed spec |
| `LineStream` | what a line server promises its clients | abstract spec |
| `BufServer`, `BufServerProofs` | `bufserver.c` | detailed spec, proofs |
| `Runs` | run-length encoding of whole texts | operators |
| `RunLength` | `compress_file.c`, `uncompress_file.c` | detailed spec |
| `Checkpasswd` | `checkpasswd.c` | detailed spec |
| `ForkLoops` | `childcreates.c`, `parentcreates.c` | detailed spec |
| `TimeReads` | `time_reads.c` | detailed spec |
| `Tree` | directories, files and links below a directory | operators |
| `Myfind`, `Cycle` | `myfind.c`, `cycle.c` | detailed specs |
| `ServerPort` | `set_up_server_socket` and `connect_to_server` of `socket.c` | detailed spec |
| `Exercises` | functions of assignment 1 and labs 2, 3 and 5, beside definitions of what they should do | operators |
| `LabLemmas` | trees, run-length encoding, sums of digits and strings for every size | proofs |
| `MCLabs`, `MCLabsProofs` | `guess`, the seven small programs and the functions of `Exercises`, one per behaviour | for TLC, proofs |

### Pfact

Process 0 is `main`, process k the k-th filter; `phase[p]` says where a process
is. A loop of the code that reads, tests and writes one number is two actions,
one for the blocking `read` (`FilterRead`) and one for the blocking `write`
(`Forward`), so that processes interleave at every point where the kernel can
switch between them and the other can notice. `rd` and `wr` are the descriptor
tables; `fork` copies them, `End` closes what is left, `EOF` and SIGPIPE are
derived from them. `left` is the for loop's counter, because a filter stops
after n-1 numbers or at end of file, whichever comes first. `seen` is the part
of `possible_factors[]` that was written: a search for the cofactor succeeds if
it is there, and may succeed if it is in `Garbage`. Faults: `fork` or `pipe`
fails when `ForkMayFail`, `pipe` fails at `MaxFds` descriptors, the last filter
is killed when its array is longer than `StackInts`.

### Rpsls

Lines travel in `up[p]` and `down[p]`; a client takes any number of the lines
that have arrived, so every way TCP may group them is covered. Each `write` of
the server is a step (`to` is the next recipient). `sock[p]` is what the
server's end knows: `open`; `closed` when the peer's end of stream is there (a
`read` gives 0, one `write` is taken); `doomed` after that write; `reset` when
the peer's answer to it has come, or at once when the player left with unread
lines (a `read` fails or gives 0, a `write` ends the server). The lobby accepts
at most one client per turn of `select` and reads names only of clients
accepted in an earlier turn, as the code does. `Word` is the client's `strstr`
cascade over the text "X beat Y.", with names known by what `strstr` can find:
`Begins`, `TieNames`, `GreetHeads`, `GreetParts`. `Match` promises a match until
a player leaves in the middle of it (`abandoned`, which is `SomebodyLeft` here);
what holds from then on is said of `Rpsls` itself. A gesture of zeros leaves
`test`'s locals unset: their value is anything in `Stack`.

### Guess

`pending` and `told` are the sets of pending signals; a handler is an action
enabled as soon as its signal is pending, in any state, and it moves a process
out of `paused` but not out of `toPause`: that is the window in which a wakeup
is lost. The user judges each guess once and truthfully; `patient` says whether
the user answers only after the parent has reached `pause`, which the child's
`sleep(1)` and human reaction time make true in practice and nothing in the
code guarantees. Both kinds of user are checked. Since each guess is judged once,
no second signal comes while one is pending, and none for a guess that has been
judged. `shown` is a history, which no action reads: the numbers guessed so far.

### BufServer

`buf` is the part of the buffer that is in use. `Read` takes any number of bytes
that have come and fit, so every segmentation is covered. A client's line longer
than the buffer makes `room` 0; `read` then returns 0 and the connection is
closed. That is the one loss `LineStream` allows (`Hopeless`). The string
functions of `find_network_newline` do two things its comment does not ask for.
Behind a zero byte `strstr` sees no newline (`Newlines`), so that a client that
sends zero bytes does not get what `LineStream` promises: `LinesAsSent` is
checked for clients that send text, and `FindsNewline` shows the other ones. And
without a zero byte among the n that are searched `strcpy` writes one behind
`search[n]`; with a full buffer it reads beyond that too (`Overrun`). What comes
of this is up to the build: the server goes on as if nothing were, or it is
`crashed`, which stands for anything else.

### RunLength

A session of a user with one file and its packed form. `Compress` and
`Uncompress` open both files, which truncates one of them, and read the first
byte or pair; `Count`, `Write` and `ExpandPair` are the bodies of the loops, one
byte each. `count` wraps at `Width`, the values of an unsigned char.
`Interrupt` is a SIGINT at any step: the output file keeps whatever prefix stdio
has flushed. Ghosts: `source` is the file at the last `Compress`, `cut` the file
that was cut by an interruption, and `careless` says that such a file was used
as input. `Runs` has the reference: what a packed text stands for (`Expand`) and
what of a text survives a count that wraps (`Kept`). `Restores` says what the
programs do, and that this is the whole text if no run is as long as the count is
wide; with longer runs it is not what the assignment asks for (see below).

### Checkpasswd

Every system call is a step of the parent (`Fork`, `SendUser`, `SendPassword`,
`Wait`) or of the child (`Dup2`, `Execl`). `validate` is not in the repository:
it reads two records and ends with one of the codes the code tests for
(`CodeOf`), or with an error or by a signal (`ValidateFails`). A write after the
child's end is SIGPIPE. `executed` is a ghost.

### ForkLoops

One module for two loops that differ in who goes on: `shape` is a chain
(`childcreates.c`) or a fan (`parentcreates.c`). Process k + 1 is the one made
in iteration k. `buf` is stdio's buffer, a set of lines that `fork` copies and
`End` writes; on a terminal (`tty`) a line comes out at once. `Wait` is one
`wait()`: any ended child that was not waited for. `LinesOut` says for each line
how often it comes out at the end: in every iteration one of the two processes
goes on with the loop (`GoesOn`) and the other has done its part (`StopsIn`).
The model's buffer is never full: `MaxIter` stands for arguments whose lines fit
into stdio's buffer for a file, some hundred of them.

### TimeReads

`Count` and `Read` are two steps, the handler comes between any two, from the
timer or from `kill`; before `sigaction` the signal ends the program.

### Tree, Myfind, Cycle

A tree is a parent and a kind for each entry; all trees of N entries are tried,
with every set of unreadable directories. `readdir`, `realpath` and `nftw` are
external, by what the code relies on. In `Myfind` `calls` is the stack of active
`searchdir`s, each with the entries `readdir` has still to give; `open` is the
directory `searchdir` was just called for, so that somebody else can remove it
in between (`Remove`). For what is gone `realpath` leaves anything in
`printpath`. A path of more than `MaxLevel` components does not fit into
`fullpath` (`smashed`), after which nothing is said. In `Cycle` `fn` compares
texts of paths; a directory whose name begins like the start's is the target
`lookalike`. The order of `nftw` is left open. Entries may be removed under
`myfind`, none is added.

### ServerPort

Three ports stand for the first, the next and whatever the kernel gives to a
socket that was not bound; other programs `Take` and `Leave` the first two at
any time. `bound` and `late` (the client began when the server was there) are
ghosts. `Meet` is about a server that has got its port; one that has not, because
the port is in use, should try the next (`ServesPort`) and does not.

### Exercises

The functions as operators over sequences and integers, and beside each the
statement of its comment or assignment (`...AsDocumented`). `AsDocumented` asks
for them where the code keeps them: for a SIN that is where the number is a
natural one that an int holds, of any number of digits; for a greeting it is the
text that is printed. Outside that range numbers that are negative, or that `Cut`
makes fit an int, may be called valid; nothing is claimed of them. The zero byte
that `strncat` may put behind `greeting[20]` is not in the model. Loops that add
up digits are recursive functions (`SumOf`).

## Runs

| run | shows | bounds |
|---|---|---|
| `pfact_sieve` | without faults `Pfact` implements `Sieve` (with its fairness); no SIGPIPE; pairs are prime | inputs up to 49 give pipelines of one to five processes and every kind of verdict: prime, square, two primes, a power, a product of three |
| `pfact_faults` | with every fault: keys are the primes, pipes are sieved, verdicts sound, no orphan, all ends; `FullInv` holds | `MaxFds = 7` and `StackInts = 29` make both limits bite in the middle of the inputs |
| `pfact_uninit` | finding: an old stack value is taken for a factor | |
| `pfact_masked` | finding: failure 255 plus 1 is exit code 0 | |
| `rpsls_match` | whoever leaves, and when: types, lockstep, true words and scores, the server ends; until somebody leaves, refinement of `Match` and the match ends | 2 rounds are the least in which a gesture, a result or a count could leak from one round into the next; a third against an absent player; `MaxTotal`, more than `MaxRounds`, bounds how late a reset may be; 3 names, one the beginning of another and of the greeting, one that occurs in the text of a tie |
| `rpsls_words` | finding: a loser reads "win" | |
| `rpsls_absent` | finding: a round is decided without a gesture | |
| `guess_end` | finding: the child misses the parent's SIGINT | 4 numbers |
| `bufserver_lines` | `BufServer` implements `LineStream` for clients that send text; every client is served | streams of 6 bytes and a buffer of 4: lines that fit exactly, that do not fit, empty lines, and a CR at the end of a piece; two clients, so that a leftover would show |
| `bufserver_zero` | finding: a newline behind a zero byte is not found | streams of 4 bytes |
| `labs` | `guess` and the small programs, one per behaviour: see below | |
| `port_busy` | finding: a server whose port is in use serves neither of the two ports | no bounds |

The bounds of `labs`, program by program:

| program | shows | bounds |
|---|---|---|
| run-length | `Restores`: what comes back is the text, except for runs as long as the count is wide; `NothingLost`: one of two files holds the text, or what counts keep of it, whatever is interrupted | counts of 3 values instead of 256 and all texts of up to 5 bytes: runs below, at and above the width, and several runs; 3 commands: encode, interrupted decode, decode again |
| checkpasswd | `SaysTruth`, `VerdictReported` | no bounds |
| fork loops | `ParentsLast`, `LinesOut` | 4 iterations; at 3 a chain and a fan differ in every count |
| time_reads | `ReportTrue` | 3 reads |
| myfind | `FindsAll`: every reachable match once, with its path, whatever is removed beside it | every tree of 3 entries: a directory in a directory with an entry; one removal; paths of 2 components fit |
| cycle | `SilentMeansFree`: "No cycle found." is true | every tree of 3 entries and every target: links to links, two links that close a cycle together |
| server port | `Meet`: a client that begins when a server is there that got its port reaches it | no bounds |
| guess | `IInv`; `SecretInRange`; `NoGuessTwice`: no number is guessed twice; `FindsSecret`: with a patient user the secret is found | 8 numbers, every secret, both kinds of user |
| exercises | `AsDocumented` | SINs of 3 digits and an int of 2048 values, so that numbers with fewer and with more digits are there; strings of up to 5 characters and an array of 4 |

`EveryProgramEnds` says for each of them that it comes to its end (for `guess` it
says nothing: its two processes do not always end, see `guess_end`), and `TypeOK`
is the conjunction of their types. The behaviours of one program never mix with
those of another: `program` is chosen at the start, and the rest stays as it is.

Two players, one server and a chain of processes are the program's own sizes.
Pipes hold 2 or 3 numbers instead of 16384 so that they fill up; in
`pfact_masked` 60, so that nobody is stopped by a full one. All runs switch the
deadlock check off: each program is meant to stop, and that it stops in the
right state is what `Terminates`, `GameEnds`, `LeavingEndsServer`, `AllServed`,
`FindsSecret` and `EveryProgramEnds` say.

Each property of a passing run is accompanied by a mutant, a definition of the
module with one plausible slip in it (its comment starts with "Mutant"), under
which the property fails.

## Fairness

`Pfact`: weak fairness of every process; the kernel schedules each process that
can run, and blocked processes are those with no enabled action. `Rpsls`: weak
fairness of the server, of each client (the players come, answer, and ask for
the end after `MaxRounds` gestures) and of the arrival of resets; none for
leaving. `Guess`: weak fairness of both processes; the user answers.
`BufServer`: weak fairness of the server; each client sends its bytes and
closes. The small programs: weak fairness of each process, as for the four;
none for interruptions, failures, removals and other programs' ports. The timer
of `time_reads` goes off because the loop uses processor time, which is what it
counts; `Count` is bounded by `MaxReads` only to keep the loop finite. No strong
fairness is used anywhere.

## What is proved

Every theorem holds for every value of the constants, except where a hypothesis
is named. The hypotheses are these, and each is the program's normal case:
`Garbage = {}` (no old stack value looks like a candidate factor) for two of
Pfact's theorems, that resources suffice for `NobodyIsKilled`, and
`"0" \notin Bytes` (clients send text) for `BufServerImplements`. `pfact_uninit`,
`pfact_faults` and `bufserver_zero` show what happens without them.

**Pfact** (`PfactProofs`). For every set of inputs, pipe size, descriptor and
stack limit, exit code width, and with or without faults: types
(`TypeCorrect`), the k-th filter's key is the k-th prime (`KeysPrime`), pipes
hold sieved numbers in order (`PipesSieved`), a process ends after its
descendants (`NobodyLeftBehind`). All follow from `IInv`
(`THEOREM Invariant`). None of them is inductive by itself: that a key is prime
needs that no number was lost before it (`Complete`), this needs that numbers
in a pipe are ordered and lie between its reader and its writer (`Pipes`), that
a loop has iterations left for all of them (`Loops`), and that end of file
comes only when the writer has really finished, which depends on who holds
which write end (`Ends`) and on the order in which the chain is born and ends
(`Chain`). That a filter which forks still has a number to pass on, without
which its child would go on with a stale key, rests on `NextPrimeExists`: between
a prime and any number above its square lies another prime, a weak form of
Bertrand's postulate, assumed in `PfactInv` for the inputs and evaluated by TLC
for those of `pfact_faults`.

**Pfact's verdicts** (`PfactVerdictProofs`). A verdict is given by the last
filter from `filter_key`, from what it found in `factors`, and from the array
`possible_factors[]` it collected; it is right because of all that its
ancestors did not find. `FullInv` adds this to `IInv`: every key before a
process was tried and its result is known (`Tried`, `Factored`), what the last
filter holds in its pipe and in its array is every sieved number up to the root
of n (`DrainOK`, `CollectOK`, `Judging`), and after the verdict each exit code
on the way to `main` is one more than the one behind it (`Closes`, `Closing`).
From it follow `VerdictsAreSound`, `OutcomeIsCounted`, and, if `Garbage = {}`,
`PairsArePrime` and `ImplementsSieve`: every step of the pipeline, with any
faults, is a step of `Sieve` or changes nothing there. The arithmetic is in
`PrimesProofs`: a prime that divides a product divides one of its factors
(`Euclid`, by descent to a least counterexample), a composite number has a prime
divisor not above its root (`SmallDivisor`), and what each of the four kinds of
verdict means for n (`AnswerSquare`, `AnswerPair`, `AnswerPrimes`, ...).
`NobodyIsKilled` (`NoBrokenPipe`) needs the absence of faults and uses
`Healthy`: as long as nobody has failed no reader ends before its writer. How
many descriptors are enough (`Resources`, which `pfact_sieve` meets exactly)
rests on `Held`: the read ends a filter inherits are never closed, so it holds
one of every pipe before it when it forks, and no more.

**Guess** (in `MCLabsProofs`; `GameInvariant`). For every range and both kinds of user: the secret
stays in the range (`RangeKeepsSecret`), which makes the modulo in `guess.c:117`
defined, and no number is guessed twice (`NoRepetition`): of the numbers in
`shown` only the current guess can still be in the range, and only until its
handler has run. The invariant says who has the turn: a fresh guess, one pending
judgement of exactly the guess shown, or neither; without it a handler could
apply a judgement to another guess.

**Rpsls** (`RpslsProofs`). For every pair of gestures, and whatever
uninitialised locals hold, `test` returns the winner by the rules
(`TestByTheRules`). For any names and any number of rounds, and whoever may
leave: types (`RpslsTypeOK`), server and clients keep in step
(`RpslsLockstep`), the word a client prints after a round is the truth
(`RpslsTellsWinner`, for names that `strstr` tells apart), and the scores a
player reads at the end are true (`RpslsStatsTrue`). The safety part of
`PlaysMatch` (`RpslsPlaysMatch`): until a player leaves in the middle of the match,
every step is a step of `Match` or changes nothing there. The invariant (`RInv`) says for each phase of
the server and each player what is on its way to the client and what from it:
nothing, the greeting, an instruction, a result, or a result and then an
instruction; in the middle of a broadcast this differs for the two players. It
is what makes a gesture one of this round and a result one of the gestures the
player has sent. Types and scores need `TInv` besides, about players of whom
nobody knows whether they are still there: what one has sent before it left is
still read, in its own round (`Sent`), and the score cannot run on without
bound, because a player who stays, or whose end of stream is new to the server,
has not been asked more than `MaxRounds + 1` times (`Late`).

**BufServer** (`BufServerProofs`). For a buffer of any size: types
(`BufServerTypeOK`) and, for clients that send text, `BufServerImplements`, the
refinement of `LineStream` (`LinesAsSent`) for whatever pieces `read` delivers. The invariant ties what was
printed, the buffer and what is still on the way to the stream the client sent,
and says that there is no whole line in the buffer when `read` is called.

**The small programs** (`MCLabsProofs`). A lemma (`OneRuns`) splits a step of
the composition into steps of each program, `guess` among them; then, each from an invariant of its
own:
- `TypesKept`: the types of all of them.
- `TextIsKept` (run-length): one of the two files holds what of the text a count
  of `Width` values can keep, unless a file that was cut by an interruption was
  used as input. `TextComesBack`: what comes back is the text, except for its
  long runs. The invariant says which part of the input has become output:
  while encoding, the pairs written stand for the text before the current run,
  which starts where a run of the text starts; while decoding, what is written
  and the copies still owed stand for the first k pairs; and it says which of
  the files is cut. That the recursion over a text defines a function, and that
  a whole run adds the same to `Kept` and to `Expand`, is in `LabLemmas`, from
  facts on least numbers and not by the library's induction.
- `VerdictsTrue` (checkpasswd): a verdict that is printed is the one validate
  came to, or "Password verified" after a failed `execl`. The invariant ties the
  exit status to who set it: 0 comes from validate or from a child that never
  became validate.
- `ParentsEndLast` (fork loops): no process ends before its children, but for a
  fan whose `fork` fails. In a chain only the last process is in the loop; in a
  fan no process has been made beyond the parent's iteration, those it has
  waited for have ended, and then as many of them as there were iterations are
  all of them, by their cardinality.
- `LinesComeOut` (fork loops): for any number of iterations whose lines fit into
  stdio's buffer, every line comes out as often as it should. A
  buffer holds exactly the lines its process has taken along from its ancestors
  and its own, and what has come out of a line is the number of its holders that
  have ended; at the end the holders are an interval of processes.
- `ReportIsTrue` (time_reads): the report is the number of reads done, or one
  more.
- `SilenceIsFree` (cycle): after "No cycle found.", in a tree of any size, every
  link that was reached and leads into the tree leads to its own directory; the
  ways that are left all lead down, so that none comes back. What the walk has
  not come to lies below a directory that cannot be read.
- `EveryMatchFound` (myfind): every match that can be reached is printed with
  its path, once, and nothing else is, in a tree of any size, whatever is removed
  on the way. The stack of active `searchdir`s is a way down from the start,
  with the entries each has still to read; an entry that can be reached was
  printed, or lies at or below one that is still to be read. The induction on
  the tree is one on least numbers; `LabLemmas` shows that the recursion for
  "below" defines a function.
- `ClientMeetsServer` (server port): the server has the first port exactly if
  its `bind` succeeded, and a client that begins when it serves there is never
  sent on to the second.
- `FunctionsAsDocumented`: the functions of `Exercises` keep their statements
  for all inputs up to the bounds; that they keep them for every natural number
  that an int holds and every string is `FunctionsKeepTheirWord`, in `LabLemmas`.
  Adding the digits from the
  right, as the code does, and from the left, as the statement does, is the
  same sum (`SumBackwards`). That a power of ten is positive is an assumption of
  `Exercises`: the prover knows no powers.

Every safety invariant that a passing run checks is stated by one of these theorems.
Only model-checked is what is temporal, which is beyond the prover: `Terminates`,
`GameEnds`, `LeavingEndsServer`, `FindsSecret`, `AllServed`, `VerdictReported`,
`EveryProgramEnds`, and the fairness part of `AnswersAsSieve` and `PlaysMatch`.

## Not modelled

Formatting, usage messages and prompts. System calls that fail for reasons the
programs cannot meet (`read`, `close` and `wait` on valid arguments). In
`Rpsls`: a name or gesture that TCP cuts in two, names longer than the buffers;
which port is used is the matter of `ServerPort`. In `Guess`: a user who judges
wrongly, twice, or not at all, so that no judgement is merged with one that is
pending; and Ctrl-C from the terminal. In `Pfact`: integers
wider than `int` (n near 2^31).

In `RunLength`: file names, and `strcat` on `argv[1]`, which lengthens a string
the program was given in place. In `Checkpasswd`: input that ends before two
lines. In `Myfind`: a start directory that cannot be resolved, and `sprintf` onto
one of its own arguments (myfind.c:33), which does what is meant in the build of
the Makefile; file systems that do not tell the type of an entry. In `Cycle`:
`cycle` with a directory named, which the test `argc <= 2` takes for no
directory, a start that is a link, and the zero bytes that are written just
behind `target` and `path` (cycle.c:33 and 40). `Cycle` is silent about a link to
its own directory or out of the tree, and calls links to cousins and to files
cycles: `SilentMeansFree` is the one direction the code keeps. In `TimeReads`: `printf`
in the handler, while the loop may be in stdio itself. In `ForkLoops`: so many
lines that stdio flushes its buffer before the end. In `Exercises`: a negative
length for `truncate` and a capacity of 0 for `copy`.

Not modelled at all, because they keep no state and have no boundary that TLC
would find better than a reader: `invest.c`, `phone.c`, `phone_loop.c`,
`score_card.c`, `compare.c`, `fibonacci.c`, `count_small.c` (a comparison of
columns of `ls -l`, which takes directories along), `write_test_file.c`, the
bitmap programs of labs 4 and 5 (file formats), and the lectures' worksheet,
which does not compile.

## Disagreements without a run

Seven runs show a disagreement of the code with its comments or its assignment.
These others are known, from the models or from reading; no run shows them, and
where a property is near to one it says so in its comment.

- A run of 256 equal bytes is written with count 0 and does not come back
  (compress_file.c:18); Assignment PA2 asks for a program that reverses the
  compression.
- `cycle` reports links to cousins, to files and to directories whose name begins
  alike (cycle.c:42); PA2 asks whether there is a cycle.
- After a failed `execl` the child ends with 0 and the parent prints "Password
  verified" (checkpasswd.c:88-95); Lab 6 wants that only for a match.
- A fan whose `fork` fails leaves the children it has (parentcreates.c:21);
  Lab 6 wants no parent to end before its children.
- The number of filters is an exit code, modulo 256 (pfact.c:236); PA3 asks for
  the number.
- The search for a newline copies n bytes and a zero byte into `search[n]`
  (bufserver.c:100-101) although the comment above asks for the first n bytes to
  be searched. The action is in the model (`Overrun`), no property is about it.
- Numbers outside the format of a SIN may be called valid (validate_sin.c:11);
  Assignment PA1 lets the program take the format for granted.
- `strncat` may put its zero byte behind the array (greeting.c:44), where the
  comment asks for a greeting that is properly cut (greeting.c:22-23).

## Plan

The four systems and the small programs are modelled, and every safety invariant
of the runs is proved. What could be added: runs for the disagreements above, and
a `greeting` whose array is modelled byte by byte.
