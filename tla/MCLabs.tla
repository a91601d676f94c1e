------------------------------- MODULE MCLabs -------------------------------
(***************************************************************************)
(* One run for the small programs.  They have nothing to do with each      *)
(* other, so a behaviour is one of one program: the variables of the       *)
(* others stay at one initial state, and only that program takes steps.    *)
(***************************************************************************)
EXTENDS Runs, Tree, Exercises

CONSTANTS
  MaxLength, MaxCommands,                  \* RunLength
  MayFail,                                 \* Checkpasswd
  MaxIter, ForkMayFail,                    \* ForkLoops
  Seconds, MaxReads,                       \* TimeReads
  MaxLevel, MaxRemovals,                   \* Myfind
  Highest, Patience,                       \* Guess
  MaxString, MaxNumber                     \* Exercises

ASSUME BoundsAssumption ==
  {MaxLength, MaxCommands, MaxIter, MaxReads, MaxString, MaxNumber, Highest} \subseteq Nat

ASSUME PatienceAssumption == Patience \subseteq BOOLEAN

Programs == {"run-length", "checkpasswd", "fork loops", "time_reads", "myfind", "cycle",
             "server port", "guess", "exercises"}

VARIABLES
  program,
  prompt, commands, text, packed, unread, count, byte, cut, source, careless,
  answer, parent, child, pipe, status, executed, said,
  shape, iterations, tty, at, i, buf, reaped, out, failed,
  seconds, main, armed, num_reads, done, report,
  tree, target, sought, closed, removed, calls, open, shown, refused, smashed,
  forest, links, locked, visited, says, alarm,
  owner, listening, server, bound, client, late, peer,
  secret, patient, fresh, ppc, pending, lowest, higest, guess, num_guess, found, seen,
  cpc, told, close,
  string, name, number

Strings(chars, length) == UNION {[1..k -> chars] : k \in 0..length}

Rl == INSTANCE RunLength WITH at <- prompt, Texts <- Strings({0, 1}, MaxLength)
Cp == INSTANCE Checkpasswd
Fl == INSTANCE ForkLoops
Tr == INSTANCE TimeReads WITH at <- main
Mf == INSTANCE Myfind WITH LinkTargets <- {In(Start), Out("nowhere")}
Cy == INSTANCE Cycle WITH tree <- forest, target <- links, closed <- locked,
                          LinkTargets <- Targets
Sp == INSTANCE ServerPort
Gu == INSTANCE Guess WITH shown <- seen

rlVars == <<prompt, commands, text, packed, unread, count, byte, cut, source, careless>>
cpVars == <<answer, parent, child, pipe, status, executed, said>>
flVars == <<shape, iterations, tty, at, i, buf, reaped, out, failed>>
trVars == <<seconds, main, armed, num_reads, done, report>>
mfVars == <<tree, target, sought, closed, removed, calls, open, shown, refused, smashed>>
cyVars == <<forest, links, locked, visited, says, alarm>>
spVars == <<owner, listening, server, bound, client, late, peer>>
guVars == <<secret, patient, fresh, ppc, pending, lowest, higest, guess, num_guess, found, seen,
            cpc, told, close>>
exVars == <<string, name, number>>
vars   == <<program, rlVars, cpVars, flVars, trVars, mfVars, cyVars, spVars, guVars, exVars>>

\* A tree of links to its root.
LinksOnly  == [parent |-> [e \in Entry |-> Start], kind |-> [e \in Entry |-> "link"]]
LinksStart == [e \in Entry |-> In(Start)]

Init ==
  /\ program \in Programs
  /\ program # "run-length"  => text = << >>
  /\ program # "checkpasswd" => answer = "match"
  /\ program # "fork loops"  => shape = "fan" /\ iterations = 0 /\ tty = TRUE
  /\ program # "time_reads"  => seconds = 1
  /\ program # "myfind"      => tree = LinksOnly /\ target = LinksStart /\ sought = {} /\ closed = {}
  /\ program # "cycle"       => forest = LinksOnly /\ links = LinksStart /\ locked = {}
  /\ program # "server port" => owner = [p \in Sp!Ports |-> "nobody"]
  /\ program # "guess"       => secret = 0 /\ patient = TRUE
  /\ IF program = "exercises"
     THEN \/ string = << >> /\ name = << >> /\ number \in -MaxNumber..MaxNumber
          \/ /\ string \in Strings({"a", "?"}, MaxString) /\ name \in Strings({"a"}, Capacity)
             /\ number \in 0..(MaxString + 1)
     ELSE string = << >> /\ name = << >> /\ number = 0
  /\ Rl!Init /\ Cp!Init /\ Fl!Init /\ Tr!Init /\ Mf!Init /\ Cy!Init /\ Sp!Init /\ Gu!Init

\* The chosen program takes a step.
Next ==
  /\ UNCHANGED <<program, exVars>>
  /\ \/ program = "run-length" /\ Rl!Next
        /\ UNCHANGED <<cpVars, flVars, trVars, mfVars, cyVars, spVars, guVars>>
     \/ program = "checkpasswd" /\ Cp!Next
        /\ UNCHANGED <<rlVars, flVars, trVars, mfVars, cyVars, spVars, guVars>>
     \/ program = "fork loops" /\ Fl!Next
        /\ UNCHANGED <<rlVars, cpVars, trVars, mfVars, cyVars, spVars, guVars>>
     \/ program = "time_reads" /\ Tr!Next
        /\ UNCHANGED <<rlVars, cpVars, flVars, mfVars, cyVars, spVars, guVars>>
     \/ program = "myfind" /\ Mf!Next
        /\ UNCHANGED <<rlVars, cpVars, flVars, trVars, cyVars, spVars, guVars>>
     \/ program = "cycle" /\ Cy!Next
        /\ UNCHANGED <<rlVars, cpVars, flVars, trVars, mfVars, spVars, guVars>>
     \/ program = "server port" /\ Sp!Next
        /\ UNCHANGED <<rlVars, cpVars, flVars, trVars, mfVars, cyVars, guVars>>
     \/ program = "guess" /\ Gu!Next
        /\ UNCHANGED <<rlVars, cpVars, flVars, trVars, mfVars, cyVars, spVars>>

\* The fairness of each module, for the program that runs.
Fairness ==
  /\ WF_rlVars(program = "run-length" /\ Rl!Program)
  /\ WF_cpVars(program = "checkpasswd" /\ Cp!Parent) /\ WF_cpVars(program = "checkpasswd" /\ Cp!Child)
  /\ \A p \in 0..MaxIter : WF_flVars(program = "fork loops" /\ Fl!Step(p))
  /\ WF_trVars(program = "time_reads" /\ Tr!Main) /\ WF_trVars(program = "time_reads" /\ Tr!Timer)
  /\ WF_mfVars(program = "myfind" /\ Mf!searchdir)
  /\ WF_cyVars(program = "cycle" /\ (Cy!Visit \/ Cy!NoCycle))
  /\ WF_spVars(program = "server port" /\ Sp!Server) /\ WF_spVars(program = "server port" /\ Sp!Client)
  /\ WF_guVars(program = "guess" /\ Gu!Parent) /\ WF_guVars(program = "guess" /\ Gu!Child)

Spec == Init /\ [][Next]_vars /\ Fairness

-----------------------------------------------------------------------------
\* Every program keeps to its types.
TypeOK ==
  /\ Rl!TypeOK /\ Cp!TypeOK /\ Fl!TypeOK /\ Tr!TypeOK /\ Mf!TypeOK /\ Cy!TypeOK /\ Sp!TypeOK
  /\ Gu!TypeOK
  /\ program \in Programs

\* compress_file and uncompress_file: see RunLength.
Restores == Rl!Restores

\* One of the two files holds the text, or what counts keep of it, whatever is
\* interrupted: see RunLength.
NothingLost == Rl!NothingLost

\* checkpasswd prints no wrong verdict, but for a failed execl(): see Checkpasswd.
SaysTruth == Cp!SaysTruth

\* checkpasswd prints every verdict of validate: see Checkpasswd.
VerdictReported == Cp!VerdictReported

\* childcreates and parentcreates: parents end last, but for a fan whose fork
\* fails; see ForkLoops.
ParentsLast == Fl!ParentsLast

\* childcreates and parentcreates: how often lines come out; see ForkLoops.
LinesOut == Fl!LinesOut

\* time_reads: the report is right by at most one; see TimeReads.
ReportTrue == Tr!ReportTrue

\* myfind prints every match once, with its path: see Myfind.
FindsAll == Mf!FindsAll

\* cycle is silent only if there is no cycle: see Cycle.
SilentMeansFree == Cy!SilentMeansFree

\* A client that begins when a server is in its port reaches it: see ServerPort.
Meet == Sp!Meet

\* guess: the inductive invariant of the game; see Guess.
IInv == Gu!IInv

\* guess: the range is never empty; see Guess.
SecretInRange == Gu!SecretInRange

\* guess: no number is guessed twice; see Guess.
NoGuessTwice == Gu!NoGuessTwice

\* guess: with a patient user the secret is found; see Guess.
FindsSecret == program = "guess" => Gu!FindsSecret

(***************************************************************************)
(* The functions of Exercises do what their comments and assignments say:  *)
(* the check of a number, the halves of an array, strings that are cut.    *)
(* The number is a natural one that an int holds; the assignment lets the  *)
(* program take its argument to be in the format of a SIN.                 *)
(***************************************************************************)
AsDocumented ==
  program = "exercises" =>
    /\ number \in 0..(IntWidth \div 2 - 1) => SinAsDocumented(number)
    /\ SplitAsDocumented(string)
    /\ StripAsDocumented(string)
    /\ number >= 0 => TruncateAsDocumented(string, number) /\ CopyAsDocumented(string, number)
    /\ GreetingAsDocumented(string, name)

(***************************************************************************)
(* Every program comes to its end, or back to the prompt: no loop runs for *)
(* ever and nobody waits for what does not come.  Without seconds the      *)
(* timer of time_reads never goes off, as it should; the two processes of  *)
(* guess do not always end (Guess, BothEnd).                               *)
(***************************************************************************)
EveryProgramEnds ==
  []<>CASE program = "run-length"  -> Rl!Prompt
        [] program = "checkpasswd" -> Cp!Ended
        [] program = "fork loops"  -> Fl!AllEnded
        [] program = "time_reads"  -> seconds = 0 \/ ~Tr!Running
        [] program = "myfind"      -> Mf!Done \/ smashed
        [] program = "cycle"       -> says # "walking"
        [] program = "server port" -> Sp!Ended
        [] OTHER                   -> TRUE

=============================================================================
