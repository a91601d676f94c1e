----------------------------- MODULE RunLength ------------------------------
(***************************************************************************)
(* compress_file and uncompress_file (assignment 2) as a user runs them,   *)
(* one after the other, on a file and its packed form, foo and foo.rle.    *)
(* Each program truncates the file it writes before it reads the other     *)
(* one, and each may be interrupted; what has been written by then reaches *)
(* the file in part, because stdio flushes when it pleases.                *)
(***************************************************************************)
EXTENDS Runs

CONSTANTS
  Texts,         \* what the file may hold at first
  MaxCommands    \* bound: commands of one session

VARIABLES
  at,            \* the prompt, or where a program is
  commands,      \* commands so far
  text, packed,  \* contents of the two files
  unread,        \* what the running program has not read of its input
  count, byte,   \* count and formal_ch, or count and value
  cut,           \* the file that is open for writing, or was when interrupted
  source,        \* ghost: text when it was last compressed
  careless       \* ghost: a file known to be cut has been used as input

vars == <<at, commands, text, packed, unread, count, byte, cut, source, careless>>

Prompt == at \in {"start", "packed", "unpacked", "interrupted"}

Init ==
  /\ at = "start" /\ commands = 0
  /\ text \in Texts /\ packed = << >>
  /\ unread = << >> /\ count = 0 /\ byte = 0
  /\ cut = "packed" /\ source = text /\ careless = FALSE

-----------------------------------------------------------------------------
\* compress_file foo: opens both files and reads the first byte; an empty
\* file is refused, with an empty foo.rle.
Compress ==
  /\ Prompt /\ commands < MaxCommands
  /\ commands' = commands + 1
  /\ source' = text /\ packed' = << >>
  /\ careless' = (careless \/ cut = "text")
  /\ IF text = << >>
     THEN at' = "packed" /\ cut' = "none" /\ UNCHANGED <<unread, count, byte>>
     ELSE /\ at' = "count" /\ cut' = "packed"
          /\ byte' = Head(text) /\ unread' = Tail(text) /\ count' = 0
  /\ UNCHANGED text

\* Mutant: the count is taken to have no end.
CountOn ==
  /\ at = "count"
  /\ count' = count + 1
  /\ IF unread # << >> /\ Head(unread) = byte
     THEN unread' = Tail(unread) /\ UNCHANGED at
     ELSE at' = "write" /\ UNCHANGED unread
  /\ UNCHANGED <<commands, text, packed, byte, cut, source, careless>>

\* The body of the do loop: a byte is counted and the next one looked at.
Count ==
  /\ at = "count"
  /\ count' = (count + 1) % Width
  /\ IF unread # << >> /\ Head(unread) = byte
     THEN unread' = Tail(unread) /\ UNCHANGED at
     ELSE at' = "write" /\ UNCHANGED unread
  /\ UNCHANGED <<commands, text, packed, byte, cut, source, careless>>

\* Mutant: the count is not reset for the next run.
WriteOnly ==
  /\ at = "write"
  /\ packed' = packed \o <<count, byte>>
  /\ IF unread = << >>
     THEN at' = "packed" /\ cut' = "none" /\ UNCHANGED <<unread, count, byte>>
     ELSE /\ at' = "count" /\ byte' = Head(unread) /\ unread' = Tail(unread)
          /\ UNCHANGED <<count, cut>>
  /\ UNCHANGED <<commands, text, source, careless>>

\* The pair is written, and the next run begins with the byte read last.
Write ==
  /\ at = "write"
  /\ packed' = packed \o <<count, byte>>
  /\ IF unread = << >>
     THEN at' = "packed" /\ cut' = "none" /\ UNCHANGED <<unread, count, byte>>
     ELSE /\ at' = "count" /\ byte' = Head(unread) /\ unread' = Tail(unread)
          /\ count' = 0 /\ UNCHANGED cut
  /\ UNCHANGED <<commands, text, source, careless>>

-----------------------------------------------------------------------------
\* Reading a count and its byte: both are there, or the loop ends.  A count
\* alone is forgotten.
ReadPair(f, loop, end) ==
  IF Len(f) >= 2
  THEN /\ count' = f[1] /\ byte' = f[2] /\ unread' = SubSeq(f, 3, Len(f))
       /\ at' = loop /\ cut' = "text"
  ELSE /\ unread' = << >> /\ at' = end /\ cut' = "none" /\ UNCHANGED <<count, byte>>

\* Mutant: the suffix is not taken off, and the input is truncated.
UncompressInPlace ==
  /\ Prompt /\ at # "start" /\ commands < MaxCommands
  /\ commands' = commands + 1
  /\ careless' = (careless \/ cut = "packed")
  /\ packed' = << >> /\ text' = << >>
  /\ ReadPair(<< >>, "expand", "unpacked")
  /\ UNCHANGED source

\* uncompress_file foo.rle: opens both files and reads the first pair.
Uncompress ==
  /\ Prompt /\ at # "start" /\ commands < MaxCommands
  /\ commands' = commands + 1
  /\ careless' = (careless \/ cut = "packed")
  /\ text' = << >>
  /\ ReadPair(packed, "expand", "unpacked")
  /\ UNCHANGED <<packed, source>>

\* One copy is written; after the last one the next pair is read.
ExpandPair ==
  /\ at = "expand"
  /\ IF count > 0
     THEN /\ text' = Append(text, byte) /\ count' = count - 1
          /\ UNCHANGED <<at, unread, byte, cut>>
     ELSE ReadPair(unread, "expand", "unpacked") /\ UNCHANGED text
  /\ UNCHANGED <<commands, packed, source, careless>>

\* The user stops the program: its output file keeps some prefix.
Interrupt ==
  /\ ~Prompt
  /\ at' = "interrupted"
  /\ IF at = "expand"
     THEN \E k \in 0..Len(text) : text' = SubSeq(text, 1, k) /\ UNCHANGED packed
     ELSE \E k \in 0..Len(packed) : packed' = SubSeq(packed, 1, k) /\ UNCHANGED text
  /\ UNCHANGED <<commands, unread, count, byte, cut, source, careless>>

-----------------------------------------------------------------------------
Program == Count \/ Write \/ ExpandPair

Next == Program \/ Compress \/ Uncompress \/ Interrupt

\* A program that is not interrupted runs on.
Fairness == WF_vars(Program)

Spec == Init /\ [][Next]_vars /\ Fairness

-----------------------------------------------------------------------------
TypeOK ==
  /\ at \in {"start", "count", "write", "expand", "packed", "unpacked", "interrupted"}
  /\ commands \in 0..MaxCommands
  /\ text \in Seq(Byte) /\ packed \in Seq(Byte) /\ unread \in Seq(Byte)
  /\ count \in Byte /\ byte \in Byte
  /\ cut \in {"none", "text", "packed"}
  /\ source \in Seq(Byte) /\ careless \in BOOLEAN

(***************************************************************************)
(* What uncompress_file gives back is what compress_file was given, except *)
(* that of each run only its length modulo Width is left; so it is the     *)
(* same text as long as no run is Width bytes long.                        *)
(***************************************************************************)
Restores ==
  at = "unpacked" /\ ~careless =>
    /\ text = Kept(source)
    /\ RunsFit(source) => text = source

(***************************************************************************)
(* Although each program truncates its output before it reads its input,   *)
(* and whatever it is doing when it is stopped, one of the two files still *)
(* holds the text, or what counts can keep of it (Kept), for a user who    *)
(* does not go on with the file that was cut.                              *)
(***************************************************************************)
NothingLost == ~careless => text = source \/ Expand(packed) = Kept(source)

=============================================================================
