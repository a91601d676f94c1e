-------------------------------- MODULE Runs --------------------------------
(***************************************************************************)
(* Run-length encoding as a function of whole texts, by which the programs *)
(* of assignment 2 are judged.  A text is a sequence of bytes; a packed    *)
(* one alternates counts, which are bytes too, and the bytes they repeat.  *)
(***************************************************************************)
EXTENDS Integers, Sequences, FiniteSetsExt

CONSTANT Width   \* values of an unsigned char

ASSUME WidthAssumption == Width \in Nat /\ Width >= 2

Byte == 0..(Width - 1)

\* The positions of the run of equal bytes around position i.
RunAround(s, i) ==
  {j \in DOMAIN s : \A k \in DOMAIN s : (i <= k /\ k <= j) \/ (j <= k /\ k <= i)
                                        => s[k] = s[i]}

\* A count holds the length of a run modulo Width: so much of it is left.
Kept(s) ==
  LET kept[i \in 0..Len(s)] ==
        IF i = 0 THEN << >>
        ELSE LET run == RunAround(s, i)
             IN  IF i - Min(run) < Cardinality(run) % Width
                 THEN Append(kept[i - 1], s[i]) ELSE kept[i - 1]
  IN  kept[Len(s)]

\* What a packed text stands for; a count without a byte is nothing.
Expand(f) ==
  LET copies[k \in 0..(Len(f) \div 2)] ==
        IF k = 0 THEN << >> ELSE copies[k - 1] \o [j \in 1..f[2 * k - 1] |-> f[2 * k]]
  IN  copies[Len(f) \div 2]

\* No run is as long as a count can wrap.
RunsFit(s) ==
  \A i \in DOMAIN s :
    i + Width - 1 \in DOMAIN s => \E j \in i..(i + Width - 1) : s[j] # s[i]

=============================================================================
