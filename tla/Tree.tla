-------------------------------- MODULE Tree --------------------------------
(***************************************************************************)
(* The file system below the directory a program of assignment 2 walks     *)
(* through: entries, each in a directory that is one of them or the one    *)
(* the walk starts in.                                                     *)
(***************************************************************************)
EXTENDS Integers, FiniteSetsExt

CONSTANT N       \* entries

ASSUME TreeAssumption == N \in Nat

Entry == 1..N
Start == 0       \* the directory the walk starts in

\* Where a symbolic link may point that is not in the tree: a directory above
\* it, another one, one of those with a path that begins with the text of
\* Start's path, or nothing at all.
Elsewhere == {"above", "elsewhere", "lookalike", "nowhere"}
Targets   == {<<"entry", e>> : e \in 0..N} \cup {<<w, 0>> : w \in Elsewhere}
NoTarget  == <<"none", 0>>

In(e) == <<"entry", e>>   \* the target that is entry e
Out(w) == <<w, 0>>        \* the target w

\* Every tree: who is in which directory, and what everything is.
Shapes ==
  {t \in [parent : [Entry -> 0..(N - 1)], kind : [Entry -> {"dir", "file", "link"}]] :
     \A e \in Entry : /\ t.parent[e] < e
                      /\ t.parent[e] # Start => t.kind[t.parent[e]] = "dir"}

Dirs(t)  == {Start} \cup {e \in Entry : t.kind[e] = "dir"}
Links(t) == {e \in Entry : t.kind[e] = "link"}

Children(t, d) == {e \in Entry : t.parent[e] = d}

\* The directories on the way to e.
Above(t, e) ==
  LET above[x \in Entry] ==
        IF t.parent[x] = Start THEN {Start} ELSE {t.parent[x]} \cup above[t.parent[x]]
  IN  above[e]

\* What a walk comes to that does not follow links and cannot open the
\* directories in closed.
Reachable(t, closed) == {e \in Entry : Above(t, e) \cap closed = {}}

=============================================================================
