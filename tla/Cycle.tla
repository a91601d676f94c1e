------------------------------- MODULE Cycle --------------------------------
(***************************************************************************)
(* cycle.c (assignment 2): nftw() walks through a tree without following   *)
(* its links, and fn() looks at each link for one that closes a cycle.     *)
(***************************************************************************)
EXTENDS Tree

CONSTANT
  LinkTargets    \* where links may point

VARIABLES
  tree, target,  \* the tree and where its links point; constant
  closed,        \* directories that cannot be read; constant
  visited,       \* entries nftw() has come to
  says,          \* walking; then "none", "cycle", or "nothing" for an error
  alarm          \* the directory of "Cycle found at"

vars == <<tree, target, closed, visited, says, alarm>>

World == <<tree, target, closed>>

Init ==
  /\ tree \in Shapes
  /\ target \in {f \in [Entry -> LinkTargets \cup {NoTarget}] :
                   \A e \in Entry : f[e] = NoTarget <=> e \notin Links(tree)}
  /\ closed \in SUBSET Dirs(tree)
  /\ visited = {} /\ says = "walking" /\ alarm = Start

\* realpath() of a link: links are followed to the end, if there is one.
Followed(e) ==
  LET hop[k \in 0..N] ==
        IF k = 0 THEN target[e]
        ELSE LET t == hop[k - 1]
             IN  IF \E l \in Links(tree) : t = In(l) THEN target[t[2]] ELSE t
      last == hop[N]
  IN  IF \E l \in Links(tree) : last = In(l) THEN Out("nowhere") ELSE last

\* The file that Followed(e) names is in the tree, as far as its path tells:
\* the text of the path begins with the text of Start's path.
Prefixed(t) == t[1] \in {"entry", "lookalike"}

\* Mutant: the path is compared with Start's as a whole.
fnWhole(e) ==
  LET t == Followed(e)
  IN  CASE t = Out("nowhere") -> BOOLEAN
        [] t = In(Start)      -> {t # In(tree.parent[e])}
        [] OTHER              -> {FALSE}

\* What fn() returns for a link: a path into the tree, but not to the link's
\* own directory.  For a link to nothing realpath() fails, and what it leaves
\* in father is compared.
fn(e) ==
  LET t == Followed(e)
  IN  CASE t = Out("nowhere") -> BOOLEAN
        [] Prefixed(t)        -> {t # In(tree.parent[e])}
        [] OTHER              -> {FALSE}

-----------------------------------------------------------------------------
\* nftw() comes to an entry after it has come to its directory and opened it.
Ahead == {e \in Entry \ visited : /\ tree.parent[e] \in {Start} \cup visited
                                  /\ tree.parent[e] \notin closed}

\* fn() is called; if it returns 1 the walk is over.
Visit ==
  /\ says = "walking"
  /\ \E e \in Ahead :
       /\ visited' = visited \cup {e}
       /\ \E found \in (IF e \in Links(tree) THEN fn(e) ELSE {FALSE}) :
            IF found THEN says' = "cycle" /\ alarm' = tree.parent[e]
                     ELSE UNCHANGED <<says, alarm>>
  /\ UNCHANGED World

\* nftw() returns 0.
NoCycle ==
  /\ says = "walking" /\ Ahead = {}
  /\ says' = "none"
  /\ UNCHANGED <<World, visited, alarm>>

\* nftw() returns -1: main says nothing.
WalkFails ==
  /\ says = "walking"
  /\ says' = "nothing"
  /\ UNCHANGED <<World, visited, alarm>>

Next == Visit \/ NoCycle \/ WalkFails

Fairness == WF_vars(Visit \/ NoCycle)

Spec == Init /\ [][Next]_vars /\ Fairness

-----------------------------------------------------------------------------
TypeOK ==
  /\ tree \in Shapes /\ closed \subseteq Dirs(tree)
  /\ target \in [Entry -> LinkTargets \cup {NoTarget}]
  /\ visited \subseteq Reachable(tree, closed)
  /\ says \in {"walking", "none", "cycle", "nothing"}
  /\ alarm \in Dirs(tree) /\ (says = "cycle" => alarm \notin closed)

\* The directories one can go to from d, by name or by a link in it; a link
\* to d itself is not counted, and what cannot be read is not known.
Ways ==
  LET seen == Reachable(tree, closed)
      down == {<<tree.parent[e], e>> : e \in seen \cap Dirs(tree)}
      over == {<<tree.parent[e], Followed(e)[2]>> :
                 e \in {l \in seen \cap Links(tree) : Followed(l)[1] = "entry"}}
  IN  {w \in down \cup over : w[1] # w[2] /\ w[2] \in Dirs(tree)}

\* Directories in a circle: from each there is a way to another one of them.
\* Among finitely many there are such directories exactly if there is a cycle.
Circles ==
  {c \in SUBSET Dirs(tree) : c # {} /\ \A d \in c : \E w \in Ways : w[1] = d /\ w[2] \in c}

(***************************************************************************)
(* "No cycle found." means that there is none: among the directories that  *)
(* can be read no way leads back to where it began, unless it is a link to *)
(* its own directory or leads out of the tree.                             *)
(***************************************************************************)
SilentMeansFree == says = "none" => Circles = {}

=============================================================================
