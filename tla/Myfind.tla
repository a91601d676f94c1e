------------------------------- MODULE Myfind -------------------------------
(***************************************************************************)
(* myfind.c (assignment 2): searchdir() reads a directory, prints every    *)
(* entry of the name it looks for and calls itself for every directory.    *)
(* Somebody else may remove entries in the meantime.                       *)
(***************************************************************************)
EXTENDS Tree, Sequences

CONSTANTS
  LinkTargets,   \* where links may point
  MaxLevel,      \* paths of more components do not fit into fullpath[100]
  MaxRemovals    \* bound: entries removed during the walk

Nothing == -1

VARIABLES
  tree, target,  \* the tree and where its links point; constant
  sought,        \* entries of the name that is looked for; constant
  closed,        \* directories that cannot be opened; constant
  removed,       \* entries that are gone
  calls,         \* the active searchdir()s: directory and entries left to read
  open,          \* the directory searchdir() was just called for, or Nothing
  shown,         \* what was printed for each entry
  refused,       \* directories that "Failed to open"
  smashed        \* fullpath has overflowed

vars == <<tree, target, sought, closed, removed, calls, open, shown, refused, smashed>>

World == <<tree, target, sought, closed>>

Init ==
  /\ tree \in Shapes
  /\ target \in {f \in [Entry -> LinkTargets \cup {NoTarget}] :
                   \A e \in Entry : f[e] = NoTarget <=> e \notin Links(tree)}
  /\ sought \in {s \in SUBSET Entry :
                   \A e, f \in s : e # f => tree.parent[e] # tree.parent[f]}
  /\ closed \in SUBSET Dirs(tree)
  /\ removed = {} /\ calls = << >> /\ open = Start
  /\ shown = [e \in Entry |-> << >>] /\ refused = {}
  /\ smashed = FALSE

Done == calls = << >> /\ open = Nothing

-----------------------------------------------------------------------------
\* realpath() prints where a link leads to; for what is not there it leaves
\* anything in printpath.
Resolved(e) ==
  IF e \in removed \/ target[e] = Out("nowhere") THEN Out("anything")
  ELSE IF e \in Links(tree) THEN target[e] ELSE In(e)

\* opendir(): the entries that are there now will be read.
Opendir ==
  /\ open # Nothing /\ open \notin closed \cup removed
  /\ calls' = Append(calls, [dir |-> open, left |-> Children(tree, open) \ removed])
  /\ open' = Nothing
  /\ UNCHANGED <<removed, shown, refused, smashed>>

OpendirFails ==
  /\ open \in closed \cup removed
  /\ refused' = refused \cup {open}
  /\ open' = Nothing
  /\ UNCHANGED <<removed, calls, shown, smashed>>

Current == calls[Len(calls)]

\* strcpy() and strcat() of the path: of a directory's, and of a match's.
Fits(e) == Cardinality(Above(tree, e)) <= MaxLevel \/ e \notin Dirs(tree) \cup sought

\* Mutant: a match is not searched.
ReaddirElse(e) ==
  /\ e \in Current.left
  /\ calls' = [calls EXCEPT ![Len(calls)].left = @ \ {e}]
  /\ IF Fits(e)
     THEN /\ shown' = IF e \in sought THEN [shown EXCEPT ![e] = Append(@, Resolved(e))]
                                      ELSE shown
          /\ open' = IF e \in Dirs(tree) \ sought THEN e ELSE Nothing
          /\ UNCHANGED smashed
     ELSE smashed' = TRUE /\ UNCHANGED <<shown, open>>
  /\ UNCHANGED <<removed, refused>>

\* readdir() gives an entry, perhaps one that is gone: a match is printed, and
\* a directory searched.  A link is no directory.
Readdir(e) ==
  /\ e \in Current.left
  /\ calls' = [calls EXCEPT ![Len(calls)].left = @ \ {e}]
  /\ IF Fits(e)
     THEN /\ shown' = IF e \in sought THEN [shown EXCEPT ![e] = Append(@, Resolved(e))]
                                      ELSE shown
          /\ open' = IF e \in Dirs(tree) THEN e ELSE Nothing
          /\ UNCHANGED smashed
     ELSE smashed' = TRUE /\ UNCHANGED <<shown, open>>
  /\ UNCHANGED <<removed, refused>>

\* readdir() gives nothing any more; entries that are gone it may leave out.
Closedir ==
  /\ Current.left \subseteq removed
  /\ calls' = SubSeq(calls, 1, Len(calls) - 1)
  /\ UNCHANGED <<removed, open, shown, refused, smashed>>

searchdir ==
  /\ ~smashed
  /\ \/ Opendir
     \/ OpendirFails
     \/ open = Nothing /\ calls # << >> /\ (Closedir \/ \E e \in Entry : Readdir(e))
  /\ UNCHANGED World

\* An entry is removed; a directory only when it is empty.
Remove(e) ==
  /\ Cardinality(removed) < MaxRemovals
  /\ e \notin removed /\ Children(tree, e) \subseteq removed
  /\ removed' = removed \cup {e}
  /\ UNCHANGED <<World, calls, open, shown, refused, smashed>>

Next == searchdir \/ (~Done /\ \E e \in Entry : Remove(e))

Fairness == WF_vars(searchdir)

Spec == Init /\ [][Next]_vars /\ Fairness

-----------------------------------------------------------------------------
TypeOK ==
  /\ tree \in Shapes /\ sought \subseteq Entry /\ closed \subseteq Dirs(tree)
  /\ target \in [Entry -> LinkTargets \cup {NoTarget}]
  /\ removed \subseteq Entry
  /\ \A k \in DOMAIN calls : calls[k].dir \in Dirs(tree) /\ calls[k].left \subseteq Entry
  /\ open \in Dirs(tree) \cup {Nothing}
  /\ \A e \in Entry : Len(shown[e]) <= 1
  /\ refused \subseteq closed \cup removed
  /\ smashed \in BOOLEAN

Wrong == Out("anything")

(***************************************************************************)
(* In the end every entry of the name that could be reached and stayed is  *)
(* printed, once and with its path, wherever it is and whatever is removed *)
(* around it, and nothing else; a wrong path is printed only for what is   *)
(* gone or leads nowhere; and each directory that could not be opened was  *)
(* named.                                                                  *)
(***************************************************************************)
FindsAll ==
  Done /\ ~smashed =>
    /\ \A e \in (sought \cap Reachable(tree, closed)) \ removed : shown[e] = <<Resolved(e)>>
    /\ \A e \in Entry : shown[e] # << >> => e \in sought
    /\ \A e \in sought \ removed :
         shown[e] = <<Wrong>> => e \in Links(tree) /\ target[e] = Out("nowhere")
    /\ (closed \cap (Reachable(tree, closed) \cup {Start})) \ removed \subseteq refused

=============================================================================
