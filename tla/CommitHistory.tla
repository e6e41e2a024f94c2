---------------------------- MODULE CommitHistory ----------------------------
(***************************************************************************)
(* The part of a Git repository the pack reader looks at: a commit graph   *)
(* with commit times, the tree of every commit as a map from path to tree  *)
(* entry (mode and object id, src/pack/types.rs), and the commits whose    *)
(* objects the store can read.  A shallow clone has commits whose parents  *)
(* are not readable.                                                       *)
(*                                                                         *)
(* Every operator takes the repository r as its first argument.  Paths are *)
(* files: the component-by-component descent of the reader is abstracted   *)
(* to the entry found at the end of it.                                    *)
(***************************************************************************)
EXTENDS Naturals, Sequences, FiniteSets

CONSTANTS
  Commits,             \* commit ids
  Paths,               \* normalised file paths
  Entries,             \* tree entries (mode, object id) of files
  Absent,              \* no entry at a path
  MaxRenameEntries     \* MAX_EXACT_RENAME_TREE_ENTRIES, limits.rs

ASSUME EntriesAssumption == Absent \notin Entries
ASSUME RenameBoundAssumption == MaxRenameEntries \in Nat

(* The repositories: head, parents in order, times, trees, readable commits. *)
Repository ==
  [ head     : Commits,
    parents  : [Commits -> Seq(Commits)],
    time     : [Commits -> Nat],
    tree     : [Commits -> [Paths -> Entries \cup {Absent}]],
    readable : SUBSET Commits ]

Parent(r, c, i) == r.parents[c][i]
HasFile(r, c, p) == r.tree[c][p] # Absent
FilesIn(r, c) == {p \in Paths : HasFile(r, c, p)}

(* Positions of the parents whose commit object the store can read. *)
ReadableParents(r, c) ==
  {i \in DOMAIN r.parents[c] : Parent(r, c, i) \in r.readable}

(* Parents relative to which commit c leaves the entry at p as it was. *)
TreeSameParents(r, c, p) ==
  {i \in ReadableParents(r, c) : r.tree[Parent(r, c, i)][p] = r.tree[c][p]}

(* The parents the walk goes on to: the first TREESAME parent alone, or     *)
(* every readable parent when none is TREESAME.                             *)
WalkParents(r, c, p) ==
  LET same == TreeSameParents(r, c, p)
  IN  IF same = {} THEN ReadableParents(r, c)
      ELSE {i \in same : \A j \in same : i <= j}

(* Commit c belongs to the history of p: p exists in it and differs from   *)
(* every readable parent (a root, or a commit with no readable parent,     *)
(* belongs to it when p exists).                                           *)
Includes(r, c, p) == HasFile(r, c, p) /\ TreeSameParents(r, c, p) = {}

(* The decision needs the only parent of an included commit and fails when *)
(* that parent cannot be read.                                             *)
FailsAtBoundary(r, c, p) ==
  /\ Includes(r, c, p)
  /\ Len(r.parents[c]) = 1
  /\ ReadableParents(r, c) = {}

(* Paths of the parent that hold exactly the blob c created at p and that  *)
(* c no longer has.                                                        *)
RenameSources(r, c, p) ==
  {s \in Paths : /\ r.tree[Parent(r, c, 1)][s] = r.tree[c][p]
                 /\ ~HasFile(r, c, s)}

(* The path followed below commit c: the source of an unambiguous exact    *)
(* rename when c created p that way and the parent's tree is small enough  *)
(* to search, p otherwise.                                                 *)
FollowedPath(r, c, p) ==
  IF /\ Includes(r, c, p)
     /\ Len(r.parents[c]) = 1
     /\ ~HasFile(r, Parent(r, c, 1), p)
     /\ Cardinality(FilesIn(r, Parent(r, c, 1))) <= MaxRenameEntries
     /\ \E s \in Paths : RenameSources(r, c, p) = {s}
  THEN CHOOSE s \in Paths : RenameSources(r, c, p) = {s}
  ELSE p

(* The files a commit changed, as the tree diff lists them: none for a     *)
(* merge, all of them for a root or an unreadable parent, and otherwise    *)
(* the files added or altered (a deletion is not listed).                  *)
ChangedFiles(r, c) ==
  IF Len(r.parents[c]) > 1 THEN {}
  ELSE {p \in FilesIn(r, c) :
          \A i \in ReadableParents(r, c) :
             r.tree[Parent(r, c, i)][p] # r.tree[c][p]}

-----------------------------------------------------------------------------
(* S holds every commit the walk goes on to from one in S.                 *)
ClosedUnderWalk(r, p, S) ==
  \A c \in S : \A i \in WalkParents(r, c, p) : Parent(r, c, i) \in S

(* Git's history simplification for a fixed path: what is reachable from   *)
(* head through WalkParents, that is, the least set that holds head and is *)
(* closed.  It does not mention times, a queue, or an order of visits.     *)
SimplifiedHistory(r, p) ==
  LET closed == {S \in SUBSET Commits : r.head \in S /\ ClosedUnderWalk(r, p, S)}
  IN  {c \in Commits : \A S \in closed : c \in S}

(* The commits of SimplifiedHistory that touch p. *)
TouchingCommits(r, p) == {c \in SimplifiedHistory(r, p) : Includes(r, c, p)}

(* No commit is dated before one of its ancestors. *)
TimesFollowAncestry(r) ==
  \A c \in Commits : \A i \in DOMAIN r.parents[c] :
     r.time[Parent(r, c, i)] <= r.time[c]

(* A chain of commits, none of them out of reach, none its own ancestor.   *)
IsLinear(r) ==
  /\ \A c \in Commits : Len(r.parents[c]) <= 1 /\ c \in r.readable
  /\ \A S \in (SUBSET Commits) \ {{}} :
       \E c \in S : \A i \in DOMAIN r.parents[c] : Parent(r, c, i) \notin S

(* head and all its ancestors: the least set that holds head and the       *)
(* parents of its members.                                                 *)
Ancestors(r) ==
  LET closed == {S \in SUBSET Commits :
                   /\ r.head \in S
                   /\ \A c \in S : \A i \in DOMAIN r.parents[c] : Parent(r, c, i) \in S}
  IN  {c \in Commits : \A S \in closed : c \in S}

(* name says what a file was called in every commit: p in head, and from   *)
(* each ancestor to its parents at most one exact rename away.             *)
NamesTheFile(r, p, name) ==
  /\ name[r.head] = p
  /\ \A c \in Ancestors(r) : \A i \in DOMAIN r.parents[c] :
       name[Parent(r, c, i)] = FollowedPath(r, c, name[c])

(* On a chain: every ancestor of head with the name the followed file has  *)
(* there.                                                                  *)
Lineage(r, p) ==
  LET name == CHOOSE f \in [Commits -> Paths] : NamesTheFile(r, p, f)
  IN  {[id |-> c, path |-> name[c]] : c \in Ancestors(r)}
=============================================================================
