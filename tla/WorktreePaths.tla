---------------------------- MODULE WorktreePaths ----------------------------
(***************************************************************************)
(* The changed paths of a worktree audit, and under which name the history *)
(* of each is looked up (git_worktree_audit_paths in src/git_utils.rs).    *)
(* The staged diff is between HEAD and the index, the unstaged one between *)
(* the index and the worktree; a file renamed in both must be looked up    *)
(* under its name in HEAD.                                                 *)
(*                                                                         *)
(* The user works between two audits.  HEAD, index and worktree map paths  *)
(* to contents; an index entry made by `git add --intent-to-add` has no    *)
(* content, which is what makes git see a rename in an unstaged diff.      *)
(* git's rename detection is external: it pairs a deleted path with an     *)
(* added one of the same content, any such pair it can (similar contents   *)
(* count as the same).                                                     *)
(***************************************************************************)
EXTENDS Naturals, Sequences, FiniteSetsExt, Functions

CONSTANTS
  Paths,       \* numbers, in the order of the names
  Contents,    \* what a file may hold
  None, Intent \* no file; an entry without content

ASSUME PathsAssumption ==
  /\ Paths \subseteq Nat /\ IsFiniteSet(Paths)
  /\ None \notin Contents /\ Intent \notin Contents \cup {None}

VARIABLES
  head, index, worktree,
  audited,    \* what the last audit was told: entries [path, history]
  pairs       \* renames git saw in its two diffs: [staged, unstaged]

vars == <<head, index, worktree, audited, pairs>>

-----------------------------------------------------------------------------
Content(entry) == IF entry = Intent THEN None ELSE entry
Indexed == [p \in Paths |-> Content(index[p])]

(* An unstaged diff looks only at paths the index knows.                   *)
Tracked == [p \in Paths |-> IF index[p] = None THEN None ELSE worktree[p]]
Untracked == {p \in Paths : index[p] = None /\ worktree[p] # None}

Added(old, new) == {p \in Paths : old[p] = None /\ new[p] # None}
Deleted(old, new) == {p \in Paths : old[p] # None /\ new[p] = None}

(* The renames git may report: destination to source, each source once,    *)
(* and none left that could be paired.                                     *)
RenamesOf(old, new) ==
  {f \in UNION {[S -> Deleted(old, new)] : S \in SUBSET Added(old, new)} :
     /\ IsInjective(f)
     /\ \A p \in DOMAIN f : old[f[p]] = new[p]
     /\ \A p \in Added(old, new) \ DOMAIN f, q \in Deleted(old, new) \ Range(f) :
          old[q] # new[p]}

Through(f, p) == IF p \in DOMAIN f THEN f[p] ELSE p

-----------------------------------------------------------------------------
Entry(path, history) == [path |-> path, history |-> history]

(* git lists paths in the order of their names.                            *)
InOrder(S) ==
  CHOOSE list \in [1..Cardinality(S) -> S] :
    Range(list) = S /\ \A i, j \in DOMAIN list : i < j => list[i] < list[j]

(* parse_audit_paths: one entry for each line of the diff, a rename under  *)
(* its new path.                                                           *)
Shown(old, new, renames) == {p \in Paths : old[p] # new[p]} \ Range(renames)
git_diff_audit_paths(old, new, renames) ==
  LET lines == InOrder(Shown(old, new, renames))
  IN  [i \in DOMAIN lines |-> Entry(lines[i], Through(renames, lines[i]))]

(* Mutant of Compose: an unstaged entry is listed as it is.                *)
Compose_Append(paths, path) == Append(paths, path)

(* An unstaged entry takes the place and the history of the staged entry   *)
(* it goes on from.                                                        *)
Compose(paths, path) ==
  LET staged == {i \in DOMAIN paths : paths[i].path = path.history}
      at == Min(staged)
  IN  IF staged = {} THEN Append(paths, path)
      ELSE Append(SubSeq(paths, 1, at - 1) \o SubSeq(paths, at + 1, Len(paths)),
                  Entry(path.path, paths[at].history))

Composed(staged, unstaged) ==
  LET paths[k \in 0..Len(unstaged)] ==
        IF k = 0 THEN staged ELSE Compose(paths[k - 1], unstaged[k])
  IN  paths[Len(unstaged)]

(* Mutant of Others: files that are not tracked are left out.              *)
Others_None == <<>>

(* git ls-files --others                                                   *)
Others ==
  LET lines == InOrder(Untracked)
  IN  [i \in DOMAIN lines |-> Entry(lines[i], lines[i])]

(* A stable sort by path, then dedup: the first entry of each path stays.  *)
OnePerPath(paths) ==
  {paths[i] : i \in {j \in DOMAIN paths : \A k \in 1..j - 1 : paths[k].path # paths[j].path}}

-----------------------------------------------------------------------------
Init ==
  /\ head \in [Paths -> Contents \cup {None}]
  /\ index = head /\ worktree = head
  /\ audited = {} /\ pairs = [staged |-> <<>>, unstaged |-> <<>>]

Forget == audited' = {} /\ pairs' = [staged |-> <<>>, unstaged |-> <<>>]

(* The user writes, moves away or deletes a file of the worktree.          *)
Write(p, content) ==
  /\ worktree' = [worktree EXCEPT ![p] = content]
  /\ Forget /\ UNCHANGED <<head, index>>

(* git add, git rm --cached, git add --intent-to-add                       *)
Stage(p) ==
  /\ index' \in {[index EXCEPT ![p] = worktree[p]], [index EXCEPT ![p] = None]}
                  \cup (IF index[p] = None /\ worktree[p] # None
                        THEN {[index EXCEPT ![p] = Intent]} ELSE {})
  /\ Forget /\ UNCHANGED <<head, worktree>>

git_worktree_audit_paths ==
  /\ audited = {}
  /\ \E f \in RenamesOf(head, Indexed), g \in RenamesOf(Indexed, Tracked) :
       /\ pairs' = [staged |-> f, unstaged |-> g]
       /\ audited' = OnePerPath(
            Composed(git_diff_audit_paths(head, Indexed, f),
                     git_diff_audit_paths(Indexed, Tracked, g)) \o Others)
  /\ UNCHANGED <<head, index, worktree>>

Next ==
  \/ \E p \in Paths : Stage(p) \/ (\E c \in Contents \cup {None} : Write(p, c))
  \/ git_worktree_audit_paths

Spec == Init /\ [][Next]_vars

-----------------------------------------------------------------------------
(* Types; a path is listed once, and only if it is in one of the diffs or  *)
(* not tracked.                                                            *)
TypeOK ==
  /\ head \in [Paths -> Contents \cup {None}]
  /\ index \in [Paths -> Contents \cup {None, Intent}]
  /\ worktree \in [Paths -> Contents \cup {None}]
  /\ \A e, f \in audited : e.path = f.path => e = f
  /\ \A e \in audited : head[e.path] # Indexed[e.path] \/ Indexed[e.path] # worktree[e.path]

(* No name that was deleted in the index is in use again as a new file.    *)
NoNameReused == \A p \in Paths : ~(index[p] = Intent /\ head[p] # None)
Audited == audited # {}

(* As long as no name is reused, the history of each changed file is       *)
(* looked up under the name it had in HEAD, through both renames.          *)
HeadPathOfNewNames ==
  NoNameReused =>
    \A e \in audited : e.history = Through(pairs.staged, Through(pairs.unstaged, e.path))

(* The comment in git_worktree_audit_paths: the HEAD path is preserved     *)
(* when an indexed rename is edited or renamed again in the worktree.      *)
HeadPathPreserved ==
  \A e \in audited :
    LET indexed == Through(pairs.unstaged, e.path)
    IN  indexed \in DOMAIN pairs.staged => e.history = pairs.staged[indexed]

(* Nothing that differs between HEAD and the worktree is missed: it is     *)
(* listed, or is the name in HEAD of what is listed.                       *)
NothingMissed ==
  Audited /\ NoNameReused =>
    \A p \in Paths : head[p] # worktree[p] => \E e \in audited : p \in {e.path, e.history}

(* What is staged as renamed and then gone from the worktree is still      *)
(* listed once, and not as two changes: no two entries have one history    *)
(* unless the old name is there again.                                     *)
OneEntryPerHistory ==
  NoNameReused =>
    \A e, f \in audited : e.history = f.history => e = f \/ worktree[e.history] # None

(* Each change is listed, and once.                                        *)
EachChangeOnce == TypeOK /\ NothingMissed /\ OneEntryPerHistory
=============================================================================
