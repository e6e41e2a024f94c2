------------------------------- MODULE TreeDiff -------------------------------
(***************************************************************************)
(* The changed files of a commit as pack/tree.rs finds them: two sorted    *)
(* trees are merged entry by entry, directories that differ are descended, *)
(* and the work stops once more files than a limit were found.             *)
(*                                                                         *)
(* A tree is a function from names to entries; a name is a sequence of     *)
(* bytes, an entry a file [blob] or a directory [entries].  Objects are    *)
(* named by their content, so equal entries are equal objects.  The tree   *)
(* of HEAD moves from commit to commit.                                    *)
(***************************************************************************)
EXTENDS Integers, SequencesExt

CONSTANTS
  Trees,              \* trees a commit may have
  Limits,             \* file limits asked for
  MAX_TREE_DIFF_DEPTH

Slash == 47
Absent == [none |-> TRUE]
EmptyTree == [entries |-> <<>>]

VARIABLES
  head,     \* tree of the newest commit
  parent,   \* what it was compared with
  files,    \* its changed files, found without a limit
  limited   \* and with each of the limits

vars == <<head, parent, files, limited>>

-----------------------------------------------------------------------------
IsTree(entry) == "entries" \in DOMAIN entry

(* Mutant of NextByte: a directory is sorted like a file.                  *)
NextByte_Plain(name, is_tree, idx) == IF idx <= Len(name) THEN name[idx] ELSE 0

(* The byte that decides between names with the same beginning; 0 stands   *)
(* for the end of a name, and comes before every byte.                     *)
NextByte(name, is_tree, idx) ==
  CASE idx <= Len(name) -> name[idx]
    [] idx > Len(name) /\ is_tree -> Slash
    [] OTHER -> 0

(* git_tree_name_cmp: negative, zero or positive.                          *)
Compare(left, left_is_tree, right, right_is_tree) ==
  LET shared == Min({Len(left), Len(right)})
      differ == {i \in 1..shared : left[i] # right[i]}
  IN  IF differ # {} THEN left[Min(differ)] - right[Min(differ)]
      ELSE NextByte(left, left_is_tree, shared + 1) - NextByte(right, right_is_tree, shared + 1)

(* How git sorts the entries of a tree object: a directory as if its name  *)
(* ended in a slash.                                                       *)
GitKey(tree, name) == IF IsTree(tree.entries[name]) THEN Append(name, Slash) ELSE name
GitBefore(a, b) ==
  \/ IsStrictPrefix(a, b)
  \/ \E i \in DOMAIN a \cap DOMAIN b : a[i] < b[i] /\ SubSeq(a, 1, i - 1) = SubSeq(b, 1, i - 1)
Listing(tree) ==
  LET names == DOMAIN tree.entries
      Place(n) == Cardinality({m \in names : GitBefore(GitKey(tree, m), GitKey(tree, n))}) + 1
  IN  [i \in 1..Cardinality(names) |->
         LET n == CHOOSE m \in names : Place(m) = i IN [name |-> n, entry |-> tree.entries[n]]]

-----------------------------------------------------------------------------
(* Mutants of Over: the limit itself is too many, or one more is taken.    *)
Over_OneMore(found, limit) == limit > 0 /\ Len(found) > limit + 1
Over_AtLimit(found, limit) == limit > 0 /\ Len(found) >= limit

(* A limit of 0 stands for none.                                           *)
Over(found, limit) == limit > 0 /\ Len(found) > limit

TooDeep(depth) == depth > MAX_TREE_DIFF_DEPTH

RECURSIVE DiffTrees(_, _, _, _, _, _), DiffEntries(_, _, _, _, _, _, _, _)

(* pack_diff_trees_at_depth; out is [ok, found].                           *)
DiffTrees(old, new, prefix, out, limit, depth) ==
  IF TooDeep(depth) THEN [out EXCEPT !.ok = FALSE]
  ELSE IF Over(out.found, limit) \/ old = new THEN out
  ELSE DiffEntries(Listing(old), Listing(new), 1, 1, prefix, out, limit, depth)

(* Its loop over the new entries: o and n are the next old and new ones.   *)
DiffEntries(olds, news, o, n, prefix, out, limit, depth) ==
  IF n > Len(news) THEN out
  ELSE
    LET new   == news[n]
        Cmp(k) == Compare(olds[k].name, IsTree(olds[k].entry), new.name, IsTree(new.entry))
        at    == Min({k \in o..Len(olds) : Cmp(k) >= 0} \cup {Len(olds) + 1})
        found == at <= Len(olds) /\ Cmp(at) = 0
        old   == IF found THEN olds[at].entry ELSE Absent
        path  == Append(prefix, new.name)
    IN  \* the results are bound once: a LET would be evaluated at each use
        CHOOSE result \in
          { IF after.ok /\ (old = new.entry \/ ~Over(after.found, limit))
            THEN DiffEntries(olds, news, IF found THEN at + 1 ELSE at, n + 1, prefix, after, limit, depth)
            ELSE after :
            after \in { CASE old = new.entry -> out
                          [] old # new.entry /\ IsTree(new.entry) ->
                               DiffTrees(IF IsTree(old) THEN old ELSE EmptyTree, new.entry,
                                         path, out, limit, depth + 1)
                          [] OTHER -> [out EXCEPT !.found = Append(@, path)] } } : TRUE

(* The listed entry comes after a directory of the name looked for.        *)
Past(listed, name) == Compare(listed.name, IsTree(listed.entry), name, TRUE) > 0

(* The entries are read in order and only as far as needed.                *)
find_tree_entry(tree, component) ==
  LET all  == Listing(tree)
      stop == {i \in DOMAIN all : all[i].name = component \/ Past(all[i], component)}
  IN  IF stop # {} /\ all[Min(stop)].name = component THEN all[Min(stop)].entry ELSE Absent

-----------------------------------------------------------------------------
ChangedFiles(old, new, limit) == DiffTrees(old, new, <<>>, [ok |-> TRUE, found |-> <<>>], limit, 0)

Compared(tree, against) ==
  /\ head' = tree /\ parent' = against
  /\ files' = ChangedFiles(against, tree, 0)
  /\ limited' = [limit \in Limits |-> ChangedFiles(against, tree, limit)]

Init ==
  /\ head \in Trees /\ parent = EmptyTree
  /\ files = ChangedFiles(EmptyTree, head, 0)
  /\ limited = [limit \in Limits |-> ChangedFiles(EmptyTree, head, limit)]

(* A commit with one parent; its parent's tree may be unreadable.          *)
Commit(tree) == Compared(tree, head) \/ Compared(tree, EmptyTree)

(* A merge has no changed files.                                           *)
Merge(tree) ==
  /\ head' = tree /\ parent' = tree
  /\ files' = [ok |-> TRUE, found |-> <<>>]
  /\ limited' = [limit \in Limits |-> files']

Next == \E tree \in Trees : Commit(tree) \/ Merge(tree)

Spec == Init /\ [][Next]_vars

-----------------------------------------------------------------------------
(* The paths of all entries of a tree, and the entry at a path.            *)
RECURSIVE EntryAt(_, _), AllPaths(_)
AllPaths(tree) ==
  IF ~IsTree(tree) THEN {}
  ELSE UNION {{<<n>>} \cup {<<n>> \o p : p \in AllPaths(tree.entries[n])} : n \in DOMAIN tree.entries}
EntryAt(tree, path) ==
  IF ~IsTree(tree) \/ Head(path) \notin DOMAIN tree.entries THEN Absent
  ELSE IF Len(path) = 1 THEN tree.entries[Head(path)]
  ELSE EntryAt(tree.entries[Head(path)], Tail(path))

Differing == {p \in AllPaths(head) : EntryAt(parent, p) # EntryAt(head, p)}
ChangedPaths == {p \in Differing : ~IsTree(EntryAt(head, p))}

(* A limited diff holds at most one file more than was asked for.          *)
TypeOK ==
  /\ head \in Trees /\ parent \in Trees \cup {EmptyTree}
  /\ \A limit \in Limits : limited[limit].ok => Len(limited[limit].found) <= limit + 1

(* The merge of two sorted listings finds every file that is new or has a  *)
(* new content, each once, whatever changed from a file into a directory   *)
(* or back and however names begin alike.                                  *)
DiffIsDifference ==
  files.ok => ToSet(files.found) = ChangedPaths /\ IsInjective(files.found)

(* The diff is refused exactly when a directory below the depth allowed    *)
(* differs: what did not change may be as deep as it likes.                *)
RefusedOnlyIfDeep ==
  files.ok <=> \A p \in Differing : IsTree(EntryAt(head, p)) => Len(p) <= MAX_TREE_DIFF_DEPTH

(* A limited diff is the full one, or tells that there is more than the    *)
(* limit: the queries leave broad commits out by the length alone.         *)
LimitTellsBroad ==
  files.ok => \A limit \in Limits \ {0} :
    /\ limited[limit].ok
    /\ Len(limited[limit].found) > limit <=> Len(files.found) > limit
    /\ Len(files.found) <= limit => limited[limit] = files

(* Reading a tree only as far as needed finds what is in it.               *)
LookupFinds ==
  \A n \in UNION {DOMAIN t.entries : t \in Trees} :
    find_tree_entry(head, n) = IF n \in DOMAIN head.entries THEN head.entries[n] ELSE Absent
=============================================================================
