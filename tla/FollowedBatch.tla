----------------------------- MODULE FollowedBatch -----------------------------
(***************************************************************************)
(* git_followed_commits_for_targets of src/history/git_cli.rs: the         *)
(* histories of several targets, each followed through its renames.  One   *)
(* `git log --follow` per target runs in a thread pool; the commits of all *)
(* targets are then read once, ChunkSize at a time, and every target gets  *)
(* its own copy of them with the names it had replaced by its own.         *)
(*                                                                         *)
(* A repository is a chain of commits, newest first, each with the files   *)
(* `git show --no-renames --full-diff` lists and at most one rename or     *)
(* copy.  Its positions are the commit hashes.                             *)
(***************************************************************************)
EXTENDS Integers, Sequences, SequencesExt, FiniteSets

CONSTANTS
  Repos,        \* the repositories
  Targets,      \* the targets of the query, in order
  Jobs,         \* --jobs
  HashChunk     \* HASH_CHUNK_SIZE

VARIABLES
  repo,         \* the repository
  work,         \* of the pool: what has become of each target's git log
  histories,    \* targets whose history was gathered, in order
  hashes,       \* commits to read, in order
  shown,        \* commits_by_hash: the files of the commits read so far
  asked,        \* how many of hashes git show was asked for
  results,      \* what each gathered target was given
  answer        \* "none", "ok" or "err"

vars == <<repo, work, histories, hashes, shown, asked, results, answer>>

(* What is known of the repositories, the query and the size of a chunk.   *)
IsSequence(s) == s \in Seq(ToSet(s))
FollowedAssumption ==
  /\ \A r \in Repos : IsSequence(r) /\ \A k \in DOMAIN r : IsSequence(r[k].files)
  /\ IsSequence(Targets)
  /\ HashChunk \in Nat \ {0}

Positions == DOMAIN Targets

Pool == INSTANCE RayonPool WITH
          Items <- Positions,
          Threads <- IF Jobs > 1 THEN Jobs ELSE 1

-----------------------------------------------------------------------------
(* The members of a set of numbers, in order.                              *)
InOrder(S) ==
  CHOOSE list \in [1..Cardinality(S) -> S] :
    ToSet(list) = S /\ \A i, j \in DOMAIN list : i < j => list[i] < list[j]

(* What git does, of which only the listing matters here.                  *)

(* The name the file target has just after commit k of r.                  *)
NameAt(r, target) ==
  LET name[k \in DOMAIN r] ==
        IF k = 1 THEN target
        ELSE IF r[k-1].to = name[k-1] THEN r[k-1].from ELSE name[k-1]
  IN  name

(* git log --follow --name-status: the commits that touch target, and the  *)
(* names printed with each.                                                *)
FollowTarget(r, target) ==
  LET name == NameAt(r, target)
  IN  [hashes |-> InOrder({k \in DOMAIN r : name[k] \in ToSet(r[k].files)}),
       names  |-> [k \in DOMAIN r |->
                     {name[k]} \cup (IF r[k].to = name[k] THEN {r[k].from} ELSE {})]]

-----------------------------------------------------------------------------
(* First occurrences only: a HashSet filters what is pushed.               *)
FirstOccurrences(s) ==
  LET first == InOrder({i \in DOMAIN s : \A j \in 1..(i-1) : s[j] # s[i]})
  IN  [n \in DOMAIN first |-> s[first[n]]]

(* canonicalize_followed_target_paths on the files of one commit.          *)
Canonical(files, target, names) ==
  FirstOccurrences([i \in DOMAIN files |-> IF files[i] \in names THEN target ELSE files[i]])

(* ordered_histories.sort_by_key: the next history to use.                 *)
NextTarget(i) ==
  /\ i \in Positions \ ToSet(histories)
  /\ \A j \in Positions \ ToSet(histories) : i <= j

(* unique_hashes.insert                                                    *)
AllHashes(i) == FirstOccurrences(hashes \o FollowTarget(repo, Targets[i]).hashes)

Init ==
  /\ repo \in Repos
  /\ Pool!PoolInit
  /\ histories = <<>> /\ hashes = <<>> /\ asked = 0 /\ results = <<>>
  /\ shown = << >>
  /\ answer = "none"

(* git_follow_target_history for one target.                               *)
Follow(i) ==
  /\ answer = "none"
  /\ Pool!PoolStep(i)
  /\ UNCHANGED <<repo, histories, hashes, shown, asked, results, answer>>

Gather(i) ==
  /\ answer = "none"
  /\ Pool!Settled /\ Pool!Failed = {}
  /\ NextTarget(i)
  /\ histories' = Append(histories, i)
  /\ hashes' = AllHashes(i)
  /\ UNCHANGED <<repo, work, shown, asked, results, answer>>

Gathered == Len(histories) = Len(Targets)
Chunk == SubSeq(hashes, asked + 1, Min({asked + HashChunk, Len(hashes)}))

(* hashes.chunks: how far git show has got after this chunk.               *)
AskedNext == asked + Len(Chunk)

(* git_show_hashes on one chunk: git prints the commits of `given`.        *)
Show(given) ==
  /\ answer = "none"
  /\ Gathered /\ asked < Len(hashes)
  /\ shown' = [k \in DOMAIN shown \cup given |-> repo[k].files]
  /\ asked' = AskedNext
  /\ UNCHANGED <<repo, work, histories, hashes, results, answer>>

(* A target gets its commits once all of them have been read.              *)
Turn == Len(results) + 1
Deliverable == answer = "none" /\ Gathered /\ asked = Len(hashes) /\ Turn <= Len(histories)
Wanted == FollowTarget(repo, Targets[histories[Turn]])

(* Mutant of Rewritten: the names of the first target serve for all.       *)
Rewritten_FirstNames(k) ==
  Canonical(shown[k], Targets[histories[Turn]], FollowTarget(repo, Targets[histories[1]]).names[k])

(* commits_by_hash.get(hash).cloned(), canonicalised for this target.      *)
Rewritten(k) == Canonical(shown[k], Targets[histories[Turn]], Wanted.names[k])

(* missing expanded followed commit                                        *)
MissingCommit == ~(ToSet(Wanted.hashes) \subseteq DOMAIN shown)

Deliver ==
  /\ Deliverable
  /\ ~MissingCommit
  /\ results' = Append(results,
       [target  |-> Targets[histories[Turn]],
        commits |-> [n \in DOMAIN Wanted.hashes |->
                       [hash |-> Wanted.hashes[n], files |-> Rewritten(Wanted.hashes[n])]]])
  /\ UNCHANGED <<repo, work, histories, hashes, shown, asked, answer>>

(* A failed git log, a failed git show, or a commit that was not printed.  *)
Refuse ==
  /\ answer = "none"
  /\ \/ Pool!Settled /\ Pool!Failed # {}
     \/ Gathered /\ asked < Len(hashes)
     \/ Deliverable /\ MissingCommit
  /\ answer' = "err"
  /\ UNCHANGED <<repo, work, histories, hashes, shown, asked, results>>

Return ==
  /\ answer = "none"
  /\ Gathered /\ Turn > Len(histories)
  /\ answer' = "ok"
  /\ UNCHANGED <<repo, work, histories, hashes, shown, asked, results>>

Next ==
  \/ \E i \in Positions : Follow(i) \/ Gather(i)
  \/ \E given \in SUBSET ToSet(Chunk) : Show(given)
  \/ Deliver
  \/ Refuse
  \/ Return

Spec == Init /\ [][Next]_vars

-----------------------------------------------------------------------------
(* git_show_followed_commits: what the reader of a single target returns   *)
(* when git prints every commit.                                           *)
SingleTarget(t) ==
  LET followed == FollowTarget(repo, t)
  IN  [n \in DOMAIN followed.hashes |->
         [hash  |-> followed.hashes[n],
          files |-> Canonical(repo[followed.hashes[n]].files, t,
                              followed.names[followed.hashes[n]])]]

(* Types of the variables.                                                 *)
TypeOK ==
  /\ repo \in Repos
  /\ Pool!PoolTypeOK
  /\ histories \in Seq(Positions)
  /\ hashes \in Seq(DOMAIN repo) /\ asked \in 0..Len(hashes)
  /\ DOMAIN shown \subseteq DOMAIN repo
  /\ Len(results) \in 0..Len(histories)
  /\ answer \in {"none", "ok", "err"}

(* What the i-th target is given.                                          *)
ResultOf(i) == [target |-> Targets[i], commits |-> SingleTarget(Targets[i])]

(* A batch gives every target, in the order asked, exactly the commits a   *)
(* query for it alone would give: sharing the reads never leaks the names  *)
(* of one target into another, and nothing missing is passed over.         *)
BatchIsEach ==
  answer = "ok" => results = [i \in Positions |-> ResultOf(i)]

(* No commit is read from git twice, however many targets share it.        *)
ReadOnce == IsInjective(hashes)

(* A target that was followed by another name appears under its own in     *)
(* every commit it is given, once, and its old names not at all.           *)
OneNamePerTarget ==
  \A n \in DOMAIN results : \A c \in ToSet(results[n].commits) :
    /\ Cardinality({f \in DOMAIN c.files : c.files[f] = results[n].target}) = 1
    /\ \A f \in FollowTarget(repo, results[n].target).names[c.hash] \ {results[n].target} :
         ~Contains(c.files, f)

(* Whatever threads did, histories are used in the order of the targets;   *)
(* what was read is what git has, and what was given is right.             *)
BatchInv ==
  /\ TypeOK /\ ReadOnce
  /\ histories = [i \in DOMAIN histories |-> i]
  /\ asked > 0 => Gathered
  /\ shown = [k \in DOMAIN shown |-> repo[k].files]
  /\ results = [i \in 1..Len(results) |-> ResultOf(i)]
  /\ answer = "ok" => Len(results) = Len(Targets)

(* What a batch promises.                                                  *)
FollowedIsEach == TypeOK /\ BatchIsEach /\ ReadOnce /\ OneNamePerTarget
=============================================================================
