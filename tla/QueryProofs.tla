----------------------------- MODULE QueryProofs ------------------------------
(***************************************************************************)
(* Proofs about the direct query, for every set of repositories, queries   *)
(* and histories.                                                          *)
(*                                                                         *)
(* Of its walk, in TargetWalk: the inductive invariant, and what follows   *)
(* from it - no commit is selected twice, the bounds of the command line   *)
(* hold, with honest clocks commits are selected newest first; and what    *)
(* the walk covers of the history: the comparisons with Git's history      *)
(* simplification and with the names a file had, whose definitions in      *)
(* CommitHistory know neither queue nor clocks.                            *)
(*                                                                         *)
(* Of the scores, in DirectScoring: what a stream holds is one reading of  *)
(* the commits so far.  The readers agree because a part read on its own   *)
(* and merged is as if read on, and because dating the decay by another    *)
(* commit scales all weights by one factor, which changes no rank.         *)
(***************************************************************************)
EXTENDS TargetWalk, DirectScoring, FiniteSetFacts, SequenceTheorems, TLAPS

-----------------------------------------------------------------------------
(* The parents walked to are parents, whose commits can be read.           *)
LEMMA WalkParentsAreParents ==
  ASSUME NEW r \in Repository, NEW c \in Commits, NEW p
  PROVE  /\ WalkParents(r, c, p) \subseteq DOMAIN r.parents[c]
         /\ \A i \in DOMAIN r.parents[c] : i \in Nat /\ Parent(r, c, i) \in Commits
         /\ IsFiniteSet(DOMAIN r.parents[c])
<1>1. r.parents[c] \in Seq(Commits)
  BY DEF Repository
<1>2. DOMAIN r.parents[c] = 1..Len(r.parents[c]) /\ Len(r.parents[c]) \in Nat
  BY <1>1
<1>3. \A i \in DOMAIN r.parents[c] : i \in Nat /\ Parent(r, c, i) \in Commits
  BY <1>1, <1>2 DEF Parent
<1>4. IsFiniteSet(DOMAIN r.parents[c])
  BY <1>2, FS_Interval
<1>5. WalkParents(r, c, p) \subseteq DOMAIN r.parents[c]
  BY DEF WalkParents, TreeSameParents, ReadableParents
<1> QED BY <1>3, <1>4, <1>5

(* A followed path is a path. *)
LEMMA FollowedPathIsPath ==
  ASSUME NEW r, NEW c, NEW p \in Paths
  PROVE  FollowedPath(r, c, p) \in Paths
<1>1. CASE \E s \in Paths : RenameSources(r, c, p) = {s}
  <2>1. (CHOOSE s \in Paths : RenameSources(r, c, p) = {s}) \in Paths
    BY <1>1
  <2> QED BY <2>1 DEF FollowedPath
<1>2. CASE ~\E s \in Paths : RenameSources(r, c, p) = {s}
  BY <1>2 DEF FollowedPath
<1> QED BY <1>1, <1>2

(* What queueing the parents of a commit adds to the queue: parents that   *)
(* were never queued, each once, with their own times.                     *)
LEMMA PushFacts ==
  ASSUME TypeOK, NEW item \in heap, PushParents(item)
  PROVE  /\ heap' \subseteq HeapItem
         /\ seen \subseteq seen' /\ seen' \subseteq Commits
         /\ sequence' \in Nat
         /\ heap \ {item} \subseteq heap'
         /\ \A new \in heap' :
              \/ new \in heap \ {item}
              \/ /\ new.id \in seen' /\ new.id \notin seen
                 /\ new.time = repo.time[new.id]
                 /\ \E i \in DOMAIN repo.parents[item.id] : new.id = Parent(repo, item.id, i)
         /\ \A a, b \in heap' \ heap : a.id = b.id => a = b
         /\ status' = status
<1> DEFINE fresh == FreshParents(item.id)
           Queued(i) == [time     |-> repo.time[Parent(repo, item.id, i)],
                         sequence |-> sequence + Cardinality({j \in fresh : j <= i}),
                         id       |-> Parent(repo, item.id, i)]
<1>1. item.id \in Commits /\ repo \in Repository /\ sequence \in Nat
  BY DEF TypeOK, HeapItem
<1>2. fresh \subseteq DOMAIN repo.parents[item.id] /\ fresh \subseteq WalkParents(repo, item.id, path)
  BY <1>1, WalkParentsAreParents DEF FreshParents
<1>3. \A i \in fresh : /\ i \in Nat
                       /\ Parent(repo, item.id, i) \in Commits
                       /\ Parent(repo, item.id, i) \notin seen
  BY <1>1, <1>2, WalkParentsAreParents DEF FreshParents
<1>4. IsFiniteSet(fresh)
  BY <1>1, <1>2, WalkParentsAreParents, FS_Subset
<1>5. \A i \in fresh : Cardinality({j \in fresh : j <= i}) \in Nat
  <2> SUFFICES ASSUME NEW i \in fresh PROVE Cardinality({j \in fresh : j <= i}) \in Nat
    OBVIOUS
  <2>1. IsFiniteSet({j \in fresh : j <= i})
    BY <1>4, FS_Subset
  <2> QED BY <2>1, FS_CardinalityType
<1>6. Cardinality(fresh) \in Nat
  BY <1>4, FS_CardinalityType
<1>7. \A c \in Commits : repo.time[c] \in Nat
  BY <1>1 DEF Repository
<1>8. \A i \in fresh : Queued(i) \in HeapItem
  <2> SUFFICES ASSUME NEW i \in fresh PROVE Queued(i) \in HeapItem
    OBVIOUS
  <2>1. sequence + Cardinality({j \in fresh : j <= i}) \in Nat
    BY <1>1, <1>5
  <2> QED BY <2>1, <1>3, <1>7 DEF HeapItem
<1>9. /\ heap' = (heap \ {item}) \cup {Queued(i) : i \in fresh}
      /\ seen' = seen \cup {Parent(repo, item.id, i) : i \in fresh}
      /\ sequence' = sequence + Cardinality(fresh)
      /\ status' = status
  BY DEF PushParents
<1>10. \A i, j \in fresh : Parent(repo, item.id, i) = Parent(repo, item.id, j) => i = j
  <2> SUFFICES ASSUME NEW i \in fresh, NEW j \in fresh, j < i
               PROVE  Parent(repo, item.id, i) # Parent(repo, item.id, j)
    BY <1>3
  <2> QED BY <1>2 DEF FreshParents
<1>11. \A i \in fresh : /\ Queued(i).id = Parent(repo, item.id, i)
                        /\ Queued(i).time = repo.time[Parent(repo, item.id, i)]
  OBVIOUS
<1>12. heap' \subseteq HeapItem
  BY <1>8, <1>9 DEF TypeOK
<1>13. seen' \subseteq Commits /\ seen \subseteq seen'
  BY <1>3, <1>9 DEF TypeOK
<1>14. sequence' \in Nat
  BY <1>1, <1>6, <1>9
<1> HIDE DEF fresh, Queued
<1>15. ASSUME NEW new \in heap', new \notin heap \ {item}
       PROVE  /\ new.id \in seen' /\ new.id \notin seen
              /\ new.time = repo.time[new.id]
              /\ \E i \in DOMAIN repo.parents[item.id] : new.id = Parent(repo, item.id, i)
  <2>1. PICK i \in fresh : new = Queued(i)
    BY <1>9, <1>15
  <2>2. new.id = Parent(repo, item.id, i) /\ new.time = repo.time[new.id]
    BY <1>11, <2>1
  <2> QED BY <1>2, <1>3, <1>9, <2>2
<1>16. ASSUME NEW a \in heap' \ heap, NEW b \in heap' \ heap, a.id = b.id
       PROVE  a = b
  <2>1. PICK i \in fresh : a = Queued(i)
    BY <1>9
  <2>2. PICK j \in fresh : b = Queued(j)
    BY <1>9
  <2> QED BY <1>10, <1>11, <1>16, <2>1, <2>2
<1> QED BY <1>9, <1>12, <1>13, <1>14, <1>15, <1>16

(* The same of every way through the loop, whether or not parents are      *)
(* queued.                                                                 *)
LEMMA QueueMoves ==
  ASSUME TypeOK, NEW item \in heap, Take(item)
  PROVE  /\ heap' \subseteq HeapItem
         /\ seen \subseteq seen' /\ seen' \subseteq Commits
         /\ sequence' \in Nat
         /\ item \in heap' => item.id \notin seen
         /\ \A new \in heap' :
              \/ new \in heap \ {item}
              \/ /\ new.id \in seen' /\ new.id \notin seen
                 /\ new.time = repo.time[new.id]
                 /\ \E i \in DOMAIN repo.parents[item.id] : new.id = Parent(repo, item.id, i)
         /\ \A a, b \in heap' \ heap : a.id = b.id => a = b
<1>1. CASE PushParents(item)
  BY <1>1, PushFacts
<1>2. CASE heap' = heap \ {item} /\ UNCHANGED <<seen, sequence>>
  BY <1>2 DEF TypeOK
<1> QED
  BY <1>1, <1>2 DEF Take, StopAtScanLimit, SkipOld, FailBoundary, PassOver, Select, StopWith

(* What a step does to the selected commits and to the counters.           *)
LEMMA SelectionMoves ==
  ASSUME TypeOK, NEW item \in heap, Take(item)
  PROVE  /\ UNCHANGED <<repo, query>>
         /\ scanned' = scanned + 1
         /\ \A other \in heap : Before(item, other)
         /\ status = "walking"
         /\ \/ UNCHANGED <<path, lastHit, picked, pairs>>
            \/ /\ picked' = Append(picked, [id |-> item.id, path |-> path])
               /\ lastHit' = scanned + 1
               /\ InScanLimit
               /\ status' = "walking" => ~EnoughCommits(Len(picked) + 1)
               /\ Visit(item.id, path)
               /\ FollowRename(item.id)
<1>1. /\ UNCHANGED <<repo, query>> /\ scanned' = scanned + 1
      /\ \A other \in heap : Before(item, other)
      /\ status = "walking"
  BY DEF Take, StopAtScanLimit, SkipOld, FailBoundary, PassOver, Select, Pop, inputs
<1>2. CASE Select(item)
  BY <1>1, <1>2 DEF Select, StopWith
<1>3. CASE ~Select(item)
  BY <1>1, <1>3 DEF Take, StopAtScanLimit, SkipOld, FailBoundary, PassOver, results
<1> QED BY <1>1, <1>2, <1>3

(* Appending a selected commit.                                            *)
LEMMA PickedGrows ==
  ASSUME TypeOK, NEW c \in Commits,
         picked' = Append(picked, [id |-> c, path |-> path])
  PROVE  /\ picked' \in Seq([id : Commits, path : Paths])
         /\ Len(picked) \in Nat
         /\ Len(picked') = Len(picked) + 1
         /\ DOMAIN picked = 1..Len(picked)
         /\ DOMAIN picked' = 1..(Len(picked) + 1)
         /\ \A i \in DOMAIN picked : picked'[i] = picked[i]
         /\ picked'[Len(picked) + 1] = [id |-> c, path |-> path]
BY AppendProperties DEF TypeOK

(* Every step keeps the types.                                             *)
LEMMA TypePreserved ==
  ASSUME TypeOK, [Next]_vars
  PROVE  TypeOK'
<1>1. ASSUME NEW item \in heap, Take(item)
      PROVE  TypeOK'
  <2>1. item.id \in Commits /\ path \in Paths /\ scanned \in Nat
    BY DEF TypeOK, HeapItem
  <2>2. status' \in {"walking", "done", "error"}
    BY <1>1 DEF Take, StopAtScanLimit, SkipOld, FailBoundary, PassOver, Select, StopWith,
                PushParents, TypeOK
  <2>3. path' \in Paths /\ lastHit' \in Nat
        /\ picked' \in Seq([id : Commits, path : Paths]) /\ pairs' \in [Paths -> Nat]
    <3>1. CASE UNCHANGED <<path, lastHit, picked, pairs>>
      BY <3>1 DEF TypeOK
    <3>2. CASE /\ picked' = Append(picked, [id |-> item.id, path |-> path])
               /\ lastHit' = scanned + 1
               /\ Visit(item.id, path)
               /\ FollowRename(item.id)
      <4>1. path' \in Paths
        BY <2>1, <3>2, FollowedPathIsPath DEF FollowRename
      <4>2. pairs' \in [Paths -> Nat]
        BY <3>2 DEF Visit, TypeOK
      <4>3. picked' \in Seq([id : Commits, path : Paths])
        BY <2>1, <3>2, PickedGrows
      <4>4. lastHit' \in Nat
        BY <2>1, <3>2
      <4> QED BY <4>1, <4>2, <4>3, <4>4
    <3> QED BY <1>1, <3>1, <3>2, SelectionMoves
  <2>4. repo' \in Repository /\ query' \in Query /\ scanned' \in Nat
    <3>1. repo' = repo /\ query' = query /\ scanned' = scanned + 1
      BY <1>1, SelectionMoves
    <3> QED BY <2>1, <3>1 DEF TypeOK
  <2>5. heap' \subseteq HeapItem /\ seen' \subseteq Commits /\ sequence' \in Nat
    BY <1>1, QueueMoves
  <2> QED BY <2>2, <2>3, <2>4, <2>5 DEF TypeOK
<1>2. CASE Drain
  BY <1>2 DEF Drain, TypeOK, inputs, queue, results
<1>3. CASE UNCHANGED vars
  BY <1>3 DEF vars, TypeOK, inputs, queue, results
<1> QED BY <1>1, <1>2, <1>3 DEF Next, Returned

(* Every step keeps the queue and the selected commits apart.              *)
LEMMA QueuePreserved ==
  ASSUME IInv, [Next]_vars
  PROVE  QueueInv' /\ NoCommitTwice'
<1> TypeOK /\ QueueInv /\ NoCommitTwice
  BY DEF IInv
<1>1. ASSUME NEW item \in heap, Take(item)
      PROVE  QueueInv' /\ NoCommitTwice'
  <2>1. item.id \in Commits /\ item.id \in seen
    BY DEF TypeOK, HeapItem, QueueInv, QueuedIds
  <2>2. item \notin heap'
    BY <1>1, <2>1, QueueMoves
  <2>3. (QueuedIds \subseteq seen)'
    BY <1>1, QueueMoves DEF QueueInv, QueuedIds
  <2>4. (\A a, b \in heap : a.id = b.id => a = b)'
    <3> SUFFICES ASSUME NEW a \in heap', NEW b \in heap', a.id = b.id
                 PROVE  a = b
      OBVIOUS
    <3>1. CASE a \in heap /\ b \in heap
      BY <3>1 DEF QueueInv
    <3>2. CASE a \notin heap /\ b \notin heap
      BY <1>1, <3>2, QueueMoves
    <3>3. CASE a \in heap /\ b \notin heap
      BY <1>1, <3>3, QueueMoves DEF QueueInv, QueuedIds
    <3>4. CASE a \notin heap /\ b \in heap
      BY <1>1, <3>4, QueueMoves DEF QueueInv, QueuedIds
    <3> QED BY <3>1, <3>2, <3>3, <3>4
  <2>5. item.id \notin QueuedIds'
    <3> SUFFICES ASSUME NEW a \in heap', a.id = item.id PROVE FALSE
      BY DEF QueuedIds
    <3>1. a \in heap \ {item}
      BY <1>1, <2>1, QueueMoves
    <3> QED BY <3>1 DEF QueueInv
  <2>6. PickedIds \cap QueuedIds' = {}
    <3> SUFFICES ASSUME NEW a \in heap', a.id \in PickedIds PROVE FALSE
      BY DEF QueuedIds
    <3>1. a \in heap \ {item}
      BY <1>1, QueueMoves DEF QueueInv
    <3> QED BY <3>1 DEF QueueInv, QueuedIds
  <2>7. CASE UNCHANGED picked
    <3>1. PickedIds' = PickedIds
      BY <2>7 DEF PickedIds
    <3> QED BY <1>1, <2>3, <2>4, <2>6, <2>7, <3>1, QueueMoves DEF QueueInv, NoCommitTwice
  <2>8. CASE picked' = Append(picked, [id |-> item.id, path |-> path])
    <3>1. /\ Len(picked) \in Nat
          /\ DOMAIN picked = 1..Len(picked)
          /\ DOMAIN picked' = 1..(Len(picked) + 1)
          /\ \A i \in DOMAIN picked : picked'[i] = picked[i]
          /\ picked'[Len(picked) + 1].id = item.id
      BY <2>1, <2>8, PickedGrows
    <3>2. PickedIds' = PickedIds \cup {item.id}
      BY <3>1 DEF PickedIds
    <3>3. item.id \notin PickedIds
      BY DEF QueueInv, QueuedIds
    <3>4. NoCommitTwice'
      BY <3>1, <3>3 DEF NoCommitTwice, PickedIds
    <3> QED BY <1>1, <2>1, <2>3, <2>4, <2>5, <2>6, <3>2, <3>4, QueueMoves DEF QueueInv
  <2> QED BY <1>1, <2>7, <2>8, SelectionMoves
<1>2. CASE Drain \/ UNCHANGED vars
  BY <1>2 DEF Drain, vars, queue, results, QueueInv, NoCommitTwice, QueuedIds, PickedIds
<1> QED BY <1>1, <1>2 DEF Next, Returned

(* Every step keeps the bounds of the command line.                        *)
LEMMA BoundsPreserved ==
  ASSUME IInv, [Next]_vars
  PROVE  RoomInv' /\ BoundsRespected'
<1> TypeOK /\ RoomInv /\ BoundsRespected
  BY DEF IInv
<1>1. ASSUME NEW item \in heap, Take(item)
      PROVE  RoomInv' /\ BoundsRespected'
  <2>1. /\ query.max \in Nat /\ ScanLimit \in Nat /\ scanned \in Nat /\ lastHit \in Nat
        /\ Len(picked) \in Nat
    BY LimitsAssumption DEF LimitsAssumption, TypeOK, Query, ScanLimit
  <2>2. query' = query /\ ScanLimit' = ScanLimit /\ scanned' = scanned + 1 /\ status = "walking"
    BY <1>1, SelectionMoves DEF ScanLimit
  <2>3. query.max > 0 => Len(picked) < query.max
    BY <2>2 DEF RoomInv
  <2>4. CASE UNCHANGED <<lastHit, picked>>
    BY <2>1, <2>2, <2>3, <2>4 DEF RoomInv, BoundsRespected
  <2>5. CASE /\ picked' = Append(picked, [id |-> item.id, path |-> path])
             /\ lastHit' = scanned + 1
             /\ InScanLimit
             /\ status' = "walking" => ~EnoughCommits(Len(picked) + 1)
    <3>1. Len(picked') = Len(picked) + 1
      BY <2>5, PickedGrows DEF TypeOK, HeapItem
    <3>2. Len(picked) <= lastHit /\ lastHit <= scanned
      BY DEF BoundsRespected
    <3>3. ScanLimit > 0 => lastHit' <= ScanLimit
      BY <2>1, <2>5 DEF InScanLimit
    <3>4. BoundsRespected'
      BY <2>1, <2>2, <2>3, <2>5, <3>1, <3>2, <3>3 DEF BoundsRespected
    <3>5. RoomInv'
      BY <2>1, <2>2, <2>5, <3>1 DEF RoomInv, EnoughCommits
    <3> QED BY <3>4, <3>5
  <2> QED BY <1>1, <2>4, <2>5, SelectionMoves
<1>2. CASE Drain \/ UNCHANGED vars
  BY <1>2 DEF Drain, vars, inputs, queue, results, RoomInv, BoundsRespected, ScanLimit
<1> QED BY <1>1, <1>2 DEF Next, Returned

(* The commit taken from the queue is the newest, and with honest clocks   *)
(* its parents are no newer.                                               *)
LEMMA OrderPreserved ==
  ASSUME IInv, [Next]_vars
  PROVE  OrderInv' /\ PickedNewestFirst'
<1> TypeOK /\ OrderInv /\ PickedNewestFirst
  BY DEF IInv
<1>1. ASSUME NEW item \in heap, Take(item)
      PROVE  OrderInv' /\ PickedNewestFirst'
  <2>1. repo' = repo /\ repo \in Repository /\ item.id \in Commits /\ item.time \in Nat
    BY <1>1, SelectionMoves DEF TypeOK, HeapItem
  <2>2. \A c \in Commits : repo.time[c] \in Nat
    BY <2>1 DEF Repository
  <2>3. item.time = repo.time[item.id]
    BY DEF OrderInv
  <2>4. \A other \in heap : other.time \in Nat /\ other.time <= item.time
    <3> SUFFICES ASSUME NEW other \in heap PROVE other.time \in Nat /\ other.time <= item.time
      OBVIOUS
    <3>1. other.time \in Nat
      BY DEF TypeOK, HeapItem
    <3>2. Before(item, other)
      BY <1>1, SelectionMoves
    <3> QED BY <2>1, <3>1, <3>2 DEF Before
  <2>5. ASSUME NEW new \in heap'
        PROVE  /\ new.time = repo.time[new.id]
               /\ new.time \in Nat
               /\ TimesFollowAncestry(repo) => new.time <= item.time
    <3>1. CASE new \in heap
      BY <2>4, <3>1 DEF OrderInv
    <3>2. CASE new \notin heap
      <4>1. /\ new.time = repo.time[new.id]
            /\ \E i \in DOMAIN repo.parents[item.id] : new.id = Parent(repo, item.id, i)
        BY <1>1, <3>2, QueueMoves
      <4>2. TimesFollowAncestry(repo) => repo.time[new.id] <= repo.time[item.id]
        BY <2>1, <4>1 DEF TimesFollowAncestry
      <4>3. new.time \in Nat
        BY <1>1, QueueMoves DEF HeapItem
      <4> QED BY <2>3, <4>1, <4>2, <4>3
    <3> QED BY <3>1, <3>2
  <2>6. \A i \in DOMAIN picked : picked[i].id \in Commits
    <3> SUFFICES ASSUME NEW i \in DOMAIN picked PROVE picked[i].id \in Commits
      OBVIOUS
    <3>1. picked[i] \in [id : Commits, path : Paths]
      <4>1. picked \in Seq([id : Commits, path : Paths])
        BY DEF TypeOK
      <4>2. i \in 1..Len(picked)
        BY <4>1
      <4> QED BY <4>1, <4>2, ElementOfSeq
    <3> QED BY <3>1
  <2>7. TimesFollowAncestry(repo) => \A i \in DOMAIN picked : item.time <= repo.time[picked[i].id]
    BY DEF OrderInv
  <2>8. CASE UNCHANGED picked
    <3>1. ASSUME NEW new \in heap', TimesFollowAncestry(repo), NEW i \in DOMAIN picked
          PROVE  new.time <= repo.time[picked[i].id]
      BY <2>1, <2>2, <2>5, <2>6, <2>7, <3>1
    <3> QED BY <2>1, <2>5, <2>8, <3>1 DEF OrderInv, PickedNewestFirst
  <2>9. CASE picked' = Append(picked, [id |-> item.id, path |-> path])
    <3>1. /\ Len(picked) \in Nat
          /\ DOMAIN picked = 1..Len(picked)
          /\ DOMAIN picked' = 1..(Len(picked) + 1)
          /\ \A i \in DOMAIN picked : picked'[i] = picked[i]
          /\ picked'[Len(picked) + 1].id = item.id
      BY <2>1, <2>9, PickedGrows
    <3>2. \A i \in DOMAIN picked' : i \in DOMAIN picked \/ i = Len(picked) + 1
      BY <3>1
    <3>3. ASSUME TimesFollowAncestry(repo), NEW i \in DOMAIN picked'
          PROVE  repo.time[picked'[i].id] \in Nat /\ item.time <= repo.time[picked'[i].id]
      BY <2>1, <2>2, <2>3, <2>6, <2>7, <3>1, <3>2, <3>3
    <3>4. ASSUME TimesFollowAncestry(repo), NEW i \in DOMAIN picked', NEW new \in heap'
          PROVE  new.time <= repo.time[picked'[i].id]
      BY <2>1, <2>5, <3>3, <3>4
    <3>5. ASSUME TimesFollowAncestry(repo), NEW i \in DOMAIN picked', NEW j \in DOMAIN picked',
                 i < j
          PROVE  repo.time[picked'[i].id] >= repo.time[picked'[j].id]
      <4>1. CASE j \in DOMAIN picked
        <5>1. i \in DOMAIN picked
          BY <3>1, <3>5, <4>1
        <5> QED BY <3>1, <3>5, <4>1, <5>1 DEF PickedNewestFirst
      <4>2. CASE j = Len(picked) + 1
        <5>1. repo.time[picked'[j].id] = item.time
          BY <2>3, <3>1, <4>2
        <5> QED BY <2>1, <3>3, <3>5, <5>1
      <4> QED BY <3>2, <4>1, <4>2
    <3> QED BY <2>1, <2>5, <3>4, <3>5 DEF OrderInv, PickedNewestFirst
  <2> QED BY <1>1, <2>8, <2>9, SelectionMoves
<1>2. CASE Drain \/ UNCHANGED vars
  BY <1>2 DEF Drain, vars, inputs, queue, results, OrderInv, PickedNewestFirst
<1> QED BY <1>1, <1>2 DEF Next, Returned

(* The visitor counts every partner of the selected commit once.           *)
LEMMA AccountingPreserved ==
  ASSUME IInv, [Next]_vars
  PROVE  CochangeAccounting'
<1> TypeOK /\ CochangeAccounting
  BY DEF IInv
<1>1. ASSUME NEW item \in heap, Take(item)
      PROVE  CochangeAccounting'
  <2>1. repo' = repo /\ query' = query /\ item.id \in Commits
    BY <1>1, SelectionMoves DEF TypeOK, HeapItem
  <2>2. CASE UNCHANGED <<picked, pairs>>
    <3>1. \A p : PairedAt(p)' = PairedAt(p)
      BY <2>1, <2>2 DEF PairedAt
    <3> QED BY <2>2, <3>1 DEF CochangeAccounting
  <2>3. CASE /\ picked' = Append(picked, [id |-> item.id, path |-> path])
             /\ Visit(item.id, path)
    <3> SUFFICES ASSUME NEW p \in Paths PROVE pairs'[p] = Cardinality(PairedAt(p)')
      BY DEF CochangeAccounting
    <3> DEFINE next == Len(picked) + 1
               Counts(e) == /\ Cardinality(ChangedFiles(repo, e.id)) <= query.maxFiles
                            /\ p \in ChangedFiles(repo, e.id)
                            /\ p # e.path
    <3>1. /\ Len(picked) \in Nat
          /\ DOMAIN picked = 1..Len(picked)
          /\ DOMAIN picked' = 1..next
          /\ \A i \in DOMAIN picked : picked'[i] = picked[i]
          /\ picked'[next] = [id |-> item.id, path |-> path]
      BY <2>1, <2>3, PickedGrows
    <3>2. next \notin DOMAIN picked /\ DOMAIN picked' = DOMAIN picked \cup {next}
      BY <3>1
    <3>3. PairedAt(p) = {i \in DOMAIN picked : Counts(picked[i])}
      BY DEF PairedAt
    <3>4. PairedAt(p)' = {i \in DOMAIN picked' : Counts(picked'[i])}
      BY <2>1 DEF PairedAt
    <3>5. Counts(picked'[next]) <=> p \in Partners(item.id, path)
      BY <3>1 DEF Partners
    <3>6. pairs'[p] = IF p \in Partners(item.id, path) THEN pairs[p] + 1 ELSE pairs[p]
      BY <2>3 DEF Visit
    <3>7. pairs[p] = Cardinality(PairedAt(p))
      BY DEF CochangeAccounting
    <3> HIDE DEF next, Counts
    <3>8. IsFiniteSet(PairedAt(p)) /\ next \notin PairedAt(p)
      <4>1. IsFiniteSet(DOMAIN picked)
        BY <3>1, FS_Interval
      <4> QED BY <3>2, <3>3, <4>1, FS_Subset
    <3>9. CASE Counts(picked'[next])
      <4>1. PairedAt(p)' = PairedAt(p) \cup {next}
        BY <3>1, <3>2, <3>3, <3>4, <3>9
      <4> QED BY <3>5, <3>6, <3>7, <3>8, <3>9, <4>1, FS_AddElement
    <3>10. CASE ~Counts(picked'[next])
      <4>1. PairedAt(p)' = PairedAt(p)
        BY <3>1, <3>2, <3>3, <3>4, <3>10
      <4> QED BY <3>5, <3>6, <3>7, <3>10, <4>1
    <3> QED BY <3>9, <3>10
  <2> QED BY <1>1, <2>2, <2>3, SelectionMoves
<1>2. CASE Drain \/ UNCHANGED vars
  <2>1. UNCHANGED <<repo, query, picked, pairs>>
    BY <1>2 DEF Drain, vars, inputs, results
  <2>2. \A p : PairedAt(p)' = PairedAt(p)
    BY <2>1 DEF PairedAt
  <2> QED BY <2>1, <2>2 DEF CochangeAccounting
<1> QED BY <1>1, <1>2 DEF Next, Returned

-----------------------------------------------------------------------------
(* The simplified history holds head, is closed under the walk, and is     *)
(* contained in every set that does and is.                                *)
LEMMA HistoryIsLeast ==
  ASSUME NEW r \in Repository, NEW p
  PROVE  /\ SimplifiedHistory(r, p) \subseteq Commits
         /\ r.head \in SimplifiedHistory(r, p)
         /\ ClosedUnderWalk(r, p, SimplifiedHistory(r, p))
         /\ \A S \in SUBSET Commits :
              r.head \in S /\ ClosedUnderWalk(r, p, S) => SimplifiedHistory(r, p) \subseteq S
<1> DEFINE H == SimplifiedHistory(r, p)
<1>1. r.head \in Commits
  BY DEF Repository
<1>2. H \subseteq Commits /\ r.head \in H
  BY <1>1 DEF SimplifiedHistory
<1>3. \A S \in SUBSET Commits : r.head \in S /\ ClosedUnderWalk(r, p, S) => H \subseteq S
  BY DEF SimplifiedHistory
<1>4. ASSUME NEW c \in H, NEW i \in WalkParents(r, c, p)
      PROVE  Parent(r, c, i) \in H
  <2>1. Parent(r, c, i) \in Commits
    BY <1>2, WalkParentsAreParents
  <2>2. \A S \in SUBSET Commits :
          r.head \in S /\ ClosedUnderWalk(r, p, S) => Parent(r, c, i) \in S
    BY <1>3 DEF ClosedUnderWalk
  <2> QED BY <2>1, <2>2 DEF SimplifiedHistory
<1> QED BY <1>2, <1>3, <1>4 DEF ClosedUnderWalk

(* The same of the ancestors of head.                                      *)
LEMMA AncestorsAreLeast ==
  ASSUME NEW r \in Repository
  PROVE  /\ Ancestors(r) \subseteq Commits
         /\ r.head \in Ancestors(r)
         /\ \A c \in Ancestors(r) : \A i \in DOMAIN r.parents[c] : Parent(r, c, i) \in Ancestors(r)
         /\ \A S \in SUBSET Commits :
              /\ r.head \in S
              /\ \A c \in S : \A i \in DOMAIN r.parents[c] : Parent(r, c, i) \in S
              => Ancestors(r) \subseteq S
<1> DEFINE Closed(S) == \A c \in S : \A i \in DOMAIN r.parents[c] : Parent(r, c, i) \in S
<1>1. r.head \in Commits
  BY DEF Repository
<1>2. Ancestors(r) \subseteq Commits /\ r.head \in Ancestors(r)
  BY <1>1 DEF Ancestors
<1>3. \A S \in SUBSET Commits : r.head \in S /\ Closed(S) => Ancestors(r) \subseteq S
  BY DEF Ancestors
<1>4. ASSUME NEW c \in Ancestors(r), NEW i \in DOMAIN r.parents[c]
      PROVE  Parent(r, c, i) \in Ancestors(r)
  <2>1. Parent(r, c, i) \in Commits
    BY <1>2, WalkParentsAreParents
  <2>2. \A S \in SUBSET Commits : r.head \in S /\ Closed(S) => Parent(r, c, i) \in S
    BY <1>3
  <2> QED BY <2>1, <2>2 DEF Ancestors
<1> QED BY <1>2, <1>3, <1>4

(* What was queued of the parents of a commit, and that none is forgotten. *)
LEMMA ParentsAreQueued ==
  ASSUME TypeOK, NEW item \in heap, PushParents(item)
  PROVE  /\ \A i \in WalkParents(repo, item.id, path) : Parent(repo, item.id, i) \in seen'
         /\ \A c \in seen' : \/ c \in seen
                             \/ \E i \in WalkParents(repo, item.id, path) :
                                  c = Parent(repo, item.id, i)
         /\ QueuedIds' = {other.id : other \in heap \ {item}} \cup (seen' \ seen)
<1> DEFINE fresh == FreshParents(item.id)
           walk == WalkParents(repo, item.id, path)
           Queued(i) == [time     |-> repo.time[Parent(repo, item.id, i)],
                         sequence |-> sequence + Cardinality({j \in fresh : j <= i}),
                         id       |-> Parent(repo, item.id, i)]
<1>1. /\ heap' = (heap \ {item}) \cup {Queued(i) : i \in fresh}
      /\ seen' = seen \cup {Parent(repo, item.id, i) : i \in fresh}
  BY DEF PushParents
<1>2. \A i \in fresh : Queued(i).id = Parent(repo, item.id, i)
  OBVIOUS
<1>3. \A i \in fresh : i \in walk /\ Parent(repo, item.id, i) \notin seen
  BY DEF FreshParents
<1>4. walk \subseteq Nat
  <2>1. repo \in Repository /\ item.id \in Commits
    BY DEF TypeOK, HeapItem
  <2> QED BY <2>1, WalkParentsAreParents
<1>5. ASSUME NEW i \in walk, Parent(repo, item.id, i) \notin seen
      PROVE  \E j \in fresh : Parent(repo, item.id, j) = Parent(repo, item.id, i)
  <2> DEFINE same == {j \in walk : Parent(repo, item.id, j) = Parent(repo, item.id, i)}
  <2>1. same \in SUBSET Nat /\ same # {}
    BY <1>4
  <2>2. PICK j \in same : \A k \in same : j <= k
    BY <2>1, SmallestNumber
  <2>3. \A k \in walk : k < j => Parent(repo, item.id, k) # Parent(repo, item.id, j)
    BY <1>4, <2>2
  <2>4. j \in fresh
    BY <1>5, <2>2, <2>3 DEF FreshParents
  <2> QED BY <2>2, <2>4
<1> HIDE DEF fresh, walk, Queued
<1>6. seen' \ seen = {Parent(repo, item.id, i) : i \in fresh}
  BY <1>1, <1>3
<1>7. QueuedIds' = {other.id : other \in heap \ {item}} \cup {Queued(i).id : i \in fresh}
  BY <1>1 DEF QueuedIds
<1>8. {Queued(i).id : i \in fresh} = seen' \ seen
  BY <1>2, <1>6
<1>9. \A i \in walk : Parent(repo, item.id, i) \in seen'
  BY <1>1, <1>5
<1>10. \A c \in seen' : c \in seen \/ \E i \in walk : c = Parent(repo, item.id, i)
  BY <1>1, <1>3
<1> QED BY <1>7, <1>8, <1>9, <1>10 DEF walk

(* A way through the loop pops one commit.                                 *)
LEMMA PoppedGrows ==
  ASSUME IInv, NEW item \in heap, Take(item)
  PROVE  /\ Popped' = Popped \cup {item.id}
         /\ item.id \in seen /\ item.id \notin Popped
         /\ item.id \in Commits
         /\ seen \subseteq seen'
<1> TypeOK /\ QueueInv
  BY DEF IInv
<1>1. item.id \in Commits /\ item.id \in QueuedIds /\ item.id \in seen
  BY DEF TypeOK, HeapItem, QueuedIds, QueueInv
<1>2. {other.id : other \in heap \ {item}} = QueuedIds \ {item.id}
  BY DEF QueueInv, QueuedIds
<1>3. CASE PushParents(item)
  <2>1. QueuedIds' = (QueuedIds \ {item.id}) \cup (seen' \ seen)
    BY <1>2, <1>3, ParentsAreQueued
  <2>2. seen \subseteq seen' /\ QueuedIds \subseteq seen
    BY <1>3, PushFacts DEF QueueInv
  <2> QED BY <1>1, <2>1, <2>2 DEF Popped
<1>4. CASE heap' = heap \ {item} /\ seen' = seen
  <2>1. QueuedIds' = QueuedIds \ {item.id}
    BY <1>2, <1>4 DEF QueuedIds
  <2> QED BY <1>1, <1>4, <2>1 DEF Popped, QueueInv
<1> QED
  BY <1>1, <1>3, <1>4 DEF Take, StopAtScanLimit, SkipOld, FailBoundary, PassOver, Select, StopWith

(* What has not been renamed after a step was not before.                  *)
LEMMA NotRenamedBefore ==
  ASSUME TypeOK, NEW item \in heap, Take(item), NeverRenamed'
  PROVE  NeverRenamed /\ path = query.target
<1>1. item.id \in Commits /\ query' = query
  BY SelectionMoves DEF TypeOK, HeapItem
<1>2. CASE UNCHANGED <<path, picked>>
  BY <1>1, <1>2 DEF NeverRenamed
<1>3. CASE picked' = Append(picked, [id |-> item.id, path |-> path])
  BY <1>1, <1>3, PickedGrows DEF NeverRenamed
<1> QED BY <1>2, <1>3, SelectionMoves

(* The selected commits after a step.                                      *)
LEMMA PickedIdsGrow ==
  ASSUME TypeOK, NEW item \in heap, Take(item)
  PROVE  \/ UNCHANGED <<path, picked>> /\ PickedIds' = PickedIds /\ ~Select(item)
         \/ /\ Select(item)
            /\ PickedIds' = PickedIds \cup {item.id}
            /\ Len(picked) \in Nat /\ Len(picked') = Len(picked) + 1
            /\ picked'[Len(picked')] = [id |-> item.id, path |-> path]
<1>1. item.id \in Commits
  BY DEF TypeOK, HeapItem
<1>2. CASE Select(item)
  <2>1. picked' = Append(picked, [id |-> item.id, path |-> path])
    BY <1>2 DEF Select
  <2>2. /\ Len(picked) \in Nat
        /\ Len(picked') = Len(picked) + 1
        /\ DOMAIN picked = 1..Len(picked)
        /\ DOMAIN picked' = 1..(Len(picked) + 1)
        /\ \A i \in DOMAIN picked : picked'[i] = picked[i]
        /\ picked'[Len(picked) + 1] = [id |-> item.id, path |-> path]
    BY <1>1, <2>1, PickedGrows
  <2>3. PickedIds' = PickedIds \cup {item.id}
    BY <2>2 DEF PickedIds
  <2> QED BY <1>2, <2>2, <2>3
<1>3. CASE ~Select(item)
  <2>1. UNCHANGED <<path, picked>>
    BY <1>3 DEF Take, StopAtScanLimit, SkipOld, FailBoundary, PassOver, results
  <2> QED BY <1>3, <2>1 DEF PickedIds
<1> QED BY <1>2, <1>3

(* Every step keeps the walk within the simplified history.                *)
LEMMA ReachPreserved ==
  ASSUME IInv, ReachInv, [Next]_vars
  PROVE  ReachInv'
<1> TypeOK
  BY DEF IInv
<1>1. ASSUME NEW item \in heap, Take(item)
      PROVE  ReachInv'
  <2> DEFINE history == SimplifiedHistory(repo, query.target)
  <2>1. repo' = repo /\ query' = query /\ repo \in Repository /\ item.id \in Commits
    BY <1>1, SelectionMoves DEF TypeOK, HeapItem
  <2>2. (picked = <<>> => path = query.target)'
    <3>1. CASE UNCHANGED <<path, picked>>
      BY <2>1, <3>1 DEF ReachInv
    <3>2. CASE picked' = Append(picked, [id |-> item.id, path |-> path])
      <4>1. picked' # <<>>
        BY <3>2, <2>1, PickedGrows
      <4> QED BY <4>1
    <3> QED BY <1>1, <3>1, <3>2, SelectionMoves
  <2>3. (repo.head \in seen)'
    BY <1>1, <2>1, PoppedGrows DEF ReachInv
  <2>4. ASSUME NeverRenamed'
        PROVE  /\ seen' \subseteq history
               /\ \A c \in PickedIds' : Includes(repo, c, query.target)
    <3>1. NeverRenamed /\ path = query.target
      BY <1>1, <2>4, NotRenamedBefore
    <3>2. seen \subseteq history /\ item.id \in history
      BY <1>1, <3>1, PoppedGrows DEF ReachInv
    <3>3. \A i \in WalkParents(repo, item.id, path) : Parent(repo, item.id, i) \in history
      BY <2>1, <3>1, <3>2, HistoryIsLeast DEF ClosedUnderWalk
    <3>4. seen' \subseteq history
      <4>1. CASE PushParents(item)
        BY <3>2, <3>3, <4>1, ParentsAreQueued
      <4>2. CASE seen' = seen
        BY <3>2, <4>2
      <4> QED
        BY <1>1, <4>1, <4>2 DEF Take, StopAtScanLimit, SkipOld, FailBoundary, PassOver, Select,
                                StopWith
    <3>5. \A c \in PickedIds' : Includes(repo, c, query.target)
      <4>1. \A c \in PickedIds : Includes(repo, c, query.target)
        BY <3>1 DEF ReachInv
      <4>2. Select(item) => Includes(repo, item.id, query.target)
        BY <3>1 DEF Select
      <4> QED BY <1>1, <4>1, <4>2, PickedIdsGrow
    <3> QED BY <3>4, <3>5
  <2> QED BY <2>1, <2>2, <2>3, <2>4 DEF ReachInv
<1>2. CASE Drain \/ UNCHANGED vars
  BY <1>2 DEF Drain, vars, inputs, queue, results, ReachInv, NeverRenamed, PickedIds
<1> QED BY <1>1, <1>2 DEF Next, Returned

(* Every step keeps what the walk has covered.                             *)
LEMMA CoverPreserved ==
  ASSUME IInv, CoverInv, [Next]_vars
  PROVE  CoverInv'
<1> TypeOK /\ RoomInv
  BY DEF IInv
<1> DEFINE Covered(c) ==
             \/ TooOld(c)
             \/ \A i \in WalkParents(repo, c, query.target) : Parent(repo, c, i) \in seen
           Last(c) == status = "done" /\ Full /\ c = picked[Len(picked)].id
           Chosen(c) == Includes(repo, c, query.target) /\ ~TooOld(c) => c \in PickedIds
<1>1. ASSUME NEW item \in heap, Take(item),
             NeverRenamed', status' # "error", ~(status' = "done" /\ CutShort')
      PROVE  /\ \A c \in Popped' : (Covered(c) \/ Last(c))' /\ Chosen(c)'
             /\ status' = "done" => Full'
  <2>1. /\ repo' = repo /\ query' = query /\ scanned' = scanned + 1 /\ status = "walking"
        /\ ScanLimit' = ScanLimit
    BY <1>1, SelectionMoves DEF ScanLimit
  <2>2. NeverRenamed /\ path = query.target
    BY <1>1, NotRenamedBefore
  <2>3. \A c \in Popped : Covered(c) /\ Chosen(c)
    BY <2>1, <2>2 DEF CoverInv
  <2>4. Popped' = Popped \cup {item.id} /\ seen \subseteq seen'
    BY <1>1, PoppedGrows
  <2>5. PickedIds \subseteq PickedIds' /\ (Select(item) => item.id \in PickedIds')
    BY <1>1, PickedIdsGrow
  <2>6. \A c : TooOld(c)' <=> TooOld(c)
    BY <2>1 DEF TooOld
  <2>7. \A c \in Popped : Covered(c)' /\ Chosen(c)'
    BY <2>1, <2>3, <2>4, <2>5, <2>6
  <2>8. ASSUME PushParents(item)
        PROVE  Covered(item.id)'
    BY <2>1, <2>2, <2>8, ParentsAreQueued
  <2>9. /\ query.max \in Nat /\ ScanLimit \in Nat /\ scanned \in Nat /\ Len(picked) \in Nat
        /\ query.since \in Nat /\ repo.time[item.id] \in Nat
    BY LimitsAssumption DEF LimitsAssumption, TypeOK, Query, ScanLimit, Repository, HeapItem
  <2>10. CASE StopAtScanLimit(item)
    BY <1>1, <2>1, <2>9, <2>10 DEF StopAtScanLimit, StopWith, InScanLimit, CutShort
  <2>11. CASE SkipOld(item)
    <3>1. TooOld(item.id) /\ status' = status
      BY <2>9, <2>11 DEF SkipOld, RecentEnough, TooOld
    <3> QED BY <2>1, <2>4, <2>6, <2>7, <3>1
  <2>12. CASE FailBoundary(item)
    BY <1>1, <2>12 DEF FailBoundary, StopWith
  <2>13. CASE PassOver(item)
    <3>1. ~Includes(repo, item.id, query.target) /\ picked' = picked
      BY <2>2, <2>13 DEF PassOver, results
    <3>2. CASE LatencyStop(scanned + 1, Len(picked), lastHit)
      <4>1. query.fast /\ Len(picked) > 0 /\ status' = "done"
        BY <2>9, <2>13, <3>2, LimitsAssumption DEF LimitsAssumption, PassOver, LatencyStop, StopWith
      <4>2. picked # <<>>
        BY <4>1
      <4> QED BY <1>1, <2>1, <3>1, <4>1, <4>2 DEF CutShort
    <3>3. CASE ~LatencyStop(scanned + 1, Len(picked), lastHit)
      <4>1. PushParents(item) /\ status' = status
        BY <2>13, <3>3 DEF PassOver, PushParents
      <4> QED BY <2>1, <2>4, <2>7, <2>8, <3>1, <4>1
    <3> QED BY <3>2, <3>3
  <2>14. CASE Select(item)
    <3>1. /\ picked'[Len(picked')] = [id |-> item.id, path |-> path]
          /\ Len(picked') = Len(picked) + 1
      <4>1. item.id \in Commits
        BY <1>1, PoppedGrows
      <4> QED BY <2>14, <4>1, PickedGrows DEF Select
    <3>2. picked' # <<>>
      BY <2>9, <3>1
    <3>3. Chosen(item.id)'
      BY <2>5, <2>14
    <3>4. CASE EnoughCommits(Len(picked) + 1)
      <4>1. Full'
        BY <2>1, <2>9, <3>1, <3>4 DEF EnoughCommits, RoomInv, Full
      <4>2. status' = "done"
        BY <2>14, <3>4 DEF Select, StopWith
      <4> QED BY <2>4, <2>7, <3>1, <3>3, <4>1, <4>2
    <3>5. CASE LatencyStop(scanned + 1, Len(picked) + 1, scanned + 1)
      <4>1. query.fast /\ status' = "done"
        BY <2>14, <3>5 DEF Select, StopWith, LatencyStop
      <4> QED BY <1>1, <2>1, <3>2, <4>1 DEF CutShort
    <3>6. CASE /\ ~EnoughCommits(Len(picked) + 1)
               /\ ~LatencyStop(scanned + 1, Len(picked) + 1, scanned + 1)
      <4>1. PushParents(item) /\ status' = status
        BY <2>14, <3>6 DEF Select, PushParents
      <4> QED BY <2>1, <2>4, <2>7, <2>8, <3>3, <4>1
    <3> QED BY <3>4, <3>5, <3>6
  <2> QED BY <1>1, <2>10, <2>11, <2>12, <2>13, <2>14 DEF Take
<1>2. ASSUME NEW item \in heap, Take(item)
      PROVE  CoverInv'
  BY <1>1, <1>2 DEF CoverInv
<1>3. CASE Drain
  <2>1. status = "walking" /\ status' = "done" /\ heap' = {}
        /\ UNCHANGED <<repo, query, heap, seen, scanned, path, picked>>
    BY <1>3 DEF Drain, inputs, queue, results
  <2>2. Popped' = Popped /\ PickedIds' = PickedIds /\ NeverRenamed' = NeverRenamed
    BY <2>1 DEF Popped, QueuedIds, PickedIds, NeverRenamed
  <2>3. \A c : TooOld(c)' <=> TooOld(c)
    BY <2>1 DEF TooOld
  <2>4. NeverRenamed => \A c \in Popped : Covered(c) /\ Chosen(c)
    BY <2>1 DEF CoverInv
  <2>5. NeverRenamed => \A c \in Popped : Covered(c)' /\ Chosen(c)'
    BY <2>1, <2>2, <2>3, <2>4
  <2> QED BY <2>1, <2>2, <2>5 DEF CoverInv
<1>4. CASE UNCHANGED vars
  BY <1>4 DEF vars, inputs, queue, results, CoverInv, NeverRenamed, Popped, QueuedIds, PickedIds,
              CutShort, ScanLimit, TooOld, Full
<1> QED BY <1>2, <1>3, <1>4 DEF Next, Returned

(* With honest clocks, when a step leads away from the target's name,      *)
(* what touches the target has been selected under it, or is as old.       *)
LEMMA RenameHidesOlder ==
  ASSUME IInv, ReachInv, CoverInv, NeverRenamed, TimesFollowAncestry(repo),
         NEW item \in heap, Select(item),
         NEW c \in TouchingCommits(repo, query.target), ~TooOld(c)
  PROVE  c \in PickedIds \/ repo.time[c] <= repo.time[item.id]
<1> TypeOK /\ QueueInv /\ OrderInv
  BY DEF IInv
<1> DEFINE V == {d \in Commits : d \in Popped \/ TooOld(d) \/ repo.time[d] <= repo.time[item.id]}
<1>1. /\ repo \in Repository /\ seen \in SUBSET Commits /\ query.since \in Nat
      /\ \A d \in Commits : repo.time[d] \in Nat
      /\ item.id \in Commits /\ status = "walking"
  BY DEF TypeOK, Repository, Query, HeapItem, Select, Pop
<1>2. \A other \in heap : repo.time[other.id] <= repo.time[item.id]
  <2> SUFFICES ASSUME NEW other \in heap PROVE repo.time[other.id] <= repo.time[item.id]
    OBVIOUS
  <2>1. Before(item, other)
    BY DEF Select, Pop
  <2>2. item.time = repo.time[item.id] /\ other.time = repo.time[other.id]
        /\ item.time \in Nat /\ other.time \in Nat
    BY DEF OrderInv, TypeOK, HeapItem
  <2> QED BY <2>1, <2>2 DEF Before
<1>3. \A d \in seen : d \in V
  BY <1>1, <1>2 DEF Popped, QueuedIds
<1>4. ASSUME NEW d \in V, NEW i \in WalkParents(repo, d, query.target)
      PROVE  Parent(repo, d, i) \in V
  <2> DEFINE above == Parent(repo, d, i)
  <2>1. above \in Commits /\ repo.time[above] \in Nat /\ repo.time[d] \in Nat
        /\ repo.time[above] <= repo.time[d]
    BY <1>1, <1>4, WalkParentsAreParents DEF TimesFollowAncestry
  <2>2. CASE TooOld(d)
    BY <1>1, <2>1, <2>2 DEF TooOld
  <2>3. CASE repo.time[d] <= repo.time[item.id]
    BY <1>1, <2>1, <2>3
  <2>4. CASE d \in Popped /\ ~TooOld(d)
    <3>1. above \in seen
      BY <1>1, <1>4, <2>4 DEF CoverInv
    <3> QED BY <1>3, <3>1
  <2> QED BY <1>4, <2>2, <2>3, <2>4
<1>5. c \in V
  <2>1. repo.head \in V
    BY <1>3 DEF ReachInv
  <2>2. ClosedUnderWalk(repo, query.target, V)
    BY <1>4 DEF ClosedUnderWalk
  <2>3. V \in SUBSET Commits
    OBVIOUS
  <2> HIDE DEF V
  <2>4. SimplifiedHistory(repo, query.target) \subseteq V
    BY <1>1, <2>1, <2>2, <2>3, HistoryIsLeast
  <2> QED BY <2>4 DEF TouchingCommits
<1>6. c \in Popped => c \in PickedIds
  BY <1>1 DEF CoverInv, TouchingCommits
<1> QED BY <1>5, <1>6

(* Every step keeps that no rename hides a newer commit.                   *)
LEMMA RenamedPreserved ==
  ASSUME IInv, ReachInv, CoverInv, RenamedInv, [Next]_vars
  PROVE  RenamedInv'
<1> TypeOK
  BY DEF IInv
<1>1. ASSUME NEW item \in heap, Take(item)
      PROVE  RenamedInv'
  <2>1. repo' = repo /\ query' = query /\ item.id \in Commits
    BY <1>1, SelectionMoves DEF TypeOK, HeapItem
  <2>2. \A c : TooOld(c)' <=> TooOld(c)
    BY <2>1 DEF TooOld
  <2>3. CASE UNCHANGED <<path, picked>>
    <3>1. /\ NeverRenamed' = NeverRenamed /\ PickedAsTarget' = PickedAsTarget
          /\ \A i \in DOMAIN picked : RenamedAt(i)' = RenamedAt(i)
      BY <2>1, <2>3 DEF NeverRenamed, PickedAsTarget, RenamedAt
    <3> QED BY <2>1, <2>2, <2>3, <3>1 DEF RenamedInv
  <2>4. CASE Select(item)
    <3>1. /\ Len(picked) \in Nat
          /\ DOMAIN picked = 1..Len(picked)
          /\ DOMAIN picked' = 1..(Len(picked) + 1)
          /\ \A i \in DOMAIN picked : picked'[i] = picked[i]
          /\ picked'[Len(picked) + 1] = [id |-> item.id, path |-> path]
      BY <2>1, <2>4, PickedGrows DEF Select
    <3>2. PickedAsTarget \subseteq PickedAsTarget'
      BY <2>1, <3>1 DEF PickedAsTarget
    <3>3. \A i \in DOMAIN picked : i \in DOMAIN picked' /\ (RenamedAt(i)' <=> RenamedAt(i))
      BY <2>1, <3>1 DEF RenamedAt
    <3>4. CASE ~NeverRenamed
      BY <2>1, <2>2, <3>1, <3>2, <3>3, <3>4 DEF RenamedInv
    <3>5. CASE NeverRenamed
      <4> SUFFICES ASSUME (~NeverRenamed)', TimesFollowAncestry(repo),
                          NEW c \in TouchingCommits(repo, query.target), ~TooOld(c)
                   PROVE  \/ c \in PickedAsTarget'
                          \/ \E i \in DOMAIN picked' :
                               RenamedAt(i)' /\ repo.time[picked'[i].id] >= repo.time[c]
        BY <2>1, <2>2 DEF RenamedInv
      <4>1. PickedIds \subseteq PickedAsTarget
        BY <3>5 DEF NeverRenamed, PickedIds, PickedAsTarget
      <4>2. \A i \in DOMAIN picked' : picked'[i].path = query.target
        BY <3>1, <3>5 DEF NeverRenamed
      <4>3. path' = FollowedPath(repo, item.id, path) /\ path' # path
        BY <2>1, <2>4, <3>5, <4>2 DEF NeverRenamed, Select, FollowRename
      <4>4. PICK n : n = Len(picked) + 1
        OBVIOUS
      <4>5. n \in DOMAIN picked' /\ picked'[n].id = item.id /\ picked'[n].path = path
        BY <3>1, <4>4
      <4>6. RenamedAt(n)'
        BY <2>1, <4>3, <4>5 DEF RenamedAt
      <4>7. c \in PickedIds \/ repo.time[c] <= repo.time[item.id]
        BY <2>4, <3>5, RenameHidesOlder
      <4>8. repo.time[c] \in Nat /\ repo.time[item.id] \in Nat
        <5>1. repo \in Repository
          BY DEF TypeOK
        <5>2. c \in Commits
          BY <5>1, HistoryIsLeast DEF TouchingCommits
        <5> QED BY <2>1, <5>1, <5>2 DEF Repository
      <4>9. CASE repo.time[c] <= repo.time[item.id]
        <5>1. repo.time[picked'[n].id] >= repo.time[c]
          BY <4>8, <4>9, <4>5
        <5> QED BY <4>5, <4>6, <5>1
      <4> QED BY <3>2, <4>1, <4>7, <4>9
    <3> QED BY <3>4, <3>5
  <2> QED BY <1>1, <2>3, <2>4, PickedIdsGrow
<1>2. CASE Drain \/ UNCHANGED vars
  <2>1. UNCHANGED <<repo, query, path, picked>>
    BY <1>2 DEF Drain, vars, inputs, results
  <2>2. /\ NeverRenamed' = NeverRenamed /\ PickedAsTarget' = PickedAsTarget
        /\ \A i \in DOMAIN picked : RenamedAt(i)' = RenamedAt(i)
    BY <2>1 DEF NeverRenamed, PickedAsTarget, RenamedAt
  <2>3. \A c : TooOld(c)' <=> TooOld(c)
    BY <2>1 DEF TooOld
  <2> QED BY <2>1, <2>2, <2>3 DEF RenamedInv
<1> QED BY <1>1, <1>2 DEF Next, Returned

(* On a chain, without bounds, every way through the loop queues the       *)
(* parent and goes on under the name the file had there.                   *)
LEMMA LinearStep ==
  ASSUME TypeOK, Unbounded, IsLinear(repo), NEW item \in heap, Take(item)
  PROVE  /\ PushParents(item)
         /\ path' = FollowedPath(repo, item.id, path)
         /\ WalkParents(repo, item.id, path) = DOMAIN repo.parents[item.id]
         /\ DOMAIN repo.parents[item.id] = IF Len(repo.parents[item.id]) = 1 THEN {1} ELSE {}
         /\ {picked'[i] : i \in DOMAIN picked'} =
              {picked[i] : i \in DOMAIN picked} \cup
                {[id |-> c, path |-> path] : c \in {d \in {item.id} : Includes(repo, d, path)}}
<1>1. item.id \in Commits /\ repo \in Repository /\ item.time \in Nat
  BY DEF TypeOK, HeapItem
<1>2. repo.parents[item.id] \in Seq(Commits) /\ Len(repo.parents[item.id]) <= 1
  BY <1>1 DEF Repository, IsLinear
<1>3. DOMAIN repo.parents[item.id] = IF Len(repo.parents[item.id]) = 1 THEN {1} ELSE {}
  <2>1. /\ DOMAIN repo.parents[item.id] = 1..Len(repo.parents[item.id])
        /\ Len(repo.parents[item.id]) \in Nat
    BY <1>2
  <2>2. Len(repo.parents[item.id]) = 0 \/ Len(repo.parents[item.id]) = 1
    <3>1. \A n \in Nat : n <= 1 => n = 0 \/ n = 1
      OBVIOUS
    <3>2. Len(repo.parents[item.id]) <= 1
      BY <1>2
    <3> QED BY ONLY <2>1, <3>1, <3>2
  <2>3. 1..0 = {} /\ 1..1 = {1}
    OBVIOUS
  <2> QED BY <2>1, <2>2, <2>3
<1>4. \A i \in DOMAIN repo.parents[item.id] : Parent(repo, item.id, i) \in repo.readable
  BY <1>1, WalkParentsAreParents DEF IsLinear
<1>5. ReadableParents(repo, item.id) = DOMAIN repo.parents[item.id]
  BY <1>4 DEF ReadableParents
<1>6. WalkParents(repo, item.id, path) = DOMAIN repo.parents[item.id]
  BY <1>3, <1>5 DEF WalkParents, TreeSameParents
<1>7. ScanLimit = 0 /\ query.since = 0 /\ query.max = 0 /\ ~query.fast
  BY DEF Unbounded, ScanLimit
<1>8. ~StopAtScanLimit(item)
  BY <1>7 DEF StopAtScanLimit, InScanLimit
<1>9. ~SkipOld(item)
  BY <1>1, <1>7 DEF SkipOld, RecentEnough, Repository
<1>10. ~FailBoundary(item)
  BY <1>3, <1>5 DEF FailBoundary, FailsAtBoundary
<1>11. CASE PassOver(item)
  <2>1. PushParents(item) /\ UNCHANGED <<path, picked>> /\ ~Includes(repo, item.id, path)
    BY <1>7, <1>11 DEF PassOver, LatencyStop, results
  <2>2. FollowedPath(repo, item.id, path) = path
    BY <2>1 DEF FollowedPath
  <2>3. {[id |-> c, path |-> path] : c \in {d \in {item.id} : Includes(repo, d, path)}} = {}
    BY <2>1
  <2> QED BY <1>3, <1>6, <2>1, <2>2, <2>3
<1>12. CASE Select(item)
  <2>1. PushParents(item)
    BY <1>7, <1>12 DEF Select, EnoughCommits, LatencyStop
  <2>2. /\ path' = FollowedPath(repo, item.id, path)
        /\ Includes(repo, item.id, path)
        /\ picked' = Append(picked, [id |-> item.id, path |-> path])
    BY <1>12 DEF Select, FollowRename
  <2>3. {[id |-> c, path |-> path] : c \in {d \in {item.id} : Includes(repo, d, path)}} =
          {[id |-> item.id, path |-> path]}
    BY <2>2
  <2>4. /\ DOMAIN picked = 1..Len(picked) /\ Len(picked) \in Nat
        /\ DOMAIN picked' = 1..(Len(picked) + 1)
        /\ \A i \in DOMAIN picked : picked'[i] = picked[i]
        /\ picked'[Len(picked) + 1] = [id |-> item.id, path |-> path]
    BY <1>1, <2>2, PickedGrows
  <2>5. {picked'[i] : i \in DOMAIN picked'} =
          {picked[i] : i \in DOMAIN picked} \cup {[id |-> item.id, path |-> path]}
    BY <2>4
  <2> QED BY <1>3, <1>6, <2>1, <2>2, <2>3, <2>5
<1> QED BY <1>8, <1>9, <1>10, <1>11, <1>12 DEF Take

(* On a chain the parent of the commit taken was never queued before.      *)
LEMMA ParentIsNew ==
  ASSUME IInv, ReachInv, LineageInv, Unbounded, IsLinear(repo), NEW item \in heap, Take(item),
         NEW i \in DOMAIN repo.parents[item.id]
  PROVE  Parent(repo, item.id, i) \notin seen
<1> TypeOK /\ QueueInv
  BY DEF IInv
<1> SUFFICES ASSUME Parent(repo, item.id, i) \in seen PROVE FALSE
  OBVIOUS
<1>1. PICK name \in [Commits -> Paths] : NamedSoFar(name)
  BY DEF LineageInv
<1>2. \A c \in Popped : \E j \in DOMAIN repo.parents[c] : Parent(repo, c, j) \in seen
  <2> SUFFICES ASSUME NEW c \in Popped
               PROVE  \E j \in DOMAIN repo.parents[c] : Parent(repo, c, j) \in seen
    OBVIOUS
  <2>1. c \in Commits /\ Len(repo.parents[c]) = 1
    BY DEF LineageInv, Popped, TypeOK
  <2>2. repo.parents[c] \in Seq(Commits)
    BY <2>1 DEF TypeOK, Repository
  <2>3. 1 \in DOMAIN repo.parents[c]
    BY <2>1, <2>2
  <2> QED BY <1>1, <2>3 DEF NamedSoFar
<1>3. \A c \in QueuedIds : c = item.id
  BY DEF LineageInv, QueuedIds
<1>4. \A c \in seen : \E j \in DOMAIN repo.parents[c] : Parent(repo, c, j) \in seen
  BY <1>2, <1>3 DEF Popped
<1>5. seen \in (SUBSET Commits) \ {{}}
  BY DEF TypeOK, ReachInv
<1> QED BY <1>4, <1>5 DEF IsLinear

(* Every step on a chain keeps the naming of the file.                     *)
LEMMA LineagePreserved ==
  ASSUME IInv, ReachInv, LineageInv, [Next]_vars
  PROVE  LineageInv'
<1> TypeOK /\ QueueInv
  BY DEF IInv
<1>1. ASSUME Unbounded, IsLinear(repo), NEW item \in heap, Take(item)
      PROVE  /\ status' # "error" /\ status' # "done"
             /\ seen' \subseteq Ancestors(repo)
             /\ \A a, b \in heap' : a = b
             /\ heap' # {} => \A c \in Popped' : Len(repo.parents[c]) = 1
             /\ \E name \in [Commits -> Paths] : NamedSoFar(name)'
  <2> DEFINE above == DOMAIN repo.parents[item.id]
  <2>1. /\ repo' = repo /\ query' = query /\ status = "walking"
        /\ item.id \in Commits /\ repo \in Repository /\ path \in Paths
    BY <1>1, SelectionMoves DEF TypeOK, HeapItem
  <2>2. /\ PushParents(item)
        /\ path' = FollowedPath(repo, item.id, path)
        /\ WalkParents(repo, item.id, path) = above
        /\ above = IF Len(repo.parents[item.id]) = 1 THEN {1} ELSE {}
    BY <1>1, LinearStep
  <2>3. PICK name \in [Commits -> Paths] : NamedSoFar(name)
    BY <1>1 DEF LineageInv
  <2>4. /\ Popped' = Popped \cup {item.id} /\ item.id \in seen /\ seen \subseteq seen'
        /\ Popped \subseteq seen
    BY <1>1, PoppedGrows DEF Popped
  <2>5. \A i \in above : /\ Parent(repo, item.id, i) \in seen' \ seen
                         /\ Parent(repo, item.id, i) \in Commits
    BY <1>1, <2>1, <2>2, ParentIsNew, ParentsAreQueued, WalkParentsAreParents
  <2>6. \A c \in seen' \ seen : \E i \in above : c = Parent(repo, item.id, i)
    BY <2>2, ParentsAreQueued
  <2>7. status' = "walking"
    BY <2>1, <2>2, PushFacts
  <2>8. seen' \subseteq Ancestors(repo)
    <3>1. seen \subseteq Ancestors(repo)
      BY <1>1 DEF LineageInv
    <3>2. \A i \in above : Parent(repo, item.id, i) \in Ancestors(repo)
      BY <2>1, <2>4, <3>1, AncestorsAreLeast
    <3> QED BY <2>6, <3>1, <3>2
  <2>9. \A a \in heap' : a \notin heap /\ a.id \in seen' \ seen
    <3>1. \A a \in heap : a = item
      BY <1>1 DEF LineageInv
    <3>2. \A a \in heap' : a.id \in seen' /\ a.id \notin seen
      BY <2>2, <3>1, PushFacts
    <3>3. \A a \in heap : a.id \in seen
      BY DEF QueueInv, QueuedIds
    <3> QED BY <3>2, <3>3
  <2>10. \A a, b \in heap' : a = b
    <3>1. \A a, b \in heap' : a.id = b.id
      BY <2>2, <2>6, <2>9
    <3> QED BY <2>2, <2>9, <3>1, PushFacts
  <2>11. heap' # {} => \A c \in Popped' : Len(repo.parents[c]) = 1
    <3>1. \A c \in Popped : Len(repo.parents[c]) = 1
      BY <1>1 DEF LineageInv
    <3>2. heap' # {} => Len(repo.parents[item.id]) = 1
      BY <2>2, <2>6, <2>9
    <3> QED BY <2>4, <3>1, <3>2
  <2>12. PICK now \in [Commits -> Paths] :
           now = [c \in Commits |-> IF c \in seen THEN name[c] ELSE path']
    BY <2>1, <2>2, FollowedPathIsPath
  <2>13. /\ \A c \in seen : now[c] = name[c]
         /\ \A c \in seen' \ seen : now[c] = path'
         /\ now[item.id] = path
    <3>1. seen \subseteq Commits /\ seen' \subseteq Commits
      BY <1>1, QueueMoves DEF TypeOK
    <3>2. name[item.id] = path
      BY <2>3 DEF NamedSoFar
    <3> QED BY <2>4, <2>12, <3>1, <3>2
  <2> HIDE DEF above
  <2>14. NamedSoFar(now)'
    <3>1. now[repo.head] = query.target
      BY <2>3, <2>13 DEF NamedSoFar, ReachInv
    <3>2. \A new \in heap' : now[new.id] = path'
      BY <2>9, <2>13
    <3>3. ASSUME NEW c \in Popped, NEW i \in DOMAIN repo.parents[c]
          PROVE  /\ Parent(repo, c, i) \in seen'
                 /\ now[Parent(repo, c, i)] = FollowedPath(repo, c, now[c])
      <4>1. Parent(repo, c, i) \in seen /\ name[Parent(repo, c, i)] = FollowedPath(repo, c, name[c])
        BY <2>3 DEF NamedSoFar
      <4> QED BY <2>4, <2>13, <4>1
    <3>4. ASSUME NEW i \in DOMAIN repo.parents[item.id]
          PROVE  /\ Parent(repo, item.id, i) \in seen'
                 /\ now[Parent(repo, item.id, i)] = FollowedPath(repo, item.id, now[item.id])
      BY <2>2, <2>5, <2>13 DEF above
    <3>5. {picked'[i] : i \in DOMAIN picked'} =
            {[id |-> c, path |-> now[c]] : c \in {d \in Popped' : Includes(repo, d, now[d])}}
      <4>1. {picked[i] : i \in DOMAIN picked} =
              {[id |-> c, path |-> name[c]] : c \in {d \in Popped : Includes(repo, d, name[d])}}
        BY <2>3 DEF NamedSoFar
      <4>2. {[id |-> c, path |-> name[c]] : c \in {d \in Popped : Includes(repo, d, name[d])}} =
              {[id |-> c, path |-> now[c]] : c \in {d \in Popped : Includes(repo, d, now[d])}}
        <5>1. {d \in Popped : Includes(repo, d, name[d])} = {d \in Popped : Includes(repo, d, now[d])}
          BY <2>4, <2>13
        <5> QED BY <2>4, <2>13, <5>1
      <4>3. {[id |-> c, path |-> path] : c \in {d \in {item.id} : Includes(repo, d, path)}} =
              {[id |-> c, path |-> now[c]] : c \in {d \in {item.id} : Includes(repo, d, now[d])}}
        BY <2>13
      <4>4. {[id |-> c, path |-> now[c]] : c \in {d \in Popped' : Includes(repo, d, now[d])}} =
              {[id |-> c, path |-> now[c]] : c \in {d \in Popped : Includes(repo, d, now[d])}} \cup
                {[id |-> c, path |-> now[c]] : c \in {d \in {item.id} : Includes(repo, d, now[d])}}
        BY <2>4
      <4>5. {picked'[i] : i \in DOMAIN picked'} =
              {picked[i] : i \in DOMAIN picked} \cup
                {[id |-> c, path |-> path] : c \in {d \in {item.id} : Includes(repo, d, path)}}
        BY <1>1, LinearStep
      <4> QED BY <4>1, <4>2, <4>3, <4>4, <4>5
    <3> QED BY <2>1, <2>4, <3>1, <3>2, <3>3, <3>4, <3>5 DEF NamedSoFar
  <2> QED BY <2>7, <2>8, <2>10, <2>11, <2>12, <2>14
<1>2. ASSUME NEW item \in heap, Take(item)
      PROVE  LineageInv'
  <2>1. repo' = repo /\ query' = query
    BY <1>2, SelectionMoves
  <2>2. Unbounded' = Unbounded
    BY <2>1 DEF Unbounded
  <2> QED BY <1>1, <1>2, <2>1, <2>2 DEF LineageInv
<1>3. CASE Drain
  <2>1. heap' = {} /\ heap = {} /\ status' = "done"
        /\ UNCHANGED <<repo, query, seen, path, picked>>
    BY <1>3 DEF Drain, inputs, queue, results
  <2>2. Popped' = Popped /\ Unbounded' = Unbounded
    BY <2>1 DEF Popped, QueuedIds, Unbounded
  <2>3. \A name : NamedSoFar(name)' <=> NamedSoFar(name)
    BY <2>1, <2>2 DEF NamedSoFar
  <2> QED BY <2>1, <2>2, <2>3 DEF LineageInv
<1>4. CASE UNCHANGED vars
  <2>1. Popped' = Popped /\ Unbounded' = Unbounded
    BY <1>4 DEF vars, inputs, queue, Popped, QueuedIds, Unbounded
  <2>2. \A name : NamedSoFar(name)' <=> NamedSoFar(name)
    BY <1>4, <2>1 DEF vars, inputs, queue, results, NamedSoFar
  <2> QED BY <1>4, <2>1, <2>2 DEF vars, inputs, queue, results, LineageInv
<1> QED BY <1>2, <1>3, <1>4 DEF Next, Returned

(* The initial states satisfy the invariant.                               *)
LEMMA InitIInv == Init => IInv
<1> SUFFICES ASSUME Init PROVE IInv
  OBVIOUS
<1>1. repo \in Repository /\ query \in Query
  BY InputsAssumption DEF InputsAssumption, Init
<1>2. repo.head \in Commits /\ repo.time[repo.head] \in Nat /\ query.target \in Paths
      /\ query.max \in Nat
  BY <1>1 DEF Repository, Query
<1>3. TypeOK
  <2>1. [time |-> repo.time[repo.head], sequence |-> 0, id |-> repo.head] \in HeapItem
    BY <1>2 DEF HeapItem
  <2>2. picked \in Seq([id : Commits, path : Paths]) /\ pairs \in [Paths -> Nat]
    BY DEF Init
  <2> QED BY <1>1, <1>2, <2>1, <2>2 DEF Init, TypeOK
<1>4. DOMAIN picked = {} /\ Len(picked) = 0
  BY DEF Init
<1>5. QueueInv
  BY <1>4 DEF Init, QueueInv, QueuedIds, PickedIds
<1>6. NoCommitTwice /\ PickedNewestFirst /\ OrderInv
  BY <1>4 DEF Init, NoCommitTwice, PickedNewestFirst, OrderInv
<1>7. RoomInv /\ BoundsRespected
  <2>1. ScanLimit \in Nat
    BY <1>1, LimitsAssumption DEF LimitsAssumption, Query, ScanLimit
  <2> QED BY <1>2, <1>4, <2>1 DEF Init, RoomInv, BoundsRespected
<1>8. CochangeAccounting
  <2>1. \A p \in Paths : pairs[p] = 0 /\ PairedAt(p) = {}
    BY <1>4 DEF Init, PairedAt
  <2> QED BY <2>1, FS_EmptySet DEF CochangeAccounting
<1> QED BY <1>3, <1>5, <1>6, <1>7, <1>8 DEF IInv

(* Nothing is popped and nothing is selected when the walk starts.         *)
LEMMA InitHistoryInv == Init => HistoryInv
<1> SUFFICES ASSUME Init PROVE HistoryInv
  OBVIOUS
<1>1. repo \in Repository /\ repo.head \in Commits /\ query.target \in Paths
  BY InputsAssumption DEF InputsAssumption, Init, Repository, Query
<1>2. /\ DOMAIN picked = {} /\ PickedIds = {} /\ Popped = {}
      /\ path = query.target /\ seen = {repo.head} /\ status = "walking" /\ heap # {}
      /\ \A item \in heap : item.id = repo.head
      /\ \A a, b \in heap : a = b
  BY DEF Init, PickedIds, Popped, QueuedIds
<1>3. ReachInv
  BY <1>1, <1>2, HistoryIsLeast DEF ReachInv
<1>4. CoverInv
  BY <1>2 DEF CoverInv
<1>5. LineageInv
  <2>1. PICK name \in [Commits -> Paths] : name = [c \in Commits |-> query.target]
    BY <1>1
  <2>2. {picked[i] : i \in DOMAIN picked} = {}
    BY <1>2
  <2>3. {[id |-> c, path |-> name[c]] : c \in {d \in Popped : Includes(repo, d, name[d])}} = {}
    BY <1>2
  <2>4. NamedSoFar(name)
    BY <1>1, <1>2, <2>1, <2>2, <2>3 DEF NamedSoFar
  <2>5. seen \subseteq Ancestors(repo)
    BY <1>1, <1>2, AncestorsAreLeast
  <2> QED BY <1>2, <2>4, <2>5 DEF LineageInv
<1>6. RenamedInv
  BY <1>2 DEF RenamedInv, NeverRenamed
<1> QED BY <1>3, <1>4, <1>5, <1>6 DEF HistoryInv

-----------------------------------------------------------------------------
(* An unbounded walk that never met a rename has seen exactly the          *)
(* simplified history when its queue is empty.                             *)
LEMMA AllIsSeen ==
  ASSUME WalkInv, status = "done", Unbounded, NeverRenamed
  PROVE  PickedIds = TouchingCommits(repo, query.target)
<1> TypeOK /\ QueueInv /\ ReachInv /\ CoverInv
  BY DEF WalkInv, IInv, HistoryInv
<1> DEFINE history == SimplifiedHistory(repo, query.target)
<1>1. repo \in Repository /\ seen \in SUBSET Commits
  BY DEF TypeOK
<1>2. ~CutShort /\ ~Full
  BY DEF Unbounded, ScanLimit, CutShort, Full
<1>3. \A c \in Commits : ~TooOld(c)
  BY <1>1 DEF Unbounded, TooOld, Repository
<1>4. heap = {}
  BY <1>2 DEF CoverInv
<1>5. Popped = seen
  BY <1>4 DEF Popped, QueuedIds
<1>6. ClosedUnderWalk(repo, query.target, seen)
  BY <1>1, <1>2, <1>3, <1>5 DEF CoverInv, ClosedUnderWalk
<1>7. history = seen
  BY <1>1, <1>6, HistoryIsLeast DEF ReachInv
<1>8. \A c \in seen : Includes(repo, c, query.target) => c \in PickedIds
  BY <1>1, <1>2, <1>3, <1>5 DEF CoverInv
<1> QED BY <1>7, <1>8 DEF TouchingCommits, QueueInv, ReachInv

(* With honest clocks a walk that was not cut short has selected every     *)
(* commit that is recent enough and touches the target, or as many as it   *)
(* was asked for, none of them older.                                      *)
LEMMA NewestAreSelected ==
  ASSUME WalkInv, status = "done", NeverRenamed, ~CutShort, TimesFollowAncestry(repo),
         NEW c \in TouchingCommits(repo, query.target), ~TooOld(c)
  PROVE  \/ c \in PickedIds
         \/ Full /\ \A d \in PickedIds : repo.time[d] >= repo.time[c]
<1> TypeOK /\ QueueInv /\ OrderInv /\ PickedNewestFirst /\ ReachInv /\ CoverInv
  BY DEF WalkInv, IInv, HistoryInv
<1> DEFINE Older(d) == Full /\ \A k \in PickedIds : repo.time[k] >= repo.time[d]
           V == {d \in Commits : d \in Popped \/ TooOld(d) \/ Older(d)}
<1>1. /\ repo \in Repository /\ seen \in SUBSET Commits /\ query.since \in Nat
      /\ \A d \in Commits : repo.time[d] \in Nat
      /\ repo.head \in Commits
  BY DEF TypeOK, Repository, Query
<1>2. PickedIds \subseteq Commits
  BY <1>1 DEF QueueInv
<1>3. heap = {} \/ Full
  BY DEF CoverInv
<1>4. \A d \in seen : d \in V
  <2> SUFFICES ASSUME NEW d \in seen, d \notin Popped PROVE Older(d)
    BY <1>1
  <2>1. PICK item \in heap : item.id = d
    BY DEF Popped, QueuedIds
  <2>2. \A i \in DOMAIN picked : repo.time[d] <= repo.time[picked[i].id]
    BY <2>1 DEF OrderInv
  <2>3. \A k \in PickedIds : repo.time[k] >= repo.time[d]
    BY <1>1, <1>2, <2>2 DEF PickedIds
  <2> QED BY <1>3, <2>1, <2>3
<1>5. ASSUME NEW d \in V, NEW i \in WalkParents(repo, d, query.target)
      PROVE  Parent(repo, d, i) \in V
  <2> DEFINE above == Parent(repo, d, i)
  <2>1. above \in Commits /\ repo.time[above] \in Nat /\ repo.time[d] \in Nat
        /\ repo.time[above] <= repo.time[d]
    BY <1>1, <1>5, WalkParentsAreParents DEF TimesFollowAncestry
  <2>2. CASE TooOld(d)
    BY <1>1, <2>1, <2>2 DEF TooOld
  <2>3. CASE Older(d)
    <3>1. \A k \in PickedIds : repo.time[k] >= repo.time[above]
      BY <1>1, <1>2, <2>1, <2>3
    <3> QED BY <2>1, <2>3, <3>1
  <2>4. CASE above \in seen
    BY <1>4, <2>4
  <2>5. CASE Full /\ d = picked[Len(picked)].id
    <3>1. \A j \in DOMAIN picked : j \in Nat /\ j <= Len(picked)
          /\ Len(picked) \in DOMAIN picked
      BY DEF TypeOK
    <3>2. \A j \in DOMAIN picked : picked[j].id \in Commits /\ repo.time[picked[j].id] >= repo.time[d]
      BY <1>1, <1>2, <2>1, <2>5, <3>1 DEF PickedNewestFirst, PickedIds
    <3>3. Older(d)
      BY <2>5, <3>2 DEF PickedIds
    <3> QED BY <2>3, <3>3
  <2>6. CASE d \in Popped
    <3>1. \/ TooOld(d)
          \/ above \in seen
          \/ Full /\ d = picked[Len(picked)].id
      BY <1>5, <2>6 DEF CoverInv
    <3> QED BY <2>2, <2>4, <2>5, <3>1
  <2> QED BY <1>5, <2>2, <2>3, <2>6
<1>6. c \in V
  <2>1. repo.head \in V
    BY <1>4 DEF ReachInv
  <2>2. ClosedUnderWalk(repo, query.target, V)
    BY <1>5 DEF ClosedUnderWalk
  <2>3. V \in SUBSET Commits
    OBVIOUS
  <2> HIDE DEF V
  <2>4. SimplifiedHistory(repo, query.target) \subseteq V
    BY <1>1, <2>1, <2>2, <2>3, HistoryIsLeast
  <2> QED BY <2>4 DEF TouchingCommits
<1>7. c \in Popped => c \in PickedIds
  BY DEF CoverInv, TouchingCommits
<1> QED BY <1>6, <1>7

(* There is one way to name the file along the ancestors of head.          *)
LEMMA NamesAgree ==
  ASSUME NEW r \in Repository, NEW p, NEW f, NEW g,
         NamesTheFile(r, p, f), NamesTheFile(r, p, g), NEW c \in Ancestors(r)
  PROVE  f[c] = g[c]
<1> DEFINE same == {d \in Ancestors(r) : f[d] = g[d]}
<1>1. r.head \in same
  BY AncestorsAreLeast DEF NamesTheFile
<1>2. \A d \in same : \A i \in DOMAIN r.parents[d] : Parent(r, d, i) \in same
  BY AncestorsAreLeast DEF NamesTheFile
<1>3. same \in SUBSET Commits
  BY AncestorsAreLeast
<1> HIDE DEF same
<1>4. Ancestors(r) \subseteq same
  BY <1>1, <1>2, <1>3, AncestorsAreLeast
<1> QED BY <1>4 DEF same

(* On a chain the walk ends with the lineage of the file.                  *)
LEMMA LineageIsFollowed ==
  ASSUME WalkInv, status = "done", Unbounded, IsLinear(repo)
  PROVE  {picked[i] : i \in DOMAIN picked} =
           {e \in Lineage(repo, query.target) : Includes(repo, e.id, e.path)}
<1> TypeOK /\ ReachInv /\ LineageInv
  BY DEF WalkInv, IInv, HistoryInv
<1> DEFINE above == Ancestors(repo)
           chosen == CHOOSE f \in [Commits -> Paths] : NamesTheFile(repo, query.target, f)
<1>1. repo \in Repository /\ seen \in SUBSET Commits
  BY DEF TypeOK
<1>2. heap = {} /\ Popped = seen
  BY DEF LineageInv, Popped, QueuedIds
<1>3. PICK name \in [Commits -> Paths] : NamedSoFar(name)
  BY DEF LineageInv
<1>4. above = seen
  <2>1. \A c \in seen : \A i \in DOMAIN repo.parents[c] : Parent(repo, c, i) \in seen
    BY <1>2, <1>3 DEF NamedSoFar
  <2> QED BY <1>1, <2>1, AncestorsAreLeast DEF ReachInv, LineageInv
<1>5. NamesTheFile(repo, query.target, name)
  BY <1>2, <1>3, <1>4 DEF NamedSoFar, NamesTheFile
<1>6. NamesTheFile(repo, query.target, chosen)
  BY <1>5
<1>7. \A c \in above : chosen[c] = name[c]
  BY <1>1, <1>5, <1>6, NamesAgree
<1>8. Lineage(repo, query.target) = {[id |-> c, path |-> chosen[c]] : c \in above}
  BY DEF Lineage
<1> HIDE DEF above, chosen
<1>9. Lineage(repo, query.target) = {[id |-> c, path |-> name[c]] : c \in above}
  BY <1>7, <1>8
<1>10. {picked[i] : i \in DOMAIN picked} =
         {[id |-> c, path |-> name[c]] : c \in {d \in above : Includes(repo, d, name[d])}}
  BY <1>2, <1>3, <1>4 DEF NamedSoFar
<1> QED BY <1>9, <1>10

-----------------------------------------------------------------------------
(* The invariant of the walk, over every repository and query.             *)
THEOREM InvariantHolds == Spec => []IInv
<1>1. IInv /\ [Next]_vars => IInv'
  <2> SUFFICES ASSUME IInv, [Next]_vars PROVE IInv'
    OBVIOUS
  <2>1. TypeOK'
    BY TypePreserved DEF IInv
  <2> QED BY <2>1, QueuePreserved, BoundsPreserved, OrderPreserved, AccountingPreserved DEF IInv
<1> QED BY <1>1, InitIInv, PTL DEF Spec

(* Every variable keeps its type: in particular the followed path is       *)
(* always a path, and never the absence of a rename source.                *)
THEOREM TypesHold == Spec => []TypeOK
<1>1. IInv => TypeOK
  BY DEF IInv
<1> QED BY <1>1, InvariantHolds, PTL

(* pack_visit_target_commits hands no commit to its visitor twice.         *)
THEOREM NoCommitIsSelectedTwice == Spec => []NoCommitTwice
<1>1. IInv => NoCommitTwice
  BY DEF IInv
<1> QED BY <1>1, InvariantHolds, PTL

(* --max-commits and --scan-commits are upper bounds, whatever the shape   *)
(* of the history.                                                         *)
THEOREM BoundsAreRespected == Spec => []BoundsRespected
<1>1. IInv => BoundsRespected
  BY DEF IInv
<1> QED BY <1>1, InvariantHolds, PTL

(* With honest clocks the visitor sees commits newest first, so that the   *)
(* first one it sees may serve as the date the decay is counted from.      *)
THEOREM NewestCommitsFirst == Spec => []PickedNewestFirst
<1>1. IInv => PickedNewestFirst
  BY DEF IInv
<1> QED BY <1>1, InvariantHolds, PTL

-----------------------------------------------------------------------------
(* The walk covers the history it should: what it has popped and queued is *)
(* enough to compare it with Git's history simplification and, on a chain, *)
(* with the names the file had.                                            *)
THEOREM WalkInvHolds == Spec => []WalkInv
<1>1. WalkInv /\ [Next]_vars => HistoryInv'
  BY ReachPreserved, CoverPreserved, RenamedPreserved, LineagePreserved DEF WalkInv, HistoryInv
<1>2. Spec => []HistoryInv
  <2>1. IInv /\ HistoryInv /\ [Next]_vars => HistoryInv'
    BY <1>1 DEF WalkInv
  <2> QED BY <2>1, InitHistoryInv, InvariantHolds, PTL DEF Spec
<1>3. IInv /\ HistoryInv => WalkInv
  BY DEF WalkInv
<1> QED BY <1>2, <1>3, InvariantHolds, PTL

(* Without bounds and renames the selected commits are exactly those of    *)
(* the simplified history that touch the target, on every commit graph and *)
(* whatever the commit times say: the queue's order is a matter of speed.  *)
THEOREM ClockSkewIsHarmless == Spec => []SkewIndependent
<1>1. WalkInv => SkewIndependent
  BY AllIsSeen DEF SkewIndependent
<1> QED BY <1>1, WalkInvHolds, PTL

(* With honest clocks --since and --max-commits cut off the oldest commits *)
(* and no others, and a rename followed on all branches hides none that    *)
(* is newer.                                                               *)
THEOREM NewestAreKept == Spec => []BoundedKeepsNewest
<1>1. ASSUME WalkInv, status = "done", query.scan = 0, ~query.fast,
             TimesFollowAncestry(repo), NEW c \in TouchingCommits(repo, query.target),
             repo.time[c] >= query.since
      PROVE  \/ c \in PickedAsTarget
             \/ /\ query.max > 0 /\ Len(picked) = query.max
                /\ \A d \in PickedIds : repo.time[d] >= repo.time[c]
             \/ \E i \in DOMAIN picked : RenamedAt(i) /\ repo.time[picked[i].id] >= repo.time[c]
  <2>1. ~CutShort
    BY <1>1 DEF CutShort, ScanLimit
  <2>2. ~TooOld(c)
    <3>1. repo \in Repository /\ query.since \in Nat
      BY <1>1 DEF WalkInv, IInv, TypeOK, Query
    <3>2. c \in Commits
      BY <1>1, <3>1, HistoryIsLeast DEF TouchingCommits
    <3> QED BY <1>1, <3>1, <3>2 DEF TooOld, Repository
  <2>3. CASE NeverRenamed
    <3>1. PickedIds \subseteq PickedAsTarget
      BY <2>3 DEF NeverRenamed, PickedIds, PickedAsTarget
    <3> QED BY <1>1, <2>1, <2>2, <2>3, <3>1, NewestAreSelected DEF Full
  <2>4. CASE ~NeverRenamed
    BY <1>1, <2>2, <2>4 DEF WalkInv, HistoryInv, RenamedInv
  <2> QED BY <2>3, <2>4
<1>2. WalkInv => BoundedKeepsNewest
  BY <1>1 DEF BoundedKeepsNewest
<1> QED BY <1>2, WalkInvHolds, PTL

(* With honest clocks the early stop never costs the whole answer: a walk  *)
(* that selected nothing reached the scan bound, or there was nothing      *)
(* recent enough to select.                                                *)
THEOREM EmptyAnswersAreRight == Spec => []NoEarlyGiveUp
<1>1. ASSUME WalkInv, status = "done", picked = <<>>, TimesFollowAncestry(repo),
             ~(ScanLimit > 0 /\ scanned > ScanLimit),
             NEW c \in TouchingCommits(repo, query.target)
      PROVE  repo.time[c] < query.since
  <2>1. DOMAIN picked = {} /\ Len(picked) = 0 /\ PickedIds = {}
    BY <1>1 DEF PickedIds
  <2>2. NeverRenamed
    BY <1>1, <2>1 DEF WalkInv, HistoryInv, ReachInv, NeverRenamed
  <2>3. ~CutShort
    BY <1>1 DEF CutShort
  <2>4. ~Full
    BY <2>1 DEF Full
  <2> QED BY <1>1, <2>1, <2>2, <2>3, <2>4, NewestAreSelected DEF TooOld
<1>2. WalkInv => NoEarlyGiveUp
  BY <1>1 DEF NoEarlyGiveUp
<1> QED BY <1>2, WalkInvHolds, PTL

(* On a chain of commits the walk follows the file through all its names:  *)
(* it selects what touched the file under the name it had at the time.     *)
THEOREM RenamesAreFollowed == Spec => []FollowsLineage
<1>1. WalkInv => FollowsLineage
  BY LineageIsFollowed DEF FollowsLineage
<1> QED BY <1>1, WalkInvHolds, PTL

(* The counts of an unbounded query are those of the file's history, of    *)
(* which the walk knows nothing: no commit is missing or counted twice,    *)
(* and a name the file bore counts only where another file bore it.        *)
THEOREM CountsAreHistory == Spec => []CompanionsAreHistory
<1>1. ASSUME WalkInv, status = "done", Unbounded, IsLinear(repo) \/ NeverRenamed
      PROVE  /\ \A p \in Paths : pairs[p] = Cardinality(Companions(p))
             /\ \A e \in FileHistory : pairs[e.path] > 0 =>
                  \E d \in FileHistory : d.path # e.path /\ HasFile(repo, d.id, e.path)
  <2> TypeOK /\ NoCommitTwice /\ CochangeAccounting
    BY <1>1 DEF WalkInv, IInv
  <2>1. \A i \in DOMAIN picked : picked[i] \in [id : Commits, path : Paths]
    <3> SUFFICES ASSUME NEW i \in DOMAIN picked PROVE picked[i] \in [id : Commits, path : Paths]
      OBVIOUS
    <3>1. picked \in Seq([id : Commits, path : Paths])
      BY DEF TypeOK
    <3>2. i \in 1..Len(picked)
      BY <3>1
    <3> QED BY <3>1, <3>2, ElementOfSeq
  <2>2. FileHistory = {picked[i] : i \in DOMAIN picked}
    <3>1. CASE IsLinear(repo)
      BY <1>1, <3>1, LineageIsFollowed DEF FileHistory
    <3>2. CASE ~IsLinear(repo)
      <4>1. NeverRenamed /\ PickedIds = TouchingCommits(repo, query.target)
        BY <1>1, <3>2, AllIsSeen
      <4>2. \A i \in DOMAIN picked : picked[i] = [id |-> picked[i].id, path |-> query.target]
        <5> SUFFICES ASSUME NEW i \in DOMAIN picked
                     PROVE  picked[i] = [id |-> picked[i].id, path |-> query.target]
          OBVIOUS
        <5>1. picked[i] \in [id : Commits, path : Paths]
          BY <2>1
        <5>2. picked[i].path = query.target
          BY <4>1 DEF NeverRenamed
        <5> DEFINE q == picked[i]
        <5>3. q \in [id : Commits, path : Paths] /\ q.path = query.target
          BY <5>1, <5>2
        <5> HIDE DEF q
        <5>4. q = [id |-> q.id, path |-> query.target]
          BY <5>3
        <5> QED BY <5>4 DEF q
      <4>3. FileHistory = {[id |-> c, path |-> query.target] : c \in PickedIds}
        BY <3>2, <4>1 DEF FileHistory
      <4> QED BY <4>2, <4>3 DEF PickedIds
    <3> QED BY <3>1, <3>2
  <2>3. ASSUME NEW p \in Paths
        PROVE  /\ pairs[p] = Cardinality(Companions(p))
               /\ pairs[p] > 0 => Companions(p) # {}
    <3> DEFINE of == [i \in PairedAt(p) |-> picked[i]]
    <3>1. IsFiniteSet(PairedAt(p))
      <4>1. Len(picked) \in Nat /\ DOMAIN picked = 1..Len(picked)
        BY DEF TypeOK
      <4>2. IsFiniteSet(1..Len(picked))
        BY <4>1, FS_Interval
      <4> QED BY <4>1, <4>2, FS_Subset DEF PairedAt
    <3>2. \A i \in PairedAt(p) : i \in DOMAIN picked /\ of[i] = picked[i]
      BY DEF PairedAt
    <3>3. of \in Bijection(PairedAt(p), Companions(p))
      <4>1. of \in [PairedAt(p) -> Companions(p)]
        BY <2>2 DEF PairedAt, Companions
      <4>2. \A i, j \in PairedAt(p) : of[i] = of[j] => i = j
        BY <3>2 DEF NoCommitTwice
      <4>3. \A e \in Companions(p) : \E i \in PairedAt(p) : of[i] = e
        <5> SUFFICES ASSUME NEW e \in Companions(p) PROVE \E i \in PairedAt(p) : of[i] = e
          OBVIOUS
        <5>1. PICK i \in DOMAIN picked : picked[i] = e
          BY <2>2 DEF Companions
        <5>2. i \in PairedAt(p)
          BY <5>1 DEF Companions, PairedAt
        <5> QED BY <5>1, <5>2
      <4> HIDE DEF of
      <4> QED BY <4>1, <4>2, <4>3 DEF Bijection, Injection, IsInjective, Surjection
    <3>4. Cardinality(PairedAt(p)) = Cardinality(Companions(p))
      BY <3>1, <3>3, FS_Bijection DEF ExistsBijection
    <3>5. Companions(p) = {} => PairedAt(p) = {}
      <4>1. of \in [PairedAt(p) -> Companions(p)]
        BY <2>2 DEF PairedAt, Companions
      <4> QED BY <4>1
    <3> QED BY <3>4, <3>5, FS_EmptySet DEF CochangeAccounting
  <2>4. ASSUME NEW e \in FileHistory, pairs[e.path] > 0
        PROVE  \E d \in FileHistory : d.path # e.path /\ HasFile(repo, d.id, e.path)
    <3>1. e.path \in Paths
      <4>1. PICK i \in DOMAIN picked : e = picked[i]
        BY <2>2, <2>4
      <4> QED BY <2>1, <4>1
    <3>2. PICK d \in FileHistory : e.path \in ChangedFiles(repo, d.id) /\ e.path # d.path
      BY <2>3, <2>4, <3>1 DEF Companions
    <3>3. HasFile(repo, d.id, e.path)
      BY <3>2 DEF ChangedFiles, FilesIn
    <3> QED BY <3>2, <3>3
  <2> QED BY <2>3, <2>4
<1>2. WalkInv => CompanionsAreHistory
  BY <1>1 DEF CompanionsAreHistory
<1> QED BY <1>2, WalkInvHolds, PTL

-----------------------------------------------------------------------------
(* What the readers accumulate.                                            *)
Seens == {Never} \cup [time : Nat \ {0}, offset : Int]
PairType == [cochanges : Nat, weight : Nat, other : Nat, seen : Seens]
PartType == [weight : Nat, pairs : [Others -> PairType]]

(* The dates the decay is counted from; 0 when nothing is counted.         *)
Dates == {c.time : c \in Changes} \cup {0}

(* The change a commit makes, and the numbers it is counted with.          *)
LEMMA ChangeFacts ==
  ASSUME NEW c \in Changes, NEW latest \in Dates
  PROVE  /\ c.time \in Nat \ {0} /\ c.offset \in Int /\ latest \in Nat
         /\ Larger(latest - c.time, 0) \in 0..Horizon
         /\ Decay(latest, c.time) \in Nat \ {0}
         /\ Eligible(c) => Cardinality(c.files) \in 1..MaxFiles /\ Share[Cardinality(c.files)] \in 1..Unit
<1>1. c.time \in Nat \ {0} /\ c.offset \in Int /\ IsFiniteSet(c.files)
  BY ScoringAssumption
<1>2. latest \in Nat /\ latest - c.time <= Horizon /\ Horizon \in Nat
  <2>1. CASE latest = 0
    BY <1>1, <2>1, ScoringAssumption
  <2>2. ASSUME NEW d \in Changes, latest = d.time
        PROVE  latest \in Nat /\ latest - c.time <= Horizon /\ Horizon \in Nat
    BY <2>2, ScoringAssumption
  <2> QED BY <2>1, <2>2 DEF Dates
<1>3. Larger(latest - c.time, 0) \in 0..Horizon
  BY <1>1, <1>2 DEF Larger
<1>4. Decay(latest, c.time) \in Nat \ {0}
  BY <1>3, ScoringAssumption DEF Decay
<1>5. ASSUME Eligible(c)
      PROVE  Cardinality(c.files) \in 1..MaxFiles
  <2>1. Cardinality(c.files) \in Nat /\ (Cardinality(c.files) = 0 <=> c.files = {})
    BY <1>1, FS_CardinalityType, FS_EmptySet
  <2> QED BY <1>5, <2>1, ScoringAssumption DEF Eligible
<1>6. Eligible(c) => Share[Cardinality(c.files)] \in 1..Unit
  BY <1>5, ScoringAssumption
<1> QED BY <1>1, <1>2, <1>3, <1>4, <1>5, <1>6

(* Nothing is a part, too.                                                 *)
LEMMA NothingType == Nothing \in PartType
<1>1. Never \in Seens
  BY DEF Seens
<1>2. NoPair \in PairType
  BY <1>1 DEF NoPair, PairType
<1> QED BY <1>2 DEF Nothing, PartType

(* What one commit adds.                                                   *)
LEMMA AddCommitFacts ==
  ASSUME NEW c \in Changes, NEW latest \in Dates, NEW by, NEW part \in PartType
  PROVE  /\ AddCommit(part, c, latest, by) \in PartType
         /\ ~Eligible(c) => AddCommit(part, c, latest, by) = part
         /\ Eligible(c) =>
              /\ AddCommit(part, c, latest, by).weight = part.weight + Decay(latest, c.time)
              /\ \A x \in Others : AddCommit(part, c, latest, by).pairs[x] =
                   IF x \in c.files THEN AddToPair(part.pairs[x], c, Decay(latest, c.time), by)
                   ELSE part.pairs[x]
<1> DEFINE added == AddCommit(part, c, latest, by)
           decay == Decay(latest, c.time)
<1>1. CASE ~Eligible(c)
  BY <1>1 DEF AddCommit
<1>2. CASE Eligible(c)
  <2>1. added = [weight |-> part.weight + decay,
                 pairs  |-> [x \in Others |-> IF x \in c.files THEN AddToPair(part.pairs[x], c, decay, by)
                                              ELSE part.pairs[x]]]
    BY <1>2 DEF AddCommit
  <2>2. /\ decay \in Nat /\ Share[Cardinality(c.files)] \in Nat
        /\ [time |-> c.time, offset |-> c.offset] \in Seens
    BY <1>2, ChangeFacts DEF Seens
  <2>3. part.weight \in Nat /\ part.pairs \in [Others -> PairType]
    BY DEF PartType
  <2>4. ASSUME NEW x \in Others
        PROVE  AddToPair(part.pairs[x], c, decay, by) \in PairType
    <3>1. part.pairs[x] \in PairType
      BY <2>3
    <3>2. PICK pair \in PairType : pair = part.pairs[x]
      BY <3>1
    <3>3. PICK d \in Nat : d = decay
      BY <2>2
    <3>4. PICK n \in Nat : n = Share[Cardinality(c.files)]
      BY <2>2
    <3>5. d * n \in Nat
      OBVIOUS
    <3>6. /\ pair.cochanges \in Nat /\ pair.weight \in Nat /\ pair.other \in Nat /\ pair.seen \in Seens
      BY DEF PairType
    <3>7. AddToPair(pair, c, d, by) \in PairType
      BY <2>2, <3>4, <3>5, <3>6 DEF AddToPair, OtherWeight, PairType
    <3> QED BY <3>2, <3>3, <3>7
  <2>5. added \in PartType
    <3>1. \A x \in Others : (IF x \in c.files THEN AddToPair(part.pairs[x], c, decay, by)
                             ELSE part.pairs[x]) \in PairType
      BY <2>3, <2>4
    <3>2. part.weight + decay \in Nat
      BY <2>2, <2>3
    <3> HIDE DEF added, decay
    <3> QED BY <2>1, <3>1, <3>2 DEF PartType
  <2> HIDE DEF decay
  <2>6. /\ added.weight = part.weight + decay
        /\ \A x \in Others : added.pairs[x] = IF x \in c.files THEN AddToPair(part.pairs[x], c, decay, by)
                                              ELSE part.pairs[x]
    BY <2>1
  <2> QED BY <1>2, <2>5, <2>6 DEF decay
<1> QED BY <1>1, <1>2

(* A list is read from its first commit on, with what is accumulated after *)
(* each commit in a table.                                                 *)
Accumulates(g, s, latest, by) ==
  /\ g \in [0..Len(s) -> PartType] /\ g[0] = Nothing
  /\ \A k \in 1..Len(s) : g[k] = AddCommit(g[k - 1], s[k], latest, by)

(* Such a table exists, and its last entry is what AddAll returns.         *)
LEMMA AddAllTable ==
  ASSUME NEW s \in Seq(Changes), NEW latest \in Dates, NEW by
  PROVE  \E g : Accumulates(g, s, latest, by) /\ AddAll(s, latest, by) = g[Len(s)]
<1>1. PICK M \in Nat : M = Len(s)
  OBVIOUS
<1>2. \A k \in 1..M : s[k] \in Changes
  BY <1>1
<1>3. PICK F : F = [k \in 1..M |-> [p \in PartType |-> AddCommit(p, s[k], latest, by)]]
  OBVIOUS
<1>4. \A k \in 1..M : \A p \in PartType : F[k][p] = AddCommit(p, s[k], latest, by)
  BY <1>3
<1>5. \A k \in 1..M : \A p \in PartType : F[k][p] \in PartType
  <2> SUFFICES ASSUME NEW k \in 1..M, NEW p \in PartType PROVE F[k][p] \in PartType
    OBVIOUS
  <2>1. PICK c \in Changes : c = s[k]
    BY <1>2
  <2>2. AddCommit(p, c, latest, by) \in PartType
    BY AddCommitFacts
  <2> QED BY <1>4, <2>1, <2>2
<1>6. PICK g \in [0..M -> PartType] : IsTable(g, M, Nothing, F)
  BY <1>5, NothingType, TableExists
<1>7. \A k \in 0..M : k # 0 => k \in 1..M /\ k - 1 \in 0..M
  OBVIOUS
<1>8. \A k \in 0..M : g[k] = IF k = 0 THEN Nothing ELSE AddCommit(g[k - 1], s[k], latest, by)
  BY <1>4, <1>6, <1>7 DEF IsTable
<1>9. g = [k \in 0..M |-> IF k = 0 THEN Nothing ELSE AddCommit(g[k - 1], s[k], latest, by)]
  BY <1>8
<1> DEFINE f == CHOOSE h : h = [k \in 0..Len(s) |-> IF k = 0 THEN Nothing
                                                    ELSE AddCommit(h[k - 1], s[k], latest, by)]
<1>a. f = [k \in 0..M |-> IF k = 0 THEN Nothing ELSE AddCommit(f[k - 1], s[k], latest, by)]
  BY <1>1, <1>9
<1>b. AddAll(s, latest, by) = f[Len(s)]
  BY DEF AddAll
<1> HIDE DEF f
<1>c. \A k \in 0..M : f[k] = g[k]
  <2> DEFINE N == {k \in Nat : k <= M => f[k] = g[k]}
  <2>1. 0 \in N
    BY <1>8, <1>a
  <2>2. ASSUME NEW k \in Nat, k \in N
        PROVE  k + 1 \in N
    <3>1. CASE k + 1 <= M
      <4>1. f[k] = g[k] /\ k + 1 \in 0..M /\ (k + 1) - 1 = k /\ k + 1 # 0
        BY <2>2, <3>1
      <4>2. f[k + 1] = AddCommit(f[k], s[k + 1], latest, by)
        BY <1>a, <4>1
      <4>3. g[k + 1] = AddCommit(g[k], s[k + 1], latest, by)
        BY <1>8, <4>1
      <4> QED BY <4>1, <4>2, <4>3
    <3> QED BY <3>1
  <2> HIDE DEF N
  <2>3. Nat \subseteq N
    BY <2>1, <2>2, NumbersByInduction
  <2> QED BY <2>3 DEF N
<1>d. f[M] = g[M]
  BY <1>c
<1> QED BY <1>1, <1>7, <1>8, <1>b, <1>d DEF Accumulates

(* The accumulated sums never fall behind what they bound: a weight is at  *)
(* most Unit for each decayed commit that was counted with it, and no file *)
(* is counted oftener than the target.                                     *)
LEMMA TableBounds ==
  ASSUME NEW s \in Seq(Changes), NEW latest \in Dates, NEW by,
         NEW g, Accumulates(g, s, latest, by), NEW k \in 0..Len(s), NEW x \in Others
  PROVE  /\ g[k].pairs[x].weight <= Unit * g[k].pairs[x].other
         /\ g[k].pairs[x].other <= g[k].weight
         /\ g[k].pairs[x].cochanges <= g[k].pairs[x].other
         /\ g[k].pairs[x].cochanges
              = Cardinality({i \in 1..k : x \in s[i].files /\ Cardinality(s[i].files) <= MaxFiles})
<1> DEFINE Listing(n) == {i \in 1..n : x \in s[i].files /\ Cardinality(s[i].files) <= MaxFiles}
           Bounded(n) == /\ g[n].pairs[x].weight <= Unit * g[n].pairs[x].other
                         /\ g[n].pairs[x].other <= g[n].weight
                         /\ g[n].pairs[x].cochanges <= g[n].pairs[x].other
                         /\ g[n].pairs[x].cochanges = Cardinality(Listing(n))
           N == {n \in Nat : n <= Len(s) => Bounded(n)}
<1>1. 0 \in N
  <2>1. g[0] = Nothing /\ Nothing.weight = 0 /\ Nothing.pairs[x] = NoPair
    BY DEF Accumulates, Nothing
  <2>2. NoPair.weight = 0 /\ NoPair.other = 0 /\ NoPair.cochanges = 0
    BY DEF NoPair
  <2>3. Listing(0) = {} /\ Cardinality({}) = 0
    BY FS_EmptySet
  <2>4. Unit \in Nat
    BY ScoringAssumption
  <2> QED BY <2>1, <2>2, <2>3, <2>4
<1>2. ASSUME NEW n \in Nat, n \in N
      PROVE  n + 1 \in N
  <2> SUFFICES ASSUME n + 1 <= Len(s)
               PROVE  Bounded(n + 1)
    OBVIOUS
  <2>1. n \in 0..Len(s) /\ n + 1 \in 1..Len(s) /\ (n + 1) - 1 = n /\ Bounded(n)
    BY <1>2
  <2>2. PICK c \in Changes : c = s[n + 1]
    BY <2>1
  <2>3. PICK part \in PartType : part = g[n]
    BY <2>1 DEF Accumulates
  <2>4. PICK more : more = AddCommit(part, c, latest, by)
    OBVIOUS
  <2>5. g[n + 1] = more
    BY <2>1, <2>2, <2>3, <2>4 DEF Accumulates
  <2>6. IsFiniteSet(Listing(n)) /\ Cardinality(Listing(n)) \in Nat
    <3>1. IsFiniteSet(1..n)
      BY FS_Interval
    <3>2. Listing(n) \subseteq 1..n
      OBVIOUS
    <3> HIDE DEF Listing
    <3> QED BY <3>1, <3>2, FS_Subset, FS_CardinalityType
  <2>7. Listing(n + 1) = Listing(n) \cup (IF x \in c.files /\ Cardinality(c.files) <= MaxFiles THEN {n + 1} ELSE {})
    BY <2>2
  <2>8. n + 1 \notin Listing(n)
    OBVIOUS
  <2>9. part.pairs[x] \in PairType /\ part.weight \in Nat
    BY DEF PartType
  <2>a. PICK pair \in PairType : pair = part.pairs[x]
    BY <2>9
  <2>b. pair.weight \in Nat /\ pair.other \in Nat /\ pair.cochanges \in Nat /\ Unit \in Nat
    BY ScoringAssumption DEF PairType
  <2>c. /\ pair.weight <= Unit * pair.other /\ pair.other <= part.weight
        /\ pair.cochanges <= pair.other /\ pair.cochanges = Cardinality(Listing(n))
    BY <2>1, <2>3, <2>a
  <2> HIDE DEF Listing
  <2>d. CASE ~Eligible(c)
    <3>1. more = part
      BY <2>4, <2>d, AddCommitFacts
    <3>2. ~(x \in c.files /\ Cardinality(c.files) <= MaxFiles)
      BY <2>d DEF Eligible
    <3> QED BY <2>5, <2>7, <2>a, <2>c, <3>1, <3>2
  <2>e. CASE Eligible(c) /\ x \notin c.files
    <3>1. more.weight = part.weight + Decay(latest, c.time) /\ more.pairs[x] = pair
      BY <2>4, <2>a, <2>e, AddCommitFacts
    <3>2. Decay(latest, c.time) \in Nat
      BY ChangeFacts
    <3>3. Listing(n + 1) = Listing(n)
      BY <2>7, <2>e
    <3>4. pair.other <= part.weight + Decay(latest, c.time)
      BY <2>9, <2>b, <2>c, <3>2
    <3> QED BY <2>5, <2>c, <3>1, <3>3, <3>4
  <2>f. CASE Eligible(c) /\ x \in c.files
    <3>1. PICK decay \in Nat \ {0} : decay = Decay(latest, c.time)
      BY ChangeFacts
    <3>2. more.weight = part.weight + decay /\ more.pairs[x] = AddToPair(pair, c, decay, by)
      BY <2>4, <2>a, <2>f, <3>1, AddCommitFacts
    <3>3. PICK share \in 1..Unit : share = Share[Cardinality(c.files)]
      BY <2>f, ChangeFacts
    <3>4. /\ more.pairs[x].cochanges = pair.cochanges + 1
          /\ more.pairs[x].weight = pair.weight + decay * share
          /\ more.pairs[x].other = pair.other + decay
      BY <3>2, <3>3 DEF AddToPair, OtherWeight
    <3>5. decay * share <= decay * Unit
      <4>1. share \in Nat /\ share <= Unit /\ Unit \in Nat
        BY <2>b
      <4> QED BY <4>1
    <3>6. Unit * (pair.other + decay) = Unit * pair.other + decay * Unit
      BY <2>b
    <3>7. more.pairs[x].weight <= Unit * more.pairs[x].other
      <4>1. PICK a \in Nat : a = decay * share
        BY <2>b
      <4>2. PICK b \in Nat : b = decay * Unit
        BY <2>b
      <4>3. PICK d \in Nat : d = Unit * pair.other
        BY <2>b
      <4>4. pair.weight <= d /\ a <= b
        BY <2>c, <3>5, <4>1, <4>2, <4>3
      <4>5. pair.weight + a <= d + b
        BY <2>b, <4>4
      <4> QED BY <3>4, <3>6, <4>1, <4>2, <4>3, <4>5
    <3>8. more.pairs[x].other <= more.weight /\ more.pairs[x].cochanges <= more.pairs[x].other
      <4>1. more.pairs[x].other <= more.weight
        BY <2>9, <2>b, <2>c, <3>2, <3>4
      <4>2. pair.cochanges <= pair.other /\ decay >= 1
        BY <2>c
      <4>3. pair.cochanges + 1 <= pair.other + decay
        BY <2>b, <4>2
      <4> QED BY <3>4, <4>1, <4>3
    <3>9. Cardinality(Listing(n + 1)) = Cardinality(Listing(n)) + 1
      <4>1. Listing(n + 1) = Listing(n) \cup {n + 1}
        BY <2>7, <2>f DEF Eligible
      <4> QED BY <2>6, <2>8, <4>1, FS_AddElement
    <3> QED BY <2>5, <2>c, <3>4, <3>7, <3>8, <3>9
  <2> QED BY <2>d, <2>e, <2>f
<1> HIDE DEF N
<1>3. Nat \subseteq N
  BY <1>1, <1>2, NumbersByInduction
<1> HIDE DEF Bounded
<1>4. Bounded(k)
  <2>1. k \in Nat /\ k <= Len(s)
    OBVIOUS
  <2> QED BY <1>3, <2>1 DEF N
<1> USE DEF Bounded
<1> QED BY <1>4

(* A commit added to a part is added to what the part is merged into, and  *)
(* merging an empty part changes nothing: parts are kept by their instant, *)
(* and of the dates seen the first of the latest.                          *)
LEMMA MergeAdds ==
  ASSUME NEW c \in Changes, NEW latest \in Dates,
         NEW P \in PartType, NEW Q \in PartType
  PROVE  /\ MergePartial(P, Nothing) = P
         /\ MergePartial(P, AddCommit(Q, c, latest, "instant"))
              = AddCommit(MergePartial(P, Q), c, latest, "instant")
         /\ MergePartial(P, Q) \in PartType
<1>1. /\ P.weight \in Nat /\ P.pairs \in [Others -> PairType]
      /\ Q.weight \in Nat /\ Q.pairs \in [Others -> PairType]
      /\ P = [weight |-> P.weight, pairs |-> P.pairs]
  BY DEF PartType
<1>2. \A last \in Seens : last.time \in Nat /\ (last = Never <=> last.time = 0)
  BY DEF Seens, Never
<1>3. c.time \in Nat \ {0} /\ c.offset \in Int
  BY ChangeFacts
<1>4. PICK now : now = [time |-> c.time, offset |-> c.offset]
  OBVIOUS
<1>5. now.time = c.time /\ now \in Seens
  BY <1>3, <1>4 DEF Seens
<1>6. \A last \in Seens : Later("instant", c, last) <=> c.time > last.time
  BY <1>2, <1>3 DEF Later
<1>7. ASSUME NEW t \in PairType, NEW u \in PairType
      PROVE  /\ MergePair(t, NoPair) = t
             /\ MergePair(t, u) \in PairType
             /\ \A decay \in Nat : \A share \in Nat :
                  share = Share[Cardinality(c.files)] =>
                    MergePair(t, AddToPair(u, c, decay, "instant"))
                      = AddToPair(MergePair(t, u), c, decay, "instant")
  <2>1. /\ t.cochanges \in Nat /\ t.weight \in Nat /\ t.other \in Nat /\ t.seen \in Seens
        /\ u.cochanges \in Nat /\ u.weight \in Nat /\ u.other \in Nat /\ u.seen \in Seens
        /\ t = [cochanges |-> t.cochanges, weight |-> t.weight, other |-> t.other, seen |-> t.seen]
    BY DEF PairType
  <2>2. MergePair(t, NoPair) = t
    <3>1. ~LaterPart(Never, t.seen)
      BY <1>2, <2>1 DEF LaterPart, Never
    <3>2. MergePair(t, NoPair) = [cochanges |-> t.cochanges + 0, weight |-> t.weight + 0,
                                  other |-> t.other + 0, seen |-> t.seen]
      BY <3>1 DEF MergePair, NoPair
    <3> QED BY <2>1, <3>2
  <2>3. PICK shown : shown = IF LaterPart(u.seen, t.seen) THEN u.seen ELSE t.seen
    OBVIOUS
  <2>4. shown \in Seens
    BY <2>1, <2>3
  <2>5. MergePair(t, u) = [cochanges |-> t.cochanges + u.cochanges, weight |-> t.weight + u.weight,
                           other |-> t.other + u.other, seen |-> shown]
    BY <2>3 DEF MergePair
  <2>6. MergePair(t, u) \in PairType
    BY <2>1, <2>4, <2>5 DEF PairType
  <2>7. ASSUME NEW decay \in Nat, NEW share \in Nat, share = Share[Cardinality(c.files)]
        PROVE  MergePair(t, AddToPair(u, c, decay, "instant"))
                 = AddToPair(MergePair(t, u), c, decay, "instant")
    <3>1. PICK w \in Nat : w = decay * share
      OBVIOUS
    <3>2. PICK last : last = IF c.time > u.seen.time THEN now ELSE u.seen
      OBVIOUS
    <3>3. AddToPair(u, c, decay, "instant")
            = [cochanges |-> u.cochanges + 1, weight |-> u.weight + w, other |-> u.other + decay, seen |-> last]
      <4>1. (IF Later("instant", c, u.seen) THEN [time |-> c.time, offset |-> c.offset] ELSE u.seen) = last
        BY <1>4, <1>6, <2>1, <3>2
      <4> QED BY <2>7, <3>1, <4>1 DEF AddToPair, OtherWeight
    <3>4. PICK end : end = IF c.time > shown.time THEN now ELSE shown
      OBVIOUS
    <3>5. AddToPair(MergePair(t, u), c, decay, "instant")
            = [cochanges |-> (t.cochanges + u.cochanges) + 1, weight |-> (t.weight + u.weight) + w,
               other |-> (t.other + u.other) + decay, seen |-> end]
      <4>1. (IF Later("instant", c, shown) THEN [time |-> c.time, offset |-> c.offset] ELSE shown) = end
        BY <1>4, <1>6, <2>4, <3>4
      <4> QED BY <2>5, <2>7, <3>1, <4>1 DEF AddToPair, OtherWeight
    <3>6. MergePair(t, AddToPair(u, c, decay, "instant"))
            = [cochanges |-> t.cochanges + (u.cochanges + 1), weight |-> t.weight + (u.weight + w),
               other |-> t.other + (u.other + decay),
               seen |-> IF last.time > t.seen.time THEN last ELSE t.seen]
      BY <3>3 DEF MergePair, LaterPart
    <3>7. (IF last.time > t.seen.time THEN last ELSE t.seen) = end
      <4>1. t.seen.time \in Nat /\ u.seen.time \in Nat
        BY <1>2, <2>1
      <4> QED BY <1>3, <1>5, <2>3, <3>2, <3>4, <4>1 DEF LaterPart
    <3> QED BY <2>1, <3>5, <3>6, <3>7
  <2> QED BY <2>2, <2>6, <2>7
<1>8. MergePartial(P, Nothing) = P
  <2>1. Nothing.weight = 0 /\ \A x \in Others : Nothing.pairs[x] = NoPair
    BY DEF Nothing
  <2>2. [x \in Others |-> MergePair(P.pairs[x], Nothing.pairs[x])] = P.pairs
    BY <1>1, <1>7, <2>1
  <2> QED BY <1>1, <2>1, <2>2 DEF MergePartial
<1>9. PICK merged : merged = MergePartial(P, Q)
  OBVIOUS
<1>a. /\ merged.weight = P.weight + Q.weight
      /\ merged.pairs = [x \in Others |-> MergePair(P.pairs[x], Q.pairs[x])]
  BY <1>9 DEF MergePartial
<1>b. merged \in PartType
  <2>1. \A x \in Others : MergePair(P.pairs[x], Q.pairs[x]) \in PairType
    BY <1>1, <1>7
  <2> QED BY <1>1, <1>9, <2>1 DEF MergePartial, PartType
<1>c. MergePartial(P, AddCommit(Q, c, latest, "instant")) = AddCommit(merged, c, latest, "instant")
  <2>1. CASE ~Eligible(c)
    BY <1>9, <2>1 DEF AddCommit
  <2>2. CASE Eligible(c)
    <3>1. PICK decay \in Nat : decay = Decay(latest, c.time)
      BY ChangeFacts
    <3>2. PICK share \in Nat : share = Share[Cardinality(c.files)]
      BY <2>2, ChangeFacts
    <3>3. PICK more : more = AddCommit(Q, c, latest, "instant")
      OBVIOUS
    <3>4. /\ more.weight = Q.weight + decay
          /\ \A x \in Others : more.pairs[x] = IF x \in c.files THEN AddToPair(Q.pairs[x], c, decay, "instant")
                                               ELSE Q.pairs[x]
      BY <2>2, <3>1, <3>3, AddCommitFacts
    <3>5. \A x \in Others : MergePair(P.pairs[x], more.pairs[x]) =
            IF x \in c.files THEN AddToPair(merged.pairs[x], c, decay, "instant") ELSE merged.pairs[x]
      <4> SUFFICES ASSUME NEW x \in Others
                   PROVE  MergePair(P.pairs[x], more.pairs[x]) =
                            IF x \in c.files THEN AddToPair(merged.pairs[x], c, decay, "instant")
                            ELSE merged.pairs[x]
        OBVIOUS
      <4>1. PICK t \in PairType : t = P.pairs[x]
        BY <1>1
      <4>2. PICK u \in PairType : u = Q.pairs[x]
        BY <1>1
      <4>3. merged.pairs[x] = MergePair(t, u)
        BY <1>a, <4>1, <4>2
      <4>4. MergePair(t, AddToPair(u, c, decay, "instant")) = AddToPair(MergePair(t, u), c, decay, "instant")
        BY <1>7, <3>2
      <4> QED BY <3>4, <4>1, <4>2, <4>3, <4>4
    <3>6. MergePartial(P, more)
            = [weight |-> P.weight + (Q.weight + decay),
               pairs  |-> [x \in Others |-> IF x \in c.files THEN AddToPair(merged.pairs[x], c, decay, "instant")
                                            ELSE merged.pairs[x]]]
      BY <3>4, <3>5 DEF MergePartial
    <3>7. AddCommit(merged, c, latest, "instant")
            = [weight |-> merged.weight + decay,
               pairs  |-> [x \in Others |-> IF x \in c.files THEN AddToPair(merged.pairs[x], c, decay, "instant")
                                            ELSE merged.pairs[x]]]
      BY <2>2, <3>1 DEF AddCommit
    <3>8. P.weight + (Q.weight + decay) = merged.weight + decay
      BY <1>1, <1>a
    <3> QED BY <3>3, <3>6, <3>7, <3>8
  <2> QED BY <2>1, <2>2
<1> QED BY <1>8, <1>9, <1>b, <1>c

(* A stretch of a list read on its own and merged is as if it had been     *)
(* read on from what went before it.                                       *)
LEMMA ChunkMerges ==
  ASSUME NEW s \in Seq(Changes), NEW latest \in Dates,
         NEW g, Accumulates(g, s, latest, "instant"),
         NEW a \in 0..Len(s), NEW b \in a..Len(s)
  PROVE  /\ AddAll(SubSeq(s, a + 1, b), latest, "instant") \in PartType
         /\ MergePartial(g[a], AddAll(SubSeq(s, a + 1, b), latest, "instant")) = g[b]
<1>1. PICK chunk : chunk = SubSeq(s, a + 1, b)
  OBVIOUS
<1>2. a \in Nat /\ b \in Nat /\ a <= b /\ b <= Len(s) /\ Len(s) \in Nat
  OBVIOUS
<1>3. /\ chunk \in Seq(Changes) /\ Len(chunk) = b - a
      /\ \A i \in 1..(b - a) : chunk[i] = s[a + i]
  <2>1. \A i \in (a + 1)..b : s[i] \in Changes
    BY <1>2
  <2>2. chunk \in Seq(Changes)
    BY <1>1, <1>2, <2>1, SubSeqProperties
  <2>3. Len(chunk) = b - a
    BY <1>1, <1>2, SubSeqProperties
  <2>4. \A i \in 1..(b - a) : chunk[i] = s[a + i]
    <3> SUFFICES ASSUME NEW i \in 1..(b - a) PROVE chunk[i] = s[a + i]
      OBVIOUS
    <3>1. chunk[i] = s[(a + 1) + i - 1]
      BY <1>1, <1>2, <2>3, SubSeqProperties
    <3>2. (a + 1) + i - 1 = a + i
      BY <1>2
    <3> QED BY <3>1, <3>2
  <2> QED BY <2>2, <2>3, <2>4
<1>4. PICK h : /\ Accumulates(h, chunk, latest, "instant")
               /\ AddAll(chunk, latest, "instant") = h[Len(chunk)]
  BY <1>3, AddAllTable
<1> DEFINE N == {n \in Nat : n <= b - a => MergePartial(g[a], h[n]) = g[a + n]}
<1>5. g[a] \in PartType /\ \A n \in 0..(b - a) : h[n] \in PartType
  BY <1>2, <1>3, <1>4 DEF Accumulates
<1>6. 0 \in N
  <2>1. h[0] = Nothing /\ a + 0 = a
    BY <1>2, <1>4 DEF Accumulates
  <2>2. PICK P \in PartType : P = g[a]
    BY <1>5
  <2>3. MergePartial(P, Nothing) = P
    <3>1. CASE Changes # {}
      <4>1. PICK c : c \in Changes
        BY <3>1
      <4>2. P \in PartType /\ Nothing \in PartType
        BY NothingType
      <4> QED BY <4>1, <4>2, MergeAdds
    <3>2. CASE Changes = {}
      <4>1. 0 \in Dates
        BY DEF Dates
      <4>2. \A x \in Others : MergePair(P.pairs[x], Nothing.pairs[x]) = P.pairs[x]
        <5> SUFFICES ASSUME NEW x \in Others PROVE MergePair(P.pairs[x], NoPair) = P.pairs[x]
          BY DEF Nothing
        <5>1. PICK t \in PairType : t = P.pairs[x]
          BY DEF PartType
        <5>2. /\ t.cochanges \in Nat /\ t.weight \in Nat /\ t.other \in Nat /\ t.seen \in Seens
              /\ t = [cochanges |-> t.cochanges, weight |-> t.weight, other |-> t.other, seen |-> t.seen]
          BY DEF PairType
        <5> QED BY <5>1, <5>2 DEF MergePair, NoPair, LaterPart, Never, Seens
      <4> QED BY <4>2 DEF MergePartial, Nothing, PartType
    <3> QED BY <3>1, <3>2
  <2> QED BY <2>1, <2>2, <2>3
<1>7. ASSUME NEW n \in Nat, n \in N
      PROVE  n + 1 \in N
  <2> SUFFICES ASSUME n + 1 <= b - a
               PROVE  MergePartial(g[a], h[n + 1]) = g[a + (n + 1)]
    OBVIOUS
  <2>1. /\ n \in 0..(b - a) /\ n + 1 \in 1..(b - a) /\ (n + 1) - 1 = n
        /\ a + (n + 1) \in 1..Len(s) /\ (a + (n + 1)) - 1 = a + n
    BY <1>2
  <2>2. MergePartial(g[a], h[n]) = g[a + n]
    BY <1>7, <2>1
  <2>3. PICK c \in Changes : c = s[a + (n + 1)]
    BY <2>1
  <2>4. chunk[n + 1] = c
    BY <1>3, <2>1, <2>3
  <2>5. h[n + 1] = AddCommit(h[n], c, latest, "instant")
    BY <1>3, <1>4, <2>1, <2>4 DEF Accumulates
  <2>6. g[a + (n + 1)] = AddCommit(g[a + n], c, latest, "instant")
    BY <2>1, <2>3 DEF Accumulates
  <2>7. PICK P \in PartType : P = g[a]
    BY <1>5
  <2>8. PICK Q \in PartType : Q = h[n]
    BY <1>5, <2>1
  <2>9. MergePartial(P, AddCommit(Q, c, latest, "instant")) = AddCommit(MergePartial(P, Q), c, latest, "instant")
    <3>1. c \in Changes /\ latest \in Dates /\ P \in PartType /\ Q \in PartType
      OBVIOUS
    <3> HIDE DEF N
    <3> QED BY <3>1, MergeAdds
  <2> QED BY <2>2, <2>5, <2>6, <2>7, <2>8, <2>9
<1> HIDE DEF N
<1>8. Nat \subseteq N
  BY <1>6, <1>7, NumbersByInduction
<1>9. MergePartial(g[a], h[b - a]) = g[b]
  <2>1. b - a \in Nat /\ a + (b - a) = b
    BY <1>2
  <2> QED BY <1>8, <2>1 DEF N
<1>a. h[b - a] \in PartType
  BY <1>2, <1>5
<1> QED BY <1>1, <1>3, <1>4, <1>9, <1>a

(* Whatever the number of jobs, the chunks add up to the whole list.       *)
LEMMA JobsAgree ==
  ASSUME NEW s \in Seq(Changes), NEW jobs \in Nat
  PROVE  Parallel(s, jobs) = Serial(s)
<1>1. PICK M \in Nat : M = Len(s)
  OBVIOUS
<1>2. PICK threads \in Nat \ {0} : threads = Larger(Smaller(jobs, Len(s)), 1)
  <2>1. Larger(Smaller(jobs, M), 1) \in Nat \ {0}
    BY DEF Larger, Smaller
  <2> QED BY <1>1, <2>1
<1>3. PICK size \in Nat \ {0} : size = Larger(DivCeil(Len(s), threads), 1)
  <2>1. M + threads - 1 \in Int /\ (M + threads - 1) \div threads \in Int
    OBVIOUS
  <2> QED BY <1>1, <2>1 DEF Larger, DivCeil
<1>4. PICK n \in Nat : n = DivCeil(M, size)
  <2>1. M + size - 1 \in Nat /\ (M + size - 1) \div size \in Nat
    OBVIOUS
  <2> QED BY <2>1 DEF DivCeil
<1>5. n * size >= M /\ \A k \in 1..n : (k - 1) * size <= M
  <2>1. n * size <= M + size - 1 /\ M + size - 1 < n * size + size
    BY <1>4 DEF DivCeil
  <2>2. n * size >= M
    BY <2>1
  <2>3. ASSUME NEW k \in 1..n
        PROVE  (k - 1) * size <= M
    <3>1. (k - 1) * size <= (n - 1) * size
      <4>1. k - 1 \in Nat /\ n - 1 \in Nat /\ k - 1 <= n - 1
        OBVIOUS
      <4> QED BY <4>1
    <3>2. (n - 1) * size = n * size - size
      OBVIOUS
    <3> QED BY <2>1, <3>1, <3>2
  <2> QED BY <2>2, <2>3
<1> DEFINE Chunk(k) == SubSeq(s, (k - 1) * size + 1, Smaller(k * size, M))
           Part(k) == AddAll(Chunk(k), CollectedLatest(s), "instant")
           f == CHOOSE h : h = [k \in 0..n |-> IF k = 0 THEN Nothing ELSE MergePartial(h[k - 1], Part(k))]
<1>6. Parallel(s, jobs) = f[n]
  BY <1>1, <1>2, <1>3, <1>4 DEF Parallel
<1>7. CASE s = <<>>
  <2>1. M = 0 /\ n = 0
    <3>1. M = 0
      BY <1>1, <1>7
    <3>2. n * size <= size - 1
      BY <1>4, <3>1 DEF DivCeil
    <3>3. n >= 1 => n * size >= size
      OBVIOUS
    <3> QED BY <3>1, <3>2, <3>3
  <2>2. f = [k \in 0..n |-> IF k = 0 THEN Nothing ELSE MergePartial(f[k - 1], Part(k))]
    <3>1. PICK h : h = [k \in 0..0 |-> Nothing]
      OBVIOUS
    <3>2. h = [k \in 0..n |-> IF k = 0 THEN Nothing ELSE MergePartial(h[k - 1], Part(k))]
      BY <2>1, <3>1
    <3> QED BY <3>2
  <2>3. f[0] = Nothing
    <3> HIDE DEF f
    <3> QED BY <2>1, <2>2
  <2> QED BY <1>6, <1>7, <2>1, <2>3 DEF Serial
<1>8. CASE s # <<>>
  <2>1. PICK latest \in Dates : latest = CollectedLatest(s)
    <3>1. s[1] \in Changes
      BY <1>1, <1>8
    <3> QED BY <3>1 DEF CollectedLatest, Dates
  <2>2. PICK g : Accumulates(g, s, latest, "instant") /\ AddAll(s, latest, "instant") = g[Len(s)]
    BY AddAllTable
  <2>3. ASSUME NEW k \in 1..n
        PROVE  /\ Part(k) \in PartType
               /\ MergePartial(g[Smaller((k - 1) * size, M)], Part(k)) = g[Smaller(k * size, M)]
    <3>1. PICK a \in 0..Len(s) : a = (k - 1) * size
      <4>1. k - 1 \in Nat /\ (k - 1) * size \in Nat
        OBVIOUS
      <4> QED BY <1>1, <1>5, <4>1
    <3>2. k * size = a + size
      <4>1. k * size = (k - 1) * size + size
        OBVIOUS
      <4> QED BY <3>1, <4>1
    <3>3. PICK b \in a..Len(s) : b = Smaller(k * size, M)
      BY <1>1, <3>2 DEF Smaller
    <3>4. Smaller((k - 1) * size, M) = a
      BY <1>1, <3>1 DEF Smaller
    <3>5. Part(k) = AddAll(SubSeq(s, a + 1, b), latest, "instant")
      BY <2>1, <3>1, <3>3
    <3> HIDE DEF Part
    <3>6. /\ AddAll(SubSeq(s, a + 1, b), latest, "instant") \in PartType
          /\ MergePartial(g[a], AddAll(SubSeq(s, a + 1, b), latest, "instant")) = g[b]
      BY <2>2, ChunkMerges
    <3> QED BY <3>3, <3>4, <3>5, <3>6
  <2> HIDE DEF Part
  <2>4. f = [k \in 0..n |-> IF k = 0 THEN Nothing ELSE MergePartial(f[k - 1], Part(k))]
    <3>1. PICK h : h = [k \in 0..n |-> g[Smaller(k * size, M)]]
      OBVIOUS
    <3>2. g[Smaller(0 * size, M)] = Nothing
      <4>1. Smaller(0 * size, M) = 0
        BY DEF Smaller
      <4> QED BY <2>2, <4>1 DEF Accumulates
    <3>3. \A k \in 0..n : h[k] = IF k = 0 THEN Nothing ELSE MergePartial(h[k - 1], Part(k))
      <4> SUFFICES ASSUME NEW k \in 0..n, k # 0 PROVE h[k] = MergePartial(h[k - 1], Part(k))
        BY <3>1, <3>2
      <4>1. k \in 1..n /\ k - 1 \in 0..n
        OBVIOUS
      <4> QED BY <2>3, <3>1, <4>1
    <3>4. h = [k \in 0..n |-> IF k = 0 THEN Nothing ELSE MergePartial(h[k - 1], Part(k))]
      BY <3>1, <3>3
    <3> QED BY <3>4
  <2> HIDE DEF f
  <2> DEFINE N == {k \in Nat : k <= n => f[k] = g[Smaller(k * size, M)]}
  <2>5. 0 \in N
    <3>1. Smaller(0 * size, M) = 0
      BY DEF Smaller
    <3>2. f[0] = Nothing
      BY <2>4
    <3> QED BY <2>2, <3>1, <3>2 DEF Accumulates
  <2>6. ASSUME NEW k \in Nat, k \in N
        PROVE  k + 1 \in N
    <3> SUFFICES ASSUME k + 1 <= n PROVE f[k + 1] = g[Smaller((k + 1) * size, M)]
      OBVIOUS
    <3>1. k + 1 \in 0..n /\ k + 1 \in 1..n /\ (k + 1) - 1 = k /\ f[k] = g[Smaller(k * size, M)]
      BY <2>6
    <3>2. f[k + 1] = MergePartial(f[k], Part(k + 1))
      BY <2>4, <3>1
    <3>3. MergePartial(g[Smaller(k * size, M)], Part(k + 1)) = g[Smaller((k + 1) * size, M)]
      BY <2>3, <3>1
    <3> QED BY <3>1, <3>2, <3>3
  <2> HIDE DEF N
  <2>7. Nat \subseteq N
    BY <2>5, <2>6, NumbersByInduction
  <2>8. f[n] = g[M]
    <3>1. Smaller(n * size, M) = M
      BY <1>5 DEF Smaller
    <3> QED BY <2>7, <3>1 DEF N
  <2> QED BY <1>1, <1>6, <1>8, <2>1, <2>2, <2>8 DEF Serial
<1> QED BY <1>7, <1>8

-----------------------------------------------------------------------------
(* Nothing is accumulated from no commit, and one more commit is added to  *)
(* what there was.                                                         *)
LEMMA AddAllGrows ==
  ASSUME NEW s \in Seq(Changes), NEW c \in Changes, NEW latest \in Dates, NEW by
  PROVE  /\ AddAll(<<>>, latest, by) = Nothing
         /\ AddAll(s, latest, by) \in PartType
         /\ AddAll(Append(s, c), latest, by) = AddCommit(AddAll(s, latest, by), c, latest, by)
<1>1. AddAll(<<>>, latest, by) = Nothing
  <2>1. <<>> \in Seq(Changes) /\ Len(<<>>) = 0
    OBVIOUS
  <2>2. PICK g : Accumulates(g, <<>>, latest, by) /\ AddAll(<<>>, latest, by) = g[0]
    BY <2>1, AddAllTable
  <2> QED BY <2>2 DEF Accumulates
<1>2. PICK longer \in Seq(Changes) : longer = Append(s, c)
  BY AppendProperties
<1>3. PICK M \in Nat : M = Len(s)
  OBVIOUS
<1>4. Len(longer) = M + 1 /\ longer[M + 1] = c /\ \A i \in 1..M : longer[i] = s[i]
  BY <1>2, <1>3
<1>5. PICK g : Accumulates(g, s, latest, by) /\ AddAll(s, latest, by) = g[M]
  BY <1>3, AddAllTable
<1>6. PICK h : Accumulates(h, longer, latest, by) /\ AddAll(longer, latest, by) = h[M + 1]
  BY <1>4, AddAllTable
<1> DEFINE N == {k \in Nat : k <= M => g[k] = h[k]}
<1>7. 0 \in N
  BY <1>5, <1>6 DEF Accumulates
<1>8. ASSUME NEW k \in Nat, k \in N
      PROVE  k + 1 \in N
  <2> SUFFICES ASSUME k + 1 <= M PROVE g[k + 1] = h[k + 1]
    OBVIOUS
  <2>1. /\ k + 1 \in 1..M /\ k + 1 \in 1..(M + 1) /\ (k + 1) - 1 = k /\ g[k] = h[k]
    BY <1>8
  <2>2. longer[k + 1] = s[k + 1]
    BY <1>4, <2>1
  <2>3. g[k + 1] = AddCommit(g[k], s[k + 1], latest, by)
    BY <1>3, <1>5, <2>1 DEF Accumulates
  <2>4. h[k + 1] = AddCommit(h[k], longer[k + 1], latest, by)
    BY <1>4, <1>6, <2>1 DEF Accumulates
  <2> QED BY <2>1, <2>2, <2>3, <2>4
<1> HIDE DEF N
<1>9. Nat \subseteq N
  BY <1>7, <1>8, NumbersByInduction
<1>a. g[M] = h[M]
  BY <1>9 DEF N
<1>b. h[M + 1] = AddCommit(h[M], c, latest, by)
  <2>1. M + 1 \in 1..(M + 1) /\ (M + 1) - 1 = M
    OBVIOUS
  <2> QED BY <1>4, <1>6, <2>1 DEF Accumulates
<1>c. g[M] \in PartType
  <2>1. M \in 0..M
    OBVIOUS
  <2> QED BY <1>3, <1>5, <2>1 DEF Accumulates
<1> QED BY <1>1, <1>2, <1>5, <1>6, <1>a, <1>b, <1>c

(* As long as no commit is counted nothing is accumulated.                 *)
LEMMA NothingCounted ==
  ASSUME NEW s \in Seq(Changes), NEW latest \in Dates, NEW by, Counted(s) = {}
  PROVE  AddAll(s, latest, by) = Nothing
<1>1. PICK M \in Nat : M = Len(s)
  OBVIOUS
<1>2. PICK g : Accumulates(g, s, latest, by) /\ AddAll(s, latest, by) = g[M]
  BY <1>1, AddAllTable
<1> DEFINE N == {k \in Nat : k <= M => g[k] = Nothing}
<1>3. 0 \in N
  BY <1>2 DEF Accumulates
<1>4. ASSUME NEW k \in Nat, k \in N
      PROVE  k + 1 \in N
  <2> SUFFICES ASSUME k + 1 <= M PROVE g[k + 1] = Nothing
    OBVIOUS
  <2>1. k + 1 \in 1..M /\ (k + 1) - 1 = k /\ g[k] = Nothing
    BY <1>4
  <2>2. g[k + 1] = AddCommit(g[k], s[k + 1], latest, by)
    BY <1>1, <1>2, <2>1 DEF Accumulates
  <2>3. ~Eligible(s[k + 1])
    BY <1>1, <2>1 DEF Counted
  <2> QED BY <2>1, <2>2, <2>3 DEF AddCommit
<1> HIDE DEF N
<1>5. Nat \subseteq N
  BY <1>3, <1>4, NumbersByInduction
<1> QED BY <1>2, <1>5 DEF N

(* The commit a stream dates the decay by: the first that is counted, once *)
(* there is one.                                                           *)
LEMMA StreamFacts ==
  ASSUME NEW s \in Seq(Changes)
  PROVE  /\ StreamLatest(s) \in Dates
         /\ Counted(s) # {} => \E i \in Counted(s) : /\ StreamLatest(s) = s[i].time
                                                     /\ \A j \in Counted(s) : i <= j
         /\ \A c \in Changes : Counted(s) # {} => StreamLatest(Append(s, c)) = StreamLatest(s)
<1>1. \A i \in Counted(s) : i \in 1..Len(s) /\ s[i] \in Changes
  BY DEF Counted
<1>2. Counted(s) \subseteq Nat
  BY <1>1
<1>3. ASSUME Counted(s) # {}
      PROVE  \E i \in Counted(s) : StreamLatest(s) = s[i].time /\ \A j \in Counted(s) : i <= j
  <2>1. PICK i \in Counted(s) : \A j \in Counted(s) : i <= j
    BY <1>2, <1>3, SmallestNumber
  <2>2. PICK m : m = CHOOSE k \in Counted(s) : \A j \in Counted(s) : k <= j
    OBVIOUS
  <2>3. m \in Counted(s) /\ \A j \in Counted(s) : m <= j
    BY <2>1, <2>2
  <2>4. StreamLatest(s) = s[m].time
    BY <1>3, <2>2 DEF StreamLatest
  <2> QED BY <2>3, <2>4
<1>4. StreamLatest(s) \in Dates
  <2>1. CASE Counted(s) = {}
    BY <2>1 DEF StreamLatest, Dates
  <2>2. CASE Counted(s) # {}
    BY <1>1, <1>3, <2>2 DEF Dates
  <2> QED BY <2>1, <2>2
<1>5. ASSUME NEW c \in Changes, Counted(s) # {}
      PROVE  StreamLatest(Append(s, c)) = StreamLatest(s)
  <2>1. PICK longer \in Seq(Changes) : longer = Append(s, c)
    BY AppendProperties
  <2>2. PICK M \in Nat : M = Len(s)
    OBVIOUS
  <2>3. Len(longer) = M + 1 /\ longer[M + 1] = c /\ \A i \in 1..M : longer[i] = s[i]
    BY <2>1, <2>2
  <2>4. \A j \in Counted(longer) : j \in Counted(s) \/ j = M + 1
    BY <2>2, <2>3 DEF Counted
  <2>5. \A j \in Counted(s) : j \in Counted(longer) /\ j <= M
    BY <2>2, <2>3 DEF Counted
  <2>6. PICK i \in Counted(s) : StreamLatest(s) = s[i].time /\ \A j \in Counted(s) : i <= j
    BY <1>3, <1>5
  <2>7. i \in 1..M /\ i \in Counted(longer) /\ \A j \in Counted(longer) : i <= j
    BY <1>1, <2>2, <2>4, <2>5, <2>6
  <2>8. \A j \in Counted(longer) : j \in Nat
    BY <1>2, <2>4
  <2>9. PICK m : m = CHOOSE k \in Counted(longer) : \A j \in Counted(longer) : k <= j
    OBVIOUS
  <2>a. m \in Counted(longer) /\ \A j \in Counted(longer) : m <= j
    BY <2>7, <2>9
  <2>b. m = i
    BY <2>7, <2>8, <2>a
  <2>c. StreamLatest(longer) = longer[m].time
    BY <2>7, <2>9 DEF StreamLatest
  <2> QED BY <2>1, <2>3, <2>6, <2>7, <2>b, <2>c
<1> QED BY <1>3, <1>4, <1>5

(* A stream is one reading of the commits there were so far.               *)
LEMMA StreamStep ==
  ASSUME NEW s \in Seq(Changes), NEW c \in Changes, NEW by
  PROVE  AddCommit(AddAll(s, StreamLatest(s), by), c, StreamLatest(Append(s, c)), by)
           = AddAll(Append(s, c), StreamLatest(Append(s, c)), by)
<1>1. PICK longer \in Seq(Changes) : longer = Append(s, c)
  BY AppendProperties
<1>2. PICK latest \in Dates : latest = StreamLatest(longer)
  BY <1>1, StreamFacts
<1>3. AddAll(s, StreamLatest(s), by) = AddAll(s, latest, by)
  <2>1. CASE Counted(s) = {}
    <3>1. StreamLatest(s) \in Dates
      BY StreamFacts
    <3> QED BY <2>1, <3>1, NothingCounted
  <2>2. CASE Counted(s) # {}
    BY <1>1, <1>2, <2>2, StreamFacts
  <2> QED BY <2>1, <2>2
<1>4. AddAll(Append(s, c), latest, by) = AddCommit(AddAll(s, latest, by), c, latest, by)
  BY AddAllGrows
<1> QED BY <1>1, <1>2, <1>3, <1>4

-----------------------------------------------------------------------------
(* Weights that differ by a common factor rank alike.                      *)
Scaled(P, Q, a, b) ==
  \A x \in Others : /\ P.pairs[x].cochanges = Q.pairs[x].cochanges
                    /\ a * P.pairs[x].weight = b * Q.pairs[x].weight
                    /\ a * P.pairs[x].other = b * Q.pairs[x].other

(* Scaling of a sum with a product.                                        *)
LEMMA SumIsScaled ==
  ASSUME NEW a \in Nat, NEW b \in Nat, NEW d \in Nat, NEW e \in Nat, a * d = b * e,
         NEW w \in Nat, NEW v \in Nat, a * w = b * v, NEW n \in Nat
  PROVE  a * (w + d * n) = b * (v + e * n)
<1>1. a * (d * n) = b * (e * n)
  <2>1. (a * d) * n = (b * e) * n
    OBVIOUS
  <2>2. a * (d * n) = (a * d) * n /\ b * (e * n) = (b * e) * n
    OBVIOUS
  <2> QED BY <2>1, <2>2
<1>2. a * (w + d * n) = a * w + a * (d * n) /\ b * (v + e * n) = b * v + b * (e * n)
  OBVIOUS
<1> QED BY <1>1, <1>2

(* Products of three scaled numbers are scaled by the cube.                *)
LEMMA ScaledCube ==
  ASSUME NEW a \in Nat, NEW b \in Nat, NEW w \in Nat, NEW v \in Nat, NEW o \in Nat, NEW p \in Nat,
         a * w = b * v, a * o = b * p
  PROVE  (a * a * a) * (w * w * o) = (b * b * b) * (v * v * p)
<1>1. (a * a * a) * (w * w * o) = (a * w) * (a * w) * (a * o)
  OBVIOUS
<1>2. (b * b * b) * (v * v * p) = (b * v) * (b * v) * (b * p)
  OBVIOUS
<1> QED BY <1>1, <1>2

(* A common factor on either side changes no comparison.                   *)
LEMMA CommonFactor ==
  ASSUME NEW k \in Nat \ {0}, NEW m \in Nat \ {0}, NEW x \in Nat, NEW y \in Nat, NEW u \in Nat, NEW v \in Nat,
         k * x = m * u, k * y = m * v
  PROVE  (x > y <=> u > v) /\ (x = y <=> u = v)
<1>1. (x > y <=> k * x > k * y) /\ (x = y <=> k * x = k * y)
  OBVIOUS
<1>2. (u > v <=> m * u > m * v) /\ (u = v <=> m * u = m * v)
  OBVIOUS
<1> QED BY <1>1, <1>2

(* Parts that are scaled compare alike.                                    *)
LEMMA ScaledBetter ==
  ASSUME NEW P \in PartType, NEW Q \in PartType, NEW a \in Nat \ {0}, NEW b \in Nat \ {0},
         Scaled(P, Q, a, b), NEW x \in Others, NEW y \in Others
  PROVE  Better(P, x, y) <=> Better(Q, x, y)
<1>1. PICK wx \in Nat : wx = P.pairs[x].weight
  BY DEF PartType, PairType
<1>2. PICK wy \in Nat : wy = P.pairs[y].weight
  BY DEF PartType, PairType
<1>3. PICK ox \in Nat : ox = P.pairs[x].other
  BY DEF PartType, PairType
<1>4. PICK oy \in Nat : oy = P.pairs[y].other
  BY DEF PartType, PairType
<1>5. PICK vx \in Nat : vx = Q.pairs[x].weight
  BY DEF PartType, PairType
<1>6. PICK vy \in Nat : vy = Q.pairs[y].weight
  BY DEF PartType, PairType
<1>7. PICK px \in Nat : px = Q.pairs[x].other
  BY DEF PartType, PairType
<1>8. PICK py \in Nat : py = Q.pairs[y].other
  BY DEF PartType, PairType
<1>9. a * wx = b * vx /\ a * wy = b * vy /\ a * ox = b * px /\ a * oy = b * py
  BY <1>1, <1>2, <1>3, <1>4, <1>5, <1>6, <1>7, <1>8 DEF Scaled
<1>a. /\ (a * a * a) * (wx * wx * oy) = (b * b * b) * (vx * vx * py)
      /\ (a * a * a) * (wy * wy * ox) = (b * b * b) * (vy * vy * px)
  BY <1>9, ScaledCube
<1>b. PICK k \in Nat \ {0} : k = a * a * a
  <2>1. a * a \in Nat \ {0}
    OBVIOUS
  <2>2. a * a * a \in Nat \ {0}
    BY <2>1
  <2> QED BY <2>2
<1>c. PICK m \in Nat \ {0} : m = b * b * b
  <2>1. b * b \in Nat \ {0}
    OBVIOUS
  <2>2. b * b * b \in Nat \ {0}
    BY <2>1
  <2> QED BY <2>2
<1>d. PICK l \in Nat : l = wx * wx * oy
  OBVIOUS
<1>e. PICK r \in Nat : r = wy * wy * ox
  OBVIOUS
<1>f. PICK l2 \in Nat : l2 = vx * vx * py
  OBVIOUS
<1>g. PICK r2 \in Nat : r2 = vy * vy * px
  OBVIOUS
<1>h. (l > r <=> l2 > r2) /\ (l = r <=> l2 = r2)
  <2>1. k * l = m * l2 /\ k * r = m * r2
    BY <1>a, <1>b, <1>c, <1>d, <1>e, <1>f, <1>g
  <2> QED BY <2>1, CommonFactor
<1>i. Better(P, x, y) <=> l > r \/ (l = r /\ x < y)
  BY <1>1, <1>2, <1>3, <1>4, <1>d, <1>e DEF Better
<1>j. Better(Q, x, y) <=> l2 > r2 \/ (l2 = r2 /\ x < y)
  BY <1>5, <1>6, <1>7, <1>8, <1>f, <1>g DEF Better
<1> QED BY <1>h, <1>i, <1>j

(* Among files that were counted, being better is a strict order of all.   *)
CountedWeigh(P) == \A x \in Others : P.pairs[x].cochanges <= P.pairs[x].other
BetterPairs(P) == {p \in Scored(P) \X Scored(P) : Better(P, p[1], p[2])}

(* Ratios a/x >= b/y >= c/z, by cross products.                            *)
LEMMA RatiosAreOrdered ==
  ASSUME NEW a \in Nat, NEW b \in Nat, NEW c \in Nat,
         NEW x \in Nat \ {0}, NEW y \in Nat \ {0}, NEW z \in Nat \ {0},
         a * y >= b * x, b * z >= c * y
  PROVE  /\ a * z >= c * x
         /\ a * y > b * x \/ b * z > c * y => a * z > c * x
<1>1. (a * y) * z >= (b * x) * z /\ (a * y > b * x => (a * y) * z > (b * x) * z)
  OBVIOUS
<1>2. (b * z) * x >= (c * y) * x /\ (b * z > c * y => (b * z) * x > (c * y) * x)
  OBVIOUS
<1>3. /\ (a * y) * z = y * (a * z) /\ (b * x) * z = (b * z) * x
      /\ (c * y) * x = y * (c * x)
  OBVIOUS
<1>4. PICK l \in Nat : l = a * z
  OBVIOUS
<1>5. PICK r \in Nat : r = c * x
  OBVIOUS
<1>6. y * l >= y * r /\ (a * y > b * x \/ b * z > c * y => y * l > y * r)
  <2>1. PICK u \in Nat : u = (b * x) * z
    OBVIOUS
  <2>2. u <= y * l /\ y * r <= u
    BY <1>1, <1>2, <1>3, <1>4, <1>5, <2>1
  <2>3. (a * y > b * x => u < y * l) /\ (b * z > c * y => y * r < u)
    BY <1>1, <1>2, <1>3, <1>4, <1>5, <2>1
  <2> QED BY <2>2, <2>3
<1>7. (y * l >= y * r => l >= r) /\ (y * l > y * r => l > r)
  OBVIOUS
<1> QED BY <1>4, <1>5, <1>6, <1>7

(* Better is a strict order of the files counted, and orders any two.      *)
LEMMA BetterIsOrder ==
  ASSUME NEW P \in PartType, CountedWeigh(P)
  PROVE  /\ IsFiniteSet(Scored(P))
         /\ IsStrictOrder(Scored(P), BetterPairs(P)) /\ IsTotal(Scored(P), BetterPairs(P))
<1>1. PICK S : S = Scored(P) /\ S \subseteq Others /\ S \subseteq Nat
  BY ScoringAssumption DEF Scored
<1>2. IsFiniteSet(S)
  BY <1>1, ScoringAssumption, FS_Subset
<1>3. PICK f : f = [x \in S |-> P.pairs[x].weight * P.pairs[x].weight]
  OBVIOUS
<1>4. PICK o : o = [x \in S |-> P.pairs[x].other]
  OBVIOUS
<1>5. \A x \in S : f[x] \in Nat /\ o[x] \in Nat \ {0}
  <2> SUFFICES ASSUME NEW x \in S PROVE f[x] \in Nat /\ o[x] \in Nat \ {0}
    OBVIOUS
  <2>1. PICK pair \in PairType : pair = P.pairs[x]
    BY <1>1 DEF PartType
  <2>2. pair.weight \in Nat /\ pair.other \in Nat /\ pair.cochanges \in Nat
    BY DEF PairType
  <2>3. pair.weight * pair.weight \in Nat
    BY <2>2
  <2>4. pair.cochanges > 0 /\ pair.cochanges <= pair.other
    BY <1>1, <2>1 DEF Scored, CountedWeigh
  <2> QED BY <1>3, <1>4, <2>1, <2>2, <2>3, <2>4
<1>6. ASSUME NEW x \in S, NEW y \in S
      PROVE  <<x, y>> \in BetterPairs(P) <=>
               f[x] * o[y] > f[y] * o[x] \/ (f[x] * o[y] = f[y] * o[x] /\ x < y)
  <2>1. <<x, y>> \in BetterPairs(P) <=> Better(P, x, y)
    BY <1>1 DEF BetterPairs
  <2> QED BY <1>3, <1>4, <2>1 DEF Better
<1>7. ASSUME NEW x \in S
      PROVE  <<x, x>> \notin BetterPairs(P)
  <2>1. f[x] * o[x] \in Nat /\ x \in Nat
    BY <1>1, <1>5
  <2> QED BY <1>6, <2>1
<1>8. ASSUME NEW x \in S, NEW y \in S, NEW z \in S,
             <<x, y>> \in BetterPairs(P), <<y, z>> \in BetterPairs(P)
      PROVE  <<x, z>> \in BetterPairs(P)
  <2>1. x \in Nat /\ y \in Nat /\ z \in Nat
    BY <1>1
  <2>2. PICK a \in Nat : a = f[x]
    BY <1>5
  <2>3. PICK b \in Nat : b = f[y]
    BY <1>5
  <2>4. PICK c \in Nat : c = f[z]
    BY <1>5
  <2>5. PICK i \in Nat \ {0} : i = o[x]
    BY <1>5
  <2>6. PICK j \in Nat \ {0} : j = o[y]
    BY <1>5
  <2>7. PICK k \in Nat \ {0} : k = o[z]
    BY <1>5
  <2>8. /\ a * j > b * i \/ (a * j = b * i /\ x < y)
        /\ b * k > c * j \/ (b * k = c * j /\ y < z)
    BY <1>6, <1>8, <2>2, <2>3, <2>4, <2>5, <2>6, <2>7
  <2>9. PICK l1 \in Nat : l1 = a * j
    OBVIOUS
  <2>a. PICK r1 \in Nat : r1 = b * i
    OBVIOUS
  <2>b. PICK l2 \in Nat : l2 = b * k
    OBVIOUS
  <2>c. PICK r2 \in Nat : r2 = c * j
    OBVIOUS
  <2>d. l1 >= r1 /\ l2 >= r2
    BY <2>8, <2>9, <2>a, <2>b, <2>c
  <2>e. /\ a * k >= c * i
        /\ l1 > r1 \/ l2 > r2 => a * k > c * i
    BY <2>9, <2>a, <2>b, <2>c, <2>d, RatiosAreOrdered
  <2>f. a * k \in Nat /\ c * i \in Nat
    OBVIOUS
  <2>g. a * k > c * i \/ (a * k = c * i /\ x < z)
    <3>1. CASE l1 > r1 \/ l2 > r2
      BY <2>e, <3>1
    <3>2. CASE x < y /\ y < z
      BY <2>1, <2>e, <2>f, <3>2
    <3> QED BY <2>8, <2>9, <2>a, <2>b, <2>c, <3>1, <3>2
  <2> QED BY <1>6, <2>2, <2>4, <2>5, <2>7, <2>g
<1>9. ASSUME NEW x \in S, NEW y \in S, x # y
      PROVE  <<x, y>> \in BetterPairs(P) \/ <<y, x>> \in BetterPairs(P)
  <2>1. x \in Nat /\ y \in Nat /\ f[x] * o[y] \in Nat /\ f[y] * o[x] \in Nat
    BY <1>1, <1>5
  <2> QED BY <1>6, <1>9, <2>1
<1> HIDE DEF BetterPairs
<1>a. IsStrictOrder(S, BetterPairs(P))
  BY <1>7, <1>8 DEF IsStrictOrder
<1>b. IsTotal(S, BetterPairs(P))
  BY <1>9 DEF IsTotal
<1> QED BY <1>1, <1>2, <1>a, <1>b

(* Parts that are scaled give the same answer: by BetterIsOrder there is a *)
(* file at every rank.                                                     *)
LEMMA ScaledRanking ==
  ASSUME NEW P \in PartType, NEW Q \in PartType, NEW a \in Nat \ {0}, NEW b \in Nat \ {0},
         Scaled(P, Q, a, b), CountedWeigh(P)
  PROVE  Ranked(P) = Ranked(Q)
<1>1. \A x \in Others : P.pairs[x].cochanges = Q.pairs[x].cochanges
  BY DEF Scaled
<1>2. PICK S : S = Scored(P) /\ S = Scored(Q) /\ S \subseteq Others
  BY <1>1 DEF Scored
<1>3. PICK ahead : ahead = [x \in S |-> {y \in S : Better(P, y, x)}]
  OBVIOUS
<1>4. ahead = [x \in S |-> {y \in S : Better(Q, y, x)}]
  <2>1. \A x \in S : {y \in S : Better(P, y, x)} = {y \in S : Better(Q, y, x)}
    BY <1>2, ScaledBetter
  <2> QED BY <1>3, <2>1
<1> DEFINE At(n) == CHOOSE x \in S : Cardinality(ahead[x]) = n - 1
<1>5. Ranked(P) = [n \in 1..Cardinality(S) |-> <<At(n), P.pairs[At(n)].cochanges>>]
  BY <1>2, <1>3 DEF Ranked
<1>6. Ranked(Q) = [n \in 1..Cardinality(S) |-> <<At(n), Q.pairs[At(n)].cochanges>>]
  BY <1>2, <1>4 DEF Ranked
<1>7. ASSUME NEW n \in 1..Cardinality(S)
      PROVE  At(n) \in S
  <2>1. \A x \in S : Ahead(S, BetterPairs(P), x) = ahead[x]
    BY <1>2, <1>3 DEF Ahead, BetterPairs
  <2>2. \E x \in S : Cardinality(Ahead(S, BetterPairs(P), x)) = n - 1
    BY <1>2, BetterIsOrder, RanksExist
  <2>3. \E x \in S : Cardinality(ahead[x]) = n - 1
    BY <2>1, <2>2
  <2> QED BY <2>3
<1> HIDE DEF At
<1>8. \A n \in 1..Cardinality(S) : P.pairs[At(n)].cochanges = Q.pairs[At(n)].cochanges
  BY <1>1, <1>2, <1>7
<1> QED BY <1>5, <1>6, <1>8

(* Dating the decay by another commit scales everything that is counted by *)
(* one factor; how dates are compared does not show in the weights.        *)
LEMMA ScaledTables ==
  ASSUME NEW s \in Seq(Changes), NEW l \in Dates, NEW m \in Dates, NEW by, NEW by2,
         NEW a \in Nat \ {0}, NEW b \in Nat \ {0},
         \A i \in Counted(s) : a * Decay(l, s[i].time) = b * Decay(m, s[i].time)
  PROVE  Scaled(AddAll(s, l, by), AddAll(s, m, by2), a, b)
<1>1. PICK M \in Nat : M = Len(s)
  OBVIOUS
<1>2. PICK g : Accumulates(g, s, l, by) /\ AddAll(s, l, by) = g[M]
  BY <1>1, AddAllTable
<1>3. PICK h : Accumulates(h, s, m, by2) /\ AddAll(s, m, by2) = h[M]
  BY <1>1, AddAllTable
<1> DEFINE N == {k \in Nat : k <= M => Scaled(g[k], h[k], a, b)}
<1>4. 0 \in N
  <2>1. g[0] = Nothing /\ h[0] = Nothing
    BY <1>2, <1>3 DEF Accumulates
  <2>2. \A x \in Others : Nothing.pairs[x].weight = 0 /\ Nothing.pairs[x].other = 0
    BY DEF Nothing, NoPair
  <2> QED BY <2>1, <2>2 DEF Scaled
<1>5. ASSUME NEW k \in Nat, k \in N
      PROVE  k + 1 \in N
  <2> SUFFICES ASSUME k + 1 <= M PROVE Scaled(g[k + 1], h[k + 1], a, b)
    OBVIOUS
  <2>1. k \in 0..M /\ k + 1 \in 1..M /\ (k + 1) - 1 = k /\ Scaled(g[k], h[k], a, b)
    BY <1>5
  <2>2. PICK c \in Changes : c = s[k + 1]
    BY <1>1, <2>1
  <2>3. PICK P \in PartType : P = g[k]
    BY <1>1, <1>2, <2>1 DEF Accumulates
  <2>4. PICK Q \in PartType : Q = h[k]
    BY <1>1, <1>3, <2>1 DEF Accumulates
  <2>5. g[k + 1] = AddCommit(P, c, l, by)
    BY <1>1, <1>2, <2>1, <2>2, <2>3 DEF Accumulates
  <2>6. h[k + 1] = AddCommit(Q, c, m, by2)
    BY <1>1, <1>3, <2>1, <2>2, <2>4 DEF Accumulates
  <2>7. CASE ~Eligible(c)
    BY <2>1, <2>3, <2>4, <2>5, <2>6, <2>7 DEF AddCommit
  <2>8. CASE Eligible(c)
    <3>1. PICK d \in Nat : d = Decay(l, c.time)
      BY ChangeFacts
    <3>2. PICK e \in Nat : e = Decay(m, c.time)
      BY ChangeFacts
    <3>3. PICK share \in Nat : share = Share[Cardinality(c.files)]
      BY <2>8, ChangeFacts
    <3>4. a * d = b * e
      BY <1>1, <2>1, <2>2, <2>8, <3>1, <3>2 DEF Counted
    <3>5. \A x \in Others : g[k + 1].pairs[x] = IF x \in c.files THEN AddToPair(P.pairs[x], c, d, by)
                                                ELSE P.pairs[x]
      BY <2>5, <2>8, <3>1, AddCommitFacts
    <3>6. \A x \in Others : h[k + 1].pairs[x] = IF x \in c.files THEN AddToPair(Q.pairs[x], c, e, by2)
                                                ELSE Q.pairs[x]
      BY <2>6, <2>8, <3>2, AddCommitFacts
    <3>7. ASSUME NEW x \in Others
          PROVE  /\ g[k + 1].pairs[x].cochanges = h[k + 1].pairs[x].cochanges
                 /\ a * g[k + 1].pairs[x].weight = b * h[k + 1].pairs[x].weight
                 /\ a * g[k + 1].pairs[x].other = b * h[k + 1].pairs[x].other
      <4>1. PICK p \in PairType : p = P.pairs[x]
        BY DEF PartType
      <4>2. PICK q \in PairType : q = Q.pairs[x]
        BY DEF PartType
      <4>3. p.cochanges = q.cochanges /\ a * p.weight = b * q.weight /\ a * p.other = b * q.other
        BY <2>1, <2>3, <2>4, <4>1, <4>2 DEF Scaled
      <4>4. p.weight \in Nat /\ p.other \in Nat /\ q.weight \in Nat /\ q.other \in Nat
        BY DEF PairType
      <4>5. CASE x \notin c.files
        BY <3>5, <3>6, <4>1, <4>2, <4>3, <4>5
      <4>6. CASE x \in c.files
        <5>1. g[k + 1].pairs[x] = AddToPair(p, c, d, by) /\ h[k + 1].pairs[x] = AddToPair(q, c, e, by2)
          BY <3>5, <3>6, <4>1, <4>2, <4>6
        <5>2. /\ g[k + 1].pairs[x].cochanges = p.cochanges + 1 /\ h[k + 1].pairs[x].cochanges = q.cochanges + 1
              /\ g[k + 1].pairs[x].weight = p.weight + d * share
              /\ h[k + 1].pairs[x].weight = q.weight + e * share
              /\ g[k + 1].pairs[x].other = p.other + d * 1 /\ h[k + 1].pairs[x].other = q.other + e * 1
          BY <3>3, <5>1 DEF AddToPair, OtherWeight
        <5>3. a * (p.weight + d * share) = b * (q.weight + e * share)
          <6>1. PICK w \in Nat : w = p.weight
            BY <4>4
          <6>2. PICK v \in Nat : v = q.weight
            BY <4>4
          <6>3. a * w = b * v /\ a \in Nat /\ b \in Nat
            BY <4>3, <6>1, <6>2
          <6>4. a * d = b * e /\ d \in Nat /\ e \in Nat /\ share \in Nat
            BY <3>4
          <6>5. a * (w + d * share) = b * (v + e * share)
            <7>1. PICK n \in Nat : n = share
              BY <6>4
            <7>2. PICK i \in Nat : i = a
              OBVIOUS
            <7>3. PICK j \in Nat : j = b
              OBVIOUS
            <7>4. i * d = j * e /\ i * w = j * v
              BY <6>3, <6>4, <7>2, <7>3
            <7>5. i * (w + d * n) = j * (v + e * n)
              BY <7>4, SumIsScaled
            <7> QED BY <7>1, <7>2, <7>3, <7>5
          <6> QED BY <6>1, <6>2, <6>5
        <5>4. a * (p.other + d * 1) = b * (q.other + e * 1)
          <6>1. PICK w \in Nat : w = p.other
            BY <4>4
          <6>2. PICK v \in Nat : v = q.other
            BY <4>4
          <6>3. a * w = b * v /\ a \in Nat /\ b \in Nat
            BY <4>3, <6>1, <6>2
          <6>4. a * d = b * e /\ d \in Nat /\ e \in Nat /\ 1 \in Nat
            BY <3>4
          <6>5. a * (w + d * 1) = b * (v + e * 1)
            <7>1. PICK n \in Nat : n = 1
              BY <6>4
            <7>2. PICK i \in Nat : i = a
              OBVIOUS
            <7>3. PICK j \in Nat : j = b
              OBVIOUS
            <7>4. i * d = j * e /\ i * w = j * v
              BY <6>3, <6>4, <7>2, <7>3
            <7>5. i * (w + d * n) = j * (v + e * n)
              BY <7>4, SumIsScaled
            <7> QED BY <7>1, <7>2, <7>3, <7>5
          <6> QED BY <6>1, <6>2, <6>5
        <5> QED BY <4>3, <5>2, <5>3, <5>4
      <4> QED BY <4>5, <4>6
    <3> QED BY <3>7 DEF Scaled
  <2> QED BY <2>7, <2>8
<1> HIDE DEF N
<1>6. Nat \subseteq N
  BY <1>4, <1>5, NumbersByInduction
<1> QED BY <1>2, <1>3, <1>6 DEF N

(* What has been accumulated can be ranked.                                *)
LEMMA AccumulatedIsRanked ==
  ASSUME NEW s \in Seq(Changes), NEW l \in Dates, NEW m \in Dates, NEW by, NEW by2,
         NEW a \in Nat \ {0}, NEW b \in Nat \ {0},
         \A i \in Counted(s) : a * Decay(l, s[i].time) = b * Decay(m, s[i].time)
  PROVE  Ranked(AddAll(s, l, by)) = Ranked(AddAll(s, m, by2))
<1>1. PICK g : Accumulates(g, s, l, by) /\ AddAll(s, l, by) = g[Len(s)]
  BY AddAllTable
<1>2. PICK h : Accumulates(h, s, m, by2) /\ AddAll(s, m, by2) = h[Len(s)]
  BY AddAllTable
<1>3. Len(s) \in 0..Len(s)
  OBVIOUS
<1>4. PICK P \in PartType : P = AddAll(s, l, by)
  BY <1>1, <1>3 DEF Accumulates
<1>5. PICK Q \in PartType : Q = AddAll(s, m, by2)
  BY <1>2, <1>3 DEF Accumulates
<1>6. CountedWeigh(P)
  <2>1. ASSUME NEW x \in Others
        PROVE  g[Len(s)].pairs[x].cochanges <= g[Len(s)].pairs[x].other
    BY <1>1, <1>3, TableBounds
  <2> QED BY <1>1, <1>4, <2>1 DEF CountedWeigh
<1>7. Scaled(P, Q, a, b)
  BY <1>4, <1>5, ScaledTables
<1> QED BY <1>4, <1>5, <1>6, <1>7, ScaledRanking

(* From the newest of some dates on, decays differ by one factor.          *)
LEMMA DecaysAreProportional ==
  ASSUME NEW l \in {c.time : c \in Changes}, NEW m \in {c.time : c \in Changes}, m <= l
  PROVE  \E a, b \in Nat \ {0} :
           \A c \in Changes : c.time <= m => a * Decay(l, c.time) = b * Decay(m, c.time)
<1>1. PICK c \in Changes : l = c.time
  OBVIOUS
<1>2. PICK d \in Changes : m = d.time
  OBVIOUS
<1>3. l \in Nat /\ m \in Nat /\ l - m \in 0..Horizon /\ Horizon \in Nat /\ 0 \in 0..Horizon
  BY <1>1, <1>2, ScoringAssumption
<1>4. PICK a \in Nat \ {0} : a = Decayed[0]
  BY <1>3, ScoringAssumption
<1>5. PICK b \in Nat \ {0} : b = Decayed[l - m]
  BY <1>3, ScoringAssumption
<1>6. ASSUME NEW e \in Changes, e.time <= m
      PROVE  a * Decay(l, e.time) = b * Decay(m, e.time)
  <2>1. e.time \in Nat /\ m - e.time \in 0..Horizon /\ l - e.time \in 0..Horizon
    BY <1>1, <1>2, <1>3, <1>6, ScoringAssumption
  <2>2. PICK t \in 0..Horizon : t = m - e.time
    BY <2>1
  <2>3. PICK u \in 0..Horizon : u = l - m
    BY <1>3
  <2>4. u + t = l - e.time /\ u + t <= Horizon /\ 0 + t <= Horizon /\ 0 + t = t
    BY <1>3, <2>1, <2>2, <2>3
  <2>5. Decayed[u + t] * Decayed[0] = Decayed[u] * Decayed[0 + t]
    BY <1>3, <2>4, ScoringAssumption
  <2>6. Decay(l, e.time) = Decayed[u + t] /\ Decay(m, e.time) = Decayed[t]
    BY <1>3, <2>1, <2>2, <2>4 DEF Decay, Larger
  <2>7. Decayed[u + t] \in Nat /\ Decayed[t] \in Nat
    <3>1. u + t \in 0..Horizon
      BY <1>3, <2>4
    <3> QED BY <3>1, ScoringAssumption
  <2>8. Decayed[u + t] * a = b * Decayed[t]
    BY <1>4, <1>5, <2>3, <2>4, <2>5
  <2> QED BY <2>6, <2>7, <2>8
<1> QED BY <1>6

(* The newest of some dates is a bound that is reached.                    *)
LEMMA NewestIsReached ==
  ASSUME NEW T \in SUBSET Nat, NEW t \in T, \A u \in T : u <= t
  PROVE  Newest(T) = t
<1>1. PICK n : n = CHOOSE v \in T : \A u \in T : u <= v
  OBVIOUS
<1>2. n \in T /\ \A u \in T : u <= n
  BY <1>1
<1>3. n = t
  BY <1>2
<1> QED BY <1>1, <1>3 DEF Newest

-----------------------------------------------------------------------------
(* With clocks that agree with the order of the commits, the first commit  *)
(* that is counted is the newest of them, and the first of all no older.   *)
LEMMA HonestDates ==
  ASSUME NEW s \in Seq(Changes), Counted(s) # {},
         \A i, j \in DOMAIN s : i < j => s[i].time >= s[j].time
  PROVE  /\ s # <<>> /\ StreamLatest(s) \in {c.time : c \in Changes}
         /\ \A i \in Counted(s) : s[i] \in Changes /\ s[i].time <= StreamLatest(s)
         /\ Newest({s[i].time : i \in Counted(s)}) = StreamLatest(s)
         /\ Newest({s[i].time : i \in DOMAIN s}) = s[1].time
         /\ s[1].time \in {c.time : c \in Changes} /\ StreamLatest(s) <= s[1].time
<1>1. PICK M \in Nat : M = Len(s) /\ DOMAIN s = 1..M
  OBVIOUS
<1>2. \A i \in 1..M : s[i] \in Changes /\ s[i].time \in Nat
  BY <1>1, ScoringAssumption
<1>3. PICK f \in Counted(s) : StreamLatest(s) = s[f].time /\ \A j \in Counted(s) : f <= j
  BY StreamFacts
<1>4. Counted(s) \subseteq 1..M
  BY <1>1 DEF Counted
<1>5. 1 \in 1..M /\ f \in 1..M
  BY <1>3, <1>4
<1>6. \A i \in Counted(s) : s[i].time <= s[f].time
  BY <1>1, <1>2, <1>3, <1>4
<1>7. \A i \in 1..M : s[i].time <= s[1].time
  BY <1>1, <1>2, <1>5
<1>8. Newest({s[i].time : i \in Counted(s)}) = s[f].time
  <2>1. PICK T \in SUBSET Nat : T = {s[i].time : i \in Counted(s)}
    BY <1>2, <1>4
  <2>2. s[f].time \in T /\ \A u \in T : u <= s[f].time
    BY <1>6, <2>1
  <2> QED BY <2>1, <2>2, NewestIsReached
<1>9. Newest({s[i].time : i \in DOMAIN s}) = s[1].time
  <2>1. PICK T \in SUBSET Nat : T = {s[i].time : i \in DOMAIN s}
    BY <1>1, <1>2
  <2>2. s[1].time \in T /\ \A u \in T : u <= s[1].time
    BY <1>1, <1>5, <1>7, <2>1
  <2> QED BY <2>1, <2>2, NewestIsReached
<1> QED BY <1>1, <1>2, <1>3, <1>4, <1>5, <1>6, <1>7, <1>8, <1>9

(* Nothing is left out when the answer of one reader is put for another's. *)
LEMMA ReadersAgree ==
  ASSUME NEW s \in Seq(Changes),
         \A i, j \in DOMAIN s : i < j => s[i].time >= s[j].time
  PROVE  /\ AddAll(s, StreamLatest(s), "text") = Direct(s)
         /\ Ranked(AddAll(s, StreamLatest(s), "instant")) = Ranked(Direct(s))
         /\ Ranked(Serial(s)) = Ranked(AddAll(s, StreamLatest(s), "instant"))
         /\ Ranked(GraphData(s)) = Ranked(AddAll(s, StreamLatest(s), "instant"))
<1>1. CASE Counted(s) = {}
  <2>1. \A l \in Dates : \A by : AddAll(s, l, by) = Nothing
    BY <1>1, NothingCounted
  <2>2. StreamLatest(s) \in Dates
    BY StreamFacts
  <2>3. Direct(s) = Nothing
    <3>1. {s[i].time : i \in Counted(s)} = {}
      BY <1>1
    <3>2. Newest({s[i].time : i \in Counted(s)}) = 0 /\ 0 \in Dates
      BY <3>1 DEF Newest, Dates
    <3> QED BY <2>1, <3>2 DEF Direct
  <2>4. Serial(s) = Nothing
    <3>1. s # <<>> => s[1] \in Changes
      OBVIOUS
    <3>2. s # <<>> => CollectedLatest(s) \in Dates
      BY <3>1 DEF CollectedLatest, Dates
    <3> QED BY <2>1, <3>2 DEF Serial
  <2>5. GraphData(s) = Nothing
    <3>1. PICK T \in SUBSET Nat : T = {s[i].time : i \in DOMAIN s}
      <4>1. \A i \in DOMAIN s : s[i] \in Changes
        OBVIOUS
      <4> QED BY <4>1, ScoringAssumption
    <3>2. Newest(T) \in Dates
      <4>1. CASE T = {}
        BY <4>1 DEF Newest, Dates
      <4>2. CASE T # {}
        <5>1. PICK M \in Nat : M = Len(s) /\ DOMAIN s = 1..M
          OBVIOUS
        <5>2. 1 \in DOMAIN s /\ s[1] \in Changes /\ \A i \in DOMAIN s : s[i].time <= s[1].time
          <6>1. 1 \in DOMAIN s
            BY <3>1, <4>2, <5>1
          <6>2. \A i \in DOMAIN s : s[i] \in Changes /\ s[i].time \in Nat
            BY <5>1, ScoringAssumption
          <6> QED BY <5>1, <6>1, <6>2
        <5>3. s[1].time \in T /\ \A u \in T : u <= s[1].time
          BY <3>1, <5>2
        <5>4. Newest(T) = s[1].time
          BY <5>3, NewestIsReached
        <5> QED BY <5>2, <5>4 DEF Dates
      <4> QED BY <4>1, <4>2
    <3> QED BY <2>1, <3>1, <3>2 DEF GraphData
  <2>6. AddAll(s, StreamLatest(s), "text") = Nothing /\ AddAll(s, StreamLatest(s), "instant") = Nothing
    BY <2>1, <2>2
  <2> QED BY <2>3, <2>4, <2>5, <2>6
<1>2. CASE Counted(s) # {}
  <2>1. PICK m : m = StreamLatest(s)
    OBVIOUS
  <2>2. PICK l : l = s[1].time
    OBVIOUS
  <2>3. /\ s # <<>> /\ m \in {c.time : c \in Changes} /\ l \in {c.time : c \in Changes} /\ m <= l
        /\ \A i \in Counted(s) : s[i] \in Changes /\ s[i].time <= m
    BY <1>2, <2>1, <2>2, HonestDates
  <2>4. Direct(s) = AddAll(s, m, "text") /\ GraphData(s) = AddAll(s, l, "text")
    <3>1. Newest({s[i].time : i \in Counted(s)}) = m /\ Newest({s[i].time : i \in DOMAIN s}) = l
      BY <1>2, <2>1, <2>2, HonestDates
    <3> QED BY <3>1 DEF Direct, GraphData
  <2>5. Serial(s) = AddAll(s, l, "instant")
    BY <2>2, <2>3 DEF Serial, CollectedLatest
  <2>6. PICK a, b \in Nat \ {0} :
          \A c \in Changes : c.time <= m => a * Decay(l, c.time) = b * Decay(m, c.time)
    BY <2>3, DecaysAreProportional
  <2>7. \A i \in Counted(s) : a * Decay(l, s[i].time) = b * Decay(m, s[i].time)
    BY <2>3, <2>6
  <2>8. l \in Dates /\ m \in Dates
    BY <2>3 DEF Dates
  <2>9. Ranked(AddAll(s, l, "instant")) = Ranked(AddAll(s, m, "instant"))
    BY <2>7, <2>8, AccumulatedIsRanked
  <2>a. Ranked(AddAll(s, l, "text")) = Ranked(AddAll(s, m, "instant"))
    BY <2>7, <2>8, AccumulatedIsRanked
  <2>b. Ranked(AddAll(s, m, "instant")) = Ranked(AddAll(s, m, "text"))
    <3>1. \A i \in Counted(s) : 1 * Decay(m, s[i].time) = 1 * Decay(m, s[i].time)
      OBVIOUS
    <3> QED BY <2>8, <3>1, AccumulatedIsRanked
  <2> QED BY <2>1, <2>4, <2>5, <2>9, <2>a, <2>b
<1> QED BY <1>1, <1>2

(* Nothing accumulated outweighs what bounds it.                           *)
LEMMA ScoreIsBounded ==
  ASSUME NEW u \in Nat, NEW w \in Nat, NEW o \in Nat, NEW p \in Nat, w <= u * o, o <= p
  PROVE  w * w <= u * u * p * o
<1>1. w * w <= (u * o) * (u * o)
  OBVIOUS
<1>2. (u * o) * (u * o) = (u * u) * (o * o) /\ (u * u) * (p * o) = u * u * p * o
  OBVIOUS
<1>3. (u * u) * (o * o) <= (u * u) * (p * o)
  <2>1. PICK q \in Nat : q = u * u
    OBVIOUS
  <2>2. PICK r \in Nat : r = o * o
    OBVIOUS
  <2>3. PICK t \in Nat : t = p * o
    OBVIOUS
  <2>4. r <= t
    BY <2>2, <2>3
  <2>5. q * r <= q * t
    BY <2>4
  <2> QED BY <2>1, <2>2, <2>3, <2>5
<1> QED BY <1>1, <1>2, <1>3

(* The bounds and the counts of all commits read.                          *)
LEMMA AccumulatedFacts ==
  ASSUME NEW s \in Seq(Changes), NEW l \in Dates, NEW by, NEW x \in Others,
         NEW part, part = AddAll(s, l, by)
  PROVE  /\ part.pairs[x].weight * part.pairs[x].weight <= Unit * Unit * part.weight * part.pairs[x].other
         /\ part.pairs[x].cochanges <= Len(s)
         /\ part.pairs[x].cochanges
              = Cardinality({i \in DOMAIN s : x \in s[i].files /\ Cardinality(s[i].files) <= MaxFiles})
<1>1. PICK M \in Nat : M = Len(s) /\ DOMAIN s = 1..M /\ M \in 0..Len(s)
  OBVIOUS
<1>2. PICK g : Accumulates(g, s, l, by) /\ part = g[M]
  BY <1>1, AddAllTable
<1>3. part \in PartType
  BY <1>1, <1>2 DEF Accumulates
<1>4. PICK pair \in PairType : pair = part.pairs[x]
  BY <1>3 DEF PartType
<1>5. pair.weight \in Nat /\ pair.other \in Nat /\ part.weight \in Nat /\ Unit \in Nat
  BY <1>3, ScoringAssumption DEF PartType, PairType
<1>6. /\ pair.weight <= Unit * pair.other /\ pair.other <= part.weight
      /\ pair.cochanges = Cardinality({i \in 1..M : x \in s[i].files /\ Cardinality(s[i].files) <= MaxFiles})
  <2>1. g[M].pairs[x].weight <= Unit * g[M].pairs[x].other
    BY <1>1, <1>2, TableBounds
  <2>2. g[M].pairs[x].other <= g[M].weight
    BY <1>1, <1>2, TableBounds
  <2>3. g[M].pairs[x].cochanges
          = Cardinality({i \in 1..M : x \in s[i].files /\ Cardinality(s[i].files) <= MaxFiles})
    BY <1>1, <1>2, TableBounds
  <2> QED BY <1>2, <1>4, <2>1, <2>2, <2>3
<1>7. pair.weight * pair.weight <= Unit * Unit * part.weight * pair.other
  <2>1. PICK w \in Nat : w = pair.weight
    BY <1>5
  <2>2. PICK o \in Nat : o = pair.other
    BY <1>5
  <2>3. PICK p \in Nat : p = part.weight
    BY <1>5
  <2>4. PICK u \in Nat : u = Unit
    BY <1>5
  <2>5. w <= u * o /\ o <= p
    BY <1>6, <2>1, <2>2, <2>3, <2>4
  <2>6. w * w <= u * u * p * o
    BY <2>5, ScoreIsBounded
  <2> QED BY <2>1, <2>2, <2>3, <2>4, <2>6
<1>8. Cardinality({i \in 1..M : x \in s[i].files /\ Cardinality(s[i].files) <= MaxFiles}) <= M
  <2>1. PICK K : K = {i \in 1..M : x \in s[i].files /\ Cardinality(s[i].files) <= MaxFiles}
    OBVIOUS
  <2>2. K \subseteq 1..M
    BY <2>1
  <2>3. IsFiniteSet(1..M) /\ Cardinality(1..M) = M
    BY FS_Interval
  <2> QED BY <2>1, <2>2, <2>3, FS_Subset
<1> QED BY <1>1, <1>4, <1>6, <1>7, <1>8

(* What follows from what the streams hold.                                *)
LEMMA StreamsAreEnough ==
  ASSUME ScoringInv
  PROVE  ScoringIsOne
<1>1. PICK s \in Seq(Changes) : s = commits
  BY DEF ScoringInv
<1>2. PICK l \in Dates : l = StreamLatest(s)
  BY StreamFacts
<1>3. git = AddAll(s, l, "text") /\ pack = AddAll(s, l, "instant")
  BY <1>1, <1>2 DEF ScoringInv
<1>4. ScoringTypeOK
  <2>1. ASSUME NEW part \in {git, pack}, NEW x \in Others
        PROVE  /\ part.pairs[x].weight * part.pairs[x].weight
                    <= Unit * Unit * part.weight * part.pairs[x].other
               /\ part.pairs[x].cochanges <= Len(s)
    BY <1>3, AccumulatedFacts
  <2> QED BY <1>1, <2>1 DEF ScoringTypeOK
<1>5. JobsDoNotShow
  <2>1. ASSUME NEW jobs \in Jobs
        PROVE  Parallel(s, jobs) = Serial(s)
    <3>1. jobs \in Nat
      BY ScoringAssumption
    <3> QED BY <3>1, JobsAgree
  <2> QED BY <1>1, <2>1 DEF JobsDoNotShow
<1>6. ASSUME HonestClocks
      PROVE  /\ git = Direct(s)
             /\ Ranked(pack) = Ranked(Direct(s))
             /\ Ranked(Serial(s)) = Ranked(pack) /\ Ranked(GraphData(s)) = Ranked(pack)
  <2>1. \A i, j \in DOMAIN s : i < j => s[i].time >= s[j].time
    BY <1>1, <1>6 DEF HonestClocks
  <2> QED BY <1>2, <1>3, <2>1, ReadersAgree
<1>7. StreamIsDirect /\ SameRanking
  BY <1>1, <1>6 DEF StreamIsDirect, SameRanking
<1>8. CountsAreCommits
  <2>1. ASSUME NEW x \in Others
        PROVE  pack.pairs[x].cochanges
                 = Cardinality({i \in DOMAIN s : x \in s[i].files /\ Cardinality(s[i].files) <= MaxFiles})
    BY <1>3, AccumulatedFacts
  <2> QED BY <1>1, <2>1 DEF CountsAreCommits
<1> QED BY <1>4, <1>5, <1>7, <1>8 DEF ScoringIsOne

(* Every stream holds what one reading of the commits so far accumulates.  *)
THEOREM ScoringInvariantHolds == ScoringSpec => []ScoringInv
<1>1. ScoringInit => ScoringInv
  <2> SUFFICES ASSUME ScoringInit PROVE ScoringInv
    OBVIOUS
  <2>1. <<>> \in Seq(Changes) /\ StreamLatest(<<>>) \in Dates /\ Counted(<<>>) = {}
    <3>1. <<>> \in Seq(Changes) /\ DOMAIN <<>> = {}
      OBVIOUS
    <3> QED BY <3>1, StreamFacts DEF Counted
  <2>2. \A by : AddAll(<<>>, StreamLatest(<<>>), by) = Nothing
    BY <2>1, NothingCounted
  <2> QED BY <2>1, <2>2 DEF ScoringInit, ScoringInv
<1>2. ScoringInv /\ [ScoringNext]_scoringVars => ScoringInv'
  <2> SUFFICES ASSUME ScoringInv, [ScoringNext]_scoringVars
               PROVE  ScoringInv'
    OBVIOUS
  <2>1. ASSUME NEW c \in Changes, Count(c)
        PROVE  ScoringInv'
    <3>1. PICK s \in Seq(Changes) : s = commits
      BY DEF ScoringInv
    <3>2. PICK longer \in Seq(Changes) : longer = Append(s, c)
      BY AppendProperties
    <3>3. commits' = longer
      BY <2>1, <3>1, <3>2 DEF Count
    <3>4. git' = AddAll(longer, StreamLatest(longer), "text")
      BY <2>1, <3>1, <3>2, StreamStep DEF Count, ScoringInv
    <3>5. pack' = AddAll(longer, StreamLatest(longer), "instant")
      BY <2>1, <3>1, <3>2, StreamStep DEF Count, ScoringInv
    <3>6. (commits \in Seq(Changes))'
      BY <3>3
    <3> QED BY <3>3, <3>4, <3>5, <3>6 DEF ScoringInv
  <2>2. CASE UNCHANGED scoringVars
    BY <2>2 DEF ScoringInv, scoringVars
  <2> QED BY <2>1, <2>2 DEF ScoringNext
<1> QED BY <1>1, <1>2, PTL DEF ScoringSpec

(* Five ways to score the same commits give one answer.                    *)
THEOREM FiveReadersOneAnswer == ScoringSpec => []ScoringIsOne
<1>1. ScoringInv => ScoringIsOne
  BY StreamsAreEnough
<1> QED BY <1>1, ScoringInvariantHolds, PTL
=============================================================================
