-------------------------- MODULE HistoryReadersProofs --------------------------
(***************************************************************************)
(* The readers of src/history that work in batches answer as if they did   *)
(* not.                                                                    *)
(*                                                                         *)
(* The expansion of commits by several processes gives what the serial     *)
(* reader gives, for every list of commits and every number of jobs        *)
(* (ParallelBatch).  A batch of followed targets gives each what a query  *)
(* for it alone would give, for all targets and repositories (Followed).   *)
(* The walk of gitoxide gives what the bounds and the history determine,   *)
(* for every history, query and size of a batch (Gix).                     *)
(***************************************************************************)
EXTENDS HistoryReaders, FiniteSetFacts, SequenceTheorems, TLAPS

(* The instances have their own names for the number of members of a set.  *)
LEMMA SameCardinality ==
  \A S : Followed!Cardinality(S) = Cardinality(S) /\ Gix!Cardinality(S) = Cardinality(S)
  BY DEF Followed!Cardinality, Gix!Cardinality, Cardinality

-----------------------------------------------------------------------------
(* Commits expanded by several processes.                                  *)

(* A chunk holds at least one commit.                                      *)
LEMMA ChunkSizePositive == ChunkSize \in Nat \ {0}
<1>1. Len(Seeds) \in Nat
  BY BatchAssumption, LenProperties DEF BatchAssumption
<1>2. CASE Serial
  BY <1>1, <1>2 DEF ChunkSize
<1>3. CASE ~Serial
  <2>1. Jobs \in Nat /\ Jobs >= 2 /\ Len(Seeds) >= 2
    BY <1>1, <1>3, BatchAssumption DEF Serial, BatchAssumption
  <2>2. Len(Seeds) + Jobs - 1 \in Nat /\ Len(Seeds) + Jobs - 1 >= Jobs
    BY <1>1, <2>1
  <2>3. (Len(Seeds) + Jobs - 1) \div Jobs \in Nat \ {0}
    BY <2>1, <2>2, Z3
  <2> QED BY <1>3, <2>3 DEF ChunkSize
<1> QED BY <1>2, <1>3

(* Where chunks begin and end: chunk k + 1 begins where chunk k ends, and  *)
(* the last one ends with the last commit.                                 *)
LEMMA ChunkBounds ==
  /\ To(0) = 0
  /\ \A k \in 0..Len(Seeds) : To(k) \in 0..Len(Seeds)
  /\ \A k \in Chunks : /\ k \in 1..Len(Seeds)
                       /\ From(k) = To(k - 1) + 1
                       /\ To(k - 1) <= To(k)
                       /\ \A j \in 1..k : j \in Chunks
  /\ \A k \in 0..Len(Seeds) : k + 1 \notin Chunks => To(k) = Len(Seeds)
<1> DEFINE n == Len(Seeds)
           c == ChunkSize
<1>1. n \in Nat
  BY BatchAssumption, LenProperties DEF BatchAssumption
<1>2. c \in Nat /\ c >= 1
  BY ChunkSizePositive
<1> HIDE DEF n, c
<1>3. \A k \in Nat : To(k) = (IF k * c <= n THEN k * c ELSE n)
  BY DEF To, Least, n, c
<1>4. \A k \in Int : From(k) = (k - 1) * c + 1
  BY DEF From, c
<1>5. \A k : k \in Chunks <=> k \in 1..n /\ (k - 1) * c + 1 <= n
  BY <1>4 DEF Chunks, n
<1>6. \A k \in Nat : k * c \in Nat /\ (k + 1) * c = k * c + c
  BY <1>2
<1>7. \A j, k \in Nat : j <= k => j * c <= k * c
  <2> SUFFICES ASSUME NEW j \in Nat, NEW k \in Nat, j <= k PROVE j * c <= k * c
    OBVIOUS
  <2>1. (k - j) * c >= 0 /\ (k - j) * c = k * c - j * c
    BY <1>2
  <2> QED BY <2>1, <1>6
<1>8. \A k \in Nat : k * c >= k
  <2> SUFFICES ASSUME NEW k \in Nat PROVE k * c >= k
    OBVIOUS
  <2>1. k * (c - 1) >= 0 /\ k * (c - 1) = k * c - k
    BY <1>2
  <2> QED BY <2>1, <1>6
<1>a. To(0) = 0
  BY <1>1, <1>2, <1>3
<1>b. \A k \in 0..n : To(k) \in 0..n
  BY <1>1, <1>3, <1>6
<1>c. \A k \in Chunks : /\ k \in 1..n
                        /\ From(k) = To(k - 1) + 1
                        /\ To(k - 1) <= To(k)
                        /\ \A j \in 1..k : j \in Chunks
  <2> SUFFICES ASSUME NEW k \in Chunks
               PROVE  /\ k \in 1..n
                      /\ From(k) = To(k - 1) + 1
                      /\ To(k - 1) <= To(k)
                      /\ \A j \in 1..k : j \in Chunks
    OBVIOUS
  <2>1. k \in 1..n /\ (k - 1) * c + 1 <= n
    BY <1>5
  <2>2. k - 1 \in Nat /\ (k - 1) * c \in Nat /\ k * c = (k - 1) * c + c
    BY <1>1, <1>2, <1>6, <2>1
  <2>3. To(k - 1) = (k - 1) * c
    BY <1>1, <1>3, <2>1, <2>2
  <2>4. From(k) = To(k - 1) + 1 /\ To(k - 1) <= To(k)
    BY <1>1, <1>2, <1>3, <1>4, <2>1, <2>2, <2>3
  <2>5. ASSUME NEW j \in 1..k PROVE j \in Chunks
    <3>1. (j - 1) * c <= (k - 1) * c
      BY <1>1, <1>7, <2>1, <2>2
    <3>2. j - 1 \in Nat /\ (j - 1) * c \in Nat /\ j \in 1..n
      BY <1>1, <1>6, <2>1
    <3> QED BY <1>1, <1>5, <2>1, <2>2, <3>1, <3>2
  <2> QED BY <2>1, <2>4, <2>5
<1>d. \A k \in 0..n : k + 1 \notin Chunks => To(k) = n
  <2> SUFFICES ASSUME NEW k \in 0..n, k + 1 \notin Chunks PROVE To(k) = n
    OBVIOUS
  <2>1. k \in Nat /\ k * c \in Nat /\ k * c >= k
    BY <1>1, <1>6, <1>8
  <2>2. k = n \/ k * c + 1 > n
    BY <1>1, <1>5, <2>1
  <2> QED BY <1>1, <1>3, <2>1, <2>2
<1> QED BY <1>a, <1>b, <1>c, <1>d DEF n

(* The chunk appended next begins where the commits so far end.            *)
LEMMA NextChunkFollows ==
  ASSUME NEW m \in 0..Len(Seeds), appended = {k \in Chunks : k <= m},
         NEW k \in Chunks, NextChunk(k)
  PROVE  /\ k = m + 1
         /\ appended \cup {k} = {j \in Chunks : j <= m + 1}
         /\ SubSeq(Seeds, 1, To(m)) \o SubSeq(Seeds, From(k), To(k))
              = SubSeq(Seeds, 1, To(m + 1))
<1>1. Len(Seeds) \in Nat /\ Seeds \in Seq(Printed)
  BY BatchAssumption, LenProperties DEF BatchAssumption
<1>2. k \in 1..Len(Seeds) /\ k > m
  BY <1>1, ChunkBounds DEF NextChunk
<1>3. m + 1 \in Chunks \ appended
  BY <1>1, <1>2, ChunkBounds
<1>4. k = m + 1
  BY <1>1, <1>2, <1>3 DEF NextChunk
<1>5. appended \cup {k} = {j \in Chunks : j <= m + 1}
  <2>1. \A j \in Chunks : j \in Int
    BY <1>1, ChunkBounds
  <2>2. m \in Int /\ k \in Chunks /\ \A j \in Chunks : j <= m + 1 <=> j <= m \/ j = k
    BY <1>1, <1>4, <2>1
  <2> QED BY <2>2
<1>6. From(k) = To(m) + 1 /\ To(m) \in 0..Len(Seeds) /\ To(k) \in To(m)..Len(Seeds)
  BY <1>1, <1>2, <1>4, ChunkBounds
<1>7. SubSeq(Seeds, 1, To(m)) \o SubSeq(Seeds, To(m) + 1, To(k)) = SubSeq(Seeds, 1, To(k))
  <2>1. 1 \in 1..Len(Seeds) + 1 /\ To(m) \in 1 - 1..Len(Seeds)
    BY <1>1, <1>6
  <2> QED BY <1>1, <1>6, <2>1, ConcatAdjacentSubSeq
<1> QED BY <1>4, <1>5, <1>6, <1>7

(* A prefix of the seeds is a sequence of what git can print.              *)
LEMMA PrefixType ==
  ASSUME NEW j \in 0..Len(Seeds)
  PROVE  SubSeq(Seeds, 1, j) \in Seq(Printed)
<1>1. Len(Seeds) \in Nat /\ Seeds \in Seq(Printed) /\ j \in Int
  BY BatchAssumption, LenProperties DEF BatchAssumption
<1>2. \A i \in 1..j : Seeds[i] \in Printed
  BY <1>1, ElementOfSeq
<1> QED BY <1>1, <1>2, SubSeqProperties

LEMMA InitInvariant == Init => IInv
<1> SUFFICES ASSUME Init PROVE IInv
  OBVIOUS
<1>1. Len(Seeds) \in Nat
  BY BatchAssumption, LenProperties DEF BatchAssumption
<1>2. TypeOK
  BY DEF Init, TypeOK, Pool!PoolInit, Pool!PoolTypeOK
<1>3. 0 \in 0..Len(Seeds) /\ appended = {k \in Chunks : k <= 0}
  BY <1>1, ChunkBounds DEF Init
<1>4. commits = SubSeq(Seeds, 1, To(0))
  BY <1>1, ChunkBounds, SubSeqEmpty DEF Init
<1>5. NoSilentGap /\ (answer = "ok" => appended = Chunks) /\ appended = {}
  BY DEF Init, NoSilentGap, Pool!PoolInit, Pool!Failed
<1> QED BY <1>2, <1>3, <1>4, <1>5 DEF IInv

LEMMA NextInvariant == IInv /\ [Next]_vars => IInv'
<1> SUFFICES ASSUME IInv, [Next]_vars PROVE IInv'
  OBVIOUS
<1> USE DEF IInv, TypeOK, Pool!PoolTypeOK
<1>1. ASSUME NEW c \in Chunks, Expand(c) PROVE IInv'
  <2>1. appended = {}
    BY <1>1 DEF Expand, Pool!PoolStep, Pool!Start, Pool!Finish, Pool!Fail, Pool!Skip,
                Pool!Settled, Pool!Waiting, Pool!Running
  <2>2. Pool!PoolTypeOK'
    BY <1>1 DEF Expand, Pool!PoolStep, Pool!Start, Pool!Finish, Pool!Fail, Pool!Skip
  <2>3. answer = "none" /\ UNCHANGED <<appended, commits, answer>>
    BY <1>1 DEF Expand
  <2>4. NoSilentGap'
    BY <2>1, <2>3 DEF NoSilentGap
  <2> QED BY <2>1, <2>2, <2>3, <2>4
<1>2. ASSUME NEW c \in Chunks, AppendChunk(c) PROVE IInv'
  <2> PICK m \in 0..Len(Seeds) : /\ appended = {k \in Chunks : k <= m}
                                 /\ commits = SubSeq(Seeds, 1, To(m))
    OBVIOUS
  <2>1. /\ answer = "none" /\ Pool!Settled /\ Pool!Failed = {} /\ NextChunk(c)
        /\ commits' = commits \o SubSeq(Seeds, From(c), To(c))
        /\ appended' = appended \cup {c}
        /\ work' = work /\ answer' = answer
    BY <1>2 DEF AppendChunk, Refused
  <2>2. /\ c = m + 1
        /\ appended' = {j \in Chunks : j <= m + 1}
        /\ commits' = SubSeq(Seeds, 1, To(m + 1))
    BY <2>1, NextChunkFollows
  <2>3. m + 1 \in 0..Len(Seeds) /\ To(m + 1) \in 0..Len(Seeds)
    BY <2>2, ChunkBounds
  <2>4. commits' \in Seq(Printed)
    BY <2>2, <2>3, PrefixType
  <2>5. NoSilentGap' /\ Pool!Settled' /\ answer' # "ok"
    BY <2>1 DEF NoSilentGap, Pool!Settled, Pool!Failed, Pool!Waiting, Pool!Running
  <2>6. TypeOK'
    BY <2>1, <2>4
  <2> QED BY <2>2, <2>3, <2>5, <2>6
<1>3. CASE Refuse
  BY <1>3 DEF Refuse, Refused, NoSilentGap, Pool!Failed, Pool!Settled, Pool!Waiting,
              Pool!Running
<1>4. CASE Return
  BY <1>4 DEF Return, Refused, NoSilentGap, Pool!Failed, Pool!Settled, Pool!Waiting,
              Pool!Running
<1>5. CASE UNCHANGED vars
  BY <1>5 DEF vars, NoSilentGap, Pool!Failed, Pool!Settled, Pool!Waiting, Pool!Running
<1> QED BY <1>1, <1>2, <1>3, <1>4, <1>5 DEF Next

(* The prefix invariant of the parallel readers: what has been put         *)
(* together is always the expansion of the first commits selected.         *)
THEOREM ParallelInvariantHolds == Init /\ [][Next]_vars => []IInv
<1> QED BY InitInvariant, NextInvariant, PTL

(* A chunk whose git process failed always reaches the caller as an error. *)
THEOREM FailureIsReported == Spec => []NoSilentGap
<1>1. IInv => NoSilentGap
  BY DEF IInv
<1> QED BY <1>1, ParallelInvariantHolds, PTL DEF Spec

(* Once all chunks are appended, the answer is the selected commits.       *)
LEMMA SerialAtTheEnd == IInv => OkIsSerial
<1> SUFFICES ASSUME IInv, answer = "ok" PROVE commits = Seeds
  BY DEF OkIsSerial
<1> PICK m \in 0..Len(Seeds) : /\ appended = {k \in Chunks : k <= m}
                               /\ commits = SubSeq(Seeds, 1, To(m))
  BY DEF IInv
<1>1. Len(Seeds) \in Nat /\ Seeds \in Seq(Printed)
  BY BatchAssumption, LenProperties DEF BatchAssumption
<1>2. m + 1 \notin Chunks
  BY <1>1, ChunkBounds DEF IInv
<1>3. To(m) = Len(Seeds)
  BY <1>2, ChunkBounds
<1> QED BY <1>1, <1>3, SubSeqFull

-----------------------------------------------------------------------------
(* Several targets followed at once.                                       *)

(* The members of a finite set of numbers, in order.                       *)
LEMMA InOrderFacts ==
  ASSUME NEW S \in SUBSET Nat, IsFiniteSet(S)
  PROVE  /\ Followed!Cardinality(S) \in Nat
         /\ Followed!InOrder(S) \in [1..Followed!Cardinality(S) -> S] /\
            Followed!InOrder(S) \in Seq(S)
         /\ DOMAIN Followed!InOrder(S) = 1..Followed!Cardinality(S) /\
            Len(Followed!InOrder(S)) = Followed!Cardinality(S)
         /\ Followed!ToSet(Followed!InOrder(S)) = S
         /\ \A i, j \in DOMAIN Followed!InOrder(S) : i < j =>
                                        Followed!InOrder(S)[i] < Followed!InOrder(S)[j]
<1>1. \E list \in [1..Followed!Cardinality(S) -> S] :
        Followed!ToSet(list) = S /\ \A i, j \in DOMAIN list : i < j => list[i] < list[j]
  BY OrderedListExists, SameCardinality DEF Lists, Followed!ToSet, Range
<1>2. /\ Followed!InOrder(S) \in [1..Followed!Cardinality(S) -> S]
      /\ Followed!ToSet(Followed!InOrder(S)) = S
      /\ \A i, j \in DOMAIN Followed!InOrder(S) : i < j =>
           Followed!InOrder(S)[i] < Followed!InOrder(S)[j]
  BY <1>1 DEF Followed!InOrder
<1>3. Followed!Cardinality(S) \in Nat
  BY FS_CardinalityType, SameCardinality
<1>4. Followed!InOrder(S) \in Seq(S) /\ Len(Followed!InOrder(S)) = Followed!Cardinality(S)
  BY <1>2, <1>3
<1> QED BY <1>2, <1>3, <1>4

(* What keeping first occurrences gives: the same members, each once.      *)
LEMMA FirstOccurrencesFacts ==
  ASSUME NEW s, Followed!IsSequence(s)
  PROVE  LET t == Followed!FirstOccurrences(s)
         IN  /\ t \in Seq(Followed!ToSet(s)) /\ Followed!ToSet(t) = Followed!ToSet(s)
             /\ \A i, j \in DOMAIN t : t[i] = t[j] => i = j
<1> DEFINE F == {i \in DOMAIN s : \A j \in 1..(i-1) : s[j] # s[i]}
           t == Followed!FirstOccurrences(s)
<1>1. s \in Seq(Followed!ToSet(s)) /\ Len(s) \in Nat /\ DOMAIN s = 1..Len(s)
  BY LenProperties DEF Followed!IsSequence
<1>2. F \in SUBSET Nat /\ IsFiniteSet(F)
  <2>1. F \subseteq 1..Len(s) /\ IsFiniteSet(1..Len(s))
    BY <1>1, FS_Interval
  <2> QED BY <1>1, <2>1, FS_Subset
<1> PICK first : first = Followed!InOrder(F)
  OBVIOUS
<1>3. /\ Followed!Cardinality(F) \in Nat
      /\ first \in [1..Followed!Cardinality(F) -> F] /\ DOMAIN first = 1..Followed!Cardinality(F)
      /\ Followed!ToSet(first) = F
      /\ \A i, j \in DOMAIN first : i < j => first[i] < first[j]
  <2> HIDE DEF F
  <2> QED BY <1>2, InOrderFacts
<1>4. t = [n \in DOMAIN first |-> s[first[n]]]
  BY DEF Followed!FirstOccurrences
<1>5. DOMAIN t = 1..Followed!Cardinality(F) /\
      \A n \in DOMAIN t : t[n] = s[first[n]] /\ first[n] \in F
  BY <1>3, <1>4
<1>6. \A i \in F : i \in DOMAIN s /\ s[i] \in Followed!ToSet(s) /\ i \in Nat
  BY <1>1 DEF Followed!ToSet
<1> HIDE DEF t
<1>7. t \in Seq(Followed!ToSet(s))
  <2>1. t \in [1..Followed!Cardinality(F) -> Followed!ToSet(s)]
    <3>1. \A n \in 1..Followed!Cardinality(F) : s[first[n]] \in Followed!ToSet(s)
      BY <1>3, <1>6
    <3> QED BY <1>3, <1>4, <3>1
  <2>2. Followed!Cardinality(F) \in Nat
    BY <1>3
  <2> HIDE DEF F
  <2> QED BY <2>1, <2>2
<1>8. ASSUME NEW i \in DOMAIN t, NEW j \in DOMAIN t, i < j
      PROVE  t[i] # t[j]
  <2>1. first[i] \in F /\ first[j] \in F /\ first[i] < first[j]
    BY <1>3, <1>5, <1>8
  <2>2. first[i] \in 1..(first[j] - 1)
    BY <1>1, <1>6, <2>1
  <2>3. s[first[i]] # s[first[j]]
    BY <2>1, <2>2
  <2> QED BY <1>5, <2>3
<1>9. \A i, j \in DOMAIN t : t[i] = t[j] => i = j
  <2>1. \A i, j \in DOMAIN t : i < j \/ j < i \/ i = j
    BY <1>3, <1>5
  <2> QED BY <1>8, <2>1
<1>10. ASSUME NEW v \in Followed!ToSet(s)
       PROVE  v \in Followed!ToSet(t)
  <2> DEFINE P == {i \in DOMAIN s : s[i] = v}
  <2>1. P \in SUBSET Nat /\ P # {}
    BY <1>1 DEF Followed!ToSet
  <2>2. PICK m \in P : \A n \in P : m <= n
    <3> HIDE DEF P
    <3> QED BY <2>1, SmallestNumber
  <2>3. m \in F
    <3> SUFFICES ASSUME NEW j \in 1..(m - 1), s[j] = s[m] PROVE FALSE
      BY <2>2
    <3>1. j \in DOMAIN s /\ j < m /\ j \in P
      BY <1>1, <2>2
    <3> QED BY <1>1, <2>2, <3>1
  <2>4. PICK n \in DOMAIN first : first[n] = m
    BY <1>3, <2>3 DEF Followed!ToSet
  <2>5. n \in DOMAIN t /\ t[n] = v
    BY <1>3, <1>5, <2>2, <2>4
  <2> QED BY <2>5 DEF Followed!ToSet
<1>11. Followed!ToSet(t) \subseteq Followed!ToSet(s)
  <2> HIDE DEF F
  <2> QED BY <1>5, <1>6 DEF Followed!ToSet
<1> HIDE DEF F
<1> QED BY <1>7, <1>9, <1>10, <1>11 DEF t

(* The commits of a followed file.                                         *)
LEMMA FollowTargetFacts ==
  ASSUME Followed!FollowedAssumption, NEW r \in Repos, NEW target
  PROVE  LET f == Followed!FollowTarget(r, target)
         IN  /\ f.hashes \in Seq(DOMAIN r) /\ Len(f.hashes) \in Nat
             /\ DOMAIN f.hashes = 1..Len(f.hashes)
             /\ \A k \in Followed!ToSet(f.hashes) :
                  /\ k \in DOMAIN r /\ k \in DOMAIN f.names
                  /\ \E name \in f.names[k] : name \in Followed!ToSet(r[k].files)
<1> DEFINE name == Followed!NameAt(r, target)
           S == {k \in DOMAIN r : name[k] \in Followed!ToSet(r[k].files)}
           f == Followed!FollowTarget(r, target)
<1>1. Len(r) \in Nat /\ DOMAIN r = 1..Len(r)
  BY LenProperties DEF Followed!FollowedAssumption, Followed!IsSequence
<1>2. S \in SUBSET Nat /\ IsFiniteSet(S) /\ S \subseteq DOMAIN r
  <2>1. S \subseteq 1..Len(r) /\ IsFiniteSet(1..Len(r))
    BY <1>1, FS_Interval
  <2> QED BY <1>1, <2>1, FS_Subset
<1>3. /\ f.hashes = Followed!InOrder(S)
      /\ f.names = [k \in DOMAIN r |-> {name[k]} \cup
         (IF r[k].to = name[k] THEN {r[k].from} ELSE {})]
  BY DEF Followed!FollowTarget
<1>4. \A k \in S : k \in DOMAIN r /\ name[k] \in Followed!ToSet(r[k].files)
  OBVIOUS
<1> HIDE DEF f, S, name
<1>5. f.hashes \in Seq(S) /\ Followed!ToSet(f.hashes) = S
  BY <1>2, <1>3, InOrderFacts
<1>6. f.hashes \in Seq(DOMAIN r) /\ Len(f.hashes) \in Nat /\ DOMAIN f.hashes = 1..Len(f.hashes)
  BY <1>2, <1>5, SeqMonotonic, LenProperties
<1>7. \A k \in DOMAIN r : k \in DOMAIN f.names /\ name[k] \in f.names[k]
  BY <1>3
<1> QED BY <1>4, <1>5, <1>6, <1>7 DEF f

(* What is known of the state.                                             *)
LEMMA FollowedTypes ==
  ASSUME Followed!FollowedAssumption, Followed!TypeOK
  PROVE  /\ Len(Targets) \in Nat /\ Followed!Positions = 1..Len(Targets)
         /\ Len(histories) \in Nat /\ DOMAIN histories = 1..Len(histories)
         /\ Len(hashes) \in Nat /\ DOMAIN hashes = 1..Len(hashes)
         /\ Len(results) \in Nat /\ Len(results) <= Len(histories)
         /\ repo \in Repos /\ asked \in Nat /\ asked <= Len(hashes)
<1>1. Len(Targets) \in Nat /\ Followed!Positions = 1..Len(Targets)
  BY LenProperties DEF Followed!FollowedAssumption, Followed!IsSequence, Followed!Positions
<1>2. histories \in Seq(Followed!Positions) /\ hashes \in Seq(DOMAIN repo)
  BY DEF Followed!TypeOK
<1>3. /\ Len(histories) \in Nat /\ DOMAIN histories = 1..Len(histories)
      /\ Len(hashes) \in Nat /\ DOMAIN hashes = 1..Len(hashes)
  BY <1>2, LenProperties
<1>4. Len(results) \in 0..Len(histories) /\ asked \in 0..Len(hashes) /\ repo \in Repos
  BY DEF Followed!TypeOK
<1> QED BY <1>1, <1>3, <1>4

(* The names of a followed file become one.                                *)
LEMMA OneNameLeft ==
  ASSUME NEW files, Followed!IsSequence(files), NEW target, NEW names,
         \E name \in names : name \in Followed!ToSet(files)
  PROVE  LET c == Followed!Canonical(files, target, names)
         IN  /\ Followed!Cardinality({f \in DOMAIN c : c[f] = target}) = 1
             /\ \A f \in names \ {target} : ~Followed!Contains(c, f)
<1> DEFINE Renamed(f) == IF f \in names THEN target ELSE f
           s == [i \in DOMAIN files |-> Renamed(files[i])]
           c == Followed!Canonical(files, target, names)
<1>1. Len(files) \in Nat /\ DOMAIN files = 1..Len(files)
  BY LenProperties DEF Followed!IsSequence
<1>2. DOMAIN s = DOMAIN files /\ \A i \in DOMAIN files : s[i] = Renamed(files[i])
  OBVIOUS
<1>3. Followed!IsSequence(s)
  <2>1. \A i \in DOMAIN s : s[i] \in Followed!ToSet(s)
    BY DEF Followed!ToSet
  <2>2. s \in [1..Len(files) -> Followed!ToSet(s)]
    BY <1>1, <2>1
  <2> HIDE DEF s
  <2> QED BY <1>1, <2>2 DEF Followed!IsSequence
<1>4. c = Followed!FirstOccurrences(s)
  BY DEF Followed!Canonical
<1>5. Followed!ToSet(s) = {Renamed(f) : f \in Followed!ToSet(files)}
  BY DEF Followed!ToSet
<1> HIDE DEF c, s
<1>6. Followed!ToSet(c) = Followed!ToSet(s) /\ \A i, j \in DOMAIN c : c[i] = c[j] => i = j
  BY <1>3, <1>4, FirstOccurrencesFacts
<1>7. target \in Followed!ToSet(c)
  BY <1>5, <1>6
<1>8. PICK n \in DOMAIN c : c[n] = target
  BY <1>7 DEF Followed!ToSet
<1>9. {f \in DOMAIN c : c[f] = target} = {n}
  BY <1>6, <1>8
<1>10. Followed!Cardinality({n}) = 1
  BY FS_Singleton, SameCardinality
<1>11. ASSUME NEW f \in names \ {target}, Followed!Contains(c, f) PROVE FALSE
  <2>1. f \in Followed!ToSet(c)
    BY <1>11 DEF Followed!Contains, Followed!ToSet
  <2>2. PICK g \in Followed!ToSet(files) : f = Renamed(g)
    BY <1>5, <1>6, <2>1
  <2> QED BY <2>2
<1> QED BY <1>9, <1>10, <1>11 DEF c

LEMMA OneNameOfEach ==
  ASSUME Followed!FollowedAssumption, Followed!BatchInv
  PROVE  Followed!OneNamePerTarget
<1> SUFFICES ASSUME NEW n \in DOMAIN results, NEW c \in Followed!ToSet(results[n].commits)
             PROVE  /\ Followed!Cardinality({f \in DOMAIN c.files : c.files[f] =
                       results[n].target}) = 1
                    /\ \A f \in Followed!FollowTarget(repo, results[n].target).names[c.hash]
                                 \ {results[n].target} : ~Followed!Contains(c.files, f)
  BY DEF Followed!OneNamePerTarget
<1> DEFINE t == Targets[n]
           f == Followed!FollowTarget(repo, t)
<1>1. results[n] = [target |-> t, commits |-> Followed!SingleTarget(t)]
  BY DEF Followed!BatchInv, Followed!ResultOf
<1>2. results[n].target = t /\ results[n].commits = Followed!SingleTarget(t)
  BY <1>1
<1>3. Followed!SingleTarget(t) = [m \in DOMAIN f.hashes |->
                          [hash  |-> f.hashes[m],
                           files |-> Followed!Canonical(repo[f.hashes[m]].files, t,
                             f.names[f.hashes[m]])]]
  BY DEF Followed!SingleTarget
<1> HIDE DEF f
<1>4. PICK m \in DOMAIN f.hashes :
        c = [hash  |-> f.hashes[m],
             files |-> Followed!Canonical(repo[f.hashes[m]].files, t, f.names[f.hashes[m]])]
  <2>1. PICK m \in DOMAIN Followed!SingleTarget(t) : c = Followed!SingleTarget(t)[m]
    BY <1>2 DEF Followed!ToSet
  <2> QED BY <1>3, <2>1
<1> DEFINE k == f.hashes[m]
<1>5. c.hash = k /\ c.files = Followed!Canonical(repo[k].files, t, f.names[k])
  BY <1>4
<1>6. repo \in Repos /\ k \in Followed!ToSet(f.hashes)
  BY DEF Followed!BatchInv, Followed!TypeOK, Followed!ToSet
<1>7. k \in DOMAIN repo /\ \E name \in f.names[k] : name \in Followed!ToSet(repo[k].files)
  BY <1>6, FollowTargetFacts DEF f
<1>8. Followed!IsSequence(repo[k].files)
  BY <1>6, <1>7 DEF Followed!FollowedAssumption
<1> HIDE DEF k
<1>9. /\ Followed!Cardinality({g \in DOMAIN c.files : c.files[g] = t}) = 1
      /\ \A g \in f.names[k] \ {t} : ~Followed!Contains(c.files, g)
  BY <1>5, <1>7, <1>8, OneNameLeft
<1> QED BY <1>2, <1>5, <1>9 DEF f

(* The promise follows from the invariant.                                 *)
LEMMA FollowedPromise ==
  ASSUME Followed!FollowedAssumption, Followed!BatchInv
  PROVE  Followed!FollowedIsEach
<1>1. Followed!BatchIsEach
  <2> SUFFICES ASSUME followAnswer = "ok" PROVE results =
                      [i \in Followed!Positions |-> Followed!ResultOf(i)]
    BY DEF Followed!BatchIsEach
  <2>1. Len(results) = Len(Targets) /\ results = [i \in 1..Len(results) |-> Followed!ResultOf(i)]
    BY DEF Followed!BatchInv
  <2> QED BY <2>1, FollowedTypes DEF Followed!BatchInv
<1> QED BY <1>1, OneNameOfEach DEF Followed!FollowedIsEach, Followed!BatchInv

LEMMA FollowedInit ==
  ASSUME Followed!FollowedAssumption, Followed!Init
  PROVE  Followed!BatchInv
<1>1. /\ repo \in Repos /\ histories = <<>> /\ hashes = <<>> /\ asked = 0 /\ results = <<>>
      /\ shown = <<>> /\ followAnswer = "none"
  BY DEF Followed!Init
<1>2. \A S : <<>> \in Seq(S) /\ Len(<<>>) = 0 /\ DOMAIN <<>> = {}
  OBVIOUS
<1>3. Followed!Pool!PoolTypeOK
  BY DEF Followed!Init, Followed!Pool!PoolInit, Followed!Pool!PoolTypeOK
<1>4. Followed!TypeOK
  BY <1>1, <1>2, <1>3 DEF Followed!TypeOK
<1>5. Followed!ReadOnce
  BY <1>1, <1>2 DEF Followed!ReadOnce, Followed!IsInjective
<1>6. /\ histories = [i \in DOMAIN histories |-> i]
      /\ shown = [k \in DOMAIN shown |-> repo[k].files]
      /\ results = [i \in 1..Len(results) |-> Followed!ResultOf(i)]
  BY <1>1, <1>2
<1> QED BY <1>1, <1>4, <1>5, <1>6 DEF Followed!BatchInv

LEMMA FollowStep ==
  ASSUME Followed!FollowedAssumption, Followed!BatchInv, NEW i \in Followed!Positions,
         Followed!Follow(i)
  PROVE  Followed!BatchInv'
<1>1. UNCHANGED <<repo, histories, hashes, shown, asked, results, followAnswer>>
  BY DEF Followed!Follow
<1>2. Followed!Pool!PoolTypeOK'
  BY DEF Followed!Follow, Followed!BatchInv, Followed!TypeOK, Followed!Pool!PoolTypeOK,
      Followed!Pool!PoolStep, Followed!Pool!Start, Followed!Pool!Finish,
         Followed!Pool!Fail, Followed!Pool!Skip
<1>3. \A j : Followed!ResultOf(j)' = Followed!ResultOf(j)
  BY <1>1 DEF Followed!ResultOf, Followed!SingleTarget
<1> QED BY <1>1, <1>2, <1>3 DEF Followed!BatchInv, Followed!TypeOK, Followed!ReadOnce,
    Followed!Gathered

LEMMA GatherStep ==
  ASSUME Followed!FollowedAssumption, Followed!BatchInv, NEW i \in Followed!Positions,
         Followed!Gather(i)
  PROVE  Followed!BatchInv'
<1> DEFINE m == Len(histories)
           new == Followed!FollowTarget(repo, Targets[i]).hashes
<1>1. /\ followAnswer = "none" /\ Followed!NextTarget(i)
      /\ histories' = Append(histories, i) /\ hashes' = Followed!AllHashes(i)
      /\ UNCHANGED <<repo, followWork, shown, asked, results, followAnswer>>
  BY DEF Followed!Gather
<1>2. /\ Followed!Positions = 1..Len(Targets) /\ Len(Targets) \in Nat
      /\ m \in Nat /\ DOMAIN histories = 1..m /\ repo \in Repos
      /\ histories \in Seq(Followed!Positions) /\ hashes \in Seq(DOMAIN repo)
      /\ Len(results) \in Nat /\ Len(results) <= m /\ asked \in Nat
  BY FollowedTypes DEF Followed!BatchInv, Followed!TypeOK
<1>3. Followed!ToSet(histories) = 1..m /\ \A j \in 1..m : histories[j] = j
  BY <1>2 DEF Followed!BatchInv, Followed!ToSet
<1>4. i = m + 1 /\ m < Len(Targets)
  <2>1. i \in Followed!Positions \ 1..m /\ \A j \in Followed!Positions \ 1..m : i <= j
    BY <1>1, <1>3 DEF Followed!NextTarget
  <2> HIDE DEF m
  <2>2. m + 1 \in Followed!Positions \ 1..m /\ i >= m + 1
    BY <1>2, <2>1
  <2> QED BY <1>2, <2>1, <2>2
<1>5. asked = 0
  BY <1>2, <1>4 DEF Followed!BatchInv, Followed!Gathered
<1>6. /\ histories' \in Seq(Followed!Positions) /\ Len(histories') = m + 1
      /\ histories' = [j \in DOMAIN histories' |-> j]
  <2>1. /\ histories' \in Seq(Followed!Positions) /\ Len(histories') = m + 1
        /\ \A j \in 1..m : histories'[j] = histories[j]
        /\ histories'[m + 1] = i
    BY <1>1, <1>2, AppendProperties
  <2>2. DOMAIN histories' = 1..m + 1 /\ histories' \in [1..m + 1 -> Followed!Positions]
    BY <2>1, LenProperties
  <2>3. \A j \in 1..m + 1 : j \in 1..m \/ j = m + 1
    BY <1>2
  <2>4. \A j \in 1..m + 1 : histories'[j] = j
    BY <1>3, <1>4, <2>1, <2>3
  <2>5. histories' = [j \in 1..m + 1 |-> j]
    BY <2>2, <2>4
  <2> QED BY <2>1, <2>2, <2>5
<1>7. /\ hashes' \in Seq(DOMAIN repo) /\ Len(hashes') \in Nat
      /\ \A j, k \in DOMAIN hashes' : hashes'[j] = hashes'[k] => j = k
  <2>1. new \in Seq(DOMAIN repo)
    BY <1>2, FollowTargetFacts
  <2>2. PICK s \in Seq(DOMAIN repo) : s = hashes \o new /\ hashes' = Followed!FirstOccurrences(s)
    <3>1. hashes \o new \in Seq(DOMAIN repo)
      BY <1>2, <2>1, ConcatProperties
    <3> QED BY <1>1, <3>1 DEF Followed!AllHashes
  <2>3. Len(s) \in Nat /\ DOMAIN s = 1..Len(s) /\ s \in [1..Len(s) -> DOMAIN repo]
    BY LenProperties
  <2>4. s \in [1..Len(s) -> Followed!ToSet(s)]
    BY <2>3 DEF Followed!ToSet
  <2>5. Followed!IsSequence(s)
    BY <2>3, <2>4 DEF Followed!IsSequence
  <2>6. hashes' \in Seq(Followed!ToSet(s)) /\
        \A j, k \in DOMAIN hashes' : hashes'[j] = hashes'[k] => j = k
    BY <2>2, <2>5, FirstOccurrencesFacts
  <2>7. Followed!ToSet(s) \subseteq DOMAIN repo
    BY <2>3 DEF Followed!ToSet
  <2> QED BY <2>6, <2>7, SeqMonotonic, LenProperties
<1>8. Followed!ReadOnce'
  BY <1>7 DEF Followed!ReadOnce, Followed!IsInjective
<1>9. \A j : Followed!ResultOf(j)' = Followed!ResultOf(j)
  BY <1>1 DEF Followed!ResultOf, Followed!SingleTarget
<1>10. Followed!TypeOK'
  <2>1. asked' \in 0..Len(hashes') /\ Len(results') \in 0..Len(histories')
    BY <1>1, <1>2, <1>5, <1>6, <1>7
  <2>2. Followed!Pool!PoolTypeOK' /\ repo' \in Repos /\ DOMAIN shown' \subseteq DOMAIN repo'
        /\ followAnswer' \in {"none", "ok", "err"}
    BY <1>1 DEF Followed!BatchInv, Followed!TypeOK, Followed!Pool!PoolTypeOK
  <2>3. histories' \in Seq(Followed!Positions) /\ hashes' \in Seq(DOMAIN repo')
    BY <1>1, <1>6, <1>7
  <2> QED BY <2>1, <2>2, <2>3 DEF Followed!TypeOK
<1> QED BY <1>1, <1>5, <1>6, <1>8, <1>9, <1>10 DEF Followed!BatchInv

LEMMA ShowStep ==
  ASSUME Followed!FollowedAssumption, Followed!BatchInv,
         NEW given \in SUBSET Followed!ToSet(Followed!Chunk), Followed!Show(given)
  PROVE  Followed!BatchInv'
<1> DEFINE n == Len(hashes)
<1>1. /\ followAnswer = "none" /\ Followed!Gathered /\ asked < n
      /\ shown' = [k \in DOMAIN shown \cup given |-> repo[k].files]
      /\ asked' = asked + Len(Followed!Chunk)
      /\ UNCHANGED <<repo, followWork, histories, hashes, results, followAnswer>>
  BY DEF Followed!Show, Followed!AskedNext
<1>2. /\ n \in Nat /\ asked \in Nat /\ HashChunk \in Nat \ {0}
      /\ hashes \in Seq(DOMAIN repo) /\ Len(results) \in Nat
  BY FollowedTypes DEF Followed!BatchInv, Followed!TypeOK, Followed!FollowedAssumption
<1> DEFINE end == IF asked + HashChunk <= n THEN asked + HashChunk ELSE n
<1>3. Followed!Min({asked + HashChunk, n}) = end
  <2>1. end \in {asked + HashChunk, n} /\ \A y \in {asked + HashChunk, n} : end <= y
    BY <1>2
  <2>2. \A x \in {asked + HashChunk, n} :
          (\A y \in {asked + HashChunk, n} : x <= y) => x = end
    BY <1>2
  <2> QED BY <2>1, <2>2 DEF Followed!Min
<1>4. end \in Int /\ asked + 1 <= end /\ end <= n
  BY <1>1, <1>2
<1>5. Followed!Chunk = SubSeq(hashes, asked + 1, end)
  BY <1>3 DEF Followed!Chunk
<1> HIDE DEF end, n
<1>6. /\ Followed!Chunk \in Seq(DOMAIN repo) /\ Len(Followed!Chunk) = end - (asked + 1) + 1
  <2>1. \A k \in asked + 1..end : hashes[k] \in DOMAIN repo
    <3> SUFFICES ASSUME NEW k \in asked + 1..end PROVE hashes[k] \in DOMAIN repo
      OBVIOUS
    <3>1. k \in 1..n
      BY <1>2, <1>4
    <3> QED BY <1>2, <3>1, ElementOfSeq DEF n
  <2>2. asked + 1 \in Int /\ end \in Int
    BY <1>2, <1>4
  <2> QED BY <1>4, <1>5, <2>1, <2>2, SubSeqProperties
<1>7. asked' \in 0..n
  BY <1>1, <1>2, <1>4, <1>6
<1>8. given \subseteq DOMAIN repo
  <2>1. DOMAIN Followed!Chunk = 1..Len(Followed!Chunk) /\
        \A k \in 1..Len(Followed!Chunk) : Followed!Chunk[k] \in DOMAIN repo
    BY <1>6, LenProperties, ElementOfSeq
  <2> QED BY <2>1 DEF Followed!ToSet
<1>9. \A j : Followed!ResultOf(j)' = Followed!ResultOf(j)
  BY <1>1 DEF Followed!ResultOf, Followed!SingleTarget
<1>10. shown' = [k \in DOMAIN shown' |-> repo'[k].files] /\ DOMAIN shown' \subseteq DOMAIN repo'
  BY <1>1, <1>8 DEF Followed!BatchInv, Followed!TypeOK
<1>11. Followed!Gathered' /\ Followed!ReadOnce'
  BY <1>1 DEF Followed!Gathered, Followed!ReadOnce, Followed!BatchInv
<1>12. Followed!TypeOK'
  BY <1>1, <1>7, <1>10 DEF Followed!BatchInv, Followed!TypeOK, Followed!Pool!PoolTypeOK, n
<1> QED BY <1>1, <1>9, <1>10, <1>11, <1>12 DEF Followed!BatchInv

LEMMA DeliverStep ==
  ASSUME Followed!FollowedAssumption, Followed!BatchInv, Followed!Deliver
  PROVE  Followed!BatchInv'
<1> DEFINE n == Len(results)
           t == Targets[n + 1]
<1>1. /\ followAnswer = "none" /\ Followed!Turn <= Len(histories) /\ ~Followed!MissingCommit
      /\ UNCHANGED <<repo, followWork, histories, hashes, shown, asked, followAnswer>>
      /\ results' = Append(results,
           [target  |-> Targets[histories[Followed!Turn]],
            commits |-> [k \in DOMAIN Followed!Wanted.hashes |->
                           [hash |-> Followed!Wanted.hashes[k],
                             files |-> Followed!Rewritten(Followed!Wanted.hashes[k])]]])
  BY DEF Followed!Deliver, Followed!Deliverable
<1>2. /\ n \in Nat /\ Len(histories) \in Nat /\ DOMAIN histories = 1..Len(histories)
  BY FollowedTypes DEF Followed!BatchInv
<1>3. Followed!Turn = n + 1 /\ histories[Followed!Turn] = n + 1
  <2>1. n + 1 \in DOMAIN histories
    BY <1>1, <1>2 DEF Followed!Turn
  <2> QED BY <2>1 DEF Followed!BatchInv, Followed!Turn
<1> DEFINE f == Followed!FollowTarget(repo, t)
<1>4. Followed!Wanted = f
  BY <1>3 DEF Followed!Wanted
<1>5. Followed!ToSet(f.hashes) \subseteq DOMAIN shown
  BY <1>1, <1>4 DEF Followed!MissingCommit
<1>6. \A k \in Followed!ToSet(f.hashes) : Followed!Rewritten(k) =
                                        Followed!Canonical(repo[k].files, t, f.names[k])
  <2>1. \A k \in DOMAIN shown : shown[k] = repo[k].files
    BY DEF Followed!BatchInv
  <2> QED BY <1>3, <1>4, <1>5, <2>1 DEF Followed!Rewritten
<1>7. \A k \in DOMAIN f.hashes : f.hashes[k] \in Followed!ToSet(f.hashes)
  BY DEF Followed!ToSet
<1>8. Followed!SingleTarget(t) = [k \in DOMAIN f.hashes |->
                          [hash  |-> f.hashes[k],
                           files |-> Followed!Canonical(repo[f.hashes[k]].files, t,
                             f.names[f.hashes[k]])]]
  BY DEF Followed!SingleTarget
<1> HIDE DEF f
<1>9. [k \in DOMAIN Followed!Wanted.hashes |->
         [hash |-> Followed!Wanted.hashes[k],
           files |-> Followed!Rewritten(Followed!Wanted.hashes[k])]] = Followed!SingleTarget(t)
  BY <1>4, <1>6, <1>7, <1>8
<1>10. results' = Append(results, Followed!ResultOf(n + 1))
  BY <1>1, <1>3, <1>9 DEF Followed!ResultOf
<1> DEFINE S == {Followed!ResultOf(i) : i \in 1..n + 1}
<1>11. results = [i \in 1..n |-> Followed!ResultOf(i)]
  BY DEF Followed!BatchInv
<1>12. results \in Seq(S) /\ Followed!ResultOf(n + 1) \in S
  <2>1. results \in [1..n -> S] /\ n + 1 \in 1..n + 1
    BY <1>2, <1>11
  <2> QED BY <1>2, <2>1
<1> HIDE DEF S
<1>13. /\ results' \in Seq(S) /\ Len(results') = n + 1
       /\ \A i \in 1..n : results'[i] = results[i]
       /\ results'[n + 1] = Followed!ResultOf(n + 1)
  BY <1>10, <1>12, AppendProperties
<1>14. results' \in [1..n + 1 -> S]
  BY <1>13, LenProperties
<1>15. \A i \in 1..n + 1 : results'[i] = Followed!ResultOf(i)
  <2>1. \A i \in 1..n + 1 : i \in 1..n \/ i = n + 1
    BY <1>2
  <2> QED BY <1>11, <1>13, <2>1
<1>16. \A i : Followed!ResultOf(i)' = Followed!ResultOf(i)
  BY <1>1 DEF Followed!ResultOf, Followed!SingleTarget
<1>17. results' = [i \in 1..Len(results') |-> Followed!ResultOf(i)']
  BY <1>13, <1>14, <1>15, <1>16
<1>18. Followed!TypeOK'
  <2>1. Len(results') \in 0..Len(histories)
    BY <1>1, <1>2, <1>3, <1>13
  <2> QED BY <1>1, <2>1 DEF Followed!BatchInv, Followed!TypeOK, Followed!Pool!PoolTypeOK
<1> QED BY <1>1, <1>17, <1>18 DEF Followed!BatchInv, Followed!ReadOnce, Followed!Gathered

LEMMA FollowedNext ==
  ASSUME Followed!FollowedAssumption, Followed!BatchInv, [Followed!Next]_Followed!vars
  PROVE  Followed!BatchInv'
<1>1. CASE Followed!Refuse
  <2>1. followAnswer' = "err" /\
        UNCHANGED <<repo, followWork, histories, hashes, shown, asked, results>>
    BY <1>1 DEF Followed!Refuse
  <2>2. \A j : Followed!ResultOf(j)' = Followed!ResultOf(j)
    BY <2>1 DEF Followed!ResultOf, Followed!SingleTarget
  <2> QED BY <2>1, <2>2 DEF Followed!BatchInv, Followed!TypeOK, Followed!Pool!PoolTypeOK,
      Followed!ReadOnce, Followed!Gathered
<1>2. CASE Followed!Return
  <2>1. followAnswer' = "ok" /\
        UNCHANGED <<repo, followWork, histories, hashes, shown, asked, results>>
    BY <1>2 DEF Followed!Return
  <2>2. \A j : Followed!ResultOf(j)' = Followed!ResultOf(j)
    BY <2>1 DEF Followed!ResultOf, Followed!SingleTarget
  <2>3. Len(results) = Len(Targets)
    <3>1. Len(histories) = Len(Targets) /\ Len(results) + 1 > Len(histories)
      BY <1>2 DEF Followed!Return, Followed!Gathered, Followed!Turn
    <3>2. Len(histories) \in Nat /\ Len(results) \in Nat /\ Len(results) <= Len(histories)
      BY FollowedTypes DEF Followed!BatchInv
    <3> QED BY <3>1, <3>2
  <2> QED BY <2>1, <2>2, <2>3 DEF Followed!BatchInv, Followed!TypeOK, Followed!Pool!PoolTypeOK,
      Followed!ReadOnce, Followed!Gathered
<1>3. CASE UNCHANGED Followed!vars
  <2> USE <1>3 DEF Followed!vars
  <2>1. \A j : Followed!ResultOf(j)' = Followed!ResultOf(j)
    BY DEF Followed!ResultOf, Followed!SingleTarget
  <2> QED BY <2>1 DEF Followed!BatchInv, Followed!TypeOK, Followed!Pool!PoolTypeOK,
      Followed!ReadOnce, Followed!Gathered
<1> QED BY <1>1, <1>2, <1>3, FollowStep, GatherStep, ShowStep, DeliverStep DEF Followed!Next

(* The invariant of a batch of followed targets, in every order in which   *)
(* the threads end and whatever git fails to print.                        *)
THEOREM FollowedInvariantHolds == Followed!Spec => []Followed!BatchInv
<1>1. Followed!Init => Followed!BatchInv
  BY ReadersAssumption, FollowedInit
<1>2. Followed!BatchInv /\ [Followed!Next]_Followed!vars => Followed!BatchInv'
  BY ReadersAssumption, FollowedNext
<1> QED BY <1>1, <1>2, PTL DEF Followed!Spec

-----------------------------------------------------------------------------
(* The walk of gitoxide.                                                   *)

(* The greater of two numbers.                                             *)
LEMMA MaxOfTwo ==
  ASSUME NEW a \in Int, NEW b \in Int
  PROVE  Gix!Max({a, b}) = IF a >= b THEN a ELSE b
<1> DEFINE m == IF a >= b THEN a ELSE b
<1>1. m \in {a, b} /\ \A y \in {a, b} : m >= y
  OBVIOUS
<1>2. \A x \in {a, b} : (\A y \in {a, b} : x >= y) => x = m
  OBVIOUS
<1> QED BY <1>1, <1>2 DEF Gix!Max

(* What the types say.                                                     *)
LEMMA GixTypes ==
  ASSUME Gix!GixAssumption, Gix!TypeOK
  PROVE  /\ Len(history) \in Nat /\ DOMAIN history = 1..Len(history)
         /\ \A k \in 1..Len(history) : history[k] \in Gix!Commit /\ history[k].time \in Nat
         /\ query.mode \in {"walk", "selected"}
         /\ query.max \in Nat /\ query.scan \in Nat /\ query.since \in Nat /\ query.jobs \in Nat
         /\ Gix!BatchSize \in Nat \ {0}
         /\ scanned \in 0..Len(history)
         /\ batch \in Seq(Nat) /\ Len(batch) \in Nat /\ DOMAIN batch = 1..Len(batch)
         /\ Len(gixCommits) \in Nat /\ DOMAIN gixCommits = 1..Len(gixCommits)
         /\ \A i \in 1..Len(gixCommits) : gixCommits[i].id \in 1..scanned
         /\ Gix!Collected \in 0..scanned
         /\ Gix!Looked \in Int /\ Gix!Looked <= Gix!Collected
<1>1. history \in Seq(Gix!Commit) /\ query \in Queries
  BY DEF Gix!GixAssumption, Gix!TypeOK
<1>2. Len(history) \in Nat /\ DOMAIN history = 1..Len(history)
      /\ \A k \in 1..Len(history) : history[k] \in Gix!Commit
  BY <1>1, LenProperties, ElementOfSeq
<1>3. \A c \in Gix!Commit : c.time \in Nat
  BY DEF Gix!Commit
<1>4. /\ query.mode \in {"walk", "selected"}
      /\ query.max \in Nat /\ query.scan \in Nat /\ query.since \in Nat /\ query.jobs \in Nat
  BY <1>1 DEF Gix!GixAssumption
<1>5. Gix!BatchSize \in Nat \ {0}
  <2> DEFINE j == IF query.jobs >= 1 THEN query.jobs ELSE 1
  <2>1. Gix!Max({query.jobs, 1}) = j /\ j \in Nat
    BY <1>4, MaxOfTwo
  <2>2. j * PerJob \in Nat /\ LeastBatch \in Nat \ {0}
    BY <2>1 DEF Gix!GixAssumption
  <2>3. Gix!Max({j * PerJob, LeastBatch}) \in Nat \ {0}
    BY <2>2, MaxOfTwo
  <2> QED BY <2>1, <2>3 DEF Gix!BatchSize
<1>6. scanned \in 0..Len(history) /\ scanned \in Nat
  BY <1>2 DEF Gix!TypeOK
<1>7. batch \in Seq(Nat) /\ Len(batch) \in Nat /\ DOMAIN batch = 1..Len(batch)
  <2>1. batch \in Seq(1..scanned)
    BY DEF Gix!TypeOK
  <2>2. 1..scanned \subseteq Nat
    BY <1>6
  <2> QED BY <2>1, <2>2, SeqMonotonic, LenProperties
<1>8. Len(gixCommits) \in Nat /\ DOMAIN gixCommits = 1..Len(gixCommits)
      /\ \A i \in 1..Len(gixCommits) : gixCommits[i].id \in 1..scanned
  <2>1. gixCommits \in Seq([id : 1..scanned, files : SUBSET {"other", Gix!Target}])
    BY DEF Gix!TypeOK
  <2>2. \A i \in 1..Len(gixCommits) : gixCommits[i] \in [id : 1..scanned,
                                      files : SUBSET {"other", Gix!Target}]
    BY <2>1, ElementOfSeq
  <2> QED BY <2>1, <2>2, LenProperties
<1>9. Gix!Collected \in 0..scanned
  BY <1>6 DEF Gix!Collected
<1>10. Gix!Looked \in Int /\ Gix!Looked <= Gix!Collected
  BY <1>6, <1>7, <1>9 DEF Gix!Looked
<1> QED BY <1>2, <1>3, <1>4, <1>5, <1>6, <1>7, <1>8, <1>9, <1>10

(* What looking at one commit of a walk finds: the commit, if it changed   *)
(* the target.                                                             *)
LEMMA FoundFacts ==
  ASSUME Gix!GixAssumption, Gix!TypeOK, NEW k \in 1..Len(history)
  PROVE  LET c == history[k]
         IN  /\ query.mode = "walk" =>
                  Gix!Found(c, k) = IF Gix!Target \in Gix!ChangedFiles(c)
                                THEN <<[id |-> k, files |-> Gix!ChangedFiles(c)]>> ELSE <<>>
             /\ query.mode = "selected" =>
                  Gix!Found(c, k) = <<[id |-> k, files |-> Gix!ChangedFiles(c) \cup {Gix!Target}]>>
             /\ Gix!ChangedFiles(c) \subseteq {"other", Gix!Target}
<1> DEFINE c == history[k]
<1>1. c \in Gix!Commit
  BY GixTypes
<1>2. c.others \subseteq {"other"} /\ c.new \in {"absent", "a", "b", "tree"}
  BY <1>1 DEF Gix!Commit
<1> HIDE DEF c
<1>3. Gix!Target \in Gix!ChangedFiles(c) => Gix!TargetChanged(c)
  BY <1>2 DEF Gix!ChangedFiles, Gix!TargetChanged, Gix!Target
<1>4. Gix!ChangedFiles(c) \subseteq {"other", Gix!Target}
  BY <1>2 DEF Gix!ChangedFiles
<1>5. CASE query.mode = "walk"
  BY <1>3, <1>4, <1>5 DEF Gix!Found, Gix!Trusted, c
<1>6. CASE query.mode = "selected"
  BY <1>4, <1>6 DEF Gix!Found, Gix!Trusted, c
<1> QED BY <1>4, <1>5, <1>6, GixTypes DEF c

(* Hits among the first n commits, and those with one commit more.         *)
LEMMA HitsFacts ==
  ASSUME Gix!GixAssumption, Gix!TypeOK, NEW n \in Nat
  PROVE  /\ Gix!Hits(n) \subseteq 1..n /\ Gix!Hits(n) \subseteq Gix!Window
         /\ IsFiniteSet(Gix!Hits(n)) /\ Gix!Cardinality(Gix!Hits(n)) \in Nat
         /\ \A m \in Nat : m <= n => Gix!Cardinality(Gix!Hits(m)) <= Gix!Cardinality(Gix!Hits(n))
         /\ LET more == n + 1 \in Gix!Window /\ Gix!Target \in Gix!ChangedFiles(history[n + 1])
            IN  /\ Gix!Hits(n + 1) = Gix!Hits(n) \cup (IF more THEN {n + 1} ELSE {})
                /\ Gix!Cardinality(Gix!Hits(n + 1)) =
                     Gix!Cardinality(Gix!Hits(n)) + (IF more THEN 1 ELSE 0)
<1>1. \A m, k : k \in Gix!Hits(m) <=> k \in Gix!Window /\ k <= m /\
                Gix!Target \in Gix!ChangedFiles(history[k])
  BY DEF Gix!Hits
<1>a. \A k \in Gix!Window : k \in Nat /\ k >= 1
  BY GixTypes DEF Gix!Window
<1>2. \A m \in Nat : Gix!Hits(m) \subseteq 1..m /\ Gix!Hits(m) \subseteq Gix!Window
  <2> SUFFICES ASSUME NEW m \in Nat, NEW k \in Gix!Hits(m) PROVE k \in 1..m /\ k \in Gix!Window
    OBVIOUS
  <2>1. k \in Gix!Window /\ k <= m
    BY <1>1
  <2> QED BY <1>a, <2>1
<1>3. \A m \in Nat : IsFiniteSet(Gix!Hits(m)) /\ Cardinality(Gix!Hits(m)) \in Nat
  <2>1. \A m \in Nat : IsFiniteSet(1..m)
    BY FS_Interval
  <2>2. \A m \in Nat : IsFiniteSet(Gix!Hits(m))
    BY <1>2, <2>1, FS_Subset
  <2> QED BY <2>2, FS_CardinalityType
<1>4. ASSUME NEW m \in Nat, m <= n
      PROVE  Cardinality(Gix!Hits(m)) <= Cardinality(Gix!Hits(n))
  <2>1. Gix!Hits(m) \subseteq Gix!Hits(n)
    BY <1>1, <1>a, <1>4
  <2> QED BY <1>3, <2>1, FS_Subset
<1> DEFINE more == n + 1 \in Gix!Window /\ Gix!Target \in Gix!ChangedFiles(history[n + 1])
<1>5. Gix!Hits(n + 1) = Gix!Hits(n) \cup (IF more THEN {n + 1} ELSE {})
  <2>1. n + 1 \in Nat /\ \A k \in Nat : k <= n + 1 <=> k <= n \/ k = n + 1
    OBVIOUS
  <2> QED BY <1>1, <1>a, <2>1
<1>6. Cardinality(Gix!Hits(n + 1)) = Cardinality(Gix!Hits(n)) + (IF more THEN 1 ELSE 0)
  <2>1. n + 1 \notin Gix!Hits(n)
    BY <1>2
  <2>2. CASE more
    BY <1>3, <1>5, <2>1, <2>2, FS_AddElement
  <2>3. CASE ~more
    <3>1. Gix!Hits(n + 1) = Gix!Hits(n)
      BY <1>5, <2>3
    <3> QED BY <1>3, <2>3, <3>1
  <2> QED BY <2>2, <2>3
<1> QED BY SameCardinality, <1>2, <1>3, <1>4, <1>5, <1>6

(* A commit is added to the answer.                                        *)
LEMMA OneMoreCommit ==
  ASSUME Gix!GixAssumption, Gix!TypeOK, Gix!InOrder, NEW e, e.id \in Nat,
         \A id \in Gix!Ids : id < e.id,
         gixCommits' = Append(gixCommits, e)
  PROVE  /\ Gix!InOrder' /\ Gix!Ids' = Gix!Ids \cup {e.id}
         /\ Len(gixCommits') = Len(gixCommits) + 1 /\ DOMAIN gixCommits' = 1..Len(gixCommits) + 1
         /\ \A i \in 1..Len(gixCommits) : gixCommits'[i] = gixCommits[i]
         /\ gixCommits'[Len(gixCommits) + 1] = e
<1> DEFINE n == Len(gixCommits)
<1>1. n \in Nat /\ DOMAIN gixCommits = 1..n
  BY GixTypes
<1>2. gixCommits \in Seq([id : 1..scanned, files : SUBSET {"other", Gix!Target}])
  BY DEF Gix!TypeOK
<1>3. gixCommits \in Seq([id : 1..scanned, files : SUBSET {"other", Gix!Target}] \cup {e})
  BY <1>2, SeqMonotonic
<1>4. /\ Len(gixCommits') = n + 1 /\ DOMAIN gixCommits' = 1..n + 1
      /\ \A i \in 1..n : gixCommits'[i] = gixCommits[i]
      /\ gixCommits'[n + 1] = e
  BY <1>1, <1>3, AppendProperties, LenProperties
<1> HIDE DEF n
<1>5. Gix!Ids' = Gix!Ids \cup {e.id}
  <2>1. \A i \in DOMAIN gixCommits' : i = n + 1 \/ i \in 1..n
    BY <1>1, <1>4
  <2>2. n + 1 \in DOMAIN gixCommits' /\ 1..n \subseteq DOMAIN gixCommits'
    BY <1>1, <1>4
  <2> QED BY <1>1, <1>4, <2>1, <2>2 DEF Gix!Ids
<1>6. Gix!InOrder'
  <2> SUFFICES ASSUME NEW i \in 1..n + 1, NEW j \in 1..n + 1, i < j
               PROVE  gixCommits'[i].id < gixCommits'[j].id
    BY <1>4 DEF Gix!InOrder
  <2>1. i \in 1..n /\ gixCommits'[i] = gixCommits[i] /\ gixCommits[i].id \in Gix!Ids
    BY <1>1, <1>4 DEF Gix!Ids
  <2>2. CASE j \in 1..n
    BY <1>1, <1>4, <2>1, <2>2 DEF Gix!InOrder
  <2>3. CASE j = n + 1
    BY <1>4, <2>1, <2>3
  <2> QED BY <1>1, <2>2, <2>3
<1> QED BY <1>4, <1>5, <1>6 DEF n

(* The first commit of the batch is taken out.                             *)
LEMMA BatchTaken ==
  ASSUME Gix!GixAssumption, Gix!TypeOK, Gix!BatchInv, batch # <<>>, batch' = Tail(batch),
         UNCHANGED <<history, query, scanned>>
  PROVE  /\ Gix!BatchInv' /\ Gix!Collected' = Gix!Collected /\ Gix!Looked' = Gix!Looked + 1
         /\ Gix!Looked \in Nat /\ batch[1] = Gix!Looked + 1 /\ Gix!Looked + 1 \in 1..Gix!Collected
         /\ Gix!Looked + 1 \in 1..scanned /\ Gix!Looked + 1 \in 1..Len(history)
         /\ batch' \in Seq(1..scanned)
<1> DEFINE n == Len(batch)
<1>1. batch \in Seq(1..scanned) /\ batch \in Seq(Nat) /\ n \in Nat /\ DOMAIN batch = 1..n
  BY GixTypes DEF Gix!TypeOK
<1>2. n >= 1
  BY <1>1, EmptySeq
<1>3. /\ batch' \in Seq(1..scanned) /\ Len(batch') = n - 1 /\ DOMAIN batch' = 1..n - 1
      /\ \A i \in 1..n - 1 : batch'[i] = batch[i + 1]
  <2>1. /\ Tail(batch) \in Seq(1..scanned) /\ Len(Tail(batch)) = n - 1
        /\ \A i \in 1..Len(Tail(batch)) : Tail(batch)[i] = batch[i + 1]
    BY <1>1, HeadTailProperties
  <2> QED BY <2>1, LenProperties
<1>4. Gix!Collected' = Gix!Collected /\ Gix!Collected \in 0..scanned
  BY GixTypes DEF Gix!Collected
<1> HIDE DEF n
<1>5. Gix!Looked = Gix!Collected - n /\ Gix!Looked \in Nat /\ Gix!Looked' = Gix!Looked + 1
  <2>1. Gix!Looked = Gix!Collected - n /\ Gix!Looked >= 0 /\ Gix!Looked' = Gix!Collected - (n - 1)
    BY <1>3, <1>4 DEF Gix!Looked, Gix!BatchInv, n
  <2>2. Gix!Collected \in Int /\ n \in Int
    BY <1>1, <1>4, GixTypes
  <2> QED BY <2>1, <2>2
<1>6. \A i \in 1..n : batch[i] = Gix!Looked + i
  BY <1>1 DEF Gix!BatchInv
<1>7. batch' = [i \in DOMAIN batch' |-> Gix!Looked' + i]
  <2>1. \A i \in 1..n - 1 : batch'[i] = Gix!Looked' + i
    <3> SUFFICES ASSUME NEW i \in 1..n - 1 PROVE batch'[i] = Gix!Looked' + i
      OBVIOUS
    <3>1. batch'[i] = batch[i + 1] /\ i + 1 \in 1..n
      BY <1>1, <1>3
    <3>2. batch[i + 1] = Gix!Looked + (i + 1)
      BY <1>6, <3>1
    <3> QED BY <1>1, <1>5, <3>1, <3>2
  <2>2. batch' = [i \in DOMAIN batch' |-> batch'[i]]
    <3>1. batch' \in [DOMAIN batch' -> 1..scanned]
      BY <1>3, LenProperties
    <3> QED BY <3>1
  <2> QED BY <1>3, <2>1, <2>2
<1>8. Gix!BatchInv'
  BY <1>5, <1>7 DEF Gix!BatchInv
<1>9. batch[1] = Gix!Looked + 1 /\ Gix!Looked + 1 \in 1..Gix!Collected
  BY <1>1, <1>2, <1>4, <1>5, <1>6, GixTypes
<1>10. Gix!Looked + 1 \in 1..scanned /\ Gix!Looked + 1 \in 1..Len(history)
  BY <1>4, <1>5, <1>9, GixTypes
<1> QED BY <1>3, <1>4, <1>5, <1>8, <1>9, <1>10

(* What the bounds and the history decide changes with neither.            *)
LEMMA SameReference ==
  ASSUME UNCHANGED <<history, query>>
  PROVE  /\ Gix!Window' = Gix!Window /\ Gix!BatchSize' = Gix!BatchSize
         /\ \A n : Gix!Hits(n)' = Gix!Hits(n)
         /\ scanned' = scanned => Gix!NoNeedlessScan' = Gix!NoNeedlessScan
  BY DEF Gix!Window, Gix!BatchSize, Gix!Hits, Gix!NoNeedlessScan

(* The first commits are kept where more than asked for were found.        *)
LEMMA TruncationFacts ==
  ASSUME Gix!GixAssumption, Gix!TypeOK, Gix!InOrder, gixCommits' = Gix!Truncated
  PROVE  LET n == IF query.max > 0 /\ Len(gixCommits) > query.max
         THEN query.max ELSE Len(gixCommits)
         IN  /\ gixCommits' \in Seq([id : 1..scanned, files : SUBSET {"other", Gix!Target}])
             /\ Len(gixCommits') = n /\ DOMAIN gixCommits' = 1..n
             /\ \A i \in 1..n : i \in DOMAIN gixCommits /\ gixCommits'[i] = gixCommits[i]
             /\ Gix!InOrder' /\ Gix!Ids' \subseteq Gix!Ids
             /\ \A k \in Gix!Ids \ Gix!Ids' : \A id \in Gix!Ids' : id < k
<1> DEFINE S == [id : 1..scanned, files : SUBSET {"other", Gix!Target}]
           n == IF query.max > 0 /\ Len(gixCommits) > query.max THEN query.max ELSE Len(gixCommits)
<1>1. /\ gixCommits \in Seq(S) /\ Len(gixCommits) \in Nat /\ DOMAIN gixCommits = 1..Len(gixCommits)
      /\ query.max \in Nat
  BY GixTypes DEF Gix!TypeOK
<1>2. n \in 0..Len(gixCommits)
  BY <1>1
<1>3. \A i \in 1..Len(gixCommits) : gixCommits[i] \in S
  BY <1>1, ElementOfSeq
<1>4. /\ gixCommits' \in Seq(S) /\ Len(gixCommits') = n
      /\ \A i \in 1..n : gixCommits'[i] = gixCommits[i]
  <2>1. CASE n = Len(gixCommits) /\ gixCommits' = gixCommits
    BY <1>1, <2>1
  <2>2. CASE query.max > 0 /\ Len(gixCommits) > query.max
    <3>1. n = query.max /\ n \in Nat /\ n >= 1
      BY <1>1, <2>2
    <3>2. gixCommits' = SubSeq(gixCommits, 1, n)
      BY <2>2, <3>1 DEF Gix!Truncated
    <3> HIDE DEF n, S
    <3>3. \A i \in 1..n : gixCommits[i] \in S
      BY <1>1, <1>2, <1>3
    <3>4. /\ SubSeq(gixCommits, 1, n) \in Seq(S)
          /\ Len(SubSeq(gixCommits, 1, n)) = IF 1 <= n THEN n - 1 + 1 ELSE 0
          /\ \A i \in 1..n - 1 + 1 : SubSeq(gixCommits, 1, n)[i] = gixCommits[1 + i - 1]
      BY <3>1, <3>3, SubSeqProperties
    <3>5. n - 1 + 1 = n /\ 1 <= n /\ \A i \in 1..n : 1 + i - 1 = i
      BY <3>1
    <3> QED BY <3>2, <3>4, <3>5
  <2> QED BY <2>1, <2>2 DEF Gix!Truncated
<1> HIDE DEF n, S
<1>5. DOMAIN gixCommits' = 1..n
  BY <1>4, LenProperties
<1>6. \A i \in 1..n : i \in DOMAIN gixCommits
  BY <1>1, <1>2
<1>7. Gix!InOrder'
  BY <1>4, <1>5, <1>6 DEF Gix!InOrder
<1>8. Gix!Ids' \subseteq Gix!Ids
  BY <1>4, <1>5, <1>6 DEF Gix!Ids
<1>9. ASSUME NEW k \in Gix!Ids \ Gix!Ids', NEW id \in Gix!Ids' PROVE id < k
  <2>1. PICK i \in 1..n : id = gixCommits'[i].id
    BY <1>5 DEF Gix!Ids
  <2>2. PICK j \in DOMAIN gixCommits : k = gixCommits[j].id
    BY DEF Gix!Ids
  <2>3. j \notin 1..n
    BY <1>4, <1>5, <2>2 DEF Gix!Ids
  <2>4. i < j
    BY <1>1, <1>2, <2>3
  <2> QED BY <1>4, <1>6, <2>1, <2>2, <2>4 DEF Gix!InOrder
<1> QED BY <1>4, <1>5, <1>6, <1>7, <1>8, <1>9 DEF n, S

(* A walk that ends answers with the newest hits, as many as asked for: it *)
(* ends when enough were found or nothing is left to look at.              *)
LEMMA WalkAnswers ==
  ASSUME Gix!GixAssumption, Gix!ReaderInv, query.mode = "walk", pc # "ok",
         Gix!Enough \/ Gix!Window \subseteq 1..Gix!Looked,
         gixCommits' = Gix!Truncated, UNCHANGED <<history, query>>
  PROVE  Gix!OkIsReference'
<1> DEFINE n == IF query.max > 0 /\ Len(gixCommits) > query.max THEN query.max ELSE Len(gixCommits)
           last == Len(history)
<1>1. /\ Len(gixCommits) \in Nat /\ DOMAIN gixCommits = 1..Len(gixCommits) /\ query.max \in Nat
      /\ Gix!Looked \in Nat /\ Gix!Looked <= last /\ last \in Nat
  BY GixTypes DEF Gix!ReaderInv, Gix!BatchInv
<1>2. /\ Len(gixCommits') = n /\ DOMAIN gixCommits' = 1..n
      /\ \A i \in 1..n : i \in DOMAIN gixCommits /\ gixCommits'[i] = gixCommits[i]
      /\ Gix!InOrder' /\ Gix!Ids' \subseteq Gix!Ids
      /\ \A k \in Gix!Ids \ Gix!Ids' : \A id \in Gix!Ids' : id < k
  BY TruncationFacts DEF Gix!ReaderInv, Gix!FoundInv
<1>3. /\ Gix!Ids = Gix!Hits(Gix!Looked)
      /\ \A i \in DOMAIN gixCommits : gixCommits[i].files =
                                      Gix!ChangedFiles(history[gixCommits[i].id])
  BY DEF Gix!ReaderInv, Gix!FoundInv
<1>4. Gix!Hits(last)' = Gix!Hits(last)
  BY SameReference
<1>5. /\ \A k \in Gix!Hits(last) : k \in Gix!Window /\ k \in Nat /\
                                   (k <= Gix!Looked <=> k \in Gix!Hits(Gix!Looked))
      /\ Gix!Hits(Gix!Looked) \subseteq Gix!Hits(last) /\
         Gix!Hits(Gix!Looked) \subseteq 1..Gix!Looked
  <2>1. Gix!Hits(last) \subseteq 1..last /\ Gix!Hits(last) \subseteq Gix!Window /\
        Gix!Hits(Gix!Looked) \subseteq 1..Gix!Looked
    BY <1>1, HitsFacts DEF Gix!ReaderInv
  <2>2. \A m, k : k \in Gix!Hits(m) <=> k \in Gix!Window /\ k <= m /\
                  Gix!Target \in Gix!ChangedFiles(history[k])
    BY DEF Gix!Hits
  <2>3. \A k \in 1..Gix!Looked : k <= last
    BY <1>1
  <2>4. \A k \in 1..last : k \in Nat
    BY <1>1
  <2> HIDE DEF last
  <2> QED BY <2>1, <2>2, <2>3, <2>4
<1> HIDE DEF n
<1>6. \A i \in DOMAIN gixCommits' :
        /\ gixCommits'[i].id \in Gix!Hits(last)
        /\ gixCommits'[i].files = Gix!ChangedFiles(history[gixCommits'[i].id])
  BY <1>2, <1>3, <1>5 DEF Gix!Ids
<1>7. query.max > 0 => n <= query.max
  BY <1>1 DEF n
<1>8. ASSUME NEW k \in Gix!Hits(last) \ Gix!Ids'
      PROVE  query.max > 0 /\ n = query.max /\ \A id \in Gix!Ids' : id < k
  <2>1. CASE k \in Gix!Ids
    <3>1. \A id \in Gix!Ids' : id < k
      BY <1>2, <2>1
    <3>2. n # Len(gixCommits)
      BY <1>1, <1>2, <2>1 DEF Gix!Ids
    <3>3. query.max > 0 /\ n = query.max
      BY <3>2 DEF n
    <3> QED BY <3>1, <3>3
  <2>2. CASE k \notin Gix!Ids
    <3>1. ~(k <= Gix!Looked) /\ k \in Gix!Window /\ k \in Nat
      BY <1>3, <1>5, <2>2
    <3>2. Gix!Enough
      BY <1>1, <3>1
    <3>3. query.max > 0 /\ n = query.max
      BY <1>1, <3>2 DEF n, Gix!Enough
    <3>4. \A id \in Gix!Ids' : id \in 1..Gix!Looked
      BY <1>2, <1>3, <1>5
    <3>5. \A id \in 1..Gix!Looked : id < k
      BY <1>1, <3>1
    <3> QED BY <3>3, <3>4, <3>5
  <2> QED BY <2>1, <2>2
<1> QED BY <1>2, <1>4, <1>6, <1>7, <1>8 DEF Gix!OkIsReference

(* Giving up changes nothing that was found.                               *)
LEMMA ErrorKeeps ==
  ASSUME Gix!GixAssumption, Gix!ReaderInv, pc # "ok", pc' = "err",
         UNCHANGED <<history, query, scanned, batch, gixCommits>>
  PROVE  Gix!ReaderInv'
<1>1. Gix!Collected' = Gix!Collected /\ Gix!Looked' = Gix!Looked /\ Gix!Ids' = Gix!Ids /\
      (Gix!InOrder' <=> Gix!InOrder)
  BY DEF Gix!Collected, Gix!Looked, Gix!Ids, Gix!InOrder
<1>2. Gix!TypeOK' /\ Gix!BatchInv'
  BY <1>1 DEF Gix!ReaderInv, Gix!TypeOK, Gix!BatchInv
<1>3. Gix!WalkInv'
  BY <1>1, SameReference DEF Gix!ReaderInv, Gix!WalkInv
<1>4. Gix!FoundInv'
  BY <1>1, SameReference DEF Gix!ReaderInv, Gix!FoundInv, Gix!ChangedFiles, Gix!OldEntry,
      Gix!Unreadable
<1>5. Gix!OkIsReference' /\ Gix!NoNeedlessScan'
  BY SameReference DEF Gix!ReaderInv, Gix!OkIsReference
<1> QED BY <1>2, <1>3, <1>4, <1>5 DEF Gix!ReaderInv

(* One commit of the batch is looked at: what git or gitoxide tells of it  *)
(* is added to the answer, or nothing.                                     *)
LEMMA LookKeeps ==
  ASSUME Gix!GixAssumption, Gix!ReaderInv, pc \in {"flushing", "last"}, batch # <<>>,
         NEW files, files \subseteq {"other", Gix!Target},
         \/ gixCommits' = Append(gixCommits, [id |-> batch[1], files |-> files])
         \/ UNCHANGED gixCommits,
         LET c == history[batch[1]]
         IN  /\ query.mode = "walk" =>
                  /\ UNCHANGED gixCommits <=> Gix!Target \notin Gix!ChangedFiles(c)
                  /\ files = Gix!ChangedFiles(c)
             /\ query.mode = "selected" =>
                  /\ UNCHANGED gixCommits => Gix!Unreadable(c)
                  /\ Gix!Target \in files,
         batch' = Tail(batch), UNCHANGED <<history, query, pc, scanned>>
  PROVE  Gix!ReaderInv'
<1> DEFINE k == Gix!Looked + 1
           e == [id |-> k, files |-> files]
<1>1. /\ Gix!BatchInv' /\ Gix!Collected' = Gix!Collected /\ Gix!Looked' = k
      /\ Gix!Looked \in Nat /\ batch[1] = k /\ k \in 1..Gix!Collected
      /\ k \in 1..scanned /\ k \in 1..Len(history)
      /\ batch' \in Seq(1..scanned)
  BY BatchTaken DEF Gix!ReaderInv
<1>2. Gix!Ids \subseteq 1..Gix!Looked /\ Gix!InOrder
  BY DEF Gix!ReaderInv, Gix!FoundInv
<1>3. CASE gixCommits' = Append(gixCommits, e)
  <2> DEFINE n == Len(gixCommits)
  <2>1. \A id \in Gix!Ids : id < k
    BY <1>1, <1>2
  <2>2. /\ Gix!InOrder' /\ Gix!Ids' = Gix!Ids \cup {k}
        /\ Len(gixCommits') = n + 1 /\ DOMAIN gixCommits' = 1..n + 1
        /\ \A i \in 1..n : gixCommits'[i] = gixCommits[i]
        /\ gixCommits'[n + 1] = e
    BY <1>1, <1>2, <1>3, <2>1, OneMoreCommit DEF Gix!ReaderInv
  <2>3. n \in Nat /\ DOMAIN gixCommits = 1..n
    BY GixTypes DEF Gix!ReaderInv
  <2>4. gixCommits' # gixCommits
    BY <2>2, <2>3
  <2>5. gixCommits' \in Seq([id : 1..scanned, files : SUBSET {"other", Gix!Target}])
    <3>1. e \in [id : 1..scanned, files : SUBSET {"other", Gix!Target}]
      BY <1>1
    <3> QED BY <1>3, <3>1, AppendProperties DEF Gix!ReaderInv, Gix!TypeOK
  <2>6. Gix!TypeOK'
    BY <1>1, <2>5 DEF Gix!ReaderInv, Gix!TypeOK
  <2>7. Gix!Ids' \subseteq 1..k
    BY <1>1, <1>2, <2>2
  <2>8. ASSUME query.mode = "walk"
        PROVE  /\ Gix!Ids' = Gix!Hits(k) /\ Len(gixCommits') = Gix!Cardinality(Gix!Hits(k))
               /\ \A i \in DOMAIN gixCommits' : gixCommits'[i].files =
                                        Gix!ChangedFiles(history[gixCommits'[i].id])
    <3>1. Gix!Target \in Gix!ChangedFiles(history[k]) /\ files = Gix!ChangedFiles(history[k])
      BY <1>1, <2>4, <2>8
    <3>2. k \in Gix!Window
      BY <1>1, <2>8 DEF Gix!ReaderInv, Gix!WalkInv
    <3>3. Gix!Hits(k) = Gix!Hits(Gix!Looked) \cup {k} /\
          Gix!Cardinality(Gix!Hits(k)) = Gix!Cardinality(Gix!Hits(Gix!Looked)) + 1
      BY <1>1, <3>1, <3>2, HitsFacts DEF Gix!ReaderInv
    <3>4. /\ Gix!Ids = Gix!Hits(Gix!Looked) /\ n = Gix!Cardinality(Gix!Hits(Gix!Looked))
          /\ \A i \in DOMAIN gixCommits : gixCommits[i].files =
                                        Gix!ChangedFiles(history[gixCommits[i].id])
      BY <2>8 DEF Gix!ReaderInv, Gix!FoundInv
    <3>5. \A i \in DOMAIN gixCommits' : i \in 1..n \/ i = n + 1
      BY <2>2, <2>3
    <3> HIDE DEF n, k
    <3> QED BY <2>2, <2>3, <3>1, <3>3, <3>4, <3>5
  <2>9. ASSUME query.mode = "selected"
        PROVE  /\ \A i \in DOMAIN gixCommits' : Gix!Target \in gixCommits'[i].files
               /\ \A j \in 1..k \ Gix!Ids' : Gix!Unreadable(history[j])
    <3>1. /\ \A i \in DOMAIN gixCommits : Gix!Target \in gixCommits[i].files
          /\ \A j \in 1..Gix!Looked \ Gix!Ids : Gix!Unreadable(history[j])
      BY <2>9 DEF Gix!ReaderInv, Gix!FoundInv
    <3>2. Gix!Target \in e.files
      BY <1>1, <2>9
    <3>3. \A i \in DOMAIN gixCommits' : i \in 1..n \/ i = n + 1
      BY <2>2, <2>3
    <3>4. \A j \in 1..k : j \in 1..Gix!Looked \/ j = k
      BY <1>1
    <3> HIDE DEF n, k, e
    <3> QED BY <2>2, <2>3, <3>1, <3>2, <3>3, <3>4
  <2>10. Gix!FoundInv'
    BY <1>1, <2>2, <2>7, <2>8, <2>9, SameReference
       DEF Gix!ReaderInv, Gix!FoundInv, Gix!ChangedFiles, Gix!OldEntry, Gix!Unreadable
  <2>11. Gix!WalkInv'
    BY <1>1, SameReference DEF Gix!ReaderInv, Gix!WalkInv
  <2>12. Gix!OkIsReference' /\ Gix!NoNeedlessScan'
    BY SameReference DEF Gix!ReaderInv, Gix!OkIsReference
  <2> QED BY <1>1, <2>6, <2>10, <2>11, <2>12 DEF Gix!ReaderInv
<1>4. CASE UNCHANGED gixCommits
  <2>1. Gix!TypeOK'
    BY <1>1, <1>4 DEF Gix!ReaderInv, Gix!TypeOK
  <2>2. Gix!Ids' = Gix!Ids /\ (Gix!InOrder' <=> Gix!InOrder) /\ Gix!Ids \subseteq 1..k
    BY <1>1, <1>2, <1>4 DEF Gix!Ids, Gix!InOrder
  <2>3. ASSUME query.mode = "walk"
        PROVE  Gix!Ids = Gix!Hits(k) /\ Len(gixCommits) = Gix!Cardinality(Gix!Hits(k))
    <3>1. Gix!Target \notin Gix!ChangedFiles(history[k])
      BY <1>1, <1>4, <2>3
    <3>2. Gix!Hits(k) = Gix!Hits(Gix!Looked) \cup {} /\
          Gix!Cardinality(Gix!Hits(k)) = Gix!Cardinality(Gix!Hits(Gix!Looked)) + 0
          /\ Gix!Cardinality(Gix!Hits(Gix!Looked)) \in Nat
      BY <1>1, <3>1, HitsFacts DEF Gix!ReaderInv
    <3>3. Gix!Ids = Gix!Hits(Gix!Looked) /\ Len(gixCommits) = Gix!Cardinality(Gix!Hits(Gix!Looked))
      BY <2>3 DEF Gix!ReaderInv, Gix!FoundInv
    <3> QED BY <3>2, <3>3
  <2>4. ASSUME query.mode = "selected"
        PROVE  \A j \in 1..k \ Gix!Ids : Gix!Unreadable(history[j])
    <3>1. \A j \in 1..Gix!Looked \ Gix!Ids : Gix!Unreadable(history[j])
      BY <2>4 DEF Gix!ReaderInv, Gix!FoundInv
    <3>2. Gix!Unreadable(history[k])
      BY <1>1, <1>4, <2>4
    <3>3. \A j \in 1..k : j \in 1..Gix!Looked \/ j = k
      BY <1>1
    <3> HIDE DEF k
    <3> QED BY <3>1, <3>2, <3>3
  <2>5. Gix!FoundInv'
    BY <1>1, <1>4, <2>2, <2>3, <2>4, SameReference
       DEF Gix!ReaderInv, Gix!FoundInv, Gix!ChangedFiles, Gix!OldEntry, Gix!Unreadable
  <2>6. Gix!WalkInv'
    BY <1>1, SameReference DEF Gix!ReaderInv, Gix!WalkInv
  <2>7. Gix!OkIsReference' /\ Gix!NoNeedlessScan'
    BY SameReference DEF Gix!ReaderInv, Gix!OkIsReference
  <2> QED BY <1>1, <2>1, <2>5, <2>6, <2>7 DEF Gix!ReaderInv
<1> QED BY <1>1, <1>3, <1>4

(* The answers of LookKeeps are those of gitoxide and of git.              *)
LEMMA LookStep ==
  ASSUME Gix!GixAssumption, Gix!ReaderInv, Gix!Look
  PROVE  Gix!ReaderInv'
<1> DEFINE k == batch[1]
           c == history[k]
<1>1. /\ pc \in {"flushing", "last"} /\ batch # <<>>
      /\ gixCommits' = gixCommits \o Gix!Found(c, k)
      /\ batch' = Tail(batch) /\ UNCHANGED <<history, query, pc, scanned>>
  BY DEF Gix!Look, Gix!Flushing
<1>2. k \in 1..Len(history)
  BY <1>1, BatchTaken DEF Gix!ReaderInv
<1>3. /\ query.mode = "walk" =>
           Gix!Found(c, k) = IF Gix!Target \in Gix!ChangedFiles(c)
                         THEN <<[id |-> k, files |-> Gix!ChangedFiles(c)]>> ELSE <<>>
      /\ query.mode = "selected" =>
           Gix!Found(c, k) = <<[id |-> k, files |-> Gix!ChangedFiles(c) \cup {Gix!Target}]>>
      /\ Gix!ChangedFiles(c) \subseteq {"other", Gix!Target}
  BY <1>2, FoundFacts DEF Gix!ReaderInv
<1>4. /\ gixCommits \in Seq([id : 1..scanned, files : SUBSET {"other", Gix!Target}])
      /\ \A e : gixCommits \o <<e>> = Append(gixCommits, e) /\ Append(gixCommits, e) # gixCommits
      /\ gixCommits \o <<>> = gixCommits
  <2>1. gixCommits \in Seq([id : 1..scanned, files : SUBSET {"other", Gix!Target}])
    BY DEF Gix!ReaderInv, Gix!TypeOK
  <2>2. ASSUME NEW e PROVE gixCommits \o <<e>> = Append(gixCommits, e) /\
               Append(gixCommits, e) # gixCommits
    <3>1. gixCommits \in Seq([id : 1..scanned, files : SUBSET {"other", Gix!Target}] \cup {e})
      BY <2>1, SeqMonotonic
    <3>2. Len(Append(gixCommits, e)) = Len(gixCommits) + 1 /\ Len(gixCommits) \in Nat
      BY <3>1, AppendProperties, LenProperties
    <3> QED BY <3>1, <3>2, AppendIsConcat
  <2> QED BY <2>1, <2>2, ConcatEmptySeq
<1> HIDE DEF c, k
<1>5. CASE query.mode = "walk"
  <2> DEFINE files == Gix!ChangedFiles(c)
  <2>1. CASE Gix!Target \in files
    <3>1. gixCommits' = Append(gixCommits, [id |-> k, files |-> files]) /\ gixCommits' # gixCommits
      BY <1>1, <1>3, <1>4, <1>5, <2>1
    <3> QED BY <1>1, <1>3, <1>5, <2>1, <3>1, LookKeeps DEF c, k
  <2>2. CASE Gix!Target \notin files
    <3>1. gixCommits' = gixCommits
      BY <1>1, <1>3, <1>4, <1>5, <2>2
    <3> QED BY <1>1, <1>3, <1>5, <2>2, <3>1, LookKeeps DEF c, k
  <2> QED BY <2>1, <2>2
<1>6. CASE query.mode = "selected"
  <2> DEFINE files == Gix!ChangedFiles(c) \cup {Gix!Target}
  <2>1. gixCommits' = Append(gixCommits, [id |-> k, files |-> files]) /\ gixCommits' # gixCommits
    BY <1>1, <1>3, <1>4, <1>6
  <2>2. files \subseteq {"other", Gix!Target} /\ Gix!Target \in files
    BY <1>3
  <2> HIDE DEF files
  <2> QED BY <1>1, <1>6, <2>1, <2>2, LookKeeps DEF c, k
<1> QED BY <1>5, <1>6, GixTypes DEF Gix!ReaderInv

LEMMA AskGitStep ==
  ASSUME Gix!GixAssumption, Gix!ReaderInv, Gix!AskGit
  PROVE  Gix!ReaderInv'
<1> DEFINE k == batch[1]
           files == history[k].others \cup {Gix!Target}
<1>1. /\ pc \in {"flushing", "last"} /\ batch # <<>> /\ query.mode = "selected"
      /\ Gix!Unreadable(history[k])
      /\ \/ gixCommits' = Append(gixCommits, [id |-> k, files |-> files])
         \/ UNCHANGED gixCommits
      /\ batch' = Tail(batch) /\ UNCHANGED <<history, query, pc, scanned>>
  BY DEF Gix!AskGit, Gix!Flushing
<1>2. k \in 1..Len(history)
  BY <1>1, BatchTaken DEF Gix!ReaderInv
<1>3. history[k] \in Gix!Commit
  BY <1>2, GixTypes DEF Gix!ReaderInv
<1>4. files \subseteq {"other", Gix!Target} /\ Gix!Target \in files
  BY <1>3 DEF Gix!Commit
<1> HIDE DEF files
<1> QED BY <1>1, <1>4, LookKeeps

(* While the walk goes on, what it has looked at holds too few hits, and   *)
(* what it has not is at most one batch.                                   *)
LEMMA OneStepFurther ==
  ASSUME Gix!GixAssumption, Gix!ReaderInv, pc = "walking", scanned' = scanned + 1,
         UNCHANGED <<history, query>>
  PROVE  Gix!NoNeedlessScan'
<1>1. /\ query.mode = "walk"
      /\ Len(batch) < Gix!BatchSize /\ ~Gix!Enough /\ ~Gix!ScanLimitReached(scanned)
      /\ Gix!Collected = scanned
      /\ Len(gixCommits) = Gix!Cardinality(Gix!Hits(Gix!Looked))
  BY GixTypes DEF Gix!ReaderInv, Gix!WalkInv, Gix!FoundInv
<1>2. /\ scanned \in Nat /\ query.scan \in Nat /\ query.max \in Nat
      /\ Len(batch) \in Nat /\ Gix!BatchSize \in Nat /\ Len(gixCommits) \in Nat
  BY GixTypes DEF Gix!ReaderInv
<1>3. Gix!Looked = scanned - Len(batch) /\ Gix!Looked \in Nat
  BY <1>1, <1>2 DEF Gix!Looked, Gix!ReaderInv, Gix!BatchInv
<1>4. query.scan > 0 => scanned + 1 <= query.scan
  BY <1>1, <1>2 DEF Gix!ScanLimitReached
<1>5. ASSUME query.max > 0, scanned + 1 > Gix!BatchSize
      PROVE  Gix!Cardinality(Gix!Hits((scanned + 1) - Gix!BatchSize)) < query.max
  <2>1. (scanned + 1) - Gix!BatchSize \in Nat /\ (scanned + 1) - Gix!BatchSize <= Gix!Looked
    BY <1>1, <1>2, <1>3, <1>5
  <2>2. /\ Gix!Cardinality(Gix!Hits((scanned + 1) - Gix!BatchSize)) <= Len(gixCommits)
        /\ Gix!Cardinality(Gix!Hits((scanned + 1) - Gix!BatchSize)) \in Nat
    BY <1>1, <1>3, <2>1, HitsFacts DEF Gix!ReaderInv
  <2>3. Len(gixCommits) < query.max
    BY <1>1, <1>2, <1>5 DEF Gix!Enough
  <2> QED BY <1>2, <2>2, <2>3
<1>6. /\ Gix!BatchSize' = Gix!BatchSize
      /\ Gix!Hits(scanned - Gix!BatchSize)' = Gix!Hits((scanned + 1) - Gix!BatchSize)
  <2>1. Gix!Window' = Gix!Window /\ Gix!BatchSize' = Gix!BatchSize
    BY SameReference
  <2>2. (scanned - Gix!BatchSize)' = (scanned + 1) - Gix!BatchSize
    BY <2>1
  <2>3. Gix!Hits(scanned - Gix!BatchSize)' =
          {k \in Gix!Window' : k <= (scanned - Gix!BatchSize)' /\
            Gix!Target \in Gix!ChangedFiles(history'[k])}
    BY DEF Gix!Hits
  <2> QED BY <2>1, <2>2, <2>3 DEF Gix!Hits
<1> QED BY <1>4, <1>5, <1>6 DEF Gix!NoNeedlessScan

LEMMA CollectStep ==
  ASSUME Gix!GixAssumption, Gix!ReaderInv, Gix!Collect
  PROVE  Gix!ReaderInv'
<1>1. /\ pc = "walking" /\ scanned < Len(history) /\ ~Gix!TooOld
      /\ scanned' = scanned + 1 /\ batch' = Append(batch, scanned + 1)
      /\ pc' = IF Gix!BatchFull(Len(batch')) \/ Gix!ScanLimitReached(scanned + 1)
               THEN "flushing" ELSE "walking"
      /\ UNCHANGED <<history, query, gixCommits>>
  BY DEF Gix!Collect
<1>2. /\ query.mode = "walk" /\ ~Gix!Enough /\ ~Gix!ScanLimitReached(scanned) /\
         Gix!Collected = scanned
  BY <1>1, GixTypes DEF Gix!ReaderInv, Gix!WalkInv, Gix!FoundInv
<1>3. /\ scanned \in Nat /\ scanned + 1 \in 1..Len(history) /\ Len(history) \in Nat
      /\ DOMAIN history = 1..Len(history)
      /\ Len(batch) \in Nat /\ DOMAIN batch = 1..Len(batch)
      /\ query.scan \in Nat /\ query.since \in Nat
      /\ history[scanned + 1].time \in Nat
  <2>1. scanned \in Nat /\ scanned + 1 \in 1..Len(history) /\ Len(history) \in Nat
    BY <1>1, GixTypes DEF Gix!ReaderInv
  <2> QED BY <2>1, GixTypes DEF Gix!ReaderInv
<1>4. history[scanned + 1].time >= query.since
  BY <1>1, <1>3 DEF Gix!TooOld, Gix!Here
<1>5. Gix!Collected' = scanned + 1
  BY <1>1, <1>3, <1>4 DEF Gix!Collected
<1>6. /\ batch' \in Seq(1..scanned + 1) /\ Len(batch') = Len(batch) + 1
      /\ DOMAIN batch' = 1..Len(batch) + 1
      /\ \A i \in 1..Len(batch) : batch'[i] = batch[i]
      /\ batch'[Len(batch) + 1] = scanned + 1
      /\ batch' \in [1..Len(batch) + 1 -> 1..scanned + 1]
  <2>1. batch \in Seq(1..scanned) /\ 1..scanned \subseteq 1..scanned + 1
    BY <1>3 DEF Gix!ReaderInv, Gix!TypeOK
  <2>2. batch \in Seq(1..scanned + 1) /\ scanned + 1 \in 1..scanned + 1
    BY <1>3, <2>1, SeqMonotonic
  <2>3. /\ batch' \in Seq(1..scanned + 1) /\ Len(batch') = Len(batch) + 1
        /\ \A i \in 1..Len(batch) : batch'[i] = batch[i]
        /\ batch'[Len(batch) + 1] = scanned + 1
    BY <1>1, <2>2, AppendProperties
  <2>4. DOMAIN batch' = 1..Len(batch') /\ batch' \in [1..Len(batch') -> 1..scanned + 1]
    BY <2>3, LenProperties
  <2> QED BY <2>3, <2>4
<1>7. Gix!Looked' = Gix!Looked /\ Gix!Looked = scanned - Len(batch) /\ Gix!Looked \in Nat
  <2>1. Gix!Looked' = (scanned + 1) - (Len(batch) + 1)
    <3>1. Len(batch') = Len(batch) + 1
      BY <1>6
    <3>2. Gix!Looked' = Gix!Collected' - Len(batch')
      BY DEF Gix!Looked
    <3> QED BY <1>5, <3>1, <3>2
  <2>2. Gix!Looked = scanned - Len(batch) /\ Gix!Looked >= 0
    BY <1>2 DEF Gix!Looked, Gix!ReaderInv, Gix!BatchInv
  <2> QED BY <1>3, <2>1, <2>2
<1>8. Gix!BatchInv'
  <2>1. \A i \in 1..Len(batch) : batch[i] = Gix!Looked + i
    BY <1>3 DEF Gix!ReaderInv, Gix!BatchInv
  <2>2. \A i \in 1..Len(batch) + 1 : batch'[i] = Gix!Looked + i
    <3> SUFFICES ASSUME NEW i \in 1..Len(batch) + 1 PROVE batch'[i] = Gix!Looked + i
      OBVIOUS
    <3>1. CASE i \in 1..Len(batch)
      BY <1>6, <2>1, <3>1
    <3>2. CASE i = Len(batch) + 1
      BY <1>3, <1>6, <1>7, <3>2
    <3> QED BY <1>3, <3>1, <3>2
  <2>3. batch' = [i \in 1..Len(batch) + 1 |-> Gix!Looked + i]
    BY <1>6, <2>2
  <2> QED BY <1>6, <1>7, <2>3 DEF Gix!BatchInv
<1>9. Gix!TypeOK'
  <2>1. scanned + 1 \in 0..Len(history)
    BY <1>3
  <2>2. gixCommits \in Seq([id : 1..scanned + 1, files : SUBSET {"other", Gix!Target}])
    <3>1. [id : 1..scanned, files : SUBSET {"other", Gix!Target}]
            \subseteq [id : 1..scanned + 1, files : SUBSET {"other", Gix!Target}]
      BY <1>3
    <3> QED BY <3>1, SeqMonotonic DEF Gix!ReaderInv, Gix!TypeOK
  <2> QED BY <1>1, <1>6, <2>1, <2>2 DEF Gix!ReaderInv, Gix!TypeOK
<1>10. 1..scanned + 1 \subseteq Gix!Window
  <2>1. 1..scanned \subseteq Gix!Window
    BY <1>2 DEF Gix!ReaderInv, Gix!WalkInv
  <2>2. scanned + 1 \in Gix!Window
    <3>1. query.scan > 0 => scanned + 1 <= query.scan
      BY <1>2, <1>3 DEF Gix!ScanLimitReached
    <3>2. ASSUME NEW j \in 1..scanned + 1 PROVE history[j].time >= query.since
      <4>1. CASE j \in 1..scanned
        <5>1. j \in Gix!Window /\ j \in 1..j
          BY <2>1, <4>1
        <5> QED BY <5>1 DEF Gix!Window
      <4>2. CASE j = scanned + 1
        BY <1>4, <4>2
      <4> QED BY <1>3, <4>1, <4>2
    <3> QED BY <1>3, <3>1, <3>2 DEF Gix!Window
  <2> QED BY <1>3, <2>1, <2>2
<1>11. Gix!WalkInv'
  <2>1. pc' # "last" /\ Gix!Enough' = Gix!Enough
    BY <1>1 DEF Gix!Enough
  <2>2. ASSUME pc' = "walking"
        PROVE  Len(batch') < Gix!BatchSize' /\ ~Gix!ScanLimitReached(scanned)'
    <3>1. ~Gix!BatchFull(Len(batch')) /\ ~Gix!ScanLimitReached(scanned + 1)
      BY <1>1, <2>2
    <3>2. Gix!BatchSize' = Gix!BatchSize /\ Gix!BatchSize \in Nat /\ Len(batch') \in Nat
      BY <1>1, <1>3, <1>6, SameReference, GixTypes DEF Gix!ReaderInv
    <3> QED BY <1>1, <3>1, <3>2 DEF Gix!BatchFull, Gix!ScanLimitReached
  <2>3. Gix!Window' = Gix!Window
    BY <1>1, SameReference
  <2> QED BY <1>1, <1>2, <1>5, <1>10, <2>1, <2>2, <2>3 DEF Gix!WalkInv, Gix!ScanLimitReached
<1>12. Gix!FoundInv'
  <2>1. Gix!Ids' = Gix!Ids /\ (Gix!InOrder' <=> Gix!InOrder)
    BY <1>1 DEF Gix!Ids, Gix!InOrder
  <2> QED BY <1>1, <1>2, <1>7, <2>1, SameReference
          DEF Gix!ReaderInv, Gix!FoundInv, Gix!ChangedFiles, Gix!OldEntry
<1>13. Gix!OkIsReference' /\ Gix!NoNeedlessScan'
  BY <1>1, OneStepFurther DEF Gix!OkIsReference
<1> QED BY <1>8, <1>9, <1>11, <1>12, <1>13 DEF Gix!ReaderInv

(* A walk that leaves its loop looks at what is left of the batch, or      *)
(* answers.                                                                *)
LEMMA LeaveLoopKeeps ==
  ASSUME Gix!GixAssumption, Gix!ReaderInv, query.mode = "walk", pc \in {"walking", "flushing"},
         Gix!Enough \/ Gix!Window \subseteq 1..Gix!Collected,
         Gix!LeaveLoop, UNCHANGED <<history, query, batch>>,
         scanned' \in scanned..Len(history), Gix!Collected' = Gix!Collected, Gix!NoNeedlessScan'
  PROVE  Gix!ReaderInv'
<1> DEFINE S == [id : 1..scanned, files : SUBSET {"other", Gix!Target}]
           T == [id : 1..scanned', files : SUBSET {"other", Gix!Target}]
<1>1. /\ scanned \in Nat /\ Len(history) \in Nat /\ Gix!Collected \in Nat /\ Len(batch) \in Nat
      /\ batch \in Seq(Nat)
  BY GixTypes DEF Gix!ReaderInv
<1>2. Gix!Looked' = Gix!Looked /\ Gix!Looked = Gix!Collected - Len(batch)
  BY DEF Gix!Looked
<1>3. /\ Gix!BatchInv' /\ 1..Gix!Collected \subseteq Gix!Window /\ Gix!Window' = Gix!Window
      /\ scanned' \in 0..Len(history)
  BY <1>1, <1>2, SameReference DEF Gix!ReaderInv, Gix!BatchInv, Gix!WalkInv
<1>4. batch \in Seq(1..scanned')
  <2>1. batch \in Seq(1..scanned) /\ 1..scanned \subseteq 1..scanned'
    BY <1>1 DEF Gix!ReaderInv, Gix!TypeOK
  <2> QED BY <2>1, SeqMonotonic
<1>5. \A s \in Seq(S) : s \in Seq(T)
  <2>1. S \subseteq T
    BY <1>1
  <2> HIDE DEF S, T
  <2> QED BY <2>1, SeqMonotonic
<1>6. Gix!Ids \subseteq 1..Gix!Looked /\ Gix!InOrder
  BY DEF Gix!ReaderInv, Gix!FoundInv
<1>7. CASE batch # <<>> /\ ~Gix!Enough
  <2>1. pc' = "last" /\ UNCHANGED gixCommits /\ Gix!Window \subseteq 1..Gix!Collected
    BY <1>7 DEF Gix!LeaveLoop
  <2>2. Gix!TypeOK'
    BY <1>3, <1>4, <1>5, <2>1 DEF Gix!ReaderInv, Gix!TypeOK
  <2>3. Gix!WalkInv'
    BY <1>3, <2>1 DEF Gix!WalkInv
  <2>4. Gix!Ids' = Gix!Ids /\ (Gix!InOrder' <=> Gix!InOrder)
    BY <2>1 DEF Gix!Ids, Gix!InOrder
  <2>5. Gix!FoundInv'
    BY <1>2, <2>1, <2>4, SameReference DEF Gix!ReaderInv, Gix!FoundInv, Gix!ChangedFiles,
        Gix!OldEntry
  <2> QED BY <1>3, <2>1, <2>2, <2>3, <2>5 DEF Gix!ReaderInv, Gix!OkIsReference
<1>8. CASE batch = <<>> \/ Gix!Enough
  <2>1. pc' = "ok" /\ gixCommits' = Gix!Truncated
    BY <1>8 DEF Gix!LeaveLoop
  <2>2. Gix!Enough \/ Gix!Window \subseteq 1..Gix!Looked
    <3>1. batch = <<>> => Gix!Looked = Gix!Collected
      BY <1>1, <1>2, EmptySeq
    <3> QED BY <1>8, <3>1
  <2>3. Gix!OkIsReference'
    BY <2>1, <2>2, WalkAnswers
  <2>4. gixCommits' \in Seq(S) /\ Gix!InOrder' /\ Gix!Ids' \subseteq Gix!Ids
    BY <1>6, <2>1, TruncationFacts DEF Gix!ReaderInv
  <2>5. Gix!TypeOK'
    BY <1>3, <1>4, <1>5, <2>1, <2>4 DEF Gix!ReaderInv, Gix!TypeOK
  <2>6. Gix!WalkInv'
    BY <1>3, <2>1 DEF Gix!WalkInv
  <2>7. Gix!FoundInv'
    BY <1>2, <1>6, <2>1, <2>4 DEF Gix!FoundInv
  <2> QED BY <1>3, <2>3, <2>5, <2>6, <2>7 DEF Gix!ReaderInv
<1> QED BY <1>7, <1>8

LEMMA StopWalkStep ==
  ASSUME Gix!GixAssumption, Gix!ReaderInv, Gix!StopWalk
  PROVE  Gix!ReaderInv'
<1>1. /\ pc = "walking" /\ Gix!LeaveLoop /\ UNCHANGED <<history, query, batch>>
      /\ \/ scanned = Len(history) /\ UNCHANGED scanned
         \/ scanned < Len(history) /\ Gix!TooOld /\ scanned' = scanned + 1
  BY DEF Gix!StopWalk
<1>2. query.mode = "walk" /\ Gix!Collected = scanned
  BY <1>1, GixTypes DEF Gix!ReaderInv, Gix!WalkInv, Gix!FoundInv
<1>3. /\ scanned \in Nat /\ Len(history) \in Nat /\ DOMAIN history = 1..Len(history)
      /\ \A k \in 1..Len(history) : history[k].time \in Nat
      /\ query.since \in Nat
  BY GixTypes DEF Gix!ReaderInv
<1>4. CASE scanned = Len(history) /\ UNCHANGED scanned
  <2>1. Gix!Window \subseteq 1..Gix!Collected
    BY <1>2, <1>3, <1>4 DEF Gix!Window
  <2>2. Gix!Collected' = Gix!Collected /\ Gix!NoNeedlessScan' /\ scanned' \in scanned..Len(history)
    BY <1>1, <1>3, <1>4, SameReference DEF Gix!Collected, Gix!ReaderInv
  <2> QED BY <1>1, <1>2, <2>1, <2>2, LeaveLoopKeeps
<1>5. CASE scanned < Len(history) /\ Gix!TooOld /\ scanned' = scanned + 1
  <2>1. scanned + 1 \in 1..Len(history) /\ scanned' \in scanned..Len(history)
    BY <1>3, <1>5
  <2>2. history[scanned + 1].time < query.since
    BY <1>5 DEF Gix!TooOld, Gix!Here
  <2>3. Gix!Collected' = Gix!Collected
    <3>1. Gix!Collected' = scanned' - 1
      <4>1. query' = query /\ history' = history
        BY <1>1
      <4>2. scanned' > 0 /\ history'[scanned'] = history[scanned + 1]
        BY <1>3, <1>5, <4>1
      <4> QED BY <1>2, <2>2, <4>1, <4>2 DEF Gix!Collected
    <3> QED BY <1>2, <1>3, <1>5, <3>1
  <2>4. Gix!Window \subseteq 1..Gix!Collected
    <3> SUFFICES ASSUME NEW k \in Gix!Window, k \notin 1..scanned PROVE FALSE
      BY <1>2
    <3>1. k \in 1..Len(history) /\ \A j \in 1..k : history[j].time >= query.since
      BY <1>3 DEF Gix!Window
    <3>2. scanned + 1 \in 1..k
      BY <1>3, <3>1
    <3>3. history[scanned + 1].time >= query.since /\ history[scanned + 1].time \in Nat
      BY <1>3, <2>1, <3>1, <3>2
    <3> QED BY <1>3, <2>2, <3>3
  <2>5. Gix!NoNeedlessScan'
    BY <1>1, <1>5, OneStepFurther
  <2> QED BY <1>1, <1>2, <2>1, <2>3, <2>4, <2>5, LeaveLoopKeeps
<1> QED BY <1>1, <1>4, <1>5

LEMMA AfterBatchStep ==
  ASSUME Gix!GixAssumption, Gix!ReaderInv, Gix!AfterBatch
  PROVE  Gix!ReaderInv'
<1>1. pc = "flushing" /\ batch = <<>> /\ UNCHANGED <<history, query, scanned, batch>>
  BY DEF Gix!AfterBatch
<1>2. query.mode = "walk" /\ Gix!Collected = scanned /\ Gix!Collected' = Gix!Collected /\
      Gix!Looked' = Gix!Looked
  BY <1>1, GixTypes DEF Gix!ReaderInv, Gix!WalkInv, Gix!FoundInv, Gix!Collected, Gix!Looked
<1>3. /\ scanned \in Nat /\ scanned \in scanned..Len(history) /\ DOMAIN history = 1..Len(history)
      /\ query.scan \in Nat /\ Gix!BatchSize \in Nat \ {0} /\ Len(batch) = 0
  BY <1>1, GixTypes, EmptySeq DEF Gix!ReaderInv
<1>4. Gix!NoNeedlessScan' /\ Gix!Window' = Gix!Window /\ Gix!BatchSize' = Gix!BatchSize
  BY <1>1, SameReference DEF Gix!ReaderInv
<1>5. CASE Gix!Enough \/ Gix!ScanLimitReached(scanned)
  <2>1. Gix!Enough \/ Gix!Window \subseteq 1..Gix!Collected
    BY <1>2, <1>3, <1>5 DEF Gix!ScanLimitReached, Gix!Window
  <2>2. Gix!LeaveLoop
    BY <1>5 DEF Gix!AfterBatch
  <2> QED BY <1>1, <1>2, <1>3, <1>4, <2>1, <2>2, LeaveLoopKeeps
<1>6. CASE ~(Gix!Enough \/ Gix!ScanLimitReached(scanned))
  <2>1. pc' = "walking" /\ UNCHANGED gixCommits
    BY <1>6 DEF Gix!AfterBatch
  <2>2. Gix!TypeOK' /\ Gix!BatchInv'
    BY <1>1, <1>2, <2>1 DEF Gix!ReaderInv, Gix!TypeOK, Gix!BatchInv
  <2>3. /\ Gix!Ids' = Gix!Ids /\ (Gix!InOrder' <=> Gix!InOrder)
        /\ (Gix!Enough' <=> Gix!Enough) /\
           (Gix!ScanLimitReached(scanned)' <=> Gix!ScanLimitReached(scanned))
    BY <1>1, <2>1 DEF Gix!Ids, Gix!InOrder, Gix!Enough, Gix!ScanLimitReached
  <2>4. Gix!WalkInv'
    BY <1>1, <1>2, <1>3, <1>4, <1>6, <2>1, <2>3 DEF Gix!ReaderInv, Gix!WalkInv
  <2>5. Gix!FoundInv'
    BY <1>1, <1>2, <2>1, <2>3, SameReference DEF Gix!ReaderInv, Gix!FoundInv, Gix!ChangedFiles,
        Gix!OldEntry
  <2> QED BY <1>4, <2>1, <2>2, <2>4, <2>5 DEF Gix!ReaderInv, Gix!OkIsReference
<1> QED BY <1>5, <1>6

LEMMA ReturnStep ==
  ASSUME Gix!GixAssumption, Gix!ReaderInv, Gix!Return
  PROVE  Gix!ReaderInv'
<1>1. /\ pc = "last" /\ batch = <<>> /\ pc' = "ok"
      /\ gixCommits' = IF query.mode = "selected" THEN gixCommits ELSE Gix!Truncated
      /\ UNCHANGED <<history, query, scanned, batch>>
  BY DEF Gix!Return
<1>2. /\ Gix!Collected' = Gix!Collected /\ Gix!Looked' = Gix!Looked /\ Gix!Looked = Gix!Collected
      /\ Gix!InOrder /\ Gix!Ids \subseteq 1..Gix!Looked
  <2>1. Len(batch) = 0 /\ Gix!Collected \in Nat
    BY <1>1, GixTypes, EmptySeq DEF Gix!ReaderInv
  <2> QED BY <1>1, <2>1 DEF Gix!Collected, Gix!Looked, Gix!ReaderInv, Gix!FoundInv
<1>3. Gix!NoNeedlessScan' /\ Gix!Window' = Gix!Window
  BY <1>1, SameReference DEF Gix!ReaderInv
<1>4. CASE query.mode = "selected"
  <2>1. UNCHANGED gixCommits
    BY <1>1, <1>4
  <2>2. Gix!Ids' = Gix!Ids /\ (Gix!InOrder' <=> Gix!InOrder)
    BY <2>1 DEF Gix!Ids, Gix!InOrder
  <2>3. Gix!TypeOK' /\ Gix!BatchInv' /\ Gix!WalkInv' /\ Gix!OkIsReference'
    BY <1>1, <1>2, <1>4, <2>1 DEF Gix!ReaderInv, Gix!TypeOK, Gix!BatchInv, Gix!WalkInv,
        Gix!OkIsReference
  <2>4. Gix!FoundInv'
    BY <1>1, <1>2, <1>4, <2>1, <2>2 DEF Gix!ReaderInv, Gix!FoundInv, Gix!Unreadable
  <2> QED BY <1>3, <2>3, <2>4 DEF Gix!ReaderInv
<1>5. CASE query.mode = "walk"
  <2>1. gixCommits' = Gix!Truncated /\ Gix!Window \subseteq 1..Gix!Looked
    BY <1>1, <1>2, <1>5 DEF Gix!ReaderInv, Gix!WalkInv
  <2>2. /\ gixCommits' \in Seq([id : 1..scanned, files : SUBSET {"other", Gix!Target}])
        /\ Gix!InOrder' /\ Gix!Ids' \subseteq Gix!Ids
    BY <1>2, <2>1, TruncationFacts DEF Gix!ReaderInv
  <2>3. Gix!OkIsReference'
    BY <1>1, <1>5, <2>1, WalkAnswers
  <2>4. Gix!TypeOK' /\ Gix!BatchInv'
    BY <1>1, <1>2, <2>2 DEF Gix!ReaderInv, Gix!TypeOK, Gix!BatchInv
  <2>5. Gix!WalkInv'
    BY <1>1, <1>2, <1>3, <1>5 DEF Gix!ReaderInv, Gix!WalkInv
  <2>6. Gix!FoundInv'
    BY <1>1, <1>2, <1>5, <2>2 DEF Gix!FoundInv
  <2> QED BY <1>3, <2>3, <2>4, <2>5, <2>6 DEF Gix!ReaderInv
<1> QED BY <1>4, <1>5, GixTypes DEF Gix!ReaderInv

LEMMA GixInit ==
  ASSUME Gix!GixAssumption, Gix!Init
  PROVE  Gix!ReaderInv
<1>1. /\ history \in Histories /\ query \in Queries /\ gixCommits = <<>>
      /\ history \in Seq(Gix!Commit) /\ query.mode \in {"walk", "selected"}
      /\ query.max \in Nat /\ query.scan \in Nat
  BY DEF Gix!Init, Gix!GixAssumption
<1>2. Len(history) \in Nat /\ DOMAIN history = 1..Len(history)
  BY <1>1, LenProperties
<1>3. /\ gixCommits \in Seq([id : 1..scanned, files : SUBSET {"other", Gix!Target}])
      /\ Len(gixCommits) = 0 /\ DOMAIN gixCommits = {}
  BY <1>1, EmptySeq, LenProperties
<1>4. Gix!Ids = {} /\ Gix!InOrder
  BY <1>3 DEF Gix!Ids, Gix!InOrder
<1>5. CASE query.mode = "selected"
  <2>1. pc = "last" /\ scanned = Len(history) /\ batch = [k \in 1..Len(history) |-> k]
    BY <1>2, <1>5 DEF Gix!Init
  <2>2. batch \in Seq(1..scanned) /\ Len(batch) = scanned /\ DOMAIN batch = 1..scanned
    <3>1. batch \in [1..scanned -> 1..scanned] /\ scanned \in Nat
      BY <1>2, <2>1
    <3> QED BY <3>1
  <2>3. Gix!Looked = 0
    BY <1>2, <1>5, <2>1, <2>2 DEF Gix!Looked, Gix!Collected
  <2>4. Gix!TypeOK
    BY <1>1, <1>2, <1>3, <2>1, <2>2 DEF Gix!TypeOK
  <2>5. Gix!BatchInv
    <3>1. \A k \in 1..scanned : k = 0 + k
      BY <1>2, <2>1
    <3>2. batch = [k \in 1..scanned |-> 0 + k]
      BY <2>1, <3>1
    <3> QED BY <2>2, <2>3, <3>2 DEF Gix!BatchInv
  <2>6. Gix!WalkInv /\ Gix!OkIsReference /\ Gix!NoNeedlessScan
    BY <1>5 DEF Gix!WalkInv, Gix!OkIsReference, Gix!NoNeedlessScan
  <2>7. Gix!FoundInv
    BY <1>3, <1>4, <1>5, <2>1, <2>3 DEF Gix!FoundInv
  <2> QED BY <2>4, <2>5, <2>6, <2>7 DEF Gix!ReaderInv
<1>6. CASE query.mode = "walk"
  <2>1. pc = "walking" /\ scanned = 0 /\ batch = <<>>
    BY <1>6 DEF Gix!Init
  <2>2. batch \in Seq(1..scanned) /\ Len(batch) = 0 /\ DOMAIN batch = {}
    BY <2>1, EmptySeq, LenProperties
  <2>3. Gix!Collected = 0 /\ Gix!Looked = 0
    <3>1. Gix!Collected = 0
      BY <2>1 DEF Gix!Collected
    <3> QED BY <2>2, <3>1 DEF Gix!Looked
  <2>4. Gix!TypeOK
    BY <1>1, <1>2, <1>3, <2>1, <2>2 DEF Gix!TypeOK
  <2>5. Gix!BatchInv
    <3>1. batch = [i \in {} |-> 0 + i]
      BY <2>1
    <3> QED BY <2>2, <2>3, <3>1 DEF Gix!BatchInv
  <2>6. Gix!BatchSize \in Nat \ {0}
    BY <2>4, GixTypes
  <2>7. Gix!WalkInv
    BY <1>1, <1>3, <2>1, <2>2, <2>3, <2>6 DEF Gix!WalkInv, Gix!Enough, Gix!ScanLimitReached
  <2>8. Gix!Hits(0) = {} /\ Gix!Cardinality(Gix!Hits(0)) = 0
    BY <2>4, HitsFacts, FS_EmptySet, SameCardinality
  <2>9. Gix!FoundInv
    BY <1>3, <1>4, <1>6, <2>1, <2>3, <2>8 DEF Gix!FoundInv
  <2>10. Gix!OkIsReference /\ Gix!NoNeedlessScan
    BY <1>1, <2>1, <2>6 DEF Gix!OkIsReference, Gix!NoNeedlessScan
  <2> QED BY <2>4, <2>5, <2>7, <2>9, <2>10 DEF Gix!ReaderInv
<1> QED BY <1>1, <1>5, <1>6

LEMMA GixNext ==
  ASSUME Gix!GixAssumption, Gix!ReaderInv, [Gix!Next]_Gix!vars
  PROVE  Gix!ReaderInv'
<1>1. CASE Gix!WalkFails
  BY <1>1, ErrorKeeps DEF Gix!WalkFails
<1>2. CASE Gix!GiveUp
  BY <1>2, ErrorKeeps DEF Gix!GiveUp, Gix!Flushing
<1>3. CASE UNCHANGED Gix!vars
  <2> USE <1>3 DEF Gix!vars
  <2>1. Gix!Collected' = Gix!Collected /\ Gix!Looked' = Gix!Looked /\ Gix!Ids' = Gix!Ids /\
        (Gix!InOrder' <=> Gix!InOrder)
    BY DEF Gix!Collected, Gix!Looked, Gix!Ids, Gix!InOrder
  <2>2. Gix!TypeOK' /\ Gix!BatchInv'
    BY <2>1 DEF Gix!ReaderInv, Gix!TypeOK, Gix!BatchInv
  <2>3. Gix!WalkInv'
    BY <2>1, SameReference DEF Gix!ReaderInv, Gix!WalkInv, Gix!Enough, Gix!ScanLimitReached
  <2>4. Gix!FoundInv'
    BY <2>1, SameReference DEF Gix!ReaderInv, Gix!FoundInv, Gix!ChangedFiles, Gix!OldEntry,
        Gix!Unreadable
  <2>5. Gix!NoNeedlessScan' /\ Gix!Hits(Len(history))' = Gix!Hits(Len(history))
    BY SameReference DEF Gix!ReaderInv
  <2>6. Gix!OkIsReference'
    BY <2>1, <2>5 DEF Gix!ReaderInv, Gix!OkIsReference, Gix!ChangedFiles, Gix!OldEntry
  <2> QED BY <2>2, <2>3, <2>4, <2>5, <2>6 DEF Gix!ReaderInv
<1> QED BY <1>1, <1>2, <1>3, StopWalkStep, CollectStep, LookStep, AskGitStep, AfterBatchStep,
           ReturnStep DEF Gix!Next

(* The invariant of the walk and of the reader of selected commits.        *)
THEOREM GixInvariantHolds == Gix!Spec => []Gix!ReaderInv
<1>1. Gix!Init => Gix!ReaderInv
  BY ReadersAssumption, GixInit
<1>2. Gix!ReaderInv /\ [Gix!Next]_Gix!vars => Gix!ReaderInv'
  BY ReadersAssumption, GixNext
<1> QED BY <1>1, <1>2, PTL DEF Gix!Spec

(* At the end of a reading of selected commits all have been looked at.    *)
LEMMA SelectedAtTheEnd ==
  Gix!ReaderInv => Gix!SelectedIsKept
<1> SUFFICES ASSUME Gix!ReaderInv, pc = "ok", query.mode = "selected"
             PROVE  /\ Gix!InOrder
                    /\ \A i \in DOMAIN gixCommits : Gix!Target \in gixCommits[i].files
                    /\ \A k \in DOMAIN history \ Gix!Ids : Gix!Unreadable(history[k])
  BY DEF Gix!SelectedIsKept
<1>1. batch = <<>> /\ scanned = Len(history) /\ DOMAIN history = 1..Len(history)
  BY GixTypes DEF Gix!ReaderInv, Gix!FoundInv
<1>2. Gix!Looked = Len(history)
  <2>1. Len(batch) = 0 /\ Gix!Collected = scanned /\ scanned \in Nat
    BY <1>1, GixTypes, EmptySeq DEF Gix!Collected, Gix!ReaderInv
  <2> QED BY <1>1, <2>1 DEF Gix!Looked
<1> QED BY <1>1, <1>2 DEF Gix!ReaderInv, Gix!FoundInv

-----------------------------------------------------------------------------
(* The readers together.                                                   *)

(* Whoever answers a query, every reader follows its own specification: it *)
(* runs, or it rests where it may start.                                   *)
THEOREM ReadersKeepApart ==
  ReadersSpec => Init /\ [][Next]_vars /\ Followed!Spec /\ Gix!Spec
<1>1. ReadersInit => Init /\ Followed!Init /\ Gix!Init
  BY DEF ReadersInit
<1>2. [ReadersNext]_allVars => [Next]_vars /\ [Followed!Next]_Followed!vars /\ [Gix!Next]_Gix!vars
  BY DEF ReadersNext, allVars, vars, followVars, gixVars, Followed!vars, Gix!vars
<1> QED BY <1>1, <1>2, PTL DEF ReadersSpec, Followed!Spec, Gix!Spec

(* The answer of the parallel readers is that of the serial one, for every *)
(* list of commits, every --jobs and every order in which threads end.     *)
THEOREM ParallelIsSerial == ReadersSpec => []OkIsSerial
<1> QED BY SerialAtTheEnd, ParallelInvariantHolds, ReadersKeepApart, PTL

(* Sharing the reads of several targets does not show: each is given what  *)
(* a query for it alone would give, under one name, and no commit is read  *)
(* from git twice.                                                         *)
THEOREM EachTargetGetsItsOwn == ReadersSpec => []FollowedIsEach
<1>1. Followed!BatchInv => FollowedIsEach
  BY ReadersAssumption, FollowedPromise DEF FollowedIsEach
<1> QED BY <1>1, FollowedInvariantHolds, ReadersKeepApart, PTL

(* Batches do not show: the walk returns the newest commits that changed   *)
(* the target within its bounds and looks no further than one batch past   *)
(* them; of the commits git selected none that can be read is missing.     *)
THEOREM BatchesDoNotShow == ReadersSpec => []GixIsReference
<1>1. Gix!ReaderInv => GixIsReference
  BY SelectedAtTheEnd DEF GixIsReference, Gix!ReaderInv, Gix!GixIsReference
<1> QED BY <1>1, GixInvariantHolds, ReadersKeepApart, PTL
=============================================================================
