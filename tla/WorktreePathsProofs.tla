-------------------------- MODULE WorktreePathsProofs --------------------------
(***************************************************************************)
(* Proofs about WorktreePaths, for any number of paths and contents and    *)
(* any renames git may report: every change is listed once, and its        *)
(* history is looked up under the name it has in HEAD.                     *)
(***************************************************************************)
EXTENDS WorktreePaths, FiniteSetFacts, SequenceTheorems, TLAPS

Entries == [path : Paths, history : Paths]

LEMMA EntryFacts ==
  ASSUME NEW path \in Paths, NEW history \in Paths
  PROVE  /\ Entry(path, history) \in Entries
         /\ Entry(path, history).path = path /\ Entry(path, history).history = history
BY DEF Entry, Entries

LEMMA SameEntry ==
  ASSUME NEW e \in Entries, NEW f \in Entries, e.path = f.path, e.history = f.history
  PROVE  e = f
BY DEF Entries

(* A list with no path in it twice. *)
PathsDiffer(list) == \A i, j \in DOMAIN list : list[i].path = list[j].path => i = j

-----------------------------------------------------------------------------
(* What git lists is there once.                                           *)
LEMMA InOrderFacts ==
  ASSUME NEW S \in SUBSET Paths
  PROVE  Lists(InOrder(S), S)
<1>1. S \in SUBSET Nat /\ IsFiniteSet(S)
  BY PathsAssumption, FS_Subset DEF PathsAssumption
<1>2. \E list : Lists(list, S)
  BY <1>1, OrderedListExists
<1> QED BY <1>2 DEF InOrder, Lists

LEMMA ListFacts ==
  ASSUME NEW S \in SUBSET Paths, NEW list, DOMAIN list = DOMAIN InOrder(S),
         \A i \in DOMAIN list : list[i] \in Entries /\ list[i].path = InOrder(S)[i],
         list = [i \in DOMAIN list |-> list[i]]
  PROVE  /\ list \in Seq(Entries) /\ PathsDiffer(list)
         /\ \A p \in S : \E e \in Range(list) : e.path = p
         /\ \A e \in Range(list) : e.path \in S
<1>1. PICK lines : lines = InOrder(S)
  OBVIOUS
<1>2. Lists(lines, S)
  BY <1>1, InOrderFacts
<1>3. Cardinality(S) \in Nat /\ S \subseteq Nat
  BY PathsAssumption, FS_Subset, FS_CardinalityType DEF PathsAssumption
<1>4. DOMAIN list = 1..Cardinality(S) /\ DOMAIN lines = 1..Cardinality(S)
  BY <1>1, <1>2 DEF Lists
<1>5. list \in Seq(Entries)
  BY <1>3, <1>4
<1>6. \A i, j \in DOMAIN lines : lines[i] = lines[j] => i = j
  <2>1. \A i \in DOMAIN lines : lines[i] \in Nat
    BY <1>2, <1>3 DEF Lists
  <2>2. \A i, j \in DOMAIN lines : i < j => lines[i] < lines[j]
    BY <1>2 DEF Lists
  <2> QED BY <1>3, <1>4, <2>1, <2>2
<1>7. PathsDiffer(list)
  BY <1>1, <1>4, <1>6 DEF PathsDiffer
<1>8. Range(list) = {list[i] : i \in DOMAIN list} /\ S = {lines[i] : i \in DOMAIN lines}
  BY <1>2 DEF Range, Lists
<1>9. \A i \in 1..Cardinality(S) : list[i].path = lines[i]
  BY <1>1, <1>4
<1>10. /\ \A p \in S : \E e \in Range(list) : e.path = p
       /\ \A e \in Range(list) : e.path \in S
  <2>1. \A p \in S : \E i \in 1..Cardinality(S) : lines[i] = p
    BY <1>4, <1>8
  <2>2. \A i \in 1..Cardinality(S) : list[i] \in Range(list)
    BY <1>4, <1>8
  <2>3. \A e \in Range(list) : \E i \in 1..Cardinality(S) : e = list[i]
    BY <1>4, <1>8
  <2>4. \A i \in 1..Cardinality(S) : lines[i] \in S
    BY <1>4, <1>8
  <2> QED BY <1>9, <2>1, <2>2, <2>3, <2>4
<1> QED BY <1>5, <1>7, <1>10

-----------------------------------------------------------------------------
(* new has e for path, with the history of the entry path goes on from.    *)
Continues(new, e, path, paths) ==
  /\ Range(new) = {s \in Range(paths) : s.path # path.history} \cup {e}
  /\ e \in Entries /\ e.path = path.path
  /\ \A s \in Range(paths) : s.path = path.history => e.history = s.history
  /\ (\A s \in Range(paths) : s.path # path.history) => e.history = path.history

(* Where an unstaged entry goes on from a staged one, that one gives way   *)
(* to it, and hands it its history.                                        *)
LEMMA ComposeFacts ==
  ASSUME NEW paths \in Seq(Entries), NEW path \in Entries,
         NEW new, new = Compose(paths, path)
  PROVE  /\ new \in Seq(Entries)
         /\ \A e \in Range(new) : e \in Range(paths) \/ e.path = path.path
         /\ PathsDiffer(paths) => \E e : Continues(new, e, path, paths)
         /\ /\ PathsDiffer(paths)
            /\ \A s \in Range(paths) : s.path # path.history => s.path # path.path
            => PathsDiffer(new)
<1> DEFINE n == Len(paths)
           staged == {i \in DOMAIN paths : paths[i].path = path.history}
           kept == {s \in Range(paths) : s.path # path.history}
<1>0. n \in Nat
  OBVIOUS
<1>1. n \in Nat /\ DOMAIN paths = 1..n /\ \A i \in 1..n : paths[i] \in Entries
  OBVIOUS
<1>2. Range(paths) = {paths[i] : i \in 1..n}
  BY <1>1 DEF Range
<1>3. CASE staged = {}
  <2>1. new = Append(paths, path)
    BY <1>3 DEF Compose
  <2>2. /\ new \in Seq(Entries) /\ Len(new) = n + 1 /\ DOMAIN new = 1..(n + 1)
        /\ new[n + 1] = path /\ \A i \in 1..n : new[i] = paths[i]
    BY <2>1, AppendProperties
  <2>3. \A i \in 1..(n + 1) : i \in 1..n \/ i = n + 1
    BY <1>1
  <2>4. \A i \in 1..n : i \in 1..(n + 1)
    BY <1>1
  <2>5. n + 1 \in 1..(n + 1)
    BY <1>1
  <2>6. Range(new) = Range(paths) \cup {path}
    BY <1>2, <2>2, <2>3, <2>4, <2>5 DEF Range
  <2>7. \A s \in Range(paths) : s.path # path.history
    BY <1>1, <1>2, <1>3
  <2>8. kept = Range(paths)
    BY <2>7
  <2>9. ASSUME PathsDiffer(paths), \A s \in kept : s.path # path.path
        PROVE  PathsDiffer(new)
    <3>1. \A i \in 1..n : paths[i].path # path.path
      BY <1>2, <2>8, <2>9
    <3> QED BY <1>1, <2>2, <2>3, <2>9, <3>1 DEF PathsDiffer
  <2>10. Continues(new, path, path, paths)
    BY <2>6, <2>7, <2>8 DEF Continues
  <2> QED BY <2>2, <2>6, <2>7, <2>9, <2>10
<1>4. CASE staged # {}
  <2> DEFINE at == Min(staged)
             last == Entry(path.path, paths[at].history)
             rest == SubSeq(paths, 1, at - 1) \o SubSeq(paths, at + 1, n)
  <2>1. at \in staged
    <3>1. staged \in SUBSET Nat
      BY <1>1
    <3>2. \E m \in staged : \A i \in staged : m <= i
      BY <1>4, <3>1, SmallestNumber
    <3> QED BY <3>2 DEF Min
  <2>2. new = Append(rest, last)
    BY <1>4 DEF Compose
  <2> HIDE DEF at
  <2>3. at \in 1..n /\ paths[at].path = path.history /\ paths[at] \in Entries
    BY <1>1, <2>1
  <2>4. last \in Entries /\ last.path = path.path /\ last.history = paths[at].history
    BY <2>3, EntryFacts DEF Entries
  <2>5. /\ SubSeq(paths, 1, at - 1) \in Seq(Entries) /\ Len(SubSeq(paths, 1, at - 1)) = at - 1
        /\ \A i \in 1..(at - 1) : SubSeq(paths, 1, at - 1)[i] = paths[i]
    <3>1. \A i \in 1..(at - 1) : paths[i] \in Entries
      BY <1>1, <2>3
    <3>2. 1 \in 1..(n + 1) /\ at - 1 \in 0..n
      BY <1>1, <2>3
    <3> QED BY <1>1, <2>3, <3>1, <3>2, SubSeqProperties
  <2>6. /\ SubSeq(paths, at + 1, n) \in Seq(Entries) /\ Len(SubSeq(paths, at + 1, n)) = n - at
        /\ \A i \in 1..(n - at) : SubSeq(paths, at + 1, n)[i] = paths[at + i]
    <3>1. PICK m \in Int : m = at + 1
      BY <2>3
    <3>2. \A i \in m..n : paths[i] \in Entries
      BY <1>1, <2>3, <3>1
    <3>3. n \in Int /\ n - m + 1 = n - at
      BY <1>1, <2>3, <3>1
    <3>4. /\ SubSeq(paths, m, n) \in Seq(Entries)
          /\ Len(SubSeq(paths, m, n)) = IF m <= n THEN n - m + 1 ELSE 0
          /\ \A i \in 1..(n - m + 1) : SubSeq(paths, m, n)[i] = paths[m + i - 1]
      BY <3>2, <3>3, SubSeqProperties
    <3>5. (IF m <= n THEN n - m + 1 ELSE 0) = n - at
      BY <1>0, <2>3, <3>1
    <3>6. \A i \in 1..(n - at) : m + i - 1 = at + i
      BY <1>0, <2>3, <3>1
    <3> QED BY <3>1, <3>3, <3>4, <3>5, <3>6
  <2>7. /\ rest \in Seq(Entries) /\ Len(rest) = n - 1
        /\ \A i \in 1..(n - 1) : rest[i] = IF i < at THEN paths[i] ELSE paths[i + 1]
    <3>1. /\ rest \in Seq(Entries) /\ Len(rest) = (at - 1) + (n - at)
          /\ \A i \in 1..((at - 1) + (n - at)) :
               rest[i] = IF i <= at - 1 THEN SubSeq(paths, 1, at - 1)[i]
                         ELSE SubSeq(paths, at + 1, n)[i - (at - 1)]
      BY <2>5, <2>6, ConcatProperties
    <3> DEFINE before == SubSeq(paths, 1, at - 1)
               after == SubSeq(paths, at + 1, n)
    <3> HIDE DEF before, after, rest
    <3>2. (at - 1) + (n - at) = n - 1
      BY <1>1, <2>3
    <3>3. ASSUME NEW i \in 1..(n - 1)
          PROVE  rest[i] = IF i < at THEN paths[i] ELSE paths[i + 1]
      <4>1. CASE i < at
        <5>1. i \in 1..(at - 1) /\ i <= at - 1
          BY <2>3, <4>1
        <5> QED BY <2>5, <3>1, <3>2, <4>1, <5>1
      <4>2. CASE ~(i < at)
        <5>1. i - (at - 1) \in 1..(n - at) /\ at + (i - (at - 1)) = i + 1 /\ ~(i <= at - 1)
          BY <1>1, <2>3, <4>2
        <5> QED BY <2>6, <3>1, <3>2, <4>2, <5>1
      <4> QED BY <4>1, <4>2
    <3> QED BY <3>1, <3>2, <3>3
  <2> HIDE DEF rest, last
  <2>8. /\ new \in Seq(Entries) /\ Len(new) = n /\ DOMAIN new = 1..n /\ new[n] = last
        /\ \A i \in 1..(n - 1) : new[i] = IF i < at THEN paths[i] ELSE paths[i + 1]
    <3>1. (n - 1) + 1 = n
      BY <1>1
    <3> QED BY <2>2, <2>4, <2>7, <3>1, AppendProperties
  <2>9. \A i \in 1..n : i = n \/ i \in 1..(n - 1)
    <3> HIDE DEF n
    <3> QED BY <1>0
  <2>10. \A i \in 1..(n - 1) : i \in 1..n /\ i + 1 \in 1..n
    BY <1>1
  <2>11. n \in 1..n
    BY <2>3
  <2>12. \A e \in Range(new) : e = last \/ \E i \in 1..n : i # at /\ e = paths[i]
    <3>1. \A i \in 1..(n - 1) : IF i < at THEN i # at ELSE i + 1 # at
      BY <2>3
    <3>2. \A i \in 1..(n - 1) : \E j \in 1..n : j # at /\ new[i] = paths[j]
      BY <2>8, <2>10, <3>1
    <3>3. \A i \in 1..n : new[i] = last \/ \E j \in 1..n : j # at /\ new[i] = paths[j]
      BY <2>8, <2>9, <3>2
    <3> QED BY <2>8, <3>3 DEF Range
  <2>13. \A i \in 1..n : i # at => paths[i] \in Range(new)
    <3> SUFFICES ASSUME NEW i \in 1..n, i # at PROVE \E j \in 1..n : new[j] = paths[i]
      BY <2>8 DEF Range
    <3>1. CASE i < at
      <4>1. i \in 1..(n - 1)
        BY <2>3, <3>1
      <4> QED BY <2>8, <2>10, <3>1, <4>1
    <3>2. CASE ~(i < at)
      <4>1. i - 1 \in 1..(n - 1) /\ ~(i - 1 < at) /\ (i - 1) + 1 = i
        BY <2>3, <3>2
      <4> QED BY <2>8, <2>10, <4>1
    <3> QED BY <3>1, <3>2
  <2>14. ASSUME PathsDiffer(paths)
         PROVE  /\ Range(new) = kept \cup {last}
                /\ \A s \in Range(paths) : s.path = path.history => s = paths[at]
    <3>1. \A i \in 1..n : paths[i].path = path.history => i = at
      BY <1>1, <2>3, <2>14 DEF PathsDiffer
    <3>2. last \in Range(new)
      BY <2>8, <2>11 DEF Range
    <3>3. \A e \in Range(new) : e \in kept \cup {last}
      BY <1>1, <1>2, <2>12, <3>1
    <3>4. \A e \in kept : e \in Range(new)
      BY <1>2, <2>3, <2>13
    <3> QED BY <1>2, <3>1, <3>2, <3>3, <3>4
  <2>15. ASSUME PathsDiffer(paths), \A s \in kept : s.path # path.path
         PROVE  PathsDiffer(new)
    <3> DEFINE from(i) == IF i < at THEN i ELSE i + 1
    <3>1. \A i \in 1..(n - 1) : from(i) \in 1..n /\ from(i) # at /\ new[i] = paths[from(i)]
      BY <1>1, <2>3, <2>8
    <3>2. \A i, j \in 1..(n - 1) : from(i) = from(j) => i = j
      BY <2>3
    <3> HIDE DEF from
    <3>3. \A i \in 1..(n - 1) : new[i].path # path.path
      <4>1. \A i \in 1..n : i # at => paths[i].path # path.history
        BY <1>1, <2>3, <2>15 DEF PathsDiffer
      <4>2. \A i \in 1..(n - 1) : new[i] \in kept
        BY <1>2, <3>1, <4>1
      <4> QED BY <2>15, <4>2
    <3>4. \A i, j \in 1..(n - 1) : new[i].path = new[j].path => i = j
      BY <1>1, <2>15, <3>1, <3>2 DEF PathsDiffer
    <3>5. \A i, j \in 1..n : new[i].path = new[j].path => i = j
      <4>1. new[n].path = path.path
        BY <2>4, <2>8
      <4> QED BY <2>9, <3>3, <3>4, <4>1
    <3> QED BY <2>8, <3>5 DEF PathsDiffer
  <2>16. ASSUME PathsDiffer(paths)
         PROVE  Continues(new, last, path, paths)
    <3>1. paths[at] \in Range(paths)
      BY <1>2, <2>3
    <3> QED BY <2>3, <2>4, <2>14, <2>16, <3>1 DEF Continues
  <2>17. \A e \in Range(new) : e \in Range(paths) \/ e.path = path.path
    BY <1>2, <2>4, <2>12
  <2> QED BY <2>8, <2>15, <2>16, <2>17
<1> QED BY <1>3, <1>4

(* The staged list after each unstaged entry, one after the other.         *)
IsComposition(paths, staged, unstaged) ==
  /\ paths[0] = staged
  /\ \A k \in 1..Len(unstaged) : paths[k] = Compose(paths[k - 1], unstaged[k])

LEMMA ComposedUnfolds ==
  ASSUME NEW staged, NEW unstaged, Len(unstaged) \in Nat
  PROVE  \E paths : /\ IsComposition(paths, staged, unstaged)
                    /\ Composed(staged, unstaged) = paths[Len(unstaged)]
<1>1. PICK M \in Nat : M = Len(unstaged)
  OBVIOUS
<1> DEFINE Value(g, k) == IF k = 0 THEN staged ELSE Compose(g[k - 1], unstaged[k])
           Solves(g, k) == g[k] = Value(g, k)
           Tabulated(g) == g = [k \in 0..M |-> g[k]]
           N == {m \in Nat : \E g : Tabulated(g) /\ \A k \in 0..M : k <= m => Solves(g, k)}
<1>2. 0 \in N
  <2>1. PICK g : g = [k \in 0..M |-> staged]
    OBVIOUS
  <2>2. \A k \in 0..M : k <= 0 => k = 0 /\ g[k] = staged
    BY <2>1
  <2>3. Tabulated(g)
    BY <2>1
  <2>4. \A k \in 0..M : k <= 0 => Solves(g, k)
    BY <2>2
  <2> HIDE DEF Solves, Tabulated
  <2> QED BY <2>3, <2>4
<1>3. ASSUME NEW m \in Nat, m \in N
      PROVE  m + 1 \in N
  <2>1. PICK g : Tabulated(g) /\ \A k \in 0..M : k <= m => Solves(g, k)
    BY <1>3
  <2>2. PICK next : next = [k \in 0..M |-> IF k = m + 1 THEN Value(g, k) ELSE g[k]]
    OBVIOUS
  <2>3. ASSUME NEW k \in 0..M, k <= m + 1
        PROVE  Solves(next, k)
    <3>1. CASE k = 0
      <4>1. k <= m /\ k # m + 1
        BY <3>1
      <4>2. next[k] = g[k]
        BY <2>2, <4>1
      <4>3. g[k] = staged
        BY <2>1, <3>1, <4>1
      <4> QED BY <3>1, <4>2, <4>3
    <3>2. CASE k # 0
      <4>1. k - 1 \in 0..M /\ k - 1 # m + 1
        BY <1>1, <2>3, <3>2
      <4>2. next[k - 1] = g[k - 1]
        BY <2>2, <4>1
      <4>3. next[k] = Value(g, k)
        <5>1. CASE k = m + 1
          BY <2>2, <5>1
        <5>2. CASE k # m + 1
          <6>1. k <= m /\ next[k] = g[k]
            BY <2>2, <2>3, <5>2
          <6> QED BY <2>1, <6>1
        <5> QED BY <5>1, <5>2
      <4> QED BY <3>2, <4>2, <4>3
    <3> QED BY <3>1, <3>2
  <2>4. Tabulated(next)
    BY <2>2
  <2>5. \A k \in 0..M : k <= m + 1 => Solves(next, k)
    BY <2>3
  <2> HIDE DEF Solves, Tabulated
  <2> QED BY <2>4, <2>5
<1>4. M \in N
  <2> HIDE DEF N
  <2> QED BY <1>1, <1>2, <1>3, NumbersByInduction
<1>5. PICK g : Tabulated(g) /\ \A k \in 0..M : k <= M => Solves(g, k)
  BY <1>4
<1>6. g = [k \in 0..M |-> Value(g, k)]
  BY <1>1, <1>5
<1> DEFINE paths == CHOOSE h : h = [k \in 0..Len(unstaged) |-> Value(h, k)]
<1>7. paths = [k \in 0..M |-> Value(paths, k)]
  BY <1>1, <1>6
<1>8. Composed(staged, unstaged) = paths[M]
  BY <1>1 DEF Composed
<1> HIDE DEF paths
<1>9. IsComposition(paths, staged, unstaged)
  <2>1. 0 \in 0..M /\ \A k \in 1..M : k \in 0..M /\ k # 0
    BY <1>1
  <2> QED BY <1>1, <1>7, <2>1 DEF IsComposition
<1> QED BY <1>1, <1>8, <1>9

(* What the list of all changes names is in one of the two diffs.          *)
LEMMA PathsOfComposed ==
  ASSUME NEW staged \in Seq(Entries), NEW unstaged \in Seq(Entries)
  PROVE  /\ Composed(staged, unstaged) \in Seq(Entries)
         /\ \A e \in Range(Composed(staged, unstaged)) :
              \E d \in Range(staged) \cup Range(unstaged) : e.path = d.path
<1>1. PICK M \in Nat : M = Len(unstaged) /\ DOMAIN unstaged = 1..M
  OBVIOUS
<1>2. PICK paths : /\ IsComposition(paths, staged, unstaged)
                   /\ Composed(staged, unstaged) = paths[M]
  BY <1>1, ComposedUnfolds
<1> DEFINE Names(list) ==
             \A e \in Range(list) : \E d \in Range(staged) \cup Range(unstaged) : e.path = d.path
           N == {k \in Nat : k <= M => paths[k] \in Seq(Entries) /\ Names(paths[k])}
<1>3. 0 \in N
  <2>1. Names(staged)
    OBVIOUS
  <2> HIDE DEF Names
  <2> QED BY <1>2, <2>1 DEF IsComposition
<1>4. ASSUME NEW k \in Nat, k \in N
      PROVE  k + 1 \in N
  <2> SUFFICES ASSUME k + 1 <= M PROVE paths[k + 1] \in Seq(Entries) /\ Names(paths[k + 1])
    OBVIOUS
  <2>1. k <= M /\ k + 1 \in 1..M /\ (k + 1) - 1 = k
    BY <1>1
  <2>2. paths[k] \in Seq(Entries) /\ Names(paths[k])
    BY <1>4, <2>1
  <2>3. unstaged[k + 1] \in Entries /\ unstaged[k + 1] \in Range(unstaged)
    BY <1>1, <2>1 DEF Range
  <2>4. paths[k + 1] = Compose(paths[k], unstaged[k + 1])
    BY <1>1, <1>2, <2>1 DEF IsComposition
  <2>5. /\ paths[k + 1] \in Seq(Entries)
        /\ \A e \in Range(paths[k + 1]) :
             e \in Range(paths[k]) \/ e.path = unstaged[k + 1].path
    <3>1. PICK old \in Seq(Entries) : old = paths[k]
      BY <2>2
    <3>2. PICK u \in Entries : u = unstaged[k + 1]
      BY <2>3
    <3>3. PICK new : new = Compose(old, u)
      OBVIOUS
    <3>4. new \in Seq(Entries) /\ \A e \in Range(new) : e \in Range(old) \/ e.path = u.path
      BY <3>3, ComposeFacts
    <3> QED BY <2>4, <3>1, <3>2, <3>3, <3>4
  <2> QED BY <2>2, <2>3, <2>5
<1>5. M \in N
  <2> HIDE DEF N
  <2> QED BY <1>1, <1>3, <1>4, NumbersByInduction
<1>6. M <= M
  BY <1>1
<1> QED BY <1>2, <1>5, <1>6

(* An unstaged entry goes on from at most one staged entry, and no two of  *)
(* them from the same.                                                     *)
Apart(staged, unstaged) ==
  /\ \A u, v \in Range(unstaged) : u # v => u.history # v.history /\ u.path # v.history
  /\ \A s \in Range(staged), u \in Range(unstaged) : s.path = u.path => u.history = s.path

(* after gives the history of a name in the index.                         *)
IsHistory(after, staged, unstaged) ==
  /\ \A s \in Range(staged) : after[s.path] = s.history
  /\ \A u \in Range(unstaged) :
       (\A s \in Range(staged) : s.path # u.history) => after[u.history] = u.history

(* Then each unstaged entry ends up with the history of the staged one it  *)
(* goes on from, and the other staged ones stay.                           *)
LEMMA ComposedFacts ==
  ASSUME NEW staged \in Seq(Entries), PathsDiffer(staged),
         NEW unstaged \in Seq(Entries), PathsDiffer(unstaged),
         Apart(staged, unstaged), NEW after, IsHistory(after, staged, unstaged)
  PROVE  LET list == Composed(staged, unstaged)
         IN  /\ PathsDiffer(list)
             /\ Range(list) =
                  {s \in Range(staged) : \A u \in Range(unstaged) : u.history # s.path}
                    \cup {Entry(u.path, after[u.history]) : u \in Range(unstaged)}
<1>1. PICK M \in Nat : M = Len(unstaged) /\ DOMAIN unstaged = 1..M
  OBVIOUS
<1>2. PICK paths : /\ IsComposition(paths, staged, unstaged)
                   /\ Composed(staged, unstaged) = paths[M]
  BY <1>1, ComposedUnfolds
<1>3. Range(unstaged) = {unstaged[i] : i \in 1..M}
  BY <1>1 DEF Range
<1> DEFINE Moved(i) == Entry(unstaged[i].path, after[unstaged[i].history])
           Kept(k) == {s \in Range(staged) : \A i \in 1..k : unstaged[i].history # s.path}
           Done(k) == {Moved(i) : i \in 1..k}
           Right(list, k) ==
             /\ list \in Seq(Entries) /\ PathsDiffer(list)
             /\ Range(list) = Kept(k) \cup Done(k)
           N == {k \in Nat : k <= M => Right(paths[k], k)}
<1>4. 0 \in N
  <2>1. Kept(0) = Range(staged) /\ Done(0) = {}
    OBVIOUS
  <2> HIDE DEF Kept, Done
  <2> QED BY <1>2, <2>1 DEF IsComposition
<1>5. ASSUME NEW k \in Nat, k \in N
      PROVE  k + 1 \in N
  <2> SUFFICES ASSUME k + 1 <= M PROVE Right(paths[k + 1], k + 1)
    OBVIOUS
  <2>1. k <= M /\ k + 1 \in 1..M /\ (k + 1) - 1 = k
    BY <1>1
  <2>2. PICK old \in Seq(Entries) : old = paths[k] /\ Right(old, k)
    BY <1>5, <2>1
  <2>3. PICK u \in Entries : u = unstaged[k + 1] /\ u \in Range(unstaged)
    BY <1>1, <2>1 DEF Range
  <2>4. PICK new : new = Compose(old, u) /\ new = paths[k + 1]
    BY <1>1, <1>2, <2>1, <2>2, <2>3 DEF IsComposition
  <2>5. \A i \in 1..k :
          /\ i \in 1..M /\ i # k + 1
          /\ unstaged[i] \in Range(unstaged) /\ unstaged[i] \in Entries
    <3>1. \A i \in 1..k : i \in 1..M /\ i # k + 1
      BY <2>1
    <3> QED BY <1>1, <1>3, <3>1
  <2>6. \A i \in 1..k :
          unstaged[i].path # u.path /\ unstaged[i].history # u.history /\ unstaged[i].path # u.history
    <3>1. \A i \in 1..k : unstaged[i].path # u.path
      BY <1>1, <2>1, <2>3, <2>5 DEF PathsDiffer
    <3>2. \A i \in 1..k : unstaged[i] # u
      BY <3>1
    <3> QED BY <2>3, <2>5, <3>1, <3>2 DEF Apart
  <2>7. \A e \in Done(k) : e.path # u.history /\ e.path # u.path
    BY <2>6 DEF Entry
  <2>8. \A i \in 1..(k + 1) : i \in 1..k \/ i = k + 1
    OBVIOUS
  <2>9. \A i \in 1..k : i \in 1..(k + 1)
    OBVIOUS
  <2>10. k + 1 \in 1..(k + 1)
    OBVIOUS
  <2>11. Kept(k + 1) = {s \in Kept(k) : u.history # s.path}
    BY <2>3, <2>8, <2>9, <2>10
  <2>12. Done(k + 1) = Done(k) \cup {Entry(u.path, after[u.history])}
    BY <2>3, <2>8, <2>9, <2>10
  <2>13. \A s \in Kept(k) : s \in Range(staged)
    OBVIOUS
  <2>14. \A s \in Range(staged) : s.path = u.history => s \in Kept(k)
    BY <2>6
  <2> HIDE DEF Kept, Done
  <2>15. {s \in Range(old) : s.path # u.history} = Kept(k + 1) \cup Done(k)
    BY <2>2, <2>7, <2>11
  <2>16. \A s \in Range(old) : s.path # u.history => s.path # u.path
    <3>1. \A s \in Kept(k + 1) : s.path # u.path
      BY <2>3, <2>11, <2>13 DEF Apart
    <3> QED BY <2>7, <2>15, <3>1
  <2>17. PathsDiffer(old) /\ new = Compose(old, u)
    BY <2>2, <2>4
  <2> HIDE DEF Right
  <2>18. new \in Seq(Entries) /\ PathsDiffer(new) /\ \E e : Continues(new, e, u, old)
    BY <2>16, <2>17, ComposeFacts
  <2>19. PICK e : Continues(new, e, u, old)
    BY <2>18
  <2>20. e.history = after[u.history]
    <3>1. CASE \E s \in Range(staged) : s.path = u.history
      <4>1. PICK s \in Range(staged) : s.path = u.history
        BY <3>1
      <4>2. s \in Range(old) /\ after[s.path] = s.history
        BY <2>2, <2>14, <4>1 DEF Right, IsHistory
      <4> QED BY <2>19, <4>1, <4>2 DEF Continues
    <3>2. CASE \A s \in Range(staged) : s.path # u.history
      <4>1. \A s \in Range(old) : s.path # u.history
        BY <2>2, <2>7, <2>13, <3>2 DEF Right
      <4>2. after[u.history] = u.history
        BY <2>3, <3>2 DEF IsHistory
      <4> QED BY <2>19, <4>1, <4>2 DEF Continues
    <3> QED BY <3>1, <3>2
  <2>21. e = Entry(u.path, after[u.history])
    BY <2>19, <2>20 DEF Entry, Entries, Continues
  <2>22. Range(new) = Kept(k + 1) \cup Done(k + 1)
    BY <2>12, <2>15, <2>19, <2>21 DEF Continues
  <2> QED BY <2>4, <2>18, <2>22 DEF Right
<1>6. M \in N
  <2> HIDE DEF N
  <2> QED BY <1>1, <1>4, <1>5, NumbersByInduction
<1>7. Right(paths[M], M)
  BY <1>1, <1>6
<1>8. Kept(M) = {s \in Range(staged) : \A u \in Range(unstaged) : u.history # s.path}
  BY <1>3
<1>9. Done(M) = {Entry(u.path, after[u.history]) : u \in Range(unstaged)}
  BY <1>3
<1> HIDE DEF Kept, Done
<1> QED BY <1>2, <1>7, <1>8, <1>9

-----------------------------------------------------------------------------
(* What is known of the renames git reports in one diff.                   *)
LEMMA RenameFacts ==
  ASSUME NEW old, NEW new, NEW f \in RenamesOf(old, new)
  PROVE  /\ \A p \in DOMAIN f :
              /\ p \in Paths /\ old[p] = None /\ new[p] # None
              /\ f[p] \in Paths /\ old[f[p]] # None /\ new[f[p]] = None
         /\ \A p, q \in DOMAIN f : f[p] = f[q] => p = q
         /\ \A p \in Shown(old, new, f) :
              p \in Paths /\ old[p] # new[p] /\ \A q \in DOMAIN f : f[q] # p
         /\ \A p \in Paths :
              old[p] # new[p] => p \in Shown(old, new, f) \/ \E q \in DOMAIN f : p = f[q]
<1>1. PICK S \in SUBSET Added(old, new) : f \in [S -> Deleted(old, new)]
  BY DEF RenamesOf
<1>2. DOMAIN f = S /\ \A p \in S : f[p] \in Deleted(old, new) /\ p \in Added(old, new)
  BY <1>1
<1>3. \A p, q \in DOMAIN f : f[p] = f[q] => p = q
  BY DEF RenamesOf, IsInjective
<1>4. \A p \in DOMAIN f :
        /\ p \in Paths /\ old[p] = None /\ new[p] # None
        /\ f[p] \in Paths /\ old[f[p]] # None /\ new[f[p]] = None
  BY <1>2 DEF Added, Deleted
<1>5. \A p : p \in Range(f) <=> \E q \in DOMAIN f : p = f[q]
  BY DEF Range
<1>6. \A p : p \in Shown(old, new, f) <=> p \in Paths /\ old[p] # new[p] /\ p \notin Range(f)
  BY DEF Shown
<1> QED BY <1>3, <1>4, <1>5, <1>6

LEMMA ThroughFacts ==
  ASSUME NEW old, NEW new, NEW f \in RenamesOf(old, new)
  PROVE  /\ Shown(old, new, f) \subseteq Paths
         /\ \A p \in Paths : Through(f, p) \in Paths
         /\ \A p \in Shown(old, new, f), q \in Paths : Through(f, q) = p => q = p
         /\ \A p, q \in Shown(old, new, f) : Through(f, p) = Through(f, q) => p = q
         /\ \A p \in Paths : p \notin Shown(old, new, f) => Through(f, p) = p
<1>1. \A p \in DOMAIN f : p \in Shown(old, new, f)
  <2> SUFFICES ASSUME NEW p \in DOMAIN f PROVE p \in Shown(old, new, f)
    OBVIOUS
  <2>1. p \in Paths /\ old[p] # new[p]
    BY RenameFacts
  <2>2. \A q \in DOMAIN f : f[q] # p
    BY RenameFacts
  <2> QED BY <2>1, <2>2 DEF Shown, Range
<1>2. \A p \in DOMAIN f : f[p] \in Paths
  BY RenameFacts
<1>3. \A p, q \in DOMAIN f : f[p] = f[q] => p = q
  BY RenameFacts
<1>4. \A p \in Shown(old, new, f) : p \in Paths /\ \A q \in DOMAIN f : f[q] # p
  BY RenameFacts
<1> QED BY <1>1, <1>2, <1>3, <1>4 DEF Through

(* The entries of one diff.                                                *)
LEMMA DiffFacts ==
  ASSUME NEW old, NEW new, NEW f \in RenamesOf(old, new)
  PROVE  LET list == git_diff_audit_paths(old, new, f)
         IN  /\ list \in Seq(Entries) /\ PathsDiffer(list)
             /\ Range(list) = {Entry(p, Through(f, p)) : p \in Shown(old, new, f)}
<1> DEFINE S == Shown(old, new, f)
           list == git_diff_audit_paths(old, new, f)
<1>1. S \in SUBSET Paths /\ \A p \in Paths : Through(f, p) \in Paths
  BY ThroughFacts
<1>2. PICK lines : lines = InOrder(S)
  OBVIOUS
<1>3. Range(lines) = S /\ \A i \in DOMAIN lines : lines[i] \in S
  BY <1>1, <1>2, InOrderFacts DEF Lists, Range
<1>4. list = [i \in DOMAIN lines |-> Entry(lines[i], Through(f, lines[i]))]
  BY <1>2 DEF git_diff_audit_paths
<1> HIDE DEF S, list
<1>5. \A i \in DOMAIN lines :
        /\ list[i] = Entry(lines[i], Through(f, lines[i]))
        /\ list[i] \in Entries /\ list[i].path = lines[i]
  BY <1>1, <1>3, <1>4, EntryFacts
<1>6. DOMAIN list = DOMAIN lines /\ list = [i \in DOMAIN list |-> list[i]]
  BY <1>4
<1>7. list \in Seq(Entries) /\ PathsDiffer(list)
  BY <1>1, <1>2, <1>5, <1>6, ListFacts
<1>8. Range(list) = {Entry(p, Through(f, p)) : p \in S}
  <2>1. \A e \in Range(list) : \E i \in DOMAIN lines : e = Entry(lines[i], Through(f, lines[i]))
    BY <1>5, <1>6 DEF Range
  <2>2. \A i \in DOMAIN lines : Entry(lines[i], Through(f, lines[i])) \in Range(list)
    BY <1>5, <1>6 DEF Range
  <2>3. \A p \in S : \E i \in DOMAIN lines : p = lines[i]
    BY <1>3 DEF Range
  <2> QED BY <1>3, <2>1, <2>2, <2>3
<1> QED BY <1>7, <1>8 DEF S, list

(* The entries of the files that are not tracked.                          *)
LEMMA OthersFacts ==
  /\ Others \in Seq(Entries)
  /\ Range(Others) = {Entry(p, p) : p \in Untracked}
<1>1. Untracked \in SUBSET Paths
  BY DEF Untracked
<1>2. PICK lines : lines = InOrder(Untracked)
  OBVIOUS
<1>3. Range(lines) = Untracked /\ \A i \in DOMAIN lines : lines[i] \in Untracked
  BY <1>1, <1>2, InOrderFacts DEF Lists, Range
<1>4. PICK list : list = Others /\ list = [i \in DOMAIN lines |-> Entry(lines[i], lines[i])]
  BY <1>2 DEF Others
<1>5. \A i \in DOMAIN lines :
        /\ list[i] = Entry(lines[i], lines[i])
        /\ list[i] \in Entries /\ list[i].path = lines[i]
  BY <1>1, <1>3, <1>4, EntryFacts
<1>6. DOMAIN list = DOMAIN lines /\ list = [i \in DOMAIN list |-> list[i]]
  BY <1>4
<1>7. list \in Seq(Entries)
  BY <1>1, <1>2, <1>5, <1>6, ListFacts
<1>8. Range(list) = {Entry(p, p) : p \in Untracked}
  <2>1. \A e \in Range(list) : \E i \in DOMAIN lines : e = Entry(lines[i], lines[i])
    BY <1>5, <1>6 DEF Range
  <2>2. \A i \in DOMAIN lines : Entry(lines[i], lines[i]) \in Range(list)
    BY <1>5, <1>6 DEF Range
  <2>3. \A p \in Untracked : \E i \in DOMAIN lines : p = lines[i]
    BY <1>3 DEF Range
  <2> QED BY <1>3, <2>1, <2>2, <2>3
<1> QED BY <1>4, <1>7, <1>8

(* The first of the entries of each path is left.                          *)
LEMMA OnePerPathFacts ==
  ASSUME NEW list \in Seq(Entries)
  PROVE  /\ OnePerPath(list) \subseteq Range(list)
         /\ \A e, f \in OnePerPath(list) : e.path = f.path => e = f
         /\ (\A e, f \in Range(list) : e.path = f.path => e = f) => OnePerPath(list) = Range(list)
<1> DEFINE first == {j \in DOMAIN list : \A k \in 1..j - 1 : list[k].path # list[j].path}
<1>1. PICK n \in Nat : n = Len(list) /\ DOMAIN list = 1..n
  OBVIOUS
<1>2. OnePerPath(list) = {list[j] : j \in first}
  BY DEF OnePerPath
<1>3. Range(list) = {list[j] : j \in 1..n}
  BY <1>1 DEF Range
<1>4. \A j \in first : j \in 1..n
  BY <1>1
<1>5. \A i, j \in first : list[i].path = list[j].path => i = j
  <2> SUFFICES ASSUME NEW i \in first, NEW j \in first, list[i].path = list[j].path, i # j
               PROVE  FALSE
    OBVIOUS
  <2>1. i \in 1..n /\ j \in 1..n
    BY <1>4
  <2>2. CASE i < j
    <3>1. i \in 1..j - 1
      BY <2>1, <2>2
    <3> QED BY <3>1
  <2>3. CASE j < i
    <3>1. j \in 1..i - 1
      BY <2>1, <2>3
    <3> QED BY <3>1
  <2> QED BY <2>1, <2>2, <2>3
<1>6. \A e, f \in OnePerPath(list) : e.path = f.path => e = f
  BY <1>2, <1>5
<1>7. \A i \in 1..n : \E j \in first : list[j].path = list[i].path
  <2> SUFFICES ASSUME NEW i \in 1..n PROVE \E j \in first : list[j].path = list[i].path
    OBVIOUS
  <2> DEFINE same == {j \in 1..n : list[j].path = list[i].path}
  <2>1. same \in SUBSET Nat /\ same # {}
    BY <1>1
  <2>2. PICK j \in same : \A k \in same : j <= k
    BY <2>1, SmallestNumber
  <2>3. \A k \in 1..j - 1 : k \in 1..n /\ ~(j <= k)
    BY <1>1
  <2>4. \A k \in 1..j - 1 : list[k].path # list[j].path
    BY <2>2, <2>3
  <2>5. j \in first
    BY <1>1, <2>4
  <2> QED BY <2>5
<1> HIDE DEF first
<1>8. OnePerPath(list) \subseteq Range(list)
  BY <1>2, <1>3, <1>4
<1>9. ASSUME \A e, f \in Range(list) : e.path = f.path => e = f
      PROVE  Range(list) \subseteq OnePerPath(list)
  BY <1>2, <1>3, <1>4, <1>7, <1>9
<1> QED BY <1>6, <1>8, <1>9

-----------------------------------------------------------------------------
(* Of the staged entries, the paths no unstaged one goes on from; and what *)
(* an audit lists where no name is reused.                                 *)
Stay(f, g) ==
  {p \in Shown(head, Indexed, f) :
     \A q \in Shown(Indexed, Tracked, g) : Through(g, q) # p}

Listed(f, g) ==
  {Entry(p, Through(f, p)) : p \in Stay(f, g)}
    \cup {Entry(q, Through(f, Through(g, q))) : q \in Shown(Indexed, Tracked, g)}
    \cup {Entry(p, p) : p \in Untracked}

LEMMA StateFacts ==
  /\ \A p \in Paths : Indexed[p] = None <=> index[p] \in {None, Intent}
  /\ \A p \in Paths : Tracked[p] = IF index[p] = None THEN None ELSE worktree[p]
  /\ \A p \in Untracked :
       p \in Paths /\ index[p] = None /\ Indexed[p] = None /\ Tracked[p] = None
         /\ worktree[p] # None
BY DEF Indexed, Content, Tracked, Untracked

(* A file that is not tracked is in no rename; the new name of an unstaged *)
(* rename is not in the staged diff, and what an unstaged entry goes on    *)
(* from was not renamed away.                                              *)
LEMMA NamesApart ==
  ASSUME NEW f \in RenamesOf(head, Indexed), NEW g \in RenamesOf(Indexed, Tracked)
  PROVE  /\ \A p \in Untracked :
              /\ p \notin DOMAIN f /\ p \notin DOMAIN g /\ p \notin Shown(Indexed, Tracked, g)
              /\ Through(f, p) = p /\ Through(g, p) = p
         /\ NoNameReused =>
              /\ \A p \in Shown(head, Indexed, f) : p \notin DOMAIN g /\ Through(g, p) = p
              /\ \A q \in Shown(Indexed, Tracked, g), y \in DOMAIN f : f[y] # Through(g, q)
<1>1. /\ \A p \in DOMAIN f : p \in Paths /\ head[p] = None /\ Indexed[p] # None
      /\ \A p \in DOMAIN f : f[p] \in Paths /\ head[f[p]] # None /\ Indexed[f[p]] = None
      /\ \A p \in Shown(head, Indexed, f) : p \in Paths /\ head[p] # Indexed[p]
  BY RenameFacts
<1>2. /\ \A p \in DOMAIN g : p \in Paths /\ Indexed[p] = None /\ Tracked[p] # None
      /\ \A p \in DOMAIN g : g[p] \in Paths /\ Indexed[g[p]] # None /\ Tracked[g[p]] = None
      /\ \A p \in Shown(Indexed, Tracked, g) : p \in Paths /\ Indexed[p] # Tracked[p]
  BY RenameFacts
<1>3. \A p \in Untracked :
        p \notin DOMAIN f /\ p \notin DOMAIN g /\ p \notin Shown(Indexed, Tracked, g)
  BY <1>1, <1>2, StateFacts
<1>4. \A p \in Untracked : Through(f, p) = p /\ Through(g, p) = p
  BY <1>3 DEF Through
<1>5. ASSUME NoNameReused
      PROVE  /\ \A p \in Shown(head, Indexed, f) : p \notin DOMAIN g /\ Through(g, p) = p
             /\ \A q \in Shown(Indexed, Tracked, g), y \in DOMAIN f : f[y] # Through(g, q)
  <2>1. \A p \in Paths : Indexed[p] = None /\ Tracked[p] # None => head[p] = None
    BY <1>5, StateFacts DEF NoNameReused
  <2>2. \A p \in Shown(head, Indexed, f) : p \notin DOMAIN g
    BY <1>1, <1>2, <2>1
  <2>3. \A q \in Shown(Indexed, Tracked, g), y \in DOMAIN f : f[y] # Through(g, q)
    <3> SUFFICES ASSUME NEW q \in Shown(Indexed, Tracked, g), NEW y \in DOMAIN f,
                        f[y] = Through(g, q)
                 PROVE  FALSE
      OBVIOUS
    <3>1. CASE q \in DOMAIN g
      BY <1>1, <1>2, <3>1 DEF Through
    <3>2. CASE q \notin DOMAIN g
      BY <1>1, <1>2, <2>1, <3>2 DEF Through
    <3> QED BY <3>1, <3>2
  <2> QED BY <2>2, <2>3 DEF Through
<1> QED BY <1>3, <1>4, <1>5

LEMMA ListedFacts ==
  ASSUME NEW f, NEW g, NEW e \in Listed(f, g)
  PROVE  \/ \E p \in Stay(f, g) : e.path = p /\ e.history = Through(f, p)
         \/ \E q \in Shown(Indexed, Tracked, g) :
              e.path = q /\ e.history = Through(f, Through(g, q))
         \/ \E p \in Untracked : e.path = p /\ e.history = p
BY DEF Listed, Entry

(* Both renames are followed.                                              *)
LEMMA ListedHistories ==
  ASSUME NEW f \in RenamesOf(head, Indexed), NEW g \in RenamesOf(Indexed, Tracked),
         NoNameReused, NEW e \in Listed(f, g)
  PROVE  e.history = Through(f, Through(g, e.path))
<1>1. CASE \E p \in Stay(f, g) : e.path = p /\ e.history = Through(f, p)
  <2>1. \A p \in Stay(f, g) : Through(g, p) = p
    BY NamesApart DEF Stay
  <2> QED BY <1>1, <2>1
<1>2. CASE \E q \in Shown(Indexed, Tracked, g) :
             e.path = q /\ e.history = Through(f, Through(g, q))
  BY <1>2
<1>3. CASE \E p \in Untracked : e.path = p /\ e.history = p
  BY <1>3, NamesApart
<1> QED BY <1>1, <1>2, <1>3, ListedFacts

(* What differs between HEAD and the worktree is listed, or is the old     *)
(* name of what is listed.                                                 *)
LEMMA NothingUnlisted ==
  ASSUME NEW f \in RenamesOf(head, Indexed), NEW g \in RenamesOf(Indexed, Tracked),
         NEW p \in Paths, head[p] # worktree[p]
  PROVE  \E e \in Listed(f, g) : p \in {e.path, e.history}
<1> DEFINE Found(x) == \E e \in Listed(f, g) : x \in {e.path, e.history}
<1>1. \A x \in Stay(f, g) : Found(x) /\ Found(Through(f, x))
  <2>1. \A x \in Stay(f, g) : Entry(x, Through(f, x)) \in Listed(f, g)
    BY DEF Listed
  <2> QED BY <2>1 DEF Entry
<1>2. \A q \in Shown(Indexed, Tracked, g) : Found(q) /\ Found(Through(f, Through(g, q)))
  <2>1. \A q \in Shown(Indexed, Tracked, g) :
          Entry(q, Through(f, Through(g, q))) \in Listed(f, g)
    BY DEF Listed
  <2> QED BY <2>1 DEF Entry
<1>3. \A x \in Untracked : Found(x)
  <2>1. \A x \in Untracked : Entry(x, x) \in Listed(f, g)
    BY DEF Listed
  <2> QED BY <2>1 DEF Entry
<1> SUFFICES Found(p)
  OBVIOUS
<1> HIDE DEF Found
<1>4. /\ \A x \in DOMAIN f : x \in Paths /\ head[x] = None /\ Indexed[x] # None
      /\ \A x \in DOMAIN f : f[x] \in Paths /\ head[f[x]] # None /\ Indexed[f[x]] = None
      /\ \A x \in Paths :
           head[x] # Indexed[x] => x \in Shown(head, Indexed, f) \/ \E y \in DOMAIN f : x = f[y]
  BY RenameFacts
<1>5. /\ \A x \in DOMAIN g : x \in Paths /\ Indexed[x] = None /\ Tracked[x] # None
      /\ \A x \in DOMAIN g : g[x] \in Paths /\ Indexed[g[x]] # None /\ Tracked[g[x]] = None
      /\ \A x \in Paths :
           Indexed[x] # Tracked[x] =>
             x \in Shown(Indexed, Tracked, g) \/ \E y \in DOMAIN g : x = g[y]
      /\ \A x \in Shown(Indexed, Tracked, g) : Indexed[x] # Tracked[x]
  BY RenameFacts
<1>6. \A x \in DOMAIN f : x \in Shown(head, Indexed, f)
  BY <1>4, ThroughFacts DEF Through
<1>7. \A x \in DOMAIN g : x \in Shown(Indexed, Tracked, g)
  BY <1>5, ThroughFacts DEF Through
<1>8. \A x \in Shown(head, Indexed, f) :
        x \in Stay(f, g) \/ \E q \in Shown(Indexed, Tracked, g) : Through(g, q) = x
  BY DEF Stay
<1>9. \A x \in DOMAIN f : Found(f[x])
  <2> SUFFICES ASSUME NEW x \in DOMAIN f PROVE Found(f[x])
    OBVIOUS
  <2>1. Through(f, x) = f[x]
    BY DEF Through
  <2> QED BY <1>1, <1>2, <1>6, <1>8, <2>1
<1>10. CASE index[p] = None /\ worktree[p] # None
  BY <1>3, <1>10 DEF Untracked
<1>11. CASE head[p] # Indexed[p] /\ Indexed[p] = Tracked[p]
  <2>1. CASE p \in Shown(head, Indexed, f)
    <3>1. \A q \in Shown(Indexed, Tracked, g) : Through(g, q) # p
      BY <1>5, <1>11 DEF Through
    <3> QED BY <1>1, <1>8, <2>1, <3>1
  <2>2. CASE \E y \in DOMAIN f : p = f[y]
    BY <1>9, <2>2
  <2> QED BY <1>4, <1>11, <2>1, <2>2
<1>12. CASE Indexed[p] # Tracked[p]
  <2>1. index[p] # None
    BY <1>12, StateFacts
  <2>2. Tracked[p] = worktree[p]
    BY <2>1, StateFacts
  <2>3. CASE p \in Shown(Indexed, Tracked, g)
    BY <1>2, <2>3
  <2>4. CASE \E y \in DOMAIN g : p = g[y]
    <3>1. PICK y \in DOMAIN g : p = g[y]
      BY <2>4
    <3>2. p \notin DOMAIN f
      BY <1>4, <1>5, <2>2, <3>1
    <3>3. Through(g, y) = p /\ Through(f, p) = p
      BY <3>1, <3>2 DEF Through
    <3> QED BY <1>2, <1>7, <3>3
  <2> QED BY <1>5, <1>12, <2>3, <2>4
<1>13. Found(p)
  <2>1. CASE index[p] = None /\ worktree[p] = None
    <3>1. head[p] # Indexed[p] /\ Indexed[p] = Tracked[p]
      BY <2>1, StateFacts
    <3> QED BY <1>11, <3>1
  <2>2. CASE index[p] # None /\ Indexed[p] = Tracked[p]
    <3>1. head[p] # Indexed[p]
      BY <2>2, StateFacts
    <3> QED BY <1>11, <2>2, <3>1
  <2> QED BY <1>10, <1>12, <2>1, <2>2
<1> QED BY <1>13

(* Two entries have one history only where the old name is there again.    *)
LEMMA ListedOnce ==
  ASSUME NEW f \in RenamesOf(head, Indexed), NEW g \in RenamesOf(Indexed, Tracked),
         NoNameReused, NEW d \in Listed(f, g), NEW e \in Listed(f, g),
         d.path # e.path, d.history = e.history
  PROVE  worktree[e.history] # None
<1>1. ASSUME NEW x, NEW y, Through(f, x) = Through(f, y), x # y
      PROVE  \E z \in DOMAIN f : f[z] = x \/ f[z] = y
  <2>1. \A z, w \in DOMAIN f : f[z] = f[w] => z = w
    BY RenameFacts
  <2> QED BY <1>1, <2>1 DEF Through
<1>2. \A p \in Shown(head, Indexed, f), z \in DOMAIN f : f[z] # p
  BY RenameFacts
<1>3. \A q \in Shown(Indexed, Tracked, g), z \in DOMAIN f : f[z] # Through(g, q)
  BY NamesApart
<1>4. \A p, q \in Shown(Indexed, Tracked, g) : Through(g, p) = Through(g, q) => p = q
  BY ThroughFacts
<1>5. \A p \in Stay(f, g) :
        p \in Shown(head, Indexed, f) /\ \A q \in Shown(Indexed, Tracked, g) : Through(g, q) # p
  BY DEF Stay
<1>6. \A p \in Untracked : worktree[p] # None
  BY StateFacts
<1> DEFINE Staged(a) == \E p \in Stay(f, g) : a.path = p /\ a.history = Through(f, p)
           Unstaged(a) == \E q \in Shown(Indexed, Tracked, g) :
                            a.path = q /\ a.history = Through(f, Through(g, q))
           New(a) == \E p \in Untracked : a.path = p /\ a.history = p
<1>7. \A a \in Listed(f, g) : Staged(a) \/ Unstaged(a) \/ New(a)
  BY ListedFacts
<1>8. CASE New(d) \/ New(e)
  BY <1>6, <1>8
<1>9. CASE Staged(d) /\ Staged(e)
  <2>1. PICK p, q \in Stay(f, g) :
          /\ d.path = p /\ d.history = Through(f, p)
          /\ e.path = q /\ e.history = Through(f, q)
    BY <1>9
  <2>2. p # q /\ Through(f, p) = Through(f, q)
    BY <2>1
  <2>3. PICK z \in DOMAIN f : f[z] = p \/ f[z] = q
    BY <1>1, <2>2
  <2> QED BY <1>2, <1>5, <2>3
<1>10. CASE Unstaged(d) /\ Unstaged(e)
  <2>1. PICK p, q \in Shown(Indexed, Tracked, g) :
          /\ d.path = p /\ d.history = Through(f, Through(g, p))
          /\ e.path = q /\ e.history = Through(f, Through(g, q))
    BY <1>10
  <2>2. Through(g, p) # Through(g, q) /\ Through(f, Through(g, p)) = Through(f, Through(g, q))
    BY <1>4, <2>1
  <2>3. PICK z \in DOMAIN f : f[z] = Through(g, p) \/ f[z] = Through(g, q)
    BY <1>1, <2>2
  <2> QED BY <1>3, <2>3
<1>11. ASSUME NEW a, NEW b, a.history = b.history, Staged(a), Unstaged(b)
       PROVE  FALSE
  <2>1. PICK p \in Stay(f, g) : a.history = Through(f, p)
    BY <1>11
  <2>2. PICK q \in Shown(Indexed, Tracked, g) : b.history = Through(f, Through(g, q))
    BY <1>11
  <2>3. p # Through(g, q) /\ Through(f, p) = Through(f, Through(g, q))
    BY <1>5, <1>11, <2>1, <2>2
  <2> QED BY <1>1, <1>2, <1>3, <1>5, <2>3
<1> HIDE DEF Staged, Unstaged, New
<1> QED BY <1>7, <1>8, <1>9, <1>10, <1>11

-----------------------------------------------------------------------------
(* What one audit is told, given the renames git reports.                  *)
Told(f, g) ==
  OnePerPath(Composed(git_diff_audit_paths(head, Indexed, f),
                      git_diff_audit_paths(Indexed, Tracked, g)) \o Others)

LEMMA RangeOfConcat ==
  ASSUME NEW a \in Seq(Entries), NEW b \in Seq(Entries)
  PROVE  a \o b \in Seq(Entries) /\ Range(a \o b) = Range(a) \cup Range(b)
<1>0. PICK m \in Nat, n \in Nat : m = Len(a) /\ n = Len(b)
  OBVIOUS
<1>1. PICK c : c = a \o b
  OBVIOUS
<1>2. /\ c \in Seq(Entries) /\ DOMAIN c = 1..(m + n)
      /\ DOMAIN a = 1..m /\ DOMAIN b = 1..n
      /\ \A i \in 1..(m + n) : c[i] = IF i <= m THEN a[i] ELSE b[i - m]
  BY <1>0, <1>1, ConcatProperties
<1>3. \A i \in 1..(m + n) : IF i <= m THEN i \in 1..m ELSE i - m \in 1..n
  OBVIOUS
<1>4. \A i \in 1..m : i \in 1..(m + n) /\ i <= m
  OBVIOUS
<1>5. \A i \in 1..n : m + i \in 1..(m + n) /\ ~(m + i <= m) /\ (m + i) - m = i
  OBVIOUS
<1>6. \A i \in 1..(m + n) : c[i] \in Range(a) \cup Range(b)
  BY <1>2, <1>3 DEF Range
<1>7. \A i \in 1..m : a[i] \in Range(c)
  BY <1>2, <1>4 DEF Range
<1>8. \A i \in 1..n : b[i] \in Range(c)
  BY <1>2, <1>5 DEF Range
<1>9. Range(c) \subseteq Range(a) \cup Range(b)
  BY <1>2, <1>6 DEF Range
<1>10. Range(a) \subseteq Range(c) /\ Range(b) \subseteq Range(c)
  BY <1>2, <1>7, <1>8 DEF Range
<1> QED BY <1>1, <1>2, <1>9, <1>10

(* A path is listed once, and only if it is in one of the diffs or not     *)
(* tracked.                                                                *)
LEMMA ToldPaths ==
  ASSUME NEW f \in RenamesOf(head, Indexed), NEW g \in RenamesOf(Indexed, Tracked)
  PROVE  /\ \A d, e \in Told(f, g) : d.path = e.path => d = e
         /\ \A e \in Told(f, g) :
              head[e.path] # Indexed[e.path] \/ Indexed[e.path] # worktree[e.path]
<1> DEFINE staged == git_diff_audit_paths(head, Indexed, f)
           unstaged == git_diff_audit_paths(Indexed, Tracked, g)
           composed == Composed(staged, unstaged)
<1>1. staged \in Seq(Entries) /\ Range(staged) = {Entry(p, Through(f, p)) : p \in Shown(head, Indexed, f)}
  BY DiffFacts
<1>2. unstaged \in Seq(Entries) /\ Range(unstaged) = {Entry(p, Through(g, p)) : p \in Shown(Indexed, Tracked, g)}
  BY DiffFacts
<1>3. Told(f, g) = OnePerPath(composed \o Others)
  BY DEF Told
<1> HIDE DEF staged, unstaged
<1>4. /\ composed \in Seq(Entries)
      /\ \A e \in Range(composed) : \E d \in Range(staged) \cup Range(unstaged) : e.path = d.path
  BY <1>1, <1>2, PathsOfComposed
<1> HIDE DEF composed
<1>5. /\ composed \o Others \in Seq(Entries)
      /\ Range(composed \o Others) = Range(composed) \cup Range(Others)
  BY <1>4, OthersFacts, RangeOfConcat
<1>6. /\ Told(f, g) \subseteq Range(composed) \cup Range(Others)
      /\ \A d, e \in Told(f, g) : d.path = e.path => d = e
  <2>1. PICK list \in Seq(Entries) : list = composed \o Others
    BY <1>5
  <2>2. /\ OnePerPath(list) \subseteq Range(list)
        /\ \A d, e \in OnePerPath(list) : d.path = e.path => d = e
    BY OnePerPathFacts
  <2> QED BY <1>3, <1>5, <2>1, <2>2
<1>7. \A p \in Shown(head, Indexed, f) : head[p] # Indexed[p]
  BY RenameFacts
<1>8. \A p \in Shown(Indexed, Tracked, g) : p \in Paths /\ Indexed[p] # Tracked[p]
  BY RenameFacts
<1>9. \A p \in Shown(Indexed, Tracked, g) : Indexed[p] # worktree[p]
  BY <1>8, StateFacts
<1>10. \A p \in Untracked : Indexed[p] # worktree[p]
  BY StateFacts
<1>11. \A e \in Range(Others) : e.path \in Untracked
  BY OthersFacts DEF Entry
<1>12. \A e \in Range(staged) : e.path \in Shown(head, Indexed, f)
  BY <1>1 DEF Entry
<1>13. \A e \in Range(unstaged) : e.path \in Shown(Indexed, Tracked, g)
  BY <1>2 DEF Entry
<1>14. \A e \in Range(composed) :
         e.path \in Shown(head, Indexed, f) \cup Shown(Indexed, Tracked, g)
  BY <1>4, <1>12, <1>13
<1> QED BY <1>6, <1>7, <1>9, <1>10, <1>11, <1>14

(* Where no name is reused, what is told is known.                         *)
LEMMA ToldIsListed ==
  ASSUME NEW f \in RenamesOf(head, Indexed), NEW g \in RenamesOf(Indexed, Tracked),
         NoNameReused
  PROVE  Told(f, g) = Listed(f, g)
<1> DEFINE staged == git_diff_audit_paths(head, Indexed, f)
           unstaged == git_diff_audit_paths(Indexed, Tracked, g)
           composed == Composed(staged, unstaged)
           S == Shown(head, Indexed, f)
           U == Shown(Indexed, Tracked, g)
<1>1. PICK after : after = [p \in Paths |-> Through(f, p)]
  OBVIOUS
<1>2. /\ staged \in Seq(Entries) /\ PathsDiffer(staged)
      /\ Range(staged) = {Entry(p, Through(f, p)) : p \in S}
  BY DiffFacts
<1>3. /\ unstaged \in Seq(Entries) /\ PathsDiffer(unstaged)
      /\ Range(unstaged) = {Entry(p, Through(g, p)) : p \in U}
  BY DiffFacts
<1>4. Told(f, g) = OnePerPath(composed \o Others)
  BY DEF Told
<1>5. S \subseteq Paths /\ \A p \in Paths : p \notin S => Through(f, p) = p
  BY ThroughFacts
<1>6. /\ U \subseteq Paths /\ \A p \in Paths : Through(g, p) \in Paths
      /\ \A p \in U, q \in Paths : Through(g, q) = p => q = p
      /\ \A p, q \in U : Through(g, p) = Through(g, q) => p = q
  BY ThroughFacts
<1>7. \A p \in S : Through(g, p) = p
  BY NamesApart
<1>8. \A p \in Untracked : p \notin U /\ Through(f, p) = p
  BY NamesApart
<1>9. Listed(f, g) =
        {Entry(p, Through(f, p)) : p \in Stay(f, g)}
          \cup {Entry(q, Through(f, Through(g, q))) : q \in U}
          \cup {Entry(p, p) : p \in Untracked}
  BY DEF Listed
<1>10. \A p : p \in Stay(f, g) <=> p \in S /\ \A q \in U : Through(g, q) # p
  BY DEF Stay
<1> HIDE DEF staged, unstaged, S, U
<1>11. /\ \A s \in Range(staged) : s.path \in S /\ s.history = Through(f, s.path)
       /\ \A p \in S : \E s \in Range(staged) : s.path = p /\ s = Entry(p, Through(f, p))
  <2>1. \A p : Entry(p, Through(f, p)).path = p /\ Entry(p, Through(f, p)).history = Through(f, p)
    BY DEF Entry
  <2>2. \A s \in Range(staged) : \E p \in S : s = Entry(p, Through(f, p))
    BY <1>2
  <2>3. \A p \in S : Entry(p, Through(f, p)) \in Range(staged)
    BY <1>2
  <2> QED BY <2>1, <2>2, <2>3
<1>12. /\ \A u \in Range(unstaged) : u.path \in U /\ u.history = Through(g, u.path)
       /\ \A q \in U : \E u \in Range(unstaged) : u.path = q /\ u.history = Through(g, q)
  <2>1. \A q : Entry(q, Through(g, q)).path = q /\ Entry(q, Through(g, q)).history = Through(g, q)
    BY DEF Entry
  <2>2. \A u \in Range(unstaged) : \E q \in U : u = Entry(q, Through(g, q))
    BY <1>3
  <2>3. \A q \in U : Entry(q, Through(g, q)) \in Range(unstaged)
    BY <1>3
  <2> QED BY <2>1, <2>2, <2>3
<1>13. \A u, v \in Range(unstaged) : u.path = v.path => u = v
  BY <1>3 DEF Entry
<1>14. Apart(staged, unstaged)
  <2>1. \A u, v \in Range(unstaged) : u # v => u.history # v.history /\ u.path # v.history
    <3> SUFFICES ASSUME NEW u \in Range(unstaged), NEW v \in Range(unstaged), u # v
                 PROVE  u.history # v.history /\ u.path # v.history
      OBVIOUS
    <3>1. u.path \in U /\ v.path \in U /\ u.path # v.path
      BY <1>12, <1>13
    <3>2. u.history = Through(g, u.path) /\ v.history = Through(g, v.path) /\ v.path \in Paths
      BY <1>6, <1>12, <3>1
    <3> QED BY <1>6, <3>1, <3>2
  <2>2. \A s \in Range(staged), u \in Range(unstaged) : s.path = u.path => u.history = s.path
    BY <1>7, <1>11, <1>12
  <2> QED BY <2>1, <2>2 DEF Apart
<1>15. IsHistory(after, staged, unstaged)
  <2>1. \A s \in Range(staged) : after[s.path] = s.history
    BY <1>1, <1>5, <1>11
  <2>2. ASSUME NEW u \in Range(unstaged), \A s \in Range(staged) : s.path # u.history
        PROVE  after[u.history] = u.history
    <3>1. u.history \in Paths
      BY <1>6, <1>12
    <3>2. u.history \notin S
      BY <1>11, <2>2
    <3> QED BY <1>1, <1>5, <3>1, <3>2
  <2> QED BY <2>1, <2>2 DEF IsHistory
<1>16. /\ PathsDiffer(composed)
       /\ Range(composed) =
            {s \in Range(staged) : \A u \in Range(unstaged) : u.history # s.path}
              \cup {Entry(u.path, after[u.history]) : u \in Range(unstaged)}
  BY <1>2, <1>3, <1>14, <1>15, ComposedFacts
<1>17. composed \in Seq(Entries)
  BY <1>2, <1>3, PathsOfComposed
<1> HIDE DEF composed
<1>18. {s \in Range(staged) : \A u \in Range(unstaged) : u.history # s.path}
         = {Entry(p, Through(f, p)) : p \in Stay(f, g)}
  <2>1. ASSUME NEW s \in Range(staged), \A u \in Range(unstaged) : u.history # s.path
        PROVE  s.path \in Stay(f, g) /\ s = Entry(s.path, Through(f, s.path))
    <3>1. s.path \in S /\ \A q \in U : Through(g, q) # s.path
      BY <1>11, <1>12, <2>1
    <3>2. s = Entry(s.path, Through(f, s.path))
      BY <1>2 DEF Entry
    <3> QED BY <1>10, <3>1, <3>2
  <2>2. ASSUME NEW p \in Stay(f, g)
        PROVE  /\ Entry(p, Through(f, p)) \in Range(staged)
               /\ \A u \in Range(unstaged) : u.history # Entry(p, Through(f, p)).path
    <3>1. p \in S /\ \A u \in Range(unstaged) : u.history # p
      BY <1>10, <1>12
    <3> QED BY <1>2, <3>1 DEF Entry
  <2> QED BY <2>1, <2>2
<1>19. {Entry(u.path, after[u.history]) : u \in Range(unstaged)}
         = {Entry(q, Through(f, Through(g, q))) : q \in U}
  <2>1. \A q \in U : after[Through(g, q)] = Through(f, Through(g, q))
    BY <1>1, <1>6
  <2>2. \A u \in Range(unstaged) :
          u.path \in U /\ Entry(u.path, after[u.history]) = Entry(u.path, Through(f, Through(g, u.path)))
    BY <1>12, <2>1
  <2>3. \A q \in U : \E u \in Range(unstaged) : u.path = q
    BY <1>12
  <2> QED BY <2>2, <2>3
<1>20. Range(composed) \cup Range(Others) = Listed(f, g)
  BY <1>9, <1>16, <1>18, <1>19, OthersFacts
<1>21. /\ composed \o Others \in Seq(Entries)
       /\ Range(composed \o Others) = Listed(f, g)
  BY <1>17, <1>20, OthersFacts, RangeOfConcat
<1>22. \A d, e \in Range(composed) : d.path = e.path => d = e
  BY <1>16 DEF PathsDiffer, Range
<1>23. \A d, e \in Range(Others) : d.path = e.path => d = e
  BY OthersFacts DEF Entry
<1>24. \A d \in Range(composed), e \in Range(Others) : d.path = e.path => d = e
  <2> SUFFICES ASSUME NEW d \in Range(composed), NEW e \in Range(Others), d.path = e.path
               PROVE  d = e
    OBVIOUS
  <2>1. PICK p \in Untracked : e = Entry(p, p) /\ d.path = p
    BY OthersFacts DEF Entry
  <2>2. CASE \E x \in Stay(f, g) : d = Entry(x, Through(f, x))
    BY <1>8, <2>1, <2>2 DEF Entry
  <2>3. CASE \E q \in U : d = Entry(q, Through(f, Through(g, q)))
    BY <1>8, <2>1, <2>3 DEF Entry
  <2> QED BY <1>16, <1>18, <1>19, <2>2, <2>3
<1>25. \A d, e \in Listed(f, g) : d.path = e.path => d = e
  <2>1. \A d, e \in Range(composed) \cup Range(Others) : d.path = e.path => d = e
    BY <1>22, <1>23, <1>24
  <2> QED BY <1>20, <2>1
<1>26. PICK list \in Seq(Entries) : list = composed \o Others
  BY <1>21
<1>27. \A d, e \in Range(list) : d.path = e.path => d = e
  BY <1>21, <1>25, <1>26
<1>28. OnePerPath(list) = Range(list)
  BY <1>27, OnePerPathFacts
<1> QED BY <1>4, <1>21, <1>26, <1>28

-----------------------------------------------------------------------------
(* An audit is told the truth about the state it is run in, and every      *)
(* other action forgets it: so the properties are kept by every step       *)
(* without more.                                                           *)
PathsInv == EachChangeOnce /\ HeadPathOfNewNames

Types ==
  /\ head \in [Paths -> Contents \cup {None}]
  /\ index \in [Paths -> Contents \cup {None, Intent}]
  /\ worktree \in [Paths -> Contents \cup {None}]

Fresh == Types /\ audited = {}

LEMMA NothingTold == Fresh => PathsInv
BY DEF Fresh, Types, PathsInv, EachChangeOnce, HeadPathOfNewNames, TypeOK, NothingMissed,
       OneEntryPerHistory, Audited

LEMMA InitEstablishes == Init => PathsInv
BY NothingTold DEF Init, Fresh, Types

LEMMA UserKeeps ==
  ASSUME PathsInv, NEW p \in Paths,
         Stage(p) \/ \E c \in Contents \cup {None} : Write(p, c)
  PROVE  PathsInv'
<1>1. Types
  BY DEF PathsInv, EachChangeOnce, TypeOK, Types
<1>2. CASE Stage(p)
  <2>1. worktree[p] \in Contents \cup {None}
    BY <1>1 DEF Types
  <2>2. index' \in [Paths -> Contents \cup {None, Intent}] /\ audited' = {}
    BY <1>1, <1>2, <2>1 DEF Stage, Forget, Types
  <2>3. Fresh'
    BY <1>1, <1>2, <2>2 DEF Stage, Fresh, Types
  <2> QED BY <2>3, NothingTold, PTL
<1>3. CASE \E c \in Contents \cup {None} : Write(p, c)
  <2>1. Fresh'
    BY <1>1, <1>3 DEF Write, Forget, Fresh, Types
  <2> QED BY <2>1, NothingTold, PTL
<1> QED BY <1>2, <1>3

LEMMA AuditKeeps ==
  ASSUME PathsInv, git_worktree_audit_paths
  PROVE  PathsInv'
<1>1. Types
  BY DEF PathsInv, EachChangeOnce, TypeOK, Types
<1>2. PICK f \in RenamesOf(head, Indexed), g \in RenamesOf(Indexed, Tracked) :
        pairs' = [staged |-> f, unstaged |-> g] /\ audited' = Told(f, g)
  BY DEF git_worktree_audit_paths, Told
<1>3. head' = head /\ index' = index /\ worktree' = worktree
  BY DEF git_worktree_audit_paths
<1>4. Indexed' = Indexed /\ NoNameReused' = NoNameReused
  BY <1>3 DEF Indexed, Content, NoNameReused
<1>5. pairs'.staged = f /\ pairs'.unstaged = g
  BY <1>2
<1>6. Types'
  BY <1>1, <1>3 DEF Types
<1>7. \A d, e \in Told(f, g) : d.path = e.path => d = e
  BY ToldPaths
<1>8. \A e \in Told(f, g) :
        head[e.path] # Indexed[e.path] \/ Indexed[e.path] # worktree[e.path]
  BY ToldPaths
<1>9. TypeOK'
  BY <1>2, <1>3, <1>4, <1>6, <1>7, <1>8 DEF TypeOK, Types
<1>10. CASE ~NoNameReused
  BY <1>4, <1>9, <1>10
  DEF PathsInv, EachChangeOnce, HeadPathOfNewNames, NothingMissed, OneEntryPerHistory
<1>11. CASE NoNameReused
  <2>1. audited' = Listed(f, g)
    BY <1>2, <1>11, ToldIsListed
  <2>2. \A e \in Listed(f, g) : e.history = Through(f, Through(g, e.path))
    BY <1>11, ListedHistories
  <2>3. HeadPathOfNewNames'
    BY <1>5, <2>1, <2>2 DEF HeadPathOfNewNames, Through
  <2>4. \A p \in Paths :
          head[p] # worktree[p] => \E e \in Listed(f, g) : p \in {e.path, e.history}
    BY NothingUnlisted
  <2>5. NothingMissed'
    BY <1>3, <2>1, <2>4 DEF NothingMissed
  <2>6. \A d, e \in Listed(f, g) :
          d.history = e.history => d = e \/ worktree[d.history] # None
    BY <1>2, <1>7, <1>11, <2>1, ListedOnce
  <2>7. OneEntryPerHistory'
    BY <1>3, <2>1, <2>6 DEF OneEntryPerHistory
  <2> QED BY <1>9, <2>3, <2>5, <2>7 DEF PathsInv, EachChangeOnce
<1> QED BY <1>10, <1>11

(* The three properties together are kept by every step.                   *)
THEOREM PathsInvHolds == Spec => []PathsInv
<1>1. ASSUME PathsInv, [Next]_vars
      PROVE  PathsInv'
  <2>1. CASE \E p \in Paths : Stage(p) \/ (\E c \in Contents \cup {None} : Write(p, c))
    BY <1>1, <2>1, UserKeeps
  <2>2. CASE git_worktree_audit_paths
    BY <1>1, <2>2, AuditKeeps
  <2>3. CASE UNCHANGED vars
    BY <1>1, <2>3
    DEF vars, PathsInv, EachChangeOnce, HeadPathOfNewNames, TypeOK, NothingMissed,
        OneEntryPerHistory, Audited, NoNameReused, Indexed, Content, Through
  <2> QED BY <1>1, <2>1, <2>2, <2>3 DEF Next
<1> QED BY <1>1, InitEstablishes, PTL DEF Spec

(* However a user renames, stages and edits, and whichever pairs git takes *)
(* for renames: a worktree audit lists each changed path once, misses none *)
(* of what differs from HEAD, and asks for no history twice unless the old *)
(* name is in use again.                                                   *)
THEOREM ChangesAreListedOnce == Spec => []EachChangeOnce
<1>1. PathsInv => EachChangeOnce
  BY DEF PathsInv
<1> QED BY <1>1, PathsInvHolds, PTL

(* Where no deleted name is in use again, the history of a change is       *)
(* looked up under its name in HEAD, through the staged and the unstaged   *)
(* rename.                                                                 *)
THEOREM HistoriesAreUnderHeadNames == Spec => []HeadPathOfNewNames
<1>1. PathsInv => HeadPathOfNewNames
  BY DEF PathsInv
<1> QED BY <1>1, PathsInvHolds, PTL
=============================================================================
