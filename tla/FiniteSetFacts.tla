---------------------------- MODULE FiniteSetFacts ----------------------------
(***************************************************************************)
(* Facts about finite sets that the proofs of several components use:      *)
(* induction over numbers and sets, what ranking a finite set by an order  *)
(* and keeping the best k of it gives, listing it in order, and sums.      *)
(*                                                                         *)
(* Induction is stated with sets where the library's theorems take a       *)
(* predicate: what is to be proved is the set of the things it holds of.   *)
(* It rests on the fact that the finite subsets of a set are well-founded  *)
(* under strict inclusion.                                                 *)
(***************************************************************************)
EXTENDS Naturals, Sequences, Functions, FiniteSetTheorems, SequenceTheorems,
        WellFoundedInduction, TLAPS

(* A nonempty set of finite sets has a least one: none of the others is a  *)
(* strict subset of it.                                                    *)
LEMMA SmallestSet ==
  ASSUME NEW T, T # {}, \A s \in T : IsFiniteSet(s)
  PROVE  \E m \in T : \A s \in T : s \subseteq m => s = m
<1> DEFINE U == UNION T
<1>1. IsWellFoundedOn(StrictSubsetOrdering(U), FiniteSubsetsOf(U))
  BY FS_StrictSubsetOrderingWellFounded
<1>2. T \subseteq FiniteSubsetsOf(U)
  BY DEF FiniteSubsetsOf
<1>3. PICK m \in T : \A s \in T : ~(<<s, m>> \in StrictSubsetOrdering(U))
  BY <1>1, <1>2, WFMin
<1>4. ASSUME NEW s \in T, s \subseteq m, s # m
      PROVE  FALSE
  BY <1>3, <1>4 DEF StrictSubsetOrdering
<1> QED BY <1>3, <1>4

(* A nonempty set of numbers has a smallest one.                           *)
LEMMA SmallestNumber ==
  ASSUME NEW S \in SUBSET Nat, S # {}
  PROVE  \E m \in S : \A n \in S : m <= n
<1> DEFINE T == {0..n : n \in S}
<1>1. T # {} /\ \A s \in T : IsFiniteSet(s)
  <2>1. \A n \in S : IsFiniteSet(0..n)
    BY FS_Interval
  <2> QED BY <2>1
<1>2. PICK s \in T : \A u \in T : u \subseteq s => u = s
  <2> HIDE DEF T
  <2> QED BY <1>1, SmallestSet
<1>3. PICK m \in S : s = 0..m
  OBVIOUS
<1>4. ASSUME NEW n \in S, n < m
      PROVE  FALSE
  <2>1. 0..n \in T /\ 0..n \subseteq s
    BY <1>3, <1>4
  <2>2. m \in 0..m /\ m \notin 0..n
    BY <1>4
  <2> QED BY <1>2, <1>3, <2>1, <2>2
<1> QED BY <1>4

(* A set of numbers that holds 0 and, with each number, the next one.      *)
LEMMA NumbersByInduction ==
  ASSUME NEW S, 0 \in S, \A n \in Nat : n \in S => n + 1 \in S
  PROVE  Nat \subseteq S
<1> SUFFICES ASSUME Nat \ S # {} PROVE FALSE
  OBVIOUS
<1>1. PICK m \in Nat \ S : \A n \in Nat \ S : m <= n
  BY SmallestNumber
<1>2. m # 0 /\ m - 1 \in Nat
  BY <1>1
<1>3. m - 1 \in S
  BY <1>1, <1>2
<1> QED BY <1>1, <1>2, <1>3

(* The values of a table with finitely many rows.                          *)
LEMMA ImageIsFinite ==
  ASSUME NEW S, IsFiniteSet(S), NEW f
  PROVE  IsFiniteSet({f[x] : x \in S})
<1> DEFINE T == {f[x] : x \in S}
           g == [x \in S |-> f[x]]
<1>1. g \in Surjection(S, T)
  BY DEF Surjection
<1> QED BY <1>1, FS_Surjection

-----------------------------------------------------------------------------
(* The members of S that R puts before x, and those with less than k such. *)
Ahead(S, R, x) == {y \in S : <<y, x>> \in R}
Best(S, R, k) == {x \in S : Cardinality(Ahead(S, R, x)) < k}

IsStrictOrder(S, R) ==
  /\ \A x \in S : <<x, x>> \notin R
  /\ \A x, y, z \in S : <<x, y>> \in R /\ <<y, z>> \in R => <<x, z>> \in R
IsTotal(S, R) ==
  \A x, y \in S : x = y \/ <<x, y>> \in R \/ <<y, x>> \in R

(* What is ahead of one ahead is ahead, and strictly less.                 *)
LEMMA AheadShrinks ==
  ASSUME NEW S, IsFiniteSet(S), NEW R, IsStrictOrder(S, R),
         NEW x \in S, NEW y \in Ahead(S, R, x)
  PROVE  /\ Ahead(S, R, y) \subseteq Ahead(S, R, x)
         /\ y \notin Ahead(S, R, y)
         /\ Cardinality(Ahead(S, R, y)) \in Nat /\ Cardinality(Ahead(S, R, x)) \in Nat
         /\ Cardinality(Ahead(S, R, y)) < Cardinality(Ahead(S, R, x))
<1>1. Ahead(S, R, y) \subseteq Ahead(S, R, x) /\ y \notin Ahead(S, R, y)
  BY DEF Ahead, IsStrictOrder
<1>2. IsFiniteSet(Ahead(S, R, x)) /\ IsFiniteSet(Ahead(S, R, y))
  BY FS_Subset DEF Ahead
<1>3. Cardinality(Ahead(S, R, y)) <= Cardinality(Ahead(S, R, x))
      /\ Cardinality(Ahead(S, R, y)) # Cardinality(Ahead(S, R, x))
  BY <1>1, <1>2, FS_Subset
<1>4. Cardinality(Ahead(S, R, y)) \in Nat /\ Cardinality(Ahead(S, R, x)) \in Nat
  BY <1>2, FS_CardinalityType
<1> QED BY <1>1, <1>3, <1>4

(* A nonempty subset of an ordered finite set has a first member.          *)
LEMMA FirstExists ==
  ASSUME NEW S, IsFiniteSet(S), NEW R, IsStrictOrder(S, R), NEW U \in SUBSET S, U # {}
  PROVE  \E x \in U : \A y \in U : <<y, x>> \notin R
<1> DEFINE T == {Ahead(U, R, x) : x \in U}
<1>1. IsFiniteSet(U) /\ IsStrictOrder(U, R)
  BY FS_Subset DEF IsStrictOrder
<1>2. T # {} /\ \A s \in T : IsFiniteSet(s)
  <2>1. \A x \in U : IsFiniteSet(Ahead(U, R, x))
    BY <1>1, FS_Subset DEF Ahead
  <2> QED BY <2>1
<1>3. PICK s \in T : \A u \in T : u \subseteq s => u = s
  <2> HIDE DEF T
  <2> QED BY <1>2, SmallestSet
<1>4. PICK x \in U : s = Ahead(U, R, x)
  BY <1>3
<1>5. ASSUME NEW y \in U, <<y, x>> \in R
      PROVE  FALSE
  <2>1. y \in Ahead(U, R, x)
    BY <1>5 DEF Ahead
  <2>2. Ahead(U, R, y) \subseteq s /\ Ahead(U, R, y) # s
    BY <1>1, <1>4, <2>1, AheadShrinks
  <2> QED BY <1>3, <2>2
<1> QED BY <1>5

(* ... and a last one.                                                     *)
LEMMA LastExists ==
  ASSUME NEW S, IsFiniteSet(S), NEW R, IsStrictOrder(S, R), NEW U \in SUBSET S, U # {}
  PROVE  \E x \in U : \A y \in U : <<x, y>> \notin R
<1> DEFINE Q == {<<p[2], p[1]>> : p \in {p \in S \X S : p \in R}}
<1>1. \A x, y \in S : <<x, y>> \in Q <=> <<y, x>> \in R
  OBVIOUS
<1> HIDE DEF Q
<1>2. IsStrictOrder(S, Q)
  BY <1>1 DEF IsStrictOrder
<1>3. PICK x \in U : \A y \in U : <<y, x>> \notin Q
  BY <1>2, FirstExists
<1> QED BY <1>1, <1>3

(* The best k of a finite set: the first member is among them, each of     *)
(* them is ahead of every other member, and there are k of them unless     *)
(* the whole set is kept.                                                  *)
LEMMA BestFacts ==
  ASSUME NEW S, IsFiniteSet(S), NEW R, IsStrictOrder(S, R), IsTotal(S, R), NEW k \in Nat
  PROVE  /\ \A x \in Best(S, R, k) : \A y \in S \ Best(S, R, k) : <<x, y>> \in R
         /\ Best(S, R, k) # S => Cardinality(Best(S, R, k)) = k
<1> DEFINE B == Best(S, R, k)
<1>1. \A x \in S : IsFiniteSet(Ahead(S, R, x)) /\ Cardinality(Ahead(S, R, x)) \in Nat
  <2>1. \A x \in S : IsFiniteSet(Ahead(S, R, x))
    BY FS_Subset DEF Ahead
  <2> QED BY <2>1, FS_CardinalityType
<1>2. ASSUME NEW x \in B, NEW y \in S \ B
      PROVE  <<x, y>> \in R
  <2> SUFFICES ASSUME <<y, x>> \in R PROVE FALSE
    BY DEF IsTotal, Best
  <2>1. y \in Ahead(S, R, x) /\ x \in S
    BY DEF Ahead, Best
  <2>2. Cardinality(Ahead(S, R, y)) < Cardinality(Ahead(S, R, x))
    BY <2>1, AheadShrinks
  <2>3. Cardinality(Ahead(S, R, x)) < k /\ ~(Cardinality(Ahead(S, R, y)) < k)
    BY DEF Best
  <2> QED BY <1>1, <2>1, <2>2, <2>3
<1>3. ASSUME B # S
      PROVE  Cardinality(B) = k
  <2>1. B \subseteq S /\ S \ B \in SUBSET S /\ S \ B # {}
    BY <1>3 DEF Best
  <2>2. PICK y \in S \ B : \A z \in S \ B : <<z, y>> \notin R
    BY <2>1, FirstExists
  <2>3. Ahead(S, R, y) = B
    BY <1>2, <2>1, <2>2 DEF Ahead
  <2>4. Cardinality(B) >= k /\ Cardinality(B) \in Nat
    BY <1>1, <2>2, <2>3 DEF Best
  <2>5. CASE B = {}
    BY <2>4, <2>5, FS_EmptySet
  <2>6. CASE B # {}
    <3>1. PICK x \in B : \A z \in B : <<x, z>> \notin R
      BY <2>1, <2>6, LastExists
    <3>2. x \in S
      BY <2>1
    <3>3. \A z \in S : <<z, x>> \in R => z \in B
      BY <1>2, <3>2 DEF IsStrictOrder
    <3>4. Ahead(S, R, x) = B \ {x}
      BY <2>1, <3>1, <3>2, <3>3 DEF Ahead, IsStrictOrder, IsTotal
    <3>5. IsFiniteSet(B)
      BY <2>1, FS_Subset
    <3>6. Cardinality(B \ {x}) = Cardinality(B) - 1
      BY <3>5, FS_RemoveElement
    <3>7. Cardinality(B \ {x}) < k
      BY <3>4 DEF Best
    <3> QED BY <2>4, <3>6, <3>7
  <2> QED BY <2>5, <2>6
<1> QED BY <1>2, <1>3

(* The first member is among the best ones.                                *)
LEMMA FirstIsBest ==
  ASSUME NEW S, IsFiniteSet(S), NEW R, IsStrictOrder(S, R), NEW k \in Nat \ {0},
         NEW x \in S, \A y \in S : <<y, x>> \notin R
  PROVE  x \in Best(S, R, k)
<1>1. Ahead(S, R, x) = {}
  BY DEF Ahead
<1> QED BY <1>1, FS_EmptySet DEF Best

(* A set of no more than k members is kept whole.                          *)
LEMMA AllAreBest ==
  ASSUME NEW S, IsFiniteSet(S), NEW R, IsStrictOrder(S, R), NEW k \in Nat, Cardinality(S) <= k
  PROVE  Best(S, R, k) = S
<1> SUFFICES ASSUME NEW x \in S PROVE Cardinality(Ahead(S, R, x)) < k
  BY DEF Best
<1>1. Ahead(S, R, x) \subseteq S \ {x}
  BY DEF Ahead, IsStrictOrder
<1>2. IsFiniteSet(S \ {x}) /\ Cardinality(S \ {x}) = Cardinality(S) - 1
  BY FS_RemoveElement
<1>3. /\ Cardinality(Ahead(S, R, x)) <= Cardinality(S \ {x})
      /\ IsFiniteSet(Ahead(S, R, x))
  BY <1>1, <1>2, FS_Subset
<1>4. Cardinality(S) \in Nat /\ Cardinality(Ahead(S, R, x)) \in Nat
  BY <1>3, FS_CardinalityType
<1> QED BY <1>2, <1>3, <1>4

-----------------------------------------------------------------------------
(* A finite set of numbers can be listed in order.                         *)
Lists(list, T) ==
  /\ list \in [1..Cardinality(T) -> T] /\ Range(list) = T
  /\ \A i, j \in DOMAIN list : i < j => list[i] < list[j]

LEMMA OrderedListExists ==
  ASSUME NEW S \in SUBSET Nat, IsFiniteSet(S)
  PROVE  \E list : Lists(list, S)
<1> DEFINE N == {n \in Nat : \A T \in SUBSET S : Cardinality(T) = n => \E list : Lists(list, T)}
           R == {p \in S \X S : p[1] < p[2]}
<1>1. \A T \in SUBSET S : IsFiniteSet(T) /\ Cardinality(T) \in Nat
  BY FS_Subset, FS_CardinalityType
<1>2. \A x, y \in S : <<x, y>> \in R <=> x < y
  OBVIOUS
<1> HIDE DEF R
<1>3. IsStrictOrder(S, R)
  <2>1. \A x, y, z \in S : x \in Nat /\ y \in Nat /\ z \in Nat
    OBVIOUS
  <2> QED BY <1>2, <2>1 DEF IsStrictOrder
<1>4. 0 \in N
  <2> SUFFICES ASSUME NEW T \in SUBSET S, Cardinality(T) = 0 PROVE \E list : Lists(list, T)
    OBVIOUS
  <2>1. T = {}
    BY <1>1, FS_EmptySet
  <2>2. PICK list : list = [i \in 1..0 |-> 0]
    OBVIOUS
  <2>3. DOMAIN list = {} /\ list \in [1..0 -> T]
    BY <2>2
  <2>4. Lists(list, T)
    BY <2>1, <2>3 DEF Lists, Range
  <2> QED BY <2>4
<1>5. ASSUME NEW n \in Nat, n \in N
      PROVE  n + 1 \in N
  <2> SUFFICES ASSUME NEW T \in SUBSET S, Cardinality(T) = n + 1 PROVE \E list : Lists(list, T)
    OBVIOUS
  <2>1. T # {}
    BY <1>1, FS_EmptySet
  <2>2. PICK m \in T : \A y \in T : <<m, y>> \notin R
    BY <1>3, <2>1, LastExists
  <2>3. \A y \in T \ {m} : y < m
    <3>1. \A y \in T : y \in Nat /\ m \in Nat /\ ~(m < y)
      BY <1>2, <2>2
    <3> QED BY <3>1
  <2>4. Cardinality(T \ {m}) = n
    <3>1. IsFiniteSet(T) /\ m \in T
      BY <1>1
    <3>2. Cardinality(T \ {m}) = Cardinality(T) - 1
      BY <3>1, FS_RemoveElement
    <3> QED BY <3>2
  <2>5. PICK list : Lists(list, T \ {m})
    BY <1>5, <2>4
  <2>6. PICK longer : longer = [i \in 1..(n + 1) |-> IF i = n + 1 THEN m ELSE list[i]]
    OBVIOUS
  <2>7. /\ DOMAIN list = 1..n /\ DOMAIN longer = 1..(n + 1) /\ longer[n + 1] = m
        /\ \A i \in 1..n : longer[i] = list[i] /\ list[i] \in T \ {m}
        /\ \A i \in 1..(n + 1) : i \in 1..n \/ i = n + 1
    <3>1. list \in [1..n -> T \ {m}]
      BY <2>4, <2>5 DEF Lists
    <3>2. \A i \in 1..(n + 1) : i \in 1..n \/ i = n + 1
      OBVIOUS
    <3>3. \A i \in 1..n : i \in 1..(n + 1) /\ i # n + 1
      OBVIOUS
    <3>4. n + 1 \in 1..(n + 1)
      OBVIOUS
    <3> QED BY <2>6, <3>1, <3>2, <3>3, <3>4
  <2>8. Range(longer) = T
    <3>1. Range(list) = T \ {m} /\ Range(list) = {list[i] : i \in 1..n}
      BY <2>5, <2>7 DEF Lists, Range
    <3>2. \A y \in T \ {m} : \E i \in 1..n : longer[i] = y
      BY <2>7, <3>1
    <3>3. \A i \in 1..n : i \in 1..(n + 1)
      OBVIOUS
    <3>4. n + 1 \in 1..(n + 1)
      OBVIOUS
    <3>5. Range(longer) = {longer[i] : i \in 1..(n + 1)}
      BY <2>7 DEF Range
    <3>6. \A y \in T : y = m \/ y \in T \ {m}
      OBVIOUS
    <3>7. T \subseteq Range(longer)
      BY <2>7, <3>2, <3>3, <3>4, <3>5, <3>6
    <3>8. \A i \in 1..(n + 1) : longer[i] \in T
      BY <2>7
    <3> QED BY <3>5, <3>7, <3>8
  <2>9. \A i, j \in 1..(n + 1) : i < j => longer[i] < longer[j]
    <3> SUFFICES ASSUME NEW i \in 1..(n + 1), NEW j \in 1..(n + 1), i < j
                 PROVE  longer[i] < longer[j]
      OBVIOUS
    <3>1. i \in 1..n
      OBVIOUS
    <3>2. CASE j = n + 1
      BY <2>3, <2>7, <3>1, <3>2
    <3>3. CASE j \in 1..n
      BY <2>5, <2>7, <3>1, <3>3 DEF Lists
    <3> QED BY <2>7, <3>2, <3>3
  <2>10. longer \in [1..(n + 1) -> T]
    BY <2>6, <2>7
  <2> QED BY <2>7, <2>8, <2>9, <2>10 DEF Lists
<1>6. Cardinality(S) \in N
  <2>1. Cardinality(S) \in Nat
    BY FS_CardinalityType
  <2> HIDE DEF N
  <2> QED BY <1>4, <1>5, <2>1, NumbersByInduction
<1>7. S \in SUBSET S
  OBVIOUS
<1> QED BY <1>6, <1>7

-----------------------------------------------------------------------------
(* A member of a nonempty set: the one the folds of the library take next. *)
Pick(s) == CHOOSE x \in s : TRUE

(* g is the function a sum of f over S is the value of at S.               *)
SumsUp(g, f, S) ==
  g = [s \in SUBSET S |-> IF s = {} THEN 0 ELSE f[Pick(s)] + g[s \ {Pick(s)}]]

(* The recursion a sum is defined by has a solution: one for the sets of   *)
(* up to n members extends to those of n + 1.                              *)
LEMMA SumsExist ==
  ASSUME NEW S, IsFiniteSet(S), NEW f, \A x \in S : f[x] \in Nat
  PROVE  \E g \in [SUBSET S -> Nat] : SumsUp(g, f, S)
<1> DEFINE Solves(g, s) == g[s] = IF s = {} THEN 0 ELSE f[Pick(s)] + g[s \ {Pick(s)}]
           N == {n \in Nat : \E g \in [SUBSET S -> Nat] :
                    \A s \in SUBSET S : Cardinality(s) <= n => Solves(g, s)}
<1>1. \A s \in SUBSET S : s # {} => /\ Pick(s) \in s
                                     /\ s \ {Pick(s)} \in SUBSET S
                                     /\ Cardinality(s \ {Pick(s)}) = Cardinality(s) - 1
  <2> SUFFICES ASSUME NEW s \in SUBSET S, s # {}
               PROVE  Pick(s) \in s /\ Cardinality(s \ {Pick(s)}) = Cardinality(s) - 1
    OBVIOUS
  <2>1. Pick(s) \in s
    BY DEF Pick
  <2>2. IsFiniteSet(s)
    BY FS_Subset
  <2> QED BY <2>1, <2>2, FS_RemoveElement
<1>2. \A s \in SUBSET S : Cardinality(s) \in Nat /\ (Cardinality(s) = 0 <=> s = {})
  BY FS_Subset, FS_CardinalityType, FS_EmptySet
<1>3. 0 \in N
  <2>1. PICK g \in [SUBSET S -> Nat] : g = [s \in SUBSET S |-> 0]
    OBVIOUS
  <2>2. \A s \in SUBSET S : Cardinality(s) <= 0 => Solves(g, s)
    BY <1>2, <2>1
  <2> QED BY <2>2
<1>4. ASSUME NEW n \in Nat, n \in N
      PROVE  n + 1 \in N
  <2>1. PICK g \in [SUBSET S -> Nat] : \A s \in SUBSET S : Cardinality(s) <= n => Solves(g, s)
    BY <1>4
  <2> DEFINE next == [s \in SUBSET S |->
                        IF s # {} /\ Cardinality(s) = n + 1
                        THEN f[Pick(s)] + g[s \ {Pick(s)}] ELSE g[s]]
  <2>2. next \in [SUBSET S -> Nat]
    BY <1>1
  <2>3. ASSUME NEW s \in SUBSET S, Cardinality(s) <= n + 1
        PROVE  Solves(next, s)
    <3>1. CASE s = {}
      <4>1. Cardinality(s) <= n
        BY <1>2, <3>1
      <4>2. g[s] = 0 /\ next[s] = g[s]
        BY <2>1, <3>1, <4>1
      <4> QED BY <3>1, <4>2
    <3>2. CASE s # {}
      <4>1. /\ s \ {Pick(s)} \in SUBSET S
            /\ Cardinality(s \ {Pick(s)}) = Cardinality(s) - 1
            /\ Cardinality(s) \in Nat
        BY <1>1, <1>2, <3>2
      <4>2. next[s \ {Pick(s)}] = g[s \ {Pick(s)}]
        <5>1. Cardinality(s \ {Pick(s)}) # n + 1
          BY <2>3, <4>1
        <5> QED BY <4>1, <5>1
      <4>3. next[s] = f[Pick(s)] + g[s \ {Pick(s)}]
        <5>1. CASE Cardinality(s) = n + 1
          BY <3>2, <5>1
        <5>2. CASE Cardinality(s) <= n
          BY <2>1, <3>2, <5>2, <4>1
        <5> QED BY <2>3, <4>1, <5>1, <5>2
      <4> QED BY <3>2, <4>2, <4>3
    <3> QED BY <3>1, <3>2
  <2> HIDE DEF next, Solves
  <2> QED BY <2>2, <2>3
<1>5. Cardinality(S) \in N
  <2> HIDE DEF N
  <2> QED BY <1>2, <1>3, <1>4, NumbersByInduction
<1>6. PICK g \in [SUBSET S -> Nat] : \A s \in SUBSET S : Cardinality(s) <= Cardinality(S) => Solves(g, s)
  BY <1>5
<1>7. \A s \in SUBSET S : Solves(g, s)
  BY <1>6, FS_Subset
<1>8. SumsUp(g, f, S)
  BY <1>7 DEF SumsUp
<1> QED BY <1>8

(* The solutions for two sets, one of them part of the other, agree where  *)
(* what is summed agrees.                                                  *)
LEMMA SumsAgree ==
  ASSUME NEW S, IsFiniteSet(S), NEW U, S \subseteq U,
         NEW f, NEW h, \A x \in S : h[x] = f[x],
         NEW g, SumsUp(g, f, S), NEW k, SumsUp(k, h, U)
  PROVE  \A s \in SUBSET S : g[s] = k[s]
<1>1. g = [s \in SUBSET S |-> IF s = {} THEN 0 ELSE f[Pick(s)] + g[s \ {Pick(s)}]]
  BY DEF SumsUp
<1>2. k = [s \in SUBSET U |-> IF s = {} THEN 0 ELSE h[Pick(s)] + k[s \ {Pick(s)}]]
  BY DEF SumsUp
<1> DEFINE bad == {s \in SUBSET S : g[s] # k[s]}
<1> SUFFICES ASSUME bad # {} PROVE FALSE
  OBVIOUS
<1>3. \A s \in bad : IsFiniteSet(s)
  BY FS_Subset
<1>4. PICK m \in bad : \A s \in bad : s \subseteq m => s = m
  <2> HIDE DEF bad
  <2> QED BY <1>3, SmallestSet
<1>5. m \in SUBSET S /\ m \in SUBSET U /\ g[m] # k[m]
  OBVIOUS
<1>6. m # {}
  BY <1>1, <1>2, <1>5
<1>7. Pick(m) \in m
  BY <1>6 DEF Pick
<1>8. m \ {Pick(m)} \in SUBSET S /\ m \ {Pick(m)} \notin bad
  BY <1>4, <1>5, <1>7
<1>9. g[m \ {Pick(m)}] = k[m \ {Pick(m)}] /\ h[Pick(m)] = f[Pick(m)]
  BY <1>5, <1>7, <1>8
<1>10. /\ g[m] = f[Pick(m)] + g[m \ {Pick(m)}]
       /\ k[m] = h[Pick(m)] + k[m \ {Pick(m)}]
  <2> HIDE DEF bad
  <2> QED BY <1>1, <1>2, <1>5, <1>6
<1> QED BY <1>5, <1>9, <1>10

(* The order in which a sum takes the members makes no difference.         *)
LEMMA AnyMemberMayBeLast ==
  ASSUME NEW S, IsFiniteSet(S), NEW f, \A x \in S : f[x] \in Nat,
         NEW g, \A s \in SUBSET S : g[s] \in Nat, SumsUp(g, f, S), NEW last \in S
  PROVE  g[S] = f[last] + g[S \ {last}]
<1> DEFINE bad == {s \in SUBSET S : \E x \in s : g[s] # f[x] + g[s \ {x}]}
<1> SUFFICES ASSUME bad # {} PROVE FALSE
  <2>1. S \in SUBSET S
    OBVIOUS
  <2> QED BY <2>1
<1>1. \A s \in SUBSET S : s # {} => g[s] = f[Pick(s)] + g[s \ {Pick(s)}]
  BY DEF SumsUp
<1>2. \A s \in bad : IsFiniteSet(s)
  BY FS_Subset
<1>3. PICK m \in bad : \A s \in bad : s \subseteq m => s = m
  <2> HIDE DEF bad
  <2> QED BY <1>2, SmallestSet
<1>4. PICK x \in m : g[m] # f[x] + g[m \ {x}]
  OBVIOUS
<1> DEFINE p == Pick(m)
<1>5. p \in m /\ m \in SUBSET S
  BY <1>4 DEF Pick
<1>6. g[m] = f[p] + g[m \ {p}]
  BY <1>1, <1>5
<1> HIDE DEF p
<1>7. x # p
  BY <1>4, <1>6
<1>8. m \ {p} \in SUBSET S /\ m \ {p} \notin bad /\ x \in m \ {p}
  BY <1>3, <1>5, <1>7
<1>9. m \ {x} \in SUBSET S /\ m \ {x} \notin bad /\ p \in m \ {x}
  BY <1>3, <1>5, <1>7
<1>10. g[m \ {p}] = f[x] + g[(m \ {p}) \ {x}]
  BY <1>8
<1>11. g[m \ {x}] = f[p] + g[(m \ {x}) \ {p}]
  BY <1>9
<1>12. (m \ {p}) \ {x} = (m \ {x}) \ {p} /\ (m \ {p}) \ {x} \in SUBSET S
  BY <1>5
<1>13. f[p] \in Nat /\ f[x] \in Nat /\ g[(m \ {p}) \ {x}] \in Nat
  BY <1>5, <1>12
<1>14. \A u, v, w \in Nat : u + (v + w) = v + (u + w)
  OBVIOUS
<1>15. g[m] = f[x] + g[m \ {x}]
  <2>1. g[m] = f[p] + (f[x] + g[(m \ {p}) \ {x}])
    BY <1>6, <1>10
  <2>2. f[x] + g[m \ {x}] = f[x] + (f[p] + g[(m \ {p}) \ {x}])
    BY <1>11, <1>12
  <2>3. f[p] + (f[x] + g[(m \ {p}) \ {x}]) = f[x] + (f[p] + g[(m \ {p}) \ {x}])
    BY <1>13, <1>14
  <2> QED BY <2>1, <2>2, <2>3
<1> QED BY <1>4, <1>15

(* A sum is the value of such a function, and a natural.                   *)
LEMMA SumFacts ==
  ASSUME NEW S, IsFiniteSet(S), NEW f, \A x \in S : f[x] \in Nat
  PROVE  \E g \in [SUBSET S -> Nat] : SumsUp(g, f, S) /\ g[S] = SumFunctionOnSet(f, S)
<1> DEFINE sum == CHOOSE g : SumsUp(g, f, S)
<1>1. SumFunctionOnSet(f, S) = sum[S]
  BY DEF SumFunctionOnSet, FoldFunctionOnSet, MapThenFoldSet, Pick, SumsUp
<1>2. PICK g \in [SUBSET S -> Nat] : SumsUp(g, f, S)
  BY SumsExist
<1>3. SumsUp(sum, f, S)
  BY <1>2
<1> HIDE DEF sum
<1>4. sum = g
  <2>1. S \subseteq S
    OBVIOUS
  <2>2. \A s \in SUBSET S : sum[s] = g[s]
    BY <1>2, <1>3, SumsAgree
  <2>3. sum = [s \in SUBSET S |-> IF s = {} THEN 0 ELSE f[Pick(s)] + sum[s \ {Pick(s)}]]
    BY <1>3 DEF SumsUp
  <2> QED BY <2>2, <2>3
<1> QED BY <1>1, <1>2, <1>4

(* The sum of naturals over a finite set is a natural.                     *)
LEMMA SumType ==
  ASSUME NEW S, IsFiniteSet(S), NEW f, \A x \in S : f[x] \in Nat
  PROVE  SumFunctionOnSet(f, S) \in Nat
<1>1. PICK g \in [SUBSET S -> Nat] : SumsUp(g, f, S) /\ g[S] = SumFunctionOnSet(f, S)
  BY SumFacts
<1>2. S \in SUBSET S
  OBVIOUS
<1>3. g[S] \in Nat
  BY <1>2
<1> QED BY <1>1, <1>3

(* A sum over nothing is 0, and one more member adds its value, in         *)
(* whatever order the sums are formed.                                     *)
LEMMA SumOfNone ==
  ASSUME NEW f
  PROVE  SumFunctionOnSet(f, {}) = 0
<1>1. PICK g \in [SUBSET {} -> Nat] : SumsUp(g, f, {}) /\ g[{}] = SumFunctionOnSet(f, {})
  BY SumFacts, FS_EmptySet
<1>2. g = [s \in SUBSET {} |-> IF s = {} THEN 0 ELSE f[Pick(s)] + g[s \ {Pick(s)}]]
  BY <1>1 DEF SumsUp
<1> QED BY <1>1, <1>2

LEMMA SumWithoutOne ==
  ASSUME NEW S, IsFiniteSet(S), NEW x \in S, NEW f, \A y \in S : f[y] \in Nat
  PROVE  \E g : /\ SumsUp(g, f, S)
                /\ SumFunctionOnSet(f, S) = f[x] + g[S \ {x}]
<1>1. PICK g \in [SUBSET S -> Nat] : SumsUp(g, f, S) /\ g[S] = SumFunctionOnSet(f, S)
  BY SumFacts
<1>2. \A s \in SUBSET S : g[s] \in Nat
  OBVIOUS
<1>3. g[S] = f[x] + g[S \ {x}]
  BY <1>1, <1>2, AnyMemberMayBeLast
<1> QED BY <1>1, <1>3

LEMMA SumOfOneMore ==
  ASSUME NEW S, IsFiniteSet(S), NEW x, x \notin S,
         NEW f, \A y \in S : f[y] \in Nat,
         NEW h, h[x] \in Nat, \A y \in S : h[y] = f[y]
  PROVE  SumFunctionOnSet(h, S \cup {x}) = h[x] + SumFunctionOnSet(f, S)
<1>1. PICK U : U = S \cup {x}
  OBVIOUS
<1>2. IsFiniteSet(U) /\ x \in U /\ \A y \in U : h[y] \in Nat
  BY <1>1, FS_AddElement
<1>3. PICK g \in [SUBSET S -> Nat] : SumsUp(g, f, S) /\ g[S] = SumFunctionOnSet(f, S)
  BY SumFacts
<1>4. PICK k : SumsUp(k, h, U) /\ SumFunctionOnSet(h, U) = h[x] + k[U \ {x}]
  BY <1>2, SumWithoutOne
<1>5. U \ {x} = S /\ S \subseteq U
  BY <1>1
<1>6. \A s \in SUBSET S : g[s] = k[s]
  BY <1>3, <1>4, <1>5, SumsAgree
<1>7. g[S] = k[S]
  BY <1>6
<1> QED BY <1>1, <1>3, <1>4, <1>5, <1>7

-----------------------------------------------------------------------------
(* A table whose first entry is given, and each other one by the number of *)
(* the entry and the entry before.                                         *)
IsTable(g, M, a, F) == g = [k \in 0..M |-> IF k = 0 THEN a ELSE F[k][g[k - 1]]]

LEMMA TableExists ==
  ASSUME NEW M \in Nat, NEW S, NEW a \in S,
         NEW F, \A k \in 1..M : \A x \in S : F[k][x] \in S
  PROVE  \E g \in [0..M -> S] : IsTable(g, M, a, F)
<1> DEFINE Value(g, k) == IF k = 0 THEN a ELSE F[k][g[k - 1]]
           N == {m \in Nat : \E g \in [0..M -> S] : \A k \in 0..M : k <= m => g[k] = Value(g, k)}
<1>1. 0 \in N
  <2> DEFINE g == [k \in 0..M |-> a]
  <2>1. g \in [0..M -> S] /\ \A k \in 0..M : k <= 0 => g[k] = Value(g, k)
    OBVIOUS
  <2> HIDE DEF g, Value
  <2> QED BY <2>1
<1>2. ASSUME NEW m \in Nat, m \in N
      PROVE  m + 1 \in N
  <2>1. PICK g \in [0..M -> S] : \A k \in 0..M : k <= m => g[k] = Value(g, k)
    BY <1>2
  <2>2. PICK h : h = [k \in 0..M |-> IF k = m + 1 THEN Value(g, k) ELSE g[k]]
    OBVIOUS
  <2>3. \A k \in 0..M : k # 0 => k - 1 \in 0..M /\ k \in 1..M
    OBVIOUS
  <2>4. h \in [0..M -> S]
    <3>1. \A k \in 0..M : Value(g, k) \in S
      BY <2>3
    <3> HIDE DEF Value
    <3> QED BY <2>2, <3>1
  <2>5. \A k \in 0..M : k <= m => h[k] = g[k]
    BY <2>2
  <2>6. ASSUME NEW k \in 0..M, k <= m + 1
        PROVE  h[k] = Value(h, k)
    <3>1. Value(h, k) = Value(g, k)
      BY <2>3, <2>5, <2>6
    <3>2. h[k] = Value(g, k)
      <4>1. CASE k = m + 1
        BY <2>2, <4>1
      <4>2. CASE k <= m
        BY <2>1, <2>5, <4>2
      <4> QED BY <2>6, <4>1, <4>2
    <3> QED BY <3>1, <3>2
  <2> HIDE DEF Value
  <2> QED BY <2>4, <2>6
<1>3. M \in N
  <2> HIDE DEF N
  <2> QED BY <1>1, <1>2, NumbersByInduction
<1>4. PICK g \in [0..M -> S] : \A k \in 0..M : g[k] = Value(g, k)
  BY <1>3
<1> QED BY <1>4 DEF IsTable

-----------------------------------------------------------------------------
(* The members of a finite set in their order, the first k of them: the    *)
(* n-th is the one with n - 1 members ahead of it.                         *)
RankedList(S, R, k) ==
  [n \in 1..(IF k <= Cardinality(S) THEN k ELSE Cardinality(S)) |->
     CHOOSE x \in S : Cardinality(Ahead(S, R, x)) = n - 1]

LEMMA RanksDiffer ==
  ASSUME NEW S, IsFiniteSet(S), NEW R, IsStrictOrder(S, R), IsTotal(S, R),
         NEW x \in S, NEW y \in S, Cardinality(Ahead(S, R, x)) = Cardinality(Ahead(S, R, y))
  PROVE  x = y
<1>1. \A a, b \in S : <<a, b>> \in R => Cardinality(Ahead(S, R, a)) < Cardinality(Ahead(S, R, b))
                                       /\ Cardinality(Ahead(S, R, b)) \in Nat
                                       /\ Cardinality(Ahead(S, R, a)) \in Nat
  <2> SUFFICES ASSUME NEW a \in S, NEW b \in S, <<a, b>> \in R
               PROVE  /\ Cardinality(Ahead(S, R, a)) < Cardinality(Ahead(S, R, b))
                      /\ Cardinality(Ahead(S, R, b)) \in Nat
                      /\ Cardinality(Ahead(S, R, a)) \in Nat
    OBVIOUS
  <2>1. a \in Ahead(S, R, b)
    BY DEF Ahead
  <2> QED BY <2>1, AheadShrinks
<1>2. <<x, y>> \notin R /\ <<y, x>> \notin R
  BY <1>1
<1> QED BY <1>2 DEF IsTotal

LEMMA RanksExist ==
  ASSUME NEW S, IsFiniteSet(S), NEW R, IsStrictOrder(S, R), IsTotal(S, R),
         NEW n \in 1..Cardinality(S)
  PROVE  \E x \in S : Cardinality(Ahead(S, R, x)) = n - 1
<1>1. Cardinality(S) \in Nat /\ n \in Nat /\ n - 1 \in Nat /\ n <= Cardinality(S)
  BY FS_CardinalityType
<1>2. \A x \in S : IsFiniteSet(Ahead(S, R, x)) /\ Cardinality(Ahead(S, R, x)) \in Nat
  <2>1. \A x \in S : Ahead(S, R, x) \subseteq S
    BY DEF Ahead
  <2> QED BY <2>1, FS_Subset, FS_CardinalityType
<1>3. Best(S, R, n - 1) # S
  <2> SUFFICES ASSUME Best(S, R, n - 1) = S PROVE FALSE
    OBVIOUS
  <2>1. S # {}
    BY <1>1, FS_EmptySet
  <2>2. PICK z \in S : \A y \in S : <<z, y>> \notin R
    BY <2>1, LastExists
  <2>3. Ahead(S, R, z) = S \ {z}
    BY <2>2 DEF Ahead, IsTotal, IsStrictOrder
  <2>4. Cardinality(S \ {z}) = Cardinality(S) - 1
    BY FS_RemoveElement
  <2>5. Cardinality(Ahead(S, R, z)) < n - 1
    BY <2>2 DEF Best
  <2> QED BY <1>1, <2>3, <2>4, <2>5
<1>4. Cardinality(Best(S, R, n - 1)) = n - 1
  BY <1>1, <1>3, BestFacts
<1>5. PICK x \in S \ Best(S, R, n - 1) : \A y \in S \ Best(S, R, n - 1) : <<y, x>> \notin R
  <2>1. S \ Best(S, R, n - 1) # {} /\ S \ Best(S, R, n - 1) \in SUBSET S
    BY <1>3 DEF Best
  <2> QED BY <2>1, FirstExists
<1>6. Ahead(S, R, x) = Best(S, R, n - 1)
  <2>1. \A y \in Best(S, R, n - 1) : y \in S /\ <<y, x>> \in R
    <3>1. Best(S, R, n - 1) \subseteq S
      BY DEF Best
    <3> QED BY <1>1, <1>5, <3>1, BestFacts
  <2> QED BY <1>5, <2>1 DEF Ahead
<1> QED BY <1>4, <1>5, <1>6

(* The list holds the best k, and the n-th of it has n - 1 ahead of it.    *)
LEMMA RankedListFacts ==
  ASSUME NEW S, IsFiniteSet(S), NEW R, IsStrictOrder(S, R), IsTotal(S, R), NEW k \in Nat
  PROVE  LET list == RankedList(S, R, k)
             m == IF k <= Cardinality(S) THEN k ELSE Cardinality(S)
         IN  /\ m \in Nat /\ m <= k /\ DOMAIN list = 1..m
             /\ list \in Seq(S) /\ Len(list) = m
             /\ \A n \in 1..m : list[n] \in S /\ Cardinality(Ahead(S, R, list[n])) = n - 1
             /\ \A i, j \in 1..m : list[i] = list[j] => i = j
             /\ {list[n] : n \in 1..m} = Best(S, R, k)
<1> DEFINE list == RankedList(S, R, k)
           m == IF k <= Cardinality(S) THEN k ELSE Cardinality(S)
<1>1. Cardinality(S) \in Nat /\ m \in Nat /\ m <= k /\ m <= Cardinality(S)
  BY FS_CardinalityType
<1>2. list = [n \in 1..m |-> CHOOSE x \in S : Cardinality(Ahead(S, R, x)) = n - 1]
  BY DEF RankedList
<1>3. m = k \/ m = Cardinality(S)
  OBVIOUS
<1> HIDE DEF list, m
<1>4. \A n \in 1..m : list[n] \in S /\ Cardinality(Ahead(S, R, list[n])) = n - 1
  <2>1. \A n \in 1..m : n \in 1..Cardinality(S)
    BY <1>1
  <2>2. \A n \in 1..m : \E x \in S : Cardinality(Ahead(S, R, x)) = n - 1
    BY <2>1, RanksExist
  <2> QED BY <1>2, <2>2
<1>5. \A x \in S : Cardinality(Ahead(S, R, x)) \in Nat /\ Cardinality(Ahead(S, R, x)) < Cardinality(S)
  <2> SUFFICES ASSUME NEW x \in S
               PROVE  Cardinality(Ahead(S, R, x)) \in Nat /\ Cardinality(Ahead(S, R, x)) < Cardinality(S)
    OBVIOUS
  <2>1. Ahead(S, R, x) \subseteq S /\ x \notin Ahead(S, R, x)
    BY DEF Ahead, IsStrictOrder
  <2>2. Ahead(S, R, x) # S
    BY <2>1
  <2> QED BY <1>1, <2>1, <2>2, FS_Subset, FS_CardinalityType
<1>6. {list[n] : n \in 1..m} = Best(S, R, k)
  <2>1. \A n \in 1..m : list[n] \in Best(S, R, k)
    BY <1>1, <1>4 DEF Best
  <2>2. ASSUME NEW x \in Best(S, R, k)
        PROVE  \E n \in 1..m : list[n] = x
    <3>1. x \in S /\ Cardinality(Ahead(S, R, x)) < k
      BY DEF Best
    <3>2. PICK n \in Nat : n = Cardinality(Ahead(S, R, x)) + 1
      BY <1>5, <3>1
    <3>3. n \in 1..m /\ Cardinality(Ahead(S, R, x)) = n - 1
      BY <1>1, <1>3, <1>5, <3>1, <3>2
    <3>4. list[n] = x
      BY <1>4, <3>1, <3>3, RanksDiffer
    <3> QED BY <3>3, <3>4
  <2> QED BY <2>1, <2>2
<1>7. \A i, j \in 1..m : list[i] = list[j] => i = j
  <2> SUFFICES ASSUME NEW i \in 1..m, NEW j \in 1..m, list[i] = list[j] PROVE i = j
    OBVIOUS
  <2>1. i - 1 = j - 1
    BY <1>4
  <2> QED BY <1>1, <2>1
<1>8. DOMAIN list = 1..m /\ list \in [1..m -> S]
  BY <1>2, <1>4
<1>9. list \in Seq(S) /\ Len(list) = m
  BY <1>1, <1>8
<1> QED BY <1>1, <1>4, <1>6, <1>7, <1>8, <1>9 DEF list, m

LEMMA RankedListRanks ==
  ASSUME NEW S, IsFiniteSet(S), NEW R, IsStrictOrder(S, R), IsTotal(S, R), NEW k \in Nat,
         NEW n \in DOMAIN RankedList(S, R, k)
  PROVE  /\ RankedList(S, R, k)[n] \in S
         /\ Cardinality(Ahead(S, R, RankedList(S, R, k)[n])) = n - 1
BY RankedListFacts

(* What is not among the best k can be left out before they are listed.    *)
LEMMA ListOfEnough ==
  ASSUME NEW D, IsFiniteSet(D), NEW R, IsStrictOrder(D, R), IsTotal(D, R), NEW k \in Nat,
         NEW C \in SUBSET D, Best(D, R, k) \subseteq C
  PROVE  RankedList(C, R, k) = RankedList(D, R, k)
<1> DEFINE m(S) == IF k <= Cardinality(S) THEN k ELSE Cardinality(S)
<1>1. IsFiniteSet(C) /\ IsStrictOrder(C, R) /\ IsTotal(C, R)
  BY FS_Subset DEF IsStrictOrder, IsTotal
<1>2. Cardinality(C) \in Nat /\ Cardinality(D) \in Nat /\ Cardinality(C) <= Cardinality(D)
  BY <1>1, FS_Subset, FS_CardinalityType
<1>3. m(C) = m(D)
  <2>1. CASE Best(D, R, k) = D
    <3>1. C = D
      BY <2>1
    <3> QED BY <3>1
  <2>2. CASE Best(D, R, k) # D
    <3>1. Cardinality(Best(D, R, k)) = k
      BY <2>2, BestFacts
    <3>2. k <= Cardinality(C)
      BY <1>1, <3>1, FS_Subset
    <3> QED BY <1>2, <3>2
  <2> QED BY <2>1, <2>2
<1>4. /\ DOMAIN RankedList(C, R, k) = 1..m(C) /\ DOMAIN RankedList(D, R, k) = 1..m(D) /\ m(D) \in Nat
      /\ RankedList(C, R, k) = [n \in 1..m(C) |-> RankedList(C, R, k)[n]]
      /\ RankedList(D, R, k) = [n \in 1..m(D) |-> RankedList(D, R, k)[n]]
  BY <1>2 DEF RankedList
<1>5. ASSUME NEW n \in 1..m(D)
      PROVE  RankedList(C, R, k)[n] = RankedList(D, R, k)[n]
  <2> DEFINE x == RankedList(D, R, k)[n]
             y == RankedList(C, R, k)[n]
  <2>1. x \in D /\ Cardinality(Ahead(D, R, x)) = n - 1 /\ m(D) <= k
    BY RankedListFacts
  <2>2. y \in C /\ Cardinality(Ahead(C, R, y)) = n - 1
    <3>1. n \in DOMAIN RankedList(C, R, k)
      BY <1>3, <1>4
    <3> QED BY <1>1, <3>1, RankedListRanks
  <2> HIDE DEF x, y
  <2>3. Cardinality(Ahead(D, R, x)) < k
    BY <1>4, <2>1
  <2>4. x \in C
    BY <2>1, <2>3 DEF Best
  <2>5. \A z \in Ahead(D, R, x) : z \in C
    <3> SUFFICES ASSUME NEW z \in Ahead(D, R, x) PROVE z \in C
      OBVIOUS
    <3>1. /\ z \in D /\ Cardinality(Ahead(D, R, z)) < Cardinality(Ahead(D, R, x))
          /\ Cardinality(Ahead(D, R, z)) \in Nat /\ Cardinality(Ahead(D, R, x)) \in Nat
      <4>1. z \in D
        BY DEF Ahead
      <4> QED BY <2>1, <4>1, AheadShrinks
    <3>2. Cardinality(Ahead(D, R, z)) < k
      BY <2>3, <3>1
    <3> QED BY <3>1, <3>2 DEF Best
  <2>6. Ahead(C, R, x) = Ahead(D, R, x)
    BY <2>5 DEF Ahead
  <2>7. x = y
    BY <1>1, <2>1, <2>2, <2>4, <2>6, RanksDiffer
  <2> QED BY <2>7 DEF x, y
<1> HIDE DEF m
<1> QED BY <1>3, <1>4, <1>5

(* A list that has the members of S where their rank puts them is that     *)
(* list; and what is known of it.                                          *)
Shorter(S, k) == IF k <= Cardinality(S) THEN k ELSE Cardinality(S)

IsRanked(list, S, R, k) ==
  /\ list = [n \in 1..Shorter(S, k) |-> list[n]]
  /\ \A n \in 1..Shorter(S, k) : list[n] \in S /\ Cardinality(Ahead(S, R, list[n])) = n - 1

LEMMA RankedIsRankedList ==
  ASSUME NEW S, IsFiniteSet(S), NEW R, IsStrictOrder(S, R), IsTotal(S, R), NEW k \in Nat,
         NEW list, IsRanked(list, S, R, k)
  PROVE  /\ list = RankedList(S, R, k)
         /\ DOMAIN list = 1..Shorter(S, k) /\ Shorter(S, k) \in Nat /\ Shorter(S, k) <= k
         /\ list \in Seq(S) /\ Len(list) = Shorter(S, k)
         /\ \A i, j \in DOMAIN list : list[i] = list[j] => i = j
         /\ {list[n] : n \in DOMAIN list} = Best(S, R, k)
<1> DEFINE ranked == RankedList(S, R, k)
           m == Shorter(S, k)
<1>1. /\ m \in Nat /\ m <= k /\ DOMAIN ranked = 1..m
      /\ ranked \in Seq(S) /\ Len(ranked) = m
      /\ \A n \in 1..m : ranked[n] \in S /\ Cardinality(Ahead(S, R, ranked[n])) = n - 1
      /\ \A i, j \in 1..m : ranked[i] = ranked[j] => i = j
      /\ {ranked[n] : n \in 1..m} = Best(S, R, k)
  BY RankedListFacts DEF Shorter
<1>2. ranked = [n \in 1..m |-> ranked[n]]
  BY DEF RankedList, Shorter
<1>3. \A n \in 1..m : list[n] = ranked[n]
  BY <1>1, RanksDiffer DEF IsRanked
<1>4. list = ranked
  BY <1>2, <1>3 DEF IsRanked
<1> HIDE DEF ranked, m
<1> QED BY <1>1, <1>4 DEF ranked, m

-----------------------------------------------------------------------------
(* Sets of numbers, least first.                                           *)
Earlier == {p \in Nat \X Nat : p[1] < p[2]}
ByNumber(A, k) ==
  [n \in 1..Shorter(A, k) |-> CHOOSE i \in A : Cardinality({j \in A : j < i}) = n - 1]

LEMMA EarlierFacts ==
  ASSUME NEW A \in SUBSET Nat
  PROVE  /\ IsStrictOrder(A, Earlier) /\ IsTotal(A, Earlier)
         /\ \A i \in A : Ahead(A, Earlier, i) = {j \in A : j < i}
<1>1. \A i, j \in Nat : <<i, j>> \in Earlier <=> i < j
  BY DEF Earlier
<1>2. \A i \in A : Ahead(A, Earlier, i) = {j \in A : j < i}
  BY <1>1 DEF Ahead
<1>3. \A x \in A : x \in Nat
  OBVIOUS
<1> QED BY <1>1, <1>2, <1>3 DEF IsStrictOrder, IsTotal

(* The least k as a list by rank.                                          *)
LEMMA ByNumberFacts ==
  ASSUME NEW A \in SUBSET Nat, IsFiniteSet(A), NEW k \in Nat
  PROVE  /\ ByNumber(A, k) = RankedList(A, Earlier, k)
         /\ ByNumber(A, k) \in Seq(A) /\ Len(ByNumber(A, k)) = Shorter(A, k)
         /\ {ByNumber(A, k)[n] : n \in DOMAIN ByNumber(A, k)} = Best(A, Earlier, k)
         /\ IsFiniteSet(Best(A, Earlier, k)) /\ Best(A, Earlier, k) \in SUBSET A
<1>1. /\ IsStrictOrder(A, Earlier) /\ IsTotal(A, Earlier)
      /\ \A i \in A : Ahead(A, Earlier, i) = {j \in A : j < i}
  BY EarlierFacts
<1>2. Cardinality(A) \in Nat
  BY FS_CardinalityType
<1>3. PICK list : list = ByNumber(A, k)
  OBVIOUS
<1>4. IsRanked(list, A, Earlier, k)
  <2>1. list = [n \in 1..Shorter(A, k) |-> CHOOSE i \in A : Cardinality({j \in A : j < i}) = n - 1]
    BY <1>3 DEF ByNumber
  <2>2. \A n \in 1..Shorter(A, k) :
          list[n] \in A /\ Cardinality(Ahead(A, Earlier, list[n])) = n - 1
    <3> SUFFICES ASSUME NEW n \in 1..Shorter(A, k)
                 PROVE  list[n] \in A /\ Cardinality(Ahead(A, Earlier, list[n])) = n - 1
      OBVIOUS
    <3>1. n \in 1..Cardinality(A)
      BY <1>2 DEF Shorter
    <3>2. \E i \in A : Cardinality(Ahead(A, Earlier, i)) = n - 1
      BY <1>1, <3>1, RanksExist
    <3>3. \E i \in A : Cardinality({j \in A : j < i}) = n - 1
      BY <1>1, <3>2
    <3>4. list[n] = CHOOSE i \in A : Cardinality({j \in A : j < i}) = n - 1
      BY <2>1
    <3>5. list[n] \in A /\ Cardinality({j \in A : j < list[n]}) = n - 1
      BY <3>3, <3>4, Zenon
    <3> QED BY <1>1, <3>5
  <2>3. list = [n \in 1..Shorter(A, k) |-> list[n]]
    <3> DEFINE At(n) == CHOOSE i \in A : Cardinality({j \in A : j < i}) = n - 1
    <3>1. list = [n \in 1..Shorter(A, k) |-> At(n)]
      BY <2>1
    <3> HIDE DEF At
    <3> QED BY <3>1
  <2> QED BY <2>2, <2>3 DEF IsRanked
<1>5. /\ list = RankedList(A, Earlier, k)
      /\ list \in Seq(A) /\ Len(list) = Shorter(A, k)
      /\ {list[n] : n \in DOMAIN list} = Best(A, Earlier, k)
  BY <1>1, <1>4, RankedIsRankedList
<1>6. Best(A, Earlier, k) \in SUBSET A
  BY DEF Best
<1>7. IsFiniteSet(Best(A, Earlier, k))
  BY <1>6, FS_Subset
<1> QED BY <1>3, <1>5, <1>6, <1>7

LEMMA NoneByNumber ==
  ASSUME NEW k \in Nat
  PROVE  ByNumber({}, k) = <<>>
<1>1. Cardinality({}) = 0 /\ IsFiniteSet({})
  BY FS_EmptySet
<1>2. Shorter({}, k) = 0
  BY <1>1 DEF Shorter
<1>3. PICK A \in SUBSET Nat : A = {}
  OBVIOUS
<1>4. Len(ByNumber(A, k)) = Shorter(A, k) /\ ByNumber(A, k) \in Seq(A)
  BY <1>1, <1>3, ByNumberFacts
<1> QED BY <1>2, <1>3, <1>4, EmptySeq

(* One more number, greater than all, is last or cut off.                  *)
LEMMA ByNumberGrows ==
  ASSUME NEW A \in SUBSET Nat, IsFiniteSet(A), NEW k \in Nat, NEW m \in Nat, \A i \in A : i < m
  PROVE  /\ IsFiniteSet(A \cup {m}) /\ Cardinality(A \cup {m}) = Cardinality(A) + 1
         /\ ByNumber(A \cup {m}, k) = IF Len(ByNumber(A, k)) < k THEN Append(ByNumber(A, k), m)
                                      ELSE ByNumber(A, k)
<1>1. PICK D : D = A \cup {m}
  OBVIOUS
<1>2. m \notin A
  OBVIOUS
<1>3. /\ D \in SUBSET Nat /\ IsFiniteSet(D) /\ Cardinality(D) = Cardinality(A) + 1
      /\ Cardinality(A) \in Nat
  BY <1>1, <1>2, FS_AddElement, FS_CardinalityType
<1>4. /\ IsStrictOrder(D, Earlier) /\ IsTotal(D, Earlier)
      /\ IsStrictOrder(A, Earlier) /\ IsTotal(A, Earlier)
      /\ \A i \in D : Ahead(D, Earlier, i) = {j \in D : j < i}
      /\ \A i \in A : Ahead(A, Earlier, i) = {j \in A : j < i}
  BY <1>3, EarlierFacts
<1>5. Ahead(D, Earlier, m) = A
  <2>1. \A j \in D : j < m <=> j \in A
    BY <1>1
  <2>2. Ahead(D, Earlier, m) = {j \in D : j < m} /\ A \subseteq D
    BY <1>1, <1>4
  <2> QED BY <2>1, <2>2
<1>6. \A i \in A : Ahead(D, Earlier, i) = Ahead(A, Earlier, i)
  <2> SUFFICES ASSUME NEW i \in A PROVE Ahead(D, Earlier, i) = Ahead(A, Earlier, i)
    OBVIOUS
  <2>1. \A j \in D : j < i => j \in A
    BY <1>1
  <2> QED BY <1>1, <1>4, <2>1
<1>7. PICK list : list = ByNumber(A, k)
  OBVIOUS
<1>8. /\ list = RankedList(A, Earlier, k) /\ list \in Seq(A) /\ Len(list) = Shorter(A, k)
      /\ ByNumber(D, k) = RankedList(D, Earlier, k)
  BY <1>3, <1>7, ByNumberFacts
<1>9. Len(list) < k <=> Cardinality(A) < k
  BY <1>3, <1>8 DEF Shorter
<1>a. CASE Cardinality(A) < k
  <2>1. Len(list) = Cardinality(A) /\ Shorter(D, k) = Cardinality(A) + 1
    BY <1>3, <1>8, <1>a DEF Shorter
  <2>2. PICK longer : longer = Append(list, m)
    OBVIOUS
  <2>3. longer = [n \in 1..Shorter(D, k) |-> IF n = Cardinality(A) + 1 THEN m ELSE list[n]]
    <3>1. DOMAIN list = 1..Cardinality(A) /\ Len(list) + 1 = Shorter(D, k)
      BY <1>8, <2>1, LenProperties
    <3>2. list \in Seq(D) /\ m \in D
      <4>1. A \subseteq D
        BY <1>1
      <4> QED BY <1>1, <1>8, <4>1
    <3>3. /\ longer \in Seq(D) /\ Len(longer) = Len(list) + 1
          /\ \A n \in 1..Len(list) : longer[n] = list[n]
          /\ longer[Len(list) + 1] = m
      BY <2>2, <3>2, AppendProperties
    <3>4. longer = [n \in 1..Len(longer) |-> longer[n]]
      BY <3>3, LenProperties
    <3>5. \A n \in 1..(Cardinality(A) + 1) :
            longer[n] = IF n = Cardinality(A) + 1 THEN m ELSE list[n]
      BY <1>3, <2>1, <3>3
    <3> QED BY <2>1, <3>1, <3>3, <3>4, <3>5
  <2>4. \A n \in 1..Cardinality(A) : list[n] \in A /\ Cardinality(Ahead(A, Earlier, list[n])) = n - 1
    <3>1. DOMAIN list = 1..Cardinality(A)
      BY <1>8, <2>1, LenProperties
    <3> SUFFICES ASSUME NEW n \in 1..Cardinality(A)
                 PROVE  list[n] \in A /\ Cardinality(Ahead(A, Earlier, list[n])) = n - 1
      OBVIOUS
    <3>2. n \in DOMAIN RankedList(A, Earlier, k)
      BY <1>8, <3>1
    <3>3. /\ RankedList(A, Earlier, k)[n] \in A
          /\ Cardinality(Ahead(A, Earlier, RankedList(A, Earlier, k)[n])) = n - 1
      BY <1>4, <3>2, RankedListRanks
    <3> QED BY <1>8, <3>3
  <2>5. \A n \in 1..Shorter(D, k) :
          longer[n] \in D /\ Cardinality(Ahead(D, Earlier, longer[n])) = n - 1
    <3> SUFFICES ASSUME NEW n \in 1..Shorter(D, k)
                 PROVE  longer[n] \in D /\ Cardinality(Ahead(D, Earlier, longer[n])) = n - 1
      OBVIOUS
    <3>1. CASE n = Cardinality(A) + 1
      <4>1. longer[n] = m
        BY <2>3, <3>1
      <4> QED BY <1>1, <1>3, <1>5, <3>1, <4>1
    <3>2. CASE n # Cardinality(A) + 1
      <4>1. n \in 1..Cardinality(A) /\ longer[n] = list[n]
        BY <1>3, <2>1, <2>3, <3>2
      <4>2. list[n] \in A /\ Cardinality(Ahead(A, Earlier, list[n])) = n - 1
        BY <2>4, <4>1
      <4> QED BY <1>1, <1>6, <4>1, <4>2
    <3> QED BY <3>1, <3>2
  <2>6. longer = [n \in 1..Shorter(D, k) |-> longer[n]]
    BY <2>3
  <2>7. IsRanked(longer, D, Earlier, k)
    BY <2>5, <2>6 DEF IsRanked
  <2>8. longer = RankedList(D, Earlier, k)
    BY <1>3, <1>4, <2>7, RankedIsRankedList
  <2> QED BY <1>1, <1>3, <1>7, <1>8, <1>9, <1>a, <2>2, <2>8
<1>b. CASE ~(Cardinality(A) < k)
  <2>1. Best(D, Earlier, k) \subseteq A
    <3> SUFFICES ASSUME NEW x \in Best(D, Earlier, k) PROVE x \in A
      OBVIOUS
    <3>1. x \in D /\ Cardinality(Ahead(D, Earlier, x)) < k
      BY DEF Best
    <3>2. x # m
      BY <1>5, <1>b, <3>1
    <3> QED BY <1>1, <3>1, <3>2
  <2>2. RankedList(A, Earlier, k) = RankedList(D, Earlier, k)
    BY <1>1, <1>3, <1>4, <2>1, ListOfEnough
  <2> QED BY <1>1, <1>3, <1>7, <1>8, <1>9, <1>b, <2>2
<1> QED BY <1>a, <1>b

(* What was cut off two lists is not missing from the list of both.        *)
LEMMA ByNumberOfBoth ==
  ASSUME NEW A \in SUBSET Nat, IsFiniteSet(A), NEW B \in SUBSET Nat, IsFiniteSet(B), NEW k \in Nat
  PROVE  ByNumber(Best(A, Earlier, k) \cup Best(B, Earlier, k), k) = ByNumber(A \cup B, k)
<1>1. PICK D : D = A \cup B
  OBVIOUS
<1>2. PICK C : C = Best(A, Earlier, k) \cup Best(B, Earlier, k)
  OBVIOUS
<1>3. D \in SUBSET Nat /\ IsFiniteSet(D) /\ C \in SUBSET D
  BY <1>1, <1>2, FS_Union DEF Best
<1>4. C \in SUBSET Nat /\ IsFiniteSet(C)
  BY <1>3, FS_Subset
<1>5. \A S \in SUBSET D : \A x \in S :
         /\ Cardinality(Ahead(S, Earlier, x)) \in Nat /\ Cardinality(Ahead(D, Earlier, x)) \in Nat
         /\ Cardinality(Ahead(S, Earlier, x)) <= Cardinality(Ahead(D, Earlier, x))
  <2> SUFFICES ASSUME NEW S \in SUBSET D, NEW x \in S
               PROVE  /\ Cardinality(Ahead(S, Earlier, x)) \in Nat
                      /\ Cardinality(Ahead(D, Earlier, x)) \in Nat
                      /\ Cardinality(Ahead(S, Earlier, x)) <= Cardinality(Ahead(D, Earlier, x))
    OBVIOUS
  <2>1. Ahead(S, Earlier, x) \subseteq Ahead(D, Earlier, x) /\ Ahead(D, Earlier, x) \subseteq D
    BY DEF Ahead
  <2>2. IsFiniteSet(Ahead(D, Earlier, x))
    BY <1>3, <2>1, FS_Subset
  <2> QED BY <2>1, <2>2, FS_Subset, FS_CardinalityType
<1>6. \A S \in SUBSET D : \A x \in S : x \in Best(D, Earlier, k) => x \in Best(S, Earlier, k)
  <2> SUFFICES ASSUME NEW S \in SUBSET D, NEW x \in S, x \in Best(D, Earlier, k)
               PROVE  x \in Best(S, Earlier, k)
    OBVIOUS
  <2>1. Cardinality(Ahead(D, Earlier, x)) < k
    BY DEF Best
  <2>2. Cardinality(Ahead(S, Earlier, x)) < k
    BY <1>5, <2>1
  <2> QED BY <2>2 DEF Best
<1>7. Best(D, Earlier, k) \subseteq C
  <2>1. A \in SUBSET D /\ B \in SUBSET D /\ Best(D, Earlier, k) \subseteq D
    BY <1>1 DEF Best
  <2> QED BY <1>1, <1>2, <1>6, <2>1
<1>8. IsStrictOrder(D, Earlier) /\ IsTotal(D, Earlier)
  BY <1>3, EarlierFacts
<1>9. RankedList(C, Earlier, k) = RankedList(D, Earlier, k)
  BY <1>3, <1>7, <1>8, ListOfEnough
<1>a. ByNumber(C, k) = RankedList(C, Earlier, k)
  BY <1>4, ByNumberFacts
<1>b. ByNumber(D, k) = RankedList(D, Earlier, k)
  BY <1>3, ByNumberFacts
<1> QED BY <1>1, <1>2, <1>9, <1>a, <1>b
=============================================================================
