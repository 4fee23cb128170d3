------------------------- MODULE Calculations_proofs --------------------------
(***************************************************************************)
(* The calculations, for every input: the ranking that is taken, the       *)
(* present event, the inverses of the points, the table of gains, the      *)
(* player's deck, the scores of a chart, the plays that give a target and  *)
(* the rows of scores and points.                                          *)
(*                                                                         *)
(* What they sum is a recursion over the subsets of a finite set.  Nothing *)
(* here is proved by a scheme of induction: a set of natural numbers that  *)
(* is not empty has a least element, as < is well founded, so that a set   *)
(* with 0 and the successor of each element is Nat; the facts about sums   *)
(* follow for the set of the sizes for which they hold.                    *)
(***************************************************************************)
EXTENDS Services, TLAPS, FiniteSetTheorems, WellFoundedInduction


-----------------------------------------------------------------------------
\* Induction.  The relation < has a least element in every set of natural numbers that is not empty;
\* a set that holds 0 and the successor of each element holds all of them.
LEMMA LessIsWellFounded == IsWellFoundedOn({r \in Nat \X Nat : r[1] < r[2]}, Nat)
BY NatLessThanWellFounded DEF OpToRel

LEMMA LeastNatural == ASSUME NEW T \in SUBSET Nat, T # {} PROVE \E x \in T : \A y \in T : x <= y
<1> DEFINE R == {r \in Nat \X Nat : r[1] < r[2]}
<1>1. PICK x \in T : \A y \in T : ~ (<<y, x>> \in R)
  <2> HIDE DEF R
  <2> QED BY WFMin, LessIsWellFounded DEF R
<1>2. \A y \in T : ~ (y < x)
  <2> SUFFICES ASSUME NEW y \in T, y < x PROVE FALSE
    OBVIOUS
  <2>1. <<y, x>> \in R
    OBVIOUS
  <2> QED BY <1>1, <2>1
<1> HIDE DEF R
<1> QED BY <1>1, <1>2

LEMMA AllNaturals == ASSUME NEW T \in SUBSET Nat, 0 \in T, \A n \in T : n + 1 \in T PROVE T = Nat
<1> SUFFICES ASSUME Nat \ T # {} PROVE FALSE
  OBVIOUS
<1>1. PICK x \in Nat \ T : \A y \in Nat \ T : x <= y
  BY LeastNatural
<1>2. x - 1 \in T
  BY <1>1
<1> QED BY <1>1, <1>2

\* The same for the subsets of a finite set: a family that holds the empty set and, with a set, the
\* set with one element more holds all of them.
LEMMA AllSubsets ==
  ASSUME NEW S, IsFiniteSet(S), NEW W, {} \in W,
         \A T \in SUBSET S, x \in S : T \in W /\ x \notin T => T \union {x} \in W
  PROVE  \A T \in SUBSET S : T \in W
<1> DEFINE N == {n \in Nat : \A T \in SUBSET S : Cardinality(T) = n => T \in W}
<1>1. 0 \in N
  BY FS_EmptySet, FS_Subset
<1>2. \A n \in N : n + 1 \in N
  <2> SUFFICES ASSUME NEW n \in N, NEW T \in SUBSET S, Cardinality(T) = n + 1 PROVE T \in W
    OBVIOUS
  <2>1. IsFiniteSet(T) /\ T # {}
    BY FS_EmptySet, FS_Subset
  <2>2. PICK x \in T : TRUE
    BY <2>1
  <2>3. Cardinality(T \ {x}) = n
    <3>1. Cardinality(T \ {x}) = Cardinality(T) - 1 /\ n \in Nat
      BY <2>1, <2>2, FS_RemoveElement
    <3> QED BY <3>1
  <2>4. T \ {x} \in W /\ T \ {x} \in SUBSET S /\ x \in S /\ (T \ {x}) \union {x} = T
    BY <2>2, <2>3
  <2> QED BY <2>4
<1>3. N = Nat
  <2> HIDE DEF N
  <2>1. N \in SUBSET Nat
    BY DEF N
  <2> QED BY <1>1, <1>2, <2>1, AllNaturals
<1> QED BY <1>3, FS_Subset, FS_CardinalityType

-----------------------------------------------------------------------------
\* Sums.  MapThenSumSet defines a function over the subsets of a set by recursion; Sum names the
\* same value for a function instead of an operator, so that lemmas can be stated about it.
Pick(T) == CHOOSE x \in T : TRUE
Adds(g, f, S) == g = [T \in SUBSET S |-> IF T = {} THEN 0 ELSE f[Pick(T)] + g[T \ {Pick(T)}]]
Adding(f, S) == CHOOSE g : Adds(g, f, S)
Sum(f, S) == Adding(f, S)[S]

\* A finite set of terms that are integers.
Summable(f, S) == IsFiniteSet(S) /\ \A x \in S : f[x] \in Int

LEMMA PickIsElement == ASSUME NEW T, T # {} PROVE Pick(T) \in T
BY DEF Pick

\* The recursion has a solution: for the subsets of at most n elements, for every n.
LEMMA SumExists ==
  ASSUME NEW S, NEW f, Summable(f, S)
  PROVE  \E g \in [SUBSET S -> Int] : Adds(g, f, S)
<1> DEFINE Small(n) == {T \in SUBSET S : Cardinality(T) <= n}
           Rule(g, n) == \A T \in Small(n) : g[T] = IF T = {} THEN 0 ELSE f[Pick(T)] + g[T \ {Pick(T)}]
           N == {n \in Nat : \E g \in [Small(n) -> Int] : Rule(g, n)}
<1>1. \A T \in SUBSET S : IsFiniteSet(T) /\ Cardinality(T) \in Nat /\ (Cardinality(T) = 0 <=> T = {})
  BY FS_Subset, FS_CardinalityType, FS_EmptySet DEF Summable
<1>2. \A T \in SUBSET S : T # {} => /\ Pick(T) \in S /\ T \ {Pick(T)} \in SUBSET S
                                     /\ Cardinality(T \ {Pick(T)}) = Cardinality(T) - 1
  BY <1>1, PickIsElement, FS_RemoveElement
<1>3. 0 \in N
  <2> DEFINE g == [T \in Small(0) |-> 0]
  <2>1. \A T \in Small(0) : T = {}
    BY <1>1
  <2>2. g \in [Small(0) -> Int] /\ Rule(g, 0)
    BY <2>1
  <2> QED BY <2>2
<1>4. \A n \in N : n + 1 \in N
  <2> SUFFICES ASSUME NEW n \in N PROVE n + 1 \in N
    OBVIOUS
  <2> PICK g \in [Small(n) -> Int] : Rule(g, n)
    OBVIOUS
  <2> DEFINE h == [T \in Small(n + 1) |-> IF T \in Small(n) THEN g[T] ELSE f[Pick(T)] + g[T \ {Pick(T)}]]
  <2>1. \A T \in Small(n + 1) : T # {} => Pick(T) \in S /\ T \ {Pick(T)} \in Small(n)
    BY <1>1, <1>2
  <2>2. {} \in Small(n) /\ Small(n) \subseteq Small(n + 1)
    BY <1>1
  <2>3. \A T \in Small(n) : h[T] = g[T]
    BY <2>2
  <2>4. \A T \in Small(n + 1) : h[T] \in Int
    <3> SUFFICES ASSUME NEW T \in Small(n + 1) PROVE h[T] \in Int
      OBVIOUS
    <3>1. CASE T \in Small(n)
      BY <2>2, <3>1
    <3>2. CASE T \notin Small(n)
      <4>1. T # {} /\ h[T] = f[Pick(T)] + g[T \ {Pick(T)}]
        BY <2>2, <3>2
      <4>2. f[Pick(T)] \in Int /\ g[T \ {Pick(T)}] \in Int
        <5> HIDE DEF Small, h
        <5> QED BY <2>1, <4>1 DEF Summable
      <4> QED BY <4>1, <4>2
    <3> QED BY <3>1, <3>2
  <2>5. ASSUME NEW T \in Small(n + 1) PROVE h[T] = IF T = {} THEN 0 ELSE f[Pick(T)] + h[T \ {Pick(T)}]
    <3>1. CASE T \in Small(n)
      <4>1. g[T] = IF T = {} THEN 0 ELSE f[Pick(T)] + g[T \ {Pick(T)}]
        BY <3>1
      <4>2. T # {} => T \ {Pick(T)} \in Small(n)
        BY <2>1
      <4> HIDE DEF Small, h
      <4> QED BY <2>3, <3>1, <4>1, <4>2
    <3>2. CASE T \notin Small(n)
      <4>1. T # {} /\ h[T] = f[Pick(T)] + g[T \ {Pick(T)}]
        BY <2>2, <3>2
      <4> HIDE DEF Small, h
      <4> QED BY <2>1, <2>3, <4>1
    <3> QED BY <3>1, <3>2
  <2>6. h \in [Small(n + 1) -> Int]
    <3> HIDE DEF Small
    <3> QED BY <2>4
  <2>7. Rule(h, n + 1)
    <3> HIDE DEF h, Small
    <3> QED BY <2>5
  <2> HIDE DEF h, Small, Rule
  <2> QED BY <2>6, <2>7
<1>5. Cardinality(S) \in N
  <2> HIDE DEF N
  <2>1. N \in SUBSET Nat
    BY DEF N
  <2> QED BY <1>3, <1>4, <2>1, AllNaturals, FS_CardinalityType DEF Summable
<1>6. Small(Cardinality(S)) = SUBSET S
  BY FS_Subset DEF Summable
<1>7. PICK g \in [SUBSET S -> Int] : Rule(g, Cardinality(S))
  <2> HIDE DEF Small
  <2> QED BY <1>5, <1>6
<1>8. Adds(g, f, S)
  <2>1. \A T \in SUBSET S : g[T] = IF T = {} THEN 0 ELSE f[Pick(T)] + g[T \ {Pick(T)}]
    <3> HIDE DEF Small
    <3> QED BY <1>6, <1>7
  <2> QED BY <1>7, <2>1 DEF Adds
<1> QED BY <1>8

\* It has only one: two of them agree where both are defined, and the sums of equal terms are equal.
LEMMA SumsAgree ==
  ASSUME NEW S, IsFiniteSet(S), NEW f, NEW e, \A x \in S : f[x] = e[x],
         NEW g, Adds(g, f, S), NEW h, Adds(h, e, S)
  PROVE  \A T \in SUBSET S : g[T] = h[T]
<1> DEFINE N == {n \in Nat : \A T \in SUBSET S : Cardinality(T) = n => g[T] = h[T]}
<1>1. \A T \in SUBSET S : IsFiniteSet(T) /\ Cardinality(T) \in Nat /\ (Cardinality(T) = 0 <=> T = {})
  BY FS_Subset, FS_CardinalityType, FS_EmptySet
<1>2. \A T \in SUBSET S : T # {} => /\ Pick(T) \in S /\ T \ {Pick(T)} \in SUBSET S
                                     /\ Cardinality(T \ {Pick(T)}) = Cardinality(T) - 1
  BY <1>1, PickIsElement, FS_RemoveElement
<1>3. \A T \in SUBSET S : /\ g[T] = IF T = {} THEN 0 ELSE f[Pick(T)] + g[T \ {Pick(T)}]
                          /\ h[T] = IF T = {} THEN 0 ELSE e[Pick(T)] + h[T \ {Pick(T)}]
  BY DEF Adds
<1>4. 0 \in N
  BY <1>1, <1>3
<1>5. \A n \in N : n + 1 \in N
  <2> SUFFICES ASSUME NEW n \in N, NEW T \in SUBSET S, Cardinality(T) = n + 1 PROVE g[T] = h[T]
    OBVIOUS
  <2>1. T # {}
    BY <1>1
  <2>2. g[T \ {Pick(T)}] = h[T \ {Pick(T)}]
    <3>1. Cardinality(T \ {Pick(T)}) = n /\ T \ {Pick(T)} \in SUBSET S
      BY <1>2, <2>1
    <3> QED BY <3>1
  <2> QED BY <1>2, <1>3, <2>1, <2>2
<1>6. N = Nat
  <2> HIDE DEF N
  <2>1. N \in SUBSET Nat
    BY DEF N
  <2> QED BY <1>4, <1>5, <2>1, AllNaturals
<1> QED BY <1>1, <1>6

LEMMA AddingAdds ==
  ASSUME NEW S, NEW f, Summable(f, S)
  PROVE  Adding(f, S) \in [SUBSET S -> Int] /\ Adds(Adding(f, S), f, S)
<1>1. PICK g \in [SUBSET S -> Int] : Adds(g, f, S)
  BY SumExists
<1>2. Adds(Adding(f, S), f, S)
  BY <1>1 DEF Adding
<1>3. \A T \in SUBSET S : g[T] = Adding(f, S)[T]
  BY <1>1, <1>2, SumsAgree DEF Summable
<1>4. Adding(f, S) = [T \in SUBSET S |-> Adding(f, S)[T]]
  BY <1>2 DEF Adds
<1>5. Adding(f, S) = g
  BY <1>1, <1>3, <1>4
<1> QED BY <1>1, <1>5

LEMMA SumIsAdding ==
  ASSUME NEW S, NEW f, Summable(f, S), NEW T \in SUBSET S
  PROVE  Summable(f, T) /\ Sum(f, T) = Adding(f, S)[T]
<1>1. Summable(f, T)
  BY FS_Subset DEF Summable
<1>2. Adds(Adding(f, T), f, T) /\ Adds(Adding(f, S), f, S)
  BY <1>1, AddingAdds
<1>3. IsFiniteSet(T) /\ T \in SUBSET S /\ \A x \in T : f[x] = f[x]
  BY <1>1 DEF Summable
<1> DEFINE h == [U \in SUBSET T |-> Adding(f, S)[U]]
<1>4. Adds(h, f, T)
  <2>1. \A U \in SUBSET T : U # {} => U \ {Pick(U)} \in SUBSET T
    OBVIOUS
  <2>2. \A U \in SUBSET T : h[U] = IF U = {} THEN 0 ELSE f[Pick(U)] + h[U \ {Pick(U)}]
    <3>1. \A U \in SUBSET S : Adding(f, S)[U] = IF U = {} THEN 0 ELSE f[Pick(U)] + Adding(f, S)[U \ {Pick(U)}]
      BY <1>2 DEF Adds
    <3> QED BY <2>1, <3>1
  <2> QED BY <2>2 DEF Adds
<1>5. Adding(f, T)[T] = h[T]
  <2> HIDE DEF h
  <2> QED BY <1>2, <1>3, <1>4, SumsAgree
<1> QED BY <1>1, <1>5 DEF Sum

\* Sums of equal terms are equal.
LEMMA SumsAreEqual ==
  ASSUME NEW S, NEW f, NEW e, \A x \in S : f[x] = e[x]
  PROVE  Sum(f, S) = Sum(e, S)
<1>1. \A g : Adds(g, f, S) <=> Adds(g, e, S)
  BY PickIsElement DEF Adds
<1> QED BY <1>1 DEF Sum, Adding

LEMMA SumOfNone == ASSUME NEW f PROVE Summable(f, {}) /\ Sum(f, {}) = 0
<1>1. Summable(f, {})
  BY FS_EmptySet DEF Summable
<1>2. Adds(Adding(f, {}), f, {})
  BY <1>1, AddingAdds
<1>3. Adding(f, {})[{}] = 0
  BY <1>2 DEF Adds
<1> QED BY <1>1, <1>3 DEF Sum

LEMMA SumIsInt ==
  ASSUME NEW S, NEW f, Summable(f, S)
  PROVE  Sum(f, S) \in Int
<1>1. Adding(f, S) \in [SUBSET S -> Int]
  BY AddingAdds
<1> QED BY <1>1 DEF Sum

\* The sum of a set is the term of any of its elements and the sum of the others.
LEMMA SumWithout ==
  ASSUME NEW S, NEW f, Summable(f, S), NEW x \in S
  PROVE  Sum(f, S) = f[x] + Sum(f, S \ {x})
<1> DEFINE N == {n \in Nat : \A T \in SUBSET S : Cardinality(T) = n => \A y \in T : Sum(f, T) = f[y] + Sum(f, T \ {y})}
<1>1. \A T \in SUBSET S : IsFiniteSet(T) /\ Cardinality(T) \in Nat /\ (Cardinality(T) = 0 <=> T = {})
  BY FS_Subset, FS_CardinalityType, FS_EmptySet DEF Summable
<1>2. \A T \in SUBSET S : \A y \in T : T \ {y} \in SUBSET S /\ Cardinality(T \ {y}) = Cardinality(T) - 1
  BY <1>1, FS_RemoveElement
<1>3. \A T \in SUBSET S : Sum(f, T) \in Int
  BY SumIsAdding, SumIsInt
<1>4. \A T \in SUBSET S : T # {} => Pick(T) \in T /\ Sum(f, T) = f[Pick(T)] + Sum(f, T \ {Pick(T)})
  <2> SUFFICES ASSUME NEW T \in SUBSET S, T # {} PROVE Pick(T) \in T /\ Sum(f, T) = f[Pick(T)] + Sum(f, T \ {Pick(T)})
    OBVIOUS
  <2>1. Pick(T) \in T /\ T \ {Pick(T)} \in SUBSET S
    BY PickIsElement
  <2>2. Adding(f, S)[T] = f[Pick(T)] + Adding(f, S)[T \ {Pick(T)}]
    <3>1. Adds(Adding(f, S), f, S)
      BY AddingAdds
    <3> QED BY <3>1 DEF Adds
  <2> QED BY <2>1, <2>2, SumIsAdding
<1>5. 0 \in N
  BY <1>1
<1>6. \A n \in N : n + 1 \in N
  <2> SUFFICES ASSUME NEW n \in N, NEW T \in SUBSET S, Cardinality(T) = n + 1, NEW y \in T
               PROVE  Sum(f, T) = f[y] + Sum(f, T \ {y})
    OBVIOUS
  <2> DEFINE p == Pick(T)
  <2>1. p \in T /\ Sum(f, T) = f[p] + Sum(f, T \ {p})
    BY <1>4
  <2>2. CASE y = p
    BY <2>1, <2>2
  <2>3. CASE y # p
    <3>1. Sum(f, T \ {p}) = f[y] + Sum(f, (T \ {p}) \ {y})
      BY <1>2, <2>1, <2>3
    <3>2. Sum(f, T \ {y}) = f[p] + Sum(f, (T \ {y}) \ {p})
      BY <1>2, <2>1, <2>3
    <3>3. (T \ {p}) \ {y} = (T \ {y}) \ {p}
      OBVIOUS
    <3>4. f[p] \in Int /\ f[y] \in Int /\ Sum(f, (T \ {p}) \ {y}) \in Int
      BY <1>3, <2>1 DEF Summable
    <3> HIDE DEF p, N
    <3>5. Sum(f, T \ {y}) = f[p] + Sum(f, (T \ {p}) \ {y})
      BY <3>2, <3>3
    <3> QED BY <2>1, <3>1, <3>4, <3>5
  <2> QED BY <2>2, <2>3
<1>7. N = Nat
  <2> HIDE DEF N
  <2>1. N \in SUBSET Nat
    BY DEF N
  <2> QED BY <1>5, <1>6, <2>1, AllNaturals
<1> QED BY <1>1, <1>7

\* A finite set of integers that is not empty has a greatest and a least element.
LEMMA GreatestExists ==
  ASSUME NEW S \in SUBSET Int, IsFiniteSet(S), S # {}
  PROVE  \E x \in S : \A y \in S : y <= x
<1> DEFINE W == {T \in SUBSET S : T # {} => \E x \in T : \A y \in T : y <= x}
<1>1. {} \in W
  OBVIOUS
<1>2. ASSUME NEW T \in SUBSET S, NEW z \in S, T \in W PROVE T \union {z} \in W
  <2>1. CASE T = {}
    BY <2>1
  <2>2. CASE T # {}
    <3>1. PICK x \in T : \A y \in T : y <= x
      BY <1>2, <2>2
    <3>2. CASE z <= x
      BY <3>1, <3>2
    <3>3. CASE ~ (z <= x)
      <4>1. \A y \in T \union {z} : y <= z
        BY <3>1, <3>3
      <4> QED BY <4>1
    <3> QED BY <3>2, <3>3
  <2> QED BY <2>1, <2>2
<1>3. S \in W
  <2> HIDE DEF W
  <2>1. \A T \in SUBSET S, z \in S : T \in W /\ z \notin T => T \union {z} \in W
    BY <1>2
  <2>2. \A T \in SUBSET S : T \in W
    BY <1>1, <2>1, AllSubsets
  <2> QED BY <2>2
<1> QED BY <1>3

LEMMA LeastExists ==
  ASSUME NEW S \in SUBSET Int, IsFiniteSet(S), S # {}
  PROVE  \E x \in S : \A y \in S : x <= y
<1> DEFINE W == {T \in SUBSET S : T # {} => \E x \in T : \A y \in T : x <= y}
<1>1. {} \in W
  OBVIOUS
<1>2. ASSUME NEW T \in SUBSET S, NEW z \in S, T \in W PROVE T \union {z} \in W
  <2>1. CASE T = {}
    BY <2>1
  <2>2. CASE T # {}
    <3>1. PICK x \in T : \A y \in T : x <= y
      BY <1>2, <2>2
    <3>2. CASE x <= z
      BY <3>1, <3>2
    <3>3. CASE ~ (x <= z)
      <4>1. \A y \in T \union {z} : z <= y
        BY <3>1, <3>3
      <4> QED BY <4>1
    <3> QED BY <3>2, <3>3
  <2> QED BY <2>1, <2>2
<1>3. S \in W
  <2> HIDE DEF W
  <2>1. \A T \in SUBSET S, z \in S : T \in W /\ z \notin T => T \union {z} \in W
    BY <1>2
  <2>2. \A T \in SUBSET S : T \in W
    BY <1>1, <2>1, AllSubsets
  <2> QED BY <2>2
<1> QED BY <1>3

LEMMA ImageIsFinite ==
  ASSUME NEW S, IsFiniteSet(S), NEW f
  PROVE  IsFiniteSet({f[x] : x \in S}) /\ Cardinality({f[x] : x \in S}) <= Cardinality(S)
<1> DEFINE T == {f[x] : x \in S}
           g == [x \in S |-> f[x]]
<1>1. g \in Surjection(S, T)
  <2>1. g \in [S -> T] /\ \A t \in T : \E x \in S : g[x] = t
    OBVIOUS
  <2> QED BY <2>1 DEF Surjection
<1> HIDE DEF g, T
<1>2. IsFiniteSet(T) /\ Cardinality(T) <= Cardinality(S)
  BY <1>1, FS_Surjection
<1> QED BY <1>2 DEF T
-----------------------------------------------------------------------------
\* The answers of the game.
\* A ranking that is taken is the one that was asked for, as far as its borders can tell.
LEMMA OwnRankingOnly ==
  ASSUME NEW kind, NEW country, NEW answers \in [1..2 -> Fetch!Answers(kind, country)]
  PROVE  Fetch!OnlyOwnRanking(answers, kind, country)
<1> DEFINE took == Fetch!FetchRanking(answers, kind, country)
           Ends(a) == Fetch!Refused(a) \/ ~a.decodes \/ ~Fetch!Valid(Fetch!Report(a, kind), kind, country)
<1>1. \A i \in 1..2 :
        /\ answers[i].of # kind => country = Fetch!CN /\ (kind = "monthly" \/ answers[i].of = "monthly")
        /\ answers[i].of \in Fetch!Kinds
        /\ answers[i].borders \in {{}, Fetch!Tiers(answers[i].of)}
  BY DEF Fetch!Answers
<1>2. 1 \in 1..2 /\ 2 \in 1..2
  OBVIOUS
<1>3. \/ took = Fetch!Success(answers[1], 1) /\ ~Ends(answers[1])
      \/ took = Fetch!Success(answers[2], 2) /\ ~Ends(answers[2])
      \/ took.taken = <<>> /\ took.requests = 1 /\ Ends(answers[1])
         /\ (Fetch!Refused(answers[1]) \/ ~answers[1].decodes)
      \/ took.taken = <<>> /\ took.requests = 2 /\ Ends(answers[1]) /\ Ends(answers[2])
  BY DEF Fetch!FetchRanking, Fetch!FetchEventRanking, Fetch!FetchMonthlyRanking, Fetch!Attempt,
         Fetch!Failed, Fetch!Success
\* An answer that is taken and is not of this ranking has no borders, or a story event has none.
<1>4. ASSUME NEW i \in 1..2, ~Ends(answers[i])
      PROVE  /\ ~Fetch!Refused(answers[i]) /\ answers[i].decodes
             /\ \/ answers[i].of = kind \/ answers[i].borders = {}
                \/ "story" \in {kind, answers[i].of}
  <2> SUFFICES ASSUME answers[i].of # kind, answers[i].borders # {}, kind # "story",
                      answers[i].of # "story"
               PROVE  FALSE
    BY <1>4
  <2>1. country = Fetch!CN /\ answers[i].borders = Fetch!Tiers(answers[i].of)
    BY <1>1
  <2>2. Fetch!Report(answers[i], kind).borders = answers[i].borders
    BY DEF Fetch!Report
  <2>3. CASE kind = "monthly"
    <3>1. answers[i].borders = {1500, 2000}
      BY <1>1, <2>1, <2>3 DEF Fetch!Tiers
    <3> QED BY <1>4, <2>1, <2>2, <2>3, <3>1 DEF Fetch!Valid, Fetch!ValidMonthly
  <2>4. CASE kind # "monthly"
    <3>1. answers[i].borders = {2000}
      BY <1>1, <2>1, <2>4 DEF Fetch!Tiers
    <3> QED BY <1>4, <2>1, <2>2, <2>4, <3>1 DEF Fetch!Valid, Fetch!ValidEvent
  <2> QED BY <2>3, <2>4
\* An answer of this ranking is valid.
<1>5. ASSUME NEW i \in 1..2, Ends(answers[i])
      PROVE  Fetch!Refused(answers[i]) \/ ~answers[i].decodes \/ answers[i].of # kind
  <2> SUFFICES ASSUME answers[i].of = kind
               PROVE  Fetch!Valid(Fetch!Report(answers[i], kind), kind, country)
    BY <1>5
  <2>1. Fetch!Report(answers[i], kind).borders \in {{}, Fetch!Tiers(kind)}
    BY <1>1 DEF Fetch!Report
  <2> QED BY <2>1 DEF Fetch!Tiers, Fetch!Valid, Fetch!ValidEvent, Fetch!ValidMonthly
<1>6. CASE \E i \in 1..2 : took = Fetch!Success(answers[i], i) /\ ~Ends(answers[i])
  <2>1. PICK i \in 1..2 : took = Fetch!Success(answers[i], i) /\ ~Ends(answers[i])
    BY <1>6
  <2>2. took.taken = <<answers[i]>> /\ took.requests = i
    BY <2>1 DEF Fetch!Success
  <2>3. took.taken # <<>> /\ DOMAIN took.taken = {1} /\ took.taken[1] = answers[i] /\ took.requests <= 2
    BY <2>2
  <2> QED BY <1>4, <2>1, <2>3 DEF Fetch!OnlyOwnRanking
<1>7. CASE took.taken = <<>> /\ took.requests \in 1..2 /\ \A i \in 1..took.requests : Ends(answers[i])
  <2>1. DOMAIN took.taken = {} /\ took.requests <= 2 /\ \E i \in 1..took.requests : i \in 1..2
    BY <1>7
  <2> QED BY <1>5, <1>7, <2>1 DEF Fetch!OnlyOwnRanking
<1> QED BY <1>2, <1>3, <1>6, <1>7

-----------------------------------------------------------------------------
\* The present event.
\* The events of a server follow each other in the order of their ids.
ScheduleTyped(schedule) ==
  /\ DOMAIN schedule \subseteq Nat \ {0}
  /\ schedule \in [DOMAIN schedule -> [startAt : Nat, endAt : Nat]]
  /\ \A a, b \in DOMAIN schedule : a < b => schedule[a].endAt < schedule[b].startAt

\* A list tells nothing of an event, or what the schedule has.
Follows(list, schedule) ==
  /\ DOMAIN list \subseteq DOMAIN schedule
  /\ \A id \in DOMAIN list :
       /\ list[id].startAt \in {Choice!Unknown, schedule[id].startAt}
       /\ list[id].endAt \in {Choice!Unknown, schedule[id].endAt}

LEMMA ToldFollows ==
  ASSUME NEW schedule, NEW knows
  PROVE  Follows(Choice!Told(schedule, knows), schedule) /\ DOMAIN Choice!Told(schedule, knows) = DOMAIN schedule
BY DEF Choice!Told, Follows

\* The page's list follows the schedule if both sources do, and knows what either of them knows.
LEMMA ListFollows ==
  ASSUME NEW schedule, NEW b, NEW l, Follows(b, schedule), Follows(l, schedule)
  PROVE  /\ Follows(Choice!GetEventList(b, l), schedule)
         /\ DOMAIN Choice!GetEventList(b, l) = DOMAIN b \union DOMAIN l
         /\ \A id \in DOMAIN schedule :
              (id \in DOMAIN b /\ Choice!Known(b, id)) \/ (id \in DOMAIN l /\ Choice!Known(l, id))
                => Choice!Known(Choice!GetEventList(b, l), id)
<1> DEFINE list == Choice!GetEventList(b, l)
           of(from, id, field) == IF id \in DOMAIN from THEN from[id][field] ELSE Choice!Unknown
           merged(id, field) == Choice!Preferred(of(l, id, field), of(b, id, field))
<1>1. list = [id \in DOMAIN b \union DOMAIN l |->
                [startAt |-> merged(id, "startAt"), endAt |-> merged(id, "endAt")]]
  BY DEF Choice!GetEventList
<1> HIDE DEF list
<1>2. /\ DOMAIN list = DOMAIN b \union DOMAIN l
      /\ \A id \in DOMAIN list :
           list[id].startAt = merged(id, "startAt") /\ list[id].endAt = merged(id, "endAt")
  BY <1>1
<1>3. Follows(list, schedule)
  <2>1. DOMAIN list \subseteq DOMAIN schedule
    BY <1>2 DEF Follows
  <2>2. ASSUME NEW id \in DOMAIN list
        PROVE  /\ list[id].startAt \in {Choice!Unknown, schedule[id].startAt}
               /\ list[id].endAt \in {Choice!Unknown, schedule[id].endAt}
    BY <1>2 DEF Follows, Choice!Preferred
  <2> QED BY <2>1, <2>2 DEF Follows
<1>4. ASSUME NEW id \in DOMAIN schedule,
             (id \in DOMAIN b /\ Choice!Known(b, id)) \/ (id \in DOMAIN l /\ Choice!Known(l, id))
      PROVE  Choice!Known(list, id)
  <2>1. id \in DOMAIN list
    BY <1>2, <1>4
  <2>2. list[id].startAt = merged(id, "startAt") /\ list[id].endAt = merged(id, "endAt")
    BY <1>2, <2>1
  <2> QED BY <1>4, <2>2 DEF Choice!Known, Choice!Preferred
<1> QED BY <1>2, <1>3, <1>4 DEF list

\* While an event runs no other does, and what knows when it runs chooses it.
LEMMA RunningIsChosen ==
  ASSUME NEW schedule, ScheduleTyped(schedule), NEW time \in Nat, NEW id \in DOMAIN schedule,
         Choice!Contains(schedule, id, time), NEW list, Follows(list, schedule)
  PROVE  /\ id \in DOMAIN list => Choice!FindActiveId(list, time)
                                     = (IF Choice!Known(list, id) THEN id ELSE Choice!NoEvent)
         /\ id \in DOMAIN list /\ Choice!Known(list, id) => Choice!GetPresentEvent(list, time) = id
         /\ id \in Choice!Options(list) =>
              /\ Choice!SelectBestEventId(list, time) = id
              /\ Choice!EventOfPage(list, Choice!NoEvent, time) = id
<1>1. /\ id \in Nat /\ id # 0 /\ schedule[id].startAt \in Nat /\ schedule[id].endAt \in Nat
      /\ schedule[id].startAt <= time /\ time <= schedule[id].endAt
  BY DEF ScheduleTyped, Choice!Contains
<1>2. ASSUME NEW other \in DOMAIN list, Choice!Known(list, other)
      PROVE  /\ other \in Nat \ {0} /\ list[other].startAt \in Nat /\ list[other].endAt \in Nat
             /\ list[other].startAt = schedule[other].startAt /\ list[other].endAt = schedule[other].endAt
             /\ other < id => list[other].endAt < time
             /\ id < other => time < list[other].startAt
  <2>1. /\ other \in DOMAIN schedule /\ other \in Nat \ {0}
        /\ schedule[other].startAt \in Nat /\ schedule[other].endAt \in Nat
        /\ list[other].startAt = schedule[other].startAt /\ list[other].endAt = schedule[other].endAt
    BY <1>2 DEF Follows, ScheduleTyped, Choice!Known
  <2>2. /\ other < id => schedule[other].endAt < schedule[id].startAt
        /\ id < other => schedule[id].endAt < schedule[other].startAt
    BY <2>1 DEF ScheduleTyped
  <2> QED BY <1>1, <2>1, <2>2
<1>3. \A other \in DOMAIN list : Choice!Contains(list, other, time) <=> other = id /\ Choice!Known(list, id)
  <2> SUFFICES ASSUME NEW other \in DOMAIN list, Choice!Known(list, other)
               PROVE  Choice!Contains(list, other, time) <=> other = id
    BY DEF Choice!Contains
  <2> QED BY <1>1, <1>2 DEF Choice!Contains
<1>4. ASSUME id \in DOMAIN list
      PROVE  Choice!FindActiveId(list, time) = (IF Choice!Known(list, id) THEN id ELSE Choice!NoEvent)
  <2> DEFINE running == {other \in DOMAIN list : Choice!Contains(list, other, time)}
  <2>1. CASE Choice!Known(list, id)
    <3>1. running = {id}
      BY <1>3, <1>4, <2>1
    <3>2. list[id].startAt <= list[id].startAt
      BY <1>2, <1>4, <2>1
    <3> QED BY <2>1, <3>1, <3>2 DEF Choice!FindActiveId
  <2>2. CASE ~Choice!Known(list, id)
    <3>1. running = {}
      BY <1>3, <2>2
    <3> QED BY <2>2, <3>1 DEF Choice!FindActiveId
  <2> QED BY <2>1, <2>2
<1>5. ASSUME id \in DOMAIN list, Choice!Known(list, id)
      PROVE  Choice!GetPresentEvent(list, time) = id
  <2> DEFINE ongoing == {other \in DOMAIN list :
                           /\ Choice!Known(list, other)
                           /\ list[other].startAt - Choice!Day <= time /\ time <= list[other].endAt}
  <2>1. id \in ongoing
    BY <1>1, <1>2, <1>5 DEF Choice!Day
  <2>2. \A other \in ongoing : id <= other /\ other \in Nat
    BY <1>1, <1>2
  <2> HIDE DEF ongoing
  <2>3. Choice!Min(ongoing) = id
    BY <1>1, <2>1, <2>2 DEF Choice!Min
  <2> QED BY <2>1, <2>3 DEF Choice!GetPresentEvent, ongoing
<1>6. ASSUME id \in Choice!Options(list)
      PROVE  Choice!SelectBestEventId(list, time) = id
  <2> DEFINE running == {other \in Choice!Options(list) : Choice!Contains(list, other, time)}
  <2>1. id \in DOMAIN list /\ Choice!Known(list, id)
    BY <1>6 DEF Choice!Options
  <2>2. running = {id}
    BY <1>3, <1>6, <2>1 DEF Choice!Options
  <2>3. Choice!Nearer(list, id, id, time)
    BY <1>1, <1>2, <2>1 DEF Choice!Nearer, Choice!Distance
  <2>4. Choice!Nearest(list, running, time) = id
    BY <2>2, <2>3 DEF Choice!Nearest
  <2> QED BY <2>2, <2>4 DEF Choice!SelectBestEventId
<1>7. ASSUME id \in Choice!Options(list)
      PROVE  Choice!EventOfPage(list, Choice!NoEvent, time) = id
  <2>1. Choice!NoEvent \notin Choice!Options(list)
    BY DEF Choice!Options, Choice!NoEvent, Follows, ScheduleTyped
  <2> QED BY <1>1, <1>6, <1>7, <2>1 DEF Choice!EventOfPage, Choice!NoEvent
<1> QED BY <1>4, <1>5, <1>6, <1>7 DEF Choice!Options

LEMMA OneEventIsChosen ==
  ASSUME NEW schedule, ScheduleTyped(schedule), NEW time \in Nat, NEW bestdori, NEW local
  PROVE  Choice!ChoicesAgree(schedule, bestdori, local, time)
<1> DEFINE b == Choice!Told(schedule, bestdori)
           l == Choice!Told(schedule, local)
<1>1. /\ Follows(b, schedule) /\ Follows(l, schedule) /\ Follows(<<>>, schedule)
      /\ DOMAIN b = DOMAIN schedule /\ DOMAIN l = DOMAIN schedule
  <2>1. DOMAIN <<>> = {}
    OBVIOUS
  <2> QED BY <2>1, ToldFollows DEF Follows
<1> HIDE DEF b, l
<1>2. SUFFICES ASSUME NEW id \in DOMAIN schedule, Choice!Contains(schedule, id, time)
               PROVE  /\ Choice!FindActiveId(l, time) = (IF Choice!Known(l, id) THEN id ELSE Choice!NoEvent)
                      /\ Choice!Known(b, id) \/ Choice!Known(l, id) => id \in Choice!Options(Choice!GetEventList(b, l))
                      /\ Choice!Known(b, id) => Choice!GetPresentEvent(b, time) = id
                      /\ \A list \in {Choice!GetEventList(b, l), Choice!GetEventList(b, <<>>),
                                      Choice!GetEventList(<<>>, l)} :
                           id \in Choice!Options(list) =>
                             /\ Choice!SelectBestEventId(list, time) = id
                             /\ Choice!EventOfPage(list, Choice!NoEvent, time) = id
  BY DEF Choice!ChoicesAgree, b, l
<1>3. Choice!FindActiveId(l, time) = (IF Choice!Known(l, id) THEN id ELSE Choice!NoEvent)
  BY <1>1, <1>2, RunningIsChosen
<1>4. Choice!Known(b, id) \/ Choice!Known(l, id) => id \in Choice!Options(Choice!GetEventList(b, l))
  <2> DEFINE list == Choice!GetEventList(b, l)
  <2>1. /\ DOMAIN list = DOMAIN b \union DOMAIN l
        /\ \A i \in DOMAIN schedule :
             (i \in DOMAIN b /\ Choice!Known(b, i)) \/ (i \in DOMAIN l /\ Choice!Known(l, i))
               => Choice!Known(list, i)
    <3>1. Follows(b, schedule) /\ Follows(l, schedule)
      BY <1>1
    <3> HIDE DEF list
    <3>2. list = Choice!GetEventList(b, l)
      BY DEF list
    <3> QED BY <3>1, <3>2, ListFollows
  <2> HIDE DEF list
  <2>2. id \in DOMAIN list
    BY <1>1, <1>2, <2>1
  <2>3. Choice!Known(b, id) \/ Choice!Known(l, id) => Choice!Known(list, id)
    BY <1>1, <1>2, <2>1
  <2> QED BY <2>2, <2>3 DEF list, Choice!Options
<1>5. Choice!Known(b, id) => Choice!GetPresentEvent(b, time) = id
  BY <1>1, <1>2, RunningIsChosen
<1>6. ASSUME NEW list \in {Choice!GetEventList(b, l), Choice!GetEventList(b, <<>>),
                           Choice!GetEventList(<<>>, l)},
             id \in Choice!Options(list)
      PROVE  /\ Choice!SelectBestEventId(list, time) = id
             /\ Choice!EventOfPage(list, Choice!NoEvent, time) = id
  <2>1. Follows(list, schedule)
    <3>1. /\ Follows(Choice!GetEventList(b, l), schedule)
          /\ Follows(Choice!GetEventList(b, <<>>), schedule)
          /\ Follows(Choice!GetEventList(<<>>, l), schedule)
      <4>1. Follows(Choice!GetEventList(b, l), schedule)
        BY <1>1, ListFollows
      <4>2. Follows(Choice!GetEventList(b, <<>>), schedule)
        BY <1>1, ListFollows
      <4>3. Follows(Choice!GetEventList(<<>>, l), schedule)
        BY <1>1, ListFollows
      <4> QED BY <4>1, <4>2, <4>3
    <3> QED BY <1>6, <3>1
  <2> QED BY <1>2, <1>6, <2>1, RunningIsChosen
<1> QED BY <1>3, <1>4, <1>5, <1>6

-----------------------------------------------------------------------------
\* Points.  Quotients are whole numbers with a remainder below the divisor.
LEMMA DivBounds ==
  ASSUME NEW x \in Int, NEW y \in Nat \ {0}
  PROVE  x \div y \in Int /\ (x \div y) * y <= x /\ x < (x \div y) * y + y
OBVIOUS

LEMMA TimesKeepsOrder ==
  ASSUME NEW a \in Int, NEW b \in Int, NEW m \in Nat, a <= b
  PROVE  a * m <= b * m /\ a * m \in Int /\ b * m \in Int
<1>1. (b - a) * m >= 0
  OBVIOUS
<1>2. (b - a) * m = b * m - a * m
  OBVIOUS
<1> QED BY <1>1, <1>2

LEMMA DivIs ==
  ASSUME NEW q \in Int, NEW y \in Nat \ {0}, NEW r \in 0..(y - 1)
  PROVE  (q * y + r) \div y = q
<1> DEFINE x == q * y + r
           e == x \div y
<1>1. q * y \in Int /\ x \in Int /\ e \in Int /\ e * y <= x /\ x < e * y + y
  BY DivBounds
<1>2. CASE e <= q - 1
  <2>1. e * y <= (q - 1) * y
    BY <1>1, <1>2, TimesKeepsOrder
  <2>2. (q - 1) * y = q * y - y
    OBVIOUS
  <2> QED BY <1>1, <2>1, <2>2
<1>3. CASE q + 1 <= e
  <2>1. (q + 1) * y <= e * y
    BY <1>1, <1>3, TimesKeepsOrder
  <2>2. (q + 1) * y = q * y + y
    OBVIOUS
  <2> QED BY <1>1, <2>1, <2>2
<1> QED BY <1>1, <1>2, <1>3

LEMMA CeilDivIs ==
  ASSUME NEW x \in Int, NEW y \in Nat \ {0}
  PROVE  /\ Rows!Points!CeilDiv(x, y) \in Int
         /\ \A a \in Int : a * y \in Int /\ (Rows!Points!CeilDiv(x, y) <= a <=> x <= a * y)
<1> DEFINE q == (-x) \div y
<1>1. q \in Int /\ q * y <= -x /\ -x < q * y + y /\ Rows!Points!CeilDiv(x, y) = -q
  BY DivBounds DEF Rows!Points!CeilDiv
<1>2. (-q) * y = -(q * y) /\ (-q - 1) * y = -(q * y) - y /\ q * y \in Int
  BY <1>1
<1>3. ASSUME NEW a \in Int, -q <= a
      PROVE  x <= a * y
  BY <1>1, <1>2, <1>3, TimesKeepsOrder
<1>4. ASSUME NEW a \in Int, a < -q
      PROVE  a * y < x
  <2>1. a * y <= (-q - 1) * y
    BY <1>1, <1>4, TimesKeepsOrder
  <2> QED BY <1>1, <1>2, <2>1
<1> HIDE DEF q
<1>5. \A a \in Int : a * y \in Int
  OBVIOUS
<1> QED BY <1>1, <1>3, <1>4, <1>5

-----------------------------------------------------------------------------
\* The parameters of an event that the calculations are given.
EventTyped(p) == p \in [type : Rows!Points!Types, bonus : Nat, support : Nat]

LEMMA PointConstants ==
  ASSUME NEW p, EventTyped(p)
  PROVE  /\ Rows!Points!Base[p.type] \in Nat \ {0} /\ Rows!Points!Divisor[p.type] \in Nat \ {0}
         /\ Rows!Points!Base[p.type] >= 30
         /\ Rows!Points!Multiplier(p) \in Nat /\ Rows!Points!Multiplier(p) >= 100
         /\ Rows!Points!SupportPart(p) \in Nat
<1>1. /\ Rows!Points!Base[p.type] \in Nat \ {0} /\ Rows!Points!Divisor[p.type] \in Nat \ {0}
      /\ Rows!Points!Base[p.type] >= 30
  BY DEF EventTyped, Rows!Points!Types, Rows!Points!Base, Rows!Points!Divisor
<1>2. Rows!Points!Multiplier(p) \in Nat /\ Rows!Points!Multiplier(p) >= 100
  BY DEF EventTyped, Rows!Points!Multiplier
<1>3. p.support \div 3000 \in Nat
  BY DEF EventTyped
<1> QED BY <1>1, <1>2, <1>3 DEF Rows!Points!SupportPart

LEMMA MissIs ==
  ASSUME NEW S, NEW x
  PROVE  Rows!Points!Missed(S, x) \in {0, 1} /\ (Rows!Points!Missed(S, x) = 1 <=> x \in S)
BY DEF Rows!Points!Missed

\* What a value misses with its bonus: nothing if the multiplier is one of whole hundreds.
ProductMiss(a, p) ==
  Rows!Points!Missed(Rounded.product, <<a, Rows!Points!Multiplier(p), Rows!Points!SupportPart(p)>>)
BaseMiss(n, p) == Rows!Points!Missed(Rounded.base, <<n, Rows!Points!Multiplier(p)>>)

LEMMA ProductIs ==
  ASSUME NEW a, NEW p
  PROVE  /\ Rows!Points!Product(a, p) = a * Rows!Points!Multiplier(p) - ProductMiss(a, p)
         /\ ProductMiss(a, p) \in {0, 1}
         /\ ProductMiss(a, p) = 1 => Rows!Points!Multiplier(p) % 100 # 0
<1>1. ASSUME <<a, Rows!Points!Multiplier(p), Rows!Points!SupportPart(p)>> \in Rounded.product
      PROVE  Rows!Points!Multiplier(p) % 100 # 0
  <2> DEFINE t == <<a, Rows!Points!Multiplier(p), Rows!Points!SupportPart(p)>>
  <2>1. t[2] = Rows!Points!Multiplier(p)
    OBVIOUS
  <2>2. t[2] % 100 # 0
    BY <1>1, RoundedAssumption
  <2> QED BY <2>1, <2>2
<1> QED BY <1>1, MissIs DEF Rows!Points!Product, ProductMiss

LEMMA BaseMissIs ==
  ASSUME NEW n, NEW p
  PROVE  BaseMiss(n, p) \in {0, 1} /\ (BaseMiss(n, p) = 1 => Rows!Points!Multiplier(p) % 100 # 0)
<1>1. ASSUME <<n, Rows!Points!Multiplier(p)>> \in Rounded.base
      PROVE  Rows!Points!Multiplier(p) % 100 # 0
  <2> DEFINE t == <<n, Rows!Points!Multiplier(p)>>
  <2>1. t[2] = Rows!Points!Multiplier(p)
    OBVIOUS
  <2>2. t[2] % 100 # 0
    BY <1>1, RoundedAssumption
  <2> QED BY <2>1, <2>2
<1> QED BY <1>1, MissIs DEF BaseMiss

\* The points of a score that lies r above the d-th step of the divisor.
LEMMA PointsOfStep ==
  ASSUME NEW p, EventTyped(p), NEW d \in Int, NEW r \in 0..(Rows!Points!Divisor[p.type] - 1)
  PROVE  Rows!Points!CalcEventPT(d * Rows!Points!Divisor[p.type] + r, p)
           = Rows!Points!Product(Rows!Points!Base[p.type] + d, p) \div 100 + Rows!Points!SupportPart(p)
<1>1. (d * Rows!Points!Divisor[p.type] + r) \div Rows!Points!Divisor[p.type] = d
  BY PointConstants, DivIs
<1> QED BY <1>1 DEF Rows!Points!CalcEventPT

\* A value x is worth n points if it is neither below n nor from n + 1 on, when the product and the
\* quotients miss the same whole numbers.
LEMMA RoundingsAgree ==
  ASSUME NEW x \in Int, NEW n \in Int, NEW miss \in {0, 1}, NEW u \in {0, 1}, NEW w \in {0, 1},
         x = 100 * n => miss = u, x = 100 * (n + 1) => miss = w
  PROVE  (x - miss) \div 100 = n <=> 100 * n + u <= x /\ x < 100 * (n + 1) + w
<1>1. (x - miss) \div 100 = n <=> 100 * n <= x - miss /\ x - miss < 100 * n + 100
  OBVIOUS
<1> QED BY <1>1

LEMMA WholeHundreds ==
  ASSUME NEW n \in Int
  PROVE  (100 * n) % 100 = 0 /\ (100 * n) \div 100 = n
OBVIOUS

\* A score lies in the range of some steps if its own step is one of them.
LEMMA RangeHoldsStep ==
  ASSUME NEW D \in Nat \ {0}, NEW first \in Int, NEW last \in Int, NEW d \in Int, NEW e \in 0..(D - 1)
  PROVE  /\ first * D <= d * D + e <=> first <= d
         /\ d * D + e <= (last + 1) * D - 1 <=> d <= last
<1>1. first * D \in Int /\ d * D \in Int /\ last * D \in Int /\ (last + 1) * D = last * D + D
  OBVIOUS
<1>2. ASSUME NEW i \in Int, NEW j \in Int, i < j
      PROVE  i * D + D <= j * D
  <2>1. (i + 1) * D <= j * D
    BY <1>2, TimesKeepsOrder
  <2>2. (i + 1) * D = i * D + D
    OBVIOUS
  <2> QED BY <2>1, <2>2
<1>3. (first <= d => first * D <= d * D) /\ (d <= last => d * D <= last * D)
  BY TimesKeepsOrder
<1>4. (d < first => d * D + D <= first * D) /\ (last < d => last * D + D <= d * D)
  BY <1>2
<1> DEFINE x == first * D
           y == d * D
           z == last * D
<1>5. x \in Int /\ y \in Int /\ z \in Int /\ (first <= d => x <= y) /\ (d <= last => y <= z)
      /\ (d < first => y + D <= x) /\ (last < d => z + D <= y)
  BY <1>1, <1>3, <1>4
<1> HIDE DEF x, y, z
<1>6. (x <= y + e <=> first <= d) /\ (y + e <= z + D - 1 <=> d <= last)
  BY <1>5
<1> QED BY <1>1, <1>6 DEF x, y, z

LEMMA ScoreRangeIsExact ==
  ASSUME NEW target \in Nat, NEW p, EventTyped(p)
  PROVE  Rows!Points!RangeIsExact(target, p)
<1> DEFINE b == Rows!Points!Base[p.type]
           D == Rows!Points!Divisor[p.type]
           m == Rows!Points!Multiplier(p)
           s == Rows!Points!SupportPart(p)
           n == target - s
           u == BaseMiss(n, p)
           w == BaseMiss(n + 1, p)
           min == Rows!Points!MinA(target, p)
           max == Rows!Points!MaxA(target, p)
           r == Rows!Points!GetScoreRangeByPT(target, p)
<1>1. b \in Nat /\ b >= 30 /\ D \in Nat \ {0} /\ m \in Nat \ {0} /\ m >= 100 /\ s \in Nat /\ n \in Int
  BY PointConstants
<1>2. u \in {0, 1} /\ w \in {0, 1} /\ (w = 1 => m % 100 # 0)
  BY BaseMissIs
<1>3. target + 1 - s = n + 1 /\ target = n + s
  BY <1>1
<1>4. min = Rows!Points!CeilDiv(100 * n + u, m) /\ max = Rows!Points!CeilDiv(100 * (n + 1) + w, m) - 1
  BY <1>3 DEF Rows!Points!MinA, Rows!Points!MaxA, Rows!Points!ValueOf, BaseMiss
<1> HIDE DEF b, D, m, s, n, u, w
<1>5. /\ min \in Int /\ max \in Int
      /\ \A a \in Int : /\ a * m \in Int
                        /\ min <= a <=> 100 * n + u <= a * m
                        /\ a <= max <=> a * m < 100 * (n + 1) + w
  <2> DEFINE low == 100 * n + u
             high == 100 * (n + 1) + w
  <2>1. low \in Int /\ high \in Int
    BY <1>1, <1>2
  <2> HIDE DEF low, high
  <2>2. /\ Rows!Points!CeilDiv(low, m) \in Int /\ Rows!Points!CeilDiv(high, m) \in Int
        /\ \A a \in Int : /\ a * m \in Int
                          /\ Rows!Points!CeilDiv(low, m) <= a <=> low <= a * m
                          /\ Rows!Points!CeilDiv(high, m) <= a <=> high <= a * m
    BY <1>1, <2>1, CeilDivIs
  <2>3. min = Rows!Points!CeilDiv(low, m) /\ max = Rows!Points!CeilDiv(high, m) - 1
    BY <1>4 DEF low, high
  <2> HIDE DEF min, max
  <2>4. ASSUME NEW a \in Int
        PROVE  a * m \in Int /\ (min <= a <=> low <= a * m) /\ (a <= max <=> a * m < high)
    <3> DEFINE x == a * m
    <3>1. x \in Int /\ (Rows!Points!CeilDiv(low, m) <= a <=> low <= x) /\ (Rows!Points!CeilDiv(high, m) <= a <=> high <= x)
      BY <2>2
    <3> HIDE DEF x
    <3>2. x \in Int /\ (min <= a <=> low <= x) /\ (a <= max <=> x < high)
      BY <2>1, <2>2, <2>3, <3>1
    <3> QED BY <3>2 DEF x
  <2> QED BY <2>2, <2>3, <2>4 DEF low, high
<1> HIDE DEF min, max
<1> SUFFICES ASSUME NEW d \in 0..target, NEW e \in {0, D - 1}, ~Rows!Points!Doubtful(b + d, p)
             PROVE  Rows!Points!CalcEventPT(d * D + e, p) = target
                      <=> r.ok /\ r.min <= d * D + e /\ d * D + e <= r.max
  BY DEF Rows!Points!RangeIsExact, r, D, b
<1> DEFINE a == b + d
           x == a * m
           miss == ProductMiss(a, p)
<1>6. d \in Int /\ d >= 0 /\ e \in 0..(D - 1) /\ a \in Int /\ a >= b
  BY <1>1
<1>7. x \in Int /\ (min <= a <=> 100 * n + u <= x) /\ (a <= max <=> x < 100 * (n + 1) + w)
  BY <1>5, <1>6
\* Its step is worth the target if its value is from MinA to MaxA.
<1>8. Rows!Points!CalcEventPT(d * D + e, p) = (x - miss) \div 100 + s /\ miss \in {0, 1}
  <2>1. Rows!Points!CalcEventPT(d * D + e, p) = Rows!Points!Product(a, p) \div 100 + s
    BY <1>6, PointsOfStep DEF b, D, s
  <2> QED BY <2>1, ProductIs DEF m
<1>9. (x = 100 * n => miss = u) /\ (x = 100 * (n + 1) => miss = w)
  <2>1. x % 100 = 0 => miss = BaseMiss(x \div 100, p)
    BY DEF Rows!Points!Doubtful, ProductMiss, BaseMiss, m
  <2>2. n + 1 \in Int
    BY <1>1
  <2> QED BY <1>1, <2>1, <2>2, WholeHundreds DEF u, w
<1> HIDE DEF x, miss, a
<1>10. (x - miss) \div 100 = n <=> min <= a /\ a <= max
  BY <1>1, <1>2, <1>7, <1>8, <1>9, RoundingsAgree
<1>11. Rows!Points!CalcEventPT(d * D + e, p) = target <=> min <= a /\ a <= max
  <2>1. (x - miss) \div 100 \in Int
    BY <1>7, <1>8
  <2> QED BY <1>1, <1>3, <1>8, <1>10, <2>1
\* No two values are worth the target, so that the range does not begin below the base.
<1>12. ASSUME min <= a, a <= max
       PROVE  target > 0 /\ ~(max < b) /\ ~(min > max) /\ ~(min < b)
  <2>1. ~(max < b) /\ ~(min > max)
    BY <1>1, <1>5, <1>6, <1>12
  <2>2. ~(min < b)
    <3> SUFFICES ASSUME min < b PROVE FALSE
      OBVIOUS
    <3>1. a - 1 \in Int /\ min <= a - 1
      BY <1>1, <1>5, <1>6
    <3>2. 100 * n + u <= (a - 1) * m
      BY <1>5, <3>1
    <3>3. (a - 1) * m = x - m
      BY <1>1, <1>6 DEF x
    <3>4. 100 * n + u <= x - m /\ x < 100 * (n + 1) + w
      BY <1>7, <1>12, <3>2, <3>3
    <3>5. w = 1 /\ m = 100
      BY <1>1, <1>2, <1>7, <3>4
    <3> QED BY <1>2, <3>5
  <2>3. target > 0
    <3>1. 30 * m <= x
      <4>1. 30 * m <= a * m
        BY <1>1, <1>6, TimesKeepsOrder
      <4> QED BY <4>1 DEF x
    <3>2. 30 * m >= 3000 /\ 30 * m \in Int
      BY <1>1
    <3>3. x < 100 * (n + 1) + w
      BY <1>7, <1>12
    <3> QED BY <1>1, <1>2, <1>3, <1>7, <3>1, <3>2, <3>3
  <2> QED BY <2>1, <2>2, <2>3
<1>13. r = IF target <= 0 \/ max < b \/ min > max \/ min < b THEN Rows!Points!NoRange
           ELSE Rows!Points!RangeOf(min - b, max - b, p.type)
  BY DEF Rows!Points!GetScoreRangeByPT, min, max, b
<1>14. r.ok => r.min = (min - b) * D /\ r.max = (max - b + 1) * D - 1
  BY <1>13 DEF Rows!Points!NoRange, Rows!Points!RangeOf, D
<1>15. min <= a /\ a <= max => r.ok
  <2>1. min <= a /\ a <= max => target > 0 /\ ~(max < b) /\ ~(min > max) /\ ~(min < b)
    BY <1>12
  <2>2. target > 0 /\ ~(max < b) /\ ~(min > max) /\ ~(min < b) => r = Rows!Points!RangeOf(min - b, max - b, p.type)
    BY <1>13
  <2> QED BY <2>1, <2>2 DEF Rows!Points!RangeOf
<1> HIDE DEF r
<1>16. /\ (min - b) * D <= d * D + e <=> min - b <= d
       /\ d * D + e <= (max - b + 1) * D - 1 <=> d <= max - b
  <2>1. min - b \in Int /\ max - b \in Int
    BY <1>1, <1>5
  <2> QED BY <1>1, <1>6, <2>1, RangeHoldsStep
<1>17. (min - b <= d <=> min <= a) /\ (d <= max - b <=> a <= max)
  BY <1>1, <1>5, <1>6 DEF a
<1> QED BY <1>11, <1>14, <1>15, <1>16, <1>17

-----------------------------------------------------------------------------
LEMMA LeastIs ==
  ASSUME NEW S \in SUBSET Nat, S # {}
  PROVE  Rows!Points!Min(S) \in S /\ \A x \in S : Rows!Points!Min(S) <= x
<1>1. PICK x \in S : \A y \in S : <<y, x>> \notin OpToRel(<, Nat)
  BY NatLessThanWellFounded, WFMin
<1>2. \A y \in S : x <= y
  <2>1. ASSUME NEW y \in S, ~(x <= y)
        PROVE  FALSE
    <3>1. x \in Nat /\ y \in Nat /\ y < x
      BY <2>1
    <3>2. <<y, x>> \in OpToRel(<, Nat)
      BY <3>1 DEF OpToRel
    <3> QED BY <1>1, <3>2
  <2> QED BY <2>1
<1> QED BY <1>2 DEF Rows!Points!Min

LEMMA GreatestIs ==
  ASSUME NEW n \in Nat, NEW S \in SUBSET (0..n), S # {}
  PROVE  Rows!Points!Max(S) \in S /\ \A x \in S : x <= Rows!Points!Max(S)
<1> DEFINE T == {n - x : x \in S}
<1>1. PICK t \in T : \A y \in T : <<y, t>> \notin OpToRel(<, Nat)
  <2>1. \A x \in S : n - x \in Nat
    OBVIOUS
  <2>2. T \subseteq Nat
    BY <2>1
  <2>3. T # {}
    <3>1. PICK x \in S : TRUE
      OBVIOUS
    <3>2. n - x \in T
      OBVIOUS
    <3> QED BY <3>2
  <2> HIDE DEF T
  <2> QED BY <2>2, <2>3, NatLessThanWellFounded, WFMin
<1>2. PICK x \in S : t = n - x
  BY <1>1
<1>3. ASSUME NEW y \in S
      PROVE  y <= x
  <2>1. n - y \in T /\ n - y \in Nat /\ t \in Nat
    BY <1>2
  <2>2. ~(n - y < t)
    BY <1>1, <2>1 DEF OpToRel
  <2> QED BY <1>2, <2>2
<1> QED BY <1>3 DEF Rows!Points!Max

LEMMA GreaterOfTwoIs ==
  ASSUME NEW x \in Int
  PROVE  Rows!Points!Max({0, x}) \in Nat /\ x <= Rows!Points!Max({0, x})
<1>1. \E y \in {0, x} : \A z \in {0, x} : y >= z
  OBVIOUS
<1>2. Rows!Points!Max({0, x}) \in {0, x} /\ \A z \in {0, x} : Rows!Points!Max({0, x}) >= z
  BY <1>1 DEF Rows!Points!Max
<1> QED BY <1>2

\* The least bonus that takes d steps of the divisor to the target.
BonusOf(target, d, p) == Rows!Points!Min(Rows!Points!BonusesFor(target, Rows!Points!Base[p.type] + d, p))

LEMMA WithBonusIs ==
  ASSUME NEW p, EventTyped(p), NEW k \in Nat
  PROVE  LET q == Rows!Points!WithBonus(p, k)
         IN  /\ EventTyped(q) /\ q.type = p.type /\ Rows!Points!SupportPart(q) = Rows!Points!SupportPart(p)
             /\ p.type \in Rows!Points!BonusTypes => Rows!Points!Multiplier(q) = 100 + k
<1> DEFINE q == Rows!Points!WithBonus(p, k)
<1>1. q.type = p.type /\ q.bonus = k /\ q.support = p.support /\ EventTyped(q)
  BY DEF EventTyped, Rows!Points!WithBonus
<1> HIDE DEF q
<1> QED BY <1>1 DEF Rows!Points!SupportPart, Rows!Points!Multiplier, q

\* The search begins with the steps that take the base itself to the target, or with none.
LEMMA StepsAre ==
  ASSUME NEW target \in Nat, NEW p, EventTyped(p)
  PROVE  \E top \in Nat :
           /\ target - Rows!Points!SupportPart(p) - Rows!Points!Base[p.type] <= top
           /\ top = 0 \/ top <= target - 1
           /\ Rows!Points!Divs(target, p)
                = {d \in Rows!Points!Max({0, top - (Rows!Points!MaxIterations - 1)})..top :
                     /\ Rows!Points!Base[p.type] + d + Rows!Points!SupportPart(p) <= target
                     /\ Rows!Points!MinBonus(target, Rows!Points!Base[p.type] + d, p) >= 0
                     /\ Rows!Points!BonusesFor(target, Rows!Points!Base[p.type] + d, p) # {}}
<1> DEFINE b == Rows!Points!Base[p.type]
           s == Rows!Points!SupportPart(p)
           x == target - s - b
           top == Rows!Points!Max({0, x})
<1>1. b \in Nat /\ b >= 30 /\ s \in Nat
  BY PointConstants
<1>2. x \in Int /\ x <= target - 1
  BY <1>1
<1>3. top \in Nat /\ x <= top
  BY <1>2, GreaterOfTwoIs
<1>4. top = 0 \/ top = x
  <2>1. \E y \in {0, x} : \A z \in {0, x} : y >= z
    BY <1>2
  <2> QED BY <2>1 DEF Rows!Points!Max
<1>5. Rows!Points!Divs(target, p)
        = {d \in Rows!Points!Max({0, top - (Rows!Points!MaxIterations - 1)})..top :
             /\ b + d + s <= target
             /\ Rows!Points!MinBonus(target, b + d, p) >= 0
             /\ Rows!Points!BonusesFor(target, b + d, p) # {}}
  BY DEF Rows!Points!Divs
<1> HIDE DEF top
<1>6. x <= top /\ (top = 0 \/ top <= target - 1)
  BY <1>2, <1>3, <1>4
<1> QED BY <1>3, <1>5, <1>6

\* The least of the bonuses that calcEventPT confirms is one of them.
LEMMA BonusIsConfirmed ==
  ASSUME NEW target \in Nat, NEW p, EventTyped(p), NEW d \in Rows!Points!Divs(target, p)
  PROVE  /\ d \in Nat
         /\ BonusOf(target, d, p) \in Nat
         /\ BonusOf(target, d, p) \in Rows!Points!BonusesFor(target, Rows!Points!Base[p.type] + d, p)
<1> DEFINE a == Rows!Points!Base[p.type] + d
           S == Rows!Points!BonusesFor(target, a, p)
           low == Rows!Points!MinBonus(target, a, p)
<1>1. PICK top \in Nat :
        Rows!Points!Divs(target, p)
          = {x \in Rows!Points!Max({0, top - (Rows!Points!MaxIterations - 1)})..top :
               /\ Rows!Points!Base[p.type] + x + Rows!Points!SupportPart(p) <= target
               /\ Rows!Points!MinBonus(target, Rows!Points!Base[p.type] + x, p) >= 0
               /\ Rows!Points!BonusesFor(target, Rows!Points!Base[p.type] + x, p) # {}}
  BY StepsAre
<1>2. d \in Rows!Points!Max({0, top - (Rows!Points!MaxIterations - 1)})..top /\ low >= 0 /\ S # {}
  BY <1>1
<1>3. top - (Rows!Points!MaxIterations - 1) \in Int
  BY DEF Rows!Points!MaxIterations
<1>4. d \in Nat
  BY <1>2, <1>3, GreaterOfTwoIs
<1>5. low \in Int
  <2> DEFINE n == target - Rows!Points!SupportPart(p)
             y == 100 * n + Rows!Points!Missed(Rounded.bonus, <<n, a>>)
  <2>1. n \in Int /\ a \in Nat \ {0}
    BY <1>4, PointConstants
  <2>2. y \in Int
    <3> HIDE DEF n
    <3> QED BY <2>1, MissIs
  <2>3. low = Rows!Points!CeilDiv(y, a) - 100
    BY DEF Rows!Points!MinBonus
  <2> HIDE DEF y, a, low
  <2>4. Rows!Points!CeilDiv(y, a) \in Int
    BY <2>1, <2>2, CeilDivIs
  <2> QED BY <2>3, <2>4
<1>6. S \in SUBSET Nat
  <2>1. \A k \in S : k \in low..Rows!Points!MaxBonus(target, a, p)
    BY DEF Rows!Points!BonusesFor
  <2> HIDE DEF S, low
  <2> QED BY <1>2, <1>5, <2>1
<1> HIDE DEF S, a
<1>7. Rows!Points!Min(S) \in S
  BY <1>2, <1>6, LeastIs
<1> QED BY <1>4, <1>6, <1>7 DEF BonusOf, S, a

\* The range of a bonus goes from its least number of steps to its greatest.
LEMMA EntriesAre ==
  ASSUME NEW target \in Nat, NEW p, EventTyped(p)
  PROVE  /\ \A f \in Rows!Points!GetFeasibleBonus(target, p) : \E first, last \in Rows!Points!Divs(target, p) :
              /\ first <= last /\ BonusOf(target, first, p) = f.bonus /\ BonusOf(target, last, p) = f.bonus
              /\ f.range.min = first * Rows!Points!Divisor[p.type]
              /\ f.range.max = (last + 1) * Rows!Points!Divisor[p.type] - 1
         /\ \A d \in Rows!Points!Divs(target, p) : \E f \in Rows!Points!GetFeasibleBonus(target, p) :
              \E first, last \in Rows!Points!Divs(target, p) :
                /\ first <= d /\ d <= last
                /\ f.range.min = first * Rows!Points!Divisor[p.type]
                /\ f.range.max = (last + 1) * Rows!Points!Divisor[p.type] - 1
<1> DEFINE D == Rows!Points!Divisor[p.type]
           steps == Rows!Points!Divs(target, p)
           bonus(d) == BonusOf(target, d, p)
           divs(k) == {d \in steps : bonus(d) = k}
           first(k) == Rows!Points!Min(divs(k))
           last(k) == Rows!Points!Max(divs(k))
           entry(k) == [bonus |-> k, range |-> Rows!Points!RangeOf(first(k), last(k), p.type)]
<1>1. Rows!Points!GetFeasibleBonus(target, p) = {entry(k) : k \in {bonus(d) : d \in steps}}
  BY DEF Rows!Points!GetFeasibleBonus, BonusOf
<1>2. PICK top \in Nat : steps \subseteq Rows!Points!Max({0, top - (Rows!Points!MaxIterations - 1)})..top
  <2>1. PICK top \in Nat :
          steps = {x \in Rows!Points!Max({0, top - (Rows!Points!MaxIterations - 1)})..top :
               /\ Rows!Points!Base[p.type] + x + Rows!Points!SupportPart(p) <= target
               /\ Rows!Points!MinBonus(target, Rows!Points!Base[p.type] + x, p) >= 0
               /\ Rows!Points!BonusesFor(target, Rows!Points!Base[p.type] + x, p) # {}}
    BY StepsAre
  <2> QED BY <2>1
<1>3. \A d \in steps : d \in 0..top
  <2>1. \A d \in steps : d \in Nat
    BY BonusIsConfirmed
  <2>2. top - (Rows!Points!MaxIterations - 1) \in Int
    BY DEF Rows!Points!MaxIterations
  <2>3. Rows!Points!Max({0, top - (Rows!Points!MaxIterations - 1)}) \in Nat
    BY <2>2, GreaterOfTwoIs
  <2> QED BY <1>2, <2>1, <2>3
<1> HIDE DEF steps, bonus
<1>4. ASSUME NEW d \in steps
      PROVE  LET k == bonus(d)
             IN  /\ first(k) \in steps /\ last(k) \in steps /\ first(k) <= d /\ d <= last(k) /\ first(k) <= last(k)
                 /\ bonus(first(k)) = k /\ bonus(last(k)) = k
                 /\ entry(k).bonus = k
                 /\ entry(k).range.min = first(k) * D /\ entry(k).range.max = (last(k) + 1) * D - 1
  <2> DEFINE k == bonus(d)
             S == divs(k)
  <2>1. d \in S /\ \A x \in S : x \in steps /\ bonus(x) = k /\ x \in 0..top
    BY <1>3
  <2>2. first(k) = Rows!Points!Min(S) /\ last(k) = Rows!Points!Max(S)
    OBVIOUS
  <2>3. entry(k).bonus = k /\ entry(k).range.min = first(k) * D /\ entry(k).range.max = (last(k) + 1) * D - 1
    BY DEF Rows!Points!RangeOf
  <2> HIDE DEF S, k, first, last, entry, D
  <2>4. S \in SUBSET Nat /\ S \in SUBSET (0..top) /\ S # {}
    BY <1>2, <2>1
  <2>5. Rows!Points!Min(S) \in S /\ \A x \in S : Rows!Points!Min(S) <= x
    BY <2>4, LeastIs
  <2>6. Rows!Points!Max(S) \in S /\ \A x \in S : x <= Rows!Points!Max(S)
    BY <1>2, <2>4, GreatestIs
  <2> QED BY <2>1, <2>2, <2>3, <2>5, <2>6 DEF k
<1> HIDE DEF entry, first, last, D
<1>5. ASSUME NEW f \in Rows!Points!GetFeasibleBonus(target, p)
      PROVE  \E i, j \in steps :
              /\ i <= j /\ bonus(i) = f.bonus /\ bonus(j) = f.bonus
              /\ f.range.min = i * D /\ f.range.max = (j + 1) * D - 1
  <2>1. PICK d \in steps : f = entry(bonus(d))
    BY <1>1
  <2> QED BY <1>4, <2>1
<1>6. ASSUME NEW d \in steps
      PROVE  \E f \in Rows!Points!GetFeasibleBonus(target, p) : \E i, j \in steps :
                /\ i <= d /\ d <= j /\ f.range.min = i * D /\ f.range.max = (j + 1) * D - 1
  <2>1. entry(bonus(d)) \in Rows!Points!GetFeasibleBonus(target, p)
    BY <1>1
  <2> QED BY <1>4, <2>1
<1> QED BY <1>5, <1>6 DEF steps, bonus, D

\* The value of a bonus that is worth n points is from n to n + 1, the upper end by so much that what the
\* code takes from it does not matter.
FindsBonus(n, a, k, missProduct, missBonus, scale) ==
  /\ n \in Int /\ a \in Nat \ {0} /\ k \in Nat /\ missProduct \in {0, 1} /\ missBonus \in {0, 1} /\ scale \in Nat
  /\ (a * (100 + k) - missProduct) \div 100 = n
  /\ (a * (100 + k)) % 100 = 0 => missProduct = 0 /\ missBonus = 0
  /\ n < scale
HasBonus(n, a, k, missBonus, scale) ==
  /\ a <= n
  /\ Rows!Points!CeilDiv(100 * n + missBonus, a) \in Int
  /\ Rows!Points!CeilDiv(100 * n + missBonus, a) >= 100
  /\ Rows!Points!CeilDiv(100 * n + missBonus, a) <= 100 + k
  /\ (100 * (n + 1)) \div a \in Int
  /\ 100 + k <= (100 * (n + 1)) \div a - (IF scale * ((100 * (n + 1)) % a) < a THEN 1 ELSE 0)

LEMMA BonusIsFound ==
  ASSUME NEW n, NEW a, NEW k, NEW missProduct, NEW missBonus, NEW scale,
         FindsBonus(n, a, k, missProduct, missBonus, scale)
  PROVE  HasBonus(n, a, k, missBonus, scale)
<1> USE DEF FindsBonus
<1> DEFINE x == a * (100 + k)
           low == 100 * n + missBonus
           y == 100 * (n + 1)
<1>1. x \in Int /\ x = (100 + k) * a /\ 100 * a <= x
  <2>1. 100 * a <= (100 + k) * a
    BY TimesKeepsOrder
  <2> QED BY <2>1
<1>2. low <= x /\ x < y /\ low \in Int /\ y \in Int
  <2>1. (x - missProduct) \div 100 = n /\ (x % 100 = 0 => missProduct = 0 /\ missBonus = 0) /\ x \in Int
    BY <1>1
  <2> HIDE DEF x
  <2>2. 100 * n <= x - missProduct /\ x - missProduct < 100 * n + 100
    BY <2>1
  <2>3. CASE x % 100 = 0
    BY <2>1, <2>2, <2>3
  <2>4. CASE x % 100 # 0
    <3>1. x # 100 * n /\ x # 100 * (n + 1)
      <4>1. n + 1 \in Int
        OBVIOUS
      <4> QED BY <2>4, <4>1, WholeHundreds
    <3> QED BY <2>1, <2>2, <3>1
  <2> QED BY <2>3, <2>4
<1> HIDE DEF x, low
<1>3. a <= n
  BY <1>1, <1>2
<1>4. /\ Rows!Points!CeilDiv(low, a) \in Int
      /\ \A j \in Int : j * a \in Int /\ (Rows!Points!CeilDiv(low, a) <= j <=> low <= j * a)
  BY <1>2, CeilDivIs
<1>5. Rows!Points!CeilDiv(low, a) <= 100 + k
  BY <1>1, <1>2, <1>4
<1>6. Rows!Points!CeilDiv(low, a) >= 100
  <2>1. Rows!Points!CeilDiv(low, a) <= 99 <=> low <= 99 * a
    BY <1>4
  <2>2. low >= 100 * a
    BY <1>3 DEF low
  <2> QED BY <1>2, <1>4, <2>1, <2>2
<1> HIDE DEF y
<1>7. 100 + k <= y \div a - (IF scale * (y % a) < a THEN 1 ELSE 0) /\ y \div a \in Int
  <2> DEFINE q == y \div a
             rest == y % a
  <2>1. q \in Int /\ q * a \in Int /\ rest \in Int /\ rest = y - q * a /\ q * a <= y /\ y < q * a + a
    <3>1. y = a * (y \div a) + (y % a) /\ y \div a \in Int /\ y % a \in Int
      BY <1>2
    <3>2. a * (y \div a) = (y \div a) * a
      BY <3>1
    <3>3. q * a <= y /\ y < q * a + a
      BY <1>2, DivBounds
    <3> DEFINE z == q * a
    <3>4. z \in Int
      BY <3>1
    <3>5. y = z + (y % a)
      BY <3>1, <3>2
    <3> HIDE DEF z
    <3>6. rest = y - z
      BY <1>2, <3>1, <3>4, <3>5
    <3> QED BY <3>1, <3>3, <3>4, <3>6 DEF z
  <2> HIDE DEF q, rest
  <2>2. 100 + k <= q
    <3>1. CASE q + 1 <= 100 + k
      <4>1. (q + 1) * a <= (100 + k) * a
        BY <2>1, <3>1, TimesKeepsOrder
      <4>2. (q + 1) * a = q * a + a
        BY <2>1
      <4> QED BY <1>1, <1>2, <2>1, <4>1, <4>2
    <3> QED BY <2>1, <3>1
  <2>3. CASE 100 + k = q
    <3>1. rest >= 1
      BY <1>1, <1>2, <2>1, <2>3
    <3>2. ~(scale * rest < a)
      <4>1. 1 * scale <= rest * scale /\ rest * scale = scale * rest
        BY <2>1, <3>1, TimesKeepsOrder
      <4> QED BY <1>3, <2>1, <4>1
    <3> QED BY <2>1, <2>3, <3>2 DEF q, rest
  <2>4. CASE 100 + k < q
    BY <2>1, <2>4 DEF q, rest
  <2> QED BY <2>1, <2>2, <2>3, <2>4 DEF q
<1> QED BY <1>3, <1>4, <1>5, <1>6, <1>7 DEF low, y, HasBonus

\* A bonus that takes d steps to the target, with no rounding that misses a whole number of points, is
\* among those of the steps.
LEMMA BonusIsAmong ==
  ASSUME NEW target \in Nat, NEW p, EventTyped(p), p.type \in Rows!Points!BonusTypes,
         target <= Rows!Points!MaxIterations, NEW d \in Nat, NEW k \in Nat,
         Rows!Points!CalcEventPT(d * Rows!Points!Divisor[p.type], Rows!Points!WithBonus(p, k)) = target,
         LET a == Rows!Points!Base[p.type] + d
             s == Rows!Points!SupportPart(p)
         IN  (a * (100 + k)) % 100 = 0 =>
               <<target - s, a>> \notin Rounded.bonus /\ <<a, 100 + k, s>> \notin Rounded.product
  PROVE  d \in Rows!Points!Divs(target, p)
<1> DEFINE b == Rows!Points!Base[p.type]
           D == Rows!Points!Divisor[p.type]
           s == Rows!Points!SupportPart(p)
           q == Rows!Points!WithBonus(p, k)
           a == b + d
           n == target - s
           missProduct == ProductMiss(a, q)
           missBonus == Rows!Points!Missed(Rounded.bonus, <<n, a>>)
           low == Rows!Points!MinBonus(target, a, p)
           high == Rows!Points!MaxBonus(target, a, p)
           least == Rows!Points!CeilDiv(100 * n + missBonus, a)
           scale == 1000000
<1>1. b \in Nat \ {0} /\ b >= 30 /\ D \in Nat \ {0} /\ s \in Nat /\ a \in Nat \ {0} /\ n \in Int
  BY PointConstants
<1>2. /\ EventTyped(q) /\ q.type = p.type /\ Rows!Points!SupportPart(q) = s /\ Rows!Points!Multiplier(q) = 100 + k
  BY WithBonusIs
<1>3. Rows!Points!CalcEventPT(d * D, q) = Rows!Points!Product(a, q) \div 100 + s
  <2>1. 0 \in 0..(Rows!Points!Divisor[q.type] - 1) /\ d \in Int /\ d * D + 0 = d * D
    BY <1>1, <1>2
  <2>2. Rows!Points!CalcEventPT(d * Rows!Points!Divisor[q.type] + 0, q)
          = Rows!Points!Product(Rows!Points!Base[q.type] + d, q) \div 100 + Rows!Points!SupportPart(q)
    BY <1>2, <2>1, PointsOfStep
  <2> QED BY <1>2, <2>1, <2>2
<1>4. Rows!Points!Product(a, q) = a * (100 + k) - missProduct /\ missProduct \in {0, 1} /\ missBonus \in {0, 1}
  BY <1>2, ProductIs, MissIs
<1>5. (a * (100 + k)) % 100 = 0 => missProduct = 0 /\ missBonus = 0
  <2>1. (a * (100 + k)) % 100 = 0 => <<n, a>> \notin Rounded.bonus /\ <<a, 100 + k, s>> \notin Rounded.product
    OBVIOUS
  <2>2. missProduct = Rows!Points!Missed(Rounded.product, <<a, 100 + k, s>>)
    BY <1>2 DEF ProductMiss
  <2> QED BY <2>1, <2>2 DEF Rows!Points!Missed
<1>6. n < scale /\ scale \in Nat
  BY <1>1, SMT DEF Rows!Points!MaxIterations
<1>7. /\ low = least - 100
      /\ high = (100 * (n + 1)) \div a - 100 - (IF scale * ((100 * (n + 1)) % a) < a THEN 1 ELSE 0)
  <2>1. low = least - 100
    BY SMT DEF Rows!Points!MinBonus
  <2>2. target + 1 - s = n + 1
    BY <1>1
  <2>3. high = (100 * (target + 1 - s)) \div a - 100 - (IF scale * ((100 * (target + 1 - s)) % a) < a THEN 1 ELSE 0)
    BY SMT DEF Rows!Points!MaxBonus
  <2> HIDE DEF high, low, a, n, s, scale
  <2> QED BY <2>1, <2>2, <2>3
<1> HIDE DEF scale
<1>8. (a * (100 + k) - missProduct) \div 100 = n
  <2>1. (a * (100 + k) - missProduct) \div 100 + s = target
    BY <1>3, <1>4
  <2> HIDE DEF a, missProduct
  <2>2. (a * (100 + k) - missProduct) \div 100 \in Int
    BY <1>1, <1>4
  <2> HIDE DEF s
  <2> QED BY <1>1, <2>1, <2>2
<1> HIDE DEF a, missProduct, missBonus, n, low, high, s, q
<1>9. /\ a <= n
      /\ least \in Int /\ least >= 100 /\ least <= 100 + k
      /\ (100 * (n + 1)) \div a \in Int
      /\ 100 + k <= (100 * (n + 1)) \div a - (IF scale * ((100 * (n + 1)) % a) < a THEN 1 ELSE 0)
  <2>1. FindsBonus(n, a, k, missProduct, missBonus, scale)
    BY <1>1, <1>4, <1>5, <1>6, <1>8 DEF FindsBonus
  <2>2. HasBonus(n, a, k, missBonus, scale)
    BY <2>1, BonusIsFound
  <2> QED BY <2>2 DEF HasBonus
<1>10. low \in Int /\ high \in Int /\ low >= 0 /\ low <= k /\ k <= high
  <2> DEFINE cut == IF scale * ((100 * (n + 1)) % a) < a THEN 1 ELSE 0
             y == (100 * (n + 1)) \div a
  <2>1. cut \in {0, 1} /\ y \in Int /\ 100 + k <= y - cut /\ high = y - 100 - cut
    BY <1>7, <1>9
  <2> HIDE DEF cut, y, least
  <2> QED BY <1>7, <1>9, <2>1
<1>11. k \in Rows!Points!BonusesFor(target, a, p)
  <2>1. k \in low..high
    BY <1>10
  <2>2. Rows!Points!Product(a, q) \div 100 + s = target
    BY <1>3 DEF q
  <2> QED BY <2>1, <2>2 DEF Rows!Points!BonusesFor, low, high, q, s
\* The search does not end before it, as there are not so many steps.
<1> DEFINE most == Rows!Points!MaxIterations
<1>12. most \in Nat /\ most >= 1
  BY SMT DEF Rows!Points!MaxIterations
<1> HIDE DEF most
<1>13. PICK top \in Nat :
         /\ target - s - b <= top
         /\ top = 0 \/ top <= target - 1
         /\ Rows!Points!Divs(target, p)
              = {i \in Rows!Points!Max({0, top - (most - 1)})..top :
                   /\ b + i + s <= target
                   /\ Rows!Points!MinBonus(target, b + i, p) >= 0
                   /\ Rows!Points!BonusesFor(target, b + i, p) # {}}
  BY StepsAre DEF s, most
<1>14. top - (most - 1) \in Int /\ top - (most - 1) <= 0
  BY <1>12, <1>13 DEF most
<1>15. Rows!Points!Max({0, top - (most - 1)}) = 0
  <2> DEFINE x == top - (most - 1)
  <2>1. x \in Int /\ x <= 0
    BY <1>14
  <2> HIDE DEF x
  <2>2. \E y \in {0, x} : \A z \in {0, x} : y >= z
    BY <2>1
  <2>3. Rows!Points!Max({0, x}) \in {0, x} /\ \A z \in {0, x} : Rows!Points!Max({0, x}) >= z
    BY <2>2 DEF Rows!Points!Max
  <2>4. Rows!Points!Max({0, x}) = 0
    BY <2>1, <2>3
  <2> QED BY <2>4 DEF x
<1>16. d <= top /\ b + d + s <= target
  BY <1>1, <1>9, <1>13 DEF a, n
<1>17. d \in 0..top
  BY <1>16
<1>18. low >= 0 /\ low = Rows!Points!MinBonus(target, b + d, p) /\ Rows!Points!BonusesFor(target, b + d, p) # {}
  BY <1>10, <1>11 DEF low, a
<1> QED BY <1>13, <1>15, <1>16, <1>17, <1>18

LEMMA BonusesReachTarget ==
  ASSUME NEW target \in Nat, NEW p, EventTyped(p), p.type \in Rows!Points!BonusTypes
  PROVE  Rows!Points!BonusesAreRight(target, p)
<1> DEFINE b == Rows!Points!Base[p.type]
           D == Rows!Points!Divisor[p.type]
           found == Rows!Points!GetFeasibleBonus(target, p)
           with(k) == Rows!Points!WithBonus(p, k)
           covered(score) == \E f \in found : f.range.min <= score /\ score <= f.range.max
           missed(a, k) ==
             /\ (a * (100 + k)) % 100 = 0
             /\ <<target - Rows!Points!SupportPart(p), a>> \in Rounded.bonus \/ <<a, 100 + k, Rows!Points!SupportPart(p)>> \in Rounded.product
<1>1. b \in Nat \ {0} /\ D \in Nat \ {0}
  BY PointConstants
\* Every score of a step is worth the target with the bonus of the step.
<1>2. ASSUME NEW d \in Rows!Points!Divs(target, p), NEW e \in 0..(D - 1)
      PROVE  Rows!Points!CalcEventPT(d * D + e, with(BonusOf(target, d, p))) = target
  <2> DEFINE k == BonusOf(target, d, p)
             q == with(k)
  <2>1. d \in Int /\ k \in Nat /\ k \in Rows!Points!BonusesFor(target, b + d, p)
    BY BonusIsConfirmed
  <2>2. Rows!Points!Product(b + d, q) \div 100 + Rows!Points!SupportPart(p) = target
    BY <2>1 DEF Rows!Points!BonusesFor
  <2> HIDE DEF k
  <2>3. EventTyped(q) /\ q.type = p.type /\ Rows!Points!SupportPart(q) = Rows!Points!SupportPart(p)
    BY <2>1, WithBonusIs
  <2>4. e \in 0..(Rows!Points!Divisor[q.type] - 1)
    BY <2>3
  <2> HIDE DEF q
  <2>5. Rows!Points!CalcEventPT(d * Rows!Points!Divisor[q.type] + e, q)
          = Rows!Points!Product(Rows!Points!Base[q.type] + d, q) \div 100 + Rows!Points!SupportPart(q)
    BY <2>1, <2>3, <2>4, PointsOfStep
  <2> QED BY <2>2, <2>3, <2>5 DEF q, k
<1>3. ASSUME NEW f \in found
      PROVE  \A score \in {f.range.min, f.range.max} : Rows!Points!CalcEventPT(score, with(f.bonus)) = target
  <2>1. PICK first, last \in Rows!Points!Divs(target, p) :
          /\ BonusOf(target, first, p) = f.bonus /\ BonusOf(target, last, p) = f.bonus
          /\ f.range.min = first * D /\ f.range.max = (last + 1) * D - 1
    BY EntriesAre
  <2>2. first \in Nat /\ last \in Nat
    BY BonusIsConfirmed
  <2>3. 0 \in 0..(D - 1) /\ D - 1 \in 0..(D - 1)
    BY <1>1
  <2>4. first * D = first * D + 0 /\ (last + 1) * D - 1 = last * D + (D - 1)
    BY <1>1, <2>2
  <2> HIDE DEF D, found, with
  <2>5. Rows!Points!CalcEventPT(first * D + 0, with(f.bonus)) = target
    BY <1>2, <2>1, <2>3
  <2>6. Rows!Points!CalcEventPT(last * D + (D - 1), with(f.bonus)) = target
    BY <1>2, <2>1, <2>3
  <2> QED BY <2>1, <2>4, <2>5, <2>6
<1>4. ASSUME target <= Rows!Points!MaxIterations, NEW d \in 0..target, NEW k \in 0..100,
             Rows!Points!CalcEventPT(d * D, with(k)) = target, ~missed(b + d, k)
      PROVE  covered(d * D)
  <2>1. d \in Nat /\ k \in Nat
    OBVIOUS
  <2>2. d \in Rows!Points!Divs(target, p)
    BY <1>4, <2>1, BonusIsAmong
  <2> HIDE DEF D, found
  <2>3. PICK f \in found, first, last \in Rows!Points!Divs(target, p) :
          first <= d /\ d <= last /\ f.range.min = first * D /\ f.range.max = (last + 1) * D - 1
    BY <2>2, EntriesAre DEF D, found
  <2>4. first \in Int /\ last \in Int /\ d \in Int
    BY <2>1, BonusIsConfirmed
  <2>5. 0 \in 0..(D - 1) /\ d * D + 0 = d * D
    BY <1>1, <2>1
  <2>6. first * D <= d * D + 0 /\ d * D + 0 <= (last + 1) * D - 1
    BY <1>1, <2>3, <2>4, <2>5, RangeHoldsStep
  <2> QED BY <2>3, <2>5, <2>6
<1> HIDE DEF covered, missed, with, found, D, b
<1>5. target <= Rows!Points!MaxIterations =>
        \A d \in 0..target, k \in 0..100 :
          Rows!Points!CalcEventPT(d * D, with(k)) = target => covered(d * D) \/ missed(b + d, k)
  BY <1>4
<1> QED BY <1>3, <1>5 DEF Rows!Points!BonusesAreRight, covered, missed, with, found, D, b

-----------------------------------------------------------------------------
\* The table of gains.
LEMMA LatestIs ==
  ASSUME NEW n \in Nat, NEW S \in SUBSET (0..n), S # {}
  PROVE  Table!Max(S) \in S /\ \A x \in S : x <= Table!Max(S)
BY GreatestIs DEF Rows!Points!Max, Table!Max

\* A history of rankings, of which the first n were there when the client asked first.
HistoryTyped(history, interval, window, n) ==
  /\ Len(history) \in Nat /\ DOMAIN history = 1..Len(history)
  /\ \A t \in DOMAIN history : DOMAIN history[t] = 1..Len(history[t])
  /\ interval \in Nat \ {0} /\ window \in Nat /\ n \in DOMAIN history

\* The times an answer has, and the players who are in one of its rankings.
Asked(history, interval, window, last) ==
  {t \in Table!Sampled(history, interval) :
     t >= Table!Max(Table!Sampled(history, interval)) - window /\ t >= last}
PlayersIn(history, times) == UNION {{history[t][i].uid : i \in DOMAIN history[t]} : t \in times}

LEMMA AnswerIs ==
  ASSUME NEW history, NEW interval, NEW window, NEW last
  PROVE  LET times == Asked(history, interval, window, last)
             answer == Table!BuildPointTrack(history, interval, window, last)
         IN  /\ DOMAIN answer = PlayersIn(history, times)
             /\ \A uid \in PlayersIn(history, times) :
                  /\ DOMAIN answer[uid] = times
                  /\ \A t \in times : answer[uid][t] = Table!PointsOf(history[t], uid)
BY DEF Table!BuildPointTrack, Asked, PlayersIn

\* Whoever is not in a ranking has no points in it.
LEMMA AbsentIsMissing ==
  ASSUME NEW history, NEW times, NEW t \in times, NEW uid, uid \notin PlayersIn(history, times)
  PROVE  Table!PointsOf(history[t], uid) = Table!Missing
<1>1. {i \in DOMAIN history[t] : history[t][i].uid = uid} = {}
  BY DEF PlayersIn
<1> QED BY <1>1 DEF Table!PointsOf

\* What the client had and asks for together is what a complete answer has.
LEMMA AskedTogether ==
  ASSUME NEW history, NEW interval, NEW window, NEW n, HistoryTyped(history, interval, window, n),
         NEW last \in Asked(Table!Prefix(history, n), interval, window, 0),
         \A t \in Asked(Table!Prefix(history, n), interval, window, 0) : t <= last
  PROVE  Asked(history, interval, window, 0)
           \subseteq Asked(Table!Prefix(history, n), interval, window, 0) \union Asked(history, interval, window, last)
<1> DEFINE prefix == Table!Prefix(history, n)
           N == Len(history)
           times == Table!Sampled(history, interval)
           before == Table!Sampled(prefix, interval)
<1>1. N \in Nat /\ n \in 1..N /\ DOMAIN history = 1..N /\ interval \in Nat \ {0} /\ window \in Nat
  BY DEF HistoryTyped
<1>2. DOMAIN prefix = 1..n /\ \A t \in 1..n : prefix[t] = history[t]
  BY DEF Table!Prefix
<1> HIDE DEF prefix, N
<1>3. \A t \in 1..N : t \in Table!Complete(prefix) <=> t <= n /\ t \in Table!Complete(history)
  BY <1>1, <1>2 DEF Table!Complete
<1>4. Table!Complete(history) \subseteq 1..N /\ Table!Complete(prefix) \subseteq Table!Complete(history)
      /\ Table!Complete(prefix) \subseteq 1..n
  BY <1>1, <1>2, <1>3 DEF Table!Complete
<1>5. times \subseteq Table!Complete(history) /\ before \subseteq Table!Complete(prefix)
  BY DEF Table!Sampled
<1>6. ASSUME NEW t \in times, t <= n
      PROVE  t \in before
  <2>1. t \in 1..N /\ t \in Table!Complete(prefix)
    BY <1>3, <1>4, <1>5, <1>6
  <2> QED BY <1>4, <2>1 DEF Table!Sampled
\* The window of a longer history does not begin earlier.
<1>7. before # {} /\ Table!Max(before) \in 0..n /\ Table!Max(before) \in Table!Complete(history)
  <2>1. last \in before
    BY DEF Asked, prefix
  <2>2. before \subseteq 0..n /\ n \in Nat
    BY <1>1, <1>4, <1>5
  <2>3. Table!Max(before) \in before
    BY <2>1, <2>2, LatestIs
  <2> QED BY <1>4, <1>5, <2>1, <2>2, <2>3
<1>8. times # {} /\ Table!Max(times) \in 0..N /\ Table!Max(before) <= Table!Max(times)
  <2> DEFINE greatest == Table!Max(Table!Complete(history))
  <2>1. Table!Complete(history) # {} /\ Table!Complete(history) \subseteq 0..N
    BY <1>1, <1>4, <1>7
  <2>2. greatest \in Table!Complete(history) /\ \A t \in Table!Complete(history) : t <= greatest
    BY <1>1, <2>1, LatestIs
  <2> HIDE DEF greatest
  <2>3. greatest \in times
    BY <2>2 DEF Table!Sampled
  <2>4. times \subseteq 0..N
    BY <1>5, <2>1
  <2>5. Table!Max(times) \in times /\ \A t \in times : t <= Table!Max(times)
    BY <1>1, <2>3, <2>4, LatestIs
  <2>6. Table!Max(before) <= greatest /\ greatest <= Table!Max(times) /\ greatest \in 0..N
    BY <1>7, <2>1, <2>2, <2>3, <2>5
  <2> QED BY <1>1, <1>7, <2>3, <2>4, <2>5, <2>6
<1> SUFFICES ASSUME NEW t \in Asked(history, interval, window, 0), t \notin Asked(history, interval, window, last)
             PROVE  t \in Asked(prefix, interval, window, 0)
  BY DEF prefix
<1>9. t \in times /\ t \in 1..N /\ t >= Table!Max(times) - window /\ ~(t >= last)
  BY <1>4, <1>5 DEF Asked
<1>10. last \in 1..n
  BY <1>4, <1>5 DEF Asked, prefix
<1>11. t \in before
  BY <1>1, <1>6, <1>9, <1>10
<1> HIDE DEF times, before
<1>12. t >= Table!Max(before) - window /\ t >= 0
  BY <1>1, <1>7, <1>8, <1>9
<1> QED BY <1>11, <1>12 DEF Asked, before

LEMMA TableHolds ==
  ASSUME NEW history, NEW interval, NEW window, NEW n, HistoryTyped(history, interval, window, n)
  PROVE  Table!TableHoldsHistory(history, interval, window, n)
<1> DEFINE prefix == Table!Prefix(history, n)
           first == Table!BuildPointTrack(prefix, interval, window, 0)
           full == Table!BuildPointTrack(history, interval, window, 0)
           at == Asked(prefix, interval, window, 0)
           all == Asked(history, interval, window, 0)
<1> SUFFICES ASSUME NEW last \in Table!LatestTimestamps(first)
             PROVE  LET tracks == Table!AfterTwoPolls(history, interval, window, n, last)
                        table == Table!ToTableModel(tracks)
                    IN  /\ Table!Timeline(full) \subseteq DOMAIN table /\ DOMAIN full \subseteq DOMAIN tracks
                        /\ \A t \in DOMAIN table, uid \in DOMAIN tracks :
                             table[t][uid].points = Table!PointsOf(history[t], uid)
  BY DEF Table!TableHoldsHistory
<1> DEFINE second == Table!BuildPointTrack(history, interval, window, last)
           later == Asked(history, interval, window, last)
           tracks == Table!MergeTracks(first, second)
           table == Table!ToTableModel(tracks)
<1>1. /\ Len(history) \in Nat /\ n \in 1..Len(history) /\ DOMAIN history = 1..Len(history)
      /\ DOMAIN prefix = 1..n /\ \A t \in 1..n : prefix[t] = history[t]
  BY DEF HistoryTyped, Table!Prefix
<1> HIDE DEF prefix
<1>2. /\ at \subseteq 1..n /\ all \subseteq DOMAIN history /\ later \subseteq DOMAIN history
      /\ \A t \in at \union all \union later : t \in DOMAIN history /\ Len(history[t]) = TopSize
  BY <1>1 DEF Asked, Table!Sampled, Table!Complete
<1>3. PlayersIn(prefix, at) = PlayersIn(history, at)
  BY <1>1, <1>2 DEF PlayersIn
<1>4. /\ DOMAIN first = PlayersIn(history, at)
      /\ \A uid \in PlayersIn(history, at) :
           DOMAIN first[uid] = at /\ \A t \in at : first[uid][t] = Table!PointsOf(history[t], uid)
  BY <1>1, <1>2, <1>3, AnswerIs
<1>5. /\ DOMAIN second = PlayersIn(history, later)
      /\ \A uid \in PlayersIn(history, later) :
           DOMAIN second[uid] = later /\ \A t \in later : second[uid][t] = Table!PointsOf(history[t], uid)
  BY AnswerIs
<1>6. /\ DOMAIN full = PlayersIn(history, all)
      /\ \A uid \in PlayersIn(history, all) : DOMAIN full[uid] = all
  BY AnswerIs
<1> HIDE DEF first, second, full
<1>7. PICK player \in PlayersIn(history, at) : at # {} /\ last = Table!Max(at)
  BY <1>4 DEF Table!LatestTimestamps
<1>8. all \subseteq at \union later
  <2>1. at \subseteq 0..n /\ n \in Nat
    BY <1>1, <1>2
  <2>2. last \in at /\ \A t \in at : t <= last
    BY <1>7, <2>1, LatestIs
  <2> QED BY <2>2, AskedTogether DEF prefix
\* A complete ranking has players.
<1>9. \A t \in at \union later : DOMAIN history[t] # {}
  <2>1. PICK u \in at : DOMAIN history[u] # {}
    BY <1>7 DEF PlayersIn
  <2>2. 1..TopSize # {}
    BY <1>2, <2>1 DEF HistoryTyped
  <2> QED BY <1>2, <2>2 DEF HistoryTyped
<1> HIDE DEF at, all, later
<1>10. /\ DOMAIN tracks = PlayersIn(history, at) \union PlayersIn(history, later)
       /\ \A uid \in DOMAIN tracks :
            /\ DOMAIN tracks[uid] = (IF uid \in PlayersIn(history, at) THEN at ELSE {})
                                      \union (IF uid \in PlayersIn(history, later) THEN later ELSE {})
            /\ \A t \in DOMAIN tracks[uid] : tracks[uid][t] = Table!PointsOf(history[t], uid)
  <2>1. DOMAIN tracks = PlayersIn(history, at) \union PlayersIn(history, later)
    BY <1>4, <1>5 DEF Table!MergeTracks
  <2>2. ASSUME NEW uid \in DOMAIN tracks
        PROVE  /\ DOMAIN tracks[uid] = (IF uid \in PlayersIn(history, at) THEN at ELSE {})
                                         \union (IF uid \in PlayersIn(history, later) THEN later ELSE {})
               /\ \A t \in DOMAIN tracks[uid] : tracks[uid][t] = Table!PointsOf(history[t], uid)
    <3> DEFINE old == Table!Over(<<>>, first, uid)
    <3>1. tracks[uid] = Table!Over(old, second, uid)
      BY DEF Table!MergeTracks
    <3>2. /\ DOMAIN old = (IF uid \in PlayersIn(history, at) THEN at ELSE {})
          /\ \A t \in DOMAIN old : old[t] = Table!PointsOf(history[t], uid)
      <4>1. DOMAIN <<>> = {}
        OBVIOUS
      <4> QED BY <1>4, <4>1 DEF Table!Over
    <3> HIDE DEF old
    <3>3. CASE uid \in PlayersIn(history, later)
      <4>1. Table!Over(old, second, uid)
              = [t \in DOMAIN old \union later |-> IF t \in later THEN second[uid][t] ELSE old[t]]
        BY <1>5, <3>3 DEF Table!Over
      <4> QED BY <1>5, <3>1, <3>2, <3>3, <4>1
    <3>4. CASE uid \notin PlayersIn(history, later)
      <4>1. tracks[uid] = old
        BY <1>5, <3>1, <3>4 DEF Table!Over
      <4> QED BY <3>2, <3>4, <4>1
    <3> QED BY <3>3, <3>4
  <2> QED BY <2>1, <2>2
<1>11. tracks = Table!AfterTwoPolls(history, interval, window, n, last)
  BY DEF Table!AfterTwoPolls, first, second, prefix
<1> HIDE DEF tracks
<1>12. DOMAIN table = Table!Timeline(tracks) /\ Table!Timeline(tracks) = at \union later
  <2>1. Table!Timeline(tracks) \subseteq at \union later
    BY <1>10 DEF Table!Timeline
  <2>2. ASSUME NEW t \in at \union later
        PROVE  t \in Table!Timeline(tracks)
    <3>1. PICK i \in DOMAIN history[t] : TRUE
      BY <1>9, <2>2
    <3> DEFINE uid == history[t][i].uid
    <3>2. t \in at => uid \in PlayersIn(history, at)
      BY DEF PlayersIn
    <3>3. t \in later => uid \in PlayersIn(history, later)
      BY DEF PlayersIn
    <3> HIDE DEF uid
    <3>4. uid \in DOMAIN tracks /\ t \in DOMAIN tracks[uid]
      BY <1>10, <2>2, <3>2, <3>3
    <3> QED BY <3>4 DEF Table!Timeline
  <2>3. DOMAIN table = Table!Timeline(tracks)
    BY DEF Table!ToTableModel
  <2> QED BY <2>1, <2>2, <2>3
<1>13. Table!Timeline(full) \subseteq DOMAIN table /\ DOMAIN full \subseteq DOMAIN tracks
  <2>1. Table!Timeline(full) \subseteq all
    BY <1>6 DEF Table!Timeline
  <2>2. PlayersIn(history, all) \subseteq PlayersIn(history, at) \union PlayersIn(history, later)
    BY <1>8 DEF PlayersIn
  <2> QED BY <1>6, <1>8, <1>10, <1>12, <2>1, <2>2
<1>14. ASSUME NEW t \in DOMAIN table, NEW uid \in DOMAIN tracks
       PROVE  table[t][uid].points = Table!PointsOf(history[t], uid)
  <2>1. table[t][uid].points = Table!ValueAt(tracks[uid], t)
    <3>1. table[t][uid] = IF Table!ValueAt(tracks[uid], t) = Table!Missing
                            THEN [shown |-> "-", points |-> Table!Missing]
                            ELSE [shown |-> Table!Gained(tracks[uid], Table!Timeline(tracks), t), points |-> tracks[uid][t]]
      BY <1>12 DEF Table!ToTableModel
    <3> HIDE DEF table
    <3>2. CASE Table!ValueAt(tracks[uid], t) = Table!Missing
      BY <3>1, <3>2
    <3>3. CASE Table!ValueAt(tracks[uid], t) # Table!Missing
      BY <3>1, <3>3 DEF Table!ValueAt
    <3> QED BY <3>2, <3>3
  <2>2. CASE t \in DOMAIN tracks[uid]
    BY <1>10, <2>1, <2>2 DEF Table!ValueAt
  <2>3. CASE t \notin DOMAIN tracks[uid]
    <3>1. \/ t \in at /\ uid \notin PlayersIn(history, at)
          \/ t \in later /\ uid \notin PlayersIn(history, later)
      BY <1>10, <1>12, <2>3
    <3>2. Table!PointsOf(history[t], uid) = Table!Missing
      BY <3>1, AbsentIsMissing
    <3> QED BY <2>1, <2>3, <3>2 DEF Table!ValueAt
  <2> QED BY <2>2, <2>3
<1> HIDE DEF table
<1> QED BY <1>11, <1>13, <1>14 DEF table


-----------------------------------------------------------------------------
KnownOf(cards, deck) == {i \in DOMAIN deck : deck[i].card \in DOMAIN cards}
Normals(cards, items, deck) ==
  [i \in KnownOf(cards, deck) |-> Deck!NormalPower(cards[deck[i].card], deck[i], items)]
Bonuses(cards, deck, event) ==
  [i \in KnownOf(cards, deck) |-> Deck!Total(Deck!CardEventBonus(cards[deck[i].card], deck[i].card, deck[i], event))]
Percents(cards, deck, event) ==
  [i \in KnownOf(cards, deck) |-> Deck!CardBonusPct(cards[deck[i].card], deck[i].card, deck[i], event)]
ShownOf(cards, deck) ==
  [i \in DOMAIN deck |->
     [of |-> deck[i].card,
      bonus |-> IF i \in KnownOf(cards, deck)
                  THEN Deck!SkillBonus(cards[deck[i].card].skill, Deck!Team(cards, deck)) ELSE 0]]

LEMMA NormalsAreSummed ==
  ASSUME NEW cards, NEW items, NEW deck
  PROVE  Deck!MapThenSumSet(LAMBDA i : Deck!NormalPower(cards[deck[i].card], deck[i], items), KnownOf(cards, deck))
           = Sum(Normals(cards, items, deck), KnownOf(cards, deck))
<1> DEFINE S == KnownOf(cards, deck)
           F == Normals(cards, items, deck)
           A(g) == g = [T \in SUBSET S |-> IF T = {} THEN 0
                          ELSE Deck!NormalPower(cards[deck[Pick(T)].card], deck[Pick(T)], items) + g[T \ {Pick(T)}]]
<1>1. Deck!MapThenSumSet(LAMBDA i : Deck!NormalPower(cards[deck[i].card], deck[i], items), S) = (CHOOSE g : A(g))[S]
  BY DEF Deck!MapThenSumSet, Deck!MapThenFoldSet, Pick
<1> HIDE DEF S
<1>2. \A g : A(g) <=> Adds(g, F, S)
  BY PickIsElement DEF Adds, Normals, S
<1>3. (CHOOSE g : A(g)) = (CHOOSE g : Adds(g, F, S))
  BY <1>2
<1> QED BY <1>1, <1>3 DEF Sum, Adding, S

LEMMA BonusesAreSummed ==
  ASSUME NEW cards, NEW deck, NEW event
  PROVE  Deck!MapThenSumSet(LAMBDA i : Deck!Total(Deck!CardEventBonus(cards[deck[i].card], deck[i].card, deck[i], event)),
                       KnownOf(cards, deck))
           = Sum(Bonuses(cards, deck, event), KnownOf(cards, deck))
<1> DEFINE S == KnownOf(cards, deck)
           F == Bonuses(cards, deck, event)
           A(g) == g = [T \in SUBSET S |-> IF T = {} THEN 0
                          ELSE Deck!Total(Deck!CardEventBonus(cards[deck[Pick(T)].card], deck[Pick(T)].card, deck[Pick(T)], event))
                                 + g[T \ {Pick(T)}]]
<1>1. Deck!MapThenSumSet(LAMBDA i : Deck!Total(Deck!CardEventBonus(cards[deck[i].card], deck[i].card, deck[i], event)), S)
        = (CHOOSE g : A(g))[S]
  BY DEF Deck!MapThenSumSet, Deck!MapThenFoldSet, Pick
<1> HIDE DEF S
<1>2. \A g : A(g) <=> Adds(g, F, S)
  BY PickIsElement DEF Adds, Bonuses, S
<1>3. (CHOOSE g : A(g)) = (CHOOSE g : Adds(g, F, S))
  BY <1>2
<1> QED BY <1>1, <1>3 DEF Sum, Adding, S

LEMMA PercentsAreSummed ==
  ASSUME NEW cards, NEW deck, NEW event
  PROVE  Deck!MapThenSumSet(LAMBDA i : Deck!CardBonusPct(cards[deck[i].card], deck[i].card, deck[i], event), KnownOf(cards, deck))
           = Sum(Percents(cards, deck, event), KnownOf(cards, deck))
<1> DEFINE S == KnownOf(cards, deck)
           F == Percents(cards, deck, event)
           A(g) == g = [T \in SUBSET S |-> IF T = {} THEN 0
                          ELSE Deck!CardBonusPct(cards[deck[Pick(T)].card], deck[Pick(T)].card, deck[Pick(T)], event)
                                 + g[T \ {Pick(T)}]]
<1>1. Deck!MapThenSumSet(LAMBDA i : Deck!CardBonusPct(cards[deck[i].card], deck[i].card, deck[i], event), S)
        = (CHOOSE g : A(g))[S]
  BY DEF Deck!MapThenSumSet, Deck!MapThenFoldSet, Pick
<1> HIDE DEF S
<1>2. \A g : A(g) <=> Adds(g, F, S)
  BY PickIsElement DEF Adds, Percents, S
<1>3. (CHOOSE g : A(g)) = (CHOOSE g : Adds(g, F, S))
  BY <1>2
<1> QED BY <1>1, <1>3 DEF Sum, Adding, S

LEMMA StatusIs ==
  ASSUME NEW cards, NEW items, NEW deck, NEW event
  PROVE  LET status == Deck!DeckStatus(cards, items, deck, event)
             S == KnownOf(cards, deck)
             own == Sum(Normals(cards, items, deck), S)
         IN  /\ status.normalPower = own
             /\ status.eventPower = own + (IF event.type \in Deck!PowerTypes \union {"challenge"}
                                             THEN Sum(Bonuses(cards, deck, event), S) ELSE 0)
             /\ status.autoPower = IF event.type \in Deck!PowerTypes THEN status.eventPower ELSE status.normalPower
             /\ status.eventBonusPct = IF event = Deck!NoEvent THEN 0 ELSE Sum(Percents(cards, deck, event), S)
             /\ status.skills = Deck!Reordered(ShownOf(cards, deck))
<1> DEFINE status == Deck!DeckStatus(cards, items, deck, event)
           S == KnownOf(cards, deck)
<1>1. status.normalPower = Deck!MapThenSumSet(LAMBDA i : Deck!NormalPower(cards[deck[i].card], deck[i], items), S)
  BY DEF Deck!DeckStatus, KnownOf
<1>2. status.eventPower = status.normalPower + 
         (IF event.type \in Deck!PowerTypes \union {"challenge"}
           THEN Deck!MapThenSumSet(LAMBDA i : Deck!Total(Deck!CardEventBonus(cards[deck[i].card], deck[i].card, deck[i], event)), S) ELSE 0)
  BY DEF Deck!DeckStatus, KnownOf
<1>3. status.autoPower = IF event.type \in Deck!PowerTypes THEN status.eventPower ELSE status.normalPower
  BY DEF Deck!DeckStatus
<1>4. status.eventBonusPct = IF event = Deck!NoEvent THEN 0
         ELSE Deck!MapThenSumSet(LAMBDA i : Deck!CardBonusPct(cards[deck[i].card], deck[i].card, deck[i], event), S)
  BY DEF Deck!DeckStatus, KnownOf
<1>5. status.skills = Deck!Reordered(ShownOf(cards, deck))
  BY DEF Deck!DeckStatus, KnownOf, ShownOf
<1> HIDE DEF status
<1> QED BY <1>1, <1>2, <1>3, <1>4, <1>5, NormalsAreSummed, BonusesAreSummed, PercentsAreSummed DEF status

LEMMA TotalIs ==
  ASSUME NEW stat, \A d \in Deck!Dims : stat[d] \in Int
  PROVE  Deck!Total(stat) = stat["performance"] + stat["technique"] + stat["visual"] /\ Deck!Total(stat) \in Int
<1> DEFINE S == Deck!Dims
           A(g) == g = [T \in SUBSET S |-> IF T = {} THEN 0 ELSE stat[Pick(T)] + g[T \ {Pick(T)}]]
<1>1. Deck!Total(stat) = (CHOOSE g : A(g))[S]
  BY DEF Deck!Total, Deck!MapThenSumSet, Deck!MapThenFoldSet, Pick
<1>2. Deck!Total(stat) = Sum(stat, S)
  <2> HIDE DEF S
  <2>1. \A g : A(g) <=> Adds(g, stat, S)
    BY DEF Adds
  <2> QED BY <1>1, <2>1 DEF Sum, Adding
<1>3. Summable(stat, S)
  <2>1. IsFiniteSet({"performance"}) /\ IsFiniteSet({"performance", "technique"}) /\ IsFiniteSet(S)
    <3>1. IsFiniteSet({"performance"})
      BY FS_Singleton
    <3>2. IsFiniteSet({"performance"} \cup {"technique"})
      BY <3>1, FS_AddElement
    <3>3. IsFiniteSet(({"performance"} \cup {"technique"}) \cup {"visual"})
      BY <3>2, FS_AddElement
    <3>4. {"performance"} \cup {"technique"} = {"performance", "technique"} /\ ({"performance"} \cup {"technique"}) \cup {"visual"} = S
      BY DEF Deck!Dims
    <3> QED BY <3>1, <3>2, <3>3, <3>4
  <2> QED BY <2>1 DEF Summable
<1>4. Summable(stat, {"technique", "visual"}) /\ Summable(stat, {"visual"})
  BY <1>3, SumIsAdding DEF Deck!Dims
<1>5. Sum(stat, S) = stat["performance"] + Sum(stat, {"technique", "visual"})
  <2>1. "performance" \in S /\ S \ {"performance"} = {"technique", "visual"}
    BY DEF Deck!Dims
  <2> HIDE DEF S
  <2> QED BY <1>3, <2>1, SumWithout
<1>6. Sum(stat, {"technique", "visual"}) = stat["technique"] + Sum(stat, {"visual"})
  <2>1. {"technique", "visual"} \ {"technique"} = {"visual"}
    OBVIOUS
  <2> QED BY <1>4, <2>1, SumWithout
<1>7. Sum(stat, {"visual"}) = stat["visual"] + Sum(stat, {})
  <2>1. {"visual"} \ {"visual"} = {}
    OBVIOUS
  <2> QED BY <1>4, <2>1, SumWithout
<1>8. Sum(stat, {}) = 0
  BY SumOfNone
<1>9. stat["performance"] \in Int /\ stat["technique"] \in Int /\ stat["visual"] \in Int
  BY DEF Deck!Dims
<1> HIDE DEF S
<1> QED BY <1>2, <1>5, <1>6, <1>7, <1>8, <1>9

-----------------------------------------------------------------------------
LEMMA BonusIsGrowth ==
  ASSUME NEW card, NEW id, NEW entry, NEW event,
         Deck!CardTyped(card), entry.append \in [Deck!Dims -> Nat], Deck!EventTyped(event), event.type \in Deck!PowerTypes
  PROVE  Deck!Total(Deck!CardEventBonus(card, id, entry, event))
           = LET base == Deck!BaseStat(card, entry)
             IN  Deck!Total(base) * Deck!CardBonusPct(card, id, entry, event)
                   + (IF Deck!HasBoth(card, event) THEN Deck!Total([d \in Deck!Dims |-> base[d] * event.parameter[d]]) ELSE 0)
<1> DEFINE base == Deck!BaseStat(card, entry)
           pct == Deck!CardBonusPct(card, id, entry, event)
           parameter == IF Deck!HasBoth(card, event) THEN event.parameter ELSE Deck!NoStat
           grown == [d \in Deck!Dims |-> base[d] * event.parameter[d]]
           bonus == [d \in Deck!Dims |-> base[d] * pct + base[d] * parameter[d]]
<1>1. base \in [Deck!Dims -> Nat]
  BY DEF Deck!BaseStat, Deck!NoStat, Deck!CardTyped
<1>2. pct \in Nat
  <2>1. /\ Deck!Percent(event.characters, card.character) \in Nat /\ Deck!Percent(event.attributes, card.attribute) \in Nat
        /\ Deck!Percent(event.members, id) \in Nat /\ Deck!Percent(event.ranks, <<card.rarity, entry.rank>>) \in Nat
    BY DEF Deck!Percent, Deck!EventTyped
  <2> QED BY <2>1 DEF Deck!CardBonusPct, Deck!EventTyped
<1>3. Deck!CardEventBonus(card, id, entry, event) = bonus
  BY DEF Deck!CardEventBonus, Deck!CardBonusPct
<1>4. parameter \in [Deck!Dims -> Nat] /\ event.parameter \in [Deck!Dims -> Nat]
  BY DEF Deck!EventTyped, Deck!NoStat
<1> HIDE DEF base, pct, parameter
<1>5. \A d \in Deck!Dims : bonus[d] \in Int /\ grown[d] \in Int /\ base[d] \in Int
  BY <1>1, <1>2, <1>4
<1> DEFINE b(d) == base[d]
<1>6. /\ base["performance"] \in Nat /\ base["technique"] \in Nat /\ base["visual"] \in Nat
      /\ parameter["performance"] \in Nat /\ parameter["technique"] \in Nat /\ parameter["visual"] \in Nat
  BY <1>1, <1>4 DEF Deck!Dims
<1>7. Deck!Total(base) * pct = base["performance"] * pct + base["technique"] * pct + base["visual"] * pct
  <2>1. Deck!Total(base) = base["performance"] + base["technique"] + base["visual"]
    BY <1>5, TotalIs
  <2> QED BY <1>2, <1>6, <2>1
<1>8. Deck!Total(bonus) = (base["performance"] * pct + base["performance"] * parameter["performance"])
                         + (base["technique"] * pct + base["technique"] * parameter["technique"])
                         + (base["visual"] * pct + base["visual"] * parameter["visual"])
  <2>1. Deck!Total(bonus) = bonus["performance"] + bonus["technique"] + bonus["visual"]
    BY <1>5, TotalIs
  <2> QED BY <2>1 DEF Deck!Dims
<1>9. CASE Deck!HasBoth(card, event)
  <2>1. Deck!Total(grown) = base["performance"] * parameter["performance"] + base["technique"] * parameter["technique"]
                             + base["visual"] * parameter["visual"]
    <3>1. Deck!Total(grown) = grown["performance"] + grown["technique"] + grown["visual"]
      BY <1>5, TotalIs
    <3>2. parameter = event.parameter
      BY <1>9 DEF parameter
    <3> QED BY <3>1, <3>2 DEF Deck!Dims
  <2>2. base["performance"] * parameter["performance"] \in Nat /\ base["technique"] * parameter["technique"] \in Nat
        /\ base["visual"] * parameter["visual"] \in Nat
        /\ base["performance"] * pct \in Nat /\ base["technique"] * pct \in Nat /\ base["visual"] * pct \in Nat
    BY <1>2, <1>6
  <2>3. Deck!Total(bonus) = Deck!Total(base) * pct + Deck!Total(grown)
    BY <1>7, <1>8, <2>1, <2>2
  <2> QED BY <1>3, <1>9, <2>3 DEF base, pct
<1>10. CASE ~ Deck!HasBoth(card, event)
  <2>1. parameter["performance"] = 0 /\ parameter["technique"] = 0 /\ parameter["visual"] = 0
    BY <1>10 DEF parameter, Deck!NoStat, Deck!Dims
  <2>2. base["performance"] * pct \in Nat /\ base["technique"] * pct \in Nat /\ base["visual"] * pct \in Nat
    BY <1>2, <1>6
  <2>3. Deck!Total(bonus) = Deck!Total(base) * pct
    BY <1>6, <1>7, <1>8, <2>1, <2>2
  <2>4. Deck!Total(base) * pct \in Nat
    BY <1>7, <2>2
  <2> QED BY <1>3, <1>10, <2>3, <2>4 DEF base, pct
<1> QED BY <1>9, <1>10

LEMMA SkillCounts ==
  ASSUME NEW card, Deck!CardTyped(card), NEW team, NEW effect \in card.skill.effects, effect.condition = "none"
  PROVE  Deck!SkillBonus(card.skill, team) >= effect.value
<1> DEFINE skill == card.skill
           counted == {e \in skill.effects : Deck!Applicable(e)}
           values == {e.value : e \in counted}
           S == {0} \union values
           best == Deck!Max(S)
<1>1. S \in SUBSET Int /\ IsFiniteSet(S) /\ S # {} /\ effect.value \in S
  <2>1. IsFiniteSet(counted)
    <3>1. IsFiniteSet(card.skill.effects)
      BY DEF Deck!CardTyped, IsFiniteSet, Deck!IsFiniteSet
    <3>2. counted \in SUBSET card.skill.effects
      OBVIOUS
    <3> HIDE DEF counted
    <3> QED BY <3>1, <3>2, FS_Subset
  <2>2. IsFiniteSet(values)
    <3> DEFINE f == [e \in counted |-> e.value]
    <3>1. values = {f[e] : e \in counted}
      OBVIOUS
    <3> HIDE DEF f, counted, values
    <3> QED BY <2>1, <3>1, ImageIsFinite
  <2>3. values \in SUBSET Nat
    BY DEF Deck!CardTyped
  <2>4. effect \in counted
    BY DEF Deck!Applicable
  <2>5. IsFiniteSet(S)
    <3> HIDE DEF values
    <3>1. IsFiniteSet(values \cup {0})
      BY <2>2, FS_AddElement
    <3>2. S = values \cup {0}
      OBVIOUS
    <3> QED BY <3>1, <3>2
  <2> QED BY <2>3, <2>4, <2>5
<1>2. best \in S /\ \A x \in S : best >= x
  <2> HIDE DEF S
  <2>1. \E x \in S : \A y \in S : y <= x
    BY <1>1, GreatestExists
  <2>2. \E x \in S : \A y \in S : x >= y
    BY <1>1, <2>1
  <2> QED BY <2>2 DEF Deck!Max
<1>3. Deck!SkillBonus(skill, team) = IF skill.unified > best /\ Deck!Unified(skill, team) THEN skill.unified ELSE best
  BY DEF Deck!SkillBonus
<1>4. skill.unified \in Nat /\ best \in Int /\ effect.value \in Int /\ best >= effect.value
  BY <1>1, <1>2 DEF Deck!CardTyped
<1> HIDE DEF best, skill
<1> QED BY <1>3, <1>4 DEF skill

\* A main deck, the cards of the last download and the event that runs.
DeckTyped(deck, fresh, event) ==
  /\ DOMAIN deck = 1..5 /\ \A i \in 1..5 : deck[i].append \in [Deck!Dims -> Nat]
  /\ \A id \in DOMAIN fresh : Deck!CardTyped(fresh[id])
  /\ event = Deck!NoEvent \/ Deck!EventTyped(event)

LEMMA GrowthSum ==
  ASSUME NEW fresh, NEW deck, NEW event, DeckTyped(deck, fresh, event), event.type \in Deck!PowerTypes
  PROVE  Sum(Bonuses(fresh, deck, event), KnownOf(fresh, deck))
           = LET card(i) == fresh[deck[i].card]
                 base(i) == Deck!BaseStat(card(i), deck[i])
                 pct(i) == Deck!CardBonusPct(card(i), deck[i].card, deck[i], event)
                 grown(i) == Deck!Total(base(i)) * pct(i)
                    + (IF Deck!HasBoth(card(i), event) THEN Deck!Total([d \in Deck!Dims |-> base(i)[d] * event.parameter[d]]) ELSE 0)
             IN  Deck!MapThenSumSet(grown, KnownOf(fresh, deck))
<1> DEFINE card(i) == fresh[deck[i].card]
           base(i) == Deck!BaseStat(card(i), deck[i])
           pct(i) == Deck!CardBonusPct(card(i), deck[i].card, deck[i], event)
           grown(i) == Deck!Total(base(i)) * pct(i)
                    + (IF Deck!HasBoth(card(i), event) THEN Deck!Total([d \in Deck!Dims |-> base(i)[d] * event.parameter[d]]) ELSE 0)
           S == KnownOf(fresh, deck)
           F == [i \in S |-> grown(i)]
           A(g) == g = [T \in SUBSET S |-> IF T = {} THEN 0 ELSE grown(Pick(T)) + g[T \ {Pick(T)}]]
<1>1. Deck!MapThenSumSet(grown, S) = (CHOOSE g : A(g))[S]
  BY DEF Deck!MapThenSumSet, Deck!MapThenFoldSet, Pick
<1>2. Deck!MapThenSumSet(grown, S) = Sum(F, S)
  <2> HIDE DEF S, grown
  <2>1. \A g : A(g) <=> Adds(g, F, S)
    BY PickIsElement DEF Adds
  <2> QED BY <1>1, <2>1 DEF Sum, Adding
<1>3. \A i \in S : Bonuses(fresh, deck, event)[i] = F[i]
  <2> SUFFICES ASSUME NEW i \in S PROVE Bonuses(fresh, deck, event)[i] = F[i]
    OBVIOUS
  <2>1. Deck!CardTyped(card(i)) /\ deck[i].append \in [Deck!Dims -> Nat] /\ Deck!EventTyped(event)
    BY DEF DeckTyped, KnownOf, Deck!NoEvent, Deck!PowerTypes
  <2>2. Deck!Total(Deck!CardEventBonus(card(i), deck[i].card, deck[i], event)) = grown(i)
    BY <2>1, BonusIsGrowth
  <2> QED BY <2>2 DEF Bonuses
<1>4. Sum(Bonuses(fresh, deck, event), S) = Sum(F, S)
  <2> HIDE DEF S, F
  <2> QED BY <1>3, SumsAreEqual
<1> QED BY <1>2, <1>4

LEMMA OtherPercents ==
  ASSUME NEW fresh, NEW deck, NEW event, DeckTyped(deck, fresh, event), event.type \notin Deck!PowerTypes \union {"none"}
  PROVE  LET other == [event EXCEPT !.double = 0]
         IN  /\ event # Deck!NoEvent /\ other # Deck!NoEvent
             /\ \A cards : Percents(cards, deck, event) = Percents(cards, deck, other)
<1> DEFINE other == [event EXCEPT !.double = 0]
<1>1. event # Deck!NoEvent
  BY DEF Deck!NoEvent
<1>2. /\ other.type = event.type /\ other.characters = event.characters /\ other.attributes = event.attributes
      /\ other.members = event.members /\ other.ranks = event.ranks /\ other.points = event.points
  BY <1>1 DEF DeckTyped, Deck!EventTyped
<1>3. other # Deck!NoEvent
  BY <1>2 DEF Deck!NoEvent
<1> HIDE DEF other
<1>4. ASSUME NEW card, NEW id, NEW entry PROVE Deck!CardBonusPct(card, id, entry, event) = Deck!CardBonusPct(card, id, entry, other)
  BY <1>2 DEF Deck!CardBonusPct, Deck!HasBoth
<1>5. ASSUME NEW cards PROVE Percents(cards, deck, event) = Percents(cards, deck, other)
  BY <1>4 DEF Percents
<1> QED BY <1>1, <1>3, <1>5 DEF other

\* The page shows the five members in another order.
LEMMA OrderOfPage ==
  ASSUME NEW cards, NEW deck, DOMAIN deck = 1..5
  PROVE  LET list == ShownOf(cards, deck)
             skills == Deck!Reordered(list)
         IN  /\ skills[1] = list[4] /\ skills[2] = list[2] /\ skills[3] = list[1] /\ skills[4] = list[3] /\ skills[5] = list[5]
             /\ \A i \in 1..5 : list[i].of = deck[i].card
<1> DEFINE list == ShownOf(cards, deck)
<1>1. list \in Seq({list[i] : i \in 1..5})
  BY DEF ShownOf
<1>2. Len(list) = 5
  BY <1>1 DEF ShownOf
<1>3. <<4, 2, 1, 3, 5>>[1] = 4 /\ <<4, 2, 1, 3, 5>>[2] = 2 /\ <<4, 2, 1, 3, 5>>[3] = 1 /\ <<4, 2, 1, 3, 5>>[4] = 3
      /\ <<4, 2, 1, 3, 5>>[5] = 5
  OBVIOUS
<1>4. \A i \in 1..5 : list[i].of = deck[i].card
  BY DEF ShownOf
<1> HIDE DEF list
<1> QED BY <1>2, <1>3, <1>4 DEF Deck!Reordered, list

LEMMA DeckTotals ==
  ASSUME NEW cached, NEW fresh, NEW items, NEW deck, NEW event, DeckTyped(deck, fresh, event),
         \A id \in DOMAIN cached : id \in DOMAIN fresh /\ cached[id] = fresh[id]
  PROVE  Deck!DeckIsTotalled(cached, fresh, items, deck, event)
<1> DEFINE cards == Deck!LoadCards(cached, fresh, {deck[i].card : i \in DOMAIN deck})
           status == Deck!DeckStatus(cards, items, deck, event)
           known == KnownOf(fresh, deck)
           other == [event EXCEPT !.double = 0]
           shown == ShownOf(cards, deck)
           own == Deck!MapThenSumSet(LAMBDA i : Deck!NormalPower(fresh[deck[i].card], deck[i], items), known)
           card(i) == fresh[deck[i].card]
           base(i) == Deck!BaseStat(card(i), deck[i])
           pct(i) == Deck!CardBonusPct(card(i), deck[i].card, deck[i], event)
           grown(i) == Deck!Total(base(i)) * pct(i)
                    + (IF Deck!HasBoth(card(i), event) THEN Deck!Total([d \in Deck!Dims |-> base(i)[d] * event.parameter[d]]) ELSE 0)
<1>1. KnownOf(cards, deck) = known /\ \A i \in known : cards[deck[i].card] = fresh[deck[i].card]
  <2>1. CASE cards = fresh
    BY <2>1
  <2>2. CASE cards = cached /\ \A i \in DOMAIN deck : deck[i].card \in DOMAIN cached
    <3> HIDE DEF cards
    <3>1. KnownOf(cards, deck) = DOMAIN deck /\ known = DOMAIN deck
      BY <2>2 DEF KnownOf
    <3>2. \A i \in DOMAIN deck : cards[deck[i].card] = fresh[deck[i].card]
      BY <2>2
    <3> QED BY <3>1, <3>2
  <2>3. {deck[i].card : i \in DOMAIN deck} \subseteq DOMAIN cached <=> \A i \in DOMAIN deck : deck[i].card \in DOMAIN cached
    OBVIOUS
  <2> QED BY <2>1, <2>2, <2>3 DEF Deck!LoadCards
<1> HIDE DEF cards
<1>2. status.normalPower = own
  <2>1. Sum(Normals(cards, items, deck), KnownOf(cards, deck)) = own
    <3>1. Normals(cards, items, deck) = Normals(fresh, items, deck)
      BY <1>1 DEF Normals
    <3>2. Sum(Normals(fresh, items, deck), KnownOf(fresh, deck)) = own
      BY NormalsAreSummed
    <3> QED BY <1>1, <3>1, <3>2
  <2>2. status.normalPower = Sum(Normals(cards, items, deck), KnownOf(cards, deck))
    BY StatusIs
  <2> QED BY <2>1, <2>2
<1>3. ASSUME event.type \in Deck!PowerTypes
      PROVE  status.eventPower = status.normalPower + Deck!MapThenSumSet(grown, known) /\ status.autoPower = status.eventPower
  <2>1. Bonuses(cards, deck, event) = Bonuses(fresh, deck, event)
    BY <1>1 DEF Bonuses
  <2>2. Sum(Bonuses(cards, deck, event), KnownOf(cards, deck)) = Deck!MapThenSumSet(grown, known)
    BY <1>1, <1>3, <2>1, GrowthSum
  <2>3. /\ status.eventPower = status.normalPower + Sum(Bonuses(cards, deck, event), KnownOf(cards, deck))
        /\ status.autoPower = status.eventPower
    BY <1>3, StatusIs
  <2> QED BY <2>2, <2>3
<1>4. event.type \notin Deck!PowerTypes => status.autoPower = status.normalPower
  BY StatusIs
<1>5. ASSUME event.type \notin Deck!PowerTypes \union {"none"}
      PROVE  status.eventBonusPct = Deck!DeckStatus(cards, items, deck, other).eventBonusPct
  <2>1. event # Deck!NoEvent /\ other # Deck!NoEvent /\ Percents(cards, deck, event) = Percents(cards, deck, other)
    BY <1>5, OtherPercents
  <2>2. status.eventBonusPct = Sum(Percents(cards, deck, event), KnownOf(cards, deck))
    BY <2>1, StatusIs
  <2>3. Deck!DeckStatus(cards, items, deck, other).eventBonusPct = Sum(Percents(cards, deck, other), KnownOf(cards, deck))
    BY <2>1, StatusIs
  <2> QED BY <2>1, <2>2, <2>3
<1>6. DOMAIN deck = 1..5
  BY DEF DeckTyped
<1>7. /\ status.skills[1] = shown[4] /\ status.skills[2] = shown[2] /\ status.skills[3] = shown[1]
      /\ status.skills[4] = shown[3] /\ status.skills[5] = shown[5] /\ \A i \in 1..5 : shown[i].of = deck[i].card
  <2>1. status.skills = Deck!Reordered(shown)
    BY StatusIs
  <2> HIDE DEF status, shown
  <2> QED BY <1>6, <2>1, OrderOfPage DEF shown
<1>8. status.skills[3].of = deck[1].card
  BY <1>7
<1>9. \A i \in 1..5 : \E k \in 1..5 : status.skills[k] = shown[i]
  BY <1>7
<1>10. \A k \in 1..5 : \E i \in 1..5 : status.skills[k] = shown[i]
  BY <1>7
<1>11. {status.skills[i].of : i \in DOMAIN deck} = {deck[i].card : i \in DOMAIN deck}
  <2> HIDE DEF status, shown
  <2> QED BY <1>6, <1>7, <1>9, <1>10
<1>12. ASSUME NEW i \in known
       PROVE  \E k \in DOMAIN deck :
                /\ status.skills[k].of = deck[i].card
                /\ \A effect \in card(i).skill.effects :
                      effect.condition = "none" => status.skills[k].bonus >= effect.value
  <2>1. i \in 1..5 /\ Deck!CardTyped(fresh[deck[i].card])
    BY <1>6 DEF KnownOf, DeckTyped
  <2>2. PICK k \in 1..5 : status.skills[k] = shown[i]
    BY <1>9, <2>1
  <2>3. shown[i].of = deck[i].card /\ shown[i].bonus = Deck!SkillBonus(fresh[deck[i].card].skill, Deck!Team(cards, deck))
    BY <1>1, <1>6, <2>1 DEF ShownOf
  <2>4. \A effect \in fresh[deck[i].card].skill.effects :
          effect.condition = "none" => Deck!SkillBonus(fresh[deck[i].card].skill, Deck!Team(cards, deck)) >= effect.value
    BY <2>1, SkillCounts
  <2> HIDE DEF status, shown
  <2>5. /\ status.skills[k].of = deck[i].card
        /\ \A effect \in fresh[deck[i].card].skill.effects : effect.condition = "none" => status.skills[k].bonus >= effect.value
    BY <2>2, <2>3, <2>4
  <2> QED BY <1>6, <2>5
<1> HIDE DEF status, own, grown
<1>13. /\ status.normalPower = own
       /\ event.type \in Deck!PowerTypes =>
            status.eventPower = status.normalPower + Deck!MapThenSumSet(grown, known) /\ status.autoPower = status.eventPower
       /\ event.type \notin Deck!PowerTypes => status.autoPower = status.normalPower
       /\ event.type \notin Deck!PowerTypes \union {"none"} =>
            status.eventBonusPct = Deck!DeckStatus(cards, items, deck, other).eventBonusPct
  BY <1>2, <1>3, <1>4, <1>5
<1> QED BY <1>8, <1>11, <1>12, <1>13 DEF Deck!DeckIsTotalled, KnownOf, status, own, grown, cards
-----------------------------------------------------------------------------
\* The gains of a player.
LEMMA MaxIs ==
  ASSUME NEW S \in SUBSET Int, IsFiniteSet(S), S # {}
  PROVE  Table!Max(S) \in S /\ \A y \in S : y <= Table!Max(S)
<1>1. \E x \in S : \A y \in S : x >= y
  BY GreatestExists
<1>2. Table!Max(S) \in S /\ \A y \in S : Table!Max(S) >= y
  BY <1>1 DEF Table!Max
<1> QED BY <1>2

LEMMA MinIs ==
  ASSUME NEW S \in SUBSET Int, IsFiniteSet(S), S # {}
  PROVE  Table!Min(S) \in S /\ \A y \in S : Table!Min(S) <= y
<1>1. \E x \in S : \A y \in S : x <= y
  BY LeastExists
<1> QED BY <1>1 DEF Table!Min

\* What was gained at each time since the time before it is, together, what was gained since the
\* first: by induction over the number of times, the last one taken away.
Before(S, t) == {u \in S : u < t}
Gains(v, S) == [t \in S |-> IF Before(S, t) = {} THEN 0 ELSE v[t] - v[Table!Max(Before(S, t))]]

LEMMA GainsTelescope ==
  ASSUME NEW S \in SUBSET Int, IsFiniteSet(S), S # {}, NEW v, \A t \in S : v[t] \in Int
  PROVE  Sum(Gains(v, S), S) = v[Table!Max(S)] - v[Table!Min(S)]
<1> DEFINE f == Gains(v, S)
           Down(T) == \A t \in T : Before(S, t) \subseteq T
           N == {n \in Nat : \A T \in SUBSET S : Cardinality(T) = n /\ T # {} /\ Down(T) =>
                               Sum(f, T) = v[Table!Max(T)] - v[Table!Min(T)]}
<1>1. \A T \in SUBSET S : IsFiniteSet(T) /\ T \in SUBSET Int /\ (Cardinality(T) = 0 <=> T = {})
  BY FS_Subset, FS_EmptySet
<1>2. Summable(f, S)
  <2>1. \A t \in S : Before(S, t) # {} => Table!Max(Before(S, t)) \in S
    <3> SUFFICES ASSUME NEW t \in S, Before(S, t) # {} PROVE Table!Max(Before(S, t)) \in S
      OBVIOUS
    <3>1. Before(S, t) \in SUBSET S
      BY DEF Before
    <3> QED BY <1>1, <3>1, MaxIs
  <2>2. ASSUME NEW t \in S PROVE f[t] \in Int
    <3>1. CASE Before(S, t) = {}
      BY <3>1 DEF Gains
    <3>2. CASE Before(S, t) # {}
      <4>1. f[t] = v[t] - v[Table!Max(Before(S, t))]
        BY <3>2 DEF Gains
      <4>2. v[t] \in Int /\ v[Table!Max(Before(S, t))] \in Int
        BY <2>1, <3>2
      <4> QED BY <4>1, <4>2
    <3> QED BY <3>1, <3>2
  <2> QED BY <2>2 DEF Summable
<1>3. \A T \in SUBSET S : Summable(f, T)
  BY <1>2, SumIsAdding
<1>4. 0 \in N
  BY <1>1
<1>5. ASSUME NEW n \in N PROVE n + 1 \in N
  <2> SUFFICES ASSUME NEW T \in SUBSET S, Cardinality(T) = n + 1, T # {}, Down(T)
               PROVE  Sum(f, T) = v[Table!Max(T)] - v[Table!Min(T)]
    OBVIOUS
  <2> DEFINE m == Table!Max(T)
             R == T \ {m}
  <2>1. m \in T /\ \A t \in T : t <= m
    BY <1>1, MaxIs
  <2>2. Sum(f, T) = f[m] + Sum(f, R)
    BY <1>3, <2>1, SumWithout
  <2> HIDE DEF m
  <2>3. Before(S, m) = R
    <3>1. Before(S, m) \subseteq T /\ m \in Int
      BY <2>1
    <3>2. \A t \in S : t \in Int
      OBVIOUS
    <3>3. \A t \in T : t < m <=> t # m
      BY <2>1, <3>1, <3>2
    <3> HIDE DEF N, f, Down
    <3> QED BY <3>1, <3>3 DEF Before
  <2>4. m \in S /\ v[m] \in Int
    BY <2>1
  <2>5. CASE R = {}
    <3>1. f[m] = 0
      BY <2>3, <2>4, <2>5 DEF Gains
    <3>2. Table!Min(T) = m
      <4>1. Table!Min(T) \in T
        BY <1>1, MinIs
      <4> QED BY <2>5, <4>1
    <3>3. Sum(f, R) = 0
      BY <2>5, SumOfNone
    <3> HIDE DEF m, R, f
    <3>4. Sum(f, T) = 0
      BY <2>2, <3>1, <3>3
    <3> QED BY <2>4, <3>2, <3>4 DEF m
  <2>6. CASE R # {}
    <3>1. f[m] = v[m] - v[Table!Max(R)]
      BY <2>3, <2>4, <2>6 DEF Gains
    <3>2. Sum(f, R) = v[Table!Max(R)] - v[Table!Min(R)]
      <4>1. Cardinality(R) = n
        <5>1. Cardinality(R) = Cardinality(T) - 1 /\ n \in Nat
          BY <1>1, <2>1, FS_RemoveElement
        <5> QED BY <5>1
      <4>2. Down(R)
        <5> SUFFICES ASSUME NEW t \in R, NEW u \in Before(S, t) PROVE u \in R
          OBVIOUS
        <5>1. u \in T /\ u < t /\ t <= m /\ u \in Int /\ t \in Int /\ m \in Int
          BY <2>1 DEF Before
        <5> QED BY <5>1
      <4>3. R \in SUBSET S
        OBVIOUS
      <4> HIDE DEF R, Down
      <4> QED BY <2>6, <4>1, <4>2, <4>3
    <3>3. Table!Min(R) = Table!Min(T) /\ Table!Min(T) \in S /\ Table!Max(R) \in S
      <4>1. /\ Table!Min(R) \in R /\ \A t \in R : Table!Min(R) <= t
            /\ Table!Max(R) \in R
        <5>1. R \in SUBSET Int /\ IsFiniteSet(R)
          BY <1>1
        <5> HIDE DEF R
        <5> QED BY <2>6, <5>1, MinIs, MaxIs
      <4>2. Table!Min(T) \in T /\ \A t \in T : Table!Min(T) <= t
        BY <1>1, MinIs
      <4> DEFINE a == Table!Min(T)
                 b == Table!Min(R)
      <4>3. a \in Int /\ b \in Int /\ m \in Int /\ b # m /\ a <= b /\ b <= m
        BY <2>1, <4>1, <4>2
      <4> HIDE DEF a, b
      <4>4. a \in R
        BY <4>2, <4>3 DEF a
      <4>5. b <= a
        BY <4>1, <4>4 DEF b
      <4>6. a = b
        BY <4>3, <4>5
      <4> QED BY <4>1, <4>2, <4>6 DEF a, b
    <3>4. v[Table!Min(T)] \in Int /\ v[Table!Max(R)] \in Int
      BY <3>3
    <3> HIDE DEF R, f
    <3>5. Sum(f, T) = (v[m] - v[Table!Max(R)]) + (v[Table!Max(R)] - v[Table!Min(T)])
      BY <2>2, <3>1, <3>2, <3>3
    <3>6. Sum(f, T) = v[m] - v[Table!Min(T)]
      BY <2>4, <3>4, <3>5
    <3> QED BY <3>6 DEF m
  <2> QED BY <2>5, <2>6
<1>6. N = Nat
  <2> HIDE DEF N
  <2>1. N \in SUBSET Nat
    BY DEF N
  <2> QED BY <1>4, <1>5, <2>1, AllNaturals
<1>7. Cardinality(S) \in N /\ Down(S) /\ S \in SUBSET S
  <2>1. Down(S)
    BY DEF Before
  <2> HIDE DEF N, Down
  <2> QED BY <1>6, <2>1, FS_CardinalityType
<1> HIDE DEF Down, f
<1> QED BY <1>7 DEF f

-----------------------------------------------------------------------------
PointsTyped(history) == \A t \in DOMAIN history : \A i \in DOMAIN history[t] : history[t][i].points \in Nat

LEMMA PointsAre ==
  ASSUME NEW history, PointsTyped(history), NEW t \in DOMAIN history, NEW uid
  PROVE  Table!PointsOf(history[t], uid) \in Nat \union {Table!Missing}
BY DEF Table!PointsOf, PointsTyped

\* The times of the merged tracks are those of the rankings.
LEMMA TimesAreRanked ==
  ASSUME NEW history, NEW interval, NEW window, NEW n, HistoryTyped(history, interval, window, n), NEW last
  PROVE  Table!Timeline(Table!AfterTwoPolls(history, interval, window, n, last)) \subseteq DOMAIN history
<1> DEFINE prefix == Table!Prefix(history, n)
           first == Table!BuildPointTrack(prefix, interval, window, 0)
           second == Table!BuildPointTrack(history, interval, window, last)
<1>1. \A uid \in DOMAIN first : DOMAIN first[uid] \subseteq DOMAIN history
  <2>1. \A uid \in DOMAIN first : DOMAIN first[uid] = Asked(prefix, interval, window, 0)
    BY AnswerIs
  <2>2. Asked(prefix, interval, window, 0) \subseteq 1..n
    BY DEF Asked, Table!Sampled, Table!Complete, Table!Prefix
  <2> QED BY <2>1, <2>2 DEF HistoryTyped
<1>2. \A uid \in DOMAIN second : DOMAIN second[uid] \subseteq DOMAIN history
  <2>1. \A uid \in DOMAIN second : DOMAIN second[uid] = Asked(history, interval, window, last)
    BY AnswerIs
  <2>2. Asked(history, interval, window, last) \subseteq DOMAIN history
    BY DEF Asked, Table!Sampled, Table!Complete
  <2> QED BY <2>1, <2>2
<1> HIDE DEF first, second
<1> DEFINE tracks == Table!MergeTracks(first, second)
<1>3. ASSUME NEW uid \in DOMAIN tracks PROVE DOMAIN tracks[uid] \subseteq DOMAIN history
  <2> DEFINE old == Table!Over(<<>>, first, uid)
  <2>1. DOMAIN old \subseteq DOMAIN history
    <3>1. DOMAIN <<>> = {}
      OBVIOUS
    <3> QED BY <1>1, <3>1 DEF Table!Over
  <2>2. tracks[uid] = Table!Over(old, second, uid)
    BY DEF Table!MergeTracks
  <2> HIDE DEF old, tracks
  <2> QED BY <1>2, <2>1, <2>2 DEF Table!Over
<1>4. tracks = Table!AfterTwoPolls(history, interval, window, n, last)
  BY DEF Table!AfterTwoPolls, first, second, prefix
<1> HIDE DEF tracks
<1> QED BY <1>3, <1>4 DEF Table!Timeline

\* A column of the table: the rows where the player has points, and what they show.
RowsOf(table, uid) == {t \in DOMAIN table : table[t][uid].points # Table!Missing}

LEMMA CellIs ==
  ASSUME NEW tracks, NEW t \in Table!Timeline(tracks), NEW uid \in DOMAIN tracks
  PROVE  LET table == Table!ToTableModel(tracks)
         IN  /\ DOMAIN table = Table!Timeline(tracks)
             /\ table[t][uid].points = Table!ValueAt(tracks[uid], t)
             /\ table[t][uid].points # Table!Missing =>
                  table[t][uid].shown = Table!Gained(tracks[uid], Table!Timeline(tracks), t)
<1> DEFINE table == Table!ToTableModel(tracks)
<1>1. /\ DOMAIN table = Table!Timeline(tracks)
      /\ table[t][uid] = IF Table!ValueAt(tracks[uid], t) = Table!Missing
                            THEN [shown |-> "-", points |-> Table!Missing]
                            ELSE [shown |-> Table!Gained(tracks[uid], Table!Timeline(tracks), t), points |-> tracks[uid][t]]
  BY DEF Table!ToTableModel
<1> HIDE DEF table
<1>2. CASE Table!ValueAt(tracks[uid], t) = Table!Missing
  BY <1>1, <1>2 DEF table
<1>3. CASE Table!ValueAt(tracks[uid], t) # Table!Missing
  BY <1>1, <1>3 DEF table, Table!ValueAt
<1> QED BY <1>2, <1>3

LEMMA ShownIsGained ==
  ASSUME NEW tracks, NEW uid \in DOMAIN tracks,
         Table!Timeline(tracks) \in SUBSET Int, IsFiniteSet(Table!Timeline(tracks))
  PROVE  LET table == Table!ToTableModel(tracks)
             rows == RowsOf(table, uid)
             v == [t \in rows |-> table[t][uid].points]
         IN  \A t \in rows : table[t][uid].shown = Gains(v, rows)[t]
<1> DEFINE table == Table!ToTableModel(tracks)
           rows == RowsOf(table, uid)
           v == [t \in rows |-> table[t][uid].points]
           line == Table!Timeline(tracks)
<1>1. DOMAIN table = line
  BY DEF Table!ToTableModel
<1>2. \A t \in line : /\ table[t][uid].points = Table!ValueAt(tracks[uid], t)
                      /\ table[t][uid].points # Table!Missing => table[t][uid].shown = Table!Gained(tracks[uid], line, t)
  BY CellIs
<1> HIDE DEF table, line
<1>3. rows = {t \in line : Table!ValueAt(tracks[uid], t) # Table!Missing}
  BY <1>1, <1>2 DEF RowsOf
<1>4. \A t \in rows : v[t] = Table!ValueAt(tracks[uid], t)
  BY <1>2, <1>3
<1> SUFFICES ASSUME NEW t \in rows PROVE table[t][uid].shown = Gains(v, rows)[t]
  BY DEF table
<1> DEFINE before == {u \in line : u < t /\ Table!ValueAt(tracks[uid], u) # Table!Missing}
<1>5. before = Before(rows, t)
  BY <1>3 DEF Before
<1>6. table[t][uid].shown = IF before = {} THEN 0
                             ELSE Table!ValueAt(tracks[uid], t) - Table!ValueAt(tracks[uid], Table!Max(before))
  <2>1. t \in line /\ table[t][uid].points # Table!Missing
    BY <1>2, <1>3
  <2> QED BY <1>2, <2>1 DEF Table!Gained
<1>7. before # {} => Table!Max(before) \in rows
  <2> SUFFICES ASSUME before # {} PROVE Table!Max(before) \in rows
    OBVIOUS
  <2>1. before \in SUBSET Int /\ IsFiniteSet(before)
    BY FS_Subset DEF line
  <2> HIDE DEF before
  <2>2. Table!Max(before) \in before
    BY <2>1, MaxIs
  <2> QED BY <1>5, <2>2 DEF Before
<1> HIDE DEF rows, v, before
<1>8. before # {} => v[Table!Max(before)] = Table!ValueAt(tracks[uid], Table!Max(before))
  BY <1>4, <1>7
<1> QED BY <1>4, <1>5, <1>6, <1>8 DEF Gains

LEMMA GainsAreAdded ==
  ASSUME NEW history, NEW interval, NEW window, NEW n, HistoryTyped(history, interval, window, n),
         PointsTyped(history)
  PROVE  Table!GainsAddUp(history, interval, window, n)
<1> SUFFICES ASSUME Table!Complete(Table!Prefix(history, n)) # {},
                    NEW last \in Table!LatestTimestamps(Table!BuildPointTrack(Table!Prefix(history, n), interval, window, 0))
             PROVE  LET tracks == Table!AfterTwoPolls(history, interval, window, n, last)
                        table == Table!ToTableModel(tracks)
                        rowsOf(uid) == {t \in DOMAIN table : table[t][uid].points # Table!Missing}
                    IN  \A uid \in DOMAIN tracks : rowsOf(uid) # {} =>
                          Table!MapThenSumSet(LAMBDA t : table[t][uid].shown, rowsOf(uid))
                            = table[Table!Max(rowsOf(uid))][uid].points - table[Table!Min(rowsOf(uid))][uid].points
  BY DEF Table!GainsAddUp
<1> DEFINE tracks == Table!AfterTwoPolls(history, interval, window, n, last)
           table == Table!ToTableModel(tracks)
<1>1. DOMAIN table \in SUBSET DOMAIN history /\ DOMAIN table \in SUBSET Int /\ IsFiniteSet(DOMAIN table)
      /\ DOMAIN table = Table!Timeline(tracks)
  <2>1. DOMAIN table = Table!Timeline(tracks)
    BY DEF Table!ToTableModel
  <2>2. Table!Timeline(tracks) \subseteq DOMAIN history
    BY TimesAreRanked
  <2> HIDE DEF table, tracks
  <2>3. DOMAIN history = 1..Len(history) /\ Len(history) \in Nat
    BY DEF HistoryTyped
  <2>4. IsFiniteSet(1..Len(history))
    BY <2>3, FS_Interval
  <2> QED BY <2>1, <2>2, <2>3, <2>4, FS_Subset
<1>2. \A t \in DOMAIN table, uid \in DOMAIN tracks : table[t][uid].points = Table!PointsOf(history[t], uid)
  BY TableHolds DEF Table!TableHoldsHistory
<1> SUFFICES ASSUME NEW uid \in DOMAIN tracks, RowsOf(table, uid) # {}
             PROVE  Table!MapThenSumSet(LAMBDA t : table[t][uid].shown, RowsOf(table, uid))
                      = table[Table!Max(RowsOf(table, uid))][uid].points - table[Table!Min(RowsOf(table, uid))][uid].points
  BY DEF RowsOf
<1> DEFINE S == RowsOf(table, uid)
           v == [t \in S |-> table[t][uid].points]
           F == [t \in S |-> table[t][uid].shown]
           A(g) == g = [T \in SUBSET S |-> IF T = {} THEN 0 ELSE table[Pick(T)][uid].shown + g[T \ {Pick(T)}]]
<1>3. \A t \in S : table[t][uid].shown = Gains(v, S)[t]
  BY <1>1, ShownIsGained
<1> HIDE DEF table, tracks
<1>4. Table!MapThenSumSet(LAMBDA t : table[t][uid].shown, S) = (CHOOSE g : A(g))[S]
  BY DEF Table!MapThenSumSet, Table!MapThenFoldSet, Pick
<1>5. S \in SUBSET DOMAIN table /\ S \in SUBSET Int /\ IsFiniteSet(S) /\ S # {}
  BY <1>1, FS_Subset DEF RowsOf
<1>6. \A t \in S : v[t] \in Int
  <2> SUFFICES ASSUME NEW t \in S PROVE table[t][uid].points \in Int
    OBVIOUS
  <2>1. t \in DOMAIN table /\ table[t][uid].points # Table!Missing
    BY DEF RowsOf
  <2>2. t \in DOMAIN history /\ table[t][uid].points = Table!PointsOf(history[t], uid)
    BY <1>1, <1>2, <2>1
  <2> QED BY <2>1, <2>2, PointsAre
<1> HIDE DEF S
<1>7. (CHOOSE g : A(g)) = Adding(F, S)
  <2>1. \A g : A(g) <=> Adds(g, F, S)
    BY PickIsElement DEF Adds
  <2> QED BY <2>1 DEF Adding
<1>8. Sum(F, S) = Sum(Gains(v, S), S)
  <2>1. \A t \in S : F[t] = Gains(v, S)[t]
    BY <1>3
  <2> HIDE DEF F, v
  <2> QED BY <2>1, SumsAreEqual
<1>9. Sum(Gains(v, S), S) = v[Table!Max(S)] - v[Table!Min(S)]
  <2> HIDE DEF v
  <2> QED BY <1>5, <1>6, GainsTelescope
<1>10. v[Table!Max(S)] = table[Table!Max(S)][uid].points /\ v[Table!Min(S)] = table[Table!Min(S)][uid].points
  BY <1>5, MaxIs, MinIs
<1> QED BY <1>4, <1>7, <1>8, <1>9, <1>10 DEF Sum, S
-----------------------------------------------------------------------------
\* Sums of related terms, by induction over the subsets of a set: U is T and one element more.
Grown(S, T, x, U) == T \in SUBSET S /\ x \in S /\ x \notin T /\ U = T \union {x}

LEMMA AllGrown ==
  ASSUME NEW S, IsFiniteSet(S), NEW W, {} \in W,
         \A T, x, U : Grown(S, T, x, U) /\ T \in W => U \in W
  PROVE  \A T \in SUBSET S : T \in W
<1>1. \A T \in SUBSET S, x \in S : T \in W /\ x \notin T => T \union {x} \in W
  BY DEF Grown
<1> QED BY <1>1, AllSubsets

LEMMA SumWith ==
  ASSUME NEW S, NEW f, Summable(f, S), NEW T, NEW x, NEW U, Grown(S, T, x, U)
  PROVE  Sum(f, U) = f[x] + Sum(f, T) /\ Sum(f, T) \in Int /\ Sum(f, U) \in Int /\ f[x] \in Int
<1>1. U \in SUBSET S /\ T \in SUBSET S /\ x \in U /\ U \ {x} = T
  BY DEF Grown
<1>2. Summable(f, T) /\ Summable(f, U)
  BY <1>1, SumIsAdding
<1>3. Sum(f, U) = f[x] + Sum(f, U \ {x})
  BY <1>1, <1>2, SumWithout
<1>4. Sum(f, T) \in Int /\ Sum(f, U) \in Int /\ f[x] \in Int
  BY <1>1, <1>2, SumIsInt DEF Summable
<1> QED BY <1>1, <1>3, <1>4

\* What is at most something else for each term is at most that for the sum.
LEMMA SumLeq ==
  ASSUME NEW S, NEW f, NEW e, Summable(f, S), Summable(e, S), \A x \in S : f[x] <= e[x]
  PROVE  Sum(f, S) <= Sum(e, S)
<1> DEFINE W == {T \in SUBSET S : Sum(f, T) <= Sum(e, T)}
<1>1. {} \in W
  <2>1. Sum(f, {}) = 0 /\ Sum(e, {}) = 0
    BY SumOfNone
  <2> QED BY <2>1
<1>2. ASSUME NEW T, NEW x, NEW U, Grown(S, T, x, U), T \in W PROVE U \in W
  <2>1. Sum(f, U) = f[x] + Sum(f, T) /\ Sum(f, T) \in Int /\ f[x] \in Int
    BY <1>2, SumWith
  <2>2. Sum(e, U) = e[x] + Sum(e, T) /\ Sum(e, T) \in Int /\ e[x] \in Int
    BY <1>2, SumWith
  <2>3. f[x] <= e[x] /\ Sum(f, T) <= Sum(e, T) /\ U \in SUBSET S
    BY <1>2 DEF Grown
  <2> QED BY <2>1, <2>2, <2>3
<1> HIDE DEF W
<1>3. \A T \in SUBSET S : T \in W
  BY <1>1, <1>2, AllGrown DEF Summable
<1> QED BY <1>3 DEF W

\* The sum of what combines two terms.
Combined(f, e, a, b, S) == [x \in S |-> a * f[x] + b * e[x]]

LEMMA SumLinear ==
  ASSUME NEW S, NEW f, NEW e, NEW a \in Int, NEW b \in Int, Summable(f, S), Summable(e, S)
  PROVE  LET h == Combined(f, e, a, b, S)
         IN  Summable(h, S) /\ Sum(h, S) = a * Sum(f, S) + b * Sum(e, S)
<1> DEFINE h == Combined(f, e, a, b, S)
<1>1. Summable(h, S)
  BY DEF Summable, Combined
<1> HIDE DEF h
<1> DEFINE W == {T \in SUBSET S : Sum(h, T) = a * Sum(f, T) + b * Sum(e, T)}
<1>2. {} \in W
  <2>1. Sum(f, {}) = 0 /\ Sum(e, {}) = 0 /\ Sum(h, {}) = 0
    BY SumOfNone
  <2> QED BY <2>1
<1>3. ASSUME NEW T, NEW x, NEW U, Grown(S, T, x, U), T \in W PROVE U \in W
  <2>1. Sum(f, U) = f[x] + Sum(f, T) /\ Sum(f, T) \in Int /\ f[x] \in Int
    BY <1>3, SumWith
  <2>2. Sum(e, U) = e[x] + Sum(e, T) /\ Sum(e, T) \in Int /\ e[x] \in Int
    BY <1>3, SumWith
  <2>3. Sum(h, U) = h[x] + Sum(h, T)
    BY <1>1, <1>3, SumWith
  <2>4. h[x] = a * f[x] + b * e[x] /\ Sum(h, T) = a * Sum(f, T) + b * Sum(e, T) /\ U \in SUBSET S
    BY <1>3 DEF Grown, h, Combined
  <2>5. a * (f[x] + Sum(f, T)) = a * f[x] + a * Sum(f, T) /\ b * (e[x] + Sum(e, T)) = b * e[x] + b * Sum(e, T)
    BY <2>1, <2>2
  <2>6. a * f[x] \in Int /\ b * e[x] \in Int /\ a * Sum(f, T) \in Int /\ b * Sum(e, T) \in Int
    BY <2>1, <2>2
  <2>7. Sum(h, U) = a * Sum(f, U) + b * Sum(e, U)
    BY <2>1, <2>2, <2>3, <2>4, <2>5, <2>6
  <2> QED BY <2>4, <2>7
<1> HIDE DEF W
<1>4. \A T \in SUBSET S : T \in W
  BY <1>2, <1>3, AllGrown DEF Summable
<1> QED BY <1>1, <1>4 DEF W, h

\* The size of a set is a sum of ones.
LEMMA SumOfOnes ==
  ASSUME NEW S, IsFiniteSet(S), NEW f, \A x \in S : f[x] = 1
  PROVE  Summable(f, S) /\ Sum(f, S) = Cardinality(S)
<1>1. Summable(f, S)
  BY DEF Summable
<1> DEFINE W == {T \in SUBSET S : Sum(f, T) = Cardinality(T)}
<1>2. {} \in W
  BY SumOfNone, FS_EmptySet
<1>3. ASSUME NEW T, NEW x, NEW U, Grown(S, T, x, U), T \in W PROVE U \in W
  <2>1. Sum(f, U) = f[x] + Sum(f, T) /\ Sum(f, T) \in Int
    BY <1>1, <1>3, SumWith
  <2>2. f[x] = 1 /\ Sum(f, T) = Cardinality(T) /\ U \in SUBSET S /\ U = T \union {x} /\ x \notin T
    BY <1>3 DEF Grown
  <2>3. IsFiniteSet(T) /\ Cardinality(T \union {x}) = Cardinality(T) + 1
    BY <1>3, <2>2, FS_Subset, FS_AddElement
  <2> QED BY <2>1, <2>2, <2>3
<1> HIDE DEF W
<1>4. \A T \in SUBSET S : T \in W
  BY <1>2, <1>3, AllGrown
<1> QED BY <1>1, <1>4 DEF W

\* The size of a union of sets that have nothing in common is the sum of their sizes.
Joining(B, S) == UNION {B[i] : i \in S}
Apart(B, S) == \A i, j \in S : i # j => B[i] \intersect B[j] = {}

LEMMA SizeOfUnion ==
  ASSUME NEW S, IsFiniteSet(S), NEW B, \A i \in S : IsFiniteSet(B[i]), Apart(B, S),
         NEW f, \A i \in S : f[i] = Cardinality(B[i])
  PROVE  Summable(f, S) /\ IsFiniteSet(Joining(B, S)) /\ Sum(f, S) = Cardinality(Joining(B, S))
<1> DEFINE Joined(T) == UNION {B[i] : i \in T}
           W == {T \in SUBSET S : IsFiniteSet(Joined(T)) /\ Sum(f, T) = Cardinality(Joined(T))}
<1>1. Summable(f, S)
  BY FS_CardinalityType DEF Summable
<1>2. {} \in W
  <2>1. Joined({}) = {}
    OBVIOUS
  <2> HIDE DEF Joined
  <2> QED BY <2>1, SumOfNone, FS_EmptySet
<1>3. ASSUME NEW T, NEW x, NEW U, Grown(S, T, x, U), T \in W PROVE U \in W
  <2> DEFINE A == Joined(T)
  <2>1. Joined(U) = A \union B[x] /\ A \intersect B[x] = {} /\ U \in SUBSET S
    <3>1. T \in SUBSET S /\ x \in S /\ x \notin T /\ U = T \union {x}
      BY <1>3 DEF Grown
    <3>2. \A i \in T : B[i] \intersect B[x] = {}
      BY <3>1 DEF Apart
    <3> QED BY <3>1, <3>2
  <2>2. IsFiniteSet(A) /\ Sum(f, T) = Cardinality(A)
    BY <1>3
  <2>3. IsFiniteSet(B[x]) /\ f[x] = Cardinality(B[x])
    BY <1>3 DEF Grown
  <2>4. Sum(f, U) = f[x] + Sum(f, T)
    BY <1>1, <1>3, SumWith
  <2> HIDE DEF A, Joined
  <2>5. IsFiniteSet(Joined(U)) /\ Cardinality(Joined(U)) = Cardinality(A) + Cardinality(B[x]) - Cardinality({})
    BY <2>1, <2>2, <2>3, FS_Union
  <2>6. Cardinality(A) \in Nat /\ Cardinality(B[x]) \in Nat /\ Cardinality({}) = 0
    BY <2>2, <2>3, FS_EmptySet, FS_CardinalityType
  <2>7. Sum(f, U) = Cardinality(Joined(U))
    BY <2>2, <2>3, <2>4, <2>5, <2>6
  <2> QED BY <2>1, <2>5, <2>7
<1> HIDE DEF W
<1>4. \A T \in SUBSET S : T \in W
  BY <1>2, <1>3, AllGrown
<1> QED BY <1>1, <1>4 DEF W, Joining

-----------------------------------------------------------------------------
\* The score of a chart.  Frames: the frame of a time is the first that does not begin before it.
Rates == {60, 120}

LEMMA FrameIs ==
  ASSUME NEW t \in Int
  PROVE  /\ Rows!Score!Chart!FrameOf(t, 60) \in Int /\ Rows!Score!Chart!FrameOf(t, 120) \in Int
         /\ 4 * Rows!Score!Chart!FrameOf(t, 60) >= t /\ 4 * (Rows!Score!Chart!FrameOf(t, 60) - 1) < t
         /\ 2 * Rows!Score!Chart!FrameOf(t, 120) >= t /\ 2 * (Rows!Score!Chart!FrameOf(t, 120) - 1) < t
BY SMTT(30) DEF Rows!Score!Chart!FrameOf, Rows!Score!Chart!CeilDiv

LEMMA CoveredIs ==
  ASSUME NEW d \in Durations
  PROVE  /\ d \in 0..80
         /\ Rows!Score!Chart!Covered(d, 60) = 6 * d + 1
         /\ Rows!Score!Chart!Covered(d, 120) = 12 * d + 1
BY SkillsAssumption DEF Rows!Score!Chart!Covered, Rows!Score!Chart!CeilDiv

LEMMA FreeIs ==
  ASSUME NEW t \in Int, NEW d \in Durations
  PROVE  /\ Rows!Score!Chart!Free(t, d, 60) = Rows!Score!Chart!FrameOf(t, 60) + 6 * d + 48
         /\ Rows!Score!Chart!Free(t, d, 120) = Rows!Score!Chart!FrameOf(t, 120) + 12 * d + 93
<1>1. \A x \in Int : Rows!Score!Chart!CeilDiv(x, 4) \in Int /\ 4 * Rows!Score!Chart!CeilDiv(x, 4) >= x /\ 4 * (Rows!Score!Chart!CeilDiv(x, 4) - 1) < x
  BY DEF Rows!Score!Chart!CeilDiv
<1>2. Rows!Score!Chart!CeilDiv(3 * 60, 4) = 45 /\ Rows!Score!Chart!CeilDiv(3 * 120, 4) = 90
  BY <1>1
<1>3. /\ Rows!Score!Chart!Free(t, d, 60) = Rows!Score!Chart!FrameOf(t, 60) + Rows!Score!Chart!Covered(d, 60) + Rows!Score!Chart!CeilDiv(3 * 60, 4) + 2
      /\ Rows!Score!Chart!Free(t, d, 120) = Rows!Score!Chart!FrameOf(t, 120) + Rows!Score!Chart!Covered(d, 120) + Rows!Score!Chart!CeilDiv(3 * 120, 4) + 2
  BY DEF Rows!Score!Chart!Free
<1>4. Rows!Score!Chart!FrameOf(t, 60) \in Int /\ Rows!Score!Chart!FrameOf(t, 120) \in Int
  BY FrameIs
<1>5. d \in Int /\ Rows!Score!Chart!Covered(d, 60) = 6 * d + 1 /\ Rows!Score!Chart!Covered(d, 120) = 12 * d + 1
  BY CoveredIs
<1>6. Rows!Score!Chart!Free(t, d, 60) = Rows!Score!Chart!FrameOf(t, 60) + 6 * d + 48
  BY <1>2, <1>3, <1>4, <1>5
<1>7. Rows!Score!Chart!Free(t, d, 120) = Rows!Score!Chart!FrameOf(t, 120) + 12 * d + 93
  BY <1>2, <1>3, <1>4, <1>5
<1> QED BY <1>6, <1>7

\* Two triggers between which no skill can queue leave room for the longest at either frame rate.
LEMMA NoneQueues ==
  ASSUME NEW t \in Int, NEW u \in Int, ~Rows!Score!Chart!MayQueue(t, u), NEW d \in Durations, NEW fps \in Rates
  PROVE  Rows!Score!Chart!Free(t, d, fps) <= Rows!Score!Chart!FrameOf(u, fps)
<1>1. Rows!Score!Chart!FrameOf(u, 60) >= Rows!Score!Chart!FrameOf(t, 60) + 528
  BY FrameIs DEF Rows!Score!Chart!MayQueue
<1>2. CASE fps = 60
  <2>1. Rows!Score!Chart!Free(t, d, 60) = Rows!Score!Chart!FrameOf(t, 60) + 6 * d + 48
    BY FreeIs
  <2>2. Rows!Score!Chart!FrameOf(t, 60) \in Int /\ Rows!Score!Chart!FrameOf(u, 60) \in Int /\ d \in 0..80
    BY FrameIs, CoveredIs
  <2>3. Rows!Score!Chart!Free(t, d, 60) <= Rows!Score!Chart!FrameOf(u, 60)
    BY <1>1, <2>1, <2>2
  <2> QED BY <1>2, <2>3
<1>3. CASE fps = 120
  <2>1. u >= t + 2109
    BY <1>1, FrameIs
  <2>2. Rows!Score!Chart!FrameOf(u, 120) >= Rows!Score!Chart!FrameOf(t, 120) + 1054
    BY <2>1, FrameIs
  <2>3. Rows!Score!Chart!Free(t, d, 120) = Rows!Score!Chart!FrameOf(t, 120) + 12 * d + 93
    BY FreeIs
  <2>4. Rows!Score!Chart!FrameOf(t, 120) \in Int /\ Rows!Score!Chart!FrameOf(u, 120) \in Int /\ d \in 0..80
    BY FrameIs, CoveredIs
  <2>5. Rows!Score!Chart!Free(t, d, 120) <= Rows!Score!Chart!FrameOf(u, 120)
    BY <2>2, <2>3, <2>4
  <2> QED BY <1>3, <2>5
<1> QED BY <1>2, <1>3 DEF Rates

\* Encoded counts are decoded, as long as the difference has three bits.
LEMMA CountIsDecoded ==
  ASSUME NEW base \in Int, NEW diff \in Int, Rows!Score!Chart!Abs(diff) < 8
  PROVE  /\ Rows!Score!DecodeNoteCount(Rows!Score!Chart!Encode(base, diff), 120) = base
         /\ Rows!Score!DecodeNoteCount(Rows!Score!Chart!Encode(base, diff), 60) = base + diff
<1> DEFINE bits == (IF diff < 0 THEN 8 ELSE 0) + Rows!Score!Chart!Abs(diff)
           value == Rows!Score!Chart!Encode(base, diff)
<1>1. bits \in 0..15 /\ value = 16 * base + bits
  BY DEF Rows!Score!Chart!Abs, Rows!Score!Chart!Encode
<1>2. (diff < 0 => bits >= 8 /\ bits % 8 = -diff) /\ (diff >= 0 => bits < 8 /\ bits = diff)
  BY DEF Rows!Score!Chart!Abs
<1> HIDE DEF bits, value
<1>3. value % 16 = bits /\ value \div 16 = base
  BY <1>1
<1>4. Rows!Score!DecodeNoteCount(value, 120) = base /\ Rows!Score!DecodeNoteCount(value, 60) = base + diff
  BY <1>1, <1>2, <1>3 DEF Rows!Score!DecodeNoteCount
<1> QED BY <1>4 DEF value

LEMMA NothingIsDecoded == ASSUME NEW fps \in Rates PROVE Rows!Score!DecodeNoteCount(0, fps) = 0
BY DEF Rows!Score!DecodeNoteCount, Rates

LEMMA FramesAre ==
  ASSUME NEW t \in Int, NEW d \in Durations, NEW fps \in Rates
  PROVE  /\ Rows!Score!Chart!FrameOf(t, fps) \in Int /\ Rows!Score!Chart!Covered(d, fps) \in Nat
         /\ Rows!Score!Chart!Free(t, d, fps) \in Int
         /\ Rows!Score!Chart!Free(t, d, fps) >= Rows!Score!Chart!FrameOf(t, fps) + Rows!Score!Chart!Covered(d, fps)
<1>1. Rows!Score!Chart!FrameOf(t, 60) \in Int /\ Rows!Score!Chart!FrameOf(t, 120) \in Int
  BY FrameIs
<1>2. d \in 0..80 /\ Rows!Score!Chart!Covered(d, 60) = 6 * d + 1 /\ Rows!Score!Chart!Covered(d, 120) = 12 * d + 1
  BY CoveredIs
<1>3. /\ Rows!Score!Chart!Free(t, d, 60) = Rows!Score!Chart!FrameOf(t, 60) + 6 * d + 48
      /\ Rows!Score!Chart!Free(t, d, 120) = Rows!Score!Chart!FrameOf(t, 120) + 12 * d + 93
  BY FreeIs
<1> QED BY <1>1, <1>2, <1>3 DEF Rates

\* The notes of a skill that starts in a frame.
Window(chart, start, d, fps) ==
  {x \in DOMAIN chart.notes : Rows!Score!Chart!FrameOf(chart.notes[x], fps) - start \in 1..Rows!Score!Chart!Covered(d, fps)}

LEMMA WindowIs ==
  ASSUME NEW chart, Rows!Score!Chart!Countable(chart), NEW start \in Int, NEW d \in Durations, NEW fps \in Rates
  PROVE  /\ Window(chart, start, d, fps) \subseteq DOMAIN chart.notes
         /\ IsFiniteSet(DOMAIN chart.notes) /\ IsFiniteSet(Window(chart, start, d, fps))
         /\ Rows!Score!Chart!CountNotes(chart, start, d, fps) = Cardinality(Window(chart, start, d, fps))
         /\ Rows!Score!Chart!CountNotes(chart, start, d, fps) \in Nat
         /\ \A x \in Window(chart, start, d, fps) :
              /\ Rows!Score!Chart!FrameOf(chart.notes[x], fps) \in Int
              /\ Rows!Score!Chart!FrameOf(chart.notes[x], fps) > start
              /\ Rows!Score!Chart!FrameOf(chart.notes[x], fps) <= start + Rows!Score!Chart!Covered(d, fps)
<1> DEFINE F(x) == Rows!Score!Chart!FrameOf(chart.notes[x], fps)
           long == Rows!Score!Chart!Covered(d, fps)
           W == Window(chart, start, d, fps)
<1>1. \A x \in DOMAIN chart.notes : chart.notes[x] \in Int
  BY DEF Rows!Score!Chart!Countable
<1>2. \A x \in DOMAIN chart.notes : F(x) \in Int
  BY <1>1, FramesAre
<1>3. long \in Nat
  <2>1. 0 \in Int
    OBVIOUS
  <2> QED BY <2>1, FramesAre
<1>4. IsFiniteSet(DOMAIN chart.notes)
  BY DEF Rows!Score!Chart!Countable, Rows!Score!Chart!IsFiniteSet, IsFiniteSet
<1>5. W \subseteq DOMAIN chart.notes /\ \A x \in DOMAIN chart.notes : x \in W <=> F(x) - start \in 1..long
  BY DEF Window
<1>6. IsFiniteSet(W) /\ Cardinality(W) \in Nat
  BY <1>4, <1>5, FS_Subset, FS_CardinalityType
<1>7. Rows!Score!Chart!CountNotes(chart, start, d, fps) = Rows!Score!Chart!Cardinality({x \in DOMAIN chart.notes : F(x) > start /\ F(x) <= start + long})
  BY DEF Rows!Score!Chart!CountNotes
<1> HIDE DEF F, long
<1>8. \A x \in DOMAIN chart.notes : F(x) - start \in 1..long <=> F(x) > start /\ F(x) <= start + long
  BY <1>2, <1>3
<1> HIDE DEF W
<1>9. {x \in DOMAIN chart.notes : F(x) > start /\ F(x) <= start + long} = W
  BY <1>5, <1>8
<1>10. Rows!Score!Chart!Cardinality(W) = Cardinality(W)
  BY DEF Rows!Score!Chart!Cardinality, Cardinality, Rows!Score!Chart!IsFiniteSet, IsFiniteSet
<1>11. \A x \in W : F(x) \in Int /\ F(x) > start /\ F(x) <= start + long
  BY <1>2, <1>5, <1>8
<1> QED BY <1>4, <1>5, <1>6, <1>7, <1>9, <1>10, <1>11 DEF W, F, long

\* A line-up, and the frames in which its skills start: none before the one ahead of it lets it.
LineUpTyped(lineUp) == lineUp \in [1..SkillCount -> Rows!Score!Skills]

LEMMA LineUpIs ==
  ASSUME NEW lineUp, LineUpTyped(lineUp), NEW i \in 1..SkillCount
  PROVE  /\ lineUp[i].duration \in Durations /\ lineUp[i].scoreUp \in Nat
         /\ lineUp[i].step \in Nat /\ lineUp[i].cap \in Nat
BY DEF LineUpTyped, Rows!Score!Skills

LEMMA StartIs ==
  ASSUME NEW chart, Rows!Score!Chart!Countable(chart), NEW lineUp, LineUpTyped(lineUp),
         NEW fps \in Rates, NEW i \in 1..SkillCount
  PROVE  /\ chart.skills[i] \in Int
         /\ Rows!Score!StartOf(chart, lineUp, i, fps) \in Int
         /\ Rows!Score!StartOf(chart, lineUp, i, fps) >= Rows!Score!Chart!FrameOf(chart.skills[i], fps)
         /\ i = 1 => Rows!Score!StartOf(chart, lineUp, i, fps) = Rows!Score!Chart!FrameOf(chart.skills[i], fps)
         /\ i # 1 =>
              /\ i - 1 \in 1..SkillCount
              /\ Rows!Score!StartOf(chart, lineUp, i, fps)
                   = Rows!Score!Chart!Larger(Rows!Score!Chart!FrameOf(chart.skills[i], fps),
                                        Rows!Score!Chart!Free(chart.skills[i - 1], lineUp[i - 1].duration, fps))
              /\ Rows!Score!StartOf(chart, lineUp, i, fps)
                   >= Rows!Score!Chart!Free(chart.skills[i - 1], lineUp[i - 1].duration, fps)
<1> DEFINE own == Rows!Score!Chart!FrameOf(chart.skills[i], fps)
           free == Rows!Score!Chart!Free(chart.skills[i - 1], lineUp[i - 1].duration, fps)
<1>1. \A k \in 1..SkillCount : chart.skills[k] \in Int
  BY DEF Rows!Score!Chart!Countable
<1>2. SkillCount \in Nat /\ (i # 1 => i - 1 \in 1..SkillCount)
  BY SkillsAssumption
<1>3. own \in Int
  BY <1>1, LineUpIs, FramesAre
<1>4. i # 1 => free \in Int
  BY <1>1, <1>2, LineUpIs, FramesAre
<1>5. Rows!Score!StartOf(chart, lineUp, i, fps) = IF i = 1 THEN own ELSE Rows!Score!Chart!Larger(own, free)
  BY DEF Rows!Score!StartOf
<1> HIDE DEF own, free
<1>6. i # 1 => Rows!Score!Chart!Larger(own, free) \in Int /\ Rows!Score!Chart!Larger(own, free) >= own /\ Rows!Score!Chart!Larger(own, free) >= free
  BY <1>3, <1>4 DEF Rows!Score!Chart!Larger
<1> QED BY <1>1, <1>2, <1>3, <1>5, <1>6 DEF own, free

LEMMA BoostedIs ==
  ASSUME NEW chart, NEW lineUp, NEW fps, NEW i
  PROVE  Rows!Score!Boosted(chart, lineUp, i, fps) = Window(chart, Rows!Score!StartOf(chart, lineUp, i, fps), lineUp[i].duration, fps)
BY DEF Rows!Score!Boosted, Window

\* The count of each position, decoded, is that of the notes the skill at it boosts.
LEMMA CountsAreDecoded ==
  ASSUME NEW chart, Rows!Score!Scorable(chart), NEW fps \in Rates, NEW i \in 1..SkillCount, NEW d \in Durations
  PROVE  /\ Rows!Score!Chart!CountAt(chart, i, d, fps) \in Nat
         /\ Rows!Score!DecodeNoteCount(Rows!Score!Chart!BuildLevelSummary(chart).counts[d][i], fps) = Rows!Score!Chart!CountAt(chart, i, d, fps)
<1> DEFINE at(r) == Rows!Score!Chart!CountAt(chart, i, d, r)
<1>1. Rows!Score!Chart!Countable(chart) /\ chart.skills[i] \in Int
  BY DEF Rows!Score!Scorable, Rows!Score!Chart!Countable
<1>2. at(60) \in Nat /\ at(120) \in Nat
  <2>1. 60 \in Rates /\ 120 \in Rates
    BY DEF Rates
  <2> QED BY <1>1, <2>1, FramesAre, WindowIs DEF Rows!Score!Chart!CountAt
<1>3. Rows!Score!Chart!Abs(at(60) - at(120)) < 8
  BY DEF Rows!Score!Scorable, Rows!Score!Chart!Decodable
<1>4. Rows!Score!Chart!BuildLevelSummary(chart).counts[d][i] = Rows!Score!Chart!Encode(at(120), at(60) - at(120))
  BY DEF Rows!Score!Chart!BuildLevelSummary, Rows!Score!Chart!CountOf
<1> HIDE DEF at
<1>5. at(60) - at(120) \in Int /\ at(120) \in Int /\ at(120) + (at(60) - at(120)) = at(60)
  BY <1>2
<1>6. /\ Rows!Score!DecodeNoteCount(Rows!Score!Chart!Encode(at(120), at(60) - at(120)), 120) = at(120)
      /\ Rows!Score!DecodeNoteCount(Rows!Score!Chart!Encode(at(120), at(60) - at(120)), 60) = at(60)
  BY <1>3, <1>5, CountIsDecoded
<1> QED BY <1>2, <1>4, <1>6 DEF at, Rates

LEMMA ShiftsAreDecoded ==
  ASSUME NEW chart, Rows!Score!Scorable(chart), NEW fps \in Rates, NEW i \in 2..SkillCount,
         NEW dPrev \in Durations, NEW dCur \in Durations
  PROVE  Rows!Score!DecodeNoteCount(Rows!Score!Chart!BuildLevelSummary(chart).overlaps[i][dPrev][dCur], fps)
           = Rows!Score!Chart!CountNotes(chart, Rows!Score!Chart!Larger(Rows!Score!Chart!FrameOf(chart.skills[i], fps),
                                             Rows!Score!Chart!Free(chart.skills[i - 1], dPrev, fps)), dCur, fps)
               - Rows!Score!Chart!CountAt(chart, i, dCur, fps)
<1> DEFINE by(r) == Rows!Score!Chart!DelayedBy(chart, i, dPrev, dCur, r)
           prev == chart.skills[i - 1]
           cur == chart.skills[i]
           start(r) == Rows!Score!Chart!Larger(Rows!Score!Chart!FrameOf(cur, r), Rows!Score!Chart!Free(prev, dPrev, r))
<1>1. Rows!Score!Chart!Countable(chart) /\ cur \in Int /\ prev \in Int
  <2>1. i \in 1..SkillCount /\ i - 1 \in 1..SkillCount
    BY SkillsAssumption
  <2> QED BY <2>1 DEF Rows!Score!Scorable, Rows!Score!Chart!Countable
<1>2. \A r \in Rates : Rows!Score!Chart!FrameOf(cur, r) \in Int /\ Rows!Score!Chart!Free(prev, dPrev, r) \in Int
  BY <1>1, FramesAre
<1>3. \A r \in Rates : start(r) \in Int
  BY <1>2 DEF Rows!Score!Chart!Larger
<1>4. \A r \in Rates : Rows!Score!Chart!CountNotes(chart, start(r), dCur, r) \in Nat /\ Rows!Score!Chart!CountAt(chart, i, dCur, r) \in Nat
  <2> HIDE DEF start
  <2> QED BY <1>1, <1>2, <1>3, WindowIs DEF Rows!Score!Chart!CountAt
<1>5. \A r \in Rates : by(r) = Rows!Score!Chart!CountNotes(chart, start(r), dCur, r) - Rows!Score!Chart!CountAt(chart, i, dCur, r)
  BY DEF Rows!Score!Chart!DelayedBy
<1>6. Rows!Score!Chart!BuildLevelSummary(chart).overlaps[i][dPrev][dCur]
        = IF Rows!Score!Chart!MayQueue(prev, cur) THEN Rows!Score!Chart!Encode(by(120), by(60) - by(120)) ELSE 0
  BY DEF Rows!Score!Chart!BuildLevelSummary, Rows!Score!Chart!ShiftOf
<1>7. CASE Rows!Score!Chart!MayQueue(prev, cur)
  <2>1. Rows!Score!Chart!Abs(by(60) - by(120)) < 8
    BY <1>7 DEF Rows!Score!Scorable, Rows!Score!Chart!Decodable
  <2> HIDE DEF by, start
  <2>2. by(60) \in Int /\ by(120) \in Int
    BY <1>4, <1>5 DEF Rates
  <2>3. by(60) - by(120) \in Int /\ by(120) + (by(60) - by(120)) = by(60)
    BY <2>2
  <2>4. /\ Rows!Score!DecodeNoteCount(Rows!Score!Chart!Encode(by(120), by(60) - by(120)), 120) = by(120)
        /\ Rows!Score!DecodeNoteCount(Rows!Score!Chart!Encode(by(120), by(60) - by(120)), 60) = by(60)
    BY <2>1, <2>2, <2>3, CountIsDecoded
  <2>5. Rows!Score!DecodeNoteCount(Rows!Score!Chart!BuildLevelSummary(chart).overlaps[i][dPrev][dCur], fps) = by(fps)
    BY <1>6, <1>7, <2>4 DEF Rates
  <2> QED BY <1>5, <2>5 DEF start
<1>8. CASE ~Rows!Score!Chart!MayQueue(prev, cur)
  <2>1. Rows!Score!Chart!Free(prev, dPrev, fps) <= Rows!Score!Chart!FrameOf(cur, fps)
    BY <1>1, <1>8, NoneQueues
  <2>2. start(fps) = Rows!Score!Chart!FrameOf(cur, fps)
    BY <1>2, <2>1 DEF Rows!Score!Chart!Larger
  <2>3. Rows!Score!DecodeNoteCount(Rows!Score!Chart!BuildLevelSummary(chart).overlaps[i][dPrev][dCur], fps) = 0
    BY <1>6, <1>8, NothingIsDecoded
  <2>4. Rows!Score!Chart!CountNotes(chart, start(fps), dCur, fps) = Rows!Score!Chart!CountAt(chart, i, dCur, fps)
    <3> HIDE DEF start
    <3> QED BY <2>2 DEF Rows!Score!Chart!CountAt
  <2> HIDE DEF start
  <2> QED BY <1>4, <2>3, <2>4 DEF start
<1> QED BY <1>7, <1>8

LEMMA NotesAreBoosted ==
  ASSUME NEW chart, Rows!Score!Scorable(chart), NEW lineUp, LineUpTyped(lineUp), NEW fps \in Rates, NEW i \in 1..SkillCount
  PROVE  /\ Rows!Score!NotesAt(Rows!Score!Chart!BuildLevelSummary(chart), lineUp, i, fps) = Cardinality(Rows!Score!Boosted(chart, lineUp, i, fps))
         /\ Rows!Score!NotesAt(Rows!Score!Chart!BuildLevelSummary(chart), lineUp, i, fps) \in Nat
         /\ IsFiniteSet(Rows!Score!Boosted(chart, lineUp, i, fps))
<1> DEFINE summary == Rows!Score!Chart!BuildLevelSummary(chart)
           d == lineUp[i].duration
           start == Rows!Score!StartOf(chart, lineUp, i, fps)
<1>1. Rows!Score!Chart!Countable(chart) /\ d \in Durations /\ start \in Int
  BY LineUpIs, StartIs DEF Rows!Score!Scorable
<1>2. /\ Rows!Score!Chart!CountNotes(chart, start, d, fps) = Cardinality(Rows!Score!Boosted(chart, lineUp, i, fps))
      /\ Rows!Score!Chart!CountNotes(chart, start, d, fps) \in Nat /\ IsFiniteSet(Rows!Score!Boosted(chart, lineUp, i, fps))
  <2> HIDE DEF d, start
  <2>1. Rows!Score!Boosted(chart, lineUp, i, fps) = Window(chart, start, d, fps)
    BY BoostedIs DEF d, start
  <2> QED BY <1>1, <2>1, WindowIs
<1>3. /\ Rows!Score!Chart!CountAt(chart, i, d, fps) \in Nat
      /\ Rows!Score!DecodeNoteCount(summary.counts[d][i], fps) = Rows!Score!Chart!CountAt(chart, i, d, fps)
  BY <1>1, CountsAreDecoded
<1>4. CASE i = 1
  <2>1. Rows!Score!NotesAt(summary, lineUp, i, fps) = Rows!Score!DecodeNoteCount(summary.counts[d][i], fps) + 0
    BY <1>4 DEF Rows!Score!NotesAt
  <2>2. Rows!Score!Chart!CountAt(chart, i, d, fps) = Rows!Score!Chart!CountNotes(chart, start, d, fps)
    BY <1>1, <1>4, StartIs DEF Rows!Score!Chart!CountAt
  <2> QED BY <1>2, <1>3, <2>1, <2>2
<1>5. CASE i # 1
  <2> DEFINE dPrev == lineUp[i - 1].duration
             shift == Rows!Score!DecodeNoteCount(summary.overlaps[i][dPrev][d], fps)
  <2>1. i \in 2..SkillCount /\ dPrev \in Durations
    <3>1. i \in 2..SkillCount /\ i - 1 \in 1..SkillCount
      BY <1>5, SkillsAssumption
    <3> QED BY <3>1, LineUpIs
  <2>2. Rows!Score!NotesAt(summary, lineUp, i, fps) = Rows!Score!DecodeNoteCount(summary.counts[d][i], fps) + shift
    BY <1>5 DEF Rows!Score!NotesAt
  <2>3. start = Rows!Score!Chart!Larger(Rows!Score!Chart!FrameOf(chart.skills[i], fps), Rows!Score!Chart!Free(chart.skills[i - 1], dPrev, fps))
    BY <1>1, <1>5, StartIs
  <2>4. shift = Rows!Score!Chart!CountNotes(chart, start, d, fps) - Rows!Score!Chart!CountAt(chart, i, d, fps)
    <3> HIDE DEF start
    <3> QED BY <1>1, <2>1, <2>3, ShiftsAreDecoded
  <2> HIDE DEF shift
  <2> QED BY <1>2, <1>3, <2>2, <2>4
<1> QED BY <1>4, <1>5

\* A skill is over when the next one starts, and so when any later one does.
EndOf(chart, lineUp, i, fps) == Rows!Score!StartOf(chart, lineUp, i, fps) + Rows!Score!Chart!Covered(lineUp[i].duration, fps)

LEMMA NextStartsAfter ==
  ASSUME NEW chart, Rows!Score!Scorable(chart), NEW lineUp, LineUpTyped(lineUp), NEW fps \in Rates,
         NEW i \in 1..SkillCount, i + 1 \in 1..SkillCount
  PROVE  /\ EndOf(chart, lineUp, i, fps) \in Int /\ Rows!Score!StartOf(chart, lineUp, i, fps) \in Int
         /\ Rows!Score!StartOf(chart, lineUp, i, fps) <= EndOf(chart, lineUp, i, fps)
         /\ EndOf(chart, lineUp, i, fps) <= Rows!Score!StartOf(chart, lineUp, i + 1, fps)
<1> DEFINE start(k) == Rows!Score!StartOf(chart, lineUp, k, fps)
           own(k) == Rows!Score!Chart!FrameOf(chart.skills[k], fps)
           long == Rows!Score!Chart!Covered(lineUp[i].duration, fps)
           free == Rows!Score!Chart!Free(chart.skills[i], lineUp[i].duration, fps)
<1>1. /\ Rows!Score!Chart!Countable(chart) /\ SkillCount \in Nat /\ lineUp[i].duration \in Durations
      /\ chart.skills[i] \in Int /\ chart.skills[i + 1] \in Int
  BY SkillsAssumption, LineUpIs, StartIs DEF Rows!Score!Scorable
<1>2. start(i) \in Int /\ start(i + 1) \in Int /\ start(i) >= own(i)
  BY <1>1, StartIs
<1>3. own(i) \in Int /\ own(i + 1) \in Int /\ long \in Nat /\ free \in Int /\ free >= own(i) + long
  BY <1>1, FramesAre
<1>4. i + 1 # 1 /\ (i + 1) - 1 = i
  OBVIOUS
<1>5. start(i + 1) = Rows!Score!Chart!Larger(own(i + 1), free)
  BY <1>1, <1>4, StartIs
<1>6. start(i) + long <= start(i + 1)
  <2>1. CASE start(i) = own(i)
    <3> HIDE DEF start, own, long, free
    <3> QED BY <1>2, <1>3, <1>5, <2>1 DEF Rows!Score!Chart!Larger
  <2>2. CASE start(i) # own(i)
    <3> DEFINE dPrev == lineUp[i - 1].duration
               before == Rows!Score!Chart!Free(chart.skills[i - 1], dPrev, fps)
    <3>1. i # 1
      BY <1>1, <2>2, StartIs
    <3>2. i - 1 \in 1..SkillCount /\ dPrev \in Durations /\ i + 1 \in 3..SkillCount /\ (i + 1) - 2 = i - 1
      BY <1>1, <3>1, LineUpIs
    <3>3. start(i) = Rows!Score!Chart!Larger(own(i), before)
      BY <1>1, <3>1, StartIs
    <3>4. start(i) = before
      <4> HIDE DEF start, own, before
      <4> QED BY <2>2, <3>3 DEF Rows!Score!Chart!Larger
    <3>5. before + long <= Rows!Score!Chart!Larger(own(i + 1), free)
      <4>1. \A k \in 3..SkillCount, d, e \in Durations, r \in {60, 120} :
              Rows!Score!Chart!Free(chart.skills[k - 2], d, r) + Rows!Score!Chart!Covered(e, r)
                <= Rows!Score!Chart!Larger(Rows!Score!Chart!FrameOf(chart.skills[k], r), Rows!Score!Chart!Free(chart.skills[k - 1], e, r))
        BY DEF Rows!Score!Scorable, Rows!Score!Chart!QueuedIsOver
      <4>2. fps \in {60, 120}
        BY DEF Rates
      <4>3. Rows!Score!Chart!Free(chart.skills[(i + 1) - 2], dPrev, fps) + Rows!Score!Chart!Covered(lineUp[i].duration, fps)
              <= Rows!Score!Chart!Larger(Rows!Score!Chart!FrameOf(chart.skills[i + 1], fps),
                                    Rows!Score!Chart!Free(chart.skills[(i + 1) - 1], lineUp[i].duration, fps))
        BY <1>1, <3>2, <4>1, <4>2
      <4> QED BY <1>4, <3>2, <4>3
    <3> QED BY <1>5, <3>4, <3>5
  <2> QED BY <2>1, <2>2
<1> HIDE DEF start, own, long, free
<1>7. start(i) + long \in Int /\ start(i) <= start(i) + long
  BY <1>2, <1>3
<1> QED BY <1>2, <1>6, <1>7 DEF EndOf, start, long

LEMMA LaterStartsAfter ==
  ASSUME NEW chart, Rows!Score!Scorable(chart), NEW lineUp, LineUpTyped(lineUp), NEW fps \in Rates,
         NEW i \in 1..SkillCount, NEW j \in 1..SkillCount, i < j
  PROVE  EndOf(chart, lineUp, i, fps) <= Rows!Score!StartOf(chart, lineUp, j, fps)
<1> DEFINE start(k) == Rows!Score!StartOf(chart, lineUp, k, fps)
           end == EndOf(chart, lineUp, i, fps)
           N == {n \in Nat : i + 1 + n \in 1..SkillCount => end <= start(i + 1 + n)}
<1>1. SkillCount \in Nat
  BY SkillsAssumption
<1>2. end \in Int
  <2>1. Rows!Score!Chart!Countable(chart) /\ lineUp[i].duration \in Durations
    BY LineUpIs DEF Rows!Score!Scorable
  <2>2. Rows!Score!StartOf(chart, lineUp, i, fps) \in Int /\ chart.skills[i] \in Int
    BY <2>1, StartIs
  <2>3. Rows!Score!Chart!Covered(lineUp[i].duration, fps) \in Nat
    BY <2>1, <2>2, FramesAre
  <2> QED BY <2>2, <2>3 DEF EndOf
<1>3. 0 \in N
  <2>1. i + 1 \in 1..SkillCount => end <= start(i + 1)
    BY NextStartsAfter
  <2> HIDE DEF start, end
  <2>2. i + 1 + 0 = i + 1
    OBVIOUS
  <2> QED BY <2>1, <2>2
<1>4. \A n \in N : n + 1 \in N
  <2> SUFFICES ASSUME NEW n \in N, i + 1 + (n + 1) \in 1..SkillCount PROVE end <= start(i + 1 + (n + 1))
    OBVIOUS
  <2> DEFINE k == i + 1 + n
  <2>1. k \in 1..SkillCount /\ k + 1 \in 1..SkillCount /\ i + 1 + (n + 1) = k + 1
    BY <1>1
  <2>2. end <= start(k)
    BY <2>1
  <2> HIDE DEF k, N
  <2>3. start(k) \in Int /\ EndOf(chart, lineUp, k, fps) \in Int /\ start(k) <= EndOf(chart, lineUp, k, fps)
    BY <2>1, NextStartsAfter
  <2>4. start(k + 1) \in Int /\ EndOf(chart, lineUp, k, fps) <= start(k + 1)
    <3>1. Rows!Score!Chart!Countable(chart)
      BY DEF Rows!Score!Scorable
    <3> QED BY <2>1, <3>1, NextStartsAfter, StartIs
  <2> HIDE DEF start, end
  <2>5. end <= start(k + 1)
    BY <1>2, <2>2, <2>3, <2>4
  <2> QED BY <2>1, <2>5
<1>5. N = Nat
  <2> HIDE DEF N
  <2>1. N \in SUBSET Nat
    BY DEF N
  <2> QED BY <1>3, <1>4, <2>1, AllNaturals
<1>6. j - i - 1 \in Nat /\ i + 1 + (j - i - 1) = j
  OBVIOUS
<1>7. \A n \in Nat : i + 1 + n \in 1..SkillCount => end <= start(i + 1 + n)
  BY <1>5
<1> HIDE DEF start, end, N
<1>8. end <= start(j)
  BY <1>6, <1>7
<1> QED BY <1>8 DEF start, end

\* So no note is boosted twice, and the notes counted are those that are boosted.
LEMMA NoneIsBoostedTwice ==
  ASSUME NEW chart, Rows!Score!Scorable(chart), NEW lineUp, LineUpTyped(lineUp), NEW fps \in Rates,
         NEW i \in 1..SkillCount, NEW j \in 1..SkillCount, i # j
  PROVE  Rows!Score!Boosted(chart, lineUp, i, fps) \intersect Rows!Score!Boosted(chart, lineUp, j, fps) = {}
<1> DEFINE F(x) == Rows!Score!Chart!FrameOf(chart.notes[x], fps)
           start(k) == Rows!Score!StartOf(chart, lineUp, k, fps)
           end(k) == EndOf(chart, lineUp, k, fps)
           B(k) == Rows!Score!Boosted(chart, lineUp, k, fps)
<1>1. \A k \in 1..SkillCount : \A x \in B(k) : F(x) \in Int /\ F(x) > start(k) /\ F(x) <= end(k)
  <2> SUFFICES ASSUME NEW k \in 1..SkillCount PROVE \A x \in B(k) : F(x) \in Int /\ F(x) > start(k) /\ F(x) <= end(k)
    OBVIOUS
  <2>1. Rows!Score!Chart!Countable(chart) /\ lineUp[k].duration \in Durations
    BY LineUpIs DEF Rows!Score!Scorable
  <2>2. start(k) \in Int
    BY <2>1, StartIs
  <2>3. B(k) = Window(chart, start(k), lineUp[k].duration, fps)
    BY BoostedIs
  <2>4. end(k) = start(k) + Rows!Score!Chart!Covered(lineUp[k].duration, fps)
    BY DEF EndOf
  <2> HIDE DEF B, start, end
  <2> QED BY <2>1, <2>2, <2>3, <2>4, WindowIs
<1>2. \A k \in 1..SkillCount : start(k) \in Int
  <2>1. Rows!Score!Chart!Countable(chart)
    BY DEF Rows!Score!Scorable
  <2> QED BY <2>1, StartIs
<1>3. \A k, m \in 1..SkillCount : k < m => end(k) <= start(m)
  BY LaterStartsAfter
<1>4. \A k \in 1..SkillCount : end(k) \in Int
  <2> SUFFICES ASSUME NEW k \in 1..SkillCount PROVE end(k) \in Int
    OBVIOUS
  <2>1. lineUp[k].duration \in Durations /\ chart.skills[k] \in Int
    BY LineUpIs DEF Rows!Score!Scorable, Rows!Score!Chart!Countable
  <2>2. Rows!Score!Chart!Covered(lineUp[k].duration, fps) \in Nat
    BY <2>1, FramesAre
  <2> HIDE DEF start
  <2>3. end(k) = start(k) + Rows!Score!Chart!Covered(lineUp[k].duration, fps)
    BY DEF EndOf, start
  <2> QED BY <1>2, <2>2, <2>3
<1> SUFFICES ASSUME NEW x \in B(i), x \in B(j) PROVE FALSE
  OBVIOUS
<1>5. F(x) \in Int /\ F(x) > start(i) /\ F(x) <= end(i) /\ F(x) > start(j) /\ F(x) <= end(j)
  BY <1>1
<1>6. i < j \/ j < i
  BY SkillsAssumption
<1> HIDE DEF F, start, end, B
<1> QED BY <1>2, <1>3, <1>4, <1>5, <1>6

\* The sums of which a score consists.
BonusesOf(skill, count) == [k \in 1..count |-> Rows!Score!Bonus(skill, k)]
Boosts(base, skill, count) == [k \in 1..count |-> (base * (100 + Rows!Score!Bonus(skill, k))) \div 100]
Counts(lineUp, summary, fps) == [i \in 1..SkillCount |-> Rows!Score!NotesAt(summary, lineUp, i, fps)]
Scores(base, lineUp, summary, fps) ==
  [i \in 1..SkillCount |-> Rows!Score!SkillScore(base, lineUp[i], Rows!Score!NotesAt(summary, lineUp, i, fps))]
Weights(lineUp, summary, fps, last) ==
  [i \in 1..last |-> Rows!Score!SkillWeight(lineUp[i], Rows!Score!NotesAt(summary, lineUp, i, fps))]
ScoresPlayed(chart, base, lineUp, fps) ==
  [i \in 1..SkillCount |-> Rows!Score!SkillScore(base, lineUp[i], Rows!Score!Cardinality(Rows!Score!Boosted(chart, lineUp, i, fps)))]

LEMMA SkillWeightIs ==
  ASSUME NEW skill, NEW count
  PROVE  Rows!Score!SkillWeight(skill, count) = Sum(BonusesOf(skill, count), 1..count)
<1> DEFINE S == 1..count
           f == BonusesOf(skill, count)
           A(g) == g = [T \in SUBSET S |-> IF T = {} THEN 0 ELSE Rows!Score!Bonus(skill, Pick(T)) + g[T \ {Pick(T)}]]
<1>1. Rows!Score!SkillWeight(skill, count) = (CHOOSE g : A(g))[S]
  BY DEF Rows!Score!SkillWeight, Rows!Score!MapThenSumSet, Rows!Score!MapThenFoldSet, Pick
<1>2. \A x \in S : f[x] = Rows!Score!Bonus(skill, x)
  BY DEF BonusesOf
<1> HIDE DEF S, f
<1>3. \A g : A(g) <=> Adds(g, f, S)
  BY <1>2, PickIsElement DEF Adds
<1>4. (CHOOSE g : A(g)) = (CHOOSE g : Adds(g, f, S))
  BY <1>3
<1> QED BY <1>1, <1>4 DEF Sum, Adding, S, f

LEMMA SkillScoreIs ==
  ASSUME NEW base, NEW skill, NEW count
  PROVE  Rows!Score!SkillScore(base, skill, count) = Sum(Boosts(base, skill, count), 1..count)
<1> DEFINE S == 1..count
           f == Boosts(base, skill, count)
           A(g) == g = [T \in SUBSET S |-> IF T = {} THEN 0
                                           ELSE ((base * (100 + Rows!Score!Bonus(skill, Pick(T)))) \div 100) + g[T \ {Pick(T)}]]
<1>1. Rows!Score!SkillScore(base, skill, count) = (CHOOSE g : A(g))[S]
  BY DEF Rows!Score!SkillScore, Rows!Score!MapThenSumSet, Rows!Score!MapThenFoldSet, Pick
<1>2. \A x \in S : f[x] = (base * (100 + Rows!Score!Bonus(skill, x))) \div 100
  BY DEF Boosts
<1> HIDE DEF S, f
<1>3. \A g : A(g) <=> Adds(g, f, S)
  BY <1>2, PickIsElement DEF Adds
<1>4. (CHOOSE g : A(g)) = (CHOOSE g : Adds(g, f, S))
  BY <1>3
<1> QED BY <1>1, <1>4 DEF Sum, Adding, S, f

LEMMA CountsAreSummed ==
  ASSUME NEW lineUp, NEW summary, NEW fps
  PROVE  Rows!Score!MapThenSumSet(LAMBDA i : Rows!Score!NotesAt(summary, lineUp, i, fps), 1..SkillCount)
           = Sum(Counts(lineUp, summary, fps), 1..SkillCount)
<1> DEFINE S == 1..SkillCount
           f == Counts(lineUp, summary, fps)
           A(g) == g = [T \in SUBSET S |-> IF T = {} THEN 0
                                           ELSE Rows!Score!NotesAt(summary, lineUp, Pick(T), fps) + g[T \ {Pick(T)}]]
<1>1. Rows!Score!MapThenSumSet(LAMBDA i : Rows!Score!NotesAt(summary, lineUp, i, fps), S) = (CHOOSE g : A(g))[S]
  BY DEF Rows!Score!MapThenSumSet, Rows!Score!MapThenFoldSet, Pick
<1>2. \A x \in S : f[x] = Rows!Score!NotesAt(summary, lineUp, x, fps)
  BY DEF Counts
<1> HIDE DEF S, f
<1>3. \A g : A(g) <=> Adds(g, f, S)
  BY <1>2, PickIsElement DEF Adds
<1>4. (CHOOSE g : A(g)) = (CHOOSE g : Adds(g, f, S))
  BY <1>3
<1> QED BY <1>1, <1>4 DEF Sum, Adding, S, f

LEMMA ScoresAreSummed ==
  ASSUME NEW base, NEW lineUp, NEW summary, NEW fps
  PROVE  Rows!Score!MapThenSumSet(LAMBDA i : Rows!Score!SkillScore(base, lineUp[i], Rows!Score!NotesAt(summary, lineUp, i, fps)), 1..SkillCount)
           = Sum(Scores(base, lineUp, summary, fps), 1..SkillCount)
<1> DEFINE S == 1..SkillCount
           f == Scores(base, lineUp, summary, fps)
           A(g) == g = [T \in SUBSET S |-> IF T = {} THEN 0
                          ELSE Rows!Score!SkillScore(base, lineUp[Pick(T)], Rows!Score!NotesAt(summary, lineUp, Pick(T), fps))
                                 + g[T \ {Pick(T)}]]
<1>1. Rows!Score!MapThenSumSet(LAMBDA i : Rows!Score!SkillScore(base, lineUp[i], Rows!Score!NotesAt(summary, lineUp, i, fps)), S)
        = (CHOOSE g : A(g))[S]
  BY DEF Rows!Score!MapThenSumSet, Rows!Score!MapThenFoldSet, Pick
<1>2. \A x \in S : f[x] = Rows!Score!SkillScore(base, lineUp[x], Rows!Score!NotesAt(summary, lineUp, x, fps))
  BY DEF Scores
<1> HIDE DEF S, f
<1>3. \A g : A(g) <=> Adds(g, f, S)
  BY <1>2, PickIsElement DEF Adds
<1>4. (CHOOSE g : A(g)) = (CHOOSE g : Adds(g, f, S))
  BY <1>3
<1> QED BY <1>1, <1>4 DEF Sum, Adding, S, f

LEMMA WeightIs ==
  ASSUME NEW lineUp, NEW summary, NEW fps
  PROVE  Rows!Score!Weight(summary, lineUp, fps) = Sum(Weights(lineUp, summary, fps, SkillCount - 1), 1..(SkillCount - 1))
<1> DEFINE S == 1..(SkillCount - 1)
           f == Weights(lineUp, summary, fps, SkillCount - 1)
           A(g) == g = [T \in SUBSET S |-> IF T = {} THEN 0
                          ELSE Rows!Score!SkillWeight(lineUp[Pick(T)], Rows!Score!NotesAt(summary, lineUp, Pick(T), fps))
                                 + g[T \ {Pick(T)}]]
<1>1. Rows!Score!Weight(summary, lineUp, fps) = (CHOOSE g : A(g))[S]
  BY DEF Rows!Score!Weight, Rows!Score!MapThenSumSet, Rows!Score!MapThenFoldSet, Pick
<1>2. \A x \in S : f[x] = Rows!Score!SkillWeight(lineUp[x], Rows!Score!NotesAt(summary, lineUp, x, fps))
  BY DEF Weights
<1> HIDE DEF S, f
<1>3. \A g : A(g) <=> Adds(g, f, S)
  BY <1>2, PickIsElement DEF Adds
<1>4. (CHOOSE g : A(g)) = (CHOOSE g : Adds(g, f, S))
  BY <1>3
<1> QED BY <1>1, <1>4 DEF Sum, Adding, S, f

LEMMA PlayedScoresAreSummed ==
  ASSUME NEW chart, NEW base, NEW lineUp, NEW fps
  PROVE  Rows!Score!MapThenSumSet(LAMBDA i : Rows!Score!SkillScore(base, lineUp[i], Rows!Score!Cardinality(Rows!Score!Boosted(chart, lineUp, i, fps))),
                             1..SkillCount)
           = Sum(ScoresPlayed(chart, base, lineUp, fps), 1..SkillCount)
<1> DEFINE S == 1..SkillCount
           f == ScoresPlayed(chart, base, lineUp, fps)
           A(g) == g = [T \in SUBSET S |-> IF T = {} THEN 0
                          ELSE Rows!Score!SkillScore(base, lineUp[Pick(T)], Rows!Score!Cardinality(Rows!Score!Boosted(chart, lineUp, Pick(T), fps)))
                                 + g[T \ {Pick(T)}]]
<1>1. Rows!Score!MapThenSumSet(LAMBDA i : Rows!Score!SkillScore(base, lineUp[i], Rows!Score!Cardinality(Rows!Score!Boosted(chart, lineUp, i, fps))), S)
        = (CHOOSE g : A(g))[S]
  BY DEF Rows!Score!MapThenSumSet, Rows!Score!MapThenFoldSet, Pick
<1>2. \A x \in S : f[x] = Rows!Score!SkillScore(base, lineUp[x], Rows!Score!Cardinality(Rows!Score!Boosted(chart, lineUp, x, fps)))
  BY DEF ScoresPlayed
<1> HIDE DEF S, f
<1>3. \A g : A(g) <=> Adds(g, f, S)
  BY <1>2, PickIsElement DEF Adds
<1>4. (CHOOSE g : A(g)) = (CHOOSE g : Adds(g, f, S))
  BY <1>3
<1> QED BY <1>1, <1>4 DEF Sum, Adding, S, f

\* A skill's bonuses and boosts are numbers, and so are the counts of a line-up and their scores.
SkillTyped(skill) == skill.scoreUp \in Nat /\ skill.step \in Nat /\ skill.cap \in Nat

LEMMA BonusIs == ASSUME NEW skill, SkillTyped(skill), NEW k \in Nat PROVE Rows!Score!Bonus(skill, k) \in Nat
<1>1. k * skill.step \in Nat
  BY DEF SkillTyped
<1>2. skill.scoreUp + k * skill.step \in Nat
  BY <1>1 DEF SkillTyped
<1> QED BY <1>2 DEF Rows!Score!Bonus, SkillTyped

LEMMA SkillScoreIsInt ==
  ASSUME NEW base \in Nat, NEW skill, SkillTyped(skill), NEW count \in Nat
  PROVE  /\ Summable(Boosts(base, skill, count), 1..count) /\ Rows!Score!SkillScore(base, skill, count) \in Int
         /\ Summable(BonusesOf(skill, count), 1..count) /\ Rows!Score!SkillWeight(skill, count) \in Int
<1>1. IsFiniteSet(1..count)
  BY FS_Interval
<1>2. \A k \in 1..count : Rows!Score!Bonus(skill, k) \in Nat
  BY BonusIs
<1>3. \A k \in 1..count : (base * (100 + Rows!Score!Bonus(skill, k))) \div 100 \in Int
  <2> SUFFICES ASSUME NEW k \in 1..count PROVE (base * (100 + Rows!Score!Bonus(skill, k))) \div 100 \in Int
    OBVIOUS
  <2> DEFINE b == Rows!Score!Bonus(skill, k)
             p == base * (100 + b)
  <2>1. b \in Nat
    BY <1>2
  <2> HIDE DEF b
  <2>2. p \in Int
    BY <2>1
  <2> HIDE DEF p
  <2>3. p \div 100 \in Int
    BY <2>2
  <2> QED BY <2>3 DEF p, b
<1>4. Summable(Boosts(base, skill, count), 1..count) /\ Summable(BonusesOf(skill, count), 1..count)
  BY <1>1, <1>2, <1>3 DEF Summable, Boosts, BonusesOf
<1> QED BY <1>4, SumIsInt, SkillScoreIs, SkillWeightIs

LEMMA PositionsAreFinite == IsFiniteSet(1..SkillCount) /\ IsFiniteSet(1..(SkillCount - 1))
BY FS_Interval, SkillsAssumption

\* What is counted of a line-up are the notes that are boosted, and no more than there are.
LEMMA CountsCoverTheBoosted ==
  ASSUME NEW chart, Rows!Score!Scorable(chart), NEW lineUp, LineUpTyped(lineUp), NEW fps \in Rates
  PROVE  LET summary == Rows!Score!Chart!BuildLevelSummary(chart)
             covered == Sum(Counts(lineUp, summary, fps), 1..SkillCount)
         IN  /\ Summable(Counts(lineUp, summary, fps), 1..SkillCount)
             /\ covered = Rows!Score!Cardinality(UNION {Rows!Score!Boosted(chart, lineUp, i, fps) : i \in 1..SkillCount})
             /\ covered \in Int /\ chart.total \in Int /\ covered <= chart.total /\ summary.total = chart.total
<1> DEFINE summary == Rows!Score!Chart!BuildLevelSummary(chart)
           f == Counts(lineUp, summary, fps)
           S == 1..SkillCount
           B == [i \in S |-> Rows!Score!Boosted(chart, lineUp, i, fps)]
           joined == UNION {B[i] : i \in S}
<1>1. \A i \in S : IsFiniteSet(B[i]) /\ f[i] = Cardinality(B[i])
  <2>1. \A i \in S : IsFiniteSet(Rows!Score!Boosted(chart, lineUp, i, fps))
                     /\ Rows!Score!NotesAt(summary, lineUp, i, fps) = Cardinality(Rows!Score!Boosted(chart, lineUp, i, fps))
    BY NotesAreBoosted
  <2> HIDE DEF summary
  <2> QED BY <2>1 DEF Counts
<1>2. \A i, j \in S : i # j => B[i] \intersect B[j] = {}
  BY NoneIsBoostedTwice
<1>3. IsFiniteSet(S)
  BY PositionsAreFinite
<1>4. joined \subseteq DOMAIN chart.notes
  BY DEF Rows!Score!Boosted
<1>5. joined = UNION {Rows!Score!Boosted(chart, lineUp, i, fps) : i \in S}
  OBVIOUS
<1>6. summary.total = chart.total
  BY DEF Rows!Score!Chart!BuildLevelSummary
<1> HIDE DEF B, f, S, summary
<1>7. Summable(f, S) /\ IsFiniteSet(joined) /\ Sum(f, S) = Cardinality(joined)
  <2>1. Apart(B, S) /\ Joining(B, S) = joined
    BY <1>2 DEF Apart, Joining
  <2> HIDE DEF joined
  <2> QED BY <1>1, <1>3, <2>1, SizeOfUnion
<1> HIDE DEF joined
<1>8. IsFiniteSet(DOMAIN chart.notes) /\ chart.total = SkillCount + Cardinality(DOMAIN chart.notes)
  BY DEF Rows!Score!Scorable, Rows!Score!Chart!Countable, Rows!Score!Chart!IsFiniteSet, IsFiniteSet, Rows!Score!Chart!Cardinality, Cardinality
<1>9. /\ Cardinality(joined) \in Nat /\ Cardinality(DOMAIN chart.notes) \in Nat
      /\ Cardinality(joined) <= Cardinality(DOMAIN chart.notes)
  BY <1>4, <1>8, FS_Subset, FS_CardinalityType
<1>10. SkillCount \in Nat
  BY SkillsAssumption
<1>11. Cardinality(joined) = Rows!Score!Cardinality(joined)
  BY DEF Rows!Score!Cardinality, Cardinality, Rows!Score!IsFiniteSet, IsFiniteSet
<1>12. Sum(f, S) \in Int /\ chart.total \in Int /\ Sum(f, S) <= chart.total
  BY <1>7, <1>8, <1>9, <1>10
<1> QED BY <1>5, <1>6, <1>7, <1>11, <1>12 DEF f, S, summary

LEMMA ExactScoreIs ==
  ASSUME NEW chart, Rows!Score!Scorable(chart), NEW base \in Nat, NEW lineUp, LineUpTyped(lineUp), NEW fps \in Rates
  PROVE  LET summary == Rows!Score!Chart!BuildLevelSummary(chart)
             covered == Sum(Counts(lineUp, summary, fps), 1..SkillCount)
             score == Sum(Scores(base, lineUp, summary, fps), 1..SkillCount)
         IN  /\ Summable(Scores(base, lineUp, summary, fps), 1..SkillCount) /\ score \in Int
             /\ Rows!Score!CalcExactScoreInTurns(base, lineUp, summary, fps) = score + (chart.total - covered) * base
<1> DEFINE summary == Rows!Score!Chart!BuildLevelSummary(chart)
           S == 1..SkillCount
           covered == Sum(Counts(lineUp, summary, fps), S)
           f == Scores(base, lineUp, summary, fps)
           score == Sum(f, S)
<1>1. covered \in Int /\ chart.total \in Int /\ covered <= chart.total /\ summary.total = chart.total
  BY CountsCoverTheBoosted
<1>2. \A i \in S : f[i] \in Int
  <2>1. \A i \in S : Rows!Score!NotesAt(summary, lineUp, i, fps) \in Nat
    BY NotesAreBoosted
  <2>2. \A i \in S : SkillTyped(lineUp[i])
    BY LineUpIs DEF SkillTyped
  <2> HIDE DEF summary
  <2>3. \A i \in S : Rows!Score!SkillScore(base, lineUp[i], Rows!Score!NotesAt(summary, lineUp, i, fps)) \in Int
    BY <2>1, <2>2, SkillScoreIsInt
  <2> QED BY <2>3 DEF Scores
<1>3. Summable(f, S) /\ score \in Int
  <2>1. Summable(f, S)
    <3> HIDE DEF f
    <3> QED BY <1>2, PositionsAreFinite DEF Summable
  <2> HIDE DEF f, S
  <2> QED BY <2>1, SumIsInt
<1>4. Rows!Score!CalcExactScoreInTurns(base, lineUp, summary, fps)
        = score + (IF summary.total > covered THEN (summary.total - covered) * base ELSE 0)
  BY CountsAreSummed, ScoresAreSummed DEF Rows!Score!CalcExactScoreInTurns
<1> HIDE DEF covered, score, summary
<1>5. CASE chart.total > covered
  BY <1>1, <1>3, <1>4, <1>5 DEF f, S, covered, score, summary
<1>6. CASE chart.total = covered
  <2>1. (chart.total - covered) * base = 0
    BY <1>1, <1>6
  <2>2. Rows!Score!CalcExactScoreInTurns(base, lineUp, summary, fps) = score + 0
    BY <1>1, <1>4, <1>6
  <2> QED BY <1>3, <2>1, <2>2 DEF f, S, covered, score, summary
<1> QED BY <1>1, <1>5, <1>6

LEMMA ScoresArePlayedOut ==
  ASSUME NEW chart, Rows!Score!Scorable(chart), NEW base \in Nat, NEW lineUp, LineUpTyped(lineUp), NEW fps \in Rates
  PROVE  Rows!Score!CalcExactScoreInTurns(base, lineUp, Rows!Score!Chart!BuildLevelSummary(chart), fps)
           = Rows!Score!Played(chart, base, lineUp, fps)
<1> DEFINE summary == Rows!Score!Chart!BuildLevelSummary(chart)
           S == 1..SkillCount
           covered == Sum(Counts(lineUp, summary, fps), S)
           score == Sum(Scores(base, lineUp, summary, fps), S)
           played == Sum(ScoresPlayed(chart, base, lineUp, fps), S)
           joined == UNION {Rows!Score!Boosted(chart, lineUp, i, fps) : i \in 1..SkillCount}
<1>1. score = played
  <2>1. \A i \in S : Rows!Score!NotesAt(summary, lineUp, i, fps) = Cardinality(Rows!Score!Boosted(chart, lineUp, i, fps))
    BY NotesAreBoosted
  <2>2. \A i \in S : Rows!Score!Cardinality(Rows!Score!Boosted(chart, lineUp, i, fps)) = Cardinality(Rows!Score!Boosted(chart, lineUp, i, fps))
    BY DEF Rows!Score!Cardinality, Cardinality, Rows!Score!IsFiniteSet, IsFiniteSet
  <2> HIDE DEF summary
  <2>3. \A i \in S : Scores(base, lineUp, summary, fps)[i] = ScoresPlayed(chart, base, lineUp, fps)[i]
    BY <2>1, <2>2 DEF Scores, ScoresPlayed
  <2> HIDE DEF S
  <2> QED BY <2>3, SumsAreEqual
<1>2. covered = Rows!Score!Cardinality(joined) /\ covered \in Int /\ chart.total \in Int
  BY CountsCoverTheBoosted
<1>3. /\ score \in Int
      /\ Rows!Score!CalcExactScoreInTurns(base, lineUp, summary, fps) = score + (chart.total - covered) * base
  BY ExactScoreIs
<1>4. Rows!Score!Played(chart, base, lineUp, fps) = (chart.total - Rows!Score!Cardinality(joined)) * base + played
  BY PlayedScoresAreSummed DEF Rows!Score!Played
<1> HIDE DEF covered, score, played, joined, summary
<1>5. (chart.total - covered) * base \in Int
  BY <1>2
<1>6. Rows!Score!CalcExactScoreInTurns(base, lineUp, summary, fps) = Rows!Score!Played(chart, base, lineUp, fps)
  BY <1>1, <1>2, <1>3, <1>4, <1>5
<1> QED BY <1>6 DEF summary

\* A skill's score is what its notes and its bonuses are worth, but for less than a point a note.
LEMMA SkillScoreBounds ==
  ASSUME NEW base \in Nat, NEW skill, SkillTyped(skill), NEW count \in Nat
  PROVE  LET score == Rows!Score!SkillScore(base, skill, count)
             weight == Rows!Score!SkillWeight(skill, count)
         IN  /\ 100 * score <= (100 * base) * count + base * weight
             /\ (100 * base) * count + base * weight <= 100 * score + 99 * count
<1> DEFINE S == 1..count
           e == Boosts(base, skill, count)
           b == BonusesOf(skill, count)
           o == [k \in S |-> 1]
           a == 100 * base
           h == Combined(o, b, a, base, S)
           low == Combined(e, o, 100, 0, S)
           high == Combined(e, o, 100, 99, S)
<1>1. Summable(e, S) /\ Summable(b, S) /\ IsFiniteSet(S) /\ a \in Int /\ base \in Int
  BY SkillScoreIsInt DEF Summable
<1>2. Cardinality(S) = count
  BY FS_Interval
<1>3. Summable(o, S) /\ Sum(o, S) = count
  <2>1. \A x \in S : o[x] = 1
    OBVIOUS
  <2> HIDE DEF S, o
  <2> QED BY <1>1, <1>2, <2>1, SumOfOnes
<1>4. \A k \in S : low[k] <= h[k] /\ h[k] <= high[k]
  <2> SUFFICES ASSUME NEW k \in S PROVE low[k] <= h[k] /\ h[k] <= high[k]
    OBVIOUS
  <2> DEFINE bonus == Rows!Score!Bonus(skill, k)
             p == base * (100 + bonus)
  <2>1. bonus \in Nat
    BY BonusIs
  <2>2. e[k] = p \div 100 /\ b[k] = bonus /\ o[k] = 1
    BY DEF Boosts, BonusesOf
  <2> HIDE DEF bonus
  <2>3. p \in Int /\ a * 1 + base * bonus = p
    BY <2>1
  <2>4. h[k] = a * o[k] + base * b[k] /\ low[k] = 100 * e[k] + 0 * o[k] /\ high[k] = 100 * e[k] + 99 * o[k]
    <3> HIDE DEF S, o, e, b, a
    <3> QED BY DEF Combined
  <2> HIDE DEF p, e, b, o, h, low, high, a
  <2>5. h[k] = p
    BY <2>2, <2>3, <2>4
  <2>6. low[k] = 100 * (p \div 100) /\ high[k] = 100 * (p \div 100) + 99
    BY <2>2, <2>3, <2>4
  <2> QED BY <2>3, <2>5, <2>6
<1> HIDE DEF S, o, e, b, a
<1>5. Summable(h, S) /\ Sum(h, S) = a * Sum(o, S) + base * Sum(b, S)
  BY <1>1, <1>3, SumLinear
<1>6. Summable(low, S) /\ Sum(low, S) = 100 * Sum(e, S) + 0 * Sum(o, S)
  BY <1>1, <1>3, SumLinear
<1>7. Summable(high, S) /\ Sum(high, S) = 100 * Sum(e, S) + 99 * Sum(o, S)
  BY <1>1, <1>3, SumLinear
<1> HIDE DEF low, high, h
<1>8. Sum(low, S) <= Sum(h, S) /\ Sum(h, S) <= Sum(high, S)
  BY <1>4, <1>5, <1>6, <1>7, SumLeq
<1>9. Sum(e, S) \in Int
  BY <1>1, SumIsInt
<1>10. 100 * Sum(e, S) <= a * count + base * Sum(b, S) /\ a * count + base * Sum(b, S) <= 100 * Sum(e, S) + 99 * count
  BY <1>3, <1>5, <1>6, <1>7, <1>8, <1>9
<1> QED BY <1>10, SkillScoreIs, SkillWeightIs DEF S, e, b, a

\* And so is the score of a line-up.
LEMMA LineUpScoreBounds ==
  ASSUME NEW chart, Rows!Score!Scorable(chart), NEW base \in Nat, NEW lineUp, LineUpTyped(lineUp), NEW fps \in Rates
  PROVE  LET summary == Rows!Score!Chart!BuildLevelSummary(chart)
             score == Sum(Scores(base, lineUp, summary, fps), 1..SkillCount)
             covered == Sum(Counts(lineUp, summary, fps), 1..SkillCount)
             weight == Sum(Weights(lineUp, summary, fps, SkillCount), 1..SkillCount)
         IN  /\ Summable(Weights(lineUp, summary, fps, SkillCount), 1..SkillCount)
             /\ 100 * score <= (100 * base) * covered + base * weight
             /\ (100 * base) * covered + base * weight <= 100 * score + 99 * covered
<1> DEFINE summary == Rows!Score!Chart!BuildLevelSummary(chart)
           S == 1..SkillCount
           e == Scores(base, lineUp, summary, fps)
           c == Counts(lineUp, summary, fps)
           w == Weights(lineUp, summary, fps, SkillCount)
           a == 100 * base
           h == Combined(c, w, a, base, S)
           low == Combined(e, c, 100, 0, S)
           high == Combined(e, c, 100, 99, S)
<1>1. Summable(e, S) /\ Summable(c, S) /\ IsFiniteSet(S) /\ a \in Int /\ base \in Int
  <2>1. Summable(e, S)
    BY ExactScoreIs
  <2>2. Summable(c, S)
    BY CountsCoverTheBoosted
  <2>3. a \in Int /\ base \in Int
    OBVIOUS
  <2> QED BY <2>1, <2>2, <2>3, PositionsAreFinite
<1>2. \A i \in S : /\ w[i] \in Int /\ 100 * e[i] <= a * c[i] + base * w[i]
                   /\ a * c[i] + base * w[i] <= 100 * e[i] + 99 * c[i]
  <2> SUFFICES ASSUME NEW i \in S
               PROVE  /\ w[i] \in Int /\ 100 * e[i] <= a * c[i] + base * w[i]
                      /\ a * c[i] + base * w[i] <= 100 * e[i] + 99 * c[i]
    OBVIOUS
  <2> DEFINE n == Rows!Score!NotesAt(summary, lineUp, i, fps)
  <2>1. n \in Nat /\ SkillTyped(lineUp[i])
    BY NotesAreBoosted, LineUpIs DEF SkillTyped
  <2>2. e[i] = Rows!Score!SkillScore(base, lineUp[i], n) /\ c[i] = n /\ w[i] = Rows!Score!SkillWeight(lineUp[i], n)
    BY DEF Scores, Counts, Weights
  <2> HIDE DEF n, e, c, w, summary
  <2> QED BY <2>1, <2>2, SkillScoreBounds, SkillScoreIsInt
<1> HIDE DEF S, e, c, w, a
<1>3. Summable(w, S)
  BY <1>1, <1>2 DEF Summable
<1>4. \A i \in S : low[i] <= h[i] /\ h[i] <= high[i]
  <2> SUFFICES ASSUME NEW i \in S PROVE low[i] <= h[i] /\ h[i] <= high[i]
    OBVIOUS
  <2>1. h[i] = a * c[i] + base * w[i] /\ low[i] = 100 * e[i] + 0 * c[i] /\ high[i] = 100 * e[i] + 99 * c[i]
    BY DEF Combined
  <2>2. e[i] \in Int /\ c[i] \in Int
    BY <1>1 DEF Summable
  <2> HIDE DEF h, low, high
  <2> QED BY <1>2, <2>1, <2>2
<1>5. Summable(h, S) /\ Sum(h, S) = a * Sum(c, S) + base * Sum(w, S)
  BY <1>1, <1>3, SumLinear
<1>6. Summable(low, S) /\ Sum(low, S) = 100 * Sum(e, S) + 0 * Sum(c, S)
  BY <1>1, SumLinear
<1>7. Summable(high, S) /\ Sum(high, S) = 100 * Sum(e, S) + 99 * Sum(c, S)
  BY <1>1, SumLinear
<1> HIDE DEF low, high, h
<1>8. Sum(low, S) <= Sum(h, S) /\ Sum(h, S) <= Sum(high, S)
  BY <1>4, <1>5, <1>6, <1>7, SumLeq
<1>9. Sum(e, S) \in Int /\ Sum(c, S) \in Int
  BY <1>1, SumIsInt
<1>10. /\ 100 * Sum(e, S) <= a * Sum(c, S) + base * Sum(w, S)
       /\ a * Sum(c, S) + base * Sum(w, S) <= 100 * Sum(e, S) + 99 * Sum(c, S)
  BY <1>5, <1>6, <1>7, <1>8, <1>9
<1> QED BY <1>3, <1>10 DEF S, e, c, w, a

\* The leader's skill, which is the last and does not queue, is worth the same in every order.
LEMMA LeadersNotesStay ==
  ASSUME NEW chart, Rows!Score!Scorable(chart), NEW lineUp, LineUpTyped(lineUp), NEW fps \in Rates
  PROVE  Rows!Score!NotesAt(Rows!Score!Chart!BuildLevelSummary(chart), lineUp, SkillCount, fps)
           = Rows!Score!Chart!CountAt(chart, SkillCount, lineUp[SkillCount].duration, fps)
<1> DEFINE summary == Rows!Score!Chart!BuildLevelSummary(chart)
           d == lineUp[SkillCount].duration
           dPrev == lineUp[SkillCount - 1].duration
<1>1. SkillCount \in 1..SkillCount /\ SkillCount \in 2..SkillCount /\ SkillCount - 1 \in 1..SkillCount /\ SkillCount # 1
  BY SkillsAssumption
<1>2. d \in Durations /\ dPrev \in Durations
  BY <1>1, LineUpIs
<1>3. /\ Rows!Score!Chart!CountAt(chart, SkillCount, d, fps) \in Nat
      /\ Rows!Score!DecodeNoteCount(summary.counts[d][SkillCount], fps) = Rows!Score!Chart!CountAt(chart, SkillCount, d, fps)
  BY <1>1, <1>2, CountsAreDecoded
<1>4. summary.overlaps[SkillCount][dPrev][d] = 0
  <2>1. summary.overlaps[SkillCount][dPrev][d] = Rows!Score!Chart!ShiftOf(chart, SkillCount, dPrev, d)
    BY <1>1, <1>2 DEF Rows!Score!Chart!BuildLevelSummary
  <2> QED BY <2>1 DEF Rows!Score!Scorable, Rows!Score!Chart!ShiftOf
<1>5. Rows!Score!NotesAt(summary, lineUp, SkillCount, fps)
        = Rows!Score!DecodeNoteCount(summary.counts[d][SkillCount], fps)
            + Rows!Score!DecodeNoteCount(summary.overlaps[SkillCount][dPrev][d], fps)
  BY <1>1 DEF Rows!Score!NotesAt
<1>6. Rows!Score!DecodeNoteCount(0, fps) = 0
  BY NothingIsDecoded
<1> HIDE DEF summary, d, dPrev
<1>7. Rows!Score!NotesAt(summary, lineUp, SkillCount, fps) = Rows!Score!Chart!CountAt(chart, SkillCount, d, fps)
  BY <1>3, <1>4, <1>5, <1>6
<1> QED BY <1>7 DEF summary, d

LEMMA WeightAndLeader ==
  ASSUME NEW chart, Rows!Score!Scorable(chart), NEW lineUp, LineUpTyped(lineUp), NEW fps \in Rates
  PROVE  LET summary == Rows!Score!Chart!BuildLevelSummary(chart)
             leaders == Rows!Score!SkillWeight(lineUp[SkillCount],
                          Rows!Score!Chart!CountAt(chart, SkillCount, lineUp[SkillCount].duration, fps))
         IN  /\ Rows!Score!Weight(summary, lineUp, fps) \in Int /\ leaders \in Int
             /\ Sum(Weights(lineUp, summary, fps, SkillCount), 1..SkillCount) = leaders + Rows!Score!Weight(summary, lineUp, fps)
<1> DEFINE summary == Rows!Score!Chart!BuildLevelSummary(chart)
           S == 1..SkillCount
           T == 1..(SkillCount - 1)
           w == Weights(lineUp, summary, fps, SkillCount)
           v == Weights(lineUp, summary, fps, SkillCount - 1)
           leaders == Rows!Score!SkillWeight(lineUp[SkillCount],
                        Rows!Score!Chart!CountAt(chart, SkillCount, lineUp[SkillCount].duration, fps))
<1>1. Summable(w, S)
  <2>1. 0 \in Nat
    OBVIOUS
  <2> QED BY <2>1, LineUpScoreBounds
<1>2. SkillCount \in S /\ T = S \ {SkillCount} /\ T \in SUBSET S
  BY SkillsAssumption
<1>3. \A i \in T : v[i] = w[i]
  BY <1>2 DEF Weights
<1>4. w[SkillCount] = leaders
  <2>1. w[SkillCount] = Rows!Score!SkillWeight(lineUp[SkillCount], Rows!Score!NotesAt(summary, lineUp, SkillCount, fps))
    BY <1>2 DEF Weights
  <2> QED BY <2>1, LeadersNotesStay
<1>5. Rows!Score!Weight(summary, lineUp, fps) = Sum(v, T)
  BY WeightIs
<1> HIDE DEF S, T, w, v, leaders, summary
<1>6. Sum(v, T) = Sum(w, T)
  BY <1>3, SumsAreEqual
<1>7. Sum(w, S) = w[SkillCount] + Sum(w, T) /\ w[SkillCount] \in Int
  BY <1>1, <1>2, SumWithout DEF Summable
<1>8. Sum(w, T) \in Int
  BY <1>1, <1>2, SumIsAdding, SumIsInt
<1> QED BY <1>4, <1>5, <1>6, <1>7, <1>8 DEF S, T, w, v, leaders, summary

\* The line-up of the greater weight scores no less, but for the rounding of its notes.
LEMMA ScoresFollowWeights ==
  ASSUME NEW chart, Rows!Score!Scorable(chart), NEW base \in Nat, NEW fps \in Rates,
         NEW l, LineUpTyped(l), NEW m, LineUpTyped(m), l[SkillCount] = m[SkillCount],
         Rows!Score!Weight(Rows!Score!Chart!BuildLevelSummary(chart), l, fps) <= Rows!Score!Weight(Rows!Score!Chart!BuildLevelSummary(chart), m, fps)
  PROVE  LET exact(u) == Rows!Score!CalcExactScoreInTurns(base, u, Rows!Score!Chart!BuildLevelSummary(chart), fps)
         IN  exact(l) \in Int /\ exact(m) \in Int /\ exact(l) < exact(m) + chart.total + 1
<1> DEFINE summary == Rows!Score!Chart!BuildLevelSummary(chart)
           exact(u) == Rows!Score!CalcExactScoreInTurns(base, u, summary, fps)
           s(u) == Sum(Scores(base, u, summary, fps), 1..SkillCount)
           c(u) == Sum(Counts(u, summary, fps), 1..SkillCount)
           w(u) == Sum(Weights(u, summary, fps, SkillCount), 1..SkillCount)
           a == 100 * base
<1>1. \A u \in {l, m} : LineUpTyped(u)
  OBVIOUS
<1>2. \A u \in {l, m} : s(u) \in Int /\ exact(u) = s(u) + (chart.total - c(u)) * base
  BY <1>1, ExactScoreIs
<1>3. \A u \in {l, m} : c(u) \in Int /\ chart.total \in Int /\ c(u) <= chart.total
  BY <1>1, CountsCoverTheBoosted
<1>4. \A u \in {l, m} : 100 * s(u) <= a * c(u) + base * w(u) /\ a * c(u) + base * w(u) <= 100 * s(u) + 99 * c(u)
  BY <1>1, LineUpScoreBounds
<1>5. w(l) \in Int /\ w(m) \in Int /\ w(l) <= w(m)
  BY <1>1, WeightAndLeader
<1>6. chart.total \in Nat
  <2>1. IsFiniteSet(DOMAIN chart.notes) /\ chart.total = SkillCount + Cardinality(DOMAIN chart.notes)
    BY DEF Rows!Score!Scorable, Rows!Score!Chart!Countable, Rows!Score!Chart!IsFiniteSet, IsFiniteSet, Rows!Score!Chart!Cardinality, Cardinality
  <2> QED BY <2>1, SkillsAssumption, FS_CardinalityType
<1> HIDE DEF exact, s, c, w, summary
<1>7. base * w(l) <= base * w(m) /\ base * w(l) \in Int /\ base * w(m) \in Int
  BY <1>5, TimesKeepsOrder
<1>8. \A u \in {l, m} : exact(u) \in Int /\ 100 * exact(u) = 100 * s(u) + a * chart.total - a * c(u)
  <2> SUFFICES ASSUME NEW u \in {l, m} PROVE exact(u) \in Int /\ 100 * exact(u) = 100 * s(u) + a * chart.total - a * c(u)
    OBVIOUS
  <2>1. (chart.total - c(u)) * base = base * chart.total - base * c(u) /\ base * chart.total \in Int /\ base * c(u) \in Int
    BY <1>3, <1>6
  <2>2. a * chart.total = 100 * (base * chart.total) /\ a * c(u) = 100 * (base * c(u))
    BY <1>3, <1>6
  <2> HIDE DEF a
  <2> QED BY <1>2, <2>1, <2>2
<1>9. \A u \in {l, m} : a * c(u) \in Int /\ a * chart.total \in Int
  BY <1>3, <1>6
<1> HIDE DEF a
<1>10. 100 * exact(l) <= a * chart.total + base * w(l)
  BY <1>2, <1>4, <1>7, <1>8, <1>9
<1>11. a * chart.total + base * w(m) <= 100 * exact(m) + 99 * c(m)
  BY <1>2, <1>3, <1>4, <1>7, <1>8, <1>9
<1>12. 100 * exact(l) <= 100 * exact(m) + 99 * chart.total
  BY <1>3, <1>6, <1>7, <1>8, <1>9, <1>10, <1>11
<1>13. exact(l) < exact(m) + chart.total + 1
  BY <1>6, <1>8, <1>12
<1> QED BY <1>8, <1>13 DEF exact, summary

\* There are finitely many orders of a team, and one of them is the heaviest, another the lightest.
LEMMA FunctionsAreFinite ==
  ASSUME NEW S, IsFiniteSet(S), NEW T, IsFiniteSet(T)
  PROVE  IsFiniteSet([S -> T])
<1> DEFINE G == SUBSET (S \X T)
           h == [g \in G |-> [x \in S |-> CHOOSE y : <<x, y>> \in g]]
           H == {h[g] : g \in G}
<1>1. IsFiniteSet(G)
  BY FS_Product, FS_SUBSET
<1>2. \A f \in [S -> T] : f \in H
  <2> SUFFICES ASSUME NEW f \in [S -> T] PROVE \E g \in G : f = h[g]
    OBVIOUS
  <2> DEFINE g == {<<x, f[x]>> : x \in S}
  <2>1. g \in G
    OBVIOUS
  <2>2. \A x \in S : \A y : <<x, y>> \in g <=> y = f[x]
    OBVIOUS
  <2> HIDE DEF g
  <2>3. \A x \in S : (CHOOSE y : <<x, y>> \in g) = f[x]
    BY <2>2
  <2>4. h[g] = f
    BY <2>1, <2>3
  <2> QED BY <2>1, <2>4
<1> HIDE DEF G, h
<1>3. IsFiniteSet(H)
  BY <1>1, ImageIsFinite
<1> HIDE DEF H
<1>4. [S -> T] \subseteq H
  BY <1>2
<1> QED BY <1>3, <1>4, FS_Subset

LEMMA LineUpsAre ==
  ASSUME NEW team \in [1..(SkillCount - 1) -> Rows!Score!Skills], NEW leader \in Rows!Score!Skills
  PROVE  /\ IsFiniteSet(Rows!Score!LineUps(team, leader)) /\ Rows!Score!LineUps(team, leader) # {}
         /\ \A l \in Rows!Score!LineUps(team, leader) : LineUpTyped(l) /\ l[SkillCount] = leader
<1> DEFINE S == 1..(SkillCount - 1)
           P == {f \in [S -> S] : \A i, j \in DOMAIN f : i # j => f[i] # f[j]}
           L == [path \in P |-> [i \in 1..SkillCount |-> IF i = SkillCount THEN leader ELSE team[path[i]]]]
<1>1. Rows!Score!LineUps(team, leader) = {L[path] : path \in P}
  BY DEF Rows!Score!LineUps
<1>2. IsFiniteSet(P)
  <2>1. IsFiniteSet([S -> S])
    <3> HIDE DEF S
    <3> QED BY PositionsAreFinite, FunctionsAreFinite DEF S
  <2> QED BY <2>1, FS_Subset
<1>3. P # {}
  <2>1. [i \in S |-> i] \in P
    OBVIOUS
  <2> QED BY <2>1
<1>4. \A path \in P : LineUpTyped(L[path]) /\ L[path][SkillCount] = leader
  <2> SUFFICES ASSUME NEW path \in P PROVE LineUpTyped(L[path]) /\ L[path][SkillCount] = leader
    OBVIOUS
  <2>1. L[path] = [i \in 1..SkillCount |-> IF i = SkillCount THEN leader ELSE team[path[i]]]
    OBVIOUS
  <2>2. \A i \in 1..SkillCount : i # SkillCount => team[path[i]] \in Rows!Score!Skills
    <3> SUFFICES ASSUME NEW i \in 1..SkillCount, i # SkillCount PROVE team[path[i]] \in Rows!Score!Skills
      OBVIOUS
    <3>1. i \in S
      BY SkillsAssumption
    <3>2. path \in [S -> S]
      OBVIOUS
    <3> QED BY <3>1, <3>2
  <2>3. SkillCount \in 1..SkillCount
    BY SkillsAssumption
  <2> HIDE DEF L, P, S
  <2> QED BY <2>1, <2>2, <2>3 DEF LineUpTyped
<1> HIDE DEF P, L
<1>5. IsFiniteSet({L[path] : path \in P})
  BY <1>2, ImageIsFinite
<1> QED BY <1>1, <1>3, <1>4, <1>5

LEMMA ExtremesExist ==
  ASSUME NEW chart, Rows!Score!Scorable(chart), NEW fps \in Rates,
         NEW team \in [1..(SkillCount - 1) -> Rows!Score!Skills], NEW leader \in Rows!Score!Skills
  PROVE  LET summary == Rows!Score!Chart!BuildLevelSummary(chart)
             L == Rows!Score!LineUps(team, leader)
             high == Rows!Score!Heaviest(team, leader, summary, fps)
             low == Rows!Score!Lightest(team, leader, summary, fps)
         IN  /\ high \in L /\ \A m \in L : Rows!Score!Weight(summary, m, fps) <= Rows!Score!Weight(summary, high, fps)
             /\ low \in L /\ \A m \in L : Rows!Score!Weight(summary, low, fps) <= Rows!Score!Weight(summary, m, fps)
<1> DEFINE summary == Rows!Score!Chart!BuildLevelSummary(chart)
           L == Rows!Score!LineUps(team, leader)
           w == [l \in L |-> Rows!Score!Weight(summary, l, fps)]
           W == {w[l] : l \in L}
<1>1. IsFiniteSet(L) /\ L # {} /\ \A l \in L : LineUpTyped(l)
  BY LineUpsAre
<1>2. \A l \in L : w[l] \in Int
  <2>1. \A l \in L : Rows!Score!Weight(summary, l, fps) \in Int
    BY <1>1, WeightAndLeader
  <2> HIDE DEF L, summary
  <2> QED BY <2>1
<1>3. \A l \in L : w[l] = Rows!Score!Weight(summary, l, fps)
  OBVIOUS
<1>4. /\ Rows!Score!Heaviest(team, leader, summary, fps)
           = CHOOSE l \in L : \A m \in L : Rows!Score!Weight(summary, m, fps) <= Rows!Score!Weight(summary, l, fps)
      /\ Rows!Score!Lightest(team, leader, summary, fps)
           = CHOOSE l \in L : \A m \in L : Rows!Score!Weight(summary, l, fps) <= Rows!Score!Weight(summary, m, fps)
  BY DEF Rows!Score!Heaviest, Rows!Score!Lightest
<1> HIDE DEF L, w, summary
<1>5. IsFiniteSet(W)
  BY <1>1, ImageIsFinite
<1>6. W \in SUBSET Int /\ W # {}
  BY <1>1, <1>2
<1>7. \E x \in W : \A y \in W : y <= x
  <2> HIDE DEF W
  <2> QED BY <1>5, <1>6, GreatestExists
<1>8. \E x \in W : \A y \in W : x <= y
  <2> HIDE DEF W
  <2> QED BY <1>5, <1>6, LeastExists
<1>9. \E l \in L : \A m \in L : Rows!Score!Weight(summary, m, fps) <= Rows!Score!Weight(summary, l, fps)
  BY <1>3, <1>7
<1>10. \E l \in L : \A m \in L : Rows!Score!Weight(summary, l, fps) <= Rows!Score!Weight(summary, m, fps)
  BY <1>3, <1>8
<1> QED BY <1>4, <1>9, <1>10 DEF L, summary

LEMMA ExtremesAreExtreme ==
  ASSUME NEW chart, Rows!Score!Scorable(chart), NEW base \in Nat,
         NEW team \in [1..(SkillCount - 1) -> Rows!Score!Skills], NEW leader \in Rows!Score!Skills
  PROVE  Rows!Score!ScoreIsPlayed(chart, base, team, leader) /\ Rows!Score!ExtremesAreFound(chart, base, team, leader)
<1> DEFINE summary == Rows!Score!Chart!BuildLevelSummary(chart)
           L == Rows!Score!LineUps(team, leader)
           exact(u, r) == Rows!Score!CalcExactScoreInTurns(base, u, summary, r)
<1>1. \A l \in L : LineUpTyped(l) /\ l[SkillCount] = leader
  BY LineUpsAre
<1>2. Rows!Score!ScoreIsPlayed(chart, base, team, leader)
  BY <1>1, ScoresArePlayedOut DEF Rows!Score!ScoreIsPlayed, Rates
<1>3. ASSUME NEW fps \in Rates, NEW l \in L
      PROVE  LET found == Rows!Score!CalcScore(base, team, leader, summary, fps)
             IN  /\ exact(l, fps) < found.maxScore + summary.total + 1
                 /\ exact(l, fps) > found.minScore - summary.total - 1
  <2> DEFINE high == Rows!Score!Heaviest(team, leader, summary, fps)
             low == Rows!Score!Lightest(team, leader, summary, fps)
  <2>1. /\ high \in L /\ Rows!Score!Weight(summary, l, fps) <= Rows!Score!Weight(summary, high, fps)
        /\ low \in L /\ Rows!Score!Weight(summary, low, fps) <= Rows!Score!Weight(summary, l, fps)
    BY ExtremesExist
  <2>2. /\ Rows!Score!CalcScore(base, team, leader, summary, fps).maxScore = exact(high, fps)
        /\ Rows!Score!CalcScore(base, team, leader, summary, fps).minScore = exact(low, fps)
    BY DEF Rows!Score!CalcScore
  <2>3. summary.total = chart.total /\ chart.total \in Int
    BY <1>1, CountsCoverTheBoosted
  <2> HIDE DEF high, low, L
  <2>4. exact(l, fps) \in Int /\ exact(high, fps) \in Int /\ exact(l, fps) < exact(high, fps) + chart.total + 1
    BY <1>1, <2>1, ScoresFollowWeights
  <2>5. exact(low, fps) \in Int /\ exact(low, fps) < exact(l, fps) + chart.total + 1
    BY <1>1, <2>1, ScoresFollowWeights
  <2> HIDE DEF exact, summary
  <2>6. exact(l, fps) > exact(low, fps) - chart.total - 1
    BY <2>3, <2>4, <2>5
  <2> QED BY <2>2, <2>3, <2>4, <2>6
<1>4. Rows!Score!ExtremesAreFound(chart, base, team, leader)
  BY <1>3 DEF Rows!Score!ExtremesAreFound, Rates
<1> QED BY <1>2, <1>4

LEMMA ChartIsScored == ASSUME input \in Inputs PROVE ScoresArePlayed
<1> SUFFICES ASSUME input.of = "chart"
             PROVE  LET chart == Rows!Score!Chart!Normalize(input.items, input.tempo)
                    IN  /\ Rows!Score!ScoreIsPlayed(chart, input.base, input.team, input.team[1])
                        /\ Rows!Score!ExtremesAreFound(chart, input.base, input.team, input.team[1])
  BY DEF ScoresArePlayed
<1> DEFINE chart == Rows!Score!Chart!Normalize(input.items, input.tempo)
<1>1. input.base \in Nat /\ input.team \in [1..(SkillCount - 1) -> Rows!Score!Skills] /\ Rows!Score!Scorable(chart)
  BY InputsAssumption
<1>2. 1 \in 1..(SkillCount - 1)
  BY SkillsAssumption
<1>3. input.team[1] \in Rows!Score!Skills
  BY <1>1, <1>2
<1> HIDE DEF chart
<1> QED BY <1>1, <1>3, ExtremesAreExtreme DEF chart

-----------------------------------------------------------------------------
\* Plays for a target.  Whatever is added up in another order gives the same sum.
Permutes(pi, S) ==
  /\ pi \in [S -> S]
  /\ \A x, y \in S : x # y => pi[x] # pi[y]
  /\ \A y \in S : \E x \in S : pi[x] = y

Moved(f, pi, S) == [x \in S |-> f[pi[x]]]

LEMMA SumReordered ==
  ASSUME NEW S, NEW f, Summable(f, S), NEW pi, Permutes(pi, S)
  PROVE  Summable(Moved(f, pi, S), S) /\ Sum(Moved(f, pi, S), S) = Sum(f, S)
<1> DEFINE h == Moved(f, pi, S)
           Image(T) == {pi[x] : x \in T}
           W == {T \in SUBSET S : Sum(h, T) = Sum(f, Image(T))}
<1>1. Summable(h, S) /\ \A x \in S : h[x] = f[pi[x]]
  BY DEF Summable, Moved, Permutes
<1> HIDE DEF h
<1>2. {} \in W
  <2>1. Image({}) = {}
    OBVIOUS
  <2> HIDE DEF Image
  <2> QED BY <2>1, SumOfNone
<1>3. ASSUME NEW T, NEW x, NEW U, Grown(S, T, x, U), T \in W PROVE U \in W
  <2>1. T \in SUBSET S /\ x \in S /\ x \notin T /\ U = T \union {x}
    BY <1>3 DEF Grown
  <2>2. Sum(h, U) = h[x] + Sum(h, T)
    BY <1>1, <1>3, SumWith
  <2>3. Grown(S, Image(T), pi[x], Image(U))
    <3>1. Image(T) \in SUBSET S /\ pi[x] \in S /\ Image(U) = Image(T) \union {pi[x]}
      BY <2>1 DEF Permutes
    <3>2. \A y \in T : y # x /\ y \in S
      BY <2>1
    <3>3. \A y \in T : pi[y] # pi[x]
      BY <2>1, <3>2 DEF Permutes
    <3>4. pi[x] \notin Image(T)
      BY <3>3
    <3> QED BY <3>1, <3>4 DEF Grown
  <2> HIDE DEF Image
  <2>4. Sum(f, Image(U)) = f[pi[x]] + Sum(f, Image(T))
    BY <2>3, SumWith
  <2>5. Sum(h, T) = Sum(f, Image(T)) /\ U \in SUBSET S
    BY <1>3, <2>1
  <2> QED BY <1>1, <2>1, <2>2, <2>4, <2>5
<1>4. Image(S) = S
  BY DEF Permutes
<1> HIDE DEF W, Image
<1>5. \A T \in SUBSET S : T \in W
  BY <1>2, <1>3, AllGrown DEF Summable
<1> QED BY <1>1, <1>4, <1>5 DEF W, h

LEMMA SumFunctionIs == ASSUME NEW f PROVE Control!SumFunction(f) = Sum(f, DOMAIN f)
<1> DEFINE S == DOMAIN f
           A(g) == g = [T \in SUBSET S |-> IF T = {} THEN 0 ELSE f[Pick(T)] + g[T \ {Pick(T)}]]
<1>1. Control!SumFunction(f) = (CHOOSE g : A(g))[S]
  BY DEF Control!SumFunction, Control!SumFunctionOnSet, Control!FoldFunctionOnSet, Control!MapThenFoldSet, Pick
<1> HIDE DEF S
<1>2. \A g : A(g) <=> Adds(g, f, S)
  BY DEF Adds
<1>3. (CHOOSE g : A(g)) = (CHOOSE g : Adds(g, f, S))
  BY <1>2
<1> QED BY <1>1, <1>3 DEF Sum, Adding, S

\* A sum of what is never negative is not, and it is at least any of its terms.
LEMMA SumIsNatural ==
  ASSUME NEW S, NEW f, Summable(f, S), \A x \in S : f[x] >= 0
  PROVE  /\ Sum(f, S) \in Nat
         /\ \A x \in S : f[x] <= Sum(f, S)
<1> DEFINE W == {T \in SUBSET S : Sum(f, T) >= 0}
<1>1. {} \in W
  BY SumOfNone
<1>2. ASSUME NEW T, NEW x, NEW U, Grown(S, T, x, U), T \in W PROVE U \in W
  <2>1. Sum(f, U) = f[x] + Sum(f, T) /\ Sum(f, T) \in Int /\ f[x] \in Int
    BY <1>2, SumWith
  <2>2. U \in SUBSET S /\ x \in S
    BY <1>2 DEF Grown
  <2> QED BY <1>2, <2>1, <2>2
<1>3. \A T \in SUBSET S : T \in W
  <2> HIDE DEF W
  <2> QED BY <1>1, <1>2, AllGrown DEF Summable
<1>4. \A T \in SUBSET S : Sum(f, T) \in Int
  BY SumIsAdding, SumIsInt
<1>5. ASSUME NEW x \in S PROVE f[x] <= Sum(f, S)
  <2>1. Sum(f, S) = f[x] + Sum(f, S \ {x}) /\ f[x] \in Int
    BY SumWithout DEF Summable
  <2>2. S \ {x} \in SUBSET S
    OBVIOUS
  <2>3. Sum(f, S \ {x}) \in Int /\ Sum(f, S \ {x}) >= 0
    BY <1>3, <1>4, <2>2
  <2> QED BY <2>1, <2>3
<1>6. S \in SUBSET S
  OBVIOUS
<1>7. Sum(f, S) \in Int /\ Sum(f, S) >= 0
  BY <1>3, <1>4, <1>6
<1> QED BY <1>5, <1>7

\* Strict total orders of 1..n: the rank of an element is a permutation, and its inverse lists the
\* elements in their order.
Orders(R, S) ==
  /\ \A x \in S : <<x, x>> \notin R
  /\ \A x, y \in S : x # y => <<x, y>> \in R \/ <<y, x>> \in R
  /\ \A x, y, z \in S : <<x, y>> \in R /\ <<y, z>> \in R => <<x, z>> \in R

LEMMA OrderIsListed ==
  ASSUME NEW n \in Nat, NEW R, Orders(R, 1..n)
  PROVE  \E pi : Permutes(pi, 1..n) /\ \A i, j \in 1..n : i < j => <<pi[i], pi[j]>> \in R
<1> DEFINE S == 1..n
           P == [x \in S |-> {y \in S : <<y, x>> \in R}]
           rank == [x \in S |-> Cardinality(P[x]) + 1]
<1>1. IsFiniteSet(S) /\ Cardinality(S) = n
  BY FS_Interval
<1> HIDE DEF S
<1>2. \A x \in S : P[x] \subseteq S \ {x} /\ IsFiniteSet(P[x]) /\ Cardinality(P[x]) \in Nat /\ Cardinality(P[x]) <= n - 1
  <2> SUFFICES ASSUME NEW x \in S
               PROVE  P[x] \subseteq S \ {x} /\ IsFiniteSet(P[x]) /\ Cardinality(P[x]) \in Nat /\ Cardinality(P[x]) <= n - 1
    OBVIOUS
  <2>1. P[x] \subseteq S \ {x}
    BY DEF Orders, S
  <2> HIDE DEF P
  <2>2. IsFiniteSet(S \ {x}) /\ Cardinality(S \ {x}) = n - 1
    BY <1>1, FS_RemoveElement
  <2> QED BY <2>1, <2>2, FS_Subset, FS_CardinalityType
<1>3. \A x, y \in S : <<x, y>> \in R => rank[x] < rank[y]
  <2> SUFFICES ASSUME NEW x \in S, NEW y \in S, <<x, y>> \in R PROVE rank[x] < rank[y]
    OBVIOUS
  <2>1. P[x] \subseteq P[y] /\ x \in P[y]
    BY DEF Orders, S
  <2>2. x \notin P[x] /\ P[x] # P[y]
    BY <1>2, <2>1
  <2>3. Cardinality(P[x]) + 1 = rank[x] /\ Cardinality(P[y]) + 1 = rank[y]
    OBVIOUS
  <2> HIDE DEF P, rank
  <2>4. Cardinality(P[x]) <= Cardinality(P[y]) /\ Cardinality(P[x]) # Cardinality(P[y])
    BY <1>2, <2>1, <2>2, FS_Subset
  <2> QED BY <1>2, <2>3, <2>4
<1>4. \A x \in S : rank[x] \in 1..n
  <2>1. \A x \in S : rank[x] = Cardinality(P[x]) + 1
    OBVIOUS
  <2> HIDE DEF P, rank
  <2> QED BY <1>2, <2>1
<1>5. \A x, y \in S : x # y => rank[x] # rank[y]
  <2>1. \A x, y \in S : x # y => <<x, y>> \in R \/ <<y, x>> \in R
    BY DEF Orders, S
  <2> HIDE DEF rank
  <2> SUFFICES ASSUME NEW x \in S, NEW y \in S, x # y PROVE rank[x] # rank[y]
    OBVIOUS
  <2>2. rank[x] < rank[y] \/ rank[y] < rank[x]
    BY <1>3, <2>1
  <2>3. rank[x] \in 1..n /\ rank[y] \in 1..n
    BY <1>4
  <2>4. rank[x] \in Int /\ rank[y] \in Int
    BY <2>3
  <2> QED BY <2>2, <2>4
<1>6. rank \in [S -> S]
  BY <1>4 DEF S
<1> HIDE DEF P, rank
<1>7. \A k \in S : \E x \in S : rank[x] = k
  <2>1. rank \in Injection(S, S)
    BY <1>5, <1>6 DEF Injection, IsInjective
  <2>2. rank \in Surjection(S, S)
    BY <1>1, <2>1, FS_Injection
  <2> QED BY <2>2 DEF Surjection
<1> DEFINE pi == [k \in S |-> CHOOSE x \in S : rank[x] = k]
<1>8. \A k \in S : pi[k] \in S /\ rank[pi[k]] = k
  BY <1>7
<1>9. pi \in [S -> S]
  BY <1>8
<1> HIDE DEF pi
<1>10. \A y \in S : pi[rank[y]] = y
  BY <1>5, <1>6, <1>8
<1>11. Permutes(pi, S)
  <2>1. \A x, y \in S : x # y => pi[x] # pi[y]
    BY <1>8
  <2>2. \A y \in S : \E x \in S : pi[x] = y
    BY <1>6, <1>10
  <2> QED BY <1>9, <2>1, <2>2 DEF Permutes
<1>12. \A i, j \in S : i < j => <<pi[i], pi[j]>> \in R
  <2> SUFFICES ASSUME NEW i \in S, NEW j \in S, i < j PROVE <<pi[i], pi[j]>> \in R
    OBVIOUS
  <2>1. pi[i] \in S /\ pi[j] \in S /\ rank[pi[i]] = i /\ rank[pi[j]] = j /\ i \in Nat /\ j \in Nat
    BY <1>8 DEF S
  <2>2. pi[i] # pi[j]
    BY <2>1
  <2>3. ASSUME <<pi[j], pi[i]>> \in R PROVE FALSE
    <3>1. rank[pi[j]] < rank[pi[i]]
      BY <1>3, <2>1, <2>3
    <3>2. j < i /\ i \in Int /\ j \in Int
      BY <2>1, <3>1
    <3> QED BY <3>2
  <2> QED BY <2>1, <2>2, <2>3 DEF Orders, S
<1> QED BY <1>11, <1>12 DEF S

-----------------------------------------------------------------------------
\* The plays that give a target: for each of n plays a multiplier and the points of a song.
ProductsOf(f, n) == [i \in 1..n |-> f[i][1] * f[i][2]]
TotalOf(f, n) == Sum(ProductsOf(f, n), 1..n)
Plays(n, basePTs) == [1..n -> Control!Multipliers \X basePTs]
Solutions(target, n, basePTs) == {f \in Plays(n, basePTs) : TotalOf(f, n) = target}
BagOf(f, n) == [x \in {f[i] : i \in 1..n} |-> Cardinality({i \in 1..n : f[i] = x})]
BasesTyped(basePTs) == IsFiniteSet(basePTs) /\ basePTs \subseteq Nat \ {0}

LEMMA PlaysAre ==
  ASSUME NEW n \in Nat, NEW basePTs, BasesTyped(basePTs), NEW f \in Plays(n, basePTs), NEW i \in 1..n
  PROVE  /\ f[i][1] \in Control!Multipliers /\ f[i][1] \in 1..15 /\ f[i][2] \in basePTs /\ f[i][2] \in Nat \ {0}
         /\ f[i] = <<f[i][1], f[i][2]>>
         /\ ProductsOf(f, n)[i] = f[i][1] * f[i][2] /\ f[i][1] * f[i][2] \in Nat
<1>1. f[i] \in Control!Multipliers \X basePTs
  BY DEF Plays
<1>2. f[i][1] \in Control!Multipliers /\ f[i][2] \in basePTs /\ f[i] = <<f[i][1], f[i][2]>>
  BY <1>1
<1>3. f[i][1] \in 1..15 /\ f[i][2] \in Nat \ {0}
  <2>1. \A m \in Control!Multipliers : m \in 1..15
    BY DEF Control!Multipliers
  <2>2. \A b \in basePTs : b \in Nat \ {0}
    BY DEF BasesTyped
  <2> QED BY <1>2, <2>1, <2>2
<1>4. f[i][1] * f[i][2] \in Nat
  BY <1>3
<1> QED BY <1>2, <1>3, <1>4 DEF ProductsOf

LEMMA ProductsAre ==
  ASSUME NEW n \in Nat, NEW basePTs, BasesTyped(basePTs), NEW f \in Plays(n, basePTs)
  PROVE  /\ Summable(ProductsOf(f, n), 1..n) /\ TotalOf(f, n) \in Nat
         /\ Control!SumFunction(ProductsOf(f, n)) = TotalOf(f, n)
<1>1. \A i \in 1..n : ProductsOf(f, n)[i] \in Nat
  <2> SUFFICES ASSUME NEW i \in 1..n PROVE ProductsOf(f, n)[i] \in Nat
    OBVIOUS
  <2>1. ProductsOf(f, n)[i] = f[i][1] * f[i][2] /\ f[i][1] * f[i][2] \in Nat
    BY PlaysAre
  <2> QED BY <2>1
<1>2. Summable(ProductsOf(f, n), 1..n)
  BY <1>1, FS_Interval DEF Summable
<1>3. TotalOf(f, n) \in Nat
  BY <1>1, <1>2, SumIsNatural DEF TotalOf
<1>4. Control!SumFunction(ProductsOf(f, n)) = Sum(ProductsOf(f, n), DOMAIN ProductsOf(f, n))
  BY SumFunctionIs
<1>5. DOMAIN ProductsOf(f, n) = 1..n
  BY DEF ProductsOf
<1> QED BY <1>2, <1>3, <1>4, <1>5 DEF TotalOf

\* The multipliers alone.
CombinationOf(f, n) == [i \in 1..n |-> f[i][1]]
PointsAlone(f, n) == [i \in 1..n |-> f[i][2]]

LEMMA CombinationIs ==
  ASSUME NEW n \in Nat, NEW basePTs, BasesTyped(basePTs), NEW f \in Plays(n, basePTs)
  PROVE  /\ CombinationOf(f, n) \in [1..n -> Control!Multipliers] /\ PointsAlone(f, n) \in [1..n -> basePTs]
         /\ Len(CombinationOf(f, n)) = n
         /\ \A i \in 1..n : CombinationOf(f, n)[i] = f[i][1] /\ PointsAlone(f, n)[i] = f[i][2]
         /\ Summable(CombinationOf(f, n), 1..n) /\ Sum(CombinationOf(f, n), 1..n) \in Nat
         /\ Control!SumFunction(CombinationOf(f, n)) = Sum(CombinationOf(f, n), 1..n)
         /\ DOMAIN CombinationOf(f, n) = 1..n
<1>1. \A i \in 1..n : CombinationOf(f, n)[i] = f[i][1] /\ PointsAlone(f, n)[i] = f[i][2]
  BY DEF CombinationOf, PointsAlone
<1>2. \A i \in 1..n : f[i][1] \in Control!Multipliers /\ f[i][1] \in 1..15 /\ f[i][2] \in basePTs
  BY PlaysAre
<1>3. CombinationOf(f, n) \in [1..n -> Control!Multipliers] /\ PointsAlone(f, n) \in [1..n -> basePTs]
  BY <1>2 DEF CombinationOf, PointsAlone
<1>4. Summable(CombinationOf(f, n), 1..n)
  <2>1. \A i \in 1..n : CombinationOf(f, n)[i] \in 1..15
    BY <1>1, <1>2
  <2>2. \A i \in 1..n : CombinationOf(f, n)[i] \in Int
    BY <2>1
  <2>3. IsFiniteSet(1..n)
    BY FS_Interval
  <2> QED BY <2>2, <2>3 DEF Summable
<1>5. \A i \in 1..n : CombinationOf(f, n)[i] >= 0
  BY <1>1, <1>2
<1>6. Sum(CombinationOf(f, n), 1..n) \in Nat
  BY <1>4, <1>5, SumIsNatural
<1>7. DOMAIN CombinationOf(f, n) = 1..n
  BY DEF CombinationOf
<1>8. Control!SumFunction(CombinationOf(f, n)) = Sum(CombinationOf(f, n), 1..n)
  BY <1>7, SumFunctionIs
<1>9. Len(CombinationOf(f, n)) = n
  BY <1>3
<1> QED BY <1>1, <1>3, <1>4, <1>6, <1>7, <1>8, <1>9

LEMMA BoundsOfBases ==
  ASSUME NEW basePTs, BasesTyped(basePTs), basePTs # {}
  PROVE  /\ Control!Min(basePTs) \in basePTs /\ Control!Max(basePTs) \in basePTs
         /\ Control!Min(basePTs) \in Nat \ {0} /\ Control!Max(basePTs) \in Nat \ {0}
         /\ \A b \in basePTs : Control!Min(basePTs) <= b /\ b <= Control!Max(basePTs)
<1>1. basePTs \in SUBSET Int /\ IsFiniteSet(basePTs)
  BY DEF BasesTyped
<1>2. \E x \in basePTs : \A y \in basePTs : y <= x
  BY <1>1, GreatestExists
<1>3. \E x \in basePTs : \A y \in basePTs : x <= y
  BY <1>1, LeastExists
<1>4. Control!Max(basePTs) \in basePTs /\ \A y \in basePTs : Control!Max(basePTs) >= y
  BY <1>1, <1>2 DEF Control!Max
<1>5. Control!Min(basePTs) \in basePTs /\ \A y \in basePTs : Control!Min(basePTs) <= y
  BY <1>1, <1>3 DEF Control!Min
<1>6. Control!Min(basePTs) \in Nat \ {0} /\ Control!Max(basePTs) \in Nat \ {0}
  BY <1>4, <1>5 DEF BasesTyped
<1>7. \A b \in basePTs : b \in Int
  BY <1>1
<1> QED BY <1>4, <1>5, <1>6, <1>7

\* The first filter leaves out no solution: a multiplier gives at least the least points and at most
\* the greatest.
LEMMA SolutionsAreInRange ==
  ASSUME NEW n \in Nat, NEW basePTs, BasesTyped(basePTs), basePTs # {},
         NEW f \in Plays(n, basePTs)
  PROVE  /\ Control!Min(basePTs) * Sum(CombinationOf(f, n), 1..n) <= TotalOf(f, n)
         /\ TotalOf(f, n) <= Control!Max(basePTs) * Sum(CombinationOf(f, n), 1..n)
         /\ Control!InRange(TotalOf(f, n), CombinationOf(f, n), basePTs)
<1> DEFINE c == CombinationOf(f, n)
           t == TotalOf(f, n)
           lo == Control!Min(basePTs)
           hi == Control!Max(basePTs)
           s == Sum(c, 1..n)
           low == Combined(c, c, lo, 0, 1..n)
           high == Combined(c, c, hi, 0, 1..n)
<1>1. lo \in Nat \ {0} /\ hi \in Nat \ {0} /\ \A b \in basePTs : lo <= b /\ b <= hi
  BY BoundsOfBases
<1>2. Summable(c, 1..n) /\ s \in Nat /\ Control!SumFunction(c) = s /\ \A i \in 1..n : c[i] = f[i][1]
  BY CombinationIs
<1>3. Summable(ProductsOf(f, n), 1..n) /\ t \in Nat /\ t = Sum(ProductsOf(f, n), 1..n)
  BY ProductsAre DEF TotalOf
<1> HIDE DEF c, t, s, lo, hi
<1>4. lo \in Int /\ hi \in Int /\ 0 \in Int
  BY <1>1
<1>5. Summable(low, 1..n) /\ Sum(low, 1..n) = lo * Sum(c, 1..n) + 0 * Sum(c, 1..n)
  BY <1>2, <1>4, SumLinear
<1>6. Summable(high, 1..n) /\ Sum(high, 1..n) = hi * Sum(c, 1..n) + 0 * Sum(c, 1..n)
  BY <1>2, <1>4, SumLinear
<1>7. \A i \in 1..n : low[i] <= ProductsOf(f, n)[i] /\ ProductsOf(f, n)[i] <= high[i]
  <2> SUFFICES ASSUME NEW i \in 1..n PROVE low[i] <= ProductsOf(f, n)[i] /\ ProductsOf(f, n)[i] <= high[i]
    OBVIOUS
  <2>1. f[i][1] \in 1..15 /\ f[i][2] \in basePTs /\ f[i][2] \in Nat \ {0} /\ ProductsOf(f, n)[i] = f[i][1] * f[i][2]
    BY PlaysAre
  <2>2. low[i] = lo * c[i] + 0 * c[i] /\ high[i] = hi * c[i] + 0 * c[i] /\ c[i] = f[i][1]
    BY <1>2 DEF Combined
  <2> DEFINE m == f[i][1]
             b == f[i][2]
  <2>3. m \in Nat /\ b \in Int /\ lo <= b /\ b <= hi
    BY <1>1, <2>1
  <2> HIDE DEF m, b
  <2>4. lo * m <= b * m /\ b * m <= hi * m /\ lo * m \in Int /\ b * m \in Int /\ hi * m \in Int
    BY <1>4, <2>3, TimesKeepsOrder
  <2>5. low[i] = lo * m /\ high[i] = hi * m
    BY <1>4, <2>2, <2>3 DEF m
  <2>6. ProductsOf(f, n)[i] = b * m
    BY <2>1, <2>3 DEF m, b
  <2> QED BY <2>4, <2>5, <2>6
<1>8. Sum(low, 1..n) <= t /\ t <= Sum(high, 1..n)
  <2> HIDE DEF low, high
  <2>1. Sum(low, 1..n) <= Sum(ProductsOf(f, n), 1..n)
    BY <1>3, <1>5, <1>7, SumLeq
  <2>2. Sum(ProductsOf(f, n), 1..n) <= Sum(high, 1..n)
    BY <1>3, <1>6, <1>7, SumLeq
  <2> QED BY <1>3, <2>1, <2>2
<1> HIDE DEF low, high
<1>9. lo * s <= t /\ t <= hi * s /\ lo * s \in Int /\ hi * s \in Int
  <2>1. Sum(low, 1..n) = lo * s /\ Sum(high, 1..n) = hi * s /\ lo * s \in Int /\ hi * s \in Int
    BY <1>2, <1>4, <1>5, <1>6 DEF s
  <2> QED BY <1>8, <2>1
<1>10. Control!CeilDiv(t, hi) <= s
  <2> DEFINE q == (-t) \div hi
  <2>0. -t \in Int /\ Control!CeilDiv(t, hi) = -q
    BY <1>3 DEF Control!CeilDiv
  <2>1. q \in Int /\ q * hi <= -t /\ -t < q * hi + hi /\ Control!CeilDiv(t, hi) = -q
    BY <1>1, <2>0, DivBounds
  <2> HIDE DEF q
  <2>2. CASE s <= -q - 1
    <3>0. -q - 1 \in Int /\ s \in Int /\ hi \in Nat /\ s <= -q - 1
      BY <1>1, <1>2, <2>1, <2>2
    <3>1. s * hi <= (-q - 1) * hi
      BY <3>0, TimesKeepsOrder
    <3>2. (-q - 1) * hi = -(q * hi) - hi /\ s * hi = hi * s /\ q * hi \in Int
      BY <1>1, <1>2, <2>1
    <3> QED BY <1>1, <1>3, <1>9, <2>1, <3>1, <3>2
  <2>3. CASE s >= -q
    BY <2>1, <2>3
  <2> QED BY <1>2, <2>1, <2>2, <2>3
<1>11. s <= t \div lo
  <2> DEFINE q == t \div lo
  <2>0. t \in Int
    BY <1>3
  <2>1. q \in Int /\ q * lo <= t /\ t < q * lo + lo
    BY <1>1, <2>0, DivBounds
  <2> HIDE DEF q
  <2>2. CASE s >= q + 1
    <3>0. q + 1 \in Int /\ s \in Int /\ lo \in Nat /\ q + 1 <= s
      BY <1>1, <1>2, <2>1, <2>2
    <3>1. (q + 1) * lo <= s * lo
      BY <3>0, TimesKeepsOrder
    <3>2. (q + 1) * lo = q * lo + lo /\ s * lo = lo * s /\ q * lo \in Int
      BY <1>1, <1>2, <2>1
    <3> QED BY <1>1, <1>3, <1>9, <2>1, <3>1, <3>2
  <2>3. CASE s <= q
    BY <2>3 DEF q
  <2> QED BY <1>2, <2>1, <2>2, <2>3
<1>12. t \div lo \in Int /\ Control!CeilDiv(t, hi) \in Int
  <2>1. (-t) \div hi \in Int /\ t \div lo \in Int
    BY <1>1, <1>3, DivBounds
  <2> QED BY <2>1 DEF Control!CeilDiv
<1>13. Control!SumFunction(c) \in Control!CeilDiv(t, hi)..(t \div lo)
  BY <1>2, <1>10, <1>11, <1>12
<1>14. Control!InRange(t, c, basePTs)
  BY <1>13 DEF Control!InRange, hi, lo
<1> QED BY <1>9, <1>14 DEF c, t, s, lo, hi

LEMMA MultipleIs == ASSUME NEW x \in Nat, NEW y \in Nat \ {0}, x % y = 0 PROVE x \div y \in Int /\ x = y * (x \div y)
OBVIOUS

\* The second filter leaves out none either: what divides every multiplier divides the target.
LEMMA GcdDivides ==
  ASSUME NEW n \in Nat, NEW basePTs, BasesTyped(basePTs), NEW f \in Plays(n, basePTs)
  PROVE  TotalOf(f, n) % Control!Gcd(CombinationOf(f, n)) = 0
<1> DEFINE c == CombinationOf(f, n)
           Divides(g) == \A i \in DOMAIN c : c[i] % g = 0
           D == {g \in 1..15 : Divides(g)}
           g == Control!Gcd(c)
<1>1. DOMAIN c = 1..n /\ \A i \in 1..n : c[i] = f[i][1] /\ c[i] \in 1..15
  BY CombinationIs, PlaysAre
<1> HIDE DEF c
<1>2. 1 \in D
  <2>1. \A i \in DOMAIN c : c[i] % 1 = 0
    BY <1>1
  <2> QED BY <2>1
<1>3. IsFiniteSet(D) /\ D \in SUBSET Int
  <2>1. IsFiniteSet(1..15)
    <3> HIDE DEF D, g, Divides
    <3>1. 1 \in Int /\ 15 \in Int
      OBVIOUS
    <3> QED BY <3>1, FS_Interval
  <2>2. D \subseteq 1..15 /\ D \in SUBSET Int
    OBVIOUS
  <2> HIDE DEF D
  <2> QED BY <2>1, <2>2, FS_Subset
<1>4. PICK x \in D : \A y \in D : y <= x
  <2> HIDE DEF D
  <2> QED BY <1>2, <1>3, GreatestExists
<1>5. \A h \in (x + 1)..15 : \E i \in DOMAIN c : c[i] % h # 0
  <2> SUFFICES ASSUME NEW h \in (x + 1)..15 PROVE \E i \in DOMAIN c : c[i] % h # 0
    OBVIOUS
  <2>1. x \in 1..15 /\ h \in 1..15 /\ ~(h <= x)
    OBVIOUS
  <2>2. h \notin D
    BY <1>4, <2>1
  <2> QED BY <2>1, <2>2
<1>6. g \in 1..15 /\ \A i \in DOMAIN c : c[i] % g = 0
  <2>1. x \in 1..15 /\ \A i \in DOMAIN c : c[i] % x = 0
    OBVIOUS
  <2> QED BY <1>5, <2>1 DEF Control!Gcd
<1> HIDE DEF D, g
<1> DEFINE rest == [i \in 1..n |-> (c[i] \div g) * f[i][2]]
           times == Combined(rest, rest, g, 0, 1..n)
<1>7. \A i \in 1..n : rest[i] \in Int /\ g * rest[i] = ProductsOf(f, n)[i]
  <2> SUFFICES ASSUME NEW i \in 1..n PROVE rest[i] \in Int /\ g * rest[i] = ProductsOf(f, n)[i]
    OBVIOUS
  <2> DEFINE q == c[i] \div g
             b == f[i][2]
  <2>0. ProductsOf(f, n)[i] = f[i][1] * f[i][2] /\ b \in Nat \ {0}
    BY PlaysAre
  <2>1. b \in Nat /\ ProductsOf(f, n)[i] = c[i] * b /\ c[i] \in Nat /\ rest[i] = q * b
    BY <1>1, <2>0
  <2>2. q \in Int /\ c[i] = g * q
    <3>1. c[i] \in Nat /\ g \in Nat \ {0} /\ c[i] % g = 0
      BY <1>1, <1>6, <2>1
    <3> QED BY <3>1, MultipleIs
  <2> HIDE DEF q, b, rest
  <2>3. q * b \in Int /\ g * (q * b) = (g * q) * b
    BY <1>6, <2>1, <2>2
  <2> QED BY <2>1, <2>2, <2>3
<1>8. Summable(rest, 1..n)
  BY <1>7, FS_Interval DEF Summable
<1> HIDE DEF rest
<1>9. g \in Int /\ 0 \in Int
  BY <1>6
<1>10. Sum(times, 1..n) = g * Sum(rest, 1..n) + 0 * Sum(rest, 1..n)
  BY <1>8, <1>9, SumLinear
<1>11. \A i \in 1..n : ProductsOf(f, n)[i] = times[i]
  <2> SUFFICES ASSUME NEW i \in 1..n PROVE ProductsOf(f, n)[i] = times[i]
    OBVIOUS
  <2>1. times[i] = g * rest[i] + 0 * rest[i]
    BY DEF Combined
  <2>2. g * rest[i] \in Int /\ 0 * rest[i] = 0
    BY <1>7, <1>9
  <2>3. g * rest[i] = ProductsOf(f, n)[i]
    BY <1>7
  <2> QED BY <2>1, <2>2, <2>3
<1> HIDE DEF times
<1>12. TotalOf(f, n) = Sum(times, 1..n)
  BY <1>11, SumsAreEqual DEF TotalOf
<1>13. Sum(rest, 1..n) \in Int
  BY <1>8, SumIsInt
<1> DEFINE s == Sum(rest, 1..n)
<1>14. TotalOf(f, n) = g * s /\ s \in Int
  BY <1>9, <1>10, <1>12, <1>13
<1> HIDE DEF s
<1>15. (g * s) % g = 0
  BY <1>6, <1>14
<1> QED BY <1>14, <1>15 DEF g, c

\* Plays in another order are the same bag, and give the same.
LEMMA ReorderedPlays ==
  ASSUME NEW n \in Nat, NEW basePTs, BasesTyped(basePTs), NEW f \in Plays(n, basePTs), NEW pi, Permutes(pi, 1..n)
  PROVE  LET g == Moved(f, pi, 1..n)
         IN  g \in Plays(n, basePTs) /\ TotalOf(g, n) = TotalOf(f, n) /\ BagOf(g, n) = BagOf(f, n)
<1> DEFINE g == Moved(f, pi, 1..n)
<1>1. pi \in [1..n -> 1..n] /\ \A x, y \in 1..n : x # y => pi[x] # pi[y]
  BY DEF Permutes
<1>2. \A y \in 1..n : \E x \in 1..n : pi[x] = y
  BY DEF Permutes
<1>3. \A i \in 1..n : g[i] = f[pi[i]]
  BY DEF Moved
<1>4. g \in Plays(n, basePTs)
  BY <1>1 DEF Plays, Moved
<1> HIDE DEF g
<1>5. ProductsOf(g, n) = Moved(ProductsOf(f, n), pi, 1..n)
  BY <1>1, <1>3 DEF ProductsOf, Moved
<1>6. TotalOf(g, n) = TotalOf(f, n)
  <2>1. Summable(ProductsOf(f, n), 1..n)
    BY ProductsAre
  <2>2. Sum(Moved(ProductsOf(f, n), pi, 1..n), 1..n) = Sum(ProductsOf(f, n), 1..n)
    BY <2>1, SumReordered
  <2> QED BY <1>5, <2>2 DEF TotalOf
<1>7. {g[i] : i \in 1..n} = {f[i] : i \in 1..n}
  <2>1. \A i \in 1..n : pi[i] \in 1..n /\ g[i] = f[pi[i]]
    BY <1>1, <1>3
  <2>2. \A j \in 1..n : \E i \in 1..n : g[i] = f[j]
    BY <1>2, <2>1
  <2>3. \A x \in {g[i] : i \in 1..n} : x \in {f[i] : i \in 1..n}
    BY <2>1
  <2>4. \A x \in {f[i] : i \in 1..n} : x \in {g[i] : i \in 1..n}
    BY <2>2
  <2> QED BY <2>3, <2>4
<1>8. ASSUME NEW x PROVE Cardinality({i \in 1..n : g[i] = x}) = Cardinality({i \in 1..n : f[i] = x})
  <2> DEFINE S == {i \in 1..n : g[i] = x}
             T == {i \in 1..n : f[i] = x}
             h == [i \in S |-> pi[i]]
  <2>1. h \in [S -> T]
    BY <1>1, <1>3
  <2>2. \A i, j \in S : i # j => h[i] # h[j]
    BY <1>1
  <2>3. \A t \in T : \E s \in S : h[s] = t
    BY <1>2, <1>3
  <2>4. IsFiniteSet(S)
    <3>1. S \subseteq 1..n /\ IsFiniteSet(1..n)
      BY FS_Interval
    <3> QED BY <3>1, FS_Subset
  <2> HIDE DEF S, T, h
  <2>5. h \in Bijection(S, T)
    BY <2>1, <2>2, <2>3 DEF Bijection, Injection, Surjection, IsInjective
  <2>6. Cardinality(S) = Cardinality(T)
    BY <2>4, <2>5, FS_Bijection DEF ExistsBijection
  <2> QED BY <2>6 DEF S, T
<1>9. BagOf(g, n) = BagOf(f, n)
  BY <1>7, <1>8 DEF BagOf
<1> QED BY <1>4, <1>6, <1>9 DEF g

\* A strategy's bag, as the page counts it.
LEMMA BagIs ==
  ASSUME NEW n \in Nat, NEW m, NEW p, DOMAIN p = 1..n
  PROVE  Control!Bag(m, p) = BagOf([i \in 1..n |-> <<m[i], p[i]>>], n)
<1> DEFINE plays == [i \in 1..n |-> <<m[i], p[i]>>]
<1>1. plays = [i \in DOMAIN p |-> <<m[i], p[i]>>] /\ DOMAIN plays = 1..n
  OBVIOUS
<1> HIDE DEF plays
<1>2. Control!Range(plays) = {plays[i] : i \in 1..n}
  BY <1>1 DEF Control!Range
<1>3. \A x : Control!Cardinality({i \in DOMAIN plays : plays[i] = x}) = Cardinality({i \in 1..n : plays[i] = x})
  BY <1>1 DEF Control!Cardinality, Cardinality, Control!IsFiniteSet, IsFiniteSet
<1>4. Control!Bag(m, p) = [x \in Control!Range(plays) |-> Control!Cardinality({i \in DOMAIN plays : plays[i] = x})]
  BY <1>1 DEF Control!Bag
<1>5. Control!Bag(m, p) = BagOf(plays, n)
  BY <1>2, <1>3, <1>4 DEF BagOf
<1> QED BY <1>5 DEF plays

\* A solution in the order in which the page lists it: the multipliers do not shrink, the points of
\* those that are equal do not grow, but the last play is the best of the greatest multiplier.
Precedes(f, n, z) == {e \in (1..n) \X (1..n) :
  /\ e[1] # e[2] /\ e[1] # z
  /\ \/ e[2] = z
     \/ f[e[1]][1] < f[e[2]][1]
     \/ f[e[1]][1] = f[e[2]][1] /\ f[e[1]][2] > f[e[2]][2]
     \/ f[e[1]][1] = f[e[2]][1] /\ f[e[1]][2] = f[e[2]][2] /\ e[1] < e[2]}

IsLast(f, n, z) ==
  \A i \in 1..n : f[i][1] < f[z][1] \/ (f[i][1] = f[z][1] /\ f[i][2] <= f[z][2])

LEMMA LastExists ==
  ASSUME NEW n \in Nat \ {0}, NEW basePTs, BasesTyped(basePTs), NEW f \in Plays(n, basePTs)
  PROVE  \E z \in 1..n : IsLast(f, n, z)
<1>1. \A i \in 1..n : f[i][1] \in Int /\ f[i][2] \in Int
  <2> SUFFICES ASSUME NEW i \in 1..n PROVE f[i][1] \in Int /\ f[i][2] \in Int
    OBVIOUS
  <2>1. f[i][1] \in 1..15 /\ f[i][2] \in Nat \ {0}
    BY PlaysAre
  <2> QED BY <2>1
<1>2. IsFiniteSet(1..n) /\ 1 \in 1..n
  BY FS_Interval
<1> DEFINE ms == [i \in 1..n |-> f[i][1]]
           M == {ms[i] : i \in 1..n}
<1>3. M \in SUBSET Int /\ M # {}
  BY <1>1, <1>2
<1>4. IsFiniteSet(M)
  <2> HIDE DEF ms
  <2> QED BY <1>2, ImageIsFinite
<1>5. PICK m \in M : \A y \in M : y <= m
  <2> HIDE DEF M
  <2> QED BY <1>3, <1>4, GreatestExists
<1> DEFINE S == {i \in 1..n : f[i][1] = m}
           ps == [i \in S |-> f[i][2]]
           P == {ps[i] : i \in S}
<1>6. S # {} /\ S \subseteq 1..n /\ \A i \in 1..n : f[i][1] <= m
  <2>1. PICK k \in 1..n : m = ms[k]
    OBVIOUS
  <2>2. k \in S
    BY <2>1
  <2>3. \A i \in 1..n : ms[i] \in M /\ ms[i] = f[i][1]
    OBVIOUS
  <2> QED BY <1>5, <2>2, <2>3
<1>7. P \in SUBSET Int /\ P # {}
  BY <1>1, <1>6
<1>8. IsFiniteSet(P)
  <2>1. IsFiniteSet(S)
    BY <1>2, <1>6, FS_Subset
  <2> HIDE DEF ps, S
  <2> QED BY <2>1, ImageIsFinite
<1>9. PICK p \in P : \A y \in P : y <= p
  <2> HIDE DEF P
  <2> QED BY <1>7, <1>8, GreatestExists
<1>10. PICK z \in S : p = f[z][2]
  OBVIOUS
<1>11. \A i \in S : f[i][2] <= f[z][2]
  BY <1>9, <1>10
<1>12. IsLast(f, n, z)
  <2> SUFFICES ASSUME NEW i \in 1..n PROVE f[i][1] < f[z][1] \/ (f[i][1] = f[z][1] /\ f[i][2] <= f[z][2])
    BY DEF IsLast
  <2>1. f[z][1] = m /\ f[i][1] <= m /\ f[i][1] \in Int /\ m \in Int
    BY <1>1, <1>6
  <2>2. CASE f[i][1] = m
    BY <1>11, <2>1, <2>2
  <2> QED BY <2>1, <2>2
<1> QED BY <1>6, <1>12

LEMMA PlaysAreOrdered ==
  ASSUME NEW n \in Nat, NEW basePTs, BasesTyped(basePTs), NEW f \in Plays(n, basePTs), NEW z \in 1..n
  PROVE  Orders(Precedes(f, n, z), 1..n)
<1> DEFINE a(i) == f[i][1]
           b(i) == f[i][2]
           R == Precedes(f, n, z)
           Ahead(x, y) ==
             /\ x # y /\ x # z
             /\ \/ y = z
                \/ a(x) < a(y)
                \/ a(x) = a(y) /\ b(x) > b(y)
                \/ a(x) = a(y) /\ b(x) = b(y) /\ x < y
<1>1. \A i \in 1..n : a(i) \in Int /\ b(i) \in Int /\ i \in Int
  <2> SUFFICES ASSUME NEW i \in 1..n PROVE a(i) \in Int /\ b(i) \in Int /\ i \in Int
    OBVIOUS
  <2>1. f[i][1] \in 1..15 /\ f[i][2] \in Nat \ {0}
    BY PlaysAre
  <2> QED BY <2>1
<1>2. \A x, y \in 1..n : <<x, y>> \in R <=> Ahead(x, y)
  BY DEF Precedes
<1> HIDE DEF a, b, R
<1>3. \A x \in 1..n : ~Ahead(x, x)
  OBVIOUS
<1>4. ASSUME NEW x \in 1..n, NEW y \in 1..n, x # y PROVE Ahead(x, y) \/ Ahead(y, x)
  <2>1. a(x) \in Int /\ b(x) \in Int /\ x \in Int /\ a(y) \in Int /\ b(y) \in Int /\ y \in Int
    BY <1>1
  <2> QED BY <1>4, <2>1
<1>5. ASSUME NEW x \in 1..n, NEW y \in 1..n, NEW w \in 1..n, Ahead(x, y), Ahead(y, w) PROVE Ahead(x, w)
  <2>1. a(x) \in Int /\ b(x) \in Int /\ x \in Int /\ a(y) \in Int /\ b(y) \in Int /\ y \in Int
    BY <1>1
  <2>2. a(w) \in Int /\ b(w) \in Int /\ w \in Int
    BY <1>1
  <2> QED BY <1>5, <2>1, <2>2
<1> HIDE DEF Ahead
<1> QED BY <1>2, <1>3, <1>4, <1>5 DEF Orders, R

LEMMA SolutionIsListed ==
  ASSUME NEW n \in Nat \ {0}, NEW basePTs, BasesTyped(basePTs), basePTs # {},
         NEW f \in Plays(n, basePTs), NEW target, TotalOf(f, n) = target
  PROVE  \E s \in Control!AllSolutionsForN(target, n, basePTs) :
           Control!Bag(s.multipliers, s.basePTs) = BagOf(f, n)
<1>1. PICK z \in 1..n : IsLast(f, n, z)
  BY LastExists
<1> DEFINE R == Precedes(f, n, z)
<1>2. PICK pi : Permutes(pi, 1..n) /\ \A i, j \in 1..n : i < j => <<pi[i], pi[j]>> \in R
  <2>1. Orders(R, 1..n)
    BY PlaysAreOrdered
  <2> HIDE DEF R
  <2> QED BY <2>1, OrderIsListed
<1>3. pi \in [1..n -> 1..n] /\ (\A x, y \in 1..n : x # y => pi[x] # pi[y]) /\ \A y \in 1..n : \E x \in 1..n : pi[x] = y
  BY <1>2 DEF Permutes
<1>4. pi[n] = z
  <2>1. PICK i \in 1..n : pi[i] = z
    BY <1>3
  <2>2. CASE i < n
    <3>1. <<pi[i], pi[n]>> \in R
      BY <1>2, <2>2
    <3> QED BY <2>1, <3>1 DEF Precedes
  <2> QED BY <2>1, <2>2
<1> DEFINE g == Moved(f, pi, 1..n)
           c == CombinationOf(g, n)
           p == PointsAlone(g, n)
<1>5. g \in Plays(n, basePTs) /\ TotalOf(g, n) = target /\ BagOf(g, n) = BagOf(f, n)
  BY <1>2, ReorderedPlays
<1>6. \A i \in 1..n : g[i] = f[pi[i]]
  BY DEF Moved
<1> HIDE DEF g, R
<1>7. /\ c \in [1..n -> Control!Multipliers] /\ p \in [1..n -> basePTs] /\ Len(c) = n /\ DOMAIN c = 1..n
      /\ \A i \in 1..n : c[i] = g[i][1] /\ p[i] = g[i][2]
  BY <1>5, CombinationIs
<1>8. ASSUME NEW i \in 2..n
      PROVE  /\ c[i - 1] \in Int /\ c[i] \in Int /\ p[i - 1] \in Int /\ p[i] \in Int
             /\ c[i - 1] <= c[i]
             /\ c[i] = c[i - 1] => IF i = n THEN p[i] >= p[i - 1] ELSE p[i] <= p[i - 1]
  <2>1. i \in 1..n /\ i - 1 \in 1..n /\ i - 1 < i /\ n \in 1..n
    OBVIOUS
  <2>2. <<pi[i - 1], pi[i]>> \in R
    BY <1>2, <2>1
  <2> DEFINE x == pi[i - 1]
             y == pi[i]
  <2>3. x \in 1..n /\ y \in 1..n /\ (i # n => y # z) /\ (i = n => y = z)
    BY <1>3, <1>4, <2>1
  <2>4. c[i - 1] = f[x][1] /\ c[i] = f[y][1] /\ p[i - 1] = f[x][2] /\ p[i] = f[y][2]
    BY <1>6, <1>7, <2>1
  <2> HIDE DEF x, y
  <2>5. f[x][1] \in Int /\ f[y][1] \in Int /\ f[x][2] \in Int /\ f[y][2] \in Int
    <3>1. f[x][1] \in 1..15 /\ f[x][2] \in Nat \ {0} /\ f[y][1] \in 1..15 /\ f[y][2] \in Nat \ {0}
      BY <2>3, PlaysAre
    <3> QED BY <3>1
  <2>6. f[x][1] < f[z][1] \/ (f[x][1] = f[z][1] /\ f[x][2] <= f[z][2])
    BY <1>1, <2>3 DEF IsLast
  <2>7. \/ y = z
        \/ f[x][1] < f[y][1]
        \/ f[x][1] = f[y][1] /\ f[x][2] >= f[y][2]
    <3>1. <<x, y>> \in R
      BY <2>2 DEF x, y
    <3> QED BY <2>5, <3>1 DEF Precedes, R
  <2>8. CASE i = n
    BY <2>3, <2>4, <2>5, <2>6, <2>8
  <2>9. CASE i # n
    BY <2>3, <2>4, <2>5, <2>7, <2>9
  <2> QED BY <2>8, <2>9
<1>9. c \in Control!Combos(target, n, basePTs)
  <2>1. Control!InRange(target, c, basePTs) /\ target % Control!Gcd(c) = 0
    BY <1>5, SolutionsAreInRange, GcdDivides
  <2>2. \A i \in 2..n : c[i - 1] <= c[i]
    BY <1>8
  <2> QED BY <1>7, <2>1, <2>2 DEF Control!Combos
<1>10. p \in Control!Allocations(target, c, basePTs)
  <2>1. Control!Pruned(c, p)
    BY <1>7, <1>8 DEF Control!Pruned
  <2>2. [i \in DOMAIN c |-> c[i] * p[i]] = ProductsOf(g, n)
    BY <1>7 DEF ProductsOf
  <2>3. Control!SumFunction([i \in DOMAIN c |-> c[i] * p[i]]) = target
    <3>1. Control!SumFunction(ProductsOf(g, n)) = target
      BY <1>5, ProductsAre
    <3> QED BY <2>2, <3>1
  <2> HIDE DEF c, p
  <2> QED BY <1>7, <2>1, <2>3 DEF Control!Allocations
<1> DEFINE s == [multipliers |-> c, basePTs |-> p]
<1>11. s \in Control!AllSolutionsForN(target, n, basePTs)
  <2> HIDE DEF c, p
  <2> QED BY <1>9, <1>10 DEF Control!AllSolutionsForN
<1>12. Control!Bag(c, p) = BagOf(g, n)
  <2>1. DOMAIN p = 1..n
    BY <1>7
  <2>2. Control!Bag(c, p) = BagOf([i \in 1..n |-> <<c[i], p[i]>>], n)
    <3> HIDE DEF c, p
    <3> QED BY <2>1, BagIs
  <2>3. \A i \in 1..n : g[i] = <<c[i], p[i]>>
    <3> SUFFICES ASSUME NEW i \in 1..n PROVE g[i] = <<c[i], p[i]>>
      OBVIOUS
    <3>1. g[i] = <<g[i][1], g[i][2]>>
      BY <1>5, PlaysAre
    <3> QED BY <1>7, <3>1
  <2>4. [i \in 1..n |-> <<c[i], p[i]>>] = g
    <3>1. g = [i \in 1..n |-> g[i]]
      BY <1>5 DEF Plays
    <3> HIDE DEF c, p
    <3> QED BY <2>3, <3>1
  <2> QED BY <2>2, <2>4
<1> HIDE DEF c, p
<1> QED BY <1>5, <1>11, <1>12

-----------------------------------------------------------------------------
\* The limit of strategies.  Keys are ordered, so that what is before a strategy that is shown is shown,
\* and one is left out only if the limit is reached.
LEMMA SameCardinality == ASSUME NEW S PROVE Control!Cardinality(S) = Cardinality(S)
BY DEF Control!Cardinality, Cardinality, Control!IsFiniteSet, IsFiniteSet

LEMMA LimitIs == Control!Limit \in Nat \ {0}
BY PlaysAssumption DEF Control!Limit

LEMMA KeysAreOrdered ==
  ASSUME NEW f \in Seq(Int), NEW g \in Seq(Int), NEW h \in Seq(Int)
  PROVE  /\ ~Control!Before(f, f)
         /\ Control!Before(f, g) /\ Control!Before(g, h) => Control!Before(f, h)
<1>1. \A i \in DOMAIN f : ~(f[i] < f[i])
  <2>1. \A i \in DOMAIN f : f[i] \in Int
    OBVIOUS
  <2> QED BY <2>1
<1>2. ASSUME Control!Before(f, g), Control!Before(g, h)
      PROVE  Control!Before(f, h)
  <2>1. PICK i \in DOMAIN f \intersect DOMAIN g : f[i] < g[i] /\ \A k \in 1..(i - 1) : f[k] = g[k]
    BY <1>2 DEF Control!Before
  <2>2. PICK j \in DOMAIN g \intersect DOMAIN h : g[j] < h[j] /\ \A k \in 1..(j - 1) : g[k] = h[k]
    BY <1>2 DEF Control!Before
  <2>3. /\ i \in 1..Len(f) /\ i \in 1..Len(g) /\ j \in 1..Len(g) /\ j \in 1..Len(h)
        /\ DOMAIN f = 1..Len(f) /\ DOMAIN h = 1..Len(h)
        /\ Len(f) \in Nat /\ Len(g) \in Nat /\ Len(h) \in Nat
    BY <2>1, <2>2
  <2>4. f[i] \in Int /\ g[i] \in Int /\ g[j] \in Int /\ h[j] \in Int
    BY <2>3
  <2>5. CASE i < j
    <3>1. i \in 1..(j - 1) /\ i \in 1..Len(h)
      BY <2>3, <2>5
    <3>2. f[i] < h[i]
      BY <2>1, <2>2, <3>1
    <3>3. \A k \in 1..(i - 1) : k \in 1..(j - 1)
      BY <2>3, <2>5
    <3>4. \A k \in 1..(i - 1) : f[k] = h[k]
      BY <2>1, <2>2, <3>3
    <3> QED BY <2>3, <3>1, <3>2, <3>4 DEF Control!Before
  <2>6. CASE i = j
    <3>1. f[i] < h[i]
      BY <2>1, <2>2, <2>4, <2>6
    <3>2. \A k \in 1..(i - 1) : f[k] = h[k]
      BY <2>1, <2>2, <2>6
    <3> QED BY <2>3, <2>6, <3>1, <3>2 DEF Control!Before
  <2>7. CASE j < i
    <3>1. j \in 1..(i - 1) /\ j \in 1..Len(f)
      BY <2>3, <2>7
    <3>2. f[j] < h[j]
      BY <2>1, <2>2, <3>1
    <3>3. \A k \in 1..(j - 1) : k \in 1..(i - 1)
      BY <2>3, <2>7
    <3>4. \A k \in 1..(j - 1) : f[k] = h[k]
      BY <2>1, <2>2, <3>3
    <3> QED BY <2>3, <3>1, <3>2, <3>4 DEF Control!Before
  <2> QED BY <2>3, <2>5, <2>6, <2>7
<1> QED BY <1>1, <1>2 DEF Control!Before

Keyed(key) == IsFiniteSet(DOMAIN key) /\ \A s \in DOMAIN key : key[s] \in Seq(Int)
Ahead(key, s) == {t \in DOMAIN key : Control!Before(key[t], key[s])}

LEMMA AheadGrows ==
  ASSUME NEW key, Keyed(key), NEW s \in DOMAIN key, NEW t \in DOMAIN key, Control!Before(key[t], key[s])
  PROVE  /\ IsFiniteSet(Ahead(key, s)) /\ Cardinality(Ahead(key, s)) \in Nat
         /\ Cardinality(Ahead(key, t)) \in Nat /\ Cardinality(Ahead(key, t)) < Cardinality(Ahead(key, s))
<1>1. \A x, y, z \in DOMAIN key :
        /\ ~Control!Before(key[x], key[x])
        /\ Control!Before(key[x], key[y]) /\ Control!Before(key[y], key[z]) => Control!Before(key[x], key[z])
  BY KeysAreOrdered DEF Keyed
<1>2. Ahead(key, t) \subseteq Ahead(key, s) /\ t \in Ahead(key, s) /\ t \notin Ahead(key, t)
  BY <1>1 DEF Ahead
<1>3. Ahead(key, s) \subseteq DOMAIN key /\ IsFiniteSet(DOMAIN key)
  BY DEF Ahead, Keyed
<1>4. IsFiniteSet(Ahead(key, s))
  BY <1>3, FS_Subset
<1>5. /\ IsFiniteSet(Ahead(key, t)) /\ Cardinality(Ahead(key, t)) <= Cardinality(Ahead(key, s))
      /\ Cardinality(Ahead(key, t)) = Cardinality(Ahead(key, s)) => Ahead(key, t) = Ahead(key, s)
  BY <1>2, <1>4, FS_Subset
<1>6. Cardinality(Ahead(key, s)) \in Nat /\ Cardinality(Ahead(key, t)) \in Nat
  BY <1>4, <1>5, FS_CardinalityType
<1>7. Cardinality(Ahead(key, t)) # Cardinality(Ahead(key, s))
  BY <1>2, <1>5
<1> QED BY <1>4, <1>5, <1>6, <1>7

LEMMA ForemostIs ==
  ASSUME NEW key, Keyed(key)
  PROVE  /\ Control!Foremost(key) \subseteq DOMAIN key /\ IsFiniteSet(Control!Foremost(key))
         /\ \A s \in DOMAIN key : s \in Control!Foremost(key) \/ Cardinality(Control!Foremost(key)) >= Control!Limit
         /\ \A s \in DOMAIN key, t \in Control!Foremost(key) :
              Control!Before(key[s], key[t]) => s \in Control!Foremost(key)
<1> DEFINE first == Control!Foremost(key)
           rank(s) == Cardinality(Ahead(key, s))
<1>1. first = {s \in DOMAIN key : rank(s) < Control!Limit}
  BY SameCardinality DEF Control!Foremost, Ahead
<1>2. first \subseteq DOMAIN key /\ IsFiniteSet(first)
  <2>1. first \subseteq DOMAIN key /\ IsFiniteSet(DOMAIN key)
    BY <1>1 DEF Keyed
  <2> HIDE DEF first
  <2> QED BY <2>1, FS_Subset
<1>3. \A s \in DOMAIN key : rank(s) \in Nat
  <2> SUFFICES ASSUME NEW s \in DOMAIN key PROVE rank(s) \in Nat
    OBVIOUS
  <2>1. Ahead(key, s) \subseteq DOMAIN key /\ IsFiniteSet(DOMAIN key)
    BY DEF Ahead, Keyed
  <2> QED BY <2>1, FS_Subset, FS_CardinalityType
<1>4. \A s, t \in DOMAIN key : Control!Before(key[t], key[s]) => rank(t) < rank(s)
  BY AheadGrows
<1> HIDE DEF rank, first
<1>5. ASSUME NEW s \in DOMAIN key, NEW t \in first, Control!Before(key[s], key[t])
      PROVE  s \in first
  <2>1. t \in DOMAIN key /\ rank(s) < rank(t) /\ rank(t) < Control!Limit
    BY <1>1, <1>4, <1>5
  <2>2. rank(s) \in Nat /\ rank(t) \in Nat /\ Control!Limit \in Nat
    BY <1>3, <2>1, LimitIs
  <2>3. rank(s) < Control!Limit
    BY <2>1, <2>2
  <2> QED BY <1>1, <2>3
\* Of those left out, the one with the fewest before it has none of them before it.
<1>6. ASSUME NEW r \in DOMAIN key, r \notin first
      PROVE  Cardinality(first) >= Control!Limit
  <2> DEFINE R == {rank(s) : s \in DOMAIN key \ first}
  <2>1. R \in SUBSET Nat /\ R # {}
    BY <1>3, <1>6
  <2>2. PICK x \in R : \A y \in R : x <= y
    <3> HIDE DEF R
    <3>1. Rows!Points!Min(R) \in R /\ \A y \in R : Rows!Points!Min(R) <= y
      BY <2>1, LeastIs
    <3> QED BY <3>1
  <2>3. PICK s \in DOMAIN key \ first : x = rank(s)
    OBVIOUS
  <2>4. Ahead(key, s) \subseteq first
    <3> SUFFICES ASSUME NEW t \in Ahead(key, s), t \notin first PROVE FALSE
      OBVIOUS
    <3>1. t \in DOMAIN key /\ Control!Before(key[t], key[s])
      BY DEF Ahead
    <3>2. rank(t) < rank(s) /\ rank(t) \in Nat /\ rank(s) \in Nat
      BY <1>3, <1>4, <3>1
    <3>3. rank(s) <= rank(t)
      BY <2>2, <2>3, <3>1
    <3> QED BY <3>2, <3>3
  <2>5. rank(s) \in Nat /\ ~(rank(s) < Control!Limit)
    BY <1>1, <1>3
  <2>6. rank(s) <= Cardinality(first) /\ Cardinality(first) \in Nat
    BY <1>2, <2>4, FS_Subset, FS_CardinalityType DEF rank
  <2> QED BY <2>5, <2>6, LimitIs
<1> QED BY <1>2, <1>5, <1>6 DEF first

LEMMA ListedIsSolution ==
  ASSUME NEW n \in Nat, NEW basePTs, BasesTyped(basePTs), NEW target,
         NEW s \in Control!AllSolutionsForN(target, n, basePTs)
  PROVE  \E f \in Solutions(target, n, basePTs) : Control!Bag(s.multipliers, s.basePTs) = BagOf(f, n)
<1>1. PICK c \in Control!Combos(target, n, basePTs) : \E p \in Control!Allocations(target, c, basePTs) :
        s = [multipliers |-> c, basePTs |-> p]
  BY DEF Control!AllSolutionsForN
<1>2. PICK p \in Control!Allocations(target, c, basePTs) : s = [multipliers |-> c, basePTs |-> p]
  BY <1>1
<1>3. c \in [1..n -> Control!Multipliers] /\ Len(c) = n /\ DOMAIN c = 1..n
  BY DEF Control!Combos
<1>4. p \in [1..n -> basePTs] /\ Control!SumFunction([i \in 1..n |-> c[i] * p[i]]) = target /\ DOMAIN p = 1..n
  BY <1>3 DEF Control!Allocations
<1> DEFINE f == [i \in 1..n |-> <<c[i], p[i]>>]
<1>5. f \in Plays(n, basePTs) /\ \A i \in 1..n : f[i][1] = c[i] /\ f[i][2] = p[i]
  BY <1>3, <1>4 DEF Plays
<1>6. Control!Bag(c, p) = BagOf(f, n)
  BY <1>4, BagIs
<1> HIDE DEF f
<1>7. ProductsOf(f, n) = [i \in 1..n |-> c[i] * p[i]]
  BY <1>5 DEF ProductsOf
<1>8. TotalOf(f, n) = target
  BY <1>4, <1>5, <1>7, ProductsAre
<1> QED BY <1>2, <1>5, <1>6, <1>8 DEF Solutions

\* The bags of the solutions, as the property has them.
LEMMA SolutionsAre ==
  ASSUME NEW n \in Nat, NEW basePTs, BasesTyped(basePTs), NEW target
  PROVE  /\ {g \in [1..n -> Control!Multipliers \X basePTs] : Control!SumFunction([i \in 1..n |-> g[i][1] * g[i][2]]) = target}
              = Solutions(target, n, basePTs)
         /\ \A f \in Solutions(target, n, basePTs) :
              Control!Bag([i \in 1..n |-> f[i][1]], [i \in 1..n |-> f[i][2]]) = BagOf(f, n)
<1>1. \A g \in Plays(n, basePTs) : Control!SumFunction(ProductsOf(g, n)) = TotalOf(g, n)
  BY ProductsAre
<1>2. {g \in [1..n -> Control!Multipliers \X basePTs] : Control!SumFunction([i \in 1..n |-> g[i][1] * g[i][2]]) = target}
        = Solutions(target, n, basePTs)
  BY <1>1 DEF Solutions, Plays, ProductsOf
<1>3. ASSUME NEW f \in Solutions(target, n, basePTs)
      PROVE  Control!Bag([i \in 1..n |-> f[i][1]], [i \in 1..n |-> f[i][2]]) = BagOf(f, n)
  <2> DEFINE m == [i \in 1..n |-> f[i][1]]
             p == [i \in 1..n |-> f[i][2]]
  <2>1. DOMAIN p = 1..n /\ \A i \in 1..n : m[i] = f[i][1] /\ p[i] = f[i][2]
    OBVIOUS
  <2> HIDE DEF m, p
  <2>2. Control!Bag(m, p) = BagOf([i \in 1..n |-> <<m[i], p[i]>>], n)
    BY <2>1, BagIs
  <2>3. f \in Plays(n, basePTs)
    BY DEF Solutions
  <2>4. \A i \in 1..n : <<m[i], p[i]>> = f[i]
    <3> SUFFICES ASSUME NEW i \in 1..n PROVE <<m[i], p[i]>> = f[i]
      OBVIOUS
    <3>1. f[i] = <<f[i][1], f[i][2]>>
      BY <2>3, PlaysAre
    <3> QED BY <2>1, <3>1
  <2>5. [i \in 1..n |-> <<m[i], p[i]>>] = f
    <3>1. f = [i \in 1..n |-> f[i]]
      BY <2>3 DEF Plays
    <3> QED BY <2>4, <3>1
  <2> QED BY <2>2, <2>5 DEF m, p
<1> QED BY <1>2, <1>3

\* What a chart may be for its points to count: one play gives at least a point.
ChartsTyped(charts, pointsOf) ==
  IsFiniteSet(charts) /\ \A c \in charts : pointsOf[c.min] \in Nat \ {0}

LEMMA BasesAre ==
  ASSUME NEW charts, NEW pointsOf, NEW filter, ChartsTyped(charts, pointsOf)
  PROVE  BasesTyped(Control!ComputeFixedBasePTs(charts, pointsOf, filter))
<1> DEFINE C == Control!Admitted(charts, pointsOf, filter)
           h == [c \in C |-> pointsOf[c.min]]
<1>1. Control!ComputeFixedBasePTs(charts, pointsOf, filter) = {h[c] : c \in C}
  BY DEF Control!ComputeFixedBasePTs
<1>2. C \subseteq charts /\ IsFiniteSet(charts)
  BY DEF ChartsTyped, Control!Admitted
<1>3. \A c \in C : h[c] \in Nat \ {0}
  BY <1>2 DEF ChartsTyped
<1> HIDE DEF C, h
<1>4. IsFiniteSet(C)
  BY <1>2, FS_Subset
<1>5. IsFiniteSet({h[c] : c \in C})
  BY <1>4, ImageIsFinite
<1> QED BY <1>1, <1>3, <1>5 DEF BasesTyped


\* The solutions of a number of plays, as records.
Choices(n, basePTs) == [1..n -> Control!Multipliers] \X [1..n -> basePTs]

LEMMA SolutionsAreRecords ==
  ASSUME NEW n \in Nat, NEW basePTs, BasesTyped(basePTs), NEW target
  PROVE  /\ IsFiniteSet(Control!AllSolutionsForN(target, n, basePTs))
         /\ \A s \in Control!AllSolutionsForN(target, n, basePTs) :
              /\ s.multipliers \in [1..n -> Control!Multipliers] /\ s.basePTs \in [1..n -> basePTs]
              /\ s = [multipliers |-> s.multipliers, basePTs |-> s.basePTs]
<1> DEFINE all == Control!AllSolutionsForN(target, n, basePTs)
           record == [x \in Choices(n, basePTs) |-> [multipliers |-> x[1], basePTs |-> x[2]]]
           images == {record[x] : x \in Choices(n, basePTs)}
<1>1. ASSUME NEW s \in all
      PROVE  /\ s.multipliers \in [1..n -> Control!Multipliers] /\ s.basePTs \in [1..n -> basePTs]
             /\ s = [multipliers |-> s.multipliers, basePTs |-> s.basePTs]
  <2>1. PICK c \in Control!Combos(target, n, basePTs) : \E p \in Control!Allocations(target, c, basePTs) :
          s = [multipliers |-> c, basePTs |-> p]
    BY DEF Control!AllSolutionsForN
  <2>2. PICK p \in Control!Allocations(target, c, basePTs) : s = [multipliers |-> c, basePTs |-> p]
    BY <2>1
  <2>3. c \in [1..n -> Control!Multipliers] /\ Len(c) = n
    BY DEF Control!Combos
  <2>4. p \in [1..n -> basePTs]
    BY <2>3 DEF Control!Allocations
  <2> QED BY <2>2, <2>3, <2>4
<1>2. all \subseteq images
  <2> SUFFICES ASSUME NEW s \in all PROVE s \in images
    OBVIOUS
  <2> DEFINE x == <<s.multipliers, s.basePTs>>
  <2>1. x \in Choices(n, basePTs)
    BY <1>1 DEF Choices
  <2>2. record[x] = [multipliers |-> s.multipliers, basePTs |-> s.basePTs]
    BY <2>1
  <2>3. s = record[x]
    BY <1>1, <2>2
  <2> HIDE DEF record, x
  <2> QED BY <2>1, <2>3
<1>3. IsFiniteSet(Choices(n, basePTs))
  <2>1. IsFiniteSet(Control!Multipliers)
    <3>1. Control!Multipliers \subseteq 1..15
      BY DEF Control!Multipliers
    <3>2. \A m \in Nat : IsFiniteSet(1..m)
      BY FS_Interval
    <3>3. IsFiniteSet(1..15)
      BY <3>2
    <3> QED BY <3>1, <3>3, FS_Subset
  <2>2. IsFiniteSet(1..n)
    BY FS_Interval
  <2>3. IsFiniteSet([1..n -> Control!Multipliers]) /\ IsFiniteSet([1..n -> basePTs])
    BY <2>1, <2>2, FunctionsAreFinite DEF BasesTyped
  <2> QED BY <2>3, FS_Product DEF Choices
<1>4. IsFiniteSet(images)
  <2> HIDE DEF record
  <2> QED BY <1>3, ImageIsFinite
<1> HIDE DEF all, images
<1>5. IsFiniteSet(all)
  BY <1>2, <1>4, FS_Subset
<1> QED BY <1>1, <1>5 DEF all

LEMMA MultipliersAreSummed ==
  ASSUME NEW n \in Nat, NEW c \in [1..n -> Int]
  PROVE  Control!SumFunction(c) \in Int
<1>1. DOMAIN c = 1..n /\ IsFiniteSet(1..n)
  BY FS_Interval
<1>2. Summable(c, DOMAIN c)
  BY <1>1 DEF Summable
<1> QED BY <1>2, SumFunctionIs, SumIsInt

\* The keys of the search and of the ranking are sequences of numbers.
LEMMA PositionIs ==
  ASSUME NEW n \in Nat, NEW basePTs, BasesTyped(basePTs), NEW target,
         NEW s \in Control!AllSolutionsForN(target, n, basePTs)
  PROVE  Control!Position(s) \in Seq(Int) /\ Len(s.basePTs) = n
<1>1. s.multipliers \in [1..n -> Control!Multipliers] /\ s.basePTs \in [1..n -> basePTs]
  BY SolutionsAreRecords
<1>2. Control!Multipliers \subseteq Int /\ basePTs \subseteq Int
  BY DEF Control!Multipliers, BasesTyped
<1>3. s.multipliers \in [1..n -> Int] /\ s.basePTs \in [1..n -> Int] /\ DOMAIN s.basePTs = 1..n
  BY <1>1, <1>2
<1> DEFINE c == s.multipliers
           p == [i \in DOMAIN s.basePTs |-> -s.basePTs[i]]
<1>4. p \in [1..n -> Int]
  BY <1>3
<1>5. c \in Seq(Int) /\ p \in Seq(Int) /\ Len(s.basePTs) = n
  BY <1>3, <1>4
<1>6. Control!SumFunction(c) \in Int
  BY <1>3, MultipliersAreSummed
<1>7. <<-Control!SumFunction(c)>> \in Seq(Int)
  BY <1>6
<1> HIDE DEF c, p
<1>8. <<-Control!SumFunction(c)>> \o c \o p \in Seq(Int)
  BY <1>5, <1>7
<1> QED BY <1>5, <1>8 DEF Control!Position, c, p

LEMMA SearchOfNIs ==
  ASSUME NEW n \in Nat, NEW basePTs, BasesTyped(basePTs), NEW target
  PROVE  LET all == Control!AllSolutionsForN(target, n, basePTs)
             found == Control!FindAllSolutionsForN(target, n, basePTs)
         IN  /\ found \subseteq all /\ IsFiniteSet(found) /\ Cardinality(found) \in Nat
             /\ all \subseteq found \/ Cardinality(found) >= Control!Limit
             /\ found = {} <=> all = {}
<1> DEFINE all == Control!AllSolutionsForN(target, n, basePTs)
           found == Control!FindAllSolutionsForN(target, n, basePTs)
           key == [s \in all |-> Control!Position(s)]
<1>1. Keyed(key) /\ DOMAIN key = all
  BY SolutionsAreRecords, PositionIs DEF Keyed
<1>2. found = Control!Foremost(key)
  BY DEF Control!FindAllSolutionsForN
<1> HIDE DEF all, found, key
<1>3. /\ found \subseteq all /\ IsFiniteSet(found)
      /\ \A s \in all : s \in found \/ Cardinality(found) >= Control!Limit
  BY <1>1, <1>2, ForemostIs
<1>4. Cardinality(found) \in Nat
  BY <1>3, FS_CardinalityType
<1>5. found = {} => Cardinality(found) = 0
  BY FS_EmptySet
<1>6. found = {} <=> all = {}
  BY <1>3, <1>5, LimitIs
<1> QED BY <1>3, <1>4, <1>6 DEF all, found

\* The search: it stops at the limit only, and then no more plays than that took are tried.
LEMMA SearchIs ==
  ASSUME NEW basePTs, BasesTyped(basePTs), NEW target
  PROVE  LET found == Control!Search(target, basePTs)
         IN  /\ IsFiniteSet(found)
             /\ \A s \in found : \E n \in 1..MaxPlays : s \in Control!AllSolutionsForN(target, n, basePTs)
             /\ \A n \in 1..MaxPlays :
                  \/ Control!AllSolutionsForN(target, n, basePTs) \subseteq found
                  \/ Cardinality(found) >= Control!Limit /\ \A s \in found : Len(s.basePTs) <= n
<1> DEFINE F == [n \in 1..MaxPlays |-> Control!FindAllSolutionsForN(target, n, basePTs)]
           All(n) == Control!AllSolutionsForN(target, n, basePTs)
           Fewer(n) == UNION {F[k] : k \in 1..(n - 1)}
           T == {m \in 1..MaxPlays : Cardinality(Fewer(m)) < Control!Limit}
           found == UNION {F[n] : n \in T}
<1>1. Control!Search(target, basePTs) = found
  BY SameCardinality DEF Control!Search
<1>2. MaxPlays \in Nat /\ Control!Limit \in Nat \ {0}
  BY PlaysAssumption, LimitIs
<1>3. ASSUME NEW n \in 1..MaxPlays
      PROVE  /\ F[n] \subseteq All(n) /\ IsFiniteSet(F[n])
             /\ All(n) \subseteq F[n] \/ Cardinality(F[n]) >= Control!Limit
             /\ \A s \in F[n] : Len(s.basePTs) = n
  <2>1. n \in Nat /\ F[n] = Control!FindAllSolutionsForN(target, n, basePTs)
    BY <1>2
  <2>2. /\ F[n] \subseteq All(n) /\ IsFiniteSet(F[n])
        /\ All(n) \subseteq F[n] \/ Cardinality(F[n]) >= Control!Limit
    BY <2>1, SearchOfNIs
  <2>3. \A s \in All(n) : Len(s.basePTs) = n
    BY <2>1, PositionIs
  <2> QED BY <2>2, <2>3
<1> HIDE DEF F, All
\* What is found with any numbers of plays is finite.
<1>4. ASSUME NEW N \in SUBSET (1..MaxPlays)
      PROVE  IsFiniteSet(UNION {F[k] : k \in N})
  <2>1. IsFiniteSet(1..MaxPlays)
    BY <1>2, FS_Interval
  <2>2. IsFiniteSet(N)
    BY <2>1, FS_Subset
  <2>3. IsFiniteSet({F[k] : k \in N})
    BY <2>2, ImageIsFinite
  <2>4. \A S \in {F[k] : k \in N} : IsFiniteSet(S)
    BY <1>3
  <2> HIDE DEF F
  <2> QED BY <2>3, <2>4, FS_UNION
<1>5. ASSUME NEW n \in 1..MaxPlays PROVE IsFiniteSet(Fewer(n)) /\ Cardinality(Fewer(n)) \in Nat
  <2>1. 1..(n - 1) \in SUBSET (1..MaxPlays)
    BY <1>2
  <2>2. IsFiniteSet(Fewer(n))
    BY <1>4, <2>1
  <2> QED BY <2>2, FS_CardinalityType
<1>6. IsFiniteSet(found) /\ Cardinality(found) \in Nat
  <2>1. T \in SUBSET (1..MaxPlays)
    OBVIOUS
  <2> HIDE DEF T
  <2>2. IsFiniteSet(found)
    BY <1>4, <2>1
  <2> HIDE DEF found
  <2> QED BY <2>2, FS_CardinalityType
<1>7. \A k, n \in 1..MaxPlays : k < n => F[k] \subseteq Fewer(n) /\ Fewer(k) \subseteq Fewer(n)
  <2> SUFFICES ASSUME NEW k \in 1..MaxPlays, NEW n \in 1..MaxPlays, k < n
               PROVE  F[k] \subseteq Fewer(n) /\ Fewer(k) \subseteq Fewer(n)
    OBVIOUS
  <2>1. k \in 1..(n - 1) /\ 1..(k - 1) \subseteq 1..(n - 1)
    BY <1>2
  <2> QED BY <2>1
<1> HIDE DEF Fewer
\* Numbers of plays are tried from the least up.
<1>8. \A n \in T, k \in 1..MaxPlays : k < n => k \in T /\ Cardinality(F[k]) < Control!Limit
  <2> SUFFICES ASSUME NEW n \in T, NEW k \in 1..MaxPlays, k < n
               PROVE  k \in T /\ Cardinality(F[k]) < Control!Limit
    OBVIOUS
  <2>1. F[k] \subseteq Fewer(n) /\ Fewer(k) \subseteq Fewer(n) /\ IsFiniteSet(Fewer(n))
    BY <1>5, <1>7
  <2>2. Cardinality(F[k]) <= Cardinality(Fewer(n)) /\ Cardinality(Fewer(k)) <= Cardinality(Fewer(n))
    BY <2>1, FS_Subset
  <2>3. Cardinality(Fewer(n)) < Control!Limit /\ Cardinality(Fewer(n)) \in Nat /\ Cardinality(Fewer(k)) \in Nat
    BY <1>5
  <2>4. Cardinality(F[k]) \in Nat
    BY <1>3, FS_CardinalityType
  <2> QED BY <1>2, <2>2, <2>3, <2>4
<1>9. ASSUME NEW n \in T, NEW S \in SUBSET found, Cardinality(S) >= Control!Limit
      PROVE  Cardinality(found) >= Control!Limit
  <2>1. Cardinality(S) <= Cardinality(found) /\ IsFiniteSet(S)
    <3> HIDE DEF found
    <3> QED BY <1>6, FS_Subset
  <2>2. Cardinality(S) \in Nat
    BY <2>1, FS_CardinalityType
  <2> HIDE DEF found
  <2> QED BY <1>2, <1>6, <1>9, <2>1, <2>2
<1>10. ASSUME NEW n \in 1..MaxPlays, ~(All(n) \subseteq found)
       PROVE  Cardinality(found) >= Control!Limit /\ \A s \in found : Len(s.basePTs) <= n
  <2>1. CASE n \in T
    <3>1. F[n] \subseteq found
      BY <2>1
    <3>2. Cardinality(F[n]) >= Control!Limit
      BY <1>3, <1>10, <3>1
    <3>3. Cardinality(found) >= Control!Limit
      BY <1>9, <2>1, <3>1, <3>2
    <3>4. ASSUME NEW k \in T PROVE k <= n
      <4>1. ~(n < k)
        <5>1. Cardinality(F[n]) \in Nat
          BY <1>3, FS_CardinalityType
        <5> QED BY <1>2, <1>8, <3>2, <5>1
      <4> QED BY <1>2, <4>1
    <3> QED BY <1>3, <3>3, <3>4
  <2>2. CASE n \notin T
    <3> DEFINE R == (1..MaxPlays) \ T
    <3>1. R \in SUBSET Nat /\ R # {}
      BY <1>2, <2>2
    <3>2. PICK m \in R : \A r \in R : m <= r
      <4> HIDE DEF R
      <4> QED BY <3>1, LeastNatural
    <3>3. m \in 1..MaxPlays /\ Cardinality(Fewer(m)) \in Nat /\ ~(Cardinality(Fewer(m)) < Control!Limit)
      BY <1>5, <3>2
    <3>4. Fewer(m) \subseteq found
      <4>1. \A k \in 1..(m - 1) : k \in T
        BY <1>2, <3>2, <3>3
      <4> QED BY <4>1 DEF Fewer
    <3>5. IsFiniteSet(found) /\ Cardinality(Fewer(m)) <= Cardinality(found)
      <4> HIDE DEF found
      <4> QED BY <1>6, <3>4, FS_Subset
    <3>6. Cardinality(found) >= Control!Limit
      <4> HIDE DEF found, Fewer
      <4> QED BY <1>2, <1>6, <3>3, <3>5
    <3>7. ASSUME NEW k \in T PROVE k <= n
      BY <1>2, <1>8, <2>2
    <3> QED BY <1>3, <3>6, <3>7
  <2> QED BY <2>1, <2>2
<1>11. \A s \in found : \E n \in 1..MaxPlays : s \in All(n)
  BY <1>3
<1> HIDE DEF found
<1> QED BY <1>1, <1>6, <1>10, <1>11 DEF All

LEMMA JoinedKeysAre ==
  ASSUME NEW f \in Seq(Int), NEW g \in Seq(Int)
  PROVE  /\ f \o g \in Seq(Int) /\ Len(f \o g) = Len(f) + Len(g) /\ Len(f) \in Nat /\ Len(g) \in Nat
         /\ \A i \in 1..Len(f) : (f \o g)[i] = f[i]
OBVIOUS

Ranked(rank, n, filter) ==
  /\ rank \in Seq(Int) /\ 1 \in DOMAIN rank /\ 2 \in DOMAIN rank /\ rank[2] = n
  /\ ~filter.boost => rank[1] = 0

\* What the ranking compares first: nothing when no song is preferred, and then the number of plays.
LEMMA RankIs ==
  ASSUME NEW n \in Nat \ {0}, NEW basePTs, BasesTyped(basePTs), NEW target,
         NEW s \in Control!AllSolutionsForN(target, n, basePTs),
         NEW titles, IsFiniteSet(UNION {titles[b] : b \in DOMAIN titles}), NEW filter
  PROVE  Ranked(Control!Rank(s, titles, filter), n, filter)
<1> DEFINE plays == DOMAIN s.basePTs
           preferred == {i \in plays : filter.boost /\ \E c \in titles[s.basePTs[i]] : c.boost}
           choices == {f \in [plays -> UNION {titles[b] : b \in DOMAIN titles}] : \A i \in plays : f[i] \in titles[s.basePTs[i]]}
           boosts == [i \in plays |-> s.multipliers[i] \div 5]
           share == Control!Cardinality(preferred)
           ways == Control!Cardinality(choices)
           times == Control!SumFunction(boosts)
           first == <<-((60 * share) \div Len(s.basePTs)), Len(s.basePTs), -ways, -times>>
           rank == Control!Rank(s, titles, filter)
<1>1. rank = first \o Control!Position(s)
  BY DEF Control!Rank
<1>2. /\ s.multipliers \in [1..n -> Control!Multipliers] /\ plays = 1..n
      /\ Control!Position(s) \in Seq(Int) /\ Len(s.basePTs) = n
  BY SolutionsAreRecords, PositionIs
<1>3. IsFiniteSet(1..n) /\ IsFiniteSet(plays)
  BY <1>2, FS_Interval
<1>4. share \in Nat
  <2>1. preferred \subseteq plays
    OBVIOUS
  <2> HIDE DEF preferred
  <2> QED BY <1>3, <2>1, FS_Subset, FS_CardinalityType, SameCardinality
<1>5. ~filter.boost => share = 0
  <2>1. ~filter.boost => preferred = {}
    OBVIOUS
  <2> HIDE DEF preferred
  <2> QED BY <2>1, FS_EmptySet, SameCardinality
<1>6. ways \in Nat
  <2> DEFINE all == UNION {titles[b] : b \in DOMAIN titles}
  <2>1. choices \subseteq [plays -> all]
    OBVIOUS
  <2> HIDE DEF all, plays
  <2>2. IsFiniteSet([plays -> all])
    BY <1>3, FunctionsAreFinite DEF all
  <2> HIDE DEF choices
  <2> QED BY <2>1, <2>2, FS_Subset, FS_CardinalityType, SameCardinality
<1>7. times \in Int
  <2>1. \A i \in 1..n : s.multipliers[i] \div 5 \in Int
    BY <1>2 DEF Control!Multipliers
  <2>2. boosts \in [1..n -> Int]
    BY <1>2, <2>1
  <2> HIDE DEF boosts
  <2> QED BY <2>2, MultipliersAreSummed
<1> HIDE DEF share, ways, times, plays, rank
<1>8. (60 * share) \div n \in Int /\ (share = 0 => (60 * share) \div n = 0)
  BY <1>4
<1>9. /\ first \in Seq(Int) /\ Len(first) = 4 /\ first[1] = -((60 * share) \div n) /\ first[2] = n
  BY <1>2, <1>6, <1>7, <1>8
<1>10. first[1] = -((60 * share) \div n) /\ (share = 0 => first[1] = 0)
  BY <1>8, <1>9
<1> HIDE DEF first
<1>11. /\ rank \in Seq(Int) /\ 1 \in DOMAIN rank /\ 2 \in DOMAIN rank
       /\ rank[1] = first[1] /\ rank[2] = first[2]
  <2> DEFINE q == Control!Position(s)
  <2>1. q \in Seq(Int) /\ rank = first \o q
    BY <1>1, <1>2
  <2> HIDE DEF q
  <2>2. first \in Seq(Int) /\ Len(first) = 4
    BY <1>9
  <2>3. /\ rank \in Seq(Int) /\ Len(rank) = Len(first) + Len(q) /\ Len(q) \in Nat
        /\ \A i \in 1..Len(first) : rank[i] = first[i]
    <3>1. /\ first \o q \in Seq(Int) /\ Len(first \o q) = Len(first) + Len(q) /\ Len(q) \in Nat
          /\ \A i \in 1..Len(first) : (first \o q)[i] = first[i]
      BY <2>1, <2>2, JoinedKeysAre
    <3> QED BY <2>1, <3>1
  <2>4. DOMAIN rank = 1..Len(rank)
    BY <2>3
  <2> QED BY <2>2, <2>3, <2>4
<1> QED BY <1>5, <1>9, <1>10, <1>11 DEF rank, Ranked

LEMMA CompleteStrategies ==
  ASSUME NEW charts, NEW pointsOf, NEW filter, ChartsTyped(charts, pointsOf), NEW target \in Nat,
         filter.bandMode # "contains", filter.boost \in BOOLEAN
  PROVE  Control!StrategiesAreComplete(target, charts, pointsOf, filter)
<1> DEFINE basePTs == Control!ComputeFixedBasePTs(charts, pointsOf, filter)
           admitted == Control!Admitted(charts, pointsOf, filter)
           titles == [b \in basePTs |-> {c \in admitted : pointsOf[c.min] = b}]
           found == Control!Search(target, basePTs)
           key == [s \in found |-> Control!Rank(s, titles, filter)]
           strategies == Control!Analyze(target, charts, pointsOf, filter).strategies
           All(n) == Control!AllSolutionsForN(target, n, basePTs)
           listed == {Control!BagOf(s) : s \in strategies}
<1>1. BasesTyped(basePTs)
  BY BasesAre
<1>2. \A n \in 1..MaxPlays : n \in Nat \ {0}
  BY PlaysAssumption
<1>3. strategies =
        IF basePTs = {} THEN {} ELSE IF target < Control!Min(basePTs) THEN {}
        ELSE IF found = {} THEN {} ELSE Control!Foremost(key)
  <2> DEFINE ofBand(s) == \E i \in DOMAIN s.basePTs : \E c \in titles[s.basePTs[i]] : c.band = filter.band
             kept == {s \in found : filter.bandMode = "contains" => ofBand(s)}
             ranks == [s \in kept |-> Control!Rank(s, titles, filter)]
             none == [outcome |-> "infeasible", strategies |-> {}, windows |-> {}]
             shown == UNION {{[plays |-> n, run |-> s] : s \in Control!Shown(basePTs, n)} : n \in Control!Tiers}
             answer == Control!Analyze(target, charts, pointsOf, filter)
  <2>1. answer =
          IF basePTs = {} THEN none
          ELSE IF target < Control!Min(basePTs) THEN [none EXCEPT !.outcome = "too low"]
          ELSE IF found = {} THEN [none EXCEPT !.windows = shown]
          ELSE IF kept = {} THEN [none EXCEPT !.outcome = "throws"]
          ELSE [none EXCEPT !.outcome = "feasible", !.strategies = Control!Foremost(ranks)]
    BY DEF Control!Analyze
  <2>2. kept = found
    OBVIOUS
  <2>3. ranks = key
    BY <2>2
  <2> HIDE DEF basePTs, found, kept, shown, answer, ranks, key
  <2>4. answer.strategies =
          IF basePTs = {} THEN {} ELSE IF target < Control!Min(basePTs) THEN {}
          ELSE IF found = {} THEN {} ELSE Control!Foremost(ranks)
    BY <2>1, <2>2
  <2> QED BY <2>3, <2>4 DEF answer
<1>4. \A n \in 1..MaxPlays : Control!BagsOf(target, n, basePTs) = {BagOf(f, n) : f \in Solutions(target, n, basePTs)}
  <2> SUFFICES ASSUME NEW n \in 1..MaxPlays
               PROVE  Control!BagsOf(target, n, basePTs) = {BagOf(f, n) : f \in Solutions(target, n, basePTs)}
    OBVIOUS
  <2>1. n \in Nat
    BY <1>2
  <2> HIDE DEF basePTs
  <2>2. {g \in [1..n -> Control!Multipliers \X basePTs] : Control!SumFunction([i \in 1..n |-> g[i][1] * g[i][2]]) = target}
          = Solutions(target, n, basePTs)
    BY <1>1, <2>1, SolutionsAre
  <2>3. \A f \in Solutions(target, n, basePTs) :
              Control!Bag([i \in 1..n |-> f[i][1]], [i \in 1..n |-> f[i][2]]) = BagOf(f, n)
    BY <1>1, <2>1, SolutionsAre
  <2> QED BY <2>2, <2>3 DEF Control!BagsOf
\* What is ranked, and by what.
<1>5. /\ Keyed(key) /\ DOMAIN key = found
      /\ \A s \in found : \E n \in 1..MaxPlays : s \in All(n)
      /\ \A s \in found :
           /\ 1 \in DOMAIN key[s] /\ 2 \in DOMAIN key[s] /\ key[s][2] = Len(s.basePTs)
           /\ ~filter.boost => key[s][1] = 0
  <2>1. IsFiniteSet(UNION {titles[b] : b \in DOMAIN titles})
    <3>1. UNION {titles[b] : b \in DOMAIN titles} \subseteq charts /\ IsFiniteSet(charts)
      BY DEF ChartsTyped, Control!Admitted
    <3> HIDE DEF titles
    <3> QED BY <3>1, FS_Subset
  <2>2. IsFiniteSet(found) /\ \A s \in found : \E n \in 1..MaxPlays : s \in All(n)
    BY <1>1, SearchIs
  <2> HIDE DEF titles, found, basePTs
  <2>3. ASSUME NEW s \in found
        PROVE  /\ key[s] \in Seq(Int)
               /\ 1 \in DOMAIN key[s] /\ 2 \in DOMAIN key[s] /\ key[s][2] = Len(s.basePTs)
               /\ ~filter.boost => key[s][1] = 0
    <3>1. PICK n \in 1..MaxPlays : s \in All(n)
      BY <2>2
    <3>2. n \in Nat \ {0} /\ Len(s.basePTs) = n
      BY <1>1, <1>2, <3>1, PositionIs
    <3>3. s \in Control!AllSolutionsForN(target, n, basePTs)
      BY <3>1
    <3>4. Ranked(Control!Rank(s, titles, filter), n, filter)
      BY <1>1, <2>1, <3>2, <3>3, RankIs
    <3> QED BY <3>2, <3>4 DEF Ranked
  <2>4. DOMAIN key = found
    OBVIOUS
  <2> HIDE DEF key
  <2> QED BY <2>2, <2>3, <2>4 DEF Keyed
<1> HIDE DEF basePTs, titles, found, key, strategies, admitted
<1>6. ASSUME NEW n \in 1..MaxPlays, NEW f \in Solutions(target, n, basePTs)
      PROVE  /\ basePTs # {} /\ ~(target < Control!Min(basePTs))
             /\ \E s \in Control!AllSolutionsForN(target, n, basePTs) : Control!BagOf(s) = BagOf(f, n)
  <2>1. n \in Nat \ {0} /\ f \in Plays(n, basePTs) /\ TotalOf(f, n) = target
    BY <1>2 DEF Solutions
  <2>2. basePTs # {}
    <3>1. 1 \in 1..n
      BY <2>1
    <3>2. f[1][2] \in basePTs
      BY <1>1, <2>1, <3>1, PlaysAre
    <3> QED BY <3>2
  <2>3. Control!Min(basePTs) <= target
    <3> DEFINE lo == Control!Min(basePTs)
               first == ProductsOf(f, n)[1]
    <3>1. 1 \in 1..n /\ n \in Nat
      BY <2>1
    <3>2. f[1][1] \in 1..15 /\ f[1][2] \in basePTs /\ f[1][2] \in Nat \ {0} /\ first = f[1][1] * f[1][2]
      BY <1>1, <2>1, <3>1, PlaysAre
    <3>3. lo \in Nat \ {0} /\ lo <= f[1][2]
      BY <1>1, <2>2, <3>2, BoundsOfBases
    <3>4. first <= target
      <4>1. Summable(ProductsOf(f, n), 1..n)
        BY <1>1, <2>1, <3>1, ProductsAre
      <4>2. \A i \in 1..n : ProductsOf(f, n)[i] \in Nat
        <5> SUFFICES ASSUME NEW i \in 1..n PROVE ProductsOf(f, n)[i] \in Nat
          OBVIOUS
        <5>1. ProductsOf(f, n)[i] = f[i][1] * f[i][2] /\ f[i][1] * f[i][2] \in Nat
          BY <1>1, <2>1, <3>1, PlaysAre
        <5> QED BY <5>1
      <4>3. \A i \in 1..n : ProductsOf(f, n)[i] >= 0
        BY <4>2
      <4>4. ProductsOf(f, n)[1] <= Sum(ProductsOf(f, n), 1..n)
        BY <3>1, <4>1, <4>3, SumIsNatural
      <4> QED BY <2>1, <4>4 DEF TotalOf
    <3> DEFINE m == f[1][1]
               b == f[1][2]
    <3>5. m \in 1..15 /\ b \in Nat \ {0} /\ first = m * b /\ lo <= b
      BY <3>2, <3>3
    <3> HIDE DEF m, b, lo, first
    <3>6. b <= m * b /\ m * b \in Int
      <4>1. (m - 1) * b >= 0 /\ (m - 1) * b = m * b - b
        BY <3>5
      <4> QED BY <3>5, <4>1
    <3>7. lo <= target
      BY <3>3, <3>4, <3>5, <3>6
    <3> QED BY <3>7 DEF lo
  <2>4. \E s \in Control!AllSolutionsForN(target, n, basePTs) : Control!Bag(s.multipliers, s.basePTs) = BagOf(f, n)
    BY <1>1, <2>1, <2>2, SolutionIsListed
  <2>5. ~(target < Control!Min(basePTs))
    <3>1. Control!Min(basePTs) \in Nat
      BY <1>1, <2>2, BoundsOfBases
    <3> QED BY <2>3, <3>1
  <2> QED BY <2>2, <2>4, <2>5 DEF Control!BagOf
<1>7. ASSUME NEW s \in strategies
      PROVE  Control!BagOf(s) \in UNION {Control!BagsOf(target, n, basePTs) : n \in 1..MaxPlays}
  <2>1. s \in found
    <3>1. Control!Foremost(key) \subseteq found
      BY <1>5, ForemostIs
    <3> QED BY <1>3, <3>1
  <2>2. PICK n \in 1..MaxPlays : s \in All(n)
    BY <1>5, <2>1
  <2>3. \E f \in Solutions(target, n, basePTs) : Control!Bag(s.multipliers, s.basePTs) = BagOf(f, n)
    BY <1>1, <1>2, <2>2, ListedIsSolution
  <2>4. Control!BagOf(s) \in Control!BagsOf(target, n, basePTs)
    BY <1>4, <2>3 DEF Control!BagOf
  <2> QED BY <2>4
\* One that is missing: the search has passed it by, or the ranking has left it out.
<1>8. ASSUME NEW n \in 1..MaxPlays, ~(Control!BagsOf(target, n, basePTs) \subseteq listed)
      PROVE  /\ Cardinality(strategies) >= Control!Limit
             /\ filter.boost \/ \A s \in strategies : Len(s.basePTs) <= n
  <2>1. PICK f \in Solutions(target, n, basePTs) : BagOf(f, n) \notin listed
    BY <1>4, <1>8
  <2>2. /\ basePTs # {} /\ ~(target < Control!Min(basePTs))
        /\ \E s \in All(n) : Control!BagOf(s) = BagOf(f, n)
    BY <1>6
  <2>3. PICK s \in All(n) : Control!BagOf(s) = BagOf(f, n)
    BY <2>2
  <2>4. s \notin strategies
    BY <2>1, <2>3
  <2>5. strategies = Control!Foremost(key)
    <3>1. found = {} => Control!Foremost(key) = {}
      <4>1. Control!Foremost(key) \subseteq found
        BY <1>5, ForemostIs
      <4> QED BY <4>1
    <3> QED BY <1>3, <2>2, <3>1
  <2>6. /\ strategies \subseteq found /\ IsFiniteSet(strategies)
        /\ \A t \in found : t \in strategies \/ Cardinality(strategies) >= Control!Limit
        /\ \A t \in found, u \in strategies : Control!Before(key[t], key[u]) => t \in strategies
    BY <1>5, <2>5, ForemostIs
  <2>7. Len(s.basePTs) = n
    BY <1>1, <1>2, PositionIs
  <2>8. CASE s \in found
    <3>1. Cardinality(strategies) >= Control!Limit
      BY <2>4, <2>6, <2>8
    <3>2. ASSUME ~filter.boost, NEW u \in strategies
          PROVE  Len(u.basePTs) <= n
      <4>1. u \in found /\ ~Control!Before(key[s], key[u])
        BY <2>4, <2>6, <2>8
      <4>2. /\ key[s][1] = 0 /\ key[u][1] = 0 /\ key[s][2] = n /\ key[u][2] = Len(u.basePTs)
            /\ 2 \in DOMAIN key[s] /\ 2 \in DOMAIN key[u]
        BY <1>5, <2>7, <2>8, <3>2, <4>1
      <4>3. PICK k \in 1..MaxPlays : u \in All(k)
        BY <1>5, <4>1
      <4>4. Len(u.basePTs) = k
        BY <1>1, <1>2, <4>3, PositionIs
      <4>5. n < Len(u.basePTs) => Control!Before(key[s], key[u])
        <5>1. \A j \in 1..(2 - 1) : j = 1
          OBVIOUS
        <5> QED BY <4>2, <5>1 DEF Control!Before
      <4>6. k \in Nat /\ n \in Nat
        BY <1>2
      <4> QED BY <4>1, <4>4, <4>5, <4>6
    <3> QED BY <3>1, <3>2
  <2>9. CASE s \notin found
    <3>1. Cardinality(found) >= Control!Limit /\ \A t \in found : Len(t.basePTs) <= n
      <4>1. \/ All(n) \subseteq found
            \/ Cardinality(found) >= Control!Limit /\ \A t \in found : Len(t.basePTs) <= n
        BY <1>1, SearchIs DEF found
      <4> QED BY <2>3, <2>9, <4>1
    <3>2. Cardinality(strategies) >= Control!Limit
      <4>1. CASE found = strategies
        BY <3>1, <4>1
      <4>2. CASE found # strategies
        BY <2>6, <4>2
      <4> QED BY <4>1, <4>2
    <3> QED BY <2>6, <3>1, <3>2
  <2> QED BY <2>8, <2>9
<1>9. /\ listed \subseteq UNION {Control!BagsOf(target, n, basePTs) : n \in 1..MaxPlays}
      /\ \A n \in 1..MaxPlays :
           \/ Control!BagsOf(target, n, basePTs) \subseteq listed
           \/ /\ Control!Cardinality(strategies) >= Control!Limit
              /\ filter.boost \/ \A s \in strategies : Len(s.basePTs) <= n
  <2>1. listed \subseteq UNION {Control!BagsOf(target, n, basePTs) : n \in 1..MaxPlays}
    BY <1>7
  <2>2. Control!Cardinality(strategies) = Cardinality(strategies)
    BY SameCardinality
  <2> HIDE DEF listed
  <2> QED BY <1>8, <2>1, <2>2
<1> QED BY <1>9 DEF Control!StrategiesAreComplete, basePTs, strategies

\* The windows.  What n plays can give, and what one more adds.
OnePlay(basePTs) == {b * m : b \in basePTs, m \in Control!Multipliers}
Totals(n, basePTs) == {TotalOf(f, n) : f \in Plays(n, basePTs)}

LEMMA TotalsOfNone == ASSUME NEW basePTs PROVE Totals(0, basePTs) = {0}
<1>1. 1..0 = {}
  OBVIOUS
<1>2. \A f : TotalOf(f, 0) = 0
  BY <1>1, SumOfNone DEF TotalOf
<1>3. \E f : f \in Plays(0, basePTs)
  <2>1. [i \in 1..0 |-> 0] \in Plays(0, basePTs)
    BY <1>1 DEF Plays
  <2> QED BY <2>1
<1> QED BY <1>2, <1>3 DEF Totals

\* The plays but the last.
LEMMA LastPlayApart ==
  ASSUME NEW n \in Nat, NEW basePTs, BasesTyped(basePTs), NEW f \in Plays(n + 1, basePTs),
         NEW g \in Plays(n, basePTs), \A i \in 1..n : g[i] = f[i]
  PROVE  TotalOf(f, n + 1) = TotalOf(g, n) + f[n + 1][2] * f[n + 1][1]
<1> DEFINE h == ProductsOf(f, n + 1)
           e == ProductsOf(g, n)
<1>1. n + 1 \in Nat /\ n + 1 \in 1..(n + 1) /\ (1..(n + 1)) \ {n + 1} = 1..n
  OBVIOUS
<1>2. Summable(h, 1..(n + 1)) /\ Summable(e, 1..n)
  BY <1>1, ProductsAre
<1>3. h[n + 1] = f[n + 1][1] * f[n + 1][2] /\ f[n + 1][1] \in 1..15 /\ f[n + 1][2] \in Nat \ {0}
  BY <1>1, PlaysAre
<1>4. \A i \in 1..n : h[i] = e[i]
  BY DEF ProductsOf
<1> HIDE DEF h, e
<1>5. Sum(h, 1..(n + 1)) = h[n + 1] + Sum(h, (1..(n + 1)) \ {n + 1})
  BY <1>1, <1>2, SumWithout
<1>6. Sum(h, 1..n) = Sum(e, 1..n)
  BY <1>4, SumsAreEqual
<1>7. Sum(e, 1..n) \in Int
  BY <1>2, SumIsInt
<1> DEFINE a == f[n + 1][1]
           b == f[n + 1][2]
           s == Sum(e, 1..n)
<1>8. TotalOf(f, n + 1) = a * b + s /\ TotalOf(g, n) = s
  BY <1>1, <1>3, <1>5, <1>6 DEF TotalOf, h, e
<1>9. a \in Int /\ b \in Int /\ s \in Int
  BY <1>3, <1>7
<1> HIDE DEF a, b, s
<1>10. a * b + s = s + b * a
  BY <1>9
<1> QED BY <1>8, <1>10 DEF a, b, s

LEMMA TotalsGrow ==
  ASSUME NEW n \in Nat, NEW basePTs, BasesTyped(basePTs)
  PROVE  Totals(n + 1, basePTs) = {v + w : v \in Totals(n, basePTs), w \in OnePlay(basePTs)}
<1>1. n + 1 \in Nat /\ n + 1 \in 1..(n + 1) /\ 1..n \subseteq 1..(n + 1)
  OBVIOUS
<1>2. ASSUME NEW f \in Plays(n + 1, basePTs)
      PROVE  \E v \in Totals(n, basePTs), w \in OnePlay(basePTs) : TotalOf(f, n + 1) = v + w
  <2> DEFINE g == [i \in 1..n |-> f[i]]
  <2>1. g \in Plays(n, basePTs) /\ \A i \in 1..n : g[i] = f[i]
    BY <1>1 DEF Plays
  <2> HIDE DEF g
  <2>2. TotalOf(f, n + 1) = TotalOf(g, n) + f[n + 1][2] * f[n + 1][1]
    BY <2>1, LastPlayApart
  <2>3. f[n + 1][1] \in Control!Multipliers /\ f[n + 1][2] \in basePTs
    BY <1>1, PlaysAre
  <2>4. f[n + 1][2] * f[n + 1][1] \in OnePlay(basePTs)
    BY <2>3 DEF OnePlay
  <2>5. TotalOf(g, n) \in Totals(n, basePTs)
    BY <2>1 DEF Totals
  <2> QED BY <2>2, <2>4, <2>5
<1>3. ASSUME NEW g \in Plays(n, basePTs), NEW b \in basePTs, NEW m \in Control!Multipliers
      PROVE  TotalOf(g, n) + b * m \in Totals(n + 1, basePTs)
  <2> DEFINE f == [i \in 1..(n + 1) |-> IF i = n + 1 THEN <<m, b>> ELSE g[i]]
  <2>1. f \in Plays(n + 1, basePTs)
    <3> SUFFICES ASSUME NEW i \in 1..(n + 1) PROVE f[i] \in Control!Multipliers \X basePTs
      BY DEF Plays
    <3>1. CASE i = n + 1
      BY <3>1
    <3>2. CASE i # n + 1
      <4>1. i \in 1..n
        BY <3>2
      <4> QED BY <3>2, <4>1 DEF Plays
    <3> QED BY <3>1, <3>2
  <2>2. f[n + 1] = <<m, b>> /\ \A i \in 1..n : g[i] = f[i]
    BY <1>1
  <2> HIDE DEF f
  <2>3. TotalOf(f, n + 1) = TotalOf(g, n) + f[n + 1][2] * f[n + 1][1]
    BY <2>1, <2>2, LastPlayApart
  <2>4. f[n + 1][2] = b /\ f[n + 1][1] = m
    BY <2>2
  <2> QED BY <2>1, <2>3, <2>4 DEF Totals
<1>4. \A v \in Totals(n, basePTs), w \in OnePlay(basePTs) : v + w \in Totals(n + 1, basePTs)
  BY <1>3 DEF Totals, OnePlay
<1>5. \A t \in Totals(n + 1, basePTs) : \E v \in Totals(n, basePTs), w \in OnePlay(basePTs) : t = v + w
  BY <1>2 DEF Totals
<1> QED BY <1>4, <1>5

\* The recursion that the windows are made of.
ReachedBy(g, basePTs, last) ==
  g = [n \in 1..last |-> IF n = 1 THEN OnePlay(basePTs) ELSE Control!Sums(g[n - 1], OnePlay(basePTs))]

LEMMA ReachedExists == ASSUME NEW basePTs, NEW last \in Nat PROVE \E g : ReachedBy(g, basePTs, last)
<1> DEFINE N == {n \in Nat : \E g : ReachedBy(g, basePTs, n)}
<1>1. 0 \in N
  <2> DEFINE g == [n \in 1..0 |-> {}]
  <2>1. 1..0 = {}
    OBVIOUS
  <2>2. ReachedBy(g, basePTs, 0)
    BY <2>1 DEF ReachedBy
  <2> HIDE DEF g
  <2> QED BY <2>2
<1>2. ASSUME NEW n \in N PROVE n + 1 \in N
  <2>1. PICK g : ReachedBy(g, basePTs, n)
    OBVIOUS
  <2> DEFINE next == IF n = 0 THEN OnePlay(basePTs) ELSE Control!Sums(g[n], OnePlay(basePTs))
             h == [k \in 1..(n + 1) |-> IF k = n + 1 THEN next ELSE g[k]]
             R(k) == IF k = 1 THEN OnePlay(basePTs) ELSE Control!Sums(h[k - 1], OnePlay(basePTs))
  <2>2. n \in Nat
    OBVIOUS
  <2>3. \A k \in 1..n : h[k] = g[k]
    BY <2>2
  <2>4. \A k \in 1..n : g[k] = IF k = 1 THEN OnePlay(basePTs) ELSE Control!Sums(g[k - 1], OnePlay(basePTs))
    BY <2>1 DEF ReachedBy
  <2>5. ASSUME NEW k \in 1..(n + 1) PROVE h[k] = R(k)
    <3>1. CASE k = n + 1
      <4>1. h[k] = next /\ (k = 1 <=> n = 0)
        BY <2>2, <3>1
      <4>2. CASE n = 0
        BY <4>1, <4>2
      <4>3. CASE n # 0
        <5>1. k - 1 = n /\ n \in 1..n
          BY <2>2, <3>1, <4>3
        <5>2. h[k - 1] = g[n]
          BY <2>3, <5>1
        <5> QED BY <4>1, <4>3, <5>2
      <4> QED BY <4>2, <4>3
    <3>2. CASE k # n + 1
      <4>1. k \in 1..n /\ (k # 1 => k - 1 \in 1..n)
        BY <2>2, <3>2
      <4> HIDE DEF h
      <4>2. CASE k = 1
        BY <2>3, <2>4, <4>1, <4>2
      <4>3. CASE k # 1
        <5>1. h[k] = g[k] /\ h[k - 1] = g[k - 1]
          BY <2>3, <4>1, <4>3
        <5>2. g[k] = Control!Sums(g[k - 1], OnePlay(basePTs))
          BY <2>4, <4>1, <4>3
        <5> QED BY <4>3, <5>1, <5>2
      <4> QED BY <4>2, <4>3
    <3> QED BY <3>1, <3>2
  <2>6. h = [k \in 1..(n + 1) |-> R(k)]
    <3>1. h = [k \in 1..(n + 1) |-> h[k]]
      OBVIOUS
    <3> HIDE DEF h, R
    <3> QED BY <2>5, <3>1
  <2>7. ReachedBy(h, basePTs, n + 1)
    <3> HIDE DEF h
    <3> QED BY <2>6 DEF ReachedBy
  <2> HIDE DEF h
  <2> QED BY <2>2, <2>7
<1> HIDE DEF N
<1>3. N = Nat
  BY <1>1, <1>2, AllNaturals DEF N
<1> QED BY <1>3 DEF N

LEMMA ReachedIs ==
  ASSUME NEW basePTs
  PROVE  ReachedBy(Control!Reached(basePTs), basePTs, MaxPlays)
<1>1. \E g : ReachedBy(g, basePTs, MaxPlays)
  BY ReachedExists, PlaysAssumption
<1>2. Control!Reached(basePTs) = CHOOSE g : ReachedBy(g, basePTs, MaxPlays)
  BY DEF Control!Reached, ReachedBy, OnePlay
<1> QED BY <1>1, <1>2

\* What is reached with at most n plays is what some number of plays up to n gives.
TotalsUpTo(n, basePTs) == UNION {Totals(k, basePTs) : k \in 1..n}

LEMMA TotalsAreReached ==
  ASSUME NEW basePTs, BasesTyped(basePTs), NEW n \in 1..MaxPlays
  PROVE  Control!Reached(basePTs)[n] = TotalsUpTo(n, basePTs)
<1> DEFINE up == Control!Reached(basePTs)
           one == OnePlay(basePTs)
           T(k) == Totals(k, basePTs)
           N == {k \in Nat : k + 1 \in 1..MaxPlays => up[k + 1] = TotalsUpTo(k + 1, basePTs)}
<1>1. MaxPlays \in Nat
  BY PlaysAssumption
<1>2. \A k \in 1..MaxPlays : up[k] = IF k = 1 THEN one ELSE Control!Sums(up[k - 1], one)
  BY ReachedIs DEF ReachedBy
<1> HIDE DEF up
<1>3. \A k \in Nat : T(k + 1) = {v + w : v \in T(k), w \in one}
  BY TotalsGrow
<1>4. one = T(1)
  <2>1. T(0) = {0} /\ T(0 + 1) = {v + w : v \in T(0), w \in one}
    BY <1>3, TotalsOfNone
  <2>2. \A w \in one : 0 + w = w
    <3>1. \A w \in one : w \in Int
      <4> SUFFICES ASSUME NEW b \in basePTs, NEW m \in Control!Multipliers PROVE b * m \in Int
        BY DEF OnePlay
      <4>1. b \in Int /\ m \in Int
        BY DEF BasesTyped, Control!Multipliers
      <4> QED BY <4>1
    <3> HIDE DEF one
    <3> QED BY <3>1
  <2> HIDE DEF one, T
  <2>3. T(0 + 1) = one
    BY <2>1, <2>2
  <2> QED BY <2>3
<1> HIDE DEF one, T
<1>5. 0 \in N
  <2>1. 0 + 1 = 1 /\ 1..1 = {1}
    OBVIOUS
  <2>2. TotalsUpTo(1, basePTs) = T(1)
    BY <2>1 DEF TotalsUpTo, T
  <2>3. 1 \in 1..MaxPlays => up[1] = one
    BY <1>2
  <2> QED BY <1>4, <2>1, <2>2, <2>3
<1>6. ASSUME NEW k \in N PROVE k + 1 \in N
  <2>1. k \in Nat /\ k + 1 \in Nat
    OBVIOUS
  <2> SUFFICES ASSUME (k + 1) + 1 \in 1..MaxPlays PROVE up[(k + 1) + 1] = TotalsUpTo((k + 1) + 1, basePTs)
    BY <2>1
  <2> DEFINE n1 == k + 1
             n2 == (k + 1) + 1
  <2>2. n1 \in 1..MaxPlays /\ n2 \in 1..MaxPlays /\ n2 - 1 = n1 /\ n2 # 1 /\ n1 \in Nat /\ n2 = n1 + 1
    BY <1>1, <2>1
  <2>3. up[n1] = TotalsUpTo(n1, basePTs)
    BY <2>1, <2>2
  <2> HIDE DEF n1, n2
  <2>4. up[n2] = Control!Sums(up[n1], one)
    BY <1>2, <2>2
  <2>5. up[n2] = up[n1] \union {v + w : v \in up[n1], w \in one}
    BY <2>4 DEF Control!Sums
  <2>6. \A i \in 1..n1 : i \in Nat /\ i \in 1..n2 /\ i + 1 \in 1..n2
    BY <2>2
  <2>7. \A x \in up[n2] : x \in TotalsUpTo(n2, basePTs)
    <3> SUFFICES ASSUME NEW x \in up[n2] PROVE \E i \in 1..n2 : x \in T(i)
      BY DEF TotalsUpTo, T
    <3>1. CASE x \in up[n1]
      BY <2>3, <2>6, <3>1 DEF TotalsUpTo, T
    <3>2. CASE x \in {v + w : v \in up[n1], w \in one}
      <4>1. PICK v \in up[n1], w \in one : x = v + w
        BY <3>2
      <4>2. PICK i \in 1..n1 : v \in T(i)
        BY <2>3 DEF TotalsUpTo, T
      <4>3. x \in T(i + 1)
        BY <1>3, <2>6, <4>1, <4>2
      <4> QED BY <2>6, <4>3
    <3> QED BY <2>5, <3>1, <3>2
  <2>8. \A i \in 1..n2 : \A x \in T(i) : x \in up[n2]
    <3> SUFFICES ASSUME NEW i \in 1..n2, NEW x \in T(i) PROVE x \in up[n2]
      OBVIOUS
    <3>1. CASE i \in 1..n1
      <4>1. x \in up[n1]
        BY <2>3, <3>1 DEF TotalsUpTo, T
      <4> QED BY <2>5, <4>1
    <3>2. CASE i = n2
      <4>1. x \in {v + w : v \in T(n1), w \in one}
        BY <1>3, <2>2, <3>2
      <4>2. \A v \in T(n1) : v \in up[n1]
        <5>1. n1 \in 1..n1
          BY <2>2
        <5> QED BY <2>3, <5>1 DEF TotalsUpTo, T
      <4> QED BY <2>5, <4>1, <4>2
    <3> QED BY <2>2, <3>1, <3>2
  <2>9. up[n2] = TotalsUpTo(n2, basePTs)
    BY <2>7, <2>8 DEF TotalsUpTo, T
  <2> QED BY <2>9 DEF n2
<1> HIDE DEF N
<1>7. N = Nat
  BY <1>5, <1>6, AllNaturals DEF N
<1>8. n - 1 \in Nat /\ (n - 1) + 1 = n
  BY <1>1
<1> QED BY <1>7, <1>8 DEF N, up

LEMMA ReachableWindows ==
  ASSUME NEW basePTs, BasesTyped(basePTs), NEW target \in Nat
  PROVE  Control!WindowsAreReachable(target, basePTs)
<1> SUFFICES ASSUME NEW plays \in Control!Tiers, NEW s \in Control!Shown(basePTs, plays)
             PROVE  LET feasible == \E n \in 1..plays : Control!FindAllSolutionsForN(target, n, basePTs) # {}
                    IN  /\ target \in s.lo..s.hi => feasible
                        /\ target \in {s.lo - 1, s.hi + 1} => ~feasible
  BY DEF Control!WindowsAreReachable
<1> DEFINE feasible == \E n \in 1..plays : Control!FindAllSolutionsForN(target, n, basePTs) # {}
           values == Control!Reached(basePTs)[plays]
<1>1. plays \in 1..MaxPlays /\ plays \in Nat
  BY PlaysAssumption DEF Control!Tiers
<1>2. s \in Control!CollectSegments(values)
  BY DEF Control!Shown
<1>3. values = TotalsUpTo(plays, basePTs)
  BY <1>1, TotalsAreReached
<1>4. \A n \in 1..plays : n \in Nat \ {0}
  BY <1>1
<1>5. \A v \in values : v \in Int
  <2> SUFFICES ASSUME NEW n \in 1..plays, NEW f \in Plays(n, basePTs) PROVE TotalOf(f, n) \in Int
    BY <1>3 DEF TotalsUpTo, Totals
  <2>1. TotalOf(f, n) \in Nat
    BY <1>4, ProductsAre
  <2> QED BY <2>1
<1> HIDE DEF values
<1>6. /\ s.lo \in values /\ s.lo - 1 \notin values
      /\ s.hi \in values /\ s.hi + 1 \notin values
      /\ s.lo..s.hi \subseteq values
  BY <1>2 DEF Control!CollectSegments
<1>7. ASSUME target \in values PROVE feasible
  <2>1. PICK n \in 1..plays : \E f \in Plays(n, basePTs) : target = TotalOf(f, n)
    BY <1>3, <1>7 DEF TotalsUpTo, Totals
  <2>2. PICK f \in Plays(n, basePTs) : TotalOf(f, n) = target
    BY <2>1
  <2>3. basePTs # {}
    <3>1. 1 \in 1..n /\ n \in Nat
      BY <1>4
    <3>2. f[1][2] \in basePTs
      BY <2>2, <3>1, PlaysAre
    <3> QED BY <3>2
  <2>4. \E t \in Control!AllSolutionsForN(target, n, basePTs) : Control!Bag(t.multipliers, t.basePTs) = BagOf(f, n)
    BY <1>4, <2>2, <2>3, SolutionIsListed
  <2>5. Control!FindAllSolutionsForN(target, n, basePTs) # {}
    BY <1>4, <2>4, SearchOfNIs
  <2> QED BY <2>5
<1>8. ASSUME feasible PROVE target \in values
  <2>1. PICK n \in 1..plays : Control!FindAllSolutionsForN(target, n, basePTs) # {}
    BY <1>8
  <2>2. PICK t : t \in Control!AllSolutionsForN(target, n, basePTs)
    BY <1>4, <2>1, SearchOfNIs
  <2>3. \E f \in Solutions(target, n, basePTs) : Control!Bag(t.multipliers, t.basePTs) = BagOf(f, n)
    BY <1>4, <2>2, ListedIsSolution
  <2>4. PICK f \in Plays(n, basePTs) : TotalOf(f, n) = target
    BY <2>3 DEF Solutions
  <2> QED BY <1>3, <2>4 DEF TotalsUpTo, Totals
<1> HIDE DEF feasible
<1>9. target \in s.lo..s.hi => feasible
  BY <1>6, <1>7
<1>10. target \in {s.lo - 1, s.hi + 1} => ~feasible
  BY <1>6, <1>8
<1> QED BY <1>9, <1>10 DEF feasible

-----------------------------------------------------------------------------
\* Rows of scores and points.  Points grow with the score, and within a step of the divisor by what
\* one step is worth at most.
LEMMA ValueOfScore ==
  ASSUME NEW p, EventTyped(p), NEW x \in Int
  PROVE  LET a == Rows!Points!Base[p.type] + x \div Rows!Points!Divisor[p.type]
         IN  /\ a \in Int /\ x \div Rows!Points!Divisor[p.type] \in Int
             /\ Rows!Points!Product(a, p) \in Int
             /\ Rows!Points!CalcEventPT(x, p) = Rows!Points!Product(a, p) \div 100 + Rows!Points!SupportPart(p)
             /\ Rows!Points!CalcEventPT(x, p) \in Int
<1> DEFINE D == Rows!Points!Divisor[p.type]
           b == Rows!Points!Base[p.type]
           m == Rows!Points!Multiplier(p)
           q == x \div D
           a == b + q
           v == Rows!Points!Product(a, p)
<1>1. D \in Nat \ {0} /\ b \in Nat /\ m \in Nat /\ Rows!Points!SupportPart(p) \in Nat
  BY PointConstants
<1>2. Rows!Points!CalcEventPT(x, p) = v \div 100 + Rows!Points!SupportPart(p)
  BY DEF Rows!Points!CalcEventPT
<1>3. v = a * m - ProductMiss(a, p) /\ ProductMiss(a, p) \in {0, 1}
  BY ProductIs
<1> HIDE DEF D, b, m, v
<1>4. q \in Int
  BY <1>1, DivBounds
<1> HIDE DEF q
<1>5. a \in Int
  BY <1>1, <1>4
<1> HIDE DEF a
<1>6. v \in Int
  <2>1. a * m \in Int
    BY <1>1, <1>5
  <2> QED BY <1>3, <2>1
<1>7. v \div 100 \in Int
  BY <1>6
<1> QED BY <1>1, <1>2, <1>4, <1>5, <1>6, <1>7 DEF v, a, q, D, b, m

LEMMA QuotientsKeepOrder ==
  ASSUME NEW x \in Int, NEW z \in Int, NEW y \in Nat \ {0}, x <= z
  PROVE  x \div y \in Int /\ z \div y \in Int /\ x \div y <= z \div y
<1> DEFINE a == x \div y
           b == z \div y
<1>1. a \in Int /\ a * y <= x /\ b \in Int /\ z < b * y + y
  BY DivBounds
<1> HIDE DEF a, b
<1>2. CASE b + 1 <= a
  <2>1. (b + 1) * y <= a * y /\ (b + 1) * y \in Int /\ a * y \in Int
    BY <1>1, <1>2, TimesKeepsOrder
  <2>2. (b + 1) * y = b * y + y /\ b * y \in Int
    BY <1>1
  <2> QED BY <1>1, <2>1, <2>2
<1>3. CASE a <= b
  BY <1>1, <1>3 DEF a, b
<1> QED BY <1>1, <1>2, <1>3

LEMMA PointsGrow ==
  ASSUME NEW p, EventTyped(p), NEW x \in Int, NEW z \in Int, x <= z
  PROVE  Rows!Points!CalcEventPT(x, p) <= Rows!Points!CalcEventPT(z, p)
<1> DEFINE D == Rows!Points!Divisor[p.type]
           b == Rows!Points!Base[p.type]
           m == Rows!Points!Multiplier(p)
           s == Rows!Points!SupportPart(p)
           i == b + x \div D
           j == b + z \div D
           v(a) == Rows!Points!Product(a, p)
<1>1. D \in Nat \ {0} /\ b \in Nat /\ m \in Nat /\ m >= 100 /\ s \in Nat
  BY PointConstants
<1>2. /\ i \in Int /\ j \in Int /\ v(i) \in Int /\ v(j) \in Int /\ x \div D \in Int /\ z \div D \in Int
      /\ Rows!Points!CalcEventPT(x, p) = v(i) \div 100 + s /\ Rows!Points!CalcEventPT(z, p) = v(j) \div 100 + s
  BY ValueOfScore
<1>3. \A a \in {i, j} : v(a) = a * m - ProductMiss(a, p) /\ ProductMiss(a, p) \in {0, 1}
  BY ProductIs
<1> HIDE DEF D, b, m, s, v
<1>4. x \div D <= z \div D
  BY <1>1, QuotientsKeepOrder
<1>5. i <= j
  BY <1>1, <1>2, <1>4
<1> HIDE DEF i, j
<1>6. v(i) <= v(j)
  <2>1. CASE i + 1 <= j
    <3>1. (i + 1) * m <= j * m /\ (i + 1) * m = i * m + m /\ i * m \in Int /\ j * m \in Int
      BY <1>1, <1>2, <2>1, TimesKeepsOrder
    <3> QED BY <1>1, <1>3, <3>1
  <2>2. CASE i = j
    BY <1>2, <2>2
  <2> QED BY <1>2, <1>5, <2>1, <2>2
<1>7. 100 \in Nat \ {0}
  OBVIOUS
<1>8. v(i) \div 100 <= v(j) \div 100 /\ v(i) \div 100 \in Int /\ v(j) \div 100 \in Int
  BY <1>2, <1>6, <1>7, QuotientsKeepOrder
<1> QED BY <1>1, <1>2, <1>8

LEMMA PointsMoveByAStep ==
  ASSUME NEW p, EventTyped(p), NEW x \in Int, NEW z \in Int, x <= z + Rows!Points!Divisor[p.type]
  PROVE  Rows!Points!CalcEventPT(x, p) <= Rows!Points!CalcEventPT(z, p) + (Rows!Points!Multiplier(p) + 99) \div 100
<1> DEFINE D == Rows!Points!Divisor[p.type]
           b == Rows!Points!Base[p.type]
           m == Rows!Points!Multiplier(p)
           s == Rows!Points!SupportPart(p)
           w == z + D
           i == b + z \div D
           j == b + w \div D
           v(a) == Rows!Points!Product(a, p)
           step == (m + 99) \div 100
<1>1. D \in Nat \ {0} /\ b \in Nat /\ m \in Nat /\ s \in Nat
  BY PointConstants
<1>2. w \in Int /\ x <= w
  BY <1>1
<1>3. /\ i \in Int /\ v(i) \in Int /\ z \div D \in Int /\ v(j) \in Int
      /\ Rows!Points!CalcEventPT(z, p) = v(i) \div 100 + s /\ Rows!Points!CalcEventPT(w, p) = v(j) \div 100 + s
      /\ Rows!Points!CalcEventPT(w, p) \in Int /\ Rows!Points!CalcEventPT(z, p) \in Int
  BY <1>2, ValueOfScore
<1>4. Rows!Points!CalcEventPT(x, p) <= Rows!Points!CalcEventPT(w, p) /\ Rows!Points!CalcEventPT(x, p) \in Int
  BY <1>2, PointsGrow, ValueOfScore
<1>5. /\ \A a \in {i, j} : v(a) = a * m - ProductMiss(a, p) /\ ProductMiss(a, p) \in {0, 1}
      /\ ProductMiss(i, p) = 1 => m % 100 # 0
  BY ProductIs
<1> HIDE DEF D, b, m, s, v
<1>6. w \div D = z \div D + 1
  <2> DEFINE q == z \div D
             r == z - q * D
  <2>1. q \in Int /\ q * D <= z /\ z < q * D + D
    BY <1>1, DivBounds
  <2> HIDE DEF q
  <2>2. r \in 0..(D - 1) /\ q + 1 \in Int
    BY <1>1, <2>1
  <2>3. w = (q + 1) * D + r
    BY <1>1, <2>1
  <2> HIDE DEF r, w
  <2>4. ((q + 1) * D + r) \div D = q + 1
    BY <1>1, <2>2, DivIs
  <2> QED BY <2>3, <2>4 DEF q
<1> HIDE DEF w
<1>7. j = i + 1
  <2> DEFINE k == z \div D
             l == w \div D
  <2>1. k \in Int /\ l = k + 1
    BY <1>3, <1>6
  <2> HIDE DEF k, l
  <2>2. b + l = (b + k) + 1
    BY <1>1, <2>1
  <2> QED BY <2>2 DEF k, l
<1> HIDE DEF i, j
\* A multiplier that is not one of whole hundreds leaves room in its step for what the value misses.
<1>8. v(j) <= v(i) + 100 * step /\ step \in Int
  <2>1. j * m = i * m + m /\ i * m \in Int
    BY <1>1, <1>3, <1>7
  <2>2. m <= 100 * step /\ step \in Int /\ (m % 100 # 0 => m + 1 <= 100 * step)
    BY <1>1
  <2> HIDE DEF step
  <2> QED BY <1>1, <1>5, <2>1, <2>2
<1>9. v(j) \div 100 <= v(i) \div 100 + step /\ v(j) \div 100 \in Int /\ v(i) \div 100 \in Int
  <2> HIDE DEF step
  <2> QED BY <1>3, <1>8
<1> HIDE DEF step
<1>10. Rows!Points!CalcEventPT(x, p) <= Rows!Points!CalcEventPT(z, p) + step
  BY <1>1, <1>3, <1>4, <1>8, <1>9
<1> QED BY <1>10 DEF step, m

\* What a row is given.
RowTyped(song, filled, chart) ==
  /\ song.level \in Nat /\ filled.power \in Nat /\ filled.auto \in Nat
  /\ filled.event \in [type : Rows!Points!BonusTypes, bonus : Nat, support : Nat]
  /\ filled.team \in [1..(SkillCount - 1) -> Rows!Score!Skills] /\ filled.leader \in Rows!Score!Skills
  /\ filled.fps \in Rates
  /\ Rows!Score!Scorable(chart) /\ song.summary = Rows!Score!Chart!BuildLevelSummary(chart)
  /\ Rows!PowerIsFine(song, filled)

LEMMA BonusEvents ==
  ASSUME NEW event \in [type : Rows!Points!BonusTypes, bonus : Nat, support : Nat], NEW k \in Nat
  PROVE  /\ EventTyped(event) /\ Rows!Points!Divisor[event.type] \in Nat /\ Rows!Points!Divisor[event.type] >= 15000
         /\ EventTyped([event EXCEPT !.bonus = k])
<1>1. event.type \in Rows!Points!BonusTypes
  OBVIOUS
<1>2. Rows!Points!BonusTypes \subseteq Rows!Points!Types
  BY DEF Rows!Points!BonusTypes, Rows!Points!Types
<1>3. EventTyped(event) /\ EventTyped([event EXCEPT !.bonus = k])
  BY <1>2 DEF EventTyped
<1>4. event.type \in {"mission", "try", "challenge"}
  BY <1>1 DEF Rows!Points!BonusTypes
<1>5. Rows!Points!Divisor[event.type] \in Nat /\ Rows!Points!Divisor[event.type] >= 15000
  BY <1>4 DEF Rows!Points!Divisor
<1> QED BY <1>3, <1>5

\* A chart has a note at least, and the weight of a line-up is not negative.
LEMMA TotalIsPositive ==
  ASSUME NEW chart, Rows!Score!Scorable(chart)
  PROVE  chart.total \in Nat \ {0} /\ Rows!Score!Chart!BuildLevelSummary(chart).total = chart.total
<1>1. IsFiniteSet(DOMAIN chart.notes) /\ chart.total = SkillCount + Cardinality(DOMAIN chart.notes)
  BY DEF Rows!Score!Scorable, Rows!Score!Chart!Countable, Rows!Score!Chart!IsFiniteSet, IsFiniteSet, Rows!Score!Chart!Cardinality, Cardinality
<1>2. Cardinality(DOMAIN chart.notes) \in Nat
  BY <1>1, FS_CardinalityType
<1>3. SkillCount \in Nat \ {0}
  BY SkillsAssumption
<1>4. Rows!Score!Chart!BuildLevelSummary(chart).total = chart.total
  BY DEF Rows!Score!Chart!BuildLevelSummary
<1> QED BY <1>1, <1>2, <1>3, <1>4

WeightOf(lineUp, summary, fps) == Sum(Weights(lineUp, summary, fps, SkillCount), 1..SkillCount)

LEMMA WeightIsNatural ==
  ASSUME NEW chart, Rows!Score!Scorable(chart), NEW lineUp, LineUpTyped(lineUp), NEW fps \in Rates
  PROVE  WeightOf(lineUp, Rows!Score!Chart!BuildLevelSummary(chart), fps) \in Nat
<1> DEFINE summary == Rows!Score!Chart!BuildLevelSummary(chart)
           w == Weights(lineUp, summary, fps, SkillCount)
<1>1. \A i \in 1..SkillCount : Rows!Score!NotesAt(summary, lineUp, i, fps) \in Nat /\ SkillTyped(lineUp[i])
  BY NotesAreBoosted, LineUpIs DEF SkillTyped
<1> HIDE DEF summary
<1>2. ASSUME NEW skill, SkillTyped(skill), NEW count \in Nat PROVE Rows!Score!SkillWeight(skill, count) \in Nat
  <2>1. \A k \in 1..count : BonusesOf(skill, count)[k] \in Nat
    <3> SUFFICES ASSUME NEW k \in 1..count PROVE BonusesOf(skill, count)[k] \in Nat
      OBVIOUS
    <3>1. Rows!Score!Bonus(skill, k) \in Nat
      BY <1>2, BonusIs
    <3> QED BY <3>1 DEF BonusesOf
  <2>2. Summable(BonusesOf(skill, count), 1..count) /\ \A k \in 1..count : BonusesOf(skill, count)[k] >= 0
    BY <2>1, FS_Interval DEF Summable
  <2>3. Sum(BonusesOf(skill, count), 1..count) \in Nat
    BY <2>2, SumIsNatural
  <2> QED BY <2>3, SkillWeightIs
<1>3. \A i \in 1..SkillCount : w[i] \in Nat
  BY <1>1, <1>2 DEF Weights
<1> HIDE DEF w
<1>4. Summable(w, 1..SkillCount) /\ \A i \in 1..SkillCount : w[i] >= 0
  BY <1>3, PositionsAreFinite DEF Summable
<1>5. Sum(w, 1..SkillCount) \in Nat
  BY <1>4, SumIsNatural
<1> QED BY <1>5 DEF w, summary, WeightOf
\* The score of a note is a whole number, and a point of power moves it by basesAPoint at most.
BasesAPoint(song, auto) == Rows!Points!CeilDiv(3 * auto * (95 + song.level), 400 * song.summary.total)

LEMMA QuotientIsNatural ==
  ASSUME NEW x \in Nat, NEW y \in Nat \ {0}
  PROVE  x \div y \in Nat
<1> DEFINE q == x \div y
<1>1. q \in Int /\ x < q * y + y /\ q * y \in Int
  BY DivBounds
<1> HIDE DEF q
<1>2. ASSUME q + 1 <= 0 PROVE FALSE
  <2>1. (q + 1) * y <= 0 * y
    BY <1>1, <1>2, TimesKeepsOrder
  <2>2. (q + 1) * y = q * y + y
    BY <1>1
  <2> QED BY <1>1, <2>1, <2>2
<1> QED BY <1>1, <1>2 DEF q

LEMMA BasesMove ==
  ASSUME NEW song, song.level \in Nat, song.summary.total \in Nat \ {0}, NEW auto \in Nat, NEW power \in Nat
  PROVE  /\ Rows!BaseScore(power, song, auto) \in Nat /\ BasesAPoint(song, auto) \in Nat
         /\ Rows!BaseScore(power + 1, song, auto) \in Nat
         /\ Rows!BaseScore(power + 1, song, auto) <= Rows!BaseScore(power, song, auto) + BasesAPoint(song, auto)
<1> DEFINE n == 95 + song.level
           c == 3 * auto * n
           y == 400 * song.summary.total
           x(r) == 3 * auto * r * n
           k == BasesAPoint(song, auto)
           q(r) == Rows!BaseScore(r, song, auto)
<1>1. n \in Nat /\ y \in Nat \ {0}
  OBVIOUS
<1>2. \A r \in Nat : q(r) = x(r) \div y
  BY DEF Rows!BaseScore
<1>3. k = Rows!Points!CeilDiv(c, y)
  BY DEF BasesAPoint
<1> HIDE DEF n, y
<1>4. c \in Nat
  <2>1. 3 * auto \in Nat
    OBVIOUS
  <2> QED BY <1>1, <2>1
<1>5. ASSUME NEW r \in Nat PROVE x(r) = c * r /\ x(r) \in Nat
  <2> DEFINE t == 3 * auto
  <2>1. t \in Nat
    OBVIOUS
  <2> HIDE DEF t
  <2>2. t * r * n = t * n * r /\ t * r * n \in Nat
    BY <1>1, <2>1
  <2> QED BY <2>2 DEF t
<1>6. x(power) \in Nat /\ x(power + 1) \in Nat /\ x(power + 1) = x(power) + c
  <2>1. power + 1 \in Nat
    OBVIOUS
  <2>2. x(power) = c * power /\ x(power) \in Nat
    BY <1>5
  <2>3. x(power + 1) = c * (power + 1) /\ x(power + 1) \in Nat
    BY <2>1, <1>5
  <2> HIDE DEF c, x
  <2>4. c * (power + 1) = c * power + c
    BY <1>4
  <2> QED BY <2>2, <2>3, <2>4
<1>7. q(power) = x(power) \div y /\ q(power + 1) = x(power + 1) \div y
  BY <1>2
<1> DEFINE u == x(power)
           v == x(power + 1)
           i == q(power)
           j == q(power + 1)
<1>8. u \in Nat /\ v \in Nat /\ v = u + c /\ i = u \div y /\ j = v \div y
  BY <1>6, <1>7
<1> HIDE DEF c, x, k, q, u, v
<1>9. i \in Nat /\ j \in Nat
  BY <1>1, <1>8, QuotientIsNatural
<1>10. u < i * y + y /\ j * y <= v /\ i * y \in Int /\ j * y \in Int
  <2>1. u < (u \div y) * y + y /\ (v \div y) * y <= v
    BY <1>1, <1>8, DivBounds
  <2> QED BY <1>1, <1>8, <1>9, <2>1
<1> HIDE DEF i, j
<1>11. k \in Int /\ \A a \in Int : a * y \in Int /\ (k <= a <=> c <= a * y)
  <2>1. c \in Int
    BY <1>4
  <2>2. Rows!Points!CeilDiv(c, y) \in Int /\ \A a \in Int : a * y \in Int /\ (Rows!Points!CeilDiv(c, y) <= a <=> c <= a * y)
    BY <1>1, <2>1, CeilDivIs, Zenon
  <2> QED BY <1>3, <2>2, Zenon
<1>12. k \in Nat /\ k * y \in Int /\ c <= k * y
  <2>1. CASE k + 1 <= 0
    <3>1. -1 \in Int /\ k <= -1
      BY <1>11, <2>1
    <3>2. c <= (-1) * y
      BY <1>11, <3>1
    <3> QED BY <1>1, <1>4, <3>2
  <2>2. k * y \in Int /\ c <= k * y
    <3>1. k <= k
      BY <1>11
    <3> QED BY <3>1, <1>11
  <2> QED BY <1>11, <2>1, <2>2
<1>13. ASSUME i + k + 1 <= j PROVE FALSE
  <2>1. (i + k + 1) * y <= j * y
    BY <1>1, <1>9, <1>12, <1>13, TimesKeepsOrder
  <2>2. (i + k + 1) * y = i * y + k * y + y
    BY <1>1, <1>9, <1>12
  <2> QED BY <1>1, <1>8, <1>10, <1>12, <2>1, <2>2, <1>4
<1>14. j <= i + k
  BY <1>9, <1>12, <1>13
<1> QED BY <1>9, <1>12, <1>14 DEF i, j, q, k

\* What a base is worth in an order of the skills, but for the rounding of its notes.
LEMMA ScoreIsBaseTimesWeight ==
  ASSUME NEW chart, Rows!Score!Scorable(chart), NEW base \in Nat, NEW lineUp, LineUpTyped(lineUp), NEW fps \in Rates
  PROVE  LET summary == Rows!Score!Chart!BuildLevelSummary(chart)
             score == Rows!Score!CalcExactScoreInTurns(base, lineUp, summary, fps)
             worth == 100 * chart.total + WeightOf(lineUp, summary, fps)
         IN  /\ score \in Int /\ worth \in Nat /\ base * worth \in Int
             /\ 100 * score <= base * worth /\ base * worth <= 100 * score + 99 * chart.total
<1> DEFINE summary == Rows!Score!Chart!BuildLevelSummary(chart)
           exact == Rows!Score!CalcExactScoreInTurns(base, lineUp, summary, fps)
           score == Sum(Scores(base, lineUp, summary, fps), 1..SkillCount)
           covered == Sum(Counts(lineUp, summary, fps), 1..SkillCount)
           weight == WeightOf(lineUp, summary, fps)
           total == chart.total
<1>1. score \in Int /\ exact = score + (total - covered) * base
  BY ExactScoreIs
<1>2. covered \in Int /\ total \in Int /\ covered <= total
  BY CountsCoverTheBoosted
<1>3. 100 * score <= (100 * base) * covered + base * weight /\ (100 * base) * covered + base * weight <= 100 * score + 99 * covered
  BY LineUpScoreBounds DEF WeightOf
<1>4. weight \in Nat
  BY WeightIsNatural
<1>5. total \in Nat
  BY TotalIsPositive
<1> HIDE DEF summary, exact, score, covered, weight, total
<1>6. (total - covered) * base = base * total - base * covered /\ (100 * base) * covered = 100 * (base * covered)
      /\ base * (100 * total + weight) = 100 * (base * total) + base * weight
      /\ base * total \in Int /\ base * covered \in Int /\ base * weight \in Int
  BY <1>2, <1>4, <1>5
<1>7. exact \in Int /\ 100 * total + weight \in Nat /\ base * (100 * total + weight) \in Int
      /\ 100 * exact <= base * (100 * total + weight) /\ base * (100 * total + weight) <= 100 * exact + 99 * total
  <2> DEFINE bt == base * total
             bc == base * covered
             bw == base * weight
             bq == base * (100 * total + weight)
  <2>1. bt \in Int /\ bc \in Int /\ bw \in Int /\ bq = 100 * bt + bw /\ exact = score + (bt - bc)
        /\ 100 * score <= 100 * bc + bw /\ 100 * bc + bw <= 100 * score + 99 * covered
    BY <1>1, <1>3, <1>6
  <2> HIDE DEF bt, bc, bw, bq
  <2>2. exact \in Int /\ bq \in Int /\ 100 * exact <= bq /\ bq <= 100 * exact + 99 * total
    BY <1>1, <1>2, <2>1
  <2>3. 100 * total + weight \in Nat
    BY <1>4, <1>5
  <2> QED BY <2>2, <2>3 DEF bq
<1> QED BY <1>7 DEF summary, exact, weight, total

\* A point of power moves the score by half a step of the points at most, and a chart has fewer
\* notes than the shortest step.
FineOrder(song, filled, chart, lineUp) ==
  BasesAPoint(song, filled.auto) * (100 * chart.total + WeightOf(lineUp, song.summary, filled.fps)) + 99 * chart.total <= 750000

LEMMA OrdersAreFine ==
  ASSUME NEW song, NEW filled, NEW chart, RowTyped(song, filled, chart),
         NEW lineUp \in Rows!Score!LineUps(filled.team, filled.leader)
  PROVE  LineUpTyped(lineUp) /\ FineOrder(song, filled, chart, lineUp)
<1> DEFINE summary == song.summary
           fps == filled.fps
           notes == Rows!Score!NotesAt(summary, lineUp, SkillCount, fps)
           leaders == Rows!Score!SkillWeight(filled.leader, notes)
           weight == Rows!Score!Weight(summary, lineUp, fps)
           total == song.summary.total
           k == BasesAPoint(song, filled.auto)
<1>1. Rows!Score!Scorable(chart) /\ summary = Rows!Score!Chart!BuildLevelSummary(chart) /\ fps \in Rates
      /\ filled.team \in [1..(SkillCount - 1) -> Rows!Score!Skills] /\ filled.leader \in Rows!Score!Skills
  BY DEF RowTyped
<1>2. LineUpTyped(lineUp) /\ lineUp[SkillCount] = filled.leader
  BY <1>1, LineUpsAre
<1>3. notes = Rows!Score!Chart!CountAt(chart, SkillCount, lineUp[SkillCount].duration, fps)
  BY <1>1, <1>2, LeadersNotesStay
<1>4. weight \in Int /\ leaders \in Int /\ WeightOf(lineUp, summary, fps) = leaders + weight
  <2>1. LET l == Rows!Score!SkillWeight(lineUp[SkillCount],
                   Rows!Score!Chart!CountAt(chart, SkillCount, lineUp[SkillCount].duration, fps))
        IN  weight \in Int /\ l \in Int /\ WeightOf(lineUp, summary, fps) = l + weight
    BY <1>1, <1>2, WeightAndLeader DEF WeightOf
  <2> QED BY <2>1, <1>2, <1>3
<1>5. total = chart.total
  BY <1>1, TotalIsPositive
<1>6. k * (100 * total + (weight + leaders)) + 99 * total <= 100 * 7500
  BY DEF RowTyped, Rows!PowerIsFine, BasesAPoint
<1>7. weight + leaders = WeightOf(lineUp, summary, fps)
  BY <1>4
<1>8. k * (100 * chart.total + WeightOf(lineUp, summary, fps)) + 99 * chart.total <= 100 * 7500
  BY <1>5, <1>6, <1>7
<1> HIDE DEF k
<1>9. 100 * 7500 = 750000
  OBVIOUS
<1> QED BY <1>2, <1>8, <1>9 DEF FineOrder, k
\* What a row is computed from.
LEMMA RowIsTyped ==
  ASSUME NEW song, NEW filled, NEW chart, RowTyped(song, filled, chart)
  PROVE  /\ Rows!Score!Scorable(chart) /\ song.summary = Rows!Score!Chart!BuildLevelSummary(chart)
         /\ chart.total \in Nat \ {0} /\ song.summary.total = chart.total /\ chart.total <= 7575
         /\ song.level \in Nat /\ filled.auto \in Nat /\ filled.power \in Nat /\ filled.fps \in Rates
         /\ filled.team \in [1..(SkillCount - 1) -> Rows!Score!Skills] /\ filled.leader \in Rows!Score!Skills
         /\ filled.event \in [type : Rows!Points!BonusTypes, bonus : Nat, support : Nat]
<1>1. /\ Rows!Score!Scorable(chart) /\ song.summary = Rows!Score!Chart!BuildLevelSummary(chart)
      /\ song.level \in Nat /\ filled.auto \in Nat /\ filled.power \in Nat /\ filled.fps \in Rates
      /\ filled.team \in [1..(SkillCount - 1) -> Rows!Score!Skills] /\ filled.leader \in Rows!Score!Skills
      /\ filled.event \in [type : Rows!Points!BonusTypes, bonus : Nat, support : Nat]
  BY DEF RowTyped
<1>2. chart.total \in Nat \ {0} /\ song.summary.total = chart.total
  BY <1>1, TotalIsPositive
<1>3. PICK lineUp \in Rows!Score!LineUps(filled.team, filled.leader) : TRUE
  BY <1>1, LineUpsAre
<1>4. LineUpTyped(lineUp) /\ FineOrder(song, filled, chart, lineUp)
  BY OrdersAreFine
<1> DEFINE k == BasesAPoint(song, filled.auto)
           worth == 100 * chart.total + WeightOf(lineUp, song.summary, filled.fps)
<1>5. k \in Nat
  <2>1. 0 \in Nat
    OBVIOUS
  <2> QED BY <1>1, <1>2, <2>1, BasesMove
<1>6. worth \in Nat
  <2>1. WeightOf(lineUp, song.summary, filled.fps) \in Nat
    BY <1>1, <1>4, WeightIsNatural
  <2> QED BY <1>2, <2>1
<1>7. k * worth + 99 * chart.total <= 750000
  BY <1>4 DEF FineOrder
<1> HIDE DEF k, worth
<1>8. k * worth \in Nat
  BY <1>5, <1>6
<1>9. chart.total <= 7575
  BY <1>2, <1>7, <1>8
<1> QED BY <1>1, <1>2, <1>9

\* A row holds the points of every order of the skills.
LEMMA RowsHoldOrders ==
  ASSUME NEW song, NEW filled, NEW chart, RowTyped(song, filled, chart)
  PROVE  Rows!RowsHoldEveryOrder({song}, filled)
<1> DEFINE summary == song.summary
           fps == filled.fps
           base == Rows!BaseScore(filled.power, song, filled.auto)
           L == Rows!Score!LineUps(filled.team, filled.leader)
           exact(l) == Rows!Score!CalcExactScoreInTurns(base, l, summary, fps)
           found == Rows!Score!CalcScore(base, filled.team, filled.leader, summary, fps)
           worth(x) == Rows!Points!CalcEventPT(x, filled.event)
           step == (Rows!Points!Multiplier(filled.event) + 99) \div 100
           row == Rows!CalculateSong(song, filled)
           total == chart.total
           D == Rows!Points!Divisor[filled.event.type]
<1>1. /\ Rows!Score!Scorable(chart) /\ summary = Rows!Score!Chart!BuildLevelSummary(chart)
      /\ total \in Nat \ {0} /\ song.summary.total = total /\ total <= 7575
      /\ song.level \in Nat /\ filled.auto \in Nat /\ filled.power \in Nat /\ fps \in Rates
      /\ filled.team \in [1..(SkillCount - 1) -> Rows!Score!Skills] /\ filled.leader \in Rows!Score!Skills
      /\ filled.event \in [type : Rows!Points!BonusTypes, bonus : Nat, support : Nat]
  BY RowIsTyped
<1>2. base \in Nat
  <2>1. song.summary.total \in Nat \ {0}
    BY <1>1
  <2>2. song.level \in Nat /\ filled.auto \in Nat /\ filled.power \in Nat
    BY <1>1
  <2> QED BY <2>1, <2>2, BasesMove, Zenon
<1>3. EventTyped(filled.event) /\ D \in Nat /\ D >= 15000
  <2>1. 0 \in Nat
    OBVIOUS
  <2> QED BY <1>1, <2>1, BonusEvents
<1>4. row.id = song.id /\ row.difficulty = song.difficulty /\ row.minPT = worth(found.minScore) /\ row.maxPT = worth(found.maxScore)
  BY DEF Rows!CalculateSong
<1>5. found.maxScore \in Int /\ found.minScore \in Int
  <2> DEFINE high == Rows!Score!Heaviest(filled.team, filled.leader, summary, fps)
             low == Rows!Score!Lightest(filled.team, filled.leader, summary, fps)
  <2>1. high \in L /\ low \in L
    BY <1>1, ExtremesExist
  <2>2. LineUpTyped(high) /\ LineUpTyped(low)
    BY <1>1, <2>1, LineUpsAre
  <2>3. found.maxScore = exact(high) /\ found.minScore = exact(low)
    BY DEF Rows!Score!CalcScore
  <2> HIDE DEF high, low, base
  <2>4. exact(high) \in Int
    BY <1>1, <1>2, <2>2, ScoreIsBaseTimesWeight
  <2>5. exact(low) \in Int
    BY <1>1, <1>2, <2>2, ScoreIsBaseTimesWeight
  <2> QED BY <2>3, <2>4, <2>5
<1>6. ASSUME NEW l \in L
      PROVE  row.minPT - step <= worth(exact(l)) /\ worth(exact(l)) <= row.maxPT + step
  <2>1. Rows!Score!ExtremesAreFound(chart, base, filled.team, filled.leader)
    <3> HIDE DEF base
    <3> QED BY <1>1, <1>2, ExtremesAreExtreme
  <2>2. exact(l) < found.maxScore + total + 1 /\ exact(l) > found.minScore - total - 1
    <3>1. fps \in {60, 120}
      BY <1>1 DEF Rates
    <3> HIDE DEF base, fps
    <3>2. LET s == Rows!Score!Chart!BuildLevelSummary(chart)
          IN  /\ Rows!Score!CalcExactScoreInTurns(base, l, s, fps)
                   < Rows!Score!CalcScore(base, filled.team, filled.leader, s, fps).maxScore + s.total + 1
              /\ Rows!Score!CalcExactScoreInTurns(base, l, s, fps)
                   > Rows!Score!CalcScore(base, filled.team, filled.leader, s, fps).minScore - s.total - 1
      BY <2>1, <3>1 DEF Rows!Score!ExtremesAreFound
    <3> QED BY <1>1, <3>2
  <2>3. exact(l) \in Int
    <3>1. LineUpTyped(l)
      BY <1>1, LineUpsAre
    <3> HIDE DEF base
    <3> QED BY <1>1, <1>2, <3>1, ScoreIsBaseTimesWeight
  <2> DEFINE x == exact(l)
             low == found.minScore
             high == found.maxScore
  <2> HIDE DEF base, found, L, exact, D, total, x, low, high
  <2>4. x \in Int /\ low \in Int /\ high \in Int /\ x <= high + D /\ low <= x + D
    BY <1>1, <1>3, <1>5, <2>2, <2>3 DEF x, low, high
  <2>5. worth(x) <= worth(high) + step
    <3>1. x <= high + Rows!Points!Divisor[filled.event.type]
      BY <2>4 DEF D
    <3> QED BY <1>3, <2>4, <3>1, PointsMoveByAStep
  <2>6. worth(low) <= worth(x) + step
    <3>1. low <= x + Rows!Points!Divisor[filled.event.type]
      BY <2>4 DEF D
    <3> QED BY <1>3, <2>4, <3>1, PointsMoveByAStep
  <2>7. worth(x) \in Int /\ worth(low) \in Int /\ worth(high) \in Int
    BY <1>3, <2>4, ValueOfScore
  <2>8. step \in Int
    BY <1>3, PointConstants
  <2> HIDE DEF worth, step, row
  <2>9. worth(low) - step <= worth(x) /\ worth(x) <= worth(high) + step
    BY <2>5, <2>6, <2>7, <2>8
  <2> QED BY <1>4, <2>9 DEF x, low, high
<1>7. row \in Rows!Calculate({song}, filled)
  BY DEF Rows!Calculate
<1> HIDE DEF row
<1>8. ASSUME NEW s \in {song}, NEW l \in L
      PROVE  \E r \in Rows!Calculate({song}, filled) :
               /\ r.id = s.id /\ r.difficulty = s.difficulty
               /\ r.minPT - step <= worth(exact(l)) /\ worth(exact(l)) <= r.maxPT + step
  <2>1. s = song
    OBVIOUS
  <2>2. row.minPT - step <= worth(exact(l)) /\ worth(exact(l)) <= row.maxPT + step
    BY <1>6
  <2> HIDE DEF worth, exact, step
  <2> QED BY <1>4, <1>7, <2>1, <2>2
<1> QED BY <1>8 DEF Rows!RowsHoldEveryOrder
\* The halvings.  A search is for a target, in an order of the skills, with a song and a form.
Reaches(power, s) ==
  Rows!Score!CalcExactScoreInTurns(Rows!BaseScore(power, s.song, s.filled.auto), s.lineUp, s.song.summary, s.filled.fps)
    >= s.target

HalfOf(r, s) == LET mid == (r.lo + r.hi) \div 2
  IN  IF r.lo = r.hi THEN r ELSE IF Reaches(mid, s) THEN [r EXCEPT !.hi = mid] ELSE [r EXCEPT !.lo = mid + 1]

HalvedBy(g, s, last) ==
  g = [i \in 0..last |-> IF i = 0 THEN [lo |-> 1, hi |-> Rows!MaxPower] ELSE HalfOf(g[i - 1], s)]

LEMMA HalvingsExist == ASSUME NEW s, NEW last \in Nat PROVE \E g : HalvedBy(g, s, last)
<1> DEFINE N == {n \in Nat : \E g : HalvedBy(g, s, n)}
           first == [lo |-> 1, hi |-> Rows!MaxPower]
<1>1. 0 \in N
  <2> DEFINE g == [i \in 0..0 |-> first]
  <2>1. \A i \in 0..0 : i = 0
    OBVIOUS
  <2>2. HalvedBy(g, s, 0)
    BY <2>1 DEF HalvedBy
  <2> HIDE DEF g
  <2> QED BY <2>2
<1>2. ASSUME NEW n \in N PROVE n + 1 \in N
  <2>1. PICK g : HalvedBy(g, s, n)
    OBVIOUS
  <2> DEFINE h == [k \in 0..(n + 1) |-> IF k = n + 1 THEN HalfOf(g[n], s) ELSE g[k]]
             R(k) == IF k = 0 THEN first ELSE HalfOf(h[k - 1], s)
  <2>2. n \in Nat /\ n + 1 # 0 /\ n \in 0..n
    OBVIOUS
  <2>3. \A k \in 0..n : h[k] = g[k]
    BY <2>2
  <2>4. \A k \in 0..n : g[k] = IF k = 0 THEN first ELSE HalfOf(g[k - 1], s)
    BY <2>1 DEF HalvedBy
  <2>5. ASSUME NEW k \in 0..(n + 1) PROVE h[k] = R(k)
    <3>1. CASE k = n + 1
      <4>1. k - 1 = n /\ k # 0
        BY <2>2, <3>1
      <4>2. h[k] = HalfOf(g[n], s) /\ h[n] = g[n]
        BY <2>2, <2>3, <3>1
      <4> HIDE DEF h
      <4> QED BY <4>1, <4>2
    <3>2. CASE k # n + 1
      <4>1. k \in 0..n /\ (k # 0 => k - 1 \in 0..n)
        BY <2>2, <3>2
      <4>2. h[k] = g[k] /\ (k # 0 => h[k - 1] = g[k - 1])
        BY <2>3, <4>1
      <4>3. g[k] = IF k = 0 THEN first ELSE HalfOf(g[k - 1], s)
        BY <2>4, <4>1
      <4> HIDE DEF h, first
      <4> QED BY <4>2, <4>3
    <3> QED BY <3>1, <3>2
  <2>6. h = [k \in 0..(n + 1) |-> h[k]]
    OBVIOUS
  <2>7. HalvedBy(h, s, n + 1)
    <3> HIDE DEF h
    <3>1. [k \in 0..(n + 1) |-> h[k]] = [k \in 0..(n + 1) |-> R(k)]
      BY <2>5
    <3> QED BY <2>6, <3>1 DEF HalvedBy
  <2> HIDE DEF h
  <2> QED BY <2>2, <2>7
<1>3. N = Nat
  <2>1. N \in SUBSET Nat
    OBVIOUS
  <2> HIDE DEF N
  <2> QED BY <1>1, <1>2, <2>1, AllNaturals
<1> QED BY <1>3

\* Between the ends lies the least power that reaches the target, if there is one.
Between(r, s) ==
  /\ r \in [lo : 1..Rows!MaxPower, hi : 1..Rows!MaxPower] /\ r.lo <= r.hi
  /\ r.hi = Rows!MaxPower \/ Reaches(r.hi, s)
  /\ r.lo = 1 \/ ~Reaches(r.lo - 1, s)

LEMMA HalvingKeeps ==
  ASSUME NEW s, NEW r, Between(r, s)
  PROVE  Between(HalfOf(r, s), s) /\ 2 * (HalfOf(r, s).hi - HalfOf(r, s).lo) <= r.hi - r.lo
<1> DEFINE mid == (r.lo + r.hi) \div 2
           half == HalfOf(r, s)
           M == Rows!MaxPower
<1>1. r \in [lo : 1..M, hi : 1..M] /\ r.lo \in 1..M /\ r.hi \in 1..M /\ r.lo <= r.hi
  BY DEF Between
<1>2. M \in Nat
  BY DEF Rows!MaxPower
<1>3. mid \in Int /\ 2 * mid <= r.lo + r.hi /\ r.lo + r.hi <= 2 * mid + 1
  BY <1>1, <1>2
<1>4. half = IF r.lo = r.hi THEN r ELSE IF Reaches(mid, s) THEN [r EXCEPT !.hi = mid] ELSE [r EXCEPT !.lo = mid + 1]
  BY DEF HalfOf
<1> HIDE DEF mid, half, M
<1>5. CASE r.lo = r.hi
  BY <1>1, <1>2, <1>4, <1>5 DEF half
<1>6. CASE r.lo # r.hi /\ Reaches(mid, s)
  <2>1. half = [r EXCEPT !.hi = mid] /\ half.lo = r.lo /\ half.hi = mid
    BY <1>1, <1>4, <1>6
  <2>2. mid \in 1..M /\ r.lo <= mid /\ 2 * (mid - r.lo) <= r.hi - r.lo
    BY <1>1, <1>2, <1>3
  <2>3. half \in [lo : 1..M, hi : 1..M]
    BY <1>1, <2>1, <2>2
  <2>4. r.lo = 1 \/ ~Reaches(r.lo - 1, s)
    BY DEF Between
  <2>5. Between(half, s)
    BY <1>6, <2>1, <2>2, <2>3, <2>4 DEF Between, M
  <2>6. 2 * (half.hi - half.lo) <= r.hi - r.lo
    BY <2>1, <2>2
  <2> QED BY <2>5, <2>6 DEF half
<1>7. CASE r.lo # r.hi /\ ~Reaches(mid, s)
  <2>1. half = [r EXCEPT !.lo = mid + 1] /\ half.lo = mid + 1 /\ half.hi = r.hi
    BY <1>1, <1>4, <1>7
  <2>2. mid + 1 \in 1..M /\ mid + 1 <= r.hi /\ 2 * (r.hi - (mid + 1)) <= r.hi - r.lo /\ (mid + 1) - 1 = mid
    BY <1>1, <1>2, <1>3, <1>7
  <2>3. half \in [lo : 1..M, hi : 1..M]
    BY <1>1, <2>1, <2>2
  <2>4. r.hi = M \/ Reaches(r.hi, s)
    BY DEF Between, M
  <2>5. Between(half, s)
    BY <1>7, <2>1, <2>2, <2>3, <2>4 DEF Between, M
  <2>6. 2 * (half.hi - half.lo) <= r.hi - r.lo
    BY <2>1, <2>2
  <2> QED BY <2>5, <2>6 DEF half
<1> QED BY <1>5, <1>6, <1>7

LEMMA PowersAre == Rows!MaxPower \in Nat /\ Rows!MaxPower > 1
BY DEF Rows!MaxPower

\* After 32 halvings one power is left.
LEMMA HalvingsEnd ==
  ASSUME NEW s, NEW g, HalvedBy(g, s, 32)
  PROVE  Between(g[32], s) /\ g[32].lo = g[32].hi
<1> DEFINE N == {n \in Nat : n \in 0..32 => Between(g[n], s)}
           d(n) == g[n].hi - g[n].lo
<1>1. /\ \A i \in 0..32 : g[i] = IF i = 0 THEN [lo |-> 1, hi |-> Rows!MaxPower] ELSE HalfOf(g[i - 1], s)
  BY DEF HalvedBy
<1>2. g[0] = [lo |-> 1, hi |-> Rows!MaxPower] /\ \A i \in 0..31 : g[i + 1] = HalfOf(g[i], s)
  <2>1. 0 \in 0..32
    OBVIOUS
  <2>2. ASSUME NEW i \in 0..31 PROVE g[i + 1] = HalfOf(g[i], s)
    <3>1. i + 1 \in 0..32 /\ i + 1 # 0 /\ (i + 1) - 1 = i
      OBVIOUS
    <3>2. g[i + 1] = IF i + 1 = 0 THEN [lo |-> 1, hi |-> Rows!MaxPower] ELSE HalfOf(g[(i + 1) - 1], s)
      BY <1>1, <3>1
    <3> QED BY <3>1, <3>2
  <2> QED BY <1>1, <2>1, <2>2
<1>3. Between(g[0], s)
  <2>1. [lo |-> 1, hi |-> Rows!MaxPower] \in [lo : 1..Rows!MaxPower, hi : 1..Rows!MaxPower] /\ 1 <= Rows!MaxPower
    BY PowersAre
  <2> QED BY <1>2, <2>1 DEF Between
<1>4. ASSUME NEW n \in N PROVE n + 1 \in N
  <2>1. ASSUME n + 1 \in 0..32 PROVE Between(g[n + 1], s)
    <3>1. n \in 0..31 /\ Between(g[n], s)
      BY <2>1
    <3>2. Between(HalfOf(g[n], s), s)
      BY <3>1, HalvingKeeps
    <3> QED BY <1>2, <3>1, <3>2
  <2> QED BY <2>1
<1>5. N = Nat
  <2>1. N \in SUBSET Nat /\ 0 \in N
    BY <1>3
  <2> HIDE DEF N
  <2> QED BY <1>4, <2>1, AllNaturals
<1>6. ASSUME NEW n \in 0..32 PROVE Between(g[n], s) /\ d(n) \in Nat
  <2>1. Between(g[n], s)
    BY <1>5
  <2>2. g[n].lo \in Nat /\ g[n].hi \in Nat /\ g[n].lo <= g[n].hi
    BY <2>1, PowersAre DEF Between
  <2> QED BY <2>1, <2>2
<1> HIDE DEF N
<1>7. ASSUME NEW n \in 0..31 PROVE 2 * d(n + 1) <= d(n)
  <2>1. Between(g[n], s)
    BY <1>6
  <2>2. 2 * (HalfOf(g[n], s).hi - HalfOf(g[n], s).lo) <= g[n].hi - g[n].lo
    BY <2>1, HalvingKeeps
  <2>3. g[n + 1] = HalfOf(g[n], s)
    BY <1>2
  <2> QED BY <2>2, <2>3
<1>8. d(0) = Rows!MaxPower - 1
  BY <1>2
<1> HIDE DEF d
<1>9. ASSUME NEW n \in 0..28 PROVE 16 * d(n + 4) <= d(n)
  <2>1. /\ n \in 0..31 /\ n + 1 \in 0..31 /\ n + 2 \in 0..31 /\ n + 3 \in 0..31
        /\ (n + 1) + 1 = n + 2 /\ (n + 2) + 1 = n + 3 /\ (n + 3) + 1 = n + 4
    OBVIOUS
  <2>2. 2 * d(n + 1) <= d(n) /\ 2 * d(n + 2) <= d(n + 1) /\ 2 * d(n + 3) <= d(n + 2) /\ 2 * d(n + 4) <= d(n + 3)
    BY <1>7, <2>1
  <2>3. d(n) \in Nat /\ d(n + 1) \in Nat /\ d(n + 2) \in Nat /\ d(n + 3) \in Nat /\ d(n + 4) \in Nat
    BY <1>6
  <2> QED BY <2>2, <2>3
<1>10. d(32) = 0
  <2>1. \A n \in {0, 4, 8, 12, 16, 20, 24, 28} : 16 * d(n + 4) <= d(n)
    BY <1>9
  <2>2. \A n \in {0, 4, 8, 12, 16, 20, 24, 28, 32} : d(n) \in Nat
    BY <1>6
  <2>3. 0 + 4 = 4 /\ 4 + 4 = 8 /\ 8 + 4 = 12 /\ 12 + 4 = 16 /\ 16 + 4 = 20 /\ 20 + 4 = 24 /\ 24 + 4 = 28 /\ 28 + 4 = 32
    OBVIOUS
  <2>4. 16 * d(4) <= d(0) /\ 16 * d(8) <= d(4) /\ 16 * d(12) <= d(8) /\ 16 * d(16) <= d(12)
        /\ 16 * d(20) <= d(16) /\ 16 * d(24) <= d(20) /\ 16 * d(28) <= d(24) /\ 16 * d(32) <= d(28)
    BY <2>1, <2>3
  <2>5. d(0) = 499999
    BY <1>8 DEF Rows!MaxPower
  <2> QED BY <2>2, <2>4, <2>5
<1>11. g[32].lo \in Nat /\ g[32].hi \in Nat
  <2>1. 32 \in 0..32
    OBVIOUS
  <2>2. Between(g[32], s)
    BY <1>6, <2>1
  <2> QED BY <2>2, PowersAre DEF Between
<1>12. Between(g[32], s)
  BY <1>6
<1> QED BY <1>10, <1>11, <1>12 DEF d

\* The power that is returned reaches the target, and the one below it does not, but at the ends.
LEMMA PowerIsLeast ==
  ASSUME NEW target, NEW lineUp, NEW song, NEW filled
  PROVE  LET power == Rows!ReverseCalcPower(target, lineUp, song, filled)
             s == [target |-> target, lineUp |-> lineUp, song |-> song, filled |-> filled]
         IN  /\ power \in 1..Rows!MaxPower
             /\ power = Rows!MaxPower \/ Reaches(power, s)
             /\ power = 1 \/ ~Reaches(power - 1, s)
<1> DEFINE s == [target |-> target, lineUp |-> lineUp, song |-> song, filled |-> filled]
           reached(p) ==
             Rows!Score!CalcExactScoreInTurns(Rows!BaseScore(p, song, filled.auto), lineUp, song.summary, filled.fps) >= target
           half(r) == LET mid == (r.lo + r.hi) \div 2
                      IN  IF r.lo = r.hi THEN r ELSE IF reached(mid) THEN [r EXCEPT !.hi = mid] ELSE [r EXCEPT !.lo = mid + 1]
           A(g) == g = [i \in 0..32 |-> IF i = 0 THEN [lo |-> 1, hi |-> Rows!MaxPower] ELSE half(g[i - 1])]
           G == CHOOSE g : HalvedBy(g, s, 32)
           last == G[32]
           power == Rows!ReverseCalcPower(target, lineUp, song, filled)
<1>1. power = ((CHOOSE g : A(g))[32].lo + (CHOOSE g : A(g))[32].hi) \div 2
  BY DEF Rows!ReverseCalcPower
<1>2. power = (last.lo + last.hi) \div 2
  <2>1. s.target = target /\ s.lineUp = lineUp /\ s.song = song /\ s.filled = filled
    OBVIOUS
  <2> HIDE DEF s, power
  <2>2. \A p : reached(p) <=> Reaches(p, s)
    BY <2>1 DEF Reaches
  <2> HIDE DEF reached
  <2>3. \A r : half(r) = HalfOf(r, s)
    BY <2>2 DEF HalfOf
  <2> HIDE DEF half
  <2>4. \A g : A(g) <=> HalvedBy(g, s, 32)
    BY <2>3 DEF HalvedBy
  <2> HIDE DEF A
  <2>5. (CHOOSE g : A(g)) = G
    BY <2>4
  <2> QED BY <1>1, <2>5
<1> HIDE DEF reached, half, A
<1>3. HalvedBy(G, s, 32)
  <2>1. 32 \in Nat
    OBVIOUS
  <2> HIDE DEF s
  <2> QED BY <2>1, HalvingsExist
<1> HIDE DEF s, G, power
<1>4. Between(last, s) /\ last.lo = last.hi
  BY <1>3, HalvingsEnd
<1>5. last.lo \in 1..Rows!MaxPower /\ last.hi \in 1..Rows!MaxPower /\ Rows!MaxPower \in Nat
  BY <1>4, PowersAre DEF Between
<1>6. power = last.lo
  BY <1>2, <1>4, <1>5
<1>7. /\ power \in 1..Rows!MaxPower
      /\ power = Rows!MaxPower \/ Reaches(power, s)
      /\ power = 1 \/ ~Reaches(power - 1, s)
  BY <1>4, <1>5, <1>6 DEF Between
<1> QED BY <1>7 DEF s, power

\* A point of power more moves the score by half a step of the points at most.
ScoreOfPower(power, song, filled, lineUp) ==
  Rows!Score!CalcExactScoreInTurns(Rows!BaseScore(power, song, filled.auto), lineUp, song.summary, filled.fps)

LEMMA ScoreMovesByHalfAStep ==
  ASSUME NEW song, NEW filled, NEW chart, RowTyped(song, filled, chart),
         NEW lineUp \in Rows!Score!LineUps(filled.team, filled.leader), NEW power \in Nat
  PROVE  /\ ScoreOfPower(power, song, filled, lineUp) \in Int /\ ScoreOfPower(power + 1, song, filled, lineUp) \in Int
         /\ ScoreOfPower(power + 1, song, filled, lineUp) <= ScoreOfPower(power, song, filled, lineUp) + 7500
<1> DEFINE summary == song.summary
           fps == filled.fps
           b(r) == Rows!BaseScore(r, song, filled.auto)
           x(r) == ScoreOfPower(r, song, filled, lineUp)
           k == BasesAPoint(song, filled.auto)
           total == chart.total
           worth == 100 * total + WeightOf(lineUp, summary, fps)
<1>1. /\ Rows!Score!Scorable(chart) /\ summary = Rows!Score!Chart!BuildLevelSummary(chart) /\ fps \in Rates
      /\ total \in Nat \ {0} /\ song.summary.total = total
  BY RowIsTyped
<1>2. song.level \in Nat /\ filled.auto \in Nat
  BY RowIsTyped
<1>3. LineUpTyped(lineUp) /\ FineOrder(song, filled, chart, lineUp)
  BY OrdersAreFine
<1>4. b(power) \in Nat /\ b(power + 1) \in Nat /\ k \in Nat /\ b(power + 1) <= b(power) + k
  <2>1. song.summary.total \in Nat \ {0}
    BY <1>1
  <2> QED BY <1>2, <2>1, BasesMove, Zenon
<1>5. ASSUME NEW base \in Nat
      PROVE  LET score == Rows!Score!CalcExactScoreInTurns(base, lineUp, summary, fps)
             IN  /\ score \in Int /\ worth \in Nat /\ base * worth \in Int
                 /\ 100 * score <= base * worth /\ base * worth <= 100 * score + 99 * total
  BY <1>1, <1>3, ScoreIsBaseTimesWeight
<1>6. \A r \in {power, power + 1} : x(r) = Rows!Score!CalcExactScoreInTurns(b(r), lineUp, summary, fps)
  BY DEF ScoreOfPower
<1>7. k * worth + 99 * total <= 750000
  BY <1>3 DEF FineOrder
<1> DEFINE i == b(power)
           j == b(power + 1)
           u == x(power)
           v == x(power + 1)
<1>8. i \in Nat /\ j \in Nat /\ j <= i + k /\ k \in Nat
  BY <1>4
<1>9. /\ u = Rows!Score!CalcExactScoreInTurns(i, lineUp, summary, fps)
      /\ v = Rows!Score!CalcExactScoreInTurns(j, lineUp, summary, fps)
  BY <1>6
<1> HIDE DEF b, x, k, worth, total, i, j, u, v
<1>10. u \in Int /\ worth \in Nat /\ i * worth \in Int /\ i * worth <= 100 * u + 99 * total
  BY <1>5, <1>8, <1>9
<1>11. v \in Int /\ j * worth \in Int /\ 100 * v <= j * worth
  BY <1>5, <1>8, <1>9
<1>12. j * worth <= (i + k) * worth
  BY <1>8, <1>10, TimesKeepsOrder
<1>13. (i + k) * worth = i * worth + k * worth /\ k * worth \in Int
  BY <1>8, <1>10
<1>14. v <= u + 7500
  BY <1>1, <1>7, <1>10, <1>11, <1>12, <1>13
<1> QED BY <1>10, <1>11, <1>14 DEF u, v, x

\* The scores of a bonus are those of a step of the points at least.
LEMMA BonusRanges ==
  ASSUME NEW target \in Nat, NEW p, EventTyped(p), p.type \in Rows!Points!BonusTypes,
         NEW f \in Rows!Points!GetFeasibleBonus(target, p)
  PROVE  /\ f.bonus \in Nat /\ f.range.min \in Nat /\ f.range.max \in Int
         /\ f.range.max >= f.range.min + (Rows!Points!Divisor[p.type] - 1)
<1> DEFINE D == Rows!Points!Divisor[p.type]
<1>1. D \in Nat \ {0}
  BY PointConstants
<1> HIDE DEF D
<1>2. PICK i, j \in Rows!Points!Divs(target, p) :
        i <= j /\ BonusOf(target, i, p) = f.bonus /\ f.range.min = i * D /\ f.range.max = (j + 1) * D - 1
  BY EntriesAre DEF D
<1>3. i \in Nat /\ j \in Nat /\ f.bonus \in Nat
  BY <1>2, BonusIsConfirmed
<1> DEFINE x == i * D
           y == j * D
<1>4. x \in Nat /\ y \in Int /\ x <= y /\ (j + 1) * D = y + D
  <2>1. i * D \in Nat
    BY <1>1, <1>3
  <2>2. (j + 1) * D = j * D + D
    BY <1>1, <1>3
  <2> QED BY <1>1, <1>2, <1>3, <2>1, <2>2, TimesKeepsOrder
<1> HIDE DEF x, y
<1>5. f.range.min = x /\ f.range.max = y + D - 1
  BY <1>1, <1>2, <1>4 DEF x
<1>6. f.range.min \in Nat /\ f.range.max \in Int /\ f.range.max >= f.range.min + (D - 1)
  BY <1>1, <1>4, <1>5
<1> QED BY <1>3, <1>6 DEF D

\* No power, no score.
LEMMA ScoreOfNoPower ==
  ASSUME NEW song, NEW filled, NEW chart, RowTyped(song, filled, chart),
         NEW lineUp \in Rows!Score!LineUps(filled.team, filled.leader)
  PROVE  ScoreOfPower(0, song, filled, lineUp) <= 0
<1> DEFINE summary == song.summary
           worth == 100 * chart.total + WeightOf(lineUp, summary, filled.fps)
           score == Rows!Score!CalcExactScoreInTurns(0, lineUp, summary, filled.fps)
<1>1. /\ Rows!Score!Scorable(chart) /\ summary = Rows!Score!Chart!BuildLevelSummary(chart) /\ filled.fps \in Rates
      /\ chart.total \in Nat \ {0} /\ song.summary.total = chart.total
  BY RowIsTyped
<1>2. song.level \in Nat /\ filled.auto \in Nat
  BY RowIsTyped
<1>3. LineUpTyped(lineUp)
  BY OrdersAreFine
<1>4. Rows!BaseScore(0, song, filled.auto) = 0
  <2> DEFINE t == 3 * filled.auto
             n == 95 + song.level
             y == 400 * song.summary.total
  <2>1. t \in Nat /\ n \in Nat /\ y \in Nat \ {0}
    BY <1>1, <1>2
  <2>2. Rows!BaseScore(0, song, filled.auto) = (t * 0 * n) \div y
    BY DEF Rows!BaseScore
  <2> HIDE DEF t, n, y
  <2>3. t * 0 * n = 0 * y + 0 /\ 0 \in 0..(y - 1)
    BY <2>1
  <2>4. (0 * y + 0) \div y = 0
    BY <2>1, <2>3, DivIs
  <2> QED BY <2>2, <2>3, <2>4
<1>5. score \in Int /\ worth \in Nat /\ 100 * score <= 0 * worth
  <2>1. 0 \in Nat
    OBVIOUS
  <2> QED BY <1>1, <1>3, <2>1, ScoreIsBaseTimesWeight
<1>6. ScoreOfPower(0, song, filled, lineUp) = score
  BY <1>4 DEF ScoreOfPower
<1> HIDE DEF score, worth
<1>7. score <= 0
  BY <1>5
<1> QED BY <1>6, <1>7

\* A power that is recommended with a bonus is worth the target.
LEMMA RecommendedPowersReach ==
  ASSUME NEW song, NEW filled, NEW chart, RowTyped(song, filled, chart), NEW target \in Nat,
         NEW preferred, preferred.max \in 0..(Rows!MaxPower - 1)
  PROVE  Rows!BonusRowsReachTarget(target, song, filled, preferred)
<1> DEFINE summary == song.summary
           fps == filled.fps
           p == filled.event
           lineUp == Rows!Score!Heaviest(filled.team, filled.leader, summary, fps)
           found == Rows!Points!GetFeasibleBonus(target, p)
           middle(f) == (f.range.min + f.range.max) \div 2
           power(f) == Rows!ReverseCalcPower(middle(f), lineUp, song, filled)
           row(f) == [bonus |-> f.bonus, recommendedPower |-> power(f)]
           x(r) == ScoreOfPower(r, song, filled, lineUp)
           scoreOf(r) == Rows!Score!CalcScore(Rows!BaseScore(r, song, filled.auto), filled.team, filled.leader, summary, fps).maxScore
           event(f) == [p EXCEPT !.bonus = f.bonus]
           D == Rows!Points!Divisor[p.type]
<1>1. /\ Rows!Score!Scorable(chart) /\ summary = Rows!Score!Chart!BuildLevelSummary(chart) /\ fps \in Rates
      /\ filled.team \in [1..(SkillCount - 1) -> Rows!Score!Skills] /\ filled.leader \in Rows!Score!Skills
      /\ p \in [type : Rows!Points!BonusTypes, bonus : Nat, support : Nat]
  BY RowIsTyped
<1>2. lineUp \in Rows!Score!LineUps(filled.team, filled.leader)
  BY <1>1, ExtremesExist
<1>3. EventTyped(p) /\ p.type \in Rows!Points!BonusTypes /\ D \in Nat /\ D >= 15000
  <2>1. 0 \in Nat
    OBVIOUS
  <2> QED BY <1>1, <2>1, BonusEvents
<1>4. \A r : scoreOf(r) = x(r)
  BY DEF Rows!Score!CalcScore, ScoreOfPower
<1>5. Rows!BonusRows(target, song, filled, preferred)
        = {r \in {row(f) : f \in found} : preferred.min <= r.recommendedPower /\ r.recommendedPower <= preferred.max}
  BY DEF Rows!BonusRows
<1> HIDE DEF lineUp, scoreOf, D
<1>6. ASSUME NEW f \in found, power(f) <= preferred.max
      PROVE  Rows!Points!CalcEventPT(x(power(f)), event(f)) = target
  <2> DEFINE m == middle(f)
             P == power(f)
             low == f.range.min
             high == f.range.max
             s == [target |-> m, lineUp |-> lineUp, song |-> song, filled |-> filled]
  <2>1. f.bonus \in Nat /\ low \in Nat /\ high \in Int /\ high >= low + (D - 1)
    BY <1>3, BonusRanges DEF D
  <2>2. EventTyped(event(f))
    BY <1>1, <2>1, BonusEvents
  <2>3. Rows!Points!CalcEventPT(low, event(f)) = target /\ Rows!Points!CalcEventPT(high, event(f)) = target
    <3>1. Rows!Points!BonusesAreRight(target, p)
      BY <1>3, BonusesReachTarget
    <3> QED BY <3>1 DEF Rows!Points!BonusesAreRight, Rows!Points!WithBonus
  <2>4. /\ P \in 1..Rows!MaxPower
        /\ P = Rows!MaxPower \/ Reaches(P, s)
        /\ P = 1 \/ ~Reaches(P - 1, s)
    BY PowerIsLeast
  <2>5. m \in Int /\ 2 * m <= low + high /\ low + high <= 2 * m + 1
    BY <2>1
  <2> HIDE DEF m, P, power
  <2>6. P # Rows!MaxPower /\ P \in Nat /\ P - 1 \in Nat /\ (P - 1) + 1 = P
    <3>1. P <= preferred.max
      BY <1>6 DEF P
    <3> QED BY <2>4, <3>1, PowersAre
  <2>7. \A r : Reaches(r, s) <=> x(r) >= m
    <3>1. s.target = m /\ s.lineUp = lineUp /\ s.song = song /\ s.filled = filled
      OBVIOUS
    <3> HIDE DEF s
    <3> QED BY <3>1 DEF Reaches, ScoreOfPower
  <2>8. x(P) >= m /\ ~(x(P - 1) >= m)
    <3>1. x(0) <= 0
      BY <1>2, ScoreOfNoPower
    <3>2. ~(x(0) >= m) /\ x(0) \in Int
      <4>1. x(0) \in Int
        <5>1. 0 \in Nat
          OBVIOUS
        <5> QED BY <1>2, <5>1, ScoreMovesByHalfAStep
      <4> HIDE DEF x
      <4> QED BY <1>3, <2>1, <2>5, <3>1, <4>1
    <3>3. CASE P = 1
      BY <2>4, <2>6, <2>7, <3>2, <3>3
    <3>4. CASE P # 1
      BY <2>4, <2>6, <2>7, <3>4
    <3> QED BY <3>3, <3>4
  <2>9. x(P) \in Int /\ x(P - 1) \in Int /\ x(P) <= x(P - 1) + 7500
    <3>1. /\ ScoreOfPower(P - 1, song, filled, lineUp) \in Int /\ ScoreOfPower((P - 1) + 1, song, filled, lineUp) \in Int
          /\ ScoreOfPower((P - 1) + 1, song, filled, lineUp) <= ScoreOfPower(P - 1, song, filled, lineUp) + 7500
      BY <1>2, <2>6, ScoreMovesByHalfAStep
    <3> QED BY <2>6, <3>1
  <2> DEFINE v == x(P)
             u == x(P - 1)
  <2> HIDE DEF s, x, low, high, v, u, event
  <2>10. v \in Int /\ low <= v /\ v <= high
    <3>1. v >= m /\ ~(u >= m) /\ v \in Int /\ u \in Int /\ v <= u + 7500
      BY <2>8, <2>9 DEF v, u
    <3> QED BY <1>3, <2>1, <2>5, <3>1
  <2>11. Rows!Points!CalcEventPT(low, event(f)) <= Rows!Points!CalcEventPT(v, event(f))
    BY <2>1, <2>2, <2>10, PointsGrow
  <2>12. Rows!Points!CalcEventPT(v, event(f)) <= Rows!Points!CalcEventPT(high, event(f))
    BY <2>1, <2>2, <2>10, PointsGrow
  <2>13. Rows!Points!CalcEventPT(v, event(f)) \in Int
    BY <2>2, <2>10, ValueOfScore
  <2>14. Rows!Points!CalcEventPT(v, event(f)) = target
    BY <2>3, <2>11, <2>12, <2>13
  <2> QED BY <2>14 DEF v, P
<1> HIDE DEF x, power
<1>7. ASSUME NEW r \in Rows!BonusRows(target, song, filled, preferred)
      PROVE  Rows!Points!CalcEventPT(scoreOf(r.recommendedPower), [filled.event EXCEPT !.bonus = r.bonus]) = target
  <2>1. PICK f \in found : r = row(f) /\ r.recommendedPower <= preferred.max
    BY <1>5, <1>7
  <2>2. r.bonus = f.bonus /\ r.recommendedPower = power(f)
    BY <2>1
  <2>3. Rows!Points!CalcEventPT(x(power(f)), event(f)) = target
    BY <1>6, <2>1, <2>2
  <2> QED BY <1>4, <2>2, <2>3
<1> QED BY <1>7 DEF Rows!BonusRowsReachTarget, scoreOf

LEMMA RowsAreRight ==
  ASSUME input \in Inputs, input.of = "rows"
  PROVE  /\ Rows!BonusRowsReachTarget(input.target, input.song, input.form, input.preferred)
         /\ Rows!RowsHoldEveryOrder({input.song}, input.form)
<1>1. RowTyped(input.song, input.form, input.chart)
  BY InputsAssumption DEF RowTyped, Rates
<1>2. input.target \in Nat /\ input.preferred.max \in 0..(Rows!MaxPower - 1)
  BY InputsAssumption
<1>3. Rows!BonusRowsReachTarget(input.target, input.song, input.form, input.preferred)
  BY <1>1, <1>2, RecommendedPowersReach
<1>4. Rows!RowsHoldEveryOrder({input.song}, input.form)
  BY <1>1, RowsHoldOrders
<1> QED BY <1>3, <1>4

LEMMA PlaysAreRight ==
  ASSUME input \in Inputs, input.of = "plays"
  PROVE  LET scores == UNION {{chart.min, chart.max} : chart \in input.charts}
             points == [score \in scores |-> score \div input.divisor]
         IN  /\ Control!StrategiesAreComplete(input.target, input.charts, points, input.filter)
             /\ Control!WindowsAreReachable(
                  input.target, Control!ComputeFixedBasePTs(input.charts, points, input.filter))
<1> DEFINE scores == UNION {{chart.min, chart.max} : chart \in input.charts}
           points == [score \in scores |-> score \div input.divisor]
<1>1. /\ input.target \in Nat /\ input.divisor \in Nat \ {0} /\ input.filter.bandMode # "contains"
      /\ input.filter.boost \in BOOLEAN /\ IsFiniteSet(input.charts)
      /\ \A chart \in input.charts : chart.min \in Nat /\ chart.max \in Nat /\ chart.min >= input.divisor
  BY InputsAssumption
<1>2. ASSUME NEW c \in input.charts PROVE points[c.min] \in Nat \ {0}
  <2>1. c.min \in scores
    OBVIOUS
  <2> DEFINE x == c.min
             y == input.divisor
             q == x \div y
  <2>2. points[c.min] = q
    BY <2>1
  <2>3. x \in Nat /\ y \in Nat \ {0} /\ x >= y
    BY <1>1
  <2> HIDE DEF x, y, q
  <2>4. 1 <= q /\ q \in Nat
    <3>1. x \div y \in Nat /\ x < (x \div y) * y + y
      BY <2>3, QuotientIsNatural, DivBounds
    <3>2. x \div y # 0
      BY <2>3, <3>1
    <3> QED BY <3>1, <3>2 DEF q
  <2> QED BY <2>2, <2>4
<1> HIDE DEF points
<1>3. ChartsTyped(input.charts, points)
  BY <1>1, <1>2 DEF ChartsTyped
<1>4. Control!StrategiesAreComplete(input.target, input.charts, points, input.filter)
  BY <1>1, <1>3, CompleteStrategies
<1>5. BasesTyped(Control!ComputeFixedBasePTs(input.charts, points, input.filter))
  BY <1>3, BasesAre
<1>6. Control!WindowsAreReachable(input.target, Control!ComputeFixedBasePTs(input.charts, points, input.filter))
  BY <1>1, <1>5, ReachableWindows
<1> QED BY <1>4, <1>6 DEF points
-----------------------------------------------------------------------------
\* What the calculations are followed for is given and stays.
LEMMA InputIsGiven == Spec => [](input \in Inputs \/ input = NoInput)
<1>1. Init => input \in Inputs \/ input = NoInput
  BY DEF Init
<1>2. (input \in Inputs \/ input = NoInput) /\ [Next]_vars => (input \in Inputs \/ input = NoInput)'
  BY DEF Next, vars
<1> QED BY <1>1, <1>2, PTL DEF Spec

\* Whatever two answers the game gives to a request for a ranking, none but that ranking is taken,
\* as far as its borders can tell, and it is refused only for failures of its own
\* (fetchEventRanking, fetchMonthlyRanking and GarupaResponseValidator).
THEOREM NoOtherRankingIsTaken == Spec => []OnlyOwnRanking
<1>1. OnlyOwnRanking
  BY OwnRankingOnly DEF OnlyOwnRanking
<1> QED BY <1>1, PTL

\* While an event runs the rankings, the deck and the page choose it, whatever their lists lack
\* (findActiveId, getPresentEvent, getEventList and selectBestEventId), for every schedule.
THEOREM TheRunningEventIsChosen == Spec => []ChoicesAgree
<1>1. input \in Inputs \/ input = NoInput => ChoicesAgree
  BY InputsAssumption, OneEventIsChosen DEF ChoicesAgree, NoInput, ScheduleTyped
<1> QED BY <1>1, InputIsGiven, PTL

\* The scores found for a target are exactly those worth it, but for steps of which two roundings
\* disagree; the bonuses found reach it, and while the search does not end early no score step is
\* missed but for the roundings (getScoreRangeByPT and getFeasibleBonus against calcEventPT), for
\* every target, every event and all whole numbers that the doubles may miss.
THEOREM EveryTargetIsInverted == Spec => []TargetsAreInverted
<1>1. input \in Inputs \/ input = NoInput => TargetsAreInverted
  <2>1. ASSUME input \in Inputs, input.of = "points"
        PROVE  /\ Rows!Points!RangeIsExact(input.target, input.event)
               /\ input.event.type \in Rows!Points!BonusTypes => Rows!Points!BonusesAreRight(input.target, input.event)
    <3>1. input.target \in Nat /\ EventTyped(input.event)
      BY <2>1, InputsAssumption DEF EventTyped
    <3> QED BY <3>1, ScoreRangeIsExact, BonusesReachTarget
  <2> QED BY <2>1 DEF TargetsAreInverted, NoInput
<1> QED BY <1>1, InputIsGiven, PTL

\* The table merged from two answers lacks nothing of the one of a complete answer, each of its
\* cells is what the player had in the ranking of that time, and what a player gained, cell by cell,
\* is together the difference between its last and its first points (buildPointTrack, mergeTracks,
\* createCell and toTableModel), for every history, interval and window.
THEOREM TheTableTellsTheRankings == Spec => []TableTellsHistory
<1>1. input \in Inputs \/ input = NoInput => TableTellsHistory
  <2>1. ASSUME input \in Inputs, input.of = "table"
        PROVE  HistoryTyped(input.history, input.interval, input.window, input.first) /\ PointsTyped(input.history)
    BY <2>1, InputsAssumption DEF HistoryTyped, PointsTyped
  <2>2. ASSUME input \in Inputs, input.of = "table"
        PROVE  Table!TableTellsHistory(input.history, input.interval, input.window, input.first)
    BY <2>1, <2>2, TableHolds, GainsAreAdded DEF Table!TableTellsHistory
  <2> QED BY <2>2 DEF NoInput, TableTellsHistory
<1> QED BY <1>1, InputIsGiven, PTL

\* What the page shows of a player's main deck agrees with itself: powers with points, the order of
\* the page with the deck's, and each skill with its effects (getPlayerDeckStatus, calcCardEventBonus,
\* calcCardBonusPct and calcSkill), for every deck, list of cards, area items and event.
THEOREM TheDeckIsTotalled == Spec => []DeckIsTotalled
<1>1. input \in Inputs \/ input = NoInput => DeckIsTotalled
  <2>1. ASSUME input \in Inputs, input.of = "deck"
        PROVE  /\ DeckTyped(input.deck, input.fresh, input.event)
               /\ \A id \in DOMAIN input.cached : id \in DOMAIN input.fresh /\ input.cached[id] = input.fresh[id]
    BY <2>1, InputsAssumption DEF DeckTyped
  <2>2. ASSUME input \in Inputs, input.of = "deck"
        PROVE  Deck!DeckIsTotalled(input.cached, input.fresh, input.items, input.deck, input.event)
    BY <2>1, <2>2, DeckTotals
  <2> QED BY <2>2 DEF NoInput, DeckIsTotalled
<1> QED BY <1>1, InputIsGiven, PTL

\* The score computed from the encoded counts is that of the chart played frame by frame, and no order
\* of the skills scores more or less than the ones found but for the rounding of the notes (buildCounts,
\* computeOverlaps, encodeCount, decodeNoteCount, calcScore and findExtremes), for every chart that can
\* be scored, every base and every team.
THEOREM TheScoresArePlayed == Spec => []ScoresArePlayed
<1>1. input \in Inputs => ScoresArePlayed
  BY ChartIsScored
<1>2. input = NoInput => ScoresArePlayed
  BY DEF NoInput, ScoresArePlayed
<1> QED BY <1>1, <1>2, InputIsGiven, PTL

\* The strategies shown give the target; they are all that do when fewer than the limit are shown, and
\* at the limit none is left out for one with more plays, but for the songs preferred.  A window that
\* is shown without one can be reached, the power recommended with a bonus is worth the target, and a row holds the points of every
\* order of the skills (analyze, findAllSolutionsForN, findContiguousWindows, bonusRows,
\* reverseCalcPower and calculateSong), for every target, set of charts, song and form.
THEOREM ThePlaysReachTheTarget == Spec => []PlaysReachTarget
<1>1. input \in Inputs => PlaysReachTarget
  BY RowsAreRight, PlaysAreRight DEF PlaysReachTarget
<1>2. input = NoInput => PlaysReachTarget
  BY DEF NoInput, PlaysReachTarget
<1> QED BY <1>1, <1>2, InputIsGiven, PTL
=============================================================================
