----------------------------- MODULE ScoreControl ---------------------------
(***************************************************************************)
(* frontend features/scoreControl/interactiveAnalysis.ts: plays whose      *)
(* points add up to a target.  A play is a song of known points and a      *)
(* number of boosts, which multiply them.  The search and the page stop    *)
(* at Limit strategies: which ones those are depends on the order the      *)
(* search finds them in and on the ranking, both given by keys, sequences  *)
(* of numbers that are compared from the left.                             *)
(***************************************************************************)
EXTENDS Integers, Sequences, FiniteSets, FiniteSetsExt, Functions

CONSTANTS
  MaxPlays,         \* plays of a strategy: 5 in the code
  MaxAlternatives   \* strategies besides the first: 100 in the code

Limit == MaxAlternatives + 1
Multipliers == {1, 5, 10, 15}
CeilDiv(x, y) == -((-x) \div y)

\* computeFixedBasePTs: a chart counts when every order of the skills gives the same points, which
\* pointsOf knows; the filter refuses some.  A chart is [id, special, full, band, boost, min, max],
\* boost if its title holds the text that the filter prefers.
Admitted(charts, pointsOf, filter) ==
  {c \in charts :
     /\ ~c.special /\ (c.full => filter.allowFull)
     /\ (filter.bandMode = "all" => c.band = filter.band)
     /\ pointsOf[c.min] = pointsOf[c.max]}

ComputeFixedBasePTs(charts, pointsOf, filter) == {pointsOf[c.min] : c \in Admitted(charts, pointsOf, filter)}

-----------------------------------------------------------------------------
\* Faulty variant: the target itself is not taken in.
FaultyInRange(target, combo, basePTs) ==
  SumFunction(combo) \in CeilDiv(target, Max(basePTs))..((target - 1) \div Min(basePTs))

\* The first filter of findAllSolutionsForN: the total of the multipliers.
InRange(target, combo, basePTs) ==
  SumFunction(combo) \in CeilDiv(target, Max(basePTs))..(target \div Min(basePTs))

\* The second one: the target is a multiple of what all multipliers are multiples of.
Gcd(combo) == CHOOSE g \in 1..15 :
  /\ \A i \in DOMAIN combo : combo[i] % g = 0
  /\ \A h \in (g + 1)..15 : \E i \in DOMAIN combo : combo[i] % h # 0

\* generateNonDecreasingCombos: the multipliers of n plays, without their permutations.
Combos(target, n, basePTs) ==
  {m \in [1..n -> Multipliers] :
     /\ \A i \in 2..n : m[i - 1] <= m[i]
     /\ InRange(target, m, basePTs) /\ target % Gcd(m) = 0}

\* Plays of the same multiplier do not grow, but for the last one, which does not shrink.
Pruned(combo, points) == \A i \in 2..Len(combo) :
  combo[i] = combo[i - 1] =>
    IF i = Len(combo) THEN points[i] >= points[i - 1] ELSE points[i] <= points[i - 1]

\* findAllAllocations, and findAllSolutionsForN.
Allocations(target, combo, basePTs) ==
  {p \in [1..Len(combo) -> basePTs] :
     Pruned(combo, p) /\ SumFunction([i \in DOMAIN combo |-> combo[i] * p[i]]) = target}

AllSolutionsForN(target, n, basePTs) ==
  UNION {{[multipliers |-> c, basePTs |-> p] : p \in Allocations(target, c, basePTs)}
         : c \in Combos(target, n, basePTs)}

\* Key f is smaller than key g at the first place where they differ.
Before(f, g) == \E i \in DOMAIN f \intersect DOMAIN g : f[i] < g[i] /\ \A j \in 1..(i - 1) : f[j] = g[j]

\* Of what has a key, the first Limit.
Foremost(key) == {s \in DOMAIN key : Cardinality({t \in DOMAIN key : Before(key[t], key[s])}) < Limit}

\* The search takes the combos with the greatest total first and then in the order they are
\* generated in, and the points of each from the greatest down.
Position(s) ==
  <<-SumFunction(s.multipliers)>> \o s.multipliers \o [i \in DOMAIN s.basePTs |-> -s.basePTs[i]]

FindAllSolutionsForN(target, n, basePTs) ==
  Foremost([s \in AllSolutionsForN(target, n, basePTs) |-> Position(s)])

\* More plays are tried until Limit strategies are found.
Search(target, basePTs) ==
  LET found == [n \in 1..MaxPlays |-> FindAllSolutionsForN(target, n, basePTs)]
      withFewer(n) == UNION {found[k] : k \in 1..(n - 1)}
  IN  UNION {found[n] : n \in {m \in 1..MaxPlays : Cardinality(withFewer(m)) < Limit}}

-----------------------------------------------------------------------------

Sums(values, more) == values \union {v + w : v \in values, w \in more}

\* The numbers of plays the windows are shown for: 3 to 5 in the code.
Tiers == (MaxPlays - 2)..MaxPlays

\* findContiguousWindows: what one play can give, and with one play more each time.
Reached(basePTs) ==
  LET one == {b * m : b \in basePTs, m \in Multipliers}
      upTo[n \in 1..MaxPlays] == IF n = 1 THEN one ELSE Sums(upTo[n - 1], one)
  IN  upTo

\* collectSegments: the runs of reached values.
CollectSegments(values) ==
  {s \in [lo : {v \in values : v - 1 \notin values}, hi : {v \in values : v + 1 \notin values}] :
     s.lo <= s.hi /\ s.lo..s.hi \subseteq values}

LengthOf(segment) == segment.hi - segment.lo + 1
BestLen(values) == Max({LengthOf(s) : s \in CollectSegments(values)})

\* The longest runs are shown, at most five, until they are together half as long as the longest
\* run with one play more.
Shown(basePTs, plays) ==
  LET runs == CollectSegments(Reached(basePTs)[plays])
      threshold == IF plays < MaxPlays THEN CeilDiv(BestLen(Reached(basePTs)[plays + 1]), 2) ELSE 0
      before(s) == {t \in runs : LengthOf(t) > LengthOf(s) \/ (LengthOf(t) = LengthOf(s) /\ t.lo < s.lo)}
  IN  {s \in runs : before(s) = {} \/ (MapThenSumSet(LengthOf, before(s)) < threshold /\ Cardinality(before(s)) < 5)}

\* The ranking: the share of plays with a preferred song, in sixtieths, fewer plays, more ways to
\* choose the songs, more boosts; what is equal stays in the order of the search.
Rank(s, songs, filter) ==
  LET plays == DOMAIN s.basePTs
      preferred == {i \in plays : filter.boost /\ \E c \in songs[s.basePTs[i]] : c.boost}
      choices == {f \in [plays -> UNION {songs[b] : b \in DOMAIN songs}] : \A i \in plays : f[i] \in songs[s.basePTs[i]]}
      boosts == [i \in plays |-> s.multipliers[i] \div 5]
  IN  <<-((60 * Cardinality(preferred)) \div Len(s.basePTs)), Len(s.basePTs),
        -Cardinality(choices), -SumFunction(boosts)>> \o Position(s)

\* analyze: strategies, or why there is none and what could be given instead.  A strategy must hold
\* a song of the band when the filter says so; that none does is not handled.
Analyze(target, charts, pointsOf, filter) ==
  LET admitted == Admitted(charts, pointsOf, filter)
      basePTs == ComputeFixedBasePTs(charts, pointsOf, filter)
      songs == [b \in basePTs |-> {c \in admitted : pointsOf[c.min] = b}]
      ofBand(s) == \E i \in DOMAIN s.basePTs : \E c \in songs[s.basePTs[i]] : c.band = filter.band
      found == Search(target, basePTs)
      kept == {s \in found : filter.bandMode = "contains" => ofBand(s)}
      answer == [outcome |-> "infeasible", strategies |-> {}, windows |-> {}]
  IN  IF basePTs = {} THEN answer
      ELSE IF target < Min(basePTs) THEN [answer EXCEPT !.outcome = "too low"]
      ELSE IF found = {} THEN
        [answer EXCEPT !.windows = UNION {{[plays |-> n, run |-> s] : s \in Shown(basePTs, n)} : n \in Tiers}]
      ELSE IF kept = {} THEN [answer EXCEPT !.outcome = "throws"]
      ELSE [answer EXCEPT !.outcome = "feasible",
                          !.strategies = Foremost([s \in kept |-> Rank(s, songs, filter)])]

-----------------------------------------------------------------------------
\* A strategy as the number of times each play is in it.
Bag(multipliers, points) == LET plays == [i \in DOMAIN points |-> <<multipliers[i], points[i]>>]
  IN  [x \in Range(plays) |-> Cardinality({i \in DOMAIN plays : plays[i] = x})]

BagOf(s) == Bag(s.multipliers, s.basePTs)

\* The bags of n plays that give the target.
BagsOf(target, n, basePTs) ==
  {Bag([i \in 1..n |-> f[i][1]], [i \in 1..n |-> f[i][2]]) :
     f \in {g \in [1..n -> Multipliers \X basePTs] : SumFunction([i \in 1..n |-> g[i][1] * g[i][2]]) = target}}

\* Without a band to contain, every strategy gives the target; fewer than Limit are all there are: what
\* the range, the divisor and the pruning leave out is left out for its symmetry only; and
\* at the limit, but for the songs preferred, none is left out for one with more plays.
StrategiesAreComplete(target, charts, pointsOf, filter) ==
  LET basePTs == ComputeFixedBasePTs(charts, pointsOf, filter)
      strategies == Analyze(target, charts, pointsOf, filter).strategies
      listed == {BagOf(s) : s \in strategies}
  IN  /\ listed \subseteq UNION {BagsOf(target, n, basePTs) : n \in 1..MaxPlays}
      /\ \A n \in 1..MaxPlays :
           \/ BagsOf(target, n, basePTs) \subseteq listed
           \/ /\ Cardinality(strategies) >= Limit
              /\ filter.boost \/ \A s \in strategies : Len(s.basePTs) <= n

\* A value is in a window that is shown for a number of plays only if a strategy of at most that
\* many plays gives it, and the value next to a window cannot be given.
WindowsAreReachable(target, basePTs) == \A plays \in Tiers :
  LET feasible == \E n \in 1..plays : FindAllSolutionsForN(target, n, basePTs) # {}
  IN  \A s \in Shown(basePTs, plays) :
        /\ target \in s.lo..s.hi => feasible
        /\ target \in {s.lo - 1, s.hi + 1} => ~feasible
=============================================================================
