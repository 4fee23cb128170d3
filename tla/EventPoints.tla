----------------------------- MODULE EventPoints ----------------------------
(***************************************************************************)
(* frontend features/PT/calcSinglePT.ts: the event points a score is worth *)
(* and, the other way round, the scores and the bonuses that are worth     *)
(* given points.  The browser calculates in doubles: a product or a        *)
(* quotient that is a whole number may come out just beside it, and        *)
(* rounding down or up then misses it.  Where it does is a constant; a     *)
(* value that is not whole is too far from the next one for that.          *)
(***************************************************************************)
EXTENDS Integers, FiniteSets, FiniteSetsExt

\* The whole numbers the doubles miss: .product, the products <<value, multiplier, support>> just
\* below; .base, the quotients <<points, multiplier>>, and .bonus, <<points, value>>, just above.
CONSTANT Rounded

Types == {"mission", "try", "challenge", "versus", "5v5", "medley1"}
BonusTypes == {"mission", "try", "challenge"}

Base == [mission |-> 120, try |-> 130, challenge |-> 70, versus |-> 100, 5v5 |-> 80, medley1 |-> 30]
Divisor == [mission |-> 15000, try |-> 26000, challenge |-> 50000,
            versus |-> 9750, 5v5 |-> 14000, medley1 |-> 18500]

\* The parameters of an event: type, bonus in percent, supportBandPower.
Multiplier(p) == IF p.type \in BonusTypes THEN 100 + p.bonus ELSE 100
SupportPart(p) == IF p.type = "mission" THEN p.support \div 3000 ELSE 0

Missed(set, x) == IF x \in set THEN 1 ELSE 0

\* A value with its bonus, in hundredths.
Product(a, p) == a * Multiplier(p) - Missed(Rounded.product, <<a, Multiplier(p), SupportPart(p)>>)

CalcEventPT(score, p) == Product(Base[p.type] + score \div Divisor[p.type], p) \div 100 + SupportPart(p)

\* Math.ceil of x / y, or of the double above it.
CeilDiv(x, y) == -((-x) \div y)

NoRange == [ok |-> FALSE, min |-> 0, max |-> 0]
RangeOf(first, last, type) ==
  [ok |-> TRUE, min |-> first * Divisor[type], max |-> (last + 1) * Divisor[type] - 1]

\* Math.ceil of the value before the bonus that gives points.
ValueOf(points, p) ==
  CeilDiv(100 * points + Missed(Rounded.base, <<points, Multiplier(p)>>), Multiplier(p))

\* Faulty variant: the value of the next point is taken in.
FaultyMaxA(target, p) == ValueOf(target + 1 - SupportPart(p), p)

\* The values before the bonus that give the target: from MinA to MaxA.
MinA(target, p) == ValueOf(target - SupportPart(p), p)
MaxA(target, p) == ValueOf(target + 1 - SupportPart(p), p) - 1

\* getScoreRangeByPT: a target that is too low or is skipped by the bonus is refused.
GetScoreRangeByPT(target, p) ==
  LET base == Base[p.type] min == MinA(target, p) max == MaxA(target, p)
  IN  IF target <= 0 \/ max < base \/ min > max \/ min < base
        THEN NoRange
      ELSE RangeOf(min - base, max - base, p.type)

WithBonus(p, b) == [p EXCEPT !.bonus = b]

\* The bonuses for a value before the bonus; the code takes 0.000001 from the upper end.
MinBonus(target, a, p) ==
  LET n == target - SupportPart(p)
  IN  CeilDiv(100 * n + Missed(Rounded.bonus, <<n, a>>), a) - 100
MaxBonus(target, a, p) ==
  LET x == 100 * (target + 1 - SupportPart(p))
  IN  x \div a - 100 - (IF 1000000 * (x % a) < a THEN 1 ELSE 0)

\* Those that calcEventPT confirms.
BonusesFor(target, a, p) ==
  {b \in MinBonus(target, a, p)..MaxBonus(target, a, p) :
     Product(a, WithBonus(p, b)) \div 100 + SupportPart(p) = target}

MaxIterations == 100000

\* The numbers of score steps, from the greatest down, that some bonus takes to the target.
Divs(target, p) ==
  LET top == Max({0, target - SupportPart(p) - Base[p.type]})
  IN  {d \in Max({0, top - (MaxIterations - 1)})..top :
         LET a == Base[p.type] + d
         IN  a + SupportPart(p) <= target /\ MinBonus(target, a, p) >= 0 /\ BonusesFor(target, a, p) # {}}

\* getFeasibleBonus: the smallest bonus of each, and one entry for each bonus, with the scores of all
\* values that take it.
GetFeasibleBonus(target, p) ==
  LET bonusOf(d) == Min(BonusesFor(target, Base[p.type] + d, p))
      divs(b) == {d \in Divs(target, p) : bonusOf(d) = b}
  IN  {[bonus |-> b, range |-> RangeOf(Min(divs(b)), Max(divs(b)), p.type)]
       : b \in {bonusOf(d) : d \in Divs(target, p)}}

-----------------------------------------------------------------------------
\* A value that is worth a whole number of points, which one of the two roundings misses.
Doubtful(a, p) ==
  /\ (a * Multiplier(p)) % 100 = 0
  /\ Missed(Rounded.product, <<a, Multiplier(p), SupportPart(p)>>)
       # Missed(Rounded.base, <<(a * Multiplier(p)) \div 100, Multiplier(p)>>)

\* The range holds the scores worth the target and no others, from the first to the last score of
\* each step, unless the two roundings disagree about the step; none is refused for which there is one.
RangeIsExact(target, p) ==
  LET r == GetScoreRangeByPT(target, p)
  IN  \A d \in 0..target, e \in {0, Divisor[p.type] - 1} :
        LET score == d * Divisor[p.type] + e
        IN  ~Doubtful(Base[p.type] + d, p) =>
              (CalcEventPT(score, p) = target <=> r.ok /\ r.min <= score /\ score <= r.max)

\* Every bonus found gives the target from the first to the last score of its range, and every number
\* of score steps that some bonus takes to the target is in the range of one, unless it is a whole
\* number of points that a rounding misses; targets whose search ends early are left out.
BonusesAreRight(target, p) ==
  LET found == GetFeasibleBonus(target, p)
      missed(a, b) ==
        /\ (a * (100 + b)) % 100 = 0
        /\ <<target - SupportPart(p), a>> \in Rounded.bonus \/ <<a, 100 + b, SupportPart(p)>> \in Rounded.product
      covered(score) == \E f \in found : f.range.min <= score /\ score <= f.range.max
  IN  /\ \A f \in found : \A score \in {f.range.min, f.range.max} :
           CalcEventPT(score, WithBonus(p, f.bonus)) = target
      /\ target <= MaxIterations =>
           \A d \in 0..target, b \in 0..100 :
             CalcEventPT(d * Divisor[p.type], WithBonus(p, b)) = target =>
               covered(d * Divisor[p.type]) \/ missed(Base[p.type] + d, b)
=============================================================================
