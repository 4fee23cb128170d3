------------------------------ MODULE AutoScore -----------------------------
(***************************************************************************)
(* frontend features/songMeta/autoScoreMath.ts: the score of a chart       *)
(* played automatically, from the counts the backend encoded, and the      *)
(* order of the skills with the greatest and the least score.  Factors are *)
(* percents, a skill that grows with the notes it covers has a step.       *)
(***************************************************************************)
EXTENDS Integers, Sequences, FiniteSets, FiniteSetsExt, Folds

CONSTANTS
  Durations,
  SkillCount     \* the triggers of a chart: the skills of the team and its leader's again

Chart == INSTANCE ChartCounts

-----------------------------------------------------------------------------

\* decodeNoteCount, of counts and of differences of counts.
DecodeNoteCount(value, fps) ==
  LET bits == value % 16
  IN  (value \div 16) + (IF fps = 120 THEN 0 ELSE IF bits >= 8 THEN -(bits % 8) ELSE bits)

\* The notes the skill at position i of a line-up covers.
NotesAt(summary, lineUp, i, fps) ==
  DecodeNoteCount(summary.counts[lineUp[i].duration][i], fps)
    + (IF i = 1 THEN 0 ELSE DecodeNoteCount(summary.overlaps[i][lineUp[i - 1].duration][lineUp[i].duration], fps))

\* SkillInfo: a skill of a team's card, as it grows with its level.
Skills == [duration : Durations, scoreUp : Nat, step : Nat, cap : Nat]

\* The bonus of the k-th note a skill covers.
Bonus(skill, k) ==
  IF skill.step = 0 THEN skill.scoreUp
  ELSE LET grown == skill.scoreUp + k * skill.step IN IF grown < skill.cap THEN grown ELSE skill.cap

\* computeSkillWeight and computeSkillScore.
SkillWeight(skill, count) == MapThenSumSet(LAMBDA k : Bonus(skill, k), 1..count)
SkillScore(base, skill, count) ==
  MapThenSumSet(LAMBDA k : (base * (100 + Bonus(skill, k))) \div 100, 1..count)

\* calcExactScoreInTurns: the leader's skill is the last of the line-up.
CalcExactScoreInTurns(base, lineUp, summary, fps) ==
  LET score == MapThenSumSet(LAMBDA i : SkillScore(base, lineUp[i], NotesAt(summary, lineUp, i, fps)), 1..SkillCount)
      covered == MapThenSumSet(LAMBDA i : NotesAt(summary, lineUp, i, fps), 1..SkillCount)
  IN  score + (IF summary.total > covered THEN (summary.total - covered) * base ELSE 0)

\* The orders of the team's skills: the leader's, at the end, is not moved.
LineUps(team, leader) ==
  {[i \in 1..SkillCount |-> IF i = SkillCount THEN leader ELSE team[path[i]]] :
     path \in {f \in [1..(SkillCount - 1) -> 1..(SkillCount - 1)] : \A i, j \in DOMAIN f : i # j => f[i] # f[j]}}

\* findExtremes weighs an order by its team's skills; the leader's is not part of it.
Weight(summary, lineUp, fps) ==
  MapThenSumSet(LAMBDA i : SkillWeight(lineUp[i], NotesAt(summary, lineUp, i, fps)), 1..(SkillCount - 1))

Heaviest(team, leader, summary, fps) ==
  CHOOSE l \in LineUps(team, leader) :
    \A m \in LineUps(team, leader) : Weight(summary, m, fps) <= Weight(summary, l, fps)
Lightest(team, leader, summary, fps) ==
  CHOOSE l \in LineUps(team, leader) :
    \A m \in LineUps(team, leader) : Weight(summary, l, fps) <= Weight(summary, m, fps)

\* calcScore
CalcScore(base, team, leader, summary, fps) ==
  [maxScore |-> CalcExactScoreInTurns(base, Heaviest(team, leader, summary, fps), summary, fps),
   minScore |-> CalcExactScoreInTurns(base, Lightest(team, leader, summary, fps), summary, fps)]

-----------------------------------------------------------------------------
\* The game, frame by frame: a skill starts with its trigger or when the one before it lets it,
\* and boosts the notes of its frames in their order.
StartOf(chart, lineUp, i, fps) ==
  LET own == Chart!FrameOf(chart.skills[i], fps)
  IN  IF i = 1 THEN own
      ELSE Chart!Larger(own, Chart!Free(chart.skills[i - 1], lineUp[i - 1].duration, fps))

Boosted(chart, lineUp, i, fps) ==
  {x \in DOMAIN chart.notes :
     Chart!FrameOf(chart.notes[x], fps) - StartOf(chart, lineUp, i, fps)
       \in 1..Chart!Covered(lineUp[i].duration, fps)}

Played(chart, base, lineUp, fps) ==
  LET boosted(i) == Boosted(chart, lineUp, i, fps)
      plain == chart.total - Cardinality(UNION {boosted(i) : i \in 1..SkillCount})
  IN  plain * base + MapThenSumSet(LAMBDA i : SkillScore(base, lineUp[i], Cardinality(boosted(i))), 1..SkillCount)

\* A chart whose last skill, the leader's, does not queue behind the team's.
Scorable(chart) ==
  /\ Chart!Countable(chart) /\ Chart!Decodable(chart) /\ Chart!QueuedIsOver(chart)
  /\ ~Chart!MayQueue(chart.skills[SkillCount - 1], chart.skills[SkillCount])

\* The score computed from the encoded counts is the one of the chart played frame by frame, at
\* both frame rates and in every order of the skills, queued or not.
ScoreIsPlayed(chart, base, team, leader) ==
  \A fps \in {60, 120}, lineUp \in LineUps(team, leader) :
    CalcExactScoreInTurns(base, lineUp, Chart!BuildLevelSummary(chart), fps) = Played(chart, base, lineUp, fps)

\* No order scores more than the one found, nor less, by more than the rounding of its notes;
\* the leader's skill must not queue behind the team's.
ExtremesAreFound(chart, base, team, leader) ==
  LET summary == Chart!BuildLevelSummary(chart)
  IN  \A fps \in {60, 120}, lineUp \in LineUps(team, leader) :
        LET found == CalcScore(base, team, leader, summary, fps)
            score == CalcExactScoreInTurns(base, lineUp, summary, fps)
        IN  /\ score < found.maxScore + summary.total + 1
            /\ score > found.minScore - summary.total - 1
=============================================================================
