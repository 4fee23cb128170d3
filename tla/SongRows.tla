------------------------------ MODULE SongRows ------------------------------
(***************************************************************************)
(* What the two calculators show of scores and points together: frontend   *)
(* views/AutoView.vue has a row for each chart of each song,               *)
(* InteractiveScoreView.vue a row for each bonus with the power it would   *)
(* take.  A song is [id, difficulty, level, summary], the summary that of  *)
(* ChartCounts; the rate of an auto live is counted in quarters.           *)
(***************************************************************************)
EXTENDS Integers, Sequences, FiniteSets

CONSTANTS Durations, SkillCount, Rounded

Score == INSTANCE AutoScore
Points == INSTANCE EventPoints

MaxPower == 500000

\* The score of a note without a skill.
BaseScore(power, song, auto) ==
  (3 * auto * power * (95 + song.level)) \div (400 * song.summary.total)

-----------------------------------------------------------------------------
\* calculateSong, with the team, the event and the settings of the form.
CalculateSong(song, form) ==
  LET score == Score!CalcScore(BaseScore(form.power, song, form.auto), form.team, form.leader, song.summary, form.fps)
  IN  [id |-> song.id, difficulty |-> song.difficulty,
       minAutoScore |-> score.minScore, maxAutoScore |-> score.maxScore,
       minPT |-> Points!CalcEventPT(score.minScore, form.event), maxPT |-> Points!CalcEventPT(score.maxScore, form.event)]

Calculate(songs, form) == {CalculateSong(song, form) : song \in songs}

-----------------------------------------------------------------------------
\* reverseCalcPower: 32 halvings; once a power is left the others do not change what is returned.
ReverseCalcPower(target, lineUp, song, form) ==
  LET reached(power) ==
        Score!CalcExactScoreInTurns(BaseScore(power, song, form.auto), lineUp, song.summary, form.fps) >= target
      interval[i \in 0..32] ==
        IF i = 0 THEN [lo |-> 1, hi |-> MaxPower]
        ELSE LET r == interval[i - 1]
                 mid == (r.lo + r.hi) \div 2
             IN  IF r.lo = r.hi THEN r
                 ELSE IF reached(mid) THEN [r EXCEPT !.hi = mid] ELSE [r EXCEPT !.lo = mid + 1]
      last == interval[32]
  IN  (last.lo + last.hi) \div 2

\* bonusRows, for the song in the middle of those with fixed points: in the order of the skills
\* with the greatest score, the power that reaches the middle of a bonus's scores.
BonusRows(target, song, form, preferred) ==
  LET lineUp == Score!Heaviest(form.team, form.leader, song.summary, form.fps)
      row(b) == [bonus |-> b.bonus,
                 recommendedPower |-> ReverseCalcPower((b.range.min + b.range.max) \div 2, lineUp, song, form)]
  IN  {r \in {row(b) : b \in Points!GetFeasibleBonus(target, form.event)} :
         preferred.min <= r.recommendedPower /\ r.recommendedPower <= preferred.max}

-----------------------------------------------------------------------------
\* The halvings aim at the middle of a bonus's scores: a point of power more must not move the score,
\* with the rounding of its notes, by half a step of the points, the shortest of which is 15000.
PowerIsFine(song, form) ==
  LET total == song.summary.total
      basesAPoint == Points!CeilDiv(3 * form.auto * (95 + song.level), 400 * total)
      weight(lineUp) == Score!Weight(song.summary, lineUp, form.fps)
                          + Score!SkillWeight(form.leader, Score!NotesAt(song.summary, lineUp, SkillCount, form.fps))
  IN  \A lineUp \in Score!LineUps(form.team, form.leader) :
        basesAPoint * (100 * total + weight(lineUp)) + 99 * total <= 100 * 7500

\* A power that is recommended with a bonus is worth the target on the chart it was computed for
\* (no preferred power is the halvings' upper end, which is returned for a score no power reaches).
BonusRowsReachTarget(target, song, form, preferred) ==
  LET scoreOf(power) ==
        Score!CalcScore(BaseScore(power, song, form.auto), form.team, form.leader, song.summary, form.fps).maxScore
  IN  \A row \in BonusRows(target, song, form, preferred) :
        LET event == [form.event EXCEPT !.bonus = row.bonus]
        IN  Points!CalcEventPT(scoreOf(row.recommendedPower), event) = target

\* A row holds the points of every order of the skills, up to the rounding of each note, which
\* moves them by one step at most.
RowsHoldEveryOrder(songs, form) ==
  LET rows == Calculate(songs, form)
      worth(song, lineUp) ==
        Points!CalcEventPT(
          Score!CalcExactScoreInTurns(BaseScore(form.power, song, form.auto), lineUp, song.summary, form.fps),
          form.event)
      step == (Points!Multiplier(form.event) + 99) \div 100
  IN  \A song \in songs, lineUp \in Score!LineUps(form.team, form.leader) :
        \E row \in rows :
          /\ row.id = song.id /\ row.difficulty = song.difficulty
          /\ row.minPT - step <= worth(song, lineUp) /\ worth(song, lineUp) <= row.maxPT + step
=============================================================================
