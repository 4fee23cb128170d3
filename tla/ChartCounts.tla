----------------------------- MODULE ChartCounts ----------------------------
(***************************************************************************)
(* backend parsers/BestdoriChartParser.ts: how many notes of a chart each  *)
(* skill trigger covers, for every duration of the skill and for both      *)
(* frame rates.  The count at 120 frames and the difference at 60 are one  *)
(* number, here in sixteenths.  Times are in 1/240 s, durations in tenths  *)
(* of a second; that a chart's beats become times by its tempo is          *)
(* BeatToSeconds.                                                          *)
(***************************************************************************)
EXTENDS Integers, Sequences, SequencesExt, FiniteSets, FiniteSetsExt

CONSTANTS
  Durations,     \* SKILL_DURATIONS
  SkillCount     \* TARGET_SKILL_COUNT

CeilDiv(x, y) == -((-x) \div y)
Larger(x, y) == IF x < y THEN y ELSE x

-----------------------------------------------------------------------------
\* The tempo changes as <<beat, bpm>>, by beat: buildBpmTimeline gives each its time, and the
\* first tempo holds from beat 0; a tempo that is not positive is the default one.
Tempo(bpm) == IF bpm > 0 THEN bpm ELSE 120
Length(beats, bpm) == (beats * 60 * 240) \div Tempo(bpm)

BuildBpmTimeline(changes) ==
  LET point(beat, bpm, time) == [beat |-> beat, bpm |-> Tempo(bpm), time |-> time]
      timeOf[i \in DOMAIN changes] ==
        IF i = 1 THEN 0 ELSE timeOf[i - 1] + Length(changes[i][1] - changes[i - 1][1], changes[i - 1][2])
      points == [i \in DOMAIN changes |-> point(changes[i][1], changes[i][2], timeOf[i])]
  IN  IF changes = <<>> THEN <<point(0, 0, 0)>>
      ELSE IF points[1].beat > 0 THEN <<[points[1] EXCEPT !.beat = 0]>> \o points
      ELSE points

\* The tempo that holds at a beat is the last one that began.
BeatToSeconds(beat, timeline) ==
  LET begun == {i \in DOMAIN timeline : timeline[i].beat <= beat}
      selected == timeline[IF begun = {} THEN 1 ELSE Max(begun)]
  IN  selected.time + Length(beat - selected.beat, selected.bpm)

\* normalizeChart: items are [beat, lane, skill, hidden].  Triggers of one beat are one trigger; a
\* skill trigger is not counted as a note, nor is a hidden point.
Normalize(items, changes) ==
  LET timeline == BuildBpmTimeline(changes)
      beats == SetToSortSeq({x.beat : x \in {y \in items : y.skill}}, <)
      notes == {x \in items : ~x.skill /\ ~x.hidden}
  IN  [skills |-> [i \in DOMAIN beats |-> BeatToSeconds(beats[i], timeline)],
       notes |-> [x \in notes |-> BeatToSeconds(x.beat, timeline)],
       total |-> Len(beats) + Cardinality(notes)]

-----------------------------------------------------------------------------
\* fps is 60 or 120.  The frame of a time, and the frames a skill covers: its duration and one.
FrameOf(time, fps) == CeilDiv(time * fps, 240)
Covered(duration, fps) == CeilDiv(duration * fps, 10) + 1

\* countNotesInWindow for a skill that starts in a frame.
CountNotes(chart, start, duration, fps) ==
  Cardinality({x \in DOMAIN chart.notes :
                 /\ FrameOf(chart.notes[x], fps) > start
                 /\ FrameOf(chart.notes[x], fps) <= start + Covered(duration, fps)})

Abs(x) == IF x < 0 THEN -x ELSE x

\* Faulty variant: the sign bit set for the wrong sign.
FaultyEncode(base, diff) == 16 * base + (IF diff > 0 THEN 8 ELSE 0) + Abs(diff)

\* encodeCount: the sign bit and seven values for the difference at 60 frames.
Encode(base, diff) == 16 * base + (IF diff < 0 /\ Abs(diff) < 8 THEN 8 ELSE 0) + Abs(diff)

\* buildCounts: the notes the trigger at position i (from 1) covers at a frame rate, and both counts
\* as one number.
CountAt(chart, i, duration, fps) == CountNotes(chart, FrameOf(chart.skills[i], fps), duration, fps)
CountOf(chart, i, duration) ==
  Encode(CountAt(chart, i, duration, 120), CountAt(chart, i, duration, 60) - CountAt(chart, i, duration, 120))

\* The first frame in which the next skill may start: 0.75 s and two frames after the end.
Free(trigger, duration, fps) ==
  FrameOf(trigger, fps) + Covered(duration, fps) + CeilDiv(3 * fps, 4) + 2

\* computeOverlaps: the frames between two triggers are fewer than the longest skill keeps busy.
MayQueue(prev, cur) == FrameOf(cur, 60) - FrameOf(prev, 60) < 8 * 60 + 1 + 45 + 1 + 1

\* computePositionShifts: how many notes more or less position i covers because the skill before
\* it, which started at its own trigger, is not over.  0 stands for no entry.
DelayedBy(chart, i, dPrev, dCur, fps) ==
  CountNotes(chart, Larger(FrameOf(chart.skills[i], fps), Free(chart.skills[i - 1], dPrev, fps)), dCur, fps)
    - CountAt(chart, i, dCur, fps)
ShiftOf(chart, i, dPrev, dCur) ==
  LET delta(fps) == DelayedBy(chart, i, dPrev, dCur, fps)
  IN  IF MayQueue(chart.skills[i - 1], chart.skills[i]) THEN Encode(delta(120), delta(60) - delta(120)) ELSE 0

\* buildLevelSummary; a chart must have one trigger for each skill.
BuildLevelSummary(chart) ==
  [total |-> chart.total,
   counts |-> [d \in Durations |-> [i \in 1..SkillCount |-> CountOf(chart, i, d)]],
   overlaps |-> [i \in 2..SkillCount |-> [dPrev \in Durations |-> [dCur \in Durations |-> ShiftOf(chart, i, dPrev, dCur)]]]]

-----------------------------------------------------------------------------
\* What the code takes for granted.  normalizeChart gives one trigger for each skill, or buildCounts
\* throws; a difference between the frame rates is below 8, for which encodeCount has three bits;
\* and computeOverlaps looks at two triggers at a time: a skill that queues is over when the next
\* one starts.
Countable(chart) ==
  /\ chart.skills \in [1..SkillCount -> Int]
  /\ IsFiniteSet(DOMAIN chart.notes) /\ chart.notes \in [DOMAIN chart.notes -> Int]
  /\ chart.total = SkillCount + Cardinality(DOMAIN chart.notes)

Decodable(chart) ==
  /\ \A i \in 1..SkillCount, d \in Durations : Abs(CountAt(chart, i, d, 60) - CountAt(chart, i, d, 120)) < 8
  /\ \A i \in 2..SkillCount, dPrev, dCur \in Durations :
       MayQueue(chart.skills[i - 1], chart.skills[i]) =>
         Abs(DelayedBy(chart, i, dPrev, dCur, 60) - DelayedBy(chart, i, dPrev, dCur, 120)) < 8

QueuedIsOver(chart) ==
  \A i \in 3..SkillCount, dPrev, dCur \in Durations, fps \in {60, 120} :
    Free(chart.skills[i - 2], dPrev, fps) + Covered(dCur, fps)
      <= Larger(FrameOf(chart.skills[i], fps), Free(chart.skills[i - 1], dCur, fps))
=============================================================================
