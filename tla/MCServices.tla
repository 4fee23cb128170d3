---------------------------- MODULE MCServices ------------------------------
EXTENDS Services, TLC

\* The first song changes, the second disappears.
MCCatalogue == <<<<1, 1>>, <<2, 0>>>>

\* What the doubles miss of the numbers that the targets below are found with.
MCRounded ==
  [product |-> {<<100, 115, 0>>, <<100, 116, 0>>}, base |-> {<<69, 115>>, <<115, 115>>},
   bonus |-> {<<130, 125>>, <<131, 100>>, <<133, 100>>, <<147, 140>>, <<247, 190>>}]

PointInputs ==
  [of : {"points"}, target : {25, 69, 70, 97, 115, 131, 133, 150},
   event : [type : {"mission"}, bonus : {10, 75}, support : {0, 9000}]
           \union [type : {"try", "challenge"}, bonus : {0, 15}, support : {0}]
           \union [type : Rows!Points!Types \ Rows!Points!BonusTypes, bonus : {0}, support : {0}]]

Skill(duration, up, step, cap) == [duration |-> duration, scoreUp |-> up, step |-> step, cap |-> cap]
Item(beat, skill) == [beat |-> beat, lane |-> 0, skill |-> skill, hidden |-> FALSE]
Trigger(gap) == {Item(0, TRUE), Item(gap, TRUE), Item(6000, TRUE)}

\* A beat lasts 1/240 s: the notes lie where the skills begin and end at either frame rate.
ChartInputs ==
  [of : {"chart"}, tempo : {<<<<0, 14400>>>>}, base : {37},
   team : {<<Skill(30, 100, 0, 0), Skill(80, 30, 10, 50)>>},
   items : UNION {{Trigger(gap) \union {Item(beat, FALSE) : beat \in notes} :
                     notes \in SUBSET {723, gap + 3, gap + 723, 915, 2111}}
                  : gap \in {600, 909, 2100, 3000}}]

\* A chart of a dozen notes, at the shortest and the longest gap.
RowInputs ==
  LET charts == {Rows!Score!Chart!Normalize(
                   Trigger(gap) \union {Item(500 * beat, FALSE) : beat \in 1..9}, <<<<0, 14400>>>>) : gap \in {909, 3000}}
      team == <<Skill(30, 100, 0, 0), Skill(80, 30, 10, 50)>>
      forms == [power : {250000}, team : {team}, leader : {team[1], team[2]}, auto : {2}, fps : {60, 120},
                event : {[type |-> "mission", bonus |-> 50, support |-> 9000]}]
      summaryOf(chart) == Rows!Score!Chart!BuildLevelSummary(chart)
  IN  {[of |-> "rows", target |-> 250, preferred |-> [min |-> 30000, max |-> 450000], chart |-> chart, form |-> filled,
        song |-> [id |-> 1, difficulty |-> 3, level |-> 28, summary |-> summaryOf(chart)]] : chart \in charts, filled \in forms}

Song_(id, min, max, full) ==
  [id |-> id, special |-> FALSE, full |-> full, band |-> id % 2, boost |-> id = 1, min |-> min, max |-> max]
PlayInputs ==
  [of : {"plays"}, target : {1, 4, 7, 20, 35, 49, 52, 78}, divisor : {10},
   filter : [allowFull : {FALSE}, bandMode : {"none"}, band : {0}, boost : BOOLEAN],
   charts : {{Song_(1, 20, 21, FALSE), Song_(2, 20, 30, FALSE)},
             {Song_(1, 20, 21, FALSE), Song_(2, 35, 36, FALSE), Song_(3, 30, 31, FALSE), Song_(4, 35, 37, FALSE), Song_(5, 50, 50, TRUE)},
             {Song_(1, 40, 45, FALSE), Song_(2, 70, 71, FALSE)}}]

Ranked(uid, points) == [uid |-> uid, points |-> points]
Rankings(t) ==
  {<<Ranked("p", 10 * t), Ranked("q", 5 * t)>>, <<Ranked("p", 10 * t), Ranked("r", 4 * t)>>,
   <<Ranked("q", 5 * t), Ranked("r", 4 * t)>>, <<Ranked("p", 10 * t)>>}
TableInputs ==
  [of : {"table"}, interval : 1..2, window : {1, 9}, first : {1, 3},
   history : {h \in [1..4 -> UNION {Rankings(t) : t \in 1..4}] : \A t \in 1..4 : h[t] \in Rankings(t)}]

\* Two events that follow each other, told in part, completely or not at all by each source.
EventInputs ==
  LET schedule == <<[startAt |-> 10, endAt |-> 19], [startAt |-> 20, endAt |-> 30]>>
      tells == Choice!Tells(schedule)
  IN  [of : {"events"}, schedule : {schedule}, bestdori : tells, local : tells, now : {7, 9, 14, 18, 19, 20, 31}]

FetchInputs == [of : {"fetch"}, kind : Fetch!Kinds, server : {0, 3}]

\* Four cards of a band and one of another, of two attributes; the fourth has no stats yet for its
\* level, and the effects of the skills count, do not count or count for a unified team.
CardSkill(id) ==
  [effects |-> {[value |-> 10 * id, condition |-> "none", life |-> 0],
                [value |-> 100, condition |-> IF id = 3 THEN "perfect" ELSE "life", life |-> IF id = 2 THEN 600 ELSE 0]},
   unified |-> IF id = 1 THEN 0 ELSE 120, band |-> IF id = 4 THEN 0 ELSE 1,
   attribute |-> IF id \in {4, 5} THEN "cool" ELSE ""]
Card(id) ==
  [character |-> id, band |-> IF id = 5 THEN 2 ELSE 1, attribute |-> IF id <= 3 THEN "cool" ELSE "pure",
   rarity |-> IF id = 2 THEN 5 ELSE 4, skill |-> CardSkill(id),
   stat |-> [level \in IF id = 4 THEN {} ELSE {60} |->
               [performance |-> 10 * id, technique |-> 7, visual |-> 3]]]
Entry(id) ==
  [card |-> id, level |-> 60, rank |-> id % 3, append |-> [performance |-> 1, technique |-> id, visual |-> 0]]
DeckEvents ==
  [type : Deck!Types, characters : {1 :> 20 @@ 2 :> 20 @@ 5 :> 20}, attributes : {[a \in {"cool"} |-> 10]},
   members : {3 :> 50}, ranks : {<<4, 1>> :> 15}, double : {0, 20}, points : {0, 30},
   parameter : {[performance |-> 0, technique |-> 50, visual |-> 10]}]
DeckInputs ==
  LET cards(known) == [id \in known |-> Card(id)]
  IN  {i \in [of : {"deck"}, cached : {cards(1..5), cards(2..5), cards(1..4)}, fresh : {cards(1..5), cards(1..4)},
              items : {{}, {[attributes |-> {"cool"}, bands |-> {1, 2}, percent |-> [d \in Deck!Dims |-> 5]]}},
              deck : {[k \in 1..5 |-> Entry(ids[k])] : ids \in {<<1, 2, 3, 4, 5>>, <<5, 3, 1, 4, 2>>}},
              event : DeckEvents \union {Deck!NoEvent}] : DOMAIN i.cached \subseteq DOMAIN i.fresh}

MCInputs ==
  UNION {PointInputs, ChartInputs, RowInputs, PlayInputs, TableInputs, EventInputs, FetchInputs, DeckInputs}
=============================================================================
