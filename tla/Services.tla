------------------------------ MODULE Services ------------------------------
(***************************************************************************)
(* The services behind the rankings, the browser's polling and the         *)
(* calculations: what shares no state with the others.  A behaviour        *)
(* follows one of them, focus, with every interleaving of its own tasks,   *)
(* while the others rest; a calculation is followed for one input.         *)
(***************************************************************************)
EXTENDS Integers, Sequences, FiniteSets

CONSTANTS
  \* MongoConnection
  Waiters, MaxOutages,
  \* RankingInfo
  Servers, Readers, MaxAnnounced,
  \* DownloadCache
  Ttl, MaxTime,
  \* SongSync; its callers are those of the downloads too
  Songs, Catalogue, Callers,
  \* PointsPolling
  Queries, MaxSamples, MaxRequests,
  \* the calculations
  Durations, SkillCount, MaxPlays, MaxAlternatives, TopSize, Rounded,
  Inputs,                   \* what they are followed for
  \* ScoreForm
  Teams, Targets, MaxTimers, MaxFetches,
  \* PlayerMigration
  Players, Documents,
  MaxFaults, MaxRestarts    \* bounds shared by the services

ASSUME TtlAssumption == Ttl \in Nat \ {0}
ASSUME CatalogueAssumption == Catalogue \in Seq([Songs -> Nat]) /\ Catalogue # <<>>
ASSUME DocumentsAssumption == Documents \in Nat
ASSUME FormAssumption == Teams \subseteq Nat /\ Targets \subseteq Nat
\* A product with or a quotient by a multiplier of whole hundreds is exact.
ASSUME RoundedAssumption ==
  /\ \A x \in Rounded.product : x[2] % 100 # 0
  /\ \A x \in Rounded.base : x[2] % 100 # 0
ASSUME SamplesAssumption == MaxSamples \in Nat \ {0}

VARIABLES
  focus,   \* the component that is followed
  input,   \* the input of the calculations
  \* MongoConnection
  reachable, monitored, connected, recovery, waiting, outages,
  \* RankingInfo
  announced, stored, cache, loaded, find, refreshing, due, server, done, overlapped,
  \* DownloadCache
  now, memory, disk, temp, requests, inFlight, call, oldest, cleaning,
  \* SongSync
  published, snapshot, listFile, load, given, songsFile, metaFile, state, reading, sync, torn,
  \* PointsPolling
  samples, client, disturbed,
  \* ScoreForm
  storage, page, fetcher, typed,
  \* PlayerMigration
  users, legacy, previous, ranked, completed, bootstrap, split, skipped,
  \* counters of the service that is followed
  faults, restarts

Mongo == INSTANCE MongoConnection
Info == INSTANCE RankingInfo
Downloads == INSTANCE DownloadCache
Song == INSTANCE SongSync
Polling == INSTANCE PointsPolling WITH published <- samples
Form == INSTANCE ScoreForm
Migration == INSTANCE PlayerMigration
Control == INSTANCE ScoreControl
Table == INSTANCE PointsTable
Choice == INSTANCE EventChoice
Fetch == INSTANCE RankingFetch
Deck == INSTANCE PlayerDeck
Rows == INSTANCE SongRows

mongo == <<reachable, monitored, connected, recovery, waiting, outages>>
info == <<announced, stored, cache, loaded, find, refreshing, due, server, done, overlapped>>
downloads == <<now, memory, disk, temp, requests, inFlight, call, oldest, cleaning>>
songs == <<published, snapshot, listFile, load, given, songsFile, metaFile, state, reading, sync, torn>>
polling == <<samples, client, disturbed>>
form == <<storage, page, fetcher, typed>>
migration == <<users, legacy, previous, ranked, completed, bootstrap, split, skipped>>
vars == <<focus, input, mongo, info, downloads, songs, polling, form, migration, faults, restarts>>

NoInput == [of |-> "nothing"]

\* Targets and the parameters of events are whole numbers; the events of a schedule follow each
\* other in the order of their ids, which begin with 1; a history is a sequence of rankings, whose
\* points are none below 0; a main deck has five members, and a card does not change between two
\* downloads of the list; a chart is one that can be scored, and its team has a skill for each
\* trigger but the last; a row is of such a chart, a point of power moves its score little
\* (PowerIsFine), and no power is preferred from the upper end of the halvings on; every play gives a
\* point, and no strategy is asked to contain a band.
ASSUME InputsAssumption ==
  \A i \in Inputs :
    /\ i.of = "points" =>
         i.target \in Nat /\ i.event \in [type : Rows!Points!Types, bonus : Nat, support : Nat]
    /\ i.of = "events" =>
         /\ i.now \in Nat /\ DOMAIN i.schedule \subseteq Nat \ {0}
         /\ i.schedule \in [DOMAIN i.schedule -> [startAt : Nat, endAt : Nat]]
         /\ \A a, b \in DOMAIN i.schedule : a < b => i.schedule[a].endAt < i.schedule[b].startAt
    /\ i.of = "table" =>
         /\ Len(i.history) \in Nat /\ DOMAIN i.history = 1..Len(i.history)
         /\ \A t \in DOMAIN i.history : DOMAIN i.history[t] = 1..Len(i.history[t])
         /\ \A t \in DOMAIN i.history : \A k \in DOMAIN i.history[t] : i.history[t][k].points \in Nat
         /\ i.interval \in Nat \ {0} /\ i.window \in Nat /\ i.first \in DOMAIN i.history
    /\ i.of = "deck" =>
         /\ DOMAIN i.deck = 1..5 /\ \A k \in 1..5 : i.deck[k].append \in [Deck!Dims -> Nat]
         /\ \A id \in DOMAIN i.fresh : Deck!CardTyped(i.fresh[id])
         /\ \A id \in DOMAIN i.cached : id \in DOMAIN i.fresh /\ i.cached[id] = i.fresh[id]
         /\ i.event = Deck!NoEvent \/ Deck!EventTyped(i.event)
    /\ i.of = "chart" =>
         /\ i.base \in Nat /\ i.team \in [1..(SkillCount - 1) -> Rows!Score!Skills]
         /\ Rows!Score!Scorable(Rows!Score!Chart!Normalize(i.items, i.tempo))
    /\ i.of = "rows" =>
         /\ i.target \in Nat /\ i.song.level \in Nat /\ i.form.power \in Nat /\ i.form.auto \in Nat
         /\ i.form.event \in [type : Rows!Points!BonusTypes, bonus : Nat, support : Nat]
         /\ i.form.team \in [1..(SkillCount - 1) -> Rows!Score!Skills] /\ i.form.leader \in Rows!Score!Skills
         /\ i.form.fps \in {60, 120} /\ i.preferred.max \in 0..(Rows!MaxPower - 1)
         /\ Rows!Score!Scorable(i.chart) /\ i.song.summary = Rows!Score!Chart!BuildLevelSummary(i.chart)
         /\ Rows!PowerIsFine(i.song, i.form)
    /\ i.of = "plays" =>
         /\ i.target \in Nat /\ i.divisor \in Nat \ {0}
         /\ i.filter.bandMode # "contains" /\ i.filter.boost \in BOOLEAN
         /\ IsFiniteSet(i.charts)
         /\ \A chart \in i.charts : chart.min \in Nat /\ chart.max \in Nat /\ chart.min >= i.divisor

\* A skill lasts no more than eight seconds; there is a trigger for each member and the leader.
ASSUME SkillsAssumption == Durations \subseteq 0..80 /\ SkillCount \in Nat \ {0, 1}
\* Windows are shown for three numbers of plays; a strategy can be shown besides the first.
ASSUME PlaysAssumption == MaxPlays \in Nat \ {0, 1, 2} /\ MaxAlternatives \in Nat

\* A component that is not followed rests in one of its initial states.
Init ==
  /\ focus \in {"mongo", "info", "downloads", "songs", "polling", "form", "migration",
                "calculation"}
  /\ IF focus = "calculation" THEN input \in Inputs ELSE input = NoInput
  /\ Mongo!Init /\ (focus # "mongo" => reachable)
  /\ Info!Init /\ Downloads!Init
  /\ Song!Init /\ (focus # "songs" => songsFile = 0)
  /\ Polling!Init /\ (focus # "polling" => samples = 0 /\ client.filters = CHOOSE q \in Queries : TRUE)
  /\ Form!Init /\ (focus # "form" => page.view = "auto")
  /\ Migration!Init /\ (focus # "migration" => completed # {} /\ \A d \in 1..Documents : users[d] = Players)

MongoStep ==
  /\ focus = "mongo" /\ Mongo!Next
  /\ UNCHANGED <<info, downloads, songs, polling, form, migration, faults, restarts>>
InfoStep == focus = "info" /\ Info!Next /\ UNCHANGED <<mongo, downloads, songs, polling, form, migration>>
DownloadStep ==
  focus = "downloads" /\ Downloads!Next /\ UNCHANGED <<mongo, info, songs, polling, form, migration, faults>>
SongStep ==
  focus = "songs" /\ Song!Next /\ UNCHANGED <<mongo, info, downloads, polling, form, migration, restarts>>
PollingStep ==
  /\ focus = "polling" /\ Polling!Next
  /\ UNCHANGED <<mongo, info, downloads, songs, form, migration, faults, restarts>>
FormStep ==
  /\ focus = "form" /\ Form!Next
  /\ UNCHANGED <<mongo, info, downloads, songs, polling, migration, faults, restarts>>
MigrationStep ==
  focus = "migration" /\ Migration!Next /\ UNCHANGED <<mongo, info, downloads, songs, polling, form, faults>>

Next ==
  /\ MongoStep \/ InfoStep \/ DownloadStep \/ SongStep \/ PollingStep \/ FormStep
     \/ MigrationStep
  /\ UNCHANGED <<focus, input>>

\* Only the recovery of the database needs fairness.
Spec == Init /\ [][Next]_vars /\ Mongo!Fairness

-----------------------------------------------------------------------------
\* The database: while it is down it is being recovered; whoever waits for it gets it.
DownIsRecovering == Mongo!DownIsRecovering
ReadyReturns == focus = "mongo" => Mongo!ReadyReturns

\* The information of events: what a refresh of a server learnt is not lost to the others'.
CacheKeepsKnown == Info!CacheKeepsKnown

\* The download cache: nothing past its time is given out as fresh.
FreshIsFresh == Downloads!FreshIsFresh

\* The songs: a list is never followed by an older one; the levels are those of their list.
ListNeverGoesBack == [][given' >= given]_vars
LevelsFollowSourceUnlessTorn == Song!LevelsFollowSourceUnlessTorn

\* The migration of the players: none is lost, and none is left with an older profile.
PlayersAreKept == Migration!PlayersAreKept

\* The polling of the browser: one query's samples without a gap; it does not stop.
TracksAreOneHistoryUnlessDisturbed == Polling!TracksAreOneHistoryUnlessDisturbed
PollingGoesOn == Polling!PollingGoesOn

\* The calculators: the form of both pages is the user's, and the result beside it the form's.
ShownIsCurrent == Form!ShownIsCurrent

\* The present event: the rankings, the deck and the page choose the same one.
ChoicesAgree ==
  input.of = "events" => Choice!ChoicesAgree(input.schedule, input.bestdori, input.local, input.now)

\* The answers of the game: none but the ranking that was asked for is taken.
OnlyOwnRanking ==
  input.of = "fetch" =>
    \A answers \in [1..2 -> Fetch!Answers(input.kind, input.server)] :
      Fetch!OnlyOwnRanking(answers, input.kind, input.server)

\* The player's deck: what it is worth by powers, by points and by skills agrees.
DeckIsTotalled ==
  input.of = "deck" =>
    Deck!DeckIsTotalled(input.cached, input.fresh, input.items, input.deck, input.event)

\* Points: the scores found for a target are exactly those worth it, and the bonuses found reach it.
TargetsAreInverted ==
  input.of = "points" =>
    /\ Rows!Points!RangeIsExact(input.target, input.event)
    /\ input.event.type \in Rows!Points!BonusTypes => Rows!Points!BonusesAreRight(input.target, input.event)

\* Scores: computed from the encoded counts, they are those of the chart played frame by frame,
\* and no order of the skills scores more or less than the orders found.
ScoresArePlayed ==
  input.of = "chart" =>
    LET chart == Rows!Score!Chart!Normalize(input.items, input.tempo)
    IN  /\ Rows!Score!ScoreIsPlayed(chart, input.base, input.team, input.team[1])
        /\ Rows!Score!ExtremesAreFound(chart, input.base, input.team, input.team[1])

\* Plays for a target: up to the limit of strategies no combination is missed, the windows shown
\* instead can be reached, and the powers recommended with a bonus are worth it.
PlaysReachTarget ==
  /\ input.of = "plays" =>
       LET scores == UNION {{chart.min, chart.max} : chart \in input.charts}
           points == [score \in scores |-> score \div input.divisor]
       IN  /\ Control!StrategiesAreComplete(input.target, input.charts, points, input.filter)
           /\ Control!WindowsAreReachable(
                input.target, Control!ComputeFixedBasePTs(input.charts, points, input.filter))
  /\ input.of = "rows" =>
       /\ Rows!BonusRowsReachTarget(input.target, input.song, input.form, input.preferred)
       /\ Rows!RowsHoldEveryOrder({input.song}, input.form)

\* The table of the players' gains, merged from two answers, shows what the rankings held.
TableTellsHistory ==
  input.of = "table" =>
    Table!TableTellsHistory(input.history, input.interval, input.window, input.first)
=============================================================================
