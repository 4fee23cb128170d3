# GarupaSpeedTracker: a verification project

GarupaSpeedTracker samples the Top rankings of events and monthly rankings of the game's five servers, stores them
in MongoDB and serves them to a web frontend. This directory holds TLA+ models of the program, the TLC
configurations that check them on small instances, and proofs checked by TLAPS.

## 1. The system

Paths are relative to `backend/src/` unless they start with `frontend/`.

| component | state it keeps | operations | interacts with | what is hard | what must hold |
|---|---|---|---|---|---|
| Top codec (`storage/topHistoryCodec.ts`) | none | encode an observation against the state of a chain; apply an event to a state | pipeline, store | increments that need an unbroken chain; missing-slot arithmetic | what is decoded is what was observed; a skipped slot is named, a sampled one is not |
| Top store (`storage/topHistoryStore.ts`) | event and user collections | checkpoint, loadState, history, points | pipeline, API | replay from a checkpoint instead of from the start | every query answers as a full replay would |
| Outbox (`storage/topOutbox.ts`) | directory of observation files, map of known files | init, enqueue, first, acknowledge | pipeline | crash between rename, fsync and acknowledgement | an acknowledged observation survives |
| Capture and drain (`services/topHistoryService.ts`) | cached states, first-capture flags, `draining` | capture, drain, query | outbox, store, game client | concurrent captures, lost replies, restarts | accepted once, committed once, in order |
| Pollers (`services/alignedPoller.ts`, `throttledTask.ts`) | `nextAt`, `running`; slot and busy flag per key | tick, run | ranking services | a callback that outlasts its slot | a slot is used once |
| Ranking services (`services/eventRankingService.ts`, `monthlyRankingService.ts`) | post-end timestamps, throttles | bootstrap, refreshAll, post-end sampling, border and music persistence, retry | all of the above, information services | start-up against pollers, end of the period | nothing sampled twice or lost at the end |
| Ranking persistence, V1 (`services/rankingPersistenceHelpers.ts`) | one document per ranking | append snapshot, replace within a bucket | MongoDB | retries after lost replies | one snapshot per bucket |
| Availability (`services/garupaService.ts`, `statusService.ts`) | per server: failures, disabled flag, health cache, recovery in flight, client version | runWithAvailability, assess, wait for recovery | game client | concurrent tasks fail together | one recovery at a time; a disabled server comes back |
| Information (`services/infoServiceBase.ts` and its two subclasses) | cache of ranking information, poll times | load, merge, persist, find active | MongoDB, game client, pollers | first loads against updates | what is learned is not forgotten |
| Game client, CN session (`api/garupa.ts`, `cnSession.ts`) | session, nonce, cooldown, request queue | fetch, login, sdk login | game servers | serialised requests with a nonce chain | no nonce is used twice; cooldown respected |
| MongoDB connection (`storage/dataBaseAdapter/mongodb.ts`) | client, ready promise, recovery loop | connect, waitForReady, startRecovery | everything stored | waiters and recovery run together | one connection attempt at a time; waiters are released |
| Downloads and cache (`storage/downloader.ts`, `cache.ts`) | LRU entries, bytes, requests in flight | download, expiry, back-up | songs, parsers | coalesced requests, limits | byte count exact; one request per file |
| Songs and metadata (`services/songsService.ts`, `songMetadataService.ts`) | snapshot, two JSON files | refresh, synchronise | downloads | two files written one after the other | a changed song is analysed again |
| Player migration (`services/monthlyRankingService.ts`, `index.ts`) | old documents, two collections of players, marks of completion | find, write, clean, rename, mark | MongoDB, seeding of the events | interrupted between any two writes | no player lost or set back |
| Player decks (`services/playerDeckService.ts`) | none of its own (downloads) | card stats, power, bonuses, skills of a deck | downloads, events | fallbacks of stats, conditions of effects | the totals agree |
| Parsers and validation (`parsers/`) | none | chart counts, points, answers of the game | pipeline, songs, points | packed counts; answers of another request | counts are those of the chart; foreign answers refused |
| Routes, configuration, logging | none | parameter checks | services | | |
| Frontend polling (`frontend/src/composables/usePointsPolling.ts`) | tracks, timers, requests | poll, change filters, pause | API | late answers, overlapping timers | one history of one query |
| Frontend calculations (`frontend/src/features/`) | none | points, scores, plays for a target, tables, choice of the event | views, backend's counts | inverses of rounded formulas | what is found is right and complete |
| Frontend views (`frontend/src/views/`) | the form, its storage, the step, the result | edit, fetch a deck, analyse, switch pages | calculations | an analysis in a timer | the result belongs to the form |

The flow of a Top sample: `AlignedPoller` starts `refreshAll` at each slot; for every active ranking `refreshV2`
calls `capture`, which fetches the ranking, writes the observation to the outbox and returns. Independently a
single `drain` reads the outbox in the order of time, writes players' profiles, encodes the observation against
the state of its chain, inserts the event into MongoDB and only then advances the cached state and removes the
file.

## 2. Modules

| module | models | checked by | proved in |
|---|---|---|---|
| `TopHistoryCodec` | encode and apply, pure operators | through the two machines below | `TopHistoryStore_proofs` |
| `TopHistoryStore` | checkpoint, loadState, history, points, compatible, pure operators | `event_chain` | `TopHistoryStore_proofs` |
| `TopEventChain` | one chain with rich data, every sample atomic | `event_chain` | `TopEventChain_proofs` |
| `TopHistory` | poller, capture, outbox, drain, crashes and faults | `pipeline_*` | `TopHistory_proofs` |
| `ObservationLog` | abstract: an observation that is promised enters the log of its scope once, in the order of time | refinement in `pipeline_refines` | `TopHistory_proofs` |
| `RankingRefresh` | polling, throttle, V1 documents and borders of one ranking | `rankings` | `RankingRefresh_proofs` |
| `GarupaAvailability` | availability checks, recovery, version lookup, start-up of one server | `availability*` | `GarupaAvailability_proofs` |
| `CnSession` | queue, login, nonce chain and cooldown of the CN server | `cn_session` | `CnSession_proofs` |
| `Services` | composition of all the modules below | `services` | `Services_proofs`, `Calculations_proofs` |
| `MongoConnection` | heartbeats, recovery, waiters of the database | `services` | `Services_proofs` |
| `RankingInfo` | loading, polling, merging and persisting ranking information | `services` | `Services_proofs` |
| `DownloadCache` | one URL in memory and on the disk | `services` | `Services_proofs` |
| `SongSync` | list of songs, synchronisation of their levels in two files | `services` | `Services_proofs` |
| `PlayerMigration` | both migrations of the players, with the seeding beside them | `services` | `Services_proofs` |
| `PointsPolling` | the browser's polling of points | `services` | `Services_proofs` |
| `ScoreForm` | the form of both calculators, steps, timers, deck fetcher, storage | `services` | `Services_proofs` |
| `RankingFetch` | validation of a ranking answer and its repetition | `services` | `Calculations_proofs` |
| `EventChoice` | the present event as rankings, deck and page choose it | `services` | `Calculations_proofs` |
| `PlayerDeck` | power, event and skill bonuses of a deck | `services` | `Calculations_proofs` |
| `PointsTable` | tracks of points, their merge, the table of gains | `services` | `Calculations_proofs` |
| `ChartCounts`, `AutoScore` | notes under each skill, packed; scores of an auto live from them | `services` | `Calculations_proofs` |
| `EventPoints` | points of a score and the inverses | `services` | `Calculations_proofs` |
| `ScoreControl` | plays that reach a target | `services` | `Calculations_proofs` |
| `SongRows` | the rows both calculators show | `services` | `Calculations_proofs` |

`TopHistoryCodec` is extended by `TopHistoryStore`, and that by the two machines `TopEventChain` and `TopHistory`.
They share the data operators and split the work: `TopEventChain` has rankings that differ in one score, in order
and in size, and a sample is one step; `TopHistory` has every interleaving and fault, and rankings that hardly
differ. `ObservationLog` is instantiated by `TopHistory`: a file is pending from its acknowledgement, or from the
restart that finds it, until its event is stored, promised from its acknowledgement on, and the log is what the
stored events decode to. A restart may find a file that was renamed and not acknowledged, because its fsync was
still under way (`TopOutbox.init`, `storage/topOutbox.ts:15`, reads the directory and syncs nothing), and a later
crash of the machine may lose it again: hence the difference between pending and promised, and the step `Recount`. `GarupaAvailability` and `CnSession` share no state with
the pipeline: it sees them only as samples that take time and may fail. `RankingRefresh` leaves the Top sample of
V2 to `TopHistory` and has everything else the same pollers do.

`Services` puts together the components that share no variable with one another; what they do share in the program
(the database, the disk) each of them sees as writes that may fail and as restarts. Because the product of
independent state spaces shows nothing that the factors do not, a behaviour of `Services` follows one of them,
`focus`, with all the interleavings of its own tasks, and the others rest in an initial state; the invariants are
nevertheless stated of the whole. The counters `faults` and `restarts` are the followed component's. The
calculations are pure: each of them is evaluated for every value of `Inputs`, one initial state for each.
`SongRows` instantiates `AutoScore` and `EventPoints`, and `AutoScore` instantiates `ChartCounts`, so that the
rows are computed from counts packed by the backend's parser.

The `MC...` modules declare the model values and the small sets of data of the configurations.

Operators called `Faulty...` are deliberately wrong variants of the definition that follows them. They are used by
no specification; replacing the definition by its variant makes the property named for it in `PROJECT.json` fail,
which shows that the property constrains the code.

### State and actions against the code

The program runs on one thread, so a step of a model is what runs between two `await`s that wait for something
outside: a reply, a timer, the file system. `PROJECT.json` maps every definition to its lines; what follows is
what a reader of the code should know besides.

- **`TopHistory`.** `cap[s]` is the call of `capture` of scope `s` with its locals; `disk`, `synced` and
  `unlinked` are the outbox directory as the process sees it, the part of it an fsync has made durable, and the
  removals that are not; `files` is the map of `TopOutbox`. An observation stands for its file, its `id` for the
  hash the code makes of scope and slot (or of a random uuid). A machine crash keeps the durable entries, any of
  the others, and may bring back any removal that was not durable. `drain` is the consumer with its locals, so
  that nothing it computed before an `await` is refreshed by the model. Two limits of the outbox (files and bytes)
  are one, `MaxFiles`. `accepted` and `faults` are history variables.
- **`TopEventChain`.** `observed` is a history variable: what was sampled, against which the stored events are
  compared. Rankings are sequences of pairs (player, score).
- **`RankingRefresh`.** `docs` holds the documents as MongoDB does: one per bucket for the Top histories, one for
  each border. A persist function is a sequence of groups of documents: those of a group are written together and
  awaited by `Promise.all`, the next group waits for them. `jobs` are the persist calls under way (that of the
  poller and that of the throttled auxiliary task), `late` the writes of a failed group that nobody awaits any
  more, `entry` the throttled task's slot and busy flag. A sample is known by the number of the fetch that
  returned it. `overtaken` and the like are history variables: they name the documents a write landed in after its
  persist function had given up.
- **`GarupaAvailability`.** A call that was sent is answered either as the server was then or as it is now, so
  late answers occur. `version`, `lookup`, `rec` are the shared promises and maps of the service with one server;
  `count` stops counting at `Threshold + 1`, because the code only asks whether it equals or has passed the
  threshold. Apple's catalogue may return any version, an older one too. The 30-second health cache is a flag that
  may expire at any time.
- **`CnSession`.** The chain of promises is modelled by tickets: `tail` is the latest call, `released` the calls
  whose promise is resolved. The stages of a login are steps that may fail each for themselves. `issued` and
  `expected` are the server's side, known only from the way the client uses it: it accepts a request only with the
  nonce of its latest answer. Versions are part of a session as in the code; the base URL, the other part, is one
  and the same.
- **`MongoConnection`.** `recovery` is the `await` at which `waitForReady` is; that a recovery ends and that its
  promise is forgotten is one step, as in the code's `finally`. Heartbeats are the driver's, external: they come
  while a client is connected.
- **`RankingInfo`.** One event, all servers; what a server's list says of it is the number of the announcement.
  `find` is the query of the first load, its answer fixed when MongoDB gave it and merged when the program
  resumes.
- **`DownloadCache`.** A body is known by the time of its download. Body and meta file are renamed one after the
  other; readers, cleanup and restart come in between. `oldest` is the greatest age of anything given out as
  fresh.
- **`SongSync`.** `given` is the newest list given out so far; `sync` is the synchronisation with its locals;
  `torn` records that levels were lost between the two files, in a restart or to a chart that makes `performSync`
  reject (`ChartThrows`), or to a caller that was still reading the old ones.
- **`PlayerMigration`.** A profile is the number of the document it came from, so that "latest" can be said.
  `split` and `skipped` are history variables: the bootstrap was interrupted with some documents cleaned, and the
  rename was given up because the target existed.
- **`PointsPolling`, `ScoreForm`.** `client` and `page` are the refs of the components together with the requests
  and timers that belong to them; a request keeps what its closure captured. `typed` is what the user entered or
  fetched last. The two pages edit one stored form. When nothing is stored, the form of the auto page is the very
  object its defaults are in (`page.shared`): edits then change `page.defaults`, a reset brings them back, and
  `typed.restored` says that it did.
- **`EventPoints`.** The browser computes in doubles. A product or a quotient that is a whole number in exact arithmetic
  may come out just beside it, and rounding then goes one further; anything else is too far from the next whole number
  for that. Which whole numbers are missed is the constant `Rounded`, one set for each of the three places that round,
  so that every result of the code is one of the model's. The theorems hold whatever `Rounded` is; the run takes the
  entries that doubles really miss for its inputs.
- **`ScoreControl`.** The search and the page stop at `Limit` strategies. Which ones these are depends on the order in
  which the search finds them (`Position`) and on the ranking (`Rank`); both are keys, sequences of numbers that are
  compared from the left, and what is kept are the `Foremost`. The recursion and the stable sort of the code are not
  replayed.

## 3. Runs

| run | instance | distinct states | what it shows |
|---|---|---|---|
| `event_chain` | three rankings, chains of 3 events, 7 time units, hours of 4, end at 5 | 67 348 | the stored chain and the queries over it lose and repeat nothing |
| `pipeline_crashes` | 1 scope, interval 2, end at 9, outbox of 2, one crash, one database and one disk fault | 784 357 | delivery through crashes and faults |
| `pipeline_refines` | 2 scopes, interval 1, 3 time units, samples at start-up or failed, outbox of 2, two crashes, one database fault | 487 277 | the pipeline implements the log |
| `rankings` | event or month, with or without V2; end at 11, post-end polls every 2 for 3 units; 3 samples; one failed write or restart | 434 670 | documents in order, the final sample stored |
| `availability` | 2 callers, one of which waits; threshold 2; versions 0 to 2; one fault | 1 974 077 | a disabled server is being recovered |
| `availability_liveness` | the same with threshold 1 and a fallback version | 150 903 | it comes back, and calls end |
| `cn_session` | 3 callers, 2 versions, 4 calls, 1 restart, cooldown 2 of 3 time units | 127 786 | one call at a time, one chain of nonces |
| `services` | see below; one fault, one restart | 713 590 | what each service and calculation promises |
| `pipeline_bootstrap`, `pipeline_orphan`, `pipeline_boundary`, `availability_retry` | variants of the above | up to the counterexample | the findings of section 6 |

- **`event_chain`** checks that what is stored decodes to what was observed (`DecodedExactly`), that a restart
  rebuilds the very state the process had (`LoadedStateAgrees`), that a query over any window equals the slice of
  a full replay (`HistoryIsSlice`), that the points served to old clients end with the last correction
  (`PointsAreFinal`) and that the view merged with the V1 history keeps order and content (`MergedViewInOrder`).
  Three events suffice for a checkpoint, an increment and whatever breaks or continues the chain; seven time units
  hold two hours, the end and samples after it; the three rankings cover a changed score, a changed order, and an
  unchanged ranking.
- **`pipeline_crashes`** checks delivery: nothing acknowledged is lost (`AcceptedNotLost`), nothing is committed
  twice (`CommittedOnce`), a slot is used once (`SlotUsedOnce`), the cached state never diverges from the stored
  one (`CachedStateCurrent`), and skipped slots are named through all this (`MissedSlotsRecorded`). With one fault
  of each kind the combinations that matter occur: a lost reply followed by a crash before the file is removed, a
  failed fsync followed by a machine crash. Four slots begin before the end (2, 4, 6 and 8): two samples fill the
  outbox, the next is refused by it or missed while the process is down, and the one after has to name the slot that
  is missing. Failed samples are left to `pipeline_refines`, samples after the end to `event_chain`; the proofs cover
  all of them together.
- **`pipeline_refines`** checks that the pipeline with two scopes implements `ObservationLog` (its safety; the
  abstract specification states no fairness), that the queue is never older than what is committed
  (`QueueNeverOutOfOrder`), and that accepted observations are committed in the end
  (`AcceptedEventuallyCommitted`). Two crashes let a first restart find a file that was not acknowledged and a
  second one lose it. Without disk faults; with them `QueueNeverOutOfOrder` fails (`pipeline_orphan`), and the file
  that comes back is refused by the encoder for ever.
- **`rankings`** checks that the entries of every document stay in the order of time and none is later than the
  end (`DocumentsInOrder`), that readers find exactly one entry at the end in every history once a refresh after
  the end has been written, its own or a later one (`FinalSampleStored`), and that no refresh, failed or not,
  blocks the next ones (`RefreshEnds`). From one unit before the end to the end of the post-end window every pair
  of refreshes can overlap: one of before the end still writing or being repeated, one of after it replacing;
  three samples are one of before and two of after.
- **`availability`** checks that a disabled server is always being recovered (`DisabledIsRecovering`) and that
  nobody waits for a promise that was dropped (`NobodyWaitsForNothing`). Two callers and a threshold of two
  produce every order of two failing checks, a recovery that ends between them and an answer that arrives late.
  This run and `availability_liveness` check for deadlock as well.
- **`availability_liveness`** checks that a server which accepts the recovery's polls does not stay disabled, and
  that V2 calls end whatever the server does while the others end once it is back.
- **`cn_session`** checks order, nonces and that every call ends. Three callers are one inside and two queued;
  four calls let a caller come back after a failure while others wait.
- **`services`** checks, by component:
  - the database: `DownIsRecovering`, `ReadyReturns` (two waiters, two outages: one may come while the other's
    recovery ends);
  - information: `CacheKeepsKnown` (two servers that merge into one document, two announcements each, a reader, a
    failed write, a restart);
  - downloads: `FreshIsFresh` (two callers, three instants, a restart: a body that expires while it is read,
    replaced or removed);
  - songs: `ListNeverGoesBack`, `LevelsFollowSourceUnlessTorn` (two lists in which one song changes and one
    disappears; a chart may be fetched, fail, or make the synchronisation reject);
  - migration: `PlayersAreKept` (two players in any of two documents, any old collection, a restart);
  - polling: `TracksAreOneHistoryUnlessDisturbed`, `PollingGoesOn` (two queries, two samples, four requests:
    enough for an answer that two later requests have overtaken);
  - form: `ShownIsCurrent` (two timers and two fetches at once; both pages, the auto page with and without stored
    data): the form is what was entered last, however often the page is changed, except for the power that a reset
    brings back, and what is shown was computed from it;
  - the game's answers: `OnlyOwnRanking` for every pair of answers of every kind on two servers;
  - the present event: `ChoicesAgree` for two consecutive events, each known to each source in part, completely or
    not at all, at the boundaries;
  - the deck: `DeckIsTotalled`; the table: `TableTellsHistory` for every history of four rankings over three
    players; points: `TargetsAreInverted` for six types of event, targets at the boundaries of the formulas
    and such that doubles miss (131 by the bonus 31, 115 by the bonus 15): what is found gives the target, and what
    is not found does not, but for those the roundings miss; scores: `ScoresArePlayed` for charts whose notes lie
    where skills begin, end and queue; plays: `PlaysReachTarget`, with `MaxAlternatives = 2` so that some targets have
    fewer strategies than the limit and others more: what is listed reaches the target, it is everything unless the
    limit is reached, and the limit leaves out longer strategies first unless a song is preferred.

  The properties whose name ends in `Unless...`, and `PlayersAreKept`, except behaviours that the comments of the
  modules name: in these the code does lose something (section 6).

`CHECK_DEADLOCK FALSE` stands in the runs in which the clock (`MaxTime`), the number of calls or requests or the
length of the chain is bounded, and in `services`, where a calculation has no steps: at the bound nothing is left
to do, and the real program would go on.

### Fairness

- `TopHistory`: the drain timer fires for ever and each step of a drain ends; a capture that has begun its enqueue
  ends, and so does the start-up, which `index.ts` awaits with `allSettled`. The clock, the game and the faults
  are under no assumption; the faults are bounded, so a drain is not failed for ever.
- `RankingRefresh`: MongoDB answers every write (the driver fails it otherwise), the connection comes back after a
  failure (`MongoConnection` shows the program's part of this), and the timer of a repetition fires. The pollers
  are under no assumption.
- `MongoConnection`: an unreachable server comes back, the driver notices an outage by a failed heartbeat, every
  `await` of the recovery ends, and a resolved promise releases its waiters. Whether anybody asks for the database
  is open.
- `GarupaAvailability`: requests are answered or time out (`storage/downloader.ts:65` sets a timeout for all of
  them), released continuations run. A poll of the recovery is assumed to be answered with success only while the
  server accepts the version it polls with. That is a hypothesis of the property rather than a fact: the version
  is read once, before the polling starts, and if the game has moved on since, the server stays disabled.
- `CnSession`: requests are answered or time out (line 194 for the login, the downloader's timeout for the data),
  and a resolved promise lets the next call go on. Nobody need call and the clock need not move.

## 4. Proofs

All theorems hold for every value of the constants under the named assumptions of the modules, which say only that
intervals, capacities and bounds are natural numbers of the right sign, that rankings are rankings
(`ChainAssumption`, `PipelineAssumption`), that the V1 points are in the order of time, and for `Services` that
the catalogue is a sequence of lists, a time to live and the number of samples are positive, a team or a target is a
number, a skill lasts at most eight seconds and a team has at least one (`SkillsAssumption`), and the inputs of the
calculations are of their kind (`InputsAssumption`): numbers are not negative; a history is a sequence of rankings; the
events of a schedule follow each other in the order of their ids; a main deck has five members, and a card is the same
in two downloads of the list; a chart has one trigger for each skill, or `buildCounts` throws, its counts at the two frame rates
differ by less than the 8 that three bits hold, a skill that had to queue is over when the next one starts, as
`computeOverlaps` looks at two triggers at a time, and the leader's skill at the end need not queue (`Scorable` in
`AutoScore`); every play gives a point, and no strategy is asked to contain a band, as the code then drops those that do
not; a row is of a chart that can be scored and of an event with a bonus, and no power is preferred from 500 000 on (the
default is 450 000), which the halvings return when no power reaches a score. Products with a multiplier of whole
hundreds are exact in doubles, and so are quotients by one (`RoundedAssumption`); nothing else is assumed of the rounding. A row's power must also be fine enough to aim with (`PowerIsFine` in `SongRows`): what one point
of power adds to the score, with the rounding of every note, is half a step of the points at most, 7500. A chart of 700
notes under skills that double the score of half of them is at a quarter of that. Windows need `MaxPlays` of three or
more (`PlaysAssumption`); the code has five, and 100 `MaxAlternatives`. The bounds are themselves constants: what is proved for every
`MaxCrashes` or `MaxTime` holds for any number of crashes and for all times. Two kinds of theorem assume more, and say so in their statement:

- `~Bootstraps`, in `CacheIsCurrent` and `MissedSlotsAreRecorded`: no ranking is sampled at start-up. Such a
  sample has no slot, so a state that is reloaded from a checkpoint it made knows less of the plan than the state
  before; this is the finding `pipeline_bootstrap`. The other parts of the cached state agree in any case
  (`SameData` in `CacheInv`).
- `MaxDiskFaults = 0`, in `QueueInOrder` and `PipelineImplementsLog`: a directory fsync that fails leaves a file
  the process does not know of, and a restart finds it when it is too old (`pipeline_orphan`).
  `QueueInOrderUntilDiskFault` says it without the assumption, up to the first such fault.

The library's induction theorems have an operator as a parameter, which the provers here cannot instantiate. The
least element of a set of numbers (`WFMin`) serves instead: `SetInduction` in `TopHistoryStore_proofs` and
`AllNaturals` in `Calculations_proofs` say it of a set, and with it what the recursive functions of the store compute
is proved for chains of any length, and what the calculations sum for sets of any size.

**`TopHistoryStore_proofs`** is about the operators.

- `EncodedDecodes`: whatever the state, an event the encoder produces is accepted by the decoder and decodes to
  what was observed; `SkippedSlotsWereNotSampled`: the slots it names lie strictly between the last planned slot
  and its own. Encoder and decoder are case distinctions on the kind of the event; each kind is a lemma.
- `LoadStateReplays`: what `loadState` makes of the latest checkpoint and its tail is what a replay of the whole
  chain makes: the rankings and times always, the plan as well when every checkpoint but the first event says where
  the plan goes on (`Anchored`). A `FULL` event needs no state (`FullNeedsNoState`), and the rest follows by
  induction along the tail.
- Lemmas for the queries: a chain in the order of time is its own sorted answer (`ByTimeInOrder`); a replay that
  begins at a `FULL` event, or where nothing was known, shows what the whole replay shows (`LaterReplay`,
  `NothingBeforeFull`); a snapshot that is added to the points replaces what is not older and leaves the rest
  (`AddPointIs`).

**`TopEventChain_proofs`** proves all five invariants of `event_chain`. `ChainInv` says that the events are ordered,
that the n-th event was recorded from the n-th sample and decodes to it, and that the state is the replay of the
chain. From it follow `ChainDecodesExactly`, `RestartLosesNothing`, `EveryRangeIsExact` (the events before a range
and those up to its end are beginnings of the chain, `Beginning`, so the range is an interval of positions
wherever the checkpoint stands), `CompatiblePointsAreFinal` (by induction over the samples: the points tell of
those so far) and `MergedViewLosesNothing`.

**`TopHistory_proofs`**: `AcceptedIsNeverLost`, `CommittedAtMostOnce`, `SlotsAreUsedOnce`, `TypeCorrect`. `IInv` says
what the consumer knows at each of its steps: from `find` on its observation is in `files`, at `insert` it is not
committed yet, at `ack` it is; and what a capture carries, in particular that the observation of a capture waiting
for its fsync is on disk or committed already. `SlotInv` compares the slots of captures with everything that exists
anywhere (`Seen`): a capture's planned slot is below `nextAt` and above every slot seen of its scope, which
restarts preserve because a slot is never after the clock.

The refinement goes on in layers, each inductive relative to those before:

- `SampleInv`: what an observation holds and that what is inserted was encoded from it;
- `TimeInv`: the times of everything seen of a scope are distinct, a sample under way is younger than all of them,
  and the consumer took the oldest file;
- `CacheInv`: the cached state of a scope is the replay of its committed events, or the oldest file of the scope is
  committed already. The second case is a lost reply: the state is behind, but then the consumer finds the event
  by its id and reloads, so it never encodes with such a state. Hence `CacheIsCurrent`;
- `QueueInv`: without a disk fault no file, in memory or on disk, is older than what its scope has committed.
  Hence `QueueInOrder`;
- `LogInv`, all of these, gives the refinement: `PipelineImplementsLog` maps the initial state and every step. An
  insert is `Commit`, the end of an enqueue `Accept`, a restart `Recount`, everything else stutters; that an insert
  leaves the log of the other observations alone needs that events decode as before when one is appended;
- `PlanInv`: each event names what is missing between the plan of the event before and its own, hence
  `MissedSlotsAreRecorded`.

**`RankingRefresh_proofs`**: `OrderOfDocuments` and `FinalSample`. Neither property is inductive; `IInv` adds

- `WorkInv`: one job at most is writing, and it is the bootstrap's, the poller's or the auxiliary task's as the
  state of the poller and the busy flag say;
- `OrderInv`: the entries of an undisturbed document are ordered, none is of the future, and none is later than
  what the job under way writes; `BucketInv`: every entry is in the document of its time;
- `ReplaceInv`: a job that replaces has exactly one entry of its sample at the end of every document that is not
  among those it has still to write (`Left`: the pending ones of its group, those of the later groups and units);
- `FinalInv`: once such a job has ended, only replacing jobs start, and every document has an entry at the end.

A step is a job that goes on, a job that starts, a late write that lands, a restart, or a step that writes nothing;
there is one lemma for each, and the actions are sorted into them.

**`GarupaAvailability_proofs`**: both safety properties of the run, and two that are proved only: flag, counter and
status page agree (`DisabledServersAreShown`), and no task asks a server disabled at that moment
(`DisabledServersAreNotAsked`). "Disabled implies recovering" is not inductive, because a recovery rejects when no
client version is known. The strengthening says that the recovery of a disabled server is loud: started without a
handler, its rejection ends the process, and the restart forgets the disabled flag. `TypeCorrect` adds that no call
executes its action more than twice: the count of a call depends on its `pc`, and nothing leads back from the second
check to the first action.

**`CnSession_proofs`**: order and nonces; proved only: the session kept between calls carries the expected nonce
(`SessionsAreUsable`), nothing is sent during the cooldown (`CooldownIsRespected`). The resolved promises are an
initial segment of the tickets, the calls that have not ended have distinct tickets outside it, and those inside
follow directly after it: hence there is one. With nobody else inside, every step that moves the server's nonce on
either moves the session's with it or discards the session, since nobody is inside before the cooldown has passed
and a failure is therefore never ignored. `TypeCorrect` bounds what the chain counts: a login retries the key at most
three times, and no call takes more than two nonces: at most two were issued for each ticket released so far, and one
more for a call that is waiting for its data.

**`Services_proofs`**: the invariant of each service over every step of `Services`. A step of one leaves the others'
variables alone, except for the shared counters, which every invariant only bounds, and the number of samples taken,
which polling and its server share.

- Information (`InformationIsKept`): once it is loaded, neither what a refresh has completed nor what one is about
  to write is newer than the cache; before that, what counts as learnt is stored, and so it is in the answer the
  first load gets.
- Downloads (`FreshStaysFresh`, and proved only `DownloadsAreShared`): "fresh" is read from the meta file, so
  `CacheInv` relates the ages of everything that carries one. A meta file is never newer than the body beside it,
  because the body is renamed first and the files of one download are renamed by nobody else; a reader that has
  read a meta file finds a body at least as new, or none.
- Songs (`ListsGoForward`, `LevelsFollowTheirList`): the lists are known in an order (given out, in memory, in the
  file, just fetched, published). Levels are good when they follow the list whose hash is kept with them; unless
  torn, all that are kept, in memory, in the file, with a caller that reads them or in a synchronisation about to
  write them, are good, and those in memory are of the list in `songs.json` except while a synchronisation stands
  between its two writes. A synchronisation that rejects there tears them, with or without a restart.
- Migration (`PlayersStay`): while the bootstrap writes, `pending` are the players it has read and not yet written,
  everyone else it read is in the new collection with a profile at least as new; only in the cleaning of the
  documents may a document be gone whose players are written, and the mark is set when no document is left.
- Polling (`TracksAreOneHistory`, `ThePollingGoesOn`): the requests are numbered and only the answer to the latest
  counts. That one asks for the query of the page, from the first sample or from the last one that is shown.
- Form (`ShownIsTheForms`): what is stored is the form, a result was computed from it, and a timer that is pending
  finds the form it was set for, because the form can only be edited where the step that set the timer is left. A form
  whose power is not what was entered is one that a reset brought back, and `typed.restored` is that power.
- The database (`DownDatabaseIsRecovering`) is inductive as it stands.

**`Calculations_proofs`**: the calculations are functions of `input`, which is chosen once and stays (`InputIsGiven`).
Each theorem holds for every input that `InputsAssumption` describes, not only for the ones of the run.

- `NoOtherRankingIsTaken`: the first answer is taken, the second is, or neither; a valid answer of another ranking
  has no borders or one of the two is a story event, and an answer of the ranking itself is valid.
- `TheRunningEventIsChosen`: every list that is read tells nothing of an event or what the schedule has, and the
  merge of two such lists is one. Events follow each other in the order of their ids, so that of those a list knows
  only one contains the time; one that is counted a day early has a greater id.
- `EveryTargetIsInverted`: `CeilDiv(x, y)` is the least factor of `y` that reaches `x`. A score lies on some step of
  the divisor, and its points are below, at or above the target as the value of its step is below `MinA`, between, or
  above `MaxA`; the bonus never lessens a value, so that no two values are worth the same. Rounding may move a bound
  only at a whole number of points: where the product and the quotient agree about it, the step is still on the right
  side (`RoundingsAgree`); where they do not, it is `Doubtful` and excepted. A bonus `k` is read the same way from
  `MinBonus` and `MaxBonus`, and its range goes from its least to its greatest step; since the code confirms each
  bonus with the points it gives, what is found is right whatever the rounding (`BonusIsConfirmed`), and the
  completeness, for targets up to the number of steps the search takes, excepts what a rounding misses.
- `TheTableTellsTheRankings`: all tracks of an answer have the times that were asked; the last one of the first answer
  is the greatest of them, an older one a complete answer has was already sampled, since a longer history begins its
  window later, and who has no track at a time was not in that ranking. The gains of a column are the differences of
  neighbouring times and telescope: by induction over the number of times, the last one taken away
  (`GainsTelescope`).
- `TheDeckIsTotalled`: the page's order is a permutation of the deck, so that both sum the same terms; power and
  points are sums of the members' and of their dimensions', and the sum of a combination is the combination of the
  sums (`SumLinear`); the bonus of a skill counts the members its condition names, as a sum of ones.
- `TheScoresArePlayed`, in three parts. A count is decoded to the notes of its window at either frame rate, as long
  as the difference has three bits; where no skill can queue, two triggers leave room for the longest
  (`CountsAreDecoded`). No skill starts before the one ahead of it has ended, so that no note is boosted twice and the
  notes in all are those of the skills and the others (`CountsCoverTheBoosted`); the sum of the skills' scores is then
  that of the chart played frame by frame (`ScoresArePlayedOut`). A skill's score is its weight but for less than a
  point a note, and the leader's notes are the same in every order: of two orders the heavier scores no less but for
  that rounding (`ScoresFollowWeights`), there are finitely many, and the code takes the heaviest and the lightest.

- `ThePlaysReachTheTarget`, in four parts.
  - What is listed is a solution. Conversely the plays of a solution can be put in the order of the listing: their
    multipliers do not shrink, the points of equal ones do not grow, and the best of the greatest multiplier is last
    (`OrderIsListed`, `SolutionIsListed`); neither sum nor bag depends on the order (`SumReordered`, `BagIs`). The range
    and the divisor, by which combinations are left out, are necessary for a solution (`SolutionsAreInRange`,
    `GcdDivides`), so that before any cut the bags of both are the same. The cuts: the keys of position and of rank are
    strict orders, so that what comes before a strategy that is kept is kept, and one is left out only if `Limit`
    others come before it (`ForemostIs`, for the search of n plays `SearchOfNIs`, for the ranking `RankIs`); more plays
    are left untried only at the limit (`SearchIs`). So fewer strategies than the limit are all of them, and at the limit
    what is left out has no fewer plays than what is listed, as without a preferred song the number of plays ranks first
    (`CompleteStrategies`).
  - What n plays reach is what some number of plays up to n adds up to (`TotalsAreReached`, by induction over n), so a
    target in a window has a solution, and one beside it has none as the windows are whole runs (`ReachableWindows`).
  - Each halving keeps a power that reaches the score at the upper end and one that does not below the lower one, and
    at most half of the powers between them (`HalvingKeeps`); 500 000 of them are one after 32 (`HalvingsEnd`). That the
    score grows with the power is not needed. The power found scores at least the middle of a bonus's scores and the
    one below it does not; a score is the base times the weight of its notes but for their rounding
    (`ScoreIsBaseTimesWeight`), so that one point of power adds 7500 at most (`ScoreMovesByHalfAStep`) and stays in the
    scores of the bonus, which are 15 000 at least (`BonusRanges`, `RecommendedPowersReach`).
  - Under `PowerIsFine` a chart has fewer notes than the divisor, so that the rounding of all of them moves the points by
    one step at most (`PointsMoveByAStep`, `RowsHoldOrders`).

What all of these share are sums. `MapThenSumSet` of the community modules takes an element away at each step, by a
recursion that a `CHOOSE` picks: that it exists, that its value depends only on the terms (`SumsAreEqual`) and not on
the element that is taken first (`SumWithout`), is by induction over the size of the set (`AllSubsets`).

Only model-checked:

- all liveness (`AcceptedEventuallyCommitted`, `RefreshEnds`, the recovery of a server, the end of every call,
  `ReadyReturns`): fairness and `ENABLED` are out of the prover's reach.

## 5. What is left out

- In the modelled parts:
  - the players' profiles written by the drain, its yield after 500 events, the bytes of the outbox; the clock of
    `TopHistory` does not step back;
  - the content of the players' documents in `RankingRefresh`: they are a member of the groups that are written,
    and what they hold is nowhere compared;
  - several servers started one after the other, the timer that runs the health pollers, the status page's task
    observations with their expiry; encryption, headers and URLs of the game client;
  - which entries the download cache evicts (it may evict any), requests without cache, the single-file format of
    older versions; the raw charts on the disk and what Bestdori supplements to a song; the count of charts, which
    is only logged;
  - the rounding of floating point in powers and scores: the models compute with whole numbers, scaled where the
    code has fractions; for event points it is modelled by `Rounded`;
  - the filters and the sorting of the calculators' forms; the auto page's `filterOptions` are their defaults in the
    same way as its form, and are left out likewise;
  - the countdown of the next refresh, stored preferences, sorting and filters of rows, charts and templates of
    the frontend.
- Not modelled: `storage/cache.ts` (imported by nobody); `hourlyMath.ts` (the gains of `PointsTable` cut by the
  hour); `migrations/timestamp-to-time.ts` (one update per collection, atomic for each document and idempotent);
  what turns protobuf messages into records; configuration and logging; the routes but for what they read.

## 6. Findings

Each is a run that ends in a counterexample to a statement of the repository.

1. `pipeline_orphan` (`storage/topOutbox.ts:59`): a directory fsync that fails after the rename leaves a file
   nobody knows of. The next restart loads it; by then it is older than what its scope has committed, the encoder
   throws, and as the head of the queue it holds up every scope.
2. `pipeline_bootstrap` (`services/monthlyRankingService.ts:223`): a monthly scope whose samples are still queued
   is sampled again at start-up, without a slot; the slots missed while the process was down are then never
   recorded.
3. `pipeline_boundary` (`services/eventRankingService.ts:348`): a planned sample started at the boundary uses the
   post-end interval, and the slots missed before it are not recorded.
4. `availability_retry` (`services/garupaService.ts:212`): after an HTTP 426 and a successful version lookup the
   action is not repeated, although the comment says so; it is repeated only when the server became unavailable.

What modelling the rest showed besides, and the properties of section 3 except. Most of it contradicts no
statement of the repository and has no run:

- Rankings: an append whose reply is lost is repeated and stands twice in its document until a replacement removes
  the entries at the end. The seeding of the events asks whether there is a top history: a crash between its first
  document and the borders leaves the borders unseeded for ever, and with V2, whose first sample may not be
  committed yet, it replaces border documents that exist.
- Songs: a restart between the write of `songs.json` and that of `songMetadata.json`
  (`services/songMetadataService.ts:285`) loses the analysis of a changed song until it changes again; a chart
  whose fetch failed waits for the next change as well. A chart without six skill triggers makes `buildCounts` throw
  (`parsers/BestdoriChartParser.ts:115`), and `buildLevelSummary` is called outside the `try` that catches a failed
  fetch (`services/songMetadataService.ts:421`): the synchronisation rejects after `songs.json` was replaced, and
  the next one, without any restart, finds no song changed and stores the old levels under the new hash.
- Information: an older merged document of one server's refresh may reach MongoDB after a newer one of another's
  (`services/infoServiceBase.ts:246`); what is stored then misses something until the next refresh. A first load
  that overlaps another may set a cache back. The comment at line 63 says that existing values take priority; what
  is merged is the new one.
- Migration: the rename is given up for good when `ranking_players` exists already, and both the legacy migration
  and the seeding of the events, started beside it by `index.ts`, create it: the players of the old collection are
  not seen any more. An interrupted cleaning is followed by a second run that reads only the documents that are
  left and puts their profiles over newer ones, although the comment at `services/monthlyRankingService.ts:134`
  says that later ones win.
- Answers of the game: an answer whose borders are empty, or one to a request for a story event, cannot be told
  from that of another ranking and is accepted (`parsers/GarupaResponseValidator.ts`); when the repetition fails,
  the first answer is the one that is kept.
- Polling: an answer that arrives while the polling is disabled, or polling from the present after an empty first
  answer, leaves tracks with a gap or of another query; incremental polling keeps the rows that a full answer,
  sampled by the interval, would drop.
- Calculators: an arrow key pressed while the analysis runs can leave the index of the alternative out of range; a
  deck fetched by Enter while another is loading is overwritten by the older answer if it comes last; the filter
  "contains" may leave no strategy where the code then reads the first (`interactiveAnalysis.ts:551`). The search
  stops at 101 strategies (`interactiveAnalysis.ts:434`, 493 and 547), so that with many songs the list is not
  complete, and the song that is preferred ranks only what was found; its pruning lets some bags through in two
  orders (points 5, 3, 4 and 4, 3, 5 of equal multipliers), and both count. The points
  with fixed scores are computed at 120 frames, the rows at the frames of the form; a score no power reaches gives
  the upper end of the halvings, 500 000; the leader's sixth skill is not looked at for overlaps when the order of
  the skills is chosen.
- Auto page: with nothing stored its form is a proxy of `defaultFormData` itself (`frontend/src/views/AutoView.vue:139`),
  so that what is edited becomes the default, and the reset (line 353) brings it back, although its comment (line 351)
  says that it resets all settings.
- Points: `Math.ceil` of a quotient and `Math.floor` of a product in doubles may go one too far at a whole number
  (`features/PT/calcSinglePT.ts:123`, 320 and 325). Of the value 100 and the target 131, (1.31 - 1) * 100 is
  31.000000000000004 and the bonus 31 is dropped, although the comment at line 266 says all feasible ones are
  found. With a bonus of 15 %, the value 240 is worth 276 points, but 276 / 1.15 rounds up to 241 and the target 276 is
  refused; the value 180 is worth 206 points, but is in the range found for 207. Of the steps only 100 000 are searched.

## 7. Plan

Done: the Top pipeline, availability, the CN session, V1 rankings, the services around them and the calculations;
theorems about every safety property of the pipeline, the chain of events, the rankings and the stateful services,
and about all calculations.
What is left, in this order:

1. `TopHistory`: a clock that steps back, profiles in the drain; several servers one after the other in
   `GarupaAvailability`.
2. `RankingRefresh`: the documents of players, with the writers of `PlayerMigration`.
3. `SongSync`: the raw charts on the disk, Bestdori's supplements; `DownloadCache`: two URLs and the limits of the
   memory.
4. `TopHistoryStore`: the user collection and its queries.
