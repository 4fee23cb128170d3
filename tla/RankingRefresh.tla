--------------------------- MODULE RankingRefresh ---------------------------
(***************************************************************************)
(* services/eventRankingService.ts and monthlyRankingService.ts: one       *)
(* ranking of one server is refreshed by a poller and written to MongoDB.  *)
(* While it runs, samples are appended; after its end the final sample     *)
(* replaces the entries at its end.  Without Top history V2 the poller     *)
(* itself writes and retries; with it the poller captures the top list     *)
(* elsewhere (module TopHistory) and an auxiliary task writes the borders  *)
(* (services/throttledTask.ts).                                            *)
(*                                                                         *)
(* A persist function is a unit: a sequence of groups of documents, the    *)
(* writes of a group are issued together and awaited by Promise.all.  A    *)
(* sample is the number of the fetch that returned it.  The comparison and *)
(* the update of a replacement are one step: the update filters again.     *)
(***************************************************************************)
EXTENDS Integers, Sequences

CONSTANTS
  StartAt,           \* the first instant of the model; the ranking is running
  EndAt,             \* endAt of the ranking
  PostEndInterval,   \* *_POST_END_POLL_INTERVAL_MS
  PostEndMax,        \* *_POST_END_MAX_DURATION_MS
  TopInterval,       \* *_TOP_POLL_INTERVAL_MS
  BorderInterval,    \* BORDER_PERSIST_INTERVAL_MS
  BucketSpan,        \* days of a bucket of the top list
  MaxTime,           \* bound: the clock
  MaxSamples,        \* bound: fetches that answer
  MaxMishaps         \* bound: writes that fail and restarts of the process

\* The model starts while the ranking is running.
ASSUME IntervalsAssumption ==
  /\ StartAt \in Nat /\ EndAt \in Nat /\ StartAt <= EndAt
  /\ PostEndInterval \in Nat \ {0} /\ TopInterval \in Nat \ {0}
  /\ BorderInterval \in Nat \ {0} /\ BucketSpan \in Nat \ {0} /\ PostEndMax \in Nat

VARIABLES
  now,
  ranking,      \* [kind, v2]: which of the two services, TOP_HISTORY_V2_ENABLED
  docs,         \* MongoDB: the entries of each document
  poll,         \* the poller's callback: "boot", "idle", "append" or "replace" (fetching), "persist"
  jobs,         \* persist work under way
  late,         \* writes nobody awaits any more that MongoDB may still apply
  lastPostEnd,  \* postEndLastFetch
  entry,        \* auxiliaryWrites: the entry of this ranking
  online,       \* database.ready() resolves
  samples,      \* fetches answered so far
  final,        \* history: the samples a completed post-end refresh may have left
  overtaken,    \* history: documents that got a late write
  mishaps

vars == <<now, ranking, docs, poll, jobs, late, lastPostEnd, entry, online, samples,
          final, overtaken, mishaps>>

Never == -1
Borders == {"border20", "border100"}
Histories == {"top", "musicTop", "musicBorder"} \union Borders

-----------------------------------------------------------------------------
\* The units of each persist function.
EventTopUnit == <<{"top"}, {"players"}>>
EventBorderUnit == <<Borders>>
MusicTopUnit == <<{"musicTop"}, {"players"}>>
MusicBorderUnit == <<{"musicBorder"}>>
MonthlyTopUnit == <<{"top"}, {"players"}>>
MonthlyBorderUnit == <<Borders>>
EventTopReplaceUnit == <<{"top"}>>
EventBorderReplaceUnit == <<{"border20"}, {"border100"}>>
MusicTopReplaceUnit == <<{"musicTop"}>>
MusicBorderReplaceUnit == <<{"musicBorder"}>>
MonthlyTopReplaceUnit == <<{"top"}>>
MonthlyBorderReplaceUnit == <<{"border20"}, {"border100"}>>

\* refreshServer: everything is written, the music rankings last.
EventAppendUnits == <<EventTopUnit, EventBorderUnit, MusicTopUnit, MusicBorderUnit>>
MonthlyAppendUnits == <<MonthlyTopUnit, MonthlyBorderUnit>>

\* refreshServerPostEnd
EventReplaceUnits ==
  <<EventTopReplaceUnit, EventBorderReplaceUnit, MusicTopReplaceUnit, MusicBorderReplaceUnit>>
MonthlyReplaceUnits == <<MonthlyTopReplaceUnit, MonthlyBorderReplaceUnit>>

AppendUnits(kind) == IF kind = "event" THEN EventAppendUnits ELSE MonthlyAppendUnits
ReplaceUnits(kind) == IF kind = "event" THEN EventReplaceUnits ELSE MonthlyReplaceUnits

\* bootstrapFromBestdori: a unit that fails is skipped.
SeedUnits == <<EventTopUnit, <<{"border20"}>>, <<{"border100"}>>>>

\* refreshV2 leaves the top list to the history.
Units(r, style) ==
  IF style = "seed" THEN SeedUnits
  ELSE LET all == IF style = "append" THEN AppendUnits(r.kind) ELSE ReplaceUnits(r.kind)
       IN  IF r.v2 THEN Tail(all) ELSE all

\* The document a write goes to: the top lists have one per bucket of days.
Bucket(t) == t \div BucketSpan
DocOf(name, t) == <<name, IF name \in {"top", "musicTop"} THEN Bucket(t) ELSE 0>>
Docs == {DocOf(name, t) : name \in Histories, t \in StartAt..EndAt}

\* Faulty variant: what was there at the end stays.
FaultyReplaced(entries, e) == Append(entries, e)

\* replaceEntriesInBucket: what was there at this time goes, unless nothing changes.
Without(entries, t) ==
  LET kept[n \in 0 .. Len(entries)] ==
        IF n = 0 THEN <<>>
        ELSE IF entries[n].time = t THEN kept[n - 1] ELSE Append(kept[n - 1], entries[n])
  IN  kept
Replaced(entries, e) == Append(Without(entries, e.time)[Len(entries)], e)

\* What a write of style does to a document that holds entries.
Written(style, entries, e) ==
  CASE style = "seed" -> <<e>>
    [] style = "append" -> Append(entries, e)
    [] style = "replace" -> Replaced(entries, e)

\* The profiles of the players are replaced one by one and are not followed here.
Stored(style, name, e) ==
  IF name = "players" THEN docs
  ELSE [docs EXCEPT ![DocOf(name, e.time)] = Written(style, @, e)]

\* buildTopSnapshot and queryBorderPoints: where a reader finds the entries of a history, which
\* gets them all, in the order of time.
Places(name) == UNION {{d} \X DOMAIN docs[d] : d \in {d \in Docs : d[1] = name}}
Entry(place) == docs[place[1]][place[2]]

-----------------------------------------------------------------------------
Idle == [pc |-> "idle", style |-> "append", e |-> [time |-> 0, sample |-> 0],
         unit |-> 0, group |-> 0, pending |-> {}]
Work(style, t, n) ==
  [pc |-> "writing", style |-> style, e |-> [time |-> t, sample |-> n],
   unit |-> 1, group |-> 1, pending |-> Units(ranking, style)[1][1]]
Free == {j \in DOMAIN jobs : jobs[j].pc = "idle"}
Started(work) == jobs' = [jobs EXCEPT ![CHOOSE j \in Free : \A k \in Free : j <= k] = work]

\* The next group of the unit, else the next unit, else nothing.
Advanced(job) ==
  LET units == Units(ranking, job.style)
  IN  IF job.group < Len(units[job.unit])
        THEN [job EXCEPT !.group = @ + 1, !.pending = units[job.unit][job.group + 1]]
      ELSE IF job.unit < Len(units)
        THEN [job EXCEPT !.unit = @ + 1, !.group = 1, !.pending = units[job.unit + 1][1]]
      ELSE Idle

\* The job is over: the poller is free, or the auxiliary entry is.
PollAfter == IF ranking.v2 /\ poll # "boot" THEN poll ELSE "idle"
\* Faulty variant: a task that failed is not released.
FaultyEntryAfter(failed) ==
  IF ranking.v2 /\ ~failed THEN [slot |-> entry.slot, busy |-> FALSE] ELSE entry

EntryAfter(failed) ==
  IF ranking.v2 THEN [slot |-> IF failed THEN Never ELSE entry.slot, busy |-> FALSE] ELSE entry

Init ==
  /\ now = StartAt /\ ranking \in [kind : {"event", "monthly"}, v2 : BOOLEAN]
  /\ docs = [d \in Docs |-> <<>>] /\ poll = "boot" /\ jobs = [j \in 1..2 |-> Idle]
  /\ late = {} /\ lastPostEnd = Never /\ entry = [slot |-> Never, busy |-> FALSE]
  /\ online = TRUE /\ samples = 0 /\ final = {} /\ overtaken = {} /\ mishaps = 0

-----------------------------------------------------------------------------
Active == now <= EndAt
Empty(name) == Places(name) = {}

\* refreshV2 replaces from the end on, the poller of V1 only what refreshPostEndIfNeeded found.
RefreshStyle == IF ranking.v2 /\ now >= EndAt THEN "replace" ELSE "append"

\* bootstrap of the event rankings: seeds the documents of an event without data.  (With V2 the
\* top list is elsewhere; nothing of it need be committed yet when borders have been stored.)
Seed ==
  /\ poll = "boot" /\ Free = DOMAIN jobs
  /\ ranking.kind = "event" /\ Active /\ Empty("top")
  /\ Started(Work("seed", StartAt, 0)) /\ final' = {}
  /\ UNCHANGED <<now, ranking, docs, poll, late, lastPostEnd, entry, online, samples,
                 overtaken, mishaps>>

\* bootstrapCheck of the monthly rankings: one without data is refreshed like a running one, even
\* if it has ended.  (With V2 the data may be in the history of the top list.)
BootstrapCheck ==
  /\ poll = "boot" /\ ranking.kind = "monthly" /\ Empty("top") /\ samples < MaxSamples
  /\ poll' = RefreshStyle
  /\ UNCHANGED <<now, ranking, docs, jobs, late, lastPostEnd, entry, online, samples, final,
                 overtaken, mishaps>>

\* Nothing to seed, nothing at Bestdori, or the bootstrap is over: the poller is registered.
Registered ==
  /\ poll = "boot" /\ Free = DOMAIN jobs
  /\ poll' = "idle"
  /\ UNCHANGED <<now, ranking, docs, jobs, late, lastPostEnd, entry, online, samples, final,
                 overtaken, mishaps>>

\* AlignedPoller.tick: a slot is skipped while the callback runs.
PollerFree == poll = "idle"

\* refreshAll finds the ranking running.
RefreshServer ==
  /\ PollerFree /\ Active /\ samples < MaxSamples /\ poll' = RefreshStyle
  /\ UNCHANGED <<now, ranking, docs, jobs, late, lastPostEnd, entry, online, samples, final,
                 overtaken, mishaps>>

\* refreshPostEndIfNeeded
PostEndDue ==
  /\ EndAt < now /\ now <= EndAt + PostEndMax
  /\ lastPostEnd = Never \/ now - lastPostEnd >= PostEndInterval

RefreshPostEnd ==
  /\ PollerFree /\ PostEndDue /\ samples < MaxSamples
  /\ poll' = "replace" /\ lastPostEnd' = now
  /\ UNCHANGED <<now, ranking, docs, jobs, late, entry, online, samples, final, overtaken, mishaps>>

\* The game does not answer, the server is disabled or the event has no type.
FetchFails ==
  /\ poll \in {"append", "replace"} /\ poll' = "idle"
  /\ UNCHANGED <<now, ranking, docs, jobs, late, lastPostEnd, entry, online, samples, final,
                 overtaken, mishaps>>

\* Faulty variant: a sample that arrives late keeps its time.
FaultyTimestamp(style) == IF style = "replace" THEN EndAt ELSE now

\* The time of a sample that arrives now: never after the end.
Timestamp(style) == IF style = "replace" \/ now > EndAt THEN EndAt ELSE now

\* refreshServer and refreshServerPostEnd: the answer is written by the poller itself.
Persist ==
  /\ ~ranking.v2 /\ poll \in {"append", "replace"} /\ Free # {}
  /\ samples' = samples + 1 /\ Started(Work(poll, Timestamp(poll), samples + 1))
  /\ poll' = "persist"
  /\ UNCHANGED <<now, ranking, docs, late, lastPostEnd, entry, online, final, overtaken, mishaps>>

\* refreshV2 looks at the clock again: what arrives after the end replaces, still in a slot as
\* long as those the fetch began in.
StyleNow == IF now >= EndAt THEN "replace" ELSE poll
SlotLength ==
  IF StyleNow = "append" THEN BorderInterval
  ELSE IF poll = "replace" THEN PostEndInterval ELSE TopInterval

\* ThrottledTask.run: not while the last task runs nor twice in a slot.
Admitted(slot) == ~entry.busy /\ entry.slot # slot

PersistAside ==
  /\ ranking.v2 /\ poll \in {"append", "replace"} /\ samples' = samples + 1 /\ poll' = "idle"
  /\ LET slot == now \div SlotLength
     IN  IF Admitted(slot)
           THEN /\ Free # {} /\ Started(Work(StyleNow, Timestamp(StyleNow), samples + 1))
                /\ entry' = [slot |-> slot, busy |-> TRUE]
           ELSE UNCHANGED <<jobs, entry>>
  /\ UNCHANGED <<now, ranking, docs, late, lastPostEnd, online, final, overtaken, mishaps>>

\* The entries of more than 64 rankings: one that is not busy goes.
Evict ==
  /\ ranking.v2 /\ ~entry.busy /\ entry.slot # Never
  /\ entry' = [slot |-> Never, busy |-> FALSE]
  /\ UNCHANGED <<now, ranking, docs, poll, jobs, late, lastPostEnd, online, samples, final,
                 overtaken, mishaps>>

-----------------------------------------------------------------------------
\* What a post-end refresh that starts to write, or that ends, may have left.
FinalAfter(job, next) ==
  IF job.style # "replace" THEN final
  ELSE IF next = Idle THEN {job.e.sample}
  ELSE IF final = {} THEN {} ELSE final \union {job.e.sample}

\* MongoDB acknowledges a write.
Acknowledge(j) == \E name \in jobs[j].pending :
  LET job == [jobs[j] EXCEPT !.pending = @ \ {name}]
      next == IF job.pending = {} THEN Advanced(job) ELSE job
  IN  /\ online /\ jobs[j].pc = "writing"
      /\ docs' = Stored(job.style, name, job.e) /\ jobs' = [jobs EXCEPT ![j] = next]
      /\ final' = FinalAfter(job, next)
      /\ poll' = IF next = Idle THEN PollAfter ELSE poll
      /\ entry' = IF next = Idle /\ poll # "boot" THEN EntryAfter(FALSE) ELSE entry
      /\ UNCHANGED <<now, ranking, late, lastPostEnd, online, samples, overtaken, mishaps>>

\* What is left of a job one of whose writes failed: retryPersist waits for the database if
\* the connection closed; a seed goes on with its next unit; what else fails ends it.
Failed(job, closed) ==
  IF closed /\ ~ranking.v2 /\ job.style # "seed" THEN [job EXCEPT !.pc = "down", !.pending = {}]
  ELSE IF job.style = "seed" /\ job.unit > 1
    THEN Advanced([job EXCEPT !.group = Len(Units(ranking, "seed")[job.unit])])
  ELSE Idle

\* A write fails, applied or not; Promise.all forgets the others of its group.  A refresh of the
\* poller itself is executed again when the game turns out to be unavailable just then.
Fail(j) == \E name \in jobs[j].pending, applied, closed \in BOOLEAN :
  LET job == jobs[j] next == Failed(job, closed)
  IN  /\ job.pc = "writing" /\ mishaps < MaxMishaps /\ mishaps' = mishaps + 1
      /\ docs' = IF applied THEN Stored(job.style, name, job.e) ELSE docs
      /\ late' = late \union {[style |-> job.style, name |-> other, e |-> job.e]
                              : other \in job.pending \ {name}}
      /\ online' = (online /\ ~closed)
      /\ jobs' = [jobs EXCEPT ![j] = next]
      /\ final' = IF job.style = "replace" /\ final # {} THEN final \union {job.e.sample} ELSE final
      /\ poll' \in IF next # Idle THEN {poll}
                   ELSE IF ranking.v2 \/ job.style = "seed" THEN {PollAfter}
                   ELSE {PollAfter, job.style}
      /\ entry' = IF next = Idle /\ poll # "boot" THEN EntryAfter(TRUE) ELSE entry
      /\ UNCHANGED <<now, ranking, lastPostEnd, samples, overtaken>>

\* MongoConnection: the database is reachable again.
Recover ==
  /\ ~online /\ online' = TRUE
  /\ UNCHANGED <<now, ranking, docs, poll, jobs, late, lastPostEnd, entry, samples, final,
                 overtaken, mishaps>>

\* retryPersist: the whole unit again.
RetryPersist(j) ==
  /\ jobs[j].pc = "down" /\ online
  /\ jobs' = [jobs EXCEPT ![j] =
       [@ EXCEPT !.pc = "writing", !.group = 1,
                 !.pending = Units(ranking, jobs[j].style)[jobs[j].unit][1]]]
  /\ UNCHANGED <<now, ranking, docs, poll, late, lastPostEnd, entry, online, samples, final,
                 overtaken, mishaps>>

\* A write nobody awaits reaches MongoDB, or never does.
Land == \E w \in late :
  /\ late' = late \ {w}
  /\ \/ docs' = Stored(w.style, w.name, w.e)
        /\ overtaken' = overtaken \union {w.name}
     \/ UNCHANGED <<docs, overtaken>>
  /\ UNCHANGED <<now, ranking, poll, jobs, lastPostEnd, entry, online, samples, final, mishaps>>

\* The process dies and starts again: the writes under way may still be applied.
Restart ==
  /\ mishaps < MaxMishaps /\ mishaps' = mishaps + 1
  /\ late' = late \union UNION {{[style |-> jobs[j].style, name |-> name, e |-> jobs[j].e]
                                 : name \in jobs[j].pending} : j \in DOMAIN jobs}
  /\ final' = IF final = {} THEN {} ELSE final \union {jobs[j].e.sample : j \in DOMAIN jobs \ Free}
  /\ poll' = "boot" /\ jobs' = [j \in DOMAIN jobs |-> Idle]
  /\ lastPostEnd' = Never /\ entry' = [slot |-> Never, busy |-> FALSE]
  /\ UNCHANGED <<now, ranking, docs, online, samples, overtaken>>

Tick ==
  /\ now < MaxTime /\ now' = now + 1
  /\ UNCHANGED <<ranking, docs, poll, jobs, late, lastPostEnd, entry, online, samples, final,
                 overtaken, mishaps>>

Refresh == RefreshServer \/ RefreshPostEnd \/ FetchFails \/ Persist \/ PersistAside
Writing(j) == Acknowledge(j) \/ Fail(j) \/ RetryPersist(j)

Next ==
  \/ Seed \/ BootstrapCheck \/ Registered \/ Refresh \/ Evict \/ Recover \/ Land \/ Restart \/ Tick
  \/ \E j \in DOMAIN jobs : Writing(j)

Spec == Init /\ [][Next]_vars

\* MongoDB answers every write and comes back; the bootstrap and the timers go on.
Fairness ==
  /\ \A j \in 1..2 : WF_vars(Acknowledge(j)) /\ WF_vars(RetryPersist(j))
  /\ WF_vars(Recover)
FairSpec == Spec /\ Fairness

-----------------------------------------------------------------------------

InOrder(s) == \A i, k \in DOMAIN s : i < k => s[i].time <= s[k].time
AtEnd(name) == {p \in Places(name) : Entry(p).time = EndAt}
Undisturbed == Histories \ overtaken

\* The borders of a ranking have one writer at a time: the entries of a document stay in the
\* order of time and none is later than the end, although refreshes are retried and a refresh may
\* outlive the end of the ranking (a document that got a write nobody awaited is excepted).
DocumentsInOrder ==
  \A name \in Undisturbed : \A d \in {d \in Docs : d[1] = name} :
    /\ InOrder(docs[d])
    /\ \A i \in DOMAIN docs[d] : docs[d][i].time <= EndAt

\* Once a refresh after the end has been written completely, readers find exactly one entry at
\* the end in every history it writes, that of this refresh or of a later one, whatever
\* earlier, repeated, overlapping or interrupted refreshes left there.
FinalSampleStored ==
  final # {} =>
    \A name \in Undisturbed \ (IF ranking.v2 THEN {"top"} ELSE {}) :
      ranking.kind = "event" \/ name \in {"top"} \union Borders =>
        \E p \in AtEnd(name) : AtEnd(name) = {p} /\ Entry(p).sample \in final

\* A refresh that waits for the database or for acknowledgements does not wait forever, whatever
\* fails on the way: the poller and the auxiliary task get free again.
Writes == poll = "persist" \/ entry.busy
RefreshEnds == Writes ~> ~Writes
=============================================================================
