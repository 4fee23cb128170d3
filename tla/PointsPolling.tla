---------------------------- MODULE PointsPolling ---------------------------
(***************************************************************************)
(* frontend composables/usePointsPolling.ts and App.vue: the browser polls *)
(* the tracks of one query (server, event, window), at first completely    *)
(* and then from the last sample it has.  The query changes, the polling   *)
(* is disabled (another page, or the events of a server are being loaded)  *)
(* and paused while answers are under way.  A sample is known by its       *)
(* query and time; samples have the times 1, 2, ...; the countdown and     *)
(* the length of the delays are left out: a timer that is set may fire.    *)
(***************************************************************************)
EXTENDS Naturals, FiniteSets, FiniteSetsExt

CONSTANTS
  Queries,       \* values of the filters
  MaxSamples,    \* bound: samples of the server
  MaxRequests    \* bound: requests of the client

VARIABLES
  published,   \* the time of the server's last sample
  client,      \* the refs of the composable and the requests under way
  disturbed    \* history: the tracks took an answer while disabled, or a request had no last sample

vars == <<published, client, disturbed>>

Samples(q, from, to) == {<<q, t>> : t \in from..to}

\* The page is opened: watch(enabled, immediate) runs with eventReady false.
Init ==
  /\ published \in 0..1 /\ disturbed = FALSE
  /\ client \in [filters : Queries, enabled : {FALSE}, paused : {FALSE}, tracks : {{}}, booted : {FALSE},
                 loading : {FALSE}, error : {FALSE}, armed : {FALSE}, current : {0}, requests : {{}}]

Publish == published < MaxSamples /\ published' = published + 1 /\ UNCHANGED <<client, disturbed>>

-----------------------------------------------------------------------------
\* latestTimestamp: the last sample, and the present when there is none.
LatestTimestamp(c) == IF c.tracks = {} THEN published + 1 ELSE Max({x[2] : x \in c.tracks})

\* refresh up to its await, by refreshAndSchedule (again) or by the button.
Requested(c, full, again) ==
  [c EXCEPT !.current = @ + 1, !.loading = TRUE, !.error = FALSE,
            !.requests = @ \union {[id |-> c.current + 1, query |-> c.filters, full |-> full, again |-> again,
                                    from |-> IF full \/ ~c.booted THEN 1 ELSE LatestTimestamp(c)]}]

\* scheduleNextBoundaryRefresh: the old timer goes, a new one is set while the polling is on.
Scheduled(c) == [c EXCEPT !.armed = c.enabled /\ ~c.paused]

Reset(c) == [c EXCEPT !.tracks = {}, !.error = FALSE, !.booted = FALSE]

\* watch(enabled)
EnabledWatch(c) ==
  IF ~c.enabled THEN [c EXCEPT !.armed = FALSE, !.booted = FALSE]
  ELSE IF ~c.booted THEN Requested([Reset(c) EXCEPT !.armed = FALSE], TRUE, TRUE)
  ELSE Scheduled(c)

\* watch(filters)
FiltersWatch(c) == IF c.enabled THEN Requested(Reset(c), FALSE, TRUE) ELSE c

\* The query or enabled() changes, or both: the watchers run in the order of their creation.
Change == \E q \in Queries, on \in BOOLEAN :
  LET changed == [client EXCEPT !.filters = q, !.enabled = on]
      first == IF on # client.enabled THEN EnabledWatch(changed) ELSE changed
      second == IF q # client.filters THEN FiltersWatch(first) ELSE first
  IN  /\ <<q, on>> # <<client.filters, client.enabled>> /\ second.current <= MaxRequests
      /\ client' = second /\ disturbed' = (disturbed /\ second.tracks # {})
      /\ UNCHANGED published

\* togglePause and watch(isPaused)
TogglePause ==
  LET toggled == [client EXCEPT !.paused = ~@]
  IN  /\ client' = IF client.enabled THEN Scheduled(toggled) ELSE toggled
      /\ UNCHANGED <<published, disturbed>>

\* refreshFull
RefreshFull ==
  /\ client.enabled /\ client.current < MaxRequests /\ client' = Requested(client, TRUE, FALSE)
  /\ UNCHANGED <<published, disturbed>>

\* The timer fires; paused timers are cleared, so that it always refreshes.
Boundary ==
  /\ client.armed /\ client.current < MaxRequests
  /\ client' = Requested([client EXCEPT !.armed = FALSE], FALSE, TRUE)
  /\ disturbed' = (disturbed \/ (client.booted /\ client.tracks = {}))
  /\ UNCHANGED published

-----------------------------------------------------------------------------
\* Faulty variant: the answer of an older request is taken.
FaultyAccepted(c, r) == c.enabled

\* Only the answer of the latest request is taken.
Accepted(c, r) == r.id = c.current

\* tracks are replaced by a full refresh and else merged by time.
Taken(c, r) ==
  IF ~Accepted(c, r) THEN c
  ELSE [c EXCEPT !.tracks = (IF r.full THEN {} ELSE @) \union Samples(r.query, r.from, published),
                 !.booted = TRUE]

\* Faulty variant: only an answer that is taken schedules the next request.
FaultyAfter(c, r) ==
  LET over == [c EXCEPT !.loading = FALSE, !.requests = @ \ {r}]
  IN  IF r.again /\ Accepted(c, r) THEN Scheduled(over) ELSE over

\* finally, and the schedule of refreshAndSchedule.
After(c, r) ==
  LET over == [c EXCEPT !.loading = FALSE, !.requests = @ \ {r}]
  IN  IF r.again THEN Scheduled(over) ELSE over

\* The answer holds what the server has when it answers; answers come in any order.
Answer == \E r \in client.requests :
  /\ client' = After(Taken(client, r), r)
  /\ disturbed' = IF Accepted(client, r) /\ ~client.enabled THEN TRUE
                  ELSE disturbed /\ ~(Accepted(client, r) /\ r.full)
  /\ UNCHANGED published

\* The request is refused or lost, the latest one or not.
Rejected == \E r \in client.requests :
  /\ client' = After([client EXCEPT !.error = TRUE], r)
  /\ UNCHANGED <<published, disturbed>>

Next == Publish \/ Change \/ TogglePause \/ RefreshFull \/ Boundary \/ Answer \/ Rejected

Spec == Init /\ [][Next]_vars

-----------------------------------------------------------------------------
\* The tracks on the page are those of its query, from the first sample to the last one without a
\* gap, however answers, changes of the query and of the page come one after the other.
TracksAreOneHistory ==
  client.enabled => \E t \in 0..MaxSamples : client.tracks = Samples(client.filters, 1, t)

\* The same, but for answers that came while the polling was disabled and for polling from the
\* present because the first answer was empty.
TracksAreOneHistoryUnlessDisturbed == ~disturbed => TracksAreOneHistory

\* While the polling is on, a timer is set or a request that sets one is under way, whatever was
\* refused, outdated or paused.
PollingGoesOn ==
  client.enabled /\ ~client.paused => client.armed \/ \E r \in client.requests : r.again
=============================================================================
