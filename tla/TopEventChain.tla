---------------------------- MODULE TopEventChain ----------------------------
(***************************************************************************)
(* The chain of events of one scope (one ranking of one server), as the    *)
(* collector grows it: a sample ends, its observation is encoded against   *)
(* the state of the chain and the event is appended.  Queueing, crashes in *)
(* the middle of a commit and storage faults are the subject of TopHistory;*)
(* here a sample is one step, so that the data can be rich: what is        *)
(* examined is that the increments, the checkpoints and the queries over   *)
(* them lose nothing.                                                      *)
(***************************************************************************)
EXTENDS TopHistoryStore

CONSTANTS
  Rankings,        \* the valid rankings the game may answer with
  Reasons,         \* reasons a sample may fail for
  Interval,        \* sampling period before the end (EVENT_TOP_POLL_INTERVAL_MS)
  PostEndInterval, \* sampling period after it (EVENT_POST_END_POLL_INTERVAL_MS)
  EndAt,           \* the boundary: endAt of the event or monthly ranking
  Bootstraps,      \* TRUE for a monthly scope, sampled once at start-up if empty
  Legacy,          \* V1 points of the scope, [time, ranking] in the order of time
  MaxTime,         \* bound: the clock stops here
  MaxEvents        \* bound: length of the chain

ASSUME ChainAssumption ==
  /\ Reasons \subseteq GapReasons
  /\ Interval \in Nat \ {0} /\ PostEndInterval \in Nat \ {0}
  /\ EndAt \in Nat \ {0} /\ Bootstraps \in BOOLEAN /\ MaxTime \in Nat /\ MaxEvents \in Nat
  /\ \A r \in Rankings : r \in Seq(Nat \X Nat) /\ ValidRanking(r)
  /\ Legacy \in Seq([time : Nat, ranking : Seq(Nat \X Nat)])
  /\ \A m, n \in DOMAIN Legacy : m < n => Legacy[m].time < Legacy[n].time

VARIABLES
  events,        \* the documents of the scope, in the order of insertion
  state,         \* the TopState the service keeps for the scope
  firstCaptured, \* whether this process has had a successful sample
  observed       \* history: the observations behind the events

vars == <<events, state, firstCaptured, observed>>

ChainInit ==
  /\ events = <<>>
  /\ state = EmptyTopState
  /\ firstCaptured = FALSE
  /\ observed = <<>>

LastTime == state.lastAt

LastSlot == LET slots == {observed[n].scheduledAt : n \in DOMAIN observed}
            IN  IF slots = {} THEN None ELSE CHOOSE s \in slots : \A x \in slots : x <= s

\* What a sample that was started at `begin' and answered at `at' records.
Observation(n, slot, begin, at, result) ==
  [id |-> n, at |-> at, scheduledAt |-> slot,
   intervalMs |-> IF begin >= EndAt THEN PostEndInterval ELSE Interval,
   effectiveAt |-> IF at >= EndAt THEN EndAt ELSE None,
   reason |-> result.reason, ranking |-> result.ranking,
   forceFull |-> result.reason = NoReason /\ ~firstCaptured]

Results ==
  [reason : {NoReason}, ranking : Rankings] \cup
  [reason : Reasons, ranking : {<<>>}]

\* The sample is encoded against the chain, inserted and applied.
Commit(obs) ==
  LET event == Encode(obs, state)
  IN  /\ Encodable(obs, state)
      /\ events' = Append(events, event)
      /\ state' = Apply(state, event)
      /\ observed' = Append(observed, obs)
      /\ firstCaptured' = (firstCaptured \/ obs.reason = NoReason)

\* A sample of the aligned poller: slots are multiples of the interval, never
\* used twice, and the ranking is still active (now <= endAt) at its slot.
ScheduledSample ==
  \E slot \in 0 .. MaxTime, begin \in 0 .. MaxTime, at \in 0 .. MaxTime, res \in Results :
    /\ slot % Interval = 0 /\ slot > LastSlot /\ slot <= EndAt
    /\ slot <= begin /\ begin < slot + Interval /\ begin <= at
    /\ LastTime <= begin /\ LastTime < at
    /\ Commit(Observation(Len(events), slot, begin, at, res))

\* refreshServerPostEnd: after the end, no slot, at most one an interval.
PostEndSample ==
  \E at \in EndAt + 1 .. MaxTime, res \in Results :
    /\ LastTime < at
    /\ \A n \in DOMAIN observed :
         observed[n].scheduledAt = None /\ observed[n].at > EndAt
           => at - observed[n].at >= PostEndInterval
    /\ Commit(Observation(Len(events), None, at, at, res))

\* bootstrapCheck: a monthly ranking without history is sampled at start-up.
BootstrapSample ==
  \E at \in 1 .. MaxTime, res \in Results :
    /\ Bootstraps /\ events = <<>>
    /\ Commit(Observation(0, None, at, at, res))

\* The process restarts, or the cached state is evicted: it is loaded again.
Restart ==
  /\ state' = LoadState(events)
  /\ firstCaptured' = FALSE
  /\ UNCHANGED <<events, observed>>

ChainNext ==
  \/ Len(events) < MaxEvents /\ (ScheduledSample \/ PostEndSample \/ BootstrapSample)
  \/ Restart

ChainSpec == ChainInit /\ [][ChainNext]_vars

-----------------------------------------------------------------------------
(* Properties *)

Times == 0 .. MaxTime

\* Replaying the stored events alone gives back, sample by sample, exactly
\* the ranking that was observed; a failed sample is decoded as a failure and
\* never as a ranking (encodeTopObservation against applyTopEvent).
DecodedExactly ==
  LET states == StatesOf(events)
  IN  \A n \in DOMAIN events :
        /\ Applicable(IF n = 1 THEN EmptyTopState ELSE states[n - 1], events[n])
        /\ states[n].gap = (observed[n].reason # NoReason)
        /\ observed[n].reason = NoReason => states[n].ranking = observed[n].ranking

\* The state rebuilt from the latest checkpoint is the state the process had
\* in memory: a restart changes nothing about how the next sample is encoded,
\* the missing slots it records included (loadState).
LoadedStateAgrees == LoadState(events) = state

\* history(from, to), which reads only from a checkpoint on, answers exactly
\* the samples of the range and the state before it, whatever the range; the
\* baseline is null when nothing was sampled successfully before the range.
HistoryIsSlice ==
  LET states == StatesOf(events)
  IN  \A from \in Times, to \in Times :
        LET answer == History(events, from, to)
            before == {n \in DOMAIN events : events[n].t < from}
            inside == {n \in DOMAIN events : from <= events[n].t /\ events[n].t <= to}
            skip   == Cardinality(before)
        IN  from <= to =>
              /\ answer.samples = [n \in 1 .. Cardinality(inside) |->
                                     Sample(events[skip + n], states[skip + n])]
              /\ answer.baseline =
                   IF \E n \in before : observed[n].reason = NoReason
                   THEN [at |-> events[skip].t, ranking |-> states[skip].ranking,
                         gap |-> states[skip].gap]
                   ELSE NoBaseline

\* The compatibility points are in the order of time with one snapshot per
\* time; the snapshot at the end is the last successful one taken after it.
PointsAreFinal ==
  LET points  == Points(events)
      finals  == {n \in DOMAIN observed :
                    observed[n].reason = NoReason /\ observed[n].at >= EndAt}
      final   == CHOOSE n \in finals : \A m \in finals : m <= n
  IN  /\ \A n \in 1 .. Len(points) - 1 : points[n].time < points[n + 1].time
      /\ finals # {} /\ observed[final].ranking # <<>> =>
           points[Len(points)] = [time |-> EndAt, ranking |-> observed[final].ranking]
      /\ \A n \in DOMAIN observed :
           observed[n].reason = NoReason /\ observed[n].at < EndAt /\ observed[n].ranking # <<>>
             => \E p \in DOMAIN points :
                  points[p] = [time |-> observed[n].at, ranking |-> observed[n].ranking]

\* Before the migration of the V1 history, the merged view keeps the order of
\* time, keeps every V2 point, and keeps every V1 point older than them.
MergedViewInOrder ==
  LET merged == Compatible(FALSE, Legacy, events)
      points == Points(events)
      has(p) == \E n \in DOMAIN merged : merged[n] = p
  IN  /\ \A n \in 1 .. Len(merged) - 1 : merged[n].time < merged[n + 1].time
      /\ \A n \in DOMAIN points : has(points[n])
      /\ \A n \in DOMAIN Legacy :
           (\A k \in DOMAIN points : Legacy[n].time < points[k].time) => has(Legacy[n])
=============================================================================
