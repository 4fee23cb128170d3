--------------------------- MODULE TopHistoryStore ---------------------------
(***************************************************************************)
(* The queries over the event collection of one scope.  The collection is  *)
(* kept as the sequence of its documents in the order of insertion; every  *)
(* query asks MongoDB for the order of `t', so it sorts here too.          *)
(***************************************************************************)
EXTENDS TopHistoryCodec, FiniteSets

\* The order of MongoDB's answer; events of one time stay as they were stored.
Before(x, y, events) ==
  events[x].t < events[y].t \/ (events[x].t = events[y].t /\ x < y)

ByTime(events) ==
  [n \in DOMAIN events |->
     events[CHOOSE m \in DOMAIN events :
              Cardinality({k \in DOMAIN events : Before(k, m, events)}) = n - 1]]

\* The states of a replay of the events read: before the first event, and after each.
ReplayedOver(state, events, read) ==
  LET after[n \in 0 .. Len(events)] ==
        IF n = 0 THEN state
        ELSE IF n \in read THEN Apply(after[n - 1], events[n]) ELSE after[n - 1]
  IN  after

Replayed(state, events) == ReplayedOver(state, events, 1 .. Len(events))

Replay(state, events) == Replayed(state, events)[Len(events)]

\* Faulty variant: the latest FULL of all, whatever the time asked for.
FaultyLatestCheckpoint(sorted, at) ==
  LET fulls == {n \in DOMAIN sorted : sorted[n].k = "FULL"}
  IN  IF fulls = {} THEN 0 ELSE CHOOSE n \in fulls : \A m \in fulls : m <= n

\* Position of the latest FULL at or before `at' in the sorted events, 0 if none.
CheckpointAt(sorted, at) ==
  LET fulls == {n \in DOMAIN sorted : sorted[n].k = "FULL" /\ sorted[n].t <= at}
  IN  IF fulls = {} THEN 0 ELSE CHOOSE n \in fulls : \A m \in fulls : m <= n

\* Faulty variant: the checkpoint itself is not replayed.
FaultyAfterCheckpoint(sorted, checkpoint) == SubSeq(sorted, checkpoint + 1, Len(sorted))

\* Everything from the checkpoint on (all of it when there is none).
FromCheckpoint(sorted, checkpoint) ==
  IF checkpoint = 0 THEN sorted ELSE SubSeq(sorted, checkpoint, Len(sorted))

\* loadState: the latest checkpoint and its tail, from an empty state.
LoadState(events) ==
  LET sorted == ByTime(events)
      latest == CheckpointAt(sorted, IF sorted = <<>> THEN 0 ELSE sorted[Len(sorted)].t)
  IN  Replay(EmptyTopState, FromCheckpoint(sorted, latest))

\* One decoded observation as history() yields it.
Sample(event, state) ==
  [at |-> event.t, type |-> event.k,
   ranking |-> IF event.k = "GAP" THEN <<>> ELSE state.ranking,
   missing |-> event.g, effectiveAt |-> event.e]

\* The states after each event of a replay from the start.
StatesOf(events) ==
  LET after == Replayed(EmptyTopState, events) IN [n \in DOMAIN events |-> after[n]]

NoBaseline == [at |-> None, ranking |-> <<>>, gap |-> TRUE]

Greatest(positions) == CHOOSE n \in positions : \A m \in positions : m <= n

\* What stands at these positions, in their order.
Chosen(s, positions) ==
  [n \in 1 .. Cardinality(positions) |->
     s[CHOOSE m \in positions : Cardinality({k \in positions : k < m}) = n - 1]]

\* history(from, to): the state before the range, then every sample in it.
History(events, from, to) ==
  LET sorted == ByTime(events)
      start  == CheckpointAt(sorted, from - 1)
      read   == {n \in DOMAIN sorted : /\ IF start = 0 THEN from <= sorted[n].t ELSE start <= n
                                       /\ sorted[n].t <= to}
      after  == ReplayedOver(EmptyTopState, sorted, read)
      before == {n \in read : sorted[n].t < from}
      last   == Greatest(before)
  IN  [baseline |-> IF before = {} THEN NoBaseline
                    ELSE [at |-> sorted[last].t, ranking |-> after[last].ranking,
                          gap |-> after[last].gap],
       samples |-> Chosen([n \in DOMAIN sorted |-> Sample(sorted[n], after[n])],
                          read \ before)]

\* Faulty variant: a snapshot of the same time is kept beside its correction.
FaultyPopOlder(points, time) ==
  LET kept == {n \in DOMAIN points : points[n].time <= time}
  IN  IF kept = {} THEN <<>>
      ELSE SubSeq(points, 1, Greatest(kept))

\* points: valid observations only, each at its effective time; the trailing
\* points that are not older than it are popped first, so that a correction
\* replaces what it corrects.  One element stands for the rows of a snapshot.
PopNotOlder(points, time) ==
  LET older == {n \in DOMAIN points : points[n].time < time}
  IN  IF older = {} THEN <<>>
      ELSE SubSeq(points, 1, Greatest(older))

AddPoint(points, time, ranking) ==
  LET kept == PopNotOlder(points, time)
  IN  IF ranking = <<>> THEN kept ELSE Append(kept, [time |-> time, ranking |-> ranking])

PointsAfter(events) ==
  LET states == Replayed(EmptyTopState, events)
      points[n \in 0 .. Len(events)] ==
        IF n = 0 THEN <<>>
        ELSE IF events[n].k = "GAP" THEN points[n - 1]
        ELSE AddPoint(points[n - 1], IF events[n].e # None THEN events[n].e ELSE events[n].t,
                      states[n].ranking)
  IN  points

Points(events) == PointsAfter(ByTime(events))[Len(events)]

\* Faulty variant: the V1 history is prepended whole.
FaultyPrependLegacy(migrated, legacy, events) ==
  IF migrated THEN Points(events) ELSE legacy \o Points(events)

\* compatible(): before the legacy history is migrated, the V1 points older
\* than the first V2 point, then the V2 points; afterwards the V2 points.
Compatible(migrated, legacy, events) ==
  LET points == Points(events)
  IN  IF migrated THEN points
      ELSE IF points = <<>> THEN legacy
      ELSE Chosen(legacy, {n \in DOMAIN legacy : legacy[n].time < points[1].time}) \o points
=============================================================================
