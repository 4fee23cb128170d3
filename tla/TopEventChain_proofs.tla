------------------------- MODULE TopEventChain_proofs -------------------------
(***************************************************************************)
(* The chain of events of one scope decodes to exactly what was sampled;   *)
(* a restart, which rebuilds the state of the chain from the latest        *)
(* checkpoint, arrives at the state the process had; every range of the    *)
(* history is answered exactly, and the compatibility points are in order  *)
(* and final: for every choice of rankings, intervals, end and length of   *)
(* the chain.                                                              *)
(***************************************************************************)
EXTENDS TopEventChain, TopHistoryStore_proofs, SequenceTheorems

\* The n-th event decodes to the n-th sample.
DecodedAt(n) ==
  LET before == Replayed(EmptyTopState, events)[n - 1]
      after  == Replayed(EmptyTopState, events)[n]
  IN  /\ Applicable(before, events[n])
      /\ after.gap = (observed[n].reason # NoReason)
      /\ observed[n].reason = NoReason => after.ranking = observed[n].ranking

\* What the n-th event keeps of the n-th sample.
Recorded(n) ==
  /\ events[n].k \in EventKinds
  /\ events[n].k = "GAP" <=> observed[n].reason # NoReason
  /\ events[n].t = observed[n].at /\ events[n].e = observed[n].effectiveAt
  /\ observed[n].effectiveAt = IF observed[n].at >= EndAt THEN EndAt ELSE None
  /\ observed[n].ranking \in RankingType

\* The state is that of the chain, and no event is younger than it.
StateFollows ==
  /\ state = Replay(EmptyTopState, events)
  /\ StateOK(state) /\ state.lastAt \in Nat
  /\ \A n \in DOMAIN events : events[n].t <= state.lastAt

ChainInv ==
  /\ \E S : events \in Seq(S)
  /\ DOMAIN observed = DOMAIN events /\ \E S : observed \in Seq(S)
  /\ Ordered(events) /\ StateFollows
  /\ \A n \in DOMAIN events : events[n].k = "FULL" => n = 1 \/ Anchored(events[n])
  /\ \A n \in DOMAIN events : DecodedAt(n) /\ Recorded(n)

-----------------------------------------------------------------------------

LEMMA ResultTypes ==
  ASSUME NEW res \in Results
  PROVE  res.ranking \in RankingType /\ res.reason \in GapReasons \cup {NoReason}
<1>1. <<>> \in RankingType
  BY DEF RankingType
<1>2. \A r \in Rankings : r \in RankingType
  BY ChainAssumption DEF RankingType
<1>3. Reasons \subseteq GapReasons
  BY ChainAssumption
<1> QED BY <1>1, <1>2, <1>3 DEF Results

LEMMA ChainInitInv == ChainInit => ChainInv
<1> SUFFICES ASSUME ChainInit PROVE ChainInv
  OBVIOUS
<1>1. events = <<>> /\ observed = <<>> /\ events \in Seq({}) /\ observed \in Seq({})
      /\ DOMAIN events = {} /\ DOMAIN observed = {} /\ Len(events) = 0
  BY DEF ChainInit
<1>2. Replay(EmptyTopState, events) = EmptyTopState
  BY <1>1, ReplayedSteps DEF Replay
<1>3. StateFollows
  BY <1>1, <1>2 DEF ChainInit, StateFollows, StateOK, RankingType, EmptyTopState
<1> QED BY <1>1, <1>3 DEF ChainInv, Ordered

\* What the sample that is committed next is.
Sampled(obs) ==
  /\ ObservationOK(obs) /\ obs.at \in Nat /\ obs.intervalMs \in Nat
  /\ obs.effectiveAt = IF obs.at >= EndAt THEN EndAt ELSE None
  /\ obs.scheduledAt # None \/ obs.effectiveAt # None \/ events = <<>>
  /\ state.lastAt < obs.at \/ events = <<>>

LEMMA CommitKeepsChain ==
  ASSUME ChainInv, NEW obs, Sampled(obs), Commit(obs)
  PROVE  ChainInv'
<1> DEFINE event == Encode(obs, state)
           N == Len(events)
<1>1. PICK S : events \in Seq(S)
  BY DEF ChainInv
<1>2. PICK O : observed \in Seq(O)
  BY DEF ChainInv
<1>3. /\ N \in Nat /\ DOMAIN events = 1 .. N /\ DOMAIN observed = 1 .. N
      /\ events = <<>> <=> N = 0
  BY <1>1 DEF ChainInv
<1>4. Len(observed) = N
  BY <1>2, <1>3
<1>5. events' = Append(events, event) /\ observed' = Append(observed, obs)
      /\ state' = Apply(state, event) /\ Encodable(obs, state)
  BY DEF Commit
<1>6. /\ event.t = obs.at /\ event.e = obs.effectiveAt /\ event.a = obs.scheduledAt
      /\ event.i = IF obs.scheduledAt # None \/ obs.effectiveAt # None
                   THEN obs.intervalMs ELSE None
  BY DEF Encode
<1>7. /\ Applicable(state, event)
      /\ Apply(state, event).gap = (obs.reason # NoReason)
      /\ obs.reason = NoReason => Apply(state, event).ranking = obs.ranking
      /\ obs.reason # NoReason => Apply(state, event).ranking = state.ranking
  BY <1>5, EncodedDecodes DEF Sampled, ChainInv, StateFollows
<1> HIDE DEF event, N
<1>8. /\ events' \in Seq(S \cup {event}) /\ DOMAIN events' = 1 .. N + 1
      /\ \A n \in 1 .. N : events'[n] = events[n]
      /\ events'[N + 1] = event
  <2>1. events \in Seq(S \cup {event}) /\ Len(events) = N
    BY <1>1 DEF N
  <2> QED BY <1>3, <1>5, <2>1
<1>9. /\ observed' \in Seq(O \cup {obs}) /\ DOMAIN observed' = 1 .. N + 1
      /\ \A n \in 1 .. N : observed'[n] = observed[n]
      /\ observed'[N + 1] = obs
  <2>1. observed \in Seq(O \cup {obs})
    BY <1>2
  <2> QED BY <1>3, <1>4, <1>5, <2>1
<1>10. /\ \A n \in 0 .. N :
            Replayed(EmptyTopState, events')[n] = Replayed(EmptyTopState, events)[n]
       /\ Replayed(EmptyTopState, events')[N + 1] = Apply(state, event)
       /\ Replay(EmptyTopState, events') = state'
       /\ Replayed(EmptyTopState, events)[N] = state
  BY <1>1, <1>5, ReplayAppend DEF N, ChainInv, StateFollows, Replay
<1>11. \A n \in 1 .. N : events[n].t \in Nat /\ events[n].t < obs.at
  <2>1. \A n \in 1 .. N : events[n].t \in Nat /\ events[n].t <= state.lastAt
    BY <1>3 DEF ChainInv, StateFollows, Ordered
  <2>2. state.lastAt \in Nat /\ obs.at \in Nat /\ (state.lastAt < obs.at \/ N = 0)
    BY <1>3 DEF ChainInv, StateFollows, Sampled
  <2> QED BY <1>3, <2>1, <2>2
<1>12. \A n \in 1 .. N + 1 : n \in 1 .. N \/ n = N + 1
  BY <1>3
<1>13. Ordered(events')
  <2>1. \A n \in 1 .. N + 1 : events'[n].t \in Nat
    BY <1>6, <1>8, <1>11, <1>12 DEF Sampled
  <2>2. ASSUME NEW m \in 1 .. N + 1, NEW n \in 1 .. N + 1, m < n
        PROVE  events'[m].t < events'[n].t
    <3>1. m \in 1 .. N
      BY <1>3, <2>2
    <3>2. CASE n \in 1 .. N
      BY <1>3, <1>8, <2>2, <3>1, <3>2 DEF ChainInv, Ordered
    <3>3. CASE n = N + 1
      BY <1>6, <1>8, <1>11, <3>1, <3>3
    <3> QED BY <1>12, <3>2, <3>3
  <2> QED BY <1>8, <2>1, <2>2 DEF Ordered
<1>14. StateFollows'
  <2>1. state'.lastAt = obs.at
    BY <1>5, <1>6 DEF Apply
  <2>2. StateOK(state')
    BY <1>5, <1>7 DEF StateOK, Sampled, ObservationOK, ChainInv, StateFollows
  <2>3. \A n \in 1 .. N + 1 : events'[n].t <= obs.at
    BY <1>6, <1>8, <1>11, <1>12 DEF Sampled
  <2> QED BY <1>8, <1>10, <2>1, <2>2, <2>3 DEF StateFollows, Sampled
<1>15. ASSUME NEW n \in 1 .. N + 1, events'[n].k = "FULL" PROVE n = 1 \/ Anchored(events'[n])
  <2>1. CASE n \in 1 .. N
    BY <1>3, <1>8, <1>15, <2>1 DEF ChainInv
  <2>2. CASE n = N + 1 /\ N # 0
    <3>1. obs.intervalMs # None
      BY DEF Sampled, None
    <3> QED BY <1>3, <1>6, <1>8, <2>2, <3>1 DEF Sampled, Anchored
  <2> QED BY <1>12, <2>1, <2>2
<1>16. ASSUME NEW n \in 1 .. N + 1 PROVE DecodedAt(n)'
  <2>1. CASE n \in 1 .. N
    <3>1. DecodedAt(n) /\ n - 1 \in 0 .. N /\ n \in 0 .. N
      BY <1>3, <2>1 DEF ChainInv
    <3> QED BY <1>8, <1>9, <1>10, <2>1, <3>1 DEF DecodedAt
  <2>2. CASE n = N + 1
    <3>1. N \in 0 .. N /\ n - 1 = N
      BY <1>3, <2>2
    <3>2. Replayed(EmptyTopState, events')[n - 1] = state
      BY <1>10, <3>1
    <3> QED BY <1>7, <1>8, <1>9, <1>10, <2>2, <3>2 DEF DecodedAt
  <2> QED BY <1>12, <2>1, <2>2
<1>17. ASSUME NEW n \in 1 .. N + 1 PROVE Recorded(n)'
  <2>1. CASE n \in 1 .. N
    <3>1. Recorded(n)
      BY <1>3, <2>1 DEF ChainInv
    <3> QED BY <1>8, <1>9, <2>1, <3>1 DEF Recorded
  <2>2. CASE n = N + 1
    <3>1. event.k \in EventKinds /\ (event.k = "GAP" <=> obs.reason # NoReason)
      <4>1. event.k = Payload(obs, state).k
        BY DEF event, Encode
      <4>2. ObservationOK(obs) /\ StateOK(state)
        BY DEF Sampled, ChainInv, StateFollows
      <4> QED BY <4>1, <4>2, PayloadCases DEF EventKinds
    <3>2. events'[n] = event /\ observed'[n] = obs
      BY <1>8, <1>9, <2>2
    <3>3. events'[n].t = observed'[n].at /\ events'[n].e = observed'[n].effectiveAt
      BY <1>6, <3>2
    <3>4. /\ observed'[n].effectiveAt = IF observed'[n].at >= EndAt THEN EndAt ELSE None
          /\ observed'[n].ranking \in RankingType
      BY <3>2 DEF Sampled, ObservationOK
    <3> QED BY <3>1, <3>2, <3>3, <3>4 DEF Recorded
  <2> QED BY <1>12, <2>1, <2>2
<1> QED BY <1>8, <1>9, <1>13, <1>14, <1>15, <1>16, <1>17 DEF ChainInv

\* A restart brings back the state there was.
LEMMA RestartKeepsState == ASSUME ChainInv, Restart PROVE UNCHANGED <<events, state, observed>>
<1>1. PICK S : events \in Seq(S)
  BY DEF ChainInv
<1>2. LoadState(events) = Replay(EmptyTopState, events)
  BY <1>1, LoadStateReplays DEF ChainInv
<1> QED BY <1>2 DEF Restart, ChainInv, StateFollows

LEMMA UnchangedKeepsChain == ASSUME ChainInv, UNCHANGED <<events, state, observed>> PROVE ChainInv'
BY DEF ChainInv, Ordered, StateFollows, DecodedAt, Recorded

LEMMA ChainNextInv == ChainInv /\ [ChainNext]_vars => ChainInv'
<1> SUFFICES ASSUME ChainInv, [ChainNext]_vars PROVE ChainInv'
  OBVIOUS
<1>1. ASSUME ScheduledSample PROVE ChainInv'
  <2>1. PICK slot \in 0 .. MaxTime, begin \in 0 .. MaxTime, at \in 0 .. MaxTime, res \in Results :
          LastTime < at /\ Commit(Observation(Len(events), slot, begin, at, res))
    BY <1>1 DEF ScheduledSample
  <2>2. slot \in Nat /\ at \in Nat /\ slot # None
    BY ChainAssumption DEF None
  <2> DEFINE obs == Observation(Len(events), slot, begin, at, res)
  <2>3. /\ ObservationOK(obs) /\ obs.at = at /\ obs.intervalMs \in Nat
        /\ obs.scheduledAt = slot
        /\ obs.effectiveAt = IF at >= EndAt THEN EndAt ELSE None
    BY <2>2, ResultTypes, ChainAssumption DEF Observation, ObservationOK
  <2>4. Sampled(obs)
    <3> HIDE DEF obs
    <3> QED BY <2>1, <2>2, <2>3 DEF Sampled, LastTime
  <2> QED BY <2>1, <2>4, CommitKeepsChain
<1>2. ASSUME PostEndSample PROVE ChainInv'
  <2>1. PICK at \in EndAt + 1 .. MaxTime, res \in Results :
          LastTime < at /\ Commit(Observation(Len(events), None, at, at, res))
    BY <1>2 DEF PostEndSample
  <2>2. at \in Nat /\ at >= EndAt /\ EndAt # None
    BY ChainAssumption DEF None
  <2> DEFINE obs == Observation(Len(events), None, at, at, res)
  <2>3. /\ ObservationOK(obs) /\ obs.at = at /\ obs.intervalMs \in Nat
        /\ obs.scheduledAt = None
        /\ obs.effectiveAt = IF at >= EndAt THEN EndAt ELSE None
    BY <2>2, ResultTypes, ChainAssumption DEF Observation, ObservationOK
  <2>4. Sampled(obs)
    <3> HIDE DEF obs
    <3> QED BY <2>1, <2>2, <2>3 DEF Sampled, LastTime
  <2> QED BY <2>1, <2>4, CommitKeepsChain
<1>3. ASSUME BootstrapSample PROVE ChainInv'
  <2>1. PICK at \in 1 .. MaxTime, res \in Results :
          events = <<>> /\ Commit(Observation(0, None, at, at, res))
    BY <1>3 DEF BootstrapSample
  <2>2. at \in Nat
    BY ChainAssumption
  <2> DEFINE obs == Observation(0, None, at, at, res)
  <2>3. /\ ObservationOK(obs) /\ obs.at = at /\ obs.intervalMs \in Nat
        /\ obs.scheduledAt = None
        /\ obs.effectiveAt = IF at >= EndAt THEN EndAt ELSE None
    BY <2>2, ResultTypes, ChainAssumption DEF Observation, ObservationOK
  <2>4. Sampled(obs)
    <3> HIDE DEF obs
    <3> QED BY <2>1, <2>2, <2>3 DEF Sampled, LastTime
  <2> QED BY <2>1, <2>4, CommitKeepsChain
<1>4. CASE Restart
  BY <1>4, RestartKeepsState, UnchangedKeepsChain
<1>5. CASE UNCHANGED vars
  BY <1>5, UnchangedKeepsChain DEF vars
<1> QED BY <1>1, <1>2, <1>3, <1>4, <1>5 DEF ChainNext

LEMMA ChainInvariance == ChainSpec => []ChainInv
<1> QED BY ChainInitInv, ChainNextInv, PTL DEF ChainSpec

\* The stored events decode, sample by sample, to what was observed, and the
\* decoder refuses none of them.
THEOREM ChainDecodesExactly == ChainSpec => []DecodedExactly
<1>1. ASSUME ChainInv PROVE DecodedExactly
  <2>1. PICK S : events \in Seq(S)
    BY <1>1 DEF ChainInv
  <2>2. /\ Len(events) \in Nat /\ DOMAIN events = 1 .. Len(events)
        /\ Replayed(EmptyTopState, events)[0] = EmptyTopState
    BY <2>1, ReplayedSteps
  <2>3. ASSUME NEW n \in DOMAIN events
        PROVE  /\ StatesOf(events)[n] = Replayed(EmptyTopState, events)[n]
               /\ (IF n = 1 THEN EmptyTopState ELSE StatesOf(events)[n - 1])
                    = Replayed(EmptyTopState, events)[n - 1]
               /\ DecodedAt(n)
    <3>1. n # 1 => n - 1 \in DOMAIN events
      BY <2>2
    <3> QED BY <1>1, <2>2, <3>1 DEF StatesOf, ChainInv
  <2> QED BY <2>3 DEF DecodedExactly, DecodedAt
<1> QED BY <1>1, ChainInvariance, PTL

\* A restart changes nothing about how the next sample is encoded.
THEOREM RestartLosesNothing == ChainSpec => []LoadedStateAgrees
<1>1. ASSUME ChainInv PROVE LoadedStateAgrees
  <2>1. PICK S : events \in Seq(S)
    BY <1>1 DEF ChainInv
  <2>2. LoadState(events) = Replay(EmptyTopState, events)
    BY <1>1, <2>1, LoadStateReplays DEF ChainInv
  <2> QED BY <1>1, <2>2 DEF LoadedStateAgrees, ChainInv, StateFollows
<1> QED BY <1>1, ChainInvariance, PTL

-----------------------------------------------------------------------------
(* Queries *)

\* history(from, to) answers exactly the samples of the range and the state before it,
\* wherever the checkpoint it reads from stands.
LEMMA ChainIsSliced ==
  ASSUME ChainInv, NEW from \in Nat, NEW to \in Nat, from <= to
  PROVE  LET states == StatesOf(events)
             answer == History(events, from, to)
             before == {n \in DOMAIN events : events[n].t < from}
             inside == {n \in DOMAIN events : from <= events[n].t /\ events[n].t <= to}
             skip   == Cardinality(before)
         IN  /\ answer.samples = [n \in 1 .. Cardinality(inside) |->
                                    Sample(events[skip + n], states[skip + n])]
             /\ answer.baseline =
                  IF \E n \in before : observed[n].reason = NoReason
                  THEN [at |-> events[skip].t, ranking |-> states[skip].ranking,
                        gap |-> states[skip].gap]
                  ELSE NoBaseline
<1> DEFINE N == Len(events)
           whole == Replayed(EmptyTopState, events)
           start == CheckpointAt(events, from - 1)
           read == {n \in DOMAIN events : /\ IF start = 0 THEN from <= events[n].t ELSE start <= n
                                          /\ events[n].t <= to}
           over == ReplayedOver(EmptyTopState, events, read)
           early == {n \in read : events[n].t < from}
           shown == [n \in DOMAIN events |-> Sample(events[n], over[n])]
           before == {n \in DOMAIN events : events[n].t < from}
           inside == {n \in DOMAIN events : from <= events[n].t /\ events[n].t <= to}
           upTo == {n \in DOMAIN events : events[n].t <= to}
<1>1. PICK S : events \in Seq(S)
  BY DEF ChainInv
<1>2. /\ N \in Nat /\ DOMAIN events = 1 .. N
      /\ \A n \in 1 .. N : events[n].t \in Nat
      /\ \A m, n \in 1 .. N : m < n => events[m].t < events[n].t
  BY <1>1 DEF ChainInv, Ordered
<1>3. \A n \in 1 .. N : DecodedAt(n) /\ Recorded(n)
  BY <1>2 DEF ChainInv
<1>4. ByTime(events) = events
  BY <1>1, ByTimeInOrder DEF ChainInv
<1>5. /\ History(events, from, to).baseline =
           IF early = {} THEN NoBaseline
           ELSE [at |-> events[Greatest(early)].t, ranking |-> over[Greatest(early)].ranking,
                 gap |-> over[Greatest(early)].gap]
      /\ History(events, from, to).samples = Chosen(shown, read \ early)
  BY <1>4 DEF History
<1>6. PICK p \in 0 .. N : before = 1 .. p
  <2>1. before \subseteq 1 .. N
    BY <1>2
  <2>2. \A y \in before : \A x \in 1 .. N : x < y => x \in before
    BY <1>2
  <2> HIDE DEF before, N
  <2> QED BY <1>2, <2>1, <2>2, Beginning
<1>7. PICK q \in 0 .. N : upTo = 1 .. q
  <2>1. upTo \subseteq 1 .. N
    BY <1>2
  <2>2. \A y \in upTo : \A x \in 1 .. N : x < y => x \in upTo
    BY <1>2
  <2> HIDE DEF upTo, N
  <2> QED BY <1>2, <2>1, <2>2, Beginning
<1>8. \A n \in 1 .. N : (events[n].t < from <=> n <= p) /\ (events[n].t <= to <=> n <= q)
  BY <1>2, <1>6, <1>7
<1>9. N \in Nat /\ p \in Nat /\ q \in Nat /\ p <= N /\ q <= N
  BY <1>2
<1>10. p <= q
  <2>1. CASE p = 0
    BY <1>9, <2>1
  <2>2. CASE p # 0
    <3>1. p \in 1 .. N
      BY <1>2, <1>9, <2>2
    <3> QED BY <1>2, <1>8, <3>1
  <2> QED BY <2>1, <2>2
<1>11. inside = p + 1 .. q
  BY <1>2, <1>8, <1>9
<1>12. /\ Cardinality(before) = p /\ Cardinality(inside) = q - p
       /\ Chosen(shown, p + 1 .. q) = [n \in 1 .. q - p |-> shown[p + n]]
  <2>1. Cardinality(1 .. p) = p
    BY <1>9, FS_Interval
  <2>2. p + 1 \in Nat /\ p + 1 <= q + 1 /\ q - (p + 1) + 1 = q - p
        /\ \A n \in 1 .. q - p : (p + 1) + n - 1 = p + n
    BY <1>9, <1>10
  <2> HIDE DEF shown
  <2>3. /\ Cardinality(p + 1 .. q) = q - (p + 1) + 1
        /\ Chosen(shown, p + 1 .. q) = [n \in 1 .. q - (p + 1) + 1 |-> shown[(p + 1) + n - 1]]
    BY <1>9, <2>2, ChosenInterval
  <2>4. [n \in 1 .. q - (p + 1) + 1 |-> shown[(p + 1) + n - 1]] = [n \in 1 .. q - p |-> shown[p + n]]
    BY <2>2
  <2> QED BY <1>6, <1>11, <2>1, <2>2, <2>3, <2>4
<1>13. from - 1 \in Int /\ \A n \in 1 .. N : events[n].t <= from - 1 <=> n <= p
  BY <1>2, <1>8
<1>14. \/ start = 0 /\ \A n \in 1 .. p : events[n].k # "FULL"
       \/ start \in 1 .. p /\ events[start].k = "FULL"
  <2>1. \/ start = 0 /\ \A n \in DOMAIN events : events[n].t <= from - 1 => events[n].k # "FULL"
        \/ start \in DOMAIN events /\ events[start].k = "FULL" /\ events[start].t <= from - 1
    BY <1>1, <1>13, LatestCheckpoint DEF ChainInv
  <2> HIDE DEF start
  <2> QED BY <1>2, <1>9, <1>13, <2>1
<1>15. \A n \in 1 .. N : Recorded(n) => (observed[n].reason = NoReason <=> events[n].k # "GAP")
  BY DEF Recorded
<1>16. \A n \in 1 .. N : StatesOf(events)[n] = whole[n]
  BY <1>2 DEF StatesOf
<1>17. /\ read = (IF start = 0 THEN p + 1 ELSE start) .. q
       /\ early = IF start = 0 THEN {} ELSE start .. p
  <2> HIDE DEF start
  <2>1. CASE start = 0
    BY <1>2, <1>8, <1>9, <2>1
  <2>2. CASE start \in 1 .. p
    <3>1. \A n : n \in read <=> n \in start .. q
      BY <1>2, <1>8, <1>9, <1>10, <2>2
    <3>2. \A n : n \in early <=> n \in start .. p
      <4> HIDE DEF read
      <4> QED BY <1>2, <1>8, <1>9, <1>10, <2>2, <3>1
    <3> HIDE DEF read, early
    <3>3. read = start .. q
      BY <3>1
    <3>4. early = start .. p
      BY <3>2
    <3>5. start # 0
      BY <2>2
    <3> QED BY <3>3, <3>4, <3>5
  <2> QED BY <1>14, <2>1, <2>2
<1> DEFINE lo == IF start = 0 THEN p + 1 ELSE start
<1>18. /\ lo \in 1 .. N + 1 /\ lo <= p + 1 /\ lo <= q + 1 /\ read = lo .. q
       /\ read \ early = p + 1 .. q
  <2> HIDE DEF start, read, early
  <2>1. lo \in 1 .. N + 1 /\ lo <= p + 1 /\ lo <= q + 1 /\ read = lo .. q
    <3>1. read = lo .. q
      BY <1>17
    <3>2. CASE start = 0
      BY <1>9, <1>10, <3>1, <3>2
    <3>3. CASE start \in 1 .. p
      <4>1. lo = start
        BY <3>3
      <4> HIDE DEF lo
      <4> QED BY <1>9, <1>10, <3>1, <3>3, <4>1
    <3> QED BY <1>14, <3>2, <3>3
  <2>2. read \ early = p + 1 .. q
    <3>1. CASE start = 0
      BY <1>17, <3>1
    <3>2. CASE start \in 1 .. p
      BY <1>9, <1>10, <1>17, <3>2
    <3> QED BY <1>14, <3>1, <3>2
  <2> QED BY <2>1, <2>2
<1>19. start = 0 => /\ SameView(whole[p], EmptyTopState)
                    /\ \A n \in 1 .. p : events[n].k = "GAP"
  <2> SUFFICES ASSUME start = 0 PROVE /\ SameView(whole[p], EmptyTopState)
                                      /\ \A n \in 1 .. p : events[n].k = "GAP"
    OBVIOUS
  <2>1. \A n \in 1 .. p : n \in 1 .. N
    BY <1>9
  <2>2. \A n \in 1 .. p : events[n].k # "FULL"
    BY <1>14
  <2>3. \A n \in 1 .. p : /\ events[n].k \in EventKinds \ {"FULL"}
                          /\ Applicable(whole[n - 1], events[n])
    BY <1>3, <2>1, <2>2 DEF DecodedAt, Recorded
  <2> QED BY <1>2, <1>9, <2>3, NothingBeforeFull
<1>20. \A n \in lo .. q : SameView(over[n], whole[n])
  <2>1. (lo <= q => events[lo].k = "FULL") \/ SameView(whole[lo - 1], EmptyTopState)
    <3>1. CASE start = 0
      <4>1. lo - 1 = p
        BY <1>9, <3>1
      <4> QED BY <1>19, <3>1, <4>1
    <3>2. CASE start \in 1 .. p /\ events[start].k = "FULL"
      BY <3>2
    <3> QED BY <1>14, <3>1, <3>2
  <2> HIDE DEF lo, read
  <2>2. lo \in 1 .. N + 1 /\ q \in 0 .. N /\ lo <= q + 1
    BY <1>18
  <2>3. \A n \in lo .. q : SameView(ReplayedOver(EmptyTopState, events, lo .. q)[n], whole[n])
    BY <1>2, <2>1, <2>2, LaterReplay
  <2> QED BY <1>18, <2>3
<1> HIDE DEF read, start, lo, early, before, inside, whole, N
<1>21. History(events, from, to).samples =
         [n \in 1 .. Cardinality(inside) |->
            Sample(events[Cardinality(before) + n], StatesOf(events)[Cardinality(before) + n])]
  <2>1. ASSUME NEW n \in 1 .. q - p
        PROVE  shown[p + n] = Sample(events[p + n], StatesOf(events)[p + n])
    <3>1. p + n \in 1 .. N /\ p + n \in lo .. q
      <4>1. p + n \in p + 1 .. q
        BY <1>9
      <4> QED BY <1>9, <1>18, <4>1
    <3>2. SameView(over[p + n], StatesOf(events)[p + n])
      BY <1>16, <1>20, <3>1
    <3>3. shown[p + n] = Sample(events[p + n], over[p + n])
      BY <1>2, <3>1
    <3> HIDE DEF over, shown
    <3> QED BY <3>2, <3>3 DEF SameView, Sample
  <2> HIDE DEF shown
  <2> QED BY <1>5, <1>12, <1>18, <2>1
<1>22. /\ early = {} <=> ~\E n \in before : observed[n].reason = NoReason
       /\ early # {} => /\ Greatest(early) = p /\ p \in 1 .. N
                        /\ SameView(over[p], StatesOf(events)[p])
  <2>1. \A n \in 1 .. N : observed[n].reason = NoReason <=> events[n].k # "GAP"
    BY <1>3, <1>15
  <2>2. CASE start = 0
    <3>1. \A n \in 1 .. p : n \in 1 .. N /\ events[n].k = "GAP"
      BY <1>9, <1>19, <2>2
    <3> QED BY <1>6, <1>17, <2>1, <2>2, <3>1
  <2>3. CASE start \in 1 .. p /\ events[start].k = "FULL"
    <3>1. early = start .. p /\ start \in 1 .. N /\ start # 0
      BY <1>9, <1>17, <2>3
    <3>2. observed[start].reason = NoReason /\ start \in before
      BY <1>6, <2>1, <2>3, <3>1
    <3>3. p \in early /\ early \subseteq 1 .. N /\ \A n \in early : n <= p
      BY <1>9, <2>3, <3>1
    <3>4. Greatest(early) \in early /\ \A n \in early : n <= Greatest(early)
      BY <1>2, <3>3, GreatestIs
    <3>5. Greatest(early) = p /\ p \in 1 .. N
      <4>1. Greatest(early) \in 1 .. N /\ Greatest(early) <= p /\ p <= Greatest(early)
        BY <3>3, <3>4
      <4> QED BY <1>2, <1>9, <3>3, <4>1
    <3>6. p \in lo .. q
      BY <1>9, <1>10, <2>3, <3>1 DEF lo
    <3>7. SameView(over[p], StatesOf(events)[p])
      BY <1>16, <1>20, <3>5, <3>6
    <3> QED BY <3>2, <3>3, <3>5, <3>7
  <2> QED BY <1>14, <2>2, <2>3
<1>23. History(events, from, to).baseline =
         IF \E n \in before : observed[n].reason = NoReason
         THEN [at |-> events[Cardinality(before)].t,
               ranking |-> StatesOf(events)[Cardinality(before)].ranking,
               gap |-> StatesOf(events)[Cardinality(before)].gap]
         ELSE NoBaseline
  <2>1. CASE early = {}
    BY <1>5, <1>22, <2>1
  <2>2. CASE early # {}
    <3>1. History(events, from, to).baseline =
            [at |-> events[p].t, ranking |-> over[p].ranking, gap |-> over[p].gap]
      BY <1>5, <1>22, <2>2
    <3>2. /\ over[p].ranking = StatesOf(events)[p].ranking
          /\ over[p].gap = StatesOf(events)[p].gap
      BY <1>22, <2>2 DEF SameView
    <3> QED BY <1>12, <1>22, <2>2, <3>1, <3>2
  <2> QED BY <2>1, <2>2
<1> QED BY <1>21, <1>23 DEF before, inside

\* Every range of the history is answered exactly.
THEOREM EveryRangeIsExact == ChainSpec => []HistoryIsSlice
<1>1. ASSUME ChainInv PROVE HistoryIsSlice
  <2>1. \A t \in Times : t \in Nat
    BY ChainAssumption DEF Times
  <2> QED BY <1>1, <2>1, ChainIsSliced DEF HistoryIsSlice
<1> QED BY <1>1, ChainInvariance, PTL

\* A sample that has to have a point, and one taken after the end.
Stored(m) ==
  observed[m].reason = NoReason /\ observed[m].at < EndAt /\ observed[m].ranking # <<>>

Final(m) == observed[m].reason = NoReason /\ observed[m].at >= EndAt

LastFinal(m, n) ==
  Final(m) /\ observed[m].ranking # <<>> /\ \A k \in 1 .. n : Final(k) => k <= m

PointAt(time, m) == [time |-> time, ranking |-> observed[m].ranking]

\* What the points say of the first n samples.
PointsTell(points, n) ==
  /\ points \in Seq(PointType) /\ Rising(points)
  /\ \A m \in 1 .. n : Stored(m) => \E p \in DOMAIN points : points[p] = PointAt(observed[m].at, m)
  /\ \A m \in 1 .. n : LastFinal(m, n) => /\ points # <<>>
                                          /\ points[Len(points)] = PointAt(EndAt, m)

LEMMA NextPoint ==
  ASSUME ChainInv, NEW n \in Nat, n + 1 \in DOMAIN events, PointsTell(PointsAfter(events)[n], n)
  PROVE  PointsTell(PointsAfter(events)[n + 1], n + 1)
<1> DEFINE N == Len(events)
           before == PointsAfter(events)[n]
           after == PointsAfter(events)[n + 1]
           obs == observed[n + 1]
           time == IF obs.at >= EndAt THEN EndAt ELSE obs.at
<1>1. N \in Nat /\ DOMAIN events = 1 .. N
  BY DEF ChainInv
<1>2. \A m \in 1 .. n + 1 : /\ observed[m].at \in Nat /\ observed[m].ranking \in RankingType
                            /\ m # n + 1 => m \in 1 .. n /\ observed[m].at < obs.at
  <2>1. \A m \in 1 .. n + 1 : /\ m \in 1 .. N /\ Recorded(m) /\ events[m].t \in Nat
                              /\ m # n + 1 => m \in 1 .. n /\ events[m].t < events[n + 1].t
    BY <1>1 DEF ChainInv, Ordered
  <2>2. n + 1 \in 1 .. n + 1
    OBVIOUS
  <2>3. \A m \in 1 .. n + 1 : events[m].t = observed[m].at /\ observed[m].ranking \in RankingType
    BY <2>1 DEF Recorded
  <2> QED BY <2>1, <2>2, <2>3
<1>3. /\ n + 1 \in 1 .. N /\ (n + 1) - 1 = n /\ n + 1 \in 1 .. n + 1
      /\ Recorded(n + 1) /\ DecodedAt(n + 1)
  BY <1>1 DEF ChainInv
<1>4. after = IF events[n + 1].k = "GAP" THEN before
              ELSE AddPoint(before, IF events[n + 1].e # None THEN events[n + 1].e
                                    ELSE events[n + 1].t,
                            Replayed(EmptyTopState, events)[n + 1].ranking)
  BY <1>1, <1>3, PointsAfterSteps
<1>5. EndAt \in Nat /\ EndAt # None
  BY ChainAssumption DEF None
<1>6. /\ obs.reason # NoReason => after = before
      /\ obs.reason = NoReason => after = AddPoint(before, time, obs.ranking)
  BY <1>3, <1>4, <1>5 DEF Recorded, DecodedAt
<1>7. PointsTell(before, n)
  OBVIOUS
<1>8. obs.at \in Nat /\ obs.ranking \in RankingType /\ time \in Nat
  BY <1>2, <1>3, <1>5
<1> SUFFICES PointsTell(after, n + 1)
  OBVIOUS
<1> HIDE DEF before, after, time
<1>9. CASE obs.reason # NoReason
  <2>1. ~Stored(n + 1) /\ ~Final(n + 1)
    BY <1>9 DEF Stored, Final
  <2>2. \A m \in 1 .. n + 1 : Stored(m) => m \in 1 .. n
    BY <1>2, <2>1
  <2>3. \A m \in 1 .. n + 1 : LastFinal(m, n + 1) => m \in 1 .. n /\ LastFinal(m, n)
    <3>1. \A k \in 1 .. n : k \in 1 .. n + 1
      OBVIOUS
    <3> QED BY <1>2, <2>1, <3>1 DEF LastFinal
  <2> QED BY <1>6, <1>7, <1>9, <2>2, <2>3 DEF PointsTell
<1>10. CASE obs.reason = NoReason
  <2>1. Added(before, time, obs.ranking, after)
    <3>1. before \in Seq(PointType) /\ Rising(before)
      BY <1>7 DEF PointsTell
    <3>2. after = AddPoint(before, time, obs.ranking)
      BY <1>6, <1>10
    <3> HIDE DEF obs
    <3> QED BY <1>8, <3>1, <3>2, AddPointIs
  <2>2. /\ \A p \in DOMAIN before : before[p].time < time =>
             \E m \in DOMAIN after : after[m] = before[p]
        /\ obs.ranking # <<>> => /\ Len(after) \in DOMAIN after
                                 /\ after[Len(after)] = PointAt(time, n + 1)
    BY <2>1 DEF Added, PointAt
  <2>3. ASSUME NEW m \in 1 .. n + 1, Stored(m)
        PROVE  \E p \in DOMAIN after : after[p] = PointAt(observed[m].at, m)
    <3>1. CASE m = n + 1
      <4>1. time = obs.at /\ obs.ranking # <<>>
        BY <1>5, <1>8, <2>3, <3>1 DEF time, Stored
      <4> QED BY <2>2, <3>1, <4>1
    <3>2. CASE m # n + 1
      <4>1. m \in 1 .. n /\ observed[m].at < obs.at /\ observed[m].at \in Nat
        BY <1>2, <3>2
      <4>2. observed[m].at < time
        BY <1>5, <1>8, <2>3, <4>1 DEF time, Stored
      <4>3. PICK p \in DOMAIN before : before[p] = PointAt(observed[m].at, m)
        BY <1>7, <2>3, <4>1 DEF PointsTell
      <4>4. before[p].time < time
        BY <4>2, <4>3 DEF PointAt
      <4> QED BY <2>2, <4>3, <4>4
    <3> QED BY <3>1, <3>2
  <2>4. ASSUME NEW m \in 1 .. n + 1, LastFinal(m, n + 1)
        PROVE  after # <<>> /\ after[Len(after)] = PointAt(EndAt, m)
    <3>1. m = n + 1
      <4>1. CASE m # n + 1
        <5>1. observed[m].at < obs.at /\ observed[m].at \in Nat /\ observed[m].at >= EndAt
          BY <1>2, <2>4, <4>1 DEF LastFinal, Final
        <5>2. Final(n + 1)
          BY <1>5, <1>8, <1>10, <5>1 DEF Final
        <5>3. n + 1 <= m
          BY <1>3, <2>4, <5>2 DEF LastFinal
        <5> QED BY <4>1, <5>3
      <4> QED BY <4>1
    <3>2. time = EndAt /\ obs.ranking # <<>>
      BY <2>4, <3>1 DEF time, LastFinal, Final
    <3>3. after # <<>>
      BY <2>2, <3>2
    <3> QED BY <2>2, <3>1, <3>2, <3>3
  <2>5. after \in Seq(PointType) /\ Rising(after)
    BY <2>1 DEF Added
  <2> QED BY <2>3, <2>4, <2>5 DEF PointsTell
<1> QED BY <1>9, <1>10

LEMMA EveryPoint == ASSUME ChainInv PROVE PointsTell(PointsAfter(events)[Len(events)], Len(events))
<1> DEFINE N == Len(events)
           Tell(n) == PointsTell(PointsAfter(events)[n], n)
           T == {n \in Nat : n <= N => Tell(n)}
<1>1. N \in Nat /\ DOMAIN events = 1 .. N
  BY DEF ChainInv
<1>2. 0 \in T
  <2>1. PointsAfter(events)[0] = <<>>
    BY <1>1, PointsAfterSteps
  <2>2. <<>> \in Seq(PointType) /\ Rising(<<>>)
    BY DEF Rising
  <2>3. Tell(0)
    BY <2>1, <2>2 DEF PointsTell
  <2> HIDE DEF Tell
  <2> QED BY <2>3
<1>3. ASSUME NEW n \in Nat, n \in T PROVE n + 1 \in T
  <2>1. n + 1 <= N => Tell(n) /\ n + 1 \in DOMAIN events
    <3> HIDE DEF Tell
    <3> QED BY <1>1, <1>3
  <2>2. n + 1 <= N => Tell(n + 1)
    BY <2>1, NextPoint
  <2> HIDE DEF N, Tell
  <2> QED BY <2>2
<1>4. \A n \in Nat : n \in T
  <2> HIDE DEF T
  <2> QED BY <1>2, <1>3, SetInduction
<1> QED BY <1>1, <1>4

\* The points of the chain are those after its last event.
LEMMA PointsAre == ASSUME ChainInv PROVE Points(events) = PointsAfter(events)[Len(events)]
<1>1. PICK S : events \in Seq(S)
  BY DEF ChainInv
<1> QED BY <1>1, ByTimeInOrder DEF Points, ChainInv

\* The compatibility points are in the order of time, one snapshot per time,
\* none that was sampled is missing, and the last is the final one.
THEOREM CompatiblePointsAreFinal == ChainSpec => []PointsAreFinal
<1>1. ASSUME ChainInv PROVE PointsAreFinal
  <2> DEFINE points == Points(events)
             finals == {n \in DOMAIN observed :
                          observed[n].reason = NoReason /\ observed[n].at >= EndAt}
             final == CHOOSE n \in finals : \A m \in finals : m <= n
  <2>1. DOMAIN observed = 1 .. Len(events) /\ Len(events) \in Nat
    BY <1>1 DEF ChainInv
  <2>2. PointsTell(points, Len(events))
    BY <1>1, EveryPoint, PointsAre
  <2>3. /\ points \in Seq(PointType) /\ Rising(points)
        /\ \A m \in DOMAIN observed :
             observed[m].reason = NoReason /\ observed[m].at < EndAt /\ observed[m].ranking # <<>>
               => \E p \in DOMAIN points :
                    points[p] = [time |-> observed[m].at, ranking |-> observed[m].ranking]
    <3> HIDE DEF points
    <3> QED BY <2>1, <2>2 DEF PointsTell, Stored, PointAt
  <2>4. ASSUME finals # {}, observed[final].ranking # <<>>
        PROVE  points[Len(points)] = [time |-> EndAt, ranking |-> observed[final].ranking]
    <3>1. final \in finals /\ \A m \in finals : m <= final
      <4>1. finals \subseteq 1 .. Len(events)
        BY <2>1
      <4> HIDE DEF finals
      <4> QED BY <2>1, <2>4, <4>1, GreatestIs DEF Greatest
    <3>2. \A k \in 1 .. Len(events) : Final(k) <=> k \in finals
      BY <2>1 DEF Final
    <3> HIDE DEF final, points, finals
    <3>3. final \in 1 .. Len(events) /\ LastFinal(final, Len(events))
      <4>1. finals \subseteq 1 .. Len(events)
        BY <2>1 DEF finals
      <4> QED BY <2>4, <3>1, <3>2, <4>1 DEF LastFinal
    <3> QED BY <2>2, <3>3 DEF PointsTell, PointAt
  <2>5. \A n \in 1 .. Len(points) - 1 : points[n].time < points[n + 1].time
    <3>1. Len(points) \in Nat /\ DOMAIN points = 1 .. Len(points)
      BY <2>3
    <3> HIDE DEF points
    <3> QED BY <2>3, <3>1 DEF Rising
  <2> HIDE DEF points, final
  <2>6. finals # {} /\ observed[final].ranking # <<>> =>
          points[Len(points)] = [time |-> EndAt, ranking |-> observed[final].ranking]
    BY <2>4
  <2> QED BY <2>3, <2>5, <2>6 DEF PointsAreFinal, points, final
<1> QED BY <1>1, ChainInvariance, PTL

\* Before the V1 history is migrated, the merged view keeps the order of time
\* and every V2 point, and every V1 point older than those.
THEOREM MergedViewLosesNothing == ChainSpec => []MergedViewInOrder
<1>1. ASSUME ChainInv PROVE MergedViewInOrder
  <2> DEFINE points == Points(events)
             merged == Compatible(FALSE, Legacy, events)
             M == Len(Legacy)
             older == {n \in DOMAIN Legacy : Legacy[n].time < points[1].time}
             has(p) == \E n \in DOMAIN merged : merged[n] = p
  <2>1. points \in Seq(PointType) /\ Rising(points)
    BY <1>1, EveryPoint, PointsAre DEF PointsTell
  <2>2. /\ Legacy \in Seq(PointType) /\ Rising(Legacy)
        /\ M \in Nat /\ DOMAIN Legacy = 1 .. M
    BY ChainAssumption DEF PointType, RankingType, Rising
  <2>3. merged = IF points = <<>> THEN Legacy ELSE Chosen(Legacy, older) \o points
    BY DEF Compatible
  <2> HIDE DEF points, merged
  <2>4. /\ Len(points) \in Nat /\ DOMAIN points = 1 .. Len(points)
        /\ \A n \in 1 .. Len(points) : points[n] \in PointType /\ points[n].time \in Nat
        /\ \A n \in 1 .. M : Legacy[n] \in PointType /\ Legacy[n].time \in Nat
    <3>1. \A p \in PointType : p.time \in Nat
      BY DEF PointType
    <3>2. \A n \in 1 .. Len(points) : points[n] \in PointType
      BY <2>1
    <3>3. \A n \in 1 .. M : Legacy[n] \in PointType
      BY <2>2
    <3>4. Len(points) \in Nat /\ DOMAIN points = 1 .. Len(points)
      BY <2>1
    <3> QED BY <3>1, <3>2, <3>3, <3>4
  <2>5. CASE points = <<>>
    <3>1. merged = Legacy
      BY <2>3, <2>5
    <3>2. \A n \in 1 .. Len(merged) - 1 : merged[n].time < merged[n + 1].time
      BY <2>2, <3>1 DEF Rising
    <3>3. DOMAIN points = {}
      BY <2>5
    <3>4. \A n \in DOMAIN Legacy : has(Legacy[n])
      BY <3>1
    <3> HIDE DEF has
    <3> QED BY <3>2, <3>3, <3>4 DEF MergedViewInOrder, has, points, merged
  <2>6. CASE points # <<>>
    <3>1. 1 \in 1 .. Len(points)
      BY <2>1, <2>4, <2>6
    <3>2. PICK c \in 0 .. M : older = 1 .. c
      <4>1. older \subseteq 1 .. M
        BY <2>2
      <4>2. \A y \in older : \A x \in 1 .. M : x < y => x \in older
        BY <2>2, <2>4, <3>1 DEF Rising
      <4> HIDE DEF older, M
      <4> QED BY <2>2, <4>1, <4>2, Beginning
    <3> DEFINE front == [n \in 1 .. c |-> Legacy[n]]
    <3>3. c \in Nat /\ c <= M /\ \A n \in 1 .. M : n <= c <=> Legacy[n].time < points[1].time
      BY <2>2, <3>2
    <3>4. Chosen(Legacy, older) = front
      <4>1. 1 \in Nat /\ 1 <= c + 1 /\ c - 1 + 1 = c /\ \A n \in 1 .. c : 1 + n - 1 = n
        BY <3>3
      <4>2. Chosen(Legacy, 1 .. c) = [n \in 1 .. c - 1 + 1 |-> Legacy[1 + n - 1]]
        BY <3>3, <4>1, ChosenInterval
      <4> HIDE DEF older
      <4> QED BY <3>2, <4>1, <4>2
    <3>5. front \in Seq(PointType) /\ Len(front) = c /\ \A n \in 1 .. c : front[n] = Legacy[n]
      <4>1. \A n \in 1 .. c : Legacy[n] \in PointType
        BY <2>2, <2>4, <3>3
      <4> QED BY <3>3, <4>1
    <3> HIDE DEF front, older, M
    <3>6. /\ Len(merged) = c + Len(points) /\ DOMAIN merged = 1 .. c + Len(points)
          /\ \A n \in 1 .. c : merged[n] = Legacy[n]
          /\ \A n \in 1 .. Len(points) : merged[c + n] = points[n]
      <4>1. merged = front \o points
        BY <2>3, <2>6, <3>4
      <4>2. /\ merged \in Seq(PointType) /\ Len(merged) = c + Len(points)
            /\ \A n \in 1 .. c + Len(points) :
                 merged[n] = IF n <= c THEN front[n] ELSE points[n - c]
        BY <2>1, <3>5, <4>1, ConcatProperties
      <4>3. \A n \in 1 .. c : n \in 1 .. c + Len(points) /\ n <= c
        BY <2>4, <3>3
      <4>4. \A n \in 1 .. Len(points) :
              c + n \in 1 .. c + Len(points) /\ ~(c + n <= c) /\ (c + n) - c = n
        BY <2>4, <3>3
      <4> QED BY <3>5, <4>1, <4>2, <4>3, <4>4
    <3>7. ASSUME NEW n \in 1 .. Len(merged) - 1 PROVE merged[n].time < merged[n + 1].time
      <4>1. CASE n + 1 <= c
        <5>1. n \in 1 .. c /\ n + 1 \in 1 .. c /\ n \in 1 .. M /\ n + 1 \in 1 .. M /\ n < n + 1
          BY <2>2, <3>3, <4>1
        <5>2. Legacy[n].time < Legacy[n + 1].time
          BY <2>2, <5>1 DEF Rising
        <5> QED BY <3>6, <5>1, <5>2
      <4>2. CASE n = c
        <5>1. n \in 1 .. c /\ c \in 1 .. M
          BY <2>2, <3>3, <4>2
        <5>2. merged[n] = Legacy[c] /\ merged[n + 1] = points[1]
          BY <3>1, <3>6, <4>2, <5>1
        <5> QED BY <3>3, <5>1, <5>2
      <4>3. CASE n > c
        <5>1. /\ n - c \in 1 .. Len(points) /\ n + 1 - c \in 1 .. Len(points)
              /\ n = c + (n - c) /\ n + 1 = c + (n + 1 - c) /\ n - c < n + 1 - c
          BY <2>4, <3>3, <3>6, <4>3
        <5>2. merged[n] = points[n - c] /\ merged[n + 1] = points[n + 1 - c]
          BY <3>6, <5>1
        <5> QED BY <2>1, <2>4, <5>1, <5>2 DEF Rising
      <4> QED BY <2>4, <3>3, <3>6, <4>1, <4>2, <4>3
    <3>8. ASSUME NEW n \in DOMAIN points PROVE has(points[n])
      <4>1. c + n \in DOMAIN merged /\ merged[c + n] = points[n]
        BY <2>4, <3>3, <3>6
      <4> QED BY <4>1
    <3>9. ASSUME NEW n \in DOMAIN Legacy, \A k \in DOMAIN points : Legacy[n].time < points[k].time
          PROVE  has(Legacy[n])
      <4>1. n \in 1 .. M /\ Legacy[n].time < points[1].time
        BY <2>2, <2>4, <3>1, <3>9
      <4>2. n \in 1 .. c /\ n \in DOMAIN merged
        BY <2>4, <3>3, <3>6, <4>1
      <4> QED BY <3>6, <4>2
    <3> HIDE DEF has
    <3> QED BY <3>7, <3>8, <3>9 DEF MergedViewInOrder, has, points, merged
  <2> QED BY <2>5, <2>6
<1> QED BY <1>1, ChainInvariance, PTL
=============================================================================
