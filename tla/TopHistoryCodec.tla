--------------------------- MODULE TopHistoryCodec ---------------------------
(***************************************************************************)
(* The incremental encoding of Top rankings: one compact event per         *)
(* sampling attempt, FULL events being the checkpoints the PATCH and SAME  *)
(* events after them build on.  Pure operators; the state machines that    *)
(* use them are TopEventChain and TopHistory.                              *)
(*                                                                         *)
(* A ranking is a sequence of <<uid, score>>, best first.  `undefined' and *)
(* `null' numbers are None.  The code sets ranking and lastFullAt of a     *)
(* state together and never clears either, so a state without a ranking    *)
(* (null) is one whose lastFullAt is None.  A PATCH is the function from   *)
(* the changed ranks to their new scores.                                  *)
(***************************************************************************)
EXTENDS Integers, Sequences

CONSTANTS
  HourMs,           \* length of the checkpoint period, one UTC hour
  MaxCardinality    \* rows a Top response may hold, 10

ASSUME HourAssumption == HourMs \in Nat \ {0}
ASSUME CardinalityAssumption == MaxCardinality \in Nat

None == -1
NoReason == "none"
GapReasons == {"timeout", "http_error", "rejected", "unavailable", "fetch_error"}
EventKinds == {"FULL", "PATCH", "SAME", "GAP"}

UidAt(ranking, rank) == ranking[rank][1]
ScoreAt(ranking, rank) == ranking[rank][2]

\* validateTopRanking: at most ten rows, real players, each listed once.
ValidRanking(ranking) ==
  /\ Len(ranking) <= MaxCardinality
  /\ \A k \in DOMAIN ranking : UidAt(ranking, k) >= 1 /\ ScoreAt(ranking, k) >= 0
  /\ \A j, k \in DOMAIN ranking : UidAt(ranking, j) = UidAt(ranking, k) => j = k

EmptyTopState ==
  [ranking |-> <<>>, lastAt |-> 0, lastSuccessAt |-> None, lastFullAt |-> None,
   lastScheduledAt |-> None, lastIntervalMs |-> None, gap |-> TRUE]

HasRanking(state) == state.lastFullAt # None

-----------------------------------------------------------------------------
(* encodeTopObservation *)

SameOrder(r1, r2) ==
  /\ Len(r1) = Len(r2)
  /\ \A k \in DOMAIN r1 : UidAt(r1, k) = UidAt(r2, k)

\* The ranks whose score differs from the previous ranking.
ChangedRanks(ranking, previous) ==
  {k \in DOMAIN ranking : ScoreAt(ranking, k) # ScoreAt(previous, k)}

\* A new hour has begun since the last checkpoint, or there is none.
DueFull(at, state) ==
  \/ state.lastFullAt = None
  \/ at \div HourMs # state.lastFullAt \div HourMs

\* Faulty variant: a gap of one slot is not named.
FaultySkipsOne(obs, state) ==
  LET first == state.lastScheduledAt + state.lastIntervalMs
      last  == obs.scheduledAt - obs.intervalMs
  IN  IF state.lastScheduledAt # None /\ obs.scheduledAt # None /\ first < last
      THEN <<first, last>> ELSE <<>>

\* `g': the first and last planned slot skipped since the last attempt.
SkippedSlots(obs, state) ==
  LET step == IF state.lastIntervalMs = None THEN obs.intervalMs
                                             ELSE state.lastIntervalMs
      firstMissing == state.lastScheduledAt + step
      lastMissing  == obs.scheduledAt - obs.intervalMs
  IN  IF /\ state.lastScheduledAt # None
         /\ obs.scheduledAt # None
         /\ firstMissing <= lastMissing
      THEN <<firstMissing, lastMissing>>
      ELSE <<>>

\* The encoder throws on a time older than the chain and on a bad ranking.
Encodable(obs, state) ==
  /\ obs.at >= state.lastAt
  /\ obs.reason = NoReason => ValidRanking(obs.ranking)

\* Faulty variant: a change of order or of members is overlooked.
FaultyFullIgnoresOrder(obs, state) ==
  obs.forceFull \/ obs.effectiveAt # None \/ state.gap \/ ~HasRanking(state)

MustBeFull(obs, state) ==
  \/ obs.forceFull
  \/ obs.effectiveAt # None
  \/ state.gap
  \/ SkippedSlots(obs, state) # <<>>
  \/ DueFull(obs.at, state)
  \/ ~HasRanking(state)
  \/ ~SameOrder(obs.ranking, state.ranking)

\* The kind of the event and its payload.
Payload(obs, state) ==
  IF obs.reason # NoReason THEN [k |-> "GAP", d |-> <<>>]
  ELSE IF MustBeFull(obs, state) THEN [k |-> "FULL", d |-> obs.ranking]
  ELSE LET changed == ChangedRanks(obs.ranking, state.ranking)
       IN  CASE changed = {} -> [k |-> "SAME", d |-> <<>>]
             [] changed # {} /\ changed = DOMAIN obs.ranking ->
                  [k |-> "FULL", d |-> obs.ranking]
             [] OTHER ->
                  [k |-> "PATCH", d |-> [r \in changed |-> ScoreAt(obs.ranking, r)]]

Encode(obs, state) ==
  LET payload == Payload(obs, state)
  IN  [id |-> obs.id, t |-> obs.at, k |-> payload.k, d |-> payload.d,
       r |-> obs.reason, a |-> obs.scheduledAt, e |-> obs.effectiveAt,
       i |-> IF obs.scheduledAt # None \/ obs.effectiveAt # None
             THEN obs.intervalMs ELSE None,
       g |-> SkippedSlots(obs, state)]

-----------------------------------------------------------------------------
(* applyTopEvent *)

Patched(ranking, patch) ==
  [k \in DOMAIN ranking |->
     IF k \in DOMAIN patch THEN <<UidAt(ranking, k), patch[k]>> ELSE ranking[k]]

\* Everything applyTopEvent refuses to decode.
Applicable(state, event) ==
  CASE event.k = "GAP"   -> TRUE
    [] event.k = "FULL"  -> ValidRanking(event.d)
    [] event.k = "SAME"  -> HasRanking(state) /\ ~state.gap
    [] event.k = "PATCH" -> /\ HasRanking(state) /\ ~state.gap
                            /\ DOMAIN event.d \subseteq DOMAIN state.ranking
                            /\ \A r \in DOMAIN event.d : event.d[r] >= 0

Apply(state, event) ==
  [ranking |-> CASE event.k = "FULL"  -> event.d
                 [] event.k = "PATCH" -> Patched(state.ranking, event.d)
                 [] OTHER             -> state.ranking,
   lastAt |-> event.t,
   lastSuccessAt |-> IF event.k = "GAP" THEN state.lastSuccessAt ELSE event.t,
   lastFullAt |-> IF event.k = "FULL" THEN event.t ELSE state.lastFullAt,
   lastScheduledAt |-> IF event.e # None THEN None
                       ELSE IF event.a # None THEN event.a
                       ELSE state.lastScheduledAt,
   lastIntervalMs |-> IF event.i # None THEN event.i ELSE state.lastIntervalMs,
   gap |-> event.k = "GAP"]
=============================================================================
