------------------------ MODULE TopHistoryStore_proofs ------------------------
(***************************************************************************)
(* What an encoded observation decodes to, for every ranking and every     *)
(* state of the chain: the decoder accepts it, and gives back exactly what *)
(* was observed.  And what a replay of stored events leads to: from the    *)
(* latest checkpoint the same rankings as from the start of the chain,     *)
(* from any checkpoint the same samples.  And how the points of successive *)
(* snapshots follow from one another.                                      *)
(***************************************************************************)
EXTENDS TopHistoryStore, FiniteSetTheorems, WellFoundedInduction, TLAPS

-----------------------------------------------------------------------------
(* One event *)

RankingType == Seq(Nat \X Nat)

\* What the proofs need of an observation and of a state.
ObservationOK(obs) ==
  /\ obs.ranking \in RankingType
  /\ obs.reason \in GapReasons \cup {NoReason}

StateOK(state) ==
  /\ state.ranking \in RankingType
  /\ state.gap \in BOOLEAN

LEMMA RowIsPair ==
  ASSUME NEW r \in RankingType, NEW k \in DOMAIN r
  PROVE  r[k] = <<UidAt(r, k), ScoreAt(r, k)>> /\ ScoreAt(r, k) \in Nat
<1>1. r[k] \in Nat \X Nat
  BY DEF RankingType
<1>2. ASSUME NEW p \in Nat \X Nat
      PROVE  p = <<p[1], p[2]>> /\ p[2] \in Nat
  OBVIOUS
<1> QED BY <1>1, <1>2 DEF UidAt, ScoreAt

\* The changed ranks are ranks of both rankings when their order is the same.
LEMMA ChangedRanksAreShared ==
  ASSUME NEW r1 \in RankingType, NEW r2 \in RankingType, SameOrder(r1, r2)
  PROVE  /\ DOMAIN r1 = DOMAIN r2
         /\ ChangedRanks(r1, r2) \subseteq DOMAIN r2
<1>1. Len(r1) = Len(r2)
  BY DEF SameOrder
<1>2. DOMAIN r1 = 1 .. Len(r1) /\ DOMAIN r2 = 1 .. Len(r2)
  BY DEF RankingType
<1> QED BY <1>1, <1>2 DEF ChangedRanks

\* Writing the changed scores over the old ranking gives the new one
\* (encodeTopObservation's PATCH against applyTopEvent's).
LEMMA PatchRestores ==
  ASSUME NEW new \in RankingType, NEW old \in RankingType, SameOrder(new, old)
  PROVE  Patched(old, [r \in ChangedRanks(new, old) |-> ScoreAt(new, r)]) = new
<1> DEFINE patch == [r \in ChangedRanks(new, old) |-> ScoreAt(new, r)]
<1>1. DOMAIN new = DOMAIN old
  BY ChangedRanksAreShared
<1>2. ASSUME NEW k \in DOMAIN new
      PROVE  Patched(old, patch)[k] = new[k]
  <2>1. new[k] = <<UidAt(new, k), ScoreAt(new, k)>> /\ old[k] = <<UidAt(old, k), ScoreAt(old, k)>>
    BY <1>1, <1>2, RowIsPair
  <2>2. UidAt(new, k) = UidAt(old, k)
    BY <1>2 DEF SameOrder
  <2>3. Patched(old, patch)[k] =
          IF k \in ChangedRanks(new, old) THEN <<UidAt(old, k), ScoreAt(new, k)>> ELSE old[k]
    BY <1>1, <1>2 DEF Patched
  <2>4. CASE k \in ChangedRanks(new, old)
    BY <2>1, <2>2, <2>3, <2>4
  <2>5. CASE k \notin ChangedRanks(new, old)
    <3>1. ScoreAt(new, k) = ScoreAt(old, k)
      BY <1>2, <2>5 DEF ChangedRanks
    <3> QED BY <2>1, <2>2, <2>3, <2>5, <3>1
  <2> QED BY <2>4, <2>5
<1>3. Patched(old, patch) = [k \in DOMAIN old |-> Patched(old, patch)[k]]
  BY DEF Patched
<1>4. new = [k \in DOMAIN new |-> new[k]]
  BY DEF RankingType
<1> QED BY <1>1, <1>2, <1>3, <1>4

\* Without a changed score the rankings are equal (SAME).
LEMMA SameIsEqual ==
  ASSUME NEW new \in RankingType, NEW old \in RankingType, SameOrder(new, old),
         ChangedRanks(new, old) = {}
  PROVE  new = old
<1>1. DOMAIN new = DOMAIN old
  BY ChangedRanksAreShared
<1>2. ASSUME NEW k \in DOMAIN new
      PROVE  new[k] = old[k]
  <2>1. new[k] = <<UidAt(new, k), ScoreAt(new, k)>> /\ old[k] = <<UidAt(old, k), ScoreAt(old, k)>>
    BY <1>1, <1>2, RowIsPair
  <2>2. UidAt(new, k) = UidAt(old, k) /\ ScoreAt(new, k) = ScoreAt(old, k)
    BY <1>2 DEF SameOrder, ChangedRanks
  <2> QED BY <2>1, <2>2
<1> QED BY <1>1, <1>2 DEF RankingType

-----------------------------------------------------------------------------

\* The four forms a payload can have, and what each says of the observation.
LEMMA PayloadCases ==
  ASSUME NEW obs, NEW state, ObservationOK(obs), StateOK(state)
  PROVE  \/ obs.reason # NoReason /\ Payload(obs, state) = [k |-> "GAP", d |-> <<>>]
         \/ obs.reason = NoReason /\ Payload(obs, state) = [k |-> "FULL", d |-> obs.ranking]
         \/ /\ obs.reason = NoReason /\ ~MustBeFull(obs, state)
            /\ ChangedRanks(obs.ranking, state.ranking) = {}
            /\ Payload(obs, state) = [k |-> "SAME", d |-> <<>>]
         \/ /\ obs.reason = NoReason /\ ~MustBeFull(obs, state)
            /\ Payload(obs, state) =
                 [k |-> "PATCH",
                  d |-> [r \in ChangedRanks(obs.ranking, state.ranking) |->
                           ScoreAt(obs.ranking, r)]]
<1> DEFINE changed == ChangedRanks(obs.ranking, state.ranking)
<1>1. CASE obs.reason # NoReason
  BY <1>1 DEF Payload
<1>2. CASE obs.reason = NoReason /\ MustBeFull(obs, state)
  BY <1>2 DEF Payload
<1>3. CASE obs.reason = NoReason /\ ~MustBeFull(obs, state)
  <2>1. Payload(obs, state) =
          CASE changed = {} -> [k |-> "SAME", d |-> <<>>]
            [] changed # {} /\ changed = DOMAIN obs.ranking -> [k |-> "FULL", d |-> obs.ranking]
            [] OTHER -> [k |-> "PATCH", d |-> [r \in changed |-> ScoreAt(obs.ranking, r)]]
    BY <1>3 DEF Payload
  <2> HIDE DEF changed
  <2> QED BY <1>3, <2>1 DEF changed
<1> QED BY <1>1, <1>2, <1>3

\* Every event the encoder produces is accepted by the decoder, whatever the
\* chain looked like, and decodes to what was observed: the ranking of a
\* successful sample, and a gap for a failed one.  A PATCH or a
\* SAME thus never follows a gap or an empty chain.
THEOREM EncodedDecodes ==
  ASSUME NEW obs, NEW state, ObservationOK(obs), StateOK(state), Encodable(obs, state)
  PROVE  LET event == Encode(obs, state)
         IN  /\ Applicable(state, event)
             /\ Apply(state, event).gap = (obs.reason # NoReason)
             /\ obs.reason = NoReason => Apply(state, event).ranking = obs.ranking
             /\ obs.reason # NoReason => Apply(state, event).ranking = state.ranking
<1> DEFINE event == Encode(obs, state)
           changed == ChangedRanks(obs.ranking, state.ranking)
<1> USE DEF ObservationOK, StateOK
<1>1. event.k = Payload(obs, state).k /\ event.d = Payload(obs, state).d
  BY DEF Encode
<1>2. /\ Apply(state, event).gap = (event.k = "GAP")
      /\ event.k = "FULL" => Apply(state, event).ranking = event.d
      /\ event.k = "PATCH" => Apply(state, event).ranking = Patched(state.ranking, event.d)
      /\ event.k \in {"SAME", "GAP"} => Apply(state, event).ranking = state.ranking
  BY DEF Apply
<1>3. ~MustBeFull(obs, state) =>
        HasRanking(state) /\ ~state.gap /\ SameOrder(obs.ranking, state.ranking)
  BY DEF MustBeFull
<1>4. obs.reason = NoReason => ValidRanking(obs.ranking)
  BY DEF Encodable
<1> HIDE DEF event
<1>5. CASE obs.reason # NoReason /\ Payload(obs, state) = [k |-> "GAP", d |-> <<>>]
  BY <1>1, <1>2, <1>5 DEF Applicable, event
<1>6. CASE obs.reason = NoReason /\ Payload(obs, state) = [k |-> "FULL", d |-> obs.ranking]
  BY <1>1, <1>2, <1>4, <1>6 DEF Applicable, event
<1>7. CASE /\ obs.reason = NoReason /\ ~MustBeFull(obs, state)
           /\ changed = {} /\ Payload(obs, state) = [k |-> "SAME", d |-> <<>>]
  <2>1. obs.ranking = state.ranking
    BY <1>3, <1>7, SameIsEqual
  <2> QED BY <1>1, <1>2, <1>3, <1>7, <2>1 DEF Applicable, event
<1>8. CASE /\ obs.reason = NoReason /\ ~MustBeFull(obs, state)
           /\ Payload(obs, state) =
                [k |-> "PATCH", d |-> [r \in changed |-> ScoreAt(obs.ranking, r)]]
  <2>1. Patched(state.ranking, event.d) = obs.ranking
    BY <1>1, <1>3, <1>8, PatchRestores
  <2>2. changed \subseteq DOMAIN state.ranking /\ changed \subseteq DOMAIN obs.ranking
    BY <1>3, <1>8, ChangedRanksAreShared DEF ChangedRanks
  <2>3. \A r \in changed : ScoreAt(obs.ranking, r) >= 0
    BY <1>4, <1>8, <2>2 DEF ValidRanking
  <2>4. DOMAIN event.d = changed /\ \A r \in changed : event.d[r] = ScoreAt(obs.ranking, r)
    BY <1>1, <1>8
  <2>5. Applicable(state, event)
    BY <1>1, <1>3, <1>8, <2>2, <2>3, <2>4 DEF Applicable
  <2> QED BY <1>1, <1>2, <1>8, <2>1, <2>5 DEF event
<1> QED BY <1>5, <1>6, <1>7, <1>8, PayloadCases DEF event

\* The slots an event names as missing lie strictly between the slot of the
\* last planned sample and its own: no sampled slot is ever reported missing
\* (the `g' of encodeTopObservation).
THEOREM SkippedSlotsWereNotSampled ==
  ASSUME NEW obs, NEW state,
         obs.intervalMs \in Nat \ {0}, obs.scheduledAt \in Nat \cup {None},
         state.lastScheduledAt \in Nat \cup {None},
         state.lastIntervalMs \in (Nat \ {0}) \cup {None},
         SkippedSlots(obs, state) # <<>>
  PROVE  LET skipped == SkippedSlots(obs, state)
         IN  /\ state.lastScheduledAt < skipped[1]
             /\ skipped[1] <= skipped[2]
             /\ skipped[2] < obs.scheduledAt
BY DEF SkippedSlots, None

-----------------------------------------------------------------------------
(* Induction.  The theorems of the library have an operator parameter; these *)
(* say the same of a set.                                                    *)

LEMMA LeastNatural ==
  ASSUME NEW T, T \subseteq Nat, T # {}
  PROVE  \E x \in T : \A y \in T : x <= y
<1>1. PICK x \in T : \A y \in T : <<y, x>> \notin OpToRel(<, Nat)
  BY WFMin, NatLessThanWellFounded
<1>2. \A y \in T : ~(y < x)
  BY <1>1 DEF OpToRel
<1> QED BY <1>2

LEMMA SetInduction ==
  ASSUME NEW T, 0 \in T, \A n \in Nat : n \in T => n + 1 \in T
  PROVE  \A n \in Nat : n \in T
<1> SUFFICES ASSUME Nat \ T # {} PROVE FALSE
  OBVIOUS
<1>1. PICK x \in Nat \ T : \A y \in Nat \ T : x <= y
  BY LeastNatural
<1>2. x - 1 \in Nat /\ x - 1 < x
  BY <1>1
<1>3. x - 1 \in T
  BY <1>1, <1>2
<1> QED BY <1>1, <1>2, <1>3

LEMMA GreatestIndex ==
  ASSUME NEW n \in Nat, NEW T, T \subseteq 1 .. n, T # {}
  PROVE  \E x \in T : \A y \in T : y <= x
<1> DEFINE U == {n - x : x \in T}
<1>1. \A x \in T : x \in 1 .. n /\ n - x \in Nat
  OBVIOUS
<1>2. U \subseteq Nat /\ U # {}
  BY <1>1
<1>3. PICK u \in U : \A v \in U : u <= v
  BY <1>2, LeastNatural
<1>4. PICK x \in T : u = n - x
  BY <1>3
<1>5. ASSUME NEW y \in T PROVE y <= x
  <2>1. n - x <= n - y
    BY <1>3, <1>4
  <2>2. x \in 1 .. n /\ y \in 1 .. n
    BY <1>4, <1>5
  <2> QED BY <2>1, <2>2
<1> QED BY <1>4, <1>5

-----------------------------------------------------------------------------
(* Replays *)

\* A replay is defined: each state follows from the one before.
LEMMA ReplayedOverDef ==
  ASSUME NEW state, NEW events, NEW read, Len(events) \in Nat
  PROVE  LET after == ReplayedOver(state, events, read)
         IN  after = [n \in 0 .. Len(events) |->
                        IF n = 0 THEN state
                        ELSE IF n \in read THEN Apply(after[n - 1], events[n]) ELSE after[n - 1]]
<1> DEFINE IsReplay(g, k) ==
             g = [n \in 0 .. k |->
                    IF n = 0 THEN state
                    ELSE IF n \in read THEN Apply(g[n - 1], events[n]) ELSE g[n - 1]]
           T == {k \in Nat : \E g : IsReplay(g, k)}
<1>1. 0 \in T
  <2>1. IsReplay([n \in 0 .. 0 |-> state], 0)
    OBVIOUS
  <2> QED BY <2>1
<1>2. ASSUME NEW k \in Nat, k \in T PROVE k + 1 \in T
  <2>1. PICK g : IsReplay(g, k)
    BY <1>2
  <2> DEFINE next == IF k + 1 \in read THEN Apply(g[k], events[k + 1]) ELSE g[k]
             h == [n \in 0 .. k + 1 |-> IF n = k + 1 THEN next ELSE g[n]]
  <2>2. ASSUME NEW n \in 0 .. k + 1
        PROVE  h[n] = IF n = 0 THEN state
                      ELSE IF n \in read THEN Apply(h[n - 1], events[n]) ELSE h[n - 1]
    <3>1. CASE n = 0
      <4>1. h[n] = g[0] /\ 0 \in 0 .. k
        BY <3>1
      <4> QED BY <2>1, <3>1, <4>1
    <3>2. CASE n = k + 1
      <4>1. n # 0 /\ n - 1 = k /\ h[k] = g[k] /\ h[n] = next
        BY <3>2
      <4> QED BY <3>2, <4>1
    <3>3. CASE n # 0 /\ n # k + 1
      <4>1. n \in 0 .. k /\ n - 1 \in 0 .. k + 1 /\ n - 1 # k + 1
        BY <3>3
      <4>2. h[n] = g[n] /\ h[n - 1] = g[n - 1]
        BY <3>3, <4>1
      <4>3. g[n] = IF n \in read THEN Apply(g[n - 1], events[n]) ELSE g[n - 1]
        BY <2>1, <3>3, <4>1
      <4> QED BY <3>3, <4>2, <4>3
    <3> QED BY <3>1, <3>2, <3>3
  <2>3. IsReplay(h, k + 1)
    <3>1. h = [n \in 0 .. k + 1 |-> h[n]]
      OBVIOUS
    <3> HIDE DEF h
    <3> QED BY <2>2, <3>1
  <2>4. \E f : IsReplay(f, k + 1)
    <3> HIDE DEF IsReplay, h
    <3> QED BY <2>3
  <2> QED BY <2>4
<1>3. Len(events) \in T
  <2> HIDE DEF T
  <2> QED BY <1>1, <1>2, SetInduction
<1>4. \E g : IsReplay(g, Len(events))
  BY <1>3
<1>5. ReplayedOver(state, events, read) = CHOOSE g : IsReplay(g, Len(events))
  BY DEF ReplayedOver
<1> QED BY <1>4, <1>5

LEMMA ReplayedOverSteps ==
  ASSUME NEW state, NEW events, NEW read, Len(events) \in Nat
  PROVE  /\ ReplayedOver(state, events, read)[0] = state
         /\ \A n \in 1 .. Len(events) :
              ReplayedOver(state, events, read)[n] =
                IF n \in read THEN Apply(ReplayedOver(state, events, read)[n - 1], events[n])
                ELSE ReplayedOver(state, events, read)[n - 1]
<1> DEFINE after == ReplayedOver(state, events, read)
<1>1. after = [n \in 0 .. Len(events) |->
                 IF n = 0 THEN state
                 ELSE IF n \in read THEN Apply(after[n - 1], events[n]) ELSE after[n - 1]]
  BY ReplayedOverDef
<1> HIDE DEF after
<1> QED BY <1>1 DEF after

LEMMA ReplayedSteps ==
  ASSUME NEW state, NEW events, Len(events) \in Nat
  PROVE  /\ Replayed(state, events)[0] = state
         /\ \A n \in 1 .. Len(events) :
              Replayed(state, events)[n] = Apply(Replayed(state, events)[n - 1], events[n])
BY ReplayedOverSteps DEF Replayed

\* Two sequences that agree on a prefix have the same states there.
LEMMA ReplayedPrefix ==
  ASSUME NEW state, NEW e1, NEW e2, Len(e1) \in Nat, Len(e2) \in Nat,
         NEW n \in Nat, n <= Len(e1), n <= Len(e2),
         \A k \in 1 .. n : e1[k] = e2[k]
  PROVE  \A k \in 0 .. n : Replayed(state, e1)[k] = Replayed(state, e2)[k]
<1> DEFINE r1 == Replayed(state, e1)
           r2 == Replayed(state, e2)
           T == {k \in Nat : k <= n => r1[k] = r2[k]}
<1>1. r1[0] = r2[0]
  BY ReplayedSteps
<1>2. ASSUME NEW k \in Nat, k + 1 <= n, r1[k] = r2[k] PROVE r1[k + 1] = r2[k + 1]
  <2>1. /\ k + 1 \in 1 .. n /\ k + 1 \in 1 .. Len(e1) /\ k + 1 \in 1 .. Len(e2)
        /\ (k + 1) - 1 = k
    BY <1>2
  <2>2. r1[k + 1] = Apply(r1[k], e1[k + 1])
    BY <2>1, ReplayedSteps
  <2>3. r2[k + 1] = Apply(r2[k], e2[k + 1])
    BY <2>1, ReplayedSteps
  <2> QED BY <1>2, <2>1, <2>2, <2>3
<1> HIDE DEF r1, r2
<1>3. 0 \in T
  BY <1>1
<1>4. ASSUME NEW k \in Nat, k \in T PROVE k + 1 \in T
  BY <1>2, <1>4
<1>5. \A k \in Nat : k \in T
  <2> HIDE DEF T
  <2> QED BY <1>3, <1>4, SetInduction
<1> QED BY <1>5 DEF r1, r2

\* One more event is one more step of the replay, and leaves the others alone.
LEMMA ReplayAppend ==
  ASSUME NEW S, NEW events \in Seq(S), NEW event, NEW state
  PROVE  LET longer == Append(events, event)
             n      == Len(events)
         IN  /\ \A k \in 0 .. n : Replayed(state, longer)[k] = Replayed(state, events)[k]
             /\ Replayed(state, longer)[n + 1] = Apply(Replay(state, events), event)
             /\ Replay(state, longer) = Apply(Replay(state, events), event)
<1> DEFINE longer == Append(events, event)
           n == Len(events)
<1>1. /\ longer \in Seq(S \cup {event}) /\ n \in Nat /\ Len(longer) = n + 1
      /\ \A k \in 1 .. n : longer[k] = events[k]
      /\ longer[n + 1] = event
  <2>1. events \in Seq(S \cup {event}) /\ event \in S \cup {event}
    OBVIOUS
  <2> QED BY <2>1
<1> HIDE DEF longer, n
<1>2. \A k \in 0 .. n : Replayed(state, longer)[k] = Replayed(state, events)[k]
  <2>1. n <= Len(longer) /\ n = Len(events) /\ n <= Len(events) /\ Len(longer) \in Nat
    BY <1>1 DEF n
  <2> QED BY <1>1, <2>1, ReplayedPrefix
<1>3. Replayed(state, longer)[n + 1] = Apply(Replayed(state, longer)[n], event)
  <2>1. n + 1 \in 1 .. Len(longer) /\ (n + 1) - 1 = n /\ Len(longer) \in Nat
    BY <1>1
  <2>2. Replayed(state, longer)[n + 1] = Apply(Replayed(state, longer)[(n + 1) - 1], longer[n + 1])
    BY <2>1, ReplayedSteps
  <2> QED BY <1>1, <2>1, <2>2
<1>4. n \in 0 .. n /\ Replay(state, events) = Replayed(state, events)[n]
  BY <1>1 DEF Replay, n
<1>5. Replay(state, longer) = Replayed(state, longer)[n + 1]
  BY <1>1 DEF Replay
<1> QED BY <1>2, <1>3, <1>4, <1>5 DEF longer, n

-----------------------------------------------------------------------------
(* Checkpoints *)

\* All of a state but what counts the planned slots.
SameData(s1, s2) ==
  /\ s1.ranking = s2.ranking /\ s1.gap = s2.gap /\ s1.lastAt = s2.lastAt
  /\ s1.lastSuccessAt = s2.lastSuccessAt /\ s1.lastFullAt = s2.lastFullAt

\* The event says itself where the planned slots go on.
Anchored(event) == (event.e # None \/ event.a # None) /\ event.i # None

\* A FULL event needs no state: neither for the ranking nor, when it is
\* anchored, for anything else.
LEMMA FullNeedsNoState ==
  ASSUME NEW s1, NEW s2, NEW event, event.k = "FULL"
  PROVE  /\ SameData(Apply(s1, event), Apply(s2, event))
         /\ Anchored(event) => Apply(s1, event) = Apply(s2, event)
BY DEF Apply, SameData, Anchored

LEMMA ApplyKeepsSameData ==
  ASSUME NEW s1, NEW s2, NEW event, SameData(s1, s2)
  PROVE  SameData(Apply(s1, event), Apply(s2, event))
BY DEF Apply, SameData

\* Replayed from a FULL event on, a chain has the states it has when it is
\* replayed from its start.
LEMMA ReplayFromFull ==
  ASSUME NEW s1, NEW s2, NEW all, NEW tail, Len(all) \in Nat, Len(tail) \in Nat,
         NEW c \in 1 .. Len(all), all[c].k = "FULL", Len(tail) = Len(all) - c + 1,
         \A k \in 1 .. Len(tail) : tail[k] = all[c + k - 1]
  PROVE  /\ SameData(Replay(s1, tail), Replay(s2, all))
         /\ Anchored(all[c]) => Replay(s1, tail) = Replay(s2, all)
<1> DEFINE r1 == Replayed(s1, tail)
           r2 == Replayed(s2, all)
           Agree(k) == /\ SameData(r1[k], r2[c + k - 1])
                       /\ Anchored(all[c]) => r1[k] = r2[c + k - 1]
           T == {k \in Nat : k + 1 \in 1 .. Len(tail) => Agree(k + 1)}
<1>1. ASSUME NEW k \in 1 .. Len(tail)
      PROVE  /\ r1[k] = Apply(r1[k - 1], tail[k])
             /\ r2[c + k - 1] = Apply(r2[c + k - 2], all[c + k - 1])
             /\ tail[k] = all[c + k - 1]
  <2>1. r1[k] = Apply(r1[k - 1], tail[k])
    BY ReplayedSteps
  <2>2. c + k - 1 \in 1 .. Len(all) /\ (c + k - 1) - 1 = c + k - 2
    OBVIOUS
  <2>3. r2[c + k - 1] = Apply(r2[c + k - 2], all[c + k - 1])
    BY <2>2, ReplayedSteps
  <2> QED BY <2>1, <2>3
<1> HIDE DEF r1, r2
<1>2. 0 \in T
  <2>1. CASE 1 \in 1 .. Len(tail)
    <3>1. tail[1].k = "FULL" /\ c + 1 - 1 = c
      BY <1>1, <2>1
    <3>2. Agree(1)
      BY <1>1, <2>1, <3>1, FullNeedsNoState
    <3> QED BY <3>2
  <2> QED BY <2>1
<1>3. ASSUME NEW k \in Nat, k \in T PROVE k + 1 \in T
  <2> SUFFICES ASSUME k + 2 \in 1 .. Len(tail) PROVE Agree(k + 2)
    <3>1. (k + 1) + 1 = k + 2
      OBVIOUS
    <3> HIDE DEF Agree
    <3> QED BY <3>1
  <2>1. k + 1 \in 1 .. Len(tail) /\ (k + 2) - 1 = k + 1 /\ c + (k + 2) - 2 = c + (k + 1) - 1
    OBVIOUS
  <2>2. Agree(k + 1)
    <3> HIDE DEF Agree
    <3> QED BY <1>3, <2>1
  <2>3. r1[k + 2] = Apply(r1[k + 1], tail[k + 2])
    BY <1>1, <2>1
  <2>4. r2[c + (k + 2) - 1] = Apply(r2[c + (k + 1) - 1], tail[k + 2])
    BY <1>1, <2>1
  <2> QED BY <2>2, <2>3, <2>4, ApplyKeepsSameData
<1>4. \A k \in Nat : k \in T
  <2> HIDE DEF T
  <2> QED BY <1>2, <1>3, SetInduction
<1>5. ASSUME NEW k \in 1 .. Len(tail) PROVE Agree(k)
  <2>1. k - 1 \in Nat /\ (k - 1) + 1 = k
    OBVIOUS
  <2> HIDE DEF Agree
  <2> QED BY <1>4, <2>1
<1>6. Len(tail) \in 1 .. Len(tail) /\ c + Len(tail) - 1 = Len(all)
  OBVIOUS
<1> QED BY <1>5, <1>6 DEF r1, r2, Replay

-----------------------------------------------------------------------------
(* A chain in the order of time *)

Ordered(events) ==
  /\ \A n \in DOMAIN events : events[n].t \in Nat
  /\ \A m, n \in DOMAIN events : m < n => events[m].t < events[n].t

\* MongoDB's answer is then the order of insertion.
LEMMA ByTimeInOrder ==
  ASSUME NEW S, NEW events \in Seq(S), Ordered(events)
  PROVE  ByTime(events) = events
<1> DEFINE N == Len(events)
           Earlier(m) == {k \in DOMAIN events : Before(k, m, events)}
<1>1. N \in Nat /\ DOMAIN events = 1 .. N
  OBVIOUS
<1>2. ASSUME NEW m \in 1 .. N
      PROVE  Earlier(m) = 1 .. m - 1 /\ Cardinality(Earlier(m)) = m - 1
  <2>1. ASSUME NEW k \in 1 .. N PROVE Before(k, m, events) <=> k < m
    <3>1. events[k].t \in Nat /\ events[m].t \in Nat
      BY <1>1 DEF Ordered
    <3>2. k < m => events[k].t < events[m].t
      BY <1>1 DEF Ordered
    <3>3. m < k => events[m].t < events[k].t
      BY <1>1 DEF Ordered
    <3>4. k < m \/ m < k \/ k = m
      OBVIOUS
    <3> QED BY <3>1, <3>2, <3>3, <3>4 DEF Before
  <2>2. Earlier(m) = 1 .. m - 1
    BY <1>1, <2>1
  <2>3. Cardinality(1 .. m - 1) = m - 1
    BY FS_Interval
  <2> QED BY <2>2, <2>3
<1> DEFINE Nth(n) == CHOOSE m \in DOMAIN events : Cardinality(Earlier(m)) = n - 1
<1>3. ASSUME NEW n \in 1 .. N
      PROVE  Nth(n) = n
  <2> HIDE DEF Earlier
  <2>1. \A m \in DOMAIN events : Cardinality(Earlier(m)) = n - 1 <=> m = n
    BY <1>1, <1>2
  <2> QED BY <1>1, <2>1
<1>4. ByTime(events) = [n \in DOMAIN events |-> events[Nth(n)]]
  BY DEF ByTime
<1> HIDE DEF Nth
<1> QED BY <1>1, <1>3, <1>4

\* The checkpoint is the last FULL event of the chain.
LEMMA LatestCheckpoint ==
  ASSUME NEW S, NEW events \in Seq(S), Ordered(events), NEW at \in Int
  PROVE  LET c == CheckpointAt(events, at)
         IN  \/ c = 0 /\ \A n \in DOMAIN events : events[n].t <= at => events[n].k # "FULL"
             \/ /\ c \in DOMAIN events /\ events[c].k = "FULL" /\ events[c].t <= at
                /\ \A n \in DOMAIN events : events[n].k = "FULL" /\ events[n].t <= at => n <= c
<1> DEFINE fulls == {n \in DOMAIN events : events[n].k = "FULL" /\ events[n].t <= at}
<1>1. CASE fulls = {}
  BY <1>1 DEF CheckpointAt
<1>2. CASE fulls # {}
  <2>1. Len(events) \in Nat /\ fulls \subseteq 1 .. Len(events)
    OBVIOUS
  <2>2. \E c \in fulls : \A m \in fulls : m <= c
    BY <1>2, <2>1, GreatestIndex
  <2>3. CheckpointAt(events, at) = CHOOSE c \in fulls : \A m \in fulls : m <= c
    BY <1>2 DEF CheckpointAt
  <2> HIDE DEF fulls
  <2>4. /\ CheckpointAt(events, at) \in fulls
        /\ \A m \in fulls : m <= CheckpointAt(events, at)
    BY <2>2, <2>3
  <2> QED BY <2>4 DEF fulls
<1> QED BY <1>1, <1>2

\* What loadState rebuilds from the latest checkpoint is what the whole chain
\* leads to; all of it when every checkpoint after the first event is anchored.
THEOREM LoadStateReplays ==
  ASSUME NEW S, NEW events \in Seq(S), Ordered(events)
  PROVE  /\ SameData(LoadState(events), Replay(EmptyTopState, events))
         /\ (\A n \in DOMAIN events : events[n].k = "FULL" => n = 1 \/ Anchored(events[n]))
              => LoadState(events) = Replay(EmptyTopState, events)
<1> DEFINE N == Len(events)
           at == IF events = <<>> THEN 0 ELSE events[N].t
           c == CheckpointAt(events, at)
           whole == Replay(EmptyTopState, events)
<1>1. N \in Nat /\ DOMAIN events = 1 .. N
  OBVIOUS
<1>2. at \in Nat
  BY DEF Ordered
<1>3. LoadState(events) = Replay(EmptyTopState, FromCheckpoint(events, c))
  BY ByTimeInOrder DEF LoadState
<1>4. CASE c = 0
  BY <1>3, <1>4 DEF FromCheckpoint, SameData
<1>5. CASE c # 0
  <2>1. c \in 1 .. N /\ events[c].k = "FULL"
    <3> HIDE DEF at
    <3> QED BY <1>1, <1>2, <1>5, LatestCheckpoint
  <2> DEFINE tail == SubSeq(events, c, N)
  <2>2. Len(tail) = N - c + 1 /\ \A k \in 1 .. N - c + 1 : tail[k] = events[c + k - 1]
    <3> HIDE DEF c
    <3> QED BY <1>1, <2>1
  <2>3. LoadState(events) = Replayed(EmptyTopState, tail)[Len(tail)]
    BY <1>3, <1>5 DEF FromCheckpoint, Replay
  <2> HIDE DEF c, tail, at
  <2>4. Len(tail) \in 1 .. Len(tail) /\ Len(tail) \in Nat /\ c + Len(tail) - 1 = N
    BY <1>1, <2>1, <2>2
  <2>5. whole = Replayed(EmptyTopState, events)[N]
    BY DEF Replay
  <2>6. /\ SameData(LoadState(events), whole)
        /\ Anchored(events[c]) => LoadState(events) = whole
    <3> HIDE DEF whole
    <3>1. /\ Len(events) \in Nat /\ Len(tail) \in Nat /\ Len(tail) # 0
          /\ c \in 1 .. Len(events) /\ Len(tail) = Len(events) - c + 1
          /\ \A k \in 1 .. Len(tail) : tail[k] = events[c + k - 1]
      BY <1>1, <2>1, <2>2, <2>4
    <3>2. LoadState(events) = Replay(EmptyTopState, tail)
      BY <2>3 DEF Replay
    <3> HIDE DEF N
    <3> QED BY <2>1, <3>1, <3>2, ReplayFromFull DEF whole
  <2>7. c = 1 => LoadState(events) = whole
    <3>1. c = 1 => \A k \in 1 .. N : tail[k] = events[k]
      BY <1>1, <2>1, <2>2
    <3>2. c = 1 => Len(tail) = N
      BY <1>1, <2>2
    <3>3. c = 1 => Replayed(EmptyTopState, tail)[N] = Replayed(EmptyTopState, events)[N]
      BY <1>1, <3>1, <3>2, ReplayedPrefix
    <3> QED BY <2>3, <2>5, <3>2, <3>3
  <2> QED BY <1>1, <2>1, <2>6, <2>7
<1> QED BY <1>4, <1>5

-----------------------------------------------------------------------------
(* Positions *)

LEMMA GreatestIs ==
  ASSUME NEW n \in Nat, NEW T, T \subseteq 1 .. n, T # {}
  PROVE  Greatest(T) \in T /\ \A y \in T : y <= Greatest(T)
<1>1. \E x \in T : \A y \in T : y <= x
  BY GreatestIndex
<1> QED BY <1>1 DEF Greatest

\* Positions with everything that stands before them are a beginning.
LEMMA Beginning ==
  ASSUME NEW n \in Nat, NEW T, T \subseteq 1 .. n,
         \A y \in T : \A x \in 1 .. n : x < y => x \in T
  PROVE  \E p \in 0 .. n : T = 1 .. p
<1>1. CASE T = {}
  <2>1. 0 \in 0 .. n /\ T = 1 .. 0
    BY <1>1
  <2> QED BY <2>1
<1>2. CASE T # {}
  <2>1. PICK p \in T : \A y \in T : y <= p
    BY <1>2, GreatestIndex
  <2>2. p \in 0 .. n /\ \A x \in 1 .. n : x \in T <=> x <= p
    BY <2>1
  <2>3. \A x : x \in T <=> x \in 1 .. p
    <3>1. p \in 1 .. n
      OBVIOUS
    <3>2. \A x : x \in 1 .. p <=> x \in 1 .. n /\ x <= p
      BY <3>1
    <3> QED BY <2>2, <3>2
  <2>4. T = 1 .. p
    BY <2>3
  <2> QED BY <2>2, <2>4
<1> QED BY <1>1, <1>2

\* What stands in an interval is the interval of what stands.
LEMMA ChosenInterval ==
  ASSUME NEW s, NEW lo \in Nat, NEW hi \in Nat, lo <= hi + 1
  PROVE  /\ Cardinality(lo .. hi) = hi - lo + 1
         /\ Chosen(s, lo .. hi) = [n \in 1 .. hi - lo + 1 |-> s[lo + n - 1]]
<1> DEFINE P == lo .. hi
           Below(m) == {k \in P : k < m}
           Nth(n) == CHOOSE m \in P : Cardinality(Below(m)) = n - 1
<1>1. Cardinality(P) = hi - lo + 1
  BY FS_Interval
<1>2. ASSUME NEW m \in P PROVE Cardinality(Below(m)) = m - lo
  <2>1. Below(m) = lo .. m - 1
    OBVIOUS
  <2>2. m \in Int /\ lo \in Int /\ lo <= m
    OBVIOUS
  <2>3. Cardinality(lo .. m - 1) = IF lo > m - 1 THEN 0 ELSE (m - 1) - lo + 1
    BY <2>2, FS_Interval
  <2>4. (IF lo > m - 1 THEN 0 ELSE (m - 1) - lo + 1) = m - lo
    BY <2>2
  <2> HIDE DEF Below
  <2> QED BY <2>1, <2>3, <2>4
<1>3. ASSUME NEW n \in 1 .. hi - lo + 1 PROVE Nth(n) = lo + n - 1
  <2>1. lo + n - 1 \in P
    OBVIOUS
  <2>2. \A m \in P : Cardinality(Below(m)) = n - 1 <=> m = lo + n - 1
    <3> HIDE DEF Below
    <3> QED BY <1>2
  <2> HIDE DEF P, Below
  <2> QED BY <2>1, <2>2
<1>4. Chosen(s, P) = [n \in 1 .. Cardinality(P) |-> s[Nth(n)]]
  BY DEF Chosen
<1> HIDE DEF Nth
<1> QED BY <1>1, <1>3, <1>4

-----------------------------------------------------------------------------
(* Replays that begin later *)

\* What a sample shows of a state.
SameView(s1, s2) == s1.ranking = s2.ranking /\ s1.gap = s2.gap

LEMMA ApplyKeepsView ==
  ASSUME NEW s1, NEW s2, NEW event, SameView(s1, s2) \/ event.k = "FULL"
  PROVE  SameView(Apply(s1, event), Apply(s2, event))
BY DEF Apply, SameView

\* A replay that begins with a FULL event, or where nothing was known, shows what the whole
\* chain shows.
LEMMA LaterReplay ==
  ASSUME NEW events, Len(events) \in Nat, NEW lo \in 1 .. Len(events) + 1,
         NEW hi \in 0 .. Len(events), lo <= hi + 1,
         \/ lo <= hi => events[lo].k = "FULL"
         \/ SameView(Replayed(EmptyTopState, events)[lo - 1], EmptyTopState)
  PROVE  \A n \in lo .. hi : SameView(ReplayedOver(EmptyTopState, events, lo .. hi)[n],
                                      Replayed(EmptyTopState, events)[n])
<1> DEFINE over == ReplayedOver(EmptyTopState, events, lo .. hi)
           whole == Replayed(EmptyTopState, events)
           T == {n \in Nat : /\ n < lo => over[n] = EmptyTopState
                             /\ n \in lo .. hi => SameView(over[n], whole[n])}
<1>1. over[0] = EmptyTopState
  BY ReplayedOverSteps
<1>2. \A n \in 1 .. Len(events) :
        /\ n \in lo .. hi => over[n] = Apply(over[n - 1], events[n])
        /\ n \notin lo .. hi => over[n] = over[n - 1]
        /\ whole[n] = Apply(whole[n - 1], events[n])
  BY ReplayedOverSteps, ReplayedSteps
<1>3. \/ lo <= hi => events[lo].k = "FULL"
      \/ SameView(whole[lo - 1], EmptyTopState)
  OBVIOUS
<1> HIDE DEF over, whole
<1>4. 0 \in T
  BY <1>1
<1>5. ASSUME NEW n \in Nat, n \in T PROVE n + 1 \in T
  <2>1. (n + 1) - 1 = n
    OBVIOUS
  <2>2. CASE n + 1 < lo
    <3>1. n + 1 \in 1 .. Len(events) /\ n + 1 \notin lo .. hi /\ n < lo
      BY <2>2
    <3>2. over[n + 1] = over[n]
      BY <1>2, <2>1, <3>1
    <3> QED BY <1>5, <2>2, <3>1, <3>2
  <2>3. CASE n + 1 \in lo .. hi
    <3>1. n + 1 \in 1 .. Len(events) /\ ~(n + 1 < lo)
      BY <2>3
    <3>2. over[n + 1] = Apply(over[n], events[n + 1]) /\ whole[n + 1] = Apply(whole[n], events[n + 1])
      BY <1>2, <2>1, <2>3, <3>1
    <3>3. SameView(over[n], whole[n]) \/ events[n + 1].k = "FULL"
      <4>1. CASE n + 1 = lo
        <5>1. n < lo /\ lo - 1 = n /\ lo <= hi
          BY <2>3, <4>1
        <5>2. over[n] = EmptyTopState
          BY <1>5, <5>1
        <5> QED BY <1>3, <4>1, <5>1, <5>2 DEF SameView
      <4>2. CASE n + 1 # lo
        <5>1. n \in lo .. hi
          BY <2>3, <4>2
        <5> QED BY <1>5, <5>1
      <4> QED BY <4>1, <4>2
    <3>4. SameView(over[n + 1], whole[n + 1])
      BY <3>2, <3>3, ApplyKeepsView
    <3> QED BY <3>1, <3>4
  <2>4. CASE n + 1 > hi /\ ~(n + 1 < lo)
    BY <2>4
  <2> QED BY <2>2, <2>3, <2>4
<1>6. \A n \in Nat : n \in T
  <2> HIDE DEF T
  <2> QED BY <1>4, <1>5, SetInduction
<1> QED BY <1>6 DEF over, whole

\* Before the first FULL event there are only failures, and nothing is known.
LEMMA NothingBeforeFull ==
  ASSUME NEW events, Len(events) \in Nat, NEW p \in 0 .. Len(events),
         \A n \in 1 .. p : /\ events[n].k \in EventKinds \ {"FULL"}
                           /\ Applicable(Replayed(EmptyTopState, events)[n - 1], events[n])
  PROVE  /\ SameView(Replayed(EmptyTopState, events)[p], EmptyTopState)
         /\ \A n \in 1 .. p : events[n].k = "GAP"
<1> DEFINE whole == Replayed(EmptyTopState, events)
           Unknown(s) == SameView(s, EmptyTopState) /\ s.lastFullAt = None
           T == {n \in Nat : n <= p => /\ Unknown(whole[n])
                                       /\ n # 0 => events[n].k = "GAP"}
<1>1. whole[0] = EmptyTopState /\ \A n \in 1 .. p : whole[n] = Apply(whole[n - 1], events[n])
  BY ReplayedSteps
<1>2. \A n \in 1 .. p : events[n].k \in EventKinds \ {"FULL"} /\ Applicable(whole[n - 1], events[n])
  OBVIOUS
<1> HIDE DEF whole
<1>3. 0 \in T
  <2>1. Unknown(whole[0])
    BY <1>1 DEF SameView, EmptyTopState
  <2> QED BY <2>1
<1>4. ASSUME NEW n \in Nat, n \in T, n + 1 <= p PROVE Unknown(whole[n + 1]) /\ events[n + 1].k = "GAP"
  <2>1. n + 1 \in 1 .. p /\ (n + 1) - 1 = n
    BY <1>4
  <2>2. Unknown(whole[n])
    BY <1>4
  <2>3. /\ whole[n + 1] = Apply(whole[n], events[n + 1])
        /\ events[n + 1].k \in EventKinds \ {"FULL"} /\ Applicable(whole[n], events[n + 1])
    BY <1>1, <1>2, <2>1
  <2>4. events[n + 1].k = "GAP"
    BY <2>2, <2>3 DEF EventKinds, Applicable, HasRanking
  <2>5. /\ whole[n + 1].ranking = whole[n].ranking
        /\ whole[n + 1].lastFullAt = whole[n].lastFullAt
    BY <2>3, <2>4 DEF Apply
  <2>7. whole[n + 1].gap = (events[n + 1].k = "GAP")
    BY <2>3 DEF Apply
  <2>6. EmptyTopState.gap /\ whole[n].gap
    BY <2>2 DEF SameView, EmptyTopState
  <2> QED BY <2>2, <2>4, <2>5, <2>6, <2>7 DEF SameView
<1>5. \A n \in Nat : n \in T
  <2>1. ASSUME NEW n \in Nat, n \in T PROVE n + 1 \in T
    <3>1. n + 1 <= p => Unknown(whole[n + 1]) /\ events[n + 1].k = "GAP"
      <4> HIDE DEF T, Unknown
      <4> QED BY <1>4, <2>1
    <3> HIDE DEF Unknown
    <3> QED BY <3>1
  <2> HIDE DEF T
  <2> QED BY <1>3, <2>1, SetInduction
<1> QED BY <1>5 DEF whole

-----------------------------------------------------------------------------
(* Points *)

PointType == [time : Nat, ranking : RankingType]

\* One snapshot per time, in the order of time.
Rising(points) == \A m, n \in DOMAIN points : m < n => points[m].time < points[n].time

\* What is left after the pop is a beginning: everything older.
LEMMA PopKeepsOlder ==
  ASSUME NEW points \in Seq(PointType), Rising(points), NEW time \in Nat
  PROVE  LET kept == PopNotOlder(points, time)
         IN  /\ kept \in Seq(PointType) /\ Len(kept) <= Len(points)
             /\ \A n \in 1 .. Len(kept) : kept[n] = points[n] /\ points[n].time < time
             /\ \A n \in 1 .. Len(points) : points[n].time < time => n <= Len(kept)
<1> DEFINE older == {n \in DOMAIN points : points[n].time < time}
           last == Greatest(older)
<1>1. Len(points) \in Nat /\ DOMAIN points = 1 .. Len(points)
      /\ \A n \in 1 .. Len(points) : points[n] \in PointType
  OBVIOUS
<1>2. CASE older = {}
  <2>1. PopNotOlder(points, time) = <<>>
    BY <1>2 DEF PopNotOlder
  <2> QED BY <1>1, <1>2, <2>1
<1>3. CASE older # {}
  <2>1. PopNotOlder(points, time) = SubSeq(points, 1, last)
    BY <1>3 DEF PopNotOlder
  <2>2. last \in older /\ \A n \in older : n <= last
    <3>1. older \subseteq 1 .. Len(points)
      BY <1>1
    <3> HIDE DEF older
    <3> QED BY <1>1, <1>3, <3>1, GreatestIs
  <2> HIDE DEF last
  <2>3. last \in 1 .. Len(points) /\ points[last].time < time
        /\ \A n \in 1 .. Len(points) : points[n].time < time => n <= last
    BY <1>1, <2>2
  <2>4. /\ SubSeq(points, 1, last) \in Seq(PointType)
        /\ Len(SubSeq(points, 1, last)) = last
        /\ \A n \in 1 .. last : SubSeq(points, 1, last)[n] = points[n]
    BY <1>1, <2>3
  <2>5. ASSUME NEW n \in 1 .. last PROVE points[n].time < time
    <3>1. n \in 1 .. Len(points)
      BY <1>1, <2>3
    <3>2. CASE n = last
      BY <2>3, <3>2
    <3>3. CASE n < last
      <4>1. points[n].time < points[last].time
        BY <1>1, <2>3, <3>1, <3>3 DEF Rising
      <4>2. points[n].time \in Nat /\ points[last].time \in Nat
        BY <1>1, <2>3, <3>1 DEF PointType
      <4> QED BY <2>3, <4>1, <4>2
    <3> QED BY <2>3, <3>2, <3>3
  <2> HIDE DEF older
  <2> QED BY <1>1, <2>1, <2>3, <2>4, <2>5
<1> QED BY <1>2, <1>3

\* A snapshot is the last point from then on, and leaves everything older.
Added(points, time, ranking, next) ==
  /\ next \in Seq(PointType) /\ Rising(next)
  /\ \A n \in DOMAIN points : points[n].time < time =>
       \E m \in DOMAIN next : next[m] = points[n]
  /\ ranking # <<>> => /\ Len(next) \in DOMAIN next
                       /\ next[Len(next)] = [time |-> time, ranking |-> ranking]

LEMMA AddPointIs ==
  ASSUME NEW points \in Seq(PointType), Rising(points),
         NEW time \in Nat, NEW ranking \in RankingType
  PROVE  Added(points, time, ranking, AddPoint(points, time, ranking))
<1> DEFINE kept == PopNotOlder(points, time)
           point == [time |-> time, ranking |-> ranking]
<1>1. /\ kept \in Seq(PointType) /\ Len(kept) <= Len(points)
      /\ \A n \in 1 .. Len(kept) : kept[n] = points[n] /\ points[n].time < time
      /\ \A n \in 1 .. Len(points) : points[n].time < time => n <= Len(kept)
  BY PopKeepsOlder
<1>2. AddPoint(points, time, ranking) = IF ranking = <<>> THEN kept ELSE Append(kept, point)
  BY DEF AddPoint
<1>3. point \in PointType /\ point.time = time
  BY DEF PointType
<1> HIDE DEF kept, point
<1>4. Len(kept) \in Nat /\ DOMAIN kept = 1 .. Len(kept) /\ Len(points) \in Nat
      /\ DOMAIN points = 1 .. Len(points) /\ \A n \in 1 .. Len(points) : points[n].time \in Nat
  <2>1. \A n \in 1 .. Len(points) : points[n] \in PointType
    OBVIOUS
  <2>2. \A p \in PointType : p.time \in Nat
    BY DEF PointType
  <2> QED BY <1>1, <2>1, <2>2
<1>5. Rising(kept) /\ \A n \in DOMAIN kept : kept[n].time < time /\ kept[n].time \in Nat
  BY <1>1, <1>4 DEF Rising
<1>6. CASE ranking = <<>>
  <2>1. \A n \in DOMAIN points : points[n].time < time =>
          \E m \in DOMAIN kept : kept[m] = points[n]
    <3>1. ASSUME NEW n \in DOMAIN points, points[n].time < time
          PROVE  n \in DOMAIN kept /\ kept[n] = points[n]
      BY <1>1, <1>4, <3>1
    <3> QED BY <3>1
  <2> QED BY <1>1, <1>2, <1>5, <1>6, <2>1 DEF Added
<1>7. CASE ranking # <<>>
  <2> DEFINE next == Append(kept, point)
  <2>1. /\ next \in Seq(PointType) /\ Len(next) = Len(kept) + 1
        /\ \A n \in 1 .. Len(kept) : next[n] = kept[n]
        /\ next[Len(kept) + 1] = point
    BY <1>1, <1>3
  <2> HIDE DEF next
  <2>2. DOMAIN next = 1 .. Len(kept) + 1
        /\ \A n \in 1 .. Len(kept) + 1 : n \in 1 .. Len(kept) \/ n = Len(kept) + 1
    BY <1>4, <2>1
  <2>3. Rising(next)
    <3>1. ASSUME NEW m \in DOMAIN next, NEW n \in DOMAIN next, m < n
          PROVE  next[m].time < next[n].time
      <4>1. m \in 1 .. Len(kept)
        BY <1>4, <2>2, <3>1
      <4>2. CASE n \in 1 .. Len(kept)
        BY <1>4, <1>5, <2>1, <3>1, <4>1, <4>2 DEF Rising
      <4>3. CASE n = Len(kept) + 1
        BY <1>3, <1>4, <1>5, <2>1, <4>1, <4>3
      <4> QED BY <2>2, <4>2, <4>3
    <3> QED BY <3>1 DEF Rising
  <2>5. ASSUME NEW n \in DOMAIN points, points[n].time < time
        PROVE  \E m \in DOMAIN next : next[m] = points[n]
    <3>1. n \in 1 .. Len(kept) /\ n \in DOMAIN next
      BY <1>1, <1>4, <2>2, <2>5
    <3>2. next[n] = points[n]
      BY <1>1, <2>1, <3>1
    <3> QED BY <3>1, <3>2
  <2>6. Len(next) \in DOMAIN next /\ next[Len(next)] = point
    BY <1>4, <2>1, <2>2
  <2>7. AddPoint(points, time, ranking) = next
    BY <1>2, <1>7 DEF next
  <2> QED BY <2>1, <2>3, <2>5, <2>6, <2>7 DEF Added, point
<1> QED BY <1>6, <1>7

\* The points after one event follow from those before it.
LEMMA PointsAfterSteps ==
  ASSUME NEW events, Len(events) \in Nat
  PROVE  /\ PointsAfter(events)[0] = <<>>
         /\ \A n \in 1 .. Len(events) :
              PointsAfter(events)[n] =
                IF events[n].k = "GAP" THEN PointsAfter(events)[n - 1]
                ELSE AddPoint(PointsAfter(events)[n - 1],
                              IF events[n].e # None THEN events[n].e ELSE events[n].t,
                              Replayed(EmptyTopState, events)[n].ranking)
<1> DEFINE After(before, n) ==
             IF events[n].k = "GAP" THEN before
             ELSE AddPoint(before, IF events[n].e # None THEN events[n].e ELSE events[n].t,
                           Replayed(EmptyTopState, events)[n].ranking)
           IsHistory(g, k) == g = [n \in 0 .. k |-> IF n = 0 THEN <<>> ELSE After(g[n - 1], n)]
           T == {k \in Nat : \E g : IsHistory(g, k)}
<1>1. PointsAfter(events) = CHOOSE g : IsHistory(g, Len(events))
  BY DEF PointsAfter
<1> HIDE DEF After
<1>2. 0 \in T
  <2>1. IsHistory([n \in 0 .. 0 |-> <<>>], 0)
    OBVIOUS
  <2> QED BY <2>1
<1>3. ASSUME NEW k \in Nat, k \in T PROVE k + 1 \in T
  <2>1. PICK g : IsHistory(g, k)
    BY <1>3
  <2> DEFINE h == [n \in 0 .. k + 1 |-> IF n = k + 1 THEN After(g[k], k + 1) ELSE g[n]]
  <2>2. ASSUME NEW n \in 0 .. k + 1
        PROVE  h[n] = IF n = 0 THEN <<>> ELSE After(h[n - 1], n)
    <3>1. CASE n = 0
      <4>1. h[n] = g[0] /\ 0 \in 0 .. k
        BY <3>1
      <4> QED BY <2>1, <3>1, <4>1
    <3>2. CASE n = k + 1
      <4>1. n # 0 /\ n - 1 = k /\ h[k] = g[k] /\ h[n] = After(g[k], k + 1)
        BY <3>2
      <4> QED BY <3>2, <4>1
    <3>3. CASE n # 0 /\ n # k + 1
      <4>1. n \in 0 .. k /\ n - 1 \in 0 .. k + 1 /\ n - 1 # k + 1
        BY <3>3
      <4>2. h[n] = g[n] /\ h[n - 1] = g[n - 1]
        BY <3>3, <4>1
      <4>3. g[n] = After(g[n - 1], n)
        BY <2>1, <3>3, <4>1
      <4> QED BY <3>3, <4>2, <4>3
    <3> QED BY <3>1, <3>2, <3>3
  <2>3. IsHistory(h, k + 1)
    <3>1. h = [n \in 0 .. k + 1 |-> h[n]]
      OBVIOUS
    <3> HIDE DEF h
    <3> QED BY <2>2, <3>1
  <2>4. \E f : IsHistory(f, k + 1)
    <3> HIDE DEF IsHistory, h
    <3> QED BY <2>3
  <2> QED BY <2>4
<1>4. Len(events) \in T
  <2> HIDE DEF T
  <2> QED BY <1>2, <1>3, SetInduction
<1>5. \E g : IsHistory(g, Len(events))
  BY <1>4
<1>6. IsHistory(PointsAfter(events), Len(events))
  <2> HIDE DEF IsHistory
  <2> QED BY <1>1, <1>5
<1> DEFINE points == PointsAfter(events)
<1>7. points = [n \in 0 .. Len(events) |-> IF n = 0 THEN <<>> ELSE After(points[n - 1], n)]
  BY <1>6
<1> HIDE DEF points
<1>8. points[0] = <<>> /\ \A n \in 1 .. Len(events) : points[n] = After(points[n - 1], n)
  BY <1>7
<1> QED BY <1>8 DEF points, After
=============================================================================
