-------------------------- MODULE TopHistory_proofs --------------------------
(***************************************************************************)
(* The collection pipeline, for any number of scopes, any capacity and any *)
(* number of crashes and faults.  First its guarantees of delivery; then   *)
(* that what it stores decodes to the log of observations it was given:    *)
(* the cached state of a chain is never used when it is behind, and the    *)
(* pipeline implements ObservationLog as long as the disk does not fail.   *)
(***************************************************************************)
EXTENDS TopHistory, TopHistoryStore_proofs

\* Events are stored as a sequence, of whatever the encoder produced.
EventsSeq == \A s \in Scopes : \E S : events[s] \in Seq(S)

\* What the consumer knows in each of its steps.
DrainInv ==
  /\ drain.pc \in DrainSteps
  /\ drain.pc # "idle" => drain.obs \in files /\ drain.obs.scope \in Scopes
  /\ drain.pc = "insert" => drain.event.id = drain.obs.id /\ ~IsCommitted(drain.obs)
  /\ drain.pc = "ack" => IsCommitted(drain.obs)

\* The step each capture is in, with what it carries there.
ObservationOfScope(obs, s) ==
  /\ obs.scope = s /\ obs.at \in Nat
  /\ obs.scheduledAt \in Nat \cup {None}
  /\ obs.id = ObservationId(s, obs.scheduledAt, obs.at)

CaptureOK(s) ==
  /\ cap[s].pc \in CapSteps
  /\ cap[s].pc \in {"start", "fetch"} => cap[s].slot \in Nat \cup {None}
  /\ cap[s].pc = "fetch" => cap[s].begin \in Nat
  /\ cap[s].pc \in {"enqueue", "sync"} => ObservationOfScope(cap[s].obs, s)
  /\ cap[s].pc = "sync" => cap[s].obs \in disk \/ IsCommitted(cap[s].obs)

CaptureInv == \A s \in Scopes : CaptureOK(s)

TypeInv ==
  /\ now \in Nat /\ nextAt \in Nat
  /\ booting \subseteq Scopes /\ firstCaptured \subseteq Scopes
  /\ polling \in BOOLEAN /\ started \in BOOLEAN
  /\ DOMAIN cap = Scopes /\ DOMAIN events = Scopes
  /\ cap = [s \in Scopes |-> cap[s]] /\ events = [s \in Scopes |-> events[s]]
  /\ synced \subseteq disk
  /\ \A obs \in disk \cup files \cup accepted \cup unlinked :
       obs.scope \in Scopes /\ ObservationOfScope(obs, obs.scope)

IInv ==
  /\ TypeInv /\ EventsSeq /\ DrainInv /\ CaptureInv
  /\ AcceptedNotLost /\ CommittedOnce

-----------------------------------------------------------------------------
(* Slots and identifiers *)

\* The next slot is a multiple of the interval, and the first one after now.
LEMMA NextSlotFacts ==
  ASSUME NEW n \in Nat
  PROVE  /\ NextSlot(n) \in Nat /\ NextSlot(n) - Interval \in Nat
         /\ NextSlot(n) - Interval <= n /\ n < NextSlot(n)
<1> DEFINE q == n \div Interval
<1>1. Interval \in Nat \ {0}
  BY PipelineAssumption
<1>2. q \in Nat
  BY <1>1
<1>3. Interval * q <= n
  BY <1>1
<1>4. n < Interval * q + Interval
  BY <1>1
<1>5. (q + 1) * Interval = Interval * q + Interval /\ Interval * q \in Nat
  <2> HIDE DEF q
  <2> QED BY <1>1, <1>2
<1> DEFINE p == Interval * q
<1>6. NextSlot(n) = p + Interval
  BY <1>5 DEF NextSlot
<1> HIDE DEF p
<1> QED BY <1>1, <1>3, <1>4, <1>5, <1>6 DEF p

-----------------------------------------------------------------------------
(* An insert *)

Inserts ==
  /\ drain.pc = "insert"
  /\ events' = [events EXCEPT ![drain.obs.scope] = Append(@, drain.event)]

\* An insert appends one event to one scope, whose _id was not there yet.
LEMMA InsertFacts ==
  ASSUME TypeInv, EventsSeq, DrainInv, Inserts
  PROVE  /\ EventsSeq'
         /\ DOMAIN events' = Scopes /\ events' = [s \in Scopes |-> events'[s]]
         /\ \A s \in Scopes : CommittedIds(s) \subseteq CommittedIds(s)'
         /\ \A obs : obs = drain.obs => IsCommitted(obs)'
         /\ CommittedOnce => CommittedOnce'
<1> DEFINE scope == drain.obs.scope
           event == drain.event
<1>1. scope \in Scopes /\ event.id = drain.obs.id /\ event.id \notin CommittedIds(scope)
  BY DEF DrainInv, Inserts, IsCommitted
<1>2. DOMAIN events' = Scopes /\ events' = [s \in Scopes |-> events'[s]]
  BY DEF TypeInv, Inserts
<1>3. \A s \in Scopes \ {scope} : events'[s] = events[s]
  BY DEF TypeInv, Inserts
<1>4. events'[scope] = Append(events[scope], event)
  BY <1>1 DEF TypeInv, Inserts
<1>5. PICK S : events[scope] \in Seq(S)
  BY <1>1 DEF EventsSeq
<1>6. /\ events'[scope] \in Seq(S \cup {event})
      /\ DOMAIN events[scope] = 1 .. Len(events[scope]) /\ Len(events[scope]) \in Nat
      /\ DOMAIN events'[scope] = 1 .. Len(events[scope]) + 1
      /\ \A n \in DOMAIN events[scope] : events'[scope][n] = events[scope][n]
      /\ events'[scope][Len(events[scope]) + 1] = event
  <2> HIDE DEF event
  <2>1. events[scope] \in Seq(S \cup {event})
    BY <1>5
  <2> DEFINE old == events[scope]
             new == events'[scope]
  <2>2. new = Append(old, event) /\ old \in Seq(S \cup {event})
    BY <1>4, <2>1
  <2> HIDE DEF old, new
  <2>3. new \in Seq(S \cup {event}) /\ Len(new) = Len(old) + 1 /\ Len(old) \in Nat
    BY <2>2
  <2>4. DOMAIN old = 1 .. Len(old) /\ DOMAIN new = 1 .. Len(old) + 1
    BY <2>2, <2>3
  <2>5. (\A n \in DOMAIN old : new[n] = old[n]) /\ new[Len(old) + 1] = event
    BY <2>2, <2>3, <2>4
  <2> QED BY <2>3, <2>4, <2>5 DEF old, new
<1>7. EventsSeq'
  BY <1>3, <1>6 DEF EventsSeq
<1>8. \A s \in Scopes : CommittedIds(s) \subseteq CommittedIds(s)'
  <2>1. ASSUME NEW s \in Scopes, NEW n \in DOMAIN events[s]
        PROVE  n \in DOMAIN events'[s] /\ events'[s][n] = events[s][n]
    <3>1. CASE s = scope
      <4>1. 1 .. Len(events[scope]) \subseteq 1 .. Len(events[scope]) + 1
        BY <1>6
      <4> QED BY <1>6, <2>1, <3>1, <4>1
    <3> QED BY <1>3, <2>1, <3>1
  <2> QED BY <2>1 DEF CommittedIds
<1>9. ASSUME NEW obs, obs = drain.obs PROVE IsCommitted(obs)'
  <2>1. Len(events[scope]) + 1 \in DOMAIN events'[scope]
    BY <1>6
  <2>2. obs.id \in {events'[obs.scope][n].id : n \in DOMAIN events'[obs.scope]}
    BY <1>1, <1>6, <1>9, <2>1
  <2> QED BY <2>2 DEF CommittedIds, IsCommitted
<1>10. ASSUME CommittedOnce PROVE CommittedOnce'
  <2>1. ASSUME NEW s \in Scopes, NEW m \in DOMAIN events'[s], NEW n \in DOMAIN events'[s], m # n
        PROVE  events'[s][m].id # events'[s][n].id
    <3>1. CASE s # scope
      BY <1>3, <1>10, <2>1, <3>1 DEF CommittedOnce
    <3>2. CASE s = scope
      <4>1. \A k \in DOMAIN events[scope] : events[scope][k].id # event.id
        BY <1>1 DEF CommittedIds
      <4>2. ASSUME m \in DOMAIN events[scope], n \in DOMAIN events[scope]
            PROVE  events'[s][m].id # events'[s][n].id
        <5>1. events[scope][m].id # events[scope][n].id
          BY <1>1, <1>10, <2>1, <4>2 DEF CommittedOnce
        <5>2. events'[scope][m] = events[scope][m] /\ events'[scope][n] = events[scope][n]
          BY <1>6, <4>2
        <5> QED BY <3>2, <5>1, <5>2
      <4>3. \/ m \in DOMAIN events[scope] /\ n \in DOMAIN events[scope]
            \/ m \in DOMAIN events[scope] /\ n = Len(events[scope]) + 1
            \/ n \in DOMAIN events[scope] /\ m = Len(events[scope]) + 1
        <5> DEFINE len == Len(events[scope])
        <5>1. m \in 1 .. len + 1 /\ n \in 1 .. len + 1 /\ m # n /\ len \in Nat
          BY <1>6, <2>1, <3>2
        <5> HIDE DEF len
        <5>2. \/ m \in 1 .. len /\ n \in 1 .. len
              \/ m \in 1 .. len /\ n = len + 1
              \/ n \in 1 .. len /\ m = len + 1
          BY <5>1
        <5> QED BY <1>6, <5>2 DEF len
      <4>4. ASSUME NEW k \in DOMAIN events[scope]
            PROVE  events'[scope][k].id # events'[scope][Len(events[scope]) + 1].id
        BY <1>6, <4>1, <4>4
      <4> QED BY <3>2, <4>2, <4>3, <4>4
    <3> QED BY <3>1, <3>2
  <2> QED BY <2>1 DEF CommittedOnce
<1> QED BY <1>2, <1>7, <1>8, <1>9, <1>10

-----------------------------------------------------------------------------
(* The invariant *)

LEMMA InitInv == Init => IInv
<1> SUFFICES ASSUME Init PROVE IInv
  OBVIOUS
<1>1. TypeInv
  BY DEF Init, TypeInv
<1>2. EventsSeq
  BY DEF Init, EventsSeq
<1>3. DrainInv /\ CaptureInv
  BY DEF Init, DrainInv, CaptureInv, CaptureOK, DrainSteps, CapSteps, NoDrain, Idle
<1>4. AcceptedNotLost /\ CommittedOnce
  BY DEF Init, AcceptedNotLost, CommittedOnce
<1> QED BY <1>1, <1>2, <1>3, <1>4 DEF IInv

stored == <<disk, synced, unlinked, files, drain, events, accepted>>

\* Steps of the poller and of the captures change nothing that is stored.
LEMMA StoredUnchanged ==
  ASSUME IInv, UNCHANGED stored
  PROVE  EventsSeq' /\ DrainInv' /\ AcceptedNotLost' /\ CommittedOnce'
BY DEF IInv, stored, EventsSeq, DrainInv, AcceptedNotLost, CommittedOnce, IsCommitted, CommittedIds

\* A capture whose own state does not change is not disturbed.
LEMMA OtherCapture ==
  ASSUME CaptureInv, NEW s \in Scopes, cap'[s] = cap[s], UNCHANGED events,
         disk \subseteq disk'
  PROVE  CaptureOK(s)'
<1>1. CaptureOK(s)
  BY DEF CaptureInv
<1>2. \A obs : IsCommitted(obs) => IsCommitted(obs)'
  BY DEF IsCommitted, CommittedIds
<1>3. ObservationOfScope(cap[s].obs, s) => ObservationOfScope(cap[s].obs, s)'
  BY DEF ObservationOfScope, ObservationId
<1>4. cap[s].pc = "sync" => cap[s].obs \in disk' \/ IsCommitted(cap[s].obs)'
  BY <1>1, <1>2 DEF CaptureOK
<1> QED BY <1>1, <1>3, <1>4 DEF CaptureOK

LEMMA CapturesUnchanged ==
  ASSUME CaptureInv, UNCHANGED <<cap, events, disk>>
  PROVE  CaptureInv'
<1>1. ASSUME NEW s \in Scopes PROVE CaptureOK(s)'
  BY <1>1, OtherCapture
<1> QED BY <1>1 DEF CaptureInv

LEMMA ClockStep == IInv /\ Clock => IInv'
<1> SUFFICES ASSUME IInv, Clock PROVE IInv'
  OBVIOUS
<1>1. UNCHANGED stored
  BY DEF Clock, boxVars, stored
<1>2. TypeInv'
  BY DEF IInv, TypeInv, Clock, procVars, boxVars, ObservationOfScope, ObservationId
<1>3. CaptureInv'
  BY CapturesUnchanged DEF IInv, Clock, procVars, boxVars
<1> QED BY <1>1, <1>2, <1>3, StoredUnchanged DEF IInv

LEMMA StartStep == IInv /\ StartPolling => IInv'
<1> SUFFICES ASSUME IInv, StartPolling PROVE IInv'
  OBVIOUS
<1>1. UNCHANGED stored
  BY DEF StartPolling, boxVars, stored
<1>2. nextAt' \in Nat
  BY NextSlotFacts DEF IInv, TypeInv, StartPolling
<1>3. TypeInv'
  BY <1>2 DEF IInv, TypeInv, StartPolling, boxVars, ObservationOfScope, ObservationId
<1>4. CaptureInv'
  BY CapturesUnchanged DEF IInv, StartPolling, boxVars
<1> QED BY <1>1, <1>3, <1>4, StoredUnchanged DEF IInv

LEMMA BootStep == ASSUME NEW s \in Scopes PROVE IInv /\ BootScope(s) => IInv'
<1> SUFFICES ASSUME IInv, BootScope(s) PROVE IInv'
  OBVIOUS
<1>1. UNCHANGED stored
  BY DEF BootScope, boxVars, stored
<1>2. TypeInv'
  BY DEF IInv, TypeInv, BootScope, boxVars, ObservationOfScope, ObservationId
<1>3. ASSUME NEW u \in Scopes PROVE CaptureOK(u)'
  <2>1. CASE cap'[u] = cap[u]
    BY <1>1, <2>1, OtherCapture DEF IInv, stored
  <2>2. CASE cap'[u] # cap[u]
    <3>1. cap'[u] = [pc |-> "start", slot |-> None]
      BY <2>2 DEF BootScope, IInv, TypeInv
    <3> QED BY <3>1 DEF CaptureOK, CapSteps
  <2> QED BY <2>1, <2>2
<1> QED BY <1>1, <1>2, <1>3, StoredUnchanged DEF IInv, CaptureInv

LEMMA TickStep == IInv /\ Tick => IInv'
<1> SUFFICES ASSUME IInv, Tick PROVE IInv'
  OBVIOUS
<1>1. UNCHANGED stored
  BY DEF Tick, boxVars, stored
<1>2. nextAt' \in Nat /\ NextSlot(now) - Interval \in Nat
  BY NextSlotFacts DEF IInv, TypeInv, Tick
<1>3. TypeInv'
  BY <1>2 DEF IInv, TypeInv, Tick, boxVars, ObservationOfScope, ObservationId
<1>4. ASSUME NEW u \in Scopes PROVE CaptureOK(u)'
  <2>1. CASE cap'[u] = cap[u]
    BY <1>1, <2>1, OtherCapture DEF IInv, stored
  <2>2. CASE cap'[u] # cap[u]
    <3>1. \/ cap'[u] = [pc |-> "start", slot |-> NextSlot(now) - Interval]
          \/ cap'[u] = [pc |-> "start", slot |-> None]
          \/ cap'[u] = Idle
      BY <2>2 DEF Tick, IInv, TypeInv
    <3> QED BY <1>2, <3>1 DEF CaptureOK, CapSteps, Idle
  <2> QED BY <2>1, <2>2
<1> QED BY <1>1, <1>3, <1>4, StoredUnchanged DEF IInv, CaptureInv

LEMMA BeginStep == ASSUME NEW s \in Scopes PROVE IInv /\ CaptureBegin(s) => IInv'
<1> SUFFICES ASSUME IInv, CaptureBegin(s) PROVE IInv'
  OBVIOUS
<1>1. UNCHANGED stored
  BY DEF CaptureBegin, boxVars, stored
<1>2. TypeInv'
  BY DEF IInv, TypeInv, CaptureBegin, boxVars, ObservationOfScope, ObservationId
<1>3. ASSUME NEW u \in Scopes PROVE CaptureOK(u)'
  <2>1. CASE cap'[u] = cap[u]
    BY <1>1, <2>1, OtherCapture DEF IInv, stored
  <2>2. CASE cap'[u] # cap[u]
    <3>1. cap[s].pc = "start" /\ cap[s].slot \in Nat \cup {None}
      BY DEF CaptureBegin, IInv, CaptureInv, CaptureOK
    <3>2. \/ cap'[u].pc = "fetch" /\ cap'[u].slot = cap[s].slot /\ cap'[u].begin = now
          \/ cap'[u] = Idle
      BY <2>2 DEF CaptureBegin, IInv, TypeInv
    <3> QED BY <3>1, <3>2 DEF CaptureOK, CapSteps, Idle, IInv, TypeInv
  <2> QED BY <2>1, <2>2
<1> QED BY <1>1, <1>2, <1>3, StoredUnchanged DEF IInv, CaptureInv

LEMMA FetchStep == ASSUME NEW s \in Scopes PROVE IInv /\ FetchEnd(s) => IInv'
<1> SUFFICES ASSUME IInv, FetchEnd(s) PROVE IInv'
  OBVIOUS
<1>1. UNCHANGED stored
  BY DEF FetchEnd, boxVars, stored
<1>2. TypeInv'
  BY DEF IInv, TypeInv, FetchEnd, boxVars, ObservationOfScope, ObservationId
<1>3. ASSUME NEW u \in Scopes PROVE CaptureOK(u)'
  <2>1. CASE cap'[u] = cap[u]
    BY <1>1, <2>1, OtherCapture DEF IInv, stored
  <2>2. CASE cap'[u] # cap[u]
    <3>1. /\ cap'[u].pc = "enqueue" /\ u = s
          /\ cap'[u].obs.scope = s /\ cap'[u].obs.at = now
          /\ cap'[u].obs.scheduledAt = cap[s].slot
          /\ cap'[u].obs.id = ObservationId(s, cap[s].slot, now)
      BY <2>2 DEF FetchEnd, IInv, TypeInv
    <3>2. cap[s].slot \in Nat \cup {None}
      BY DEF FetchEnd, IInv, CaptureInv, CaptureOK
    <3> QED BY <3>1, <3>2 DEF CaptureOK, CapSteps, ObservationOfScope, IInv, TypeInv
  <2> QED BY <2>1, <2>2
<1> QED BY <1>1, <1>2, <1>3, StoredUnchanged DEF IInv, CaptureInv

LEMMA RenameStep == ASSUME NEW s \in Scopes PROVE IInv /\ EnqueueRename(s) => IInv'
<1> SUFFICES ASSUME IInv, EnqueueRename(s) PROVE IInv'
  OBVIOUS
<1>1. UNCHANGED <<events, files, synced, drain, accepted>> /\ disk \subseteq disk'
  BY DEF EnqueueRename
<1>2. ObservationOfScope(cap[s].obs, s) /\ cap[s].pc = "enqueue"
  BY DEF EnqueueRename, IInv, CaptureInv, CaptureOK
<1>3. TypeInv'
  BY <1>2 DEF IInv, TypeInv, EnqueueRename, ObservationOfScope, ObservationId
<1>4. ASSUME NEW u \in Scopes PROVE CaptureOK(u)'
  <2>1. CASE cap'[u] = cap[u]
    BY <1>1, <2>1, OtherCapture DEF IInv
  <2>2. CASE cap'[u] # cap[u]
    <3>1. \/ /\ u = s /\ cap' = [cap EXCEPT ![s].pc = "sync"] /\ cap[s].obs \in disk'
          \/ cap'[u] = Idle
      BY <2>2 DEF EnqueueRename, IInv, TypeInv
    <3>2. CASE u = s /\ cap' = [cap EXCEPT ![s].pc = "sync"] /\ cap[s].obs \in disk'
      <4>1. cap'[s] = [cap[s] EXCEPT !.pc = "sync"]
        BY <3>2 DEF IInv, TypeInv
      <4>2. cap'[s].obs = cap[s].obs /\ cap'[s].pc \in {"sync", cap[s].pc}
        BY <4>1
      <4> QED BY <1>2, <3>2, <4>2 DEF CaptureOK, CapSteps, ObservationOfScope, ObservationId
    <3> QED BY <3>1, <3>2 DEF CaptureOK, CapSteps, Idle
  <2> QED BY <2>1, <2>2
<1>5. EventsSeq' /\ DrainInv' /\ AcceptedNotLost' /\ CommittedOnce'
  BY <1>1 DEF IInv, EventsSeq, DrainInv, AcceptedNotLost, CommittedOnce, IsCommitted, CommittedIds
<1> QED BY <1>3, <1>4, <1>5 DEF IInv, CaptureInv

LEMMA SyncStep == ASSUME NEW s \in Scopes PROVE IInv /\ EnqueueSync(s) => IInv'
<1> SUFFICES ASSUME IInv, EnqueueSync(s) PROVE IInv'
  OBVIOUS
<1>1. UNCHANGED <<events, disk, drain>> /\ files \subseteq files' /\ synced' = disk
  BY DEF EnqueueSync
<1>2. ObservationOfScope(cap[s].obs, s) /\ (cap[s].obs \in disk \/ IsCommitted(cap[s].obs))
  BY DEF EnqueueSync, IInv, CaptureInv, CaptureOK
<1>3. TypeInv'
  BY <1>2 DEF IInv, TypeInv, EnqueueSync, ObservationOfScope, ObservationId
<1>4. ASSUME NEW u \in Scopes PROVE CaptureOK(u)'
  <2>1. CASE cap'[u] = cap[u]
    BY <1>1, <2>1, OtherCapture DEF IInv
  <2>2. CASE cap'[u] # cap[u]
    <3>1. cap'[u] = Idle
      BY <2>2 DEF EnqueueSync, IInv, TypeInv
    <3> QED BY <3>1 DEF CaptureOK, CapSteps, Idle
  <2> QED BY <2>1, <2>2
<1>5. AcceptedNotLost'
  <2>1. AcceptedNotLost /\ synced \subseteq disk
    BY DEF IInv, TypeInv
  <2>2. accepted' = accepted \cup {cap[s].obs} /\ cap[s].obs \in files'
    BY DEF EnqueueSync
  <2>3. \A obs : IsCommitted(obs) => IsCommitted(obs)'
    BY <1>1 DEF IsCommitted, CommittedIds
  <2>4. ASSUME NEW obs \in accepted' PROVE IsCommitted(obs)' \/ obs \in files' \cap synced'
    <3>1. CASE obs = cap[s].obs
      BY <1>1, <1>2, <2>2, <2>3, <3>1
    <3>2. CASE obs \in accepted
      BY <1>1, <2>1, <2>3, <3>2 DEF AcceptedNotLost
    <3> QED BY <2>2, <2>4, <3>1, <3>2
  <2> QED BY <2>4 DEF AcceptedNotLost
<1>6. EventsSeq' /\ DrainInv' /\ CommittedOnce'
  BY <1>1 DEF IInv, EventsSeq, DrainInv, CommittedOnce, IsCommitted, CommittedIds
<1> QED BY <1>3, <1>4, <1>5, <1>6 DEF IInv, CaptureInv

LEMMA SyncFailsStep == ASSUME NEW s \in Scopes PROVE IInv /\ EnqueueSyncFails(s) => IInv'
<1> SUFFICES ASSUME IInv, EnqueueSyncFails(s) PROVE IInv'
  OBVIOUS
<1>1. UNCHANGED stored
  BY DEF EnqueueSyncFails, boxVars, stored
<1>2. TypeInv'
  BY DEF IInv, TypeInv, EnqueueSyncFails, boxVars, ObservationOfScope, ObservationId
<1>3. ASSUME NEW u \in Scopes PROVE CaptureOK(u)'
  <2>1. CASE cap'[u] = cap[u]
    BY <1>1, <2>1, OtherCapture DEF IInv, stored
  <2>2. CASE cap'[u] # cap[u]
    <3>1. cap'[u] = Idle
      BY <2>2 DEF EnqueueSyncFails, IInv, TypeInv
    <3> QED BY <3>1 DEF CaptureOK, CapSteps, Idle
  <2> QED BY <2>1, <2>2
<1> QED BY <1>1, <1>2, <1>3, StoredUnchanged DEF IInv, CaptureInv

-----------------------------------------------------------------------------
(* The consumer *)

\* Steps of the consumer that store nothing only have to respect DrainInv.
LEMMA NothingStored ==
  ASSUME IInv, UNCHANGED <<now, procVars, boxVars, events, accepted>>, DrainInv'
  PROVE  IInv'
<1>1. TypeInv' /\ EventsSeq'
  BY DEF IInv, TypeInv, EventsSeq, procVars, boxVars, ObservationOfScope, ObservationId
<1>2. CaptureInv'
  BY CapturesUnchanged DEF IInv, procVars, boxVars
<1>3. AcceptedNotLost' /\ CommittedOnce'
  BY DEF IInv, AcceptedNotLost, CommittedOnce, IsCommitted, CommittedIds, boxVars
<1> QED BY <1>1, <1>2, <1>3 DEF IInv

LEMMA EvictStep == ASSUME NEW s \in Scopes PROVE IInv /\ EvictState(s) => IInv'
BY NothingStored
   DEF EvictState, IInv, DrainInv, IsCommitted, CommittedIds, boxVars

LEMMA TakeStep == IInv /\ DrainTake => IInv'
<1> SUFFICES ASSUME IInv, DrainTake PROVE IInv'
  OBVIOUS
<1>1. DrainInv'
  BY DEF DrainTake, IInv, TypeInv, DrainInv, DrainSteps, boxVars
<1> QED BY <1>1, NothingStored DEF DrainTake

LEMMA FoundStep == IInv /\ DrainFound => IInv'
<1> SUFFICES ASSUME IInv, DrainFound PROVE IInv'
  OBVIOUS
<1>1. DrainInv'
  BY DEF DrainFound, IInv, DrainInv, DrainSteps, boxVars, IsCommitted, CommittedIds
<1> QED BY <1>1, NothingStored DEF DrainFound

LEMMA EncodeStep == IInv /\ DrainEncode => IInv'
<1> SUFFICES ASSUME IInv, DrainEncode PROVE IInv'
  OBVIOUS
<1>1. \/ drain' = NoDrain
      \/ /\ drain'.pc = "insert" /\ drain'.obs = drain.obs /\ drain'.event.id = drain.obs.id
  BY DEF DrainEncode, Encode
<1>2. UNCHANGED <<files, events>> /\ drain.pc = "find" /\ ~IsCommitted(drain.obs)
  BY DEF DrainEncode, boxVars
<1>3. DrainInv'
  BY <1>1, <1>2 DEF IInv, DrainInv, DrainSteps, NoDrain, IsCommitted, CommittedIds
<1> QED BY <1>3, NothingStored DEF DrainEncode

LEMMA GiveUpStep == IInv /\ (DbFault \/ AckFails) => IInv'
<1> SUFFICES ASSUME IInv, DbFault \/ AckFails PROVE IInv'
  OBVIOUS
<1>1. DrainInv'
  BY DEF DbFault, AckFails, DrainInv, DrainSteps, NoDrain
<1> QED BY <1>1, NothingStored DEF DbFault, AckFails

\* The two steps that store an event.
LEMMA InsertStep == IInv /\ (DrainInsert \/ InsertReplyLost) => IInv'
<1> SUFFICES ASSUME IInv, DrainInsert \/ InsertReplyLost PROVE IInv'
  OBVIOUS
<1>1. /\ EventsSeq' /\ DOMAIN events' = Scopes /\ events' = [s \in Scopes |-> events'[s]]
      /\ \A s \in Scopes : CommittedIds(s) \subseteq CommittedIds(s)'
      /\ \A obs : obs = drain.obs => IsCommitted(obs)'
      /\ CommittedOnce'
  <2>1. Inserts
    BY DEF Inserts, DrainInsert, InsertReplyLost
  <2> QED BY <2>1, InsertFacts DEF IInv
<1>2. UNCHANGED <<now, procVars, boxVars, accepted>>
  BY DEF DrainInsert, InsertReplyLost
<1>3. \A obs : obs.scope \in Scopes /\ IsCommitted(obs) => IsCommitted(obs)'
  BY <1>1 DEF IsCommitted
<1>4. TypeInv'
  BY <1>1, <1>2 DEF IInv, TypeInv, procVars, boxVars, ObservationOfScope, ObservationId
<1>5. CaptureInv'
  BY <1>2, <1>3 DEF IInv, CaptureInv, CaptureOK, procVars, boxVars, ObservationOfScope, ObservationId
<1>6. AcceptedNotLost'
  BY <1>2, <1>3 DEF IInv, TypeInv, AcceptedNotLost, boxVars
<1>7. DrainInv'
  <2>1. CASE DrainInsert
    <3>1. drain'.pc = "ack" /\ drain'.obs = drain.obs
      BY <2>1 DEF DrainInsert
    <3>2. IsCommitted(drain.obs)'
      BY <1>1, <3>1
    <3> QED BY <1>2, <2>1, <3>1, <3>2 DEF DrainInsert, IInv, DrainInv, DrainSteps, boxVars
  <2>2. CASE InsertReplyLost
    BY <2>2 DEF InsertReplyLost, DrainInv, DrainSteps, NoDrain
  <2> QED BY <2>1, <2>2
<1> QED BY <1>1, <1>4, <1>5, <1>6, <1>7 DEF IInv

\* Only a committed observation is ever removed.
LEMMA AckStep == IInv /\ DrainAck => IInv'
<1> SUFFICES ASSUME IInv, DrainAck PROVE IInv'
  OBVIOUS
<1>1. IsCommitted(drain.obs) /\ drain.obs \in files
  BY DEF DrainAck, IInv, DrainInv
<1>2. UNCHANGED <<now, procVars, events, accepted>>
  BY DEF DrainAck
<1>3. TypeInv' /\ EventsSeq' /\ CommittedOnce'
  BY <1>1, <1>2 DEF DrainAck, IInv, TypeInv, EventsSeq, CommittedOnce, procVars, ObservationOfScope,
     ObservationId
<1>4. ASSUME NEW s \in Scopes PROVE CaptureOK(s)'
  <2>1. CaptureOK(s) /\ UNCHANGED <<cap, events>>
    BY <1>2 DEF IInv, CaptureInv, procVars
  <2>2. disk \subseteq disk' \cup {drain.obs}
    BY DEF DrainAck
  <2>3. \A obs : IsCommitted(obs) => IsCommitted(obs)'
    BY <2>1 DEF IsCommitted, CommittedIds
  <2>4. cap[s].pc = "sync" => cap[s].obs \in disk' \/ IsCommitted(cap[s].obs)'
    BY <1>1, <2>1, <2>2, <2>3 DEF CaptureOK
  <2> QED BY <2>1, <2>4 DEF CaptureOK, ObservationOfScope, ObservationId
<1>5. AcceptedNotLost'
  BY <1>1, <1>2 DEF DrainAck, IInv, AcceptedNotLost, IsCommitted, CommittedIds
<1>6. DrainInv'
  BY DEF DrainAck, DrainInv, DrainSteps, NoDrain
<1> QED BY <1>3, <1>4, <1>5, <1>6 DEF IInv, CaptureInv

-----------------------------------------------------------------------------
(* Crashes *)

\* After a crash nothing durable is missing from what the new process reads.
LEMMA CrashStep == IInv /\ (ProcessCrash \/ MachineCrash) => IInv'
<1> SUFFICES ASSUME IInv, ProcessCrash \/ MachineCrash PROVE IInv'
  OBVIOUS
<1>1. /\ \E survivors : RestartWith(survivors)
      /\ synced \subseteq synced' /\ synced' \subseteq disk' /\ files' = disk'
      /\ disk' \subseteq disk \cup unlinked /\ unlinked' \subseteq unlinked
  BY DEF ProcessCrash, MachineCrash, RestartWith, IInv, TypeInv
<1>2. /\ UNCHANGED <<now, events, accepted>> /\ drain' = NoDrain
      /\ booting' = Scopes /\ polling' = FALSE /\ started' = FALSE /\ nextAt' = 0
      /\ cap' = [s \in Scopes |-> Idle] /\ firstCaptured' = {}
  BY <1>1 DEF RestartWith
<1>3. TypeInv' /\ EventsSeq' /\ CommittedOnce'
  BY <1>1, <1>2 DEF IInv, TypeInv, EventsSeq, CommittedOnce, ObservationOfScope, ObservationId
<1>4. CaptureInv' /\ DrainInv'
  BY <1>2 DEF CaptureInv, CaptureOK, DrainInv, CapSteps, DrainSteps, Idle, NoDrain
<1>5. AcceptedNotLost'
  BY <1>1, <1>2 DEF IInv, AcceptedNotLost, IsCommitted, CommittedIds
<1> QED BY <1>3, <1>4, <1>5 DEF IInv

-----------------------------------------------------------------------------

LEMMA StutterStep == IInv /\ UNCHANGED vars => IInv'
<1> SUFFICES ASSUME IInv, UNCHANGED vars PROVE IInv'
  OBVIOUS
<1>1. DrainInv'
  BY DEF vars, boxVars, IInv, DrainInv, IsCommitted, CommittedIds
<1> QED BY <1>1, NothingStored DEF vars

LEMMA NextInv == IInv /\ [Next]_vars => IInv'
<1> SUFFICES ASSUME IInv, [Next]_vars PROVE IInv'
  OBVIOUS
<1>1. CASE Clock \/ StartPolling \/ Tick
  BY <1>1, ClockStep, StartStep, TickStep
<1>2. ASSUME NEW s \in Scopes, BootScope(s) \/ CaptureNext(s) \/ EvictState(s) PROVE IInv'
  BY <1>2, BootStep, BeginStep, FetchStep, RenameStep, SyncStep, SyncFailsStep, EvictStep
     DEF CaptureNext
<1>3. CASE DrainNext
  BY <1>3, TakeStep, FoundStep, EncodeStep, InsertStep, AckStep, GiveUpStep
     DEF DrainNext, DrainProgress
<1>4. CASE ProcessCrash \/ MachineCrash
  BY <1>4, CrashStep
<1>5. CASE UNCHANGED vars
  BY <1>5, StutterStep
<1> QED BY <1>1, <1>2, <1>3, <1>4, <1>5 DEF Next

\* The invariant holds in every state the pipeline can reach.
THEOREM Invariance == Spec => []IInv
<1>1. Init => IInv
  BY InitInv
<1>2. IInv /\ [Next]_vars => IInv'
  BY NextInv
<1> QED BY <1>1, <1>2, PTL DEF Spec

\* An observation whose enqueue was acknowledged is committed, or in the queue
\* with a durable file, whatever crashes and faults happen.
THEOREM AcceptedIsNeverLost == Spec => []AcceptedNotLost
<1>1. IInv => AcceptedNotLost
  BY DEF IInv
<1> QED BY <1>1, Invariance, PTL

\* No observation is committed twice, whatever is replayed.
THEOREM CommittedAtMostOnce == Spec => []CommittedOnce
<1>1. IInv => CommittedOnce
  BY DEF IInv
<1> QED BY <1>1, Invariance, PTL

-----------------------------------------------------------------------------
(* A planned slot identifies one observation, through restarts, busy pollers *)
(* and failed enqueues; with it, the pipeline's variables keep their types.  *)

\* Every observation that exists anywhere outside a capture.
Seen == disk \cup files \cup unlinked \cup accepted

\* What the slots and times of a capture are, compared with what exists.
SlotOK(s) ==
  /\ cap[s].pc \in {"start", "fetch"} /\ cap[s].slot # None =>
       /\ polling /\ cap[s].slot < nextAt /\ cap[s].slot <= now
       /\ \A o \in Seen : o.scope = s /\ o.scheduledAt # None => o.scheduledAt < cap[s].slot
  /\ cap[s].pc = "fetch" =>
       cap[s].begin <= now /\ \A o \in Seen : o.scope = s => o.at <= cap[s].begin
  /\ cap[s].pc \in {"enqueue", "sync"} =>
       /\ cap[s].obs.at <= now
       /\ cap[s].obs.scheduledAt # None =>
            polling /\ cap[s].obs.scheduledAt < nextAt /\ cap[s].obs.scheduledAt <= cap[s].obs.at
  /\ cap[s].pc = "enqueue" => \A o \in Seen : o.id # cap[s].obs.id
  /\ cap[s].pc = "sync" => cap[s].obs \in disk /\ cap[s].obs \notin files

SeenOK ==
  /\ \A o \in Seen :
       /\ o.at <= now
       /\ o.scheduledAt # None => o.scheduledAt <= o.at /\ (polling => o.scheduledAt < nextAt)
  /\ \A o1, o2 \in Seen : o1.id = o2.id => o1 = o2

SlotInv ==
  /\ SeenOK
  /\ polling => \E t \in Nat : nextAt = NextSlot(t)
  /\ files \subseteq disk
  /\ \A s \in Scopes : SlotOK(s)

-----------------------------------------------------------------------------
(* Identifiers and slots *)

LEMMA SameIdentifier ==
  ASSUME NEW o, NEW p, NEW u, NEW s,
         ObservationOfScope(o, u), ObservationOfScope(p, s), o.id = p.id
  PROVE  /\ u = s /\ o.scheduledAt = p.scheduledAt
         /\ o.scheduledAt = None => o.at = p.at
<1>1. CASE o.scheduledAt = None /\ p.scheduledAt = None
  BY <1>1 DEF ObservationOfScope, ObservationId
<1>2. CASE o.scheduledAt # None /\ p.scheduledAt # None
  BY <1>2 DEF ObservationOfScope, ObservationId
<1>3. CASE o.scheduledAt = None /\ p.scheduledAt # None
  BY <1>3 DEF ObservationOfScope, ObservationId
<1>4. CASE o.scheduledAt # None /\ p.scheduledAt = None
  BY <1>4 DEF ObservationOfScope, ObservationId
<1> QED BY <1>1, <1>2, <1>3, <1>4

\* A tick never reuses a slot: once the clock has reached nextAt, the current
\* slot is not before it.
LEMMA SlotsAdvance ==
  ASSUME NEW n \in Nat, NEW t \in Nat, NextSlot(t) <= n
  PROVE  NextSlot(t) <= NextSlot(n) - Interval
<1> DEFINE q == n \div Interval
           r == t \div Interval + 1
<1>1. Interval \in Nat \ {0}
  BY PipelineAssumption
<1>2. q \in Nat /\ r \in Nat /\ n < Interval * q + Interval
  BY <1>1
<1>3. NextSlot(t) = r * Interval /\ NextSlot(n) = (q + 1) * Interval
  BY DEF NextSlot
<1> HIDE DEF q, r
<1>4. r * Interval < (q + 1) * Interval
  BY <1>1, <1>2, <1>3
<1>5. r <= q
  BY <1>1, <1>2, <1>4
<1>6. r * Interval <= q * Interval /\ (q + 1) * Interval - Interval = q * Interval
  BY <1>1, <1>2, <1>5
<1> QED BY <1>3, <1>6

-----------------------------------------------------------------------------
(* Steps that add nothing *)

LEMMA SeenTypes ==
  ASSUME IInv
  PROVE  /\ now \in Nat /\ nextAt \in Nat /\ polling \in BOOLEAN
         /\ \A o \in Seen : /\ o.scope \in Scopes /\ ObservationOfScope(o, o.scope)
                            /\ o.at \in Nat /\ o.scheduledAt \in Nat \cup {None}
BY DEF IInv, TypeInv, Seen, ObservationOfScope

LEMMA SeenKept ==
  ASSUME IInv, IInv', SeenOK, now <= now', nextAt <= nextAt', Seen' \subseteq Seen,
         polling' => polling
  PROVE  SeenOK'
<1>1. \A o \in Seen' : o.at \in Nat /\ o.scheduledAt \in Nat \cup {None}
  BY SeenTypes
<1>2. now \in Nat /\ now' \in Nat /\ nextAt \in Nat /\ nextAt' \in Nat
  BY SeenTypes DEF IInv, TypeInv
<1> QED BY <1>1, <1>2 DEF SeenOK

LEMMA SlotKept ==
  ASSUME IInv, IInv', NEW s \in Scopes, SlotOK(s), cap'[s] = cap[s],
         now <= now', nextAt <= nextAt', Seen' \subseteq Seen, polling => polling',
         cap[s].pc = "sync" => cap[s].obs \in disk' /\ cap[s].obs \notin files'
  PROVE  SlotOK(s)'
<1>1. now \in Nat /\ now' \in Nat /\ nextAt \in Nat /\ nextAt' \in Nat
  BY SeenTypes DEF IInv, TypeInv
<1>2. CaptureOK(s)
  BY DEF IInv, CaptureInv
<1>3. CASE cap[s].pc \in {"start", "fetch"}
  BY <1>1, <1>2, <1>3 DEF SlotOK, CaptureOK
<1>4. CASE cap[s].pc \in {"enqueue", "sync"}
  <2>1. cap[s].obs.at \in Nat /\ cap[s].obs.scheduledAt \in Nat \cup {None}
    BY <1>2, <1>4 DEF CaptureOK, ObservationOfScope
  <2> QED BY <1>1, <1>4, <2>1 DEF SlotOK
<1>5. CASE cap[s].pc \notin {"start", "fetch", "enqueue", "sync"}
  BY <1>5 DEF SlotOK
<1> QED BY <1>3, <1>4, <1>5

LEMMA ClockKeepsSlots == IInv /\ IInv' /\ SlotInv /\ Clock => SlotInv'
<1> SUFFICES ASSUME IInv, IInv', SlotInv, Clock PROVE SlotInv'
  OBVIOUS
<1>1. /\ UNCHANGED <<polling, nextAt, cap, disk, files, unlinked, accepted>>
      /\ now <= now'
  BY SeenTypes DEF Clock, procVars, boxVars
<1>2. SeenOK' /\ \A s \in Scopes : SlotOK(s)'
  BY <1>1, SeenKept, SlotKept, SeenTypes DEF SlotInv, SlotOK, Seen
<1> QED BY <1>1, <1>2 DEF SlotInv

stable == <<now, polling, nextAt, disk, files, unlinked, accepted>>

\* A step of one capture that adds no observation has to care for itself only.
LEMMA CaptureKeepsSlots ==
  ASSUME IInv, IInv', SlotInv, UNCHANGED stable, NEW s \in Scopes, SlotOK(s)',
         \A u \in Scopes \ {s} : cap'[u] = cap[u]
  PROVE  SlotInv'
<1>1. SeenOK'
  BY SeenKept, SeenTypes DEF SlotInv, Seen, stable
<1>2. ASSUME NEW u \in Scopes, u # s PROVE SlotOK(u)'
  BY <1>2, SlotKept, SeenTypes DEF SlotInv, SlotOK, Seen, stable
<1> QED BY <1>1, <1>2 DEF SlotInv, stable

LEMMA BootKeepsSlots ==
  ASSUME NEW s \in Scopes PROVE IInv /\ IInv' /\ SlotInv /\ BootScope(s) => SlotInv'
<1> SUFFICES ASSUME IInv, IInv', SlotInv, BootScope(s) PROVE SlotInv'
  OBVIOUS
<1>1. UNCHANGED stable /\ \A u \in Scopes \ {s} : cap'[u] = cap[u]
  BY DEF BootScope, boxVars, stable, IInv, TypeInv
<1>2. SlotOK(s)'
  <2>1. CASE cap' = cap
    BY <1>1, <2>1, SlotKept, SeenTypes DEF SlotInv, SlotOK, Seen, stable
  <2>2. CASE cap' # cap
    <3>1. cap'[s] = [pc |-> "start", slot |-> None]
      BY <2>2 DEF BootScope, IInv, TypeInv
    <3> QED BY <3>1 DEF SlotOK
  <2> QED BY <2>1, <2>2
<1> QED BY <1>1, <1>2, CaptureKeepsSlots

LEMMA BeginKeepsSlots ==
  ASSUME NEW s \in Scopes PROVE IInv /\ IInv' /\ SlotInv /\ CaptureBegin(s) => SlotInv'
<1> SUFFICES ASSUME IInv, IInv', SlotInv, CaptureBegin(s) PROVE SlotInv'
  OBVIOUS
<1>1. UNCHANGED stable /\ \A u \in Scopes \ {s} : cap'[u] = cap[u]
  BY DEF CaptureBegin, boxVars, stable, IInv, TypeInv
<1>2. \/ cap'[s] = Idle
      \/ /\ cap[s].pc = "start" /\ cap'[s].pc = "fetch"
         /\ cap'[s].slot = cap[s].slot /\ cap'[s].begin = now
  BY DEF CaptureBegin, IInv, TypeInv
<1>3. SlotOK(s) /\ SeenOK /\ now \in Nat
  BY SeenTypes DEF SlotInv
<1>4. SlotOK(s)'
  BY <1>1, <1>2, <1>3 DEF SlotOK, SeenOK, Seen, stable, Idle
<1> QED BY <1>1, <1>4, CaptureKeepsSlots

\* An observation that has just been made has an _id no other one has.
LEMMA FetchKeepsSlots ==
  ASSUME NEW s \in Scopes PROVE IInv /\ IInv' /\ SlotInv /\ FetchEnd(s) => SlotInv'
<1> SUFFICES ASSUME IInv, IInv', SlotInv, FetchEnd(s) PROVE SlotInv'
  OBVIOUS
<1>1. UNCHANGED stable /\ \A u \in Scopes \ {s} : cap'[u] = cap[u]
  BY DEF FetchEnd, boxVars, stable, IInv, TypeInv
<1>2. /\ cap'[s].pc = "enqueue" /\ cap'[s].obs.scope = s /\ cap'[s].obs.at = now
      /\ cap'[s].obs.scheduledAt = cap[s].slot
      /\ cap[s].pc = "fetch" /\ now > cap[s].begin
  BY DEF FetchEnd, IInv, TypeInv
<1>3. SlotOK(s) /\ SeenOK /\ CaptureOK(s) /\ CaptureOK(s)'
  BY DEF SlotInv, IInv, CaptureInv
<1>4. ASSUME NEW o \in Seen, o.id = cap'[s].obs.id PROVE FALSE
  <2> DEFINE p == cap'[s].obs
  <2>1. ObservationOfScope(p, s) /\ ObservationOfScope(o, o.scope)
    BY <1>2, <1>3, SeenTypes DEF CaptureOK, ObservationOfScope, ObservationId
  <2>2. o.scope = s /\ o.scheduledAt = cap[s].slot /\ (o.scheduledAt = None => o.at = now)
    <3> HIDE DEF p
    <3>1. o.id = p.id
      BY <1>4 DEF p
    <3>2. o.scope = s /\ o.scheduledAt = p.scheduledAt /\ (o.scheduledAt = None => o.at = p.at)
      BY <2>1, <3>1, SameIdentifier
    <3> QED BY <1>2, <3>2 DEF p
  <2>3. o.at \in Nat /\ now \in Nat /\ o.scheduledAt \in Nat \cup {None}
    BY SeenTypes
  <2>4. cap[s].begin \in Nat /\ o.at <= cap[s].begin
    BY <1>2, <1>3, <2>2 DEF SlotOK, CaptureOK
  <2>5. cap[s].slot # None => o.scheduledAt < cap[s].slot
    BY <1>2, <1>3, <2>2 DEF SlotOK
  <2> QED BY <1>2, <2>2, <2>3, <2>4, <2>5
<1>5. SlotOK(s)'
  BY <1>1, <1>2, <1>3, <1>4, SeenTypes DEF SlotOK, Seen, stable
<1> QED BY <1>1, <1>5, CaptureKeepsSlots

-----------------------------------------------------------------------------
(* The steps of an enqueue *)

\* The rename brings one observation into being, with an _id of its own.
LEMMA RenameKeepsSlots ==
  ASSUME NEW s \in Scopes PROVE IInv /\ IInv' /\ SlotInv /\ EnqueueRename(s) => SlotInv'
<1> SUFFICES ASSUME IInv, IInv', SlotInv, EnqueueRename(s) PROVE SlotInv'
  OBVIOUS
<1> DEFINE obs == cap[s].obs
<1>1. /\ UNCHANGED <<now, polling, nextAt, files, unlinked, accepted>>
      /\ cap[s].pc = "enqueue" /\ \A u \in Scopes \ {s} : cap'[u] = cap[u]
  BY DEF EnqueueRename, IInv, TypeInv
<1>2. SlotOK(s) /\ SeenOK /\ CaptureOK(s)
  BY DEF SlotInv, IInv, CaptureInv
<1>3. CASE cap' = [cap EXCEPT ![s] = Idle] /\ disk' = disk
  <2>1. UNCHANGED stable
    BY <1>1, <1>3 DEF stable
  <2>2. SlotOK(s)'
    BY <1>3 DEF SlotOK, IInv, TypeInv, Idle
  <2> QED BY <1>1, <2>1, <2>2, CaptureKeepsSlots
<1>4. CASE cap' = [cap EXCEPT ![s].pc = "sync"] /\ disk' = disk \cup {obs}
  <2>1. cap'[s] = [cap[s] EXCEPT !.pc = "sync"]
    BY <1>4 DEF IInv, TypeInv
  <2>2. cap'[s].obs = obs /\ cap'[s].pc \in {"sync", "enqueue"}
    BY <1>1, <2>1
  <2>3. Seen' = Seen \cup {obs}
    BY <1>1, <1>4 DEF Seen
  <2>4. /\ obs.scope = s /\ obs.at <= now
        /\ obs.scheduledAt # None =>
             polling /\ obs.scheduledAt < nextAt /\ obs.scheduledAt <= obs.at
        /\ \A o \in Seen : o.id # obs.id
    BY <1>1, <1>2 DEF SlotOK, CaptureOK, ObservationOfScope
  <2>5. SeenOK'
    BY <1>1, <1>2, <2>3, <2>4 DEF SeenOK
  <2>6. SlotOK(s)'
    <3>1. obs \in disk' /\ obs \notin files'
      BY <1>1, <1>4, <2>4 DEF Seen
    <3>2. CASE cap'[s].pc = "sync"
      BY <1>1, <2>2, <2>4, <3>1, <3>2 DEF SlotOK
    <3>3. CASE cap'[s].pc = "enqueue"
      <4>1. FALSE
        BY <1>1, <2>1, <3>3 DEF IInv, CaptureInv, CaptureOK
      <4> QED BY <4>1
    <3> QED BY <2>2, <3>2, <3>3
  <2>7. ASSUME NEW u \in Scopes, u # s PROVE SlotOK(u)'
    <3>1. SlotOK(u) /\ CaptureOK(u) /\ cap'[u] = cap[u]
      BY <1>1, <2>7 DEF SlotInv, IInv, CaptureInv
    <3>2. CASE cap[u].pc = "enqueue"
      <4>1. cap[u].obs.id # obs.id
        BY <1>1, <1>2, <2>7, <3>1, <3>2, SameIdentifier DEF CaptureOK
      <4> QED BY <1>1, <2>3, <3>1, <3>2, <4>1 DEF SlotOK
    <3>3. CASE cap[u].pc # "enqueue"
      BY <1>1, <1>4, <2>3, <2>4, <2>7, <3>1, <3>3 DEF SlotOK
    <3> QED BY <3>2, <3>3
  <2> QED BY <1>1, <1>4, <2>5, <2>6, <2>7 DEF SlotInv
<1> QED BY <1>3, <1>4 DEF EnqueueRename

LEMMA SyncKeepsSlots ==
  ASSUME NEW s \in Scopes
  PROVE  IInv /\ IInv' /\ SlotInv /\ (EnqueueSync(s) \/ EnqueueSyncFails(s)) => SlotInv'
<1> SUFFICES ASSUME IInv, IInv', SlotInv, EnqueueSync(s) \/ EnqueueSyncFails(s) PROVE SlotInv'
  OBVIOUS
<1>1. /\ UNCHANGED <<now, polling, nextAt, disk>> /\ files \subseteq files'
      /\ files' \subseteq files \cup {cap[s].obs}
      /\ Seen' \subseteq Seen \cup {cap[s].obs}
      /\ cap[s].pc = "sync" /\ cap'[s] = Idle /\ \A u \in Scopes \ {s} : cap'[u] = cap[u]
  BY DEF EnqueueSync, EnqueueSyncFails, boxVars, IInv, TypeInv, Seen
<1>2. cap[s].obs \in disk /\ cap[s].obs.scope = s
  BY <1>1 DEF SlotInv, SlotOK, IInv, CaptureInv, CaptureOK, ObservationOfScope
<1>3. Seen' \subseteq Seen /\ files' \subseteq disk'
  BY <1>1, <1>2 DEF Seen, SlotInv
<1>4. SeenOK'
  BY <1>1, <1>3, SeenKept, SeenTypes DEF SlotInv
<1>5. SlotOK(s)'
  BY <1>1 DEF SlotOK, Idle
<1>6. ASSUME NEW u \in Scopes, u # s PROVE SlotOK(u)'
  <2>1. SlotOK(u) /\ CaptureOK(u) /\ cap'[u] = cap[u]
    BY <1>1, <1>6 DEF SlotInv, IInv, CaptureInv
  <2>2. cap[u].pc = "sync" => cap[u].obs.scope = u
    BY <2>1 DEF CaptureOK, ObservationOfScope
  <2>3. cap[u].pc = "sync" => cap[u].obs \in disk' /\ cap[u].obs \notin files'
    BY <1>1, <1>2, <1>6, <2>1, <2>2 DEF SlotOK
  <2> QED BY <1>1, <1>3, <2>1, <2>3, SlotKept, SeenTypes
<1> QED BY <1>1, <1>3, <1>4, <1>5, <1>6 DEF SlotInv

-----------------------------------------------------------------------------
(* The poller *)

LEMMA StartKeepsSlots == IInv /\ IInv' /\ SlotInv /\ StartPolling => SlotInv'
<1> SUFFICES ASSUME IInv, IInv', SlotInv, StartPolling PROVE SlotInv'
  OBVIOUS
<1>1. /\ UNCHANGED <<now, cap, disk, files, unlinked, accepted>>
      /\ nextAt' = NextSlot(now) /\ polling' = TRUE
      /\ \A s \in Scopes : cap[s] = Idle
  BY DEF StartPolling, boxVars, AllIdle
<1>2. now < nextAt'
  BY <1>1, NextSlotFacts, SeenTypes
<1>3. SeenOK'
  <2>1. nextAt' \in Nat
    BY DEF IInv, TypeInv
  <2> QED BY <1>1, <1>2, <2>1, SeenTypes DEF SlotInv, SeenOK, Seen
<1>4. \A s \in Scopes : SlotOK(s)'
  BY <1>1 DEF SlotOK, Idle
<1> QED BY <1>1, <1>3, <1>4, SeenTypes DEF SlotInv

\* The slot a tick hands out is later than every slot used so far.
LEMMA TickKeepsSlots == IInv /\ IInv' /\ SlotInv /\ Tick => SlotInv'
<1> SUFFICES ASSUME IInv, IInv', SlotInv, Tick PROVE SlotInv'
  OBVIOUS
<1>1. /\ UNCHANGED <<now, polling, disk, files, unlinked, accepted>>
      /\ nextAt' = NextSlot(now) /\ polling /\ now >= nextAt
  BY DEF Tick, boxVars
<1>2. PICK t \in Nat : nextAt = NextSlot(t)
  BY <1>1 DEF SlotInv
<1>3. /\ now \in Nat /\ nextAt \in Nat /\ nextAt' \in Nat
      /\ NextSlot(now) - Interval \in Nat
      /\ nextAt <= NextSlot(now) - Interval /\ NextSlot(now) - Interval <= now
      /\ now < nextAt'
  BY <1>1, <1>2, SlotsAdvance, NextSlotFacts, SeenTypes DEF IInv, TypeInv
<1>4. nextAt <= nextAt'
  BY <1>1, <1>3
<1>5. SeenOK'
  BY <1>1, <1>3, <1>4, SeenKept DEF SlotInv, Seen
<1>6. ASSUME NEW s \in Scopes PROVE SlotOK(s)'
  <2>1. CASE cap'[s] = cap[s]
    BY <1>1, <1>3, <1>4, <2>1, SlotKept DEF SlotInv, SlotOK, Seen
  <2>2. CASE cap'[s] = [pc |-> "start", slot |-> NextSlot(now) - Interval]
    <3>1. \A o \in Seen : o.scheduledAt # None => o.scheduledAt < NextSlot(now) - Interval
      BY <1>1, <1>3, SeenTypes DEF SlotInv, SeenOK
    <3>2. NextSlot(now) - Interval < nextAt'
      BY <1>3
    <3> HIDE DEF NextSlot
    <3> QED BY <1>1, <1>3, <2>2, <3>1, <3>2 DEF SlotOK, Seen
  <2>3. CASE cap'[s] \in {[pc |-> "start", slot |-> None], Idle}
    BY <2>3 DEF SlotOK, Idle
  <2> QED BY <2>1, <2>2, <2>3 DEF Tick, IInv, TypeInv
<1> QED BY <1>1, <1>3, <1>5, <1>6 DEF SlotInv

-----------------------------------------------------------------------------
(* The consumer, crashes, and the theorems *)

LEMMA ConsumerKeepsSlots ==
  ASSUME IInv, IInv', SlotInv, UNCHANGED <<now, polling, nextAt, cap, accepted>>,
         \/ UNCHANGED boxVars
         \/ DrainAck
  PROVE  SlotInv'
<1>1. /\ Seen' \subseteq Seen /\ files' \subseteq disk' /\ files' \subseteq files
      /\ \A o \in disk : o \in disk' \/ o \in files
  <2>1. CASE UNCHANGED boxVars
    BY <2>1 DEF boxVars, Seen, SlotInv
  <2>2. CASE DrainAck
    <3>1. drain.obs \in files
      BY <2>2 DEF DrainAck, IInv, DrainInv
    <3> QED BY <2>2, <3>1 DEF DrainAck, Seen, SlotInv
  <2> QED BY <2>1, <2>2
<1>2. SeenOK'
  BY <1>1, SeenKept, SeenTypes DEF SlotInv
<1>3. \A s \in Scopes : SlotOK(s)'
  BY <1>1, SlotKept, SeenTypes DEF SlotInv, SlotOK
<1> QED BY <1>1, <1>2, <1>3 DEF SlotInv

LEMMA CrashKeepsSlots ==
  IInv /\ IInv' /\ SlotInv /\ (ProcessCrash \/ MachineCrash) => SlotInv'
<1> SUFFICES ASSUME IInv, IInv', SlotInv, ProcessCrash \/ MachineCrash PROVE SlotInv'
  OBVIOUS
<1>1. /\ UNCHANGED <<now, accepted>> /\ polling' = FALSE /\ files' = disk'
      /\ cap' = [s \in Scopes |-> Idle]
      /\ disk' \subseteq Seen /\ unlinked' \subseteq Seen
  BY DEF ProcessCrash, MachineCrash, RestartWith, Seen, IInv, TypeInv
<1>2. Seen' \subseteq Seen
  BY <1>1 DEF Seen
<1>3. SeenOK'
  BY <1>1, <1>2 DEF SlotInv, SeenOK
<1>4. \A s \in Scopes : SlotOK(s)'
  BY <1>1 DEF SlotOK, Idle
<1> QED BY <1>1, <1>3, <1>4 DEF SlotInv

LEMMA SlotInvInit == Init => SlotInv
BY DEF Init, SlotInv, SeenOK, SlotOK, Seen, Idle

LEMMA SlotInvNext == IInv /\ IInv' /\ SlotInv /\ [Next]_vars => SlotInv'
<1> SUFFICES ASSUME IInv, IInv', SlotInv, [Next]_vars PROVE SlotInv'
  OBVIOUS
<1>1. CASE Clock \/ StartPolling \/ Tick
  BY <1>1, ClockKeepsSlots, StartKeepsSlots, TickKeepsSlots
<1>2. ASSUME NEW s \in Scopes, BootScope(s) \/ CaptureNext(s) PROVE SlotInv'
  BY <1>2, BootKeepsSlots, BeginKeepsSlots, FetchKeepsSlots, RenameKeepsSlots, SyncKeepsSlots
     DEF CaptureNext
<1>3. ASSUME NEW s \in Scopes, EvictState(s) PROVE SlotInv'
  BY <1>3, ConsumerKeepsSlots DEF EvictState, procVars
<1>4. CASE DrainAck
  BY <1>4, ConsumerKeepsSlots DEF DrainAck, procVars
<1>5. CASE DrainNext /\ ~DrainAck
  BY <1>5, ConsumerKeepsSlots
     DEF DrainNext, DrainProgress, DrainTake, DrainFound, DrainEncode, DrainInsert, DbFault,
         InsertReplyLost, AckFails, procVars
<1>6. CASE ProcessCrash \/ MachineCrash
  BY <1>6, CrashKeepsSlots
<1>7. CASE UNCHANGED vars
  BY <1>7, ConsumerKeepsSlots DEF vars, procVars
<1> QED BY <1>1, <1>2, <1>3, <1>4, <1>5, <1>6, <1>7 DEF Next

LEMMA SlotInvariance == Spec => []SlotInv
<1>1. Init => SlotInv
  BY SlotInvInit
<1>2. IInv /\ IInv' /\ SlotInv /\ [Next]_vars => SlotInv'
  BY SlotInvNext
<1> QED BY <1>1, <1>2, Invariance, PTL DEF Spec

\* No two accepted observations share an _id, so that none is taken for one
\* that is already committed and dropped.
THEOREM SlotsAreUsedOnce == Spec => []SlotUsedOnce
<1>1. SlotInv => SlotUsedOnce
  BY DEF SlotInv, SeenOK, Seen, SlotUsedOnce
<1> QED BY <1>1, SlotInvariance, PTL

\* The files the process knows of are files on disk, and every variable keeps
\* its type.
THEOREM TypeCorrect == Spec => []TypeOK
<1>1. IInv /\ SlotInv => TypeOK
  BY DEF IInv, SlotInv, TypeInv, CaptureInv, CaptureOK, DrainInv, ObservationOfScope, TypeOK
<1> QED BY <1>1, Invariance, SlotInvariance, PTL


-----------------------------------------------------------------------------
(* Samples: what an observation holds, and what the consumer encodes. *)

PlannedSlot(x) == \E q \in Nat : x = q * Interval

SampleOK(obs) ==
  /\ ObservationOK(obs) /\ obs.intervalMs \in Nat
  /\ obs.reason = NoReason => ValidRanking(obs.ranking)
  /\ obs.reason # NoReason => obs.ranking = <<>>
  /\ obs.scheduledAt # None \/ obs.effectiveAt # None \/ Bootstraps
  /\ obs.scheduledAt # None => PlannedSlot(obs.scheduledAt)
  /\ obs.effectiveAt = None => obs.intervalMs = Interval

CapSampleOK(s) ==
  /\ cap[s].pc \in {"start", "fetch"} => cap[s].slot # None \/ Bootstraps \/ now > EndAt
  /\ cap[s].pc \in {"start", "fetch"} /\ cap[s].slot # None => PlannedSlot(cap[s].slot)
  /\ cap[s].pc = "fetch" =>
       cap[s].intervalMs \in Nat /\ (cap[s].intervalMs = Interval \/ cap[s].begin >= EndAt)
  /\ cap[s].pc \in {"enqueue", "sync"} => SampleOK(cap[s].obs)

EncodedOK ==
  drain.pc = "insert" =>
    /\ Encodable(drain.obs, drain.state)
    /\ drain.event = Encode(drain.obs, drain.state)

SampleInv ==
  /\ \A o \in Seen : SampleOK(o)
  /\ \A s \in Scopes : CapSampleOK(s)
  /\ EncodedOK

LEMMA ResultsOK ==
  ASSUME NEW res \in Results
  PROVE  /\ res.ranking \in RankingType /\ res.reason \in GapReasons \cup {NoReason}
         /\ res.reason = NoReason => ValidRanking(res.ranking)
         /\ res.reason # NoReason => res.ranking = <<>>
<1>1. <<>> \in RankingType
  BY DEF RankingType
<1>2. \A r \in Rankings : r \in RankingType /\ ValidRanking(r)
  BY PipelineAssumption DEF RankingType
<1>3. Reasons \subseteq GapReasons /\ NoReason \notin GapReasons
  BY PipelineAssumption DEF GapReasons, NoReason
<1> QED BY <1>1, <1>2, <1>3 DEF Results

LEMMA SlotIsPlanned ==
  ASSUME NEW n \in Nat PROVE PlannedSlot(NextSlot(n) - Interval)
<1> DEFINE q == n \div Interval
<1>1. Interval \in Nat \ {0}
  BY PipelineAssumption
<1>2. q \in Nat
  BY <1>1
<1> HIDE DEF q
<1>3. (q + 1) * Interval - Interval = q * Interval
  BY <1>1, <1>2
<1>4. PlannedSlot(q * Interval)
  BY <1>2 DEF PlannedSlot
<1> QED BY <1>3, <1>4 DEF NextSlot, q

\* A capture that does not move is not disturbed by the clock.
LEMMA CapSampleKept ==
  ASSUME IInv, IInv', NEW s \in Scopes, CapSampleOK(s), cap'[s] = cap[s], now <= now'
  PROVE  CapSampleOK(s)'
<1>1. now \in Nat /\ now' \in Nat /\ EndAt \in Nat
  BY PipelineAssumption DEF IInv, TypeInv
<1> QED BY <1>1 DEF CapSampleOK, SampleOK

LEMMA SampleInvInit == Init => SampleInv
BY DEF Init, SampleInv, CapSampleOK, EncodedOK, Seen, Idle, NoDrain

\* What a step of a capture leaves behind in its own scope.
LEMMA CaptureSamples ==
  ASSUME IInv, IInv', SampleInv, NEW s \in Scopes,
         BootScope(s) \/ CaptureNext(s)
  PROVE  /\ CapSampleOK(s)' /\ now' = now /\ drain' = drain
         /\ \A u \in Scopes \ {s} : cap'[u] = cap[u]
         /\ Seen' \subseteq Seen \cup (IF cap[s].pc \in {"enqueue", "sync"} THEN {cap[s].obs} ELSE {})
<1>1. CapSampleOK(s) /\ CaptureOK(s) /\ now \in Nat
  BY DEF SampleInv, IInv, CaptureInv, TypeInv
<1>2. CASE BootScope(s)
  <2>1. cap'[s] = cap[s] \/ (Bootstraps /\ cap'[s] = [pc |-> "start", slot |-> None])
    BY <1>2 DEF BootScope, IInv, TypeInv
  <2>2. CapSampleOK(s)'
    <3>1. CASE cap'[s] = cap[s]
      BY <1>1, <1>2, <3>1, CapSampleKept DEF BootScope
    <3>2. CASE Bootstraps /\ cap'[s] = [pc |-> "start", slot |-> None]
      BY <3>2 DEF CapSampleOK
    <3> QED BY <2>1, <3>1, <3>2
  <2> QED BY <1>2, <2>2 DEF BootScope, boxVars, Seen, IInv, TypeInv
<1>3. CASE CaptureBegin(s)
  <2>1. \/ cap'[s] = Idle
        \/ /\ cap[s].pc = "start" /\ cap'[s].pc = "fetch" /\ cap'[s].slot = cap[s].slot
           /\ cap'[s].intervalMs \in Nat
           /\ cap'[s].intervalMs = Interval \/ cap'[s].begin >= EndAt
    BY <1>3, PipelineAssumption DEF CaptureBegin, IInv, TypeInv
  <2>2. CapSampleOK(s)'
    BY <1>1, <1>3, <2>1 DEF CapSampleOK, CaptureBegin, Idle
  <2> QED BY <1>3, <2>2 DEF CaptureBegin, boxVars, Seen, IInv, TypeInv
<1>4. CASE FetchEnd(s)
  <2>1. PICK res \in Results :
          /\ cap'[s].pc = "enqueue" /\ cap'[s].obs.ranking = res.ranking
          /\ cap'[s].obs.reason = res.reason
          /\ cap'[s].obs.intervalMs = cap[s].intervalMs
          /\ cap'[s].obs.scheduledAt = cap[s].slot
          /\ cap'[s].obs.effectiveAt = IF now >= EndAt THEN EndAt ELSE None
    BY <1>4 DEF FetchEnd, IInv, TypeInv
  <2>2. cap[s].pc = "fetch" /\ now > cap[s].begin /\ cap[s].begin \in Nat
    BY <1>1, <1>4 DEF FetchEnd, CaptureOK
  <2>3. EndAt \in Nat /\ EndAt # None
    BY PipelineAssumption DEF None
  <2>4. SampleOK(cap'[s].obs)
    BY <1>1, <2>1, <2>2, <2>3, ResultsOK DEF CapSampleOK, SampleOK, ObservationOK
  <2>5. CapSampleOK(s)'
    BY <2>1, <2>4 DEF CapSampleOK
  <2> QED BY <1>4, <2>5 DEF FetchEnd, boxVars, Seen, IInv, TypeInv
<1>5. CASE EnqueueRename(s)
  <2>1. cap'[s] = Idle \/ (cap[s].pc = "enqueue" /\ cap'[s] = [cap[s] EXCEPT !.pc = "sync"])
    BY <1>5 DEF EnqueueRename, IInv, TypeInv
  <2>2. CapSampleOK(s)'
    <3>1. CASE cap'[s] = Idle
      BY <3>1 DEF CapSampleOK, Idle
    <3>2. CASE cap[s].pc = "enqueue" /\ cap'[s] = [cap[s] EXCEPT !.pc = "sync"]
      <4>1. cap'[s].obs = cap[s].obs /\ cap'[s].pc \in {"sync", "enqueue"}
        BY <3>2
      <4> QED BY <1>1, <3>2, <4>1 DEF CapSampleOK, SampleOK
    <3> QED BY <2>1, <3>1, <3>2
  <2> QED BY <1>5, <2>2 DEF EnqueueRename, Seen, IInv, TypeInv
<1>6. CASE EnqueueSync(s) \/ EnqueueSyncFails(s)
  <2>1. cap'[s] = Idle /\ cap[s].pc = "sync"
    BY <1>6 DEF EnqueueSync, EnqueueSyncFails, IInv, TypeInv
  <2>2. CapSampleOK(s)'
    BY <2>1 DEF CapSampleOK, Idle
  <2> QED BY <1>6, <2>1, <2>2 DEF EnqueueSync, EnqueueSyncFails, boxVars, Seen, IInv, TypeInv
<1> QED BY <1>2, <1>3, <1>4, <1>5, <1>6 DEF CaptureNext

\* Steps that move no capture and make no observation.
LEMMA SamplesKept ==
  ASSUME IInv, IInv', SampleInv, Seen' \subseteq Seen, now <= now',
         \A s \in Scopes : cap'[s] = cap[s] \/ cap'[s] = Idle, EncodedOK'
  PROVE  SampleInv'
<1>1. ASSUME NEW s \in Scopes PROVE CapSampleOK(s)'
  <2>1. CASE cap'[s] = cap[s]
    BY <2>1, CapSampleKept DEF SampleInv
  <2>2. CASE cap'[s] = Idle
    BY <2>2 DEF CapSampleOK, Idle
  <2> QED BY <2>1, <2>2
<1>2. \A o \in Seen' : SampleOK(o)'
  BY DEF SampleInv, SampleOK
<1> QED BY <1>1, <1>2 DEF SampleInv

LEMMA SampleInvNext == IInv /\ IInv' /\ SampleInv /\ [Next]_vars => SampleInv'
<1> SUFFICES ASSUME IInv, IInv', SampleInv, [Next]_vars PROVE SampleInv'
  OBVIOUS
<1>1. now \in Nat /\ \A s \in Scopes : CapSampleOK(s)
  BY DEF IInv, TypeInv, SampleInv
<1>2. ASSUME NEW s \in Scopes, BootScope(s) \/ CaptureNext(s) PROVE SampleInv'
  <2>1. /\ CapSampleOK(s)' /\ now' = now /\ drain' = drain
        /\ \A u \in Scopes \ {s} : cap'[u] = cap[u]
        /\ Seen' \subseteq Seen \cup (IF cap[s].pc \in {"enqueue", "sync"} THEN {cap[s].obs} ELSE {})
    BY <1>2, CaptureSamples
  <2>2. \A u \in Scopes : CapSampleOK(u)'
    BY <1>1, <2>1, CapSampleKept
  <2>3. \A o \in Seen' : SampleOK(o)
    BY <1>1, <2>1 DEF SampleInv, CapSampleOK
  <2>4. EncodedOK'
    BY <2>1 DEF SampleInv, EncodedOK
  <2> QED BY <2>2, <2>3, <2>4 DEF SampleInv, SampleOK
<1>3. CASE Clock \/ StartPolling
  <2>1. /\ Seen' = Seen /\ now <= now' /\ cap' = cap /\ drain' = drain
    BY <1>1, <1>3 DEF Clock, StartPolling, procVars, boxVars, Seen
  <2> QED BY <2>1, SamplesKept DEF SampleInv, EncodedOK
<1>4. CASE Tick
  <2>1. Seen' = Seen /\ now' = now /\ drain' = drain
    BY <1>4 DEF Tick, boxVars, Seen
  <2>2. NextSlot(now) - Interval # None /\ PlannedSlot(NextSlot(now) - Interval)
    BY <1>1, NextSlotFacts, SlotIsPlanned DEF None
  <2>3. ASSUME NEW s \in Scopes PROVE CapSampleOK(s)'
    <3>1. CASE cap'[s] = cap[s]
      BY <1>1, <2>1, <3>1, CapSampleKept
    <3>2. CASE cap'[s] = [pc |-> "start", slot |-> NextSlot(now) - Interval]
      BY <2>2, <3>2 DEF CapSampleOK
    <3>3. CASE cap'[s] = [pc |-> "start", slot |-> None] /\ PostEndDue(s)
      BY <2>1, <3>3 DEF CapSampleOK, PostEndDue
    <3>4. CASE cap'[s] = Idle
      BY <3>4 DEF CapSampleOK, Idle
    <3> QED BY <1>4, <3>1, <3>2, <3>3, <3>4 DEF Tick, IInv, TypeInv
  <2> QED BY <2>1, <2>3 DEF SampleInv, EncodedOK, SampleOK
<1>5. ASSUME DrainNext PROVE SampleInv'
  <2>1. Seen' \subseteq Seen /\ now' = now /\ cap' = cap
    BY <1>5 DEF DrainNext, DrainProgress, DrainTake, DrainFound, DrainEncode, DrainInsert, DrainAck,
       DbFault, InsertReplyLost, AckFails, procVars, boxVars, Seen, IInv, DrainInv, TypeInv
  <2>2. EncodedOK'
    <3>1. CASE drain'.pc # "insert"
      BY <3>1 DEF EncodedOK
    <3>2. CASE DrainEncode /\ drain'.pc = "insert"
      BY <3>2 DEF DrainEncode, EncodedOK, NoDrain
    <3>3. drain'.pc # "insert" \/ DrainEncode
      BY <1>5 DEF DrainNext, DrainProgress, DrainTake, DrainFound, DrainInsert, DrainAck,
         DbFault, InsertReplyLost, AckFails, NoDrain
    <3> QED BY <3>1, <3>2, <3>3
  <2> QED BY <1>1, <2>1, <2>2, SamplesKept
<1>6. ASSUME NEW s \in Scopes, EvictState(s) PROVE SampleInv'
  <2>1. Seen' = Seen /\ now' = now /\ cap' = cap /\ drain' = drain
    BY <1>6 DEF EvictState, procVars, boxVars, Seen
  <2> QED BY <1>1, <2>1, SamplesKept DEF SampleInv, EncodedOK
<1>7. CASE ProcessCrash \/ MachineCrash
  <2>1. /\ Seen' \subseteq Seen /\ now' = now /\ drain' = NoDrain
        /\ cap' = [s \in Scopes |-> Idle]
    BY <1>7 DEF ProcessCrash, MachineCrash, RestartWith, Seen, IInv, TypeInv
  <2> QED BY <1>1, <2>1, SamplesKept DEF EncodedOK, NoDrain
<1>8. CASE UNCHANGED vars
  <2>1. Seen' = Seen /\ now' = now /\ cap' = cap /\ drain' = drain
    BY <1>8 DEF vars, procVars, boxVars, Seen
  <2> QED BY <1>1, <2>1, SamplesKept DEF SampleInv, EncodedOK
<1> QED BY <1>2, <1>3, <1>4, <1>5, <1>6, <1>7, <1>8 DEF Next

LEMMA SampleInvariance == Spec => []SampleInv
<1> QED BY SampleInvInit, SampleInvNext, Invariance, PTL DEF Spec

-----------------------------------------------------------------------------
(* Times and slots of what is stored, against what is still to come.  Files  *)
(* that were acknowledged are gone, so the events are compared themselves.   *)

EventOK(s, e) ==
  /\ e.t \in Nat /\ e.t <= now
  /\ e.a \in Nat \cup {None}
  /\ e.a # None => e.a <= e.t /\ (polling => e.a < nextAt)
  /\ e.id = ObservationId(s, e.a, e.t)

EventsOK == \A s \in Scopes : \A n \in DOMAIN events[s] : EventOK(s, events[s][n])

\* One observation of a scope at a time; an event of its time is its own.
SeenTimes ==
  /\ \A o1, o2 \in Seen : o1.scope = o2.scope /\ o1.at = o2.at => o1 = o2
  /\ \A o \in Seen : \A n \in DOMAIN events[o.scope] :
       events[o.scope][n].t = o.at => events[o.scope][n].id = o.id

\* A capture is later than all that its scope has.
CapTimeOK(s) ==
  /\ cap[s].pc \in {"start", "fetch"} /\ cap[s].slot # None =>
       \A n \in DOMAIN events[s] : events[s][n].a # None => events[s][n].a < cap[s].slot
  /\ cap[s].pc = "fetch" => \A n \in DOMAIN events[s] : events[s][n].t <= cap[s].begin
  /\ cap[s].pc \in {"enqueue", "sync"} =>
       /\ \A n \in DOMAIN events[s] :
            events[s][n].t < cap[s].obs.at /\ events[s][n].id # cap[s].obs.id
       /\ \A o \in Seen : o.scope = s =>
            o.at < cap[s].obs.at \/ (o = cap[s].obs /\ cap[s].pc = "sync")

\* The consumer works on the oldest file of the scope.
OldestTaken ==
  drain.pc # "idle" =>
    \A o \in files : o.scope = drain.obs.scope => drain.obs.at <= o.at

TimeInv == EventsOK /\ SeenTimes /\ (\A s \in Scopes : CapTimeOK(s)) /\ OldestTaken

LEMMA TimeInvInit == Init => TimeInv
BY DEF Init, TimeInv, EventsOK, SeenTimes, CapTimeOK, OldestTaken, Seen, Idle, NoDrain

LEMMA EventsKept ==
  ASSUME IInv, IInv', EventsOK, events' = events, now <= now',
         polling' => polling /\ nextAt <= nextAt'
  PROVE  EventsOK'
<1>1. now \in Nat /\ now' \in Nat /\ nextAt \in Nat /\ nextAt' \in Nat
  BY DEF IInv, TypeInv
<1>2. ASSUME NEW s \in Scopes, NEW n \in DOMAIN events[s] PROVE EventOK(s, events[s][n])'
  <2>1. EventOK(s, events[s][n])
    BY DEF EventsOK
  <2> QED BY <1>1, <2>1 DEF EventOK, ObservationId
<1> QED BY <1>2 DEF EventsOK

LEMMA CapTimeKept ==
  ASSUME NEW s \in Scopes, CapTimeOK(s), cap'[s] = cap[s], events' = events, Seen' \subseteq Seen
  PROVE  CapTimeOK(s)'
BY DEF CapTimeOK

LEMMA SeenTimesKept ==
  ASSUME SeenTimes, events' = events, Seen' \subseteq Seen
  PROVE  SeenTimes'
BY DEF SeenTimes

world == <<events, drain, disk, files, unlinked, accepted>>

\* Steps that neither store nor remove anything.
LEMMA WorldKept ==
  ASSUME IInv, IInv', TimeInv, UNCHANGED world, now <= now',
         polling' => polling /\ nextAt <= nextAt',
         \A s \in Scopes : cap'[s] = cap[s] \/ CapTimeOK(s)'
  PROVE  TimeInv'
<1>1. Seen' = Seen /\ events' = events /\ drain' = drain /\ files' = files
  BY DEF world, Seen
<1>2. EventsOK' /\ SeenTimes'
  BY <1>1, EventsKept, SeenTimesKept DEF TimeInv
<1>3. \A s \in Scopes : CapTimeOK(s)'
  BY <1>1, CapTimeKept DEF TimeInv
<1> QED BY <1>1, <1>2, <1>3 DEF TimeInv, OldestTaken

LEMMA BootTimes ==
  ASSUME NEW s \in Scopes, IInv, IInv', TimeInv, BootScope(s) PROVE TimeInv'
<1>1. UNCHANGED <<world, now, polling, nextAt>>
  BY DEF BootScope, boxVars, world
<1>2. \A u \in Scopes : cap'[u] = cap[u] \/ cap'[u] = [pc |-> "start", slot |-> None]
  BY DEF BootScope, IInv, TypeInv
<1>3. \A u \in Scopes : cap'[u] = cap[u] \/ CapTimeOK(u)'
  BY <1>2 DEF CapTimeOK
<1> QED BY <1>1, <1>3, WorldKept DEF IInv, TypeInv

LEMMA StartTimes == ASSUME IInv, IInv', TimeInv, StartPolling PROVE TimeInv'
<1>1. /\ UNCHANGED <<world, now, cap>> /\ nextAt' = NextSlot(now)
  BY DEF StartPolling, boxVars, world
<1>2. now \in Nat /\ now < nextAt' /\ nextAt' \in Nat
  BY <1>1, NextSlotFacts DEF IInv, TypeInv
<1>3. ASSUME NEW s \in Scopes, NEW n \in DOMAIN events[s] PROVE EventOK(s, events[s][n])'
  <2>1. EventOK(s, events[s][n])
    BY DEF TimeInv, EventsOK
  <2>2. events' = events /\ now' = now
    BY <1>1 DEF world
  <2> QED BY <1>2, <2>1, <2>2 DEF EventOK, ObservationId
<1>4. Seen' = Seen
  BY <1>1 DEF world, Seen
<1>5. SeenTimes' /\ \A s \in Scopes : CapTimeOK(s)'
  BY <1>1, <1>4, SeenTimesKept, CapTimeKept DEF TimeInv, world
<1>6. OldestTaken'
  BY <1>1 DEF TimeInv, OldestTaken, world
<1> QED BY <1>1, <1>3, <1>5, <1>6 DEF TimeInv, EventsOK, world

LEMMA TickTimes == ASSUME IInv, IInv', SlotInv, TimeInv, Tick PROVE TimeInv'
<1>1. UNCHANGED <<world, now, polling>> /\ nextAt' = NextSlot(now) /\ polling /\ now >= nextAt
  BY DEF Tick, boxVars, world
<1>2. PICK t \in Nat : nextAt = NextSlot(t)
  BY <1>1 DEF SlotInv
<1>3. /\ now \in Nat /\ nextAt \in Nat /\ nextAt' \in Nat
      /\ nextAt <= NextSlot(now) - Interval /\ NextSlot(now) - Interval <= now
      /\ NextSlot(now) - Interval \in Nat /\ now < nextAt'
  BY <1>1, <1>2, SlotsAdvance, NextSlotFacts DEF IInv, TypeInv
<1>4. ASSUME NEW s \in Scopes PROVE cap'[s] = cap[s] \/ CapTimeOK(s)'
  <2>1. CASE cap'[s] = [pc |-> "start", slot |-> NextSlot(now) - Interval]
    <3>1. \A n \in DOMAIN events[s] : EventOK(s, events[s][n])
      BY DEF TimeInv, EventsOK
    <3>2. \A n \in DOMAIN events[s] :
            events[s][n].a # None => events[s][n].a < NextSlot(now) - Interval
      <4> HIDE DEF NextSlot
      <4> QED BY <1>1, <1>3, <3>1 DEF EventOK
    <3> QED BY <1>1, <2>1, <3>2 DEF CapTimeOK, world
  <2>2. CASE cap'[s] \in {[pc |-> "start", slot |-> None], Idle}
    BY <2>2 DEF CapTimeOK, Idle
  <2> QED BY <2>1, <2>2 DEF Tick, IInv, TypeInv
<1>5. nextAt <= nextAt' /\ now <= now'
  BY <1>1, <1>3
<1> QED BY <1>1, <1>4, <1>5, WorldKept

LEMMA BeginTimes ==
  ASSUME NEW s \in Scopes, IInv, IInv', TimeInv, CaptureBegin(s) PROVE TimeInv'
<1>1. UNCHANGED <<world, now, polling, nextAt>>
  BY DEF CaptureBegin, boxVars, world
<1>2. \A u \in Scopes \ {s} : cap'[u] = cap[u]
  BY DEF CaptureBegin, IInv, TypeInv
<1>3. \/ cap'[s] = Idle
      \/ /\ cap[s].pc = "start" /\ cap'[s].pc = "fetch"
         /\ cap'[s].slot = cap[s].slot /\ cap'[s].begin = now
  BY DEF CaptureBegin, IInv, TypeInv
<1>4. CapTimeOK(s) /\ \A n \in DOMAIN events[s] : events[s][n].t <= now
  BY DEF TimeInv, EventsOK, EventOK
<1>5. CapTimeOK(s)'
  BY <1>1, <1>3, <1>4 DEF CapTimeOK, world, Idle
<1> QED BY <1>1, <1>2, <1>5, WorldKept DEF IInv, TypeInv

LEMMA FetchTimes ==
  ASSUME NEW s \in Scopes, IInv, IInv', SlotInv, TimeInv, FetchEnd(s) PROVE TimeInv'
<1>1. UNCHANGED <<world, now, polling, nextAt>>
  BY DEF FetchEnd, boxVars, world
<1>2. \A u \in Scopes \ {s} : cap'[u] = cap[u]
  BY DEF FetchEnd, IInv, TypeInv
<1>3. /\ cap'[s].pc = "enqueue" /\ cap'[s].obs.at = now
      /\ cap'[s].obs.id = ObservationId(s, cap[s].slot, now)
      /\ cap[s].pc = "fetch" /\ now > cap[s].begin
  BY DEF FetchEnd, IInv, TypeInv
<1>4. CapTimeOK(s) /\ CaptureOK(s) /\ SlotOK(s) /\ now \in Nat
  BY DEF TimeInv, IInv, CaptureInv, SlotInv, TypeInv
<1>5. cap[s].begin \in Nat /\ cap[s].slot \in Nat \cup {None}
  BY <1>3, <1>4 DEF CaptureOK
<1>6. ASSUME NEW n \in DOMAIN events[s]
      PROVE  events[s][n].t < now /\ events[s][n].id # ObservationId(s, cap[s].slot, now)
  <2> DEFINE e == events[s][n]
  <2>1. EventOK(s, e)
    BY DEF TimeInv, EventsOK
  <2>2. e.t <= cap[s].begin /\ (cap[s].slot # None /\ e.a # None => e.a < cap[s].slot)
    BY <1>3, <1>4, <1>6 DEF CapTimeOK
  <2> HIDE DEF e
  <2>3. e.t < now /\ e.t \in Nat /\ e.a \in Nat \cup {None}
    BY <1>3, <1>4, <1>5, <2>1, <2>2 DEF EventOK
  <2>4. e.id # ObservationId(s, cap[s].slot, now)
    BY <1>5, <2>1, <2>2, <2>3 DEF EventOK, ObservationId
  <2> QED BY <2>3, <2>4 DEF e
<1>7. \A o \in Seen : o.scope = s => o.at < now
  BY <1>3, <1>4, <1>5, SeenTypes DEF SlotOK
<1>8. CapTimeOK(s)'
  <2>1. Seen' = Seen /\ events' = events
    BY <1>1 DEF world, Seen
  <2> QED BY <1>3, <1>6, <1>7, <2>1 DEF CapTimeOK
<1> QED BY <1>1, <1>2, <1>8, WorldKept DEF IInv, TypeInv

LEMMA RenameTimes ==
  ASSUME NEW s \in Scopes, IInv, IInv', SlotInv, TimeInv, EnqueueRename(s) PROVE TimeInv'
<1> DEFINE obs == cap[s].obs
<1>1. /\ UNCHANGED <<now, polling, nextAt, files, unlinked, accepted, events, drain>>
      /\ cap[s].pc = "enqueue" /\ \A u \in Scopes \ {s} : cap'[u] = cap[u]
  BY DEF EnqueueRename, IInv, TypeInv
<1>2. CapTimeOK(s) /\ CaptureOK(s)
  BY DEF TimeInv, IInv, CaptureInv
<1>3. CASE cap' = [cap EXCEPT ![s] = Idle] /\ disk' = disk
  <2>1. CapTimeOK(s)'
    BY <1>3 DEF CapTimeOK, IInv, TypeInv, Idle
  <2> QED BY <1>1, <1>3, <2>1, WorldKept DEF IInv, TypeInv, world
<1>4. CASE cap' = [cap EXCEPT ![s].pc = "sync"] /\ disk' = disk \cup {obs}
  <2>1. cap'[s] = [cap[s] EXCEPT !.pc = "sync"] /\ cap'[s].pc \in CapSteps
    BY <1>4 DEF IInv, TypeInv, CaptureInv, CaptureOK
  <2>2. cap'[s].obs = obs /\ (cap'[s].pc = "sync" \/ cap'[s] = cap[s])
    BY <1>1, <2>1
  <2>3. Seen' = Seen \cup {obs}
    BY <1>1, <1>4 DEF Seen
  <2>4. /\ obs.scope = s /\ obs.at \in Nat
        /\ \A n \in DOMAIN events[s] : events[s][n].t < obs.at
        /\ \A o \in Seen : o.scope = s => o.at < obs.at
        /\ \A n \in DOMAIN events[s] : events[s][n].t \in Nat
    BY <1>1, <1>2 DEF CapTimeOK, CaptureOK, ObservationOfScope, TimeInv, EventsOK, EventOK
  <2>5. EventsOK'
    BY <1>1, EventsKept DEF TimeInv, IInv, TypeInv
  <2>6. SeenTimes'
    <3>1. ASSUME NEW o1 \in Seen', NEW o2 \in Seen', o1.scope = o2.scope, o1.at = o2.at
          PROVE  o1 = o2
      <4>1. CASE o1 \in Seen /\ o2 \in Seen
        BY <3>1, <4>1 DEF TimeInv, SeenTimes
      <4>2. CASE o1 = obs /\ o2 \in Seen
        BY <2>4, <3>1, <4>2, SeenTypes
      <4>3. CASE o2 = obs /\ o1 \in Seen
        BY <2>4, <3>1, <4>3, SeenTypes
      <4> QED BY <2>3, <3>1, <4>1, <4>2, <4>3
    <3>2. ASSUME NEW o \in Seen', NEW n \in DOMAIN events[o.scope], events[o.scope][n].t = o.at
          PROVE  events[o.scope][n].id = o.id
      <4>1. CASE o \in Seen
        BY <3>2, <4>1 DEF TimeInv, SeenTimes
      <4>2. CASE o = obs
        BY <2>4, <3>2, <4>2
      <4> QED BY <2>3, <3>2, <4>1, <4>2
    <3> QED BY <1>1, <3>1, <3>2 DEF SeenTimes
  <2>7. CapTimeOK(s)'
    <3>1. CASE cap'[s].pc = "sync"
      BY <1>1, <1>2, <2>2, <2>3, <3>1 DEF CapTimeOK
    <3>2. CASE cap'[s] = cap[s]
      <4>1. cap'[s].pc = "sync"
        BY <1>1, <2>1, <3>2
      <4> QED BY <3>1, <4>1
    <3> QED BY <2>2, <3>1, <3>2
  <2>8. ASSUME NEW u \in Scopes, u # s PROVE CapTimeOK(u)'
    <3>1. cap'[u] = cap[u] /\ CapTimeOK(u)
      BY <1>1, <2>8 DEF TimeInv
    <3> QED BY <1>1, <2>3, <2>4, <2>8, <3>1 DEF CapTimeOK
  <2>9. OldestTaken'
    BY <1>1 DEF TimeInv, OldestTaken
  <2> QED BY <2>5, <2>6, <2>7, <2>8, <2>9 DEF TimeInv
<1> QED BY <1>3, <1>4 DEF EnqueueRename

LEMMA SyncTimes ==
  ASSUME NEW s \in Scopes, IInv, IInv', SlotInv, TimeInv, EnqueueSync(s) \/ EnqueueSyncFails(s)
  PROVE  TimeInv'
<1>1. /\ UNCHANGED <<now, polling, nextAt, events, drain>>
      /\ files' \subseteq files \cup {cap[s].obs}
      /\ Seen' \subseteq Seen \cup {cap[s].obs}
      /\ cap[s].pc = "sync" /\ cap'[s] = Idle /\ \A u \in Scopes \ {s} : cap'[u] = cap[u]
  BY DEF EnqueueSync, EnqueueSyncFails, boxVars, IInv, TypeInv, Seen
<1>2. /\ cap[s].obs \in disk /\ cap[s].obs \notin files /\ cap[s].obs.scope = s
      /\ cap[s].obs.at \in Nat
      /\ \A o \in files : o.scope = s => o.at < cap[s].obs.at
  BY <1>1 DEF SlotInv, SlotOK, IInv, CaptureInv, CaptureOK, ObservationOfScope, TimeInv, CapTimeOK,
     Seen
<1>3. Seen' \subseteq Seen
  BY <1>1, <1>2 DEF Seen
<1>4. EventsOK' /\ SeenTimes'
  BY <1>1, <1>3, EventsKept, SeenTimesKept DEF TimeInv, IInv, TypeInv
<1>5. CapTimeOK(s)'
  BY <1>1 DEF CapTimeOK, Idle
<1>6. \A u \in Scopes : CapTimeOK(u)'
  BY <1>1, <1>3, <1>5, CapTimeKept DEF TimeInv
<1>7. OldestTaken'
  <2> SUFFICES ASSUME drain.pc # "idle", NEW o \in files', o.scope = drain.obs.scope
               PROVE  drain.obs.at <= o.at
    BY <1>1 DEF OldestTaken
  <2>1. drain.obs \in files /\ drain.obs.at \in Nat
    BY DEF IInv, DrainInv, TypeInv, ObservationOfScope
  <2>2. CASE o \in files
    BY <2>2 DEF TimeInv, OldestTaken
  <2>3. CASE o = cap[s].obs
    BY <1>2, <2>1, <2>3
  <2> QED BY <1>1, <2>2, <2>3
<1> QED BY <1>4, <1>6, <1>7 DEF TimeInv

\* Steps of the consumer that insert nothing.
LEMMA ConsumerTimes ==
  ASSUME IInv, IInv', TimeInv, UNCHANGED <<now, polling, nextAt, cap, accepted, events>>,
         Seen' \subseteq Seen, OldestTaken'
  PROVE  TimeInv'
<1>1. EventsOK' /\ SeenTimes'
  BY EventsKept, SeenTimesKept DEF TimeInv, IInv, TypeInv
<1>2. \A s \in Scopes : CapTimeOK(s)'
  BY CapTimeKept DEF TimeInv
<1> QED BY <1>1, <1>2 DEF TimeInv

\* What an insert adds to the events of one scope, and to no other.
LEMMA InsertAdds ==
  ASSUME IInv, SampleInv, DrainInsert \/ InsertReplyLost
  PROVE  LET s == drain.obs.scope
             e == drain.event
         IN  /\ s \in Scopes /\ drain.obs \in files /\ ~IsCommitted(drain.obs)
             /\ events' = [events EXCEPT ![s] = Append(events[s], e)]
             /\ \A u \in Scopes \ {s} : events'[u] = events[u]
             /\ events'[s] = Append(events[s], e)
             /\ Len(events[s]) \in Nat /\ DOMAIN events[s] = 1 .. Len(events[s])
             /\ DOMAIN events'[s] = 1 .. Len(events[s]) + 1
             /\ \A n \in DOMAIN events[s] : events'[s][n] = events[s][n]
             /\ events'[s][Len(events[s]) + 1] = e
             /\ \A n \in DOMAIN events'[s] : n \in DOMAIN events[s] \/ events'[s][n] = e
             /\ e.id = drain.obs.id /\ e.t = drain.obs.at /\ e.a = drain.obs.scheduledAt
             /\ e.r = drain.obs.reason
<1> DEFINE s == drain.obs.scope
           e == drain.event
<1>1. drain.pc = "insert" /\ events' = [events EXCEPT ![s] = Append(events[s], e)]
  BY DEF DrainInsert, InsertReplyLost
<1>2. s \in Scopes /\ drain.obs \in files /\ ~IsCommitted(drain.obs)
  BY <1>1 DEF IInv, DrainInv
<1>3. e = Encode(drain.obs, drain.state)
  BY <1>1 DEF SampleInv, EncodedOK
<1>4. e.id = drain.obs.id /\ e.t = drain.obs.at /\ e.a = drain.obs.scheduledAt
      /\ e.r = drain.obs.reason
  BY <1>3 DEF Encode
<1>5. PICK S : events[s] \in Seq(S)
  BY <1>2 DEF IInv, EventsSeq
<1> DEFINE old == events[s]
           new == events'[s]
<1>6. new = Append(old, e) /\ old \in Seq(S \cup {e})
  BY <1>1, <1>2, <1>5 DEF IInv, TypeInv
<1>7. /\ Len(old) \in Nat /\ DOMAIN old = 1 .. Len(old) /\ DOMAIN new = 1 .. Len(old) + 1
      /\ \A n \in DOMAIN old : new[n] = old[n]
      /\ new[Len(old) + 1] = e
      /\ \A n \in DOMAIN new : n \in DOMAIN old \/ new[n] = e
  <2> HIDE DEF old, new, e
  <2> QED BY <1>6
<1>8. \A u \in Scopes \ {s} : events'[u] = events[u]
  BY <1>1 DEF IInv, TypeInv
<1> QED BY <1>1, <1>2, <1>4, <1>6, <1>7, <1>8

LEMMA InsertTimes ==
  ASSUME IInv, IInv', SlotInv, SampleInv, TimeInv, DrainInsert \/ InsertReplyLost
  PROVE  TimeInv'
<1> DEFINE s == drain.obs.scope
           e == drain.event
           obs == drain.obs
<1>1. /\ UNCHANGED <<now, polling, nextAt, cap, files, accepted, disk, unlinked>>
      /\ Seen' = Seen
      /\ drain' = NoDrain \/ drain' = [pc |-> "ack", obs |-> drain.obs]
      /\ drain.pc = "insert"
  BY DEF DrainInsert, InsertReplyLost, procVars, boxVars, Seen
<1>2. /\ s \in Scopes /\ obs \in files
      /\ \A u \in Scopes \ {s} : events'[u] = events[u]
      /\ \A n \in DOMAIN events[s] : events'[s][n] = events[s][n]
      /\ \A n \in DOMAIN events'[s] : n \in DOMAIN events[s] \/ events'[s][n] = e
      /\ e.id = obs.id /\ e.t = obs.at /\ e.a = obs.scheduledAt
  BY InsertAdds
<1>3. /\ obs \in Seen /\ obs.at \in Nat /\ obs.at <= now
      /\ obs.scheduledAt \in Nat \cup {None} /\ obs.id = ObservationId(s, obs.scheduledAt, obs.at)
      /\ obs.scheduledAt # None =>
           obs.scheduledAt <= obs.at /\ (polling => obs.scheduledAt < nextAt)
  <2>1. obs \in Seen
    BY <1>2 DEF Seen
  <2> QED BY <2>1, SeenTypes DEF SlotInv, SeenOK, ObservationOfScope
<1>4. EventOK(s, e)
  BY <1>2, <1>3 DEF EventOK
<1> HIDE DEF e, obs
\* Events of a scope are old ones, or the new one in its own scope.
<1>5. ASSUME NEW u \in Scopes, NEW n \in DOMAIN events'[u]
      PROVE  \/ n \in DOMAIN events[u] /\ events'[u][n] = events[u][n]
             \/ u = s /\ events'[u][n] = e
  BY <1>2, <1>5
<1>6. EventsOK'
  <2>1. ASSUME NEW u \in Scopes, NEW n \in DOMAIN events[u]' PROVE EventOK(u, events[u][n])'
    <3>1. EventOK(u, events'[u][n])
      BY <1>4, <1>5, <2>1 DEF TimeInv, EventsOK
    <3> QED BY <1>1, <3>1 DEF EventOK, ObservationId
  <2> QED BY <2>1 DEF EventsOK
<1>7. SeenTimes'
  <2>1. ASSUME NEW o \in Seen, NEW n \in DOMAIN events'[o.scope], events'[o.scope][n].t = o.at
        PROVE  events'[o.scope][n].id = o.id
    <3>1. o.scope \in Scopes
      BY SeenTypes
    <3>2. CASE n \in DOMAIN events[o.scope] /\ events'[o.scope][n] = events[o.scope][n]
      BY <2>1, <3>2 DEF TimeInv, SeenTimes
    <3>3. CASE o.scope = s /\ events'[o.scope][n] = e
      <4>1. obs.scope = o.scope /\ obs.at = o.at
        BY <1>2, <2>1, <3>3 DEF obs
      <4>2. obs = o
        BY <1>3, <4>1 DEF TimeInv, SeenTimes
      <4> QED BY <1>2, <3>3, <4>2
    <3> QED BY <1>5, <3>1, <3>2, <3>3
  <2> QED BY <1>1, <2>1 DEF SeenTimes, TimeInv
<1>8. ASSUME NEW u \in Scopes PROVE CapTimeOK(u)'
  <2>1. CapTimeOK(u) /\ SlotOK(u)
    BY DEF TimeInv, SlotInv
  <2>2. u = s => obs.scope = u
    BY DEF obs
  <2>3. ASSUME cap[u].pc \in {"start", "fetch"}, cap[u].slot # None,
               NEW n \in DOMAIN events'[u], events'[u][n].a # None
        PROVE  events'[u][n].a < cap[u].slot
    BY <1>2, <1>3, <1>5, <2>1, <2>2, <2>3 DEF CapTimeOK, SlotOK
  <2>4. ASSUME cap[u].pc = "fetch", NEW n \in DOMAIN events'[u]
        PROVE  events'[u][n].t <= cap[u].begin
    BY <1>2, <1>3, <1>5, <2>1, <2>2, <2>4 DEF CapTimeOK, SlotOK
  <2>5. ASSUME cap[u].pc \in {"enqueue", "sync"}, NEW n \in DOMAIN events'[u]
        PROVE  events'[u][n].t < cap[u].obs.at /\ events'[u][n].id # cap[u].obs.id
    <3>1. CASE n \in DOMAIN events[u] /\ events'[u][n] = events[u][n]
      BY <2>1, <2>5, <3>1 DEF CapTimeOK
    <3>2. CASE u = s /\ events'[u][n] = e
      <4>1. obs # cap[u].obs
        <5>1. CASE cap[u].pc = "enqueue"
          BY <1>3, <2>1, <5>1 DEF SlotOK
        <5>2. CASE cap[u].pc = "sync"
          BY <1>2, <2>1, <5>2 DEF SlotOK
        <5> QED BY <2>5, <5>1, <5>2
      <4>2. obs.at < cap[u].obs.at
        BY <1>3, <2>1, <2>2, <2>5, <3>2, <4>1 DEF CapTimeOK
      <4>3. obs.id # cap[u].obs.id
        <5>1. CASE cap[u].pc = "enqueue"
          BY <1>3, <2>1, <5>1 DEF SlotOK
        <5>2. CASE cap[u].pc = "sync"
          <6>1. cap[u].obs \in Seen
            BY <2>1, <5>2 DEF SlotOK, Seen
          <6> QED BY <1>3, <4>1, <6>1 DEF SlotInv, SeenOK
        <5> QED BY <2>5, <5>1, <5>2
      <4> QED BY <1>2, <3>2, <4>2, <4>3
    <3> QED BY <1>5, <2>5, <3>1, <3>2
  <2> QED BY <1>1, <2>1, <2>3, <2>4, <2>5 DEF CapTimeOK
<1>9. OldestTaken'
  BY <1>1 DEF TimeInv, OldestTaken, NoDrain
<1> QED BY <1>6, <1>7, <1>8, <1>9 DEF TimeInv

LEMMA ConsumerKeepsTimes ==
  ASSUME IInv, IInv', TimeInv, DrainNext \/ (\E s \in Scopes : EvictState(s)),
         ~(DrainInsert \/ InsertReplyLost)
  PROVE  TimeInv'
<1>1. /\ UNCHANGED <<now, polling, nextAt, cap, accepted, events>> /\ Seen' \subseteq Seen
      /\ files' \subseteq files
  BY DEF DrainNext, DrainProgress, DrainTake, DrainFound, DrainEncode, DrainAck, DbFault, AckFails,
     EvictState, procVars, boxVars, Seen, IInv, DrainInv, TypeInv
<1>2. \/ drain'.pc = "idle"
      \/ \E o \in files : Earliest(o) /\ drain'.obs = o /\ files' = files
      \/ drain.pc # "idle" /\ drain'.obs = drain.obs
  BY DEF DrainNext, DrainProgress, DrainTake, DrainFound, DrainEncode, DrainAck, DbFault, AckFails,
     EvictState, NoDrain, boxVars
<1>3. OldestTaken'
  BY <1>1, <1>2 DEF TimeInv, OldestTaken, Earliest
<1> QED BY <1>1, <1>3, ConsumerTimes

LEMMA CrashTimes ==
  ASSUME IInv, IInv', TimeInv, ProcessCrash \/ MachineCrash PROVE TimeInv'
<1>1. /\ UNCHANGED <<now, accepted, events>> /\ polling' = FALSE /\ drain' = NoDrain
      /\ cap' = [s \in Scopes |-> Idle] /\ Seen' \subseteq Seen
  BY DEF ProcessCrash, MachineCrash, RestartWith, Seen, IInv, TypeInv
<1>2. EventsOK' /\ SeenTimes'
  BY <1>1, EventsKept, SeenTimesKept DEF TimeInv, IInv, TypeInv
<1>3. \A s \in Scopes : CapTimeOK(s)'
  BY <1>1 DEF CapTimeOK, Idle
<1> QED BY <1>1, <1>2, <1>3 DEF TimeInv, OldestTaken, NoDrain

LEMMA TimeInvNext ==
  IInv /\ IInv' /\ SlotInv /\ SampleInv /\ TimeInv /\ [Next]_vars => TimeInv'
<1> SUFFICES ASSUME IInv, IInv', SlotInv, SampleInv, TimeInv, [Next]_vars PROVE TimeInv'
  OBVIOUS
<1>1. CASE Clock
  <2>1. UNCHANGED <<world, polling, nextAt, cap>> /\ now <= now'
    BY <1>1 DEF Clock, procVars, boxVars, world, IInv, TypeInv
  <2> QED BY <2>1, WorldKept DEF IInv, TypeInv
<1>2. CASE StartPolling \/ Tick
  BY <1>2, StartTimes, TickTimes
<1>3. ASSUME NEW s \in Scopes, BootScope(s) \/ CaptureNext(s) PROVE TimeInv'
  BY <1>3, BootTimes, BeginTimes, FetchTimes, RenameTimes, SyncTimes DEF CaptureNext
<1>4. CASE DrainInsert \/ InsertReplyLost
  BY <1>4, InsertTimes
<1>5. CASE (DrainNext \/ (\E s \in Scopes : EvictState(s))) /\ ~(DrainInsert \/ InsertReplyLost)
  BY <1>5, ConsumerKeepsTimes
<1>6. CASE ProcessCrash \/ MachineCrash
  BY <1>6, CrashTimes
<1>7. CASE UNCHANGED vars
  <2>1. UNCHANGED <<world, polling, nextAt, cap, now>>
    BY <1>7 DEF vars, procVars, boxVars, world
  <2> QED BY <2>1, WorldKept DEF IInv, TypeInv
<1> QED BY <1>1, <1>2, <1>3, <1>4, <1>5, <1>6, <1>7 DEF Next

LEMMA TimeInvariance == Spec => []TimeInv
<1> QED BY TimeInvInit, TimeInvNext, Invariance, SlotInvariance, SampleInvariance, PTL DEF Spec

-----------------------------------------------------------------------------
(* The chain of a scope and its cached state *)

Chain(s) == Replay(EmptyTopState, events[s])

ChainOK(s) ==
  /\ Ordered(events[s])
  /\ StateOK(Chain(s)) /\ Chain(s).lastAt \in Nat
  /\ \A n \in DOMAIN events[s] : events[s][n].t <= Chain(s).lastAt
  /\ ~Bootstraps =>
       \A n \in DOMAIN events[s] : events[s][n].k = "FULL" => n = 1 \/ Anchored(events[s][n])

\* The state is that of the chain.  A bootstrap sample has no slot, so that
\* with bootstraps a reloaded state may know less about the planned slots.
Current(s, state) ==
  /\ SameData(state, Chain(s))
  /\ ~Bootstraps => state = Chain(s)

\* The event of a lost reply is found before anything else of its scope.
Behind(s) ==
  \E obs \in files :
    /\ obs.scope = s /\ IsCommitted(obs)
    /\ \A other \in files : other.scope = s => obs.at <= other.at

CacheOK(s) == states[s] # NoState => Current(s, states[s]) \/ Behind(s)

DrainCurrent ==
  /\ drain.pc = "insert" => Current(drain.obs.scope, drain.state)
  /\ drain.pc = "ack" =>
       (states[drain.obs.scope] # NoState => Current(drain.obs.scope, states[drain.obs.scope]))

CacheInv ==
  /\ states = [s \in Scopes |-> states[s]]
  /\ \A s \in Scopes : ChainOK(s) /\ CacheOK(s)
  /\ DrainCurrent

LEMMA CacheInvInit == Init => CacheInv
<1> SUFFICES ASSUME Init PROVE CacheInv
  OBVIOUS
<1>1. ASSUME NEW s \in Scopes PROVE ChainOK(s) /\ CacheOK(s)
  <2>1. events[s] = <<>> /\ DOMAIN events[s] = {} /\ Len(events[s]) = 0 /\ states[s] = NoState
    BY DEF Init
  <2>2. Chain(s) = EmptyTopState
    BY <2>1, ReplayedSteps DEF Chain, Replay
  <2> QED BY <2>1, <2>2 DEF ChainOK, CacheOK, Ordered, StateOK, EmptyTopState, RankingType
<1> QED BY <1>1 DEF CacheInv, Init, DrainCurrent, NoDrain

\* A state that is reloaded is current.
LEMMA LoadedIsCurrent ==
  ASSUME IInv, CacheInv, NEW s \in Scopes
  PROVE  Current(s, LoadState(events[s]))
<1>1. PICK S : events[s] \in Seq(S)
  BY DEF IInv, EventsSeq
<1>2. ChainOK(s)
  BY DEF CacheInv
<1> QED BY <1>1, <1>2, LoadStateReplays DEF ChainOK, Current, Chain

\* So is the state an observation is encoded against.
LEMMA BaseIsCurrent ==
  ASSUME IInv, SlotInv, TimeInv, CacheInv, drain.pc # "idle", ~IsCommitted(drain.obs)
  PROVE  Current(drain.obs.scope, BaseState(drain.obs.scope))
<1> DEFINE s == drain.obs.scope
<1>1. s \in Scopes /\ drain.obs \in files
  BY DEF IInv, DrainInv
<1>2. CASE states[s] = NoState
  BY <1>1, <1>2, LoadedIsCurrent DEF BaseState
<1>3. CASE states[s] # NoState
  <2>1. ~Behind(s)
    <3> SUFFICES ASSUME NEW obs \in files, obs.scope = s, IsCommitted(obs),
                        \A other \in files : other.scope = s => obs.at <= other.at
                 PROVE  FALSE
      BY DEF Behind
    <3>1. obs.at <= drain.obs.at /\ drain.obs.at <= obs.at
      BY <1>1 DEF TimeInv, OldestTaken
    <3>2. obs \in Seen /\ drain.obs \in Seen /\ obs.at \in Nat /\ drain.obs.at \in Nat
      BY <1>1, SeenTypes DEF Seen
    <3>3. obs = drain.obs
      BY <3>1, <3>2 DEF TimeInv, SeenTimes
    <3> QED BY <3>3
  <2> QED BY <1>1, <1>3, <2>1 DEF CacheInv, CacheOK, BaseState
<1> QED BY <1>2, <1>3

\* What an insert does to the chain: the event decodes to the observation.
LEMMA InsertDecodes ==
  ASSUME IInv, SlotInv, SampleInv, TimeInv, CacheInv, DrainInsert \/ InsertReplyLost,
         NEW s, NEW obs, NEW event, NEW old,
         drain.obs = obs, obs.scope = s, drain.event = event, drain.state = old
  PROVE  /\ \A n \in DOMAIN events[s] : events[s][n].t < obs.at
         /\ Chain(s)' = Apply(Chain(s), event)
         /\ Current(s, Apply(old, event))'
         /\ StateOK(Chain(s)') /\ Chain(s)'.lastAt = obs.at
         /\ (event.k = "GAP") = (obs.reason # NoReason)
         /\ obs.reason = NoReason => Chain(s)'.ranking = obs.ranking
         /\ obs.reason # NoReason => obs.ranking = <<>>
         /\ \A n \in 0 .. Len(events[s]) :
              Replayed(EmptyTopState, events'[s])[n] = Replayed(EmptyTopState, events[s])[n]
         /\ Chain(s)' = Replayed(EmptyTopState, events'[s])[Len(events[s]) + 1]
         /\ ~Bootstraps /\ event.k = "FULL" => Anchored(event)
<1> DEFINE new == Apply(old, event)
<1>1. /\ s \in Scopes /\ obs \in files /\ ~IsCommitted(obs) /\ event.t = obs.at
      /\ events'[s] = Append(events[s], event)
  BY InsertAdds
<1>2. Encodable(obs, old) /\ event = Encode(obs, old) /\ drain.pc = "insert"
  BY DEF DrainInsert, InsertReplyLost, SampleInv, EncodedOK
<1>3. ChainOK(s) /\ Current(s, old)
  BY <1>1, <1>2 DEF CacheInv, DrainCurrent
<1>4. SampleOK(obs) /\ obs \in Seen
  BY <1>1 DEF SampleInv, Seen
<1>5. /\ new.gap = (obs.reason # NoReason)
      /\ obs.reason = NoReason => new.ranking = obs.ranking
      /\ obs.reason # NoReason => new.ranking = old.ranking
  <2>1. ObservationOK(obs) /\ StateOK(old)
    BY <1>3, <1>4 DEF SampleOK, ChainOK, Current, SameData, StateOK
  <2> QED BY <1>2, <2>1, EncodedDecodes
<1>6. PICK S : events[s] \in Seq(S)
  BY <1>1 DEF IInv, EventsSeq
<1>7. /\ \A n \in 0 .. Len(events[s]) :
           Replayed(EmptyTopState, events'[s])[n] = Replayed(EmptyTopState, events[s])[n]
      /\ Chain(s)' = Apply(Chain(s), event)
      /\ Chain(s)' = Replayed(EmptyTopState, events'[s])[Len(events[s]) + 1]
  <2>1. /\ \A n \in 0 .. Len(events[s]) :
             Replayed(EmptyTopState, Append(events[s], event))[n] = Replayed(EmptyTopState, events[s])[n]
        /\ Replayed(EmptyTopState, Append(events[s], event))[Len(events[s]) + 1]
             = Apply(Replay(EmptyTopState, events[s]), event)
        /\ Replay(EmptyTopState, Append(events[s], event))
             = Apply(Replay(EmptyTopState, events[s]), event)
    BY <1>6, ReplayAppend
  <2>2. Chain(s)' = Replay(EmptyTopState, events'[s]) /\ Chain(s) = Replay(EmptyTopState, events[s])
    BY DEF Chain, EmptyTopState
  <2> QED BY <1>1, <2>1, <2>2
<1>8. SameData(new, Chain(s)') /\ (~Bootstraps => new = Chain(s)')
  <2>1. SameData(old, Chain(s)) /\ (~Bootstraps => old = Chain(s))
    BY <1>3 DEF Current
  <2>2. SameData(Apply(old, event), Apply(Chain(s), event))
    BY <2>1, ApplyKeepsSameData
  <2>3. ~Bootstraps => Apply(old, event) = Apply(Chain(s), event)
    BY <2>1
  <2> QED BY <1>7, <2>2, <2>3
<1>9. StateOK(new) /\ new.lastAt = obs.at /\ new.gap = (event.k = "GAP")
  <2>1. obs.ranking \in RankingType /\ old.ranking \in RankingType
    BY <1>3, <1>4 DEF SampleOK, ObservationOK, ChainOK, Current, SameData, StateOK
  <2>2. new.lastAt = obs.at /\ new.gap = (event.k = "GAP")
    BY <1>1 DEF Apply
  <2> QED BY <1>5, <2>1, <2>2 DEF StateOK
<1>10. StateOK(Chain(s)') /\ Chain(s)'.lastAt = obs.at
       /\ (obs.reason = NoReason => Chain(s)'.ranking = obs.ranking)
  BY <1>5, <1>8, <1>9 DEF SameData, StateOK
<1>11. ASSUME NEW n \in DOMAIN events[s] PROVE events[s][n].t < obs.at
  <2>1. events[s][n].t <= obs.at /\ events[s][n].t \in Nat /\ obs.at \in Nat
    <3>1. events[s][n].t <= Chain(s).lastAt /\ Chain(s).lastAt <= obs.at
      BY <1>2, <1>3 DEF ChainOK, Current, SameData, Encodable
    <3>2. events[s][n].t \in Nat /\ Chain(s).lastAt \in Nat /\ obs.at \in Nat
      BY <1>3, <1>4, SeenTypes DEF ChainOK, Ordered
    <3> QED BY <3>1, <3>2
  <2>2. events[s][n].t # obs.at
    <3>1. events[s][n].t = obs.at => events[s][n].id = obs.id
      BY <1>4 DEF TimeInv, SeenTimes
    <3>2. events[s][n].id # obs.id
      BY <1>1 DEF IsCommitted, CommittedIds
    <3> QED BY <3>1, <3>2
  <2> QED BY <2>1, <2>2
<1>12. ~Bootstraps => Anchored(event)
  <2>1. /\ event.e = obs.effectiveAt /\ event.a = obs.scheduledAt
        /\ event.i = IF obs.scheduledAt # None \/ obs.effectiveAt # None
                     THEN obs.intervalMs ELSE None
    BY <1>2 DEF Encode
  <2>2. obs.intervalMs # None
    BY <1>4 DEF SampleOK, None
  <2> QED BY <1>4, <2>1, <2>2 DEF SampleOK, Anchored
<1>13. obs.reason # NoReason => obs.ranking = <<>>
  BY <1>4 DEF SampleOK
<1>14. Current(s, Apply(old, event))'
  BY <1>8 DEF Current
<1> HIDE DEF new
<1> QED BY <1>5, <1>7, <1>9, <1>10, <1>11, <1>12, <1>13, <1>14

\* Steps that store nothing: a cached state is kept or dropped.
LEMMA CacheKept ==
  ASSUME CacheInv, events' = events, states' = [s \in Scopes |-> states'[s]],
         \A s \in Scopes : \/ states'[s] = NoState
                           \/ states'[s] = states[s] /\ Current(s, states[s])
                           \/ states'[s] = states[s] /\ (Behind(s) => Behind(s)'),
         DrainCurrent'
  PROVE  CacheInv'
<1>1. ASSUME NEW s \in Scopes
      PROVE  /\ ChainOK(s)' /\ CacheOK(s)'
  <2>1. Chain(s)' = Chain(s)
    BY DEF Chain, EmptyTopState
  <2>2. ChainOK(s)'
    BY <2>1 DEF CacheInv, ChainOK
  <2>3. NoState' = NoState
    BY DEF NoState, EmptyTopState
  <2>4. ASSUME states'[s] = states[s], Current(s, states[s]) PROVE Current(s, states[s])'
    BY <2>1, <2>4 DEF Current
  <2>5. CacheOK(s)
    BY DEF CacheInv
  <2>6. CacheOK(s)'
    BY <2>3, <2>4, <2>5 DEF CacheOK
  <2> QED BY <2>2, <2>6
<1> QED BY <1>1 DEF CacheInv

LEMMA DrainStaysCurrent ==
  ASSUME DrainCurrent, UNCHANGED <<drain, events>>, NEW s, drain.obs.scope = s,
         states'[s] \in {states[s], NoState}
  PROVE  DrainCurrent'
<1>1. Chain(s)' = Chain(s) /\ NoState' = NoState
  BY DEF Chain, EmptyTopState, NoState
<1> QED BY <1>1 DEF DrainCurrent, Current

\* Steps of the poller and of the captures.
LEMMA CaptureKeepsCache ==
  ASSUME IInv, TimeInv, SlotInv, CacheInv, UNCHANGED <<events, states, drain>>,
         \/ files' = files
         \/ \E s \in Scopes : cap[s].pc = "sync" /\ files' = files \cup {cap[s].obs}
  PROVE  CacheInv'
<1>1. ASSUME NEW u \in Scopes, Behind(u) PROVE Behind(u)'
  <2>1. PICK obs \in files : /\ obs.scope = u /\ IsCommitted(obs)
                             /\ \A other \in files : other.scope = u => obs.at <= other.at
    BY <1>1 DEF Behind
  <2>2. IsCommitted(obs)'
    BY <2>1 DEF IsCommitted, CommittedIds
  <2>3. CASE files' = files
    BY <2>1, <2>2, <2>3 DEF Behind
  <2>4. ASSUME NEW s \in Scopes, cap[s].pc = "sync", files' = files \cup {cap[s].obs}
        PROVE  Behind(u)'
    <3>1. cap[s].obs.scope = s /\ cap[s].obs.at \in Nat /\ obs \in Seen /\ obs.at \in Nat
      BY <2>1, <2>4, SeenTypes DEF IInv, CaptureInv, CaptureOK, ObservationOfScope, Seen
    <3>2. s = u => obs.at <= cap[s].obs.at
      BY <2>1, <2>4, <3>1 DEF TimeInv, CapTimeOK
    <3> QED BY <2>1, <2>2, <2>4, <3>1, <3>2 DEF Behind
  <2> QED BY <2>3, <2>4
<1>2. DrainCurrent'
  <2> DEFINE s == drain.obs.scope
  <2>1. \E x : drain.obs.scope = x
    OBVIOUS
  <2> QED BY <2>1, DrainStaysCurrent DEF CacheInv
<1>3. states' = [s \in Scopes |-> states'[s]]
  BY DEF CacheInv
<1> QED BY <1>1, <1>2, <1>3, CacheKept

LEMMA EvictKeepsCache ==
  ASSUME IInv, CacheInv, NEW s \in Scopes, EvictState(s) PROVE CacheInv'
<1>1. /\ UNCHANGED <<events, files, drain>> /\ states' = [states EXCEPT ![s] = NoState]
      /\ drain.obs.scope # s /\ drain.obs.scope \in Scopes
  BY DEF EvictState, boxVars, IInv, DrainInv
<1>2. /\ states' = [u \in Scopes |-> states'[u]]
      /\ \A u \in Scopes : states'[u] = states[u] \/ states'[u] = NoState
  BY <1>1 DEF CacheInv
<1>3. \A u \in Scopes : Behind(u) => Behind(u)'
  BY <1>1 DEF Behind, IsCommitted, CommittedIds
<1>4. DrainCurrent'
  <2>1. \E x : drain.obs.scope = x /\ states'[x] = states[x]
    BY <1>1 DEF CacheInv
  <2> QED BY <1>1, <2>1, DrainStaysCurrent DEF CacheInv
<1> QED BY <1>1, <1>2, <1>3, <1>4, CacheKept

\* The steps of the consumer before it inserts.
LEMMA ConsumerKeepsCache ==
  ASSUME IInv, SlotInv, TimeInv, CacheInv,
         DrainTake \/ DrainFound \/ DrainEncode \/ DbFault \/ AckFails
  PROVE  CacheInv'
<1>1. /\ UNCHANGED <<events, files>>
      /\ states' = states \/ (DrainFound /\ states' = [states EXCEPT ![drain.obs.scope] = NoState])
  BY DEF DrainTake, DrainFound, DrainEncode, DbFault, AckFails, boxVars
<1>2. /\ states' = [u \in Scopes |-> states'[u]]
      /\ \A u \in Scopes : states'[u] = states[u] \/ states'[u] = NoState
  BY <1>1 DEF CacheInv
<1>3. \A u \in Scopes : Behind(u) => Behind(u)'
  BY <1>1 DEF Behind, IsCommitted, CommittedIds
<1>4. DrainCurrent'
  <2>1. CASE drain'.pc \notin {"insert", "ack"}
    BY <2>1 DEF DrainCurrent
  <2>2. CASE DrainFound
    <3>1. /\ drain'.pc = "ack" /\ drain'.obs = drain.obs /\ drain.obs.scope \in Scopes
          /\ states' = [states EXCEPT ![drain.obs.scope] = NoState]
      BY <2>2 DEF DrainFound, IInv, DrainInv
    <3>2. states'[drain'.obs.scope] = NoState /\ NoState' = NoState
      BY <3>1 DEF CacheInv, NoState, EmptyTopState
    <3> QED BY <3>1, <3>2 DEF DrainCurrent
  <2>3. CASE DrainEncode /\ drain' # NoDrain
    <3>1. /\ drain'.pc = "insert" /\ drain'.obs = drain.obs
          /\ drain'.state = BaseState(drain.obs.scope)
          /\ drain.pc = "find" /\ ~IsCommitted(drain.obs)
      BY <2>3 DEF DrainEncode
    <3>2. Current(drain.obs.scope, BaseState(drain.obs.scope))
      BY <3>1, BaseIsCurrent
    <3>3. PICK s : s = drain.obs.scope
      OBVIOUS
    <3>4. Chain(s)' = Chain(s)
      BY <1>1 DEF Chain, EmptyTopState
    <3> QED BY <3>1, <3>2, <3>3, <3>4 DEF DrainCurrent, Current
  <2>4. drain'.pc \notin {"insert", "ack"} \/ DrainFound \/ (DrainEncode /\ drain' # NoDrain)
    BY DEF DrainTake, DrainEncode, DbFault, AckFails, NoDrain
  <2> QED BY <2>1, <2>2, <2>3, <2>4
<1> QED BY <1>1, <1>2, <1>3, <1>4, CacheKept

\* The file that is removed is not the one a stale state waits for.
LEMMA AckKeepsCache ==
  ASSUME IInv, CacheInv, DrainAck PROVE CacheInv'
<1>1. /\ UNCHANGED <<events, states>> /\ files' = files \ {drain.obs} /\ drain' = NoDrain
      /\ drain.pc = "ack"
  BY DEF DrainAck
<1>2. ASSUME NEW u \in Scopes
      PROVE  \/ states'[u] = NoState
             \/ states'[u] = states[u] /\ Current(u, states[u])
             \/ states'[u] = states[u] /\ (Behind(u) => Behind(u)')
  <2>1. CASE u = drain.obs.scope
    BY <1>1, <2>1 DEF CacheInv, DrainCurrent
  <2>2. CASE u # drain.obs.scope
    BY <1>1, <2>2 DEF Behind, IsCommitted, CommittedIds
  <2> QED BY <2>1, <2>2
<1>3. DrainCurrent'
  BY <1>1 DEF DrainCurrent, NoDrain
<1> QED BY <1>1, <1>2, <1>3, CacheKept DEF CacheInv

LEMMA CrashKeepsCache ==
  ASSUME CacheInv, ProcessCrash \/ MachineCrash PROVE CacheInv'
<1>1. events' = events /\ drain' = NoDrain /\ states' = [s \in Scopes |-> NoState]
  BY DEF ProcessCrash, MachineCrash, RestartWith
<1>2. DrainCurrent'
  BY <1>1 DEF DrainCurrent, NoDrain
<1> QED BY <1>1, <1>2, CacheKept

\* An insert, acknowledged or not, extends the chain of one scope.
LEMMA InsertKeepsCache ==
  ASSUME IInv, IInv', SlotInv, SampleInv, TimeInv, CacheInv, DrainInsert \/ InsertReplyLost
  PROVE  CacheInv'
<1> PICK s : s = drain.obs.scope
  OBVIOUS
<1> PICK obs : obs = drain.obs
  OBVIOUS
<1> PICK event : event = drain.event
  OBVIOUS
<1> PICK old : old = drain.state
  OBVIOUS
<1>1. /\ s \in Scopes /\ obs \in files /\ obs.scope = s
      /\ \A u \in Scopes \ {s} : events'[u] = events[u]
      /\ Len(events[s]) \in Nat /\ DOMAIN events[s] = 1 .. Len(events[s])
      /\ DOMAIN events'[s] = 1 .. Len(events[s]) + 1
      /\ \A n \in DOMAIN events[s] : events'[s][n] = events[s][n]
      /\ events'[s][Len(events[s]) + 1] = event
      /\ event.t = obs.at
  BY InsertAdds
<1>2. /\ \A n \in DOMAIN events[s] : events[s][n].t < obs.at
      /\ Current(s, Apply(old, event))'
      /\ StateOK(Chain(s)') /\ Chain(s)'.lastAt = obs.at
      /\ ~Bootstraps /\ event.k = "FULL" => Anchored(event)
  BY InsertDecodes
<1>3. /\ UNCHANGED files
      /\ \/ /\ DrainInsert /\ states' = [states EXCEPT ![s] = Apply(old, event)]
            /\ drain'.pc = "ack" /\ drain'.obs = obs
         \/ InsertReplyLost /\ states' = states /\ drain' = NoDrain
      /\ drain.pc = "insert"
  BY DEF DrainInsert, InsertReplyLost, boxVars
<1>4. obs.at \in Nat
  BY <1>1, SeenTypes DEF Seen
<1>5. ChainOK(s)'
  <2> DEFINE len == Len(events[s])
  <2>1. ChainOK(s)
    BY <1>1 DEF CacheInv
  <2>2. \A n \in 1 .. len + 1 : n \in 1 .. len \/ n = len + 1
    BY <1>1
  <2>3. \A n \in 1 .. len + 1 : events'[s][n].t \in Nat /\ events'[s][n].t <= obs.at
    <3>1. ASSUME NEW n \in 1 .. len
          PROVE  events'[s][n].t \in Nat /\ events'[s][n].t <= obs.at
      <4>1. events[s][n].t \in Nat /\ events[s][n].t < obs.at /\ events'[s][n] = events[s][n]
        BY <1>1, <1>2, <2>1, <3>1 DEF ChainOK, Ordered
      <4> QED BY <1>4, <4>1
    <3>2. events'[s][len + 1].t \in Nat /\ events'[s][len + 1].t <= obs.at
      BY <1>1, <1>4
    <3> HIDE DEF len
    <3> QED BY <2>2, <3>1, <3>2
  <2>4. ASSUME NEW m \in 1 .. len + 1, NEW n \in 1 .. len + 1, m < n
        PROVE  events'[s][m].t < events'[s][n].t
    <3>1. m \in 1 .. len
      BY <1>1, <2>4
    <3>2. CASE n \in 1 .. len
      BY <1>1, <2>1, <2>4, <3>1, <3>2 DEF ChainOK, Ordered
    <3>3. CASE n = len + 1
      BY <1>1, <1>2, <3>1, <3>3
    <3> QED BY <2>2, <3>2, <3>3
  <2>5. ASSUME ~Bootstraps, NEW n \in 1 .. len + 1, events'[s][n].k = "FULL"
        PROVE  n = 1 \/ Anchored(events'[s][n])
    BY <1>1, <1>2, <2>1, <2>2, <2>5 DEF ChainOK
  <2> HIDE DEF len
  <2>6. DOMAIN events'[s] = 1 .. len + 1
    BY <1>1 DEF len
  <2>7. Ordered(events'[s])
    BY <2>3, <2>4, <2>6 DEF Ordered
  <2> QED BY <1>2, <1>4, <2>3, <2>5, <2>6, <2>7 DEF ChainOK
<1>6. ASSUME NEW u \in Scopes, u # s PROVE ChainOK(u)' /\ CacheOK(u)'
  <2>1. Chain(u)' = Chain(u) /\ NoState' = NoState /\ states'[u] = states[u] /\ events'[u] = events[u]
    BY <1>1, <1>3, <1>6 DEF Chain, NoState, EmptyTopState, CacheInv
  <2>2. ChainOK(u) /\ CacheOK(u)
    BY DEF CacheInv
  <2>3. ChainOK(u)'
    BY <2>1, <2>2 DEF ChainOK
  <2>4. Behind(u) => Behind(u)'
    BY <1>3, <2>1 DEF Behind, IsCommitted, CommittedIds
  <2>5. Current(u, states[u]) => Current(u, states[u])'
    BY <2>1 DEF Current
  <2> QED BY <2>1, <2>2, <2>3, <2>4, <2>5 DEF CacheOK
<1>7. CASE DrainInsert /\ states' = [states EXCEPT ![s] = Apply(old, event)]
           /\ drain'.pc = "ack" /\ drain'.obs = obs
  <2>1. states'[s] = Apply(old, event) /\ states' = [u \in Scopes |-> states'[u]]
    BY <1>1, <1>7 DEF CacheInv
  <2>2. Current(s, states[s])'
    BY <1>2, <2>1 DEF Current
  <2>3. CacheOK(s)'
    BY <2>2 DEF CacheOK
  <2>4. DrainCurrent'
    BY <1>1, <1>7, <2>2 DEF DrainCurrent
  <2> QED BY <1>5, <1>6, <2>1, <2>3, <2>4 DEF CacheInv
<1>8. CASE InsertReplyLost /\ states' = states /\ drain' = NoDrain
  <2>1. IsCommitted(obs)'
    <3>1. Inserts
      BY <1>8 DEF Inserts, InsertReplyLost
    <3>2. obs = drain.obs => IsCommitted(obs)'
      BY <3>1, InsertFacts DEF IInv
    <3> QED BY <3>2
  <2>2. \A other \in files : other.scope = s => obs.at <= other.at
    BY <1>3 DEF TimeInv, OldestTaken
  <2>3. Behind(s)'
    BY <1>1, <1>3, <2>1, <2>2 DEF Behind
  <2>4. CacheOK(s)' /\ DrainCurrent'
    BY <1>8, <2>3 DEF CacheOK, DrainCurrent, NoDrain
  <2> QED BY <1>5, <1>6, <1>8, <2>4 DEF CacheInv
<1> QED BY <1>3, <1>7, <1>8

LEMMA CacheInvNext ==
  IInv /\ IInv' /\ SlotInv /\ SampleInv /\ TimeInv /\ CacheInv /\ [Next]_vars => CacheInv'
<1> SUFFICES ASSUME IInv, IInv', SlotInv, SampleInv, TimeInv, CacheInv, [Next]_vars PROVE CacheInv'
  OBVIOUS
<1>1. CASE Clock \/ StartPolling \/ Tick \/ UNCHANGED vars
  <2>1. UNCHANGED <<events, states, drain, files>>
    BY <1>1 DEF Clock, StartPolling, Tick, vars, boxVars
  <2> QED BY <2>1, CaptureKeepsCache
<1>2. ASSUME NEW s \in Scopes, BootScope(s) \/ CaptureNext(s) PROVE CacheInv'
  <2>1. /\ UNCHANGED <<events, states, drain>>
        /\ files' = files \/ (cap[s].pc = "sync" /\ files' = files \cup {cap[s].obs})
    BY <1>2 DEF BootScope, CaptureNext, CaptureBegin, FetchEnd, EnqueueRename, EnqueueSync,
       EnqueueSyncFails, boxVars
  <2> QED BY <2>1, CaptureKeepsCache
<1>3. ASSUME NEW s \in Scopes, EvictState(s) PROVE CacheInv'
  BY <1>3, EvictKeepsCache
<1>4. CASE DrainNext
  BY <1>4, ConsumerKeepsCache, AckKeepsCache, InsertKeepsCache DEF DrainNext, DrainProgress
<1>5. CASE ProcessCrash \/ MachineCrash
  BY <1>5, CrashKeepsCache
<1> QED BY <1>1, <1>2, <1>3, <1>4, <1>5 DEF Next

LEMMA CacheInvariance == Spec => []CacheInv
<1> QED BY CacheInvInit, CacheInvNext, Invariance, SlotInvariance, SampleInvariance, TimeInvariance,
       PTL DEF Spec

\* Without bootstraps, whose samples have no slot, a cached state is the state
\* that would be reloaded, but for the event of a lost reply, which the
\* consumer finds before it encodes anything else of the scope.
THEOREM CacheIsCurrent == ~Bootstraps => (Spec => []CachedStateCurrent)
<1> SUFFICES ASSUME ~Bootstraps PROVE Spec => []CachedStateCurrent
  OBVIOUS
<1>1. IInv /\ CacheInv => CachedStateCurrent
  <2> SUFFICES ASSUME IInv, CacheInv PROVE CachedStateCurrent
    OBVIOUS
  <2>1. ASSUME NEW s \in Scopes, states[s] # NoState, ~Behind(s)
        PROVE  states[s] = LoadState(events[s])
    <3>1. Current(s, states[s]) /\ Current(s, LoadState(events[s]))
      BY <2>1, LoadedIsCurrent DEF CacheInv, CacheOK
    <3> QED BY <3>1 DEF Current
  <2> QED BY <2>1 DEF CachedStateCurrent, Behind
<1> QED BY <1>1, Invariance, CacheInvariance, PTL

-----------------------------------------------------------------------------
(* The order of the queue.  As long as no directory fsync and no unlink has  *)
(* failed, a file the process does not know is being registered right now,   *)
(* and what a machine crash brings back is committed already.                *)

FaultsType == [crash : Nat, db : Nat, disk : Nat]

Registering(s) == cap[s].pc = "sync"

BoxOK ==
  /\ \A o \in disk \ files : \E s \in Scopes : Registering(s) /\ o = cap[s].obs
  /\ \A s, u \in Scopes : Registering(s) /\ Registering(u) => s = u
  /\ \A o \in unlinked : IsCommitted(o)
  /\ QueueNeverOutOfOrder

\* The captures of the start-up come first.
Starting ==
  /\ polling => booting = {}
  /\ \A s \in booting : cap[s] = Idle

QueueInv ==
  /\ Starting
  /\ faults \in FaultsType /\ faults.disk <= MaxDiskFaults
  /\ faults.disk = 0 => BoxOK

LEMMA QueueInvInit == Init => QueueInv
<1> SUFFICES ASSUME Init PROVE QueueInv
  OBVIOUS
<1>1. faults \in FaultsType /\ faults.disk <= MaxDiskFaults
  BY PipelineAssumption DEF Init, FaultsType
<1>2. BoxOK /\ Starting
  BY DEF Init, BoxOK, Registering, Idle, QueueNeverOutOfOrder, Starting
<1> QED BY <1>1, <1>2 DEF QueueInv

LEMMA StartingKept ==
  ASSUME IInv, Starting, [Next]_vars PROVE Starting'
<1>1. CASE Clock \/ StartPolling \/ Tick \/ UNCHANGED vars
  BY <1>1 DEF Starting, Clock, StartPolling, Tick, vars, procVars, IInv, TypeInv
<1>2. ASSUME NEW s \in Scopes, BootScope(s) PROVE Starting'
  <2>1. booting' = booting \ {s} /\ UNCHANGED polling /\ \A u \in Scopes \ {s} : cap'[u] = cap[u]
    BY <1>2 DEF BootScope, IInv, TypeInv
  <2> QED BY <2>1 DEF Starting, IInv, TypeInv
<1>3. ASSUME NEW s \in Scopes, CaptureNext(s) PROVE Starting'
  <2>1. /\ UNCHANGED <<booting, polling>> /\ cap[s] # Idle
        /\ \A u \in Scopes \ {s} : cap'[u] = cap[u]
    BY <1>3 DEF CaptureNext, CaptureBegin, FetchEnd, EnqueueRename, EnqueueSync,
       EnqueueSyncFails, IInv, TypeInv, Idle
  <2> QED BY <2>1 DEF Starting, IInv, TypeInv
<1>4. CASE DrainNext \/ \E s \in Scopes : EvictState(s)
  <2>1. UNCHANGED <<booting, polling, cap>>
    BY <1>4 DEF DrainNext, DrainProgress, DrainTake, DrainFound, DrainEncode, DrainInsert,
       DrainAck, DbFault, InsertReplyLost, AckFails, EvictState, procVars
  <2> QED BY <2>1 DEF Starting
<1>5. CASE ProcessCrash \/ MachineCrash
  BY <1>5 DEF ProcessCrash, MachineCrash, RestartWith, Starting
<1> QED BY <1>1, <1>2, <1>3, <1>4, <1>5 DEF Next

\* Counting a fault keeps the type; only a disk fault changes its counter.
LEMMA FaultsKept ==
  ASSUME QueueInv, [Next]_vars
  PROVE  /\ faults' \in FaultsType /\ faults'.disk <= MaxDiskFaults
         /\ faults'.disk = 0 =>
              faults.disk = 0 /\ ~AckFails /\ \A s \in Scopes : ~EnqueueSyncFails(s)
<1>1. MaxDiskFaults \in Nat /\ faults \in FaultsType /\ faults.disk <= MaxDiskFaults
  BY PipelineAssumption DEF QueueInv
<1>2. CASE faults' = faults
  <2>1. ~AckFails /\ \A s \in Scopes : ~EnqueueSyncFails(s)
    BY <1>1, <1>2 DEF AckFails, EnqueueSyncFails, FaultsType
  <2> QED BY <1>1, <1>2, <2>1
<1>3. CASE faults' = [faults EXCEPT !.db = @ + 1] \/ faults' = [faults EXCEPT !.crash = @ + 1]
  <2>1. faults' \in FaultsType /\ faults'.disk = faults.disk
    BY <1>1, <1>3 DEF FaultsType
  <2>2. ~AckFails /\ \A s \in Scopes : ~EnqueueSyncFails(s)
    BY <1>1, <2>1 DEF AckFails, EnqueueSyncFails, FaultsType
  <2> QED BY <1>1, <2>1, <2>2
<1>4. CASE faults' = [faults EXCEPT !.disk = @ + 1] /\ faults.disk < MaxDiskFaults
  BY <1>1, <1>4 DEF FaultsType
<1>5. faults' = faults \/ faults' = [faults EXCEPT !.db = @ + 1]
        \/ faults' = [faults EXCEPT !.crash = @ + 1]
        \/ (faults' = [faults EXCEPT !.disk = @ + 1] /\ faults.disk < MaxDiskFaults)
  <2>1. CASE Clock \/ StartPolling \/ Tick \/ UNCHANGED vars
    BY <2>1 DEF Clock, StartPolling, Tick, vars
  <2>2. ASSUME NEW s \in Scopes, BootScope(s) \/ CaptureNext(s) \/ EvictState(s)
        PROVE  faults' = faults \/ (faults' = [faults EXCEPT !.disk = @ + 1]
                                     /\ faults.disk < MaxDiskFaults)
    BY <2>2 DEF BootScope, CaptureNext, CaptureBegin, FetchEnd, EnqueueRename, EnqueueSync,
       EnqueueSyncFails, EvictState
  <2>3. CASE DrainNext
    BY <2>3 DEF DrainNext, DrainProgress, DrainTake, DrainFound, DrainEncode, DrainInsert,
       DrainAck, DbFault, InsertReplyLost, AckFails
  <2>4. CASE ProcessCrash \/ MachineCrash
    BY <2>4 DEF ProcessCrash, MachineCrash, RestartWith
  <2> QED BY <2>1, <2>2, <2>3, <2>4 DEF Next
<1> QED BY <1>2, <1>3, <1>4, <1>5

\* Steps that neither touch the files nor begin or end a registration.
LEMMA BoxKept ==
  ASSUME BoxOK, UNCHANGED <<disk, files, unlinked, events>>,
         \A s \in Scopes : cap'[s] = cap[s] \/ (cap[s].pc # "sync" /\ cap'[s].pc # "sync")
  PROVE  BoxOK'
<1>1. \A o : IsCommitted(o)' = IsCommitted(o)
  BY DEF IsCommitted, CommittedIds
<1>2. QueueNeverOutOfOrder'
  BY <1>1 DEF BoxOK, QueueNeverOutOfOrder
<1>3. \A s \in Scopes : Registering(s)' = Registering(s) /\ (Registering(s) => cap'[s] = cap[s])
  BY DEF Registering
<1>4. \A o \in disk' \ files' : \E s \in Scopes : Registering(s)' /\ o = cap'[s].obs
  BY <1>3 DEF BoxOK
<1>5. \A s, u \in Scopes : Registering(s)' /\ Registering(u)' => s = u
  BY <1>3 DEF BoxOK
<1> QED BY <1>1, <1>2, <1>4, <1>5 DEF BoxOK

LEMMA RenameKeepsBox ==
  ASSUME IInv, BoxOK, NEW s \in Scopes, EnqueueRename(s) PROVE BoxOK'
<1>1. /\ UNCHANGED <<files, unlinked, events>> /\ cap[s].pc = "enqueue"
      /\ \A u \in Scopes : ~Registering(u)
      /\ \A u \in Scopes \ {s} : cap'[u] = cap[u]
      /\ disk' = disk \/ (disk' = disk \cup {cap[s].obs} /\ cap'[s].pc = "sync"
                            /\ cap'[s].obs = cap[s].obs)
  <2>1. CASE cap' = [cap EXCEPT ![s].pc = "sync"] /\ disk' = disk \cup {cap[s].obs}
    <3>1. cap'[s] = [cap[s] EXCEPT !.pc = "sync"]
      BY <2>1 DEF IInv, TypeInv
    <3>2. cap'[s].obs = cap[s].obs
      BY <3>1
    <3>3. cap'[s].pc = "sync"
      BY <3>1
    <3> QED BY <2>1, <3>2, <3>3 DEF EnqueueRename, IInv, TypeInv, Registering
  <2>2. CASE disk' = disk
    BY <2>2 DEF EnqueueRename, IInv, TypeInv, Registering
  <2> QED BY <2>1, <2>2 DEF EnqueueRename
<1>2. \A o : IsCommitted(o)' = IsCommitted(o)
  BY <1>1 DEF IsCommitted, CommittedIds
<1>3. QueueNeverOutOfOrder'
  BY <1>1, <1>2 DEF BoxOK, QueueNeverOutOfOrder
<1>4. disk \subseteq files
  BY <1>1 DEF BoxOK
<1>5. \A o \in disk' \ files' : \E u \in Scopes : Registering(u)' /\ o = cap'[u].obs
  BY <1>1, <1>4 DEF Registering
<1>6. \A u, v \in Scopes : Registering(u)' /\ Registering(v)' => u = v
  BY <1>1 DEF Registering
<1> QED BY <1>1, <1>2, <1>3, <1>5, <1>6 DEF BoxOK

\* The capture is later than all that its scope has committed.
LEMMA SyncKeepsBox ==
  ASSUME IInv, TimeInv, BoxOK, NEW s \in Scopes, EnqueueSync(s) PROVE BoxOK'
<1> PICK obs : obs = cap[s].obs
  OBVIOUS
<1>1. /\ UNCHANGED <<disk, events>> /\ unlinked' = {} /\ files' = files \cup {obs}
      /\ cap[s].pc = "sync" /\ cap'[s] = Idle /\ \A u \in Scopes \ {s} : cap'[u] = cap[u]
      /\ obs.scope = s /\ obs.at \in Nat
  BY DEF EnqueueSync, IInv, TypeInv, CaptureInv, CaptureOK, ObservationOfScope
<1>2. \A o : IsCommitted(o)' = IsCommitted(o)
  BY <1>1 DEF IsCommitted, CommittedIds
<1>3. \A n \in DOMAIN events[s] : events[s][n].t \in Nat /\ events[s][n].t < obs.at
  BY <1>1 DEF TimeInv, CapTimeOK, EventsOK, EventOK
<1>4. QueueNeverOutOfOrder'
  <2>1. ASSUME NEW o \in files', ~IsCommitted(o), NEW n \in DOMAIN events[o.scope]
        PROVE  events[o.scope][n].t <= o.at
    BY <1>1, <1>3, <2>1 DEF BoxOK, QueueNeverOutOfOrder
  <2> QED BY <1>1, <1>2, <2>1 DEF QueueNeverOutOfOrder
<1>5. \A u \in Scopes \ {s} : ~Registering(u) /\ ~Registering(u)'
  BY <1>1 DEF BoxOK, Registering
<1>6. \A o \in disk' \ files' : \E u \in Scopes : Registering(u)' /\ o = cap'[u].obs
  BY <1>1, <1>5 DEF BoxOK
<1>7. \A u, v \in Scopes : Registering(u)' /\ Registering(v)' => u = v
  BY <1>1, <1>5 DEF Registering, Idle
<1> QED BY <1>1, <1>4, <1>6, <1>7 DEF BoxOK

\* What is inserted is the oldest file of its scope.
LEMMA InsertKeepsBox ==
  ASSUME IInv, SampleInv, TimeInv, BoxOK, DrainInsert \/ InsertReplyLost PROVE BoxOK'
<1> PICK s : s = drain.obs.scope
  OBVIOUS
<1> PICK obs : obs = drain.obs
  OBVIOUS
<1>1. /\ s \in Scopes /\ \A u \in Scopes \ {s} : events'[u] = events[u]
      /\ \A n \in DOMAIN events[s] : n \in DOMAIN events'[s] /\ events'[s][n] = events[s][n]
      /\ \A n \in DOMAIN events'[s] : n \in DOMAIN events[s] \/ events'[s][n].t = obs.at
      /\ drain.pc # "idle"
  <2>1. Inserts
    BY DEF Inserts, DrainInsert, InsertReplyLost
  <2>2. /\ s \in Scopes /\ \A u \in Scopes \ {s} : events'[u] = events[u]
        /\ Len(events[s]) \in Nat /\ DOMAIN events[s] = 1 .. Len(events[s])
        /\ DOMAIN events'[s] = 1 .. Len(events[s]) + 1
        /\ \A n \in DOMAIN events[s] : events'[s][n] = events[s][n]
        /\ \A n \in DOMAIN events'[s] : n \in DOMAIN events[s] \/ events'[s][n] = drain.event
        /\ drain.event.t = obs.at
    BY InsertAdds
  <2> QED BY <2>1, <2>2 DEF Inserts
<1>2. UNCHANGED <<disk, files, unlinked, cap>>
  BY DEF DrainInsert, InsertReplyLost, boxVars, procVars
<1>3. \A o : o.scope \in Scopes /\ IsCommitted(o) => IsCommitted(o)'
  BY <1>1 DEF IsCommitted, CommittedIds
<1>4. \A o \in disk \cup files \cup unlinked : o.scope \in Scopes
  BY DEF IInv, TypeInv
<1>5. QueueNeverOutOfOrder'
  <2>1. ASSUME NEW o \in files, ~IsCommitted(o), NEW n \in DOMAIN events'[o.scope]
        PROVE  events'[o.scope][n].t <= o.at
    <3>1. CASE o.scope # s
      BY <1>1, <1>4, <2>1, <3>1 DEF BoxOK, QueueNeverOutOfOrder
    <3>2. CASE o.scope = s /\ n \in DOMAIN events[s]
      BY <1>1, <2>1, <3>2 DEF BoxOK, QueueNeverOutOfOrder
    <3>3. CASE o.scope = s /\ events'[s][n].t = obs.at
      BY <1>1, <3>3 DEF TimeInv, OldestTaken
    <3> QED BY <1>1, <2>1, <3>1, <3>2, <3>3
  <2> QED BY <1>2, <1>3, <1>4, <2>1 DEF QueueNeverOutOfOrder
<1>6. \A o \in disk' \ files' : \E u \in Scopes : Registering(u)' /\ o = cap'[u].obs
  BY <1>2 DEF BoxOK, Registering
<1>7. \A u, v \in Scopes : Registering(u)' /\ Registering(v)' => u = v
  BY <1>2 DEF BoxOK, Registering
<1> QED BY <1>2, <1>3, <1>4, <1>5, <1>6, <1>7 DEF BoxOK

LEMMA AckKeepsBox == ASSUME IInv, BoxOK, DrainAck PROVE BoxOK'
<1> PICK obs : obs = drain.obs
  OBVIOUS
<1>1. /\ UNCHANGED <<events, cap>> /\ disk' = disk \ {obs} /\ files' = files \ {obs}
      /\ unlinked' \subseteq unlinked \cup {obs} /\ IsCommitted(obs) /\ obs \in files
  BY DEF DrainAck, procVars, IInv, DrainInv
<1>2. \A o : IsCommitted(o)' = IsCommitted(o)
  BY <1>1 DEF IsCommitted, CommittedIds
<1>3. QueueNeverOutOfOrder'
  BY <1>1, <1>2 DEF BoxOK, QueueNeverOutOfOrder
<1>4. \A o \in disk' \ files' : \E u \in Scopes : Registering(u)' /\ o = cap'[u].obs
  BY <1>1 DEF BoxOK, Registering
<1>5. \A u, v \in Scopes : Registering(u)' /\ Registering(v)' => u = v
  BY <1>1 DEF BoxOK, Registering
<1> QED BY <1>1, <1>2, <1>3, <1>4, <1>5 DEF BoxOK

\* What a restart finds was known, is the capture being registered, or is committed.
LEMMA CrashFinds ==
  ASSUME IInv, BoxOK, ProcessCrash \/ MachineCrash
  PROVE  /\ UNCHANGED <<events, accepted>> /\ files' = disk' /\ synced \subseteq files'
         /\ unlinked' \subseteq unlinked /\ cap' = [s \in Scopes |-> Idle]
         /\ \A o \in files' : \/ o \in files \/ IsCommitted(o)
                              \/ \E s \in Scopes : Registering(s) /\ o = cap[s].obs
<1>1. /\ UNCHANGED <<events, accepted>> /\ files' = disk' /\ synced \subseteq files'
      /\ unlinked' \subseteq unlinked /\ cap' = [s \in Scopes |-> Idle]
      /\ files' \subseteq disk \cup unlinked
  BY DEF ProcessCrash, MachineCrash, RestartWith, IInv, TypeInv
<1> QED BY <1>1 DEF BoxOK

LEMMA CrashKeepsBox ==
  ASSUME IInv, TimeInv, BoxOK, ProcessCrash \/ MachineCrash PROVE BoxOK'
<1>1. /\ UNCHANGED events /\ files' = disk' /\ unlinked' \subseteq unlinked
      /\ cap' = [s \in Scopes |-> Idle]
      /\ \A o \in files' : \/ o \in files \/ IsCommitted(o)
                           \/ \E s \in Scopes : Registering(s) /\ o = cap[s].obs
  BY CrashFinds
<1>2. \A o : IsCommitted(o)' = IsCommitted(o)
  BY <1>1 DEF IsCommitted, CommittedIds
<1>3. \A s \in Scopes : ~Registering(s)'
  BY <1>1 DEF Registering, Idle
<1>4. ASSUME NEW o \in files', ~IsCommitted(o), NEW n \in DOMAIN events[o.scope]
      PROVE  events[o.scope][n].t <= o.at
  <2>1. CASE o \in files
    BY <1>4, <2>1 DEF BoxOK, QueueNeverOutOfOrder
  <2>2. ASSUME NEW s \in Scopes, Registering(s), o = cap[s].obs
        PROVE  events[o.scope][n].t <= o.at
    <3>1. o.scope = s /\ o.at \in Nat
      BY <2>2 DEF Registering, IInv, CaptureInv, CaptureOK, ObservationOfScope
    <3>2. events[s][n].t < o.at /\ events[s][n].t \in Nat
      BY <1>4, <2>2, <3>1 DEF Registering, TimeInv, CapTimeOK, EventsOK, EventOK
    <3> QED BY <3>1, <3>2
  <2> QED BY <1>1, <1>4, <2>1, <2>2
<1>5. QueueNeverOutOfOrder'
  BY <1>1, <1>2, <1>4 DEF QueueNeverOutOfOrder
<1> QED BY <1>1, <1>2, <1>3, <1>5 DEF BoxOK

LEMMA QueueInvNext ==
  IInv /\ SampleInv /\ TimeInv /\ QueueInv /\ [Next]_vars => QueueInv'
<1> SUFFICES ASSUME IInv, SampleInv, TimeInv, QueueInv, [Next]_vars PROVE QueueInv'
  OBVIOUS
<1>1. SUFFICES ASSUME BoxOK, ~AckFails, \A s \in Scopes : ~EnqueueSyncFails(s) PROVE BoxOK'
  BY FaultsKept, StartingKept DEF QueueInv
<1>2. CASE Clock \/ StartPolling \/ Tick \/ UNCHANGED vars
  <2>1. UNCHANGED <<disk, files, unlinked, events>>
    BY <1>2 DEF Clock, StartPolling, Tick, vars, boxVars
  <2>2. \A s \in Scopes : cap'[s] = cap[s] \/ (cap[s].pc # "sync" /\ cap'[s].pc # "sync")
    <3>1. CASE UNCHANGED cap
      BY <3>1
    <3>2. CASE Tick /\ AllIdle
      <4>1. \A s \in Scopes : cap[s] = Idle /\ cap'[s].pc \in {"start", "idle"}
        BY <3>2 DEF Tick, AllIdle, Idle
      <4> QED BY <4>1 DEF Idle
    <3> QED BY <1>2, <3>1, <3>2 DEF Clock, StartPolling, Tick, vars, procVars
  <2> QED BY <1>1, <2>1, <2>2, BoxKept
<1>3. ASSUME NEW s \in Scopes, BootScope(s) \/ CaptureBegin(s) \/ FetchEnd(s) \/ EvictState(s)
      PROVE  BoxOK'
  <2>1. UNCHANGED <<disk, files, unlinked, events>>
    BY <1>3 DEF BootScope, CaptureBegin, FetchEnd, EvictState, boxVars
  <2>2. \A u \in Scopes : cap'[u] = cap[u] \/ (cap[u].pc # "sync" /\ cap'[u].pc # "sync")
    <3>1. CASE UNCHANGED cap
      BY <3>1
    <3>2. CASE CaptureBegin(s)
      BY <3>2 DEF CaptureBegin, IInv, TypeInv, Idle
    <3>3. CASE FetchEnd(s)
      BY <3>3 DEF FetchEnd, IInv, TypeInv
    <3>4. CASE BootScope(s)
      <4>1. cap[s] = Idle /\ s \in booting
        BY <3>4 DEF BootScope, QueueInv, Starting
      <4>2. ASSUME NEW u \in Scopes
            PROVE  cap'[u] = cap[u] \/ (u = s /\ cap'[u] = [pc |-> "start", slot |-> None])
        BY <3>4 DEF BootScope, IInv, TypeInv
      <4> QED BY <4>1, <4>2 DEF Idle
    <3> QED BY <1>3, <3>1, <3>2, <3>3, <3>4 DEF EvictState, procVars
  <2> QED BY <1>1, <2>1, <2>2, BoxKept
<1>4. ASSUME NEW s \in Scopes, EnqueueRename(s) \/ EnqueueSync(s) PROVE BoxOK'
  BY <1>1, <1>4, RenameKeepsBox, SyncKeepsBox
<1>5. CASE DrainTake \/ DrainFound \/ DrainEncode \/ DbFault
  <2>1. UNCHANGED <<disk, files, unlinked, events, cap>>
    BY <1>5 DEF DrainTake, DrainFound, DrainEncode, DbFault, boxVars, procVars
  <2> QED BY <1>1, <2>1, BoxKept
<1>6. CASE DrainInsert \/ InsertReplyLost
  BY <1>1, <1>6, InsertKeepsBox
<1>7. CASE DrainAck
  BY <1>1, <1>7, AckKeepsBox
<1>8. CASE ProcessCrash \/ MachineCrash
  BY <1>1, <1>8, CrashKeepsBox
<1> QED BY <1>1, <1>2, <1>3, <1>4, <1>5, <1>6, <1>7, <1>8 DEF Next, CaptureNext, DrainNext, DrainProgress

LEMMA QueueInvariance == Spec => []QueueInv
<1> QED BY QueueInvInit, QueueInvNext, Invariance, SampleInvariance, TimeInvariance, PTL DEF Spec

\* Until a directory fsync or an unlink fails, no file of the outbox is older
\* than what its scope has committed, through all crashes and database faults:
\* the encoder never refuses the head of the queue.
THEOREM QueueInOrderUntilDiskFault == Spec => [](faults.disk = 0 => QueueNeverOutOfOrder)
<1>1. QueueInv => (faults.disk = 0 => QueueNeverOutOfOrder)
  BY DEF QueueInv, BoxOK
<1> QED BY <1>1, QueueInvariance, PTL

\* Where no disk fault happens, it never is out of order.
THEOREM QueueInOrder == MaxDiskFaults = 0 => (Spec => []QueueNeverOutOfOrder)
<1> SUFFICES ASSUME MaxDiskFaults = 0 PROVE Spec => []QueueNeverOutOfOrder
  OBVIOUS
<1>1. QueueInv => QueueNeverOutOfOrder
  BY DEF QueueInv, BoxOK, FaultsType
<1> QED BY <1>1, QueueInvariance, PTL

-----------------------------------------------------------------------------
(* The pipeline implements the log of observations.  Of each observation the *)
(* log knows its content, which identifies it.                               *)

LogInv == IInv /\ SlotInv /\ SampleInv /\ TimeInv /\ CacheInv /\ QueueInv

LEMMA ContentIdentifies ==
  ASSUME SlotInv, NEW o \in Seen, NEW p \in Seen, Content(o) = Content(p) PROVE o = p
<1>1. o.id = p.id
  BY DEF Content
<1> QED BY <1>1 DEF SlotInv, SeenOK

\* The log changes with the events only.
LEMMA LogKept ==
  ASSUME events' = events
  PROVE  /\ [s \in Scopes |-> Decoded(s)]' = [s \in Scopes |-> Decoded(s)]
         /\ \A o : IsCommitted(o)' = IsCommitted(o)
<1>1. \A s \in Scopes : Decoded(s)' = Decoded(s)
  BY DEF Decoded
<1> QED BY <1>1 DEF IsCommitted, CommittedIds

\* Nothing waits or is logged that was not there: a step that keeps the events,
\* the accepted observations and the files not yet committed is a stutter.
LEMMA NothingLogged ==
  ASSUME UNCHANGED <<events, accepted>>,
         \A o : ~IsCommitted(o) => (o \in files' <=> o \in files)
  PROVE  UNCHANGED Abstract!logVars
<1>1. /\ [s \in Scopes |-> Decoded(s)]' = [s \in Scopes |-> Decoded(s)]
      /\ \A o : IsCommitted(o)' = IsCommitted(o)
  BY LogKept
<1>2. {f \in files' : ~IsCommitted(f)'} = {f \in files : ~IsCommitted(f)}
  BY <1>1
<1>3. {f \in accepted' : ~IsCommitted(f)'} = {f \in accepted : ~IsCommitted(f)}
  BY <1>1
<1>4. Waiting(files)' = Waiting(files) /\ Waiting(accepted)' = Waiting(accepted)
  BY <1>2, <1>3 DEF Waiting, Content
<1> QED BY <1>1, <1>4 DEF Abstract!logVars

\* A capture that is being registered is newer than all its scope has.
LEMMA RegisteredIsNew ==
  ASSUME LogInv, NEW s \in Scopes, Registering(s), NEW obs, obs = cap[s].obs
  PROVE  Abstract!IsNew(Content(obs)) /\ ~IsCommitted(obs) /\ obs.scope = s /\ obs \in disk
<1>1. /\ obs.scope = s /\ obs.at \in Nat /\ obs \in disk /\ obs \notin files
      /\ \A n \in DOMAIN events[s] :
           events[s][n].t \in Nat /\ events[s][n].t < obs.at /\ events[s][n].id # obs.id
      /\ \A o \in Seen : o.scope = s => o.at < obs.at \/ o = obs
  BY DEF LogInv, Registering, IInv, CaptureInv, CaptureOK, ObservationOfScope, SlotInv, SlotOK,
     TimeInv, EventsOK, EventOK, CapTimeOK
<1>2. ~IsCommitted(obs)
  BY <1>1 DEF IsCommitted, CommittedIds
<1>3. ASSUME NEW p \in Waiting(files), p.scope = s PROVE p.id # obs.id /\ p.at < obs.at
  <2>1. PICK o \in files : p = Content(o)
    BY DEF Waiting
  <2>2. o \in Seen /\ obs \in Seen /\ o # obs /\ o.scope = s /\ p.id = o.id /\ p.at = o.at
    BY <1>1, <1>3, <2>1 DEF Seen, Content
  <2> QED BY <1>1, <2>2 DEF LogInv, SlotInv, SeenOK
<1>4. ASSUME NEW p \in {[u \in Scopes |-> Decoded(u)][s][n] :
                          n \in DOMAIN [u \in Scopes |-> Decoded(u)][s]}
      PROVE  p.id # obs.id /\ p.at < obs.at
  <2>1. PICK n \in DOMAIN Decoded(s) : p = Decoded(s)[n]
    BY <1>4
  <2>2. n \in DOMAIN events[s] /\ p.id = events[s][n].id /\ p.at = events[s][n].t
    BY <2>1 DEF Decoded
  <2> QED BY <1>1, <2>2
<1>5. /\ Content(obs).scope = s /\ Content(obs).id = obs.id /\ Content(obs).at = obs.at
  BY <1>1 DEF Content
<1> QED BY <1>1, <1>2, <1>3, <1>4, <1>5 DEF Abstract!IsNew, Abstract!Logged

\* An enqueue is acknowledged: the log accepts the observation.
LEMMA SyncAccepts ==
  ASSUME LogInv, NEW s \in Scopes, EnqueueSync(s) PROVE Abstract!Accept
<1> PICK obs : obs = cap[s].obs
  OBVIOUS
<1>1. /\ UNCHANGED events /\ Registering(s)
      /\ files' = files \cup {obs} /\ accepted' = accepted \cup {obs}
  BY DEF EnqueueSync, Registering
<1>2. Abstract!IsNew(Content(obs)) /\ ~IsCommitted(obs) /\ obs.scope = s
  BY <1>1, RegisteredIsNew
<1>3. /\ [u \in Scopes |-> Decoded(u)]' = [u \in Scopes |-> Decoded(u)]
      /\ \A o : IsCommitted(o)' = IsCommitted(o)
  BY <1>1, LogKept
<1>4. {f \in files' : ~IsCommitted(f)'} = {f \in files : ~IsCommitted(f)} \cup {obs}
  BY <1>1, <1>2, <1>3
<1>5. {f \in accepted' : ~IsCommitted(f)'} = {f \in accepted : ~IsCommitted(f)} \cup {obs}
  BY <1>1, <1>2, <1>3
<1>6. /\ Waiting(files)' = Waiting(files) \cup {Content(obs)}
      /\ Waiting(accepted)' = Waiting(accepted) \cup {Content(obs)}
  BY <1>4, <1>5 DEF Waiting, Content
<1>7. Content(obs) \notin Waiting(files)
  <2>1. Content(obs) \in Waiting(files) => Content(obs).id # Content(obs).id
    BY <1>2 DEF Abstract!IsNew
  <2> QED BY <2>1
<1> QED BY <1>2, <1>3, <1>6, <1>7 DEF Abstract!Accept

LEMMA AppendAsFunction ==
  ASSUME NEW S, NEW f \in Seq(S), NEW g \in Seq(S), NEW x \in S, Len(g) = Len(f) + 1,
         \A n \in 1 .. Len(f) : g[n] = f[n], g[Len(f) + 1] = x
  PROVE  g = Append(f, x)
OBVIOUS

\* An insert appends the observation to the decoded log of its scope.
LEMMA InsertLogs ==
  ASSUME LogInv, DrainInsert \/ InsertReplyLost, NEW s, NEW obs,
         drain.obs = obs, obs.scope = s
  PROVE  Decoded(s)' = Append(Decoded(s), Content(obs))
<1> PICK event : event = drain.event
  OBVIOUS
<1> PICK old : old = drain.state
  OBVIOUS
<1> DEFINE before == events[s]
           after  == events'[s]
           len    == Len(before)
           was    == StatesOf(before)
           is     == StatesOf(after)
<1>1. /\ len \in Nat /\ DOMAIN before = 1 .. len /\ DOMAIN after = 1 .. len + 1
      /\ \A n \in 1 .. len : after[n] = before[n]
      /\ after[len + 1] = event
      /\ event.id = obs.id /\ event.t = obs.at /\ event.r = obs.reason
  BY InsertAdds DEF LogInv
<1>2. /\ (event.k = "GAP") = (obs.reason # NoReason)
      /\ obs.reason = NoReason => Chain(s)'.ranking = obs.ranking
      /\ obs.reason # NoReason => obs.ranking = <<>>
      /\ \A n \in 0 .. len :
           Replayed(EmptyTopState, after)[n] = Replayed(EmptyTopState, before)[n]
      /\ Chain(s)' = Replayed(EmptyTopState, after)[len + 1]
  BY InsertDecodes DEF LogInv
<1> HIDE DEF len, before, after
<1>3. /\ \A n \in 1 .. len : is[n] = was[n]
      /\ event.k # "GAP" => is[len + 1].ranking = obs.ranking
  BY <1>1, <1>2 DEF StatesOf
<1> DEFINE Entry(e, state) ==
             [id |-> e.id, scope |-> s, at |-> e.t, reason |-> e.r,
              ranking |-> IF e.k = "GAP" THEN <<>> ELSE state.ranking]
<1>4. /\ Decoded(s) = [n \in 1 .. len |-> Entry(before[n], was[n])]
      /\ Decoded(s)' = [n \in 1 .. len + 1 |-> Entry(after[n], is[n])]
  BY <1>1 DEF Decoded, before, after
<1>5. Entry(event, is[len + 1]) = Content(obs)
  BY <1>1, <1>2, <1>3 DEF Content
<1> HIDE DEF Entry, was, is
<1>6. Decoded(s)'[len + 1] = Content(obs)
  BY <1>1, <1>4, <1>5
<1>7. \A n \in 1 .. len : Decoded(s)'[n] = Decoded(s)[n]
  BY <1>1, <1>3, <1>4
<1> DEFINE f == Decoded(s)
           g == Decoded(s)'
<1>8. f = [n \in 1 .. len |-> f[n]] /\ g = [n \in 1 .. len + 1 |-> g[n]]
  BY <1>4
<1>9. (\A n \in 1 .. len : g[n] = f[n]) /\ g[len + 1] = Content(obs)
  BY <1>6, <1>7
<1> DEFINE S == {f[n] : n \in 1 .. len} \cup {Content(obs)}
<1> HIDE DEF f, g
<1>10. f \in Seq(S) /\ g \in Seq(S) /\ Len(f) = len /\ Len(g) = len + 1
  <2>1. \A n \in 1 .. len + 1 : n \in 1 .. len \/ n = len + 1
    BY <1>1
  <2>2. \A n \in 1 .. len + 1 : g[n] \in S
    BY <1>9, <2>1
  <2>3. \A n \in 1 .. len : f[n] \in S
    OBVIOUS
  <2> HIDE DEF S
  <2> QED BY <1>1, <1>8, <2>2, <2>3
<1>11. Content(obs) \in S
  OBVIOUS
<1> HIDE DEF S
<1>12. g = Append(f, Content(obs))
  BY <1>9, <1>10, <1>11, AppendAsFunction
<1> QED BY <1>12 DEF f, g

\* What is committed no longer waits, and nothing else stops waiting.
LEMMA InsertStopsWaiting ==
  ASSUME LogInv, DrainInsert \/ InsertReplyLost, NEW obs, drain.obs = obs, NEW o \in Seen
  PROVE  IsCommitted(o)' <=> IsCommitted(o) \/ o = obs
<1> PICK s : s = obs.scope
  OBVIOUS
<1>1. /\ s \in Scopes /\ obs \in Seen /\ \A u \in Scopes \ {s} : events'[u] = events[u]
      /\ Len(events[s]) \in Nat
      /\ DOMAIN events[s] = 1 .. Len(events[s]) /\ DOMAIN events'[s] = 1 .. Len(events[s]) + 1
      /\ \A n \in DOMAIN events[s] : events'[s][n] = events[s][n]
      /\ \A n \in DOMAIN events'[s] : n \in DOMAIN events[s] \/ events'[s][n] = drain.event
      /\ events'[s][Len(events[s]) + 1] = drain.event
      /\ drain.event.id = obs.id
  BY InsertAdds DEF LogInv, Seen
<1>2. CommittedIds(s)' = CommittedIds(s) \cup {obs.id}
  <2>1. \A n \in DOMAIN events[s] : n \in DOMAIN events'[s]
    BY <1>1
  <2>2. Len(events[s]) + 1 \in DOMAIN events'[s]
    BY <1>1
  <2>3. ASSUME NEW id PROVE id \in CommittedIds(s)' <=> id \in CommittedIds(s) \/ id = obs.id
    <3>1. id \in CommittedIds(s)' <=> \E n \in DOMAIN events'[s] : events'[s][n].id = id
      BY DEF CommittedIds
    <3>2. id \in CommittedIds(s) <=> \E n \in DOMAIN events[s] : events[s][n].id = id
      BY DEF CommittedIds
    <3>3. \A n \in DOMAIN events[s] : n \in DOMAIN events'[s] /\ events'[s][n].id = events[s][n].id
      BY <1>1, <2>1
    <3>4. \A n \in DOMAIN events'[s] : n \in DOMAIN events[s] \/ events'[s][n].id = obs.id
      BY <1>1
    <3>5. events'[s][Len(events[s]) + 1].id = obs.id
      BY <1>1
    <3> QED BY <2>2, <3>1, <3>2, <3>3, <3>4, <3>5
  <2> QED BY <2>3
<1>3. o.scope \in Scopes
  BY SeenTypes DEF LogInv
<1>4. CASE o.scope = s
  <2>1. o.id = obs.id => o = obs
    BY <1>1 DEF LogInv, SlotInv, SeenOK
  <2> QED BY <1>2, <1>4, <2>1 DEF IsCommitted
<1>5. CASE o.scope # s
  BY <1>1, <1>3, <1>5 DEF IsCommitted, CommittedIds
<1> QED BY <1>4, <1>5

\* An insert, acknowledged or not, commits the oldest waiting observation.
LEMMA InsertCommits ==
  ASSUME LogInv, DrainInsert \/ InsertReplyLost PROVE Abstract!Commit
<1> PICK obs : obs = drain.obs
  OBVIOUS
<1> PICK s : s = obs.scope
  OBVIOUS
<1> DEFINE old == [u \in Scopes |-> Decoded(u)]
           new == [u \in Scopes |-> Decoded(u)]'
<1>1. /\ UNCHANGED <<files, accepted>> /\ drain.pc # "idle"
      /\ s \in Scopes /\ obs \in files /\ ~IsCommitted(obs)
      /\ \A u \in Scopes \ {s} : events'[u] = events[u]
  BY InsertAdds DEF LogInv, DrainInsert, InsertReplyLost, boxVars
<1>2. /\ {f \in files' : ~IsCommitted(f)'} = {f \in files : ~IsCommitted(f)} \ {obs}
      /\ {f \in accepted' : ~IsCommitted(f)'} = {f \in accepted : ~IsCommitted(f)} \ {obs}
  BY <1>1, InsertStopsWaiting DEF Seen
<1>3. /\ Waiting(files)' = Waiting(files) \ {Content(obs)}
      /\ Waiting(accepted)' = Waiting(accepted) \ {Content(obs)}
  <2>1. \A o \in files \cup accepted : Content(o) = Content(obs) => o = obs
    BY <1>1, ContentIdentifies DEF LogInv, Seen
  <2>2. \A o : Content(o)' = Content(o)
    BY DEF Content
  <2> QED BY <1>2, <2>1, <2>2 DEF Waiting
<1>4. Content(obs) \in Waiting(files) /\ Content(obs).scope = s
  BY <1>1 DEF Waiting, Content
<1>5. \A p \in Waiting(files) : p.scope = s => Content(obs).at <= p.at
  <2>1. \A o \in files : o.scope = s => obs.at <= o.at
    BY <1>1 DEF LogInv, TimeInv, OldestTaken
  <2> QED BY <2>1 DEF Waiting, Content
<1>6. new = [old EXCEPT ![s] = Append(old[s], Content(obs))]
  <2>1. Decoded(s)' = Append(Decoded(s), Content(obs))
    BY InsertLogs
  <2>2. \A u \in Scopes \ {s} : Decoded(u)' = Decoded(u)
    BY <1>1 DEF Decoded
  <2> QED BY <1>1, <2>1, <2>2
<1> QED BY <1>3, <1>4, <1>5, <1>6 DEF Abstract!Commit

\* A restart finds all that was promised, and at most the one observation that
\* was being registered.
LEMMA CrashRecounts ==
  ASSUME LogInv, BoxOK, ProcessCrash \/ MachineCrash PROVE Abstract!Recount
<1>1. /\ UNCHANGED <<events, accepted>> /\ synced \subseteq files'
      /\ \A o \in files' : \/ o \in files \/ IsCommitted(o)
                           \/ \E s \in Scopes : Registering(s) /\ o = cap[s].obs
  BY CrashFinds DEF LogInv
<1>2. /\ [u \in Scopes |-> Decoded(u)]' = [u \in Scopes |-> Decoded(u)]
      /\ \A o : IsCommitted(o)' = IsCommitted(o) /\ Content(o)' = Content(o)
  BY <1>1, LogKept DEF Content
<1>3. Waiting(accepted)' = Waiting(accepted)
  BY <1>1, <1>2 DEF Waiting
<1>4. Waiting(accepted) \subseteq Waiting(files)'
  <2>1. \A o \in accepted : ~IsCommitted(o) => o \in files'
    BY <1>1 DEF LogInv, IInv, AcceptedNotLost
  <2> QED BY <1>2, <2>1 DEF Waiting
<1>5. ASSUME NEW p \in Waiting(files)' \ Waiting(files)
      PROVE  \E s \in Scopes : Registering(s) /\ p = Content(cap[s].obs)
  <2>1. PICK o \in files' : ~IsCommitted(o) /\ p = Content(o)
    BY <1>2 DEF Waiting
  <2>2. o \notin files
    BY <1>5, <2>1 DEF Waiting
  <2> QED BY <1>1, <2>1, <2>2
<1>6. ASSUME NEW p \in Waiting(files)' \ Waiting(files), NEW q \in Waiting(files)' \ Waiting(files)
      PROVE  Abstract!IsNew(p) /\ p = q
  <2>1. PICK s \in Scopes : Registering(s) /\ p = Content(cap[s].obs)
    BY <1>5
  <2>2. PICK u \in Scopes : Registering(u) /\ q = Content(cap[u].obs)
    BY <1>5
  <2>3. s = u
    BY <2>1, <2>2 DEF BoxOK
  <2> QED BY <2>1, <2>2, <2>3, RegisteredIsNew
<1> QED BY <1>2, <1>3, <1>4, <1>6 DEF Abstract!Recount

\* Every step of the pipeline is a step of the log, or no step of it.
LEMMA AbstractNext ==
  LogInv /\ BoxOK /\ [Next]_vars /\ (\A s \in Scopes : ~EnqueueSyncFails(s)) /\ ~AckFails
    => [Abstract!LogNext]_(Abstract!logVars)
<1> SUFFICES ASSUME LogInv, BoxOK, [Next]_vars, \A s \in Scopes : ~EnqueueSyncFails(s), ~AckFails
             PROVE  Abstract!LogNext \/ UNCHANGED Abstract!logVars
  OBVIOUS
<1>1. CASE Clock \/ StartPolling \/ Tick \/ UNCHANGED vars
  <2>1. UNCHANGED <<files, events, accepted>>
    BY <1>1 DEF Clock, StartPolling, Tick, vars, boxVars
  <2> QED BY <2>1, NothingLogged
<1>2. ASSUME NEW s \in Scopes,
             BootScope(s) \/ CaptureBegin(s) \/ FetchEnd(s) \/ EvictState(s) \/ EnqueueRename(s)
      PROVE  UNCHANGED Abstract!logVars
  <2>1. UNCHANGED <<files, events, accepted>>
    BY <1>2 DEF BootScope, CaptureBegin, FetchEnd, EvictState, EnqueueRename, boxVars
  <2> QED BY <2>1, NothingLogged
<1>3. ASSUME NEW s \in Scopes, EnqueueSync(s) PROVE Abstract!LogNext
  BY <1>3, SyncAccepts DEF Abstract!LogNext
<1>4. CASE DrainTake \/ DrainFound \/ DrainEncode \/ DbFault
  <2>1. UNCHANGED <<files, events, accepted>>
    BY <1>4 DEF DrainTake, DrainFound, DrainEncode, DbFault, boxVars
  <2> QED BY <2>1, NothingLogged
<1>5. CASE DrainInsert \/ InsertReplyLost
  BY <1>5, InsertCommits DEF Abstract!LogNext
<1>6. CASE DrainAck
  <2>1. UNCHANGED <<events, accepted>> /\ files' = files \ {drain.obs} /\ IsCommitted(drain.obs)
    BY <1>6 DEF DrainAck, LogInv, IInv, DrainInv
  <2>2. \A o : ~IsCommitted(o) => (o \in files' <=> o \in files)
    BY <2>1
  <2> QED BY <2>1, <2>2, NothingLogged
<1>7. CASE ProcessCrash \/ MachineCrash
  BY <1>7, CrashRecounts DEF Abstract!LogNext
<1> QED BY <1>1, <1>2, <1>3, <1>4, <1>5, <1>6, <1>7 DEF Next, CaptureNext, DrainNext, DrainProgress

LEMMA AbstractInit == Init => Abstract!LogInit
<1> SUFFICES ASSUME Init PROVE Abstract!LogInit
  OBVIOUS
<1>1. Waiting(files) = {} /\ Waiting(accepted) = {}
  BY DEF Init, Waiting
<1>2. ASSUME NEW s \in Scopes PROVE Decoded(s) = <<>>
  <2>1. events[s] = <<>> /\ DOMAIN events[s] = {}
    BY DEF Init
  <2> QED BY <2>1 DEF Decoded
<1> QED BY <1>1, <1>2 DEF Abstract!LogInit

LEMMA LogInvariance == Spec => []LogInv
<1> QED BY Invariance, SlotInvariance, SampleInvariance, TimeInvariance, CacheInvariance,
       QueueInvariance, PTL DEF LogInv

\* Without disk faults the whole pipeline - outbox, incremental encoding, cached
\* states, crashes of the process and of the machine, failed calls and lost
\* replies of the database - is a log that neither loses, nor repeats, nor
\* alters, nor reorders what was acknowledged.
THEOREM PipelineImplementsLog == MaxDiskFaults = 0 => (Spec => ImplementsLog)
<1> SUFFICES ASSUME MaxDiskFaults = 0 PROVE Spec => ImplementsLog
  OBVIOUS
<1>1. LogInv /\ LogInv' /\ [Next]_vars => [Abstract!LogNext]_(Abstract!logVars)
  <2> SUFFICES ASSUME LogInv, LogInv', [Next]_vars PROVE [Abstract!LogNext]_(Abstract!logVars)
    OBVIOUS
  <2>1. faults.disk = 0 /\ faults'.disk = 0
    BY DEF LogInv, QueueInv, FaultsType
  <2>2. BoxOK /\ ~AckFails /\ \A s \in Scopes : ~EnqueueSyncFails(s)
    BY <2>1, FaultsKept DEF LogInv, QueueInv
  <2> QED BY <2>2, AbstractNext
<1> QED BY AbstractInit, <1>1, LogInvariance, PTL DEF Spec, ImplementsLog, Abstract!LogSpec

-----------------------------------------------------------------------------
(* The planned slots that were missed.  Without bootstraps every sample has  *)
(* a slot or is for the boundary, so that the planned sample before another  *)
(* one of the same plan is its neighbour, and the state it was encoded       *)
(* against tells that neighbour's slot.                                      *)

Between(prev, e) ==
  LET first == prev.a + Interval
      last  == e.a - Interval
  IN  IF first <= last THEN <<first, last>> ELSE <<>>

PlanOK(s) ==
  \A n \in DOMAIN events[s] :
    LET e == events[s][n]
    IN  /\ e.a # None \/ e.e # None
        /\ e.a # None => PlannedSlot(e.a) /\ e.i # None
        /\ e.e = None => e.i = Interval
        /\ n - 1 \in DOMAIN events[s] /\ e.a # None /\ e.i = Interval
             /\ events[s][n - 1].e = None => e.g = Between(events[s][n - 1], e)

PlanInv == \A s \in Scopes : PlanOK(s)

\* What the state after an event knows of the plan.
LEMMA ChainKnowsPlan ==
  ASSUME IInv, NEW s \in Scopes, NEW len \in Nat, len # 0, len = Len(events[s]),
         events[s][len].e = None, events[s][len].a # None, events[s][len].i # None
  PROVE  /\ Chain(s).lastScheduledAt = events[s][len].a
         /\ Chain(s).lastIntervalMs = events[s][len].i
<1>1. Chain(s) = Apply(Replayed(EmptyTopState, events[s])[len - 1], events[s][len])
  BY ReplayedSteps DEF Chain, Replay
<1> QED BY <1>1 DEF Apply

LEMMA InsertKeepsPlan ==
  ASSUME IInv, SlotInv, SampleInv, TimeInv, CacheInv, PlanInv, ~Bootstraps,
         DrainInsert \/ InsertReplyLost
  PROVE  PlanInv'
<1> PICK s : s = drain.obs.scope
  OBVIOUS
<1> PICK obs : obs = drain.obs
  OBVIOUS
<1> PICK event : event = drain.event
  OBVIOUS
<1> PICK old : old = drain.state
  OBVIOUS
<1> DEFINE len == Len(events[s])
<1>1. /\ s \in Scopes /\ obs \in files /\ obs \in Seen
      /\ \A u \in Scopes \ {s} : events'[u] = events[u]
      /\ len \in Nat /\ DOMAIN events[s] = 1 .. len /\ DOMAIN events'[s] = 1 .. len + 1
      /\ \A n \in DOMAIN events[s] : events'[s][n] = events[s][n]
      /\ events'[s][len + 1] = event
      /\ event.a = obs.scheduledAt
  BY InsertAdds DEF Seen
<1>2. /\ event = Encode(obs, old) /\ old = Chain(s)
      /\ SampleOK(obs) /\ obs.scope = s
  BY <1>1 DEF DrainInsert, InsertReplyLost, SampleInv, EncodedOK, CacheInv, DrainCurrent, Current
<1>3. /\ event.e = obs.effectiveAt
      /\ event.i = IF obs.scheduledAt # None \/ obs.effectiveAt # None THEN obs.intervalMs ELSE None
      /\ event.g = SkippedSlots(obs, old)
      /\ obs.intervalMs \in Nat /\ obs.intervalMs # None
  BY <1>2 DEF Encode, SampleOK, None
<1> HIDE DEF len
<1>4. /\ event.a # None \/ event.e # None
      /\ event.a # None => PlannedSlot(event.a) /\ event.i # None
      /\ event.e = None => event.i = Interval
  BY <1>1, <1>2, <1>3 DEF SampleOK
<1>5. ASSUME len # 0, event.a # None, event.i = Interval, events[s][len].e = None
      PROVE  event.g = Between(events[s][len], event)
  <2>1. len \in DOMAIN events[s] /\ PlanOK(s)
    BY <1>1, <1>5 DEF PlanInv
  <2>2. /\ events[s][len].a # None /\ events[s][len].i = Interval
        /\ events[s][len].i # None
    BY <1>5, <2>1 DEF PlanOK
  <2>3. old.lastScheduledAt = events[s][len].a /\ old.lastIntervalMs = Interval
    BY <1>1, <1>2, <1>5, <2>2, ChainKnowsPlan DEF len
  <2>4. obs.intervalMs = Interval /\ obs.scheduledAt = event.a
    BY <1>1, <1>3, <1>5
  <2>5. Interval # None
    BY <2>2
  <2> QED BY <1>3, <1>5, <2>2, <2>3, <2>4, <2>5 DEF SkippedSlots, Between
<1>6. ASSUME NEW n \in 1 .. len + 1
      PROVE  LET e == events'[s][n]
             IN  /\ e.a # None \/ e.e # None
                 /\ e.a # None => PlannedSlot(e.a) /\ e.i # None
                 /\ e.e = None => e.i = Interval
                 /\ n - 1 \in 1 .. len + 1 /\ e.a # None /\ e.i = Interval
                      /\ events'[s][n - 1].e = None => e.g = Between(events'[s][n - 1], e)
  <2>1. CASE n \in 1 .. len
    <3>1. events'[s][n] = events[s][n] /\ (n - 1 \in 1 .. len + 1 => n - 1 \in 1 .. len)
      BY <1>1, <2>1
    <3>2. n - 1 \in 1 .. len => events'[s][n - 1] = events[s][n - 1]
      BY <1>1
    <3>3. PlanOK(s) /\ n \in DOMAIN events[s]
      BY <1>1, <2>1 DEF PlanInv
    <3>4. LET e == events[s][n]
          IN  /\ e.a # None \/ e.e # None
              /\ e.a # None => PlannedSlot(e.a) /\ e.i # None
              /\ e.e = None => e.i = Interval
              /\ n - 1 \in 1 .. len /\ e.a # None /\ e.i = Interval
                   /\ events[s][n - 1].e = None => e.g = Between(events[s][n - 1], e)
      BY <1>1, <3>3 DEF PlanOK
    <3> QED BY <3>1, <3>2, <3>4
  <2>2. CASE n = len + 1
    <3>1. events'[s][n] = event /\ n - 1 = len
      BY <1>1, <2>2
    <3>2. len # 0 => events'[s][len] = events[s][len]
      BY <1>1
    <3>3. len \in 1 .. len + 1 => len # 0
      BY <1>1
    <3> QED BY <1>4, <1>5, <3>1, <3>2, <3>3
  <2>3. n \in 1 .. len \/ n = len + 1
    BY <1>1, <1>6
  <2> QED BY <2>1, <2>2, <2>3
<1>7. PlanOK(s)'
  BY <1>1, <1>6 DEF PlanOK, Between, PlannedSlot
<1>8. ASSUME NEW u \in Scopes, u # s PROVE PlanOK(u)'
  BY <1>1, <1>8 DEF PlanInv, PlanOK, Between, PlannedSlot
<1> QED BY <1>7, <1>8 DEF PlanInv

LEMMA PlanInvNext ==
  ASSUME ~Bootstraps
  PROVE  LogInv /\ PlanInv /\ [Next]_vars => PlanInv'
<1> SUFFICES ASSUME LogInv, PlanInv, [Next]_vars PROVE PlanInv'
  OBVIOUS
<1>1. CASE DrainInsert \/ InsertReplyLost
  BY <1>1, InsertKeepsPlan DEF LogInv
<1>2. CASE events' = events
  BY <1>2 DEF PlanInv, PlanOK, Between, PlannedSlot
<1>3. DrainInsert \/ InsertReplyLost \/ events' = events
  BY DEF Next, CaptureNext, DrainNext, DrainProgress, Clock, StartPolling, Tick, BootScope,
     CaptureBegin, FetchEnd, EnqueueRename, EnqueueSync, EnqueueSyncFails, DrainTake, DrainFound,
     DrainEncode, DrainAck, DbFault, AckFails, EvictState, ProcessCrash, MachineCrash,
     RestartWith, vars
<1> QED BY <1>1, <1>2, <1>3

LEMMA MultipleOfInterval ==
  ASSUME NEW x \in Nat, x % Interval = 0 PROVE \E q \in Nat : x = q * Interval
<1>1. Interval \in Nat \ {0}
  BY PipelineAssumption
<1>2. x = Interval * (x \div Interval) /\ x \div Interval \in Nat
  BY <1>1
<1> DEFINE q == x \div Interval
<1> HIDE DEF q
<1>3. q \in Nat /\ x = Interval * q
  BY <1>2 DEF q
<1>4. x = q * Interval
  BY <1>1, <1>3
<1> QED BY <1>3, <1>4

\* Between two planned slots, the slots that begin at least one interval away
\* from both are all there are.
LEMMA SlotsBetween ==
  ASSUME NEW a, NEW b, PlannedSlot(a), PlannedSlot(b)
  PROVE  SlotsIn(a + 1, b - 1) = SlotsIn(a + Interval, b - Interval)
<1>1. Interval \in Nat \ {0} /\ MaxTime \in Nat
  BY PipelineAssumption
<1>2. PICK p \in Nat : a = p * Interval
  BY DEF PlannedSlot
<1>3. PICK q \in Nat : b = q * Interval
  BY DEF PlannedSlot
<1>4. a \in Nat /\ b \in Nat
  BY <1>1, <1>2, <1>3
<1>5. ASSUME NEW x \in 0 .. MaxTime, x % Interval = 0
      PROVE  (a + 1 <= x <=> a + Interval <= x) /\ (x <= b - 1 <=> x <= b - Interval)
  <2>1. x \in Nat
    BY <1>1
  <2>2. PICK r \in Nat : x = r * Interval
    BY <1>5, <2>1, MultipleOfInterval
  <2>3. ASSUME NEW m \in Nat, NEW n \in Nat, m * Interval < n * Interval
        PROVE  m * Interval + Interval <= n * Interval
    <3>1. m < n
      <4> SUFFICES ASSUME n <= m PROVE FALSE
        OBVIOUS
      <4>1. n * Interval <= m * Interval
        BY <1>1
      <4>2. n * Interval \in Nat /\ m * Interval \in Nat
        BY <1>1
      <4> QED BY <2>3, <4>1, <4>2
    <3>2. (m + 1) * Interval <= n * Interval
      BY <1>1, <3>1
    <3>3. (m + 1) * Interval = m * Interval + Interval
      BY <1>1
    <3> QED BY <3>2, <3>3
  <2>4. a < x => a + Interval <= x
    BY <1>2, <2>1, <2>2, <2>3
  <2>5. x < b => x + Interval <= b
    BY <1>3, <2>1, <2>2, <2>3
  <2> QED BY <1>1, <1>4, <2>1, <2>4, <2>5
<1> QED BY <1>5 DEF SlotsIn

\* Without bootstraps, every planned slot between two samples of a plan is named
\* by the second of them, and no other slot is.
THEOREM MissedSlotsAreRecorded == ~Bootstraps => (Spec => []MissedSlotsRecorded)
<1> SUFFICES ASSUME ~Bootstraps PROVE Spec => []MissedSlotsRecorded
  OBVIOUS
<1>1. Init => PlanInv
  BY DEF Init, PlanInv, PlanOK
<1>2. IInv /\ PlanInv => MissedSlotsRecorded
  <2> SUFFICES ASSUME IInv, PlanInv, NEW s \in Scopes, NEW n \in DOMAIN events[s],
                      events[s][n].i = Interval
               PROVE  SkipsRecorded(s, n)
    BY DEF MissedSlotsRecorded
  <2> DEFINE m == PlannedBefore(s, n)
             planned == {k \in 1 .. n - 1 : events[s][k].a # None}
             e == events[s][n]
             prev == events[s][n - 1]
  <2>1. SUFFICES ASSUME e.a # None, m # 0, \A k \in m .. n - 1 : events[s][k].e = None
                 PROVE  SlotsIn(events[s][m].a + 1, e.a - 1)
                          = IF e.g = <<>> THEN {} ELSE SlotsIn(e.g[1], e.g[2])
    BY DEF SkipsRecorded
  <2>2. PICK S : events[s] \in Seq(S)
    BY DEF IInv, EventsSeq
  <2>3. n \in Nat /\ DOMAIN events[s] = 1 .. Len(events[s]) /\ Len(events[s]) \in Nat
    BY <2>2
  <2>4. planned # {}
    BY <2>1 DEF PlannedBefore
  <2>5. m \in planned /\ \A k \in planned : k <= m
    <3>1. n - 1 \in Nat /\ planned \subseteq 1 .. n - 1
      BY <2>3
    <3>2. \E x \in planned : \A y \in planned : y <= x
      BY <2>4, <3>1, GreatestIndex
    <3> QED BY <2>4, <3>2 DEF PlannedBefore
  <2>6. n - 1 \in 1 .. n - 1 /\ n - 1 \in m .. n - 1 /\ n - 1 \in DOMAIN events[s]
    BY <2>3, <2>5
  <2>7. prev.a # None /\ prev.e = None /\ PlannedSlot(prev.a)
    BY <2>1, <2>6 DEF PlanInv, PlanOK
  <2>8. m = n - 1
    BY <2>3, <2>5, <2>6, <2>7
  <2>9. e.g = Between(prev, e) /\ PlannedSlot(e.a)
    BY <2>1, <2>6, <2>7 DEF PlanInv, PlanOK
  <2>10. SlotsIn(events[s][m].a + 1, e.a - 1) = SlotsIn(prev.a + Interval, e.a - Interval)
    BY <2>7, <2>8, <2>9, SlotsBetween
  <2> DEFINE first == prev.a + Interval
             last  == e.a - Interval
  <2>11. first \in Int /\ last \in Int
    BY <2>7, <2>9, PipelineAssumption DEF PlannedSlot
  <2> HIDE DEF first, last
  <2>12. CASE first <= last
    <3>1. e.g = <<first, last>>
      BY <2>9, <2>12 DEF Between, first, last
    <3>2. e.g # <<>> /\ e.g[1] = first /\ e.g[2] = last
      BY <3>1
    <3> QED BY <2>10, <3>2 DEF first, last
  <2>13. CASE ~(first <= last)
    <3>1. e.g = <<>>
      BY <2>9, <2>13 DEF Between, first, last
    <3>2. SlotsIn(first, last) = {}
      BY <2>11, <2>13 DEF SlotsIn
    <3> QED BY <2>10, <3>1, <3>2 DEF first, last
  <2> QED BY <2>12, <2>13
<1>3. LogInv /\ PlanInv /\ [Next]_vars => PlanInv'
  BY PlanInvNext
<1> QED BY <1>1, <1>2, <1>3, LogInvariance, Invariance, PTL DEF Spec
=============================================================================
