----------------------------- MODULE TopHistory -----------------------------
(***************************************************************************)
(* The collection pipeline of Top rankings: the aligned poller starts one  *)
(* capture per scope, a capture fetches a ranking and puts the observation *)
(* into the outbox on disk, and a single consumer drains the outbox into   *)
(* the event collection.  The process may crash between any two steps, the *)
(* machine may lose directory entries that were not fsynced, MongoDB may   *)
(* refuse a call or lose its reply.                                        *)
(*                                                                         *)
(* An observation stands for its file.  The outbox orders files by time    *)
(* (then by a hash, modelled as any order).  The bytes of the outbox and   *)
(* the 500 iterations after which a drain yields to the next are left out: *)
(* MaxFiles stands for both limits.                                        *)
(***************************************************************************)
EXTENDS TopHistoryStore, FiniteSets

CONSTANTS
  Scopes,          \* the rankings sampled by this poller
  Rankings,        \* valid answers of the game
  Reasons,         \* reasons a sample may fail for
  Interval,        \* EVENT_TOP_POLL_INTERVAL_MS
  PostEndInterval, \* EVENT_POST_END_POLL_INTERVAL_MS
  EndAt,           \* the boundary of every scope
  Bootstraps,      \* TRUE for monthly scopes: bootstrapCheck at start-up
  MaxFiles,        \* capacity of the outbox
  MaxTime,         \* bound: the clock stops here
  MaxCrashes,      \* bound: crashes, of the process or of the machine
  MaxDbFaults,     \* bound: failed calls to MongoDB
  MaxDiskFaults    \* bound: failed directory fsyncs and unlinks

ASSUME PipelineAssumption ==
  /\ Reasons \subseteq GapReasons
  /\ Interval \in Nat \ {0} /\ PostEndInterval \in Nat \ {0}
  /\ EndAt \in Nat \ {0} /\ Bootstraps \in BOOLEAN /\ MaxFiles \in Nat \ {0}
  /\ MaxTime \in Nat /\ MaxCrashes \in Nat /\ MaxDbFaults \in Nat /\ MaxDiskFaults \in Nat
  /\ \A r \in Rankings : r \in Seq(Nat \X Nat) /\ ValidRanking(r)

VARIABLES
  now,           \* Date.now()
  booting,       \* scopes whose start-up check is still to come
  polling,       \* the pollers have been started
  started,       \* TopHistoryService.started: its drain timer runs
  nextAt,        \* AlignedPoller.nextAt
  cap,           \* per scope, the capture in progress
  firstCaptured, \* scopes successfully sampled by this process
  postEndLast,   \* postEndLastFetch, None when never
  disk,          \* observation files in the outbox directory
  synced,        \* those whose directory entry has been fsynced
  unlinked,      \* acknowledged files whose removal is not yet durable
  files,         \* TopOutbox.files: the files this process knows of
  drain,         \* the consumer: its step, its observation, its local state
  states,        \* TopHistoryService.states, NoState for scopes not cached
  events,        \* per scope, the committed documents in order of insertion
  accepted,      \* history: observations whose enqueue was acknowledged
  faults         \* counters of crashes, database and disk faults

procVars == <<booting, polling, started, nextAt, cap, firstCaptured, postEndLast>>
boxVars  == <<disk, synced, unlinked, files>>
vars == <<now, procVars, boxVars, drain, states, events, accepted, faults>>

NoState == [EmptyTopState EXCEPT !.lastAt = None]   \* no entry in the map
Idle == [pc |-> "idle"]
NoDrain == [pc |-> "idle"]

CommittedIds(s) == {events[s][n].id : n \in DOMAIN events[s]}
\* Faulty variant: no look-up by _id before the insert.
FaultyNeverCommitted(obs) == FALSE

IsCommitted(obs) == obs.id \in CommittedIds(obs.scope)

Init ==
  /\ now = 1 /\ booting = Scopes /\ polling = FALSE /\ started = FALSE /\ nextAt = 0
  /\ cap = [s \in Scopes |-> Idle]
  /\ firstCaptured = {} /\ postEndLast = [s \in Scopes |-> None]
  /\ disk = {} /\ synced = {} /\ unlinked = {} /\ files = {}
  /\ drain = NoDrain
  /\ states = [s \in Scopes |-> NoState]
  /\ events = [s \in Scopes |-> <<>>]
  /\ accepted = {}
  /\ faults = [crash |-> 0, db |-> 0, disk |-> 0]

-----------------------------------------------------------------------------
(* Time, start-up and the poller *)

Clock ==
  /\ now < MaxTime
  /\ now' = now + 1
  /\ UNCHANGED <<procVars, boxVars, drain, states, events, accepted, faults>>

AllIdle == \A s \in Scopes : cap[s] = Idle

\* bootstrapCheck of one scope: without stored history, sample it at once and
\* without a slot.  Only the store is asked, not the outbox.
BootScope(s) ==
  /\ s \in booting
  /\ booting' = booting \ {s}
  /\ cap' = IF Bootstraps /\ now <= EndAt /\ events[s] = <<>>
            THEN [cap EXCEPT ![s] = [pc |-> "start", slot |-> None]]
            ELSE cap
  /\ UNCHANGED <<now, polling, started, nextAt, firstCaptured, postEndLast>>
  /\ UNCHANGED <<boxVars, drain, states, events, accepted, faults>>

\* Faulty variant: the slot of now instead of the next one.
FaultyCurrentSlot(time) == (time \div Interval) * Interval

\* AlignedPoller.nextSlot: the first slot after `time'.
NextSlot(time) == (time \div Interval + 1) * Interval

\* The bootstraps have been awaited; the pollers are registered.
StartPolling ==
  /\ ~polling /\ booting = {} /\ AllIdle
  /\ polling' = TRUE /\ started' = TRUE
  /\ nextAt' = NextSlot(now)
  /\ UNCHANGED <<now, booting, cap, firstCaptured, postEndLast>>
  /\ UNCHANGED <<boxVars, drain, states, events, accepted, faults>>

\* refreshPostEndIfNeeded
PostEndDue(s) ==
  /\ now > EndAt
  /\ postEndLast[s] # None => now - postEndLast[s] >= PostEndInterval

\* A tick takes the current slot; if the previous callback still runs, the
\* slot is dropped for good.  Otherwise refreshAll starts every scope.
Tick ==
  /\ polling /\ now >= nextAt
  /\ nextAt' = NextSlot(now)
  /\ IF AllIdle
     THEN /\ cap' = [s \in Scopes |->
                       IF now <= EndAt THEN [pc |-> "start", slot |-> NextSlot(now) - Interval]
                       ELSE IF PostEndDue(s) THEN [pc |-> "start", slot |-> None]
                       ELSE Idle]
          /\ postEndLast' = [s \in Scopes |->
                               IF PostEndDue(s) THEN now ELSE postEndLast[s]]
     ELSE UNCHANGED <<cap, postEndLast>>
  /\ UNCHANGED <<now, booting, polling, started, firstCaptured>>
  /\ UNCHANGED <<boxVars, drain, states, events, accepted, faults>>

-----------------------------------------------------------------------------
(* capture *)

\* refreshV2 reads the clock for the interval, then capture asks the outbox
\* for room; without room nothing is sampled.
CaptureBegin(s) ==
  /\ cap[s].pc = "start"
  /\ cap' = [cap EXCEPT ![s] =
               IF Cardinality(files) < MaxFiles
               THEN [pc |-> "fetch", slot |-> cap[s].slot, begin |-> now,
                     intervalMs |-> IF now >= EndAt THEN PostEndInterval ELSE Interval]
               ELSE Idle]
  /\ started' = TRUE
  /\ UNCHANGED <<now, booting, polling, nextAt, firstCaptured, postEndLast>>
  /\ UNCHANGED <<boxVars, drain, states, events, accepted, faults>>

Results ==
  [reason : {NoReason}, ranking : Rankings] \cup
  [reason : Reasons, ranking : {<<>>}]

\* The slot identifies a planned observation, a fresh uuid any other.
ObservationId(s, slot, at) == IF slot # None THEN <<s, slot>> ELSE <<s, None, at>>

\* The fetch ends, with a ranking or with a reason; it takes some time.
FetchEnd(s) ==
  /\ cap[s].pc = "fetch" /\ now > cap[s].begin
  /\ \E res \in Results :
       cap' = [cap EXCEPT ![s] =
         [pc |-> "enqueue",
          obs |-> [id |-> ObservationId(s, cap[s].slot, now), scope |-> s, at |-> now,
                   scheduledAt |-> cap[s].slot, intervalMs |-> cap[s].intervalMs,
                   effectiveAt |-> IF now >= EndAt THEN EndAt ELSE None,
                   reason |-> res.reason, ranking |-> res.ranking,
                   forceFull |-> res.reason = NoReason /\ s \notin firstCaptured]]]
  /\ UNCHANGED <<now, booting, polling, started, nextAt, firstCaptured, postEndLast>>
  /\ UNCHANGED <<boxVars, drain, states, events, accepted, faults>>

\* TopOutbox.enqueue, up to the rename; enqueues are serialised.  A full
\* outbox makes it throw: the observation is gone and its slot is missed.
EnqueueRename(s) ==
  /\ cap[s].pc = "enqueue"
  /\ \A u \in Scopes : cap[u].pc # "sync"
  /\ IF Cardinality(files) < MaxFiles
     THEN /\ disk' = disk \cup {cap[s].obs}
          /\ cap' = [cap EXCEPT ![s].pc = "sync"]
     ELSE /\ cap' = [cap EXCEPT ![s] = Idle]
          /\ UNCHANGED disk
  /\ UNCHANGED <<synced, unlinked, files>>
  /\ UNCHANGED <<now, booting, polling, started, nextAt, firstCaptured, postEndLast>>
  /\ UNCHANGED <<drain, states, events, accepted, faults>>

\* Faulty variant: the enqueue is acknowledged without the directory fsync.
FaultyEnqueueNoSync(s) ==
  /\ cap[s].pc = "sync"
  /\ files' = files \cup {cap[s].obs}
  /\ accepted' = accepted \cup {cap[s].obs}
  /\ cap' = [cap EXCEPT ![s] = Idle]
  /\ UNCHANGED <<now, booting, polling, started, nextAt, firstCaptured, postEndLast>>
  /\ UNCHANGED <<disk, synced, unlinked, drain, states, events, faults>>

\* The directory is fsynced and the file registered: the capture is done.
EnqueueSync(s) ==
  /\ cap[s].pc = "sync"
  /\ synced' = disk /\ unlinked' = {}
  /\ files' = files \cup {cap[s].obs}
  /\ accepted' = accepted \cup {cap[s].obs}
  /\ firstCaptured' = IF cap[s].obs.reason = NoReason THEN firstCaptured \cup {s}
                                                      ELSE firstCaptured
  /\ cap' = [cap EXCEPT ![s] = Idle]
  /\ UNCHANGED <<now, booting, polling, started, nextAt, postEndLast, disk>>
  /\ UNCHANGED <<drain, states, events, faults>>

\* The directory fsync fails: enqueue throws, but the file has been renamed.
EnqueueSyncFails(s) ==
  /\ cap[s].pc = "sync" /\ faults.disk < MaxDiskFaults
  /\ faults' = [faults EXCEPT !.disk = @ + 1]
  /\ cap' = [cap EXCEPT ![s] = Idle]
  /\ UNCHANGED <<now, booting, polling, started, nextAt, firstCaptured, postEndLast>>
  /\ UNCHANGED <<boxVars, drain, states, events, accepted>>

-----------------------------------------------------------------------------
(* drain *)

\* Faulty variant: files are taken in no particular order.
FaultyAnyFile(obs) == TRUE

Earliest(obs) == \A other \in files : obs.at <= other.at

\* The timer, or a capture that ended, starts the only drain; or the loop of
\* the running drain goes on with the first file in the order of time.
DrainTake ==
  /\ started /\ drain.pc = "idle" /\ files # {}
  /\ \E obs \in files : Earliest(obs) /\ drain' = [pc |-> "find", obs |-> obs]
  /\ UNCHANGED <<now, procVars, boxVars, states, events, accepted, faults>>

\* Faulty variant: the cached state survives a lost reply.
FaultyFoundKeepsState ==
  /\ drain.pc = "find" /\ IsCommitted(drain.obs)
  /\ drain' = [pc |-> "ack", obs |-> drain.obs]
  /\ UNCHANGED <<now, procVars, boxVars, states, events, accepted, faults>>

\* findOne by _id: an event that is already there is only acknowledged, and
\* the cached state is dropped because it may lack that event.
DrainFound ==
  /\ drain.pc = "find" /\ IsCommitted(drain.obs)
  /\ drain' = [pc |-> "ack", obs |-> drain.obs]
  /\ states' = [states EXCEPT ![drain.obs.scope] = NoState]
  /\ UNCHANGED <<now, procVars, boxVars, events, accepted, faults>>

\* The state the event is encoded against: the cached one, else the stored.
\* (The players' profiles, which are written before the insert, are left out.)
BaseState(s) == IF states[s] = NoState THEN LoadState(events[s]) ELSE states[s]

DrainEncode ==
  LET s == drain.obs.scope
  IN  /\ drain.pc = "find" /\ ~IsCommitted(drain.obs)
      /\ drain' = IF Encodable(drain.obs, BaseState(s))
                  THEN [pc |-> "insert", obs |-> drain.obs, state |-> BaseState(s),
                        event |-> Encode(drain.obs, BaseState(s))]
                  ELSE NoDrain
      /\ UNCHANGED <<now, procVars, boxVars, states, events, accepted, faults>>

\* insertOne is acknowledged; only then does the cached state advance.
DrainInsert ==
  LET s == drain.obs.scope
  IN  /\ drain.pc = "insert"
      /\ events' = [events EXCEPT ![s] = Append(@, drain.event)]
      /\ states' = [states EXCEPT ![s] = Apply(drain.state, drain.event)]
      /\ drain' = [pc |-> "ack", obs |-> drain.obs]
      /\ UNCHANGED <<now, procVars, boxVars, accepted, faults>>

\* A cached state is evicted when the service follows more than 32 scopes.
EvictState(s) ==
  /\ states[s] # NoState
  /\ drain.pc = "ack" /\ drain.obs.scope # s
  /\ states' = [states EXCEPT ![s] = NoState]
  /\ UNCHANGED <<now, procVars, boxVars, drain, events, accepted, faults>>

\* acknowledge: unlink the file and forget it.
DrainAck ==
  /\ drain.pc = "ack"
  /\ disk' = disk \ {drain.obs} /\ synced' = synced \ {drain.obs}
  /\ unlinked' = unlinked \cup ({drain.obs} \cap synced)
  /\ files' = files \ {drain.obs}
  /\ drain' = NoDrain
  /\ UNCHANGED <<now, procVars, states, events, accepted, faults>>

\* Faulty variant: the file is acknowledged although the insert failed.
FaultyAckUncommitted ==
  /\ drain.pc \in {"find", "insert"} /\ faults.db < MaxDbFaults
  /\ faults' = [faults EXCEPT !.db = @ + 1]
  /\ drain' = [pc |-> "ack", obs |-> drain.obs]
  /\ UNCHANGED <<now, procVars, boxVars, states, events, accepted>>

\* Faulty variant: the draining flag is not reset after a failure.
FaultyStaysDraining ==
  /\ drain.pc \in {"find", "insert"} /\ faults.db < MaxDbFaults
  /\ faults' = [faults EXCEPT !.db = @ + 1]
  /\ drain' = [pc |-> "failed"]
  /\ UNCHANGED <<now, procVars, boxVars, states, events, accepted>>

\* A call to MongoDB fails before it takes effect: the queue is retained.
DbFault ==
  /\ drain.pc \in {"find", "insert"} /\ faults.db < MaxDbFaults
  /\ faults' = [faults EXCEPT !.db = @ + 1]
  /\ drain' = NoDrain
  /\ UNCHANGED <<now, procVars, boxVars, states, events, accepted>>

\* insertOne takes effect and its reply is lost: the state does not advance.
InsertReplyLost ==
  /\ drain.pc = "insert" /\ faults.db < MaxDbFaults
  /\ faults' = [faults EXCEPT !.db = @ + 1]
  /\ events' = [events EXCEPT ![drain.obs.scope] = Append(@, drain.event)]
  /\ drain' = NoDrain
  /\ UNCHANGED <<now, procVars, boxVars, states, accepted>>

\* The unlink fails: the file stays and will be found committed.
AckFails ==
  /\ drain.pc = "ack" /\ faults.disk < MaxDiskFaults
  /\ faults' = [faults EXCEPT !.disk = @ + 1]
  /\ drain' = NoDrain
  /\ UNCHANGED <<now, procVars, boxVars, states, events, accepted>>

-----------------------------------------------------------------------------
(* Crashes; the process is restarted and reads the outbox directory. *)

RestartWith(survivors) ==
  /\ faults.crash < MaxCrashes
  /\ faults' = [faults EXCEPT !.crash = @ + 1]
  /\ disk' = survivors /\ files' = survivors
  /\ booting' = Scopes /\ polling' = FALSE /\ started' = FALSE /\ nextAt' = 0
  /\ cap' = [s \in Scopes |-> Idle]
  /\ firstCaptured' = {} /\ postEndLast' = [s \in Scopes |-> None]
  /\ drain' = NoDrain
  /\ states' = [s \in Scopes |-> NoState]
  /\ UNCHANGED <<now, events, accepted>>

ProcessCrash == RestartWith(disk) /\ UNCHANGED <<synced, unlinked>>

\* Directory changes since the last fsync may each be lost.
MachineCrash ==
  \E kept \in SUBSET (disk \ synced), back \in SUBSET unlinked :
    /\ RestartWith(synced \cup kept \cup back)
    /\ synced' = synced \cup kept \cup back /\ unlinked' = {}

-----------------------------------------------------------------------------

CaptureNext(s) ==
  CaptureBegin(s) \/ FetchEnd(s) \/ EnqueueRename(s) \/ EnqueueSync(s) \/ EnqueueSyncFails(s)

DrainProgress == DrainTake \/ DrainFound \/ DrainEncode \/ DrainInsert \/ DrainAck

DrainNext == DrainProgress \/ DbFault \/ InsertReplyLost \/ AckFails

Next ==
  \/ Clock \/ StartPolling \/ Tick
  \/ \E s \in Scopes : BootScope(s) \/ CaptureNext(s) \/ EvictState(s)
  \/ DrainNext
  \/ ProcessCrash \/ MachineCrash

Spec == Init /\ [][Next]_vars

\* The drain timer fires for ever, and each step of a drain ends; an enqueue
\* that has begun ends too, and so does the start-up (index.ts awaits it with
\* allSettled).  Nothing is assumed of the faults, the clock or the game.
FairSpec ==
  /\ Spec
  /\ WF_vars(DrainProgress) /\ WF_vars(StartPolling)
  /\ \A s \in Scopes : /\ WF_vars(BootScope(s)) /\ WF_vars(CaptureBegin(s))
                       /\ WF_vars(EnqueueRename(s)) /\ WF_vars(EnqueueSync(s))

-----------------------------------------------------------------------------
(* Properties *)

CapSteps == {"idle", "start", "fetch", "enqueue", "sync"}
DrainSteps == {"idle", "find", "insert", "ack"}

\* The files known, the files on disk and the durable ones nest, every file is
\* an observation of a scope, and every step variable has a legal value.
TypeOK ==
  /\ now \in Nat /\ nextAt \in Nat
  /\ booting \subseteq Scopes /\ firstCaptured \subseteq Scopes
  /\ polling \in BOOLEAN /\ started \in BOOLEAN
  /\ \A s \in Scopes : cap[s].pc \in CapSteps
  /\ drain.pc \in DrainSteps
  /\ \A obs \in disk : obs.scope \in Scopes /\ obs.at \in Nat
  /\ files \subseteq disk /\ synced \subseteq disk

\* Committed(s) decoded: the observations a reader of the store gets.
Decoded(s) ==
  LET states_ == StatesOf(events[s])
  IN  [n \in DOMAIN events[s] |->
         [id |-> events[s][n].id, scope |-> s, at |-> events[s][n].t,
          reason |-> events[s][n].r,
          ranking |-> IF events[s][n].k = "GAP" THEN <<>> ELSE states_[n].ranking]]

Content(obs) == [id |-> obs.id, scope |-> obs.scope, at |-> obs.at,
                 reason |-> obs.reason, ranking |-> obs.ranking]

\* What enqueue acknowledged is never lost, whatever crashes: until its event
\* is committed its file is on disk, durably, and known to the drain.
AcceptedNotLost ==
  \A obs \in accepted : IsCommitted(obs) \/ obs \in files \cap synced

\* A planned slot identifies one observation: no two observations, of this
\* process or an earlier one, share an _id (else the second would be dropped
\* as already committed).
SlotUsedOnce ==
  \A o1, o2 \in accepted : o1.id = o2.id => o1 = o2

\* Every observation is committed at most once, across lost replies, crashes
\* and replayed files (drain looks each one up by _id before it inserts).
CommittedOnce ==
  \A s \in Scopes : \A m, n \in DOMAIN events[s] :
    m # n => events[s][m].id # events[s][n].id

\* The cached state of a scope is what its stored events decode to, but for
\* the event of a lost reply, which the drain will find before it encodes
\* anything else of that scope.
CachedStateCurrent ==
  \A s \in Scopes :
    states[s] # NoState =>
      \/ states[s] = LoadState(events[s])
      \/ \E obs \in files :
            /\ obs.scope = s /\ IsCommitted(obs)
            /\ \A other \in files : other.scope = s => obs.at <= other.at

\* No file of the outbox is older than what its scope has committed, so the
\* encoder never refuses the head of the queue (which would hold up the queue
\* of every scope for ever).
QueueNeverOutOfOrder ==
  \A obs \in files :
    IsCommitted(obs) \/ \A n \in DOMAIN events[obs.scope] : events[obs.scope][n].t <= obs.at

\* Every planned slot skipped between two planned samples of a scope is named
\* as missing by the second, and no sampled slot is: through busy pollers, full
\* outboxes, crashes and lost replies.  A sample taken for the boundary ends
\* the plan.
PlannedBefore(s, n) ==
  LET planned == {m \in 1 .. n - 1 : events[s][m].a # None}
  IN  IF planned = {} THEN 0 ELSE CHOOSE m \in planned : \A k \in planned : k <= m

SlotsIn(first, last) == {x \in 0 .. MaxTime : x % Interval = 0 /\ first <= x /\ x <= last}

SkipsRecorded(s, n) ==
  LET m      == PlannedBefore(s, n)
      sample == events[s][n]
  IN  sample.a # None /\ m # 0 /\ (\A k \in m .. n - 1 : events[s][k].e = None) =>
        SlotsIn(events[s][m].a + 1, sample.a - 1)
          = IF sample.g = <<>> THEN {} ELSE SlotsIn(sample.g[1], sample.g[2])

\* For samples started before the boundary.
MissedSlotsRecorded ==
  \A s \in Scopes : \A n \in DOMAIN events[s] :
    events[s][n].i = Interval => SkipsRecorded(s, n)

\* For every sample, as the design document promises.
AllMissedSlotsRecorded ==
  \A s \in Scopes : \A n \in DOMAIN events[s] : SkipsRecorded(s, n)

\* An accepted observation is eventually committed.
AcceptedEventuallyCommitted ==
  \A s \in Scopes : []<>(\A obs \in files : obs.scope # s \/ IsCommitted(obs))

\* The pipeline implements the log of observations: a file counts as pending
\* from its acknowledgement, or from the restart that finds it, until its
\* event is stored; the log is what the stored events decode to.
Waiting(observations) == {Content(obs) : obs \in {f \in observations : ~IsCommitted(f)}}

Abstract == INSTANCE ObservationLog
              WITH pending <- Waiting(files), promised <- Waiting(accepted),
                   log <- [s \in Scopes |-> Decoded(s)]

ImplementsLog == Abstract!LogSpec
=============================================================================
