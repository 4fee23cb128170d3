----------------------------- MODULE RankingInfo ----------------------------
(***************************************************************************)
(* services/infoServiceBase.ts with eventInfoService.ts and                *)
(* monthlyRankingInfoService.ts: the master list of every server is polled *)
(* and merged into a cache, and each merged document is written to MongoDB *)
(* whole.  One event is followed.  A document holds for each server what   *)
(* that server's list said last, counted by its announcements; 0 is null.  *)
(***************************************************************************)
EXTENDS Naturals, FiniteSets

CONSTANTS
  Servers,
  Readers,        \* requests that read the information
  MaxAnnounced,   \* bound: announcements of a server
  MaxFaults,      \* bound: writes that fail
  MaxRestarts     \* bound: restarts of the process

VARIABLES
  announced,   \* the game: what the list of each server says
  stored,      \* MongoDB: the document
  cache,       \* infoCache: the document
  loaded,      \* cacheLoaded
  find,        \* for each caller of ensureCacheLoaded: no query, asked, or its answer
  refreshing,  \* refreshInFlight: a refreshAll is inside its servers
  due,         \* servers whose nextPollAt has passed and that have no active event
  server,      \* where refreshServer stands for each server, with the document it writes
  done,        \* history: what each server's last complete refresh brought
  overlapped,  \* history: an answer was taken in after another load was over
  faults, restarts

vars == <<announced, stored, cache, loaded, find, refreshing, due, server, done, overlapped,
          faults, restarts>>
bounds == <<faults, restarts>>

Loaders == Readers \union {"refreshAll"}
Nothing == [s \in Servers |-> 0]
NoQuery == [pc |-> "none", answer |-> Nothing]
Resting == [pc |-> "idle", document |-> Nothing, value |-> 0]

\* The process starts with nothing in memory.
Started ==
  /\ cache' = Nothing /\ loaded' = FALSE /\ find' = [c \in Loaders |-> NoQuery]
  /\ refreshing' = FALSE /\ due' = Servers /\ server' = [s \in Servers |-> Resting]

Init ==
  /\ announced = Nothing /\ stored = Nothing /\ done = Nothing /\ overlapped = FALSE
  /\ cache = Nothing /\ loaded = FALSE /\ find = [c \in Loaders |-> NoQuery]
  /\ refreshing = FALSE /\ due = Servers /\ server = [s \in Servers |-> Resting]
  /\ faults = 0 /\ restarts = 0

-----------------------------------------------------------------------------
\* The game announces the event on a server, or changes what it says of it.
Announce(s) ==
  /\ announced[s] < MaxAnnounced /\ announced' = [announced EXCEPT ![s] = @ + 1]
  /\ UNCHANGED <<stored, cache, loaded, find, refreshing, due, server, done, overlapped, bounds>>

\* ensureCacheLoaded on a first access: everyone who comes before it is loaded asks.
Ask(c) ==
  /\ ~loaded /\ find[c].pc = "none" /\ find' = [find EXCEPT ![c].pc = "asked"]
  /\ UNCHANGED <<announced, stored, cache, loaded, refreshing, due, server, done, overlapped, bounds>>

AnswerFind(c) ==
  /\ find[c].pc = "asked" /\ find' = [find EXCEPT ![c] = [pc |-> "answer", answer |-> stored]]
  /\ UNCHANGED <<announced, stored, cache, loaded, refreshing, due, server, done, overlapped, bounds>>

\* The answer is taken in, over what the cache holds by then.
Hydrate(c) ==
  /\ find[c].pc = "answer" /\ loaded' = TRUE
  /\ cache' = IF find[c].answer = Nothing THEN cache ELSE find[c].answer
  /\ overlapped' = (overlapped \/ loaded)
  /\ find' = [find EXCEPT ![c] = NoQuery]
  /\ UNCHANGED <<announced, stored, refreshing, due, server, done, bounds>>

\* refreshAll: one at a time, every server that is due, in parallel.
RefreshAll ==
  /\ ~refreshing /\ loaded /\ find["refreshAll"].pc = "none" /\ due # {} /\ refreshing' = TRUE
  /\ server' = [s \in Servers |-> IF s \in due THEN [Resting EXCEPT !.pc = "fetch"] ELSE Resting]
  /\ UNCHANGED <<announced, stored, cache, loaded, find, due, done, overlapped, bounds>>

\* Faulty variant: what one server tells replaces what the others told.
FaultyMergeDetail(existing, s, value) == [Nothing EXCEPT ![s] = value]

\* mergeDetail and mergeNullableArray: the update fills in what it knows.
MergeDetail(existing, s, value) == [existing EXCEPT ![s] = value]

\* mergeAndPersist: the cache gets the merged document and the write of it is issued.
Merge(s) ==
  LET merged == MergeDetail(cache, s, announced[s])
  IN  /\ server[s].pc = "fetch" /\ announced[s] > 0 /\ cache' = merged
      /\ server' = [server EXCEPT ![s] = [pc |-> "write", document |-> merged, value |-> announced[s]]]
      /\ UNCHANGED <<announced, stored, loaded, find, refreshing, due, done, overlapped, bounds>>

\* finally: the next poll of this server is an interval away; the last one ends refreshAll.
Ended(s) ==
  /\ server' = [server EXCEPT ![s] = Resting] /\ due' = due \ {s}
  /\ refreshing' = (\E t \in Servers \ {s} : server[t].pc # "idle")

\* The writes of two servers use two connections: MongoDB may apply them in any order.
Persist(s) ==
  /\ server[s].pc = "write" /\ stored' = server[s].document
  /\ done' = [done EXCEPT ![s] = server[s].value] /\ Ended(s)
  /\ UNCHANGED <<announced, cache, loaded, find, overlapped, bounds>>

PersistFails(s) ==
  /\ server[s].pc = "write" /\ faults < MaxFaults /\ faults' = faults + 1 /\ Ended(s)
  /\ stored' \in {stored, server[s].document}
  /\ UNCHANGED <<announced, cache, loaded, find, done, overlapped, restarts>>

\* The fetch fails, or the list does not have the event.
FetchedNothing(s) ==
  /\ server[s].pc = "fetch" /\ Ended(s)
  /\ UNCHANGED <<announced, stored, cache, loaded, find, done, overlapped, bounds>>

\* The interval passes and the server has no active event (shouldPollServer).
PollDue(s) ==
  /\ s \notin due /\ due' = due \union {s}
  /\ UNCHANGED <<announced, stored, cache, loaded, find, refreshing, server, done, overlapped, bounds>>

\* What was learnt and not stored is forgotten; done starts again from what is stored.
Restart ==
  /\ restarts < MaxRestarts /\ restarts' = restarts + 1 /\ Started
  /\ done' = [s \in Servers |-> IF stored[s] < done[s] THEN stored[s] ELSE done[s]]
  /\ overlapped' = FALSE
  /\ UNCHANGED <<announced, stored, faults>>

Next ==
  \/ RefreshAll \/ Restart
  \/ \E c \in Loaders : Ask(c) \/ AnswerFind(c) \/ Hydrate(c)
  \/ \E s \in Servers :
       Announce(s) \/ Merge(s) \/ Persist(s) \/ PersistFails(s) \/ FetchedNothing(s) \/ PollDue(s)

Spec == Init /\ [][Next]_vars

-----------------------------------------------------------------------------
\* What a complete refresh of one server learnt stays in memory, through the refreshes of the
\* other servers, failed writes and restarts (a first load that overlaps another is excepted).
CacheKeepsKnown == loaded /\ ~overlapped => \A s \in Servers : cache[s] >= done[s]
=============================================================================
