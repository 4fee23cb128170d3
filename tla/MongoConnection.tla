-------------------------- MODULE MongoConnection ---------------------------
(***************************************************************************)
(* storage/dataBaseAdapter/mongodb.ts: whether the database is usable, the *)
(* background recovery and the callers that wait for it in ready().        *)
(* Heartbeats are the driver's.  What runs between two awaits is one step: *)
(* that a recovery ends and that its promise is forgotten is such a step.  *)
(***************************************************************************)
EXTENDS Naturals

CONSTANTS
  Waiters,      \* tasks that await ready()
  MaxOutages    \* bound: times the server becomes unreachable

VARIABLES
  reachable,   \* the server answers
  monitored,   \* the client is connected: its monitor sends heartbeats
  connected,   \* this.connected
  recovery,    \* recoveryPromise: "none" or the await waitForReady is at
  waiting,     \* callers inside ready()
  outages

vars == <<reachable, monitored, connected, recovery, waiting, outages>>

\* The constructor: a client that has not connected, and the recovery started at once.
Init ==
  /\ reachable \in BOOLEAN /\ monitored = FALSE /\ connected = FALSE
  /\ recovery = "probe" /\ waiting = {} /\ outages = 0

-----------------------------------------------------------------------------
\* Faulty variant: nobody starts a recovery.
FaultyStartRecovery(usable) == recovery' = recovery

\* startRecovery, called when connected has the value usable.
StartRecovery(usable) ==
  recovery' = IF usable \/ recovery # "none" THEN recovery ELSE "probe"

HeartbeatSucceeded ==
  /\ monitored /\ reachable /\ ~connected /\ connected' = TRUE
  /\ UNCHANGED <<reachable, monitored, recovery, waiting, outages>>

HeartbeatFailed ==
  /\ monitored /\ ~reachable /\ connected /\ connected' = FALSE /\ StartRecovery(FALSE)
  /\ UNCHANGED <<reachable, monitored, waiting, outages>>

\* connect: a probe of its own first, then the client, then a ping; the client's monitor starts
\* with it.
Probe ==
  /\ recovery = "probe" /\ recovery' = IF reachable THEN "connect" ELSE "sleep"
  /\ UNCHANGED <<reachable, monitored, connected, waiting, outages>>

Connect ==
  /\ recovery = "connect" /\ monitored' = (monitored \/ reachable)
  /\ recovery' = IF reachable THEN "ping" ELSE "sleep"
  /\ UNCHANGED <<reachable, connected, waiting, outages>>

\* Faulty variant: the promise of an ended recovery is kept.
FaultyRecovered == "done"

\* finally: the promise is forgotten with the recovery.
Recovered == "none"

Ping ==
  /\ recovery = "ping" /\ connected' = (connected \/ reachable)
  /\ recovery' = IF reachable THEN Recovered ELSE "sleep"
  /\ UNCHANGED <<reachable, monitored, waiting, outages>>

\* "Topology is closed": the client is replaced by one without listeners and monitor.
InitClient ==
  /\ recovery \in {"connect", "ping"} /\ ~reachable
  /\ monitored' = FALSE /\ connected' = FALSE /\ recovery' = "sleep"
  /\ UNCHANGED <<reachable, waiting, outages>>

\* The retry interval passes.
Retry ==
  /\ recovery = "sleep" /\ recovery' = "probe"
  /\ UNCHANGED <<reachable, monitored, connected, waiting, outages>>

-----------------------------------------------------------------------------
Ready(w) ==
  /\ w \notin waiting /\ ~connected /\ waiting' = waiting \union {w} /\ StartRecovery(connected)
  /\ UNCHANGED <<reachable, monitored, connected, outages>>

\* ready goes on when the recovery it awaits is over: it returns or looks for another one.
Resume(w) ==
  /\ w \in waiting /\ recovery \in {"none", "done"}
  /\ IF connected THEN waiting' = waiting \ {w} /\ UNCHANGED recovery
     ELSE StartRecovery(connected) /\ UNCHANGED waiting
  /\ UNCHANGED <<reachable, monitored, connected, outages>>

Outage ==
  /\ reachable /\ outages < MaxOutages /\ outages' = outages + 1 /\ reachable' = FALSE
  /\ UNCHANGED <<monitored, connected, recovery, waiting>>

Return ==
  /\ ~reachable /\ reachable' = TRUE
  /\ UNCHANGED <<monitored, connected, recovery, waiting, outages>>

Recovery == Probe \/ Connect \/ Ping \/ Retry
Next ==
  \/ HeartbeatSucceeded \/ HeartbeatFailed \/ Recovery \/ InitClient \/ Outage \/ Return
  \/ \E w \in Waiters : Ready(w) \/ Resume(w)

\* Timers fire, the server comes back and the event loop runs what is due.
Fairness ==
  /\ WF_vars(Recovery) /\ WF_vars(Return)
  /\ WF_vars(HeartbeatFailed) /\ \A w \in Waiters : WF_vars(Resume(w))

Spec == Init /\ [][Next]_vars /\ Fairness

-----------------------------------------------------------------------------
\* A connection that is down is being recovered: heartbeats may be lost while a recovery ends, and
\* nobody needs to ask for it.
DownIsRecovering == ~connected => recovery # "none"

\* Whoever waits for the database gets it, whatever fails while it waits.
ReadyReturns == \A w \in Waiters : w \in waiting ~> w \notin waiting
=============================================================================
