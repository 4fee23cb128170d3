------------------------- MODULE GarupaAvailability -------------------------
(***************************************************************************)
(* services/garupaService.ts for one game server: calls of                 *)
(* runWithAvailability made concurrently by the ranking and information    *)
(* services, the counting of failed health checks, the shared recovery     *)
(* and the shared lookup of the client version.                            *)
(*                                                                         *)
(* The program is single-threaded: an action is what runs between two      *)
(* answers from outside, all continuations released by it included.  A     *)
(* request is answered either as things stood when it was sent or as they  *)
(* stand when the answer arrives.                                          *)
(***************************************************************************)
EXTENDS Integers

CONSTANTS
  Calls,        \* the callers of runWithAvailability
  NoWait,       \* those that pass waitForRecovery: false (the V2 sampling)
  Threshold,    \* getGarupaStatusUnavailabilityThreshold
  Fallback,     \* client version of the environment, 0 when there is none
  MaxVersion,   \* bound: versions the game goes through
  MaxFaults     \* bound: times the server goes down or the process crashes

ASSUME CallsAssumption == NoWait \subseteq Calls
ASSUME BoundsAssumption ==
  /\ Threshold \in Nat \ {0}
  /\ MaxVersion \in Nat \ {0}
  /\ Fallback \in 0 .. MaxVersion
  /\ MaxFaults \in Nat

VARIABLES
  up,           \* the game server answers
  required,     \* the oldest client version its API accepts
  faults,       \* outages and crashes so far
  persisted,    \* client version in the GarupaMeta collection, 0 when none
  version,      \* serverClientVersions, 0 when none
  lookup,       \* versionRefreshInFlight
  count,        \* unavailabilityCounts, not counted beyond Threshold + 1
  disabled,     \* disabledServers
  healthy,      \* healthyUntil lies in the future
  shown,        \* the status page's availability of this server
  rec,          \* recoveryInFlight
  boot,         \* initTask, then ensureServersAvailableOnStart
  pc, sent, tries, rejected   \* the calls

game == <<up, required>>
health == <<count, disabled, healthy, shown>>
versions == <<persisted, version>>
calls == <<pc, sent, tries, rejected>>
vars == <<game, health, versions, calls, faults, lookup, rec, boot>>

Versions == 0 .. MaxVersion
Replies == {"ok", "old", "down"}
Nothing == [version |-> 0, replies |-> {}]
Ended == {"idle", "done", "skipped", "failed"}
NoLookup == [pc |-> "none", found |-> 0]
NoRecovery == [pc |-> "none", version |-> 0, loud |-> FALSE]

-----------------------------------------------------------------------------
(* The game server.  Without a client version no request leaves the program *)
(* (getClientVersion throws).  The /application end point may or may not     *)
(* mind an old version: the code expects both.                               *)
StatusReplies(v) ==
  IF ~up \/ v = 0 THEN {"down"}
  ELSE IF v < required THEN {"ok", "old"} ELSE {"ok"}

BusinessReplies(v) ==
  IF ~up \/ v = 0 THEN {"down"}
  ELSE IF v < required THEN {"old"} ELSE {"ok"}

StatusRequest == [version |-> version, replies |-> StatusReplies(version)]
BusinessRequest == [version |-> version, replies |-> BusinessReplies(version)]
StatusAnswers(s) == s.replies \union StatusReplies(s.version)
BusinessAnswers(s) == s.replies \union BusinessReplies(s.version)

-----------------------------------------------------------------------------
(* assessServerStatus and markServerAvailable *)
Available == count' = 0 /\ disabled' = FALSE /\ shown' = "operational"

CheckPassed == Available /\ healthy' = TRUE /\ UNCHANGED <<rec, lookup>>

\* refreshClientVersion: joins the lookup in flight or starts one.
JoinedLookup == IF lookup.pc = "none" THEN [pc |-> "asked", found |-> 0] ELSE lookup

\* waitUntilAvailableWithLogging: joins the recovery in flight or starts one.
\* "loud": a promise without a handler waits for it.
Recover(loud) ==
  IF rec.pc = "none"
  THEN rec' = [pc |-> "lookup", version |-> 0, loud |-> loud] /\ lookup' = JoinedLookup
  ELSE rec' = [rec EXCEPT !.loud = @ \/ loud] /\ UNCHANGED lookup

NextCount == IF count > Threshold THEN count ELSE count + 1

FaultyThresholdPassed(next) == next > Threshold

ThresholdReached(next) == next = Threshold

\* A failed check; "waits": the caller goes on to wait for the recovery.
CheckFailed(waits) ==
  /\ count' = NextCount
  /\ disabled' = (disabled \/ NextCount >= Threshold)
  /\ shown' = "degraded"
  /\ IF waits \/ ThresholdReached(NextCount)
     THEN Recover(ThresholdReached(NextCount)) ELSE UNCHANGED <<rec, lookup>>

-----------------------------------------------------------------------------
(* runWithAvailability *)
To(c, label) == pc' = [pc EXCEPT ![c] = label]
Pause(c, label) == To(c, label) /\ sent' = [sent EXCEPT ![c] = Nothing] /\ UNCHANGED <<tries, rejected>>

End(c, label) ==
  /\ To(c, label) /\ sent' = [sent EXCEPT ![c] = Nothing]
  /\ tries' = [tries EXCEPT ![c] = 0] /\ rejected' = [rejected EXCEPT ![c] = FALSE]

Execute(c) ==
  /\ To(c, "action")
  /\ sent' = [sent EXCEPT ![c] = BusinessRequest]
  /\ tries' = [tries EXCEPT ![c] = @ + 1] /\ UNCHANGED rejected

\* A call starts; within the health cache's time it needs no check.
CallStart(c) ==
  /\ boot.pc \notin {"load", "lookup"} /\ pc[c] \in Ended
  /\ IF healthy /\ ~disabled THEN Execute(c)
     ELSE /\ To(c, "check") /\ sent' = [sent EXCEPT ![c] = StatusRequest]
          /\ UNCHANGED <<tries, rejected>>
  /\ UNCHANGED <<game, health, versions, faults, lookup, rec, boot>>

\* A failed check below the threshold does not keep the action from running.
Skipped == disabled \/ NextCount >= Threshold

CheckDone(c) ==
  /\ pc[c] = "check"
  /\ \E r \in StatusAnswers(sent[c]) :
       \/ r = "ok" /\ CheckPassed /\ Execute(c)
       \/ /\ r # "ok" /\ CheckFailed(FALSE) /\ UNCHANGED healthy
          /\ IF Skipped THEN End(c, "skipped") ELSE Execute(c)
  /\ UNCHANGED <<game, versions, faults, boot>>

LastTry(c) == tries[c] = 2

\* The action may fail for reasons of its own ("error").  After an
\* update_required the version is looked up first; then, as after any other
\* error, the health cache is dropped and the server checked again.
ActionDone(c) ==
  /\ pc[c] = "action"
  /\ \E r \in BusinessAnswers(sent[c]) \union {"error"} :
       \/ /\ r = "ok" /\ End(c, "done")
          /\ UNCHANGED <<health, lookup>>
       \/ /\ r # "ok" /\ LastTry(c) /\ End(c, "failed")
          /\ UNCHANGED <<health, lookup>>
       \/ /\ r = "old" /\ ~LastTry(c) /\ To(c, "refresh")
          /\ sent' = [sent EXCEPT ![c] = Nothing] /\ UNCHANGED tries
          /\ rejected' = [rejected EXCEPT ![c] = TRUE]
          /\ lookup' = JoinedLookup /\ UNCHANGED health
       \/ /\ r \in {"down", "error"} /\ ~LastTry(c) /\ To(c, "recheck")
          /\ sent' = [sent EXCEPT ![c] = StatusRequest]
          /\ healthy' = FALSE
          /\ UNCHANGED <<tries, rejected, lookup, count, disabled, shown>>
  /\ UNCHANGED <<game, versions, faults, rec, boot>>

FaultyAlwaysWaits(c) == Pause(c, "waiting")

\* Where a call goes when the check after its failure fails as well.
AfterFailedRecheck(c) == IF c \in NoWait THEN End(c, "failed") ELSE Pause(c, "waiting")

RecheckDone(c) ==
  /\ pc[c] = "recheck"
  /\ \E r \in StatusAnswers(sent[c]) :
       \/ r = "ok" /\ CheckPassed /\ End(c, "failed")
       \/ /\ r # "ok" /\ CheckFailed(TRUE) /\ UNCHANGED healthy
          /\ AfterFailedRecheck(c)
  /\ UNCHANGED <<game, versions, faults, boot>>

-----------------------------------------------------------------------------
(* initializeClientVersions and ensureServersAvailableOnStart *)
BootLoad ==
  /\ boot.pc = "load"
  /\ \E read \in BOOLEAN :
       version' = IF read /\ persisted # 0 THEN persisted ELSE Fallback
  /\ boot' = [boot EXCEPT !.pc = "lookup"] /\ lookup' = JoinedLookup
  /\ UNCHANGED <<game, health, persisted, calls, faults, rec>>

StartupChecked ==
  /\ boot.pc = "check"
  /\ \E r \in StatusAnswers(boot.sent) :
       \/ r = "ok" /\ CheckPassed /\ boot' = [pc |-> "done", sent |-> Nothing]
       \/ /\ r # "ok" /\ CheckFailed(TRUE) /\ UNCHANGED healthy
          /\ boot' = [pc |-> "waiting", sent |-> Nothing]
  /\ UNCHANGED <<game, versions, calls, faults>>

-----------------------------------------------------------------------------
(* The process ends and is started again. *)
Restart ==
  /\ version' = 0 /\ lookup' = NoLookup /\ rec' = NoRecovery
  /\ count' = 0 /\ disabled' = FALSE /\ healthy' = FALSE /\ shown' = "unknown"
  /\ boot' = [pc |-> "load", sent |-> Nothing]
  /\ pc' = [c \in Calls |-> "idle"] /\ sent' = [c \in Calls |-> Nothing]
  /\ tries' = [c \in Calls |-> 0] /\ rejected' = [c \in Calls |-> FALSE]

Crash ==
  /\ faults < MaxFaults /\ faults' = faults + 1
  /\ Restart /\ UNCHANGED <<game, persisted>>

-----------------------------------------------------------------------------
(* The end of a lookup and of a recovery releases everyone waiting for it. *)
RecoveryPolls == IF rec.pc = "lookup" THEN [rec EXCEPT !.pc = "poll", !.version = version] ELSE rec

Refreshed == {c \in Calls : pc[c] = "refresh"}
Waiting == {c \in Calls : pc[c] = "waiting"}
FaultyBootWaits == boot

BootReleased == IF boot.pc = "waiting" THEN [boot EXCEPT !.pc = "done"] ELSE boot

BootChecks == [pc |-> "check", sent |-> StatusRequest]

LookupReleases ==
  /\ lookup' = NoLookup /\ rec' = RecoveryPolls
  /\ boot' = IF boot.pc = "lookup" THEN BootChecks ELSE boot
  /\ pc' = [c \in Calls |-> IF c \in Refreshed THEN "recheck" ELSE pc[c]]
  /\ sent' = [c \in Calls |-> IF c \in Refreshed THEN StatusRequest ELSE sent[c]]
  /\ healthy' = (healthy /\ Refreshed = {})
  /\ UNCHANGED <<count, disabled, shown, version, tries, rejected>>

\* Without a version the recovery rejects: those that wait for it fail.
RecoveryRejects ==
  /\ lookup' = NoLookup /\ rec' = NoRecovery
  /\ boot' = IF boot.pc = "lookup" THEN BootChecks ELSE BootReleased
  /\ pc' = [c \in Calls |-> IF c \in Refreshed THEN "recheck"
                            ELSE IF c \in Waiting THEN "failed" ELSE pc[c]]
  /\ sent' = [c \in Calls |-> IF c \in Refreshed THEN StatusRequest ELSE sent[c]]
  /\ tries' = [c \in Calls |-> IF c \in Waiting THEN 0 ELSE tries[c]]
  /\ rejected' = [c \in Calls |-> c \notin Waiting /\ rejected[c]]
  /\ healthy' = (healthy /\ Refreshed = {})
  /\ UNCHANGED <<count, disabled, shown, version>>

\* An unhandled rejection ends the process.
LookupEnds ==
  IF rec.pc = "lookup" /\ version = 0
  THEN IF rec.loud THEN Restart ELSE RecoveryRejects
  ELSE LookupReleases

Newer(found) == IF found > version THEN found ELSE version

\* Apple answers with any version: its App Store may be ahead of the game's API,
\* or behind.  A failed lookup or an answer without a version changes nothing.
LookupAnswered ==
  /\ lookup.pc = "asked"
  /\ \/ /\ \E found \in 1 .. MaxVersion :
             version' = Newer(found) /\ lookup' = [pc |-> "storing", found |-> found]
        /\ UNCHANGED <<health, calls, rec, boot>>
     \/ LookupEnds
  /\ UNCHANGED <<game, persisted, faults>>

LookupStored ==
  /\ lookup.pc = "storing"
  /\ \E stored \in BOOLEAN : persisted' = IF stored THEN lookup.found ELSE persisted
  /\ LookupEnds
  /\ UNCHANGED <<game, faults>>

\* waitUntilGarupaAvailable: the version is the one read when it was called.
PollAnswered ==
  /\ rec.pc = "poll" /\ "ok" \in StatusReplies(rec.version)
  /\ rec' = [rec EXCEPT !.pc = "ok"]
  /\ UNCHANGED <<game, health, versions, calls, faults, lookup, boot>>

FaultyStaysDisabled == count' = 0 /\ shown' = "operational" /\ UNCHANGED disabled

Recovered == Available

RecoveryDone ==
  /\ rec.pc = "ok" /\ rec' = NoRecovery /\ Recovered /\ boot' = BootReleased
  /\ pc' = [c \in Calls |-> IF c \in Waiting THEN "action" ELSE pc[c]]
  /\ sent' = [c \in Calls |-> IF c \in Waiting THEN BusinessRequest ELSE sent[c]]
  /\ tries' = [c \in Calls |-> IF c \in Waiting THEN tries[c] + 1 ELSE tries[c]]
  /\ UNCHANGED <<game, healthy, versions, rejected, faults, lookup>>

-----------------------------------------------------------------------------
(* The surroundings: outages, updates of the game, time. *)
GoDown ==
  /\ up /\ faults < MaxFaults /\ up' = FALSE /\ faults' = faults + 1
  /\ UNCHANGED <<required, health, versions, calls, lookup, rec, boot>>

GoUp ==
  /\ ~up /\ up' = TRUE
  /\ UNCHANGED <<required, health, versions, calls, faults, lookup, rec, boot>>

Require ==
  /\ required < MaxVersion /\ required' = required + 1
  /\ UNCHANGED <<up, health, versions, calls, faults, lookup, rec, boot>>

HealthExpires ==
  /\ healthy /\ healthy' = FALSE
  /\ UNCHANGED <<game, count, disabled, shown, versions, calls, faults, lookup, rec, boot>>

-----------------------------------------------------------------------------
Init ==
  /\ up \in BOOLEAN /\ required = 1 /\ faults = 0
  /\ persisted = 0 /\ version = 0 /\ lookup = NoLookup /\ rec = NoRecovery
  /\ count = 0 /\ disabled = FALSE /\ healthy = FALSE /\ shown = "unknown"
  /\ boot = [pc |-> "load", sent |-> Nothing]
  /\ pc = [c \in Calls |-> "idle"] /\ sent = [c \in Calls |-> Nothing]
  /\ tries = [c \in Calls |-> 0] /\ rejected = [c \in Calls |-> FALSE]

Next ==
  \/ \E c \in Calls : CallStart(c) \/ CheckDone(c) \/ ActionDone(c) \/ RecheckDone(c)
  \/ BootLoad \/ StartupChecked \/ Crash
  \/ LookupAnswered \/ LookupStored \/ PollAnswered \/ RecoveryDone
  \/ GoDown \/ GoUp \/ Require \/ HealthExpires

Spec == Init /\ [][Next]_vars

\* Every request is answered or times out, the poll loop goes on and released
\* continuations run.  Nothing is assumed of the server, which may refuse an old
\* version for ever, nor that calls come.
Fairness ==
  /\ \A c \in Calls : WF_vars(CheckDone(c)) /\ WF_vars(ActionDone(c)) /\ WF_vars(RecheckDone(c))
  /\ WF_vars(StartupChecked) /\ WF_vars(LookupAnswered) /\ WF_vars(LookupStored)
  /\ WF_vars(PollAnswered /\ StatusReplies(rec.version) = {"ok"}) /\ WF_vars(RecoveryDone)

FairSpec == Spec /\ Fairness

-----------------------------------------------------------------------------
Requests == [version : Versions, replies : SUBSET Replies]

\* Every variable keeps its type (garupaService.ts:46-55).
TypeOK ==
  /\ up \in BOOLEAN /\ required \in Versions
  /\ faults \in 0 .. MaxFaults
  /\ persisted \in Versions /\ version \in Versions
  /\ lookup \in [pc : {"none", "asked", "storing"}, found : Versions]
  /\ count \in 0 .. Threshold + 1 /\ disabled \in BOOLEAN /\ healthy \in BOOLEAN
  /\ shown \in {"unknown", "operational", "degraded"}
  /\ rec \in [pc : {"none", "lookup", "poll", "ok"}, version : Versions, loud : BOOLEAN]
  /\ boot \in [pc : {"load", "lookup", "check", "waiting", "done"}, sent : Requests]
  /\ pc \in [Calls -> Ended \union {"check", "action", "refresh", "recheck", "waiting"}]
  /\ sent \in [Calls -> Requests]
  /\ tries \in [Calls -> 0 .. 2] /\ rejected \in [Calls -> BOOLEAN]

\* A disabled server always has a recovery on its way that will re-enable it,
\* although only the check that reaches the threshold exactly starts one
\* (assessServerStatus, lines 249-260) and late answers of older checks may
\* reset the counter or re-enable the server in between.
DisabledIsRecovering == disabled => rec.pc # "none"

\* The disabled flag, the counter and the status page agree: a server is
\* disabled exactly when its failures have reached the threshold, and then it
\* is shown as degraded (lines 249-256, 489-495).
DisabledIsShown ==
  /\ disabled <=> count >= Threshold
  /\ disabled => shown = "degraded"

\* Whoever waits is waiting for something: a call in "waiting" for a recovery,
\* one in "refresh" and a recovery in its first step for a lookup.
NobodyWaitsForNothing ==
  /\ Waiting # {} \/ boot.pc = "waiting" => rec.pc # "none"
  /\ Refreshed # {} \/ rec.pc = "lookup" \/ boot.pc = "lookup" => lookup.pc # "none"

\* No request of a task is sent to a server that is disabled at that moment
\* (lines 181-190 and 209-210).
NoRequestWhileDisabled ==
  [][\A c \in Calls : pc[c] # "action" /\ pc'[c] = "action" => ~disabled']_vars

\* From some time on the server answers and accepts the version with which a
\* recovery polls.
ServerAcceptsPolls == up /\ (rec.pc = "poll" => rec.version >= required)

\* A server that is reachable again does not stay disabled ("Temporarily
\* disabling servers that fail repeatedly", line 42), provided that it accepts
\* the version read when the polling started (line 327).
DisabledIsTemporary == <>[]ServerAcceptsPolls => []<>~disabled

\* A V2 call always ends, whatever the server does; the others end when the
\* server comes back (waitForRecovery, lines 204-211).
CallsEnd ==
  /\ \A c \in NoWait : (pc[c] \notin Ended) ~> (pc[c] \in Ended)
  /\ <>[]ServerAcceptsPolls => \A c \in Calls \ NoWait : (pc[c] \notin Ended) ~> (pc[c] \in Ended)

\* "the client version for that server is force-refreshed from Apple's API and
\* the action is retried after a fresh availability assessment" (lines 163-165).
RejectedIsRetried ==
  [][\A c \in Calls : rejected[c] /\ pc[c] # "failed" /\ pc'[c] = "failed" => tries[c] = 2]_vars

=============================================================================
