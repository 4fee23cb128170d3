---------------------- MODULE GarupaAvailability_proofs ---------------------
(***************************************************************************)
(* For every set of callers, threshold and bound: a disabled server is     *)
(* being recovered, nobody waits for a recovery or a lookup that is not    *)
(* on its way, and no task asks a disabled server.                         *)
(*                                                                         *)
(* "Disabled implies recovering" is not inductive: a recovery that rejects *)
(* for want of a version would leave a disabled server behind.  What saves *)
(* it is that the recovery of a disabled server is loud, so that its       *)
(* rejection ends the process (Recoverable).                               *)
(***************************************************************************)
EXTENDS GarupaAvailability, TLAPS

Recoverable == disabled => rec.pc # "none" /\ rec.loud

Labels == Ended \union {"check", "action", "refresh", "recheck", "waiting"}

\* The part of the types the argument needs.
Typed ==
  /\ count \in 0 .. Threshold + 1 /\ disabled \in BOOLEAN
  /\ rec \in [pc : {"none", "lookup", "poll", "ok"}, version : Versions, loud : BOOLEAN]
  /\ lookup.pc \in {"none", "asked", "storing"}
  /\ version \in Versions
  /\ pc \in [Calls -> Labels]

IInv == Typed /\ DisabledIsShown /\ Recoverable /\ NobodyWaitsForNothing

-----------------------------------------------------------------------------
LEMMA InitHolds == Init => IInv
<1> SUFFICES ASSUME Init PROVE IInv
  OBVIOUS
<1>1. Typed
  <2>1. pc \in [Calls -> Labels]
    BY DEF Init, Labels, Ended
  <2>2. rec \in [pc : {"none", "lookup", "poll", "ok"}, version : Versions, loud : BOOLEAN]
    BY BoundsAssumption DEF Init, NoRecovery, Versions
  <2>3. lookup.pc = "none" /\ version \in Versions /\ count \in 0 .. Threshold + 1
    BY BoundsAssumption DEF Init, NoLookup, Versions
  <2>4. disabled \in BOOLEAN
    BY DEF Init
  <2> QED BY <2>1, <2>2, <2>3, <2>4, Zenon DEF Typed
<1>2. DisabledIsShown /\ Recoverable
  BY BoundsAssumption DEF Init, DisabledIsShown, Recoverable
<1>3. NobodyWaitsForNothing
  <2>1. Waiting = {} /\ Refreshed = {}
    BY DEF Init, Waiting, Refreshed
  <2> QED BY <2>1 DEF Init, NobodyWaitsForNothing, NoRecovery
<1> QED BY <1>1, <1>2, <1>3 DEF IInv

LEMMA RestartHolds == ASSUME Restart PROVE IInv'
<1>1. Typed'
  <2>1. pc' \in [Calls -> Labels]
    BY DEF Restart, Labels, Ended
  <2>2. rec' \in [pc : {"none", "lookup", "poll", "ok"}, version : Versions, loud : BOOLEAN]
    BY BoundsAssumption DEF Restart, NoRecovery, Versions
  <2>3. lookup'.pc = "none" /\ version' \in Versions /\ count' \in 0 .. Threshold + 1
    BY BoundsAssumption DEF Restart, NoLookup, Versions
  <2>4. disabled' \in BOOLEAN
    BY DEF Restart
  <2> QED BY <2>1, <2>2, <2>3, <2>4, Zenon DEF Typed
<1>2. DisabledIsShown' /\ Recoverable'
  BY BoundsAssumption DEF Restart, DisabledIsShown, Recoverable
<1>3. NobodyWaitsForNothing'
  <2>1. Waiting' = {} /\ Refreshed' = {}
    BY DEF Restart, Waiting, Refreshed
  <2>2. boot'.pc = "load" /\ rec'.pc = "none"
    BY DEF Restart, NoRecovery
  <2> QED BY <2>1, <2>2 DEF NobodyWaitsForNothing
<1> QED BY <1>1, <1>2, <1>3 DEF IInv

-----------------------------------------------------------------------------
(* What the parts of an action do to the invariant *)

\* A call moves to a label: nobody else starts to wait.
LEMMA ToMoves ==
  ASSUME Typed, NEW c \in Calls, NEW label \in Labels, To(c, label)
  PROVE  /\ pc' \in [Calls -> Labels]
         /\ label # "waiting" => Waiting' \subseteq Waiting
         /\ label # "refresh" => Refreshed' \subseteq Refreshed
BY DEF Typed, To, Waiting, Refreshed

\* The health variables, recovery and lookup after a check.
CheckHolds ==
  /\ count' \in 0 .. Threshold + 1 /\ disabled' \in BOOLEAN
  /\ rec' \in [pc : {"none", "lookup", "poll", "ok"}, version : Versions, loud : BOOLEAN]
  /\ lookup'.pc \in {"none", "asked", "storing"}
  /\ DisabledIsShown' /\ Recoverable'
  /\ rec.pc # "none" => rec'.pc # "none"
  /\ lookup.pc # "none" => lookup'.pc # "none"
  /\ rec'.pc = "lookup" => lookup'.pc # "none"

LEMMA PassedHolds == ASSUME IInv, CheckPassed PROVE CheckHolds
<1>1. count' = 0 /\ disabled' = FALSE /\ rec' = rec /\ lookup' = lookup
  BY DEF CheckPassed, Available
<1>2. count' \in 0 .. Threshold + 1 /\ ~(count' >= Threshold)
  BY <1>1, BoundsAssumption
<1>3. DisabledIsShown' /\ Recoverable' /\ disabled' \in BOOLEAN
  BY <1>1, <1>2, Zenon DEF DisabledIsShown, Recoverable
<1> QED BY <1>1, <1>2, <1>3, Zenon DEF CheckHolds, IInv, Typed, NobodyWaitsForNothing

LEMMA RecoverHolds ==
  ASSUME IInv, NEW loud \in BOOLEAN, Recover(loud)
  PROVE  /\ rec' \in [pc : {"none", "lookup", "poll", "ok"}, version : Versions, loud : BOOLEAN]
         /\ lookup'.pc \in {"none", "asked", "storing"}
         /\ rec'.pc # "none" /\ rec'.loud = (loud \/ (rec.pc # "none" /\ rec.loud))
         /\ lookup.pc # "none" => lookup'.pc # "none"
         /\ rec'.pc = "lookup" => lookup'.pc # "none"
<1>1. CASE rec.pc = "none"
  <2>1. rec' = [pc |-> "lookup", version |-> 0, loud |-> loud] /\ lookup' = JoinedLookup
    BY <1>1 DEF Recover
  <2>2. lookup'.pc \in {"asked", "storing"}
    BY <2>1 DEF JoinedLookup, IInv, Typed
  <2> QED BY <1>1, <2>1, <2>2, BoundsAssumption DEF Versions
<1>2. CASE rec.pc # "none"
  <2>1. rec' = [rec EXCEPT !.loud = @ \/ loud] /\ lookup' = lookup
    BY <1>2 DEF Recover
  <2> QED BY <1>2, <2>1 DEF IInv, Typed, NobodyWaitsForNothing
<1> QED BY <1>1, <1>2

LEMMA FailedHolds ==
  ASSUME IInv, NEW waits \in BOOLEAN, CheckFailed(waits)
  PROVE  CheckHolds /\ (waits => rec'.pc # "none")
<1> DEFINE reached == ThresholdReached(NextCount)
<1>1. /\ NextCount \in 0 .. Threshold + 1 /\ count' = NextCount
      /\ disabled' = (disabled \/ NextCount >= Threshold) /\ shown' = "degraded"
  BY BoundsAssumption DEF IInv, Typed, NextCount, CheckFailed
<1>2. DisabledIsShown'
  <2>1. disabled <=> count >= Threshold
    BY DEF IInv, DisabledIsShown
  <2>2. count >= Threshold => NextCount >= Threshold
    BY BoundsAssumption DEF IInv, Typed, NextCount
  <2>3. disabled' <=> count' >= Threshold
    BY <1>1, <2>1, <2>2, Zenon
  <2> QED BY <1>1, <2>3, Zenon DEF DisabledIsShown
<1>3. reached \in BOOLEAN /\ (disabled' => disabled \/ reached)
  BY <1>1, BoundsAssumption DEF IInv, Typed, DisabledIsShown, NextCount, ThresholdReached
<1>4. CASE waits \/ reached
  <2>1. Recover(reached)
    BY <1>4 DEF CheckFailed
  <2> HIDE DEF reached
  <2> QED BY <1>1, <1>2, <1>3, <2>1, RecoverHolds DEF CheckHolds, IInv, Recoverable
<1>5. CASE ~(waits \/ reached)
  <2>1. rec' = rec /\ lookup' = lookup
    BY <1>5 DEF CheckFailed
  <2> HIDE DEF reached
  <2> QED BY <1>1, <1>2, <1>3, <1>5, <2>1 DEF CheckHolds, IInv, Recoverable, Typed, NobodyWaitsForNothing
<1> QED BY <1>4, <1>5

\* A check and a move of the call that made it.
LEMMA CallMoves ==
  ASSUME IInv, CheckHolds, NEW c \in Calls, NEW label \in Labels \ {"refresh"}, To(c, label),
         label = "waiting" => rec'.pc # "none", UNCHANGED <<version, boot>>
  PROVE  IInv'
<1>1. /\ pc' \in [Calls -> Labels] /\ Refreshed' \subseteq Refreshed
      /\ label # "waiting" => Waiting' \subseteq Waiting
  BY ToMoves DEF IInv
<1>2. Typed'
  BY <1>1, Zenon DEF Typed, CheckHolds, IInv
<1>3. NobodyWaitsForNothing'
  BY <1>1 DEF NobodyWaitsForNothing, CheckHolds, IInv
<1> QED BY <1>2, <1>3, Zenon DEF IInv, CheckHolds

LEMMA CheckDoneHolds == ASSUME IInv, NEW c \in Calls, CheckDone(c) PROVE IInv'
<1>0. UNCHANGED <<version, boot>>
  BY DEF CheckDone, versions
<1>1. CASE CheckPassed /\ Execute(c)
  BY <1>0, <1>1, PassedHolds, CallMoves DEF Execute, Labels
<1>2. CASE CheckFailed(FALSE) /\ End(c, "skipped")
  BY <1>0, <1>2, FailedHolds, CallMoves DEF End, Labels, Ended
<1>3. CASE CheckFailed(FALSE) /\ Execute(c)
  BY <1>0, <1>3, FailedHolds, CallMoves DEF Execute, Labels
<1> QED BY <1>1, <1>2, <1>3 DEF CheckDone

LEMMA RecheckDoneHolds == ASSUME IInv, NEW c \in Calls, RecheckDone(c) PROVE IInv'
<1>0. UNCHANGED <<version, boot>>
  BY DEF RecheckDone, versions
<1>1. CASE CheckPassed /\ End(c, "failed")
  BY <1>0, <1>1, PassedHolds, CallMoves DEF End, Labels, Ended
<1>2. CASE CheckFailed(TRUE) /\ End(c, "failed")
  BY <1>0, <1>2, FailedHolds, CallMoves DEF End, Labels, Ended
<1>3. CASE CheckFailed(TRUE) /\ Pause(c, "waiting")
  BY <1>0, <1>3, FailedHolds, CallMoves DEF Pause, Labels
<1> QED BY <1>1, <1>2, <1>3 DEF RecheckDone, AfterFailedRecheck

LEMMA StartupCheckedHolds == ASSUME IInv, StartupChecked PROVE IInv'
<1>0. UNCHANGED <<version, pc>>
  BY DEF StartupChecked, versions, calls
<1>1. CheckHolds /\ (boot'.pc = "done" \/ (boot'.pc = "waiting" /\ rec'.pc # "none"))
  <2>1. CASE CheckPassed /\ boot' = [pc |-> "done", sent |-> Nothing]
    BY <2>1, PassedHolds
  <2>2. CASE CheckFailed(TRUE) /\ boot' = [pc |-> "waiting", sent |-> Nothing]
    BY <2>2, FailedHolds
  <2> QED BY <2>1, <2>2 DEF StartupChecked
<1>2. Typed'
  BY <1>0, <1>1, Zenon DEF Typed, CheckHolds, IInv
<1>3. NobodyWaitsForNothing'
  BY <1>0, <1>1 DEF NobodyWaitsForNothing, CheckHolds, IInv, Waiting, Refreshed
<1> QED BY <1>1, <1>2, <1>3, Zenon DEF IInv, CheckHolds

-----------------------------------------------------------------------------
(* Steps that leave the health variables and the recovery alone *)

\* The lookup may start, a call may move on, but nobody starts to wait for a
\* recovery.
LEMMA QuietMoves ==
  ASSUME IInv, UNCHANGED <<count, disabled, shown, rec>>, version' \in Versions,
         pc' \in [Calls -> Labels], Waiting' \subseteq Waiting,
         boot'.pc = "waiting" => boot.pc = "waiting",
         lookup'.pc \in {"none", "asked", "storing"},
         lookup.pc # "none" => lookup'.pc # "none",
         Refreshed' \subseteq Refreshed \/ lookup'.pc # "none",
         boot'.pc = "lookup" => boot.pc = "lookup" \/ lookup'.pc # "none"
  PROVE  IInv'
<1>1. Typed'
  BY Zenon DEF Typed, IInv
<1>2. DisabledIsShown' /\ Recoverable'
  BY Zenon DEF DisabledIsShown, Recoverable, IInv
<1>3. NobodyWaitsForNothing'
  BY DEF NobodyWaitsForNothing, IInv
<1> QED BY <1>1, <1>2, <1>3, Zenon DEF IInv

LEMMA JoinedLookupIsOn ==
  ASSUME Typed PROVE JoinedLookup.pc \in {"asked", "storing"}
BY DEF Typed, JoinedLookup

LEMMA CallStartHolds == ASSUME IInv, NEW c \in Calls, CallStart(c) PROVE IInv'
<1>1. PICK label \in {"action", "check"} : To(c, label)
  BY Zenon DEF CallStart, Execute
<1>2. pc' \in [Calls -> Labels] /\ Waiting' \subseteq Waiting /\ Refreshed' \subseteq Refreshed
  BY <1>1, ToMoves DEF IInv, Labels
<1>3. UNCHANGED <<count, disabled, shown, rec, version, boot, lookup>>
  BY DEF CallStart, health, versions
<1> QED BY <1>2, <1>3, QuietMoves DEF IInv, Typed

LEMMA ActionDoneHolds == ASSUME IInv, NEW c \in Calls, ActionDone(c) PROVE IInv'
<1>1. UNCHANGED <<count, disabled, shown, rec, version, boot>>
  BY DEF ActionDone, health, versions
<1>2. CASE lookup' = lookup /\ \E label \in {"done", "failed", "recheck"} : To(c, label)
  <2>1. PICK label \in {"done", "failed", "recheck"} : To(c, label)
    BY <1>2
  <2>2. pc' \in [Calls -> Labels] /\ Waiting' \subseteq Waiting /\ Refreshed' \subseteq Refreshed
    BY <2>1, ToMoves DEF IInv, Labels, Ended
  <2> QED BY <1>1, <1>2, <2>2, QuietMoves DEF IInv, Typed
<1>3. CASE lookup' = JoinedLookup /\ To(c, "refresh")
  <2>1. pc' \in [Calls -> Labels] /\ Waiting' \subseteq Waiting
    BY <1>3, ToMoves DEF IInv, Labels
  <2>2. lookup'.pc \in {"asked", "storing"}
    BY <1>3, JoinedLookupIsOn DEF IInv
  <2> QED BY <1>1, <2>1, <2>2, QuietMoves DEF IInv, Typed
<1> QED BY <1>2, <1>3 DEF ActionDone, End

LEMMA BootLoadHolds == ASSUME IInv, BootLoad, version' \in Versions PROVE IInv'
<1>1. UNCHANGED <<count, disabled, shown, rec, pc>> /\ boot'.pc # "waiting" /\ lookup' = JoinedLookup
  <2>1. boot' = [boot EXCEPT !.pc = "lookup"] /\ boot.pc = "load"
    BY DEF BootLoad
  <2>2. boot'.pc # "waiting"
    BY <2>1
  <2> QED BY <2>2 DEF BootLoad, health, calls
<1>2. lookup'.pc \in {"asked", "storing"}
  BY <1>1, JoinedLookupIsOn DEF IInv
<1>3. pc' \in [Calls -> Labels] /\ Waiting' = Waiting /\ Refreshed' = Refreshed
  BY <1>1 DEF IInv, Typed, Waiting, Refreshed
<1> QED BY <1>1, <1>2, <1>3, QuietMoves

LEMMA SurroundingsHold ==
  ASSUME IInv, GoDown \/ GoUp \/ Require \/ HealthExpires \/ UNCHANGED vars PROVE IInv'
<1>1. UNCHANGED <<count, disabled, shown, rec, pc, version, lookup, boot>>
  BY Zenon DEF GoDown, GoUp, Require, HealthExpires, vars, health, versions, calls
<1>2. UNCHANGED <<Waiting, Refreshed>>
  BY <1>1, Zenon DEF Waiting, Refreshed
<1> QED BY <1>1, <1>2, QuietMoves DEF IInv, Typed

-----------------------------------------------------------------------------
(* The steps that release waiters *)

LEMMA LookupReleasesHolds ==
  ASSUME IInv, LookupReleases, ~(rec.pc = "lookup" /\ version = 0) PROVE IInv'
<1>1. UNCHANGED <<count, disabled, shown, version>> /\ lookup' = NoLookup /\ rec' = RecoveryPolls
  BY DEF LookupReleases
<1>2. /\ rec' \in [pc : {"none", "lookup", "poll", "ok"}, version : Versions, loud : BOOLEAN]
      /\ rec'.pc # "lookup" /\ rec'.loud = rec.loud
      /\ rec.pc # "none" => rec'.pc # "none"
  BY <1>1 DEF RecoveryPolls, IInv, Typed
<1>3. pc' \in [Calls -> Labels] /\ Waiting' \subseteq Waiting /\ Refreshed' = {}
  BY DEF LookupReleases, Waiting, Refreshed, IInv, Typed, Labels
<1>4. boot'.pc # "lookup" /\ (boot'.pc = "waiting" => boot.pc = "waiting")
  BY DEF LookupReleases, BootChecks
<1>5. Typed'
  BY <1>1, <1>2, <1>3 DEF Typed, IInv, NoLookup
<1>6. DisabledIsShown' /\ Recoverable'
  BY <1>1, <1>2, Zenon DEF DisabledIsShown, Recoverable, IInv
<1>7. NobodyWaitsForNothing'
  BY <1>2, <1>3, <1>4 DEF NobodyWaitsForNothing, IInv
<1> QED BY <1>5, <1>6, <1>7, Zenon DEF IInv

LEMMA RecoveryRejectsHolds ==
  ASSUME IInv, RecoveryRejects, ~rec.loud PROVE IInv'
<1>1. UNCHANGED <<count, disabled, shown, version>> /\ lookup' = NoLookup /\ rec' = NoRecovery
  BY DEF RecoveryRejects
<1>2. ~disabled
  BY DEF IInv, Recoverable
<1>3. pc' \in [Calls -> Labels] /\ Waiting' = {} /\ Refreshed' = {}
  BY DEF RecoveryRejects, Waiting, Refreshed, IInv, Typed, Labels, Ended
<1>4. boot'.pc # "lookup" /\ boot'.pc # "waiting"
  BY DEF RecoveryRejects, BootReleased, BootChecks
<1>5. Typed'
  <2>1. rec' \in [pc : {"none", "lookup", "poll", "ok"}, version : Versions, loud : BOOLEAN]
    BY <1>1, BoundsAssumption DEF NoRecovery, Versions
  <2>2. lookup'.pc = "none"
    BY <1>1 DEF NoLookup
  <2> QED BY <1>1, <1>3, <2>1, <2>2, Zenon DEF Typed, IInv
<1>6. DisabledIsShown' /\ Recoverable'
  BY <1>1, <1>2, Zenon DEF DisabledIsShown, Recoverable, IInv
<1>7. NobodyWaitsForNothing'
  BY <1>1, <1>3, <1>4 DEF NobodyWaitsForNothing, IInv, NoRecovery
<1> QED BY <1>5, <1>6, <1>7, Zenon DEF IInv

LEMMA LookupEndsHolds == ASSUME IInv, LookupEnds PROVE IInv'
BY LookupReleasesHolds, RecoveryRejectsHolds, RestartHolds DEF LookupEnds

LEMMA LookupAnsweredHolds == ASSUME IInv, LookupAnswered, version' \in Versions PROVE IInv'
<1>1. CASE LookupEnds
  BY <1>1, LookupEndsHolds
<1>2. CASE lookup'.pc = "storing" /\ UNCHANGED <<health, calls, rec, boot>>
  <2>1. UNCHANGED <<count, disabled, shown, rec, pc, boot>>
    BY <1>2 DEF health, calls
  <2>2. pc' \in [Calls -> Labels] /\ Waiting' = Waiting
    BY <2>1 DEF IInv, Typed, Waiting
  <2> QED BY <1>2, <2>1, <2>2, QuietMoves
<1> QED BY <1>1, <1>2 DEF LookupAnswered

LEMMA PollAnsweredHolds == ASSUME IInv, PollAnswered PROVE IInv'
<1>1. /\ UNCHANGED <<count, disabled, shown, pc, version, lookup, boot>>
      /\ rec.pc = "poll" /\ rec' = [rec EXCEPT !.pc = "ok"]
  BY DEF PollAnswered, health, versions, calls
<1>2. /\ rec' \in [pc : {"none", "lookup", "poll", "ok"}, version : Versions, loud : BOOLEAN]
      /\ rec'.pc = "ok" /\ rec'.loud = rec.loud
  BY <1>1 DEF IInv, Typed
<1>3. Typed'
  BY <1>1, <1>2, Zenon DEF Typed, IInv
<1>4. DisabledIsShown' /\ Recoverable'
  BY <1>1, <1>2 DEF DisabledIsShown, Recoverable, IInv
<1>5. NobodyWaitsForNothing'
  BY <1>1, <1>2 DEF NobodyWaitsForNothing, IInv, Waiting, Refreshed
<1> QED BY <1>3, <1>4, <1>5, Zenon DEF IInv

LEMMA RecoveryDoneHolds == ASSUME IInv, RecoveryDone PROVE IInv'
<1>1. /\ count' = 0 /\ disabled' = FALSE /\ rec' = NoRecovery
      /\ UNCHANGED <<version, lookup>>
  BY DEF RecoveryDone, Recovered, Available, versions
<1>2. pc' \in [Calls -> Labels] /\ Waiting' = {} /\ Refreshed' = Refreshed
  BY DEF RecoveryDone, Waiting, Refreshed, IInv, Typed, Labels
<1>3. boot'.pc # "waiting" /\ (boot'.pc = "lookup" => boot.pc = "lookup")
  BY DEF RecoveryDone, BootReleased
<1>4. count' \in 0 .. Threshold + 1 /\ ~(count' >= Threshold)
  BY <1>1, BoundsAssumption
<1>5. rec' \in [pc : {"none", "lookup", "poll", "ok"}, version : Versions, loud : BOOLEAN]
  BY <1>1, BoundsAssumption DEF NoRecovery, Versions
<1>6. Typed'
  BY <1>1, <1>2, <1>4, <1>5, Zenon DEF Typed, IInv
<1>7. DisabledIsShown' /\ Recoverable'
  BY <1>1, <1>4, Zenon DEF DisabledIsShown, Recoverable
<1>8. NobodyWaitsForNothing'
  BY <1>1, <1>2, <1>3 DEF NobodyWaitsForNothing, IInv, NoRecovery
<1> QED BY <1>6, <1>7, <1>8, Zenon DEF IInv

-----------------------------------------------------------------------------
(* The versions on disk and in memory stay among the versions of the game. *)
StoredTyped == version \in Versions /\ persisted \in Versions /\ lookup.found \in Versions

LEMMA RecoverKeepsFound ==
  ASSUME StoredTyped, NEW loud \in BOOLEAN, Recover(loud) PROVE lookup'.found \in Versions
BY BoundsAssumption DEF Recover, JoinedLookup, StoredTyped, Versions

LEMMA CheckKeepsFound ==
  ASSUME StoredTyped, CheckPassed \/ CheckFailed(TRUE) \/ CheckFailed(FALSE)
  PROVE  lookup'.found \in Versions
<1>1. ThresholdReached(NextCount) \in BOOLEAN
  BY DEF ThresholdReached
<1>2. CASE UNCHANGED lookup
  BY <1>2 DEF StoredTyped
<1>3. CASE Recover(ThresholdReached(NextCount))
  BY <1>1, <1>3, RecoverKeepsFound
<1> QED BY <1>2, <1>3 DEF CheckPassed, CheckFailed

LEMMA LookupEndsKeepsTypes ==
  ASSUME StoredTyped, LookupEnds PROVE version' \in Versions /\ lookup'.found \in Versions
BY BoundsAssumption DEF LookupEnds, Restart, RecoveryRejects, LookupReleases, NoLookup, StoredTyped, Versions

LEMMA StoredTypedStep == StoredTyped /\ [Next]_vars => StoredTyped'
<1> SUFFICES ASSUME StoredTyped, [Next]_vars PROVE StoredTyped'
  OBVIOUS
<1> USE BoundsAssumption
<1>1. ASSUME NEW c \in Calls, CheckDone(c) \/ RecheckDone(c) PROVE StoredTyped'
  BY <1>1, CheckKeepsFound DEF CheckDone, RecheckDone, StoredTyped, versions
<1>2. ASSUME NEW c \in Calls, CallStart(c) PROVE StoredTyped'
  BY <1>2 DEF CallStart, StoredTyped, versions
<1>3. ASSUME NEW c \in Calls, ActionDone(c) PROVE StoredTyped'
  BY <1>3 DEF ActionDone, StoredTyped, versions, JoinedLookup, Versions
<1>4. CASE BootLoad
  BY <1>4 DEF BootLoad, StoredTyped, JoinedLookup, Versions
<1>5. CASE StartupChecked
  BY <1>5, CheckKeepsFound DEF StartupChecked, StoredTyped, versions
<1>6. CASE Crash
  BY <1>6 DEF Crash, Restart, StoredTyped, NoLookup, Versions
<1>7. CASE LookupAnswered
  <2>1. CASE LookupEnds
    BY <1>7, <2>1, LookupEndsKeepsTypes DEF LookupAnswered, StoredTyped
  <2>2. CASE \E found \in 1 .. MaxVersion :
               version' = Newer(found) /\ lookup' = [pc |-> "storing", found |-> found]
    BY <1>7, <2>2 DEF LookupAnswered, StoredTyped, Newer, Versions
  <2> QED BY <1>7, <2>1, <2>2 DEF LookupAnswered
<1>8. CASE LookupStored
  BY <1>8, LookupEndsKeepsTypes DEF LookupStored, StoredTyped
<1>9. CASE PollAnswered \/ RecoveryDone
  BY <1>9 DEF PollAnswered, RecoveryDone, StoredTyped, versions
<1>10. CASE GoDown \/ GoUp \/ Require \/ HealthExpires \/ UNCHANGED vars
  BY <1>10 DEF GoDown, GoUp, Require, HealthExpires, vars, versions, StoredTyped
<1> QED BY <1>1, <1>2, <1>3, <1>4, <1>5, <1>6, <1>7, <1>8, <1>9, <1>10 DEF Next

-----------------------------------------------------------------------------
LEMMA NextHolds == ASSUME IInv, [Next]_vars, StoredTyped' PROVE IInv'
<1>0. version' \in Versions
  BY DEF StoredTyped
<1>1. ASSUME NEW c \in Calls, CallStart(c) PROVE IInv'
  BY <1>1, CallStartHolds
<1>2. ASSUME NEW c \in Calls, CheckDone(c) PROVE IInv'
  BY <1>2, CheckDoneHolds
<1>3. ASSUME NEW c \in Calls, ActionDone(c) PROVE IInv'
  BY <1>3, ActionDoneHolds
<1>4. ASSUME NEW c \in Calls, RecheckDone(c) PROVE IInv'
  BY <1>4, RecheckDoneHolds
<1>5. CASE BootLoad
  BY <1>0, <1>5, BootLoadHolds
<1>6. CASE StartupChecked
  BY <1>6, StartupCheckedHolds
<1>7. CASE Crash
  BY <1>7, RestartHolds DEF Crash
<1>8. CASE LookupAnswered
  BY <1>0, <1>8, LookupAnsweredHolds
<1>9. CASE LookupStored
  BY <1>9, LookupEndsHolds DEF LookupStored
<1>10. CASE PollAnswered
  BY <1>10, PollAnsweredHolds
<1>11. CASE RecoveryDone
  BY <1>11, RecoveryDoneHolds
<1>12. CASE GoDown \/ GoUp \/ Require \/ HealthExpires \/ UNCHANGED vars
  BY <1>12, SurroundingsHold
<1> QED BY <1>1, <1>2, <1>3, <1>4, <1>5, <1>6, <1>7, <1>8, <1>9, <1>10, <1>11, <1>12 DEF Next

\* The inductive invariant holds in every state of every instance.
THEOREM AvailabilityInvariance == Spec => []IInv
<1>1. Init => IInv /\ StoredTyped
  BY InitHolds, BoundsAssumption DEF Init, StoredTyped, NoLookup, Versions
<1>2. IInv /\ StoredTyped /\ [Next]_vars => (IInv /\ StoredTyped)'
  BY NextHolds, StoredTypedStep
<1> QED BY <1>1, <1>2, PTL DEF Spec

\* A disabled server always has a recovery on its way (garupaService.ts:249-260).
THEOREM DisabledServersRecover == Spec => []DisabledIsRecovering
<1>1. IInv => DisabledIsRecovering
  BY DEF IInv, Recoverable, DisabledIsRecovering
<1> QED BY <1>1, AvailabilityInvariance, PTL

\* The disabled flag, the failure counter and the status page agree
\* (garupaService.ts:249-256 and 489-495).
THEOREM DisabledServersAreShown == Spec => []DisabledIsShown
<1>1. IInv => DisabledIsShown
  BY DEF IInv
<1> QED BY <1>1, AvailabilityInvariance, PTL

\* Whoever waits for a recovery or a lookup waits for one that is on its way
\* (garupaService.ts:316-339 and 423-469).
THEOREM WaitersAreServed == Spec => []NobodyWaitsForNothing
<1>1. IInv => NobodyWaitsForNothing
  BY DEF IInv
<1> QED BY <1>1, AvailabilityInvariance, PTL

\* No task's request is sent to a server that is disabled at that moment
\* (garupaService.ts:181-190 and 209-210).
THEOREM DisabledServersAreNotAsked == Spec => NoRequestWhileDisabled
<1> DEFINE Asked == \A c \in Calls : pc[c] # "action" /\ pc'[c] = "action" => ~disabled'
<1>1. IInv /\ [Next]_vars => [Asked]_vars
  <2> SUFFICES ASSUME IInv, Next, NEW c \in Calls, pc[c] # "action", pc'[c] = "action" PROVE ~disabled'
    BY DEF NoRequestWhileDisabled
  <2>0. ASSUME NEW d \in Calls, NEW label, To(d, label) PROVE d = c /\ label = "action"
    BY <2>0 DEF To, IInv, Typed
  <2>1. ASSUME NEW d \in Calls, CallStart(d) PROVE ~disabled'
    BY <2>1, <2>0 DEF CallStart, health
  <2>2. ASSUME NEW d \in Calls, CheckDone(d) PROVE ~disabled'
    <3>1. CASE CheckPassed
      BY <3>1 DEF CheckPassed, Available
    <3>2. CASE CheckFailed(FALSE) /\ ~Skipped
      BY <3>2 DEF CheckFailed, Skipped
    <3>3. CASE End(d, "skipped")
      BY <3>3, <2>0 DEF End
    <3> QED BY <2>2, <3>1, <3>2, <3>3 DEF CheckDone
  <2>3. ASSUME NEW d \in Calls, ActionDone(d) PROVE FALSE
    <3>1. \E label \in {"done", "failed", "refresh", "recheck"} : To(d, label)
      BY <2>3 DEF ActionDone, End
    <3> QED BY <3>1, <2>0
  <2>4. ASSUME NEW d \in Calls, RecheckDone(d) PROVE FALSE
    <3>1. \E label \in {"failed", "waiting"} : To(d, label)
      BY <2>4 DEF RecheckDone, AfterFailedRecheck, End, Pause
    <3> QED BY <3>1, <2>0
  <2>5. CASE BootLoad \/ StartupChecked \/ PollAnswered \/ GoDown \/ GoUp \/ Require \/ HealthExpires
    BY <2>5, Zenon DEF BootLoad, StartupChecked, PollAnswered, GoDown, GoUp, Require, HealthExpires, calls
  <2>6. ASSUME Restart PROVE FALSE
    BY <2>6 DEF Restart
  <2>7. ASSUME LookupEnds PROVE FALSE
    BY <2>6, <2>7 DEF LookupEnds, LookupReleases, RecoveryRejects
  <2>8. CASE LookupAnswered
    BY <2>7, <2>8 DEF LookupAnswered, calls
  <2>9. CASE RecoveryDone
    BY <2>9 DEF RecoveryDone, Recovered, Available
  <2> QED BY <2>1, <2>2, <2>3, <2>4, <2>5, <2>6, <2>7, <2>8, <2>9 DEF Next, Crash, LookupStored
<1> QED BY <1>1, AvailabilityInvariance, PTL DEF Spec, NoRequestWhileDisabled

\* A call has executed its action not at all before its check, once before it fails for the first
\* time, and at most twice.
TriesOf(label) ==
  IF label \in Ended \union {"check"} THEN {0} ELSE IF label = "action" THEN {1, 2} ELSE {1}

CallsTyped ==
  /\ sent \in [Calls -> Requests] /\ rejected \in [Calls -> BOOLEAN] /\ tries \in [Calls -> 0 .. 2]
  /\ \A c \in Calls : tries[c] \in TriesOf(pc[c])

RestTyped ==
  /\ up \in BOOLEAN /\ required \in Versions /\ faults \in 0 .. MaxFaults
  /\ lookup \in [pc : {"none", "asked", "storing"}, found : Versions]
  /\ healthy \in BOOLEAN /\ shown \in {"unknown", "operational", "degraded"}
  /\ boot \in [pc : {"load", "lookup", "check", "waiting", "done"}, sent : Requests]

-----------------------------------------------------------------------------
LEMMA RequestsTyped ==
  ASSUME version \in Versions
  PROVE  StatusRequest \in Requests /\ BusinessRequest \in Requests /\ Nothing \in Requests
<1>1. StatusReplies(version) \in SUBSET Replies /\ BusinessReplies(version) \in SUBSET Replies
  BY DEF StatusReplies, BusinessReplies, Replies
<1>2. 0 \in Versions
  BY BoundsAssumption DEF Versions
<1> QED BY <1>1, <1>2 DEF StatusRequest, BusinessRequest, Nothing, Requests

\* One call moves, or none.
LEMMA ExecuteTyped ==
  ASSUME IInv, CallsTyped, NEW c \in Calls, Execute(c), pc[c] \in Ended \union {"check"}
  PROVE  CallsTyped'
<1>1. BusinessRequest \in Requests /\ tries[c] = 0 /\ pc \in [Calls -> Labels]
  BY RequestsTyped DEF IInv, Typed, CallsTyped, TriesOf
<1>2. sent' \in [Calls -> Requests] /\ rejected' \in [Calls -> BOOLEAN] /\ tries' \in [Calls -> 0 .. 2]
  BY <1>1 DEF Execute, CallsTyped
<1>3. ASSUME NEW d \in Calls PROVE tries'[d] \in TriesOf(pc'[d])
  BY <1>1 DEF Execute, To, CallsTyped, TriesOf, Ended
<1> QED BY <1>2, <1>3 DEF CallsTyped

LEMMA EndTyped ==
  ASSUME IInv, CallsTyped, NEW c \in Calls, NEW label \in Ended, End(c, label) PROVE CallsTyped'
<1>1. Nothing \in Requests /\ pc \in [Calls -> Labels]
  BY RequestsTyped DEF IInv, Typed
<1>2. sent' \in [Calls -> Requests] /\ rejected' \in [Calls -> BOOLEAN] /\ tries' \in [Calls -> 0 .. 2]
  BY <1>1 DEF End, CallsTyped
<1>3. ASSUME NEW d \in Calls PROVE tries'[d] \in TriesOf(pc'[d])
  BY <1>1 DEF End, To, CallsTyped, TriesOf
<1> QED BY <1>2, <1>3 DEF CallsTyped

\* A call that keeps its tries.
LEMMA MoveTyped ==
  ASSUME IInv, CallsTyped, NEW c \in Calls, NEW label, To(c, label), tries[c] \in TriesOf(label),
         NEW request \in Requests, sent' = [sent EXCEPT ![c] = request], UNCHANGED tries,
         NEW flag \in BOOLEAN, rejected' \in {rejected, [rejected EXCEPT ![c] = flag]}
  PROVE  CallsTyped'
<1>1. pc \in [Calls -> Labels]
  BY DEF IInv, Typed
<1>2. sent' \in [Calls -> Requests] /\ rejected' \in [Calls -> BOOLEAN] /\ tries' \in [Calls -> 0 .. 2]
  BY DEF CallsTyped
<1>3. ASSUME NEW d \in Calls PROVE tries'[d] \in TriesOf(pc'[d])
  BY <1>1 DEF To, CallsTyped
<1> QED BY <1>2, <1>3 DEF CallsTyped

LEMMA CallsUnchangedTyped == ASSUME CallsTyped, UNCHANGED calls PROVE CallsTyped'
BY DEF CallsTyped, calls

LEMMA CallStartTyped == ASSUME IInv, CallsTyped, NEW c \in Calls, CallStart(c) PROVE CallsTyped'
<1>1. pc[c] \in Ended /\ tries[c] = 0 /\ StatusRequest \in Requests
  BY RequestsTyped DEF CallStart, CallsTyped, TriesOf, IInv, Typed
<1>2. CASE Execute(c)
  BY <1>1, <1>2, ExecuteTyped
<1>3. CASE To(c, "check") /\ sent' = [sent EXCEPT ![c] = StatusRequest] /\ UNCHANGED <<tries, rejected>>
  <2>1. tries[c] \in TriesOf("check") /\ TRUE \in BOOLEAN /\ rejected' \in {rejected, [rejected EXCEPT ![c] = TRUE]}
    BY <1>1, <1>3 DEF TriesOf
  <2> QED BY <1>1, <1>3, <2>1, MoveTyped
<1> QED BY <1>2, <1>3 DEF CallStart

LEMMA CheckDoneTyped == ASSUME IInv, CallsTyped, NEW c \in Calls, CheckDone(c) PROVE CallsTyped'
<1>1. pc[c] = "check"
  BY DEF CheckDone
<1>2. CASE Execute(c)
  BY <1>1, <1>2, ExecuteTyped
<1>3. CASE End(c, "skipped")
  BY <1>3, EndTyped DEF Ended
<1> QED BY <1>2, <1>3 DEF CheckDone

LEMMA ActionDoneTyped == ASSUME IInv, CallsTyped, NEW c \in Calls, ActionDone(c) PROVE CallsTyped'
<1>1. pc[c] = "action" /\ tries[c] \in {1, 2} /\ StatusRequest \in Requests /\ Nothing \in Requests
  BY RequestsTyped DEF ActionDone, CallsTyped, TriesOf, IInv, Typed, Ended
<1>2. CASE End(c, "done") \/ End(c, "failed")
  BY <1>2, EndTyped DEF Ended
<1>3. CASE /\ ~LastTry(c) /\ To(c, "refresh") /\ sent' = [sent EXCEPT ![c] = Nothing]
           /\ UNCHANGED tries /\ rejected' = [rejected EXCEPT ![c] = TRUE]
  <2>1. tries[c] \in TriesOf("refresh")
    BY <1>1, <1>3 DEF TriesOf, LastTry, Ended
  <2> QED BY <1>1, <1>3, <2>1, MoveTyped
<1>4. CASE /\ ~LastTry(c) /\ To(c, "recheck") /\ sent' = [sent EXCEPT ![c] = StatusRequest]
           /\ UNCHANGED <<tries, rejected>>
  <2>1. tries[c] \in TriesOf("recheck") /\ rejected' \in {rejected, [rejected EXCEPT ![c] = TRUE]}
    BY <1>1, <1>4 DEF TriesOf, LastTry, Ended
  <2> QED BY <1>1, <1>4, <2>1, MoveTyped
<1> QED BY <1>2, <1>3, <1>4 DEF ActionDone

LEMMA RecheckDoneTyped == ASSUME IInv, CallsTyped, NEW c \in Calls, RecheckDone(c) PROVE CallsTyped'
<1>1. pc[c] = "recheck" /\ tries[c] = 1 /\ Nothing \in Requests
  BY RequestsTyped DEF RecheckDone, CallsTyped, TriesOf, IInv, Typed, Ended
<1>2. CASE End(c, "failed")
  BY <1>2, EndTyped DEF Ended
<1>3. CASE Pause(c, "waiting")
  <2>1. tries[c] \in TriesOf("waiting") /\ rejected' \in {rejected, [rejected EXCEPT ![c] = TRUE]}
    BY <1>1, <1>3 DEF TriesOf, Ended, Pause
  <2> QED BY <1>1, <1>3, <2>1, MoveTyped DEF Pause
<1> QED BY <1>2, <1>3 DEF RecheckDone, AfterFailedRecheck

\* All calls start again, or those that wait are released.
LEMMA RestartTyped == ASSUME Restart PROVE CallsTyped'
<1>1. Nothing \in Requests
  BY BoundsAssumption DEF Nothing, Requests, Versions
<1> QED BY <1>1 DEF Restart, CallsTyped, TriesOf, Ended

LEMMA LookupEndsTyped ==
  ASSUME IInv, CallsTyped, LookupEnds PROVE CallsTyped'
<1>1. StatusRequest \in Requests /\ pc \in [Calls -> Labels]
  BY RequestsTyped DEF IInv, Typed
<1>2. CASE Restart
  BY <1>2, RestartTyped
<1>3. CASE LookupReleases
  <2>1. sent' \in [Calls -> Requests] /\ UNCHANGED <<tries, rejected>>
    BY <1>1, <1>3 DEF LookupReleases, CallsTyped
  <2>2. ASSUME NEW c \in Calls PROVE tries'[c] \in TriesOf(pc'[c])
    <3>1. tries'[c] = tries[c] /\ tries[c] \in TriesOf(pc[c]) /\ pc'[c] = IF pc[c] = "refresh" THEN "recheck" ELSE pc[c]
      BY <1>3 DEF LookupReleases, CallsTyped, Refreshed
    <3> QED BY <3>1 DEF TriesOf, Ended
  <2> QED BY <2>1, <2>2 DEF CallsTyped
<1>4. CASE RecoveryRejects
  <2>1. sent' \in [Calls -> Requests] /\ tries' \in [Calls -> 0 .. 2] /\ rejected' \in [Calls -> BOOLEAN]
    BY <1>1, <1>4 DEF RecoveryRejects, CallsTyped
  <2>2. ASSUME NEW c \in Calls PROVE tries'[c] \in TriesOf(pc'[c])
    <3>1. /\ tries'[c] = (IF pc[c] = "waiting" THEN 0 ELSE tries[c]) /\ tries[c] \in TriesOf(pc[c])
          /\ pc'[c] = IF pc[c] = "refresh" THEN "recheck" ELSE IF pc[c] = "waiting" THEN "failed" ELSE pc[c]
      BY <1>4 DEF RecoveryRejects, CallsTyped, Refreshed, Waiting
    <3> QED BY <3>1 DEF TriesOf, Ended
  <2> QED BY <2>1, <2>2 DEF CallsTyped
<1> QED BY <1>2, <1>3, <1>4 DEF LookupEnds

LEMMA RecoveryDoneTyped == ASSUME IInv, CallsTyped, RecoveryDone PROVE CallsTyped'
<1>1. BusinessRequest \in Requests /\ UNCHANGED rejected
  BY RequestsTyped DEF IInv, Typed, RecoveryDone
<1>2. sent' \in [Calls -> Requests]
  BY <1>1 DEF RecoveryDone, CallsTyped
<1>3. ASSUME NEW c \in Calls PROVE tries'[c] \in TriesOf(pc'[c]) /\ tries'[c] \in 0 .. 2
  <2>1. /\ tries'[c] = (IF pc[c] = "waiting" THEN tries[c] + 1 ELSE tries[c]) /\ tries[c] \in TriesOf(pc[c])
        /\ tries[c] \in 0 .. 2 /\ pc'[c] = IF pc[c] = "waiting" THEN "action" ELSE pc[c]
    BY DEF RecoveryDone, CallsTyped, Waiting
  <2> QED BY <2>1 DEF TriesOf, Ended
<1>4. tries' \in [Calls -> 0 .. 2]
  <2>1. tries' = [c \in Calls |-> IF c \in Waiting THEN tries[c] + 1 ELSE tries[c]]
    BY DEF RecoveryDone
  <2> QED BY <1>3, <2>1
<1> QED BY <1>1, <1>2, <1>3, <1>4 DEF CallsTyped

-----------------------------------------------------------------------------
\* The variables besides the calls, after a check and after a lookup.
LEMMA CheckRestTyped ==
  ASSUME RestTyped, \/ CheckPassed
                    \/ CheckFailed(FALSE) /\ UNCHANGED healthy
                    \/ CheckFailed(TRUE) /\ UNCHANGED healthy
  PROVE  /\ lookup' \in [pc : {"none", "asked", "storing"}, found : Versions]
         /\ healthy' \in BOOLEAN /\ shown' \in {"unknown", "operational", "degraded"}
<1>1. JoinedLookup \in [pc : {"none", "asked", "storing"}, found : Versions]
  BY BoundsAssumption DEF JoinedLookup, RestTyped, Versions
<1>2. lookup' \in {lookup, JoinedLookup}
  BY DEF CheckPassed, CheckFailed, Recover
<1> QED BY <1>1, <1>2 DEF CheckPassed, CheckFailed, Available, RestTyped

LEMMA LookupEndsRestTyped ==
  ASSUME IInv, RestTyped, LookupEnds
  PROVE  /\ lookup' \in [pc : {"none", "asked", "storing"}, found : Versions]
         /\ healthy' \in BOOLEAN /\ shown' \in {"unknown", "operational", "degraded"}
         /\ boot' \in [pc : {"load", "lookup", "check", "waiting", "done"}, sent : Requests]
<1>1. StatusRequest \in Requests /\ Nothing \in Requests /\ 0 \in Versions
  BY RequestsTyped, BoundsAssumption DEF IInv, Typed, Versions
<1>2. lookup' = NoLookup
  BY DEF LookupEnds, Restart, RecoveryRejects, LookupReleases
<1>3. healthy' \in BOOLEAN /\ shown' \in {shown, "unknown"}
  BY DEF LookupEnds, Restart, RecoveryRejects, LookupReleases, RestTyped
<1>4. boot' \in {[pc |-> "load", sent |-> Nothing], BootChecks, BootReleased, boot}
  BY DEF LookupEnds, Restart, RecoveryRejects, LookupReleases
<1>5. boot' \in [pc : {"load", "lookup", "check", "waiting", "done"}, sent : Requests]
  BY <1>1, <1>4 DEF BootChecks, BootReleased, RestTyped
<1> QED BY <1>1, <1>2, <1>3, <1>5 DEF NoLookup, RestTyped

LEMMA RestTypedStep == ASSUME IInv, StoredTyped, RestTyped, [Next]_vars PROVE RestTyped'
<1> USE BoundsAssumption DEF RestTyped
<1>1. Nothing \in Requests /\ JoinedLookup \in [pc : {"none", "asked", "storing"}, found : Versions] /\ 0 \in Versions
  BY RequestsTyped DEF IInv, Typed, JoinedLookup, Versions
<1>2. ASSUME NEW c \in Calls, CallStart(c) PROVE RestTyped'
  BY <1>2 DEF CallStart, game, health
<1>3. ASSUME NEW c \in Calls, CheckDone(c) \/ RecheckDone(c) PROVE RestTyped'
  <2>1. UNCHANGED <<up, required, faults, boot>>
    BY <1>3 DEF CheckDone, RecheckDone, game
  <2>2. CheckPassed \/ (CheckFailed(FALSE) /\ UNCHANGED healthy) \/ (CheckFailed(TRUE) /\ UNCHANGED healthy)
    BY <1>3 DEF CheckDone, RecheckDone
  <2> QED BY <2>1, <2>2, CheckRestTyped
<1>4. ASSUME NEW c \in Calls, ActionDone(c) PROVE RestTyped'
  <2>1. UNCHANGED <<up, required, faults, boot, shown>> /\ lookup' \in {lookup, JoinedLookup} /\ healthy' \in {healthy, FALSE}
    BY <1>4 DEF ActionDone, game, health
  <2> QED BY <1>1, <2>1
<1>5. CASE BootLoad
  BY <1>1, <1>5 DEF BootLoad, game, health
<1>6. CASE StartupChecked
  <2>1. UNCHANGED <<up, required, faults>>
        /\ (boot' = [pc |-> "done", sent |-> Nothing] \/ boot' = [pc |-> "waiting", sent |-> Nothing])
    BY <1>6 DEF StartupChecked, game
  <2>2. CheckPassed \/ (CheckFailed(TRUE) /\ UNCHANGED healthy)
    BY <1>6 DEF StartupChecked
  <2>3. /\ lookup' \in [pc : {"none", "asked", "storing"}, found : Versions]
        /\ healthy' \in BOOLEAN /\ shown' \in {"unknown", "operational", "degraded"}
    BY <2>2, CheckRestTyped
  <2>4. boot' \in [pc : {"load", "lookup", "check", "waiting", "done"}, sent : Requests]
    BY <1>1, <2>1
  <2>5. up' \in BOOLEAN /\ required' \in Versions /\ faults' \in 0 .. MaxFaults
    BY <2>1
  <2> QED BY <2>3, <2>4, <2>5
<1>7. CASE Crash
  <2>1. lookup' = NoLookup /\ boot' = [pc |-> "load", sent |-> Nothing] /\ healthy' = FALSE /\ shown' = "unknown"
    BY <1>7 DEF Crash, Restart
  <2>2. UNCHANGED <<up, required>> /\ faults < MaxFaults /\ faults' = faults + 1
    BY <1>7 DEF Crash, game
  <2>3. lookup' \in [pc : {"none", "asked", "storing"}, found : Versions]
    BY <1>1, <2>1 DEF NoLookup
  <2>4. boot' \in [pc : {"load", "lookup", "check", "waiting", "done"}, sent : Requests]
    BY <1>1, <2>1
  <2>5. up' \in BOOLEAN /\ required' \in Versions /\ faults' \in 0 .. MaxFaults
    BY <2>2
  <2> QED BY <2>1, <2>3, <2>4, <2>5
<1>8. CASE LookupAnswered \/ LookupStored
  <2>1. UNCHANGED <<up, required, faults>>
    BY <1>8 DEF LookupAnswered, LookupStored, game
  <2>2. CASE LookupEnds
    BY <2>1, <2>2, LookupEndsRestTyped
  <2>3. CASE /\ \E found \in 1 .. MaxVersion : lookup' = [pc |-> "storing", found |-> found]
             /\ UNCHANGED <<health, boot>>
    BY <2>1, <2>3 DEF health, Versions
  <2> QED BY <1>8, <2>2, <2>3 DEF LookupAnswered, LookupStored
<1>9. CASE PollAnswered
  BY <1>9 DEF PollAnswered, game, health
<1>10. CASE RecoveryDone
  BY <1>10 DEF RecoveryDone, Recovered, Available, BootReleased, game
<1>11. CASE GoDown \/ GoUp \/ Require \/ HealthExpires \/ UNCHANGED vars
  <2>1. UNCHANGED <<lookup, shown, boot>>
    BY <1>11 DEF GoDown, GoUp, Require, HealthExpires, vars, game, health
  <2>2. CASE GoDown
    <3>1. faults < MaxFaults /\ faults' = faults + 1
      BY <2>2 DEF GoDown
    <3>2. up' = FALSE /\ required' = required /\ healthy' = healthy
      BY <2>2 DEF GoDown, health
    <3>3. faults' \in 0 .. MaxFaults
      BY <3>1
    <3> HIDE DEF RestTyped
    <3>4. up' \in BOOLEAN /\ healthy' \in BOOLEAN /\ required' \in Versions
      BY <3>2 DEF RestTyped
    <3> QED BY <2>1, <3>3, <3>4 DEF RestTyped
  <2>3. CASE GoUp
    BY <2>1, <2>3 DEF GoUp, health
  <2>4. CASE Require
    BY <2>1, <2>4 DEF Require, Versions, health
  <2>5. CASE HealthExpires
    BY <2>1, <2>5 DEF HealthExpires, game
  <2>6. CASE UNCHANGED vars
    BY <2>1, <2>6 DEF vars, game, health
  <2> QED BY <1>11, <2>2, <2>3, <2>4, <2>5, <2>6
<1> QED BY <1>2, <1>3, <1>4, <1>5, <1>6, <1>7, <1>8, <1>9, <1>10, <1>11 DEF Next

LEMMA CallsTypedStep == ASSUME IInv, CallsTyped, [Next]_vars, version' \in Versions PROVE CallsTyped'
<1>1. ASSUME NEW c \in Calls, CallStart(c) \/ CheckDone(c) \/ ActionDone(c) \/ RecheckDone(c) PROVE CallsTyped'
  BY <1>1, CallStartTyped, CheckDoneTyped, ActionDoneTyped, RecheckDoneTyped
<1>2. CASE BootLoad \/ StartupChecked \/ PollAnswered \/ GoDown \/ GoUp \/ Require \/ HealthExpires \/ UNCHANGED vars
  <2>1. UNCHANGED calls
    BY <1>2 DEF BootLoad, StartupChecked, PollAnswered, GoDown, GoUp, Require, HealthExpires, vars
  <2> QED BY <2>1, CallsUnchangedTyped
<1>3. CASE Crash
  BY <1>3, RestartTyped DEF Crash
<1>4. CASE LookupAnswered \/ LookupStored
  BY <1>4, LookupEndsTyped, CallsUnchangedTyped DEF LookupAnswered, LookupStored
<1>5. CASE RecoveryDone
  BY <1>5, RecoveryDoneTyped
<1> QED BY <1>1, <1>2, <1>3, <1>4, <1>5 DEF Next

\* Every variable keeps its type; in particular no call executes its action more than twice
\* (garupaService.ts:173-222).
THEOREM TypeCorrect == Spec => []TypeOK
<1> DEFINE Inv == IInv /\ StoredTyped /\ RestTyped /\ CallsTyped
<1>1. Init => Inv
  <2> SUFFICES ASSUME Init PROVE Inv
    OBVIOUS
  <2>1. IInv /\ StoredTyped
    BY InitHolds, BoundsAssumption DEF Init, StoredTyped, NoLookup, Versions
  <2>2. Nothing \in Requests
    BY BoundsAssumption DEF Nothing, Requests, Versions
  <2>3. RestTyped
    <3>1. up \in BOOLEAN /\ healthy \in BOOLEAN /\ shown \in {"unknown", "operational", "degraded"}
      BY DEF Init
    <3>2. required \in Versions /\ faults \in 0 .. MaxFaults
      BY BoundsAssumption DEF Init, Versions
    <3>3. lookup \in [pc : {"none", "asked", "storing"}, found : Versions]
      BY BoundsAssumption DEF Init, NoLookup, Versions
    <3>4. boot \in [pc : {"load", "lookup", "check", "waiting", "done"}, sent : Requests]
      BY <2>2 DEF Init
    <3> QED BY <3>1, <3>2, <3>3, <3>4 DEF RestTyped
  <2>4. CallsTyped
    BY <2>2 DEF Init, CallsTyped, TriesOf, Ended
  <2> QED BY <2>1, <2>3, <2>4
<1>2. Inv /\ [Next]_vars => Inv'
  <2> SUFFICES ASSUME Inv, [Next]_vars PROVE Inv'
    OBVIOUS
  <2>1. StoredTyped'
    BY StoredTypedStep
  <2>2. IInv'
    BY <2>1, NextHolds
  <2>3. RestTyped'
    BY RestTypedStep
  <2>4. CallsTyped'
    BY <2>1, CallsTypedStep DEF StoredTyped
  <2> QED BY <2>1, <2>2, <2>3, <2>4
<1>3. Inv => TypeOK
  BY DEF IInv, Typed, StoredTyped, RestTyped, CallsTyped, TypeOK, Labels
<1> QED BY <1>1, <1>2, <1>3, PTL DEF Spec

=============================================================================
