------------------------------ MODULE CnSession -----------------------------
(***************************************************************************)
(* api/cnSession.ts: the login session of the CN server, shared by the     *)
(* monthly and the event rankings.  Calls of fetch are serialised by a     *)
(* chain of promises; each request carries a value derived from the nonce  *)
(* of the previous answer; whatever fails discards the session and starts  *)
(* a cooldown.                                                             *)
(*                                                                         *)
(* The chain is modelled by tickets: the n-th call waits for the promise   *)
(* of call n - 1 and resolves its own when it ends.  The server numbers    *)
(* the nonces it issues.                                                   *)
(***************************************************************************)
EXTENDS Integers

CONSTANTS
  Callers,      \* tasks that fetch CN rankings
  Versions,     \* client versions they may ask for
  RetryDelay,   \* GARUPA_CN_LOGIN_RETRY_MS
  MaxCalls,     \* bound: calls of fetch
  MaxRestarts,  \* bound: restarts of the process
  MaxTime       \* bound: the clock

ASSUME RetryDelayAssumption == RetryDelay \in Nat
ASSUME BoundsAssumption == MaxCalls \in Nat /\ MaxRestarts \in Nat /\ MaxTime \in Nat

VARIABLES
  now,         \* Date.now
  session,     \* this.session
  retryAfter,  \* this.retryAfter
  tail,        \* this.queue is the promise of this ticket
  released,    \* tickets whose promise is resolved
  call,        \* where fetch stands for each caller, with its locals
  issued,      \* server: nonces issued so far
  expected,    \* server: the nonce the next request must carry
  failedAt,    \* history: when the last request failed, -1 when none did
  restarts

server == <<issued, expected>>
vars == <<now, session, retryAfter, tail, released, call, server, failedAt, restarts>>

NoSession == [version |-> 0, nonce |-> 0]
Idle == [pc |-> "idle", ticket |-> 0, version |-> 0, attempts |-> 0, nonce |-> 0]
Queued(t, v) == [pc |-> "queued", ticket |-> t, version |-> v, attempts |-> 0, nonce |-> 0]
LoginStages == {"application", "cipher", "sdk", "game"}
Inside == {c \in Callers : call[c].pc \in LoginStages \union {"data"}}

-----------------------------------------------------------------------------
FaultyKeepsSession(t) == retryAfter' = t + RetryDelay /\ UNCHANGED session

\* invalidate, at time t
Invalidated(t) == session' = NoSession /\ retryAfter' = t + RetryDelay

FaultyReleasedWithSession(c) ==
  IF session = NoSession THEN released ELSE released \union {call[c].ticket}

\* finally: the promise of this call is resolved, however the call ends.
Released(c) == released \union {call[c].ticket}

Leave(c) ==
  /\ released' = Released(c) /\ call' = [call EXCEPT ![c] = Idle]
  /\ UNCHANGED <<tail, restarts>>

\* catch: what fails during the cooldown does not prolong it.
Caught(t) == IF t >= retryAfter THEN Invalidated(t) ELSE UNCHANGED <<session, retryAfter>>

\* A request of the login or for the data fails or its answer is not usable.
Fail(c) == Caught(now) /\ failedAt' = now /\ Leave(c) /\ UNCHANGED now

-----------------------------------------------------------------------------
\* fetch is called: the call queues behind the latest one.
Fetch(c) ==
  /\ call[c].pc = "idle" /\ tail < MaxCalls /\ tail' = tail + 1
  /\ \E v \in Versions : call' = [call EXCEPT ![c] = Queued(tail + 1, v)]
  /\ UNCHANGED <<now, session, retryAfter, released, server, failedAt, restarts>>

FaultyTurn(c) == call[c].pc = "queued"

Turn(c) == call[c].pc = "queued" /\ call[c].ticket - 1 \in released

\* During the cooldown the call fails at once.  The clock is read again in the
\* handler: at the very end of the cooldown it may have moved on.
Refuse(c) ==
  /\ Turn(c) /\ now < retryAfter
  /\ now' \in {now, now + 1} /\ now' <= MaxTime
  /\ Caught(now') /\ Leave(c) /\ UNCHANGED <<server, failedAt>>

Sending(c, nonce) == call' = [call EXCEPT ![c].pc = "data", ![c].nonce = nonce]

\* A session of another client version is not used; it is replaced by a login.
Begin(c) ==
  /\ Turn(c) /\ now >= retryAfter
  /\ IF session # NoSession /\ session.version = call[c].version
     THEN Sending(c, session.nonce)
     ELSE call' = [call EXCEPT ![c].pc = "application"]
  /\ UNCHANGED <<now, session, retryAfter, tail, released, server, failedAt, restarts>>

\* The stages of login before the game itself.
NextStage == [application |-> "cipher", cipher |-> "sdk", sdk |-> "game"]

LoginStep(c) ==
  /\ call[c].pc \in DOMAIN NextStage
  /\ \/ /\ call' = [call EXCEPT ![c].pc = NextStage[call[c].pc]]
        /\ UNCHANGED <<now, session, retryAfter, tail, released, failedAt, restarts>>
     \/ Fail(c)
  /\ UNCHANGED server

MayRetry(c) == call[c].attempts < 3

\* The SDK rejects the password's key and sends a new one (code -662).
SdkNewKey(c) ==
  /\ call[c].pc = "sdk"
  /\ \/ /\ MayRetry(c) /\ call' = [call EXCEPT ![c].attempts = @ + 1]
        /\ UNCHANGED <<now, session, retryAfter, tail, released, failedAt, restarts>>
     \/ ~MayRetry(c) /\ Fail(c)
  /\ UNCHANGED server

Issue == issued' = issued + 1 /\ expected' = issued + 1

\* user/login: the server starts a new chain of nonces, unless it refuses; the
\* answer may be incomplete or not arrive.  The data request follows at once.
GameLogin(c) ==
  /\ call[c].pc = "game"
  /\ \/ /\ Issue /\ session' = [version |-> call[c].version, nonce |-> issued + 1]
        /\ Sending(c, issued + 1)
        /\ UNCHANGED <<now, retryAfter, tail, released, failedAt, restarts>>
     \/ Issue /\ Fail(c)
     \/ Fail(c) /\ UNCHANGED server

Advanced(nonce) == [session EXCEPT !.nonce = nonce]

\* The data request is answered.  The server accepts the expected nonce only.
DataAccepted(c) ==
  /\ call[c].pc = "data" /\ call[c].nonce = expected
  /\ \/ Issue /\ session' = Advanced(issued + 1)
     \/ UNCHANGED <<server, session>>              \* an answer without a nonce
  /\ Leave(c) /\ UNCHANGED <<now, retryAfter, failedAt>>

\* Accepted, but the answer is lost or cannot be decrypted.
DataLost(c) ==
  /\ call[c].pc = "data" /\ call[c].nonce = expected
  /\ Issue /\ Fail(c)

\* An error status, whose nonce is ignored, or no connection at all.
DataRefused(c) ==
  /\ call[c].pc = "data"
  /\ \/ /\ Invalidated(now) /\ failedAt' = now /\ Leave(c) /\ UNCHANGED now
     \/ Fail(c)
  /\ Issue \/ UNCHANGED server

-----------------------------------------------------------------------------
\* Nothing of the session outlives the process, the cooldown neither.
Restart ==
  /\ restarts < MaxRestarts /\ restarts' = restarts + 1
  /\ session' = NoSession /\ retryAfter' = 0 /\ failedAt' = -1
  /\ call' = [c \in Callers |-> Idle] /\ released' = 0 .. tail
  /\ UNCHANGED <<now, tail, server>>

Tick ==
  /\ now < MaxTime /\ now' = now + 1
  /\ UNCHANGED <<session, retryAfter, tail, released, call, server, failedAt, restarts>>

Init ==
  /\ now = 0 /\ session = NoSession /\ retryAfter = 0
  /\ tail = 0 /\ released = {0} /\ call = [c \in Callers |-> Idle]
  /\ issued = 0 /\ expected = 0 /\ failedAt = -1 /\ restarts = 0

Answer(c) ==
  \/ LoginStep(c) \/ SdkNewKey(c) \/ GameLogin(c)
  \/ DataAccepted(c) \/ DataLost(c) \/ DataRefused(c)

Next ==
  \/ \E c \in Callers : Fetch(c) \/ Refuse(c) \/ Begin(c) \/ Answer(c)
  \/ Restart \/ Tick

Spec == Init /\ [][Next]_vars

\* Every request is answered or times out, and a resolved promise lets the next
\* call go on.  The clock need not move and nobody need call.
Fairness ==
  \A c \in Callers : WF_vars(Answer(c)) /\ WF_vars(Refuse(c) \/ Begin(c))

FairSpec == Spec /\ Fairness

-----------------------------------------------------------------------------
Nonces == 0 .. 2 * MaxCalls

\* Every variable keeps its type; a login tries the SDK at most four times.
TypeOK ==
  /\ now \in 0 .. MaxTime /\ retryAfter \in 0 .. MaxTime + RetryDelay
  /\ session \in [version : Versions \union {0}, nonce : Nonces]
  /\ tail \in 0 .. MaxCalls /\ released \subseteq 0 .. MaxCalls
  /\ call \in [Callers -> [pc : {"idle", "queued", "data"} \union LoginStages,
                           ticket : 0 .. MaxCalls, version : Versions \union {0},
                           attempts : 0 .. 3, nonce : Nonces]]
  /\ issued \in Nonces /\ expected \in Nonces
  /\ failedAt \in -1 .. MaxTime /\ restarts \in 0 .. MaxRestarts

\* Calls are served one at a time and in the order of their arrival: whoever is
\* inside came before everyone else who is queued or inside (lines 449-455).
ServedInOrder ==
  \A c \in Inside, d \in Callers :
    d # c /\ call[d].pc # "idle" => call[c].ticket < call[d].ticket

\* A data request carries the nonce the server expects: none is reused after the
\* server went on, none is skipped, whatever failed before ("avoid reusing a
\* nonce", line 454).
NonceInStep == \A c \in Callers : call[c].pc = "data" => call[c].nonce = expected

\* A session that is kept can be used: its nonce is the one the server expects
\* (lines 466-476).
SessionUsable == session # NoSession /\ Inside = {} => session.nonce = expected

\* After a failed request no request is sent before the cooldown has passed
\* (lines 179-182, 457, 479).
CooldownRespected ==
  Inside # {} => failedAt = -1 \/ now >= failedAt + RetryDelay

\* Every call of fetch ends, whatever the calls before it ran into (line 482).
CallsEnd == \A c \in Callers : (call[c].pc = "queued") ~> (call[c].pc = "idle")

=============================================================================
