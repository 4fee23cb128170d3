-------------------------- MODULE CnSession_proofs --------------------------
(***************************************************************************)
(* For every set of callers and versions, every cooldown and every bound:  *)
(* the queue serves one call at a time in the order of arrival, requests   *)
(* carry the nonce the server expects, and the cooldown is respected.      *)
(*                                                                         *)
(* The resolved promises form an initial segment of the tickets (Queue),   *)
(* which makes whoever is inside the only one.  With nobody else inside, a *)
(* step that moves the server's nonce on either moves the session on with  *)
(* it or discards it (Chain).                                              *)
(***************************************************************************)
EXTENDS CnSession, TLAPS

Stages == {"idle", "queued", "data"} \union LoginStages

\* The part of the types the argument needs.
Typed ==
  /\ now \in Int /\ retryAfter \in Int /\ failedAt \in Int
  /\ tail \in Nat /\ issued \in Int /\ expected \in Int
  /\ session \in [version : Versions \union {0}, nonce : Int]
  /\ call \in [Callers -> [pc : Stages, ticket : Int, version : Versions \union {0},
                           attempts : Int, nonce : Int]]

\* The promises resolved so far are those of the first calls.
Prefix == 0 \in released /\ \A t \in released : t \in 0 .. tail /\ 0 .. t \subseteq released

\* A call that has not ended has a ticket of its own whose promise is pending;
\* inside are only calls whose turn has come.
Tickets ==
  \A c \in Callers : call[c].pc # "idle" =>
    /\ call[c].ticket \in 1 .. tail /\ call[c].ticket \notin released
    /\ \A d \in Callers : d # c /\ call[d].pc # "idle" => call[d].ticket # call[c].ticket
    /\ call[c].pc # "queued" => call[c].ticket - 1 \in released

Queue == Prefix /\ Tickets

Chain == NonceInStep /\ (session # NoSession => session.nonce = expected)

Cooldown ==
  /\ Inside # {} => now >= retryAfter
  /\ failedAt # -1 => failedAt <= now /\ retryAfter >= failedAt + RetryDelay

IInv == Typed /\ Queue /\ Chain /\ Cooldown

-----------------------------------------------------------------------------
(* The queue *)

LEMMA InsideIsActive ==
  ASSUME NEW c \in Inside
  PROVE  c \in Callers /\ call[c].pc # "idle" /\ call[c].pc # "queued"
BY DEF Inside, LoginStages

\* Whoever is inside came first.
LEMMA InsideIsFirst ==
  ASSUME Typed, Queue, NEW c \in Callers, call[c].pc # "idle", call[c].ticket - 1 \in released,
         NEW d \in Callers, d # c, call[d].pc # "idle"
  PROVE  call[c].ticket < call[d].ticket
<1>1. call[c].ticket \in Int /\ call[d].ticket \in 1 .. tail /\ call[d].ticket \notin released
  BY DEF Typed, Queue, Tickets
<1>2. 0 .. (call[c].ticket - 1) \subseteq released
  BY DEF Queue, Prefix
<1>3. call[d].ticket \notin 0 .. (call[c].ticket - 1)
  BY <1>1, <1>2
<1>4. call[d].ticket # call[c].ticket
  BY DEF Queue, Tickets
<1> QED BY <1>1, <1>3, <1>4

\* There is one place inside, and nobody whose turn has come finds it taken.
LEMMA Alone ==
  ASSUME Typed, Queue, NEW c \in Callers, c \in Inside \/ Turn(c),
         NEW d \in Inside
  PROVE  d = c
<1> SUFFICES ASSUME d # c PROVE FALSE
  OBVIOUS
<1>1. call[c].pc # "idle" /\ call[c].ticket - 1 \in released
  BY InsideIsActive DEF Turn, Queue, Tickets
<1>2. d \in Callers /\ call[d].pc # "idle" /\ call[d].ticket - 1 \in released
  BY InsideIsActive DEF Queue, Tickets
<1>3. call[c].ticket < call[d].ticket /\ call[d].ticket < call[c].ticket
  BY <1>1, <1>2, InsideIsFirst
<1>4. call[c].ticket \in Int /\ call[d].ticket \in Int
  BY <1>2 DEF Typed
<1> QED BY <1>3, <1>4

\* A call ends: its promise continues the initial segment.
LEMMA LeaveKeepsQueue ==
  ASSUME Typed, Queue, NEW c \in Callers, c \in Inside \/ Turn(c), Leave(c)
  PROVE  /\ Queue'
         /\ call' \in [Callers -> [pc : Stages, ticket : Int, version : Versions \union {0},
                                   attempts : Int, nonce : Int]]
         /\ Inside' = {}
         /\ tail' \in Nat
         /\ \A d \in Callers : call'[d].pc # "data"
<1>1. call[c].pc # "idle" /\ call[c].ticket - 1 \in released
  BY InsideIsActive DEF Turn, Queue, Tickets
<1>2. call[c].ticket \in 1 .. tail /\ tail \in Nat
  BY <1>1 DEF Queue, Tickets, Typed
<1>3. /\ call' = [call EXCEPT ![c] = Idle] /\ tail' = tail
      /\ released' = released \union {call[c].ticket}
  BY DEF Leave, Released
<1>4. call' \in [Callers -> [pc : Stages, ticket : Int, version : Versions \union {0},
                             attempts : Int, nonce : Int]]
  <2>1. Idle \in [pc : Stages, ticket : Int, version : Versions \union {0},
                  attempts : Int, nonce : Int]
    BY DEF Idle, Stages
  <2> QED BY <1>3, <2>1 DEF Typed
<1>5. call'[c].pc = "idle" /\ \A d \in Callers : d # c => call'[d] = call[d]
  BY <1>3 DEF Typed, Idle
<1>6. Prefix'
  <2>1. 0 \in released'
    BY <1>3 DEF Queue, Prefix
  <2>2. ASSUME NEW t \in released' PROVE t \in 0 .. tail' /\ 0 .. t \subseteq released'
    <3>1. CASE t \in released
      BY <3>1, <1>3 DEF Queue, Prefix
    <3>2. CASE t = call[c].ticket
      <4>1. 0 .. (t - 1) \subseteq released
        BY <3>2, <1>1 DEF Queue, Prefix
      <4> QED BY <4>1, <3>2, <1>2, <1>3
    <3> QED BY <3>1, <3>2, <1>3
  <2> QED BY <2>1, <2>2 DEF Prefix
<1>7. Tickets'
  <2> SUFFICES ASSUME NEW d \in Callers, call'[d].pc # "idle"
               PROVE  /\ call'[d].ticket \in 1 .. tail' /\ call'[d].ticket \notin released'
                      /\ \A e \in Callers : e # d /\ call'[e].pc # "idle"
                                              => call'[e].ticket # call'[d].ticket
                      /\ call'[d].pc # "queued" => call'[d].ticket - 1 \in released'
    BY DEF Tickets
  <2>1. d # c /\ call'[d] = call[d]
    BY <1>5
  <2>2. call[d].ticket # call[c].ticket
    BY <2>1, <1>1 DEF Queue, Tickets
  <2>3. \A e \in Callers : call'[e].pc # "idle" => call'[e] = call[e]
    BY <1>5
  <2> QED BY <2>1, <2>2, <2>3, <1>3 DEF Queue, Tickets
<1>8. \A d \in Callers : d \in Inside => d = c
  BY Alone
<1>9. Inside' = {} /\ \A d \in Callers : call'[d].pc # "data"
  BY <1>5, <1>8 DEF Inside, LoginStages
<1> QED BY <1>2, <1>3, <1>4, <1>6, <1>7, <1>9 DEF Queue

\* A call goes on inside, or enters: it keeps its ticket, and nobody else is there.
LEMMA MoveKeepsQueue ==
  ASSUME Typed, Queue, NEW c \in Callers, c \in Inside \/ Turn(c),
         NEW e \in [pc : Stages, ticket : Int, version : Versions \union {0},
                    attempts : Int, nonce : Int],
         e.pc \in LoginStages \union {"data"}, e.ticket = call[c].ticket,
         call' = [call EXCEPT ![c] = e], UNCHANGED <<tail, released>>
  PROVE  /\ Queue'
         /\ call' \in [Callers -> [pc : Stages, ticket : Int, version : Versions \union {0},
                                   attempts : Int, nonce : Int]]
         /\ call'[c] = e
         /\ \A d \in Callers : d # c => call'[d].pc # "data"
<1>1. call[c].pc # "idle" /\ call[c].ticket - 1 \in released
  BY InsideIsActive DEF Turn, Queue, Tickets
<1>2. call'[c] = e /\ \A d \in Callers : d # c => call'[d] = call[d]
  BY DEF Typed
<1>3. call' \in [Callers -> [pc : Stages, ticket : Int, version : Versions \union {0},
                             attempts : Int, nonce : Int]]
  BY DEF Typed
<1>4. Prefix'
  BY DEF Queue, Prefix
<1>5. \A d \in Callers : call'[d].ticket = call[d].ticket
                         /\ (call'[d].pc # "idle" => call[d].pc # "idle")
  BY <1>1, <1>2
<1>6. Tickets'
  <2> SUFFICES ASSUME NEW d \in Callers, call'[d].pc # "idle"
               PROVE  /\ call'[d].ticket \in 1 .. tail' /\ call'[d].ticket \notin released'
                      /\ \A f \in Callers : f # d /\ call'[f].pc # "idle"
                                              => call'[f].ticket # call'[d].ticket
                      /\ call'[d].pc # "queued" => call'[d].ticket - 1 \in released'
    BY DEF Tickets
  <2>1. call[d].pc # "idle" /\ call'[d].ticket = call[d].ticket
    BY <1>5
  <2>2. call'[d].ticket \in 1 .. tail' /\ call'[d].ticket \notin released'
    BY <2>1 DEF Queue, Tickets
  <2>3. \A f \in Callers : f # d /\ call'[f].pc # "idle" => call'[f].ticket # call'[d].ticket
    BY <2>1, <1>5 DEF Queue, Tickets
  <2>4. call'[d].pc # "queued" => call'[d].ticket - 1 \in released'
    <3>1. CASE d = c
      BY <3>1, <1>1, <1>2
    <3>2. CASE d # c
      BY <3>2, <2>1, <1>2 DEF Queue, Tickets
    <3> QED BY <3>1, <3>2
  <2> QED BY <2>2, <2>3, <2>4
<1>7. ASSUME NEW d \in Callers, d # c PROVE call'[d].pc # "data"
  <2>1. d \notin Inside
    BY <1>7, Alone
  <2> QED BY <2>1, <1>7, <1>2 DEF Inside
<1> QED BY <1>2, <1>3, <1>4, <1>6, <1>7 DEF Queue

-----------------------------------------------------------------------------
(* The session *)

LEMMA InsideMayAct ==
  ASSUME Cooldown, NEW c \in Inside
  PROVE  now >= retryAfter
BY DEF Cooldown

\* Whoever is inside fails: the session is discarded, the cooldown starts.
LEMMA FailHolds ==
  ASSUME IInv, NEW c \in Inside, Fail(c), issued' \in Int, expected' \in Int
  PROVE  IInv'
<1>1. c \in Callers
  BY DEF Inside
<1>2. /\ Queue' /\ Inside' = {} /\ tail' \in Nat /\ \A d \in Callers : call'[d].pc # "data"
      /\ call' \in [Callers -> [pc : Stages, ticket : Int, version : Versions \union {0},
                                attempts : Int, nonce : Int]]
  BY <1>1, LeaveKeepsQueue DEF IInv, Fail
<1>3. now >= retryAfter
  BY InsideMayAct DEF IInv
<1>4. /\ session' = NoSession /\ retryAfter' = now + RetryDelay
      /\ failedAt' = now /\ now' = now
  BY <1>3 DEF Fail, Caught, Invalidated
<1>5. Typed'
  <2>1. session' \in [version : Versions \union {0}, nonce : Int]
    BY <1>4 DEF NoSession
  <2>2. now' \in Int /\ retryAfter' \in Int /\ failedAt' \in Int
    BY <1>4, RetryDelayAssumption DEF IInv, Typed
  <2> QED BY <1>2, <2>1, <2>2 DEF Typed
<1>6. Chain'
  BY <1>2, <1>4 DEF Chain, NonceInStep, NoSession
<1>7. Cooldown'
  BY <1>2, <1>4, RetryDelayAssumption DEF Cooldown, IInv, Typed
<1> QED BY <1>2, <1>5, <1>6, <1>7 DEF IInv

LEMMA RefuseHolds ==
  ASSUME IInv, NEW c \in Callers, Refuse(c)
  PROVE  IInv'
<1>1. Turn(c) /\ now < retryAfter /\ now' \in {now, now + 1} /\ Caught(now') /\ Leave(c)
      /\ UNCHANGED <<issued, expected, failedAt>>
  BY DEF Refuse, server
<1>2. /\ Queue' /\ Inside' = {} /\ tail' \in Nat /\ \A d \in Callers : call'[d].pc # "data"
      /\ call' \in [Callers -> [pc : Stages, ticket : Int, version : Versions \union {0},
                                attempts : Int, nonce : Int]]
  BY <1>1, LeaveKeepsQueue DEF IInv
<1>3. \/ session' = NoSession /\ retryAfter' = now' + RetryDelay
      \/ session' = session /\ retryAfter' = retryAfter
  BY <1>1 DEF Caught, Invalidated
<1>4. now \in Int /\ now' \in Int /\ retryAfter \in Int /\ failedAt \in Int /\ now <= now'
  BY <1>1 DEF IInv, Typed
<1>5. Typed'
  <2>1. NoSession \in [version : Versions \union {0}, nonce : Int]
    BY DEF NoSession
  <2>2. session' \in [version : Versions \union {0}, nonce : Int]
    BY <1>3, <2>1 DEF IInv, Typed
  <2>3. retryAfter' \in Int
    BY <1>3, <1>4, RetryDelayAssumption
  <2>4. issued' \in Int /\ expected' \in Int /\ failedAt' \in Int
    BY <1>1 DEF IInv, Typed
  <2> QED BY <1>2, <1>4, <2>2, <2>3, <2>4 DEF Typed
<1>6. Chain'
  <2>1. session' # NoSession => session' = session
    BY <1>3
  <2>2. NoSession' = NoSession
    BY DEF NoSession
  <2> QED BY <1>1, <1>2, <2>1, <2>2 DEF Chain, NonceInStep, IInv
<1>7. Cooldown'
  BY <1>1, <1>2, <1>3, <1>4, RetryDelayAssumption DEF Cooldown, IInv
<1> QED BY <1>2, <1>5, <1>6, <1>7 DEF IInv

\* A call goes on inside, or enters, and the rest of the state keeps its place.
LEMMA MoveHolds ==
  ASSUME IInv, NEW c \in Callers, c \in Inside \/ Turn(c), now >= retryAfter,
         NEW e \in [pc : Stages, ticket : Int, version : Versions \union {0},
                    attempts : Int, nonce : Int],
         e.pc \in LoginStages \union {"data"}, e.ticket = call[c].ticket,
         call' = [call EXCEPT ![c] = e], UNCHANGED <<now, retryAfter, tail, released, failedAt>>,
         issued' \in Int, expected' \in Int,
         session' \in [version : Versions \union {0}, nonce : Int],
         session' # NoSession => session'.nonce = expected',
         e.pc = "data" => e.nonce = expected'
  PROVE  IInv'
<1>1. /\ Queue' /\ call'[c] = e /\ \A d \in Callers : d # c => call'[d].pc # "data"
      /\ call' \in [Callers -> [pc : Stages, ticket : Int, version : Versions \union {0},
                                attempts : Int, nonce : Int]]
  BY MoveKeepsQueue DEF IInv
<1>2. Typed'
  BY <1>1 DEF IInv, Typed
<1>3. Chain'
  BY <1>1 DEF Chain, NonceInStep, NoSession
<1>4. Cooldown'
  BY DEF IInv, Cooldown
<1> QED BY <1>1, <1>2, <1>3, <1>4 DEF IInv

-----------------------------------------------------------------------------
(* The actions *)

LEMMA InitHolds == Init => IInv
<1> SUFFICES ASSUME Init PROVE IInv
  OBVIOUS
<1>1. call = [c \in Callers |-> Idle] /\ \A c \in Callers : call[c].pc = "idle"
  BY DEF Init, Idle
<1>2. Inside = {}
  BY <1>1 DEF Inside, LoginStages
<1>3. Typed
  <2>1. Idle \in [pc : Stages, ticket : Int, version : Versions \union {0},
                  attempts : Int, nonce : Int]
    BY DEF Idle, Stages
  <2> QED BY <1>1, <2>1 DEF Init, Typed, NoSession
<1>4. Queue
  BY <1>1 DEF Init, Queue, Prefix, Tickets
<1>5. Chain /\ Cooldown
  BY <1>1, <1>2 DEF Init, Chain, NonceInStep, Cooldown
<1> QED BY <1>3, <1>4, <1>5 DEF IInv

LEMMA RestartHolds == ASSUME IInv, Restart PROVE IInv'
<1>1. call' = [c \in Callers |-> Idle] /\ \A c \in Callers : call'[c].pc = "idle"
  BY DEF Restart, Idle
<1>2. Inside' = {}
  BY <1>1 DEF Inside, LoginStages
<1>3. Typed'
  <2>1. Idle \in [pc : Stages, ticket : Int, version : Versions \union {0},
                  attempts : Int, nonce : Int]
    BY DEF Idle, Stages
  <2>2. session' \in [version : Versions \union {0}, nonce : Int]
    BY DEF Restart, NoSession
  <2> QED BY <1>1, <2>1, <2>2 DEF Restart, server, IInv, Typed
<1>4. Queue'
  BY <1>1 DEF Restart, IInv, Typed, Queue, Prefix, Tickets
<1>5. Chain' /\ Cooldown'
  BY <1>1, <1>2 DEF Restart, Chain, NonceInStep, Cooldown, NoSession
<1> QED BY <1>3, <1>4, <1>5 DEF IInv

\* A new call queues behind all others.
LEMMA FetchHolds ==
  ASSUME IInv, NEW c \in Callers, Fetch(c)
  PROVE  IInv'
<1>1. PICK v \in Versions : call' = [call EXCEPT ![c] = Queued(tail + 1, v)]
  BY DEF Fetch
<1> DEFINE new == Queued(tail + 1, v)
<1>2. tail \in Nat /\ tail' = tail + 1 /\ released' = released
  BY DEF Fetch, IInv, Typed
<1>3. new \in [pc : Stages, ticket : Int, version : Versions \union {0},
               attempts : Int, nonce : Int]
      /\ new.pc = "queued" /\ new.ticket = tail + 1
  BY <1>2 DEF Queued, Stages
<1> HIDE DEF new
<1>4. call' = [call EXCEPT ![c] = new]
  BY <1>1 DEF new
<1>5. call'[c] = new /\ \A d \in Callers : d # c => call'[d] = call[d]
  BY <1>4 DEF IInv, Typed
<1>6. Typed'
  BY <1>2, <1>3, <1>4 DEF Fetch, server, IInv, Typed
<1>7. Prefix'
  BY <1>2 DEF IInv, Queue, Prefix
<1>8. Tickets'
  <2>1. \A t \in released : t <= tail
    BY <1>2 DEF IInv, Queue, Prefix
  <2> SUFFICES ASSUME NEW d \in Callers, call'[d].pc # "idle"
               PROVE  /\ call'[d].ticket \in 1 .. tail' /\ call'[d].ticket \notin released'
                      /\ \A f \in Callers : f # d /\ call'[f].pc # "idle"
                                              => call'[f].ticket # call'[d].ticket
                      /\ call'[d].pc # "queued" => call'[d].ticket - 1 \in released'
    BY DEF Tickets
  <2>2. \A f \in Callers : f # c /\ call[f].pc # "idle" => call[f].ticket <= tail
    BY <1>2 DEF IInv, Queue, Tickets
  <2>3. CASE d = c
    <3>1. call'[d].ticket = tail + 1 /\ call'[d].pc = "queued"
      BY <2>3, <1>3, <1>5
    <3>2. tail + 1 \notin released
      BY <2>1, <1>2
    <3>3. \A f \in Callers : f # d /\ call'[f].pc # "idle" => call'[f].ticket # tail + 1
      BY <2>2, <2>3, <1>2, <1>5
    <3> QED BY <3>1, <3>2, <3>3, <1>2
  <2>4. CASE d # c
    <3>1. call'[d] = call[d] /\ call[d].pc # "idle"
      BY <2>4, <1>5
    <3>2. call[d].ticket \in 1 .. tail /\ call[d].ticket \notin released
      BY <3>1 DEF IInv, Queue, Tickets
    <3>3. \A f \in Callers : f # d /\ call'[f].pc # "idle" => call'[f].ticket # call[d].ticket
      BY <3>1, <3>2, <1>2, <1>3, <1>5 DEF IInv, Queue, Tickets
    <3>4. call[d].pc # "queued" => call[d].ticket - 1 \in released
      BY <3>1 DEF IInv, Queue, Tickets
    <3> QED BY <3>1, <3>2, <3>3, <3>4, <1>2
  <2> QED BY <2>3, <2>4
<1>9. Chain' /\ Cooldown'
  <2>1. Inside' \subseteq Inside
    BY <1>3, <1>5 DEF Inside, LoginStages
  <2>2. \A d \in Callers : call'[d].pc = "data" => call'[d] = call[d]
    BY <1>3, <1>5
  <2>3. UNCHANGED <<now, session, retryAfter, issued, expected, failedAt>>
    BY DEF Fetch, server
  <2> QED BY <2>1, <2>2, <2>3 DEF IInv, Chain, NonceInStep, Cooldown, NoSession
<1> QED BY <1>6, <1>7, <1>8, <1>9 DEF IInv, Queue

LEMMA BeginHolds ==
  ASSUME IInv, NEW c \in Callers, Begin(c)
  PROVE  IInv'
<1>1. Turn(c) /\ now >= retryAfter
      /\ UNCHANGED <<now, session, retryAfter, tail, released, issued, expected, failedAt>>
  BY DEF Begin, server
<1>2. session' \in [version : Versions \union {0}, nonce : Int]
      /\ (session' # NoSession => session'.nonce = expected')
      /\ issued' \in Int /\ expected' \in Int
  BY <1>1 DEF IInv, Typed, Chain, NoSession
<1>3. CASE session # NoSession /\ session.version = call[c].version
  <2> DEFINE e == [[call[c] EXCEPT !.pc = "data"] EXCEPT !.nonce = session.nonce]
  <2>1. e \in [pc : Stages, ticket : Int, version : Versions \union {0},
               attempts : Int, nonce : Int]
        /\ e.pc = "data" /\ e.ticket = call[c].ticket /\ e.nonce = session.nonce
    BY DEF IInv, Typed, Stages
  <2>2. e.nonce = expected'
    BY <1>1, <1>3, <2>1 DEF IInv, Chain
  <2>3. call' = [call EXCEPT ![c] = e]
    BY <1>3 DEF Begin, Sending, IInv, Typed
  <2> HIDE DEF e
  <2> QED BY <1>1, <1>2, <2>1, <2>2, <2>3, MoveHolds
<1>4. CASE ~(session # NoSession /\ session.version = call[c].version)
  <2> DEFINE e == [call[c] EXCEPT !.pc = "application"]
  <2>1. e \in [pc : Stages, ticket : Int, version : Versions \union {0},
               attempts : Int, nonce : Int]
        /\ e.pc = "application" /\ e.ticket = call[c].ticket
    BY DEF IInv, Typed, Stages, LoginStages
  <2>2. call' = [call EXCEPT ![c] = e]
    BY <1>4 DEF Begin, IInv, Typed
  <2>3. e.pc \in LoginStages
    BY <2>1 DEF LoginStages
  <2> HIDE DEF e
  <2> QED BY <1>1, <1>2, <2>1, <2>2, <2>3, MoveHolds
<1> QED BY <1>3, <1>4

\* A step inside that keeps the session and the server as they are.
LEMMA LoginMoveHolds ==
  ASSUME IInv, NEW c \in Inside,
         NEW e \in [pc : Stages, ticket : Int, version : Versions \union {0},
                    attempts : Int, nonce : Int],
         e.pc \in LoginStages, e.ticket = call[c].ticket,
         call' = [call EXCEPT ![c] = e],
         UNCHANGED <<now, session, retryAfter, tail, released, failedAt, issued, expected>>
  PROVE  IInv'
<1>1. c \in Callers /\ now >= retryAfter
  BY InsideMayAct DEF Inside, IInv
<1>2. session' \in [version : Versions \union {0}, nonce : Int]
      /\ (session' # NoSession => session'.nonce = expected')
      /\ issued' \in Int /\ expected' \in Int
  BY DEF IInv, Typed, Chain, NoSession
<1>3. e.pc \in LoginStages \union {"data"} /\ e.pc # "data"
  BY DEF LoginStages
<1> QED BY <1>1, <1>2, <1>3, MoveHolds

LEMMA LoginHolds ==
  ASSUME IInv, NEW c \in Callers, LoginStep(c) \/ SdkNewKey(c)
  PROVE  IInv'
<1>1. c \in Inside /\ UNCHANGED <<issued, expected>>
  BY DEF LoginStep, SdkNewKey, NextStage, Inside, LoginStages, server
<1>2. issued' \in Int /\ expected' \in Int
  BY <1>1 DEF IInv, Typed
<1>3. CASE Fail(c)
  BY <1>1, <1>2, <1>3, FailHolds
<1>4. CASE LoginStep(c) /\ ~Fail(c)
  <2> DEFINE e == [call[c] EXCEPT !.pc = NextStage[call[c].pc]]
  <2>1. NextStage[call[c].pc] \in LoginStages
    BY <1>4 DEF LoginStep, NextStage, LoginStages
  <2>2. e \in [pc : Stages, ticket : Int, version : Versions \union {0},
               attempts : Int, nonce : Int]
        /\ e.pc = NextStage[call[c].pc] /\ e.ticket = call[c].ticket
    BY <2>1 DEF IInv, Typed, Stages
  <2>3. call' = [call EXCEPT ![c] = e]
        /\ UNCHANGED <<now, session, retryAfter, tail, released, failedAt>>
    BY <1>4 DEF LoginStep, IInv, Typed
  <2> HIDE DEF e
  <2> QED BY <1>1, <2>1, <2>2, <2>3, LoginMoveHolds
<1>5. CASE SdkNewKey(c) /\ ~Fail(c)
  <2> DEFINE e == [call[c] EXCEPT !.attempts = @ + 1]
  <2>1. call[c].pc = "sdk"
    BY <1>5 DEF SdkNewKey
  <2>2. e \in [pc : Stages, ticket : Int, version : Versions \union {0},
               attempts : Int, nonce : Int]
        /\ e.pc = "sdk" /\ e.ticket = call[c].ticket
    BY <2>1 DEF IInv, Typed
  <2>3. call' = [call EXCEPT ![c] = e]
        /\ UNCHANGED <<now, session, retryAfter, tail, released, failedAt>>
    BY <1>5 DEF SdkNewKey, IInv, Typed
  <2>4. e.pc \in LoginStages
    BY <2>2 DEF LoginStages
  <2> HIDE DEF e
  <2> QED BY <1>1, <2>2, <2>3, <2>4, LoginMoveHolds
<1> QED BY <1>3, <1>4, <1>5

LEMMA GameLoginHolds ==
  ASSUME IInv, NEW c \in Callers, GameLogin(c)
  PROVE  IInv'
<1>1. c \in Inside /\ call[c].version \in Versions \union {0} /\ issued \in Int /\ expected \in Int
  BY DEF GameLogin, Inside, LoginStages, IInv, Typed
<1>2. CASE Fail(c) /\ (Issue \/ UNCHANGED server)
  <2>1. issued' \in Int /\ expected' \in Int
    BY <1>1, <1>2 DEF Issue, server
  <2> QED BY <1>1, <1>2, <2>1, FailHolds
<1>3. CASE /\ Issue /\ session' = [version |-> call[c].version, nonce |-> issued + 1]
           /\ Sending(c, issued + 1)
           /\ UNCHANGED <<now, retryAfter, tail, released, restarts, failedAt>>
  <2> DEFINE n == issued + 1
             e == [[call[c] EXCEPT !.pc = "data"] EXCEPT !.nonce = n]
  <2>0. n \in Int /\ n = issued + 1
    BY <1>1
  <2> HIDE DEF n
  <2>1. e \in [pc : Stages, ticket : Int, version : Versions \union {0},
               attempts : Int, nonce : Int]
        /\ e.pc = "data" /\ e.ticket = call[c].ticket /\ e.nonce = n
    BY <2>0 DEF IInv, Typed, Stages
  <2>2. call' = [call EXCEPT ![c] = e]
    BY <1>3, <2>0 DEF Sending, IInv, Typed
  <2>3. session' \in [version : Versions \union {0}, nonce : Int]
        /\ session'.nonce = expected' /\ issued' \in Int /\ expected' \in Int
        /\ expected' = issued + 1
    BY <1>1, <1>3 DEF Issue
  <2>4. now >= retryAfter
    BY <1>1, InsideMayAct DEF IInv
  <2> HIDE DEF e
  <2>5. e.nonce = expected' /\ e.pc \in LoginStages \union {"data"}
    BY <2>0, <2>1, <2>3
  <2> QED BY <1>1, <1>3, <2>1, <2>2, <2>3, <2>4, <2>5, MoveHolds
<1> QED BY <1>2, <1>3 DEF GameLogin

\* The answer moves the nonce of the server and of the session together.
LEMMA DataAcceptedHolds ==
  ASSUME IInv, NEW c \in Callers, DataAccepted(c)
  PROVE  IInv'
<1>1. /\ c \in Inside /\ issued \in Int /\ expected \in Int /\ Leave(c)
      /\ UNCHANGED <<now, retryAfter, failedAt>>
  BY DEF DataAccepted, Inside, IInv, Typed
<1>2. /\ Queue' /\ Inside' = {} /\ tail' \in Nat /\ \A d \in Callers : call'[d].pc # "data"
      /\ call' \in [Callers -> [pc : Stages, ticket : Int, version : Versions \union {0},
                                attempts : Int, nonce : Int]]
  BY <1>1, LeaveKeepsQueue DEF IInv
<1>3. /\ session' \in [version : Versions \union {0}, nonce : Int]
      /\ issued' \in Int /\ expected' \in Int
      /\ session' # NoSession => session'.nonce = expected'
  <2>1. session \in [version : Versions \union {0}, nonce : Int]
        /\ (session # NoSession => session.nonce = expected)
    BY DEF IInv, Typed, Chain
  <2>2. CASE Issue /\ session' = Advanced(issued + 1)
    <3>1. session'.nonce = issued + 1 /\ issued' = issued + 1 /\ expected' = issued + 1
      BY <2>1, <2>2 DEF Issue, Advanced
    <3>2. session' \in [version : Versions \union {0}, nonce : Int]
      BY <1>1, <2>1, <2>2 DEF Advanced
    <3> QED BY <1>1, <3>1, <3>2
  <2>3. CASE UNCHANGED <<server, session>>
    BY <1>1, <2>1, <2>3 DEF server
  <2> QED BY <2>2, <2>3 DEF DataAccepted
<1>4. Typed'
  BY <1>1, <1>2, <1>3 DEF IInv, Typed
<1>5. Chain'
  BY <1>2, <1>3 DEF Chain, NonceInStep, NoSession
<1>6. Cooldown'
  BY <1>1, <1>2 DEF IInv, Cooldown
<1> QED BY <1>2, <1>4, <1>5, <1>6 DEF IInv

LEMMA DataFailsHolds ==
  ASSUME IInv, NEW c \in Callers, DataLost(c) \/ DataRefused(c)
  PROVE  IInv'
<1>1. c \in Inside /\ issued \in Int /\ expected \in Int
  BY DEF DataLost, DataRefused, Inside, IInv, Typed
<1>2. issued' \in Int /\ expected' \in Int
  BY <1>1 DEF DataLost, DataRefused, Issue, server
<1>3. now >= retryAfter
  BY <1>1, InsideMayAct DEF IInv
<1>4. Fail(c)
  BY <1>3 DEF DataLost, DataRefused, Fail, Caught
<1> QED BY <1>1, <1>2, <1>4, FailHolds

LEMMA QuietHolds ==
  ASSUME IInv, Tick \/ UNCHANGED vars
  PROVE  IInv'
<1>1. /\ UNCHANGED <<session, retryAfter, tail, released, call, issued, expected, failedAt>>
      /\ now' \in Int /\ now' >= now
  BY DEF Tick, vars, server, IInv, Typed
<1>2. Typed' /\ Queue'
  BY <1>1 DEF IInv, Typed, Queue, Prefix, Tickets
<1>3. Chain'
  BY <1>1 DEF IInv, Chain, NonceInStep, NoSession
<1>4. Cooldown'
  BY <1>1 DEF IInv, Typed, Cooldown, Inside
<1> QED BY <1>2, <1>3, <1>4 DEF IInv

-----------------------------------------------------------------------------
\* The inductive invariant of the session and its queue (fetch, lines 448-483).
THEOREM SessionInvariance == Spec => []IInv
<1>1. ASSUME IInv, [Next]_vars PROVE IInv'
  <2>1. ASSUME NEW c \in Callers, Fetch(c) PROVE IInv'
    BY <1>1, <2>1, FetchHolds
  <2>2. ASSUME NEW c \in Callers, Refuse(c) PROVE IInv'
    BY <1>1, <2>2, RefuseHolds
  <2>3. ASSUME NEW c \in Callers, Begin(c) PROVE IInv'
    BY <1>1, <2>3, BeginHolds
  <2>4. ASSUME NEW c \in Callers, LoginStep(c) \/ SdkNewKey(c) PROVE IInv'
    BY <1>1, <2>4, LoginHolds
  <2>5. ASSUME NEW c \in Callers, GameLogin(c) PROVE IInv'
    BY <1>1, <2>5, GameLoginHolds
  <2>6. ASSUME NEW c \in Callers, DataAccepted(c) PROVE IInv'
    BY <1>1, <2>6, DataAcceptedHolds
  <2>7. ASSUME NEW c \in Callers, DataLost(c) \/ DataRefused(c) PROVE IInv'
    BY <1>1, <2>7, DataFailsHolds
  <2>8. CASE Restart
    BY <1>1, <2>8, RestartHolds
  <2>9. CASE Tick \/ UNCHANGED vars
    BY <1>1, <2>9, QuietHolds
  <2> QED BY <1>1, <2>1, <2>2, <2>3, <2>4, <2>5, <2>6, <2>7, <2>8, <2>9 DEF Next, Answer
<1> QED BY <1>1, InitHolds, PTL DEF Spec

\* Calls are served one at a time, in the order of arrival (lines 449-455).
THEOREM CallsAreServedInOrder == Spec => []ServedInOrder
<1>1. ASSUME IInv PROVE ServedInOrder
  <2> SUFFICES ASSUME NEW c \in Inside, NEW d \in Callers, d # c, call[d].pc # "idle"
               PROVE  call[c].ticket < call[d].ticket
    BY DEF ServedInOrder
  <2>1. c \in Callers /\ call[c].pc # "idle" /\ call[c].ticket - 1 \in released
    BY <1>1, InsideIsActive DEF IInv, Queue, Tickets
  <2> QED BY <1>1, <2>1, InsideIsFirst DEF IInv
<1> QED BY <1>1, SessionInvariance, PTL

\* Every data request carries the nonce the server expects (lines 454, 466-476).
THEOREM NoncesStayInStep == Spec => []NonceInStep
<1>1. IInv => NonceInStep
  BY DEF IInv, Chain
<1> QED BY <1>1, SessionInvariance, PTL

\* A session that is kept can be used (lines 466-480).
THEOREM SessionsAreUsable == Spec => []SessionUsable
<1>1. IInv => SessionUsable
  BY DEF IInv, Chain, SessionUsable
<1> QED BY <1>1, SessionInvariance, PTL

\* No request is sent during the cooldown of a failure (lines 179-182, 457, 479).
THEOREM CooldownIsRespected == Spec => []CooldownRespected
<1>1. IInv => CooldownRespected
  BY RetryDelayAssumption DEF IInv, Typed, Cooldown, CooldownRespected
<1> QED BY <1>1, SessionInvariance, PTL

\* The types of the variables, with the nonces bounded by those that were issued.
Bounded ==
  /\ now \in 0 .. MaxTime /\ retryAfter \in 0 .. MaxTime + RetryDelay
  /\ failedAt \in -1 .. MaxTime /\ restarts \in 0 .. MaxRestarts /\ tail \in 0 .. MaxCalls
  /\ issued \in Nat /\ expected \in 0 .. issued
  /\ session \in [version : Versions \union {0}, nonce : 0 .. issued]
  /\ call \in [Callers -> [pc : Stages, ticket : 0 .. tail, version : Versions \union {0},
                           attempts : 0 .. 3, nonce : 0 .. issued]]

\* Two nonces are issued for each call that has ended, and one for the call whose data is asked for.
Spent(m) == issued <= 2 * m \/ \E c \in Callers : call[c].pc = "data" /\ issued <= 2 * m + 1
FewNonces == \E m \in 0 .. tail : released = 0 .. m /\ Spent(m)

\* The one whose turn it is has the first ticket that is pending.
LEMMA TurnIsNext ==
  ASSUME IInv, tail \in Nat, NEW m \in 0 .. tail, released = 0 .. m,
         NEW c \in Callers, call[c].pc # "idle", call[c].ticket - 1 \in released
  PROVE  /\ call[c].ticket = m + 1 /\ m + 1 <= tail /\ Released(c) = 0 .. (m + 1)
         /\ \A d \in Callers : d # c => call[d].pc \in {"idle", "queued"}
<1>1. call[c].ticket \in Int /\ call[c].ticket \in 1 .. tail /\ call[c].ticket \notin released
  BY DEF IInv, Typed, Queue, Tickets
<1>2. call[c].ticket = m + 1 /\ m + 1 <= tail
  BY <1>1
<1>3. Released(c) = 0 .. (m + 1)
  BY <1>2 DEF Released
<1>4. ASSUME NEW d \in Callers, d # c, call[d].pc \notin {"idle", "queued"}
      PROVE  FALSE
  <2>1. call[d].ticket - 1 \in released /\ call[d].ticket \in 1 .. tail /\ call[d].ticket \notin released
        /\ call[d].ticket # call[c].ticket
    BY <1>4 DEF IInv, Queue, Tickets
  <2> QED BY <1>2, <2>1
<1> QED BY <1>2, <1>3, <1>4

LEMMA InsideIsTurn ==
  ASSUME IInv, NEW c \in Callers, call[c].pc \in LoginStages \union {"data"}
  PROVE  call[c].pc # "idle" /\ call[c].ticket - 1 \in released
BY DEF IInv, Queue, Tickets, LoginStages

\* A call that ends, having issued at most one more nonce.
LEMMA LeaveIsBounded ==
  ASSUME IInv, Bounded, FewNonces, NEW c \in Callers, call[c].pc # "idle", call[c].ticket - 1 \in released,
         Leave(c), \/ UNCHANGED server
                   \/ Issue /\ call[c].pc \in LoginStages \union {"data"}
  PROVE  /\ FewNonces' /\ issued' \in Nat /\ issued <= issued' /\ expected' \in 0 .. issued'
         /\ tail' = tail /\ restarts' = restarts
         /\ call' \in [Callers -> [pc : Stages, ticket : 0 .. tail', version : Versions \union {0},
                                   attempts : 0 .. 3, nonce : 0 .. issued']]
<1>1. PICK m \in 0 .. tail : released = 0 .. m /\ Spent(m)
  BY DEF FewNonces
<1>2. tail \in Nat /\ tail' = tail /\ restarts' = restarts
  BY DEF Bounded, Leave
<1>3. /\ m + 1 <= tail /\ Released(c) = 0 .. (m + 1)
      /\ \A d \in Callers : d # c => call[d].pc \in {"idle", "queued"}
  BY <1>1, <1>2, TurnIsNext
<1>4. issued \in Nat /\ issued' \in Nat /\ issued <= issued' /\ expected' \in 0 .. issued' /\ issued' <= issued + 1
  BY DEF Bounded, Issue, server
<1>5. issued <= 2 * m + 1
  BY <1>1, <1>4 DEF Spent
<1>6. FewNonces'
  <2>1. m + 1 \in 0 .. tail' /\ released' = 0 .. (m + 1)
    BY <1>1, <1>2, <1>3 DEF Leave
  <2>2. issued' <= 2 * (m + 1)
    BY <1>4, <1>5
  <2>3. Spent(m + 1)'
    BY <2>2 DEF Spent
  <2> QED BY <2>1, <2>3 DEF FewNonces
<1>7. call' \in [Callers -> [pc : Stages, ticket : 0 .. tail', version : Versions \union {0},
                             attempts : 0 .. 3, nonce : 0 .. issued']]
  <2>1. Idle \in [pc : Stages, ticket : 0 .. tail', version : Versions \union {0},
                  attempts : 0 .. 3, nonce : 0 .. issued']
    BY <1>2, <1>4 DEF Idle, Stages
  <2>2. \A d \in Callers : call[d] \in [pc : Stages, ticket : 0 .. tail', version : Versions \union {0},
                                        attempts : 0 .. 3, nonce : 0 .. issued']
    BY <1>2, <1>4 DEF Bounded
  <2>3. call' = [call EXCEPT ![c] = Idle]
    BY DEF Leave
  <2> QED BY <2>1, <2>2, <2>3 DEF Bounded
<1> QED BY <1>2, <1>4, <1>6, <1>7

LEMMA CaughtIsBounded ==
  ASSUME Bounded, NEW t \in 0 .. MaxTime, Caught(t) \/ Invalidated(t)
  PROVE  /\ retryAfter' \in 0 .. MaxTime + RetryDelay
         /\ \A n \in Nat : issued <= n => session' \in [version : Versions \union {0}, nonce : 0 .. n]
<1>1. session' \in {session, NoSession} /\ retryAfter' \in {retryAfter, t + RetryDelay}
  BY DEF Caught, Invalidated
<1>2. retryAfter' \in 0 .. MaxTime + RetryDelay
  BY <1>1, RetryDelayAssumption, BoundsAssumption DEF Bounded
<1>3. ASSUME NEW n \in Nat, issued <= n
      PROVE  session' \in [version : Versions \union {0}, nonce : 0 .. n]
  BY <1>1, <1>3 DEF Bounded, NoSession
<1> QED BY <1>2, <1>3

LEMMA FailIsBounded ==
  ASSUME IInv, Bounded, FewNonces, NEW c \in Callers, call[c].pc \in LoginStages \union {"data"},
         Fail(c) \/ (Invalidated(now) /\ failedAt' = now /\ Leave(c) /\ UNCHANGED now),
         Issue \/ UNCHANGED server
  PROVE  Bounded' /\ FewNonces'
<1>1. now \in 0 .. MaxTime /\ now' = now /\ failedAt' = now /\ (Caught(now) \/ Invalidated(now)) /\ Leave(c)
  BY DEF Fail, Bounded
<1>2. call[c].pc # "idle" /\ call[c].ticket - 1 \in released
  BY InsideIsTurn
<1>3. /\ FewNonces' /\ issued' \in Nat /\ issued <= issued' /\ expected' \in 0 .. issued'
      /\ tail' = tail /\ restarts' = restarts
      /\ call' \in [Callers -> [pc : Stages, ticket : 0 .. tail', version : Versions \union {0},
                                attempts : 0 .. 3, nonce : 0 .. issued']]
  BY <1>1, <1>2, LeaveIsBounded
<1>4. /\ retryAfter' \in 0 .. MaxTime + RetryDelay
      /\ session' \in [version : Versions \union {0}, nonce : 0 .. issued']
  BY <1>1, <1>3, CaughtIsBounded
<1>5. failedAt' \in -1 .. MaxTime
  BY <1>1, BoundsAssumption
<1> QED BY <1>1, <1>3, <1>4, <1>5 DEF Bounded

\* A call moves on inside, or begins, without a nonce of its own being issued.
LEMMA MoveIsBounded ==
  ASSUME Bounded, FewNonces, NEW c \in Callers, call[c].pc # "data",
         NEW pc \in Stages, NEW attempts \in 0 .. 3, NEW nonce \in 0 .. issued,
         call' = [call EXCEPT ![c].pc = pc, ![c].attempts = attempts, ![c].nonce = nonce],
         UNCHANGED <<now, session, retryAfter, tail, released, server, failedAt, restarts>>
  PROVE  Bounded' /\ FewNonces'
<1>1. /\ UNCHANGED <<issued, expected>> /\ tail \in Nat
      /\ call' \in [Callers -> [pc : Stages, ticket : 0 .. tail, version : Versions \union {0},
                                attempts : 0 .. 3, nonce : 0 .. issued]]
      /\ \A d \in Callers : call[d].pc = "data" => call'[d].pc = "data"
  <2> DEFINE next == [call[c] EXCEPT !.pc = pc, !.attempts = attempts, !.nonce = nonce]
  <2>1. UNCHANGED <<issued, expected>> /\ tail \in Nat
    BY DEF Bounded, server
  <2>2. next \in [pc : Stages, ticket : 0 .. tail, version : Versions \union {0},
                  attempts : 0 .. 3, nonce : 0 .. issued]
    BY DEF Bounded
  <2>3. call' = [call EXCEPT ![c] = next]
    BY DEF Bounded
  <2> HIDE DEF next
  <2>4. call' \in [Callers -> [pc : Stages, ticket : 0 .. tail, version : Versions \union {0},
                               attempts : 0 .. 3, nonce : 0 .. issued]]
    BY <2>2, <2>3 DEF Bounded
  <2>5. \A d \in Callers : call[d].pc = "data" => call'[d].pc = "data"
    BY <2>3 DEF Bounded
  <2> QED BY <2>1, <2>4, <2>5
<1>2. Bounded'
  BY <1>1 DEF Bounded
<1>3. FewNonces'
  BY <1>1 DEF FewNonces, Spent
<1> QED BY <1>2, <1>3

LEMMA FetchIsBounded == ASSUME Bounded, FewNonces, NEW c \in Callers, Fetch(c) PROVE Bounded' /\ FewNonces'
<1>1. PICK v \in Versions : call' = [call EXCEPT ![c] = Queued(tail + 1, v)]
  BY DEF Fetch
<1>2. /\ call[c].pc = "idle" /\ tail' = tail + 1 /\ tail' \in 0 .. MaxCalls /\ tail \in Nat
      /\ UNCHANGED <<now, session, retryAfter, released, issued, expected, failedAt, restarts>>
  BY BoundsAssumption DEF Fetch, server, Bounded
<1>3. call' \in [Callers -> [pc : Stages, ticket : 0 .. tail', version : Versions \union {0},
                             attempts : 0 .. 3, nonce : 0 .. issued']]
  <2>1. Queued(tail + 1, v) \in [pc : Stages, ticket : 0 .. tail', version : Versions \union {0},
                                 attempts : 0 .. 3, nonce : 0 .. issued']
    BY <1>2 DEF Queued, Stages, Bounded
  <2>2. \A d \in Callers : call[d] \in [pc : Stages, ticket : 0 .. tail', version : Versions \union {0},
                                        attempts : 0 .. 3, nonce : 0 .. issued']
    BY <1>2 DEF Bounded
  <2> QED BY <1>1, <2>1, <2>2 DEF Bounded
<1>4. Bounded'
  BY <1>2, <1>3 DEF Bounded
<1>5. \A d \in Callers : call[d].pc = "data" => call'[d].pc = "data"
  BY <1>1, <1>2 DEF Bounded
<1>6. FewNonces'
  BY <1>2, <1>5 DEF FewNonces, Spent
<1> QED BY <1>4, <1>6

LEMMA RefuseIsBounded == ASSUME IInv, Bounded, FewNonces, NEW c \in Callers, Refuse(c) PROVE Bounded' /\ FewNonces'
<1>1. /\ now' \in 0 .. MaxTime /\ Caught(now') /\ Leave(c) /\ UNCHANGED <<issued, expected, failedAt>> /\ UNCHANGED server
      /\ call[c].pc # "idle" /\ call[c].ticket - 1 \in released
  BY BoundsAssumption DEF Refuse, Turn, Bounded, server
<1>2. /\ FewNonces' /\ issued' \in Nat /\ issued <= issued' /\ expected' \in 0 .. issued'
      /\ tail' = tail /\ restarts' = restarts
      /\ call' \in [Callers -> [pc : Stages, ticket : 0 .. tail', version : Versions \union {0},
                                attempts : 0 .. 3, nonce : 0 .. issued']]
  BY <1>1, LeaveIsBounded
<1>3. /\ retryAfter' \in 0 .. MaxTime + RetryDelay
      /\ session' \in [version : Versions \union {0}, nonce : 0 .. issued']
  BY <1>1, <1>2, CaughtIsBounded
<1> QED BY <1>1, <1>2, <1>3 DEF Bounded

LEMMA BeginIsBounded == ASSUME Bounded, FewNonces, NEW c \in Callers, Begin(c) PROVE Bounded' /\ FewNonces'
<1>1. /\ call[c].pc = "queued" /\ call[c].attempts \in 0 .. 3 /\ call[c].nonce \in 0 .. issued
      /\ session.nonce \in 0 .. issued
      /\ UNCHANGED <<now, session, retryAfter, tail, released, server, failedAt, restarts>>
  BY DEF Begin, Turn, Bounded
<1>2. CASE Sending(c, session.nonce)
  <2>1. call' = [call EXCEPT ![c].pc = "data", ![c].attempts = call[c].attempts, ![c].nonce = session.nonce]
    BY <1>2 DEF Sending, Bounded
  <2> QED BY <1>1, <2>1, MoveIsBounded DEF Stages
<1>3. CASE call' = [call EXCEPT ![c].pc = "application"]
  <2>1. call' = [call EXCEPT ![c].pc = "application", ![c].attempts = call[c].attempts, ![c].nonce = call[c].nonce]
    BY <1>3 DEF Bounded
  <2> QED BY <1>1, <2>1, MoveIsBounded DEF Stages, LoginStages
<1> QED BY <1>2, <1>3 DEF Begin

LEMMA LoginIsBounded ==
  ASSUME IInv, Bounded, FewNonces, NEW c \in Callers, LoginStep(c) \/ SdkNewKey(c) PROVE Bounded' /\ FewNonces'
<1>1. /\ call[c].pc \in {"application", "cipher", "sdk"} /\ UNCHANGED server
      /\ call[c].attempts \in 0 .. 3 /\ call[c].nonce \in 0 .. issued
  BY DEF LoginStep, SdkNewKey, NextStage, Bounded
<1>2. CASE Fail(c)
  BY <1>1, <1>2, FailIsBounded DEF LoginStages
<1>3. CASE /\ call' = [call EXCEPT ![c].pc = NextStage[call[c].pc]]
           /\ UNCHANGED <<now, session, retryAfter, tail, released, failedAt, restarts>>
  <2>1. NextStage[call[c].pc] \in Stages
    BY <1>1 DEF NextStage, Stages, LoginStages
  <2>2. call' = [call EXCEPT ![c].pc = NextStage[call[c].pc], ![c].attempts = call[c].attempts, ![c].nonce = call[c].nonce]
    BY <1>3 DEF Bounded
  <2>3. call[c].pc # "data" /\ UNCHANGED <<now, session, retryAfter, tail, released, server, failedAt, restarts>>
    BY <1>1, <1>3
  <2>4. call[c].attempts \in 0 .. 3 /\ call[c].nonce \in 0 .. issued
    BY <1>1
  <2> QED BY <2>1, <2>2, <2>3, <2>4, MoveIsBounded
<1>4. CASE /\ MayRetry(c) /\ call' = [call EXCEPT ![c].attempts = @ + 1]
           /\ UNCHANGED <<now, session, retryAfter, tail, released, failedAt, restarts>>
  <2>1. call[c].attempts + 1 \in 0 .. 3
    BY <1>1, <1>4 DEF MayRetry
  <2>2. call' = [call EXCEPT ![c].pc = call[c].pc, ![c].attempts = call[c].attempts + 1, ![c].nonce = call[c].nonce]
    BY <1>4 DEF Bounded
  <2>3. call[c].pc \in Stages
    BY <1>1 DEF Stages, LoginStages
  <2>4. call[c].pc # "data" /\ UNCHANGED <<now, session, retryAfter, tail, released, server, failedAt, restarts>>
    BY <1>1, <1>4
  <2>5. call[c].nonce \in 0 .. issued
    BY <1>1
  <2> QED BY <2>1, <2>2, <2>3, <2>4, <2>5, MoveIsBounded
<1> QED BY <1>2, <1>3, <1>4 DEF LoginStep, SdkNewKey

LEMMA GameLoginIsBounded ==
  ASSUME IInv, Bounded, FewNonces, NEW c \in Callers, GameLogin(c) PROVE Bounded' /\ FewNonces'
<1>1. call[c].pc = "game" /\ call[c].pc \in LoginStages
  BY DEF GameLogin, LoginStages
<1>2. CASE Fail(c) /\ (Issue \/ UNCHANGED server)
  BY <1>1, <1>2, FailIsBounded
<1>3. CASE /\ Issue /\ session' = [version |-> call[c].version, nonce |-> issued + 1]
           /\ Sending(c, issued + 1)
           /\ UNCHANGED <<now, retryAfter, tail, released, failedAt, restarts>>
  <2>1. issued \in Nat /\ issued' = issued + 1 /\ expected' = issued' /\ tail \in Nat
    BY <1>3 DEF Issue, Bounded
  <2>2. /\ call' \in [Callers -> [pc : Stages, ticket : 0 .. tail, version : Versions \union {0},
                                  attempts : 0 .. 3, nonce : 0 .. issued']]
        /\ call'[c].pc = "data"
    <3>1. \A d \in Callers : call[d] \in [pc : Stages, ticket : 0 .. tail, version : Versions \union {0},
                                          attempts : 0 .. 3, nonce : 0 .. issued']
      BY <2>1 DEF Bounded
    <3> QED BY <1>3, <2>1, <3>1 DEF Sending, Bounded, Stages
  <2>3. session' \in [version : Versions \union {0}, nonce : 0 .. issued']
    BY <1>3, <2>1 DEF Bounded
  <2>4. Bounded'
    BY <1>3, <2>1, <2>2, <2>3 DEF Bounded
  <2>5. PICK m \in 0 .. tail : released = 0 .. m /\ Spent(m)
    BY DEF FewNonces
  <2>6. \A d \in Callers : call[d].pc # "data"
    <3>1. \A d \in Callers : d # c => call[d].pc \in {"idle", "queued"}
      BY <1>1, <2>1, <2>5, InsideIsTurn, TurnIsNext
    <3> QED BY <1>1, <3>1
  <2>7. issued <= 2 * m
    BY <2>5, <2>6 DEF Spent
  <2>8. Spent(m)'
    BY <2>1, <2>2, <2>7 DEF Spent
  <2> QED BY <1>3, <2>4, <2>5, <2>8 DEF FewNonces
<1> QED BY <1>2, <1>3 DEF GameLogin

LEMMA DataAcceptedIsBounded ==
  ASSUME IInv, Bounded, FewNonces, NEW c \in Callers, DataAccepted(c) PROVE Bounded' /\ FewNonces'
<1>1. /\ call[c].pc \in LoginStages \union {"data"} /\ Leave(c) /\ UNCHANGED <<now, retryAfter, failedAt>>
      /\ \/ Issue /\ session' = Advanced(issued + 1)
         \/ UNCHANGED <<server, session>>
  BY DEF DataAccepted
<1>2. /\ FewNonces' /\ issued' \in Nat /\ issued <= issued' /\ expected' \in 0 .. issued'
      /\ tail' = tail /\ restarts' = restarts
      /\ call' \in [Callers -> [pc : Stages, ticket : 0 .. tail', version : Versions \union {0},
                                attempts : 0 .. 3, nonce : 0 .. issued']]
  <2>1. call[c].pc # "idle" /\ call[c].ticket - 1 \in released
    BY <1>1, InsideIsTurn
  <2> QED BY <1>1, <2>1, LeaveIsBounded
<1>3. session' \in [version : Versions \union {0}, nonce : 0 .. issued']
  BY <1>1, <1>2 DEF Issue, Advanced, server, Bounded
<1> QED BY <1>1, <1>2, <1>3 DEF Bounded

LEMMA RestartIsBounded == ASSUME IInv, Bounded, FewNonces, Restart PROVE Bounded' /\ FewNonces'
<1>1. /\ restarts' \in 0 .. MaxRestarts /\ session' = NoSession /\ retryAfter' = 0 /\ failedAt' = -1
      /\ call' = [c \in Callers |-> Idle] /\ released' = 0 .. tail /\ UNCHANGED <<now, tail, issued, expected>>
      /\ tail \in Nat /\ issued \in Nat
  BY BoundsAssumption DEF Restart, server, Bounded
<1>2. Bounded'
  <2>1. Idle \in [pc : Stages, ticket : 0 .. tail, version : Versions \union {0}, attempts : 0 .. 3, nonce : 0 .. issued]
    BY <1>1 DEF Idle, Stages
  <2>2. NoSession \in [version : Versions \union {0}, nonce : 0 .. issued]
    BY <1>1 DEF NoSession
  <2>3. retryAfter' \in 0 .. MaxTime + RetryDelay /\ failedAt' \in -1 .. MaxTime
    BY <1>1, BoundsAssumption, RetryDelayAssumption
  <2> QED BY <1>1, <2>1, <2>2, <2>3 DEF Bounded
<1>3. issued <= 2 * tail
  <2>1. PICK m \in 0 .. tail : released = 0 .. m /\ Spent(m)
    BY DEF FewNonces
  <2>2. CASE issued <= 2 * m
    BY <1>1, <2>2
  <2>3. ASSUME NEW c \in Callers, call[c].pc = "data", issued <= 2 * m + 1
        PROVE  issued <= 2 * tail
    <3>1. m + 1 <= tail
      BY <1>1, <2>1, <2>3, InsideIsTurn, TurnIsNext
    <3> QED BY <1>1, <2>3, <3>1
  <2> QED BY <2>1, <2>2, <2>3 DEF Spent
<1>4. FewNonces'
  BY <1>1, <1>3 DEF FewNonces, Spent
<1> QED BY <1>2, <1>4

\* Every variable keeps its type; in particular a call tries the key of the SDK at most three times
\* more, and no call takes more than two nonces.
THEOREM TypeCorrect == Spec => []TypeOK
<1>1. Init => Bounded /\ FewNonces
  <2> SUFFICES ASSUME Init PROVE Bounded /\ FewNonces
    OBVIOUS
  <2>1. Bounded
    BY BoundsAssumption, RetryDelayAssumption DEF Init, Bounded, NoSession, Idle, Stages
  <2>2. 0 \in 0 .. tail /\ released = 0 .. 0 /\ issued <= 2 * 0
    BY DEF Init
  <2> QED BY <2>1, <2>2 DEF FewNonces, Spent
<1>2. ASSUME IInv, Bounded, FewNonces, [Next]_vars PROVE Bounded' /\ FewNonces'
  <2>1. ASSUME NEW c \in Callers, Fetch(c) PROVE Bounded' /\ FewNonces'
    BY <1>2, <2>1, FetchIsBounded
  <2>2. ASSUME NEW c \in Callers, Refuse(c) PROVE Bounded' /\ FewNonces'
    BY <1>2, <2>2, RefuseIsBounded
  <2>3. ASSUME NEW c \in Callers, Begin(c) PROVE Bounded' /\ FewNonces'
    BY <1>2, <2>3, BeginIsBounded
  <2>4. ASSUME NEW c \in Callers, LoginStep(c) \/ SdkNewKey(c) PROVE Bounded' /\ FewNonces'
    BY <1>2, <2>4, LoginIsBounded
  <2>5. ASSUME NEW c \in Callers, GameLogin(c) PROVE Bounded' /\ FewNonces'
    BY <1>2, <2>5, GameLoginIsBounded
  <2>6. ASSUME NEW c \in Callers, DataAccepted(c) PROVE Bounded' /\ FewNonces'
    BY <1>2, <2>6, DataAcceptedIsBounded
  <2>7. ASSUME NEW c \in Callers, DataLost(c) \/ DataRefused(c) PROVE Bounded' /\ FewNonces'
    BY <1>2, <2>7, FailIsBounded DEF DataLost, DataRefused
  <2>8. CASE Restart
    BY <1>2, <2>8, RestartIsBounded
  <2>9. CASE Tick \/ UNCHANGED vars
    <3>1. UNCHANGED <<session, retryAfter, tail, released, call, issued, expected, failedAt, restarts>> /\ now' \in 0 .. MaxTime
      BY <1>2, <2>9, BoundsAssumption DEF Tick, vars, server, Bounded
    <3> QED BY <1>2, <3>1 DEF Bounded, FewNonces, Spent
  <2> QED BY <1>2, <2>1, <2>2, <2>3, <2>4, <2>5, <2>6, <2>7, <2>8, <2>9 DEF Next, Answer
<1>3. ASSUME IInv, Bounded, FewNonces PROVE TypeOK
  <2>1. PICK m \in 0 .. tail : released = 0 .. m /\ Spent(m)
    BY <1>3 DEF FewNonces
  <2>2. issued <= 2 * tail /\ tail \in 0 .. MaxCalls /\ issued \in Nat
    <3>1. tail \in Nat /\ issued \in Nat /\ tail \in 0 .. MaxCalls
      BY <1>3, BoundsAssumption DEF Bounded
    <3>2. ASSUME NEW c \in Callers, call[c].pc = "data"
          PROVE  m + 1 <= tail
      BY <1>3, <2>1, <3>1, <3>2, InsideIsTurn, TurnIsNext
    <3> QED BY <2>1, <3>1, <3>2 DEF Spent
  <2>3. 0 .. issued \subseteq Nonces /\ issued \in Nonces /\ 0 .. tail \subseteq 0 .. MaxCalls
    BY <2>2, BoundsAssumption DEF Nonces
  <2>4. call \in [Callers -> [pc : {"idle", "queued", "data"} \union LoginStages,
                              ticket : 0 .. MaxCalls, version : Versions \union {0},
                              attempts : 0 .. 3, nonce : Nonces]]
    BY <1>3, <2>3 DEF Bounded, Stages
  <2>5. released \subseteq 0 .. MaxCalls
    BY <2>1, <2>2, <2>3
  <2>6. session \in [version : Versions \union {0}, nonce : Nonces] /\ expected \in Nonces
    BY <1>3, <2>3 DEF Bounded
  <2> QED BY <1>3, <2>2, <2>3, <2>4, <2>5, <2>6 DEF Bounded, TypeOK
<1> QED BY <1>1, <1>2, <1>3, SessionInvariance, PTL DEF Spec

=============================================================================
