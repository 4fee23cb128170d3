--------------------------- MODULE ObservationLog ---------------------------
(***************************************************************************)
(* What the collection of Top rankings promises: an observation that was   *)
(* acknowledged is neither lost nor repeated nor altered, and the log of   *)
(* each scope holds observations in the order of their times.  A restart   *)
(* may find one that was never acknowledged, and another restart may lose  *)
(* it again.  The outbox, the incremental encoding, crashes and storage    *)
(* faults of TopHistory implement this.                                    *)
(***************************************************************************)
EXTENDS Integers, Sequences

CONSTANTS Scopes

VARIABLES
  pending,    \* observations to be logged
  promised,   \* those of them whose sampling was acknowledged
  log         \* per scope, the sequence of committed observations

logVars == <<pending, promised, log>>

Logged(s) == {log[s][n] : n \in DOMAIN log[s]}

LogInit == pending = {} /\ promised = {} /\ log = [s \in Scopes |-> <<>>]

\* An observation younger than all others of its scope.
IsNew(obs) ==
  \A other \in {p \in pending : p.scope = obs.scope} \cup Logged(obs.scope) :
    other.id # obs.id /\ other.at < obs.at

\* An observation is acknowledged.
Accept ==
  /\ \E obs \in pending' \ pending :
       /\ IsNew(obs)
       /\ pending' = pending \cup {obs} /\ promised' = promised \cup {obs}
  /\ UNCHANGED log

\* The oldest pending observation of a scope enters the log.
Commit ==
  \E obs \in pending :
    /\ \A other \in pending : other.scope = obs.scope => obs.at <= other.at
    /\ log' = [log EXCEPT ![obs.scope] = Append(@, obs)]
    /\ pending' = pending \ {obs} /\ promised' = promised \ {obs}

\* A restart finds what was being acknowledged, and loses nothing promised.
Recount ==
  /\ promised \subseteq pending'
  /\ \A obs, other \in pending' \ pending : IsNew(obs) /\ obs = other
  /\ UNCHANGED <<promised, log>>

LogNext == Accept \/ Commit \/ Recount

LogSpec == LogInit /\ [][LogNext]_logVars
=============================================================================
