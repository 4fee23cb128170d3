----------------------------- MODULE MCCnSession ----------------------------
(* Model-checking instance: the monthly and the event rankings share a session. *)
EXTENDS CnSession, TLC

CONSTANTS monthly, event, bootstrap
=============================================================================
