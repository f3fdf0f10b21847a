----------------------------- MODULE MCEventLog -----------------------------
(***************************************************************************)
(* EventLog with two callers, a log of three events and answers of two.    *)
(***************************************************************************)
EXTENDS EventLog

CONSTANTS ann, bob

MCCaller == {ann, bob}
=============================================================================
