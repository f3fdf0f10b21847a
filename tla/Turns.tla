-------------------------------- MODULE Turns --------------------------------
(***************************************************************************)
(* What the live links of a session promise its acts: an act whose first   *)
(* call was made comes to its end before the first call of another, and no *)
(* more than so many are taken at a time.  No turn, no line and no link:   *)
(* Live has those and implements this.                                     *)
(***************************************************************************)
EXTENDS Integers, FiniteSets

CONSTANTS Act, Caller, Places

VARIABLES
    status,  \* of an act: "none", "taken", "begun" or "over"
    on,      \* the session of an act that was taken
    loose    \* the sessions nothing is promised of any more: they were stopped

turns == <<status, on, loose>>

TurnsInit == status = [a \in Act |-> "none"] /\ on = [a \in Act |-> "nobody"] /\ loose = {}

Taken(s) == {a \in Act : on[a] = s /\ status[a] \in {"taken", "begun"}}
Begun(s) == {a \in Act : on[a] = s /\ status[a] = "begun"}

Take(a, s) ==
    /\ status[a] = "none" /\ (s \in loose \/ Cardinality(Taken(s)) < Places)
    /\ status' = [status EXCEPT ![a] = "taken"] /\ on' = [on EXCEPT ![a] = s]
    /\ UNCHANGED loose

\* The first call of an act; a later one changes nothing here.
Begin(a) ==
    /\ status[a] = "taken" /\ (on[a] \in loose \/ Begun(on[a]) = {})
    /\ status' = [status EXCEPT ![a] = "begun"] /\ UNCHANGED <<on, loose>>

\* An act that was taken ends, with a call made or with none.
End(a) ==
    /\ status[a] \in {"taken", "begun"} /\ status' = [status EXCEPT ![a] = "over"]
    /\ UNCHANGED <<on, loose>>

Loosen(s) == loose' = loose \cup {s} /\ UNCHANGED <<status, on>>

TurnsNext ==
    \/ \E a \in Act : Begin(a) \/ End(a)
    \/ \E a \in Act, s \in Caller : Take(a, s)
    \/ \E s \in Caller : Loosen(s)

TurnsSpec == TurnsInit /\ [][TurnsNext]_turns
=============================================================================
