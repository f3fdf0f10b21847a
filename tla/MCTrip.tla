------------------------------- MODULE MCTrip -------------------------------
(***************************************************************************)
(* Trip between two squares, "a" and "c", with four ways of one tile each  *)
(* between them: a wall no map shows, a door, a locked gate, and open      *)
(* ground where people stand.                                              *)
(***************************************************************************)
EXTENDS Trip

MCTile == {"a", "c", "wall", "door", "gate", "open"}
MCNear ==
    [t \in MCTile |-> IF t \in {"a", "c"} THEN MCTile \ {"a", "c"} ELSE {"a", "c"}]
MCOpenAt == [d \in {"door", "gate"} |-> d]
MCShutCorners == {<<"c", "open">>}
=============================================================================
