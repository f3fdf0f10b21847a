------------------------------- MODULE MCWalk -------------------------------
(***************************************************************************)
(* Walk on a corridor of tiles 0..Last with a wall at its far end: two     *)
(* directions, routes that run straight from where he is to any tile, the  *)
(* wall included, since no client map shows it.                            *)
(***************************************************************************)
EXTENDS Walk

CONSTANT Last

MCTile == 0 .. Last
MCDir == {"east", "west"}
MCBeside ==
    [t \in MCTile |-> [d \in MCDir |->
        IF d = "east" THEN IF t < Last THEN t + 1 ELSE t
                      ELSE IF t > 0 THEN t - 1 ELSE t]]
MCWalls == {Last}
MCRoutes ==
    [t \in MCTile |->
        {[i \in 1 .. to - t |-> t + i] : to \in t + 1 .. Last}
          \cup {[i \in 1 .. t - to |-> t - i] : to \in 0 .. t - 1}]
=============================================================================
