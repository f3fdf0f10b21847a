------------------------------- MODULE MCHand -------------------------------
(***************************************************************************)
(* Hand with two items: enough for a lift to meet an item already held, and *)
(* a drop to name another one than the cursor has.  Both lie in the corpse *)
(* at first, or the one named InPack in the pack.                          *)
(***************************************************************************)
EXTENDS Hand

CONSTANT InPack

MCLying ==
    {[i \in Item |-> "corpse"],
     [i \in Item |-> IF i = InPack THEN "pack" ELSE "corpse"]}
=============================================================================
