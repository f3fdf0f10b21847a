----------------------------- MODULE MCSession -----------------------------
(***************************************************************************)
(* Session with an account of two characters and one name of another kind. *)
(***************************************************************************)
EXTENDS Session

CONSTANTS c1, c2

MCCall == {c1, c2}
MCCharacter == {"Mara", "Ann"}
=============================================================================
