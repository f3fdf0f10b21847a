----------------------------- MODULE MCScripts -----------------------------
(***************************************************************************)
(* Scripts with three names for slots and room for three: turns can pass a *)
(* slot by, and a script may stop one before it or one after it.           *)
(***************************************************************************)
EXTENDS Scripts
=============================================================================
