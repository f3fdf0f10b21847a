-------------------------------- MODULE MCHub --------------------------------
(***************************************************************************)
(* Hub with a page that logs in and an agent that posts, two live links    *)
(* and three acts.                                                         *)
(***************************************************************************)
EXTENDS Hub, TLC

MCSender == "lift" :> "one" @@ "drop" :> "two" @@ "use" :> "two"
=============================================================================
