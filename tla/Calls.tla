-------------------------------- MODULE Calls --------------------------------
(***************************************************************************)
(* What a session promises the callers of its tools: each call has one     *)
(* outcome, is taken up at most once, and is never taken up after its      *)
(* caller was told that it was answered, refused or let go.  Only of a     *)
(* call that timed out the caller cannot know.  No queue, no login and no  *)
(* link: Session has those and implements this.                            *)
(***************************************************************************)
CONSTANT Call

VARIABLES
    outcome,  \* of a call: "unmade", "under_way", "answered", "refused",
              \* "closed" or "timed_out"
    open      \* the calls the session may still take up

calls == <<outcome, open>>

CallsInit == outcome = [c \in Call |-> "unmade"] /\ open = {}

Make(c) ==
    /\ outcome[c] = "unmade"
    /\ outcome' = [outcome EXCEPT ![c] = "under_way"] /\ open' = open \cup {c}

\* The session has ended.
MakeTooLate(c) ==
    /\ outcome[c] = "unmade" /\ open = {}
    /\ outcome' = [outcome EXCEPT ![c] = "closed"] /\ UNCHANGED open

GiveUp(c) ==
    /\ outcome[c] = "under_way"
    /\ outcome' = [outcome EXCEPT ![c] = "timed_out"] /\ UNCHANGED open

\* A call is carried out or refused, whether its caller still listens or not.
\* Carried out, it is answered at once or parked.
TakeUp(c) ==
    /\ c \in open /\ open' = open \ {c}
    /\ \/ outcome[c] = "under_way" /\ \E how \in {"under_way", "answered", "refused"} :
              outcome' = [outcome EXCEPT ![c] = how]
       \/ outcome[c] = "timed_out" /\ UNCHANGED outcome

\* A parked call is answered.
Answer(c) ==
    /\ outcome[c] = "under_way" /\ c \notin open
    /\ outcome' = [outcome EXCEPT ![c] = "answered"] /\ UNCHANGED open

LetGo(gone) == outcome' = [c \in Call |-> IF c \in gone THEN "closed" ELSE outcome[c]]
UnderWay == {c \in Call : outcome[c] = "under_way"}

\* A run ends, and the calls parked in it; the session ends, and all its calls.
RunEnds == LetGo(UnderWay \ open) /\ UNCHANGED open
SessionEnds == LetGo(UnderWay) /\ open' = {}

CallsNext ==
    \/ \E c \in Call : Make(c) \/ MakeTooLate(c) \/ GiveUp(c) \/ TakeUp(c) \/ Answer(c)
    \/ RunEnds
    \/ SessionEnds

CallsSpec == CallsInit /\ [][CallsNext]_calls
=============================================================================
