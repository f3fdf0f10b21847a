-------------------------------- MODULE Live --------------------------------
(***************************************************************************)
(* The live links of web pages on the sessions of the table, and the acts  *)
(* they send: several calls made in order, one act of a session at a time, *)
(* whatever link sent it.                                                  *)
(*                                                                         *)
(* crates/uoterm-runtime/src/api/live.rs: ActLines, live, run_live,        *)
(* send_frames, read_page, start_act and run_act.                          *)
(***************************************************************************)
EXTENDS Registry, Sequences

CONSTANTS
    View,       \* live links, each opened once
    Act,        \* acts, each sent once
    Sender,     \* the link of each act
    Places,     \* ACT_PLACES
    MaxSteps    \* MAX_ACT_STEPS

ASSUME LiveSizes == Sender \in [Act -> View] /\ Places \in Nat \ {0} /\ MaxSteps \in Nat \ {0}

VARIABLES
    view,    \* a link: "off", "found" its session, "open" or "over"
    of,      \* its session
    lineOf,  \* the line of acts it was given; a line is named for its maker
    lines,   \* ActLines::lines
    act,     \* "none", "placed", "waits" for the turn or "over"
    left,    \* the calls an act has still to make
    begun,   \* it is under way and has made its first
    turns    \* the turn of each line: its holder, then those that wait

liveVars == <<view, of, lineOf, lines, act, left, begun, turns>>

Nobody == "nobody"
NoLine == "no line"

ASSUME NoLineIsNone == NoLine \notin View

LiveInit ==
    /\ view = [v \in View |-> "off"] /\ of = [v \in View |-> Nobody]
    /\ lineOf = [v \in View |-> NoLine] /\ lines = [c \in Caller |-> NoLine]
    /\ act = [a \in Act |-> "none"] /\ left = [a \in Act |-> 0]
    /\ begun = [a \in Act |-> FALSE] /\ turns = [l \in View |-> <<>>]

-----------------------------------------------------------------------------
(* A link finds its session, then its line; the two are not one step.      *)

Find(v) ==
    \E c \in registered :
        /\ Input /\ view[v] = "off"
        /\ view' = [view EXCEPT ![v] = "found"] /\ of' = [of EXCEPT ![v] = c]
        /\ UNCHANGED <<registryVars, lineOf, lines, act, left, begun, turns>>

\* Slip: every link gets a line of its own.
LineOfItsOwn(v, c) == [lines EXCEPT ![c] = v]
\* line_for: the lines of sessions the table no longer has are let go, then
\* the line of session c is looked up or made.
LineFor(v, c) ==
    [s \in Caller |-> IF s \in registered /\ lines[s] # NoLine THEN lines[s]
                      ELSE IF s = c THEN v ELSE NoLine]

Attach(v) ==
    /\ view[v] = "found" /\ view' = [view EXCEPT ![v] = "open"]
    /\ lines' = LineFor(v, of[v])
    /\ lineOf' = [lineOf EXCEPT ![v] = lines'[of[v]]]
    /\ UNCHANGED <<registryVars, of, act, left, begun, turns, inputs>>

\* read_page ends: the page closed.
PageCloses(v) ==
    /\ Input /\ view[v] = "open" /\ view' = [view EXCEPT ![v] = "over"]
    /\ UNCHANGED <<registryVars, of, lineOf, lines, act, left, begun, turns>>

\* send_frames ends: its session takes no more calls.
FramesEnd(v) ==
    /\ view[v] = "open" /\ task[of[v]] = "ended" /\ view' = [view EXCEPT ![v] = "over"]
    /\ UNCHANGED <<registryVars, of, lineOf, lines, act, left, begun, turns, inputs>>

-----------------------------------------------------------------------------
(* Acts. *)

LineOf(a) == lineOf[Sender[a]]
SessionOf(a) == of[Sender[a]]
UnderWay(a) == act[a] \in {"placed", "waits"}

\* ActLine::places: the act that runs and the ones that wait each hold one.
PlacesTaken(l) == {a \in Act : UnderWay(a) /\ LineOf(a) = l}

\* start_act refuses one that is too long, or one with no place; the page may
\* send it again.
MayAct(a, n) == n <= MaxSteps /\ Cardinality(PlacesTaken(LineOf(a))) < Places

StartAct(a) ==
    \E n \in 1..MaxSteps + 1 :
        /\ Input /\ view[Sender[a]] = "open" /\ act[a] = "none"
        /\ IF MayAct(a, n)
           THEN act' = [act EXCEPT ![a] = "placed"] /\ left' = [left EXCEPT ![a] = n]
           ELSE UNCHANGED <<act, left>>
        /\ UNCHANGED <<registryVars, view, of, lineOf, lines, begun, turns>>

\* The act's task is polled first, in any order of the tasks: it stands in
\* line for the turn.
AsksForTheTurn(a) ==
    /\ act[a] = "placed" /\ act' = [act EXCEPT ![a] = "waits"]
    /\ turns' = [turns EXCEPT ![LineOf(a)] = Append(@, a)]
    /\ UNCHANGED <<registryVars, view, of, lineOf, lines, left, begun, inputs>>

HasTheTurn(a) == act[a] = "waits" /\ Head(turns[LineOf(a)]) = a

\* run_act, which holds the turn from its first call to its end: the session
\* takes the next call.
MakesCall(a) ==
    /\ HasTheTurn(a) /\ left[a] > 0 /\ task[SessionOf(a)] # "ended"
    /\ left' = [left EXCEPT ![a] = @ - 1] /\ begun' = [begun EXCEPT ![a] = TRUE]
    /\ UNCHANGED <<registryVars, view, of, lineOf, lines, act, turns, inputs>>

\* Slip: an act whose page closed keeps the turn.
TurnKept(a) ==
    IF view[Sender[a]] = "over" THEN turns ELSE [turns EXCEPT ![LineOf(a)] = Tail(@)]
TurnGivenBack(a) == [turns EXCEPT ![LineOf(a)] = Tail(@)]

\* No call is left, or the session refused one or has ended: the act is over,
\* and gives back its turn and its place.
EndsAct(a) ==
    /\ HasTheTurn(a) /\ act' = [act EXCEPT ![a] = "over"]
    /\ left' = [left EXCEPT ![a] = 0] /\ begun' = [begun EXCEPT ![a] = FALSE]
    /\ turns' = TurnGivenBack(a)
    /\ UNCHANGED <<registryVars, view, of, lineOf, lines, inputs>>

LiveTypeOK ==
    /\ view \in [View -> {"off", "found", "open", "over"}]
    /\ of \in [View -> Caller \cup {Nobody}]
    /\ lineOf \in [View -> View \cup {NoLine}] /\ lines \in [Caller -> View \cup {NoLine}]
    /\ act \in [Act -> {"none", "placed", "waits", "over"}]
    /\ left \in [Act -> 0..MaxSteps] /\ begun \in [Act -> BOOLEAN]
    /\ turns \in [View -> Seq(Act)]
    /\ \A a \in Act :
        /\ begun[a] => act[a] = "waits"
        /\ UnderWay(a) => lineOf[Sender[a]] # NoLine
        /\ act[a] = "waits" <=> \E l \in View : \E i \in 1..Len(turns[l]) : turns[l][i] = a
    /\ \A v \in View : Cardinality(PlacesTaken(v)) <= Places
=============================================================================
