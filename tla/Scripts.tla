------------------------------ MODULE Scripts ------------------------------
(***************************************************************************)
(* The scripts of one session: each runs in a slot of its own, they take   *)
(* turns on the session's tick and share one pace, and a line may stop,    *)
(* hold or replace a script while the list of slots is being walked.       *)
(*                                                                         *)
(* crates/uoterm-runtime/src/session/scripting.rs: run_script,             *)
(* start_script, run_now, stop_script, pump_script, tick_slot, finish, and *)
(* the commands `playmacro` and `script` of scripting/commands.rs;         *)
(* crates/uoterm-script/src/run.rs: Script::tick, what a tick may come to. *)
(*                                                                         *)
(* Abstracted: the lines of a script. One tick of it may send something,   *)
(* may touch one other slot first, and leaves the script under way, at its *)
(* end, failed, or asking to be replaced or stopped.                       *)
(***************************************************************************)
EXTENDS Integers, Sequences, FiniteSets, SequencesExt

CONSTANTS
    Slot,           \* the names of slots that calls use
    Watched,        \* one of them, any: they differ by name only
    SlotsMax,       \* SLOTS_MAX
    IterationsMax,  \* bound: the runs from the top a call asks for, when it does
    MaxInputs       \* bound: calls, deaths and links lost

ASSUME ScriptSizes ==
    Watched \in Slot /\ SlotsMax \in Nat \ {0} /\ IterationsMax \in Nat \ {0} /\ MaxInputs \in Nat

VARIABLES
    slots,      \* Scripting::slots: the scripts running, in order
    turn,       \* Scripting::turn: the place that goes first on the next tick
    next,       \* Scripting::next: "none", "run" another or "stop"
    resting,    \* the time is before Scripting::resume_at
    order,      \* the slots pump_script has still to visit on this tick
    fit,        \* the character is in the world and alive
    crashed,    \* the session's task panicked
    \* History and bounds.
    owed,       \* scripts started, less the endings told (job_ended and a
                \* report) and the scripts that went with the link
    inputs      \* how many of the MaxInputs are spent

list == <<slots, turn, next>>
vars == <<list, resting, order, fit, crashed, owed, inputs>>

NoBound == 0
Running == [slot: Slot, looping: BOOLEAN, iterations: 0..IterationsMax,
            iterations_max: 0..IterationsMax, until: BOOLEAN, due: BOOLEAN,
            suspended: BOOLEAN]

Input == inputs < MaxInputs /\ inputs' = inputs + 1
Up == ~crashed
\* The ticks and the calls of a session are turns of one task.
BetweenTicks == Up /\ order = <<>>

\* slot_at: the place of the script of slot s, when one runs there.
InSlots(rs, s) == \E i \in 1..Len(rs) : rs[i].slot = s
SlotAt(rs, s) == CHOOSE i \in 1..Len(rs) : rs[i].slot = s

-----------------------------------------------------------------------------
(* Starting and stopping. *)

Fresh(s, looping, most, timed) ==
    [slot |-> s, looping |-> looping, iterations |-> 0, iterations_max |-> most,
     until |-> timed, due |-> FALSE, suspended |-> FALSE]

\* Slip: any slot will do, though a script runs in it.
StartsInAnySlot(s) == Len(slots) < SlotsMax
\* run_script: what refuses a call.
MayStart(s) == ~InSlots(slots, s) /\ Len(slots) < SlotsMax

\* run_script and start_script, of a script that parses; more than one run
\* from the top is a loop.
RunScript ==
    \E s \in Slot, looping \in BOOLEAN, most \in {NoBound, IterationsMax}, timed \in BOOLEAN :
        /\ BetweenTicks /\ Input
        /\ most # NoBound => ~looping /\ ~timed  \* bound: one thing asked at a time
        /\ timed => looping
        /\ MayStart(s)
        /\ slots' = Append(slots, Fresh(s, looping \/ most > 1, most, timed))
        /\ owed' = owed + 1
        /\ UNCHANGED <<turn, next, resting, order, fit, crashed>>

\* stop_script of one slot, and of all of them.
StopScript ==
    /\ BetweenTicks /\ Input /\ slots # <<>>
    /\ slots' \in {RemoveAt(slots, i) : i \in 1..Len(slots)} \cup {<<>>}
    /\ owed' = owed - (Len(slots) - Len(slots'))
    /\ UNCHANGED <<turn, next, resting, order, fit, crashed>>

\* run_now: a hotkey or a human's `command` of one line that stops, holds or
\* lets go a slot, or asks for a script in place of "this" one. No script
\* ticks, so what it asked for stays in `next`.
RunNow ==
    /\ BetweenTicks /\ Input
    /\ \/ next' \in {"run", "stop"} /\ UNCHANGED slots
       \/ \E i \in 1..Len(slots), held \in BOOLEAN :
            /\ slots' = [slots EXCEPT ![i].suspended = held]
            /\ UNCHANGED next
    /\ UNCHANGED <<turn, resting, order, fit, crashed, owed>>

-----------------------------------------------------------------------------
(* The tick. *)

\* pump_script: the slots in the order of this tick, from the one whose turn
\* it is.
OrderOfTheTick ==
    [k \in 1..Len(slots) |-> slots[((turn + k - 1) % Len(slots)) + 1].slot]

\* pump_script begins. Death and a lost login end them all. A tick in the gap
\* after a send visits no slot, which is no step here.
PumpBegins ==
    /\ BetweenTicks /\ slots # <<>>
    /\ fit => ~resting
    /\ IF fit
       THEN order' = OrderOfTheTick /\ UNCHANGED <<slots, owed>>
       ELSE /\ order' = <<>> /\ slots' = <<>>
            /\ owed' = owed - Len(slots)
    /\ UNCHANGED <<turn, next, resting, fit, crashed, inputs>>

\* A slot whose script was stopped since the order was made.
PassesOver ==
    /\ Up /\ order # <<>>
    /\ ~InSlots(slots, Head(order))
    /\ order' = Tail(order)
    /\ UNCHANGED <<list, resting, fit, crashed, owed, inputs>>

\* Slip: one run more than was asked for.
BoundOneLater(r) ==
    r.due \/ (r.iterations_max # NoBound /\ r.iterations > r.iterations_max)
\* Running::bound_reached.
BoundReached(r) ==
    r.due \/ (r.iterations_max # NoBound /\ r.iterations >= r.iterations_max)

\* What one tick of a script does to another slot: nothing, or stop it, hold
\* it or let it go. `rest` is the list without the script that ticks.
Touched(rest) ==
    {rest} \cup {RemoveAt(rest, i) : i \in 1..Len(rest)}
           \cup {[rest EXCEPT ![i].suspended = ~@] : i \in 1..Len(rest)}

\* The script goes back to its place in what the tick left of the list.
\* Vec::insert panics at a place past the end.
GoesBack(rest, at, r) ==
    IF at <= Len(rest) + 1
    THEN slots' = InsertAt(rest, at, r) /\ crashed' = FALSE
    ELSE slots' = rest /\ crashed' = TRUE

\* A script at its end starts again from the top.
StartsAgain(r) ==
    r.looping /\ ~BoundReached([r EXCEPT !.iterations = @ + 1])

\* Slip: the slot that sent something goes first again.
TurnStays(at, s) == IF InSlots(slots', s) THEN SlotAt(slots', s) - 1 ELSE at - 1
\* It spent the pace: the next tick starts with the one after.
TurnAfter(at, s) == IF InSlots(slots', s) THEN SlotAt(slots', s) ELSE at - 1

\* Slip: a script replaced by another is not told of.
EndsUntold(asked) == IF asked = "run" THEN 0 ELSE 1
\* finish: job_ended and the report of the script that ticked.
Ends(asked) == 1

\* How the tick of a script ends: it waits or acted, reached its end, cannot
\* go on, or asked for another script in its place or to be stopped.
Ask == {"run", "stop"}
Outcome == {"goes on", "done", "failed"} \cup Ask

IsOver(r, how) == how = "failed" \/ (how = "done" /\ ~StartsAgain(r))
\* Slip: the script that ends is put back beside the one after it.
InPlaceBeside(rest, s) ==
    {rest, rest \o <<Fresh(s, FALSE, NoBound, FALSE), Fresh(s, FALSE, NoBound, FALSE)>>}
\* start_script in the slot of the script just finished, if it can start.
InItsPlace(rest, s) ==
    {rest, Append(rest, Fresh(s, FALSE, NoBound, FALSE))}

\* The match at the end of tick_slot: what was asked of the session, by the
\* script or before it ticked, and else how the script's tick ended.
Settles(rest, at, r, how, asked) ==
    LET stopped == Len(slots) - 1 - Len(rest) IN
    \/ /\ asked = "run"
       /\ slots' \in InItsPlace(rest, r.slot)
       /\ owed' = owed - stopped - Ends(asked) + (Len(slots') - Len(rest))
       /\ crashed' = FALSE
    \/ /\ asked = "stop" \/ (asked = "none" /\ IsOver(r, how))
       /\ slots' = rest
       /\ owed' = owed - stopped - Ends(asked)
       /\ crashed' = FALSE
    \/ /\ asked = "none" /\ how = "goes on"
       /\ GoesBack(rest, at, r)
       /\ owed' = owed - stopped
    \/ /\ asked = "none" /\ how = "done" /\ StartsAgain(r)
       /\ GoesBack(rest, at, [r EXCEPT !.iterations =
                                    IF r.iterations_max = NoBound THEN @ ELSE @ + 1])
       /\ owed' = owed - stopped

\* tick_slot of the next slot of the order: its time is up, it is held, or
\* its script ticks. A line that sends something ends that tick, and with it
\* the walk: the rest wait for the gap.
TickSlot ==
    /\ Up /\ order # <<>>
    /\ InSlots(slots, Head(order))
    /\ LET s == Head(order)
           at == SlotAt(slots, s)
           r == slots[at]
       IN
       \/ /\ BoundReached(r)
          /\ slots' = RemoveAt(slots, at)
          /\ owed' = owed - 1
          /\ order' = Tail(order)
          /\ UNCHANGED <<turn, next, resting, crashed>>
       \/ /\ ~BoundReached(r) /\ r.suspended
          /\ order' = Tail(order)
          /\ UNCHANGED <<list, resting, crashed, owed>>
       \/ /\ ~BoundReached(r) /\ ~r.suspended
          /\ next' = "none"
          /\ \E sent \in BOOLEAN :
                /\ resting' = sent
                /\ order' = IF sent THEN <<>> ELSE Tail(order)
                /\ \E how \in IF sent THEN {"goes on", "done"} ELSE Outcome,
                      rest \in Touched(RemoveAt(slots, at)) :
                    Settles(rest, at, r, how, IF how \in Ask THEN how ELSE next)
                /\ turn' = IF sent THEN TurnAfter(at, s) ELSE turn
    /\ UNCHANGED <<fit, inputs>>

-----------------------------------------------------------------------------
(* Time, and what befalls the character. *)

\* SCRIPT_SEND_GAP is over.
GapOver ==
    /\ BetweenTicks /\ resting
    /\ resting' = FALSE
    /\ UNCHANGED <<list, order, fit, crashed, owed, inputs>>

\* The time of a script comes (`for` seconds).
TimeUp ==
    /\ BetweenTicks
    /\ \E i \in 1..Len(slots) :
        /\ slots[i].until /\ ~slots[i].due
        /\ slots' = [slots EXCEPT ![i].due = TRUE]
    /\ UNCHANGED <<turn, next, resting, order, fit, crashed, owed, inputs>>

\* He dies, or lives again.
DiesOrLives ==
    /\ BetweenTicks /\ Input
    /\ fit' = ~fit
    /\ UNCHANGED <<list, resting, order, crashed, owed>>

\* The link drops: the next login has an Inner, and a Scripting, of its own.
LinkLost ==
    /\ BetweenTicks /\ Input
    /\ slots' = <<>> /\ turn' = 0 /\ next' = "none" /\ resting' = FALSE
    /\ owed' = owed - Len(slots)
    /\ UNCHANGED <<order, fit, crashed>>

-----------------------------------------------------------------------------
Init ==
    /\ slots = <<>> /\ turn = 0 /\ next = "none"
    /\ resting = FALSE /\ order = <<>> /\ fit = TRUE /\ crashed = FALSE
    /\ owed = 0 /\ inputs = 0

Pump == PumpBegins \/ PassesOver \/ TickSlot

Next ==
    \/ RunScript \/ StopScript \/ RunNow
    \/ Pump
    \/ GapOver \/ TimeUp \/ DiesOrLives \/ LinkLost

Spec == Init /\ [][Next]_vars

\* The session ticks for ever and the gap between two sends passes. A script
\* need never end, nor its time come.
Fairness == WF_vars(Pump) /\ WF_vars(GapOver)

FairSpec == Spec /\ Fairness

-----------------------------------------------------------------------------
(* Properties. *)

\* The shape of the state; the list never holds more than SLOTS_MAX scripts,
\* also when one is replaced while the list is walked.
TypeOK ==
    /\ slots \in Seq(Running) /\ Len(slots) <= SlotsMax
    /\ turn \in 0..SlotsMax /\ next \in {"none", "run", "stop"}
    /\ resting \in BOOLEAN /\ fit \in BOOLEAN /\ crashed \in BOOLEAN
    /\ order \in Seq(Slot)
    /\ owed \in Int /\ inputs \in 0..MaxInputs

\* A slot names one script. The tools, `script 'stop'` and the turns find a
\* script by its slot, so two in one would leave the second out of reach; it
\* must hold while the ticking script is out of the list as well, and when a
\* script is replaced in its slot.
OneScriptASlot ==
    \A i, j \in 1..Len(slots) : slots[i].slot = slots[j].slot => i = j

\* Every script that was started runs, or was told of once (job_ended and a
\* report), or went with the link: no way to end a script forgets it, tells
\* of it twice, or leaves it running after it was told of.
EachEndIsToldOnce ==
    Up => owed = Len(slots)

\* A run that asks for a number of runs from the top is never given more,
\* whatever holds it, lets it go or sends meanwhile.
NoRunTooMany ==
    \A i \in 1..Len(slots) :
        slots[i].iterations_max # NoBound => slots[i].iterations < slots[i].iterations_max

\* No script keeps the shared pace from the others (the field `turn`): a
\* script that is not held is visited again and again, or ends, though the
\* others send something every time they may and the list changes under the
\* walk. A visit is seen as the slot's leaving the order of the tick.
Visited(s) == order # <<>> /\ Head(order) = s
Waits(s) == \E i \in 1..Len(slots) : slots[i].slot = s /\ ~slots[i].suspended
NoneIsStarved == Waits(Watched) ~> Visited(Watched) \/ ~Waits(Watched) \/ crashed

\* A line that stops another slot stops that slot and nothing else: the
\* script that says it goes on, and so does the session (docs/SCRIPTS.md,
\* `script 'stop'`: "stops the script of another slot").
TheSessionGoesOn == ~crashed
=============================================================================
