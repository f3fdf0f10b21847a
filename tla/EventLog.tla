------------------------------ MODULE EventLog ------------------------------
(***************************************************************************)
(* The event log of one session and the agents that hear it through the    *)
(* tool next_event.                                                        *)
(*                                                                         *)
(* The log is World::events (crates/uoterm-world/src/state.rs, push_event):*)
(* it is filed in the order of its numbers, so it is a set here.  The      *)
(* readers are session/awareness.rs (wait_for_event, answer_event_waiters, *)
(* take_events) and session.rs (begin_again), which empties the log when   *)
(* the link drops and lets the count go on.                                *)
(*                                                                         *)
(* Abstracted: what an event says; the judgement of awareness.rs           *)
(* `important`, which comes down to three kinds of event; and the order of *)
(* the waiters, any of whom may be the first.                              *)
(***************************************************************************)
EXTENDS Integers, FiniteSets

CONSTANTS
    Caller,          \* agents that ask for events
    EventLogCap,     \* EVENT_LOG_CAP: the most events the log keeps
    NextEventBatch,  \* NEXT_EVENT_BATCH: the most events of one answer
    MaxEvents        \* bound: the events of one behaviour

ASSUME LogSizes ==
    /\ EventLogCap \in Nat \ {0}
    /\ NextEventBatch \in Nat \ {0}
    /\ MaxEvents \in Nat

VARIABLES
    event_seq,      \* World::event_seq, the number of the last event
    events,         \* World::events
    delivered,      \* Awareness::delivered, up to where the agents were served
    event_waiters,  \* Inner::event_waiters, each caller with one call at most
    \* History, read by no action.
    answer,         \* what this step told an agent that listens
    heard,          \* the numbers of all events told so far
    owed            \* important events in the log that no answer carried yet

vars == <<event_seq, events, delivered, event_waiters, answer, heard, owed>>

\* Ambient: AMBIENT_EVENT_KINDS.  Plain: events the session logs and no agent
\* is told of, such as speech.
Kind == {"important", "plain", "ambient"}
Event == [seq : Nat \ {0}, kind : Kind]
EventWaiter == [caller : Caller, ambient : BOOLEAN, late : BOOLEAN, listens : BOOLEAN]
NoAnswer == [events |-> {}, missed |-> 0]

Seqs(S) == {e.seq : e \in S}
Oldest(S) == CHOOSE e \in S : \A f \in S : e.seq <= f.seq
Newest(S) == CHOOSE e \in S : \A f \in S : f.seq <= e.seq

Waits(c) == \E waiter \in event_waiters : waiter.caller = c

-----------------------------------------------------------------------------
(* Filing. *)

\* Slip: the cap is looked at before the event is filed.
DroppedOneLate(log) ==
    LET ambient == {e \in log : e.kind = "ambient"}
    IN  IF Cardinality(log) <= EventLogCap + 1 THEN {}
        ELSE {IF ambient # {} THEN Oldest(ambient) ELSE Oldest(log)}

\* What a log that is over its cap drops: its oldest ambient event, or its
\* oldest one when it has none.
Dropped(log) ==
    LET ambient == {e \in log : e.kind = "ambient"}
    IN  IF Cardinality(log) <= EventLogCap THEN {}
        ELSE {IF ambient # {} THEN Oldest(ambient) ELSE Oldest(log)}

\* World::push_event onto the events `log`, of which `due` are owed.
Push(kind, log, due) ==
    LET new == [seq |-> event_seq + 1, kind |-> kind]
        full == log \cup {new}
    IN  /\ event_seq < MaxEvents
        /\ event_seq' = event_seq + 1
        /\ events' = full \ Dropped(full)
        /\ owed' = (due \cup IF kind = "important" THEN {new.seq} ELSE {})
                      \ Seqs(Dropped(full))

PushEvent ==
    /\ \E kind \in Kind : Push(kind, events, owed)
    /\ answer' = NoAnswer
    /\ UNCHANGED <<delivered, event_waiters, heard>>

\* Slip: the count of a new login starts again.
BeginAgainFromOne ==
    /\ event_seq' = 1
    /\ events' = {[seq |-> 1, kind |-> "important"]}
    /\ owed' = {1}
    /\ delivered' = 0
    /\ event_waiters' = {}
    /\ answer' = NoAnswer
    /\ UNCHANGED <<heard>>

\* The link drops: the callers that wait are let go, the world is cleared but
\* for its count (begin_again), and the next login starts a fresh Awareness.
BeginAgain ==
    /\ Push("important", {}, {})
    /\ delivered' = 0
    /\ event_waiters' = {}
    /\ answer' = NoAnswer
    /\ UNCHANGED <<heard>>

-----------------------------------------------------------------------------
(* Telling: take_events for one caller. *)

Important(e, ambient) == e.kind = "important" \/ (e.kind = "ambient" /\ ambient)

Newer == {e \in events : e.seq > delivered}

\* The n events of S with the lowest numbers.
Below(e, S) == {f \in S : f.seq < e.seq}
First(n, S) == {e \in S : Cardinality(Below(e, S)) < n}

Ready(ambient) == First(NextEventBatch, {e \in Newer : Important(e, ambient)})

\* Slip: the mark goes past all that was seen, a full batch or not.
LastSeen(ambient) == IF Newer = {} THEN delivered ELSE Newest(Newer).seq

\* Past the last event of a full batch, or past everything seen.
Last(ambient) ==
    IF Cardinality(Ready(ambient)) = NextEventBatch
      THEN Newest(Ready(ambient)).seq
      ELSE IF Newer = {} THEN delivered ELSE Newest(Newer).seq

\* Slip: the difference is not saturating.
MissedBelowZero ==
    IF delivered > 0 /\ events # {}
      THEN Oldest(events).seq - (delivered + 1)
      ELSE 0

\* How far the log's first event is past the mark.
Missed ==
    IF delivered > 0 /\ events # {} /\ Oldest(events).seq > delivered + 1
      THEN Oldest(events).seq - (delivered + 1)
      ELSE 0

\* The mark moves whether there was something to tell or not, and whether the
\* caller still listens or not.
TakeEvents(ambient, listens) ==
    LET carried == Seqs(Ready(ambient))
        told == IF listens THEN carried ELSE {}
    IN  /\ delivered' = Last(ambient)
        /\ answer' = IF told = {} THEN NoAnswer
                     ELSE [events |-> told, missed |-> Missed]
        /\ heard' = heard \cup told
        /\ owed' = owed \ carried

\* wait_for_event: an answer at once, or a place among the waiters.  The caller
\* may be gone by the time the session takes the call from its queue.
WaitForEvent(c) ==
    /\ ~Waits(c)
    /\ \E ambient \in BOOLEAN, listens \in BOOLEAN :
        /\ TakeEvents(ambient, listens)
        /\ event_waiters' =
             IF Ready(ambient) # {} THEN event_waiters
             ELSE event_waiters \cup {[caller |-> c, ambient |-> ambient,
                                       late |-> FALSE, listens |-> listens]}
    /\ UNCHANGED <<event_seq, events>>

\* Slip: a caller whose time ran out is passed over while no event comes.
StillWaitsTillTold(waiter) == TRUE

StillWaits(waiter) == ~waiter.late

\* answer_event_waiters, on each tick.  One caller at most is told the events:
\* the first, since what it is not told is marked as seen before the next one
\* is looked at.  Those whose time ran out get an answer without events.
AnswerEventWaiters ==
    /\ \E first \in event_waiters :
        /\ TakeEvents(first.ambient, first.listens)
        /\ event_waiters' =
             {waiter \in event_waiters :
                 StillWaits(waiter) /\ (waiter # first \/ Ready(first.ambient) = {})}
    /\ UNCHANGED <<event_seq, events>>

\* The time a caller named is over, or the caller goes away.
TimeRunsOut(c) ==
    /\ \E waiter \in event_waiters :
        /\ waiter.caller = c
        /\ ~waiter.late
        /\ event_waiters' = (event_waiters \ {waiter}) \cup {[waiter EXCEPT !.late = TRUE]}
    /\ answer' = NoAnswer
    /\ UNCHANGED <<event_seq, events, delivered, heard, owed>>

CallerHangsUp(c) ==
    /\ \E waiter \in event_waiters :
        /\ waiter.caller = c
        /\ waiter.listens
        /\ event_waiters' = (event_waiters \ {waiter}) \cup {[waiter EXCEPT !.listens = FALSE]}
    /\ answer' = NoAnswer
    /\ UNCHANGED <<event_seq, events, delivered, heard, owed>>

-----------------------------------------------------------------------------
Init ==
    /\ event_seq = 0
    /\ events = {}
    /\ delivered = 0
    /\ event_waiters = {}
    /\ answer = NoAnswer
    /\ heard = {}
    /\ owed = {}

Next ==
    \/ PushEvent
    \/ BeginAgain
    \/ AnswerEventWaiters
    \/ \E c \in Caller : WaitForEvent(c) \/ TimeRunsOut(c) \/ CallerHangsUp(c)

Spec == Init /\ [][Next]_vars

\* The session ticks for ever, and a waiter's deadline is on the clock.
Fairness ==
    /\ WF_vars(AnswerEventWaiters)
    /\ \A c \in Caller : WF_vars(TimeRunsOut(c))

FairSpec == Spec /\ Fairness

-----------------------------------------------------------------------------
(* Properties. *)

\* Every variable holds a value of its kind.
TypeOK ==
    /\ event_seq \in 0 .. MaxEvents
    /\ events \subseteq Event
    /\ delivered \in Nat
    /\ event_waiters \subseteq EventWaiter
    /\ answer \in [events : SUBSET (Nat \ {0}), missed : Nat]
    /\ heard \subseteq Nat \ {0}
    /\ owed \subseteq Nat \ {0}

\* The log stays within its cap, numbered without a double, and behind the
\* count: what every reader with a mark relies on (push_event, begin_again).
LogInOrder ==
    /\ Cardinality(events) <= EventLogCap
    /\ \A e, f \in events : e.seq = f.seq => e = f
    /\ \A e \in events : e.seq <= event_seq

\* The agents hear each event once and in order, across dropped links as well:
\* an answer is all newer than everything told before it, although the mark of
\* the new login starts at 0 (begin_again keeps the count going for this).
HeardOnceInOrder ==
    [][\A n \in answer'.events : \A m \in heard : m < n]_vars

\* The mark passes an event that matters only when an answer carries it: until
\* then it waits in the log, however full the batches are and whoever asks, and
\* goes only when the log itself is full or the link drops (take_events).
OwedStaysAhead == \A n \in owed : n > delivered /\ n \in Seqs(events)

\* A caller that waits is answered or let go.
WaitingEnds == \A c \in Caller : Waits(c) ~> ~Waits(c)
=============================================================================
