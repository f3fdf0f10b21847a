--------------------------- MODULE EventLogProofs ---------------------------
(***************************************************************************)
(* What holds of EventLog for every cap, every batch and every number of   *)
(* callers: the log stays in order, the agents hear each event once and in *)
(* order, and none that matters is passed over.                            *)
(***************************************************************************)
EXTENDS EventLog, DataFacts

-----------------------------------------------------------------------------
(* The ends of a set of events, and a batch of them. *)

LEMMA OldestIsFirst ==
    ASSUME NEW S \in SUBSET Event, S # {}
    PROVE  Oldest(S) \in S /\ \A f \in S : Oldest(S).seq <= f.seq
<1>1. Seqs(S) \in SUBSET Nat /\ Seqs(S) # {}
  BY DEF Seqs, Event
<1>2. PICK m \in Seqs(S) : \A n \in Seqs(S) : m <= n
  BY <1>1, LeastNatural
<1>3. \E e \in S : \A f \in S : e.seq <= f.seq
  BY <1>2 DEF Seqs
<1> QED BY <1>3 DEF Oldest

LEMMA NewestIsLast ==
    ASSUME NEW S \in SUBSET Event, S # {}, NEW top \in Nat, \A e \in S : e.seq <= top
    PROVE  Newest(S) \in S /\ \A f \in S : f.seq <= Newest(S).seq
<1>1. Seqs(S) \in SUBSET Nat /\ Seqs(S) # {} /\ \A n \in Seqs(S) : n <= top
  BY DEF Seqs, Event
<1>2. PICK m \in Seqs(S) : \A n \in Seqs(S) : n <= m
  BY <1>1, GreatestNatural
<1>3. \E e \in S : \A f \in S : f.seq <= e.seq
  BY <1>2 DEF Seqs
<1> QED BY <1>3 DEF Newest

\* A batch holds the lowest numbers: what is left is newer than all of it.
LEMMA FirstAreOldest ==
    ASSUME NEW S \in SUBSET Event, IsFiniteSet(S), NEW n \in Nat,
           NEW e \in S \ First(n, S), NEW f \in First(n, S)
    PROVE  f.seq < e.seq
<1> SUFFICES ASSUME e.seq <= f.seq
             PROVE  FALSE
  BY DEF First, Event
<1>1. Below(e, S) \in SUBSET Below(f, S)
  BY DEF Below, First, Event
<1>2. Below(f, S) \in SUBSET S /\ Below(e, S) \in SUBSET S
  BY DEF Below
<1>3. IsFiniteSet(Below(f, S)) /\ IsFiniteSet(Below(e, S))
  BY <1>2, FS_Subset
<1>4. Cardinality(Below(e, S)) <= Cardinality(Below(f, S))
  BY <1>1, <1>3, FS_Subset
<1>5. Cardinality(Below(e, S)) \in Nat /\ Cardinality(Below(f, S)) \in Nat
  BY <1>3, FS_CardinalityType
<1>6. Cardinality(Below(f, S)) < n /\ ~(Cardinality(Below(e, S)) < n)
  BY DEF First
<1> QED BY <1>4, <1>5, <1>6

\* A batch that is not full leaves nothing behind.
LEMMA ShortBatchIsAll ==
    ASSUME NEW S \in SUBSET Event, IsFiniteSet(S), NEW top \in Nat,
           \A e, f \in S : e.seq = f.seq => e = f, \A e \in S : e.seq <= top,
           NEW n \in Nat \ {0}, Cardinality(First(n, S)) # n
    PROVE  First(n, S) = S
<1> SUFFICES ASSUME S \ First(n, S) # {}
             PROVE  FALSE
  BY DEF First
<1>0. \A f \in S : f.seq \in Nat
  BY DEF Event
<1>1. PICK e \in S \ First(n, S) : \A f \in S \ First(n, S) : e.seq <= f.seq
  <2>1. S \ First(n, S) \in SUBSET Event
    OBVIOUS
  <2> QED BY <2>1, OldestIsFirst
<1>2. \A f \in First(n, S) : f.seq < e.seq
  BY FirstAreOldest
<1>3. Below(e, S) = First(n, S)
  <2>1. \A f \in S : f.seq < e.seq => f \in First(n, S)
    BY <1>0, <1>1
  <2>2. First(n, S) \subseteq S
    BY DEF First
  <2> QED BY <1>2, <2>1, <2>2 DEF Below
<1>4. ~(Cardinality(First(n, S)) < n)
  <2>1. ~(Cardinality(Below(e, S)) < n)
    BY <1>1 DEF First
  <2> QED BY <1>3, <2>1
<1>5. First(n, S) \in SUBSET Event /\ First(n, S) \in SUBSET S /\ IsFiniteSet(First(n, S))
  <2>1. First(n, S) \in SUBSET S
    BY DEF First
  <2> QED BY <2>1, FS_Subset
<1>6. Cardinality(First(n, S)) \in Nat
  BY <1>5, FS_CardinalityType
<1>7. First(n, S) # {}
  <2>1. Cardinality({}) = 0
    BY FS_EmptySet
  <2> QED BY <1>4, <2>1
<1>8. PICK last \in First(n, S) : \A f \in First(n, S) : f.seq <= last.seq
  <2>1. \A f \in First(n, S) : f.seq <= top
    BY <1>5
  <2> QED BY <1>5, <1>7, <2>1, NewestIsLast
<1>9. Below(last, S) = First(n, S) \ {last}
  <2>1. \A f \in S : f.seq < last.seq => f \in First(n, S)
    <3>1. \A f \in S : f.seq < last.seq => f.seq < e.seq
      BY <1>0, <1>2, <1>5
    <3> QED BY <1>3, <3>1 DEF Below
  <2>2. \A f \in First(n, S) : f # last => f.seq < last.seq
    BY <1>0, <1>5, <1>8
  <2>3. ~(last.seq < last.seq)
    BY <1>0, <1>5
  <2> QED BY <1>5, <2>1, <2>2, <2>3 DEF Below
<1>10. Cardinality(First(n, S) \ {last}) = Cardinality(First(n, S)) - 1
  BY <1>5, FS_RemoveElement
<1>11. Cardinality(Below(last, S)) < n
  BY <1>8 DEF First
<1> QED BY <1>4, <1>6, <1>9, <1>10, <1>11

-----------------------------------------------------------------------------
(* The log. *)

\* What a push drops is in the log, and leaves no more than the cap.
LEMMA DroppedKeepsTheCap ==
    ASSUME NEW log \in SUBSET Event, IsFiniteSet(log),
           Cardinality(log) <= EventLogCap + 1
    PROVE  /\ Dropped(log) \subseteq log
           /\ IsFiniteSet(log \ Dropped(log))
           /\ Cardinality(log \ Dropped(log)) <= EventLogCap
<1>0. Cardinality(log) \in Nat
  BY FS_CardinalityType
<1>1. CASE Cardinality(log) <= EventLogCap
  <2>1. Dropped(log) = {}
    BY <1>1 DEF Dropped
  <2> QED BY <1>1, <2>1
<1>2. CASE ~(Cardinality(log) <= EventLogCap)
  <2>1. log # {}
    <3>1. Cardinality({}) = 0
      BY FS_EmptySet
    <3> QED BY <1>2, <3>1, LogSizes
  <2>2. PICK e \in log : Dropped(log) = {e}
    <3> DEFINE ambient == {f \in log : f.kind = "ambient"}
    <3>1. CASE ambient # {}
      <4>1. Oldest(ambient) \in ambient
        BY <3>1, OldestIsFirst
      <4>2. Dropped(log) = {Oldest(ambient)}
        BY <1>2, <3>1 DEF Dropped
      <4> QED BY <4>1, <4>2
    <3>2. CASE ambient = {}
      <4>1. Oldest(log) \in log
        BY <2>1, OldestIsFirst
      <4>2. Dropped(log) = {Oldest(log)}
        BY <1>2, <3>2 DEF Dropped
      <4> QED BY <4>1, <4>2
    <3> QED BY <3>1, <3>2
  <2>3. IsFiniteSet(log \ {e}) /\ Cardinality(log \ {e}) = Cardinality(log) - 1
    BY FS_RemoveElement
  <2> QED BY <1>0, <2>2, <2>3, LogSizes
<1> QED BY <1>1, <1>2

Filed == IsFiniteSet(events) /\ LogInOrder

\* Filing keeps the log, whatever of it is left to file onto.
LEMMA PushFiles ==
    ASSUME TypeOK, Filed, NEW kind \in Kind, NEW log \in SUBSET events, NEW due,
           Push(kind, log, due)
    PROVE  /\ event_seq' = event_seq + 1
           /\ event_seq' \in 0 .. MaxEvents
           /\ events' \subseteq log \cup {[seq |-> event_seq + 1, kind |-> kind]}
           /\ events' \in SUBSET Event
           /\ Filed'
<1> DEFINE new == [seq |-> event_seq + 1, kind |-> kind]
           full == log \cup {new}
<1>1. event_seq \in Nat /\ event_seq + 1 \in 0 .. MaxEvents /\ event_seq' = event_seq + 1
  BY LogSizes DEF Push, TypeOK
<1>2. new \in Event /\ full \in SUBSET Event
  BY <1>1 DEF TypeOK, Event
<1>3. IsFiniteSet(log) /\ Cardinality(log) <= EventLogCap
  <2>1. IsFiniteSet(log) /\ Cardinality(log) <= Cardinality(events)
    BY FS_Subset DEF Filed
  <2>2. Cardinality(log) \in Nat /\ Cardinality(events) \in Nat
    BY <2>1, FS_CardinalityType DEF Filed
  <2> QED BY <2>1, <2>2, LogSizes DEF Filed, LogInOrder
<1>4. IsFiniteSet(full) /\ Cardinality(full) <= EventLogCap + 1
  <2>1. IsFiniteSet(full) /\ Cardinality(full) = IF new \in log THEN Cardinality(log)
                                                 ELSE Cardinality(log) + 1
    BY <1>3, FS_AddElement
  <2>2. Cardinality(log) \in Nat
    BY <1>3, FS_CardinalityType
  <2> QED BY <1>3, <2>1, <2>2, LogSizes
<1>5. events' = full \ Dropped(full)
  BY DEF Push
<1>6. events' \in SUBSET full
  BY <1>5
<1>7. IsFiniteSet(events') /\ Cardinality(events') <= EventLogCap
  <2> HIDE DEF full
  <2> QED BY <1>2, <1>4, <1>5, DroppedKeepsTheCap
<1>8. \A e \in log : e.seq \in Nat /\ e.seq <= event_seq
  BY DEF Filed, LogInOrder, TypeOK, Event
<1>9. \A e \in events' : e.seq <= event_seq'
  BY <1>1, <1>6, <1>8
<1>10. \A e, f \in events' : e.seq = f.seq => e = f
  <2>1. \A e, f \in log : e.seq = f.seq => e = f
    BY DEF Filed, LogInOrder
  <2>2. \A e \in log : e.seq # new.seq
    BY <1>1, <1>8
  <2> QED BY <1>6, <2>1, <2>2
<1> QED BY <1>1, <1>2, <1>6, <1>7, <1>9, <1>10 DEF Filed, LogInOrder

-----------------------------------------------------------------------------
(* The mark. *)

LEMMA NewerType ==
    ASSUME TypeOK, Filed, NEW ambient \in BOOLEAN
    PROVE  /\ Newer \in SUBSET Event /\ Newer \in SUBSET events
           /\ \A e \in Newer : e.seq \in Nat /\ e.seq > delivered /\ e.seq <= event_seq
           /\ Ready(ambient) \in SUBSET Newer
<1>1. Newer \in SUBSET events
  BY DEF Newer
<1>2. Ready(ambient) \in SUBSET Newer
  BY DEF Ready, First
<1> QED BY <1>1, <1>2 DEF Newer, Filed, LogInOrder, TypeOK, Event

\* The mark moves forward, past all that is told and never past the count.
LEMMA LastIsPast ==
    ASSUME TypeOK, Filed, delivered <= event_seq, NEW ambient \in BOOLEAN
    PROVE  /\ Last(ambient) \in Nat
           /\ delivered <= Last(ambient)
           /\ Last(ambient) <= event_seq
           /\ \A e \in Ready(ambient) : e.seq <= Last(ambient)
<1>0. event_seq \in Nat /\ delivered \in Nat
  BY LogSizes DEF TypeOK
<1>1. /\ Newer \in SUBSET Event /\ Ready(ambient) \in SUBSET Newer
      /\ \A e \in Newer : e.seq \in Nat /\ e.seq > delivered /\ e.seq <= event_seq
  BY NewerType
<1>2. CASE Cardinality(Ready(ambient)) = NextEventBatch
  <2>1. Ready(ambient) # {}
    <3>1. Cardinality({}) = 0
      BY FS_EmptySet
    <3> QED BY <1>2, <3>1, LogSizes
  <2>2. /\ Newest(Ready(ambient)) \in Ready(ambient)
        /\ \A e \in Ready(ambient) : e.seq <= Newest(Ready(ambient)).seq
    BY <1>0, <1>1, <2>1, NewestIsLast
  <2>3. Last(ambient) = Newest(Ready(ambient)).seq
    BY <1>2 DEF Last
  <2> QED BY <1>0, <1>1, <2>2, <2>3
<1>3. CASE Cardinality(Ready(ambient)) # NextEventBatch /\ Newer = {}
  <2>1. Last(ambient) = delivered
    BY <1>3 DEF Last
  <2> QED BY <1>0, <1>1, <1>3, <2>1
<1>4. CASE Cardinality(Ready(ambient)) # NextEventBatch /\ Newer # {}
  <2>1. Newest(Newer) \in Newer /\ \A e \in Newer : e.seq <= Newest(Newer).seq
    BY <1>0, <1>1, <1>4, NewestIsLast
  <2>2. Last(ambient) = Newest(Newer).seq
    BY <1>4 DEF Last
  <2> QED BY <1>0, <1>1, <2>1, <2>2
<1> QED BY <1>2, <1>3, <1>4

LEMMA MissedType == TypeOK => Missed \in Nat
<1> SUFFICES ASSUME TypeOK
             PROVE  Missed \in Nat
  OBVIOUS
<1>1. CASE events # {}
  <2>1. Oldest(events) \in events
    BY <1>1, OldestIsFirst DEF TypeOK
  <2>2. Oldest(events).seq \in Nat /\ delivered \in Nat
    BY <2>1 DEF TypeOK, Event
  <2> QED BY <2>2 DEF Missed
<1>2. CASE events = {}
  BY <1>2 DEF Missed
<1> QED BY <1>1, <1>2

\* Every event that is told is older than every event still ahead of the mark:
\* what lets the mark of a new login start at 0.
Marks ==
    /\ delivered <= event_seq
    /\ \A n \in heard : n <= event_seq
    /\ \A n \in heard : \A e \in events : e.seq > delivered => n < e.seq

IInv == TypeOK /\ Filed /\ Marks

\* What one answer does to the mark and to what was told.
LEMMA TakeEventsKeeps ==
    ASSUME IInv, NEW ambient \in BOOLEAN, NEW listens \in BOOLEAN,
           TakeEvents(ambient, listens), UNCHANGED <<event_seq, events>>
    PROVE  /\ delivered' \in Nat
           /\ answer' \in [events : SUBSET (Nat \ {0}), missed : Nat]
           /\ heard' \subseteq Nat \ {0}
           /\ owed' \subseteq Nat \ {0}
           /\ Filed'
           /\ Marks'
           /\ \A n \in answer'.events : \A m \in heard : m < n
<1> DEFINE carried == Seqs(Ready(ambient))
           told == IF listens THEN carried ELSE {}
<1>1. /\ delivered' = Last(ambient)
      /\ answer' = IF told = {} THEN NoAnswer ELSE [events |-> told, missed |-> Missed]
      /\ heard' = heard \cup told
      /\ owed' = owed \ carried
  BY DEF TakeEvents
<1>2. /\ Newer \in SUBSET Event /\ Newer \in SUBSET events
      /\ \A e \in Newer : e.seq \in Nat /\ e.seq > delivered /\ e.seq <= event_seq
      /\ Ready(ambient) \in SUBSET Newer
  BY NewerType DEF IInv
<1>3. /\ Last(ambient) \in Nat /\ delivered <= Last(ambient) /\ Last(ambient) <= event_seq
      /\ \A e \in Ready(ambient) : e.seq <= Last(ambient)
  BY LastIsPast DEF IInv, Marks
<1>4. \A n \in told : \E e \in Ready(ambient) : n = e.seq
  BY DEF Seqs
<1>5. told \subseteq Nat \ {0}
  BY <1>2, <1>4 DEF Event
<1>6. \A n \in told : n <= Last(ambient) /\ \A m \in heard : m < n
  <2>1. \A e \in Newer : \A m \in heard : m < e.seq
    BY <1>2 DEF IInv, Marks
  <2> QED BY <1>2, <1>3, <1>4, <2>1
<1>7. answer' \in [events : SUBSET (Nat \ {0}), missed : Nat] /\ answer'.events \subseteq told
  <2>1. Missed \in Nat
    BY MissedType DEF IInv
  <2> HIDE DEF told
  <2>2. CASE told = {}
    BY <1>1, <2>2 DEF NoAnswer
  <2>3. CASE told # {}
    BY <1>1, <1>5, <2>1, <2>3
  <2> QED BY <2>2, <2>3
<1>8. Filed'
  BY DEF IInv, Filed, LogInOrder
<1> HIDE DEF told, carried
<1>9. Marks'
  <2>1. event_seq \in Nat /\ delivered \in Nat /\ heard \subseteq Nat
        /\ \A e \in events : e.seq \in Nat
    BY LogSizes DEF IInv, TypeOK, Event
  <2>2. \A n \in heard' : n <= event_seq'
    BY <1>1, <1>3, <1>5, <1>6, <2>1 DEF IInv, Marks
  <2>3. \A n \in heard' : \A e \in events' : e.seq > delivered' => n < e.seq
    BY <1>1, <1>3, <1>5, <1>6, <2>1 DEF IInv, Marks
  <2> QED BY <1>1, <1>3, <2>2, <2>3 DEF Marks
<1> QED BY <1>1, <1>3, <1>5, <1>6, <1>7, <1>8, <1>9 DEF IInv, TypeOK

\* One step: what is told is new, and the marks stay in order.
LEMMA Step ==
    ASSUME IInv, [Next]_vars
    PROVE  IInv' /\ [\A n \in answer'.events : \A m \in heard : m < n]_vars
<1>0. /\ event_seq \in Nat /\ delivered \in Nat /\ heard \subseteq Nat \ {0}
      /\ \A e \in events : e.seq \in Nat /\ e.seq <= event_seq
  BY LogSizes DEF IInv, Filed, LogInOrder, TypeOK, Event
<1>1. CASE PushEvent
  <2>1. PICK kind \in Kind : Push(kind, events, owed)
    BY <1>1 DEF PushEvent
  <2>2. /\ event_seq' = event_seq + 1 /\ event_seq' \in 0 .. MaxEvents
        /\ events' \subseteq events \cup {[seq |-> event_seq + 1, kind |-> kind]}
        /\ events' \in SUBSET Event /\ Filed'
    BY <2>1, PushFiles DEF IInv
  <2>3. UNCHANGED <<delivered, event_waiters, heard>> /\ answer' = NoAnswer
    BY <1>1 DEF PushEvent
  <2>4. owed' \subseteq Nat \ {0}
    <3>1. owed' \subseteq owed \cup {event_seq + 1}
      BY <2>1, Zenon DEF Push
    <3> QED BY <1>0, <3>1 DEF IInv, TypeOK
  <2>5. Marks'
    BY <1>0, <2>2, <2>3 DEF IInv, Marks
  <2>6. TypeOK'
    BY <2>2, <2>3, <2>4 DEF IInv, TypeOK, NoAnswer
  <2> QED BY <2>2, <2>3, <2>5, <2>6 DEF IInv, NoAnswer
<1>2. CASE BeginAgain
  <2>1. Push("important", {}, {})
    BY <1>2 DEF BeginAgain
  <2>2. /\ event_seq' = event_seq + 1 /\ event_seq' \in 0 .. MaxEvents
        /\ events' \subseteq {} \cup {[seq |-> event_seq + 1, kind |-> "important"]}
        /\ events' \in SUBSET Event /\ Filed'
    <3>1. "important" \in Kind /\ {} \in SUBSET events
      BY DEF Kind
    <3> QED BY <2>1, <3>1, PushFiles DEF IInv
  <2>3. UNCHANGED <<heard>> /\ delivered' = 0 /\ event_waiters' = {} /\ answer' = NoAnswer
    BY <1>2 DEF BeginAgain
  <2>4. owed' \subseteq Nat \ {0}
    BY <1>0, <2>1 DEF Push
  <2>5. Marks'
    BY <1>0, <2>2, <2>3 DEF IInv, Marks
  <2>6. TypeOK'
    BY <2>2, <2>3, <2>4 DEF IInv, TypeOK, NoAnswer
  <2> QED BY <2>2, <2>3, <2>5, <2>6 DEF IInv, NoAnswer
<1>3. CASE AnswerEventWaiters
  <2>1. PICK first \in event_waiters :
            /\ TakeEvents(first.ambient, first.listens)
            /\ event_waiters' \subseteq event_waiters
    BY <1>3 DEF AnswerEventWaiters
  <2>2. first.ambient \in BOOLEAN /\ first.listens \in BOOLEAN
    BY DEF IInv, TypeOK, EventWaiter
  <2>3. UNCHANGED <<event_seq, events>>
    BY <1>3 DEF AnswerEventWaiters
  <2>4. /\ delivered' \in Nat /\ answer' \in [events : SUBSET (Nat \ {0}), missed : Nat]
        /\ heard' \subseteq Nat \ {0} /\ owed' \subseteq Nat \ {0} /\ Filed' /\ Marks'
        /\ \A n \in answer'.events : \A m \in heard : m < n
    BY <2>1, <2>2, <2>3, TakeEventsKeeps
  <2>5. TypeOK'
    BY <2>1, <2>3, <2>4 DEF IInv, TypeOK
  <2> QED BY <2>4, <2>5 DEF IInv
<1>4. ASSUME NEW c \in Caller, WaitForEvent(c)
      PROVE  IInv' /\ \A n \in answer'.events : \A m \in heard : m < n
  <2>1. PICK ambient \in BOOLEAN, listens \in BOOLEAN :
            /\ TakeEvents(ambient, listens)
            /\ event_waiters' = IF Ready(ambient) # {} THEN event_waiters
                 ELSE event_waiters \cup {[caller |-> c, ambient |-> ambient,
                                          late |-> FALSE, listens |-> listens]}
    BY <1>4 DEF WaitForEvent
  <2>3. UNCHANGED <<event_seq, events>>
    BY <1>4 DEF WaitForEvent
  <2>4. /\ delivered' \in Nat /\ answer' \in [events : SUBSET (Nat \ {0}), missed : Nat]
        /\ heard' \subseteq Nat \ {0} /\ owed' \subseteq Nat \ {0} /\ Filed' /\ Marks'
        /\ \A n \in answer'.events : \A m \in heard : m < n
    BY <2>1, <2>3, TakeEventsKeeps
  <2>5. event_waiters' \subseteq EventWaiter
    <3>1. [caller |-> c, ambient |-> ambient, late |-> FALSE, listens |-> listens]
            \in EventWaiter
      BY DEF EventWaiter
    <3>2. event_waiters \subseteq EventWaiter
      BY DEF IInv, TypeOK
    <3> QED BY <2>1, <3>1, <3>2
  <2>6. TypeOK'
    BY <2>3, <2>4, <2>5 DEF IInv, TypeOK
  <2> QED BY <2>4, <2>6 DEF IInv
<1>5. ASSUME NEW c \in Caller, TimeRunsOut(c) \/ CallerHangsUp(c)
      PROVE  IInv' /\ \A n \in answer'.events : \A m \in heard : m < n
  <2>1. UNCHANGED <<event_seq, events, delivered, heard, owed>> /\ answer' = NoAnswer
    BY <1>5 DEF TimeRunsOut, CallerHangsUp
  <2>2. event_waiters' \subseteq EventWaiter
    <3>1. event_waiters \subseteq EventWaiter
      BY DEF IInv, TypeOK
    <3>2. \A waiter \in EventWaiter : /\ [waiter EXCEPT !.late = TRUE] \in EventWaiter
                                      /\ [waiter EXCEPT !.listens = FALSE] \in EventWaiter
      BY DEF EventWaiter
    <3> QED BY <1>5, <3>1, <3>2 DEF TimeRunsOut, CallerHangsUp
  <2>3. TypeOK'
    BY <2>1, <2>2 DEF IInv, TypeOK, NoAnswer
  <2> QED BY <2>1, <2>3 DEF IInv, Filed, LogInOrder, Marks, NoAnswer
<1>6. CASE UNCHANGED vars
  <2>1. IInv'
    BY <1>6 DEF IInv, TypeOK, Filed, LogInOrder, Marks, vars
  <2> QED BY <1>6, <2>1
<1> QED BY <1>1, <1>2, <1>3, <1>4, <1>5, <1>6 DEF Next

LEMMA InitIInv == Init => IInv
<1> SUFFICES ASSUME Init
             PROVE  IInv
  OBVIOUS
<1>1. NoAnswer \in [events : SUBSET (Nat \ {0}), missed : Nat] /\ 0 \in 0 .. MaxEvents
  BY LogSizes DEF NoAnswer
<1>2. TypeOK
  BY <1>1 DEF Init, TypeOK
<1>3. Filed
  BY FS_EmptySet, LogSizes DEF Init, Filed, LogInOrder
<1>4. Marks
  BY DEF Init, Marks
<1> QED BY <1>2, <1>3, <1>4 DEF IInv

LEMMA IInvHolds == Spec => []IInv
<1>1. IInv /\ [Next]_vars => IInv'
  BY Step
<1> QED BY <1>1, InitIInv, PTL DEF Spec

\* Every variable holds a value of its kind (TypeOK of EventLog).
THEOREM LogTypeCorrect == Spec => []TypeOK
<1>1. IInv => TypeOK
  BY DEF IInv
<1> QED BY <1>1, IInvHolds, PTL

\* The log stays within its cap and in order (LogInOrder of EventLog).
THEOREM LogStaysInOrder == Spec => []LogInOrder
<1>1. IInv => LogInOrder
  BY DEF IInv, Filed
<1> QED BY <1>1, IInvHolds, PTL

\* The agents hear each event once and in order, over any number of dropped
\* links, any batch and any cap (HeardOnceInOrder of EventLog).
THEOREM EachEventHeardOnceInOrder == Spec => HeardOnceInOrder
<1>1. IInv /\ [Next]_vars => [\A n \in answer'.events : \A m \in heard : m < n]_vars
  BY Step
<1> QED BY <1>1, IInvHolds, PTL DEF Spec, HeardOnceInOrder

-----------------------------------------------------------------------------
(* Nothing that matters is passed over. *)

OwedAhead ==
    \A n \in owed : n > delivered /\ \E e \in events : e.seq = n /\ e.kind = "important"

\* A push owes what it files and did not drop.
LEMMA PushOwes ==
    ASSUME IInv, NEW kind \in Kind, NEW log \in SUBSET events,
           NEW due \in SUBSET owed, Push(kind, log, due),
           \A n \in due : \E e \in log : e.seq = n /\ e.kind = "important"
    PROVE  \A n \in owed' :
              /\ n \in due \/ n = event_seq + 1
              /\ \E e \in events' : e.seq = n /\ e.kind = "important"
<1> DEFINE new == [seq |-> event_seq + 1, kind |-> kind]
           full == log \cup {new}
<1>1. /\ events' = full \ Dropped(full)
      /\ owed' = (due \cup IF kind = "important" THEN {event_seq + 1} ELSE {})
                    \ Seqs(Dropped(full))
  BY DEF Push
<1> SUFFICES ASSUME NEW n \in owed'
             PROVE  /\ n \in due \/ n = event_seq + 1
                    /\ \E e \in events' : e.seq = n /\ e.kind = "important"
  OBVIOUS
<1>2. \/ n \in due
      \/ n = event_seq + 1 /\ kind = "important"
  BY <1>1
<1>3. n \notin Seqs(Dropped(full))
  BY <1>1
<1>4. PICK e \in full : e.seq = n /\ e.kind = "important"
  <2>1. new \in full /\ new.seq = event_seq + 1 /\ new.kind = kind
    OBVIOUS
  <2>2. log \subseteq full
    OBVIOUS
  <2> HIDE DEF new, full
  <2> QED BY <1>2, <2>1, <2>2
<1>5. e \notin Dropped(full)
  BY <1>3, <1>4 DEF Seqs
<1> QED BY <1>1, <1>2, <1>4, <1>5

\* An answer carries all that matters of what the mark passes.
LEMMA TakeEventsPays ==
    ASSUME IInv, OwedAhead, NEW ambient \in BOOLEAN, NEW listens,
           TakeEvents(ambient, listens), UNCHANGED <<event_seq, events>>
    PROVE  \A n \in owed' : /\ n > delivered'
                            /\ \E e \in events' : e.seq = n /\ e.kind = "important"
<1> SUFFICES ASSUME NEW n \in owed'
             PROVE  /\ n > delivered'
                    /\ \E e \in events' : e.seq = n /\ e.kind = "important"
  OBVIOUS
<1> DEFINE due == {f \in Newer : Important(f, ambient)}
<1>1. delivered' = Last(ambient) /\ n \in owed /\ n \notin Seqs(Ready(ambient))
  BY DEF TakeEvents
<1>2. PICK e \in events : e.seq = n /\ e.kind = "important" /\ n > delivered
  BY <1>1 DEF OwedAhead
<1>3. /\ Newer \in SUBSET Event /\ Newer \in SUBSET events
      /\ \A f \in Newer : f.seq \in Nat /\ f.seq > delivered /\ f.seq <= event_seq
      /\ Ready(ambient) \in SUBSET Newer
  BY NewerType DEF IInv
<1>4. e \in due /\ e \notin Ready(ambient)
  BY <1>1, <1>2 DEF Newer, Important, Seqs
<1>5. due \in SUBSET Event /\ IsFiniteSet(due)
  <2>1. due \in SUBSET events /\ IsFiniteSet(events)
    BY <1>3 DEF IInv, Filed
  <2> HIDE DEF due
  <2>2. IsFiniteSet(due)
    BY <2>1, FS_Subset
  <2> QED BY <2>1, <2>2 DEF IInv, TypeOK
<1>6. Ready(ambient) = First(NextEventBatch, due)
  BY DEF Ready
<1>7. Cardinality(Ready(ambient)) = NextEventBatch
  <2> SUFFICES ASSUME Cardinality(Ready(ambient)) # NextEventBatch
               PROVE  FALSE
    OBVIOUS
  <2>1. \A f, g \in due : f.seq = g.seq => f = g
    BY <1>3 DEF IInv, Filed, LogInOrder
  <2>2. event_seq \in Nat /\ \A f \in due : f.seq <= event_seq
    BY <1>3, LogSizes DEF IInv, TypeOK
  <2> HIDE DEF due
  <2>3. First(NextEventBatch, due) = due
    BY <1>5, <1>6, <2>1, <2>2, LogSizes, ShortBatchIsAll
  <2> QED BY <1>4, <1>6, <2>3
<1>8. \A f \in Ready(ambient) : f.seq < e.seq
  <2> HIDE DEF due
  <2> QED BY <1>4, <1>5, <1>6, LogSizes, FirstAreOldest
<1>9. Newest(Ready(ambient)) \in Ready(ambient)
  <2>1. Ready(ambient) # {}
    <3>1. Cardinality({}) = 0
      BY FS_EmptySet
    <3> QED BY <1>7, <3>1, LogSizes
  <2>2. event_seq \in Nat
    BY LogSizes DEF IInv, TypeOK
  <2> QED BY <1>3, <2>1, <2>2, NewestIsLast
<1>10. Last(ambient) < n
  BY <1>2, <1>7, <1>8, <1>9 DEF Last
<1>11. Last(ambient) \in Nat /\ n \in Nat
  BY <1>1, LastIsPast DEF IInv, Marks, TypeOK
<1> QED BY <1>1, <1>2, <1>10, <1>11

LEMMA OwedStep ==
    ASSUME IInv, OwedAhead, [Next]_vars
    PROVE  OwedAhead'
<1>0. event_seq \in Nat /\ delivered <= event_seq /\ delivered \in Nat
      /\ owed \subseteq Nat
  BY LogSizes DEF IInv, Marks, TypeOK
<1>1. CASE PushEvent
  <2>1. PICK kind \in Kind : Push(kind, events, owed)
    BY <1>1 DEF PushEvent
  <2>2. \A n \in owed' : /\ n \in owed \/ n = event_seq + 1
                         /\ \E e \in events' : e.seq = n /\ e.kind = "important"
    BY <2>1, PushOwes DEF OwedAhead
  <2>3. \A n \in owed' : n > delivered'
    <3>1. \A n \in owed : n > delivered
      BY DEF OwedAhead
    <3>2. event_seq + 1 > delivered
      BY <1>0
    <3>3. UNCHANGED delivered
      BY <1>1 DEF PushEvent
    <3> QED BY <2>2, <3>1, <3>2, <3>3
  <2> QED BY <2>2, <2>3 DEF OwedAhead
<1>2. CASE BeginAgain
  <2>1. Push("important", {}, {}) /\ delivered' = 0
    BY <1>2 DEF BeginAgain
  <2>2. \A n \in owed' : /\ n = event_seq + 1
                         /\ \E e \in events' : e.seq = n /\ e.kind = "important"
    <3>1. "important" \in Kind /\ {} \in SUBSET events /\ {} \in SUBSET owed
      BY DEF Kind
    <3>2. \A n \in {} : \E e \in {} : e.seq = n /\ e.kind = "important"
      OBVIOUS
    <3>3. \A n \in owed' : /\ n \in {} \/ n = event_seq + 1
                           /\ \E e \in events' : e.seq = n /\ e.kind = "important"
      BY <2>1, <3>1, <3>2, PushOwes
    <3> QED BY <3>3
  <2>3. \A n \in owed' : n > delivered'
    BY <1>0, <2>1, <2>2
  <2> QED BY <2>2, <2>3 DEF OwedAhead
<1>3. CASE AnswerEventWaiters
  <2>1. PICK first \in event_waiters : TakeEvents(first.ambient, first.listens)
    BY <1>3 DEF AnswerEventWaiters
  <2>2. first.ambient \in BOOLEAN
    BY DEF IInv, TypeOK, EventWaiter
  <2>3. UNCHANGED <<event_seq, events>>
    BY <1>3 DEF AnswerEventWaiters
  <2> QED BY <2>1, <2>2, <2>3, TakeEventsPays DEF OwedAhead
<1>4. ASSUME NEW c \in Caller, WaitForEvent(c)
      PROVE  OwedAhead'
  <2>1. PICK ambient \in BOOLEAN, listens \in BOOLEAN : TakeEvents(ambient, listens)
    BY <1>4 DEF WaitForEvent
  <2>2. UNCHANGED <<event_seq, events>>
    BY <1>4 DEF WaitForEvent
  <2> QED BY <2>1, <2>2, TakeEventsPays DEF OwedAhead
<1>5. CASE \/ \E c \in Caller : TimeRunsOut(c) \/ CallerHangsUp(c)
           \/ UNCHANGED vars
  <2>1. UNCHANGED <<events, delivered, owed>>
    BY <1>5 DEF TimeRunsOut, CallerHangsUp, vars
  <2> QED BY <2>1 DEF OwedAhead
<1> QED BY <1>1, <1>2, <1>3, <1>4, <1>5 DEF Next

\* An important event that the mark has passed was carried by an answer, or the
\* log dropped it (OwedStaysAhead of EventLog).
THEOREM NothingImportantIsPassedOver == Spec => []OwedStaysAhead
<1>1. Init => OwedAhead
  BY DEF Init, OwedAhead
<1>2. IInv /\ OwedAhead /\ [Next]_vars => OwedAhead'
  BY OwedStep
<1>3. OwedAhead => OwedStaysAhead
  BY DEF OwedAhead, OwedStaysAhead, Seqs
<1> QED BY <1>1, <1>2, <1>3, IInvHolds, PTL DEF Spec
=============================================================================
