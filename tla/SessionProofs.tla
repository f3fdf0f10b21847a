--------------------------- MODULE SessionProofs ---------------------------
(***************************************************************************)
(* What holds of Session for any calls, any queue and any number of faults *)
(* of the link: who logs in again, as whom, and what becomes of calls.     *)
(***************************************************************************)
EXTENDS Session, SequenceTheorems, TLAPS

Message == Call \cup {Shutdown}

-----------------------------------------------------------------------------
(* The types of what the actions share. *)

LEMMA AppendFits ==
    ASSUME NEW m \in Message, queue \in Seq(Message), HasRoom
    PROVE  /\ Append(queue, m) \in Seq(Message)
           /\ Len(Append(queue, m)) <= CmdQueueCap
<1>1. /\ Append(queue, m) \in Seq(Message)
      /\ Len(Append(queue, m)) = Len(queue) + 1
  BY AppendProperties
<1> QED BY <1>1, LenProperties, SessionSizes DEF HasRoom

LEMMA TailFits ==
    ASSUME queue \in Seq(Message), queue # <<>>, Len(queue) <= CmdQueueCap
    PROVE  /\ Head(queue) \in Message
           /\ Tail(queue) \in Seq(Message)
           /\ Len(Tail(queue)) <= CmdQueueCap
<1>1. /\ Head(queue) \in Message
      /\ Tail(queue) \in Seq(Message)
      /\ Len(Tail(queue)) = Len(queue) - 1
  BY HeadTailProperties
<1> QED BY <1>1, LenProperties, SessionSizes

LEMMA TryShutdownFits ==
    ASSUME TypeOK, TryShutdown
    PROVE  queue' \in Seq(Message) /\ Len(queue') <= CmdQueueCap
<1>1. Shutdown \in Message /\ queue \in Seq(Message) /\ Len(queue) <= CmdQueueCap
  BY DEF TypeOK, Message
<1> QED BY <1>1, AppendFits DEF TryShutdown

Standing == {"unmade", "answered", "refused", "closed", "timed_out"} \cup Pending

\* The variables only the session's task writes.
TaskType ==
    /\ phase \in {"login", "world", "waiting", "elapsed", "ended"}
    /\ login_tx \in {"untold", "ok", "error"}
    /\ character \in Character \cup Title \cup {NoName}
    /\ played \in Character \cup Title \cup {NoName}
    /\ logged_out \in BOOLEAN
    /\ relog_as \in Character \cup {NoName}
    /\ wait \in 0 .. LongestWait

QueueType == queue \in Seq(Message) /\ Len(queue) <= CmdQueueCap

CallsType ==
    /\ waiters \subseteq Call
    /\ holder \in {"starting", "holds", "gone"}
    /\ state \in [Call -> Standing]
    /\ tool \in [Call -> Tool]
    /\ slow \subseteq Call

ShardType ==
    /\ plays \in Character \cup {NoName}
    /\ wanted \in Character \cup {NoName}
    /\ misled \in BOOLEAN
    /\ faults \in 0 .. MaxFaults

LEMMA TypeParts ==
    /\ TypeOK <=> TaskType /\ QueueType /\ CallsType /\ ShardType
    /\ TypeOK' <=> TaskType' /\ QueueType' /\ CallsType' /\ ShardType'
BY DEF TypeOK, TaskType, QueueType, CallsType, ShardType, Message, Standing

LEMMA EndRunTypes ==
    ASSUME TypeOK,
           NEW end \in {"relog", "logged_out", "lost_link", "network", "refused", "shutdown"},
           NEW told \in {"untold", "ok", "error"},
           NEW name \in Character \cup Title \cup {NoName},
           EndRun(end, told, name)
    PROVE  /\ TaskType'
           /\ CallsType'
           /\ plays' \in Character \cup {NoName}
           /\ wanted' \in Character \cup {NoName}
           /\ misled' \in BOOLEAN
<1>1. TaskType /\ CallsType /\ ShardType
  BY TypeParts
<1>2. NextCharacter(end, name) \in Character \cup Title \cup {NoName}
  BY <1>1 DEF NextCharacter, TaskType
<1>3. TaskType'
  BY <1>1, <1>2 DEF EndRun, TaskType
<1>4. \A over \in BOOLEAN : LetGo(end, over) \in [Call -> Standing]
  BY <1>1 DEF LetGo, CallsType, Standing
<1>5. CallsType'
  BY <1>1, <1>4 DEF EndRun, CallsType
<1>6. plays' \in Character \cup {NoName} /\ wanted' \in Character \cup {NoName}
  BY <1>1 DEF EndRun, ShardType, TaskType
<1>7. misled' \in BOOLEAN
  BY <1>1 DEF EndRun, ShardType
<1> QED BY <1>3, <1>5, <1>6, <1>7

LEMMA FaultCounts ==
    ASSUME faults \in 0 .. MaxFaults, Fault
    PROVE  faults' \in 0 .. MaxFaults
BY SessionSizes DEF Fault

LEMMA LinkEndedType == LinkEnded \in {"relog", "logged_out", "lost_link"}
BY DEF LinkEnded

LEMMA ReplyType ==
    ASSUME CallsType, NEW c \in Call, NEW how \in Standing, Reply(c, how)
    PROVE  state' \in [Call -> Standing]
BY DEF CallsType, Reply

LEMMA PickedType == PickCharacter \in Character /\ MayPlay \subseteq Character
BY NamesType DEF PickCharacter, MayPlay

LEMMA CarryOutTypes ==
    ASSUME TypeOK, NEW c \in Call, CarryOut(c)
    PROVE  TaskType' /\ CallsType' /\ ShardType'
<1>1. TaskType /\ CallsType /\ ShardType
  BY TypeParts
<1>2. state' \in [Call -> Standing]
  <2>1. {"answered", "waiting"} \subseteq Standing
    BY DEF Standing, Pending
  <2> QED BY <1>1, <2>1, ReplyType DEF CarryOut
<1>3. waiters' \subseteq Call
  BY <1>1 DEF CarryOut, CallsType
<1>4. logged_out' \in BOOLEAN /\ relog_as' \in Character \cup {NoName}
  BY <1>1 DEF CarryOut, TaskType
<1>5. UNCHANGED <<phase, login_tx, character, played, wait, holder, tool, slow,
                  plays, wanted, misled, faults>>
  BY DEF CarryOut, shard
<1> QED BY <1>1, <1>2, <1>3, <1>4, <1>5 DEF TaskType, CallsType, ShardType

-----------------------------------------------------------------------------
LEMMA InitTypes == Init => TypeOK
<1> SUFFICES ASSUME Init
             PROVE  TypeOK
  OBVIOUS
<1>1. TaskType
  <2>1. wait \in 0 .. LongestWait
    BY SessionSizes DEF Init
  <2>2. logged_out \in BOOLEAN
    BY DEF Init
  <2> QED BY <2>1, <2>2 DEF Init, TaskType
<1>2. QueueType
  <2>1. <<>> \in Seq(Message) /\ Len(<<>>) = 0
    BY EmptySeq
  <2> QED BY <2>1, SessionSizes DEF Init, QueueType
<1>3. CallsType
  <2>1. state \in [Call -> Standing]
    BY DEF Init, Standing
  <2>2. tool \in [Call -> Tool]
    BY DEF Init, Tool
  <2> QED BY <2>1, <2>2 DEF Init, CallsType
<1>4. ShardType
  <2>1. faults \in 0 .. MaxFaults
    BY SessionSizes DEF Init
  <2>2. misled \in BOOLEAN
    BY DEF Init
  <2> QED BY <2>1, <2>2 DEF Init, ShardType
<1> QED BY <1>1, <1>2, <1>3, <1>4, TypeParts

LEMMA CallersKeepTypes ==
    ASSUME TypeOK,
           \/ \E c \in Call : CallTool(c) \/ Enqueue(c) \/ CallTimesOut(c) \/ AnswerWaiter(c)
           \/ StartReturns \/ HandleDropped \/ Close \/ RefuseCall
    PROVE  TypeOK'
<1>0. TaskType /\ QueueType /\ CallsType /\ ShardType
  BY TypeParts
<1>1. ASSUME NEW c \in Call, CallTool(c)
      PROVE  TypeOK'
  <2>1. tool' \in [Call -> Tool] /\ state' \in [Call -> Standing]
    BY <1>0, <1>1 DEF CallTool, CallsType, Standing, Pending
  <2>2. UNCHANGED <<phase, login_tx, character, played, logged_out, relog_as, wait,
                    queue, waiters, holder, slow, plays, wanted, misled, faults>>
    BY <1>1 DEF CallTool, task, shard
  <2> QED BY <1>0, <2>1, <2>2, TypeParts DEF TaskType, QueueType, CallsType, ShardType
<1>2. ASSUME NEW c \in Call, Enqueue(c)
      PROVE  TypeOK'
  <2>1. queue' \in Seq(Message) /\ Len(queue') <= CmdQueueCap
    BY <1>0, <1>2, AppendFits DEF Enqueue, QueueType, Message
  <2>2. state' \in [Call -> Standing]
    BY <1>0, <1>2 DEF Enqueue, CallsType, Standing, Pending
  <2>3. UNCHANGED <<phase, login_tx, character, played, logged_out, relog_as, wait,
                    waiters, holder, tool, slow, plays, wanted, misled, faults>>
    BY <1>2 DEF Enqueue, task, shard
  <2> QED BY <1>0, <2>1, <2>2, <2>3, TypeParts DEF TaskType, QueueType, CallsType, ShardType
<1>3. ASSUME NEW c \in Call, CallTimesOut(c)
      PROVE  TypeOK'
  <2>1. state' \in [Call -> Standing]
    BY <1>0, <1>3 DEF CallTimesOut, CallsType, Standing
  <2>2. UNCHANGED <<phase, login_tx, character, played, logged_out, relog_as, wait,
                    queue, waiters, holder, tool, slow, plays, wanted, misled, faults>>
    BY <1>3 DEF CallTimesOut, task, shard
  <2> QED BY <1>0, <2>1, <2>2, TypeParts DEF TaskType, QueueType, CallsType, ShardType
<1>4. ASSUME NEW c \in Call, AnswerWaiter(c)
      PROVE  TypeOK'
  <2>1. state' \in [Call -> Standing] /\ waiters' \subseteq Call
    <3>1. "answered" \in Standing
      BY DEF Standing
    <3> QED BY <1>0, <1>4, <3>1, ReplyType DEF AnswerWaiter, CallsType
  <2>2. UNCHANGED <<phase, login_tx, character, played, logged_out, relog_as, wait,
                    queue, holder, tool, slow, plays, wanted, misled, faults>>
    BY <1>4 DEF AnswerWaiter, task, shard
  <2> QED BY <1>0, <2>1, <2>2, TypeParts DEF TaskType, QueueType, CallsType, ShardType
<1>5. CASE StartReturns \/ HandleDropped \/ Close
  <2>1. queue' \in Seq(Message) /\ Len(queue') <= CmdQueueCap
    BY <1>0, <1>5, TryShutdownFits DEF StartReturns, HandleDropped, Close, QueueType
  <2>2. holder' \in {"starting", "holds", "gone"}
    BY <1>5 DEF StartReturns, HandleDropped, Close
  <2>3. UNCHANGED <<phase, login_tx, character, played, logged_out, relog_as, wait,
                    waiters, state, tool, slow, plays, wanted, misled, faults>>
    BY <1>5 DEF StartReturns, HandleDropped, Close, task, shard
  <2> QED BY <1>0, <2>1, <2>2, <2>3, TypeParts DEF TaskType, QueueType, CallsType, ShardType
<1>6. CASE RefuseCall
  <2>0. Head(queue) \in Message /\ Tail(queue) \in Seq(Message)
        /\ Len(Tail(queue)) <= CmdQueueCap
    BY <1>0, <1>6, TailFits DEF RefuseCall, QueueType
  <2>1. QueueType'
    BY <1>6, <2>0 DEF RefuseCall, QueueType
  <2>2. state' \in [Call -> Standing]
    <3>1. "refused" \in Standing /\ Head(queue) \in Call
      BY <1>6, <2>0 DEF Standing, RefuseCall, Message
    <3> QED BY <1>0, <1>6, <3>1, ReplyType DEF RefuseCall
  <2>3. UNCHANGED <<phase, login_tx, character, played, logged_out, relog_as, wait,
                    waiters, holder, tool, slow, plays, wanted, misled, faults>>
    BY <1>6 DEF RefuseCall, task, shard
  <2> QED BY <1>0, <2>1, <2>2, <2>3, TypeParts DEF TaskType, CallsType, ShardType
<1> QED BY <1>1, <1>2, <1>3, <1>4, <1>5, <1>6
LEMMA RunsKeepTypes ==
    ASSUME TypeOK,
           LoginSucceeds \/ LoginFails \/ LoginTakesLong \/ ShardNamesHim
    PROVE  TypeOK'
<1>0. TaskType /\ QueueType /\ CallsType /\ ShardType
  BY TypeParts
<1>1. CASE LoginSucceeds
  <2>1. PICK chosen \in MayPlay :
          /\ played' = chosen
          /\ plays' = chosen
          /\ wanted' = IF login_tx = "untold" THEN chosen ELSE wanted
    BY <1>1 DEF LoginSucceeds
  <2>2. chosen \in Character
    BY PickedType
  <2>3. phase' = "world" /\ login_tx' = IF login_tx = "untold" THEN "ok" ELSE login_tx
    BY <1>1 DEF LoginSucceeds
  <2>4. UNCHANGED <<character, logged_out, relog_as, wait, queue, waiters, holder,
                    state, tool, slow, misled, faults>>
    BY <1>1 DEF LoginSucceeds, callers
  <2>5. TaskType'
    BY <1>0, <2>1, <2>2, <2>3, <2>4 DEF TaskType
  <2>6. ShardType'
    BY <1>0, <2>1, <2>2, <2>4 DEF ShardType
  <2> QED BY <1>0, <2>4, <2>5, <2>6, TypeParts DEF QueueType, CallsType
<1>2. CASE LoginFails
  <2>1. PICK name \in {played} \cup MayPlay, end \in {"network", "refused"} :
          EndRun(end, IF login_tx = "untold" THEN "error" ELSE login_tx, name)
    BY <1>2 DEF LoginFails
  <2>2. name \in Character \cup Title \cup {NoName}
    BY <1>0, PickedType DEF TaskType
  <2>3. (IF login_tx = "untold" THEN "error" ELSE login_tx) \in {"untold", "ok", "error"}
    BY <1>0 DEF TaskType
  <2>4. /\ TaskType' /\ CallsType'
        /\ plays' \in Character \cup {NoName}
        /\ wanted' \in Character \cup {NoName}
        /\ misled' \in BOOLEAN
    BY <2>1, <2>2, <2>3, EndRunTypes
  <2>5. faults' \in 0 .. MaxFaults
    BY <1>0, <1>2, FaultCounts DEF LoginFails, ShardType
  <2>6. QueueType'
    BY <1>0, <1>2 DEF LoginFails, QueueType
  <2> QED BY <2>4, <2>5, <2>6, TypeParts DEF ShardType
<1>3. CASE LoginTakesLong
  <2>1. slow' \subseteq Call
    BY <1>0, <1>3 DEF LoginTakesLong, CallsType
  <2>2. UNCHANGED <<phase, login_tx, character, played, logged_out, relog_as, wait,
                    queue, waiters, holder, state, tool, plays, wanted, misled, faults>>
    BY <1>3 DEF LoginTakesLong, task, shard
  <2> QED BY <1>0, <2>1, <2>2, TypeParts DEF TaskType, QueueType, CallsType, ShardType
<1>4. CASE ShardNamesHim
  <2>1. played' \in Character \cup Title \cup {NoName}
    BY <1>0, <1>4 DEF ShardNamesHim, ShardType
  <2>2. UNCHANGED <<phase, login_tx, character, logged_out, relog_as, wait, queue,
                    waiters, holder, state, tool, slow, plays, wanted, misled, faults>>
    BY <1>4 DEF ShardNamesHim, callers, shard
  <2> QED BY <1>0, <2>1, <2>2, TypeParts DEF TaskType, QueueType, CallsType, ShardType
<1> QED BY <1>1, <1>2, <1>3, <1>4

LEMMA EndsKeepTypes ==
    ASSUME TypeOK,
           TakeCommand \/ LinkDrops \/ LogoutGranted
    PROVE  TypeOK'
<1>0. /\ TaskType /\ QueueType /\ CallsType /\ ShardType
      /\ login_tx \in {"untold", "ok", "error"}
      /\ played \in Character \cup Title \cup {NoName}
  BY TypeParts DEF TaskType
<1>1. ASSUME NEW end \in {"relog", "logged_out", "lost_link", "shutdown"},
             EndRun(end, login_tx, played), faults' \in 0 .. MaxFaults, QueueType'
      PROVE  TypeOK'
  BY <1>0, <1>1, EndRunTypes, TypeParts DEF ShardType
<1>2. CASE TakeCommand
  <2>1. QueueType'
    BY <1>0, <1>2, TailFits DEF TakeCommand, QueueType
  <2>2. CASE EndRun("shutdown", login_tx, played) /\ UNCHANGED faults
    BY <1>0, <1>1, <2>1, <2>2 DEF ShardType
  <2>3. CASE queue # <<>> /\ Head(queue) # Shutdown /\ CarryOut(Head(queue))
    <3>1. Head(queue) \in Call
      BY <1>0, <2>3, TailFits DEF QueueType, Message
    <3> QED BY <2>1, <2>3, <3>1, CarryOutTypes, TypeParts
  <2> QED BY <1>2, <2>2, <2>3 DEF TakeCommand
<1>3. CASE LinkDrops
  <2>1. EndRun(LinkEnded, login_tx, played) /\ Fault /\ UNCHANGED queue
    BY <1>3 DEF LinkDrops
  <2>2. faults' \in 0 .. MaxFaults /\ QueueType'
    BY <1>0, <2>1, FaultCounts DEF ShardType, QueueType
  <2> QED BY <1>1, <2>1, <2>2, LinkEndedType
<1>4. CASE LogoutGranted
  <2>1. EndRun(LinkEnded, login_tx, played) /\ UNCHANGED <<queue, faults>>
    BY <1>4 DEF LogoutGranted
  <2>2. faults' \in 0 .. MaxFaults /\ QueueType'
    BY <1>0, <2>1 DEF ShardType, QueueType
  <2> QED BY <1>1, <2>1, <2>2, LinkEndedType
<1> QED BY <1>2, <1>3, <1>4

LEMMA WaitsKeepTypes ==
    ASSUME TypeOK,
           WaitClosed \/ WaitElapses \/ WaitEnds \/ UNCHANGED vars
    PROVE  TypeOK'
<1>0. TaskType /\ QueueType /\ CallsType /\ ShardType
  BY TypeParts
<1>1. CASE WaitClosed
  <2>1. state' \in [Call -> Standing]
    BY <1>0, <1>1 DEF WaitClosed, LetGo, CallsType, Standing
  <2>2. phase' = "ended"
    BY <1>1 DEF WaitClosed
  <2>3. UNCHANGED <<login_tx, character, played, logged_out, relog_as, wait, queue,
                    waiters, holder, tool, slow, plays, wanted, misled, faults>>
    BY <1>1 DEF WaitClosed, shard
  <2> QED BY <1>0, <2>1, <2>2, <2>3, TypeParts DEF TaskType, QueueType, CallsType, ShardType
<1>2. CASE WaitElapses
  <2>1. phase' = "elapsed"
    BY <1>2 DEF WaitElapses
  <2>2. UNCHANGED <<login_tx, character, played, logged_out, relog_as, wait, queue,
                    waiters, holder, state, tool, slow, plays, wanted, misled, faults>>
    BY <1>2 DEF WaitElapses, callers, shard
  <2> QED BY <1>0, <2>1, <2>2, TypeParts DEF TaskType, QueueType, CallsType, ShardType
<1>3. CASE WaitEnds
  <2>1. wait' \in 0 .. LongestWait
    BY <1>0, <1>3, SessionSizes DEF WaitEnds, WaitGrows, TaskType
  <2>2. phase' = "login" /\ logged_out' \in BOOLEAN /\ relog_as' = NoName
    BY <1>3 DEF WaitEnds
  <2>3. UNCHANGED <<login_tx, character, played, queue, waiters, holder, state, tool,
                    slow, plays, wanted, misled, faults>>
    BY <1>3 DEF WaitEnds, callers, shard
  <2> QED BY <1>0, <2>1, <2>2, <2>3, TypeParts DEF TaskType, QueueType, CallsType, ShardType
<1>4. CASE UNCHANGED vars
  BY <1>0, <1>4, TypeParts
     DEF vars, task, callers, shard, TaskType, QueueType, CallsType, ShardType
<1> QED BY <1>1, <1>2, <1>3, <1>4

LEMMA TypeStep == TypeOK /\ [Next]_vars => TypeOK'
<1> SUFFICES ASSUME TypeOK, [Next]_vars
             PROVE  TypeOK'
  OBVIOUS
<1> QED BY CallersKeepTypes, RunsKeepTypes, EndsKeepTypes, WaitsKeepTypes DEF Next

\* Every variable of the session holds a value of its kind (TypeOK of Session):
\* the command queue never holds more than CMD_QUEUE_CAP messages, and the wait
\* never grows past RECONNECT_LONGEST_WAIT.
THEOREM SessionTypeCorrect == Spec => []TypeOK
BY InitTypes, TypeStep, PTL DEF Spec
-----------------------------------------------------------------------------
(* Who logs in again, and as whom. *)

\* Nobody holds a session whose login did not succeed, or calls it.
HeldAfterLogin ==
    login_tx # "ok" => holder # "holds" /\ \A c \in Call : state[c] = "unmade"

\* The caller of `start` is told once, and a login that fails is not repeated.
ToldOnce ==
    /\ login_tx = "untold" => phase = "login"
    /\ login_tx = "error" => phase \in {"waiting", "ended"}

\* In the world he bears his own name or what the shard calls him; out of it
\* the next login has the name he was played by.
KnowsWhom ==
    /\ phase \in {"login", "waiting", "elapsed"} => played = NoName
    /\ phase = "world" => plays \in Character /\ played \in Title \cup {plays}
    /\ login_tx = "ok" => wanted \in Character
    /\ login_tx = "ok" /\ ~misled =>
          IF phase = "world" THEN plays = wanted
          ELSE phase # "ended" => character = wanted

IInv == TypeOK /\ HeldAfterLogin /\ ToldOnce /\ KnowsWhom

\* The shape every end of a run has: the calls that never were made stay so.
LEMMA LetGoKeepsUnmade ==
    ASSUME NEW end, NEW over, \A c \in Call : state[c] = "unmade"
    PROVE  \A c \in Call : LetGo(end, over)[c] = "unmade"
BY DEF LetGo, Pending

LEMMA EndRunHeld ==
    ASSUME IInv, NEW end, NEW told, NEW name, EndRun(end, told, name),
           told # "ok" => login_tx # "ok"
    PROVE  HeldAfterLogin'
<1> SUFFICES ASSUME told # "ok"
             PROVE  holder # "holds" /\ \A c \in Call : state'[c] = "unmade"
  BY DEF HeldAfterLogin, EndRun
<1>1. holder # "holds" /\ \A c \in Call : state[c] = "unmade"
  BY DEF IInv, HeldAfterLogin
<1>2. PICK over \in BOOLEAN : state' = LetGo(end, over)
  BY DEF EndRun
<1> QED BY <1>1, <1>2, LetGoKeepsUnmade

\* A run that was in the world ends with the next login named as it should be.
LEMMA WorldEnds ==
    ASSUME IInv, phase = "world",
           NEW end \in {LinkEnded, "shutdown"}, EndRun(end, login_tx, played)
    PROVE  HeldAfterLogin' /\ ToldOnce' /\ KnowsWhom'
<1>1. login_tx = "ok"
  BY DEF IInv, ToldOnce, TypeOK
<1>2. end = "relog" => relog_as \in Character
  <2>1. relog_as \in Character \cup {NoName}
    BY DEF IInv, TypeOK
  <2> QED BY <2>1 DEF LinkEnded
<1>3. plays \in Character /\ played \in Title \cup {plays} /\ wanted \in Character
  BY <1>1 DEF IInv, KnowsWhom
<1>4. HeldAfterLogin'
  BY <1>1, EndRunHeld
<1>5. ToldOnce'
  BY <1>1 DEF EndRun, ToldOnce
<1>6. phase' \in {"waiting", "ended"} /\ login_tx' = "ok"
      /\ (phase' = "waiting" => played' = NoName)
  BY <1>1 DEF EndRun
<1>7. wanted' \in Character
  BY <1>2, <1>3 DEF EndRun
<1>8. ASSUME ~misled', phase' = "waiting"
      PROVE  character' = wanted'
  <2>1. character' = NextCharacter(end, played)
    BY <1>8 DEF EndRun
  <2>2. CASE end = "relog"
    BY <2>1, <2>2 DEF EndRun, NextCharacter
  <2>3. CASE end # "relog"
    <3>1. ~misled /\ played \notin Title /\ wanted' = wanted
      BY <1>8, <2>3 DEF EndRun
    <3>2. played = plays /\ plays = wanted
      BY <1>1, <1>3, <3>1 DEF IInv, KnowsWhom
    <3>3. played # NoName
      BY <1>3, <3>2, NamesType
    <3> QED BY <2>1, <2>3, <3>1, <3>2, <3>3 DEF NextCharacter
  <2> QED BY <2>2, <2>3
<1>9. KnowsWhom'
  BY <1>6, <1>7, <1>8 DEF KnowsWhom
<1> QED BY <1>4, <1>5, <1>9

LEMMA FailedLoginEnds ==
    ASSUME IInv, LoginFails
    PROVE  HeldAfterLogin' /\ ToldOnce' /\ KnowsWhom'
<1>1. PICK name \in {played} \cup MayPlay, end \in {"network", "refused"} :
        EndRun(end, IF login_tx = "untold" THEN "error" ELSE login_tx, name)
  BY DEF LoginFails
<1>2. phase = "login" /\ login_tx \in {"untold", "ok"}
  BY DEF LoginFails, IInv, ToldOnce, TypeOK
<1>3. HeldAfterLogin'
  BY <1>1, <1>2, EndRunHeld
<1>4. phase' \in {"waiting", "ended"} /\ (phase' = "waiting" => played' = NoName)
      /\ login_tx' = IF login_tx = "untold" THEN "error" ELSE login_tx
  BY <1>1 DEF EndRun
<1>5. ToldOnce'
  BY <1>2, <1>4 DEF ToldOnce
<1>6. ASSUME login_tx' = "ok"
      PROVE  wanted' \in Character /\ (~misled' /\ phase' = "waiting" => character' = wanted')
  <2>1. login_tx = "ok"
    BY <1>2, <1>4, <1>6
  <2>2. wanted \in Character /\ wanted' = wanted
    BY <1>1, <2>1 DEF IInv, KnowsWhom, EndRun
  <2>3. ASSUME ~misled', phase' = "waiting"
        PROVE  character' = wanted'
    <3>1. ~misled /\ character = wanted /\ played = NoName
      BY <1>1, <1>2, <2>1, <2>3 DEF EndRun, IInv, KnowsWhom
    <3>2. name = NoName \/ name = wanted
      BY <2>1, <2>2, <3>1 DEF MayPlay, PickCharacter
    <3>3. character' = NextCharacter(end, name)
      BY <1>1, <2>3 DEF EndRun
    <3> QED BY <2>2, <3>1, <3>2, <3>3 DEF NextCharacter
  <2> QED BY <2>2, <2>3
<1>7. KnowsWhom'
  BY <1>4, <1>6 DEF KnowsWhom
<1> QED BY <1>3, <1>5, <1>7

LEMMA LoginNames ==
    ASSUME IInv, LoginSucceeds
    PROVE  HeldAfterLogin' /\ ToldOnce' /\ KnowsWhom'
<1>1. PICK chosen \in MayPlay :
        /\ played' = chosen
        /\ plays' = chosen
        /\ wanted' = IF login_tx = "untold" THEN chosen ELSE wanted
  BY DEF LoginSucceeds
<1>2. chosen \in Character
  BY PickedType
<1>3. phase = "login" /\ phase' = "world" /\ login_tx \in {"untold", "ok"}
      /\ login_tx' = "ok" /\ UNCHANGED <<misled, character>>
  BY DEF LoginSucceeds, IInv, ToldOnce, TypeOK
<1>4. HeldAfterLogin' /\ ToldOnce'
  BY <1>3 DEF HeldAfterLogin, ToldOnce
<1>5. wanted' \in Character
  BY <1>1, <1>2, <1>3 DEF IInv, KnowsWhom
<1>6. ~misled' => plays' = wanted'
  BY <1>1, <1>3 DEF IInv, KnowsWhom, MayPlay, PickCharacter
<1>7. KnowsWhom'
  BY <1>1, <1>2, <1>3, <1>5, <1>6 DEF KnowsWhom
<1> QED BY <1>4, <1>7

\* A wait runs out only for a session that was in the world.
LEMMA OnlyHeldElapses ==
    ASSUME IInv, WaitElapses
    PROVE  login_tx = "ok"
<1> SUFFICES ASSUME login_tx # "ok"
             PROVE  FALSE
  OBVIOUS
<1>1. holder # "holds" /\ \A c \in Call : state[c] = "unmade"
  BY DEF IInv, HeldAfterLogin
<1>2. holder = "gone"
  BY <1>1 DEF WaitElapses, IInv, TypeOK
<1> QED BY <1>1, <1>2 DEF WaitElapses, SendersGone

\* What the other actions leave alone, and what they do with the calls.
LEMMA OthersKeep ==
    ASSUME IInv,
           UNCHANGED <<login_tx, character, plays, wanted, misled>>,
           HeldAfterLogin', ToldOnce',
           \/ UNCHANGED <<phase, played>>
           \/ phase' = "ended"
           \/ /\ UNCHANGED played
              /\ {phase, phase'} \subseteq {"login", "waiting", "elapsed"}
           \/ phase = "world" /\ UNCHANGED phase /\ played' \in Title \cup {plays}
    PROVE  HeldAfterLogin' /\ ToldOnce' /\ KnowsWhom'
BY DEF IInv, KnowsWhom

LEMMA UnmadeStaysUnmade ==
    ASSUME \A c \in Call : state[c] = "unmade", NEW b \in Call, NEW how, Reply(b, how)
    PROVE  \A c \in Call : state'[c] = "unmade"
BY DEF Reply, Pending
LEMMA CallersStep ==
    ASSUME IInv,
           \/ \E c \in Call : CallTool(c) \/ Enqueue(c) \/ CallTimesOut(c) \/ AnswerWaiter(c)
           \/ StartReturns \/ HandleDropped \/ Close \/ RefuseCall \/ LoginTakesLong
    PROVE  HeldAfterLogin' /\ ToldOnce' /\ KnowsWhom'
<1>1. UNCHANGED <<phase, login_tx, character, played, plays, wanted, misled>>
  BY DEF CallTool, Enqueue, CallTimesOut, AnswerWaiter, StartReturns, HandleDropped,
         Close, RefuseCall, LoginTakesLong, task, shard
<1>2. ToldOnce'
  BY <1>1 DEF IInv, ToldOnce
<1>3. ASSUME login_tx # "ok"
      PROVE  holder' # "holds" /\ \A c \in Call : state'[c] = "unmade"
  <2>1. holder # "holds" /\ \A c \in Call : state[c] = "unmade"
    BY <1>3 DEF IInv, HeldAfterLogin
  <2>2. holder' # "holds"
    BY <1>3, <2>1 DEF CallTool, Enqueue, CallTimesOut, AnswerWaiter, StartReturns,
                      HandleDropped, Close, RefuseCall, LoginTakesLong
  <2>3. \A c \in Call : ~CallTool(c) /\ ~Enqueue(c) /\ ~CallTimesOut(c)
    BY <2>1 DEF CallTool, Enqueue, CallTimesOut
  <2>4. ASSUME NEW b \in Call, AnswerWaiter(b)
        PROVE  \A c \in Call : state'[c] = "unmade"
    BY <2>1, <2>4, UnmadeStaysUnmade DEF AnswerWaiter
  <2>5. ASSUME RefuseCall
        PROVE  \A c \in Call : state'[c] = "unmade"
    <3>1. Head(queue) \in Call
      <4>1. QueueType
        BY TypeParts DEF IInv
      <4> QED BY <2>5, <4>1, TailFits DEF RefuseCall, QueueType, Message
    <3> QED BY <2>1, <2>5, <3>1, UnmadeStaysUnmade DEF RefuseCall
  <2>6. ASSUME StartReturns \/ HandleDropped \/ Close \/ LoginTakesLong
        PROVE  \A c \in Call : state'[c] = "unmade"
    BY <2>1, <2>6 DEF StartReturns, HandleDropped, Close, LoginTakesLong
  <2> QED BY <2>2, <2>3, <2>4, <2>5, <2>6
<1>4. HeldAfterLogin'
  BY <1>1, <1>3 DEF HeldAfterLogin
<1> QED BY <1>1, <1>2, <1>4, OthersKeep

LEMMA WorldStep ==
    ASSUME IInv, TakeCommand \/ LinkDrops \/ LogoutGranted \/ ShardNamesHim
    PROVE  HeldAfterLogin' /\ ToldOnce' /\ KnowsWhom'
<1>0. phase = "world" /\ login_tx = "ok"
  BY DEF TakeCommand, LinkDrops, LogoutGranted, ShardNamesHim, IInv, ToldOnce, TypeOK
<1>1. CASE \E end \in {LinkEnded, "shutdown"} : EndRun(end, login_tx, played)
  BY <1>0, <1>1, WorldEnds
<1>2. CASE TakeCommand /\ \E c : CarryOut(c)
  <2>1. UNCHANGED <<phase, login_tx, character, played, plays, wanted, misled>>
    BY <1>2 DEF CarryOut, shard
  <2> QED BY <1>0, <2>1, OthersKeep DEF HeldAfterLogin, ToldOnce
<1>3. CASE ShardNamesHim
  <2>1. UNCHANGED <<phase, login_tx, character, plays, wanted, misled>>
        /\ played' \in Title \cup {plays}
    BY <1>3 DEF ShardNamesHim, shard
  <2> QED BY <1>0, <2>1, OthersKeep DEF HeldAfterLogin, ToldOnce
<1> QED BY <1>1, <1>2, <1>3 DEF TakeCommand, LinkDrops, LogoutGranted

LEMMA WaitStep ==
    ASSUME IInv, WaitClosed \/ WaitElapses \/ WaitEnds \/ UNCHANGED vars
    PROVE  HeldAfterLogin' /\ ToldOnce' /\ KnowsWhom'
<1>1. CASE WaitClosed
  <2>1. UNCHANGED <<login_tx, character, played, plays, wanted, misled, holder>>
        /\ phase \in {"waiting", "elapsed"} /\ phase' = "ended"
        /\ state' = LetGo("shutdown", TRUE)
    BY <1>1 DEF WaitClosed, shard
  <2>2. HeldAfterLogin'
    BY <2>1, LetGoKeepsUnmade DEF IInv, HeldAfterLogin
  <2>3. ToldOnce'
    BY <2>1 DEF IInv, ToldOnce
  <2> QED BY <2>1, <2>2, <2>3, OthersKeep
<1>2. CASE WaitElapses
  <2>1. UNCHANGED <<login_tx, character, played, plays, wanted, misled, holder, state>>
        /\ phase = "waiting" /\ phase' = "elapsed"
    BY <1>2 DEF WaitElapses, shard, callers
  <2>2. HeldAfterLogin' /\ ToldOnce'
    BY <1>2, <2>1, OnlyHeldElapses DEF HeldAfterLogin, ToldOnce
  <2> QED BY <2>1, <2>2, OthersKeep
<1>3. CASE WaitEnds
  <2>1. UNCHANGED <<login_tx, character, played, plays, wanted, misled, holder, state>>
        /\ phase = "elapsed" /\ phase' = "login"
    BY <1>3 DEF WaitEnds, shard, callers
  <2>2. login_tx = "ok"
    BY <2>1 DEF IInv, ToldOnce, TypeOK
  <2>3. HeldAfterLogin' /\ ToldOnce'
    BY <2>1, <2>2 DEF HeldAfterLogin, ToldOnce
  <2> QED BY <2>1, <2>3, OthersKeep
<1>4. CASE UNCHANGED vars
  <2>1. UNCHANGED <<phase, login_tx, character, played, plays, wanted, misled, holder, state>>
    BY <1>4 DEF vars, task, callers, shard
  <2> QED BY <2>1 DEF IInv, HeldAfterLogin, ToldOnce, KnowsWhom
<1> QED BY <1>1, <1>2, <1>3, <1>4

LEMMA IInvHolds == Spec => []IInv
<1>1. Init => IInv
  <2> SUFFICES ASSUME Init
               PROVE  HeldAfterLogin /\ ToldOnce /\ KnowsWhom
    BY InitTypes DEF IInv
  <2> QED BY DEF Init, HeldAfterLogin, ToldOnce, KnowsWhom
<1>2. IInv /\ [Next]_vars => IInv'
  <2> SUFFICES ASSUME IInv, [Next]_vars
               PROVE  IInv'
    OBVIOUS
  <2>1. TypeOK'
    BY TypeStep DEF IInv
  <2>2. HeldAfterLogin' /\ ToldOnce' /\ KnowsWhom'
    BY CallersStep, WorldStep, WaitStep, LoginNames, FailedLoginEnds DEF Next
  <2> QED BY <2>1, <2>2 DEF IInv
<1> QED BY <1>1, <1>2, PTL DEF Spec

\* Whatever befalls the link, the logins and the calls, he is in the world as
\* the character he was last told to be, unless a link broke while the shard
\* called him otherwise (PlaysWhoWasNamed of Session).
THEOREM SessionPlaysWhoWasNamed == Spec => []PlaysWhoWasNamed
<1>1. IInv => PlaysWhoWasNamed
  BY DEF IInv, ToldOnce, KnowsWhom, PlaysWhoWasNamed, TypeOK
<1> QED BY <1>1, IInvHolds, PTL

\* A session logs in by itself only when it was in the world once
\* (OnlyThePlayedLogIn of Session).
THEOREM SessionOnlyThePlayedLogIn == Spec => OnlyThePlayedLogIn
<1>1. IInv /\ [Next]_vars => [phase # "login" /\ phase' = "login" => login_tx = "ok"]_vars
  <2> SUFFICES ASSUME IInv, [Next]_vars, phase # "login", phase' = "login"
               PROVE  login_tx = "ok"
    OBVIOUS
  <2>1. CASE WaitEnds
    BY <2>1 DEF WaitEnds, IInv, ToldOnce, TypeOK
  <2>2. CASE ~WaitEnds
    BY <2>2 DEF Next, vars, task, CallTool, Enqueue, CallTimesOut, AnswerWaiter,
                StartReturns, HandleDropped, Close, LoginSucceeds, LoginFails,
                LoginTakesLong, TakeCommand, CarryOut, LinkDrops, LogoutGranted,
                ShardNamesHim, RefuseCall, WaitClosed, WaitElapses, EndRun
  <2> QED BY <2>1, <2>2
<1> QED BY <1>1, IInvHolds, PTL DEF Spec, OnlyThePlayedLogIn

\* Once the last word was a plain logout, no login follows (LogoutIsForGood of
\* Session).
THEOREM SessionLogoutIsForGood == Spec => LogoutIsForGood
<1>1. [Next]_vars =>
        [phase = "world" /\ logged_out /\ relog_as = NoName => phase' # "waiting"]_vars
  <2> SUFFICES ASSUME [Next]_vars, phase = "world", logged_out, relog_as = NoName
               PROVE  phase' # "waiting"
    OBVIOUS
  <2>1. LinkEnded = "logged_out"
    BY DEF LinkEnded
  <2>2. ASSUME NEW end \in {"logged_out", "shutdown"}, EndRun(end, login_tx, played)
        PROVE  phase' = "ended"
    BY <2>2 DEF EndRun
  <2>3. CASE TakeCommand \/ LinkDrops \/ LogoutGranted
    BY <2>1, <2>2, <2>3 DEF TakeCommand, CarryOut, LinkDrops, LogoutGranted
  <2>4. CASE ~(TakeCommand \/ LinkDrops \/ LogoutGranted)
    BY <2>4 DEF Next, vars, task, CallTool, Enqueue, CallTimesOut, AnswerWaiter,
                StartReturns, HandleDropped, Close, LoginSucceeds, LoginFails,
                LoginTakesLong, ShardNamesHim, RefuseCall, WaitClosed, WaitElapses,
                WaitEnds
  <2> QED BY <2>3, <2>4
<1> QED BY <1>1, PTL DEF Spec, LogoutIsForGood

-----------------------------------------------------------------------------
(* What callers are promised. *)

\* The calls in the queue stand there once, and are those that are sent and not
\* taken up; a call parked in a run is waiting or timed out.
InLine == {c \in Call : \E i \in 1 .. Len(queue) : queue[i] = c}
OnceInLine ==
    \A i, j \in 1 .. Len(queue) : queue[i] = queue[j] /\ queue[i] \in Call => i = j
LineInv ==
    phase # "ended" =>
        /\ OnceInLine
        /\ \A c \in InLine : state[c] \in {"queued", "timed_out"}
        /\ \A c \in Call : state[c] = "queued" => c \in InLine
        /\ \A c \in waiters : state[c] \in {"waiting", "timed_out"}

\* What each step of the session is to its callers.
KeepsThePromise == LineInv' /\ [Contract!CallsNext]_(Contract!calls)

\* The queue gains a message at its end, or loses the first.
LEMMA AppendedLine ==
    ASSUME NEW m \in Message, queue \in Seq(Message), queue' = Append(queue, m)
    PROVE  /\ InLine' = InLine \cup ({m} \cap Call)
           /\ OnceInLine /\ m \notin InLine => OnceInLine'
<1> DEFINE n == Len(queue)
<1>1. n \in Nat /\ Len(queue') = n + 1 /\ queue'[n + 1] = m
      /\ \A i \in 1 .. n : queue'[i] = queue[i]
  BY AppendProperties
<1> HIDE DEF n
<1>2. ASSUME NEW c \in Call
      PROVE  c \in InLine' <=> c \in InLine \/ c = m
  <2>1. (\E i \in 1 .. n + 1 : queue'[i] = c) <=> (\E i \in 1 .. n : queue[i] = c) \/ c = m
    <3>1. \A i \in 1 .. n + 1 : i \in 1 .. n \/ i = n + 1
      BY <1>1
    <3>2. n + 1 \in 1 .. n + 1 /\ \A i \in 1 .. n : i \in 1 .. n + 1
      BY <1>1
    <3> QED BY <1>1, <3>1, <3>2
  <2> QED BY <1>1, <2>1 DEF InLine, n
<1>3. InLine' \subseteq Call /\ InLine \subseteq Call
  BY DEF InLine
<1>4. ASSUME OnceInLine, m \notin InLine
      PROVE  OnceInLine'
  <2> SUFFICES ASSUME NEW i \in 1 .. n + 1, NEW j \in 1 .. n + 1,
                      queue'[i] = queue'[j], queue'[i] \in Call
               PROVE  i = j
    BY <1>1 DEF OnceInLine
  <2>1. \A k \in 1 .. n : queue[k] \in Call => queue[k] # m
    BY <1>4 DEF InLine, n
  <2>2. CASE i \in 1 .. n /\ j \in 1 .. n
    BY <1>1, <1>4, <2>2 DEF OnceInLine, n
  <2>3. CASE i = n + 1 \/ j = n + 1
    <3>1. i \notin 1 .. n => i = n + 1
      BY <1>1
    <3>2. j \notin 1 .. n => j = n + 1
      BY <1>1
    <3>3. i \in 1 .. n => queue'[i] = queue[i] /\ queue[i] # m
      BY <1>1, <2>1
    <3>4. j \in 1 .. n => queue'[j] = queue[j] /\ queue[j] # m
      BY <1>1, <2>1
    <3> QED BY <1>1, <2>3, <3>1, <3>2, <3>3, <3>4
  <2> QED BY <1>1, <2>2, <2>3
<1> QED BY <1>2, <1>3, <1>4

LEMMA TakenOffTheLine ==
    ASSUME queue \in Seq(Message), queue # <<>>, queue' = Tail(queue), OnceInLine
    PROVE  /\ InLine' = InLine \ {Head(queue)}
           /\ OnceInLine'
           /\ Head(queue) \in Message
           /\ Head(queue) \in Call => Head(queue) \in InLine
<1> DEFINE n == Len(queue)
<1>1. /\ n \in Nat \ {0} /\ Len(queue') = n - 1
      /\ Head(queue) = queue[1] /\ queue[1] \in Message
      /\ \A i \in 1 .. n - 1 : queue'[i] = queue[i + 1]
  BY HeadTailProperties, EmptySeq, ElementOfSeq
<1>2. \A i, j \in 1 .. n : queue[i] = queue[j] /\ queue[i] \in Call => i = j
  BY DEF OnceInLine
<1> HIDE DEF n
<1>3. ASSUME NEW c \in Call
      PROVE  c \in InLine' <=> c \in InLine /\ c # Head(queue)
  <2>1. ASSUME NEW i \in 1 .. n - 1, queue'[i] = c
        PROVE  (\E k \in 1 .. n : queue[k] = c) /\ c # queue[1]
    <3>1. i + 1 \in 1 .. n /\ 1 \in 1 .. n /\ i + 1 # 1
      BY <1>1
    <3>2. queue[i + 1] = c
      BY <1>1, <2>1
    <3> QED BY <1>2, <3>1, <3>2
  <2>2. ASSUME NEW k \in 1 .. n, queue[k] = c, c # queue[1]
        PROVE  \E i \in 1 .. n - 1 : queue'[i] = c
    <3>1. k - 1 \in 1 .. n - 1 /\ (k - 1) + 1 = k
      BY <1>1, <2>2
    <3> QED BY <1>1, <2>2, <3>1
  <2> QED BY <1>1, <2>1, <2>2 DEF InLine, n
<1>4. InLine' \subseteq Call /\ InLine \subseteq Call
  BY DEF InLine
<1>5. OnceInLine'
  <2> SUFFICES ASSUME NEW i \in 1 .. n - 1, NEW j \in 1 .. n - 1,
                      queue'[i] = queue'[j], queue'[i] \in Call
               PROVE  i = j
    BY <1>1 DEF OnceInLine
  <2>1. i + 1 \in 1 .. n /\ j + 1 \in 1 .. n /\ queue'[i] = queue[i + 1] /\ queue'[j] = queue[j + 1]
    BY <1>1
  <2> QED BY <1>1, <1>2, <2>1
<1>6. queue[1] \in Call => queue[1] \in InLine
  <2>1. 1 \in 1 .. n
    BY <1>1
  <2> QED BY <2>1 DEF InLine, n
<1> QED BY <1>1, <1>3, <1>4, <1>5, <1>6

\* The word to shut down is no call.
LEMMA ShutdownInLine ==
    ASSUME queue \in Seq(Message), TryShutdown
    PROVE  InLine' = InLine /\ (OnceInLine => OnceInLine')
<1>1. CASE queue' = Append(queue, Shutdown)
  <2>1. Shutdown \in Message /\ Shutdown \notin Call /\ Shutdown \notin InLine
    BY SessionSizes DEF Message, Shutdown, InLine
  <2> QED BY <1>1, <2>1, AppendedLine
<1>2. CASE queue' = queue
  BY <1>2 DEF InLine, OnceInLine
<1> QED BY <1>1, <1>2 DEF TryShutdown

LEMMA OpenIs ==
    /\ Open = IF phase = "ended" THEN {} ELSE {c \in Call : state[c] = "sending"} \cup InLine
    /\ Open' = IF phase' = "ended" THEN {} ELSE {c \in Call : state'[c] = "sending"} \cup InLine'
BY DEF Open, Sent, InLine

\* Nothing a caller sees changes.
LEMMA NoneOfTheirs ==
    ASSUME LineInv, UNCHANGED <<state, waiters>>, InLine' = InLine,
           OnceInLine => OnceInLine',
           phase' = "ended" <=> phase = "ended"
    PROVE  KeepsThePromise
<1>1. LineInv'
  BY DEF LineInv
<1>2. Outcome' = Outcome /\ Open' = Open
  BY OpenIs DEF Outcome
<1> QED BY <1>1, <1>2 DEF KeepsThePromise, Contract!calls

LEMMA CallKeepsPromise ==
    ASSUME TypeOK, LineInv, NEW c \in Call, CallTool(c) \/ Enqueue(c) \/ CallTimesOut(c)
    PROVE  KeepsThePromise
<1>1. state \in [Call -> Standing] /\ queue \in Seq(Message) /\ InLine \subseteq Call
  BY DEF TypeOK, Standing, Message, InLine
<1>2. CASE CallTool(c)
  <2>1. UNCHANGED <<phase, queue, waiters>> /\ state[c] = "unmade"
        /\ state' = [state EXCEPT ![c] = IF phase = "ended" THEN "closed" ELSE "sending"]
    BY <1>2 DEF CallTool, task
  <2>2. InLine' = InLine /\ (OnceInLine => OnceInLine')
    BY <2>1 DEF InLine, OnceInLine
  <2>3. LineInv'
    BY <1>1, <2>1, <2>2 DEF LineInv
  <2>4. CASE phase = "ended"
    <3>1. Outcome[c] = "unmade" /\ Outcome' = [Outcome EXCEPT ![c] = "closed"]
      BY <1>1, <2>1, <2>4 DEF Outcome, Pending
    <3>2. Open = {} /\ Open' = {}
      BY <2>1, <2>4 DEF Open
    <3>3. Contract!MakeTooLate(c)
      BY <3>1, <3>2 DEF Contract!MakeTooLate
    <3> QED BY <2>3, <3>3 DEF KeepsThePromise, Contract!CallsNext
  <2>5. CASE phase # "ended"
    <3>1. Outcome[c] = "unmade" /\ Outcome' = [Outcome EXCEPT ![c] = "under_way"]
      BY <1>1, <2>1, <2>5 DEF Outcome, Pending
    <3>2. Open' = Open \cup {c}
      BY <1>1, <2>1, <2>2, <2>5, OpenIs
    <3>3. Contract!Make(c)
      BY <3>1, <3>2 DEF Contract!Make
    <3> QED BY <2>3, <3>3 DEF KeepsThePromise, Contract!CallsNext
  <2> QED BY <2>4, <2>5
<1>3. CASE Enqueue(c)
  <2>1. /\ UNCHANGED <<phase, waiters>> /\ state[c] = "sending" /\ phase # "ended"
        /\ state' = [state EXCEPT ![c] = "queued"] /\ queue' = Append(queue, c)
    BY <1>3 DEF Enqueue, task
  <2>2. c \in Message /\ c \notin InLine /\ OnceInLine
    BY <2>1 DEF LineInv, Message
  <2>3. InLine' = InLine \cup {c} /\ OnceInLine'
    BY <1>1, <2>1, <2>2, AppendedLine
  <2>4. LineInv'
    BY <1>1, <2>1, <2>3 DEF LineInv
  <2>5. Outcome' = Outcome
    BY <1>1, <2>1 DEF Outcome, Pending
  <2>6. Open' = Open
    BY <1>1, <2>1, <2>3, OpenIs
  <2> QED BY <2>4, <2>5, <2>6 DEF KeepsThePromise, Contract!calls
<1>4. CASE CallTimesOut(c)
  <2>1. /\ UNCHANGED <<phase, waiters, queue>> /\ state[c] \in {"queued", "waiting"}
        /\ state' = [state EXCEPT ![c] = "timed_out"]
    BY <1>4 DEF CallTimesOut, task
  <2>2. InLine' = InLine /\ (OnceInLine => OnceInLine')
    BY <2>1 DEF InLine, OnceInLine
  <2>3. LineInv'
    BY <1>1, <2>1, <2>2 DEF LineInv
  <2>4. Outcome[c] = "under_way" /\ Outcome' = [Outcome EXCEPT ![c] = "timed_out"]
    BY <1>1, <2>1 DEF Outcome, Pending
  <2>5. Open' = Open
    BY <1>1, <2>1, <2>2, OpenIs
  <2>6. Contract!GiveUp(c)
    BY <2>4, <2>5 DEF Contract!GiveUp
  <2> QED BY <2>3, <2>6 DEF KeepsThePromise, Contract!CallsNext
<1> QED BY <1>2, <1>3, <1>4

\* A call taken up leaves the line, and its caller is told `how` if he listens.
LEMMA TakingUpKeepsPromise ==
    ASSUME TypeOK, LineInv, phase # "ended", phase' # "ended",
           queue # <<>>, Head(queue) # Shutdown, queue' = Tail(queue),
           NEW how \in {"waiting", "answered", "refused"}, Reply(Head(queue), how),
           waiters' \in {waiters, IF how = "waiting" THEN waiters \cup {Head(queue)} ELSE waiters}
    PROVE  KeepsThePromise
<1> DEFINE c == Head(queue)
<1>1. state \in [Call -> Standing] /\ queue \in Seq(Message) /\ InLine \subseteq Call
  BY DEF TypeOK, Standing, Message, InLine
<1>2. OnceInLine
  BY DEF LineInv
<1>3. c \in Call /\ c \in InLine /\ InLine' = InLine \ {c} /\ OnceInLine'
  BY <1>1, <1>2, TakenOffTheLine DEF Message
<1>4. state[c] \in {"queued", "timed_out"}
  BY <1>3 DEF LineInv
<1>5. state' = [state EXCEPT ![c] = IF state[c] = "queued" THEN how ELSE state[c]]
  BY <1>1, <1>3, <1>4 DEF Reply, Pending
<1> HIDE DEF c
<1>6. c \in Open /\ Open' = Open \ {c}
  BY <1>1, <1>3, <1>4, <1>5, OpenIs
<1>7. waiters' \in {waiters, IF how = "waiting" THEN waiters \cup {c} ELSE waiters}
  BY DEF c
<1>8. LineInv'
  <2>1. \A d \in InLine' : state'[d] \in {"queued", "timed_out"}
    BY <1>1, <1>3, <1>5 DEF LineInv
  <2>2. \A d \in Call : state'[d] = "queued" => d \in InLine'
    BY <1>1, <1>3, <1>5 DEF LineInv
  <2>3. waiters \subseteq Call
    BY DEF TypeOK
  <2>4. \A d \in waiters' : state'[d] \in {"waiting", "timed_out"}
    BY <1>1, <1>3, <1>4, <1>5, <1>7, <2>3 DEF LineInv
  <2> QED BY <1>3, <2>1, <2>2, <2>4 DEF LineInv
<1>9. Contract!TakeUp(c)
  <2>1. CASE state[c] = "queued"
    <3>1. Outcome[c] = "under_way"
      BY <1>3, <2>1 DEF Outcome, Pending
    <3> DEFINE told == IF how = "waiting" THEN "under_way" ELSE how
    <3>2. Outcome' = [Outcome EXCEPT ![c] = told]
      BY <1>1, <1>3, <1>5, <2>1 DEF Outcome, Pending
    <3>3. told \in {"under_way", "answered", "refused"}
      OBVIOUS
    <3> QED BY <1>6, <3>1, <3>2, <3>3 DEF Contract!TakeUp
  <2>2. CASE state[c] = "timed_out"
    <3>1. Outcome[c] = "timed_out"
      BY <1>3, <2>2 DEF Outcome, Pending
    <3>2. Outcome' = Outcome
      BY <1>1, <1>3, <1>5, <2>2 DEF Outcome
    <3> QED BY <1>6, <3>1, <3>2 DEF Contract!TakeUp
  <2> QED BY <1>4, <2>1, <2>2
<1> QED BY <1>3, <1>8, <1>9 DEF KeepsThePromise, Contract!CallsNext

\* The session ends, and with it every call under way.
LEMMA EndingKeepsPromise ==
    ASSUME TypeOK, phase # "ended", phase' = "ended", NEW end, state' = LetGo(end, TRUE)
    PROVE  KeepsThePromise
<1>1. state \in [Call -> Standing]
  BY DEF TypeOK, Standing
<1>2. LineInv'
  BY DEF LineInv
<1>3. Open' = {}
  BY DEF Open
<1>4. Outcome' = [c \in Call |-> IF c \in Contract!UnderWay THEN "closed" ELSE Outcome[c]]
  BY <1>1 DEF LetGo, Outcome, Pending, Standing, Contract!UnderWay
<1>5. Contract!SessionEnds
  BY <1>3, <1>4 DEF Contract!SessionEnds, Contract!LetGo
<1> QED BY <1>2, <1>5 DEF KeepsThePromise, Contract!CallsNext

\* A run ends, and with it the calls parked in it; those in the queue live on.
LEMMA RunEndKeepsPromise ==
    ASSUME TypeOK, LineInv, phase # "ended", phase' # "ended", UNCHANGED queue,
           NEW end, state' = LetGo(end, FALSE), waiters' = {}
    PROVE  KeepsThePromise
<1>1. state \in [Call -> Standing]
  BY DEF TypeOK, Standing
<1>2. InLine' = InLine /\ (OnceInLine => OnceInLine') /\ InLine \subseteq Call
  BY DEF InLine, OnceInLine
<1>3. \A c \in Call : state'[c] = IF state[c] = "waiting" THEN "closed" ELSE state[c]
  BY <1>1 DEF LetGo
<1>4. LineInv'
  BY <1>2, <1>3 DEF LineInv
<1>5. Open' = Open
  BY <1>2, <1>3, OpenIs
<1>6. \A c \in Call : c \in Contract!UnderWay \ Open <=> state[c] = "waiting"
  <2> SUFFICES ASSUME NEW c \in Call
               PROVE  c \in Contract!UnderWay /\ c \notin Open <=> state[c] = "waiting"
    OBVIOUS
  <2>1. c \in Contract!UnderWay <=> state[c] \in Pending
    BY <1>1 DEF Contract!UnderWay, Outcome, Pending, Standing
  <2>2. c \in Open <=> state[c] = "sending" \/ c \in InLine
    BY OpenIs
  <2>3. /\ c \in InLine => state[c] \in {"queued", "timed_out"}
        /\ state[c] = "queued" => c \in InLine
    BY DEF LineInv
  <2> QED BY <1>1, <2>1, <2>2, <2>3 DEF Pending
<1>7. Outcome' = [c \in Call |-> IF c \in Contract!UnderWay \ Open THEN "closed" ELSE Outcome[c]]
  BY <1>3, <1>6 DEF Outcome, Pending
<1>8. Contract!RunEnds
  BY <1>5, <1>7 DEF Contract!RunEnds, Contract!LetGo
<1> QED BY <1>4, <1>8 DEF KeepsThePromise, Contract!CallsNext

LEMMA EndRunKeepsPromise ==
    ASSUME TypeOK, LineInv, phase # "ended", NEW end, NEW told, NEW name,
           EndRun(end, told, name), end = "shutdown" \/ UNCHANGED queue
    PROVE  KeepsThePromise
<1>1. CASE phase' = "ended"
  <2>1. state' = LetGo(end, TRUE)
    BY <1>1 DEF EndRun
  <2> QED BY <1>1, <2>1, EndingKeepsPromise
<1>2. CASE phase' # "ended"
  <2>1. state' = LetGo(end, FALSE) /\ waiters' = {} /\ end # "shutdown"
    BY <1>2 DEF EndRun
  <2> QED BY <1>2, <2>1, RunEndKeepsPromise
<1> QED BY <1>1, <1>2

LEMMA TakeCommandKeepsPromise ==
    ASSUME TypeOK, LineInv, TakeCommand
    PROVE  KeepsThePromise
<1>1. phase = "world"
  BY DEF TakeCommand
<1>2. CASE EndRun("shutdown", login_tx, played)
  BY <1>1, <1>2, EndRunKeepsPromise
<1>3. CASE queue # <<>> /\ queue' = Tail(queue) /\ Head(queue) # Shutdown /\ CarryOut(Head(queue))
  <2>1. PICK how \in {"waiting", "answered", "refused"} :
          /\ Reply(Head(queue), how)
          /\ waiters' \in {waiters, IF how = "waiting" THEN waiters \cup {Head(queue)} ELSE waiters}
    BY <1>3 DEF CarryOut
  <2>2. phase' = phase
    BY <1>3 DEF CarryOut
  <2> QED BY <1>1, <1>3, <2>1, <2>2, TakingUpKeepsPromise
<1> QED BY <1>2, <1>3 DEF TakeCommand

LEMMA AnswerKeepsPromise ==
    ASSUME TypeOK, LineInv, NEW c \in Call, AnswerWaiter(c)
    PROVE  KeepsThePromise
<1>1. state \in [Call -> Standing] /\ InLine \subseteq Call /\ waiters \subseteq Call
  BY DEF TypeOK, Standing, InLine
<1>2. /\ phase = "world" /\ c \in waiters /\ waiters' = waiters \ {c}
      /\ Reply(c, "answered") /\ UNCHANGED <<phase, queue>>
  BY DEF AnswerWaiter, task
<1>3. state[c] \in {"waiting", "timed_out"}
  BY <1>2 DEF LineInv
<1>4. state' = [state EXCEPT ![c] = IF state[c] = "waiting" THEN "answered" ELSE state[c]]
  BY <1>1, <1>2, <1>3 DEF Reply, Pending
<1>5. InLine' = InLine /\ (OnceInLine => OnceInLine')
  BY <1>2 DEF InLine, OnceInLine
<1>6. LineInv'
  BY <1>1, <1>2, <1>3, <1>4, <1>5 DEF LineInv
<1>7. Open' = Open
  BY <1>1, <1>2, <1>3, <1>4, <1>5, OpenIs
<1>8. CASE state[c] = "waiting"
  <2>1. c \notin Open
    BY <1>2, <1>8, OpenIs DEF LineInv
  <2>2. Outcome[c] = "under_way" /\ Outcome' = [Outcome EXCEPT ![c] = "answered"]
    BY <1>1, <1>4, <1>8 DEF Outcome, Pending
  <2>3. Contract!Answer(c)
    BY <1>7, <2>1, <2>2 DEF Contract!Answer
  <2> QED BY <1>6, <2>3 DEF KeepsThePromise, Contract!CallsNext
<1>9. CASE state[c] = "timed_out"
  <2>1. Outcome' = Outcome
    BY <1>1, <1>4, <1>9 DEF Outcome
  <2> QED BY <1>6, <1>7, <2>1 DEF KeepsThePromise, Contract!calls
<1> QED BY <1>3, <1>8, <1>9

LEMMA PromiseStep == TypeOK /\ LineInv /\ [Next]_vars => KeepsThePromise
<1> SUFFICES ASSUME TypeOK, LineInv, [Next]_vars
             PROVE  KeepsThePromise
  OBVIOUS
<1>1. CASE \E c \in Call : CallTool(c) \/ Enqueue(c) \/ CallTimesOut(c) \/ AnswerWaiter(c)
  BY <1>1, CallKeepsPromise, AnswerKeepsPromise
<1>2. CASE StartReturns \/ HandleDropped \/ Close
  <2>1. UNCHANGED <<phase, state, waiters>> /\ (TryShutdown \/ UNCHANGED queue)
    BY <1>2 DEF StartReturns, HandleDropped, Close, task
  <2>2. InLine' = InLine /\ (OnceInLine => OnceInLine')
    <3>1. queue \in Seq(Message)
      BY DEF TypeOK, Message
    <3>2. CASE TryShutdown
      BY <3>1, <3>2, ShutdownInLine
    <3>3. CASE UNCHANGED queue
      BY <3>3 DEF InLine, OnceInLine
    <3> QED BY <2>1, <3>2, <3>3
  <2> QED BY <2>1, <2>2, NoneOfTheirs
<1>3. CASE LoginSucceeds \/ LoginTakesLong \/ ShardNamesHim \/ WaitElapses \/ WaitEnds \/ UNCHANGED vars
  <2>1. /\ UNCHANGED <<queue, state, waiters>>
        /\ phase' = "ended" <=> phase = "ended"
    BY <1>3 DEF LoginSucceeds, LoginTakesLong, ShardNamesHim, WaitElapses, WaitEnds, vars,
                task, callers
  <2>2. InLine' = InLine /\ (OnceInLine => OnceInLine')
    BY <2>1 DEF InLine, OnceInLine
  <2> QED BY <2>1, <2>2, NoneOfTheirs
<1>4. CASE LoginFails \/ LinkDrops \/ LogoutGranted
  <2>1. phase # "ended" /\ UNCHANGED queue
    BY <1>4 DEF LoginFails, LinkDrops, LogoutGranted
  <2>2. \E end, told, name : EndRun(end, told, name)
    BY <1>4 DEF LoginFails, LinkDrops, LogoutGranted
  <2> QED BY <2>1, <2>2, EndRunKeepsPromise
<1>5. CASE TakeCommand
  BY <1>5, TakeCommandKeepsPromise
<1>6. CASE RefuseCall
  <2>1. /\ phase # "ended" /\ phase' = phase /\ waiters' = waiters
        /\ queue # <<>> /\ Head(queue) # Shutdown /\ queue' = Tail(queue)
        /\ Reply(Head(queue), "refused")
    BY <1>6 DEF RefuseCall, task
  <2> QED BY <2>1, TakingUpKeepsPromise
<1>7. CASE WaitClosed
  <2>1. phase # "ended" /\ phase' = "ended" /\ state' = LetGo("shutdown", TRUE)
    BY <1>7 DEF WaitClosed
  <2> QED BY <2>1, EndingKeepsPromise
<1> QED BY <1>1, <1>2, <1>3, <1>4, <1>5, <1>6, <1>7 DEF Next

\* Each call has one outcome and is taken up at most once, and not once its
\* caller was told that it was answered, refused or let go, through any login,
\* wait, dropped link and shutdown (SessionHandle::call; contract Calls).
THEOREM SessionKeepsItsCalls == Spec => CallsAreKept
<1>1. Init => LineInv /\ Contract!CallsInit
  <2> SUFFICES ASSUME Init PROVE LineInv /\ Contract!CallsInit
    OBVIOUS
  <2>1. /\ queue = <<>> /\ waiters = {} /\ phase = "login"
        /\ state = [c \in Call |-> "unmade"]
    BY DEF Init
  <2>2. InLine = {} /\ OnceInLine
    BY <2>1 DEF InLine, OnceInLine
  <2>3. Open = {}
    BY <2>1, <2>2, OpenIs
  <2>4. Outcome = [c \in Call |-> "unmade"]
    BY <2>1 DEF Outcome, Pending
  <2>5. LineInv
    BY <2>1, <2>2 DEF LineInv
  <2> QED BY <2>3, <2>4, <2>5 DEF Contract!CallsInit
<1>2. TypeOK /\ LineInv /\ [Next]_vars => LineInv'
  BY PromiseStep DEF KeepsThePromise
<1>3. TypeOK /\ LineInv /\ [Next]_vars => [Contract!CallsNext]_(Contract!calls)
  BY PromiseStep DEF KeepsThePromise
<1> QED
  BY <1>1, <1>2, <1>3, SessionTypeCorrect, PTL DEF Spec, CallsAreKept, Contract!CallsSpec
=============================================================================
