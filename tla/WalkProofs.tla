----------------------------- MODULE WalkProofs -----------------------------
(***************************************************************************)
(* What holds of Walk for every map, every size of the sequence byte and   *)
(* every number of faults: the types of its variables, that no two         *)
(* requests in flight carry the same number, and, when the shard answers   *)
(* all it is asked, that the session and the shard agree once nothing is   *)
(* owed, and that the route keeps its order through answers, refusals and  *)
(* redraws.                                                                *)
(***************************************************************************)
EXTENDS Walk, DataFacts

-----------------------------------------------------------------------------
(* The helpers on sequences. *)

\* A count of steps is a number no larger than the requests counted.
LEMMA StepsUpToType ==
    ASSUME NEW q, NEW i \in Nat
    PROVE  StepsUpTo(q, i) \in 0 .. i
<1> DEFINE steps == {j \in 1 .. i : ~q[j].turn}
<1>1. IsFiniteSet(1 .. i) /\ Cardinality(1 .. i) = i
  <2>1. 1 \in Int /\ i \in Int
    OBVIOUS
  <2>2. Cardinality(1 .. i) = IF 1 > i THEN 0 ELSE i - 1 + 1
    BY <2>1, FS_Interval, Zenon
  <2> QED BY <2>1, <2>2, FS_Interval
<1>2. steps \in SUBSET (1 .. i)
  OBVIOUS
<1>3. IsFiniteSet(steps) /\ Cardinality(steps) <= i
  BY <1>1, <1>2, FS_Subset
<1>4. Cardinality(steps) \in Nat
  BY <1>3, FS_CardinalityType
<1> QED BY <1>3, <1>4 DEF StepsUpTo

\* The k-th step of a queue is one of its requests.
LEMMA NthStepType ==
    ASSUME NEW q \in Seq(PendingStep), NEW k \in 1 .. StepsUpTo(q, Len(q))
    PROVE  NthStep(q, k) \in 1 .. Len(q)
<1> DEFINE late == {i \in 1 .. Len(q) : StepsUpTo(q, i) >= k}
<1>1. Len(q) \in Nat /\ StepsUpTo(q, Len(q)) \in 0 .. Len(q)
  BY StepsUpToType
<1>2. Len(q) \in late
  BY <1>1
<1>3. late \in SUBSET Nat /\ late # {}
  BY <1>1, <1>2
<1>4. Min(late) \in late
  BY <1>3, LeastOfNaturals
<1> QED BY <1>4 DEF NthStep

\* What goes back on a route are tiles.
LEMMA StepTilesType ==
    ASSUME NEW q \in Seq(PendingStep)
    PROVE  StepTiles(q) \in Seq(Tile)
<1> DEFINE n == StepsUpTo(q, Len(q))
<1>1. n \in Nat
  BY StepsUpToType
<1>2. ASSUME NEW k \in 1 .. n
      PROVE  q[NthStep(q, k)].arrives_at \in Tile
  <2>1. NthStep(q, k) \in 1 .. Len(q)
    BY NthStepType
  <2>2. q[NthStep(q, k)] \in PendingStep
    BY <2>1, ElementOfSeq
  <2> QED BY <2>2 DEF PendingStep
<1>3. StepTiles(q) \in [1 .. n -> Tile]
  BY <1>2 DEF StepTiles
<1> HIDE DEF n
<1> QED BY <1>1, <1>3

\* What is left of a route is a route, and its first tile lies beside him.
LEMMA ReachableType ==
    ASSUME NEW route \in Seq(Tile), NEW from \in Tile
    PROVE  /\ Reachable(route, from) \in Seq(Tile)
           /\ Reachable(route, from) # <<>> => Near(from, Head(Reachable(route, from)))
<1> DEFINE near == {i \in 1 .. Len(route) : Near(from, route[i])}
           rest == SubSeq(route, Min(near), Len(route))
<1>1. CASE near = {}
  BY <1>1 DEF Reachable
<1>2. CASE near # {}
  <2>1. near \in SUBSET Nat
    OBVIOUS
  <2>2. Min(near) \in near
    BY <1>2, <2>1, LeastOfNaturals
  <2>3. /\ Min(near) \in 1 .. Len(route)
        /\ Near(from, route[Min(near)])
    BY <2>2
  <2> DEFINE m == Min(near)
             n == Len(route)
  <2>4. n \in Nat /\ m \in 1 .. n /\ Near(from, route[m])
    BY <2>3
  <2>5. \A i \in m .. n : route[i] \in Tile
    BY <2>4, ElementOfSeq
  <2>6. Reachable(route, from) = SubSeq(route, m, n)
    BY <1>2 DEF Reachable
  <2> HIDE DEF m, n
  <2>7. m \in Int /\ n \in Int /\ m <= n
    BY <2>4
  <2>8. /\ SubSeq(route, m, n) \in Seq(Tile)
        /\ Len(SubSeq(route, m, n)) = n - m + 1
        /\ \A i \in 1 .. n - m + 1 : SubSeq(route, m, n)[i] = route[m + i - 1]
    BY <2>5, <2>7, SubSeqProperties
  <2>9. SubSeq(route, m, n)[1] = route[m]
    BY <2>7, <2>8
  <2>10. Head(SubSeq(route, m, n)) = route[m]
    BY <2>7, <2>8, <2>9
  <2> QED BY <2>4, <2>6, <2>8, <2>10
<1> QED BY <1>1, <1>2

\* A tile beside him lies in one of the directions.
LEMMA DirToType ==
    ASSUME NEW from, NEW t, Near(from, t)
    PROVE  DirTo(from, t) \in Dir
BY DEF DirTo, Near

-----------------------------------------------------------------------------
(* Every variable holds a value of its kind. *)

LEMMA NumberType ==
    /\ SeqFirst \in Number
    /\ \A n \in Number : NextNumber(n) \in Number
BY NumbersType DEF SeqFirst, SeqAfterWrap, Number, NextNumber

LEMMA SteppingFromType ==
    ASSUME TypeOK
    PROVE  SteppingFrom \in Tile /\ FacingAfter \in Dir
<1>1. CASE in_flight = <<>>
  BY <1>1 DEF TypeOK, SteppingFrom, FacingAfter
<1>2. CASE in_flight # <<>>
  <2>1. in_flight \in Seq(PendingStep)
    BY DEF TypeOK
  <2>2. Len(in_flight) \in 1 .. Len(in_flight)
    BY <1>2, <2>1, EmptySeq
  <2>3. in_flight[Len(in_flight)] \in PendingStep
    BY <2>1, <2>2, ElementOfSeq
  <2> QED BY <1>2, <2>3 DEF SteppingFrom, FacingAfter, PendingStep
<1> QED BY <1>1, <1>2

LEMMA SendType ==
    ASSUME TypeOK, NEW dir \in Dir, NEW t \in Tile, NEW turn \in BOOLEAN,
           Send(dir, t, turn)
    PROVE  /\ in_flight' \in Seq(PendingStep)
           /\ sequence' \in Number
           /\ toShard' \in Seq(Request)
<1>1. sequence \in Number /\ in_flight \in Seq(PendingStep) /\ toShard \in Seq(Request)
  BY DEF TypeOK
<1>2. [sequence |-> sequence, direction |-> dir,
       arrives_at |-> t, turn |-> turn] \in PendingStep
  BY <1>1 DEF PendingStep
<1>3. [kind |-> "move", sequence |-> sequence, direction |-> dir] \in Request
  BY <1>1 DEF Request
<1>4. in_flight' \in Seq(PendingStep)
  BY <1>1, <1>2, AppendProperties DEF Send
<1>5. toShard' \in Seq(Request)
  BY <1>1, <1>3, AppendProperties DEF Send
<1> QED BY <1>1, <1>4, <1>5, NumberType DEF Send

\* A resync is a request, and so the wire keeps its type with one more on it.
LEMMA ResyncType ==
    ASSUME TypeOK
    PROVE  Append(toShard, Resync) \in Seq(Request)
BY AppendProperties DEF TypeOK, Resync, Request

LEMMA RequeuedType ==
    ASSUME TypeOK
    PROVE  Requeued \in Seq(Tile)
BY StepTilesType, ConcatProperties DEF TypeOK, Requeued

LEMMA RefusedType ==
    ASSUME TypeOK, Refused
    PROVE  /\ in_flight' \in Seq(PendingStep)
           /\ sequence' \in Number
           /\ left_map' \in BOOLEAN
BY NumberType, EmptySeq DEF Refused

LEMMA SpentType ==
    ASSUME TypeOK, Input \/ Plan \/ UNCHANGED spent
    PROVE  inputs' \in 0 .. MaxInputs /\ plans' \in 0 .. MaxPlans
BY NumbersType DEF TypeOK, Input, Plan, spent

LEMMA PumpMovementType == TypeOK /\ PumpMovement => TypeOK'
<1> SUFFICES ASSUME TypeOK, PumpMovement
             PROVE  TypeOK'
  OBVIOUS
<1>1. PICK route \in {path} \cup (IF errand /\ ~Walking THEN Routes[location] ELSE {}) :
         LET next == Reachable(route, SteppingFrom)
             dir == DirTo(SteppingFrom, Head(next))
         IN  /\ \/ route = path /\ UNCHANGED spent
                \/ route # path /\ Plan
             /\ Len(in_flight) < InFlightMax
             /\ resync_asked # "asked"
             /\ IF next = <<>>
                  THEN /\ path # <<>>
                       /\ path' = <<>>
                       /\ UNCHANGED <<in_flight, sequence, toShard>>
                ELSE IF dir # FacingAfter
                  THEN path' = next /\ Send(dir, SteppingFrom, TRUE)
                  ELSE path' = Tail(next) /\ Send(dir, Head(next), FALSE)
             /\ UNCHANGED <<resync_asked, location, direction, refused_edges,
                            replans, errand, shard, toClient, left_map>>
  BY DEF PumpMovement
<1> DEFINE next == Reachable(route, SteppingFrom)
           dir == DirTo(SteppingFrom, Head(next))
<1>2. inputs' \in 0 .. MaxInputs /\ plans' \in 0 .. MaxPlans
  BY <1>1, SpentType
<1>3. route \in Seq(Tile)
  BY <1>1, RoutesType DEF TypeOK
<1>4. SteppingFrom \in Tile
  BY SteppingFromType
<1>5. next \in Seq(Tile) /\ (next # <<>> => Near(SteppingFrom, Head(next)))
  BY <1>3, <1>4, ReachableType
<1>6. next # <<>> => dir \in Dir /\ Head(next) \in Tile /\ Tail(next) \in Seq(Tile)
  BY <1>5, DirToType, HeadTailProperties
<1>7. UNCHANGED <<resync_asked, location, direction, refused_edges, replans,
                  errand, shard, toClient, left_map>>
  BY <1>1
<1>8. CASE next = <<>>
  <2>1. path' = <<>> /\ UNCHANGED <<in_flight, sequence, toShard>>
    BY <1>1, <1>8
  <2> QED BY <1>2, <1>7, <2>1, EmptySeq DEF TypeOK, shard
<1>9. CASE next # <<>>
  <2>1. \/ path' = next /\ Send(dir, SteppingFrom, TRUE)
        \/ path' = Tail(next) /\ Send(dir, Head(next), FALSE)
    BY <1>1, <1>9
  <2>2. path' \in Seq(Tile)
    BY <1>5, <1>6, <1>9, <2>1
  <2> HIDE DEF next, dir
  <2>3. /\ in_flight' \in Seq(PendingStep)
        /\ sequence' \in Number
        /\ toShard' \in Seq(Request)
    BY <1>4, <1>6, <1>9, <2>1, SendType
  <2> QED BY <1>2, <1>7, <2>2, <2>3 DEF TypeOK, shard
<1> QED BY <1>8, <1>9

LEMMA ExpireStaleType == TypeOK /\ ExpireStale => TypeOK'
<1> SUFFICES ASSUME TypeOK, ExpireStale
             PROVE  TypeOK'
  OBVIOUS
<1>1. inputs' \in 0 .. MaxInputs /\ plans' \in 0 .. MaxPlans
  BY SpentType DEF ExpireStale
<1>2. toShard' \in Seq(Request)
  BY ResyncType DEF ExpireStale
<1>3. Refused
  BY DEF ExpireStale
<1> QED BY <1>1, <1>2, <1>3, RefusedType, EmptySeq DEF TypeOK, ExpireStale, shard

\* What the callers of a walk do to it: a wait that ends, a route set, an errand
\* that sends him on or is done, a stop, a turn of their own, a question, a
\* crossing forgotten.
Callers ==
    \/ ResyncWaitEnds
    \/ SetPath
    \/ SentOn
    \/ ErrandEnds
    \/ Stop
    \/ StandingTurn
    \/ ScriptResync
    \/ ForgetEdge

LEMMA CallersType == TypeOK /\ Callers => TypeOK'
<1> SUFFICES ASSUME TypeOK
             PROVE  Callers => TypeOK'
  OBVIOUS
<1>1. ASSUME ResyncWaitEnds PROVE TypeOK'
  BY <1>1, SpentType DEF TypeOK, ResyncWaitEnds, shard
<1>2. ASSUME SetPath PROVE TypeOK'
  <2>1. path' \in Seq(Tile)
    BY <1>2, SteppingFromType, RoutesType, EmptySeq DEF SetPath, TypeOK
  <2>2. inputs' \in 0 .. MaxInputs /\ plans' \in 0 .. MaxPlans
    BY <1>2, SpentType DEF SetPath
  <2>3. replans' \in 0 .. ReplansMax
    BY <1>2, NumbersType DEF SetPath, TypeOK
  <2> QED BY <1>2, <2>1, <2>2, <2>3 DEF TypeOK, SetPath, shard
<1>3. ASSUME Stop PROVE TypeOK'
  <2>1. inputs' \in 0 .. MaxInputs /\ plans' \in 0 .. MaxPlans
    BY <1>3, SpentType DEF Stop
  <2>2. replans' \in 0 .. ReplansMax
    BY <1>3, NumbersType DEF Stop
  <2> QED BY <1>3, <2>1, <2>2, EmptySeq DEF TypeOK, Stop, shard
<1>4. ASSUME StandingTurn PROVE TypeOK'
  <2>1. PICK dir \in Dir : Send(dir, location, TRUE)
    BY <1>4 DEF StandingTurn
  <2>2. inputs' \in 0 .. MaxInputs /\ plans' \in 0 .. MaxPlans
    BY <1>4, SpentType DEF StandingTurn
  <2>3. /\ in_flight' \in Seq(PendingStep)
        /\ sequence' \in Number
        /\ toShard' \in Seq(Request)
    <3>1. location \in Tile
      BY DEF TypeOK
    <3> QED BY <2>1, <3>1, SendType
  <2> QED BY <1>4, <2>2, <2>3 DEF TypeOK, StandingTurn, shard
<1>5. ASSUME ScriptResync PROVE TypeOK'
  BY <1>5, SpentType, ResyncType DEF TypeOK, ScriptResync, client, shard
<1>6. ASSUME ForgetEdge PROVE TypeOK'
  BY <1>6, SpentType DEF TypeOK, ForgetEdge, shard
<1>7. ASSUME SentOn PROVE TypeOK'
  <2>1. path' \in Seq(Tile)
    BY <1>7, SteppingFromType, RoutesType, EmptySeq DEF SentOn
  <2>2. inputs' \in 0 .. MaxInputs /\ plans' \in 0 .. MaxPlans
    BY <1>7, SpentType DEF SentOn
  <2>3. replans' \in 0 .. ReplansMax
    BY <1>7, NumbersType DEF SentOn, TypeOK
  <2> QED BY <1>7, <2>1, <2>2, <2>3 DEF TypeOK, SentOn, shard
<1>8. ASSUME ErrandEnds PROVE TypeOK'
  <2>1. path' \in Seq(Tile)
    BY <1>8, EmptySeq DEF ErrandEnds, TypeOK
  <2>2. replans' \in 0 .. ReplansMax
    BY <1>8, NumbersType DEF ErrandEnds, TypeOK
  <2> QED BY <1>8, <2>1, <2>2 DEF TypeOK, ErrandEnds, shard, spent
<1> QED BY <1>1, <1>2, <1>3, <1>4, <1>5, <1>6, <1>7, <1>8 DEF Callers

\* What an answer may do to the session keeps the session's types.
SessionTypeOK ==
    /\ sequence \in Number
    /\ in_flight \in Seq(PendingStep)
    /\ path \in Seq(Tile)
    /\ resync_asked \in {"no", "asked", "waited"}
    /\ location \in Tile
    /\ direction \in Dir
    /\ refused_edges \subseteq Tile \X Tile
    /\ replans \in 0 .. ReplansMax
    /\ errand \in BOOLEAN
    /\ toShard \in Seq(Request)
    /\ left_map \in BOOLEAN

LEMMA AcceptMoveAckType ==
    ASSUME TypeOK, NEW answer \in Answer, AcceptMoveAck(answer)
    PROVE  SessionTypeOK'
<1> DEFINE named == {i \in 1 .. Len(in_flight) : in_flight[i].sequence = answer.sequence}
<1>1. UNCHANGED <<refused_edges, replans, errand>>
  BY DEF AcceptMoveAck
<1>2. CASE named = {}
  <2>1. AskResync /\ UNCHANGED <<location, direction>>
    BY <1>2 DEF AcceptMoveAck
  <2>2. CASE resync_asked = "asked"
    <3>1. UNCHANGED <<in_flight, sequence, path, resync_asked, toShard, left_map>>
      BY <2>1, <2>2 DEF AskResync
    <3> QED BY <1>1, <2>1, <3>1 DEF TypeOK, SessionTypeOK
  <2>3. CASE resync_asked # "asked"
    <3>1. /\ Refused
          /\ path' = Requeued
          /\ resync_asked' = "asked"
          /\ toShard' = Append(toShard, Resync)
      BY <2>1, <2>3 DEF AskResync
    <3> QED BY <1>1, <2>1, <3>1, RefusedType, RequeuedType, ResyncType DEF TypeOK, SessionTypeOK
  <2> QED BY <2>2, <2>3
<1>3. CASE named # {}
  <2>1. named \in SUBSET Nat
    OBVIOUS
  <2>2. Min(named) \in named
    BY <1>3, <2>1, LeastOfNaturals
  <2> DEFINE first == Min(named)
             n == Len(in_flight)
  <2>3. /\ location' = in_flight[first].arrives_at
        /\ direction' = in_flight[first].direction
        /\ in_flight' = SubSeq(in_flight, first + 1, n)
        /\ UNCHANGED <<sequence, path, resync_asked, toShard, left_map>>
    BY <1>3 DEF AcceptMoveAck
  <2>4. n \in Nat /\ first \in 1 .. n /\ in_flight \in Seq(PendingStep)
    BY <2>2 DEF TypeOK
  <2>5. in_flight[first] \in PendingStep
    BY <2>4, ElementOfSeq
  <2>6. \A i \in first + 1 .. n : in_flight[i] \in PendingStep
    BY <2>4, ElementOfSeq
  <2> HIDE DEF first, n
  <2>7. SubSeq(in_flight, first + 1, n) \in Seq(PendingStep)
    <3>1. first + 1 \in Int /\ n \in Int
      BY <2>4
    <3> QED BY <2>6, <3>1, SubSeqProperties
  <2> QED BY <1>1, <2>3, <2>5, <2>7 DEF TypeOK, SessionTypeOK, PendingStep
<1> QED BY <1>2, <1>3

LEMMA RefuseStepType ==
    ASSUME TypeOK, NEW answer \in Answer, RefuseStep(answer)
    PROVE  SessionTypeOK'
<1>1. location' \in Tile /\ direction' \in Dir /\ UNCHANGED <<resync_asked, errand, toShard>>
  BY DEF RefuseStep, Answer
<1>2. CASE \E i \in 1 .. Len(in_flight) : in_flight[i].sequence = answer.sequence
  <2> DEFINE edge == <<answer.at, Head(in_flight).arrives_at>>
  <2>1. /\ Refused
        /\ \/ TryTheDoor(edge)
           \/ ReplanTheRoute
           \/ GaveUp
    BY <1>2 DEF RefuseStep
  <2>2. edge \in Tile \X Tile
    <3>1. in_flight \in Seq(PendingStep) /\ in_flight # <<>>
      BY <1>2 DEF TypeOK
    <3>2. Head(in_flight) \in PendingStep
      BY <3>1, HeadTailProperties
    <3> QED BY <3>2 DEF Answer, PendingStep
  <2> HIDE DEF edge
  <2>3. /\ path' \in Seq(Tile)
        /\ replans' \in 0 .. ReplansMax
        /\ refused_edges' \subseteq Tile \X Tile
    <3>1. CASE TryTheDoor(edge)
      BY <2>2, <3>1, RequeuedType DEF TryTheDoor, TypeOK
    <3>2. CASE ReplanTheRoute
      <4>1. location \in Tile /\ Routes[location] \subseteq Seq(Tile)
        BY RoutesType DEF TypeOK
      <4>2. path' \in Seq(Tile)
        BY <3>2, <4>1, EmptySeq DEF ReplanTheRoute
      <4>3. replans' \in 0 .. ReplansMax
        BY <3>2, NumbersType DEF ReplanTheRoute, TypeOK
      <4> QED BY <3>2, <4>2, <4>3 DEF ReplanTheRoute, TypeOK
    <3>3. CASE GaveUp
      BY <3>3, EmptySeq, NumbersType DEF GaveUp, TypeOK
    <3> QED BY <2>1, <3>1, <3>2, <3>3
  <2> QED BY <1>1, <2>1, <2>3, RefusedType DEF TypeOK, SessionTypeOK
<1>3. CASE ~\E i \in 1 .. Len(in_flight) : in_flight[i].sequence = answer.sequence
  <2>1. UNCHANGED <<in_flight, sequence, left_map, path, refused_edges, replans>>
    BY <1>3 DEF RefuseStep
  <2> QED BY <1>1, <2>1 DEF TypeOK, SessionTypeOK
<1> QED BY <1>2, <1>3

LEMMA RedrawnType ==
    ASSUME TypeOK, NEW answer \in Answer, Redrawn(answer)
    PROVE  SessionTypeOK'
BY RefusedType, RequeuedType DEF Redrawn, TypeOK, SessionTypeOK, Answer

LEMMA LeaveMapType ==
    ASSUME TypeOK, NEW answer \in Answer, LeaveMap(answer)
    PROVE  SessionTypeOK'
<1>1. errand' \in BOOLEAN /\ left_map' \in BOOLEAN
  BY Zenon DEF LeaveMap, TypeOK
<1>2. replans' \in 0 .. ReplansMax
  BY NumbersType DEF LeaveMap
<1>3. UNCHANGED <<in_flight, resync_asked, location, direction, toShard>>
  BY DEF LeaveMap
<1> QED BY <1>1, <1>2, <1>3, NumberType, EmptySeq DEF LeaveMap, TypeOK, SessionTypeOK

LEMMA ReceiveType == TypeOK /\ Receive => TypeOK'
<1> SUFFICES ASSUME TypeOK, Receive
             PROVE  TypeOK'
  OBVIOUS
<1> DEFINE answer == Head(toClient)
<1>1. answer \in Answer /\ toClient' \in Seq(Answer)
  BY HeadTailProperties DEF TypeOK, Receive
<1>2. AcceptMoveAck(answer) \/ RefuseStep(answer) \/ Redrawn(answer) \/ LeaveMap(answer)
  BY DEF Receive
<1> HIDE DEF answer
<1>3. SessionTypeOK'
  BY <1>1, <1>2, AcceptMoveAckType, RefuseStepType, RedrawnType, LeaveMapType
<1>4. UNCHANGED <<shard, spent>>
  BY DEF Receive
<1>5. inputs' \in 0 .. MaxInputs /\ plans' \in 0 .. MaxPlans
  BY <1>4, SpentType
<1> QED BY <1>1, <1>3, <1>4, <1>5 DEF TypeOK, SessionTypeOK, shard

LEMMA FramingErrorType == TypeOK /\ FramingError => TypeOK'
<1> SUFFICES ASSUME TypeOK, FramingError
             PROVE  TypeOK'
  OBVIOUS
<1>1. PICK lost \in 0 .. Len(toClient) :
         toClient' = SubSeq(toClient, lost + 1, Len(toClient))
  BY DEF FramingError
<1>2. toClient' \in Seq(Answer)
  <2> DEFINE n == Len(toClient)
  <2>1. n \in Nat /\ toClient \in Seq(Answer)
    BY DEF TypeOK
  <2>2. \A i \in lost + 1 .. n : toClient[i] \in Answer
    BY <2>1, ElementOfSeq
  <2>3. lost + 1 \in Int /\ n \in Int
    BY <2>1
  <2>4. toClient' = SubSeq(toClient, lost + 1, n)
    BY <1>1
  <2> HIDE DEF n
  <2> QED BY <2>2, <2>3, <2>4, SubSeqProperties
<1> QED BY <1>2, SpentType, RefusedType, RequeuedType, ResyncType DEF TypeOK, FramingError, shard

LEMMA AnsweredType ==
    ASSUME TypeOK, NEW request \in Request, request.kind = "move",
           NEW kind \in {"ack", "reject"}, NEW at \in Tile, NEW dir \in Dir,
           Answered(kind, request, at, dir)
    PROVE  toClient' \in Seq(Answer)
<1>1. request.sequence \in Number
  BY DEF Request
<1>2. [kind |-> kind, sequence |-> request.sequence, at |-> at, direction |-> dir] \in Answer
  BY <1>1 DEF Answer
<1> QED BY <1>2, AppendProperties DEF TypeOK, Answered

LEMMA ServeType == TypeOK /\ Serve => TypeOK'
<1> SUFFICES ASSUME TypeOK, Serve
             PROVE  TypeOK'
  OBVIOUS
<1> DEFINE request == Head(toShard)
<1>1. request \in Request /\ toShard' \in Seq(Request)
  BY HeadTailProperties DEF TypeOK, Serve
<1>2. UNCHANGED <<client, left_map>>
  BY DEF Serve
<1>3. tile \in Tile /\ facing \in Dir /\ Ahead \in Tile
  BY BesideType DEF TypeOK, Ahead
<1>4. count' \in Number /\ tile' \in Tile /\ facing' \in Dir
      /\ toClient' \in Seq(Answer) /\ inputs' \in 0 .. MaxInputs /\ plans' \in 0 .. MaxPlans
  <2>1. CASE /\ request.kind = "move"
             /\ ShardTurns(request) \/ ShardSteps(request) \/ ShardRefuses(request)
    <3>1. CASE ShardTurns(request)
      <4>1. request.direction \in Dir
        BY <1>1, <2>1 DEF Request
      <4>2. toClient' \in Seq(Answer)
        BY <1>1, <1>3, <2>1, <3>1, <4>1, AnsweredType DEF ShardTurns
      <4> QED BY <1>3, <3>1, <4>1, <4>2, NumberType DEF ShardTurns, TypeOK, spent
    <3>2. CASE ShardSteps(request)
      <4>1. toClient' \in Seq(Answer)
        BY <1>1, <1>3, <2>1, <3>2, AnsweredType DEF ShardSteps
      <4> QED BY <1>3, <3>2, <4>1, NumberType DEF ShardSteps, TypeOK, spent
    <3>3. CASE ShardRefuses(request)
      <4>1. toClient' \in Seq(Answer)
        BY <1>1, <1>3, <2>1, <3>3, AnsweredType DEF ShardRefuses
      <4>2. inputs' \in 0 .. MaxInputs /\ plans' \in 0 .. MaxPlans
        BY <3>3, SpentType DEF ShardRefuses, TypeOK
      <4> QED BY <1>3, <3>3, <4>1, <4>2, NumberType DEF ShardRefuses, TypeOK
    <3> QED BY <2>1, <3>1, <3>2, <3>3
  <2>2. CASE request.kind = "move" /\ ShardRefusesTheNumber(request)
    <3>1. toClient' \in Seq(Answer)
      BY <1>1, <1>3, <2>2, AnsweredType DEF ShardRefusesTheNumber, TypeOK
    <3> QED BY <1>3, <2>2, <3>1, NumberType DEF ShardRefusesTheNumber, TypeOK, spent
  <2>3. CASE ShardRedraws
    <3>1. [kind |-> "draw", at |-> tile, direction |-> facing] \in Answer
      BY <1>3 DEF Answer
    <3>2. toClient' \in Seq(Answer)
      BY <2>3, <3>1, AppendProperties DEF ShardRedraws, TypeOK
    <3> QED BY <1>3, <2>3, <3>2, NumberType DEF ShardRedraws, TypeOK, spent
  <2>4. CASE ShardLoses
    BY <2>4, SpentType DEF ShardLoses, shard, TypeOK
  <2> QED BY <2>1, <2>2, <2>3, <2>4 DEF Serve
<1> QED BY <1>1, <1>2, <1>4 DEF TypeOK, client

LEMMA ShardMovesHimType == TypeOK /\ ShardMovesHim => TypeOK'
<1> SUFFICES ASSUME TypeOK, ShardMovesHim
             PROVE  TypeOK'
  OBVIOUS
<1> DEFINE draw == [kind |-> "draw", at |-> tile', direction |-> facing]
           map == [kind |-> "map", at |-> tile', direction |-> facing]
<1>1. tile' \in Tile /\ facing \in Dir
  BY DEF TypeOK, ShardMovesHim
<1>2. draw \in Answer /\ map \in Answer
  BY <1>1 DEF Answer
<1>3. [draw EXCEPT !.kind = "map"] = map
  OBVIOUS
<1>4. toClient' = Append(toClient, draw) \/ toClient' = toClient \o <<map, draw>>
  BY <1>3 DEF ShardMovesHim
<1> HIDE DEF draw, map
<1>5. <<map, draw>> \in Seq(Answer)
  BY <1>2
<1>6. toClient' \in Seq(Answer)
  <2>1. toClient \in Seq(Answer)
    BY DEF TypeOK
  <2>2. Append(toClient, draw) \in Seq(Answer)
    BY <1>2, <2>1, AppendProperties
  <2>3. toClient \o <<map, draw>> \in Seq(Answer)
    BY <1>5, <2>1, ConcatProperties
  <2> QED BY <1>4, <2>2, <2>3
<1> QED BY <1>1, <1>6, SpentType, NumberType DEF TypeOK, ShardMovesHim, client

\* Init establishes the types and every step keeps them (TypeOK of Walk).
THEOREM TypeCorrect == Spec => []TypeOK
<1>1. Init => TypeOK
  <2> SUFFICES ASSUME Init
               PROVE  TypeOK
    OBVIOUS
  <2>1. <<>> \in Seq(PendingStep) /\ <<>> \in Seq(Tile)
        /\ <<>> \in Seq(Request) /\ <<>> \in Seq(Answer)
    BY EmptySeq
  <2>2. location \in Tile /\ tile \in Tile /\ direction \in Dir /\ facing \in Dir
    BY DEF Init
  <2>3. 0 \in 0 .. ReplansMax /\ 0 \in 0 .. MaxInputs /\ 0 \in 0 .. MaxPlans
    BY NumbersType
  <2> QED BY <2>1, <2>2, <2>3, NumberType DEF Init, TypeOK
<1>2. TypeOK /\ [Next]_vars => TypeOK'
  <2>1. TypeOK /\ UNCHANGED vars => TypeOK'
    BY DEF TypeOK, vars, client, shard, spent
  <2> QED BY <2>1, PumpMovementType, ExpireStaleType, CallersType, ReceiveType,
             FramingErrorType, ServeType, ShardMovesHimType DEF Next, Callers
<1> QED BY <1>1, <1>2, PTL DEF Spec

-----------------------------------------------------------------------------
(* No two requests in flight carry the same number. *)

\* Counting d + 1 numbers on is counting d on and one more, and no number comes
\* round again before SeqMod - 1 others have gone out.
LEMMA ForwardNext ==
    ASSUME NEW n \in Number, NEW d \in 0 .. SeqMod - 2
    PROVE  /\ Forward(n, d + 1) = NextNumber(Forward(n, d))
           /\ Forward(n, 1) = NextNumber(n)
           /\ d > 0 => Forward(n, d) # n
BY NumbersType DEF Forward, NextNumber, SeqAfterWrap, Number

\* A request that goes out while there is room carries the number after those
\* in flight.
LEMMA SendKeepsConsecutive ==
    ASSUME TypeOK, Consecutive, Len(in_flight) < InFlightMax,
           NEW dir \in Dir, NEW t \in Tile, NEW turn \in BOOLEAN,
           Send(dir, t, turn), UNCHANGED left_map
    PROVE  Consecutive'
<1> DEFINE n == Len(in_flight)
           request == [sequence |-> sequence, direction |-> dir,
                       arrives_at |-> t, turn |-> turn]
<1>1. /\ in_flight \in Seq(PendingStep) /\ sequence \in Number
      /\ n \in Nat /\ n < InFlightMax
  BY DEF TypeOK
<1>2. in_flight' = Append(in_flight, request) /\ sequence' = NextNumber(sequence)
  BY DEF Send
<1>3. request \in PendingStep /\ request.sequence = sequence
  BY <1>1 DEF PendingStep
<1>4. /\ Len(in_flight') = n + 1
      /\ \A i \in 1 .. n : in_flight'[i] = in_flight[i]
      /\ in_flight'[n + 1] = request
  <2> HIDE DEF request
  <2> QED BY <1>1, <1>2, <1>3, AppendProperties
<1>5. \A i \in 1 .. n : in_flight[i].sequence \in Number
  <2> SUFFICES ASSUME NEW i \in 1 .. n
               PROVE  in_flight[i].sequence \in Number
    OBVIOUS
  <2>1. in_flight[i] \in PendingStep
    BY <1>1, ElementOfSeq
  <2> QED BY <2>1 DEF PendingStep
<1>6. Len(in_flight') <= InFlightMax
  BY <1>1, <1>4, NumbersType
<1>7. CASE left_map
  BY <1>6, <1>7 DEF Consecutive
<1>8. CASE ~left_map
  <2> HIDE DEF n, request
  <2>1. ASSUME NEW i \in 1 .. n
        PROVE  /\ sequence = Forward(in_flight[i].sequence, n + 1 - i)
               /\ \A j \in i + 1 .. n :
                      in_flight[j].sequence = Forward(in_flight[i].sequence, j - i)
    BY <1>8, <2>1 DEF Consecutive, n
  <2>2. ASSUME NEW i \in 1 .. n
        PROVE  sequence' = Forward(in_flight[i].sequence, n + 2 - i)
    <3>1. n + 1 - i \in 0 .. SeqMod - 2 /\ (n + 1 - i) + 1 = n + 2 - i
      BY <1>1, NumbersType
    <3>2. Forward(in_flight[i].sequence, (n + 1 - i) + 1)
            = NextNumber(Forward(in_flight[i].sequence, n + 1 - i))
      BY <1>5, <3>1, ForwardNext
    <3> QED BY <1>2, <2>1, <3>1, <3>2
  <2>3. sequence' = Forward(sequence, 1)
    <3>1. 0 \in 0 .. SeqMod - 2
      BY NumbersType
    <3> QED BY <1>1, <1>2, <3>1, ForwardNext
  <2>4. ASSUME NEW i \in 1 .. n + 1
        PROVE  /\ sequence' = Forward(in_flight'[i].sequence, n + 2 - i)
               /\ \A j \in i + 1 .. n + 1 :
                      in_flight'[j].sequence = Forward(in_flight'[i].sequence, j - i)
    <3>1. CASE i = n + 1
      BY <1>1, <1>3, <1>4, <2>3, <3>1
    <3>2. CASE i \in 1 .. n
      <4>1. ASSUME NEW j \in i + 1 .. n + 1
            PROVE  in_flight'[j].sequence = Forward(in_flight'[i].sequence, j - i)
        <5>1. in_flight'[i] = in_flight[i]
          BY <1>4, <3>2
        <5>2. CASE j = n + 1
          <6>1. in_flight'[j].sequence = sequence
            BY <1>3, <1>4, <5>2
          <6>2. sequence = Forward(in_flight[i].sequence, n + 1 - i)
            BY <2>1, <3>2
          <6>3. j - i = n + 1 - i
            BY <1>1, <3>2, <5>2
          <6> QED BY <5>1, <6>1, <6>2, <6>3
        <5>3. CASE j \in i + 1 .. n
          <6>1. j \in 1 .. n
            BY <1>1, <3>2, <5>3
          <6>2. in_flight'[j] = in_flight[j]
            BY <1>4, <6>1
          <6>3. in_flight[j].sequence = Forward(in_flight[i].sequence, j - i)
            BY <2>1, <3>2, <5>3
          <6> QED BY <5>1, <6>2, <6>3
        <5> QED BY <1>1, <5>2, <5>3
      <4> QED BY <1>4, <2>2, <3>2, <4>1
    <3> QED BY <1>1, <3>1, <3>2
  <2> QED BY <1>4, <1>6, <2>4 DEF Consecutive, n
<1> QED BY <1>7, <1>8

\* Every request after the one named was sent after it: cutting the queue there
\* leaves its numbers consecutive.
LEMMA CutKeepsConsecutive ==
    ASSUME TypeOK, Consecutive, NEW first \in 1 .. Len(in_flight),
           in_flight' = SubSeq(in_flight, first + 1, Len(in_flight)),
           UNCHANGED <<sequence, left_map>>
    PROVE  Consecutive'
<1> DEFINE n == Len(in_flight)
<1>1. in_flight \in Seq(PendingStep) /\ n \in Nat /\ first \in 1 .. n
  BY DEF TypeOK
<1>2. \A i \in first + 1 .. n : in_flight[i] \in PendingStep
  BY <1>1, ElementOfSeq
<1>3. in_flight' = SubSeq(in_flight, first + 1, n)
  OBVIOUS
<1> HIDE DEF n
<1>4. first + 1 \in Int /\ n \in Int
  BY <1>1
<1>5. /\ Len(in_flight') = IF first + 1 <= n THEN n - (first + 1) + 1 ELSE 0
      /\ \A i \in 1 .. n - (first + 1) + 1 : in_flight'[i] = in_flight[(first + 1) + i - 1]
  BY <1>2, <1>3, <1>4, SubSeqProperties
<1>6. /\ Len(in_flight') = n - first
      /\ \A i \in 1 .. n - first : in_flight'[i] = in_flight[first + i]
  <2>1. Len(in_flight') = n - first
    BY <1>1, <1>5
  <2>2. ASSUME NEW i \in 1 .. n - first
        PROVE  in_flight'[i] = in_flight[first + i]
    <3>1. i \in 1 .. n - (first + 1) + 1 /\ (first + 1) + i - 1 = first + i
      BY <1>1
    <3> QED BY <1>5, <3>1
  <2> QED BY <2>1, <2>2
<1>7. Len(in_flight') <= InFlightMax
  BY <1>1, <1>6, NumbersType DEF Consecutive, n
<1>8. ASSUME ~left_map, NEW i \in 1 .. n - first
      PROVE  /\ sequence = Forward(in_flight'[i].sequence, n - first + 1 - i)
             /\ \A j \in i + 1 .. n - first :
                    in_flight'[j].sequence = Forward(in_flight'[i].sequence, j - i)
  <2>1. first + i \in 1 .. n /\ n + 1 - (first + i) = n - first + 1 - i
    BY <1>1
  <2>2. in_flight'[i] = in_flight[first + i]
    BY <1>6
  <2>3. sequence = Forward(in_flight[first + i].sequence, n + 1 - (first + i))
    BY <1>8, <2>1 DEF Consecutive, n
  <2>4. ASSUME NEW j \in i + 1 .. n - first
        PROVE  in_flight'[j].sequence = Forward(in_flight'[i].sequence, j - i)
    <3>1. /\ first + j \in (first + i) + 1 .. n
          /\ (first + j) - (first + i) = j - i
          /\ j \in 1 .. n - first
      BY <1>1
    <3>2. in_flight[first + j].sequence
            = Forward(in_flight[first + i].sequence, (first + j) - (first + i))
      BY <1>8, <2>1, <3>1 DEF Consecutive, n
    <3> QED BY <1>6, <2>2, <3>1, <3>2
  <2> QED BY <2>1, <2>2, <2>3, <2>4
<1> QED BY <1>6, <1>7, <1>8 DEF Consecutive

\* A wire with nothing on it.
LEMMA EmptyWireConsecutive ==
    ASSUME in_flight' = <<>>
    PROVE  Consecutive'
<1>1. Len(in_flight') = 0
  BY EmptySeq
<1> QED BY <1>1, NumbersType DEF Consecutive

\* Nothing touches the requests in flight, their numbers or the next one.
LEMMA StutterConsecutive ==
    ASSUME Consecutive, UNCHANGED <<in_flight, sequence, left_map>>
    PROVE  Consecutive'
BY DEF Consecutive

\* A step of the session or the shard keeps the numbers consecutive.
LEMMA ConsecutiveStep == TypeOK /\ Consecutive /\ [Next]_vars => Consecutive'
<1> SUFFICES ASSUME TypeOK, Consecutive, [Next]_vars
             PROVE  Consecutive'
  OBVIOUS
<1>1. CASE PumpMovement
  <2>1. PICK route \in {path} \cup (IF Walking THEN {} ELSE Routes[location]) :
           LET next == Reachable(route, SteppingFrom)
               dir == DirTo(SteppingFrom, Head(next))
           IN  /\ Len(in_flight) < InFlightMax
               /\ IF next = <<>>
                    THEN UNCHANGED <<in_flight, sequence>>
                    ELSE Send(dir, SteppingFrom, TRUE) \/ Send(dir, Head(next), FALSE)
               /\ UNCHANGED left_map
    BY <1>1 DEF PumpMovement
  <2> DEFINE next == Reachable(route, SteppingFrom)
             dir == DirTo(SteppingFrom, Head(next))
  <2>2. CASE next = <<>>
    BY <2>1, <2>2, StutterConsecutive
  <2>3. CASE next # <<>>
    <3>1. route \in Seq(Tile) /\ SteppingFrom \in Tile
      BY RoutesType, SteppingFromType DEF TypeOK
    <3>2. next \in Seq(Tile) /\ Near(SteppingFrom, Head(next))
      BY <2>3, <3>1, ReachableType
    <3>3. dir \in Dir /\ Head(next) \in Tile
      BY <2>3, <3>2, DirToType, HeadTailProperties
    <3>4. \/ Send(dir, SteppingFrom, TRUE)
          \/ Send(dir, Head(next), FALSE)
      BY <2>1, <2>3
    <3>5. Len(in_flight) < InFlightMax /\ UNCHANGED left_map
      BY <2>1
    <3> HIDE DEF next, dir
    <3> QED BY <3>1, <3>3, <3>4, <3>5, SendKeepsConsecutive
  <2> QED BY <2>2, <2>3
<1>2. CASE ExpireStale \/ FramingError
  <2>1. Refused
    BY <1>2 DEF ExpireStale, FramingError
  <2> QED BY <2>1, EmptyWireConsecutive DEF Refused
<1>3. CASE StandingTurn
  <2>1. PICK dir \in Dir : Send(dir, location, TRUE)
    BY <1>3 DEF StandingTurn
  <2>2. location \in Tile /\ Len(in_flight) < InFlightMax /\ UNCHANGED left_map
    BY <1>3, EmptySeq, NumbersType DEF StandingTurn, TypeOK
  <2> QED BY <2>1, <2>2, SendKeepsConsecutive
<1>4. CASE Receive
  <2> DEFINE answer == Head(toClient)
  <2>1. AcceptMoveAck(answer) \/ RefuseStep(answer) \/ Redrawn(answer) \/ LeaveMap(answer)
    BY <1>4 DEF Receive
  <2> HIDE DEF answer
  <2>2. CASE AcceptMoveAck(answer)
    <3> DEFINE named == {i \in 1 .. Len(in_flight) : in_flight[i].sequence = answer.sequence}
               first == Min(named)
    <3>1. CASE named = {}
      <4>1. AskResync
        BY <2>2, <3>1 DEF AcceptMoveAck
      <4>2. \/ UNCHANGED <<in_flight, sequence, left_map>>
            \/ Refused
        BY <4>1 DEF AskResync
      <4> QED BY <4>2, StutterConsecutive, EmptyWireConsecutive DEF Refused
    <3>2. CASE named # {}
      <4>1. named \in SUBSET Nat
        OBVIOUS
      <4>2. first \in 1 .. Len(in_flight)
        BY <3>2, <4>1, LeastOfNaturals
      <4>3. /\ in_flight' = SubSeq(in_flight, first + 1, Len(in_flight))
            /\ UNCHANGED <<sequence, left_map>>
        BY <2>2, <3>2 DEF AcceptMoveAck
      <4> HIDE DEF first, named
      <4> QED BY <4>2, <4>3, CutKeepsConsecutive
    <3> QED BY <3>1, <3>2
  <2>3. CASE RefuseStep(answer)
    <3>1. Refused \/ UNCHANGED <<in_flight, sequence, left_map>>
      BY <2>3 DEF RefuseStep
    <3> QED BY <3>1, StutterConsecutive, EmptyWireConsecutive DEF Refused
  <2>4. CASE Redrawn(answer)
    BY <2>4, EmptyWireConsecutive DEF Redrawn, Refused
  <2>5. CASE LeaveMap(answer)
    <3>1. CASE in_flight = <<>>
      BY <2>5, <3>1, EmptyWireConsecutive DEF LeaveMap
    <3>2. CASE in_flight # <<>>
      BY <2>5, <3>2 DEF LeaveMap, Consecutive
    <3> QED BY <3>1, <3>2
  <2> QED BY <2>1, <2>2, <2>3, <2>4, <2>5
<1>5. CASE \/ ResyncWaitEnds \/ SetPath \/ SentOn \/ ErrandEnds \/ Stop
           \/ ScriptResync \/ ForgetEdge \/ Serve \/ ShardMovesHim \/ UNCHANGED vars
  <2>1. UNCHANGED <<in_flight, sequence, left_map>>
    BY <1>5 DEF ResyncWaitEnds, SetPath, SentOn, ErrandEnds, Stop, ScriptResync,
                ForgetEdge, Serve, ShardMovesHim, client, vars
  <2> QED BY <2>1, StutterConsecutive
<1> QED BY <1>1, <1>2, <1>3, <1>4, <1>5 DEF Next

\* The requests in flight carry consecutive numbers (Consecutive of Walk).
THEOREM NumbersConsecutive == Spec => []Consecutive
<1>1. Init => Consecutive
  BY EmptySeq, NumbersType DEF Init, Consecutive
<1>2. TypeOK /\ Consecutive /\ [Next]_vars => Consecutive'
  BY ConsecutiveStep
<1> QED BY <1>1, <1>2, TypeCorrect, PTL DEF Spec

\* An answer names at most one request in flight, whatever the wrap of the
\* count and whatever was thrown away (AnswersNameOneRequest of Walk).
THEOREM AnswersAreUnambiguous == Spec => []AnswersNameOneRequest
<1>1. TypeOK /\ Consecutive => AnswersNameOneRequest
  <2> SUFFICES ASSUME TypeOK, Consecutive, ~left_map,
                      NEW i \in 1 .. Len(in_flight), NEW j \in 1 .. Len(in_flight), i < j
               PROVE  in_flight[i].sequence # in_flight[j].sequence
    BY DEF AnswersNameOneRequest, TypeOK
  <2>1. in_flight[i] \in PendingStep
    BY ElementOfSeq DEF TypeOK
  <2>2. in_flight[i].sequence \in Number
    BY <2>1 DEF PendingStep
  <2>3. in_flight[j].sequence = Forward(in_flight[i].sequence, j - i)
    BY DEF Consecutive, TypeOK
  <2>4. j - i \in 1 .. SeqMod - 2
    BY NumbersType DEF Consecutive, TypeOK
  <2>5. Forward(in_flight[i].sequence, j - i) # in_flight[i].sequence
    BY <2>2, <2>4, ForwardNext
  <2> QED BY <2>3, <2>5
<1> QED BY <1>1, TypeCorrect, NumbersConsecutive, PTL

-----------------------------------------------------------------------------
(***************************************************************************)
(* Once nothing is owed, the session and the shard agree on the tile: for  *)
(* every map, every size of the sequence byte and every number of faults,  *)
(* when the shard answers all it is asked (~DropsSome).                    *)
(*                                                                         *)
(* While a redraw is on its way, or asked for, nothing needs to hold: it   *)
(* throws everything away.  Otherwise the answers on their way and the     *)
(* requests on theirs are one queue, `pipe` long, and the requests in      *)
(* flight are its last.  The `stale` ones before them were thrown away, or *)
(* credited to another's answer, and are answered all the same.  A run of  *)
(* numbers begins with 0 and no later number of it is 0, so a request out  *)
(* of step with the shard is refused, and a refusal says where he is.      *)
(***************************************************************************)
-----------------------------------------------------------------------------
(* The invariant. *)

answers == Len(toClient)
pipe == Len(toClient) + Len(toShard)
stale == Len(toClient) + Len(toShard) - Len(in_flight)

RedrawOwed ==
    \/ \E i \in 1 .. Len(toShard) : toShard[i] = Resync
    \/ \E i \in 1 .. answers : toClient[i].kind = "draw"

IsAck(i) == toClient[i].kind = "ack"
IsReject(i) == toClient[i].kind = "reject"

\* The numbers of the pipe, and of the first request still held.
numbers == [i \in 1 .. pipe |->
               IF i <= answers THEN toClient[i].sequence ELSE toShard[i - answers].sequence]
NextUp == IF in_flight = <<>> THEN sequence ELSE in_flight[1].sequence

\* The last answer tells what the shard has come to, a refusal moves nobody and
\* makes the count begin again, and a new map is drawn at once.
LastIsShards ==
    answers > 0 =>
        /\ toClient[answers].at = tile
        /\ toClient[answers].direction = facing
        /\ count = IF IsAck(answers) THEN NextNumber(toClient[answers].sequence) ELSE 0
RefusalsMoveNobody ==
    \A i, j \in 1 .. answers :
        i < j /\ (\A l \in i + 1 .. j : IsReject(l))
          => toClient[j].at = toClient[i].at /\ toClient[j].direction = toClient[i].direction
RefusalsBeginAgain ==
    \A i, j \in 1 .. answers :
        i < j /\ IsReject(i) /\ IsAck(j)
          => \E l \in i + 1 .. j : IsAck(l) /\ toClient[l].sequence = 0
MapThenDraw ==
    \A i \in 1 .. answers :
        toClient[i].kind = "map" => i < answers /\ toClient[i + 1].kind = "draw"
WireInv == LastIsShards /\ RefusalsMoveNobody /\ RefusalsBeginAgain /\ MapThenDraw

AskedIsOwed == resync_asked # "no" \/ left_map => RedrawOwed

\* The requests in flight are the last of the pipe.
HeldAreLast ==
    /\ stale >= 0
    /\ \A i \in 1 .. Len(in_flight) :
          /\ in_flight[i].sequence = numbers[stale + i]
          /\ stale + i > answers
               => in_flight[i].direction = toShard[stale + i - answers].direction

\* Each was sent from where the one before it leaves him.
Follows(request, from, dir) ==
    IF request.turn
      THEN request.arrives_at = from /\ request.direction # dir
      ELSE request.direction = dir /\ request.arrives_at = Beside[from][dir]
HeldAreLinked ==
    \A i \in 1 .. Len(in_flight) - 1 :
        Follows(in_flight[i + 1], in_flight[i].arrives_at, in_flight[i].direction)

\* What is asked next begins a run, or goes on with the one it was stale in.
GoesOn == stale > 0 => NextUp \in {0, NextNumber(numbers[stale])}

\* With no stale request, or only refused ones before a run of its own, he
\* stands where he is believed to, and the answers are those believed in.
Fresh == stale = 0 \/ (NextUp = 0 /\ \A i \in 1 .. answers : i <= stale => ~IsAck(i))
StaleAreRefused ==
    \A i \in 1 .. answers : i <= stale
        => toClient[i].at = location /\ toClient[i].direction = direction
HeldAreConfirmed ==
    \A i \in 1 .. answers : i > stale /\ IsAck(i)
        => /\ toClient[i].at = in_flight[i - stale].arrives_at
           /\ toClient[i].direction = in_flight[i - stale].direction
StandsThere ==
    answers <= stale
      => /\ tile = location /\ facing = direction /\ count \in {0, NextUp}
         /\ count = NextUp /\ in_flight # <<>> => Follows(in_flight[1], location, direction)
FreshInv == Fresh => StaleAreRefused /\ HeldAreConfirmed /\ StandsThere

QuietInv == ~RedrawOwed => HeldAreLast /\ HeldAreLinked /\ GoesOn /\ FreshInv

AInv == WireInv /\ AskedIsOwed /\ QuietInv

-----------------------------------------------------------------------------
(* The wire. *)

\* Without a redraw owed there are only answers to requests, and only requests.
LEMMA PipeTypes ==
    ASSUME TypeOK, MapThenDraw, ~RedrawOwed
    PROVE  /\ \A i \in 1 .. answers :
                toClient[i] \in [kind : {"ack", "reject"}, sequence : Number, at : Tile, direction : Dir]
           /\ \A i \in 1 .. Len(toShard) :
                toShard[i] \in [kind : {"move"}, sequence : Number, direction : Dir]
<1>1. ASSUME NEW i \in 1 .. answers
      PROVE  toClient[i] \in [kind : {"ack", "reject"}, sequence : Number, at : Tile, direction : Dir]
  <2>1. toClient[i] \in Answer
    BY ElementOfSeq DEF TypeOK, answers
  <2>2. toClient[i].kind # "draw"
    BY DEF RedrawOwed
  <2>3. toClient[i].kind # "map"
    <3>1. ASSUME toClient[i].kind = "map" PROVE FALSE
      <4>1. i < answers /\ toClient[i + 1].kind = "draw"
        BY <3>1 DEF MapThenDraw
      <4>2. answers \in Nat
        BY DEF TypeOK, answers
      <4>3. i + 1 \in 1 .. answers
        BY <4>1, <4>2
      <4> QED
        BY <4>1, <4>3 DEF RedrawOwed
    <3> QED
      BY <3>1
  <2> QED
    BY <2>1, <2>2, <2>3 DEF Answer
<1>2. ASSUME NEW i \in 1 .. Len(toShard)
      PROVE  toShard[i] \in [kind : {"move"}, sequence : Number, direction : Dir]
  <2>1. toShard[i] \in Request
    BY ElementOfSeq DEF TypeOK
  <2>2. toShard[i] # Resync
    BY DEF RedrawOwed
  <2> QED
    BY <2>1, <2>2 DEF Request, Resync
<1> QED
  BY <1>1, <1>2

\* Answers lost from the front leave the wire as it was.
LEMMA FrontKeepsWire ==
    ASSUME TypeOK, WireInv, NEW lost \in 0 .. answers, UNCHANGED shard,
           answers' = answers - lost,
           \A i \in 1 .. answers - lost : toClient'[i] = toClient[i + lost]
    PROVE  WireInv'
<1>1. answers \in Nat
  BY DEF TypeOK, answers
<1>2. LastIsShards'
  <2> SUFFICES ASSUME answers - lost > 0 PROVE LastIsShards'
    BY <1>1 DEF LastIsShards
  <2>1. toClient'[answers'] = toClient[answers] /\ answers > 0
    BY <1>1
  <2> QED
    BY <2>1 DEF WireInv, LastIsShards, IsAck, shard
<1>3. RefusalsMoveNobody'
  <2> SUFFICES ASSUME NEW i \in 1 .. answers - lost, NEW j \in 1 .. answers - lost, i < j,
                      \A l \in i + 1 .. j : toClient'[l].kind = "reject"
               PROVE  toClient'[j].at = toClient'[i].at /\ toClient'[j].direction = toClient'[i].direction
    BY DEF RefusalsMoveNobody, IsReject
  <2>1. i + lost \in 1 .. answers /\ j + lost \in 1 .. answers /\ i + lost < j + lost
    BY <1>1
  <2>2. ASSUME NEW l \in (i + lost) + 1 .. j + lost PROVE toClient[l].kind = "reject"
    <3>1. l - lost \in i + 1 .. j /\ l - lost \in 1 .. answers - lost /\ (l - lost) + lost = l
      BY <1>1
    <3> QED
      BY <3>1
  <2>3. /\ toClient[j + lost].at = toClient[i + lost].at
        /\ toClient[j + lost].direction = toClient[i + lost].direction
    BY <2>1, <2>2 DEF WireInv, RefusalsMoveNobody, IsReject
  <2> QED
    BY <2>3
<1>4. RefusalsBeginAgain'
  <2> SUFFICES ASSUME NEW i \in 1 .. answers - lost, NEW j \in 1 .. answers - lost, i < j,
                      toClient'[i].kind = "reject", toClient'[j].kind = "ack"
               PROVE  \E l \in i + 1 .. j : toClient'[l].kind = "ack" /\ toClient'[l].sequence = 0
    BY DEF RefusalsBeginAgain, IsReject, IsAck
  <2>1. i + lost \in 1 .. answers /\ j + lost \in 1 .. answers /\ i + lost < j + lost
    BY <1>1
  <2>2. PICK l \in (i + lost) + 1 .. j + lost : toClient[l].kind = "ack" /\ toClient[l].sequence = 0
    BY <2>1 DEF WireInv, RefusalsBeginAgain, IsReject, IsAck
  <2>3. l - lost \in i + 1 .. j /\ l - lost \in 1 .. answers - lost /\ (l - lost) + lost = l
    BY <1>1
  <2> QED
    BY <2>2, <2>3
<1>5. MapThenDraw'
  <2> SUFFICES ASSUME NEW i \in 1 .. answers - lost, toClient'[i].kind = "map"
               PROVE  i < answers - lost /\ toClient'[i + 1].kind = "draw"
    BY DEF MapThenDraw
  <2>1. i + lost < answers /\ toClient[(i + lost) + 1].kind = "draw"
    BY <1>1 DEF WireInv, MapThenDraw
  <2>2. i + 1 \in 1 .. answers - lost /\ (i + lost) + 1 = (i + 1) + lost
    BY <1>1, <2>1
  <2> QED
    BY <2>1, <2>2
<1> QED
  BY <1>2, <1>3, <1>4, <1>5 DEF WireInv

\* What the shard answers to a request, and what it makes of it.
Replies(answer, request) ==
    /\ answer.kind \in {"ack", "reject"}
    /\ answer.sequence = request.sequence
    /\ answer.at = tile' /\ answer.direction = facing'
    /\ count' = IF answer.kind = "ack" THEN NextNumber(answer.sequence) ELSE 0
    /\ answer.kind = "reject" => UNCHANGED <<tile, facing>>
    /\ answer.kind = "ack" =>
          /\ request.sequence = count
          /\ IF request.direction # facing
               THEN UNCHANGED tile /\ facing' = request.direction
               ELSE UNCHANGED facing /\ tile' = Beside[tile][facing]

LEMMA ServeReplies ==
    ASSUME ~DropsSome, Serve, TypeOK, Head(toShard) # Resync
    PROVE  \E answer : toClient' = Append(toClient, answer) /\ Replies(answer, Head(toShard))
<1> DEFINE request == Head(toShard)
           Reply(kind, at, dir) ==
               [kind |-> kind, sequence |-> request.sequence, at |-> at, direction |-> dir]
<1>1. \/ /\ request.sequence = count
         /\ ShardTurns(request) \/ ShardSteps(request) \/ ShardRefuses(request)
      \/ ShardRefusesTheNumber(request)
  BY DEF Serve, ShardRedraws, ShardLoses
<1> HIDE DEF request
<1>2. CASE request.sequence = count /\ ShardTurns(request)
  <2>1. /\ toClient' = Append(toClient, Reply("ack", tile, request.direction))
        /\ request.direction # facing /\ facing' = request.direction
        /\ count' = NextNumber(request.sequence) /\ tile' = tile
    BY <1>2 DEF ShardTurns, Answered
  <2>2. Replies(Reply("ack", tile, request.direction), request)
    BY <1>2, <2>1 DEF Replies
  <2> QED
    BY <2>1, <2>2 DEF request
<1>3. CASE request.sequence = count /\ ShardSteps(request)
  <2>1. /\ toClient' = Append(toClient, Reply("ack", Ahead, facing))
        /\ request.direction = facing /\ facing' = facing
        /\ count' = NextNumber(request.sequence) /\ tile' = Beside[tile][facing]
        /\ Ahead = tile'
    BY <1>3 DEF ShardSteps, Answered, Ahead
  <2>2. Replies(Reply("ack", Ahead, facing), request)
    BY <1>3, <2>1 DEF Replies
  <2> QED
    BY <2>1, <2>2 DEF request
<1>4. CASE ShardRefuses(request) \/ ShardRefusesTheNumber(request)
  <2>1. /\ toClient' = Append(toClient, Reply("reject", tile, facing))
        /\ facing' = facing /\ count' = 0 /\ tile' = tile
    BY <1>4 DEF ShardRefuses, ShardRefusesTheNumber, Answered, SeqFirst
  <2>2. Replies(Reply("reject", tile, facing), request)
    BY <2>1 DEF Replies
  <2> QED
    BY <2>1, <2>2 DEF request
<1> QED
  BY <1>1, <1>2, <1>3, <1>4

LEMMA ReplyKeepsWire ==
    ASSUME WireInv, NEW answer, NEW request, Replies(answer, request),
           answers \in Nat, answers' = answers + 1,
           \A i \in 1 .. answers : toClient'[i] = toClient[i],
           toClient'[answers + 1] = answer
    PROVE  WireInv'
<1>1. /\ answers \in Nat /\ answers' = answers + 1
      /\ \A i \in 1 .. answers : toClient'[i] = toClient[i]
      /\ toClient'[answers + 1] = answer
  OBVIOUS
<1>2. LastIsShards'
  BY <1>1 DEF LastIsShards, IsAck, Replies
<1>3. RefusalsMoveNobody'
  <2> SUFFICES ASSUME NEW i \in 1 .. answers + 1, NEW j \in 1 .. answers + 1, i < j,
                      \A l \in i + 1 .. j : toClient'[l].kind = "reject"
               PROVE  toClient'[j].at = toClient'[i].at /\ toClient'[j].direction = toClient'[i].direction
    BY <1>1 DEF RefusalsMoveNobody, IsReject
  <2>1. i \in 1 .. answers
    BY <1>1
  <2>2. CASE j \in 1 .. answers
    <3>1. \A l \in i + 1 .. j : toClient[l].kind = "reject"
      BY <1>1, <2>2
    <3> QED
      BY <1>1, <2>1, <2>2, <3>1 DEF WireInv, RefusalsMoveNobody, IsReject
  <2>3. CASE j = answers + 1
    <3>1. answer.kind = "reject"
      BY <1>1, <2>3
    <3>2. answer.at = tile /\ answer.direction = facing
      BY <3>1 DEF Replies
    <3>3. answer.at = toClient[answers].at /\ answer.direction = toClient[answers].direction
      BY <1>1, <2>1, <3>2 DEF WireInv, LastIsShards
    <3>4. CASE i = answers
      BY <1>1, <2>1, <2>3, <3>3, <3>4
    <3>5. CASE i < answers
      <4>1. \A l \in i + 1 .. answers : toClient[l].kind = "reject"
        BY <1>1, <2>3
      <4>2. answers \in 1 .. answers
        BY <1>1, <3>5
      <4>3. toClient[answers].at = toClient[i].at /\ toClient[answers].direction = toClient[i].direction
        BY <2>1, <3>5, <4>1, <4>2 DEF WireInv, RefusalsMoveNobody, IsReject
      <4> QED
        BY <1>1, <2>1, <2>3, <3>3, <4>3
    <3> QED
      BY <1>1, <2>1, <3>4, <3>5
  <2> QED
    BY <1>1, <2>2, <2>3
<1>4. RefusalsBeginAgain'
  <2> SUFFICES ASSUME NEW i \in 1 .. answers + 1, NEW j \in 1 .. answers + 1, i < j,
                      toClient'[i].kind = "reject", toClient'[j].kind = "ack"
               PROVE  \E l \in i + 1 .. j : toClient'[l].kind = "ack" /\ toClient'[l].sequence = 0
    BY <1>1 DEF RefusalsBeginAgain, IsReject, IsAck
  <2>1. i \in 1 .. answers
    BY <1>1
  <2>2. CASE j \in 1 .. answers
    <3>1. PICK l \in i + 1 .. j : toClient[l].kind = "ack" /\ toClient[l].sequence = 0
      BY <1>1, <2>1, <2>2 DEF WireInv, RefusalsBeginAgain, IsReject, IsAck
    <3>2. l \in 1 .. answers
      BY <1>1, <2>1, <2>2
    <3> QED
      BY <1>1, <3>1, <3>2
  <2>3. CASE j = answers + 1
    <3>1. answer.kind = "ack" /\ answer.sequence = count
      BY <1>1, <2>3 DEF Replies
    <3>2. CASE toClient[answers].kind = "ack" /\ i # answers
      <4>1. answers \in 1 .. answers /\ i < answers
        BY <1>1, <2>1, <3>2
      <4>2. toClient[i].kind = "reject"
        BY <1>1, <2>1
      <4>3. PICK l \in i + 1 .. answers : toClient[l].kind = "ack" /\ toClient[l].sequence = 0
        BY <2>1, <3>2, <4>1, <4>2 DEF WireInv, RefusalsBeginAgain, IsReject, IsAck
      <4>4. l \in 1 .. answers /\ l \in i + 1 .. j
        BY <1>1, <2>1, <2>3
      <4> QED
        BY <1>1, <4>3, <4>4
    <3>3. CASE toClient[answers].kind # "ack"
      <4>1. count = 0
        BY <1>1, <2>1, <3>3 DEF WireInv, LastIsShards, IsAck
      <4>2. answers + 1 \in i + 1 .. j
        BY <1>1, <2>1, <2>3
      <4> QED
        BY <1>1, <3>1, <4>1, <4>2
    <3>4. CASE i = answers
      BY <1>1, <2>1, <3>3, <3>4
    <3> QED
      BY <3>2, <3>3, <3>4
  <2> QED
    BY <1>1, <2>2, <2>3
<1>5. MapThenDraw'
  <2> SUFFICES ASSUME NEW i \in 1 .. answers + 1, toClient'[i].kind = "map"
               PROVE  i < answers + 1 /\ toClient'[i + 1].kind = "draw"
    BY <1>1 DEF MapThenDraw
  <2>1. i # answers + 1
    BY <1>1 DEF Replies
  <2>2. i \in 1 .. answers
    BY <1>1, <2>1
  <2>3. i < answers /\ toClient[i + 1].kind = "draw"
    BY <1>1, <2>2 DEF WireInv, MapThenDraw
  <2>4. i + 1 \in 1 .. answers
    BY <1>1, <2>2, <2>3
  <2> QED
    BY <1>1, <2>3, <2>4
<1> QED
  BY <1>2, <1>3, <1>4, <1>5 DEF WireInv

-----------------------------------------------------------------------------
(* What is owed. *)

LEMMA AskingOwes ==
    ASSUME TypeOK, toShard' = Append(toShard, Resync)
    PROVE  RedrawOwed'
<1>1. Len(toShard) + 1 \in 1 .. Len(toShard') /\ toShard'[Len(toShard) + 1] = Resync
  BY AppendFacts DEF TypeOK
<1> QED
  BY <1>1 DEF RedrawOwed

\* With a redraw owed there is nothing to show but the wire.
LEMMA OwedIsEnough == ASSUME WireInv', RedrawOwed' PROVE AInv'
BY DEF AInv, AskedIsOwed, QuietInv

\* What leaves the walk and the wire alone.
LEMMA BesideTheWalk ==
    ASSUME AInv, resync_asked' # "no" => resync_asked # "no",
           UNCHANGED <<sequence, in_flight, location, direction, shard, toShard, toClient, left_map>>
    PROVE  AInv'
<1>1. WireInv'
  BY DEF AInv, WireInv, LastIsShards, RefusalsMoveNobody, RefusalsBeginAgain, MapThenDraw,
         IsAck, IsReject, answers, shard
<1>2. RedrawOwed' = RedrawOwed
  BY DEF RedrawOwed, answers
<1>3. AskedIsOwed'
  BY <1>2 DEF AInv, AskedIsOwed
<1>4. /\ HeldAreLast' = HeldAreLast /\ HeldAreLinked' = HeldAreLinked
      /\ GoesOn' = GoesOn /\ FreshInv' = FreshInv
  BY DEF HeldAreLast, HeldAreLinked, GoesOn, FreshInv, Fresh, StaleAreRefused,
         HeldAreConfirmed, StandsThere, NextUp, numbers, pipe, IsAck, answers, stale, shard
<1>5. QuietInv'
  BY <1>2, <1>4 DEF AInv, QuietInv
<1> QED
  BY <1>1, <1>3, <1>5 DEF AInv

-----------------------------------------------------------------------------
(* A request is sent. *)

LEMMA SendKeepsAInv ==
    ASSUME TypeOK, AInv, NEW dir \in Dir, NEW t \in Tile, NEW turn \in BOOLEAN,
           Send(dir, t, turn),
           IF turn THEN t = SteppingFrom /\ dir # FacingAfter
                   ELSE dir = FacingAfter /\ t = Beside[SteppingFrom][dir],
           UNCHANGED <<resync_asked, location, direction, shard, toClient, left_map>>
    PROVE  AInv'
<1> DEFINE m == Len(in_flight)
           w == Len(toShard)
           n == answers
           new == [sequence |-> sequence, direction |-> dir, arrives_at |-> t, turn |-> turn]
<1>1. m \in Nat /\ w \in Nat /\ n \in Nat
  BY DEF TypeOK, answers
<1>2. /\ Len(in_flight') = m + 1 /\ in_flight'[m + 1] = new
      /\ \A i \in 1 .. m : in_flight'[i] = in_flight[i]
  BY AppendFacts DEF TypeOK, Send
<1>3. /\ Len(toShard') = w + 1
      /\ toShard'[w + 1] = [kind |-> "move", sequence |-> sequence, direction |-> dir]
      /\ \A i \in 1 .. w : toShard'[i] = toShard[i]
  BY AppendFacts DEF TypeOK, Send
<1>4. toClient' = toClient /\ answers' = n /\ stale' = stale /\ stale = n + w - m
  BY <1>1, <1>2, <1>3 DEF answers, stale
<1>5. in_flight' # <<>> /\ (in_flight = <<>>) = (m = 0)
  <2>1. in_flight \in Seq(PendingStep)
    BY DEF TypeOK
  <2>2. (in_flight = <<>>) = (m = 0)
    BY <2>1
  <2> QED
    BY <1>1, <1>2, <2>2
<1>0. pipe = n + w /\ pipe' = n + w + 1
  BY <1>1, <1>3, <1>4 DEF pipe, answers
<1> HIDE DEF m, w, n, new
<1>6. WireInv'
  BY <1>4 DEF AInv, WireInv, LastIsShards, RefusalsMoveNobody, RefusalsBeginAgain, MapThenDraw,
              IsAck, IsReject, answers, shard
<1>7. RedrawOwed' = RedrawOwed
  <2>1. toShard'[w + 1] # Resync
    BY <1>3 DEF Resync
  <2>2. (\E i \in 1 .. w + 1 : toShard'[i] = Resync) <=> (\E i \in 1 .. w : toShard[i] = Resync)
    BY <1>1, <1>3, <2>1
  <2>3. (\E i \in 1 .. Len(toShard') : toShard'[i] = Resync)
          <=> (\E i \in 1 .. Len(toShard) : toShard[i] = Resync)
    BY <1>3, <2>2 DEF w
  <2> QED
    BY <1>4, <2>3 DEF RedrawOwed, n
<1>8. AskedIsOwed'
  BY <1>7 DEF AInv, AskedIsOwed
<1>9. NextUp' = NextUp
  <2>1. CASE m = 0
    BY <1>2, <1>5, <2>1 DEF NextUp, new
  <2>2. CASE m # 0
    BY <1>1, <1>2, <1>5, <2>2 DEF NextUp
  <2> QED
    BY <2>1, <2>2
<1>10. ASSUME ~RedrawOwed
       PROVE  HeldAreLast' /\ HeldAreLinked' /\ GoesOn' /\ FreshInv'
  <2>1. HeldAreLast /\ HeldAreLinked /\ GoesOn /\ FreshInv
    BY <1>10 DEF AInv, QuietInv
  <2>2. stale \in Nat
    BY <1>1, <1>4, <2>1 DEF HeldAreLast
  <2>3. \A i \in 1 .. n + w : numbers'[i] = numbers[i]
    <3>1. ASSUME NEW i \in 1 .. n + w PROVE numbers'[i] = numbers[i]
      <4>1. CASE i <= n
        BY <1>0, <1>1, <1>4, <4>1 DEF numbers, n
      <4>2. CASE ~(i <= n)
        <5>1. i - n \in 1 .. w
          BY <1>1, <4>2
        <5> QED
          BY <1>0, <1>1, <1>3, <1>4, <4>2, <5>1 DEF numbers, n
      <4> QED
        BY <4>1, <4>2
    <3> QED
      BY <3>1
  <2>4. numbers'[n + w + 1] = sequence
    <3>1. ~(n + w + 1 <= n) /\ n + w + 1 - n = w + 1 /\ n + w + 1 \in 1 .. pipe'
      BY <1>0, <1>1
    <3>2. numbers'[n + w + 1] = toShard'[n + w + 1 - n].sequence
      BY <1>1, <1>4, <3>1 DEF numbers
    <3>3. toShard'[n + w + 1 - n] = toShard'[w + 1]
      BY <3>1
    <3> QED
      BY <1>3, <3>2, <3>3
  <2>5. HeldAreLast'
    <3> SUFFICES ASSUME NEW i \in 1 .. m + 1
                 PROVE  /\ in_flight'[i].sequence = numbers'[stale + i]
                        /\ stale + i > n => in_flight'[i].direction = toShard'[stale + i - n].direction
      BY <1>2, <1>4, <2>2 DEF HeldAreLast
    <3>1. CASE i \in 1 .. m
      <4>1. stale + i \in 1 .. n + w
        BY <1>1, <1>4, <2>2, <3>1
      <4>2. stale + i > n => stale + i - n \in 1 .. w
        BY <1>1, <1>4, <2>2, <4>1
      <4> QED
        BY <1>2, <1>3, <2>1, <2>3, <3>1, <4>1, <4>2 DEF HeldAreLast, m, n
    <3>2. CASE i = m + 1
      <4>1. stale + i = n + w + 1 /\ stale + i - n = w + 1
        BY <1>1, <1>4, <3>2
      <4> QED
        BY <1>2, <1>3, <2>4, <3>2, <4>1 DEF new
    <3> QED
      BY <1>1, <3>1, <3>2
  <2>6. HeldAreLinked'
    <3> SUFFICES ASSUME NEW i \in 1 .. m
                 PROVE  Follows(in_flight'[i + 1], in_flight'[i].arrives_at, in_flight'[i].direction)
      BY <1>1, <1>2 DEF HeldAreLinked, Follows
    <3>1. CASE i \in 1 .. m - 1
      <4>1. i + 1 \in 1 .. m
        BY <1>1, <3>1
      <4> QED
        BY <1>2, <2>1, <3>1, <4>1 DEF HeldAreLinked, m
    <3>2. CASE i = m
      <4>1. SteppingFrom = in_flight[m].arrives_at /\ FacingAfter = in_flight[m].direction
        BY <1>1, <1>5, <3>2 DEF SteppingFrom, FacingAfter, m
      <4> QED
        BY <1>2, <3>2, <4>1 DEF Follows, new
    <3> QED
      BY <1>1, <3>1, <3>2
  <2>7. GoesOn'
    <3>1. stale > 0 => stale \in 1 .. n + w
      BY <1>1, <1>4, <2>2
    <3>2. stale > 0 => numbers'[stale] = numbers[stale]
      BY <2>3, <3>1
    <3>3. stale > 0 => NextUp \in {0, NextNumber(numbers[stale])}
      BY <2>1 DEF GoesOn
    <3> QED
      BY <1>4, <1>9, <3>2, <3>3 DEF GoesOn, NextNumber
  <2>8. FreshInv'
    <3>1. Fresh' = Fresh /\ StaleAreRefused' = StaleAreRefused
      BY <1>4, <1>9 DEF Fresh, StaleAreRefused, IsAck, n
    <3>2. HeldAreConfirmed => HeldAreConfirmed'
      <4> SUFFICES ASSUME HeldAreConfirmed, NEW i \in 1 .. n, i > stale, toClient[i].kind = "ack"
                   PROVE  /\ toClient[i].at = in_flight'[i - stale].arrives_at
                          /\ toClient[i].direction = in_flight'[i - stale].direction
        BY <1>4 DEF HeldAreConfirmed, IsAck
      <4>1. i - stale \in 1 .. m
        BY <1>1, <1>4, <2>2
      <4> QED
        BY <1>2, <4>1 DEF HeldAreConfirmed, IsAck, n
    <3>3. StandsThere => StandsThere'
      <4> SUFFICES ASSUME StandsThere, n <= stale
                   PROVE  /\ tile = location /\ facing = direction /\ count \in {0, NextUp}
                          /\ count = NextUp => Follows(in_flight'[1], location, direction)
        BY <1>4, <1>9 DEF StandsThere, Follows, shard
      <4>1. CASE m = 0
        <5>1. SteppingFrom = location /\ FacingAfter = direction /\ in_flight'[1] = new
          BY <1>2, <1>5, <4>1 DEF SteppingFrom, FacingAfter
        <5> QED
          BY <5>1 DEF StandsThere, Follows, new, n
      <4>2. CASE m # 0
        <5>1. in_flight'[1] = in_flight[1] /\ in_flight # <<>>
          BY <1>1, <1>2, <1>5, <4>2
        <5> QED
          BY <5>1 DEF StandsThere, n
      <4> QED
        BY <4>1, <4>2
    <3> QED
      BY <2>1, <3>1, <3>2, <3>3 DEF FreshInv
  <2> QED
    BY <2>5, <2>6, <2>7, <2>8
<1>11. QuietInv'
  BY <1>7, <1>10 DEF QuietInv
<1> QED
  BY <1>6, <1>8, <1>11 DEF AInv

-----------------------------------------------------------------------------
(* The shard answers a request. *)

LEMMA NumbersNotZero ==
    /\ \A k \in Number : NextNumber(k) \in Number /\ NextNumber(k) # 0
    /\ 0 \in Number
BY NumbersType DEF Number, NextNumber, SeqAfterWrap

\* Of the requests in flight only the first may begin a run.
LEMMA OnlyTheFirstBegins ==
    ASSUME TypeOK, Consecutive, ~left_map
    PROVE  /\ \A i \in 1 .. Len(in_flight) - 1 :
                in_flight[i + 1].sequence = NextNumber(in_flight[i].sequence)
           /\ \A i \in 2 .. Len(in_flight) : in_flight[i].sequence # 0
           /\ in_flight # <<>> => sequence = NextNumber(in_flight[Len(in_flight)].sequence)
           /\ \A i \in 1 .. Len(in_flight) : in_flight[i].sequence \in Number
<1> DEFINE m == Len(in_flight)
<1>1. m \in Nat /\ \A i \in 1 .. m : in_flight[i] \in PendingStep
  BY ElementOfSeq DEF TypeOK
<1>2. (in_flight = <<>>) = (m = 0)
  BY DEF TypeOK
<1> HIDE DEF m
<1>3. \A i \in 1 .. m : in_flight[i].sequence \in Number
  BY <1>1 DEF PendingStep
<1>4. \A i \in 1 .. m : Forward(in_flight[i].sequence, 1) = NextNumber(in_flight[i].sequence)
  <2>1. 0 \in 0 .. SeqMod - 2
    BY NumbersType
  <2> QED
    BY <1>3, <2>1, ForwardNext
<1>5. ASSUME NEW i \in 1 .. m - 1
      PROVE  in_flight[i + 1].sequence = NextNumber(in_flight[i].sequence)
  <2>1. i \in 1 .. m /\ i + 1 \in i + 1 .. m /\ (i + 1) - i = 1
    BY <1>1
  <2>2. in_flight[i + 1].sequence = Forward(in_flight[i].sequence, (i + 1) - i)
    BY <2>1 DEF Consecutive, m
  <2> QED
    BY <1>4, <2>1, <2>2
<1>6. ASSUME NEW i \in 2 .. m PROVE in_flight[i].sequence # 0
  <2>1. i - 1 \in 1 .. m - 1 /\ i - 1 \in 1 .. m /\ (i - 1) + 1 = i
    BY <1>1
  <2>2. in_flight[i].sequence = NextNumber(in_flight[i - 1].sequence)
    BY <1>5, <2>1
  <2> QED
    BY <1>3, <2>1, <2>2, NumbersNotZero
<1>7. ASSUME m # 0 PROVE sequence = NextNumber(in_flight[m].sequence)
  <2>1. m \in 1 .. m /\ m + 1 - m = 1
    BY <1>1, <1>7
  <2>2. sequence = Forward(in_flight[m].sequence, m + 1 - m)
    BY <2>1 DEF Consecutive, m
  <2> QED
    BY <1>4, <2>1, <2>2
<1> QED
  BY <1>2, <1>3, <1>5, <1>6, <1>7 DEF m

LEMMA ReplyKeepsAInv ==
    ASSUME TypeOK, Consecutive, AInv, NEW answer, toShard[1] # Resync,
           Replies(answer, toShard[1]), UNCHANGED <<client, left_map>>,
           answers \in Nat, answers' = answers + 1, toClient'[answers + 1] = answer,
           \A i \in 1 .. answers : toClient'[i] = toClient[i],
           Len(toShard) \in Nat \ {0}, Len(toShard') = Len(toShard) - 1,
           \A i \in 1 .. Len(toShard) - 1 : toShard'[i] = toShard[i + 1]
    PROVE  AInv'
<1> DEFINE m == Len(in_flight)
           w == Len(toShard)
           n == answers
           request == toShard[1]
<1>1. m \in Nat /\ w \in Nat \ {0} /\ n \in Nat
  BY DEF TypeOK
<1>2. toClient'[n + 1] = answer /\ \A i \in 1 .. n : toClient'[i] = toClient[i]
  OBVIOUS
<1>3. Len(toShard') = w - 1 /\ \A i \in 1 .. w - 1 : toShard'[i] = toShard[i + 1]
  OBVIOUS
<1>4. answers' = n + 1 /\ stale' = stale /\ stale = n + w - m /\ pipe = n + w /\ pipe' = n + w
  <2>1. n = Len(toClient) /\ Len(toClient') = n + 1 /\ Len(in_flight') = m
    BY DEF answers, client
  <2> QED
    BY <1>1, <1>3, <2>1 DEF stale, pipe
<1>5. UNCHANGED <<sequence, in_flight, resync_asked, location, direction, left_map>> /\ NextUp' = NextUp
  BY DEF client, NextUp
<1> HIDE DEF m, w, n, request
<1>6. WireInv'
  BY <1>1, <1>2, <1>4, ReplyKeepsWire DEF AInv, n
<1>7. RedrawOwed' = RedrawOwed
  <2>1. (\E i \in 1 .. w - 1 : toShard'[i] = Resync) <=> (\E i \in 1 .. w : toShard[i] = Resync)
    <3>1. ASSUME NEW i \in 1 .. w, toShard[i] = Resync PROVE \E j \in 1 .. w - 1 : toShard'[j] = Resync
      <4>1. i # 1
        BY <3>1
      <4>2. i - 1 \in 1 .. w - 1 /\ (i - 1) + 1 = i
        BY <1>1, <4>1
      <4> QED
        BY <1>3, <3>1, <4>2
    <3>2. ASSUME NEW i \in 1 .. w - 1, toShard'[i] = Resync PROVE \E j \in 1 .. w : toShard[j] = Resync
      <4>1. i + 1 \in 1 .. w
        BY <1>1
      <4> QED
        BY <1>3, <3>2, <4>1
    <3> QED
      BY <3>1, <3>2
  <2>2. answer.kind # "draw"
    BY DEF Replies
  <2>3. (\E i \in 1 .. n + 1 : toClient'[i].kind = "draw") <=> (\E i \in 1 .. n : toClient[i].kind = "draw")
    BY <1>1, <1>2, <2>2
  <2>4. RedrawOwed' <=> \/ \E i \in 1 .. w - 1 : toShard'[i] = Resync
                        \/ \E i \in 1 .. n + 1 : toClient'[i].kind = "draw"
    BY <1>3, <1>4 DEF RedrawOwed
  <2> QED
    BY <2>1, <2>3, <2>4 DEF RedrawOwed, w, n
<1>8. AskedIsOwed'
  BY <1>5, <1>7 DEF AInv, AskedIsOwed
<1>9. ASSUME ~RedrawOwed
      PROVE  HeldAreLast' /\ HeldAreLinked' /\ GoesOn' /\ FreshInv'
  <2>1. HeldAreLast /\ HeldAreLinked /\ GoesOn /\ FreshInv /\ ~left_map
    BY <1>9 DEF AInv, QuietInv, AskedIsOwed
  <2>2. stale \in Nat
    BY <1>1, <1>4, <2>1 DEF HeldAreLast
  <2>3. \A i \in 1 .. n + w : numbers'[i] = numbers[i]
    <3>1. ASSUME NEW i \in 1 .. n + w PROVE numbers'[i] = numbers[i]
      <4>1. CASE i <= n
        BY <1>1, <1>2, <1>4, <4>1 DEF numbers, n
      <4>2. CASE i = n + 1
        <5>1. numbers'[i] = answer.sequence
          BY <1>1, <1>2, <1>4, <4>2 DEF numbers
        <5>2. numbers[i] = toShard[i - n].sequence /\ i - n = 1
          BY <1>1, <1>4, <4>2 DEF numbers, n
        <5> QED
          BY <5>1, <5>2 DEF Replies
      <4>3. CASE i > n + 1
        <5>1. numbers'[i] = toShard'[i - (n + 1)].sequence
          BY <1>1, <1>4, <4>3 DEF numbers
        <5>2. numbers[i] = toShard[i - n].sequence
          BY <1>1, <1>4, <4>3 DEF numbers, n
        <5>3. i - (n + 1) \in 1 .. w - 1 /\ (i - (n + 1)) + 1 = i - n
          BY <1>1, <4>3
        <5> QED
          BY <1>3, <5>1, <5>2, <5>3
      <4> QED
        BY <1>1, <4>1, <4>2, <4>3
    <3> QED
      BY <3>1
  <2>4. HeldAreLast'
    <3> SUFFICES ASSUME NEW i \in 1 .. m
                 PROVE  /\ in_flight[i].sequence = numbers'[stale + i]
                        /\ stale + i > n + 1
                             => in_flight[i].direction = toShard'[stale + i - (n + 1)].direction
      BY <1>4, <1>5, <2>2 DEF HeldAreLast, m
    <3>1. stale + i \in 1 .. n + w
      BY <1>1, <1>4, <2>2
    <3>2. in_flight[i].sequence = numbers'[stale + i]
      BY <2>1, <2>3, <3>1 DEF HeldAreLast, m
    <3>3. ASSUME stale + i > n + 1
          PROVE  in_flight[i].direction = toShard'[stale + i - (n + 1)].direction
      <4>1. /\ stale + i - (n + 1) \in 1 .. w - 1
            /\ (stale + i - (n + 1)) + 1 = stale + i - n
            /\ stale + i > n
        BY <1>1, <2>2, <3>1, <3>3
      <4>2. in_flight[i].direction = toShard[stale + i - n].direction
        BY <2>1, <4>1 DEF HeldAreLast, m, n
      <4> QED
        BY <1>3, <4>1, <4>2
    <3> QED
      BY <3>2, <3>3
  <2>5. HeldAreLinked'
    BY <1>5, <2>1 DEF HeldAreLinked
  <2>6. GoesOn'
    <3>1. stale > 0 => numbers'[stale] = numbers[stale]
      BY <1>1, <1>4, <2>2, <2>3
    <3> QED
      BY <1>4, <1>5, <2>1, <3>1 DEF GoesOn, NextNumber
  <2>7. ASSUME Fresh'
        PROVE  StaleAreRefused' /\ HeldAreConfirmed' /\ StandsThere'
    <3>1. /\ Fresh
          /\ n + 1 <= stale => NextUp = 0 /\ answer.kind = "reject"
      <4>1. \/ stale = 0
            \/ NextUp = 0 /\ \A i \in 1 .. n + 1 : i <= stale => toClient'[i].kind # "ack"
        BY <1>4, <1>5, <2>7 DEF Fresh, IsAck
      <4>2. stale # 0 => \A i \in 1 .. n : i <= stale => toClient[i].kind # "ack"
        BY <1>1, <1>2, <4>1
      <4>3. Fresh
        BY <4>1, <4>2 DEF Fresh, IsAck, n
      <4>4. ASSUME n + 1 <= stale PROVE NextUp = 0 /\ answer.kind # "ack"
        BY <1>1, <1>2, <4>1, <4>4
      <4> QED
        BY <4>3, <4>4 DEF Replies
    <3>2. StaleAreRefused /\ HeldAreConfirmed /\ StandsThere
      BY <2>1, <3>1 DEF FreshInv
    <3>3. ASSUME n + 1 <= stale
          PROVE  /\ tile' = location /\ facing' = direction
                 /\ answer.at = location /\ answer.direction = direction
                 /\ count' = 0 /\ count = 0 /\ NextUp = 0
      <4>1. n <= stale
        BY <1>1, <2>2, <3>3
      <4>2. tile = location /\ facing = direction /\ count \in {0, NextUp}
        BY <3>2, <4>1 DEF StandsThere, n
      <4> QED
        BY <3>1, <3>3, <4>2 DEF Replies
    <3>4. StaleAreRefused'
      <4> SUFFICES ASSUME NEW i \in 1 .. n + 1, i <= stale
                   PROVE  toClient'[i].at = location /\ toClient'[i].direction = direction
        BY <1>4, <1>5 DEF StaleAreRefused
      <4>1. CASE i \in 1 .. n
        BY <1>2, <3>2, <4>1 DEF StaleAreRefused, n
      <4>2. CASE i = n + 1
        BY <1>2, <3>3, <4>2
      <4> QED
        BY <1>1, <4>1, <4>2
    <3>5. HeldAreConfirmed'
      <4> SUFFICES ASSUME NEW i \in 1 .. n + 1, i > stale, toClient'[i].kind = "ack"
                   PROVE  /\ toClient'[i].at = in_flight[i - stale].arrives_at
                          /\ toClient'[i].direction = in_flight[i - stale].direction
        BY <1>4, <1>5 DEF HeldAreConfirmed, IsAck
      <4>1. CASE i \in 1 .. n
        BY <1>2, <3>2, <4>1 DEF HeldAreConfirmed, IsAck, n
      <4>2. CASE i = n + 1
        <5> DEFINE j == n + 1 - stale
        <5>2. j \in 1 .. m /\ stale + j = n + 1 /\ stale + j > n
          BY <1>1, <1>4, <2>2, <4>2
        <5>1. i - stale = j
          BY <1>1, <2>2, <4>2
        <5> HIDE DEF j
        <5>3. in_flight[j].sequence = numbers[n + 1] /\ in_flight[j].direction = toShard[n + 1 - n].direction
          <6>1. /\ in_flight[j].sequence = numbers[stale + j]
                /\ in_flight[j].direction = toShard[stale + j - n].direction
            BY <2>1, <5>2 DEF HeldAreLast, m, n
          <6> QED
            BY <1>1, <2>2, <5>2, <6>1
        <5>4. numbers[n + 1] = toShard[n + 1 - n].sequence /\ n + 1 - n = 1
          BY <1>1, <1>4 DEF numbers, n
        <5>5. in_flight[j].sequence = request.sequence /\ in_flight[j].direction = request.direction
          BY <5>3, <5>4 DEF request
        <5>6. /\ answer.at = tile' /\ answer.direction = facing'
              /\ request.sequence = count
              /\ IF request.direction # facing
                   THEN UNCHANGED tile /\ facing' = request.direction
                   ELSE UNCHANGED facing /\ tile' = Beside[tile][facing]
          BY <1>2, <4>2 DEF Replies, request
        <5>7. Follows(in_flight[j], tile, facing)
          <6>1. CASE n <= stale
            <7>1. j = 1 /\ in_flight # <<>>
              BY <1>1, <2>2, <4>2, <5>2, <6>1 DEF m, j
            <7>2. NextUp = in_flight[1].sequence
              BY <7>1 DEF NextUp
            <7>3. tile = location /\ facing = direction /\ (count = NextUp => Follows(in_flight[1], location, direction))
              BY <3>2, <6>1, <7>1 DEF StandsThere, n
            <7> QED
              BY <5>5, <5>6, <7>1, <7>2, <7>3
          <6>2. CASE n > stale
            <7>1. /\ n \in 1 .. n /\ n - stale \in 1 .. m - 1 /\ (n - stale) + 1 = j /\ j \in 2 .. m
              BY <1>1, <2>2, <5>2, <6>2
            <7>2. in_flight[j].sequence # 0
              BY <2>1, <7>1, OnlyTheFirstBegins DEF m
            <7>3. toClient[n].kind = "ack"
              BY <1>1, <5>5, <5>6, <6>2, <7>1, <7>2 DEF AInv, WireInv, LastIsShards, IsAck, n
            <7>4. /\ toClient[n].at = in_flight[n - stale].arrives_at
                  /\ toClient[n].direction = in_flight[n - stale].direction
              BY <3>2, <6>2, <7>1, <7>3 DEF HeldAreConfirmed, IsAck, n
            <7>5. toClient[n].at = tile /\ toClient[n].direction = facing
              BY <1>1, <7>1 DEF AInv, WireInv, LastIsShards, n
            <7>6. Follows(in_flight[j], in_flight[n - stale].arrives_at, in_flight[n - stale].direction)
              BY <2>1, <7>1 DEF HeldAreLinked, m
            <7> QED
              BY <7>4, <7>5, <7>6
          <6> QED
            BY <1>1, <2>2, <6>1, <6>2
        <5>8. tile' = in_flight[j].arrives_at /\ facing' = in_flight[j].direction
          BY <5>5, <5>6, <5>7 DEF Follows
        <5> QED
          BY <1>2, <4>2, <5>1, <5>6, <5>8
      <4> QED
        BY <1>1, <4>1, <4>2
    <3>6. StandsThere'
      <4> SUFFICES ASSUME n + 1 <= stale
                   PROVE  /\ tile' = location /\ facing' = direction /\ count' \in {0, NextUp}
                          /\ count' = NextUp /\ in_flight # <<>>
                               => Follows(in_flight[1], location, direction)
        BY <1>4, <1>5 DEF StandsThere
      <4>1. n <= stale
        BY <1>1, <2>2
      <4> QED
        BY <3>2, <3>3, <4>1 DEF StandsThere, n
    <3> QED
      BY <3>4, <3>5, <3>6
  <2>8. FreshInv'
    BY <2>7 DEF FreshInv
  <2> QED
    BY <2>4, <2>5, <2>6, <2>8
<1>10. QuietInv'
  BY <1>7, <1>9 DEF QuietInv
<1> QED
  BY <1>6, <1>8, <1>10 DEF AInv

-----------------------------------------------------------------------------
(* The session takes an answer. *)

Quiet == HeldAreLast /\ HeldAreLinked /\ GoesOn /\ FreshInv

\* The first answer is taken off the wire.
HeadTaken ==
    /\ answers \in Nat \ {0} /\ answers' = answers - 1
    /\ \A i \in 1 .. answers - 1 : toClient'[i] = toClient[i + 1]
    /\ UNCHANGED shard

LEMMA HeadTakenLengths ==
    ASSUME TypeOK, HeadTaken, UNCHANGED toShard
    PROVE  /\ Len(toShard) \in Nat /\ Len(in_flight) \in Nat
           /\ pipe = answers + Len(toShard) /\ pipe' = answers + Len(toShard) - 1
           /\ stale = answers + Len(toShard) - Len(in_flight)
           /\ stale' = answers + Len(toShard) - 1 - Len(in_flight')
<1>1. Len(toShard) \in Nat /\ Len(in_flight) \in Nat
  BY DEF TypeOK
<1> QED
  BY <1>1 DEF HeadTaken, answers, pipe, stale

LEMMA NumbersMoveUp ==
    ASSUME TypeOK, HeadTaken, UNCHANGED toShard, NEW i \in 1 .. answers + Len(toShard) - 1
    PROVE  numbers'[i] = numbers[i + 1]
<1> DEFINE n == answers
           w == Len(toShard)
<1>1. n \in Nat \ {0} /\ w \in Nat /\ pipe = n + w /\ pipe' = n + w - 1 /\ answers' = n - 1
  BY HeadTakenLengths DEF HeadTaken
<1>2. i + 1 \in 1 .. pipe /\ i \in 1 .. pipe'
  BY <1>1
<1>3. CASE i + 1 <= n
  <2>1. i \in 1 .. n - 1 /\ i <= n - 1
    BY <1>1, <1>3
  <2>2. numbers'[i] = toClient'[i].sequence /\ numbers[i + 1] = toClient[i + 1].sequence
    BY <1>1, <1>2, <1>3, <2>1 DEF numbers
  <2> QED
    BY <2>1, <2>2 DEF HeadTaken
<1>4. CASE ~(i + 1 <= n)
  <2>1. ~(i <= n - 1) /\ i - (n - 1) = i + 1 - n
    BY <1>1, <1>4
  <2>2. numbers'[i] = toShard[i - (n - 1)].sequence /\ numbers[i + 1] = toShard[i + 1 - n].sequence
    BY <1>1, <1>2, <1>4, <2>1 DEF numbers
  <2> QED
    BY <2>1, <2>2
<1> QED
  BY <1>3, <1>4

\* A redraw, or a refusal of a request in flight: everything begins anew.
LEMMA BeginsAnew ==
    ASSUME TypeOK, WireInv, HeadTaken, WireInv', ~RedrawOwed', TypeOK',
           in_flight' = <<>>, sequence' = 0, UNCHANGED toShard,
           toClient[1].kind # "ack",
           location' = toClient[1].at, direction' = toClient[1].direction
    PROVE  Quiet'
<1> DEFINE w == Len(toShard)
           n == answers
<1>1. Len(in_flight') = 0 /\ NextUp' = 0
  BY DEF NextUp
<1>2. /\ n \in Nat \ {0} /\ w \in Nat /\ answers' = n - 1 /\ stale' = n + w - 1
      /\ \A i \in 1 .. n - 1 : toClient'[i] = toClient[i + 1]
  BY <1>1, HeadTakenLengths DEF HeadTaken
<1> HIDE DEF w, n
<1>3. HeldAreLast'
  BY <1>1, <1>2 DEF HeldAreLast
<1>4. HeldAreLinked'
  BY <1>1 DEF HeldAreLinked
<1>5. GoesOn'
  BY <1>1 DEF GoesOn
<1>6. ASSUME Fresh'
      PROVE  StaleAreRefused' /\ HeldAreConfirmed' /\ StandsThere'
  <2>1. \A i \in 1 .. n - 1 : i <= stale' /\ ~(i > stale')
    BY <1>2
  <2>2. \A i \in 1 .. n - 1 : toClient'[i].kind = "reject"
    <3>1. ASSUME NEW i \in 1 .. n - 1 PROVE toClient'[i].kind \in {"ack", "reject"}
      <4>1. i + 1 \in 1 .. n /\ toClient'[i] = toClient[i + 1]
        BY <1>2
      <4>2. toClient[i + 1] \in Answer
        BY <4>1, ElementOfSeq DEF TypeOK, answers, n
      <4>3. \A j \in 1 .. n - 1 : toClient'[j].kind # "draw"
        BY <1>2 DEF RedrawOwed
      <4>4. ASSUME toClient[i + 1].kind = "map" PROVE FALSE
        <5>1. i + 1 < n /\ toClient[(i + 1) + 1].kind = "draw"
          BY <4>1, <4>4 DEF WireInv, MapThenDraw, n
        <5>2. i + 1 \in 1 .. n - 1
          BY <1>2, <5>1
        <5> QED
          BY <1>2, <4>3, <5>1, <5>2
      <4> QED
        BY <4>1, <4>2, <4>3, <4>4 DEF Answer
    <3>2. CASE stale' = 0
      BY <1>2, <3>2
    <3>3. CASE \A i \in 1 .. answers' : i <= stale' => toClient'[i].kind # "ack"
      BY <1>2, <2>1, <3>1, <3>3
    <3> QED
      BY <1>6, <3>2, <3>3 DEF Fresh, IsAck
  <2>3. \A i \in 2 .. n : toClient[i].kind = "reject"
    <3>1. ASSUME NEW i \in 2 .. n PROVE toClient[i].kind = "reject"
      <4>1. i - 1 \in 1 .. n - 1 /\ (i - 1) + 1 = i
        BY <1>2
      <4> QED
        BY <1>2, <2>2, <4>1
    <3> QED
      BY <3>1
  <2>4. \A i \in 2 .. n : toClient[i].at = location' /\ toClient[i].direction = direction'
    <3>1. ASSUME NEW i \in 2 .. n
          PROVE  toClient[i].at = toClient[1].at /\ toClient[i].direction = toClient[1].direction
      <4>1. 1 \in 1 .. n /\ i \in 1 .. n /\ 1 < i /\ \A l \in 1 + 1 .. i : toClient[l].kind = "reject"
        BY <1>2, <2>3
      <4> QED
        BY <4>1 DEF WireInv, RefusalsMoveNobody, IsReject, n
    <3> QED
      BY <3>1
  <2>5. StaleAreRefused'
    <3> SUFFICES ASSUME NEW i \in 1 .. n - 1
                 PROVE  toClient'[i].at = location' /\ toClient'[i].direction = direction'
      BY <1>2 DEF StaleAreRefused
    <3>1. i + 1 \in 2 .. n
      BY <1>2
    <3> QED
      BY <1>2, <2>4, <3>1
  <2>6. HeldAreConfirmed'
    BY <1>2, <2>1 DEF HeldAreConfirmed
  <2>7. StandsThere'
    <3>1. n \in 1 .. n /\ n > 0 /\ toClient[n].kind # "ack"
      BY <1>2, <2>3
    <3>2. tile = toClient[n].at /\ facing = toClient[n].direction /\ count = 0
      BY <3>1 DEF WireInv, LastIsShards, IsAck, n
    <3>3. toClient[n].at = location' /\ toClient[n].direction = direction'
      BY <1>2, <2>4, <3>1
    <3> QED
      BY <1>1, <3>2, <3>3 DEF StandsThere, HeadTaken, shard
  <2> QED
    BY <2>5, <2>6, <2>7
<1> QED
  BY <1>3, <1>4, <1>5, <1>6 DEF Quiet, FreshInv

\* The refusal of a stale request.
LEMMA EchoKeepsQuiet ==
    ASSUME TypeOK, Consecutive, ~left_map, WireInv, Quiet, HeadTaken,
           UNCHANGED <<in_flight, sequence, toShard>>,
           toClient[1].kind = "reject",
           \A i \in 1 .. Len(in_flight) : in_flight[i].sequence # toClient[1].sequence,
           location' = toClient[1].at, direction' = toClient[1].direction
    PROVE  Quiet'
<1> DEFINE w == Len(toShard)
           n == answers
           m == Len(in_flight)
<1>1. /\ n \in Nat \ {0} /\ w \in Nat /\ m \in Nat
      /\ answers' = n - 1 /\ pipe = n + w /\ stale = n + w - m /\ stale' = n + w - 1 - m
      /\ \A i \in 1 .. n - 1 : toClient'[i] = toClient[i + 1]
      /\ NextUp' = NextUp
  BY HeadTakenLengths DEF HeadTaken, NextUp
<1>2. \A i \in 1 .. n + w - 1 : numbers'[i] = numbers[i + 1]
  BY NumbersMoveUp
<1> HIDE DEF w, n, m
<1>3. HeldAreLast /\ HeldAreLinked /\ GoesOn /\ FreshInv /\ stale \in Nat
  BY <1>1 DEF Quiet, HeldAreLast
<1>4. stale >= 1
  <2>1. ASSUME stale = 0 PROVE FALSE
    <3>1. 1 \in 1 .. m /\ 1 \in 1 .. pipe /\ 1 <= n
      BY <1>1, <2>1
    <3>2. in_flight[1].sequence = numbers[stale + 1] /\ stale + 1 = 1
      BY <1>3, <2>1, <3>1 DEF HeldAreLast, m
    <3>3. numbers[1] = toClient[1].sequence
      BY <3>1 DEF numbers, n
    <3> QED
      BY <3>1, <3>2, <3>3 DEF m
  <2> QED
    BY <1>3, <2>1
<1>5. stale' = stale - 1 /\ stale' \in Nat
  BY <1>1, <1>4
<1>6. HeldAreLast'
  <2> SUFFICES ASSUME NEW i \in 1 .. m
               PROVE  /\ in_flight[i].sequence = numbers'[stale - 1 + i]
                      /\ stale - 1 + i > n - 1
                           => in_flight[i].direction = toShard[stale - 1 + i - (n - 1)].direction
    BY <1>1, <1>5 DEF HeldAreLast, m
  <2>1. stale - 1 + i \in 1 .. n + w - 1 /\ (stale - 1 + i) + 1 = stale + i
    BY <1>1, <1>4
  <2>2. in_flight[i].sequence = numbers'[stale - 1 + i]
    BY <1>2, <1>3, <2>1 DEF HeldAreLast, m
  <2>3. stale - 1 + i > n - 1 => stale + i > n /\ stale - 1 + i - (n - 1) = stale + i - n
    BY <1>1, <1>3
  <2>4. stale + i > n => in_flight[i].direction = toShard[stale + i - n].direction
    BY <1>3 DEF HeldAreLast, m, n
  <2> QED
    BY <2>2, <2>3, <2>4
<1>7. HeldAreLinked'
  BY <1>3 DEF HeldAreLinked
<1>8. GoesOn'
  <2> SUFFICES ASSUME stale - 1 > 0 PROVE NextUp \in {0, NextNumber(numbers'[stale - 1])}
    BY <1>1, <1>5 DEF GoesOn, NextNumber
  <2>1. stale - 1 \in 1 .. n + w - 1 /\ (stale - 1) + 1 = stale
    BY <1>1, <1>3
  <2>2. numbers'[stale - 1] = numbers[stale]
    BY <1>2, <2>1
  <2> QED
    BY <1>3, <1>4, <2>2 DEF GoesOn
<1>9. CASE stale = 1
  <2>1. CASE NextUp = 0
    <3>1. StaleAreRefused /\ HeldAreConfirmed /\ StandsThere
      <4>1. \A i \in 1 .. answers : i <= stale => toClient[i].kind # "ack"
        BY <1>1, <1>9 DEF n
      <4> QED
        BY <1>3, <2>1, <4>1 DEF FreshInv, Fresh, IsAck
    <3>2. location' = location /\ direction' = direction
      BY <1>1, <1>9, <3>1 DEF StaleAreRefused, n
    <3>3. StaleAreRefused'
      BY <1>1, <1>5, <1>9 DEF StaleAreRefused
    <3>4. HeldAreConfirmed'
      <4> SUFFICES ASSUME NEW i \in 1 .. n - 1, toClient'[i].kind = "ack"
                   PROVE  /\ toClient'[i].at = in_flight[i - 0].arrives_at
                          /\ toClient'[i].direction = in_flight[i - 0].direction
        BY <1>1, <1>5, <1>9 DEF HeldAreConfirmed, IsAck
      <4>1. i + 1 \in 1 .. n /\ i + 1 > stale /\ i + 1 - stale = i /\ i - 0 = i
        BY <1>1, <1>9
      <4> QED
        BY <1>1, <3>1, <4>1 DEF HeldAreConfirmed, IsAck, n
    <3>5. StandsThere'
      <4> SUFFICES ASSUME n - 1 <= 0
                   PROVE  /\ tile = location /\ facing = direction /\ count \in {0, NextUp}
                          /\ count = NextUp /\ in_flight # <<>> => Follows(in_flight[1], location, direction)
        BY <1>1, <1>5, <1>9, <3>2 DEF StandsThere, HeadTaken, shard
      <4>1. n <= stale
        BY <1>1, <1>9
      <4> QED
        BY <3>1, <4>1 DEF StandsThere, n
    <3> QED
      BY <1>6, <1>7, <1>8, <3>3, <3>4, <3>5 DEF Quiet, FreshInv
  <2>2. CASE NextUp # 0
    <3>1. StaleAreRefused'
      BY <1>1, <1>5, <1>9 DEF StaleAreRefused
    <3>2. HeldAreConfirmed'
      <4> SUFFICES ASSUME NEW i \in 1 .. n - 1, toClient'[i].kind = "ack" PROVE FALSE
        BY <1>1, <1>5, <1>9 DEF HeldAreConfirmed, IsAck
      <4>1. 1 \in 1 .. n /\ i + 1 \in 1 .. n /\ 1 < i + 1 /\ toClient[i + 1].kind = "ack"
        BY <1>1
      <4>2. PICK l \in 1 + 1 .. i + 1 : toClient[l].sequence = 0
        BY <4>1 DEF WireInv, RefusalsBeginAgain, IsReject, IsAck, n
      <4>3. l \in 2 .. n /\ l \in 1 .. pipe /\ l - 1 \in 1 .. m /\ stale + (l - 1) = l /\ l <= n
        BY <1>1, <1>9
      <4>4. in_flight[l - 1].sequence = numbers[stale + (l - 1)]
        BY <1>3, <4>3 DEF HeldAreLast, m
      <4>5. numbers[l] = toClient[l].sequence
        BY <4>3 DEF numbers, n
      <4>6. in_flight[l - 1].sequence = 0
        BY <4>2, <4>3, <4>4, <4>5
      <4>7. CASE l - 1 = 1
        <5>1. in_flight # <<>>
          BY <4>3 DEF m
        <5> QED
          BY <2>2, <4>6, <4>7, <5>1 DEF NextUp
      <4>8. CASE l - 1 # 1
        <5>1. l - 1 \in 2 .. m
          BY <1>1, <4>3, <4>8
        <5> QED
          BY <4>6, <5>1, OnlyTheFirstBegins DEF m
      <4> QED
        BY <4>7, <4>8
    <3>3. StandsThere'
      <4> SUFFICES ASSUME n - 1 <= 0
                   PROVE  tile = location' /\ facing = direction' /\ count = 0
        BY <1>1, <1>5, <1>9, <2>2 DEF StandsThere, HeadTaken, shard
      <4>1. n = 1
        BY <1>1
      <4> QED
        BY <4>1 DEF WireInv, LastIsShards, IsAck, n
    <3> QED
      BY <1>6, <1>7, <1>8, <3>1, <3>2, <3>3 DEF Quiet, FreshInv
  <2> QED
    BY <2>1, <2>2
<1>10. CASE stale > 1
  <2>1. ASSUME Fresh' PROVE StaleAreRefused' /\ HeldAreConfirmed' /\ StandsThere'
    <3>1. NextUp = 0 /\ \A i \in 1 .. n - 1 : i <= stale - 1 => toClient'[i].kind # "ack"
      BY <1>1, <1>5, <1>10, <2>1 DEF Fresh, IsAck
    <3>2. \A i \in 1 .. n : i <= stale => toClient[i].kind # "ack"
      <4>1. ASSUME NEW i \in 1 .. n, i <= stale, i # 1 PROVE toClient[i].kind # "ack"
        <5>1. i - 1 \in 1 .. n - 1 /\ i - 1 <= stale - 1 /\ (i - 1) + 1 = i
          BY <1>1, <4>1
        <5> QED
          BY <1>1, <3>1, <5>1
      <4> QED
        BY <4>1
    <3>3. StaleAreRefused /\ HeldAreConfirmed /\ StandsThere
      BY <1>3, <3>1, <3>2 DEF FreshInv, Fresh, IsAck, n
    <3>4. location' = location /\ direction' = direction
      BY <1>1, <1>4, <3>3 DEF StaleAreRefused, n
    <3>5. StaleAreRefused'
      <4> SUFFICES ASSUME NEW i \in 1 .. n - 1, i <= stale - 1
                   PROVE  toClient'[i].at = location /\ toClient'[i].direction = direction
        BY <1>1, <1>5, <3>4 DEF StaleAreRefused
      <4>1. i + 1 \in 1 .. n /\ i + 1 <= stale
        BY <1>1
      <4> QED
        BY <1>1, <3>3, <4>1 DEF StaleAreRefused, n
    <3>6. HeldAreConfirmed'
      <4> SUFFICES ASSUME NEW i \in 1 .. n - 1, i > stale - 1, toClient'[i].kind = "ack"
                   PROVE  /\ toClient'[i].at = in_flight[i - (stale - 1)].arrives_at
                          /\ toClient'[i].direction = in_flight[i - (stale - 1)].direction
        BY <1>1, <1>5 DEF HeldAreConfirmed, IsAck
      <4>1. PICK k \in 1 .. n : k = i + 1
        BY <1>1
      <4>2. k > stale /\ k - stale = i - (stale - 1) /\ toClient'[i] = toClient[k]
        BY <1>1, <1>3, <4>1
      <4>3. /\ toClient[k].at = in_flight[k - stale].arrives_at
            /\ toClient[k].direction = in_flight[k - stale].direction
        BY <3>3, <4>2 DEF HeldAreConfirmed, IsAck, n
      <4> QED
        BY <4>2, <4>3
    <3>7. StandsThere'
      <4> SUFFICES ASSUME n - 1 <= stale - 1
                   PROVE  /\ tile = location /\ facing = direction /\ count \in {0, NextUp}
                          /\ count = NextUp /\ in_flight # <<>> => Follows(in_flight[1], location, direction)
        BY <1>1, <1>5, <3>4 DEF StandsThere, HeadTaken, shard
      <4>1. n <= stale
        BY <1>1
      <4> QED
        BY <3>3, <4>1 DEF StandsThere, n
    <3> QED
      BY <3>5, <3>6, <3>7
  <2> QED
    BY <1>6, <1>7, <1>8, <2>1 DEF Quiet, FreshInv
<1> QED
  BY <1>3, <1>4, <1>9, <1>10

\* A confirmation that names a request in flight.
LEMMA AckKeepsQuiet ==
    ASSUME TypeOK, Consecutive, ~left_map, WireInv, Quiet, HeadTaken,
           NEW first \in 1 .. Len(in_flight),
           Len(in_flight') = Len(in_flight) - first,
           \A i \in 1 .. Len(in_flight) - first : in_flight'[i] = in_flight[first + i],
           in_flight' = <<>> <=> Len(in_flight) = first,
           UNCHANGED <<sequence, toShard>>,
           toClient[1].kind = "ack",
           location' = in_flight[first].arrives_at, direction' = in_flight[first].direction
    PROVE  Quiet'
<1> DEFINE w == Len(toShard)
           n == answers
           m == Len(in_flight)
<1>1. /\ n \in Nat \ {0} /\ w \in Nat /\ m \in Nat /\ first \in 1 .. m
      /\ answers' = n - 1 /\ pipe = n + w /\ stale = n + w - m
      /\ \A i \in 1 .. n - 1 : toClient'[i] = toClient[i + 1]
      /\ \A i \in 1 .. m - first : in_flight'[i] = in_flight[first + i]
      /\ in_flight' = <<>> <=> m = first
      /\ Len(in_flight') = m - first
  BY HeadTakenLengths DEF HeadTaken
<1>2. \A i \in 1 .. n + w - 1 : numbers'[i] = numbers[i + 1]
  BY NumbersMoveUp
<1>3. stale' = stale + first - 1
  <2>1. stale' = n + w - 1 - (m - first)
    BY <1>1, HeadTakenLengths
  <2> QED
    BY <1>1, <2>1
<1> HIDE DEF w, n, m
<1>4. HeldAreLast /\ HeldAreLinked /\ GoesOn /\ FreshInv /\ stale \in Nat
  BY <1>1 DEF Quiet, HeldAreLast
<1>5. /\ \A i \in 1 .. m - 1 : in_flight[i + 1].sequence = NextNumber(in_flight[i].sequence)
      /\ m # 0 => sequence = NextNumber(in_flight[m].sequence)
      /\ \A i \in 1 .. m : in_flight[i].sequence \in Number
  <2>1. m # 0 => in_flight # <<>>
    BY DEF m
  <2> QED
    BY <2>1, OnlyTheFirstBegins DEF m
<1>6. NextUp' = NextNumber(in_flight[first].sequence) /\ NextUp' # 0
  <2>1. CASE m = first
    BY <1>1, <1>5, <2>1, NumbersNotZero DEF NextUp
  <2>2. CASE m # first
    <3>1. first \in 1 .. m - 1 /\ 1 \in 1 .. m - first
      BY <1>1, <2>2
    <3>2. NextUp' = in_flight'[1].sequence
      BY <1>1, <2>2 DEF NextUp
    <3>3. in_flight'[1] = in_flight[first + 1]
      BY <1>1, <3>1
    <3> QED
      BY <1>1, <1>5, <3>1, <3>2, <3>3, NumbersNotZero
  <2> QED
    BY <2>1, <2>2
<1>7. HeldAreLast'
  <2> SUFFICES ASSUME NEW i \in 1 .. m - first
               PROVE  /\ in_flight'[i].sequence = numbers'[stale + first - 1 + i]
                      /\ stale + first - 1 + i > n - 1
                           => in_flight'[i].direction = toShard[stale + first - 1 + i - (n - 1)].direction
    BY <1>1, <1>3, <1>4 DEF HeldAreLast
  <2>1. PICK k \in 1 .. m : k = first + i
    BY <1>1
  <2>2. /\ stale + first - 1 + i \in 1 .. n + w - 1
        /\ (stale + first - 1 + i) + 1 = stale + k
        /\ in_flight'[i] = in_flight[k]
    BY <1>1, <1>4, <2>1
  <2>3. numbers'[stale + first - 1 + i] = numbers[stale + k]
    BY <1>2, <2>2
  <2>4. stale + first - 1 + i > n - 1
          => stale + k > n /\ stale + first - 1 + i - (n - 1) = stale + k - n
    BY <1>1, <1>4, <2>1
  <2>5. /\ in_flight[k].sequence = numbers[stale + k]
        /\ stale + k > n => in_flight[k].direction = toShard[stale + k - n].direction
    BY <1>4 DEF HeldAreLast, m, n
  <2> QED
    BY <2>2, <2>3, <2>4, <2>5
<1>8. HeldAreLinked'
  <2> SUFFICES ASSUME NEW i \in 1 .. m - first - 1
               PROVE  Follows(in_flight'[i + 1], in_flight'[i].arrives_at, in_flight'[i].direction)
    BY <1>1 DEF HeldAreLinked, Follows
  <2>1. PICK k \in 1 .. m - 1 : k = first + i
    BY <1>1
  <2>2. in_flight'[i] = in_flight[k] /\ in_flight'[i + 1] = in_flight[k + 1]
    <3>1. i \in 1 .. m - first /\ i + 1 \in 1 .. m - first /\ first + (i + 1) = k + 1
      BY <1>1, <2>1
    <3> QED
      BY <1>1, <2>1, <3>1
  <2>3. Follows(in_flight[k + 1], in_flight[k].arrives_at, in_flight[k].direction)
    BY <1>4 DEF HeldAreLinked, m
  <2> QED
    BY <2>2, <2>3
<1>9. GoesOn'
  <2> SUFFICES ASSUME stale + first - 1 > 0 PROVE NextUp' = NextNumber(numbers'[stale + first - 1])
    BY <1>3 DEF GoesOn, NextNumber
  <2>1. stale + first - 1 \in 1 .. n + w - 1 /\ (stale + first - 1) + 1 = stale + first
    BY <1>1, <1>4
  <2>2. numbers'[stale + first - 1] = numbers[stale + first]
    BY <1>2, <2>1
  <2>3. in_flight[first].sequence = numbers[stale + first]
    BY <1>1, <1>4 DEF HeldAreLast, m
  <2> QED
    BY <1>6, <2>2, <2>3
<1>10. ASSUME Fresh'
       PROVE  StaleAreRefused' /\ HeldAreConfirmed' /\ StandsThere'
  <2>1. stale + first - 1 = 0
    BY <1>3, <1>6, <1>10 DEF Fresh
  <2>2. stale = 0 /\ first = 1 /\ stale' = 0
    BY <1>1, <1>3, <1>4, <2>1
  <2>3. HeldAreConfirmed
    BY <1>4, <2>2 DEF FreshInv, Fresh
  <2>4. StaleAreRefused'
    BY <1>1, <2>2 DEF StaleAreRefused
  <2>5. HeldAreConfirmed'
    <3> SUFFICES ASSUME NEW i \in 1 .. n - 1, toClient'[i].kind = "ack"
                 PROVE  /\ toClient'[i].at = in_flight'[i - 0].arrives_at
                        /\ toClient'[i].direction = in_flight'[i - 0].direction
      BY <1>1, <2>2 DEF HeldAreConfirmed, IsAck
    <3>0. n \in Nat /\ i \in Nat /\ i <= n - 1
      BY <1>1
    <3>1. PICK k \in 1 .. n : k = i + 1
      BY <3>0
    <3>2. /\ k > stale /\ k - stale = i + 1 /\ toClient'[i] = toClient[k]
          /\ i - 0 \in 1 .. m - first /\ first + (i - 0) = k - stale
      BY <1>1, <2>2, <3>1
    <3>3. /\ toClient[k].at = in_flight[k - stale].arrives_at
          /\ toClient[k].direction = in_flight[k - stale].direction
      BY <2>3, <3>2 DEF HeldAreConfirmed, IsAck, n
    <3> QED
      BY <1>1, <3>2, <3>3
  <2>6. StandsThere'
    <3> SUFFICES ASSUME n - 1 <= 0
                 PROVE  /\ tile = location' /\ facing = direction' /\ count = NextUp'
                        /\ in_flight' # <<>> => Follows(in_flight'[1], location', direction')
      BY <1>1, <2>2 DEF StandsThere, HeadTaken, shard
    <3>1. n = 1 /\ 1 > stale /\ 1 - stale = 1 /\ 1 \in 1 .. n
      BY <1>1, <2>2
    <3>2. tile = toClient[1].at /\ facing = toClient[1].direction /\ count = NextNumber(toClient[1].sequence)
      BY <3>1 DEF WireInv, LastIsShards, IsAck, n
    <3>3. toClient[1].at = in_flight[1].arrives_at /\ toClient[1].direction = in_flight[1].direction
      BY <2>3, <3>1 DEF HeldAreConfirmed, IsAck, n
    <3>4. in_flight[1].sequence = toClient[1].sequence
      <4>1. 1 \in 1 .. m /\ 1 \in 1 .. pipe /\ 1 <= n /\ stale + 1 = 1
        BY <1>1, <2>2, <3>1
      <4>2. in_flight[1].sequence = numbers[stale + 1]
        BY <1>4, <4>1 DEF HeldAreLast, m
      <4>3. numbers[1] = toClient[1].sequence
        BY <4>1 DEF numbers, n
      <4> QED
        BY <4>1, <4>2, <4>3
    <3>5. in_flight' # <<>> => Follows(in_flight'[1], location', direction')
      <4> SUFFICES ASSUME m # first PROVE Follows(in_flight'[1], location', direction')
        BY <1>1
      <4>1. 1 \in 1 .. m - 1 /\ 1 \in 1 .. m - first /\ first + 1 = 1 + 1
        BY <1>1, <2>2
      <4>2. in_flight'[1] = in_flight[1 + 1]
        BY <1>1, <4>1
      <4>3. Follows(in_flight[1 + 1], in_flight[1].arrives_at, in_flight[1].direction)
        BY <1>4, <4>1 DEF HeldAreLinked, m
      <4> QED
        BY <2>2, <4>2, <4>3
    <3> QED
      BY <1>6, <2>2, <3>2, <3>3, <3>4, <3>5
  <2> QED
    BY <2>4, <2>5, <2>6
<1> QED
  BY <1>7, <1>8, <1>9, <1>10 DEF Quiet, FreshInv

\* A redraw that was owed still is, unless it was the answer taken.
LEMMA OwedStaysOwed ==
    ASSUME TypeOK, HeadTaken, UNCHANGED toShard, toClient[1].kind # "draw", RedrawOwed
    PROVE  RedrawOwed'
<1>1. CASE \E i \in 1 .. Len(toShard) : toShard[i] = Resync
  BY <1>1 DEF RedrawOwed
<1>2. CASE \E i \in 1 .. answers : toClient[i].kind = "draw"
  <2>1. PICK i \in 1 .. answers : toClient[i].kind = "draw"
    BY <1>2
  <2>2. i - 1 \in 1 .. answers - 1 /\ (i - 1) + 1 = i
    BY <2>1 DEF HeadTaken
  <2>3. toClient'[i - 1].kind = "draw"
    BY <2>1, <2>2 DEF HeadTaken
  <2> QED
    BY <2>2, <2>3 DEF RedrawOwed, HeadTaken
<1> QED
  BY <1>1, <1>2 DEF RedrawOwed

LEMMA ReceiveKeepsAInv ==
    ASSUME TypeOK, Consecutive, AInv, Receive, TypeOK'
    PROVE  AInv'
<1> DEFINE answer == Head(toClient)
<1>1. /\ answer = toClient[1] /\ HeadTaken
      /\ AcceptMoveAck(answer) \/ RefuseStep(answer) \/ Redrawn(answer) \/ LeaveMap(answer)
  <2>1. toClient # <<>> /\ toClient \in Seq(Answer)
    BY DEF Receive, TypeOK
  <2>2. /\ Len(toClient) \in Nat \ {0} /\ Head(toClient) = toClient[1]
        /\ Len(Tail(toClient)) = Len(toClient) - 1
        /\ \A i \in 1 .. Len(toClient) - 1 : Tail(toClient)[i] = toClient[i + 1]
    BY <2>1, TailFacts
  <2>3. toClient' = Tail(toClient) /\ UNCHANGED shard
    BY DEF Receive
  <2> QED
    BY <2>2, <2>3 DEF HeadTaken, answers, Receive
<1>2. WireInv'
  BY <1>1, FrontKeepsWire DEF HeadTaken, AInv
<1> SUFFICES ASSUME ~RedrawOwed' PROVE AInv'
  BY <1>2, OwedIsEnough
<1> HIDE DEF answer
<1>3. ASSUME answer.kind # "draw", UNCHANGED toShard
      PROVE  ~RedrawOwed /\ resync_asked = "no" /\ ~left_map /\ Quiet /\ WireInv
  BY <1>1, <1>3, OwedStaysOwed DEF AInv, AskedIsOwed, QuietInv, Quiet
<1>4. SUFFICES resync_asked' = "no" /\ ~left_map' /\ Quiet'
  BY <1>2 DEF AInv, AskedIsOwed, QuietInv, Quiet
<1>5. CASE AcceptMoveAck(answer)
  <2> DEFINE named == {i \in 1 .. Len(in_flight) : in_flight[i].sequence = answer.sequence}
             first == Min(named)
  <2>1. answer.kind = "ack"
    BY <1>5 DEF AcceptMoveAck
  <2>2. CASE named = {}
    <3>1. AskResync
      BY <1>5, <2>2 DEF AcceptMoveAck
    <3>2. toShard' # Append(toShard, Resync)
      BY AskingOwes
    <3>3. resync_asked = "asked" /\ UNCHANGED toShard
      BY <3>1, <3>2 DEF AskResync
    <3> QED
      BY <1>3, <2>1, <3>3
  <2>3. CASE named # {}
    <3>1. first \in 1 .. Len(in_flight)
      BY <2>3, LeastOfNaturals
    <3>2. /\ location' = in_flight[first].arrives_at
          /\ direction' = in_flight[first].direction
          /\ in_flight' = SubSeq(in_flight, first + 1, Len(in_flight))
          /\ UNCHANGED <<sequence, resync_asked, toShard, left_map>>
      BY <1>5, <2>3 DEF AcceptMoveAck
    <3> HIDE DEF first, named
    <3>3. ~left_map /\ resync_asked = "no" /\ Quiet /\ WireInv
      BY <1>3, <2>1, <3>2
    <3>4. /\ Len(in_flight') = Len(in_flight) - first
          /\ \A i \in 1 .. Len(in_flight) - first : in_flight'[i] = in_flight[first + i]
          /\ in_flight' = <<>> <=> Len(in_flight) = first
      <4>1. in_flight \in Seq(PendingStep)
        BY DEF TypeOK
      <4>2. in_flight' = SubSeq(in_flight, first + 1, Len(in_flight))
        BY <3>2
      <4> QED
        BY <3>1, <4>1, <4>2, CutFacts
    <3>5. Quiet'
      <4>1. toClient[1].kind = "ack"
        BY <1>1, <2>1
      <4>2. UNCHANGED <<sequence, toShard>>
        BY <3>2
      <4>3. location' = in_flight[first].arrives_at /\ direction' = in_flight[first].direction
        BY <3>2
      <4> QED
        BY <1>1, <3>1, <3>3, <3>4, <4>1, <4>2, <4>3, AckKeepsQuiet
    <3> QED
      BY <3>2, <3>3, <3>5
  <2> QED
    BY <2>2, <2>3
<1>6. CASE RefuseStep(answer)
  <2>1. /\ answer.kind = "reject" /\ UNCHANGED <<resync_asked, toShard>>
        /\ location' = answer.at /\ direction' = answer.direction
    BY <1>6 DEF RefuseStep
  <2>2. ~left_map /\ resync_asked = "no" /\ Quiet /\ WireInv
    BY <1>3, <2>1
  <2>3. CASE \E i \in 1 .. Len(in_flight) : in_flight[i].sequence = answer.sequence
    <3>1. in_flight' = <<>> /\ sequence' = 0 /\ left_map' = FALSE
      BY <1>6, <2>3 DEF RefuseStep, Refused, SeqFirst
    <3>2. Quiet'
      BY <1>1, <1>2, <2>1, <2>2, <3>1, BeginsAnew
    <3> QED
      BY <2>1, <2>2, <3>1, <3>2
  <2>4. CASE ~ \E i \in 1 .. Len(in_flight) : in_flight[i].sequence = answer.sequence
    <3>1. UNCHANGED <<in_flight, sequence, left_map>>
      BY <1>6, <2>4 DEF RefuseStep
    <3>2. Quiet'
      BY <1>1, <2>1, <2>2, <2>4, <3>1, EchoKeepsQuiet
    <3> QED
      BY <2>1, <2>2, <3>1, <3>2
  <2> QED
    BY <2>3, <2>4
<1>7. CASE Redrawn(answer)
  <2>1. /\ in_flight' = <<>> /\ sequence' = 0 /\ left_map' = FALSE
        /\ resync_asked' = "no" /\ UNCHANGED toShard /\ answer.kind = "draw"
        /\ location' = answer.at /\ direction' = answer.direction
    BY <1>7 DEF Redrawn, Refused, SeqFirst
  <2>2. Quiet'
    BY <1>1, <1>2, <2>1, BeginsAnew DEF AInv
  <2> QED
    BY <2>1, <2>2
<1>8. CASE LeaveMap(answer)
  <2>1. toClient[1].kind = "map"
    BY <1>1, <1>8 DEF LeaveMap
  <2>2. answers \in Nat \ {0} /\ answers' = answers - 1
        /\ \A i \in 1 .. answers - 1 : toClient'[i] = toClient[i + 1]
    BY <1>1 DEF HeadTaken
  <2>3. 1 < answers /\ toClient[1 + 1].kind = "draw"
    BY <2>1, <2>2 DEF AInv, WireInv, MapThenDraw
  <2>4. 1 \in 1 .. answers' /\ toClient'[1].kind = "draw"
    BY <2>2, <2>3
  <2> QED
    BY <2>4 DEF RedrawOwed
<1> QED
  BY <1>1, <1>5, <1>6, <1>7, <1>8

-----------------------------------------------------------------------------
(* The shard draws him, and the steps of the walk. *)

LEMMA DrawnKeepsAInv ==
    ASSUME WireInv, answers \in Nat, NEW n \in {1, 2}, answers' = answers + n,
           \A i \in 1 .. answers : toClient'[i] = toClient[i],
           n = 2 => toClient'[answers + 1].kind = "map",
           toClient'[answers + n].kind = "draw",
           toClient'[answers + n].at = tile', toClient'[answers + n].direction = facing',
           count' = 0
    PROVE  AInv'
<1>1. \A i \in 1 .. answers' :
         \/ i \in 1 .. answers /\ toClient'[i] = toClient[i]
         \/ i = answers' /\ toClient'[i].kind = "draw"
         \/ i = answers + 1 /\ n = 2 /\ toClient'[i].kind = "map"
  OBVIOUS
<1>2. RedrawOwed'
  BY DEF RedrawOwed
<1>3. LastIsShards'
  BY DEF LastIsShards, IsAck
<1>4. RefusalsMoveNobody'
  <2> SUFFICES ASSUME NEW i \in 1 .. answers', NEW j \in 1 .. answers', i < j,
                      \A l \in i + 1 .. j : toClient'[l].kind = "reject"
               PROVE  toClient'[j].at = toClient'[i].at /\ toClient'[j].direction = toClient'[i].direction
    BY DEF RefusalsMoveNobody, IsReject
  <2>1. toClient'[j].kind = "reject"
    OBVIOUS
  <2>2. i \in 1 .. answers /\ j \in 1 .. answers
    BY <1>1, <2>1
  <2>3. \A l \in i + 1 .. j : toClient[l].kind = "reject"
    <3> SUFFICES ASSUME NEW l \in i + 1 .. j PROVE toClient[l].kind = "reject"
      OBVIOUS
    <3>1. l \in 1 .. answers
      BY <2>2
    <3> QED
      BY <3>1
  <2> QED
    BY <2>2, <2>3 DEF WireInv, RefusalsMoveNobody, IsReject
<1>5. RefusalsBeginAgain'
  <2> SUFFICES ASSUME NEW i \in 1 .. answers', NEW j \in 1 .. answers', i < j,
                      toClient'[i].kind = "reject", toClient'[j].kind = "ack"
               PROVE  \E l \in i + 1 .. j : toClient'[l].kind = "ack" /\ toClient'[l].sequence = 0
    BY DEF RefusalsBeginAgain, IsReject, IsAck
  <2>1. i \in 1 .. answers /\ j \in 1 .. answers
    BY <1>1
  <2>2. PICK l \in i + 1 .. j : toClient[l].kind = "ack" /\ toClient[l].sequence = 0
    BY <2>1 DEF WireInv, RefusalsBeginAgain, IsReject, IsAck
  <2>3. l \in 1 .. answers
    BY <2>1
  <2> QED
    BY <2>2, <2>3
<1>6. MapThenDraw'
  <2> SUFFICES ASSUME NEW i \in 1 .. answers', toClient'[i].kind = "map"
               PROVE  i < answers' /\ toClient'[i + 1].kind = "draw"
    BY DEF MapThenDraw
  <2>1. CASE i \in 1 .. answers
    <3>1. i < answers /\ toClient[i + 1].kind = "draw"
      BY <2>1 DEF WireInv, MapThenDraw
    <3>2. i + 1 \in 1 .. answers
      BY <2>1, <3>1
    <3> QED
      BY <3>1, <3>2
  <2>2. CASE i = answers + 1 /\ n = 2
    BY <2>2
  <2> QED
    BY <1>1, <2>1, <2>2
<1> QED
  BY <1>2, <1>3, <1>4, <1>5, <1>6, OwedIsEnough DEF WireInv

LEMMA ServeKeepsAInv ==
    ASSUME ~DropsSome, TypeOK, Consecutive, AInv, Serve
    PROVE  AInv'
<1>1. /\ Len(toShard) \in Nat \ {0} /\ Head(toShard) = toShard[1]
      /\ Len(toShard') = Len(toShard) - 1
      /\ \A i \in 1 .. Len(toShard) - 1 : toShard'[i] = toShard[i + 1]
  BY TailFacts DEF Serve, TypeOK
<1>2. CASE Head(toShard) = Resync
  <2> DEFINE draw == [kind |-> "draw", at |-> tile, direction |-> facing]
  <2>1. ShardRedraws
    BY <1>2 DEF Serve, ShardLoses, Resync
  <2>2. toClient' = Append(toClient, draw) /\ count' = 0 /\ tile' = tile /\ facing' = facing
    BY <2>1 DEF ShardRedraws, SeqFirst
  <2>3. draw.kind = "draw" /\ draw.at = tile' /\ draw.direction = facing'
    BY <2>2
  <2> HIDE DEF draw
  <2>4. /\ answers \in Nat /\ answers' = answers + 1
        /\ \A i \in 1 .. answers : toClient'[i] = toClient[i]
        /\ toClient'[answers + 1] = draw
    BY <2>2, AppendFacts DEF TypeOK, answers
  <2>5. PICK n \in {1, 2} : n = 1
    OBVIOUS
  <2>6. /\ n # 2 /\ WireInv /\ answers' = answers + n
        /\ toClient'[answers + n].kind = "draw" /\ toClient'[answers + n].at = tile'
        /\ toClient'[answers + n].direction = facing'
    BY <2>3, <2>4, <2>5 DEF AInv
  <2> HIDE DEF answers
  <2> QED
    BY <2>2, <2>4, <2>6, DrawnKeepsAInv
<1>3. CASE Head(toShard) # Resync
  <2>1. PICK answer : toClient' = Append(toClient, answer) /\ Replies(answer, Head(toShard))
    BY <1>3, ServeReplies
  <2>2. /\ answers \in Nat /\ answers' = answers + 1
        /\ \A i \in 1 .. answers : toClient'[i] = toClient[i]
        /\ toClient'[answers + 1] = answer
    BY <2>1, AppendFacts DEF TypeOK, answers
  <2>3. UNCHANGED <<client, left_map>>
    BY DEF Serve
  <2>4. toShard[1] # Resync /\ Replies(answer, toShard[1])
    BY <1>1, <1>3, <2>1
  <2> QED
    BY <1>1, <2>2, <2>3, <2>4, ReplyKeepsAInv
<1> QED
  BY <1>2, <1>3

LEMMA ShardMovesHimKeepsAInv ==
    ASSUME TypeOK, AInv, ShardMovesHim
    PROVE  AInv'
<1> DEFINE draw == [kind |-> "draw", at |-> tile', direction |-> facing]
           map == [kind |-> "map", at |-> tile', direction |-> facing]
<1>1. toClient' = Append(toClient, draw) \/ toClient' = toClient \o <<map, draw>>
  <2>1. [draw EXCEPT !.kind = "map"] = map
    OBVIOUS
  <2> QED
    BY <2>1 DEF ShardMovesHim
<1>2. facing' = facing /\ count' = 0 /\ toClient \in Seq(Answer)
  BY DEF ShardMovesHim, SeqFirst, TypeOK
<1>3. /\ draw.kind = "draw" /\ draw.at = tile' /\ draw.direction = facing'
      /\ map.kind = "map"
  BY <1>2
<1> HIDE DEF draw, map
<1>4. CASE toClient' = Append(toClient, draw)
  <2>1. /\ answers \in Nat /\ answers' = answers + 1
        /\ \A i \in 1 .. answers : toClient'[i] = toClient[i]
        /\ toClient'[answers + 1] = draw
    BY <1>2, <1>4, AppendFacts DEF answers
  <2> QED
    BY <1>2, <1>3, <2>1, DrawnKeepsAInv DEF AInv
<1>5. CASE toClient' = toClient \o <<map, draw>>
  <2>1. /\ Len(toClient) \in Nat /\ Len(toClient') = Len(toClient) + 2
        /\ \A i \in 1 .. Len(toClient) : toClient'[i] = toClient[i]
        /\ toClient'[Len(toClient) + 1] = map /\ toClient'[Len(toClient) + 2] = draw
    BY <1>2, <1>5
  <2> QED
    BY <1>2, <1>3, <2>1, DrawnKeepsAInv DEF AInv, answers
<1> QED
  BY <1>1, <1>4, <1>5

\* The shard is asked where he is; `lost` answers never come.
LEMMA AskingKeepsAInv ==
    ASSUME TypeOK, AInv, toShard' = Append(toShard, Resync), UNCHANGED shard,
           NEW lost \in 0 .. Len(toClient), Len(toClient') = Len(toClient) - lost,
           \A i \in 1 .. Len(toClient) - lost : toClient'[i] = toClient[i + lost]
    PROVE  AInv'
<1>1. WireInv'
  BY FrontKeepsWire DEF AInv, answers
<1> QED
  BY <1>1, AskingOwes, OwedIsEnough

LEMMA PumpMovementKeepsAInv ==
    ASSUME TypeOK, AInv, PumpMovement
    PROVE  AInv'
<1>1. PICK route \in {path} \cup (IF errand /\ ~Walking THEN Routes[location] ELSE {}) :
         LET next == Reachable(route, SteppingFrom)
             dir == DirTo(SteppingFrom, Head(next))
         IN  /\ IF next = <<>>
                  THEN UNCHANGED <<in_flight, sequence, toShard>>
                ELSE IF dir # FacingAfter
                  THEN Send(dir, SteppingFrom, TRUE)
                  ELSE Send(dir, Head(next), FALSE)
             /\ UNCHANGED <<resync_asked, location, direction, shard, toClient, left_map>>
  BY DEF PumpMovement
<1> DEFINE next == Reachable(route, SteppingFrom)
           dir == DirTo(SteppingFrom, Head(next))
<1>2. CASE next = <<>>
  BY <1>1, <1>2, BesideTheWalk
<1>3. CASE next # <<>>
  <2>1. route \in Seq(Tile) /\ SteppingFrom \in Tile
    BY RoutesType, SteppingFromType DEF TypeOK
  <2>2. next \in Seq(Tile) /\ Near(SteppingFrom, Head(next))
    BY <1>3, <2>1, ReachableType
  <2>3. dir \in Dir /\ Head(next) \in Tile
    BY <1>3, <2>2, DirToType, HeadTailProperties
  <2>4. Head(next) = Beside[SteppingFrom][dir]
    BY <2>2 DEF Near, DirTo
  <2>5. \/ dir # FacingAfter /\ Send(dir, SteppingFrom, TRUE)
        \/ dir = FacingAfter /\ Send(dir, Head(next), FALSE)
    BY <1>1, <1>3
  <2>6. UNCHANGED <<resync_asked, location, direction, shard, toClient, left_map>>
    BY <1>1
  <2> HIDE DEF next, dir
  <2>7. CASE dir # FacingAfter /\ Send(dir, SteppingFrom, TRUE)
    BY <2>1, <2>3, <2>6, <2>7, SendKeepsAInv
  <2>8. CASE dir = FacingAfter /\ Send(dir, Head(next), FALSE)
    BY <2>1, <2>3, <2>4, <2>6, <2>8, SendKeepsAInv
  <2> QED
    BY <2>5, <2>7, <2>8
<1> QED
  BY <1>2, <1>3

LEMMA AInvStep ==
    ASSUME ~DropsSome, TypeOK, Consecutive, AInv, [Next]_vars, TypeOK'
    PROVE  AInv'
<1>1. CASE PumpMovement
  BY <1>1, PumpMovementKeepsAInv
<1>2. CASE ExpireStale \/ ScriptResync
  <2>1. toShard' = Append(toShard, Resync) /\ UNCHANGED <<shard, toClient>>
    BY <1>2 DEF ExpireStale, ScriptResync
  <2>2. Len(toClient) \in Nat
    BY DEF TypeOK
  <2>3. 0 \in 0 .. Len(toClient) /\ Len(toClient') = Len(toClient) - 0
    BY <2>1, <2>2
  <2>4. \A i \in 1 .. Len(toClient) - 0 : toClient'[i] = toClient[i + 0]
    BY <2>1, <2>2
  <2>5. UNCHANGED shard
    BY <2>1
  <2> QED
    BY <2>1, <2>3, <2>4, <2>5, AskingKeepsAInv
<1>3. CASE FramingError
  <2>1. PICK lost \in 0 .. Len(toClient) :
           toClient' = SubSeq(toClient, lost + 1, Len(toClient))
    BY <1>3 DEF FramingError
  <2>2. toShard' = Append(toShard, Resync) /\ UNCHANGED shard
    BY <1>3 DEF FramingError
  <2>3. /\ Len(toClient') = Len(toClient) - lost
        /\ \A i \in 1 .. Len(toClient) - lost : toClient'[i] = toClient[i + lost]
    BY <2>1, FrontFacts DEF TypeOK
  <2> QED
    BY <2>2, <2>3, AskingKeepsAInv
<1>4. CASE StandingTurn
  <2>1. PICK dir \in Dir \ {direction} : Send(dir, location, TRUE)
    BY <1>4 DEF StandingTurn
  <2>2. /\ in_flight = <<>> /\ location \in Tile
        /\ UNCHANGED <<resync_asked, location, direction, shard, toClient, left_map>>
    BY <1>4 DEF StandingTurn, TypeOK
  <2>3. SteppingFrom = location /\ FacingAfter = direction
    BY <2>2 DEF SteppingFrom, FacingAfter
  <2> QED
    BY <2>1, <2>2, <2>3, SendKeepsAInv
<1>5. CASE \/ ResyncWaitEnds \/ SetPath \/ SentOn \/ ErrandEnds \/ Stop
           \/ ForgetEdge \/ UNCHANGED vars
  <2>1. /\ resync_asked' # "no" => resync_asked # "no"
        /\ UNCHANGED <<sequence, in_flight, location, direction, shard, toShard, toClient, left_map>>
    BY <1>5 DEF ResyncWaitEnds, SetPath, SentOn, ErrandEnds, Stop, ForgetEdge, vars, client
  <2> QED
    BY <2>1, BesideTheWalk
<1>6. CASE Receive
  BY <1>6, ReceiveKeepsAInv
<1>7. CASE Serve
  BY <1>7, ServeKeepsAInv
<1>8. CASE ShardMovesHim
  BY <1>8, ShardMovesHimKeepsAInv
<1> QED
  BY <1>1, <1>2, <1>3, <1>4, <1>5, <1>6, <1>7, <1>8 DEF Next

\* When the shard answers all it is asked and everything has come to rest, he is
\* reported on the tile he stands on and the way he faces, whatever was lost,
\* refused, redrawn or answered late on the way (AgreesAtRest of Walk).
THEOREM WalkAgreesAtRest == ASSUME ~DropsSome PROVE Spec => []AgreesAtRest
<1>1. Init => AInv
  <2> SUFFICES ASSUME Init PROVE AInv
    OBVIOUS
  <2>1. /\ Len(toClient) = 0 /\ Len(toShard) = 0 /\ Len(in_flight) = 0 /\ in_flight = <<>>
        /\ tile = location /\ facing = direction /\ count = 0 /\ resync_asked = "no" /\ ~left_map
    BY DEF Init, SeqFirst
  <2>2. WireInv
    BY <2>1 DEF WireInv, LastIsShards, RefusalsMoveNobody, RefusalsBeginAgain, MapThenDraw, answers
  <2>3. HeldAreLast /\ HeldAreLinked /\ GoesOn
    BY <2>1 DEF HeldAreLast, HeldAreLinked, GoesOn, stale
  <2>4. FreshInv
    BY <2>1 DEF FreshInv, StaleAreRefused, HeldAreConfirmed, StandsThere, answers
  <2> QED
    BY <2>1, <2>2, <2>3, <2>4 DEF AInv, AskedIsOwed, QuietInv
<1>2. TypeOK /\ Consecutive /\ AInv /\ [Next]_vars /\ TypeOK' => AInv'
  BY AInvStep
<1>3. AInv => AgreesAtRest
  <2> SUFFICES ASSUME AInv, AtRest PROVE location = tile /\ direction = facing
    BY DEF AgreesAtRest
  <2>1. Len(toClient) = 0 /\ Len(toShard) = 0 /\ Len(in_flight) = 0
    BY DEF AtRest, Silent
  <2>2. ~RedrawOwed
    BY <2>1 DEF RedrawOwed, answers
  <2>3. StandsThere
    BY <2>1, <2>2 DEF AInv, QuietInv, FreshInv, Fresh, stale
  <2> QED
    BY <2>1 , <2>3 DEF StandsThere, answers, stale
<1> QED
  BY <1>1, <1>2, <1>3, TypeCorrect, NumbersConsecutive, PTL DEF Spec

-----------------------------------------------------------------------------
(* The steps of a queue of requests, counted and put back on a route. *)

\* One request more is one step more, unless it is a turn.
LEMMA StepsUpToNext ==
    ASSUME NEW q, NEW i \in Nat
    PROVE  /\ StepsUpTo(q, 0) = 0
           /\ StepsUpTo(q, i + 1) = StepsUpTo(q, i) + (IF q[i + 1].turn THEN 0 ELSE 1)
<1> DEFINE steps(n) == {j \in 1 .. n : ~q[j].turn}
<1>1. StepsUpTo(q, 0) = 0
  <2>1. steps(0) = {}
    OBVIOUS
  <2> QED BY <2>1, FS_EmptySet DEF StepsUpTo
<1>2. IsFiniteSet(steps(i)) /\ Cardinality(steps(i)) \in Nat
  <2>1. IsFiniteSet(1 .. i)
    BY FS_Interval
  <2>2. steps(i) \in SUBSET (1 .. i)
    OBVIOUS
  <2> QED BY <2>1, <2>2, FS_Subset, FS_CardinalityType
<1>3. StepsUpTo(q, i + 1) = StepsUpTo(q, i) + (IF q[i + 1].turn THEN 0 ELSE 1)
  <2>1. CASE q[i + 1].turn
    <3>1. steps(i + 1) = steps(i)
      BY <2>1
    <3>2. StepsUpTo(q, i + 1) = Cardinality(steps(i + 1)) /\ StepsUpTo(q, i) = Cardinality(steps(i))
      BY DEF StepsUpTo
    <3> HIDE DEF steps
    <3> QED BY <1>2, <2>1, <3>1, <3>2
  <2>2. CASE ~q[i + 1].turn
    <3>1. steps(i + 1) = steps(i) \cup {i + 1} /\ i + 1 \notin steps(i)
      BY <2>2
    <3>2. StepsUpTo(q, i + 1) = Cardinality(steps(i + 1)) /\ StepsUpTo(q, i) = Cardinality(steps(i))
      BY DEF StepsUpTo
    <3> HIDE DEF steps
    <3>3. Cardinality(steps(i) \cup {i + 1}) = Cardinality(steps(i)) + 1
      BY <1>2, <3>1, FS_AddElement
    <3> QED BY <2>2, <3>1, <3>2, <3>3
  <2> QED BY <2>1, <2>2
<1> QED BY <1>1, <1>3

\* A longer front of the queue holds no fewer steps.
LEMMA StepsUpToGrows ==
    ASSUME NEW q, NEW i \in Nat, NEW j \in Nat, i <= j
    PROVE  StepsUpTo(q, i) <= StepsUpTo(q, j)
<1>1. IsFiniteSet({h \in 1 .. j : ~q[h].turn})
  <2>1. IsFiniteSet(1 .. j)
    BY FS_Interval
  <2>2. {h \in 1 .. j : ~q[h].turn} \in SUBSET (1 .. j)
    OBVIOUS
  <2> QED BY <2>1, <2>2, FS_Subset
<1>2. {h \in 1 .. i : ~q[h].turn} \in SUBSET {h \in 1 .. j : ~q[h].turn}
  OBVIOUS
<1> QED BY <1>1, <1>2, FS_Subset DEF StepsUpTo

\* The steps of a queue are those of its first m requests and those of the rest.
LEMMA StepsOfRest ==
    ASSUME NEW q, NEW r, NEW m \in Nat, NEW i \in Nat,
           \A j \in 1 .. i : r[j] = q[m + j]
    PROVE  StepsUpTo(q, m + i) = StepsUpTo(q, m) + StepsUpTo(r, i)
<1> DEFINE A == {j \in 1 .. m : ~q[j].turn}
           B == {j \in m + 1 .. m + i : ~q[j].turn}
           C == {j \in 1 .. i : ~r[j].turn}
           up == [j \in C |-> m + j]
<1>1. IsFiniteSet(C) /\ IsFiniteSet(A)
  <2>1. IsFiniteSet(1 .. i) /\ IsFiniteSet(1 .. m)
    BY FS_Interval
  <2>2. C \in SUBSET (1 .. i) /\ A \in SUBSET (1 .. m)
    OBVIOUS
  <2> QED BY <2>1, <2>2, FS_Subset
<1>2. IsFiniteSet(B) /\ Cardinality(B) = Cardinality(C)
  <2>1. up \in [C -> B]
    OBVIOUS
  <2>2. \A a, b \in C : up[a] = up[b] => a = b
    OBVIOUS
  <2>3. ASSUME NEW t \in B PROVE \E s \in C : up[s] = t
    <3>1. t - m \in C
      <4>1. t - m \in 1 .. i /\ m + (t - m) = t
        OBVIOUS
      <4> QED BY <4>1
    <3>2. up[t - m] = t
      BY <3>1
    <3> QED BY <3>1, <3>2
  <2> HIDE DEF up, C, B
  <2>4. up \in Bijection(C, B)
    BY <2>1, <2>2, <2>3 DEF Bijection, Injection, IsInjective, Surjection
  <2> QED BY <1>1, <2>4, FS_Bijection DEF ExistsBijection
<1>3. A \cap B = {} /\ {j \in 1 .. m + i : ~q[j].turn} = A \cup B
  OBVIOUS
<1>4. Cardinality(A) \in Nat /\ Cardinality(C) \in Nat
  BY <1>1, FS_CardinalityType
<1>5. Cardinality(A \cup B) = Cardinality(A) + Cardinality(C)
  <2>1. Cardinality(A \cap B) = 0
    BY <1>3, FS_EmptySet
  <2> HIDE DEF A, B, C
  <2> QED BY <1>1, <1>2, <1>4, <2>1, FS_Union
<1> QED BY <1>3, <1>5 DEF StepsUpTo

\* The place of the k-th step is the first front of the queue with k steps.
LEMMA NthStepIs ==
    ASSUME NEW q \in Seq(PendingStep), NEW k, NEW i \in 1 .. Len(q),
           StepsUpTo(q, i) >= k,
           \A h \in 1 .. Len(q) : StepsUpTo(q, h) >= k => i <= h
    PROVE  NthStep(q, k) = i
<1> DEFINE late == {h \in 1 .. Len(q) : StepsUpTo(q, h) >= k}
<1>1. late \in SUBSET Nat /\ late # {} /\ i \in late
  OBVIOUS
<1>2. Min(late) \in late /\ \A h \in late : Min(late) <= h
  BY <1>1, LeastOfNaturals
<1>3. Min(late) = i
  BY <1>1, <1>2
<1> QED BY <1>3 DEF NthStep

LEMMA NthStepLeast ==
    ASSUME NEW q \in Seq(PendingStep), NEW k \in 1 .. StepsUpTo(q, Len(q))
    PROVE  /\ NthStep(q, k) \in 1 .. Len(q)
           /\ StepsUpTo(q, NthStep(q, k)) >= k
           /\ \A h \in 1 .. Len(q) : StepsUpTo(q, h) >= k => NthStep(q, k) <= h
<1> DEFINE late == {h \in 1 .. Len(q) : StepsUpTo(q, h) >= k}
<1>1. Len(q) \in Nat /\ StepsUpTo(q, Len(q)) \in 0 .. Len(q)
  BY StepsUpToType
<1>2. Len(q) \in late
  BY <1>1
<1>3. late \in SUBSET Nat /\ late # {}
  BY <1>1, <1>2
<1>4. Min(late) \in late /\ \A h \in late : Min(late) <= h
  BY <1>3, LeastOfNaturals
<1> QED BY <1>4 DEF NthStep

\* Nothing in flight puts nothing back, and the number put back is the number
\* of steps.
LEMMA StepTilesLen ==
    ASSUME NEW q \in Seq(PendingStep)
    PROVE  /\ StepTiles(q) \in Seq(Tile)
           /\ Len(StepTiles(q)) = StepsUpTo(q, Len(q))
           /\ Len(StepTiles(q)) \in Nat
           /\ \A k \in 1 .. Len(StepTiles(q)) : StepTiles(q)[k] = q[NthStep(q, k)].arrives_at
           /\ q = <<>> => StepTiles(q) = <<>>
<1> DEFINE n == StepsUpTo(q, Len(q))
<1>1. n \in Nat /\ StepTiles(q) \in Seq(Tile)
  BY StepsUpToType, StepTilesType
<1>2. Len(q) = 0 => n = 0
  BY StepsUpToNext
<1>3. StepTiles(q) = [k \in 1 .. n |-> q[NthStep(q, k)].arrives_at]
  BY DEF StepTiles
<1> HIDE DEF n
<1>4. DOMAIN StepTiles(q) = 1 .. n
  BY <1>3
<1>5. Len(StepTiles(q)) = n
  BY <1>1, <1>4, LenProperties
<1>6. \A k \in 1 .. n : StepTiles(q)[k] = q[NthStep(q, k)].arrives_at
  BY <1>3
<1>7. q = <<>> => StepTiles(q) = <<>>
  <2>1. q = <<>> => Len(q) = 0
    BY EmptySeq, Zenon
  <2>2. StepTiles(q) = <<>> <=> Len(StepTiles(q)) = 0
    BY <1>1, EmptySeq, Zenon
  <2> QED BY <1>2, <1>5, <2>1, <2>2
<1> QED BY <1>1, <1>5, <1>6, <1>7 DEF n

\* A turn sent puts nothing more back, a step sent one tile more, the last.
LEMMA StepTilesAppend ==
    ASSUME NEW q \in Seq(PendingStep), NEW s \in PendingStep
    PROVE  /\ s.turn => StepTiles(Append(q, s)) = StepTiles(q)
           /\ ~s.turn => StepTiles(Append(q, s)) = Append(StepTiles(q), s.arrives_at)
<1> DEFINE r == Append(q, s)
           n == Len(q)
           total == StepsUpTo(q, n)
<1>1. /\ r \in Seq(PendingStep) /\ Len(r) = n + 1 /\ n \in Nat
      /\ \A i \in 1 .. n : r[i] = q[i]
      /\ r[n + 1] = s
  BY AppendFacts, AppendProperties
<1> HIDE DEF r, n
<1>2. \A i \in 0 .. n : StepsUpTo(r, i) = StepsUpTo(q, i)
  <2> SUFFICES ASSUME NEW i \in 0 .. n
               PROVE  StepsUpTo(r, i) = StepsUpTo(q, i)
    OBVIOUS
  <2>1. {j \in 1 .. i : ~r[j].turn} = {j \in 1 .. i : ~q[j].turn}
    BY <1>1
  <2> QED BY <2>1 DEF StepsUpTo
<1>3. StepsUpTo(r, n + 1) = total + (IF s.turn THEN 0 ELSE 1)
  <2>1. StepsUpTo(r, n + 1) = StepsUpTo(r, n) + (IF r[n + 1].turn THEN 0 ELSE 1)
    BY <1>1, StepsUpToNext
  <2>2. StepsUpTo(r, n) = total
    BY <1>1, <1>2
  <2> QED BY <1>1, <2>1, <2>2
<1>4. total \in Nat /\ \A i \in 0 .. n : StepsUpTo(q, i) \in Nat /\ StepsUpTo(q, i) <= total
  <2>1. \A i \in 0 .. n : StepsUpTo(q, i) \in Nat
    BY StepsUpToType, <1>1
  <2> QED BY <1>1, <2>1, StepsUpToGrows
<1> HIDE DEF total
<1>5. ASSUME NEW k \in 1 .. total
      PROVE  r[NthStep(r, k)] = q[NthStep(q, k)]
  <2> DEFINE place == NthStep(q, k)
  <2>1. /\ place \in 1 .. n /\ StepsUpTo(q, place) >= k
        /\ \A h \in 1 .. n : StepsUpTo(q, h) >= k => place <= h
    BY <1>1, NthStepLeast DEF n, total
  <2> HIDE DEF place
  <2>2. place \in 1 .. Len(r) /\ StepsUpTo(r, place) >= k
    BY <1>1, <1>2, <2>1
  <2>3. \A h \in 1 .. Len(r) : StepsUpTo(r, h) >= k => place <= h
    BY <1>1, <1>2, <2>1
  <2>4. NthStep(r, k) = place
    BY <1>1, <2>2, <2>3, NthStepIs
  <2> QED BY <1>1, <2>1, <2>4 DEF place
<1>6. /\ StepTiles(q) \in Seq(Tile) /\ Len(StepTiles(q)) = total
      /\ \A k \in 1 .. total : StepTiles(q)[k] = q[NthStep(q, k)].arrives_at
  BY <1>1, StepTilesLen DEF n, total
<1>7. /\ StepTiles(r) \in Seq(Tile) /\ Len(StepTiles(r)) = total + (IF s.turn THEN 0 ELSE 1)
      /\ \A k \in 1 .. Len(StepTiles(r)) : StepTiles(r)[k] = r[NthStep(r, k)].arrives_at
  BY <1>1, <1>3, StepTilesLen
<1>8. CASE s.turn
  <2>1. Len(StepTiles(r)) = Len(StepTiles(q))
    BY <1>4, <1>6, <1>7, <1>8
  <2>2. \A k \in 1 .. Len(StepTiles(r)) : StepTiles(r)[k] = StepTiles(q)[k]
    BY <1>4, <1>5, <1>6, <1>7, <2>1
  <2>3. StepTiles(r) = StepTiles(q)
    BY <1>6, <1>7, <2>1, <2>2, SeqEqual
  <2> QED BY <1>8, <2>3 DEF r
<1>9. CASE ~s.turn
  <2> DEFINE longer == Append(StepTiles(q), s.arrives_at)
  <2>1. s.arrives_at \in Tile
    BY DEF PendingStep
  <2>2. /\ longer \in Seq(Tile) /\ Len(longer) = total + 1
        /\ \A k \in 1 .. total : longer[k] = StepTiles(q)[k]
        /\ longer[total + 1] = s.arrives_at
    BY <1>6, <2>1, AppendFacts, AppendProperties
  <2> HIDE DEF longer
  <2>3. Len(StepTiles(r)) = Len(longer)
    BY <1>4, <1>7, <1>9, <2>2
  <2>4. NthStep(r, total + 1) = n + 1
    <3>1. n + 1 \in 1 .. Len(r) /\ StepsUpTo(r, n + 1) >= total + 1
      BY <1>1, <1>3, <1>4, <1>9
    <3>2. \A h \in 1 .. Len(r) : StepsUpTo(r, h) >= total + 1 => n + 1 <= h
      BY <1>1, <1>2, <1>4
    <3> QED BY <1>1, <3>1, <3>2, NthStepIs
  <2>5. \A k \in 1 .. total : StepTiles(r)[k] = longer[k]
    BY <1>4, <1>5, <1>6, <1>7, <1>9, <2>2
  <2>6. StepTiles(r)[total + 1] = longer[total + 1]
    BY <1>1, <1>4, <1>7, <1>9, <2>2, <2>4
  <2>7. \A k \in 1 .. Len(StepTiles(r)) : StepTiles(r)[k] = longer[k]
    BY <1>4, <2>2, <2>3, <2>5, <2>6
  <2>8. StepTiles(r) = longer
    BY <1>7, <2>2, <2>3, <2>7, SeqEqual
  <2> QED BY <1>9, <2>8 DEF r, longer
<1> QED BY <1>8, <1>9

\* What the last requests put back is the end of what all of them put back.
LEMMA StepTilesOfRest ==
    ASSUME NEW q \in Seq(PendingStep), NEW m \in 1 .. Len(q)
    PROVE  LET r == SubSeq(q, m + 1, Len(q))
               c == StepsUpTo(q, m)
           IN  /\ c \in Nat /\ c + Len(StepTiles(r)) = Len(StepTiles(q))
               /\ \A k \in 1 .. Len(StepTiles(r)) : StepTiles(r)[k] = StepTiles(q)[c + k]
<1> DEFINE n == Len(q)
           r == SubSeq(q, m + 1, n)
           c == StepsUpTo(q, m)
           rest == n - m
<1>1. n \in Nat /\ m \in 1 .. n /\ rest \in Nat /\ m + rest = n
  OBVIOUS
<1>2. Len(r) = rest /\ \A i \in 1 .. rest : r[i] = q[m + i]
  BY CutFacts
<1>3. r \in Seq(PendingStep)
  <2>1. \A i \in m + 1 .. n : q[i] \in PendingStep
    BY ElementOfSeq, <1>1
  <2> HIDE DEF n
  <2> QED BY <1>1, <2>1, SubSeqProperties
<1> HIDE DEF n, r
<1>4. \A i \in 0 .. rest : StepsUpTo(q, m + i) = c + StepsUpTo(r, i)
  <2> SUFFICES ASSUME NEW i \in 0 .. rest
               PROVE  StepsUpTo(q, m + i) = c + StepsUpTo(r, i)
    OBVIOUS
  <2>1. i \in Nat /\ m \in Nat
    BY <1>1
  <2>2. \A j \in 1 .. i : r[j] = q[m + j]
    BY <1>1, <1>2
  <2>3. \A h \in Nat : \A k \in Nat :
             (\A j \in 1 .. k : r[j] = q[h + j])
                => StepsUpTo(q, h + k) = StepsUpTo(q, h) + StepsUpTo(r, k)
    BY StepsOfRest
  <2>4. StepsUpTo(q, m + i) = StepsUpTo(q, m) + StepsUpTo(r, i)
    BY <2>1, <2>2, <2>3, Zenon
  <2> QED BY <2>4
<1>5. /\ c \in Nat /\ \A i \in 0 .. rest : StepsUpTo(r, i) \in Nat
      /\ \A i \in 0 .. m : StepsUpTo(q, i) \in Nat /\ StepsUpTo(q, i) <= c
  <2>1. m \in Nat /\ c \in Nat /\ \A i \in 0 .. m : StepsUpTo(q, i) \in Nat
    BY <1>1, StepsUpToType
  <2>2. \A i \in 0 .. rest : StepsUpTo(r, i) \in Nat
    BY <1>1, StepsUpToType
  <2> QED BY <2>1, <2>2, StepsUpToGrows
<1>6. StepsUpTo(q, n) = c + StepsUpTo(r, rest)
  BY <1>1, <1>4
<1> DEFINE total == StepsUpTo(q, n)
           ours == StepsUpTo(r, rest)
<1>7. total \in Nat /\ ours \in Nat /\ total = c + ours
  BY <1>1, <1>5, <1>6
<1>8. /\ StepTiles(q) \in Seq(Tile) /\ Len(StepTiles(q)) = total
      /\ \A k \in 1 .. total : StepTiles(q)[k] = q[NthStep(q, k)].arrives_at
  BY <1>7, StepTilesLen DEF n
<1>9. /\ StepTiles(r) \in Seq(Tile) /\ Len(StepTiles(r)) = ours
      /\ \A k \in 1 .. ours : StepTiles(r)[k] = r[NthStep(r, k)].arrives_at
  BY <1>2, <1>3, <1>7, StepTilesLen
<1>10. ASSUME NEW k \in 1 .. ours
       PROVE  r[NthStep(r, k)] = q[NthStep(q, c + k)]
  <2> DEFINE place == NthStep(q, c + k)
  <2>1. c + k \in 1 .. total
    BY <1>5, <1>7
  <2>2. /\ place \in 1 .. n /\ StepsUpTo(q, place) >= c + k
        /\ \A h \in 1 .. n : StepsUpTo(q, h) >= c + k => place <= h
    BY <2>1, NthStepLeast DEF n
  <2> HIDE DEF place, total, ours, c, rest
  <2>3. place > m
    BY <1>1, <1>5, <2>2
  <2>4. PICK i \in 1 .. rest : place = m + i
    <3>1. place - m \in 1 .. rest /\ place = m + (place - m)
      BY <1>1, <2>2, <2>3
    <3> QED BY <3>1
  <2>5. i \in 1 .. Len(r) /\ StepsUpTo(r, i) >= k
    BY <1>1, <1>2, <1>4, <1>5, <2>2, <2>4
  <2>6. ASSUME NEW h \in 1 .. Len(r), StepsUpTo(r, h) >= k
        PROVE  i <= h
    <3>1. h \in 0 .. rest /\ m + h \in 1 .. n
      BY <1>1, <1>2
    <3>2. StepsUpTo(q, m + h) >= c + k
      BY <1>4, <1>5, <2>6, <3>1
    <3>3. m + i <= m + h
      BY <2>2, <2>4, <3>1, <3>2
    <3> QED BY <1>1, <2>4, <3>1, <3>3
  <2>7. NthStep(r, k) = i
    BY <1>3, <2>5, <2>6, NthStepIs
  <2>8. r[i] = q[m + i]
    BY <1>2
  <2> QED BY <2>4, <2>7, <2>8 DEF place
<1>11. \A k \in 1 .. ours : StepTiles(r)[k] = StepTiles(q)[c + k]
  <2> SUFFICES ASSUME NEW k \in 1 .. ours
               PROVE  StepTiles(r)[k] = StepTiles(q)[c + k]
    OBVIOUS
  <2>1. c + k \in 1 .. total
    BY <1>5, <1>7
  <2>2. StepTiles(q)[c + k] = q[NthStep(q, c + k)].arrives_at
    BY <1>8, <2>1
  <2>3. StepTiles(r)[k] = r[NthStep(r, k)].arrives_at
    BY <1>9
  <2> QED BY <1>10, <2>2, <2>3
<1> QED BY <1>5, <1>7, <1>8, <1>9, <1>11 DEF n, r

-----------------------------------------------------------------------------
(* Stretches of a route. *)

\* s is what is left of t when nothing but tiles of its two ends go.
Trims(s, t) ==
    \E lost \in Nat :
        /\ lost + Len(s) <= Len(t)
        /\ \A k \in 1 .. Len(s) : s[k] = t[lost + k]

\* What is left then is a stretch of t, and holds together when t does.
LEMMA TrimsAre ==
    ASSUME NEW s \in Seq(Tile), NEW t \in Seq(Tile), Trims(s, t)
    PROVE  /\ IsStretchOf(s, t)
           /\ HoldsTogether(t) => HoldsTogether(s)
<1> DEFINE n == Len(s)
<1>1. PICK lost \in Nat :
        /\ lost + n <= Len(t)
        /\ \A k \in 1 .. n : s[k] = t[lost + k]
  BY DEF Trims
<1> DEFINE last == lost + n
           cut == SubSeq(t, lost + 1, last)
<1>2. n \in Nat /\ Len(t) \in Nat /\ last \in Nat /\ last <= Len(t)
  BY <1>1
<1>3. IsStretchOf(s, t)
  <2>1. \A k \in lost + 1 .. last : t[k] \in Tile
    BY <1>2, ElementOfSeq
  <2>2. lost + 1 \in Int /\ last \in Int /\ last - (lost + 1) + 1 = n
    BY <1>2
  <2> HIDE DEF last
  <2>3. /\ cut \in Seq(Tile) /\ Len(cut) = n
        /\ \A k \in 1 .. n : cut[k] = t[lost + k]
    <3> HIDE DEF n
    <3>1. CASE n = 0
      BY <1>2, <2>1, <2>2, <3>1, SubSeqProperties
    <3>2. CASE n # 0
      BY <1>2, <2>1, <2>2, <3>2, SubSeqProperties
    <3> QED BY <3>1, <3>2
  <2> HIDE DEF cut
  <2>4. s = cut
    BY <1>1, <2>3, SeqEqual
  <2>5. lost + 1 \in 1 .. Len(t) + 1 /\ last \in (lost + 1) - 1 .. Len(t)
    BY <1>2 DEF last
  <2> QED BY <2>4, <2>5 DEF IsStretchOf, cut
<1>4. ASSUME HoldsTogether(t) PROVE HoldsTogether(s)
  <2> SUFFICES ASSUME NEW i \in 1 .. Len(s) - 1
               PROVE  Near(s[i], s[i + 1])
    BY DEF HoldsTogether
  <2>1. i \in 1 .. n /\ i + 1 \in 1 .. n /\ lost + i \in 1 .. Len(t) - 1
    BY <1>1, <1>2
  <2>2. s[i] = t[lost + i] /\ s[i + 1] = t[lost + (i + 1)] /\ lost + (i + 1) = (lost + i) + 1
    BY <1>1, <2>1
  <2>3. Near(t[lost + i], t[(lost + i) + 1])
    BY <1>4, <2>1 DEF HoldsTogether
  <2> QED BY <2>2, <2>3
<1> QED BY <1>3, <1>4

LEMMA TrimsAll ==
    ASSUME NEW t \in Seq(Tile)
    PROVE  Trims(t, t) /\ Trims(<<>>, t)
<1>1. 0 \in Nat /\ Len(t) \in Nat /\ 0 + Len(t) <= Len(t) /\ \A k \in 1 .. Len(t) : t[k] = t[0 + k]
  OBVIOUS
<1>2. 0 \in Nat /\ 0 + Len(<<>>) <= Len(t) /\ \A k \in 1 .. Len(<<>>) : <<>>[k] = t[0 + k]
  OBVIOUS
<1>3. Trims(t, t)
  BY <1>1 DEF Trims
<1>4. Trims(<<>>, t)
  BY <1>2 DEF Trims
<1> QED BY <1>3, <1>4

\* The front of a route is a stretch of it.
LEMMA TrimsEnd ==
    ASSUME NEW s \in Seq(Tile), NEW r \in Seq(Tile)
    PROVE  Trims(s, s \o r)
<1> DEFINE t == s \o r
<1>1. /\ Len(t) = Len(s) + Len(r) /\ Len(s) \in Nat /\ Len(r) \in Nat
      /\ \A k \in 1 .. Len(s) : t[k] = s[k]
  BY ConcatFacts
<1> HIDE DEF t
<1>2. 0 \in Nat /\ 0 + Len(s) <= Len(t) /\ \A k \in 1 .. Len(s) : s[k] = t[0 + k]
  BY <1>1
<1>3. Trims(s, t)
  BY <1>2 DEF Trims
<1> QED BY <1>3 DEF t

\* What goes off the front of the first part goes off the front of the whole.
LEMMA TrimsFront ==
    ASSUME NEW s \in Seq(Tile), NEW t \in Seq(Tile), NEW r \in Seq(Tile), NEW c \in Nat,
           c + Len(s) = Len(t), \A k \in 1 .. Len(s) : s[k] = t[c + k]
    PROVE  Trims(s \o r, t \o r)
<1> DEFINE a == s \o r
           b == t \o r
<1>1. /\ Len(a) = Len(s) + Len(r) /\ Len(b) = Len(t) + Len(r)
      /\ Len(s) \in Nat /\ Len(t) \in Nat /\ Len(r) \in Nat
      /\ \A k \in 1 .. Len(s) : a[k] = s[k]
      /\ \A k \in 1 .. Len(r) : a[Len(s) + k] = r[k]
      /\ \A k \in 1 .. Len(t) : b[k] = t[k]
      /\ \A k \in 1 .. Len(r) : b[Len(t) + k] = r[k]
  BY ConcatFacts
<1> HIDE DEF a, b
<1>2. ASSUME NEW k \in 1 .. Len(a)
      PROVE  a[k] = b[c + k]
  <2>1. CASE k <= Len(s)
    <3>1. k \in 1 .. Len(s) /\ c + k \in 1 .. Len(t)
      BY <1>1, <2>1
    <3> QED BY <1>1, <3>1
  <2>2. CASE k > Len(s)
    <3>1. PICK h \in 1 .. Len(r) : k = Len(s) + h
      <4>1. k - Len(s) \in 1 .. Len(r) /\ k = Len(s) + (k - Len(s))
        BY <1>1, <2>2
      <4> QED BY <4>1
    <3>2. c + k = Len(t) + h
      <4> DEFINE ls == Len(s)
                 lt == Len(t)
      <4>1. ls \in Nat /\ lt \in Nat /\ h \in Nat /\ c + ls = lt /\ k = ls + h
        BY <1>1, <3>1
      <4> HIDE DEF ls, lt
      <4>2. c + k = lt + h
        BY <4>1
      <4> QED BY <4>2 DEF lt
    <3> QED BY <1>1, <3>1, <3>2
  <2> QED BY <1>1, <2>1, <2>2
<1>3. c + Len(a) <= Len(b)
  BY <1>1
<1>4. Trims(a, b)
  BY <1>2, <1>3 DEF Trims
<1> QED BY <1>4 DEF a, b

\* What he cannot reach in one step goes off the front of the route, and nothing
\* goes when its first tile lies beside him.
LEMMA ReachableTrims ==
    ASSUME NEW route \in Seq(Tile), NEW from \in Tile
    PROVE  /\ Reachable(route, from) \in Seq(Tile)
           /\ Trims(Reachable(route, from), route)
           /\ route # <<>> /\ Near(from, route[1]) => Reachable(route, from) = route
<1> DEFINE n == Len(route)
           near == {i \in 1 .. n : Near(from, route[i])}
           m == Min(near)
           rest == SubSeq(route, m, n)
<1>1. Reachable(route, from) \in Seq(Tile)
  BY ReachableType
<1>2. CASE near = {}
  <2>1. Reachable(route, from) = <<>>
    BY <1>2 DEF Reachable
  <2>2. route # <<>> => 1 \in 1 .. n
    BY EmptySeq
  <2>3. ~(route # <<>> /\ Near(from, route[1]))
    BY <1>2, <2>2
  <2> QED BY <1>1, <2>1, <2>3, TrimsAll
<1>3. CASE near # {}
  <2>1. near \in SUBSET Nat
    OBVIOUS
  <2>2. m \in near /\ \A i \in near : m <= i
    BY <1>3, <2>1, LeastOfNaturals
  <2>3. n \in Nat /\ m \in 1 .. n /\ Reachable(route, from) = rest
    <3>1. Reachable(route, from) = rest
      BY <1>3 DEF Reachable
    <3> HIDE DEF rest, m
    <3> QED BY <2>2, <3>1
  <2>4. \A i \in m .. n : route[i] \in Tile
    BY <2>3, ElementOfSeq
  <2>5. 1 \in near => m = 1
    BY <2>2, <2>3
  <2>6. route # <<>> /\ Near(from, route[1]) => 1 \in near
    BY EmptySeq
  <2> HIDE DEF n, near, m
  <2>7. m \in Int /\ n \in Int /\ m <= n
    BY <2>3
  <2>8. /\ rest \in Seq(Tile) /\ Len(rest) = n - m + 1
        /\ \A i \in 1 .. n - m + 1 : rest[i] = route[m + i - 1]
    BY <2>4, <2>7, SubSeqProperties
  <2> HIDE DEF rest
  <2>9. m - 1 \in Nat /\ (m - 1) + Len(rest) <= n
    BY <2>3, <2>8
  <2>10. \A i \in 1 .. Len(rest) : rest[i] = route[(m - 1) + i]
    BY <2>3, <2>8
  <2>11. Trims(rest, route)
    BY <2>9, <2>10 DEF Trims, n
  <2>12. ASSUME m = 1 PROVE rest = route
    <3>1. Len(rest) = n /\ \A i \in 1 .. Len(rest) : rest[i] = route[i]
      BY <2>3, <2>8, <2>10, <2>12
    <3> QED BY <2>8, <3>1, SeqEqual DEF n
  <2> QED BY <1>1, <2>3, <2>5, <2>6, <2>11, <2>12
<1> QED BY <1>2, <1>3

-----------------------------------------------------------------------------
(* The steps asked for and the steps to come are one route, in order. *)

\* The invariant: the whole of it goes from tile to tile, and the steps in
\* flight end on the tile he is going to stand on, where the next one starts.
RouteInv ==
    /\ HoldsTogether(Requeued)
    /\ LET asked == StepTiles(in_flight)
       IN  asked # <<>> => asked[Len(asked)] = SteppingFrom

\* What a step may do to the route: keep it in order, or have the planner
\* replace it.
KeepsOrder ==
    \/ IsStretchOf(Remaining', Remaining)
    \/ SetPath \/ SentOn \/ ~Walking
    \/ replans' # replans

\* The parts of the route, before a step and after it.
LEMMA RouteParts ==
    ASSUME TypeOK
    PROVE  /\ in_flight \in Seq(PendingStep) /\ path \in Seq(Tile)
           /\ StepTiles(in_flight) \in Seq(Tile) /\ Requeued \in Seq(Tile)
           /\ Requeued = StepTiles(in_flight) \o path
           /\ in_flight = <<>> => StepTiles(in_flight) = <<>>
           /\ StepTiles(in_flight) = <<>> => Requeued = path
           /\ path = <<>> => Requeued = StepTiles(in_flight)
<1>1. in_flight \in Seq(PendingStep) /\ path \in Seq(Tile)
  BY DEF TypeOK
<1>2. StepTiles(in_flight) \in Seq(Tile) /\ (in_flight = <<>> => StepTiles(in_flight) = <<>>)
  BY <1>1, StepTilesLen
<1>3. Requeued = StepTiles(in_flight) \o path /\ Requeued \in Seq(Tile)
  BY RequeuedType DEF Requeued
<1>4. \A r \in Seq(Tile) : <<>> \o r = r /\ r \o <<>> = r
  OBVIOUS
<1>5. <<>> \o path = path /\ StepTiles(in_flight) \o <<>> = StepTiles(in_flight)
  BY <1>1, <1>2, <1>4
<1> QED BY <1>1, <1>2, <1>3, <1>5, Zenon

LEMMA RoutePartsNext ==
    ASSUME TypeOK'
    PROVE  /\ in_flight' \in Seq(PendingStep) /\ path' \in Seq(Tile)
           /\ StepTiles(in_flight') \in Seq(Tile) /\ Requeued' \in Seq(Tile)
           /\ Requeued' = StepTiles(in_flight') \o path'
           /\ in_flight' = <<>> => StepTiles(in_flight') = <<>>
           /\ StepTiles(in_flight') = <<>> => Requeued' = path'
           /\ path' = <<>> => Requeued' = StepTiles(in_flight')
<1>1. in_flight' \in Seq(PendingStep) /\ path' \in Seq(Tile)
  BY DEF TypeOK
<1>2. StepTiles(in_flight') \in Seq(Tile) /\ (in_flight' = <<>> => StepTiles(in_flight') = <<>>)
  BY <1>1, StepTilesLen
<1>3. Requeued' = StepTiles(in_flight') \o path'
  BY DEF Requeued
<1>4. \A r \in Seq(Tile) : <<>> \o r = r /\ r \o <<>> = r
  OBVIOUS
<1>5. <<>> \o path' = path' /\ StepTiles(in_flight') \o <<>> = StepTiles(in_flight')
  BY <1>1, <1>2, <1>4
<1>6. Requeued' \in Seq(Tile)
  BY <1>1, <1>2, <1>3, ConcatProperties
<1> QED BY <1>1, <1>2, <1>3, <1>5, <1>6, Zenon

\* A step that leaves a stretch of the route, and its requests ending where he
\* is going to stand, is in order.
LEMMA TrimmedRoute ==
    ASSUME TypeOK, TypeOK', RouteInv, Trims(Requeued', Requeued),
           LET asked == StepTiles(in_flight')
           IN  asked # <<>> => asked[Len(asked)] = SteppingFrom'
    PROVE  RouteInv' /\ KeepsOrder
<1>1. Requeued \in Seq(Tile) /\ Requeued' \in Seq(Tile)
  BY RouteParts, RoutePartsNext
<1>2. IsStretchOf(Requeued', Requeued) /\ HoldsTogether(Requeued')
  BY <1>1, TrimsAre DEF RouteInv
<1> QED BY <1>2 DEF RouteInv, KeepsOrder, Remaining

\* The requests in flight are thrown away and what stays is a stretch of the
\* whole, or the planner's route.
LEMMA ThrownAway ==
    ASSUME TypeOK, TypeOK', RouteInv, in_flight' = <<>>
    PROVE  /\ Trims(path', Requeued) => RouteInv' /\ KeepsOrder
           /\ path' \in {<<>>, Requeued} => RouteInv' /\ KeepsOrder
           /\ HoldsTogether(path') => RouteInv'
<1>1. StepTiles(in_flight') = <<>> /\ Requeued' = path'
  BY RoutePartsNext
<1>2. Trims(path', Requeued) => RouteInv' /\ KeepsOrder
  BY <1>1, TrimmedRoute
<1>3. Trims(<<>>, Requeued) /\ Trims(Requeued, Requeued)
  BY RouteParts, TrimsAll
<1>4. HoldsTogether(path') => RouteInv'
  BY <1>1 DEF RouteInv
<1> QED BY <1>2, <1>3, <1>4

\* The requests in flight stay: where they end does not depend on where he is.
LEMMA StillAsked ==
    ASSUME TypeOK, TypeOK', RouteInv, UNCHANGED in_flight
    PROVE  LET asked == StepTiles(in_flight')
           IN  asked # <<>> => asked[Len(asked)] = SteppingFrom'
<1>1. CASE in_flight = <<>>
  BY <1>1, RouteParts
<1>2. CASE in_flight # <<>>
  BY <1>2 DEF RouteInv, SteppingFrom
<1> QED BY <1>1, <1>2

LEMMA LeftAlone ==
    ASSUME TypeOK, TypeOK', RouteInv, UNCHANGED in_flight, path' \in {path, <<>>}
    PROVE  RouteInv' /\ KeepsOrder
<1>1. LET asked == StepTiles(in_flight')
      IN  asked # <<>> => asked[Len(asked)] = SteppingFrom'
  BY StillAsked
<1>2. CASE path' = path
  <2>1. Requeued' = Requeued
    BY <1>2 DEF Requeued
  <2> QED BY <1>1, <2>1, RouteParts, TrimsAll, TrimmedRoute
<1>3. CASE path' = <<>>
  <2>1. Requeued' = StepTiles(in_flight)
    BY <1>3, RoutePartsNext
  <2>2. Trims(StepTiles(in_flight), StepTiles(in_flight) \o path)
    BY RouteParts, TrimsEnd
  <2> QED BY <1>1, <2>1, <2>2, RouteParts, TrimmedRoute
<1> QED BY <1>2, <1>3

\* A route planned from the tile he is going to stand on goes on from the steps
\* in flight.
LEMMA RoutesJoinOn ==
    ASSUME TypeOK, TypeOK', RouteInv, UNCHANGED <<in_flight, location>>,
           path' \in Routes[SteppingFrom]
    PROVE  RouteInv'
<1> DEFINE asked == StepTiles(in_flight)
           n == Len(asked)
<1>1. SteppingFrom \in Tile
  BY SteppingFromType
<1>2. HoldsTogether(path') /\ (path' # <<>> => Near(SteppingFrom, path'[1]))
  BY <1>1, RoutesHoldTogether
<1>3. /\ asked \in Seq(Tile) /\ path' \in Seq(Tile) /\ Requeued' = asked \o path'
      /\ n \in Nat
  BY RouteParts, RoutePartsNext
<1>4. /\ asked # <<>> => asked[n] = SteppingFrom
      /\ SteppingFrom' = SteppingFrom /\ StepTiles(in_flight') = asked
  BY DEF RouteInv, SteppingFrom
<1>5. ASSUME NEW i \in 1 .. n - 1
      PROVE  Near(asked[i], asked[i + 1])
  <2>1. /\ Len(Requeued) = n + Len(path) /\ Len(path) \in Nat
        /\ \A j \in 1 .. n : Requeued[j] = asked[j]
    BY RouteParts, ConcatFacts
  <2>2. i \in 1 .. Len(Requeued) - 1 /\ i \in 1 .. n /\ i + 1 \in 1 .. n
    BY <1>3, <2>1
  <2> QED BY <2>1, <2>2 DEF RouteInv, HoldsTogether
<1> DEFINE whole == asked \o path'
<1>6. /\ Len(whole) = n + Len(path') /\ Len(path') \in Nat
      /\ \A j \in 1 .. n : whole[j] = asked[j]
      /\ \A j \in 1 .. Len(path') : whole[n + j] = path'[j]
  BY <1>3, ConcatFacts
<1>7. asked # <<>> <=> n # 0
  BY <1>3, EmptySeq
<1>8. path' # <<>> <=> Len(path') # 0
  BY <1>3, EmptySeq
<1> HIDE DEF whole, n, asked
<1>9. ASSUME NEW i \in 1 .. Len(whole) - 1
      PROVE  Near(whole[i], whole[i + 1])
  <2>1. CASE i < n
    <3>1. i \in 1 .. n - 1 /\ i \in 1 .. n /\ i + 1 \in 1 .. n
      BY <1>3, <2>1
    <3> QED BY <1>5, <1>6, <3>1
  <2>2. CASE i = n
    <3>1. n # 0 /\ Len(path') # 0 /\ n \in 1 .. n /\ 1 \in 1 .. Len(path')
      BY <1>3, <1>6, <2>2
    <3>2. whole[i] = SteppingFrom
      BY <1>4, <1>6, <1>7, <2>2, <3>1
    <3>3. whole[i + 1] = path'[1]
      BY <1>6, <2>2, <3>1
    <3> QED BY <1>2, <1>8, <3>1, <3>2, <3>3
  <2>3. CASE i > n
    <3>1. PICK h \in 1 .. Len(path') - 1 : i = n + h
      <4>1. i - n \in 1 .. Len(path') - 1 /\ i = n + (i - n)
        BY <1>3, <1>6, <2>3
      <4> QED BY <4>1
    <3>2. h \in 1 .. Len(path') /\ h + 1 \in 1 .. Len(path') /\ i + 1 = n + (h + 1)
      BY <1>3, <1>6, <3>1
    <3>3. whole[i] = path'[h] /\ whole[i + 1] = path'[h + 1]
      BY <1>6, <3>1, <3>2
    <3> QED BY <1>2, <3>1, <3>3 DEF HoldsTogether
  <2> QED BY <1>3, <2>1, <2>2, <2>3
<1>10. HoldsTogether(Requeued')
  BY <1>3, <1>9 DEF HoldsTogether, whole
<1> QED BY <1>4, <1>10 DEF RouteInv, n

\* The first tile of one part goes over to the end of the other, and the whole
\* stays what it was.
LEMMA HeadGoesOver ==
    ASSUME NEW s \in Seq(Tile), NEW r \in Seq(Tile), r # <<>>
    PROVE  Append(s, Head(r)) \o Tail(r) = s \o r
<1> DEFINE longer == Append(s, Head(r))
           less == Tail(r)
           a == longer \o less
           b == s \o r
           ns == Len(s)
           nr == Len(r)
<1>1. /\ ns \in Nat /\ nr \in Nat \ {0} /\ Head(r) = r[1] /\ r[1] \in Tile
      /\ less \in Seq(Tile) /\ Len(less) = nr - 1
      /\ \A i \in 1 .. nr - 1 : less[i] = r[i + 1]
  BY TailFacts
<1>2. /\ longer \in Seq(Tile) /\ Len(longer) = ns + 1
      /\ \A i \in 1 .. ns : longer[i] = s[i]
      /\ longer[ns + 1] = r[1]
  BY <1>1, AppendFacts, AppendProperties
<1> HIDE DEF longer, less
<1>3. /\ a \in Seq(Tile) /\ Len(a) = Len(longer) + Len(less)
      /\ \A i \in 1 .. Len(longer) : a[i] = longer[i]
      /\ \A i \in 1 .. Len(less) : a[Len(longer) + i] = less[i]
  <2>1. longer \in Seq(Tile) /\ less \in Seq(Tile)
    BY <1>1, <1>2
  <2> QED BY <2>1, ConcatFacts
<1>4. /\ b \in Seq(Tile) /\ Len(b) = ns + nr
      /\ \A i \in 1 .. ns : b[i] = s[i]
      /\ \A i \in 1 .. nr : b[ns + i] = r[i]
  BY ConcatFacts
<1> HIDE DEF a, b, ns, nr
<1>5. Len(a) = Len(b)
  BY <1>1, <1>2, <1>3, <1>4
<1>6. ASSUME NEW i \in 1 .. Len(a)
      PROVE  a[i] = b[i]
  <2>1. CASE i <= ns
    <3>1. i \in 1 .. ns /\ i \in 1 .. Len(longer)
      BY <1>1, <1>2, <2>1
    <3> QED BY <1>2, <1>3, <1>4, <3>1
  <2>2. CASE i = ns + 1
    <3>1. ns + 1 \in 1 .. Len(longer) /\ 1 \in 1 .. nr
      BY <1>1, <1>2
    <3> QED BY <1>2, <1>3, <1>4, <2>2, <3>1
  <2>3. CASE i > ns + 1
    <3>1. PICK h \in 1 .. nr - 1 : i = (ns + 1) + h
      <4>1. i - (ns + 1) \in 1 .. nr - 1 /\ i = (ns + 1) + (i - (ns + 1))
        BY <1>1, <1>4, <1>5, <2>3
      <4> QED BY <4>1
    <3>2. h \in 1 .. Len(less) /\ i = Len(longer) + h /\ h + 1 \in 1 .. nr /\ i = ns + (h + 1)
      BY <1>1, <1>2, <3>1
    <3>3. a[i] = less[h] /\ b[i] = r[h + 1]
      BY <1>3, <1>4, <3>2
    <3> QED BY <1>1, <3>1, <3>3
  <2> QED BY <1>1, <2>1, <2>2, <2>3
<1>7. a = b
  BY <1>3, <1>4, <1>5, <1>6, SeqEqual
<1> QED BY <1>7 DEF a, b, longer, less

\* Steps are in flight and the route goes on: it goes on beside the last of them.
LEMMA NextIsBeside ==
    ASSUME TypeOK, RouteInv, StepTiles(in_flight) # <<>>, path # <<>>
    PROVE  Near(SteppingFrom, path[1])
<1> DEFINE asked == StepTiles(in_flight)
           n == Len(asked)
           whole == asked \o path
<1>1. asked \in Seq(Tile) /\ path \in Seq(Tile) /\ Requeued = whole
  BY RouteParts
<1>2. n \in Nat \ {0} /\ Len(path) \in Nat \ {0}
  BY <1>1, EmptySeq
<1>3. /\ Len(whole) = n + Len(path)
      /\ \A j \in 1 .. n : whole[j] = asked[j]
      /\ \A j \in 1 .. Len(path) : whole[n + j] = path[j]
  BY <1>1, ConcatFacts
<1>4. HoldsTogether(whole) /\ asked[n] = SteppingFrom
  BY <1>1 DEF RouteInv
<1> HIDE DEF whole, n, asked
<1>5. n \in 1 .. Len(whole) - 1 /\ n \in 1 .. n /\ 1 \in 1 .. Len(path)
  BY <1>2, <1>3
<1>6. Near(whole[n], whole[n + 1])
  BY <1>4, <1>5 DEF HoldsTogether
<1> QED BY <1>3, <1>4, <1>5, <1>6

\* A request sent takes its tile from the head of the route, or none: the whole
\* stays what it was.
LEMMA SendKeepsTheRoute ==
    ASSUME TypeOK, TypeOK', RouteInv, NEW next \in Seq(Tile),
           NEW dir \in Dir,
           \/ path' = next /\ Send(dir, SteppingFrom, TRUE)
           \/ next # <<>> /\ path' = Tail(next) /\ Send(dir, Head(next), FALSE)
    PROVE  /\ Requeued' = StepTiles(in_flight) \o next
           /\ LET after == StepTiles(in_flight')
              IN  after # <<>> => after[Len(after)] = SteppingFrom'
<1> DEFINE asked == StepTiles(in_flight)
           turned == [sequence |-> sequence, direction |-> dir,
                      arrives_at |-> SteppingFrom, turn |-> TRUE]
           stepped == [sequence |-> sequence, direction |-> dir,
                       arrives_at |-> Head(next), turn |-> FALSE]
<1>1. in_flight \in Seq(PendingStep) /\ sequence \in Number /\ SteppingFrom \in Tile /\ asked \in Seq(Tile)
  BY SteppingFromType, RouteParts DEF TypeOK
<1>2. /\ Requeued' = asked \o next
      /\ LET after == StepTiles(in_flight')
         IN  after # <<>> => after[Len(after)] = SteppingFrom'
  <2>1. CASE path' = next /\ Send(dir, SteppingFrom, TRUE)
    <3>1. turned \in PendingStep /\ turned.turn /\ turned.arrives_at = SteppingFrom
      BY <1>1 DEF PendingStep
    <3>2. in_flight' = Append(in_flight, turned)
      BY <2>1 DEF Send
    <3> HIDE DEF turned
    <3>3. StepTiles(in_flight') = asked
      BY <1>1, <3>1, <3>2, StepTilesAppend
    <3>4. in_flight' # <<>> /\ in_flight'[Len(in_flight')] = turned
      BY <1>1, <3>2, AppendFacts, AppendProperties, EmptySeq
    <3>5. SteppingFrom' = SteppingFrom
      BY <3>1, <3>4 DEF SteppingFrom
    <3>6. Requeued' = asked \o next
      BY <2>1, <3>3 DEF Requeued
    <3> QED BY <3>3, <3>5, <3>6 DEF RouteInv
  <2>2. CASE next # <<>> /\ path' = Tail(next) /\ Send(dir, Head(next), FALSE)
    <3> DEFINE ahead == Head(next)
               after == Append(asked, ahead)
    <3>1. ahead \in Tile /\ Tail(next) \in Seq(Tile) /\ next # <<>>
      BY <2>2, TailFacts
    <3>2. stepped \in PendingStep /\ ~stepped.turn /\ stepped.arrives_at = ahead
      BY <1>1, <3>1 DEF PendingStep
    <3>3. in_flight' = Append(in_flight, stepped)
      BY <2>2 DEF Send
    <3> HIDE DEF stepped
    <3>4. StepTiles(in_flight') = after
      BY <1>1, <3>2, <3>3, StepTilesAppend
    <3>5. in_flight' # <<>> /\ in_flight'[Len(in_flight')] = stepped
      BY <1>1, <3>3, AppendFacts, AppendProperties, EmptySeq
    <3>6. SteppingFrom' = ahead
      BY <3>2, <3>5 DEF SteppingFrom
    <3>7. after \in Seq(Tile) /\ after[Len(after)] = ahead
      BY <1>1, <3>1, AppendFacts, AppendProperties
    <3>8. Requeued' = after \o Tail(next)
      BY <2>2, <3>4 DEF Requeued
    <3> HIDE DEF ahead, after, asked
    <3>9. after \o Tail(next) = asked \o next
      BY <1>1, <3>1, HeadGoesOver DEF after, ahead
    <3> QED BY <3>4, <3>6, <3>7, <3>8, <3>9
  <2> QED BY <2>1, <2>2
<1> QED BY <1>2

LEMMA PumpMovementOrder ==
    ASSUME TypeOK, TypeOK', RouteInv, PumpMovement
    PROVE  RouteInv' /\ KeepsOrder
<1> DEFINE asked == StepTiles(in_flight)
<1>1. PICK route \in {path} \cup (IF errand /\ ~Walking THEN Routes[location] ELSE {}) :
        LET next == Reachable(route, SteppingFrom)
            dir == DirTo(SteppingFrom, Head(next))
        IN  /\ IF next = <<>>
                 THEN path' = <<>> /\ UNCHANGED in_flight
               ELSE IF dir # FacingAfter
                 THEN path' = next /\ Send(dir, SteppingFrom, TRUE)
                 ELSE path' = Tail(next) /\ Send(dir, Head(next), FALSE)
  BY DEF PumpMovement
<1> DEFINE next == Reachable(route, SteppingFrom)
           dir == DirTo(SteppingFrom, Head(next))
<1>2. location \in Tile /\ SteppingFrom \in Tile
  BY SteppingFromType DEF TypeOK
<1>3. CASE next = <<>>
  BY <1>1, <1>3, LeftAlone
<1>4. CASE next # <<>>
  <2>1. \/ path' = next /\ Send(dir, SteppingFrom, TRUE)
        \/ next # <<>> /\ path' = Tail(next) /\ Send(dir, Head(next), FALSE)
    BY <1>1, <1>4
  <2>2. route \in Seq(Tile)
    BY <1>1, <1>2, RoutesType DEF TypeOK
  <2>3. /\ next \in Seq(Tile) /\ Trims(next, route)
        /\ route # <<>> /\ Near(SteppingFrom, route[1]) => next = route
    BY <1>2, <2>2, ReachableTrims
  <2>4. dir \in Dir
    BY <1>2, <1>4, <2>2, ReachableType, DirToType
  <2>5. /\ Requeued' = StepTiles(in_flight) \o next
        /\ LET after == StepTiles(in_flight')
           IN  after # <<>> => after[Len(after)] = SteppingFrom'
    <3>1. next \in Seq(Tile)
      BY <2>3
    <3> HIDE DEF next, dir
    <3> QED BY <2>1, <2>4, <3>1, SendKeepsTheRoute
  <2>6. CASE route = path
    <3>1. Trims(asked \o next, Requeued)
      <4>1. CASE asked = <<>>
        <5>1. asked \o next = next /\ Requeued = path
          BY <2>3, <4>1, RouteParts
        <5> QED BY <2>3, <2>6, <5>1
      <4>2. CASE path = <<>>
        <5>1. next = path
          <6>1. Len(next) <= Len(path)
            BY <2>3, <2>6 DEF Trims
          <6>2. Len(path) = 0
            BY <4>2
          <6> QED BY <1>4, <2>3, <6>1, <6>2, EmptySeq
        <5> QED BY <1>4, <4>2, <5>1
      <4>3. CASE asked # <<>> /\ path # <<>>
        <5>1. Near(SteppingFrom, path[1])
          BY <4>3, NextIsBeside
        <5>2. next = path
          BY <2>3, <2>6, <4>3, <5>1
        <5> QED BY <5>2, RouteParts, TrimsAll
      <4> QED BY <4>1, <4>2, <4>3
    <3> HIDE DEF next, dir, asked
    <3>2. Trims(StepTiles(in_flight) \o next, Requeued)
      BY <3>1 DEF asked
    <3>3. Trims(Requeued', Requeued)
      BY <2>5, <3>2
    <3> QED BY <2>5, <3>3, TrimmedRoute
  <2>7. CASE route # path
    <3>1. in_flight = <<>> /\ route \in Routes[location] /\ ~Walking
      BY <1>1, <2>7 DEF Walking
    <3>2. HoldsTogether(next)
      <4>1. HoldsTogether(route)
        BY <1>2, <3>1, RoutesHoldTogether
      <4> QED BY <2>2, <2>3, <4>1, TrimsAre
    <3> HIDE DEF next, dir, asked
    <3>3. RouteInv'
      <4>1. StepTiles(in_flight) \o next = next
        BY <2>3, <3>1, RouteParts
      <4> QED BY <2>5, <3>2, <4>1 DEF RouteInv
    <3> QED BY <3>1, <3>3 DEF KeepsOrder
  <2> QED BY <2>6, <2>7
<1> QED BY <1>3, <1>4

\* An order and an errand may set another route, the rest leaves it or lets it go.
LEMMA CallersOrder ==
    ASSUME TypeOK, TypeOK', RouteInv, Callers
    PROVE  RouteInv' /\ KeepsOrder
<1>1. CASE ResyncWaitEnds \/ ErrandEnds \/ Stop \/ ScriptResync \/ ForgetEdge
  <2>1. UNCHANGED in_flight /\ path' \in {path, <<>>}
    BY <1>1 DEF ResyncWaitEnds, ErrandEnds, Stop, ScriptResync, ForgetEdge, client
  <2> QED BY <2>1, LeftAlone
<1>2. CASE SetPath
  <2>1. UNCHANGED <<in_flight, location>> /\ path' \in Routes[SteppingFrom] \cup {path, <<>>}
    BY <1>2 DEF SetPath
  <2>2. RouteInv'
    BY <2>1, RoutesJoinOn, LeftAlone
  <2> QED BY <1>2, <2>2 DEF KeepsOrder
<1>3. CASE SentOn
  <2>1. UNCHANGED <<in_flight, location>> /\ path' \in Routes[SteppingFrom] \cup {<<>>}
    BY <1>3 DEF SentOn
  <2>2. RouteInv'
    BY <2>1, RoutesJoinOn, LeftAlone
  <2> QED BY <1>3, <2>2 DEF KeepsOrder
<1>4. CASE StandingTurn
  <2>1. PICK dir \in Dir : Send(dir, location, TRUE)
    BY <1>4 DEF StandingTurn
  <2>2. in_flight = <<>> /\ path' = path /\ path \in Seq(Tile)
    BY <1>4 DEF StandingTurn, TypeOK
  <2>3. Send(dir, SteppingFrom, TRUE)
    BY <2>1, <2>2 DEF SteppingFrom
  <2>4. /\ Requeued' = StepTiles(in_flight) \o path
        /\ LET after == StepTiles(in_flight')
           IN  after # <<>> => after[Len(after)] = SteppingFrom'
    BY <2>2, <2>3, SendKeepsTheRoute
  <2>5. Trims(Requeued', Requeued)
    BY <2>4, RouteParts, TrimsAll
  <2> QED BY <2>4, <2>5, TrimmedRoute
<1> QED BY <1>1, <1>2, <1>3, <1>4 DEF Callers

\* An answer takes its request and those before it off the front.
LEMMA AckOrder ==
    ASSUME TypeOK, TypeOK', RouteInv, NEW answer, AcceptMoveAck(answer)
    PROVE  RouteInv' /\ KeepsOrder
<1> DEFINE named == {i \in 1 .. Len(in_flight) : in_flight[i].sequence = answer.sequence}
           m == Min(named)
<1>1. CASE named = {}
  <2>1. AskResync
    BY <1>1 DEF AcceptMoveAck
  <2>2. CASE resync_asked = "asked"
    <3>1. UNCHANGED <<in_flight, path>>
      BY <2>1, <2>2 DEF AskResync
    <3> QED BY <3>1, LeftAlone
  <2>3. CASE resync_asked # "asked"
    <3>1. in_flight' = <<>> /\ path' = Requeued
      BY <2>1, <2>3 DEF AskResync, Refused
    <3> QED BY <3>1, ThrownAway
  <2> QED BY <2>2, <2>3
<1>2. CASE named # {}
  <2>1. named \in SUBSET Nat
    OBVIOUS
  <2>2. m \in named
    BY <1>2, <2>1, LeastOfNaturals
  <2>3. in_flight' = SubSeq(in_flight, m + 1, Len(in_flight)) /\ path' = path
    BY <1>2 DEF AcceptMoveAck
  <2>4. m \in 1 .. Len(in_flight) /\ in_flight \in Seq(PendingStep) /\ Len(in_flight) \in Nat
    BY <2>2 DEF TypeOK
  <2> HIDE DEF m, named
  <2> DEFINE c == StepsUpTo(in_flight, m)
             before == StepTiles(in_flight)
             after == StepTiles(in_flight')
  <2>5. /\ c \in Nat /\ c + Len(after) = Len(before)
        /\ \A k \in 1 .. Len(after) : after[k] = before[c + k]
    BY <2>3, <2>4, StepTilesOfRest
  <2>6. /\ before \in Seq(Tile) /\ after \in Seq(Tile) /\ path \in Seq(Tile)
        /\ Requeued = before \o path /\ Requeued' = after \o path
    BY <2>3, RouteParts, RoutePartsNext
  <2> HIDE DEF c, before, after
  <2>7. Trims(Requeued', Requeued)
    BY <2>5, <2>6, TrimsFront
  <2>8. ASSUME after # <<>>
        PROVE  after[Len(after)] = SteppingFrom'
    <3>1. in_flight' # <<>>
      BY <2>8, RoutePartsNext DEF after
    <3>2. /\ Len(in_flight') = Len(in_flight) - m
          /\ \A i \in 1 .. Len(in_flight) - m : in_flight'[i] = in_flight[m + i]
          /\ in_flight' = <<>> <=> Len(in_flight) = m
      BY <2>3, <2>4, CutFacts
    <3>3. Len(in_flight') \in 1 .. Len(in_flight) - m /\ m + Len(in_flight') = Len(in_flight)
      BY <2>4, <3>1, <3>2
    <3>4. in_flight'[Len(in_flight')] = in_flight[Len(in_flight)] /\ in_flight # <<>>
      BY <2>4, <3>2, <3>3
    <3>5. SteppingFrom' = SteppingFrom
      BY <3>1, <3>4 DEF SteppingFrom
    <3>6. Len(after) \in Nat /\ Len(after) # 0 /\ Len(before) \in Nat
      BY <2>6, <2>8, EmptySeq
    <3>7. Len(after) \in 1 .. Len(after) /\ after[Len(after)] = before[Len(before)] /\ Len(before) # 0
      BY <2>5, <3>6
    <3>8. before # <<>>
      BY <3>7
    <3>9. before[Len(before)] = SteppingFrom
      BY <3>8 DEF RouteInv, before
    <3> QED BY <3>5, <3>7, <3>9
  <2> QED BY <2>7, <2>8, TrimmedRoute DEF after
<1> QED BY <1>1, <1>2

\* A refusal of a crossing throws the steps in flight away: back on the route,
\* or the planner's route instead, or none.
LEMMA RefuseStepOrder ==
    ASSUME TypeOK, TypeOK', RouteInv, NEW answer, RefuseStep(answer)
    PROVE  RouteInv' /\ KeepsOrder
<1>1. CASE UNCHANGED <<in_flight, path>>
  BY <1>1, LeftAlone
<1>2. CASE /\ in_flight' = <<>>
           /\ \/ TryTheDoor(<<answer.at, Head(in_flight).arrives_at>>)
              \/ ReplanTheRoute
              \/ GaveUp
  <2>1. CASE path' \in {<<>>, Requeued}
    BY <1>2, <2>1, ThrownAway
  <2>2. CASE path' \in Routes[location] /\ replans < ReplansMax /\ replans' = replans + 1
    <3>1. HoldsTogether(path')
      BY <2>2, RoutesHoldTogether DEF TypeOK
    <3>2. RouteInv'
      BY <1>2, <3>1, ThrownAway
    <3>3. replans' # replans
      BY <2>2 DEF TypeOK
    <3> QED BY <3>2, <3>3 DEF KeepsOrder
  <2>3. ReplanTheRoute =>
          \/ path' \in {<<>>, Requeued}
          \/ path' \in Routes[location] /\ replans < ReplansMax /\ replans' = replans + 1
    BY DEF ReplanTheRoute
  <2>4. TryTheDoor(<<answer.at, Head(in_flight).arrives_at>>) \/ GaveUp => path' \in {<<>>, Requeued}
    BY DEF TryTheDoor, GaveUp
  <2> QED BY <1>2, <2>1, <2>2, <2>3, <2>4
<1> QED BY <1>1, <1>2 DEF RefuseStep, Refused

LEMMA ReceiveOrder ==
    ASSUME TypeOK, TypeOK', RouteInv, Receive
    PROVE  RouteInv' /\ KeepsOrder
<1> DEFINE answer == Head(toClient)
<1>1. CASE AcceptMoveAck(answer)
  BY <1>1, AckOrder
<1>2. CASE RefuseStep(answer)
  BY <1>2, RefuseStepOrder
<1>3. CASE Redrawn(answer)
  <2>1. in_flight' = <<>> /\ path' = Requeued
    BY <1>3 DEF Redrawn, Refused
  <2> QED BY <2>1, ThrownAway
<1>4. CASE LeaveMap(answer)
  <2>1. UNCHANGED in_flight /\ path' = <<>>
    BY <1>4 DEF LeaveMap
  <2> QED BY <2>1, LeftAlone
<1> QED BY <1>1, <1>2, <1>3, <1>4 DEF Receive

LEMMA RouteStep ==
    ASSUME TypeOK, TypeOK', RouteInv, [Next]_vars
    PROVE  RouteInv' /\ KeepsOrder
<1>1. CASE PumpMovement
  BY <1>1, PumpMovementOrder
<1>2. CASE ExpireStale
  <2>1. in_flight' = <<>> /\ path' = <<>>
    BY <1>2 DEF ExpireStale, Refused
  <2> QED BY <2>1, ThrownAway
<1>3. CASE Callers
  BY <1>3, CallersOrder
<1>4. CASE Receive
  BY <1>4, ReceiveOrder
<1>5. CASE FramingError
  <2>1. in_flight' = <<>> /\ path' = Requeued
    BY <1>5 DEF FramingError, Refused
  <2> QED BY <2>1, ThrownAway
<1>6. CASE Serve \/ ShardMovesHim \/ UNCHANGED vars
  <2>1. UNCHANGED <<in_flight, path>>
    BY <1>6 DEF Serve, ShardMovesHim, vars, client
  <2> QED BY <2>1, LeftAlone
<1> QED BY <1>1, <1>2, <1>3, <1>4, <1>5, <1>6 DEF Next, Callers

\* Whatever is answered, refused, redrawn or lost, the steps asked for and the
\* steps to come stay one route in order: no tile of it is asked for twice, passed
\* over or put back in another place, as long as the planner's routes go from
\* tile to tile (RouteKeepsItsOrder of Walk).
THEOREM WalkKeepsItsOrder == Spec => RouteKeepsItsOrder
<1>1. Init => RouteInv
  <2> SUFFICES ASSUME Init PROVE RouteInv
    OBVIOUS
  <2>1. in_flight = <<>> /\ path = <<>> /\ in_flight \in Seq(PendingStep)
    BY DEF Init
  <2>2. StepTiles(in_flight) = <<>>
    BY <2>1, StepTilesLen
  <2>3. Requeued = <<>>
    BY <2>1, <2>2 DEF Requeued
  <2>4. HoldsTogether(Requeued)
    BY <2>3 DEF HoldsTogether
  <2> QED BY <2>2, <2>4 DEF RouteInv
<1>2. RouteInv /\ TypeOK /\ TypeOK' /\ [Next]_vars => RouteInv'
  BY RouteStep
<1>3. RouteInv /\ TypeOK /\ TypeOK' /\ [Next]_vars
        => [\/ IsStretchOf(Remaining', Remaining)
            \/ SetPath \/ SentOn \/ ~Walking
            \/ replans' # replans]_<<in_flight, path>>
  BY RouteStep DEF KeepsOrder
<1> QED
  BY <1>1, <1>2, <1>3, TypeCorrect, PTL DEF Spec, RouteKeepsItsOrder
=============================================================================
