----------------------------- MODULE HandProofs -----------------------------
(***************************************************************************)
(* What holds of the jobs and of the human's control for any number of     *)
(* items and calls: the types, one of hunt and walk at a time, no job,     *)
(* goal, follow or run-once job of the agent's while a human has the       *)
(* character, and, when the shard's answers come within ACTION_BUDGET, one *)
(* item in the hand at a time.                                             *)
(***************************************************************************)
EXTENDS Hand, DataFacts

(***************************************************************************)
(* The types, with what the wire and the cursor add to TypeOK: a lift goes *)
(* to the cursor and a drop to a place, and what is on the cursor lay      *)
(* somewhere.                                                              *)
(***************************************************************************)
Requests == [op : {"lift"}, item : Item, dest : {"cursor"}]
            \cup [op : {"drop"}, item : Item, dest : Place]
Packets == [kind : {"deleted", "added", "on_ground", "grew", "accepted", "rejected"},
            item : Item, place : Place]

HandInv ==
    /\ holding \in Item \cup {NoItem}
    /\ sent_drop \in Item \cup {NoItem}
    /\ wire \in Seq(Requests)
JobsInv ==
    /\ loot \in Jobs
    /\ deposit \in Jobs
    /\ hunt \in [on : BOOLEAN, loot : Jobs]
    /\ walk \in BOOLEAN
    /\ goal \in {"idle", "hunt", "travel"}
    /\ follow \in BOOLEAN
    /\ agents \subseteq {"once", "switched"}
    /\ human \in BOOLEAN
    /\ by \in [Things -> Callers]
LinkInv ==
    /\ parent \in [Item -> Place \cup {"away"}]
    /\ news \in Seq(Packets)
ShardInv ==
    /\ cursor \in Item \cup {NoItem}
    /\ at \in [Item -> Place \cup {"gone"}]
    /\ cursor # NoItem => at[cursor] # "gone"
CountInv ==
    /\ crossed \in BOOLEAN
    /\ inputs \in 0 .. MaxInputs

IInv == HandInv /\ JobsInv /\ LinkInv /\ ShardInv /\ CountInv /\ OneRunningJob /\ AgentKeptOut

-----------------------------------------------------------------------------
(* Jobs and requests. *)

LEMMA NewJobIsJob ==
    /\ NewJob \in Jobs /\ NoJob \in Jobs /\ NewJob.on /\ ~NoJob.on
    /\ [NewJob EXCEPT !.kept = TRUE] \in Jobs
<1> DEFINE none == [i \in Item |-> 0]
<1>1. none \in [Item -> 0 .. MaxLifts]
  BY HandType
<1>2. NewJob = [on |-> TRUE, lifts |-> none, kept |-> FALSE]
  BY DEF NewJob
<1> HIDE DEF none
<1>3. NewJob \in Jobs /\ NewJob.on
  BY <1>1, <1>2 DEF Jobs
<1>4. NoJob \in Jobs /\ ~NoJob.on
  BY <1>3 DEF NoJob, Jobs
<1>5. [NewJob EXCEPT !.kept = TRUE] \in Jobs
  BY <1>3 DEF Jobs
<1> QED
  BY <1>3, <1>4, <1>5

LEMMA NoHuntIsHunt ==
    /\ NoHunt \in [on : BOOLEAN, loot : Jobs] /\ ~NoHunt.on
    /\ NewHunt \in [on : BOOLEAN, loot : Jobs] /\ NewHunt.on
BY NewJobIsJob DEF NoHunt, NewHunt

LEMMA NotedIsJob ==
    ASSUME NEW job \in Jobs, NEW i \in Item, MayLift(job, i)
    PROVE  NoteLift(job, i) \in Jobs /\ NoteLift(job, i).on = job.on
<1>1. job.lifts \in [Item -> 0 .. MaxLifts] /\ job.on \in BOOLEAN /\ job.kept \in BOOLEAN
  BY DEF Jobs
<1>2. NoteLift(job, i) =
        [on |-> job.on, lifts |-> [job.lifts EXCEPT ![i] = @ + 1], kept |-> job.kept]
  BY DEF NoteLift, Jobs
<1>3. job.lifts[i] + 1 \in 0 .. MaxLifts
  BY <1>1, HandType DEF MayLift
<1>4. [job.lifts EXCEPT ![i] = @ + 1] \in [Item -> 0 .. MaxLifts]
  BY <1>1, <1>3
<1> QED
  BY <1>1, <1>2, <1>4 DEF Jobs

\* A step of a job leaves a job, and starts none.
LEMMA AfterIsJob ==
    ASSUME NEW job \in Jobs, NEW after \in After(job)
    PROVE  after \in Jobs /\ (after.on => job.on)
BY NewJobIsJob, NotedIsJob DEF After

LEMMA RequestTypes ==
    /\ \A i \in Item : Lift(i) \in Requests
    /\ \A i \in Item, p \in Place : Drop(i, p) \in Requests
BY DEF Lift, Drop, Requests

LEMMA JobStepKeepsHand ==
    ASSUME HandInv, NEW job \in Jobs, NEW source, NEW dest \in Place,
           NEW sent \in Item \cup {NoItem}, NEW after, JobStep(job, source, dest, sent, after)
    PROVE  HandInv'
<1>1. CASE holding # NoItem
  <2>1. holding \in Item
    BY <1>1 DEF HandInv
  <2>2. Drop(holding, dest) \in Requests
    BY <2>1, RequestTypes
  <2>3. holding' = holding /\ DropHeld(dest, sent)
    BY <1>1 DEF JobStep
  <2>4. sent_drop' \in Item \cup {NoItem} /\ wire' \in Seq(Requests)
    BY <2>1, <2>2, <2>3 DEF DropHeld, HandInv
  <2> QED
    BY <2>3, <2>4 DEF HandInv
<1>2. CASE holding = NoItem
  <2>1. CASE sent_drop' = sent /\ UNCHANGED <<wire, holding>>
    BY <2>1 DEF HandInv
  <2>2. CASE \E i \in Left(source) : LiftNext(job, i)
    <3>1. PICK i \in Left(source) : LiftNext(job, i)
      BY <2>2
    <3>2. i \in Item
      BY DEF Left
    <3>3. Lift(i) \in Requests
      BY <3>2, RequestTypes
    <3>4. wire' = Append(wire, Lift(i)) /\ holding' = i /\ sent_drop' = NoItem
      BY <3>1 DEF LiftNext, AfterLift
    <3>5. wire' \in Seq(Requests)
      BY <3>3, <3>4 DEF HandInv
    <3> QED
      BY <3>2, <3>4, <3>5 DEF HandInv
  <2> QED
    BY <1>2, <2>1, <2>2 DEF JobStep
<1> QED
  BY <1>1, <1>2

-----------------------------------------------------------------------------
LEMMA InvAtFirst == Init => IInv
<1> SUFFICES ASSUME Init PROVE IInv
  OBVIOUS
<1>1. at \in [Item -> {"corpse", "pack"}]
  BY HandType DEF Init
<1>2. HandInv
  BY DEF Init, HandInv
<1>3. JobsInv
  BY NewJobIsJob, NoHuntIsHunt, HandType DEF Init, JobsInv, Callers
<1>4. LinkInv
  BY <1>1 DEF Init, LinkInv, Place
<1>5. ShardInv
  BY <1>1 DEF Init, ShardInv, Place
<1>6. CountInv
  <2>1. inputs \in 0 .. MaxInputs
    BY HandType DEF Init
  <2>2. crossed \in BOOLEAN
    BY Zenon DEF Init
  <2> QED
    BY <2>1, <2>2 DEF CountInv
<1>7. OneRunningJob /\ AgentKeptOut
  BY NoHuntIsHunt DEF Init, OneRunningJob, AgentKeptOut
<1> QED
  BY <1>2, <1>3, <1>4, <1>5, <1>6, <1>7 DEF IInv

LEMMA InputCounts == ASSUME inputs \in 0 .. MaxInputs, Input PROVE inputs' \in 0 .. MaxInputs
BY HandType DEF Input

\* What the two rules about jobs read.
ruled == <<walk, goal, follow, agents, human, by>>

\* Jobs that only stop break neither rule.
LEMMA StoppingKeepsRules ==
    ASSUME JobsInv, OneRunningJob, AgentKeptOut, UNCHANGED ruled,
           loot'.on => loot.on, deposit'.on => deposit.on, hunt'.on = hunt.on
    PROVE  OneRunningJob' /\ AgentKeptOut'
<1>1. OneRunningJob'
  BY DEF OneRunningJob, ruled, JobsInv
<1>2. \A t \in Things : Running(t)' => Running(t)
  BY DEF Running, ruled, Things
<1>3. AgentKeptOut'
  BY <1>2 DEF AgentKeptOut, ruled
<1> QED
  BY <1>1, <1>3

LEMMA LeftHandIsCounted ==
    ASSUME crossed \in BOOLEAN, HandIsLeft \/ UNCHANGED crossed
    PROVE  crossed' \in BOOLEAN
BY DEF HandIsLeft

LEMMA CountStays ==
    ASSUME CountInv, Input, HandIsLeft \/ UNCHANGED crossed \/ crossed' = TRUE
    PROVE  CountInv'
<1>1. inputs' \in 0 .. MaxInputs
  BY InputCounts DEF CountInv
<1>2. crossed' \in BOOLEAN
  BY LeftHandIsCounted DEF CountInv
<1> QED
  BY <1>1, <1>2 DEF CountInv

\* The end of the hunt.
LEMMA HuntEnded ==
    ASSUME EndHunt
    PROVE  /\ hunt' \in [on : BOOLEAN, loot : Jobs] /\ ~hunt'.on
           /\ HandIsLeft \/ UNCHANGED crossed
BY NoHuntIsHunt DEF EndHunt

-----------------------------------------------------------------------------
(* The tick. *)

LEMMA PumpKeepsInv == ASSUME IInv, PumpJobs PROVE IInv'
<1> USE DEF IInv
<1>1. UNCHANGED <<parent, walk, goal, follow, agents, by, human, news, shard, crossed, inputs>>
  BY DEF PumpJobs
<1>2. LinkInv' /\ ShardInv' /\ CountInv'
  BY <1>1 DEF LinkInv, ShardInv, CountInv, shard
<1>3. UNCHANGED ruled /\ sent_drop \in Item \cup {NoItem}
  BY <1>1 DEF ruled, HandInv
<1>4. /\ loot \in Jobs /\ deposit \in Jobs /\ hunt \in [on : BOOLEAN, loot : Jobs]
      /\ "pack" \in Place /\ "bank" \in Place
  BY DEF JobsInv, Place
<1>5. CASE PumpLoot
  <2>1. PICK after \in After(loot) : loot' = after /\ JobStep(loot, "corpse", "pack", sent_drop, after)
    BY <1>5 DEF PumpLoot, LootStep
  <2>2. HandInv'
    BY <1>3, <1>4, <2>1, JobStepKeepsHand
  <2>3. loot' \in Jobs /\ (loot'.on => loot.on) /\ UNCHANGED <<deposit, hunt>>
    BY <1>4, <1>5, <2>1, AfterIsJob DEF PumpLoot
  <2>4. JobsInv'
    BY <1>1, <2>3 DEF JobsInv
  <2>5. OneRunningJob' /\ AgentKeptOut'
    BY <1>3, <2>3, StoppingKeepsRules
  <2> QED
    BY <1>2, <2>2, <2>4, <2>5
<1>6. CASE PumpDeposit
  <2>1. PICK after \in After(deposit) :
           deposit' = after /\ JobStep(deposit, "pack", "bank", sent_drop, after)
    BY <1>6 DEF PumpDeposit, DepositStep
  <2>2. HandInv'
    BY <1>3, <1>4, <2>1, JobStepKeepsHand
  <2>3. deposit' \in Jobs /\ (deposit'.on => deposit.on) /\ UNCHANGED <<loot, hunt>>
    BY <1>4, <1>6, <2>1, AfterIsJob DEF PumpDeposit
  <2>4. JobsInv'
    BY <1>1, <2>3 DEF JobsInv
  <2>5. OneRunningJob' /\ AgentKeptOut'
    BY <1>3, <2>3, StoppingKeepsRules
  <2> QED
    BY <1>2, <2>2, <2>4, <2>5
<1>7. CASE PumpHunt
  <2>1. PICK after \in After(hunt.loot) :
           /\ hunt' = [hunt EXCEPT !.loot = after]
           /\ JobStep(hunt.loot, "corpse", "pack", sent_drop, after)
    BY <1>7 DEF PumpHunt
  <2>2. HandInv' /\ after \in Jobs
    BY <1>3, <1>4, <2>1, JobStepKeepsHand, AfterIsJob
  <2>3. hunt' \in [on : BOOLEAN, loot : Jobs] /\ hunt'.on = hunt.on
    BY <1>4, <2>1, <2>2
  <2>4. UNCHANGED <<loot, deposit>>
    BY <1>7 DEF PumpHunt
  <2>5. JobsInv'
    BY <1>1, <2>3, <2>4 DEF JobsInv
  <2>6. OneRunningJob' /\ AgentKeptOut'
    BY <1>3, <2>3, <2>4, StoppingKeepsRules
  <2> QED
    BY <1>2, <2>2, <2>5, <2>6
<1> QED
  BY <1>5, <1>6, <1>7 DEF PumpJobs

\* A job is kept from its turn or comes to it: nothing else moves.
LEMMA KeptKeepsInv == ASSUME IInv, KeptOrFreed PROVE IInv'
<1> USE DEF IInv
<1>1. UNCHANGED <<hand, parent, loot, walk, goal, follow, agents, by, human, news, shard,
                  crossed, inputs>>
  BY DEF KeptOrFreed
<1>2. HandInv' /\ LinkInv' /\ ShardInv' /\ CountInv'
  BY <1>1 DEF HandInv, LinkInv, ShardInv, CountInv, hand, shard
<1>3. deposit \in Jobs /\ hunt \in [on : BOOLEAN, loot : Jobs]
  BY DEF JobsInv
<1>4. /\ deposit' \in Jobs /\ deposit'.on = deposit.on
      /\ hunt' \in [on : BOOLEAN, loot : Jobs] /\ hunt'.on = hunt.on
  <2>1. CASE deposit' = [deposit EXCEPT !.kept = ~@] /\ UNCHANGED hunt
    BY <1>3, <2>1 DEF Jobs
  <2>2. CASE hunt' = [hunt EXCEPT !.loot.kept = ~@] /\ UNCHANGED deposit
    BY <1>3, <2>2 DEF Jobs
  <2> QED
    BY <2>1, <2>2 DEF KeptOrFreed
<1>5. JobsInv'
  BY <1>1, <1>4 DEF JobsInv
<1>6. OneRunningJob' /\ AgentKeptOut'
  BY <1>1, <1>4, StoppingKeepsRules DEF ruled
<1> QED
  BY <1>2, <1>5, <1>6

LEMMA FailureKeepsInv == ASSUME IInv, JobFails PROVE IInv'
<1> USE DEF IInv
<1>1. UNCHANGED <<hand, parent, walk, goal, follow, agents, by, human, news, shard>>
  BY DEF JobFails
<1>2. HandInv' /\ LinkInv' /\ ShardInv'
  BY <1>1 DEF HandInv, LinkInv, ShardInv, hand, shard
<1>3. CountInv'
  BY CountStays DEF JobFails
<1>4. loot \in Jobs /\ deposit \in Jobs /\ hunt \in [on : BOOLEAN, loot : Jobs]
  BY DEF JobsInv
<1>5. /\ loot' \in Jobs /\ (loot'.on => loot.on)
      /\ deposit' \in Jobs /\ (deposit'.on => deposit.on)
      /\ hunt' \in [on : BOOLEAN, loot : Jobs] /\ hunt'.on = hunt.on
  BY <1>4, NewJobIsJob DEF JobFails
<1>6. JobsInv'
  BY <1>1, <1>5 DEF JobsInv
<1>7. OneRunningJob' /\ AgentKeptOut'
  BY <1>1, <1>5, StoppingKeepsRules DEF ruled
<1> QED
  BY <1>2, <1>3, <1>6, <1>7

LEMMA KillKeepsInv == ASSUME IInv, HuntKills PROVE IInv'
<1> USE DEF IInv
<1>1. UNCHANGED <<hand, parent, loot, deposit, walk, goal, follow, agents, by, human, news,
                  shard, crossed>>
  BY DEF HuntKills
<1>2. HandInv' /\ LinkInv' /\ ShardInv'
  BY <1>1 DEF HandInv, LinkInv, ShardInv, hand, shard
<1>3. CountInv'
  BY <1>1, CountStays DEF HuntKills
<1>4. hunt' \in [on : BOOLEAN, loot : Jobs] /\ hunt'.on = hunt.on
  BY NewJobIsJob DEF HuntKills, JobsInv
<1>5. JobsInv'
  BY <1>1, <1>4 DEF JobsInv
<1>6. OneRunningJob' /\ AgentKeptOut'
  BY <1>1, <1>4, StoppingKeepsRules DEF ruled
<1> QED
  BY <1>2, <1>3, <1>5, <1>6

LEMMA EndKeepsInv == ASSUME IInv, JobEnds PROVE IInv'
<1> USE DEF IInv
<1>1. UNCHANGED <<hand, parent, loot, deposit, agents, by, human, news, shard>>
  BY DEF JobEnds
<1>2. HandInv' /\ LinkInv' /\ ShardInv'
  BY <1>1 DEF HandInv, LinkInv, ShardInv, hand, shard
<1>3. \/ EndHunt /\ goal' = "idle" /\ UNCHANGED <<walk, follow>>
      \/ walk' = FALSE /\ goal' = "idle" /\ UNCHANGED <<hunt, follow, crossed>>
      \/ follow' = FALSE /\ UNCHANGED <<hunt, walk, goal, crossed>>
  BY DEF JobEnds
<1>4. CountInv'
  BY <1>3, HuntEnded, CountStays DEF JobEnds
<1>5. /\ JobsInv' /\ OneRunningJob'
      /\ \A t \in Things : Running(t)' => Running(t)
  <2>1. CASE EndHunt /\ goal' = "idle" /\ UNCHANGED <<walk, follow>>
    <3>1. hunt' \in [on : BOOLEAN, loot : Jobs] /\ ~hunt'.on
      BY <2>1, HuntEnded
    <3> QED
      BY <1>1, <2>1, <3>1 DEF JobsInv, OneRunningJob, Running, Things
  <2>2. CASE walk' = FALSE /\ goal' = "idle" /\ UNCHANGED <<hunt, follow, crossed>>
    BY <1>1, <2>2 DEF JobsInv, OneRunningJob, Running, Things
  <2>3. CASE follow' = FALSE /\ UNCHANGED <<hunt, walk, goal, crossed>>
    BY <1>1, <2>3 DEF JobsInv, OneRunningJob, Running, Things
  <2> QED
    BY <1>3, <2>1, <2>2, <2>3
<1>6. AgentKeptOut'
  BY <1>1, <1>5 DEF AgentKeptOut
<1> QED
  BY <1>2, <1>4, <1>5, <1>6

LEMMA HoldKeepsInv == ASSUME IInv, HoldLimit PROVE IInv'
<1> USE DEF IInv
<1>1. /\ holding' = NoItem /\ crossed' = TRUE /\ Input
      /\ UNCHANGED <<sent_drop, parent, jobs, human, wire, news, shard>>
  BY DEF HoldLimit
<1>2. HandInv' /\ LinkInv' /\ ShardInv' /\ JobsInv'
  BY <1>1 DEF HandInv, LinkInv, ShardInv, JobsInv, shard, jobs
<1>3. CountInv'
  BY <1>1, CountStays
<1>4. OneRunningJob' /\ AgentKeptOut'
  BY <1>1, StoppingKeepsRules DEF ruled, jobs
<1> QED
  BY <1>2, <1>3, <1>4

LEMMA MovesKeepHand ==
    ASSUME HandInv, NEW i \in Item, NEW p \in Place, Moves(i, p)
    PROVE  HandInv'
<1>1. Lift(i) \in Requests /\ Drop(i, p) \in Requests
  BY RequestTypes
<1>2. /\ wire' = wire \o <<Lift(i), Drop(i, p)>>
      /\ holding' = i
      /\ sent_drop' = i
  BY DEF Moves, LiftAndDrop
<1>3. wire' \in Seq(Requests)
  <2>1. <<Lift(i), Drop(i, p)>> \in Seq(Requests)
    BY <1>1
  <2> QED
    BY <1>2, <2>1 DEF HandInv
<1> QED
  BY <1>2, <1>3 DEF HandInv

LEMMA AgentsKeepInv == ASSUME IInv, AgentMoves PROVE IInv'
<1> USE DEF IInv
<1>1. /\ Input
      /\ \E i \in Item, p \in Place : Moves(i, p)
      /\ UNCHANGED <<parent, jobs, human, news, shard, crossed>>
  BY DEF AgentMoves
<1>2. HandInv'
  BY <1>1, MovesKeepHand
<1>3. LinkInv' /\ ShardInv' /\ JobsInv'
  BY <1>1 DEF LinkInv, ShardInv, JobsInv, shard, jobs
<1>4. CountInv'
  BY <1>1, CountStays
<1>5. OneRunningJob' /\ AgentKeptOut'
  BY <1>1, StoppingKeepsRules DEF ruled, jobs
<1> QED
  BY <1>2, <1>3, <1>4, <1>5

LEMMA LeavingKeepsInv == ASSUME IInv, LeaveMap PROVE IInv'
<1> USE DEF IInv
<1>1. /\ Input /\ loot' = NoJob /\ deposit' = NoJob
      /\ goal' = (IF goal = "travel" THEN "idle" ELSE goal)
      /\ HandIsLeft \/ UNCHANGED crossed
      /\ follow' = FALSE
      /\ UNCHANGED <<hand, parent, hunt, walk, agents, by, human, news, shard>>
  BY DEF LeaveMap
<1>2. HandInv' /\ LinkInv' /\ ShardInv'
  BY <1>1 DEF HandInv, LinkInv, ShardInv, hand, shard
<1>3. CountInv'
  BY <1>1, CountStays
<1>4. JobsInv'
  BY <1>1, NewJobIsJob DEF JobsInv
<1>5. OneRunningJob'
  BY <1>1 DEF OneRunningJob
<1>6. AgentKeptOut'
  <2>1. \A t \in Things : Running(t)' => Running(t)
    BY <1>1, NewJobIsJob DEF Running, Things
  <2> QED
    BY <1>1, <2>1 DEF AgentKeptOut
<1> QED
  BY <1>2, <1>3, <1>4, <1>5, <1>6

-----------------------------------------------------------------------------
(* The calls. *)

\* A call that sets some things going in the name of who may call.
LEMMA SettingKeepsInv ==
    ASSUME IInv, NEW who \in Callers, Gate(who), NEW things \in SUBSET Things,
           Sets(who, things), UNCHANGED human, JobsInv', OneRunningJob',
           \A t \in Things : Running(t)' => Running(t) \/ t \in things
    PROVE  AgentKeptOut'
<1>1. by' = [t \in Things |-> IF t \in things THEN who ELSE by[t]]
  BY DEF Sets
<1>2. ASSUME human, NEW t \in Things \ {"switched"}, Running(t)' PROVE by'[t] = "human"
  <2>1. who = "human"
    BY <1>2 DEF Gate
  <2>2. CASE t \in things
    BY <1>1, <2>1, <2>2
  <2>3. CASE t \notin things
    <3>1. Running(t)
      BY <1>2, <2>3
    <3> QED
      BY <1>1, <1>2, <2>3, <3>1 DEF IInv, AgentKeptOut
  <2> QED
    BY <2>2, <2>3
<1>3. human' = human
  OBVIOUS
<1> QED
  BY <1>2, <1>3 DEF AgentKeptOut

LEMMA SetByCallers ==
    ASSUME IInv, NEW who \in Callers, NEW things, Sets(who, things)
    PROVE  by' \in [Things -> Callers]
BY DEF Sets, IInv, JobsInv

LEMMA SetGoing ==
    ASSUME IInv, NEW who \in Callers, Gate(who),
           \/ StartLoot(who)
           \/ StartDeposit(who)
           \/ StartHunt(who)
           \/ StartWalk(who)
           \/ SetGoalHunt(who)
           \/ SetGoal(who)
           \/ MoveTo(who)
           \/ WalkHold
           \/ Follow(who)
           \/ \E a \in {"once", "switched"} : RunAgent(who, a)
    PROVE  /\ HandInv' /\ JobsInv' /\ OneRunningJob' /\ AgentKeptOut'
           /\ HandIsLeft \/ UNCHANGED crossed
<1> USE DEF IInv
<1>1. /\ loot \in Jobs /\ deposit \in Jobs /\ hunt \in [on : BOOLEAN, loot : Jobs]
      /\ "pack" \in Place /\ "bank" \in Place
      /\ walk \in BOOLEAN /\ human \in BOOLEAN /\ goal \in {"idle", "hunt", "travel"}
  BY DEF JobsInv, Place
<1>2. CASE StartLoot(who)
  <2>1. PICK after \in After(NewJob) : loot' = after /\ JobStep(NewJob, "corpse", "pack", NoItem, after)
    BY <1>2 DEF StartLoot, LootStep
  <2>2. HandInv'
    BY <1>1, <2>1, NewJobIsJob, JobStepKeepsHand
  <2>3. loot' \in Jobs
    BY <2>1, NewJobIsJob, AfterIsJob
  <2>4. Sets(who, {"loot"}) /\ UNCHANGED <<deposit, hunt, walk, goal, follow, agents, human, crossed>>
    BY <1>2 DEF StartLoot
  <2>5. JobsInv'
    BY <1>1, <2>3, <2>4, SetByCallers DEF JobsInv
  <2>6. OneRunningJob'
    BY <2>4 DEF OneRunningJob
  <2>7. \A t \in Things : Running(t)' => Running(t) \/ t \in {"loot"}
    BY <2>4 DEF Running, Things
  <2> QED
    BY <2>2, <2>4, <2>5, <2>6, <2>7, SettingKeepsInv DEF Things
<1>3. CASE StartDeposit(who)
  <2>1. HandInv' /\ deposit' \in Jobs
    <3>1. CASE DepositStep(NewJob, NoItem)
      <4>1. PICK after \in After(NewJob) :
              deposit' = after /\ JobStep(NewJob, "pack", "bank", NoItem, after)
        BY <3>1 DEF DepositStep
      <4> QED
        BY <1>1, <4>1, NewJobIsJob, AfterIsJob, JobStepKeepsHand
    <3>2. CASE OpensBank
      BY <3>2, NewJobIsJob DEF OpensBank, HandInv
    <3> QED
      BY <1>3, <3>1, <3>2 DEF StartDeposit
  <2>2. HandIsLeft \/ UNCHANGED crossed
    BY <1>3 DEF StartDeposit, OpensBank
  <2>4. Sets(who, {"deposit"}) /\ UNCHANGED <<loot, hunt, walk, goal, follow, agents, human>>
    BY <1>3 DEF StartDeposit
  <2>5. JobsInv'
    BY <1>1, <2>1, <2>4, SetByCallers DEF JobsInv
  <2>6. OneRunningJob'
    BY <2>4 DEF OneRunningJob
  <2>7. \A t \in Things : Running(t)' => Running(t) \/ t \in {"deposit"}
    BY <2>4 DEF Running, Things
  <2> QED
    BY <2>1, <2>2, <2>4, <2>5, <2>6, <2>7, SettingKeepsInv DEF Things
<1>4. CASE StartHunt(who)
  <2>1. /\ hunt' = NewHunt /\ walk' = FALSE /\ goal' = "hunt"
        /\ follow' = FALSE
        /\ HandIsLeft \/ UNCHANGED crossed
        /\ Sets(who, {"hunt", "goal"})
        /\ UNCHANGED <<hand, loot, deposit, agents, human>>
    BY <1>4 DEF StartHunt
  <2>2. HandInv'
    BY <2>1 DEF HandInv, hand
  <2>3. JobsInv'
    BY <1>1, <2>1, NoHuntIsHunt, SetByCallers DEF JobsInv
  <2>4. OneRunningJob'
    BY <2>1, NoHuntIsHunt DEF OneRunningJob
  <2>5. \A t \in Things : Running(t)' => Running(t) \/ t \in {"hunt", "goal"}
    BY <2>1 DEF Running, Things
  <2> QED
    BY <2>1, <2>2, <2>3, <2>4, <2>5, SettingKeepsInv DEF Things
<1>5. CASE StartWalk(who)
  <2>1. /\ EndHunt /\ walk' = TRUE /\ goal' = "travel" /\ follow' = FALSE
        /\ Sets(who, {"walk", "goal"})
        /\ UNCHANGED <<hand, loot, deposit, agents, human>>
    BY <1>5 DEF StartWalk, StopForWalk
  <2>2. HandInv'
    BY <2>1 DEF HandInv, hand
  <2>3. hunt' \in [on : BOOLEAN, loot : Jobs] /\ ~hunt'.on /\ (HandIsLeft \/ UNCHANGED crossed)
    BY <2>1, HuntEnded
  <2>4. JobsInv'
    BY <1>1, <2>1, <2>3, SetByCallers DEF JobsInv
  <2>5. OneRunningJob'
    BY <2>1, <2>3 DEF OneRunningJob
  <2>6. \A t \in Things : Running(t)' => Running(t) \/ t \in {"walk", "goal"}
    BY <2>1, <2>3 DEF Running, Things
  <2> QED
    BY <2>1, <2>2, <2>3, <2>4, <2>5, <2>6, SettingKeepsInv DEF Things
<1>6. CASE SetGoalHunt(who)
  <2> DEFINE things == IF hunt.on THEN {"goal"} ELSE {"goal", "hunt"}
  <2>1. /\ walk' = FALSE /\ goal' = "hunt" /\ follow' = FALSE
        /\ hunt' = (IF hunt.on THEN hunt ELSE NewHunt)
        /\ Sets(who, things)
        /\ UNCHANGED <<hand, loot, deposit, agents, human, crossed>>
    BY <1>6 DEF SetGoalHunt
  <2>2. HandInv'
    BY <2>1 DEF HandInv, hand
  <2>3. hunt' \in [on : BOOLEAN, loot : Jobs] /\ hunt'.on
    BY <1>1, <2>1, NoHuntIsHunt
  <2>4. JobsInv'
    BY <1>1, <2>1, <2>3, SetByCallers DEF JobsInv
  <2>5. OneRunningJob'
    BY <2>1, <2>3 DEF OneRunningJob
  <2>6. things \in SUBSET Things /\ \A t \in Things : Running(t)' => Running(t) \/ t \in things
    BY <2>1 DEF Running, Things
  <2> QED
    BY <2>1, <2>2, <2>4, <2>5, <2>6, SettingKeepsInv
<1>7. CASE SetGoal(who)
  <2>1. /\ walk' = FALSE /\ EndHunt /\ goal' \in {"idle", "travel"} /\ follow' = FALSE
        /\ Sets(who, {"goal"})
        /\ UNCHANGED <<hand, loot, deposit, agents, human>>
    BY <1>7 DEF SetGoal
  <2>2. HandInv'
    BY <2>1 DEF HandInv, hand
  <2>3. hunt' \in [on : BOOLEAN, loot : Jobs] /\ ~hunt'.on /\ (HandIsLeft \/ UNCHANGED crossed)
    BY <2>1, HuntEnded
  <2>4. JobsInv'
    BY <1>1, <2>1, <2>3, SetByCallers DEF JobsInv
  <2>5. OneRunningJob'
    BY <2>1, <2>3 DEF OneRunningJob
  <2>6. \A t \in Things : Running(t)' => Running(t) \/ t \in {"goal"}
    BY <2>1, <2>3 DEF Running, Things
  <2> QED
    BY <2>1, <2>2, <2>3, <2>4, <2>5, <2>6, SettingKeepsInv DEF Things
<1>8. CASE MoveTo(who)
  <2>1. /\ goal' \in {"idle", "travel"}
        /\ Sets(who, {"goal"})
        /\ UNCHANGED <<hand, loot, deposit, hunt, walk, follow, agents, human, crossed>>
    BY <1>8 DEF MoveTo
  <2>2. HandInv'
    BY <2>1 DEF HandInv, hand
  <2>3. JobsInv'
    BY <1>1, <2>1, SetByCallers DEF JobsInv
  <2>4. OneRunningJob'
    BY <2>1 DEF OneRunningJob
  <2>5. \A t \in Things : Running(t)' => Running(t) \/ t \in {"goal"}
    BY <2>1 DEF Running, Things
  <2> QED
    BY <2>1, <2>2, <2>3, <2>4, <2>5, SettingKeepsInv DEF Things
<1>9. CASE WalkHold
  <2>1. /\ goal' = "idle" /\ follow' = FALSE
        /\ UNCHANGED <<hand, loot, deposit, hunt, walk, agents, by, human, crossed>>
    BY <1>9 DEF WalkHold
  <2>2. HandInv' /\ JobsInv' /\ OneRunningJob'
    BY <1>1, <2>1 DEF HandInv, JobsInv, OneRunningJob, hand
  <2>3. \A t \in Things : Running(t)' => Running(t)
    BY <2>1 DEF Running, Things
  <2>4. AgentKeptOut'
    BY <2>1, <2>3 DEF AgentKeptOut
  <2> QED
    BY <2>1, <2>2, <2>4
<1>10. CASE Follow(who)
  <2>1. /\ goal' = "idle" /\ follow' = TRUE
        /\ Sets(who, {"follow"})
        /\ UNCHANGED <<hand, loot, deposit, hunt, walk, agents, human, crossed>>
    BY <1>10 DEF Follow
  <2>2. HandInv'
    BY <2>1 DEF HandInv, hand
  <2>3. JobsInv'
    BY <1>1, <2>1, SetByCallers DEF JobsInv
  <2>4. OneRunningJob'
    BY <2>1 DEF OneRunningJob
  <2>5. \A t \in Things : Running(t)' => Running(t) \/ t \in {"follow"}
    BY <2>1 DEF Running, Things
  <2> QED
    BY <2>1, <2>2, <2>3, <2>4, <2>5, SettingKeepsInv DEF Things
<1>11. CASE \E a \in {"once", "switched"} : RunAgent(who, a)
  <2>1. PICK a \in {"once", "switched"} : RunAgent(who, a)
    BY <1>11
  <2>2. /\ agents' = agents \cup {a}
        /\ Sets(who, {a})
        /\ UNCHANGED <<hand, loot, deposit, hunt, walk, goal, follow, human, crossed>>
    BY <2>1 DEF RunAgent
  <2>3. HandInv'
    BY <2>2 DEF HandInv, hand
  <2>4. JobsInv'
    <3>1. agents' \subseteq {"once", "switched"}
      BY <2>2 DEF JobsInv
    <3> QED
      BY <1>1, <2>2, <3>1, SetByCallers DEF JobsInv
  <2>5. OneRunningJob'
    BY <2>2 DEF OneRunningJob
  <2>6. {a} \in SUBSET Things /\ \A t \in Things : Running(t)' => Running(t) \/ t \in {a}
    BY <2>2 DEF Running, Things
  <2> QED
    BY <2>2, <2>3, <2>4, <2>5, <2>6, SettingKeepsInv
<1> QED
  BY <1>2, <1>3, <1>4, <1>5, <1>6, <1>7, <1>8, <1>9, <1>10, <1>11

LEMMA CallKeepsInv == ASSUME IInv, Call PROVE IInv'
<1>1. PICK who \in Callers :
        /\ Gate(who)
        /\ \/ StartLoot(who)
           \/ StartDeposit(who)
           \/ StartHunt(who)
           \/ StartWalk(who)
           \/ SetGoalHunt(who)
           \/ SetGoal(who)
           \/ MoveTo(who)
           \/ WalkHold
           \/ Follow(who)
           \/ \E a \in {"once", "switched"} : RunAgent(who, a)
  BY HandType DEF Call, Callers
<1>2. HandInv' /\ JobsInv' /\ OneRunningJob' /\ AgentKeptOut' /\ (HandIsLeft \/ UNCHANGED crossed)
  BY <1>1, SetGoing
<1>3. Input /\ UNCHANGED <<parent, news, shard>>
  BY DEF Call
<1>4. LinkInv' /\ ShardInv'
  BY <1>3 DEF IInv, LinkInv, ShardInv, shard
<1>5. CountInv'
  BY <1>2, <1>3, CountStays DEF IInv
<1> QED
  BY <1>2, <1>4, <1>5 DEF IInv

LEMMA PutBackKeepsHand ==
    ASSUME HandInv, NEW n \in Nat, PutBack(n)
    PROVE  HandInv'
<1>1. CASE UNCHANGED hand
  BY <1>1 DEF HandInv, hand
<1>2. CASE holding # NoItem /\ ~UNCHANGED hand
  <2> DEFINE drops == [k \in 1 .. n |-> Drop(holding, "pack")]
  <2>1. holding \in Item /\ "pack" \in Place
    BY <1>2 DEF HandInv, Place
  <2>2. Drop(holding, "pack") \in Requests
    BY <2>1, RequestTypes
  <2>3. drops \in Seq(Requests)
    BY <2>2
  <2>4. wire' = wire \o drops /\ sent_drop' = holding /\ holding' = holding
    BY <1>2 DEF PutBack
  <2> HIDE DEF drops
  <2>5. wire' \in Seq(Requests)
    BY <2>3, <2>4 DEF HandInv
  <2> QED
    BY <2>1, <2>4, <2>5 DEF HandInv
<1> QED
  BY <1>1, <1>2 DEF PutBack

\* After stop no job, goal or follow is left, whoever asked for it.
LEMMA StopLeavesNothing ==
    ASSUME IInv, StopAll, human' \in BOOLEAN, agents' \subseteq agents
    PROVE  /\ HandInv' /\ JobsInv' /\ OneRunningJob'
           /\ \A t \in Things : Running(t)' => t \in agents'
           /\ HandIsLeft \/ UNCHANGED crossed
<1>1. /\ EndHunt /\ walk' = FALSE /\ loot' = NoJob /\ deposit' = NoJob /\ goal' = "idle"
      /\ follow' = FALSE
      /\ PutBack((IF loot.on THEN 1 ELSE 0) + (IF deposit.on THEN 1 ELSE 0))
      /\ UNCHANGED by
  BY DEF StopAll
<1>2. (IF loot.on THEN 1 ELSE 0) + (IF deposit.on THEN 1 ELSE 0) \in Nat
  OBVIOUS
<1>3. HandInv'
  BY <1>1, <1>2, PutBackKeepsHand DEF IInv
<1>4. hunt' \in [on : BOOLEAN, loot : Jobs] /\ ~hunt'.on /\ (HandIsLeft \/ UNCHANGED crossed)
  BY <1>1, HuntEnded
<1>5. loot' \in Jobs /\ ~loot'.on /\ deposit' \in Jobs /\ ~deposit'.on
  BY <1>1, NewJobIsJob
<1>6. JobsInv'
  BY <1>1, <1>4, <1>5 DEF IInv, JobsInv
<1>7. OneRunningJob'
  BY <1>1 DEF OneRunningJob
<1>8. \A t \in Things : Running(t)' => t \in agents'
  BY <1>1, <1>4, <1>5 DEF Running, Things
<1> QED
  BY <1>3, <1>4, <1>6, <1>7, <1>8

LEMMA TakeKeepsInv == ASSUME IInv, Take PROVE IInv'
<1>1. /\ Input /\ human' = TRUE /\ StopAll /\ agents' = agents \ {"once"}
      /\ UNCHANGED <<parent, news, shard>>
  BY DEF Take, TakeStops
<1>2. /\ HandInv' /\ JobsInv' /\ OneRunningJob' /\ AgentKeptOut'
      /\ HandIsLeft \/ UNCHANGED crossed
  <2>1. agents' \subseteq agents /\ human' \in BOOLEAN
    BY <1>1
  <2>2. \A t \in Things : Running(t)' => t \in agents'
    BY <1>1, <2>1, StopLeavesNothing
  <2>3. \A t \in Things \ {"switched"} : ~Running(t)'
    BY <1>1, <2>2 DEF IInv, JobsInv
  <2>4. AgentKeptOut'
    BY <2>3 DEF AgentKeptOut
  <2> QED
    BY <1>1, <2>1, <2>4, StopLeavesNothing
<1>3. LinkInv' /\ ShardInv'
  BY <1>1 DEF IInv, LinkInv, ShardInv, shard
<1>4. CountInv'
  BY <1>1, <1>2, CountStays DEF IInv
<1> QED
  BY <1>2, <1>3, <1>4 DEF IInv

LEMMA GiveBackKeepsInv == ASSUME IInv, GiveBack PROVE IInv'
<1>1. human' = FALSE /\ UNCHANGED <<hand, parent, jobs, news, shard, crossed, inputs>>
  BY DEF GiveBack
<1>2. HandInv' /\ JobsInv' /\ LinkInv' /\ ShardInv' /\ CountInv'
  BY <1>1 DEF IInv, HandInv, JobsInv, LinkInv, ShardInv, CountInv, hand, jobs, shard
<1>3. OneRunningJob' /\ AgentKeptOut'
  BY <1>1 DEF IInv, OneRunningJob, AgentKeptOut, jobs
<1> QED
  BY <1>2, <1>3 DEF IInv

LEMMA JobStopKeepsInv ==
    ASSUME IInv, JobStop
    PROVE  /\ HandInv' /\ JobsInv' /\ OneRunningJob' /\ AgentKeptOut'
           /\ HandIsLeft \/ UNCHANGED crossed
<1>1. /\ goal' = "idle" /\ UNCHANGED <<hand, loot, deposit, follow, agents, by, human>>
      /\ \/ EndHunt /\ UNCHANGED walk
         \/ walk' = FALSE /\ UNCHANGED <<hunt, crossed>>
  BY DEF JobStop
<1>2. HandInv'
  BY <1>1 DEF IInv, HandInv, hand
<1>3. /\ hunt' \in [on : BOOLEAN, loot : Jobs] /\ (hunt'.on => hunt.on)
      /\ walk' \in BOOLEAN /\ (walk' => walk)
      /\ HandIsLeft \/ UNCHANGED crossed
  <2>1. CASE EndHunt /\ UNCHANGED walk
    <3>1. hunt' \in [on : BOOLEAN, loot : Jobs] /\ ~hunt'.on /\ (HandIsLeft \/ UNCHANGED crossed)
      BY <2>1, HuntEnded
    <3>2. walk' = walk /\ walk \in BOOLEAN
      BY <2>1 DEF IInv, JobsInv
    <3> QED
      BY <3>1, <3>2
  <2>2. CASE walk' = FALSE /\ UNCHANGED <<hunt, crossed>>
    BY <2>2 DEF IInv, JobsInv
  <2> QED
    BY <1>1, <2>1, <2>2
<1>4. JobsInv'
  BY <1>1, <1>3 DEF IInv, JobsInv
<1>5. OneRunningJob'
  BY <1>1, <1>3 DEF IInv, OneRunningJob
<1>6. \A t \in Things : Running(t)' => Running(t)
  BY <1>1, <1>3 DEF Running, Things
<1>7. AgentKeptOut'
  BY <1>1, <1>6 DEF IInv, AgentKeptOut
<1> QED
  BY <1>2, <1>3, <1>4, <1>5, <1>7

\* A caller's own hand moves items and touches no job.
LEMMA ByHandKeepsInv ==
    ASSUME IInv, LiftByHand \/ DropByHand \/ MoveByHand
    PROVE  HandInv' /\ JobsInv' /\ OneRunningJob' /\ AgentKeptOut' /\ crossed' \in BOOLEAN
<1>1. UNCHANGED <<jobs, human>>
  BY DEF LiftByHand, DropByHand, MoveByHand
<1>2. JobsInv' /\ OneRunningJob' /\ AgentKeptOut'
  <2>1. JobsInv'
    BY <1>1 DEF IInv, JobsInv, jobs
  <2>2. OneRunningJob' /\ AgentKeptOut'
    BY <1>1, StoppingKeepsRules DEF IInv, jobs, ruled
  <2> QED
    BY <2>1, <2>2
<1>3. CASE LiftByHand
  <2>1. PICK i \in Item : wire' = Append(wire, Lift(i)) /\ holding' = i
    BY <1>3 DEF LiftByHand
  <2>2. Lift(i) \in Requests
    BY RequestTypes
  <2>3. wire' \in Seq(Requests)
    BY <2>1, <2>2 DEF IInv, HandInv
  <2>4. UNCHANGED sent_drop /\ crossed' = TRUE
    BY <1>3 DEF LiftByHand
  <2> QED
    BY <1>2, <2>1, <2>3, <2>4 DEF IInv, HandInv
<1>4. CASE DropByHand
  <2>1. PICK i \in Item, p \in Place :
           /\ wire' = Append(wire, Drop(i, p)) /\ sent_drop' = i
           /\ crossed' = (crossed \/ holding \notin {i, NoItem})
    BY <1>4 DEF DropByHand
  <2>2. Drop(i, p) \in Requests
    BY RequestTypes
  <2>3. wire' \in Seq(Requests) /\ UNCHANGED holding
    BY <1>4, <2>1, <2>2 DEF DropByHand, IInv, HandInv
  <2>4. crossed' \in BOOLEAN
    BY <2>1
  <2> QED
    BY <1>2, <2>1, <2>3, <2>4 DEF IInv, HandInv
<1>5. CASE MoveByHand
  <2>1. (\E i \in Item, p \in Place : Moves(i, p)) /\ HandIsLeft
    BY <1>5 DEF MoveByHand
  <2>2. HandInv'
    BY <2>1, MovesKeepHand DEF IInv
  <2>3. crossed' \in BOOLEAN
    BY <2>1, LeftHandIsCounted DEF IInv, CountInv
  <2> QED
    BY <1>2, <2>2, <2>3
<1> QED
  BY <1>3, <1>4, <1>5

LEMMA ReachKeepsInv == ASSUME IInv, Reach PROVE IInv'
<1>1. Input /\ UNCHANGED <<parent, news, shard>>
  BY DEF Reach
<1>2. LinkInv' /\ ShardInv'
  BY <1>1 DEF IInv, LinkInv, ShardInv, shard
<1>3. inputs' \in 0 .. MaxInputs
  BY <1>1, InputCounts DEF IInv, CountInv
<1>4. ASSUME HandIsLeft \/ UNCHANGED crossed PROVE CountInv'
  BY <1>1, <1>4, CountStays DEF IInv
<1>5. CASE JobStop
  BY <1>2, <1>4, <1>5, JobStopKeepsInv DEF IInv
<1>6. CASE StopAll /\ UNCHANGED <<agents, human>>
  <2>1. human' \in BOOLEAN /\ agents' \subseteq agents
    BY <1>6 DEF IInv, JobsInv
  <2>2. \A t \in Things : Running(t)' => Running(t)
    <3>1. \A t \in Things : Running(t)' => t \in agents
      BY <1>6, <2>1, StopLeavesNothing
    <3>2. agents \subseteq {"once", "switched"}
      BY DEF IInv, JobsInv
    <3> QED
      BY <3>1, <3>2 DEF Running
  <2>3. AgentKeptOut'
    BY <1>6, <2>2 DEF IInv, AgentKeptOut, StopAll
  <2> QED
    BY <1>2, <1>4, <1>6, <2>1, <2>3, StopLeavesNothing DEF IInv
<1>7. CASE LiftByHand \/ DropByHand \/ MoveByHand
  BY <1>2, <1>3, <1>7, ByHandKeepsInv DEF IInv, CountInv
<1>8. CASE AgentStops
  <2>1. /\ agents' \subseteq agents
        /\ UNCHANGED <<hand, loot, deposit, hunt, walk, goal, follow, by, human, crossed>>
    BY <1>8 DEF AgentStops
  <2>2. HandInv' /\ JobsInv' /\ OneRunningJob'
    BY <2>1 DEF IInv, HandInv, JobsInv, OneRunningJob, hand
  <2>3. \A t \in Things : Running(t)' => Running(t)
    BY <2>1 DEF Running, Things
  <2>4. AgentKeptOut'
    BY <2>1, <2>3 DEF IInv, AgentKeptOut
  <2> QED
    BY <1>2, <1>4, <2>1, <2>2, <2>4 DEF IInv
<1> QED
  BY <1>5, <1>6, <1>7, <1>8 DEF Reach

-----------------------------------------------------------------------------
(* The packets, and the shard. *)

LEMMA IngestKeepsInv == ASSUME IInv, Ingest PROVE IInv'
<1> DEFINE packet == Head(news)
<1>1. /\ news # <<>> /\ news' = Tail(news) /\ parent' = Parent(packet)
      /\ holding' \in {NoItem, holding}
      /\ UNCHANGED <<sent_drop, jobs, human, wire, shard, crossed, inputs>>
  BY DEF Ingest
<1>2. packet \in Packets /\ news' \in Seq(Packets)
  BY <1>1 DEF IInv, LinkInv
<1> HIDE DEF packet
<1>3. packet.item \in Item /\ packet.place \in Place
  BY <1>2 DEF Packets
<1>4. parent' \in [Item -> Place \cup {"away"}]
  BY <1>1, <1>3 DEF IInv, LinkInv, Parent
<1>5. HandInv' /\ JobsInv' /\ LinkInv' /\ ShardInv' /\ CountInv'
  BY <1>1, <1>2, <1>4 DEF IInv, HandInv, JobsInv, LinkInv, ShardInv, CountInv, jobs, shard
<1>6. OneRunningJob' /\ AgentKeptOut'
  BY <1>1, StoppingKeepsRules DEF IInv, jobs, ruled
<1> QED
  BY <1>5, <1>6 DEF IInv

LEMMA PacketTypes ==
    ASSUME NEW i \in Item, NEW p \in Place,
           NEW kind \in {"deleted", "added", "on_ground", "grew", "accepted", "rejected"}
    PROVE  Packet(kind, i, p) \in Packets
BY DEF Packet, Packets

LEMMA AnswersKeepNews ==
    ASSUME news \in Seq(Packets), NEW packets \in Seq(Packets), Answer(packets)
    PROVE  news' \in Seq(Packets)
BY DEF Answer

LEMMA LiftedKeepsShard ==
    ASSUME IInv, NEW i \in Item, ShardLifts(i)
    PROVE  ShardInv' /\ news' \in Seq(Packets) /\ inputs' \in 0 .. MaxInputs
<1>1. /\ news \in Seq(Packets) /\ "corpse" \in Place /\ inputs \in 0 .. MaxInputs
      /\ at \in [Item -> Place \cup {"gone"}]
  BY DEF IInv, LinkInv, CountInv, ShardInv, Place
<1>2. CASE /\ cursor = NoItem /\ at[i] # "gone" /\ cursor' = i
           /\ Answer(<<Packet("deleted", i, "corpse")>>) /\ UNCHANGED <<at, inputs>>
  <2>1. <<Packet("deleted", i, "corpse")>> \in Seq(Packets)
    BY <1>1, PacketTypes
  <2>2. news' \in Seq(Packets)
    BY <1>1, <1>2, <2>1, AnswersKeepNews
  <2> QED
    BY <1>1, <1>2, <2>2 DEF ShardInv
<1>3. CASE Answer(<<Packet("rejected", i, "corpse")>>) /\ UNCHANGED <<shard, inputs>>
  <2>1. <<Packet("rejected", i, "corpse")>> \in Seq(Packets)
    BY <1>1, PacketTypes
  <2>2. news' \in Seq(Packets)
    BY <1>1, <1>3, <2>1, AnswersKeepNews
  <2> QED
    BY <1>1, <1>3, <2>2 DEF ShardInv, shard, IInv
<1> QED
  BY <1>2, <1>3 DEF ShardLifts

LEMMA LandedKeepsShard ==
    ASSUME IInv, NEW i \in Item, NEW p \in Place, Lands(i, p)
    PROVE  at' \in [Item -> Place \cup {"gone"}] /\ news' \in Seq(Packets)
<1>1. at' = [at EXCEPT ![i] = p]
  BY DEF Lands
<1>2. PICK first \in {<<>>, <<Packet("accepted", i, p)>>} :
        Answer(Append(first, Packet(IF p = "ground" THEN "on_ground" ELSE "added", i, p)))
  BY DEF Lands
<1> DEFINE last == Packet(IF p = "ground" THEN "on_ground" ELSE "added", i, p)
<1>3. Packet("accepted", i, p) \in Packets /\ last \in Packets /\ Answer(Append(first, last))
  BY <1>2, PacketTypes
<1> HIDE DEF last
<1>4. Append(first, last) \in Seq(Packets)
  <2>1. \A e \in Packets : <<e>> \in Seq(Packets)
    OBVIOUS
  <2>2. <<Packet("accepted", i, p)>> \in Seq(Packets) /\ <<>> \in Seq(Packets)
    BY <1>3, <2>1
  <2>3. first \in Seq(Packets)
    BY <1>2, <2>2, Zenon
  <2> QED
    BY <1>3, <2>3
<1>5. news' \in Seq(Packets)
  BY <1>3, <1>4, AnswersKeepNews DEF IInv, LinkInv
<1> QED
  BY <1>1, <1>5 DEF IInv, ShardInv

LEMMA DroppedKeepsShard ==
    ASSUME IInv, NEW p \in Place, ShardDrops(p)
    PROVE  ShardInv' /\ news' \in Seq(Packets) /\ inputs' \in 0 .. MaxInputs
<1>1. /\ news \in Seq(Packets) /\ inputs \in 0 .. MaxInputs
      /\ at \in [Item -> Place \cup {"gone"}]
      /\ cursor \in Item \cup {NoItem}
      /\ cursor # NoItem => at[cursor] # "gone"
  BY DEF IInv, LinkInv, CountInv, ShardInv
<1>2. CASE cursor = NoItem
  BY <1>1, <1>2 DEF ShardDrops, ShardInv, shard
<1>3. CASE cursor # NoItem
  <2>1. cursor' = NoItem /\ cursor \in Item /\ at[cursor] \in Place
    BY <1>1, <1>3 DEF ShardDrops
  <2>2. CASE Lands(cursor, p) /\ UNCHANGED inputs
    BY <1>1, <2>1, <2>2, LandedKeepsShard DEF ShardInv
  <2>3. CASE Lands(cursor, at[cursor]) /\ Input
    <3>1. inputs' \in 0 .. MaxInputs
      BY <1>1, <2>3, InputCounts
    <3> QED
      BY <2>1, <2>3, <3>1, LandedKeepsShard DEF ShardInv
  <2>4. CASE /\ Input /\ at' = [at EXCEPT ![cursor] = "gone"]
             /\ \E kind \in {"deleted", "grew"} : Answer(<<Packet(kind, cursor, p)>>)
    <3>1. PICK kind \in {"deleted", "grew"} : Answer(<<Packet(kind, cursor, p)>>)
      BY <2>4
    <3>2. Packet(kind, cursor, p) \in Packets
      BY <2>1, PacketTypes
    <3>3. news' \in Seq(Packets)
      <4>1. <<Packet(kind, cursor, p)>> \in Seq(Packets)
        BY <3>2
      <4> QED
        BY <1>1, <3>1, <4>1, AnswersKeepNews
    <3>4. inputs' \in 0 .. MaxInputs
      BY <1>1, <2>4, InputCounts
    <3> QED
      BY <1>1, <2>1, <2>4, <3>3, <3>4 DEF ShardInv
  <2> QED
    BY <1>3, <2>2, <2>3, <2>4 DEF ShardDrops
<1> QED
  BY <1>2, <1>3

LEMMA ShardKeepsInv == ASSUME IInv, ShardTakes PROVE IInv'
<1> DEFINE first == Head(wire)
<1>1. /\ wire # <<>> /\ wire' = Tail(wire)
      /\ IF first.op = "lift" THEN ShardLifts(first.item) ELSE ShardDrops(first.dest)
      /\ UNCHANGED <<holding, sent_drop, parent, jobs, human, crossed>>
  BY DEF ShardTakes
<1>2. first \in Requests /\ wire' \in Seq(Requests)
  BY <1>1 DEF IInv, HandInv
<1> HIDE DEF first
<1>3. ShardInv' /\ news' \in Seq(Packets) /\ inputs' \in 0 .. MaxInputs
  <2>1. CASE first.op = "lift"
    <3>1. first.item \in Item
      BY <1>2 DEF Requests
    <3> QED
      BY <1>1, <2>1, <3>1, LiftedKeepsShard
  <2>2. CASE first.op # "lift"
    <3>1. first.dest \in Place
      BY <1>2, <2>2 DEF Requests
    <3> QED
      BY <1>1, <2>2, <3>1, DroppedKeepsShard
  <2> QED
    BY <2>1, <2>2
<1>4. HandInv' /\ JobsInv' /\ LinkInv' /\ CountInv'
  BY <1>1, <1>2, <1>3 DEF IInv, HandInv, JobsInv, LinkInv, CountInv, jobs
<1>5. OneRunningJob' /\ AgentKeptOut'
  BY <1>1, StoppingKeepsRules DEF IInv, jobs, ruled
<1> QED
  BY <1>3, <1>4, <1>5 DEF IInv

-----------------------------------------------------------------------------
(* The theorems. *)

LEMMA InvStays == IInv /\ [Next]_vars => IInv'
<1> SUFFICES ASSUME IInv, [Next]_vars PROVE IInv'
  OBVIOUS
<1>1. CASE UNCHANGED vars
  <2>1. HandInv' /\ JobsInv' /\ LinkInv' /\ ShardInv' /\ CountInv'
    BY <1>1 DEF IInv, HandInv, JobsInv, LinkInv, ShardInv, CountInv, vars, jobs, shard
  <2>2. OneRunningJob' /\ AgentKeptOut'
    BY <1>1, StoppingKeepsRules DEF IInv, vars, jobs, ruled
  <2> QED
    BY <2>1, <2>2 DEF IInv
<1>2. CASE Next
  BY <1>2, PumpKeepsInv, KeptKeepsInv, FailureKeepsInv, KillKeepsInv, EndKeepsInv, HoldKeepsInv,
     AgentsKeepInv, LeavingKeepsInv, CallKeepsInv, ReachKeepsInv, TakeKeepsInv,
     GiveBackKeepsInv, IngestKeepsInv, ShardKeepsInv DEF Next
<1> QED
  BY <1>1, <1>2

\* The invariant of the proofs (session.rs, the jobs and control::take).
THEOREM HandInvHolds == Spec => []IInv
BY InvAtFirst, InvStays, PTL DEF Spec

LEMMA InvGivesTypes == IInv => TypeOK
<1> SUFFICES ASSUME IInv PROVE TypeOK
  OBVIOUS
<1>1. wire \in Seq([op : {"lift", "drop"}, item : Item, dest : Place \cup {"cursor"}])
  <2> DEFINE R == [op : {"lift", "drop"}, item : Item, dest : Place \cup {"cursor"}]
  <2>1. \A r \in Requests : r \in R
    BY DEF Requests
  <2> HIDE DEF R
  <2>2. wire \in Seq(Requests) /\ Len(wire) \in Nat /\ wire \in [1 .. Len(wire) -> Requests]
    BY DEF IInv, HandInv
  <2>3. wire \in [1 .. Len(wire) -> R]
    BY <2>1, <2>2
  <2>4. wire \in Seq(R)
    BY <2>2, <2>3
  <2> QED
    BY <2>4 DEF R
<1> QED
  BY <1>1 DEF IInv, HandInv, JobsInv, LinkInv, ShardInv, CountInv, Packets, TypeOK

\* Every variable keeps its kind: no job lifts an item more than
\* MAX_LIFTS_PER_ITEM times, for any number of items and of calls.
THEOREM HandTypeCorrect == Spec => []TypeOK
BY HandInvHolds, InvGivesTypes, PTL

\* start_hunt, start_walk, set_goal, stop and a map change leave one of the
\* hunt and the walk at most, and the goal hunt is the hunt job's.
THEOREM HandOneRunningJob == Spec => []OneRunningJob
<1>1. IInv => OneRunningJob
  BY DEF IInv
<1> QED
  BY HandInvHolds, <1>1, PTL

\* From control::take on until the human lets go, no job, goal, follow or job run
\* once is one that the agent set going.  The agents that are switched on are not
\* among them: control::take leaves them on.
THEOREM HandAgentKeptOut == Spec => []AgentKeptOut
<1>1. IInv => AgentKeptOut
  BY DEF IInv
<1> QED
  BY HandInvHolds, <1>1, PTL

-----------------------------------------------------------------------------
(***************************************************************************)
(* One hold at a time.  Unless something crossed it, the hand goes through *)
(* the same states for every item: the lift is on the wire, with the drops *)
(* sent after it; the item is on the cursor, and a drop is on the wire or  *)
(* was not sent yet; the hold is over at the shard, and a packet that ends *)
(* it is on its way; and nothing is held, with at most drops on the wire.  *)
(* A lift goes out only with nothing on its way, so no two holds overlap.  *)
(***************************************************************************)
DropsOnly(first) == \A k \in first .. Len(wire) : wire[k].op = "drop"
OfHeld == \A k \in 1 .. Len(wire) : wire[k].item = holding

Idle ==
    /\ holding = NoItem
    /\ DropsOnly(1)
    /\ cursor # NoItem =>
          wire # <<>> /\ \A k \in 1 .. Len(wire) : wire[k].item = cursor
LiftAsked ==
    /\ cursor = NoItem
    /\ news = <<>>
    /\ wire # <<>>
    /\ wire[1].op = "lift"
    /\ DropsOnly(2)
    /\ OfHeld
    /\ sent_drop = holding <=> Len(wire) > 1
OnCursor ==
    /\ cursor = holding
    /\ DropsOnly(1)
    /\ OfHeld
    /\ sent_drop = holding <=> wire # <<>>
    /\ wire = <<>> => \A k \in 1 .. Len(news) : news[k].kind = "deleted"
Ending ==
    /\ cursor = NoItem
    /\ DropsOnly(1)
    /\ \E k \in 1 .. Len(news) : EndsHold(news[k])
Held == holding # NoItem /\ (LiftAsked \/ OnCursor \/ Ending)

OneHold == ~crossed => Idle \/ Held

(***************************************************************************)
(* What a step of the session may do to the hand.                          *)
(***************************************************************************)
link == <<news, cursor>>
DropsHeldAgain ==
    /\ holding # NoItem
    /\ UNCHANGED <<link, holding>>
    /\ sent_drop' = holding
    /\ \E drops \in Seq(Requests) :
          /\ drops # <<>>
          /\ \A k \in 1 .. Len(drops) : drops[k].op = "drop" /\ drops[k].item = holding
          /\ wire' = wire \o drops
ForgetsDrop == holding = NoItem /\ UNCHANGED <<link, holding, wire>>
Lifts(i) ==
    /\ holding = NoItem
    /\ AtRest
    /\ UNCHANGED link
    /\ holding' = i
    /\ \/ wire' = <<Lift(i)>> /\ sent_drop' = NoItem
       \/ \E p \in Place : wire' = <<Lift(i), Drop(i, p)>> /\ sent_drop' = i
DropsNothing ==
    /\ holding = NoItem
    /\ AtRest
    /\ UNCHANGED <<link, holding>>
    /\ \E i \in Item, p \in Place : wire' = <<Drop(i, p)>>

HandMoves ==
    \/ UNCHANGED <<hand, link>>
    \/ DropsHeldAgain
    \/ ForgetsDrop
    \/ \E i \in Item : Lifts(i)
    \/ DropsNothing

LEMMA DroppingAgainKeepsHold ==
    ASSUME IInv, Idle \/ Held, DropsHeldAgain
    PROVE  Held'
<1>1. Held /\ holding \in Item
  BY DEF DropsHeldAgain, Idle, IInv, HandInv
<1>2. PICK drops \in Seq(Requests) :
         /\ drops # <<>>
         /\ \A k \in 1 .. Len(drops) : drops[k].op = "drop" /\ drops[k].item = holding
         /\ wire' = wire \o drops
  BY DEF DropsHeldAgain
<1>3. UNCHANGED <<news, cursor, holding>> /\ sent_drop' = holding /\ holding # NoItem
  BY DEF DropsHeldAgain, link
<1> DEFINE n == Len(wire)
           m == Len(drops)
           w == wire'
<1>4. wire \in Seq(Requests) /\ n \in Nat /\ m \in Nat \ {0}
  BY <1>2, EmptySeq DEF IInv, HandInv
<1>5. /\ w \in Seq(Requests) /\ Len(w) = n + m
      /\ \A k \in 1 .. n : w[k] = wire[k]
      /\ \A k \in 1 .. m : w[n + k] = drops[k]
  BY <1>2, <1>4, ConcatFacts
<1> HIDE DEF w, n, m
<1>6. \A k \in n + 1 .. n + m : w[k].op = "drop" /\ w[k].item = holding
  <2> SUFFICES ASSUME NEW k \in n + 1 .. n + m
               PROVE  w[k].op = "drop" /\ w[k].item = holding
    OBVIOUS
  <2>1. PICK j \in 1 .. m : k = n + j
    <3>1. k - n \in 1 .. m /\ k = n + (k - n)
      BY <1>4
    <3> QED
      BY <3>1
  <2> QED
    BY <1>2, <1>5, <2>1 DEF m
<1>7. ASSUME NEW first \in {1, 2}, DropsOnly(first)
      PROVE  \A k \in first .. n + m : w[k].op = "drop"
  BY <1>4, <1>5, <1>6, <1>7 DEF DropsOnly, n
<1>8. OfHeld => \A k \in 1 .. n + m : w[k].item = holding
  BY <1>4, <1>5, <1>6 DEF OfHeld, n
<1>9. w # <<>>
  BY <1>4, <1>5
<1>10. CASE LiftAsked
  <2>1. n >= 1
    BY <1>4, <1>10, EmptySeq DEF LiftAsked, n
  <2>2. w[1].op = "lift" /\ n + m > 1
    BY <1>4, <1>5, <1>10, <2>1 DEF LiftAsked
  <2>3. /\ \A k \in 2 .. n + m : w[k].op = "drop"
        /\ \A k \in 1 .. n + m : w[k].item = holding
    BY <1>7, <1>8, <1>10 DEF LiftAsked
  <2>4. LiftAsked'
    BY <1>3, <1>5, <1>9, <1>10, <2>2, <2>3 DEF LiftAsked, DropsOnly, OfHeld, w
  <2> QED
    BY <1>3, <2>4 DEF Held
<1>11. CASE OnCursor
  <2>1. /\ \A k \in 1 .. n + m : w[k].op = "drop"
        /\ \A k \in 1 .. n + m : w[k].item = holding
    BY <1>7, <1>8, <1>11 DEF OnCursor
  <2>2. OnCursor'
    BY <1>3, <1>5, <1>9, <1>11, <2>1 DEF OnCursor, DropsOnly, OfHeld, w
  <2> QED
    BY <1>3, <2>2 DEF Held
<1>12. CASE Ending
  <2>1. \A k \in 1 .. n + m : w[k].op = "drop"
    BY <1>7, <1>12 DEF Ending
  <2>2. PICK k \in 1 .. Len(news) : EndsHold(news[k])
    BY <1>12 DEF Ending
  <2>3. EndsHold(news[k])'
    BY <1>3, <2>2 DEF EndsHold, MergedIntoStack, DeletedAfterDrop
  <2>4. Ending'
    BY <1>3, <1>5, <1>12, <2>1, <2>2, <2>3 DEF Ending, DropsOnly, w
  <2> QED
    BY <1>3, <2>4 DEF Held
<1> QED
  BY <1>1, <1>10, <1>11, <1>12 DEF Held

\* At rest with nothing held, nothing is on the cursor either.
LEMMA RestIsEmpty == ASSUME Idle \/ Held, holding = NoItem, AtRest PROVE cursor = NoItem
BY DEF Idle, Held, AtRest

LEMMA LiftingHolds ==
    ASSUME IInv, Idle \/ Held, NEW i \in Item, Lifts(i)
    PROVE  Held'
<1>1. /\ holding = NoItem /\ news = <<>> /\ UNCHANGED <<news, cursor>> /\ holding' = i
      /\ cursor = NoItem
  BY RestIsEmpty DEF Lifts, link, AtRest
<1>2. i # NoItem
  BY HandType
<1>3. CASE wire' = <<Lift(i)>> /\ sent_drop' = NoItem
  <2>1. /\ wire' # <<>> /\ Len(wire') = 1 /\ wire'[1].op = "lift" /\ wire'[1].item = i
    BY <1>3 DEF Lift
  <2>2. LiftAsked'
    BY <1>1, <1>2, <1>3, <2>1 DEF LiftAsked, DropsOnly, OfHeld
  <2> QED
    BY <1>1, <1>2, <2>2 DEF Held
<1>4. ASSUME NEW p \in Place, wire' = <<Lift(i), Drop(i, p)>>, sent_drop' = i
      PROVE  Held'
  <2>1. /\ wire' # <<>> /\ Len(wire') = 2
        /\ wire'[1].op = "lift" /\ wire'[1].item = i
        /\ wire'[2].op = "drop" /\ wire'[2].item = i
    BY <1>4 DEF Lift, Drop
  <2>2. LiftAsked'
    BY <1>1, <1>4, <2>1 DEF LiftAsked, DropsOnly, OfHeld
  <2> QED
    BY <1>1, <1>2, <2>2 DEF Held
<1> QED
  BY <1>3, <1>4 DEF Lifts

\* Whatever the session does to the hand, one hold follows another.
LEMMA MovingKeepsHold ==
    ASSUME IInv, Idle \/ Held, HandMoves
    PROVE  (Idle \/ Held)'
<1>1. CASE UNCHANGED <<hand, link>>
  <2>1. UNCHANGED <<holding, sent_drop, wire, news, cursor>>
    BY <1>1 DEF hand, link
  <2> QED
    BY <2>1 DEF Idle, Held, LiftAsked, OnCursor, Ending, DropsOnly, OfHeld, EndsHold,
                MergedIntoStack, DeletedAfterDrop
<1>2. CASE DropsHeldAgain
  BY <1>2, DroppingAgainKeepsHold
<1>3. CASE ForgetsDrop
  <2>1. Idle /\ UNCHANGED <<holding, wire, cursor>>
    BY <1>3 DEF ForgetsDrop, Held, link
  <2> QED
    BY <2>1 DEF Idle, DropsOnly
<1>4. CASE \E i \in Item : Lifts(i)
  BY <1>4, LiftingHolds
<1>5. CASE DropsNothing
  <2>1. holding' = NoItem /\ cursor' = NoItem
    BY <1>5, RestIsEmpty DEF DropsNothing, link
  <2>2. PICK i \in Item, p \in Place : wire' = <<Drop(i, p)>>
    BY <1>5 DEF DropsNothing
  <2>3. Len(wire') = 1 /\ wire'[1].op = "drop"
    BY <2>2 DEF Drop
  <2> QED
    BY <2>1, <2>3 DEF Idle, DropsOnly
<1> QED
  BY <1>1, <1>2, <1>3, <1>4, <1>5 DEF HandMoves

-----------------------------------------------------------------------------
(* Every step of the session but the packets is one of those, or crosses the *)
(* hold, and none takes anything off the wire.                               *)

Grows == Len(wire') >= Len(wire)

LEMMA GrowsByNothing == ASSUME IInv, UNCHANGED wire PROVE Grows
BY DEF Grows, IInv, HandInv

LEMMA GrowsByRequests ==
    ASSUME IInv, NEW more \in Seq(Requests), wire' = wire \o more
    PROVE  Grows
BY DEF Grows, IInv, HandInv

LEMMA GrowsByOne ==
    ASSUME IInv, NEW request \in Requests, wire' = Append(wire, request)
    PROVE  Grows
BY DEF Grows, IInv, HandInv

\* A step of a job: a drop of what is held, a lift with the hand free, or none.
LEMMA JobStepMovesHand ==
    ASSUME Punctual, IInv, NEW job, NEW source, NEW dest \in Place,
           NEW sent \in {sent_drop, NoItem}, NEW after,
           JobStep(job, source, dest, sent, after), UNCHANGED <<news, cursor>>
    PROVE  HandMoves /\ Grows
<1>1. CASE holding # NoItem
  <2>1. DropHeld(dest, sent) /\ UNCHANGED holding
    BY <1>1 DEF JobStep
  <2>2. holding \in Item /\ Drop(holding, dest) \in Requests
    BY <1>1, RequestTypes DEF IInv, HandInv
  <2>3. CASE sent = holding
    <3>1. UNCHANGED wire /\ sent_drop' = sent_drop
      BY <1>1, <2>1, <2>3 DEF DropHeld
    <3> QED
      BY <2>1, <3>1, GrowsByNothing DEF HandMoves, hand, link
  <2>4. CASE sent # holding
    <3>1. wire' = Append(wire, Drop(holding, dest)) /\ sent_drop' = holding
      BY <2>1, <2>4 DEF DropHeld
    <3> DEFINE one == <<Drop(holding, dest)>>
    <3>2. /\ one \in Seq(Requests) /\ one # <<>> /\ wire' = wire \o one
          /\ \A k \in 1 .. Len(one) : one[k].op = "drop" /\ one[k].item = holding
      BY <2>2, <3>1 DEF Drop, IInv, HandInv
    <3> HIDE DEF one
    <3>3. DropsHeldAgain
      BY <1>1, <2>1, <3>1, <3>2 DEF DropsHeldAgain, link
    <3> QED
      BY <2>2, <3>1, <3>3, GrowsByOne DEF HandMoves
  <2> QED
    BY <2>3, <2>4
<1>2. CASE holding = NoItem
  <2>1. CASE UNCHANGED <<wire, holding>>
    <3>1. ForgetsDrop
      BY <1>2, <2>1 DEF ForgetsDrop, link
    <3> QED
      BY <2>1, <3>1, GrowsByNothing DEF HandMoves
  <2>2. ASSUME NEW i \in Left(source), ActionReady, LiftNext(job, i)
        PROVE  HandMoves /\ Grows
    <3>1. i \in Item /\ AtRest
      BY <2>2 DEF Left, ActionReady, AtRest
    <3>2. wire' = Append(wire, Lift(i)) /\ holding' = i /\ sent_drop' = NoItem
      BY <2>2 DEF LiftNext, AfterLift
    <3>3. wire' = <<Lift(i)>>
      BY <3>1, <3>2 DEF AtRest
    <3>4. Lifts(i)
      BY <1>2, <3>1, <3>2, <3>3 DEF Lifts, link
    <3> QED
      BY <3>1, <3>2, <3>4, RequestTypes, GrowsByOne DEF HandMoves
  <2> QED
    BY <1>2, <2>1, <2>2 DEF JobStep
<1> QED
  BY <1>1, <1>2

\* An agent's or a script's move, with the hand free.
LEMMA MoveMovesHand ==
    ASSUME Punctual, IInv, holding = NoItem, ActionReady, NEW i \in Item, NEW p \in Place,
           Moves(i, p), UNCHANGED <<news, cursor>>
    PROVE  HandMoves
<1>1. AtRest
  BY DEF ActionReady, AtRest
<1>2. wire' = <<>> \o <<Lift(i), Drop(i, p)>> /\ holding' = i /\ sent_drop' = i
  BY <1>1 DEF Moves, LiftAndDrop, AtRest
<1>3. wire' = <<Lift(i), Drop(i, p)>>
  BY <1>2
<1>4. Lifts(i)
  BY <1>1, <1>2, <1>3 DEF Lifts, link
<1> QED
  BY <1>4 DEF HandMoves

LEMMA MoveGrows ==
    ASSUME IInv, NEW i \in Item, NEW p \in Place, Moves(i, p)
    PROVE  Grows
<1>1. wire' = wire \o <<Lift(i), Drop(i, p)>> /\ <<Lift(i), Drop(i, p)>> \in Seq(Requests)
  BY RequestTypes DEF Moves, LiftAndDrop
<1> QED
  BY <1>1, GrowsByRequests

LEMMA PutBackMovesHand ==
    ASSUME IInv, NEW n \in Nat, PutBack(n), UNCHANGED <<news, cursor>>
    PROVE  HandMoves /\ Grows
<1>1. CASE holding = NoItem \/ n = 0
  <2>1. UNCHANGED hand
    BY <1>1 DEF PutBack
  <2> QED
    BY <2>1, GrowsByNothing DEF HandMoves, hand, link
<1>2. CASE holding # NoItem /\ n # 0
  <2> DEFINE drops == [k \in 1 .. n |-> Drop(holding, "pack")]
  <2>1. holding \in Item /\ "pack" \in Place
    BY <1>2 DEF IInv, HandInv, Place
  <2>2. Drop(holding, "pack") \in Requests
    BY <2>1, RequestTypes
  <2>3. drops \in Seq(Requests) /\ Len(drops) = n
    BY <2>2
  <2>4. \A k \in 1 .. n : drops[k].op = "drop" /\ drops[k].item = holding
    BY DEF Drop
  <2>5. wire' = wire \o drops /\ sent_drop' = holding /\ holding' = holding
    BY <1>2 DEF PutBack
  <2> HIDE DEF drops
  <2>6. drops # <<>>
    BY <1>2, <2>3
  <2>7. DropsHeldAgain
    BY <1>2, <2>3, <2>4, <2>5, <2>6 DEF DropsHeldAgain, link
  <2> QED
    BY <2>3, <2>5, <2>7, GrowsByRequests DEF HandMoves
<1> QED
  BY <1>1, <1>2

\* A step of the session: it moves the hand so, or crosses the hold, and what was
\* crossed stays crossed.
StepOfHand == (HandMoves \/ crossed') /\ Grows /\ (crossed => crossed')

LEMMA HandAlone ==
    ASSUME IInv, UNCHANGED <<hand, link>>, HandIsLeft \/ UNCHANGED crossed
    PROVE  StepOfHand
<1>1. UNCHANGED wire
  BY DEF hand
<1>2. HandMoves /\ Grows
  BY <1>1, GrowsByNothing DEF HandMoves
<1>3. crossed => crossed'
  BY DEF HandIsLeft
<1> QED
  BY <1>2, <1>3 DEF StepOfHand

LEMMA PumpMovesHand == ASSUME Punctual, IInv, PumpJobs PROVE StepOfHand
<1>1. UNCHANGED <<news, cursor, crossed>>
  BY DEF PumpJobs, shard
<1>2. "pack" \in Place /\ "bank" \in Place
  BY DEF Place
<1>3. HandMoves /\ Grows
  <2>1. CASE PumpLoot
    BY <1>1, <1>2, <2>1, JobStepMovesHand DEF PumpLoot, LootStep
  <2>2. CASE PumpDeposit
    BY <1>1, <1>2, <2>2, JobStepMovesHand DEF PumpDeposit, DepositStep
  <2>3. CASE PumpHunt
    BY <1>1, <1>2, <2>3, JobStepMovesHand DEF PumpHunt
  <2> QED
    BY <2>1, <2>2, <2>3 DEF PumpJobs
<1> QED
  BY <1>1, <1>3 DEF StepOfHand

LEMMA LoopMovesHand ==
    ASSUME IInv, KeptOrFreed \/ JobFails \/ HuntKills \/ JobEnds \/ LeaveMap \/ GiveBack
    PROVE  StepOfHand
<1>1. UNCHANGED <<hand, link>>
  BY DEF KeptOrFreed, JobFails, HuntKills, JobEnds, LeaveMap, GiveBack, hand, link, shard
<1>2. HandIsLeft \/ UNCHANGED crossed
  BY DEF KeptOrFreed, JobFails, HuntKills, JobEnds, LeaveMap, GiveBack, EndHunt
<1> QED
  BY <1>1, <1>2, HandAlone

LEMMA HoldLimitMovesHand == ASSUME IInv, HoldLimit PROVE StepOfHand
<1>1. crossed' /\ UNCHANGED wire
  BY DEF HoldLimit
<1> QED
  BY <1>1, GrowsByNothing DEF StepOfHand

LEMMA AgentsMoveHand == ASSUME Punctual, IInv, AgentMoves PROVE StepOfHand
<1>1. holding = NoItem /\ ActionReady /\ UNCHANGED <<news, cursor, crossed>>
  BY DEF AgentMoves, AgentsMayLift, shard
<1>2. PICK i \in Item, p \in Place : Moves(i, p)
  BY DEF AgentMoves
<1> QED
  BY <1>1, <1>2, MoveMovesHand, MoveGrows DEF StepOfHand

LEMMA CallMovesHand == ASSUME Punctual, IInv, Call PROVE StepOfHand
<1>1. UNCHANGED <<news, cursor>>
  BY DEF Call, shard
<1>2. PICK who \in Callers :
         \/ StartLoot(who) \/ StartDeposit(who) \/ StartHunt(who) \/ StartWalk(who)
         \/ SetGoalHunt(who) \/ SetGoal(who) \/ MoveTo(who)
         \/ WalkHold \/ Follow(who) \/ \E a \in {"once", "switched"} : RunAgent(who, a)
  BY HandType DEF Call, Callers
<1>3. "pack" \in Place /\ "bank" \in Place
  BY DEF Place
<1>4. CASE StartLoot(who)
  BY <1>1, <1>3, <1>4, JobStepMovesHand DEF StartLoot, LootStep, StepOfHand
<1>5. CASE StartDeposit(who)
  <2>1. CASE DepositStep(NewJob, NoItem) /\ UNCHANGED crossed
    BY <1>1, <1>3, <2>1, JobStepMovesHand DEF DepositStep, StepOfHand
  <2>2. CASE OpensBank
    <3>1. UNCHANGED wire /\ HandIsLeft
      BY <2>2 DEF OpensBank
    <3>2. HandMoves \/ crossed'
      BY <1>1, <2>2 DEF OpensBank, HandIsLeft, HandMoves, ForgetsDrop, link
    <3>3. crossed => crossed'
      BY <3>1 DEF HandIsLeft
    <3> QED
      BY <3>1, <3>2, <3>3, GrowsByNothing DEF StepOfHand
  <2> QED
    BY <1>5, <2>1, <2>2 DEF StartDeposit
<1>6. CASE \/ StartHunt(who) \/ StartWalk(who) \/ SetGoalHunt(who) \/ SetGoal(who) \/ MoveTo(who)
           \/ WalkHold \/ Follow(who) \/ \E a \in {"once", "switched"} : RunAgent(who, a)
  <2>1. UNCHANGED <<hand, link>>
    BY <1>1, <1>6 DEF StartHunt, StartWalk, SetGoalHunt, SetGoal, MoveTo, WalkHold, Follow,
                      RunAgent, link
  <2>2. HandIsLeft \/ UNCHANGED crossed
    BY <1>6 DEF StartHunt, StartWalk, StopForWalk, SetGoalHunt, SetGoal, MoveTo, WalkHold,
                Follow, RunAgent, EndHunt
  <2> QED
    BY <2>1, <2>2, HandAlone
<1> QED
  BY <1>2, <1>4, <1>5, <1>6

LEMMA StopMovesHand ==
    ASSUME IInv, StopAll, UNCHANGED <<news, cursor>>
    PROVE  StepOfHand
<1> DEFINE n == (IF loot.on THEN 1 ELSE 0) + (IF deposit.on THEN 1 ELSE 0)
<1>1. n \in Nat /\ PutBack(n) /\ EndHunt
  BY DEF StopAll
<1> HIDE DEF n
<1>2. HandMoves /\ Grows
  BY <1>1, PutBackMovesHand
<1>3. crossed => crossed'
  BY <1>1 DEF EndHunt, HandIsLeft
<1> QED
  BY <1>2, <1>3 DEF StepOfHand

\* The caller's own hand: a lift crosses whatever there is, a drop of another item
\* than the one held does, and so does a move with the hand full.
LEMMA ByHandMovesHand ==
    ASSUME Punctual, IInv, LiftByHand \/ DropByHand \/ MoveByHand,
           UNCHANGED <<news, cursor>>
    PROVE  StepOfHand
<1>1. CASE LiftByHand
  <2>1. crossed' /\ \E i \in Item : wire' = Append(wire, Lift(i))
    BY <1>1 DEF LiftByHand
  <2> QED
    BY <2>1, RequestTypes, GrowsByOne DEF StepOfHand
<1>2. CASE DropByHand
  <2>1. PICK i \in Item, p \in Place :
           /\ wire' = Append(wire, Drop(i, p))
           /\ sent_drop' = i
           /\ crossed' = (crossed \/ holding \notin {i, NoItem})
    BY <1>2 DEF DropByHand
  <2>2. UNCHANGED holding /\ AtRest
    BY <1>2 DEF DropByHand, ActionReady, AtRest
  <2> DEFINE one == <<Drop(i, p)>>
  <2>3. /\ one \in Seq(Requests) /\ one # <<>> /\ wire' = one /\ wire' = wire \o one
        /\ \A k \in 1 .. Len(one) : one[k].op = "drop" /\ one[k].item = i
    BY <2>1, <2>2, RequestTypes DEF AtRest, Drop
  <2>4. Grows
    BY <2>1, RequestTypes, GrowsByOne
  <2>5. crossed => crossed'
    BY <2>1
  <2>6. CASE holding = NoItem
    <3>1. wire' = <<Drop(i, p)>>
      BY <2>3
    <3>2. DropsNothing
      BY <2>2, <2>6, <3>1 DEF DropsNothing, link
    <3> QED
      BY <2>4, <2>5, <3>2 DEF StepOfHand, HandMoves
  <2>7. CASE holding = i /\ holding # NoItem
    <3> HIDE DEF one
    <3>1. DropsHeldAgain
      BY <2>1, <2>2, <2>3, <2>7 DEF DropsHeldAgain, link
    <3> QED
      BY <2>4, <2>5, <3>1 DEF StepOfHand, HandMoves
  <2>8. CASE holding \notin {i, NoItem}
    BY <2>1, <2>4, <2>8 DEF StepOfHand
  <2> QED
    BY <2>6, <2>7, <2>8
<1>3. CASE MoveByHand
  <2>1. PICK i \in Item, p \in Place : Moves(i, p)
    BY <1>3 DEF MoveByHand
  <2>2. ActionReady /\ HandIsLeft
    BY <1>3 DEF MoveByHand
  <2>3. Grows /\ (crossed => crossed')
    BY <2>1, <2>2, MoveGrows DEF HandIsLeft
  <2>4. CASE holding = NoItem
    BY <2>1, <2>2, <2>3, <2>4, MoveMovesHand DEF StepOfHand
  <2>5. CASE holding # NoItem
    BY <2>2, <2>3, <2>5 DEF StepOfHand, HandIsLeft
  <2> QED
    BY <2>4, <2>5
<1> QED
  BY <1>1, <1>2, <1>3

LEMMA ReachMovesHand == ASSUME Punctual, IInv, Reach PROVE StepOfHand
<1>1. UNCHANGED <<news, cursor>>
  BY DEF Reach, shard
<1>2. CASE JobStop
  <2>1. UNCHANGED <<hand, link>>
    BY <1>1, <1>2 DEF JobStop, link
  <2>2. HandIsLeft \/ UNCHANGED crossed
    BY <1>2 DEF JobStop, EndHunt
  <2> QED
    BY <2>1, <2>2, HandAlone
<1>3. CASE StopAll
  BY <1>1, <1>3, StopMovesHand
<1>4. CASE LiftByHand \/ DropByHand \/ MoveByHand
  BY <1>1, <1>4, ByHandMovesHand
<1>5. CASE AgentStops
  BY <1>1, <1>5, HandAlone DEF AgentStops, link
<1> QED
  BY <1>2, <1>3, <1>4, <1>5 DEF Reach

LEMMA TakeMovesHand == ASSUME IInv, Take PROVE StepOfHand
<1>1. StopAll /\ UNCHANGED <<news, cursor>>
  BY DEF Take, TakeStops, shard
<1> QED
  BY <1>1, StopMovesHand

LEMMA SessionMovesHand ==
    ASSUME Punctual, IInv, Next, ~Ingest, ~ShardTakes
    PROVE  StepOfHand
BY PumpMovesHand, LoopMovesHand, HoldLimitMovesHand, AgentsMoveHand, CallMovesHand,
   ReachMovesHand, TakeMovesHand DEF Next

-----------------------------------------------------------------------------
(* The packets, and the shard's turn. *)

\* A packet taken before the one that ends the hold leaves that one on its way,
\* and a hold that the client ends early has its drop on the wire.
LEMMA IngestKeepsHold ==
    ASSUME IInv, Idle \/ Held, Ingest
    PROVE  (Idle \/ Held)'
<1>1. /\ UNCHANGED <<sent_drop, wire, cursor>>
      /\ holding' = IF EndsHold(Head(news)) THEN NoItem ELSE holding
  BY DEF Ingest, shard
<1> DEFINE n == Len(news)
           rest == news'
<1>2. /\ n \in Nat \ {0} /\ Head(news) = news[1] /\ Len(rest) = n - 1
      /\ \A k \in 1 .. n - 1 : rest[k] = news[k + 1]
  BY TailFacts DEF Ingest, IInv, LinkInv
<1>3. CASE Idle
  <2>1. holding' = NoItem
    BY <1>1, <1>3 DEF Idle
  <2> QED
    BY <1>1, <1>3, <2>1 DEF Idle, DropsOnly
<1>4. CASE Held /\ LiftAsked
  BY <1>4 DEF LiftAsked, Ingest
<1>5. CASE Held /\ OnCursor
  <2>1. CASE EndsHold(news[1])
    <3>1. wire # <<>>
      <4> SUFFICES ASSUME wire = <<>> PROVE FALSE
        OBVIOUS
      <4>1. news[1].kind = "deleted" /\ sent_drop # holding
        BY <1>2, <1>5 DEF OnCursor
      <4> QED
        BY <2>1, <4>1 DEF EndsHold, DeletedAfterDrop
    <3>2. Idle'
      BY <1>1, <1>2, <1>5, <2>1, <3>1 DEF OnCursor, Held, Idle, DropsOnly, OfHeld
    <3> QED
      BY <3>2
  <2>2. CASE ~EndsHold(news[1])
    <3>1. holding' = holding
      BY <1>1, <1>2, <2>2
    <3>2. ASSUME wire = <<>>
          PROVE  \A k \in 1 .. n - 1 : rest[k].kind = "deleted"
      <4> SUFFICES ASSUME NEW k \in 1 .. n - 1 PROVE rest[k].kind = "deleted"
        OBVIOUS
      <4>1. k + 1 \in 1 .. n
        BY <1>2
      <4> QED
        BY <1>2, <1>5, <3>2, <4>1 DEF OnCursor
    <3>3. OnCursor'
      <4> HIDE DEF n, rest
      <4>1. wire = <<>> => \A k \in 1 .. Len(rest) : rest[k].kind = "deleted"
        BY <1>2, <3>2
      <4> QED
        BY <1>1, <1>5, <3>1, <4>1 DEF OnCursor, DropsOnly, OfHeld, rest
    <3> QED
      BY <1>5, <3>1, <3>3 DEF Held
  <2> QED
    BY <2>1, <2>2
<1>6. CASE Held /\ Ending
  <2>1. CASE EndsHold(news[1])
    <3>1. Idle'
      BY <1>1, <1>2, <1>6, <2>1 DEF Ending, Idle, DropsOnly
    <3> QED
      BY <3>1
  <2>2. CASE ~EndsHold(news[1])
    <3>1. holding' = holding
      BY <1>1, <1>2, <2>2
    <3>2. PICK k \in 1 .. n : EndsHold(news[k])
      BY <1>6 DEF Ending
    <3>3. PICK j \in 1 .. n - 1 : k = j + 1
      <4>1. k - 1 \in 1 .. n - 1 /\ k = (k - 1) + 1
        BY <1>2, <2>2, <3>2
      <4> QED
        BY <4>1
    <3>4. EndsHold(rest[j])
      BY <1>2, <3>2, <3>3
    <3>5. EndsHold(news[j])'
      BY <1>1, <3>1, <3>4 DEF EndsHold, MergedIntoStack, DeletedAfterDrop
    <3>6. Ending'
      BY <1>1, <1>2, <1>6, <3>3, <3>5 DEF Ending, DropsOnly
    <3> QED
      BY <1>6, <3>1, <3>6 DEF Held
  <2> QED
    BY <2>1, <2>2
<1> QED
  BY <1>3, <1>4, <1>5, <1>6 DEF Held

\* What the shard does with the first request that is left.
WireTaken ==
    LET n == Len(wire)
    IN  /\ n \in Nat \ {0} /\ wire[1] \in Requests
        /\ Len(wire') = n - 1
        /\ \A k \in 1 .. n - 1 : wire'[k] = wire[k + 1]
        /\ wire' = <<>> <=> n = 1

LEMMA ShardTakesFirst ==
    ASSUME IInv, ShardTakes
    PROVE  /\ WireTaken
           /\ UNCHANGED <<holding, sent_drop, crossed>>
           /\ IF wire[1].op = "lift" THEN ShardLifts(wire[1].item) ELSE ShardDrops(wire[1].dest)
<1>1. wire \in Seq(Requests) /\ wire # <<>> /\ wire' = Tail(wire)
  BY DEF IInv, HandInv, ShardTakes
<1>2. /\ Len(wire) \in Nat \ {0} /\ Head(wire) = wire[1] /\ wire[1] \in Requests
      /\ wire' \in Seq(Requests) /\ Len(wire') = Len(wire) - 1
      /\ \A k \in 1 .. Len(wire) - 1 : wire'[k] = wire[k + 1]
  BY <1>1, TailFacts
<1>3. wire' = <<>> <=> Len(wire) = 1
  <2>1. wire' = <<>> <=> Len(wire') = 0
    BY <1>2, EmptySeq, Zenon
  <2> QED
    BY <1>2, <2>1
<1> QED
  BY <1>2, <1>3 DEF WireTaken, ShardTakes

\* The drop of what is on the cursor ends the hold, in whatever way it lands.
LEMMA DropAnswersHold ==
    ASSUME IInv, NEW p \in Place, ShardDrops(p), cursor # NoItem, holding = cursor,
           sent_drop = holding, UNCHANGED <<holding, sent_drop>>
    PROVE  cursor' = NoItem /\ \E k \in 1 .. Len(news') : EndsHold(news[k])'
<1>1. cursor' = NoItem
  BY DEF ShardDrops
<1> DEFINE ends(packet) == packet.item = holding /\ packet.kind \in {"added", "on_ground", "deleted", "grew"}
<1>2. ASSUME NEW packet, ends(packet)
      PROVE  EndsHold(packet)
  BY <1>2 DEF EndsHold, MergedIntoStack, DeletedAfterDrop
<1>3. ASSUME NEW more \in Seq(Packets), more # <<>>, ends(more[Len(more)]), news' = news \o more
      PROVE  \E k \in 1 .. Len(news') : ends(news'[k])
  <2>1. news \in Seq(Packets) /\ Len(news) \in Nat /\ Len(more) \in Nat \ {0}
    BY <1>3, EmptySeq DEF IInv, LinkInv
  <2> DEFINE last == Len(news) + Len(more)
             after == news \o more
  <2>2. Len(after) = last /\ after[last] = more[Len(more)]
    <3>1. /\ Len(after) = Len(news) + Len(more)
          /\ \A i \in 1 .. Len(more) : after[Len(news) + i] = more[i]
      BY <2>1, ConcatFacts
    <3>2. Len(more) \in 1 .. Len(more)
      BY <2>1
    <3> QED
      BY <3>1, <3>2
  <2>3. last \in 1 .. last
    BY <2>1
  <2> HIDE DEF last, after, ends
  <2>4. ends(after[last])
    BY <1>3, <2>2
  <2>5. news' = after
    BY <1>3 DEF after
  <2> QED
    BY <2>2, <2>3, <2>4, <2>5
<1>4. ASSUME NEW q \in Place, Lands(cursor, q)
      PROVE  \E k \in 1 .. Len(news') : ends(news'[k])
  <2> DEFINE packet == Packet(IF q = "ground" THEN "on_ground" ELSE "added", cursor, q)
  <2>1. packet \in Packets /\ ends(packet)
    BY <1>4 DEF Packet, Packets, IInv, ShardInv
  <2>2. PICK first \in {<<>>, <<Packet("accepted", cursor, q)>>} : news' = news \o Append(first, packet)
    BY <1>4 DEF Lands, Answer
  <2>3. first \in Seq(Packets)
    <3> DEFINE accepted == Packet("accepted", cursor, q)
    <3>1. accepted \in Packets
      BY DEF Packet, Packets, IInv, ShardInv
    <3>2. first = <<>> \/ first = <<accepted>>
      BY <2>2
    <3>3. <<accepted>> \in Seq(Packets) /\ <<>> \in Seq(Packets)
      BY <3>1
    <3> HIDE DEF accepted
    <3> QED
      BY <3>2, <3>3
  <2> HIDE DEF packet
  <2> DEFINE more == Append(first, packet)
  <2>4. more \in Seq(Packets) /\ more # <<>> /\ more[Len(more)] = packet
    <3> HIDE DEF ends
    <3>1. Len(more) = Len(first) + 1 /\ more[Len(first) + 1] = packet /\ Len(first) \in Nat
      BY <2>3, AppendFacts
    <3>2. more \in Seq(Packets)
      BY <2>1, <2>3
    <3> HIDE DEF more
    <3> QED
      BY <3>1, <3>2
  <2> HIDE DEF more, ends
  <2>5. news' = news \o more
    BY <2>2 DEF more
  <2> QED
    BY <1>3, <2>1, <2>4, <2>5
<1>5. ASSUME NEW kind \in {"deleted", "grew"}, Answer(<<Packet(kind, cursor, p)>>)
      PROVE  \E k \in 1 .. Len(news') : ends(news'[k])
  <2> DEFINE packet == Packet(kind, cursor, p)
             more == <<packet>>
  <2>1. packet \in Packets /\ ends(packet)
    BY <1>5 DEF Packet, Packets, IInv, ShardInv
  <2>2. more \in Seq(Packets) /\ more # <<>> /\ more[Len(more)] = packet
    BY <2>1
  <2>3. news' = news \o more
    BY <1>5 DEF Answer
  <2> HIDE DEF packet, more, ends
  <2> QED
    BY <1>3, <2>1, <2>2, <2>3
<1>6. at[cursor] \in Place
  BY DEF IInv, ShardInv
<1>7. PICK k \in 1 .. Len(news') : ends(news'[k])
  BY <1>4, <1>5, <1>6 DEF ShardDrops
<1>8. EndsHold(news[k])'
  BY <1>7 DEF EndsHold, MergedIntoStack, DeletedAfterDrop
<1> QED
  BY <1>1, <1>7, <1>8

LEMMA ShardKeepsHold ==
    ASSUME IInv, Idle \/ Held, ShardTakes
    PROVE  (Idle \/ Held)'
<1>1. /\ WireTaken
      /\ UNCHANGED <<holding, sent_drop>>
      /\ IF wire[1].op = "lift" THEN ShardLifts(wire[1].item) ELSE ShardDrops(wire[1].dest)
  BY ShardTakesFirst
<1> DEFINE n == Len(wire)
           w == wire'
<1>2. /\ n \in Nat \ {0} /\ wire[1] \in Requests /\ Len(w) = n - 1
      /\ \A k \in 1 .. n - 1 : w[k] = wire[k + 1]
      /\ w = <<>> <=> n = 1
  BY <1>1 DEF WireTaken
<1> HIDE DEF w
<1>3. DropsOnly(1) \/ DropsOnly(2) => \A k \in 1 .. n - 1 : w[k].op = "drop"
  <2> SUFFICES ASSUME DropsOnly(1) \/ DropsOnly(2), NEW k \in 1 .. n - 1
               PROVE  w[k].op = "drop"
    OBVIOUS
  <2>1. k + 1 \in 2 .. n /\ k + 1 \in 1 .. n
    BY <1>2
  <2> QED
    BY <1>2, <2>1 DEF DropsOnly
<1>4. OfHeld => \A k \in 1 .. n - 1 : w[k].item = holding
  <2> SUFFICES ASSUME OfHeld, NEW k \in 1 .. n - 1
               PROVE  w[k].item = holding
    OBVIOUS
  <2>1. k + 1 \in 1 .. n
    BY <1>2
  <2> QED
    BY <1>2, <2>1 DEF OfHeld
<1>5. ASSUME wire[1].op = "drop"
      PROVE  ShardDrops(wire[1].dest) /\ wire[1].dest \in Place
  BY <1>1, <1>2, <1>5 DEF Requests
<1>6. 1 \in 1 .. n
  BY <1>2
<1>7. CASE Idle
  <2>1. ShardDrops(wire[1].dest)
    BY <1>5, <1>6, <1>7 DEF Idle, DropsOnly
  <2>2. cursor' = NoItem
    BY <2>1 DEF ShardDrops, shard
  <2>3. Idle'
    BY <1>1, <1>2, <1>3, <1>7, <2>2 DEF Idle, DropsOnly, w
  <2> QED
    BY <2>3
<1>8. CASE Held /\ LiftAsked
  <2>1. ShardLifts(holding) /\ news = <<>> /\ cursor = NoItem
    BY <1>1, <1>6, <1>8 DEF LiftAsked, OfHeld
  <2>2. CASE cursor' = holding /\ news' = news \o <<Packet("deleted", holding, "corpse")>>
    <3>1. Len(news') = 1 /\ news'[1].kind = "deleted"
      BY <2>1, <2>2 DEF Packet
    <3>2. OnCursor'
      BY <1>1, <1>2, <1>3, <1>4, <1>8, <2>2, <3>1 DEF LiftAsked, OnCursor, DropsOnly, OfHeld, w
    <3> QED
      BY <1>1, <1>8, <3>2 DEF Held
  <2>3. CASE cursor' = cursor /\ news' = news \o <<Packet("rejected", holding, "corpse")>>
    <3>1. Len(news') = 1 /\ news'[1].kind = "rejected"
      BY <2>1, <2>3 DEF Packet
    <3>2. EndsHold(news[1])'
      BY <3>1 DEF EndsHold
    <3>3. Ending'
      BY <1>2, <1>3, <1>8, <2>3, <3>1, <3>2 DEF LiftAsked, Ending, DropsOnly, w
    <3> QED
      BY <1>1, <1>8, <3>3 DEF Held
  <2> QED
    BY <2>1, <2>2, <2>3 DEF ShardLifts, Answer, shard
<1>9. CASE Held /\ OnCursor
  <2>1. /\ ShardDrops(wire[1].dest) /\ wire[1].dest \in Place
        /\ cursor # NoItem /\ holding = cursor
    BY <1>5, <1>6, <1>9 DEF OnCursor, DropsOnly, Held
  <2>2. sent_drop = holding
    BY <1>2, <1>9 DEF OnCursor
  <2>3. cursor' = NoItem /\ \E k \in 1 .. Len(news') : EndsHold(news[k])'
    BY <1>1, <2>1, <2>2, DropAnswersHold
  <2>4. Ending'
    BY <1>2, <1>3, <1>9, <2>3 DEF OnCursor, Ending, DropsOnly, w
  <2> QED
    BY <1>1, <1>9, <2>4 DEF Held
<1>10. CASE Held /\ Ending
  <2>1. ShardDrops(wire[1].dest) /\ cursor = NoItem
    BY <1>5, <1>6, <1>10 DEF Ending, DropsOnly
  <2>2. UNCHANGED <<cursor, news>>
    BY <2>1 DEF ShardDrops, shard
  <2>3. PICK k \in 1 .. Len(news) : EndsHold(news[k])
    BY <1>10 DEF Ending
  <2>4. EndsHold(news[k])'
    BY <1>1, <2>2, <2>3 DEF EndsHold, MergedIntoStack, DeletedAfterDrop
  <2>5. Ending'
    BY <1>2, <1>3, <1>10, <2>2, <2>3, <2>4 DEF Ending, DropsOnly, w
  <2> QED
    BY <1>1, <1>10, <2>5 DEF Held
<1> QED
  BY <1>7, <1>8, <1>9, <1>10 DEF Held

LEMMA OneHoldStays == ASSUME Punctual, IInv, OneHold, [Next]_vars PROVE OneHold'
<1> SUFFICES ASSUME ~crossed' PROVE (Idle \/ Held)'
  BY DEF OneHold
<1>1. CASE UNCHANGED vars
  <2>1. UNCHANGED <<hand, link, crossed>>
    BY <1>1 DEF vars, hand, link, shard
  <2>2. Idle \/ Held
    BY <2>1 DEF OneHold
  <2> QED
    BY <2>1, <2>2, MovingKeepsHold DEF HandMoves
<1>2. CASE Ingest
  <2>1. Idle \/ Held
    BY <1>2 DEF OneHold, Ingest
  <2> QED
    BY <1>2, <2>1, IngestKeepsHold
<1>3. CASE ShardTakes
  <2>1. Idle \/ Held
    BY <1>3 DEF OneHold, ShardTakes
  <2> QED
    BY <1>3, <2>1, ShardKeepsHold
<1>4. CASE Next /\ ~Ingest /\ ~ShardTakes
  <2>1. StepOfHand
    BY <1>4, SessionMovesHand
  <2>2. (Idle \/ Held) /\ HandMoves
    BY <2>1 DEF StepOfHand, OneHold
  <2> QED
    BY <2>2, MovingKeepsHold
<1> QED
  BY <1>1, <1>2, <1>3, <1>4

LEMMA OneHoldAtFirst == Init => OneHold
BY DEF Init, OneHold, Idle, DropsOnly

LEMMA OneHoldHolds == ASSUME Punctual PROVE Spec => [](IInv /\ OneHold)
<1>1. Init => IInv /\ OneHold
  BY InvAtFirst, OneHoldAtFirst
<1>2. IInv /\ OneHold /\ [Next]_vars => (IInv /\ OneHold)'
  BY InvStays, OneHoldStays
<1> QED
  BY <1>1, <1>2, PTL DEF Spec

\* Once nothing is on its way, the session holds what the shard has on the cursor,
\* unless something crossed the hold (HandAgrees of Hand: the packets that end a
\* hold end neither too few nor too many of them), when the answers to a lift and
\* its drop come within ACTION_BUDGET.
THEOREM HandAgreesAtRest == ASSUME Punctual PROVE Spec => []HandAgrees
<1>1. IInv /\ OneHold => HandAgrees
  <2> SUFFICES ASSUME Idle \/ Held, AtRest PROVE cursor = holding
    BY DEF HandAgrees, OneHold
  <2>1. wire = <<>> /\ Len(news) = 0
    BY DEF AtRest
  <2> QED
    BY <2>1 DEF Idle, Held, LiftAsked, OnCursor, Ending
<1> QED
  BY <1>1, OneHoldHolds, PTL

\* A lift reaches the shard with nothing on the cursor, and a drop moves the item
\* it names (OneItemAtATime of Hand: jobs, agents, scripts and the caller's own
\* hand share one cursor), under the same assumption.
THEOREM HandOneItemAtATime == ASSUME Punctual PROVE Spec => OneItemAtATime
<1> DEFINE Fits == ~crossed /\ Len(wire') < Len(wire)
                     => cursor = NoItem \/ (Head(wire).op = "drop" /\ Head(wire).item = cursor)
<1>1. ASSUME IInv, OneHold, [Next]_vars PROVE [Fits]_vars
  <2> SUFFICES ASSUME ~crossed, Len(wire') < Len(wire), cursor # NoItem
               PROVE  Head(wire).op = "drop" /\ Head(wire).item = cursor
    OBVIOUS
  <2>1. Idle \/ Held
    BY <1>1 DEF OneHold
  <2>2. ~Grows /\ wire' # wire
    BY <1>1 DEF Grows, IInv, HandInv
  <2>3. ShardTakes
    <3>1. ~UNCHANGED vars
      BY <2>2 DEF vars
    <3>2. ~Ingest
      BY <2>2 DEF Ingest
    <3> QED
      BY <1>1, <2>2, <3>1, <3>2, SessionMovesHand DEF StepOfHand
  <2>4. Len(wire) \in Nat \ {0} /\ Head(wire) = wire[1] /\ 1 \in 1 .. Len(wire)
    BY <1>1, <2>3, TailFacts DEF IInv, HandInv, ShardTakes
  <2>5. wire[1].op = "drop" /\ wire[1].item = cursor
    BY <2>1, <2>4 DEF Idle, Held, LiftAsked, OnCursor, Ending, DropsOnly, OfHeld
  <2> QED
    BY <2>4, <2>5
<1> QED
  BY <1>1, OneHoldHolds, PTL DEF Spec, OneItemAtATime
=============================================================================
