-------------------------------- MODULE Hand --------------------------------
(***************************************************************************)
(* The one item a character can hold, the jobs that lift and drop with it, *)
(* and the human who takes the character from the agent.                   *)
(* crates/uoterm-runtime/src/session.rs (reflex_tick, pump_loot,           *)
(* pump_deposit, pump_hunt, the tools that start and stop jobs,            *)
(* put_back_what_is_held, leave_map, the packets that end a hold), loot.rs,*)
(* deposit.rs, jobs.rs, session/agents.rs (pump_agents), session/control.rs*)
(*                                                                         *)
(* Abstracted: a job that walks or opens a container leaves the hand alone *)
(* and does nothing here; a hunt that flees, fights or waits behind a      *)
(* leader, and a bank job before a shut box, are kept from their turn, for *)
(* as long as it lasts (`kept`); the agents that are switched on are one,  *)
(* and wear nothing; all items are of one kind; one corpse, one pack, one  *)
(* bank box and the ground are the places.                                 *)
(***************************************************************************)
EXTENDS Naturals, Sequences

CONSTANTS
    Item,           \* the items
    NoItem,         \* nothing in the hand
    MaxLifts,       \* MAX_LIFTS_PER_ITEM
    Punctual,       \* the shard's answers come within ACTION_BUDGET
    Lying,          \* where the items may lie at first
    SwitchedOn,     \* the agents that are on at first
    MaxInputs       \* bound: calls, kills, time-outs, the shard's refusals

ASSUME HandType ==
    /\ NoItem \notin Item
    /\ MaxLifts \in Nat
    /\ Punctual \in BOOLEAN
    /\ Lying \subseteq [Item -> {"corpse", "pack"}]
    /\ SwitchedOn \subseteq {"switched"}
    /\ MaxInputs \in Nat

VARIABLES
    \* The session.
    holding,        \* World::holding
    sent_drop,      \* the item whose drop went out last
    parent,         \* where the client has each item, "away" once deleted
    loot,           \* the loot job: it runs, its lifts of each item, kept or not
    deposit,        \* the bank job
    hunt,           \* the hunt job, which loots its kills
    walk,           \* the walk job runs
    goal,           \* the goal
    follow,         \* the character follows somebody
    agents,         \* the agents that run: "switched" on, and the job run "once"
    human,          \* a human has control
    by,             \* who set each of these going
    \* The two directions of the link, and the shard (external).
    wire,           \* lifts and drops on their way to the shard
    news,           \* packets on their way to the client
    cursor,         \* the item the shard has on the cursor
    at,             \* where each item lies, or lay before it was lifted
    \* History, read by no action.
    crossed,        \* a job was ended, a lift sent, a bank box opened or the
                    \* item forgotten with the hand full
    inputs

hand == <<holding, sent_drop, wire>>
jobs == <<loot, deposit, hunt, walk, goal, follow, agents, by>>
shard == <<cursor, at>>
vars == <<holding, sent_drop, parent, jobs, human, wire, news, shard, crossed, inputs>>

Place == {"corpse", "pack", "bank", "ground"}
Things == {"loot", "deposit", "hunt", "walk", "goal", "follow", "once", "switched"}
Input == inputs < MaxInputs /\ inputs' = inputs + 1

NewJob == [on |-> TRUE, lifts |-> [i \in Item |-> 0], kept |-> FALSE]
NoJob == [NewJob EXCEPT !.on = FALSE]
NoHunt == [on |-> FALSE, loot |-> NoJob]
NewHunt == [on |-> TRUE, loot |-> NoJob]

\* action_ready.  The answers to a lift and its drop come before the budget of
\* the next action is up, when the link is punctual.
ActionReady == Punctual => wire = <<>> /\ news = <<>>

Lift(i) == [op |-> "lift", item |-> i, dest |-> "cursor"]
Drop(i, p) == [op |-> "drop", item |-> i, dest |-> p]

\* Whether whatever is in the hand is left there by what ends here.
HandIsLeft == crossed' = (crossed \/ holding # NoItem)

-----------------------------------------------------------------------------
(* The steps of a job that lifts (LootJob::step, DepositJob::step). *)

\* Slip: the mark of the last drop survives the next lift.
SentDropAfterLift == sent_drop

\* A lift forgets the drop of the item before.
AfterLift == NoItem

\* What is left of the source, and of that what may still be lifted.
Left(source) == {i \in Item : parent[i] = source}

\* Slip: one lift more than the limit.
MayLiftOnceMore(job, i) == job.lifts[i] <= MaxLifts

MayLift(job, i) == job.lifts[i] < MaxLifts
NoteLift(job, i) == [job EXCEPT !.lifts[i] = @ + 1]

\* A held item is dropped, once; `sent` is the drop that went out last.
DropHeld(dest, sent) ==
    IF sent = holding
      THEN UNCHANGED wire /\ sent_drop' = sent
      ELSE /\ wire' = Append(wire, Drop(holding, dest))
           /\ sent_drop' = holding

LiftNext(job, i) ==
    /\ wire' = Append(wire, Lift(i))
    /\ holding' = i
    /\ sent_drop' = AfterLift

\* One step of a job from `source` to `dest`; `after` is the job it leaves, and
\* "waits" is a tick spent on the way to the source, at its lid or on the budget.
JobStep(job, source, dest, sent, after) ==
    IF holding # NoItem
      THEN DropHeld(dest, sent) /\ after = job /\ UNCHANGED holding
    ELSE \/ /\ Left(source) = {} \/ \A i \in Left(source) : ~MayLift(job, i)
            /\ after = NoJob
            /\ sent_drop' = sent
            /\ UNCHANGED <<wire, holding>>
         \/ \E i \in Left(source) :
               /\ MayLift(job, i)
               /\ ActionReady
               /\ after = NoteLift(job, i)
               /\ LiftNext(job, i)
         \/ /\ after = job
            /\ sent_drop' = sent
            /\ UNCHANGED <<wire, holding>>

\* The jobs a step of one of them may leave.
After(job) == {NoJob, job} \cup {NoteLift(job, i) : i \in {i \in Item : MayLift(job, i)}}

LootStep(job, sent) ==
    \E after \in After(job) :
        loot' = after /\ JobStep(job, "corpse", "pack", sent, after)
DepositStep(job, sent) ==
    \E after \in After(job) :
        deposit' = after /\ JobStep(job, "pack", "bank", sent, after)

-----------------------------------------------------------------------------
(* The tick of the loop: reflex_tick takes the first job that runs, and      *)
(* pump_agents follows.                                                      *)

\* The bank job and the hunt's looting come to their turn.
Deposits == ~loot.on /\ deposit.on /\ ~deposit.kept
HuntLoots == ~loot.on /\ ~deposit.on /\ hunt.on /\ hunt.loot.on /\ ~hunt.loot.kept

PumpLoot ==
    /\ loot.on
    /\ LootStep(loot, sent_drop)
    /\ UNCHANGED <<deposit, hunt>>

PumpDeposit ==
    /\ Deposits
    /\ DepositStep(deposit, sent_drop)
    /\ UNCHANGED <<loot, hunt>>

\* pump_hunt in its loot phase: the corpse of a kill is emptied as a loot job
\* empties one.
PumpHunt ==
    /\ HuntLoots
    /\ \E after \in After(hunt.loot) :
          /\ hunt' = [hunt EXCEPT !.loot = after]
          /\ JobStep(hunt.loot, "corpse", "pack", sent_drop, after)
    /\ UNCHANGED <<loot, deposit>>

PumpJobs ==
    /\ PumpLoot \/ PumpDeposit \/ PumpHunt
    /\ UNCHANGED <<parent, walk, goal, follow, agents, by, human, news, shard, crossed, inputs>>

\* The bank box shuts or opens.  The hunt leaves its looting, to flee or fight or
\* behind the leader the character follows, or takes it up again (choose_phase,
\* reflex_tick).  What is held stays in the hand.
KeptOrFreed ==
    /\ \/ deposit.on /\ deposit' = [deposit EXCEPT !.kept = ~@] /\ UNCHANGED hunt
       \/ hunt.loot.on /\ hunt' = [hunt EXCEPT !.loot.kept = ~@] /\ UNCHANGED deposit
    /\ UNCHANGED <<hand, parent, loot, walk, goal, follow, agents, by, human, news, shard,
                   crossed, inputs>>

\* JOB_TOOK_TOO_LONG, looked at before anything else, "corpse is gone" and "no
\* bank box": the job fails, and nobody looks at the hand.
JobFails ==
    /\ Input
    /\ \/ loot.on /\ loot' = NoJob /\ UNCHANGED <<deposit, hunt>>
       \/ ~loot.on /\ deposit.on /\ deposit' = NoJob /\ UNCHANGED <<loot, hunt>>
       \/ /\ HuntLoots
          /\ hunt' = [hunt EXCEPT !.loot = NoJob]
          /\ UNCHANGED <<loot, deposit>>
    /\ HandIsLeft
    /\ UNCHANGED <<hand, parent, walk, goal, follow, agents, by, human, news, shard>>

\* A kill leaves a corpse to empty.
HuntKills ==
    /\ Input
    /\ hunt.on
    /\ ~hunt.loot.on
    /\ hunt' = [hunt EXCEPT !.loot = NewJob]
    /\ UNCHANGED <<hand, parent, loot, deposit, walk, goal, follow, agents, by, human, news,
                   shard, crossed>>

\* end_hunt: the hand stays as it is.
EndHunt ==
    /\ hunt' = NoHunt
    /\ IF hunt.loot.on THEN HandIsLeft ELSE UNCHANGED crossed

\* The hunt ends (dead, unreachable, handed back), the walk does (arrived, a
\* hostile, no way), or the character has played along long enough.
JobEnds ==
    /\ Input
    /\ \/ hunt.on /\ EndHunt /\ goal' = "idle" /\ UNCHANGED <<walk, follow>>
       \/ walk /\ walk' = FALSE /\ goal' = "idle" /\ UNCHANGED <<hunt, follow, crossed>>
       \/ follow /\ follow' = FALSE /\ UNCHANGED <<hunt, walk, goal, crossed>>
    /\ UNCHANGED <<hand, parent, loot, deposit, agents, by, human, news, shard>>

\* The job at its turn drops what is held in the tick it finds it.
DropDue == holding # sent_drop /\ (loot.on \/ Deposits \/ HuntLoots)

\* pump_agents, HOLD_LIMIT, after reflex_tick: the agents stop waiting for the
\* item on the cursor.
HoldLimit ==
    /\ Input
    /\ holding # NoItem
    /\ ~DropDue
    /\ holding' = NoItem
    /\ crossed' = TRUE
    /\ UNCHANGED <<sent_drop, parent, jobs, human, wire, news, shard>>

\* lift_and_drop: both packets leave together.
LiftAndDrop(i, p) ==
    /\ wire' = wire \o <<Lift(i), Drop(i, p)>>
    /\ holding' = i
    /\ sent_drop' = i

\* Slip: the agents do not look at the hand.
AgentsLookAtNothing == TRUE

\* pump_agents never asks who has control: no agent lifts with an item in the hand.
AgentsMayLift == holding = NoItem

Moves(i, p) == parent[i] # "away" /\ parent[i] # p /\ LiftAndDrop(i, p)
AgentMoves ==
    /\ Input
    /\ agents # {}
    /\ AgentsMayLift
    /\ ActionReady
    /\ \E i \in Item, p \in Place : Moves(i, p)
    /\ UNCHANGED <<parent, jobs, human, news, shard, crossed>>

\* leave_map: the loot and the bank job, the follow and a travel goal go with the
\* map; the walk job does not.
LeaveMap ==
    /\ Input
    /\ loot' = NoJob
    /\ deposit' = NoJob
    /\ goal' = IF goal = "travel" THEN "idle" ELSE goal
    /\ follow' = FALSE
    /\ IF loot.on \/ deposit.on THEN HandIsLeft ELSE UNCHANGED crossed
    /\ UNCHANGED <<hand, parent, hunt, walk, agents, by, human, news, shard>>

-----------------------------------------------------------------------------
(* The calls.  A caller is the agent, who is refused while a human has       *)
(* control (control::gate), or the human.                                    *)

Callers == {"agent", "human"}

Gate(who) == who = "human" \/ ~human

Sets(who, things) == by' = [t \in Things |-> IF t \in things THEN who ELSE by[t]]

\* TOOL_LOOT and TOOL_DEPOSIT: the new job takes its first step at once.
StartLoot(who) ==
    /\ LootStep(NewJob, NoItem)
    /\ Sets(who, {"loot"})
    /\ UNCHANGED <<deposit, hunt, walk, goal, follow, agents, human, crossed>>

\* Before a shut bank box the first step is to open it; of a drop that is on its
\* way nothing is known any more.
OpensBank ==
    /\ deposit' = [NewJob EXCEPT !.kept = TRUE]
    /\ sent_drop' = NoItem
    /\ HandIsLeft
    /\ UNCHANGED <<wire, holding>>
StartDeposit(who) ==
    /\ (DepositStep(NewJob, NoItem) /\ UNCHANGED crossed) \/ OpensBank
    /\ Sets(who, {"deposit"})
    /\ UNCHANGED <<loot, hunt, walk, goal, follow, agents, human>>

\* Slip: a walk job does not stop the hunt.
WalkBesideHunt == UNCHANGED <<hunt, crossed>>

\* start_walk stops the jobs that run.
StopForWalk == EndHunt

\* start_hunt and start_walk; `replace`, or nothing to replace.
StartHunt(who) ==
    /\ hunt' = NewHunt
    /\ walk' = FALSE
    /\ goal' = "hunt"
    /\ follow' = FALSE
    /\ IF hunt.loot.on THEN HandIsLeft ELSE UNCHANGED crossed
    /\ Sets(who, {"hunt", "goal"})
    /\ UNCHANGED <<hand, loot, deposit, agents, human>>
StartWalk(who) ==
    /\ StopForWalk
    /\ walk' = TRUE
    /\ goal' = "travel"
    /\ follow' = FALSE
    /\ Sets(who, {"walk", "goal"})
    /\ UNCHANGED <<hand, loot, deposit, agents, human>>

\* set_goal: the goal hunt starts a hunt unless one runs, any other goal stops
\* both jobs.
SetGoalHunt(who) ==
    /\ walk' = FALSE
    /\ goal' = "hunt"
    /\ follow' = FALSE
    /\ hunt' = IF hunt.on THEN hunt ELSE NewHunt
    /\ Sets(who, IF hunt.on THEN {"goal"} ELSE {"goal", "hunt"})
    /\ UNCHANGED <<hand, loot, deposit, agents, human, crossed>>
SetGoal(who) ==
    /\ walk' = FALSE
    /\ EndHunt
    /\ goal' \in {"idle", "travel"}
    /\ follow' = FALSE
    /\ Sets(who, {"goal"})
    /\ UNCHANGED <<hand, loot, deposit, agents, human>>

\* move_to sets the goal and stops no job; nor do walk_hold and follow, which
\* end the goal.
MoveTo(who) ==
    /\ goal' \in {"idle", "travel"}
    /\ Sets(who, {"goal"})
    /\ UNCHANGED <<hand, loot, deposit, hunt, walk, follow, agents, human, crossed>>
WalkHold ==
    /\ goal' = "idle"
    /\ follow' = FALSE
    /\ UNCHANGED <<hand, loot, deposit, hunt, walk, agents, by, human, crossed>>
Follow(who) ==
    /\ follow' = TRUE
    /\ goal' = "idle"
    /\ Sets(who, {"follow"})
    /\ UNCHANGED <<hand, loot, deposit, hunt, walk, agents, human, crossed>>

\* agent_on and agent_run.
RunAgent(who, a) ==
    /\ agents' = agents \cup {a}
    /\ Sets(who, {a})
    /\ UNCHANGED <<hand, loot, deposit, hunt, walk, goal, follow, human, crossed>>

\* agent_on with `on` false, agent_stop and the end of the job run once.
AgentStops ==
    /\ \E a \in agents : agents' = agents \ {a}
    /\ UNCHANGED <<hand, loot, deposit, hunt, walk, goal, follow, by, human, crossed>>

\* job_stop.
JobStop ==
    /\ \/ hunt.on /\ EndHunt /\ UNCHANGED walk
       \/ ~hunt.on /\ walk /\ walk' = FALSE /\ UNCHANGED <<hunt, crossed>>
    /\ goal' = "idle"
    /\ UNCHANGED <<hand, loot, deposit, follow, agents, by, human>>

\* put_back_what_is_held, once for the loot job and once for the bank job.
PutBack(jobs_on) ==
    IF holding = NoItem \/ jobs_on = 0
      THEN UNCHANGED hand
      ELSE /\ wire' = wire \o [k \in 1 .. jobs_on |-> Drop(holding, "pack")]
           /\ sent_drop' = holding
           /\ UNCHANGED holding

\* TOOL_STOP and TOOL_CANCEL_GOAL.
StopAll ==
    /\ EndHunt
    /\ walk' = FALSE
    /\ loot' = NoJob
    /\ deposit' = NoJob
    /\ goal' = "idle"
    /\ follow' = FALSE
    /\ PutBack((IF loot.on THEN 1 ELSE 0) + (IF deposit.on THEN 1 ELSE 0))
    /\ UNCHANGED by

\* TOOL_LIFT and TOOL_DROP: a caller's own hand.
LiftByHand ==
    /\ ActionReady
    /\ \E i \in Item :
          /\ wire' = Append(wire, Lift(i))
          /\ holding' = i
    /\ crossed' = TRUE
    /\ UNCHANGED <<sent_drop, jobs, human>>
DropByHand ==
    /\ ActionReady
    /\ \E i \in Item, p \in Place :
          /\ wire' = Append(wire, Drop(i, p))
          /\ sent_drop' = i
          /\ crossed' = (crossed \/ holding \notin {i, NoItem})
    /\ UNCHANGED <<holding, jobs, human>>

\* A script's moveitem, TOOL_UNEQUIP and the like: whatever is in the hand.
MoveByHand ==
    /\ ActionReady
    /\ \E i \in Item, p \in Place : Moves(i, p)
    /\ HandIsLeft
    /\ UNCHANGED <<jobs, human>>

Call ==
    /\ Input
    /\ \E who \in Callers :
          /\ Gate(who)
          /\ \/ StartLoot(who)
             \/ StartDeposit(who)
             \/ StartHunt(who)
             \/ StartWalk(who)
             \/ SetGoalHunt(who)
             \/ SetGoal(who)
             \/ MoveTo(who)
             \/ WalkHold
             \/ Follow(who)
             \/ \E a \in {"once", "switched"} : RunAgent(who, a)
    /\ UNCHANGED <<parent, news, shard>>

\* The calls nobody owns; the human is never refused one.
Reach ==
    /\ Input
    /\ \/ JobStop
       \/ StopAll /\ UNCHANGED <<agents, human>>
       \/ AgentStops
       \/ LiftByHand
       \/ DropByHand
       \/ MoveByHand
    /\ UNCHANGED <<parent, news, shard>>

\* Slip: who takes the character stops only the jobs that walk.
TakeStopsTheWalk ==
    /\ EndHunt
    /\ walk' = FALSE
    /\ goal' = "idle"
    /\ follow' = FALSE
    /\ UNCHANGED <<hand, loot, deposit, agents, by>>

\* control::take: the first one stops what runs, by TOOL_STOP and agent_stop; the
\* agents that are switched on stay on.
TakeStops == StopAll /\ agents' = agents \ {"once"}

Take ==
    /\ Input
    /\ ~human
    /\ human' = TRUE
    /\ TakeStops
    /\ UNCHANGED <<parent, news, shard>>

\* release, and HUMAN_IDLE.
GiveBack ==
    /\ human
    /\ human' = FALSE
    /\ UNCHANGED <<hand, parent, jobs, news, shard, crossed, inputs>>

-----------------------------------------------------------------------------
(* The packets that end a hold. *)

Packet(kind, i, p) == [kind |-> kind, item |-> i, place |-> p]

\* Slip: any deletion of the held item ends the hold.
DeletedAlways(i) == TRUE

\* A held item that is deleted, or shown on the ground, after its drop went out
\* has landed.
DeletedAfterDrop(i) == sent_drop = i

\* A stack of the same kind grew: the held item went into it (merged_into_stack).
MergedIntoStack == holding = sent_drop

EndsHold(packet) ==
    \/ packet.kind \in {"rejected", "accepted"}
    \/ packet.kind = "added" /\ holding = packet.item
    \/ packet.kind = "grew" /\ MergedIntoStack
    \/ packet.kind \in {"deleted", "on_ground"}
          /\ holding = packet.item
          /\ DeletedAfterDrop(packet.item)

Parent(packet) ==
    CASE packet.kind = "deleted" -> [parent EXCEPT ![packet.item] = "away"]
      [] packet.kind \in {"added", "on_ground"} -> [parent EXCEPT ![packet.item] = packet.place]
      [] OTHER -> parent

Ingest ==
    /\ news # <<>>
    /\ news' = Tail(news)
    /\ parent' = Parent(Head(news))
    /\ holding' = IF EndsHold(Head(news)) THEN NoItem ELSE holding
    /\ UNCHANGED <<sent_drop, jobs, human, wire, shard, crossed, inputs>>

-----------------------------------------------------------------------------
(* The shard (external). *)

Answer(packets) == news' = news \o packets

\* A lift is refused with something on the cursor, and may be for other reasons;
\* else the item goes from where it lies, and the client is told.
ShardLifts(i) ==
    \/ /\ cursor = NoItem
       /\ at[i] # "gone"
       /\ cursor' = i
       /\ Answer(<<Packet("deleted", i, "corpse")>>)
       /\ UNCHANGED <<at, inputs>>
    \/ Answer(<<Packet("rejected", i, "corpse")>>) /\ UNCHANGED <<shard, inputs>>

\* A drop moves whatever is on the cursor: it lands, bounces to where it lay,
\* is used up by the bank, or goes into a stack.
Lands(i, p) ==
    /\ at' = [at EXCEPT ![i] = p]
    /\ \E first \in {<<>>, <<Packet("accepted", i, p)>>} :
          Answer(Append(first, Packet(IF p = "ground" THEN "on_ground" ELSE "added", i, p)))
ShardDrops(p) ==
    IF cursor = NoItem
      THEN UNCHANGED <<shard, news, inputs>>
      ELSE /\ cursor' = NoItem
           /\ \/ Lands(cursor, p) /\ UNCHANGED inputs
              \/ Lands(cursor, at[cursor]) /\ Input
              \/ /\ p # "ground"
                 /\ Input
                 /\ at' = [at EXCEPT ![cursor] = "gone"]
                 /\ \E kind \in {"deleted", "grew"} : Answer(<<Packet(kind, cursor, p)>>)

ShardTakes ==
    /\ wire # <<>>
    /\ wire' = Tail(wire)
    /\ IF Head(wire).op = "lift" THEN ShardLifts(Head(wire).item) ELSE ShardDrops(Head(wire).dest)
    /\ UNCHANGED <<holding, sent_drop, parent, jobs, human, crossed>>

-----------------------------------------------------------------------------
Init ==
    /\ holding = NoItem
    /\ sent_drop = NoItem
    /\ at \in Lying
    /\ parent = at
    /\ loot = NoJob
    /\ deposit = NoJob
    /\ hunt = NoHunt
    /\ walk = FALSE
    /\ goal = "idle"
    /\ follow = FALSE
    /\ agents = SwitchedOn
    /\ human = FALSE
    /\ by = [t \in Things |-> "human"]
    /\ wire = <<>>
    /\ news = <<>>
    /\ cursor = NoItem
    /\ crossed = FALSE
    /\ inputs = 0

Next ==
    \/ PumpJobs
    \/ KeptOrFreed
    \/ JobFails
    \/ HuntKills
    \/ JobEnds
    \/ HoldLimit
    \/ AgentMoves
    \/ LeaveMap
    \/ Call
    \/ Reach
    \/ Take
    \/ GiveBack
    \/ Ingest
    \/ ShardTakes

Spec == Init /\ [][Next]_vars

\* The loop ticks and reads for ever, and the shard answers what it is sent.
FairSpec == Spec /\ WF_vars(PumpJobs) /\ WF_vars(Ingest) /\ WF_vars(ShardTakes)

-----------------------------------------------------------------------------
(* Properties. *)

Jobs == [on : BOOLEAN, lifts : [Item -> 0 .. MaxLifts], kept : BOOLEAN]

\* Every variable holds a value of its kind, and no job lifts one item more than
\* MAX_LIFTS_PER_ITEM times.
TypeOK ==
    /\ {holding, sent_drop, cursor} \subseteq Item \cup {NoItem}
    /\ parent \in [Item -> Place \cup {"away"}]
    /\ loot \in Jobs
    /\ deposit \in Jobs
    /\ hunt \in [on : BOOLEAN, loot : Jobs]
    /\ walk \in BOOLEAN
    /\ goal \in {"idle", "hunt", "travel"}
    /\ follow \in BOOLEAN
    /\ agents \subseteq {"once", "switched"}
    /\ human \in BOOLEAN
    /\ by \in [Things -> Callers]
    /\ wire \in Seq([op : {"lift", "drop"}, item : Item, dest : Place \cup {"cursor"}])
    /\ news \in Seq([kind : {"deleted", "added", "on_ground", "grew", "accepted", "rejected"},
                     item : Item, place : Place])
    /\ at \in [Item -> Place \cup {"gone"}]
    /\ crossed \in BOOLEAN
    /\ inputs \in 0 .. MaxInputs

\* Once nothing is on its way, the session holds what the shard has on the
\* cursor, unless a caller crossed a job or a job was ended with the hand full.
AtRest == wire = <<>> /\ news = <<>>
HandAgrees == ~crossed /\ AtRest => cursor = holding

\* A lift finds the hand free, and a drop moves the item it names (send_lift,
\* lift_and_drop and the jobs that share one hand).
OneItemAtATime ==
    [][~crossed /\ Len(wire') < Len(wire)
         => cursor = NoItem \/ (Head(wire).op = "drop" /\ Head(wire).item = cursor)]_vars

\* What a job, an agent or a script lifted is put down again, through refused
\* lifts, bounces, merges and stops.  It may stay where a caller crossed a job,
\* where a job was ended or HOLD_LIMIT forgot it with the hand full (`crossed`),
\* and as long as its job is kept from its turn.
KeptWithIt == (deposit.on /\ deposit.kept) \/ (hunt.loot.on /\ hunt.loot.kept)
HandComesFree == []<>(cursor = NoItem \/ crossed \/ KeptWithIt)

Running(t) ==
    CASE t = "loot" -> loot.on
      [] t = "deposit" -> deposit.on
      [] t = "hunt" -> hunt.on
      [] t = "walk" -> walk
      [] t = "goal" -> goal # "idle"
      [] t = "follow" -> follow
      [] OTHER -> t \in agents

\* While a human has control, no job, goal, follow and no agent job run once is
\* one that the agent set going (control::take, control::gate).  Of the agents
\* that are switched on it says nothing: they stay on.
AgentKeptOut == human => \A t \in Things \ {"switched"} : Running(t) => by[t] = "human"

\* Of the hunt and the walk at most one runs, and the goal hunt is the hunt
\* job's (start_hunt, start_walk, set_goal, end_hunt, leave_map).
OneRunningJob == ~(hunt.on /\ walk) /\ (goal = "hunt" => hunt.on)
=============================================================================
