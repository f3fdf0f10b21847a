-------------------------------- MODULE Trip --------------------------------
(***************************************************************************)
(* A trip: the travel goal, the route planned to it, the ladder of answers *)
(* to a refused step, the marks and waits it leaves, and the doors on the  *)
(* way.  crates/uoterm-runtime/src/session.rs (queue_move, refuse_step,    *)
(* replan_the_route, stop_the_trip, door_route, pump_doors, pump_movement),*)
(* session/travel.rs (move_to, patch_ahead), movement.rs (RefusedEdges,    *)
(* BlockedTiles, the budgets of Movement, DoorOpener).                     *)
(*                                                                         *)
(* Abstracted: one step is on the wire at a time and its answer is never   *)
(* lost (module Walk has the rest), the turns that aim him, heights, and   *)
(* the choice among routes: the planner may find any path that its lists   *)
(* leave open.  A pause is over at any moment; only its order with other   *)
(* steps is kept.  The map, its doors and the people on it are the shard's.*)
(***************************************************************************)
EXTENDS Naturals, Sequences, FiniteSetsExt

CONSTANTS
    Tile,            \* the tiles of the map
    NoTile,          \* no tile
    Near,            \* Near[t]: the tiles one step from t
    HiddenWalls,     \* tiles no client map shows shut, and the shard does
    ShutCorners,     \* crossings the shard refuses for a corner beside them
    Doors,           \* the tiles of the doorways: a door is named by its own
    OpenAt,          \* OpenAt[d]: where the leaf of d stands once it is open
    Locked,          \* the doors that never answer
    OpensDoors,      \* the shard and the trip let a walk open doors
    Dests,           \* the tiles a caller sends him to
    WaitsBlockCell,  \* WAITS_BLOCK_CELL
    WaitsGiveUp,     \* WAITS_GIVE_UP
    ReplansMax,      \* REPLANS_MAX
    AttemptsMax,     \* DOOR_OPEN_ATTEMPTS_MAX
    PatchScan,       \* PATCH_SCAN_STEPS
    PatchAnchor,     \* PATCH_ANCHOR_EXTRA
    MaxInputs        \* bound: orders, people moving, late answers, memories

EdgeRefusalsFirst == 1

ASSUME MapType ==
    /\ NoTile \notin Tile
    /\ Near \in [Tile -> SUBSET Tile]
    /\ HiddenWalls \subseteq Tile
    /\ ShutCorners \subseteq Tile \X Tile
    /\ Doors \subseteq Tile
    /\ OpenAt \in [Doors -> Tile]
    /\ Locked \subseteq Doors
    /\ OpensDoors \in BOOLEAN
    /\ Dests \subseteq Tile
ASSUME BudgetType ==
    /\ WaitsBlockCell \in Nat \ {0}
    /\ WaitsGiveUp \in Nat \ {0}
    /\ {ReplansMax, AttemptsMax, PatchScan, PatchAnchor, MaxInputs} \subseteq Nat

VARIABLES
    location,       \* the tile he is reported on
    asked,          \* the tile of the step on the wire, or none
    path,           \* the tiles still to be asked for
    goal,           \* the tile of Goal::Travel, or none for Goal::Idle
    heading,        \* Movement::goal: where the route goes
    trip_dest,      \* the tile the budgets below are for
    replans,        \* how often this trip was planned again
    wait,           \* the cell he waits at, the waits there, and of the trip
    last_path_fail, \* the place of the last failure, within PATH_FAIL_WAIT
    blocked,        \* BlockedTiles: the tiles that refused him
    refused_edges,  \* RefusedEdges: how often each crossing refused him
    pending,        \* DoorOpener::pending, or none
    failures,       \* DoorOpener::failures
    clicked,        \* DoorOpener::clicked: how each door looked when asked
    door_macro,     \* the macro he owes: where from and at which tile
    seen,           \* how the world model has each door
    \* The shard (external).
    leaf,           \* how each door really stands
    crowd,          \* the tiles other people stand on
    asks,           \* macros on their way to the shard
    news,           \* door packets on their way to the client
    \* History, read by no action.
    given_up,       \* the last trip was given up, and no order came since
    inputs

walk == <<location, asked, path>>
trip == <<goal, heading, trip_dest, replans, wait, last_path_fail>>
marks == <<blocked, refused_edges>>
opener == <<pending, failures, clicked>>
shard == <<leaf, crowd, asks>>
vars == <<walk, trip, marks, opener, door_macro, seen, shard, news, given_up, inputs>>

Input == inputs < MaxInputs /\ inputs' = inputs + 1
Edges == Tile \X Tile
NoWait == [cell |-> NoTile, here |-> 0, trip |-> 0]
NoAttempt == [door |-> NoTile, stand_on |-> NoTile, clicked |-> FALSE]
NoMacro == [from |-> NoTile, tile |-> NoTile]
Attempts == [door : Doors, stand_on : Tile, clicked : BOOLEAN]
Looks == {"shut", "open"}

-----------------------------------------------------------------------------
(* Routes. *)

\* Every walk over the map that enters no tile twice.
Walks ==
    {[from |-> p[1], to |-> p[Len(p)], steps |-> Tail(p)] :
        p \in {p \in UNION {[1 .. n -> Tile] : n \in 1 .. Cardinality(Tile)} :
                  /\ \A i, j \in DOMAIN p : p[i] = p[j] => i = j
                  /\ \A i \in 2 .. Len(p) : p[i] \in Near[p[i - 1]]}}

\* The tile left for the i-th of some steps.
Before(from, p, i) == IF i = 1 THEN from ELSE p[i - 1]

\* pathfind_with: the ways from one tile to another that enter no soft tile on
\* the way, no hard tile at all, and take no crossing among `moves`.
Ways(from, to, soft, hard, moves) ==
    {w.steps : w \in {w \in Walks :
        /\ w.from = from
        /\ w.to = to
        /\ \A i \in 1 .. Len(w.steps) :
              /\ w.steps[i] \notin hard
              /\ w.steps[i] \in soft => i = Len(w.steps)
              /\ <<Before(from, w.steps, i), w.steps[i]>> \notin moves}}

\* Where the leaf of a door stands, and the tiles doors shut (door_tiles): an
\* open leaf that stands in its own doorway shuts nothing.
LeafTile(d, look) == IF look = "shut" THEN d ELSE OpenAt[d]
DoorTiles(looks) ==
    {LeafTile(d, looks[d]) : d \in {d \in Doors : looks[d] = "shut" \/ OpenAt[d] # d}}
DoorOnTile(t) == {d \in Doors : LeafTile(d, seen[d]) = t}

\* RefusedEdges::moves.
Moves(edges) == {e \in Edges : edges[e] > 0}

\* Inner::blockers: the people, the doors, the refused tiles and crossings.
RoutesTo(from, to) ==
    Ways(from, to, crowd \cup DoorTiles(seen), blocked, Moves(refused_edges))

Walking == asked # NoTile \/ path # <<>>
SteppingFrom == IF asked = NoTile THEN location ELSE asked

\* travel::patch_ahead on the route p, once the step on the wire is known: round
\* the first block a few steps ahead, by a short way to a later step of the same
\* route; no route where it cannot.
Mended(p) ==
    LET open(t) == t \notin crowd \cup blocked'
        shut == {i \in 1 .. Min({PatchScan, Len(p)}) :
                    ~open(p[i]) \/ refused_edges'[<<Before(SteppingFrom', p, i), p[i]>>] > 0}
        first == Min(shut)
        ways(a) == Ways(SteppingFrom', p[a], crowd, blocked', Moves(refused_edges'))
        anchors == {a \in Max({PatchScan, first + 1})
                          .. Min({PatchScan + PatchAnchor, Len(p)}) :
                       open(p[a]) /\ ways(a) # {}}
    IN  IF shut = {} \/ anchors = {} THEN {<<>>}
        ELSE {w \o SubSeq(p, Min(anchors) + 1, Len(p)) : w \in ways(Min(anchors))}

-----------------------------------------------------------------------------
(* The end of a trip, and the next route of one. *)

\* stop_the_trip: Movement::hold, Movement::end_trip, note_path_failure.  The
\* travel goal is left as it is.
StopTheTrip(at) ==
    /\ path' = <<>>
    /\ heading' = NoTile
    /\ trip_dest' = NoTile
    /\ replans' = 0
    /\ wait' = NoWait
    /\ last_path_fail' = at
    /\ given_up' = TRUE

\* Movement::count_replan.
CountReplan == replans < ReplansMax

\* replan_the_route: the route p is mended or thrown away and counted; one too
\* many ends the trip.  w is what the waits have become.
ReplanTheRoute(p, w) ==
    IF CountReplan
      THEN /\ path' \in Mended(p)
           /\ replans' = replans + 1
           /\ wait' = w
           /\ UNCHANGED <<heading, trip_dest, last_path_fail, given_up>>
      ELSE StopTheTrip(location)

-----------------------------------------------------------------------------
(* Planning: queue_move, travel::plan, door_route. *)

\* A plan: whether one was found, its tiles, and the attempt on a door that
\* goes with it.
Failure == [found |-> FALSE, steps |-> <<>>, attempt |-> NoAttempt]

\* Slip: one attempt more than the budget has.
MayTryOnceMore(d) ==
    (clicked[d] = "never" \/ clicked[d] = seen[d]) /\ failures[d] <= AttemptsMax

\* DoorOpener::plan with no attempt under way: a door that has changed since it
\* was asked is open as far as it goes, one that never answered is locked.
MayTry(d) ==
    (clicked[d] = "never" \/ clicked[d] = seen[d]) /\ failures[d] < AttemptsMax

\* door_in_the_way: the first door on a way that nothing blocks, and the
\* shortest walk to a tile beside it, round people, marks and every door.
FirstDoor(through) ==
    LET at == {i \in 1 .. Len(through) : DoorOnTile(through[i]) # {}}
    IN  IF at = {} THEN {} ELSE DoorOnTile(through[Min(at)])
LeafTiles == {LeafTile(d, seen[d]) : d \in Doors}
WalksTo(from, d) ==
    LET walks == UNION {Ways(from, t, crowd \cup LeafTiles, blocked, Moves(refused_edges)) :
                           t \in Near[LeafTile(d, seen[d])] \ LeafTiles}
    IN  {w \in walks : \A v \in walks : Len(w) <= Len(v)}
StandOn(from, walk_to) == IF walk_to = <<>> THEN from ELSE walk_to[Len(walk_to)]

\* door_route along one such way.
Approaches(from, through) ==
    LET ways == {[found |-> TRUE, steps |-> w,
                  attempt |-> [door |-> d, stand_on |-> StandOn(from, w), clicked |-> FALSE]] :
                    d \in {d \in FirstDoor(through) : OpensDoors /\ MayTry(d)},
                    w \in UNION {WalksTo(from, d) : d \in FirstDoor(through)}}
    IN  IF ways = {} THEN {Failure} ELSE ways

Plans(from, to) ==
    LET routes == RoutesTo(from, to)
        throughs == Ways(from, to, {}, {}, {})
    IN  IF routes # {}
          THEN {[found |-> TRUE, steps |-> p, attempt |-> NoAttempt] : p \in routes}
        ELSE IF throughs = {} THEN {Failure}
        ELSE UNION {Approaches(from, through) : through \in throughs}

\* Movement::begin_trip: another destination starts the budgets again.
BeginTrip(dest) ==
    IF trip_dest = dest
      THEN UNCHANGED <<trip_dest, replans, wait>>
      ELSE /\ trip_dest' = dest
           /\ replans' = 0
           /\ wait' = NoWait

\* apply_path, or note_path_failure at the destination.
Follow(plan, dest) ==
    IF plan.found
      THEN /\ path' = plan.steps
           /\ heading' = dest
           /\ last_path_fail' = NoTile
           /\ pending' = plan.attempt
      ELSE /\ last_path_fail' = dest
           /\ pending' = NoAttempt
           /\ UNCHANGED <<path, heading>>

\* A new destination gives up the door that is being opened.
GiveUpTheDoor ==
    door_macro' = IF pending = NoAttempt THEN door_macro ELSE NoMacro

\* Slip: a heading whose route was thrown away counts as a walk there.
UnderWayByHeading(dest) == heading = dest

UnderWay(dest) == heading = dest /\ (Walking \/ pending # NoAttempt)
There(dest) == location = dest /\ ~Walking /\ heading = NoTile

MayPlan(dest) == ~UnderWay(dest) /\ ~There(dest) /\ last_path_fail # dest

PlanTo(dest, plan) ==
    /\ MayPlan(dest)
    /\ BeginTrip(dest)
    /\ GiveUpTheDoor
    /\ Follow(plan, dest)

\* The same place failed a moment ago: nothing is planned.
FailedLately(dest) ==
    /\ ~UnderWay(dest)
    /\ ~There(dest)
    /\ last_path_fail = dest
    /\ pending' = NoAttempt
    /\ GiveUpTheDoor
    /\ UNCHANGED <<path, heading, trip_dest, replans, wait, last_path_fail>>

\* arrive: the walk is over, and so is a goal that is a place.
Arrive ==
    /\ heading' = NoTile
    /\ goal' = NoTile
    /\ UNCHANGED <<path, trip_dest, replans, wait, last_path_fail, pending, door_macro>>

-----------------------------------------------------------------------------
(* What a caller asks. *)

quiet == <<location, asked, marks, failures, clicked, seen, shard, news>>

\* move_to, when a walk there is under way or he stands there.
MoveToIsOn(dest) ==
    \/ /\ UnderWay(dest)
       /\ goal' = dest
       /\ UNCHANGED <<path, heading, trip_dest, replans, wait, last_path_fail,
                      pending, door_macro>>
    \/ There(dest) /\ Arrive

\* ... when a route is found, or a door to open first.
MoveToPlans(dest) ==
    /\ goal' = dest
    /\ MayPlan(dest)
    /\ \E plan \in Plans(SteppingFrom, dest) : plan.found /\ PlanTo(dest, plan)

Fails(dest) ==
    /\ ~UnderWay(dest)
    /\ ~There(dest)
    /\ last_path_fail = dest \/ Failure \in Plans(SteppingFrom, dest)

\* ... when none is: an exact goal is dropped, any other is walked toward as
\* far as a spot on the way, whose own trip it is then, or kept when the last
\* spot fails as well.
MoveToFails(dest) ==
    /\ Fails(dest)
    /\ \/ /\ goal' = NoTile
          /\ PlanTo(dest, Failure) \/ FailedLately(dest)
       \/ \E spot \in Tile \ {location, dest} :
             /\ goal' = spot
             /\ MayPlan(spot)
             /\ \E plan \in Plans(SteppingFrom, spot) : plan.found /\ PlanTo(spot, plan)
       \/ /\ goal' = dest
          /\ \E spot \in Tile \ {location} :
                /\ Fails(spot)
                /\ PlanTo(spot, Failure) \/ FailedLately(spot)

MoveTo ==
    /\ Input
    /\ \E dest \in Dests : MoveToIsOn(dest) \/ MoveToPlans(dest) \/ MoveToFails(dest)
    /\ given_up' = FALSE
    /\ UNCHANGED quiet

\* The tool `stop` (Movement::clear, DoorOpener::give_up).
Stop ==
    /\ Input
    /\ path' = <<>>
    /\ goal' = NoTile
    /\ heading' = NoTile
    /\ trip_dest' = NoTile
    /\ replans' = 0
    /\ wait' = NoWait
    /\ pending' = NoAttempt
    /\ door_macro' = NoMacro
    /\ given_up' = FALSE
    /\ UNCHANGED <<quiet, last_path_fail>>

-----------------------------------------------------------------------------
(* What the loop does by itself. *)

\* The travel goal, as pump_movement and the reflex hand it to queue_move on
\* every tick.
QueueTheGoal ==
    /\ goal # NoTile
    /\ \/ There(goal) /\ Arrive
       \/ /\ \/ /\ MayPlan(goal)
                /\ \E plan \in Plans(SteppingFrom, goal) : PlanTo(goal, plan)
             \/ FailedLately(goal)
          /\ UNCHANGED goal
    /\ UNCHANGED <<quiet, given_up, inputs>>

\* pump_movement: he stands where the walk was going.
Arrived ==
    /\ heading = location
    /\ ~Walking
    /\ Arrive
    /\ UNCHANGED <<quiet, given_up, inputs>>

\* pump_movement: the next step of the route goes out.
SendStep ==
    /\ asked = NoTile
    /\ path # <<>>
    /\ asked' = Head(path)
    /\ path' = Tail(path)
    /\ UNCHANGED <<location, trip, marks, opener, door_macro, seen, shard, news,
                   given_up, inputs>>

\* PATH_FAIL_WAIT runs out.
PathFailWaitEnds ==
    /\ last_path_fail # NoTile
    /\ last_path_fail' = NoTile
    /\ UNCHANGED <<walk, goal, heading, trip_dest, replans, wait, marks, opener,
                   door_macro, seen, shard, news, given_up, inputs>>

\* REFUSED_TILE_MEMORY runs out for a tile or a crossing (BlockedTiles::expire,
\* RefusedEdges::expire).
Forget ==
    /\ Input
    /\ \/ /\ \E t \in blocked : blocked' = blocked \ {t}
          /\ UNCHANGED refused_edges
       \/ /\ \E e \in Moves(refused_edges) :
                refused_edges' = [refused_edges EXCEPT ![e] = 0]
          /\ UNCHANGED blocked
    /\ UNCHANGED <<walk, trip, opener, door_macro, seen, shard, news, given_up>>

-----------------------------------------------------------------------------
(* Doors: pump_doors, pump_door_macro, and the door packets. *)

\* pump_doors, then pump_door_macro on the same tick.  Before the door of his
\* attempt he owes it a macro, whatever macro he owed.  The macro is given up
\* once he has left the tile he asked from, waits for a turn to aim it, and goes
\* out once the wire is empty, which is where an attempt on a door is spent.
DoorDue == pending # NoAttempt /\ ~pending.clicked /\ pending.stand_on = location
Owed ==
    IF DoorDue
      THEN [from |-> location, tile |-> LeafTile(pending.door, seen[pending.door])]
      ELSE door_macro

MacroLeaves ==
    /\ asked = NoTile
    /\ asks' = Append(asks, Owed.tile)
    /\ door_macro' = NoMacro
    /\ IF DoorDue
         THEN /\ pending' = [pending EXCEPT !.clicked = TRUE]
              /\ clicked' = [clicked EXCEPT ![pending.door] = seen[pending.door]]
         ELSE UNCHANGED <<pending, clicked>>

PumpDoors ==
    /\ Owed # NoMacro
    /\ \/ /\ Owed.from = location
          /\ MacroLeaves
       \/ /\ door_macro' = IF Owed.from = location THEN Owed ELSE NoMacro
          /\ UNCHANGED <<pending, clicked, asks>>
    /\ UNCHANGED <<walk, trip, marks, failures, seen, leaf, crowd, news, given_up, inputs>>

\* DoorOpener::expired.  With an answer on its way, or the walk to the door
\* under way, it takes an input: the time-out came first.
AttemptEnds ==
    \/ pending.clicked
    \/ ~Walking /\ location # pending.stand_on
Unanswered == asks = <<>> /\ news = <<>>
DoorExpired ==
    /\ pending # NoAttempt
    /\ \/ AttemptEnds /\ Unanswered /\ Owed = NoMacro /\ UNCHANGED inputs
       \/ Input
    /\ pending' = NoAttempt
    /\ failures' = IF pending.clicked
                     THEN [failures EXCEPT ![pending.door] = @ + 1]
                     ELSE failures
    /\ UNCHANGED <<walk, trip, marks, clicked, door_macro, seen, shard, news, given_up>>

\* The tool open_door and a script's: a macro nobody planned a route for.  A
\* person also gives a macro up when it cannot be aimed in time.
OpenDoor ==
    /\ Input
    /\ \/ \E d \in Doors :
             /\ LeafTile(d, seen[d]) \in Near[location]
             /\ door_macro' = [from |-> location, tile |-> LeafTile(d, seen[d])]
       \/ door_macro # NoMacro /\ door_macro' = NoMacro
    /\ UNCHANGED <<walk, trip, marks, opener, seen, shard, news, given_up>>

\* A door packet (World::note_door, DoorOpener::answered): a door that swung
\* forgets its failures, and ends the attempt it answers with a new route.
DoorPacket ==
    /\ news # <<>>
    /\ news' = Tail(news)
    /\ UNCHANGED <<location, asked, goal, marks, clicked, door_macro, shard, inputs>>
    /\ LET d == Head(news).door
       IN  /\ seen' = [seen EXCEPT ![d] = Head(news).look]
           /\ IF seen[d] = Head(news).look
                THEN UNCHANGED <<failures, pending, path, replans, wait, heading,
                                 trip_dest, last_path_fail, given_up>>
                ELSE /\ failures' = [failures EXCEPT ![d] = 0]
                     /\ IF pending.door = d
                          THEN pending' = NoAttempt /\ ReplanTheRoute(path, wait)
                          ELSE UNCHANGED <<pending, path, replans, wait, heading,
                                           trip_dest, last_path_fail, given_up>>

-----------------------------------------------------------------------------
(* The answers to a step (accept_move_ack, refuse_step). *)

\* He is on the tile, so whatever refused him there is over.
Confirmed ==
    /\ location' = asked
    /\ blocked' = blocked \ {asked}
    /\ asked' = NoTile
    /\ UNCHANGED <<path, trip, refused_edges, opener, door_macro, given_up>>

\* Slip: the step that was refused is not walked again.
RequeuedWithoutIt == path

\* Movement::refused puts the step back at the head of the route.
Requeued == <<asked>> \o path
Crossing == <<location, asked>>

Fatigued ==
    /\ UNCHANGED <<marks, door_macro>>
    /\ ReplanTheRoute(Requeued, wait)

\* remember_refused_tile: never the tile of a door.
Remember(t) == blocked' = IF DoorOnTile(t) = {} THEN blocked \cup {t} ELSE blocked

\* Movement::waited_at, and the three rungs of a cell somebody stands on.
WaitedAt ==
    [cell |-> asked,
     here |-> IF wait.cell = asked THEN wait.here + 1 ELSE 1,
     trip |-> wait.trip + 1]

WaitedOut == [WaitedAt EXCEPT !.cell = NoTile, !.here = 0]

SomebodyInTheWay ==
    /\ IF WaitedAt.trip >= WaitsGiveUp
         THEN StopTheTrip(asked) /\ UNCHANGED marks
       ELSE IF WaitedAt.here >= WaitsBlockCell
         THEN /\ Remember(asked)
              /\ UNCHANGED refused_edges
              /\ ReplanTheRoute(Requeued, WaitedOut)
       ELSE /\ UNCHANGED marks
            /\ ReplanTheRoute(Requeued, WaitedAt)
    /\ UNCHANGED door_macro

\* RefusedEdges::refuse; more than two refusals tell the ladder nothing new.
Refuse == [refused_edges EXCEPT ![Crossing] = Min({@ + 1, EdgeRefusalsFirst + 1})]

\* The first refusal of a crossing: a macro for the door that may stand there,
\* and the same step again.
TryTheDoor ==
    /\ refused_edges' = Refuse
    /\ path' = Requeued
    /\ door_macro' = IF OpensDoors THEN [from |-> location, tile |-> asked] ELSE door_macro
    /\ UNCHANGED <<blocked, heading, trip_dest, replans, wait, last_path_fail, given_up>>

\* The second: the crossing is shut, and with open corners the tile is.
ShutWay ==
    /\ refused_edges' = Refuse
    /\ IF Crossing \in ShutCorners THEN UNCHANGED blocked ELSE Remember(asked)
    /\ ReplanTheRoute(Requeued, wait)
    /\ UNCHANGED door_macro

\* judge_refusal: the rungs are tried in order.
Ladder(tired) ==
    /\ asked' = NoTile
    /\ UNCHANGED <<location, goal, opener>>
    /\ IF tired THEN Fatigued
       ELSE IF asked \in crowd THEN SomebodyInTheWay
       ELSE IF refused_edges[Crossing] < EdgeRefusalsFirst THEN TryTheDoor
       ELSE ShutWay

-----------------------------------------------------------------------------
(* The shard (external). *)

\* A step into a wall, a shut door or past a shut corner is refused; a shove at
\* a person may be; and a tired one, with the word that he is too tired.  The
\* stream keeps its order: macros before the step, door packets before its
\* answer.
ShutFor(from, t) ==
    \/ t \in HiddenWalls \cup DoorTiles(leaf)
    \/ <<from, t>> \in ShutCorners
StepAnswered ==
    /\ asked # NoTile
    /\ Unanswered
    /\ \/ ~ShutFor(location, asked) /\ Confirmed /\ UNCHANGED inputs
       \/ /\ ShutFor(location, asked) \/ asked \in crowd
          /\ Ladder(FALSE)
          /\ UNCHANGED inputs
       \/ Input /\ Ladder(TRUE)
    /\ UNCHANGED <<seen, shard, news>>

Swing(d) ==
    LET look == IF leaf[d] = "shut" THEN "open" ELSE "shut"
    IN  /\ leaf' = [leaf EXCEPT ![d] = look]
        /\ news' = Append(news, [door |-> d, look |-> look])

\* A macro opens, or shuts, whatever unlocked door stands on its tile.
ShardTakesMacro ==
    /\ asks # <<>>
    /\ asks' = Tail(asks)
    /\ LET on_it == {d \in Doors \ Locked : LeafTile(d, leaf[d]) = Head(asks)}
       IN  IF on_it = {} THEN UNCHANGED <<leaf, news>> ELSE \E d \in on_it : Swing(d)
    /\ UNCHANGED <<walk, trip, marks, opener, door_macro, seen, crowd, given_up, inputs>>

SomebodySwings ==
    /\ Input
    /\ \E d \in Doors \ Locked : Swing(d)
    /\ UNCHANGED <<walk, trip, marks, opener, door_macro, seen, crowd, asks, given_up>>

SomebodyMoves ==
    /\ Input
    /\ \E t \in Tile \ {location} : crowd' \in {crowd \cup {t}, crowd \ {t}}
    /\ UNCHANGED <<walk, trip, marks, opener, door_macro, seen, leaf, asks, news, given_up>>

-----------------------------------------------------------------------------
Init ==
    /\ location \in Tile \ (HiddenWalls \cup Doors)
    /\ asked = NoTile
    /\ path = <<>>
    /\ goal = NoTile
    /\ heading = NoTile
    /\ trip_dest = NoTile
    /\ replans = 0
    /\ wait = NoWait
    /\ last_path_fail = NoTile
    /\ blocked = {}
    /\ refused_edges = [e \in Edges |-> 0]
    /\ pending = NoAttempt
    /\ failures = [d \in Doors |-> 0]
    /\ clicked = [d \in Doors |-> "never"]
    /\ door_macro = NoMacro
    /\ leaf = [d \in Doors |-> "shut"]
    /\ seen = leaf
    /\ crowd = {}
    /\ asks = <<>>
    /\ news = <<>>
    /\ given_up = FALSE
    /\ inputs = 0

Next ==
    \/ MoveTo
    \/ Stop
    \/ QueueTheGoal
    \/ Arrived
    \/ SendStep
    \/ PathFailWaitEnds
    \/ Forget
    \/ DoorExpired
    \/ PumpDoors
    \/ OpenDoor
    \/ DoorPacket
    \/ StepAnswered
    \/ ShardTakesMacro
    \/ SomebodySwings
    \/ SomebodyMoves

Spec == Init /\ [][Next]_vars

\* The loop ticks for ever, its time-outs run on a clock, and the shard answers
\* what it is sent.
Fairness ==
    /\ WF_vars(QueueTheGoal)
    /\ WF_vars(Arrived)
    /\ WF_vars(SendStep)
    /\ WF_vars(PathFailWaitEnds)
    /\ WF_vars(DoorExpired)
    /\ WF_vars(PumpDoors)
    /\ WF_vars(DoorPacket)
    /\ WF_vars(StepAnswered)
    /\ WF_vars(ShardTakesMacro)

FairSpec == Spec /\ Fairness

-----------------------------------------------------------------------------
(* Properties. *)

\* Every variable holds a value of its kind, and the budgets of a trip hold:
\* replan_the_route and judge_refusal never let a count pass its limit.
TypeOK ==
    /\ location \in Tile
    /\ asked \in Tile \cup {NoTile}
    /\ path \in Seq(Tile)
    /\ {goal, heading, trip_dest, last_path_fail} \subseteq Tile \cup {NoTile}
    /\ replans \in 0 .. ReplansMax
    /\ wait \in [cell : Tile \cup {NoTile}, here : Nat, trip : Nat]
    /\ wait.trip < WaitsGiveUp
    /\ wait.here <= wait.trip
    /\ blocked \subseteq Tile
    /\ refused_edges \in [Edges -> 0 .. EdgeRefusalsFirst + 1]
    /\ pending \in Attempts \cup {NoAttempt}
    /\ failures \in [Doors -> 0 .. AttemptsMax]
    /\ clicked \in [Doors -> Looks \cup {"never"}]
    /\ door_macro \in [from : Tile, tile : Tile] \cup {NoMacro}
    /\ seen \in [Doors -> Looks]
    /\ leaf \in [Doors -> Looks]
    /\ crowd \subseteq Tile
    /\ asks \in Seq(Tile)
    /\ news \in Seq([door : Doors, look : Looks])
    /\ given_up \in BOOLEAN
    /\ inputs \in 0 .. MaxInputs

\* The route holds together: it goes on from where the step on the wire leaves
\* him, tile by tile, through refusals, patches, doors and new goals
\* (Movement::refused, patch_ahead, queue_move from stepping_from).
RouteHoldsTogether ==
    \A i \in 1 .. Len(path) : path[i] \in Near[Before(SteppingFrom, path, i)]

\* A way that is open, and that no mark closes, is walked to its end: he gets to
\* his goal or is told to leave it, past walls no map shows, people who stand in
\* the way, doors that never answer and trips given up.
WayIsOpen ==
    \E p \in Ways(location, goal, {},
                  HiddenWalls \cup crowd \cup blocked \cup DoorTiles(leaf) \cup DoorTiles(seen),
                  ShutCorners \cup Moves(refused_edges)) : TRUE
GetsThere == []<>(goal = NoTile \/ ~WayIsOpen)

\* What REPLANS_MAX and WAITS_GIVE_UP are documented to do: a trip that is given
\* up ends, and no step goes out until somebody orders one.
GivenUpIsOver ==
    [][given_up /\ given_up' => ~(asked = NoTile /\ asked' # NoTile)]_vars
=============================================================================
