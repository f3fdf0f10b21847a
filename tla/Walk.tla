-------------------------------- MODULE Walk --------------------------------
(***************************************************************************)
(* The walk of one character: the requests the session puts on the wire,   *)
(* the shard that answers them, and the tile the character is reported on. *)
(*                                                                         *)
(* Client side: crates/uoterm-runtime/src/movement.rs (struct Movement)    *)
(* and its callers in session.rs (ingest, accept_move_ack, refuse_step,    *)
(* pump_movement, leave_map).  The shard is not in the repository: it is   *)
(* modelled from what the client's code and comments say of it and marked  *)
(* external.  Both directions are TCP streams, so both are FIFO.           *)
(*                                                                         *)
(* Abstracted: pace and running (a step may be due at any moment), heights *)
(* (a tile is a value), fastwalk keys, and the route finder, which hands   *)
(* over any route of Routes.  The refusal ladder keeps what it does to the *)
(* walk; its waits and marks are the business of module Trip.              *)
(***************************************************************************)
EXTENDS Naturals, Sequences, FiniteSetsExt

CONSTANTS
    Tile,         \* the tiles of the map
    Dir,          \* the directions a character faces
    Beside,       \* Beside[t][d]: the tile one step from t toward d
    Walls,        \* the tiles the shard takes nobody onto
    Routes,       \* Routes[t]: the routes the planner may find from t
    SeqMod,       \* SEQ_MOD: how many numbers the sequence byte has
    InFlightMax,  \* IN_FLIGHT_MAX: requests the shard may owe an answer
    ReplansMax,   \* REPLANS_MAX: how often one trip is planned again
    DropsSome,    \* whether the shard leaves some requests unanswered
    MaxInputs,    \* bound: orders, faults and interruptions of one behaviour
    MaxPlans      \* bound: routes the errands of one behaviour plan by themselves

SeqFirst == 0
SeqAfterWrap == 1

ASSUME BesideType == Beside \in [Tile -> [Dir -> Tile]]
ASSUME WallsType == Walls \subseteq Tile
ASSUME RoutesType == Routes \in [Tile -> SUBSET Seq(Tile)]
ASSUME NumbersType ==
    /\ SeqMod \in Nat
    /\ InFlightMax \in Nat \ {0}
    /\ InFlightMax + 1 < SeqMod
    /\ ReplansMax \in Nat
    /\ DropsSome \in BOOLEAN
    /\ MaxInputs \in Nat
    /\ MaxPlans \in Nat

VARIABLES
    \* The session (Movement and the self state of the world model).
    sequence,       \* the number the next request carries
    in_flight,      \* the requests sent and not answered, oldest first
    path,           \* the tiles of the route still to be asked for
    resync_asked,   \* "no", "asked", or "waited" once RESYNC_WAIT is over
    location,       \* the tile the character is reported on
    direction,      \* the way he is reported to face
    refused_edges,  \* the crossings the shard refused once already
    replans,        \* how often the route of this trip was planned again
    errand,         \* a travel goal, a follow or a job sends him on by itself
    \* The shard (external).
    tile,           \* where the character really is
    facing,         \* which way he really faces
    count,          \* the number the shard expects next
    \* The wire.
    toShard,
    toClient,
    \* History, read by no action.
    left_map,       \* requests of the map he left may still be in flight
    inputs,         \* how many of the MaxInputs inputs are spent
    plans           \* how many of the MaxPlans plans are made

client == <<sequence, in_flight, path, resync_asked, location, direction,
            refused_edges, replans, errand>>
shard == <<tile, facing, count>>
spent == <<inputs, plans>>
vars == <<client, shard, toShard, toClient, left_map, spent>>

-----------------------------------------------------------------------------
Number == 0 .. SeqMod - 1

\* A request in flight: the tile he stands on once it is confirmed, and
\* whether it only turns him where he stands.
PendingStep == [sequence : Number, direction : Dir, arrives_at : Tile, turn : BOOLEAN]

Request == [kind : {"move"}, sequence : Number, direction : Dir]
             \cup [kind : {"resync"}]

\* The confirmation carries a number and nothing else: `at` and `direction`
\* of an "ack" are what was true at the shard, for the properties only.
Answer == [kind : {"ack", "reject"}, sequence : Number, at : Tile, direction : Dir]
            \cup [kind : {"draw", "map"}, at : Tile, direction : Dir]

Resync == [kind |-> "resync"]

\* Slip: the count runs past its last number instead of wrapping to 1.
NextNumberNeverWraps(n) == n + 1

\* Movement::next_sequence: 0, 1, .. SeqMod - 1, 1, 2, ..
NextNumber(n) == IF n = SeqMod - 1 THEN SeqAfterWrap ELSE n + 1

\* How many of the first i requests of q are steps, and the place of the k-th.
StepsUpTo(q, i) == Cardinality({j \in 1 .. i : ~q[j].turn})
NthStep(q, k) == Min({i \in 1 .. Len(q) : StepsUpTo(q, i) >= k})

\* Slip: each tile is pushed on the front, oldest first (drain without rev).
StepTilesNewestFirst(q) ==
    [k \in 1 .. StepsUpTo(q, Len(q)) |->
        q[NthStep(q, StepsUpTo(q, Len(q)) + 1 - k)].arrives_at]

\* The tiles of the steps of q in order, without its turns: what goes back on
\* the route when q is thrown away.
StepTiles(q) == [k \in 1 .. StepsUpTo(q, Len(q)) |-> q[NthStep(q, k)].arrives_at]

SteppingFrom ==
    IF in_flight = <<>> THEN location ELSE in_flight[Len(in_flight)].arrives_at
FacingAfter ==
    IF in_flight = <<>> THEN direction ELSE in_flight[Len(in_flight)].direction

\* The route without the tiles he already stands on or cannot reach in one
\* step: everything before the first tile beside him is dropped.
Near(from, t) == t # from /\ \E d \in Dir : Beside[from][d] = t
DirTo(from, t) == CHOOSE d \in Dir : Beside[from][d] = t
Reachable(route, from) ==
    LET near == {i \in 1 .. Len(route) : Near(from, route[i])}
    IN  IF near = {} THEN <<>>
        ELSE SubSeq(route, Min(near), Len(route))

\* A route the planner finds goes from tile to tile beside it, and starts beside
\* the tile it is planned from.
HoldsTogether(route) == \A i \in 1 .. Len(route) - 1 : Near(route[i], route[i + 1])

ASSUME RoutesHoldTogether ==
    \A t \in Tile : \A route \in Routes[t] :
        HoldsTogether(route) /\ (route # <<>> => Near(t, route[1]))

Walking == in_flight # <<>> \/ path # <<>>
Input == inputs < MaxInputs /\ inputs' = inputs + 1 /\ UNCHANGED plans
Plan == plans < MaxPlans /\ plans' = plans + 1 /\ UNCHANGED inputs

\* Nothing is on its way in either direction, so no answer is going to come.
Silent == toShard = <<>> /\ toClient = <<>>
-----------------------------------------------------------------------------
(* What the session sends. *)

\* Movement::build_step and build_turn: the request takes the next number and
\* is held until it is answered.
Send(dir, arrives_at, turn) ==
    /\ in_flight' = Append(in_flight,
           [sequence |-> sequence, direction |-> dir,
            arrives_at |-> arrives_at, turn |-> turn])
    /\ sequence' = NextNumber(sequence)
    /\ toShard' = Append(toShard,
           [kind |-> "move", sequence |-> sequence, direction |-> dir])

\* Slip: the count starts again and the requests stay on the wire.
RefusedKeepsTheWire ==
    /\ UNCHANGED in_flight
    /\ sequence' = SeqFirst
    /\ left_map' = FALSE

\* Movement::refused: every request in flight is thrown away, and the count
\* starts again.  The tiles of its steps go back at the head of `route`.
Refused ==
    /\ in_flight' = <<>>
    /\ sequence' = SeqFirst
    /\ left_map' = FALSE

Requeued == StepTiles(in_flight) \o path

\* pump_movement past its time-outs: while a travel goal stands, plan for it as
\* often as the walk is over, then ask for the next tile, with a turn first when
\* he looks elsewhere.
PumpMovement ==
    \E route \in {path} \cup (IF errand /\ ~Walking THEN Routes[location] ELSE {}) :
        LET next == Reachable(route, SteppingFrom)
            dir == DirTo(SteppingFrom, Head(next))
        IN  /\ \/ route = path /\ UNCHANGED spent
               \/ route # path /\ Plan
            /\ Len(in_flight) < InFlightMax
            /\ resync_asked # "asked"
            /\ IF next = <<>>
                 THEN /\ path # <<>>
                      /\ path' = <<>>
                      /\ UNCHANGED <<in_flight, sequence, toShard>>
               ELSE IF dir # FacingAfter
                 THEN path' = next /\ Send(dir, SteppingFrom, TRUE)
                 ELSE path' = Tail(next) /\ Send(dir, Head(next), FALSE)
            /\ UNCHANGED <<resync_asked, location, direction, refused_edges,
                           replans, errand, shard, toClient, left_map>>

\* pump_movement when the oldest request is past STEP_ACK_TIMEOUT
\* (Movement::expire_stale): the route is dropped and the shard is asked where
\* he is.  Without an input it happens only when no answer is coming.
ExpireStale ==
    /\ in_flight # <<>>
    /\ resync_asked # "asked"
    /\ \/ Silent /\ UNCHANGED spent
       \/ ~Silent /\ Input
    /\ Refused
    /\ path' = <<>>
    /\ resync_asked' = "asked"
    /\ toShard' = Append(toShard, Resync)
    /\ UNCHANGED <<location, direction, refused_edges, replans, errand, shard,
                   toClient>>

\* RESYNC_WAIT runs out before the redraw comes: he may walk on without it.
ResyncWaitEnds ==
    /\ Input
    /\ resync_asked = "asked"
    /\ resync_asked' = "waited"
    /\ UNCHANGED <<sequence, in_flight, path, location, direction, refused_edges,
                   replans, errand, shard, toShard, toClient, left_map>>

\* A caller sets a route or lets one go, once (move_to, a steer, a walk the shard
\* forces) or with an errand that is going to send him on (set_goal, follow,
\* start_hunt, start_walk).  A trip to somewhere else starts its budget of
\* routes again.
SetPath ==
    /\ Input
    /\ path' \in Routes[SteppingFrom] \cup {path, <<>>}
    /\ replans' \in {0, replans}
    /\ errand' \in BOOLEAN
    /\ UNCHANGED <<sequence, in_flight, resync_asked, location, direction,
                   refused_edges, shard, toShard, toClient, left_map>>

\* follow_tick and the jobs: the errand sends him on from the end of the steps
\* in flight, or has him wait, at any tick and as often as it likes.
SentOn ==
    /\ Plan
    /\ errand
    /\ path' \in Routes[SteppingFrom] \cup {<<>>}
    /\ replans' \in {0, replans}
    /\ UNCHANGED <<sequence, in_flight, resync_asked, location, direction,
                   refused_edges, errand, shard, toShard, toClient, left_map>>

\* The errand is done (arrive, the end of a follow or of a job).  A trip that is
\* given up does not end it: stop_the_trip leaves the goal standing.
ErrandEnds ==
    /\ errand
    /\ errand' = FALSE
    /\ \/ UNCHANGED <<path, replans>>
       \/ path' = <<>> /\ replans' \in {0, replans}
    /\ UNCHANGED <<sequence, in_flight, resync_asked, location, direction,
                   refused_edges, shard, toShard, toClient, left_map, spent>>

\* The `stop` tool (Movement::clear): the route goes, and the requests on the
\* wire keep their place, because the shard is going to answer them.
Stop ==
    /\ Input
    /\ path' = <<>>
    /\ replans' = 0
    /\ errand' = FALSE
    /\ UNCHANGED <<sequence, in_flight, resync_asked, location, direction,
                   refused_edges, shard, toShard, toClient, left_map>>

\* The door macro and a script's `turn` aim him with a turn of their own.  They
\* wait for the wire to empty and ask nothing else.
StandingTurn ==
    /\ Input
    /\ in_flight = <<>>
    /\ \E dir \in Dir \ {direction} : Send(dir, location, TRUE)
    /\ UNCHANGED <<path, resync_asked, location, direction, refused_edges,
                   replans, errand, shard, toClient, left_map>>

\* A script's `resync`: the question alone.
ScriptResync ==
    /\ Input
    /\ toShard' = Append(toShard, Resync)
    /\ UNCHANGED <<client, shard, toClient, left_map>>

\* RefusedEdges::expire: the clock alone forgets a crossing, again and again.  The
\* crossing he is about to try again was refused DOOR_RETRY_WAIT ago, a fraction
\* of REFUSED_TILE_MEMORY; only one refused on an earlier visit may run out under
\* him, and the bound counts those.
CrossingAhead == IF Requeued = <<>> THEN {} ELSE {<<location, Head(Requeued)>>}
ForgetEdge ==
    /\ \E edge \in refused_edges :
           /\ refused_edges' = refused_edges \ {edge}
           /\ IF edge \in CrossingAhead THEN Input ELSE UNCHANGED spent
    /\ UNCHANGED <<sequence, in_flight, path, resync_asked, location, direction,
                   replans, errand, shard, toShard, toClient, left_map>>

-----------------------------------------------------------------------------
(* What the session does with an answer (ingest). *)

\* Slip: an answer that names no request is passed over, as an echo of one.
AskResyncNever ==
    UNCHANGED <<in_flight, sequence, path, resync_asked, toShard, left_map>>

\* accept_move_ack.  The answer names one request: he stands on its tile, and
\* the requests before it go with it.  An answer that names none means the two
\* no longer agree, and the shard is asked where he is, once.
AskResync ==
    IF resync_asked = "asked"
      THEN UNCHANGED <<in_flight, sequence, path, resync_asked, toShard, left_map>>
      ELSE /\ Refused
           /\ path' = Requeued
           /\ resync_asked' = "asked"
           /\ toShard' = Append(toShard, Resync)

AcceptMoveAck(answer) ==
    LET named == {i \in 1 .. Len(in_flight) : in_flight[i].sequence = answer.sequence}
    IN  /\ answer.kind = "ack"
        /\ IF named = {}
             THEN AskResync /\ UNCHANGED <<location, direction>>
             ELSE LET first == Min(named)
                  IN  /\ location' = in_flight[first].arrives_at
                      /\ direction' = in_flight[first].direction
                      /\ in_flight' = SubSeq(in_flight, first + 1, Len(in_flight))
                      /\ UNCHANGED <<sequence, path, resync_asked, toShard, left_map>>
        /\ UNCHANGED <<refused_edges, replans, errand>>

\* Slip: every refusal of a crossing counts as its first.
TryTheDoorEveryTime(edge) ==
    /\ edge \notin refused_edges
    /\ path' = Requeued
    /\ UNCHANGED <<replans, refused_edges>>

\* refuse_step on a number he waits on: the oldest request is the refused one.
\* The first refusal of a crossing leaves the step at the head of the route for
\* another try at the door.  Anything else plans the route again, patched or
\* from nothing, and one plan too many ends the trip; so does a long wait.
TryTheDoor(edge) ==
    /\ edge \notin refused_edges
    /\ refused_edges' = refused_edges \cup {edge}
    /\ path' = Requeued
    /\ UNCHANGED replans

ReplanTheRoute ==
    /\ replans' = IF replans < ReplansMax THEN replans + 1 ELSE 0
    /\ path' \in IF replans < ReplansMax THEN Routes[location] \cup {<<>>} ELSE {<<>>}
    /\ UNCHANGED refused_edges

GaveUp ==
    /\ path' = <<>>
    /\ replans' = 0
    /\ UNCHANGED refused_edges

RefuseStep(answer) ==
    /\ answer.kind = "reject"
    /\ IF \E i \in 1 .. Len(in_flight) : in_flight[i].sequence = answer.sequence
         THEN /\ Refused
              /\ \/ TryTheDoor(<<answer.at, Head(in_flight).arrives_at>>)
                 \/ ReplanTheRoute
                 \/ GaveUp
         ELSE UNCHANGED <<in_flight, sequence, left_map, path, refused_edges, replans>>
    \* Echo or not, the world model puts him where the refusal says he is.
    /\ location' = answer.at
    /\ direction' = answer.direction
    /\ UNCHANGED <<resync_asked, errand, toShard>>

\* The shard redraws him (Movement::redrawn, then the world model's DrawPlayer).
Redrawn(answer) ==
    /\ answer.kind = "draw"
    /\ Refused
    /\ path' = Requeued
    /\ resync_asked' = "no"
    /\ location' = answer.at
    /\ direction' = answer.direction
    /\ UNCHANGED <<refused_edges, replans, errand, toShard>>

\* MapChange (leave_map): the walk and its marks go, and with them a follow or a
\* travel goal; a hunt or a walk job stays.  The requests in flight
\* stay in flight, and the count starts again all the same.
LeaveMap(answer) ==
    /\ answer.kind = "map"
    /\ path' = <<>>
    /\ refused_edges' = {}
    /\ replans' = 0
    /\ errand' \in {errand, FALSE}
    /\ sequence' = SeqFirst
    /\ left_map' = (in_flight # <<>>)
    /\ UNCHANGED <<in_flight, resync_asked, location, direction, toShard>>

Receive ==
    /\ toClient # <<>>
    /\ LET answer == Head(toClient)
       IN  \/ AcceptMoveAck(answer)
           \/ RefuseStep(answer)
           \/ Redrawn(answer)
           \/ LeaveMap(answer)
    /\ toClient' = Tail(toClient)
    /\ UNCHANGED <<shard, spent>>

\* A framing error: the bytes of some answers are gone, the requests on the
\* wire go back on the route and the shard is asked where he is.
FramingError ==
    /\ Input
    /\ \E lost \in 0 .. Len(toClient) :
           toClient' = SubSeq(toClient, lost + 1, Len(toClient))
    /\ Refused
    /\ path' = Requeued
    /\ toShard' = Append(toShard, Resync)
    /\ UNCHANGED <<resync_asked, location, direction, refused_edges, replans,
                   errand, shard>>

-----------------------------------------------------------------------------
(* The shard (external). *)

Answered(kind, request, at, dir) ==
    toClient' = Append(toClient,
        [kind |-> kind, sequence |-> request.sequence, at |-> at, direction |-> dir])

\* A request in a direction he does not face turns him, any other moves him
\* unless the tile ahead is shut.  A shove at an occupied tile fails at times.
ShardTurns(request) ==
    /\ request.direction # facing
    /\ facing' = request.direction
    /\ count' = NextNumber(count)
    /\ Answered("ack", request, tile, request.direction)
    /\ UNCHANGED <<tile, spent>>

Ahead == Beside[tile][facing]

ShardSteps(request) ==
    /\ request.direction = facing
    /\ Ahead \notin Walls \cup {tile}
    /\ tile' = Ahead
    /\ count' = NextNumber(count)
    /\ Answered("ack", request, Ahead, facing)
    /\ UNCHANGED <<facing, spent>>

ShardRefuses(request) ==
    /\ request.direction = facing
    /\ \/ Ahead \in Walls \cup {tile} /\ UNCHANGED spent
       \/ Ahead \notin Walls \cup {tile} /\ Input
    /\ count' = SeqFirst
    /\ Answered("reject", request, tile, facing)
    /\ UNCHANGED <<tile, facing>>

\* A request with the wrong number is refused for it, or dropped unanswered:
\* the echoes that Movement::holds_sequence tells from a refusal.
ShardRefusesTheNumber(request) ==
    /\ request.sequence # count
    /\ count' = SeqFirst
    /\ \/ Answered("reject", request, tile, facing)
       \/ DropsSome /\ UNCHANGED toClient
    /\ UNCHANGED <<tile, facing, spent>>

\* It redraws him for a resync, and starts its count again.
ShardRedraws ==
    /\ Head(toShard) = Resync
    /\ count' = SeqFirst
    /\ toClient' = Append(toClient, [kind |-> "draw", at |-> tile, direction |-> facing])
    /\ UNCHANGED <<tile, facing, spent>>

\* A request to move is dropped by the shard and never answered.
ShardLoses ==
    /\ DropsSome
    /\ Input
    /\ Head(toShard) # Resync
    /\ UNCHANGED <<shard, toClient>>

Serve ==
    /\ toShard # <<>>
    /\ LET request == Head(toShard)
       IN  \/ /\ request.kind = "move"
              /\ request.sequence = count
              /\ ShardTurns(request) \/ ShardSteps(request) \/ ShardRefuses(request)
           \/ /\ request.kind = "move"
              /\ ShardRefusesTheNumber(request)
           \/ ShardRedraws
           \/ ShardLoses
    /\ toShard' = Tail(toShard)
    /\ UNCHANGED <<client, left_map>>

\* A recall, a death, a gate: he is put elsewhere and redrawn, on this map or,
\* with a word on the map first, on another.
ShardMovesHim ==
    /\ Input
    /\ tile' \in Tile \ Walls
    /\ count' = SeqFirst
    /\ LET draw == [kind |-> "draw", at |-> tile', direction |-> facing]
       IN  \/ toClient' = Append(toClient, draw)
           \/ toClient' = toClient \o <<[draw EXCEPT !.kind = "map"], draw>>
    /\ UNCHANGED <<client, facing, toShard, left_map>>

-----------------------------------------------------------------------------
Init ==
    /\ sequence = SeqFirst
    /\ in_flight = <<>>
    /\ path = <<>>
    /\ resync_asked = "no"
    /\ location \in Tile \ Walls
    /\ direction \in Dir
    /\ refused_edges = {}
    /\ replans = 0
    /\ errand = FALSE
    /\ tile = location
    /\ facing = direction
    /\ count = SeqFirst
    /\ toShard = <<>>
    /\ toClient = <<>>
    /\ left_map = FALSE
    /\ inputs = 0
    /\ plans = 0

Next ==
    \/ PumpMovement
    \/ ExpireStale
    \/ ResyncWaitEnds
    \/ SetPath
    \/ SentOn
    \/ ErrandEnds
    \/ Stop
    \/ StandingTurn
    \/ ScriptResync
    \/ ForgetEdge
    \/ Receive
    \/ FramingError
    \/ Serve
    \/ ShardMovesHim

Spec == Init /\ [][Next]_vars

\* The session's loop takes every packet and ticks for ever, its time-outs run
\* on a clock, and the shard reads what it is sent.
Fairness ==
    /\ WF_vars(PumpMovement)
    /\ WF_vars(ExpireStale)
    /\ WF_vars(Receive)
    /\ WF_vars(Serve)

FairSpec == Spec /\ Fairness

-----------------------------------------------------------------------------
(* Properties. *)

\* Every variable holds a value of its kind.
TypeOK ==
    /\ sequence \in Number
    /\ in_flight \in Seq(PendingStep)
    /\ path \in Seq(Tile)
    /\ resync_asked \in {"no", "asked", "waited"}
    /\ location \in Tile
    /\ direction \in Dir
    /\ refused_edges \subseteq Tile \X Tile
    /\ replans \in 0 .. ReplansMax
    /\ errand \in BOOLEAN
    /\ tile \in Tile
    /\ facing \in Dir
    /\ count \in Number
    /\ toShard \in Seq(Request)
    /\ toClient \in Seq(Answer)
    /\ left_map \in BOOLEAN
    /\ inputs \in 0 .. MaxInputs
    /\ plans \in 0 .. MaxPlans

\* An answer names at most one request in flight: no two of them carry the same
\* number, however often the count wrapped, was thrown away and began again.
\* Only requests of the map he has just left may clash with those after them,
\* and only until the next redraw, refusal or resync throws them away
\* (Movement::ack takes the first request with the number).
AnswersNameOneRequest ==
    left_map \/ \A i, j \in 1 .. Len(in_flight) :
                   i # j => in_flight[i].sequence # in_flight[j].sequence

\* Why they do not: the requests in flight carry consecutive numbers that end
\* just before the next one, and they are never as many as the numbers are
\* (build_step, build_turn, next_sequence and reset_sequence keep in step).
Forward(n, d) == IF n + d < SeqMod THEN n + d ELSE n + d - (SeqMod - 1)
Consecutive ==
    /\ Len(in_flight) <= InFlightMax
    /\ left_map \/ \A i \in 1 .. Len(in_flight) :
           /\ sequence = Forward(in_flight[i].sequence, Len(in_flight) + 1 - i)
           /\ \A j \in i + 1 .. Len(in_flight) :
                  in_flight[j].sequence = Forward(in_flight[i].sequence, j - i)

\* Whatever was lost, refused, redrawn or answered late: once the wire is empty
\* and nothing is owed, the tile and the facing he is reported on are the
\* shard's (accept_move_ack: only a confirmation or a redraw moves him).
AtRest == in_flight = <<>> /\ Silent
AgreesAtRest == AtRest /\ resync_asked = "no" => location = tile /\ direction = facing

\* The steps asked for and the steps to come are one route, in order: answers,
\* refusals and redraws only ever take tiles off its front, a stop or a new map
\* cuts its end; only an order, an errand, a walk that is over or a refusal that
\* counts against the trip has the planner replace it.  No tile is asked for twice
\* or out of order.  (Movement::refused puts unanswered steps back, oldest first.)
Remaining == Requeued
IsStretchOf(s, t) ==
    \E i \in 1 .. Len(t) + 1 : \E j \in i - 1 .. Len(t) : s = SubSeq(t, i, j)
RouteKeepsItsOrder ==
    [][\/ IsStretchOf(Remaining', Remaining)
       \/ SetPath \/ SentOn \/ ~Walking
       \/ replans' # replans]_<<in_flight, path>>

\* Once no errand stands and nobody interferes, the walk ends: the route is
\* walked or given up, and every request is answered or timed out.  While an
\* errand stands he need not rest: the loop plans again for a goal it gave up.
ComesToRest == <>[]~errand => <>[](AtRest /\ path = <<>>)

\* What accept_move_ack is documented to do: he is reported on a tile the shard
\* put him on, so a confirmation credits the tile it was given for.
CreditsTheTruth ==
    [][toClient # <<>> /\ Head(toClient).kind = "ack"
         => location' = Head(toClient).at]_location
=============================================================================
