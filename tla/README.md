# UOTerm in TLA+

UOTerm is a headless Ultima Online client written in Rust: a runtime that keeps
sessions with shards, an HTTP and MCP API through which agents (and people at a
window or a web page) drive a character, and the libraries below them. This
directory holds TLA+ models of the parts of it that are hard to test, the TLC
configurations that check them, and proofs of what holds for every size.

Paths below are relative to the repository; `rt/` stands for
`crates/uoterm-runtime/src/`.

## 1. The system

| Part | State | Operations | Talks to |
| --- | --- | --- | --- |
| Session life (`rt/session.rs`: `start`, `run_session`, `wait_to_reconnect`) | command queue of 64, parked callers, the character to log in as, `logged_out`, `relog_as`, the wait | call, shutdown, drop of the handle, login, link lost, logout, wait, reconnect | callers through one `mpsc` channel and one `oneshot` per call; the shard over TCP |
| Login (`login_steps`, `character_request`, `pick_character`) | how far the login got, deadlines | one request and its answer after another | the shard, the person who picks a character |
| Walking (`rt/movement.rs`, `ingest`, `accept_move_ack`, `refuse_step`, `pump_movement`) | next number, requests in flight, route, resync, refused crossings and tiles | send a turn or a step, confirm, refuse, redraw, resync, time out, stop | the shard; the world model; the planner in `uoterm-nav` |
| Travel, doors, refusal ladder (`queue_move`, `judge_refusal`, `DoorOpener`, `travel.rs`) | goal, waits, replans, doors asked for | plan, patch, wait, open, give up | walking, the world model |
| Event log and `next_event` (`World::push_event`, `rt/session/awareness.rs`) | log of 256, count, mark, waiting callers | file, take, wait, answer, begin again | every part that files events; the agents |
| Waiting tools, targets, journal (`wait_for_target`, `wait_for_journal`) | parked callers with deadlines | park, answer, expire | the tick of the session |
| Human control (`rt/session/control.rs`) | time of the human's last act | take, release, idle out, gate | every tool; stops jobs and scripts |
| Jobs: hunt, walk, loot, deposit, gather, ress, agents | one job of each kind, what the hand holds | start, pump, end | walking, targets, the world model |
| Script language (`crates/uoterm-script`, `rt/session/scripting*`) | stack of loops and calls, waits, variables | run a line, wait, time out, stop | every tool |
| Registry and HTTP API (`rt/manager.rs`, `rt/api/`) | sessions by id, the cap, the next id | connect, get, stop | sessions |
| Live API (`rt/api/live.rs`) | line of acts of a session, places, outbox | call, act, picture | sessions, web pages |
| World model (`crates/uoterm-world`) | what the shard said last | apply a packet | everyone reads it |
| Codec (`crates/uoterm-protocol`), map files and path finding (`crates/uoterm-nav`) | none that lasts | pure functions | - |
| Assistant tables, view model, window, web client | - | drawing, input, data | the API |

One task runs a session: its loop takes one thing at a time (a command, bytes of
the shard, a ping, a step that falls due, a tick of every pump), so the
interleavings are of whole handlers. What makes it hard is around that loop: an
asynchronous shard that answers late, out of step or not at all; a link that
drops at any moment; callers that time out, hang up or never come; and state
that has to survive from one login to the next.

What makes each part correct, in the order of their weight:

1. Walking: an answer names one request; the reported tile is the shard's once
   nothing is owed; the route is walked in order and comes to an end.
2. Session life: each caller gets an answer; the session ends when nobody holds
   it; the next login is for the character meant, and only when one is wanted.
3. Events: each is told once and in order, and none that matters is skipped.
4. Travel: a trip that cannot be finished ends; a budget once spent stays spent.
5. Registry: the cap holds; an id names one session. Acts: in order, a bounded
   number, each answered. Control: while a human holds the
   character, no job of the agent's runs.
6. Jobs and scripts: what was lifted is put back; a job that ends says so once.

`PROJECT.json` lists the hazards with their lines.

## 2. Modules

| Module | What it is | Models |
| --- | --- | --- |
| `Walk` | one character's walk and the shard that answers it | `rt/movement.rs` and its callers in `rt/session.rs` |
| `Trip` | travel goal, refusal ladder, marks, doors | `queue_move`, `refuse_step`, `pump_movement`, `pump_doors`, `rt/session/travel.rs`, `DoorOpener` |
| `EventLog` | the log, the mark, the callers of `next_event` | `World::push_event`, `rt/session/awareness.rs`, `begin_again` |
| `Session` | handle, queue, logins, waits, logouts, parked calls; implements `Calls` | `start`, `run_session`, `wait_to_reconnect`, `link_ended` |
| `Calls` | what a session promises the callers of its tools (abstract) | `SessionHandle::call` |
| `Hand` | the one item a character holds, the jobs that use the hand, human control | `rt/loot.rs`, `rt/deposit.rs`, `rt/jobs.rs`, `rt/session/agents.rs`, `rt/session/control.rs` and their places in `rt/session.rs` |
| `Scripts` | the slots of scripts and their turns | `rt/session/scripting.rs`, what a tick of `uoterm-script` may come to |
| `Registry` | the table of sessions, the stages of a login, stops | `rt/manager.rs`, `login_steps` |
| `Login` (extends `Registry`) | the callers of a login: a page's link, a POST | `rt/api/login.rs`, `create_session` |
| `Live` (extends `Registry`) | live links, lines, places and turns of acts | `rt/api/live.rs` |
| `Turns` | what live links promise the acts of a session (abstract) | `rt/api/live.rs:13-17` |
| `Hub` | composes `Registry`, `Login`, `Live`; implements `Turns` | one process |
| `WalkProofs`, `TripProofs`, `EventLogProofs`, `SessionProofs`, `HandProofs`, `ScriptsProofs`, `HubProofs` | proofs, section 5 | |
| `DataFacts` | lemmas on numbers and sequences that the proofs share | |
| `MCWalk`, `MCTrip`, `MCEventLog`, `MCSession`, `MCHand`, `MCScripts`, `MCHub` | constants for TLC | |

Operators whose comment begins with "Slip:" are likely mistakes in the operator
that follows them. They are used by no action: each shows that a property
notices the mistake when it takes the operator's place (`PROJECT.json`, mutants).

### Walk

Variables of the session keep their Rust names (`sequence`, `in_flight`, `path`,
`resync_asked`, `refused_edges`, `replans`; `location` and `direction` are those
of `self_state`). The shard (`tile`, `facing`, `count`) is not in the repository:
it is written from what the client's comments say of it (a turn where he does
not face, one number expected at a time, a count that starts again at each
redraw and refusal, requests with the wrong number refused or dropped) and from
`rt/mock.rs`. Both directions of the TCP link are sequences.

A confirmation carries a number and nothing more, as in the code; the model also
records in it what was true at the shard when it was sent, for the properties
alone. `PumpMovement` is the whole of `pump_movement` after its time-outs, the
planning for a travel goal included; `Receive` is `ingest` for one answer, with
the world model's part of it. The refusal ladder of `refuse_step` is reduced to
what it does to the walk: another try (`TryTheDoor`), a new route or the end of
the trip (`ReplanTheRoute`), the end (`GaveUp`); `Trip` has the ladder itself.

`errand` says that something sends him on by itself: a travel goal, a follow, a job
that walks. While it stands the tick plans again whenever the walk is over
(`PumpMovement`) and a follow or a job sets another route at any tick (`SentOn`),
with no call behind it; giving a trip up leaves the errand standing, as
`stop_the_trip` leaves the goal. Such routes have a bound of their own, `MaxPlans`,
apart from the inputs. The memory of a refused crossing runs out on the clock
(`ForgetEdge`), as often as it likes; only the crossing he is about to try again is
charged to an input, since it was refused `DOOR_RETRY_WAIT` ago, a fraction of
`REFUSED_TILE_MEMORY`.

The planner's routes are the constant `Routes`, of which `RoutesHoldTogether` says
that they go from tile to tile and start beside the tile they are planned from, as
`reconstruct` (`uoterm-nav/src/path.rs`), `hold_path` and `forced_walk` build them.

Left out: pace, running, stamina, heights, fastwalk keys, and the clock: a
time-out may come at any moment when it costs one of the bounded inputs, and
freely when no answer is on its way.

### Trip

`Walk` looks at several steps on the wire; `Trip` has one at a time, whose answer
always comes, and looks at everything above it: the goal and the heading, the
trip's waits and replans (`wait`, `replans`, kept for one `trip_dest`), the tiles
and crossings that refused him (`blocked`, `refused_edges`), the patch of the
route round a block ahead, the door attempts with their time-outs (`pending`,
`failures`, `clicked`) and the macro of a door (`door_macro`). The shard has the
doors (`leaf`), other people (`crowd`), walls no map shows and corners it shuts;
door packets may come after the attempt they answer has timed out. The world
model's picture of a door (`seen`) lags behind `leaf`.

A patch keeps the step on the wire and starts where it leaves him
(`stepping_from`). On the map of the run no route is long enough to be patched
while a step is out, so what TLC says of `Mended` is about patches without one; a
corridor of seven tiles reaches the others, and `TripRouteHoldsTogether` (section
5) covers them on every map.

The planner finds any path its own lists leave open, so nothing depends on which
one A* prefers. Pauses end at any moment; only their order with other steps is
kept. Left out: `follow_plan`, heights, areas to avoid, learned teleporters.

### EventLog

The log is a set, since its order is that of its numbers. An event is important
(an agent is told), plain (logged, told to nobody) or ambient (dropped first,
told to whom asks). Two agents share the one mark `delivered`. A caller may
leave while it waits, or before the session comes to its call. History variables
record what was told (`heard`) and what is owed (`owed`).

### Session

The phases are those of the loop in `start`: `login`, `world`, `waiting` for the
next login (`elapsed` once its timer has run out and `select!` has not looked),
`ended`. `queue` is the command channel, `waiters` the parked calls of all three
waiting tools; calls are single shots of one tool (`act`, `wait`, `logout`, or a
character's name for `logout` with `then_play`). The clock is two facts: a call
becomes `slow` when a login keeps it waiting over a second, and a wait has a
level that `RECONNECT_WAIT_GROWTH` raises. `played` is `World::self_state.name`,
`plays` who is really in the world, and `misled` records that a link broke while
the two differed.

`Calls` is the caller's side: a call is under way until one outcome, and open while
the session may still take it up. Under `Outcome` and `Open` the calls on their way
and in the queue are open, which a run that ends leaves alone, and those parked
are not, which it closes. A call that timed out stays open: it is carried out, and
its caller cannot know.

Left out: what tools do, packets of the login (its stages are in `Registry`), the
parts of the world that `begin_again` clears (the log is in `EventLog`).

### Hand

The shard has one item on its cursor; the session believes in `holding`. Between
them are lifts and drops on the wire and the packets that say what became of
them: a delete that is the lift itself or the end of a drop, a refusal, a bounce,
a stack that grew. `PumpJobs` is one turn of `reflex_tick` for loot, deposit and
the hunt's own loot, `AgentMoves` is what the agents lift and drop; tools, scripts and
a human start, stop and replace jobs in between, with every field each of them
sets. `by` records who set each thing going: the four jobs, the goal, the follow, and
the agents, of which `agents` tells the job run `once` from those `switched` on.

A hunt drops only from its loot phase. It leaves that phase to flee or to fight, and a
leader the character follows goes before it (`rt/jobs.rs:398-440`,
`rt/session.rs:10914-10921`); a bank job waits before a shut box. `kept` marks a job
that is so kept from its turn, and `KeptOrFreed` sets and clears it at any moment,
for as long as it likes. Meanwhile no drop goes out, and `HoldLimit` may forget the
item. A job at its turn drops in the tick it finds the item (`DropDue`), so
HOLD_LIMIT never comes before that drop.

`crossed` is history: with the hand full a caller lifted, something ended a job, a
bank job began before a shut box, or HOLD_LIMIT forgot the item; the properties of
the hand speak of the rest.

`Punctual` says that the answers to a lift and its drop are back before the
budget of the next action is up. It is an assumption on the link: on a slower one
the lift's own delete is taken for the end of the drop.

Left out: which item, corpse or target is chosen (any), walking and fighting of
the jobs beyond what they do to the loot phase, several containers, what agents wear
(`pump_rearm`), the scripts a human's take stops (`Scripts` has their stop), gather
and ress.

### Scripts

`slots`, `turn`, `next` are the fields of `Scripting`; `order` is the list of
slots `pump_script` still has to visit on this tick. One visit (`tick_slot`) takes
the script out of the list, runs one tick of it, and puts it back or ends it. The
tick may stop, hold, let go or replace the script of another slot first, may send
(which rests all scripts for the shared pace), and leaves the script under way,
at its end, failed, or asking to be replaced or stopped. Calls start, stop and
hold scripts between ticks. What a line says is any of these; the stack machine
of `run.rs` is left out.

### Registry, Login, Live and Hub

`Registry` has the task of each login through its stages (`task`), the questions
to a screen and their replies, the shard's answer to a character request, the
table (`registered`), and a stop as the two steps it is: out of the table, then a
`Shutdown` into the queue, which a caller who hangs up may cut in between.
`Login` adds who asks: a page over its login link, which carries questions and
replies and is told of the result (`told`), or a POST that is dropped with its
caller. `Live` adds the links on a session of the table: a link finds its session
and is given its line in two steps, acts wait for one turn in the order their
tasks first ask for it, and make their calls one by one. `Hub` composes them,
with the rule that a session's task ends when the last handle goes (`Held`).

`Turns` knows no link, line or queue. It promises that an act, once begun, ends
before another of its session begins, and that no more than `Places` are taken,
until the session is stopped. `Hub` implements it under the mapping
`Status`, `On`, `Loose` (`Hub!ActsTakeTurns`).

Each caller asks once, so an id names a caller. Left out: single calls and their
places, the outbox and its time-out, pictures, the token guard.

## 3. Runs

Checked with TLC; the deadlock check is off because each model stops when its
bounded inputs are spent.

| Run | Checks | States | Instance |
| --- | --- | --- | --- |
| `walk_safety` | `TypeOK AnswersNameOneRequest AgreesAtRest Consecutive RouteKeepsItsOrder` | 2 547 711 | a corridor of 3 tiles with a wall at its end, 4 numbers, 2 requests in flight, 2 inputs, 1 plan of an errand |
| `walk_live` | `ComesToRest` | 129 652 | the same with a shard that drops requests |
| `trip_ladder` | `TypeOK RouteHoldsTogether GetsThere` | 126 978 | two squares with four ways between them: a hidden wall, a door, a locked gate, open ground with a shut corner; budgets of 2 and 3, 3 inputs |
| `events_heard` | `TypeOK LogInOrder OwedStaysAhead HeardOnceInOrder WaitingEnds` | 141 510 | 2 callers, a log of 3, batches of 2, 4 events |
| `session_life` | `TypeOK PlaysWhoWasNamed OnlyThePlayedLogIn LogoutIsForGood EveryCallEnds CloseEndsIt CallsAreKept` | 356 179 | 2 calls, a queue of 1, 2 characters and a title, 3 faults |
| `hand_jobs` | `TypeOK HandAgrees AgentKeptOut OneRunningJob OneItemAtATime HandComesFree` | 1 803 011 | 2 items in a corpse, or one of them in the pack, 2 lifts of each, 3 inputs, a punctual link |
| `scripts_turns` | `TypeOK OneScriptASlot EachEndIsToldOnce NoRunTooMany NoneIsStarved` | 191 813 | 3 slots, room for 3, up to 2 runs, 3 inputs |
| `hub_process` | `TypeOK StoppedOrTold ActsTakeTurns LeftLoginEnds NobodysSessionEnds ActsEnd` | 160 507 | a page and a POST, 2 live links, 3 acts of up to 2 calls, 2 places, 6 inputs |

Why the bounds are enough to be of interest. Walk: with 4 numbers and 2 requests
in flight the count wraps within one corridor and starts again with requests on
the wire; two inputs are an order, which may set an errand, and one thing that goes
wrong: a framing error, a recall, a map change, a time-out or a late refusal. A
third input with a longer corridor costs TLC more than it shows, and every safety
property of this run is proved without bounds (section 5). A route of two steps and
its first turn is more than may be in flight. Trip: every way between the squares but one is
shut for its own reason, and the budgets are small enough to be spent on one of
them and left for the next; three inputs are an order and two of a person in the
way, a late answer and a mark forgotten. EventLog: the cap is below the number of
events, a batch below the cap, so both overflow. Session: the queue of one is
full with one call waiting, so `try_send` fails and callers wait for room; three
faults are a drop, a failed login and another drop. Hand: with two items a lift
can find the other item on the cursor, and the second lift of one item reaches
its limit; of the places they may lie at first, both in the corpse and one in the
pack are enough, since the items are alike. An agent is switched on from the start,
so that what it does costs no input; three inputs let agent and human start
one thing each, or the agent two, before the human takes the character. Scripts: of three slots one may stand before and one after the one
whose line changes the list. Hub: two logins at once pass a cap of one; two links
of one session, three acts and two places leave one act without a place and make
one wait for another's turn; six inputs open both links, send the acts and still
leave a stop or a page that goes.

Runs that end in a violation show where the code does not do what the repository
says of it:

| Run | Property | What is said | What happens |
| --- | --- | --- | --- |
| `walk_drift` | `CreditsTheTruth` | `rt/session.rs:9426`: a confirmation is the only way a walk moves him, "so every reader of his position reads fact and never a guess" | requests are thrown away while their answers are in the pipe and the numbers begin at 0 again; an old answer 0 credits the new request 0 |
| `trip_given_up` | `GivenUpIsOver` | `rt/movement.rs:892`: a trip planned again `REPLANS_MAX` times "ends instead of looping" | the goal outlives the trip: the next tick plans it again with fresh budgets |
| `session_name` | `RelogsAsPlayed` | `rt/session.rs:398`: a person whose link broke logs in to the character he played | the shard's title for him is asked for, and the first slot stands in for it |
| `scripts_stop` | `TheSessionGoesOn` | `docs/SCRIPTS.md:293`: `script 'stop'` stops the script of another slot | the ticking script is put back at a place the shorter list no longer has; the insert panics |

`AgreesAtRest` beside `CreditsTheTruth` says how far the drift goes: it ends
with the redraw or the next answer that fits no request. `PlaysWhoWasNamed`
beside `RelogsAsPlayed` says that the title is the only way to go wrong, and
`GetsThere` beside `GivenUpIsOver` that the trip planned again does end when a way
is open. `ComesToRest` is the other side of `GivenUpIsOver`: it promises rest only
where no errand stands for ever, and a goal that outlives its trip is one that does.

The models contain further steps in which the code differs from what is said of
it, and no run states those: a hunt that flees, fights or is led away sends no drop
of what it looted, and HOLD_LIMIT then forgets an item that is on the shard's cursor
still (`rt/session/agents.rs:308`, which line 28 takes "to have landed somewhere";
`HandComesFree` excuses just these hands); the agents that the agent switched on go on
lifting and dropping under a human (`rt/session/agents.rs:296`,
`rt/session/control.rs:50`, "Stops what the agent set going"; `AgentKeptOut` says
that they are all a take leaves of the agent's); after a stop a refusal puts steps in flight back on
the route (`rt/session.rs:11967`, `docs/AGENT_API.md:294`); events answered to a
caller who hung up are told to nobody (`rt/session/awareness.rs:190`); drops from
the middle of the log are not in `missed` (`rt/session/awareness.rs:245`,
`docs/AGENT_API.md:37`); the reconnect wait is not set back by a success
(`rt/session.rs:423`, `README.md:295`); a waiting tool may outlast its caller
after a login (`rt/session.rs:10526` and 75); logins at once pass the cap together
(`rt/manager.rs:158`, `README.md:288`); `run_now` leaves what its line asked for
to the next script (`rt/session/scripting.rs:437`); a login that names its
character plays on after its page closed (`rt/session.rs:1787`,
`rt/api/login.rs:13`).

## 4. Fairness

All of it is weak fairness, and no caller, page, fault or whim of the shard
(whatever counts as an `Input`) has any.

- `Walk`: `PumpMovement`, `ExpireStale`, `Receive`, `Serve`. The loop of
  `run_session` reads the link and ticks for ever, time-outs are on the clock, and
  the shard reads what it is sent. `ComesToRest` speaks of
  walks that no errand stands for any more (`<>[]~errand`) and of the time after the
  last input. The bound `MaxPlans` does not carry it: an errand that stands for
  ever makes the premise false, bound or no bound, and of one that ends only finitely
  many plans were made, each a route that has to come to its end.
- `Trip`: planning and sending (`QueueTheGoal`, `SendStep`, `Arrived`), the ends of
  its pauses (`PathFailWaitEnds`, `DoorExpired`), the opener (`PumpDoors`), and the
  shard's answers (`StepAnswered`, `DoorPacket`, `ShardTakesMacro`). People in the
  way need not go; the planner need not prefer any route.
- `EventLog`: the tick that answers waiters and each deadline. `PushEvent` has none.
- `Session`: each step of the task (a login ends because each of its answers has a
  deadline), `Enqueue`, the return of `start`, and the answer to each parked call
  (`WAIT_MAX_MS`). `LoginFails` costs a fault, so a login that fails for ever is
  outside the bound.
- `Hand`: `PumpJobs`, `Ingest`, `ShardTakes`, with the assumption `Punctual`.
  `KeptOrFreed` has none: a hunt may flee and a box stay shut for ever, so
  `HandComesFree` names a job that is kept among its excuses.
- `Scripts`: `Pump` and `GapOver`. A script need never end.
- `Hub`: the steps and ends of each task, each login handler, each link's two tasks
  and each act's task, which the runtime schedules; the login's deadline; and room
  for the `Shutdown` of a stop whose caller stays.

## 5. Proofs

All proofs are checked by TLAPS for all values of the constants that satisfy the
named assumptions, with no bound on inputs, events or faults beyond their
constants being natural numbers.

**Walk** (`WalkProofs`). `TypeCorrect`, `NumbersConsecutive`,
`AnswersAreUnambiguous`, from `BesideType`, `WallsType`, `RoutesType` and
`NumbersType` (the number byte has more values than requests in flight plus one,
as 256 and `IN_FLIGHT_MAX`). That two requests share no number is not inductive: an
answer removes a prefix, a send appends the next number, and nothing in "no two
are equal" says that the next number is free. The invariant is `Consecutive`: the
requests carry successive numbers ending just before `sequence`, and there are
fewer of them than numbers, so that the number arithmetic (`Forward`, which skips
0 after a wrap) is injective over their span. The map change is the exception the
code makes: requests of the old map stay in flight while the count starts again
(`left_map`), until the next answer that throws them away.

`WalkKeepsItsOrder` proves `RouteKeepsItsOrder`, with `RoutesHoldTogether` beside the
others. `Reachable` drops tiles off the front of the route to come, which is the
middle of the whole once steps are in flight. `RouteInv` is why it never does: the
whole goes from tile to tile, and the steps in flight end on `SteppingFrom`, so the
first tile to come is beside him whenever a step is out (`NextIsBeside`). The
steps that may replace the route are named in the property: an order, an errand, a
walk that is over, a refusal counted against the trip. The rest
is what the two helpers of `Requeued` compute: a step sent is one tile more at the
end, a turn none (`StepTilesAppend`), and the requests an answer leaves put back
the end of what all of them did (`StepTilesOfRest`).

**Agreement** (`WalkProofs`). `WalkAgreesAtRest`: with a shard that answers
all it is asked (`~DropsSome`), `[]AgreesAtRest`. The invariant `AInv` takes the
answers on their way and the requests on theirs as one queue, the pipe. While a
redraw is owed (`RedrawOwed`) nothing need hold but the order of the wire
(`WireInv`), since the redraw throws everything away. Otherwise the requests in
flight are the last of the pipe (`HeldAreLast`), each sent from where the one
before it leaves him (`HeldAreLinked`), and the `stale` ones before them were
thrown away or credited to another's answer. Why a stale confirmation cannot leave
a lasting error: what is asked next either goes on with the run the stale request
was of, or begins with 0 (`GoesOn`); no later number of a run is 0; so a request
out of step with the shard is refused, a refusal carries the tile, and after it he
stands where he is believed to (`FreshInv`). A redraw of a map change is behind the
word of the change (`MapThenDraw`), which is what makes requests of the old map
harmless.

**Trip** (`TripProofs`). `TripTypeCorrect` and `TripRouteHoldsTogether`, from
`MapType` and `BudgetType`. For the route, `WalkInv` adds that the step on the wire
goes to a tile beside him: without it a refusal, which puts that step back at the
head (`RequeuedIsRoute`), would break the route. Ways of the planner, patches that
rejoin the route and routes put back are all joins of routes end to end
(`WaysAreRoutes`, `RoutesJoin`, `MendedIsRoute`). For the types, the count of
failures at a door stays within its budget only because an attempt is begun while
one is left (`AttemptIsWithin`), and the waits at one tile are among those of the
trip (`TripInv`).

**EventLog** (`EventLogProofs`). `LogTypeCorrect`, `LogStaysInOrder`,
`EachEventHeardOnceInOrder`, `NothingImportantIsPassedOver`, from `LogSizes`. The
invariant `IInv` adds to the order of the log that the log is finite, that the mark
and everything heard are at most `event_seq`, and that everything heard is older
than every event still ahead of the mark, which is what makes the mark's return to
0 at a new login harmless. `FirstAreOldest` and `ShortBatchIsAll` are the facts
about a batch the last two rest on.

**Session** (`SessionProofs`). `SessionTypeCorrect`, `SessionPlaysWhoWasNamed`,
`SessionOnlyThePlayedLogIn`, `SessionLogoutIsForGood`,
`SessionKeepsItsCalls`, from `NamesType` and
`SessionSizes`. The invariant `IInv` has three parts beside the type:
`HeldAfterLogin` (nobody holds or calls a session whose first login did not
succeed), `ToldOnce` (a caller told of a failure sees the session wait or end,
never log in) and `KnowsWhom` (in the world he bears his own name or what the
shard calls him, out of it the options hold the name of the next login).
`OnlyHeldElapses` is where the first two meet: the loop of `start` does go on to
wait after a failed first login, and only the dropped handle stops it there.

`SessionKeepsItsCalls` is the refinement of `Calls`. The steps map to it only by
`LineInv`: a call stands in the queue once, those in the queue are the ones
sent and not taken up (or given up meanwhile), and a parked call left it. A call
that stood there twice would be taken up again after its answer
(`TakenOffTheLine`). The step with the most to it is the end of a run
(`RunEndKeepsPromise`): what it closes is exactly what is under way and no longer
open.

**Hand** (`HandProofs`). `HandTypeCorrect` (with the limit on lifts),
`HandOneRunningJob`, `HandAgentKeptOut`, from `HandType`. The invariant adds to the
types that a lift on the wire goes to the cursor and a drop to a place, and that
what is on the cursor lay somewhere before. `StoppingKeepsRules` and
`SettingKeepsInv` are the two ways jobs change; `StopLeavesNothing` is why a human
finds none of the agent's jobs: after the stop only agents are left running, and
`agent_stop` ends the one run once. `HandAgentKeptOut` is about jobs, goal, follow and
the agent job run once, not about the agents switched on, of which it would be
false.

`HandAgreesAtRest` and `HandOneItemAtATime` assume `Punctual` as well, without which
they are false. Both follow from `OneHold`: unless a caller crossed a job, the hand is
`Idle` (nothing held, and what is still on the wire puts down what is on the
cursor) or holds one item in one of three phases, of which the whole wire is part:
its lift is asked for and nothing but drops of it come after (`LiftAsked`), it is on
the cursor and any drop sent is on the wire or behind the news of its end
(`OnCursor`), or the news that ends the hold is on its way (`Ending`). A step of the
session, the shard or a job is one of a few moves between these (`StepOfHand`).

**Scripts** (`ScriptsProofs`). `ScriptsTypeCorrect`, `ScriptsOneASlot`,
`ScriptsEachEndIsToldOnce`, `ScriptsNoRunTooMany`, from `ScriptSizes`. The argument
is about the list: `Good` (one script a slot, none given all its runs) survives a
removal, an insertion of a slot that is not there, a change of one member, and the
end of a visit (`RemovedIsGood`, `InsertedIsGood`, `TouchedIsGood`,
`SettledIsGood`), wherever in the list each falls.

**Hub** (`HubProofs`). `HubTypeCorrect`, `HubStoppedOrTold` and
`ActsImplementTurns`, from `RegistrySizes`, `LiveSizes` and `NoLineIsNone`.
`TableInv`: a question and its reply belong to a login that waits for them; a
session in the table has a caller who is telling of it or has told. `LinesInv`: the
links attached to a session that was not stopped share its line, because only a
stop lets a line go. `TurnsInv`: the acts in a line's queue are those that wait,
once each, and the one under way stands first. `PlacesInv` bounds those taken. The
refinement maps the first call of an act to `Begin`, its start to `Take`, its end
to `End`, a stop to `Loosen`, and every other step to a stutter.

Only model-checked: the liveness properties (`ComesToRest`, `GetsThere`,
`WaitingEnds`, `EveryCallEnds`, `CloseEndsIt`, `HandComesFree`, `NoneIsStarved`,
`LeftLoginEnds`, `NobodysSessionEnds`, `ActsEnd`), which the prover does not
reach. Every invariant and every action property of the passing runs is proved.
The four properties that the runs of section 3 refute have no theorem.

## 6. Not modelled

- Codec, map files, path finding, world model, assistant tables, view, window, web
  client, reflexes, latency, recorder, personas: functions of data, drawing or
  input, without interleavings of their own. Where a protocol depends on one, its
  result is any the code may produce: a route, a target, a framing error.
- Facet caches: each operation is under one lock.
- The mock shard is a test double; its answers were read to write the shards of
  `Walk`, `Trip` and `Hand`.
- Single-packet tools (macros, hotkeys, play along): nothing of theirs outlives the
  call but the parked target, which is a parked call of `Session`.
- Parts of modelled components: `follow_plan` and heights of a trip; gather and
  ress; the stack machine of scripts; single calls and the outbox of a live link;
  the queue of outgoing packets (`flush_sealed`).

`PROJECT.json` gives the reason for each component, and the hazards that no
property covers.

## 7. What is left

1. The queue of outgoing packets between the session and its link
   (`rt/session.rs:1282`), and what a full one does to the numbers of `Walk`.
2. The stack machine of `uoterm-script`: loops, calls and waits of a program.
