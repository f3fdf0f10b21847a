----------------------------- MODULE TripProofs -----------------------------
(***************************************************************************)
(* What holds of a trip for every map, every set of doors and every        *)
(* budget: the types, the budgets that no count passes, and that the route *)
(* holds together through refusals, patches, doors and new goals.          *)
(***************************************************************************)
EXTENDS Trip, DataFacts

-----------------------------------------------------------------------------
(* Routes: sequences of tiles that can be walked from a tile. *)

Chain(from, p) == \A i \in 1 .. Len(p) : p[i] \in Near[Before(from, p, i)]
RoutesFrom(from) == {p \in Seq(Tile) : Chain(from, p)}

\* Every way the planner may find is a route from where it begins to where it
\* was to lead.
LEMMA WaysAreRoutes ==
    ASSUME NEW from, NEW to, NEW soft, NEW hard, NEW moves,
           NEW w \in Ways(from, to, soft, hard, moves)
    PROVE  /\ w \in RoutesFrom(from)
           /\ from \in Tile
           /\ StandOn(from, w) = to
<1>1. PICK r \in Walks : r.from = from /\ r.to = to /\ r.steps = w
  BY DEF Ways
<1> DEFINE taken(p) ==
             /\ r = [from |-> p[1], to |-> p[Len(p)], steps |-> Tail(p)]
             /\ \A i \in 2 .. Len(p) : p[i] \in Near[p[i - 1]]
<1>0. PICK n \in 1 .. Cardinality(Tile) : \E p \in [1 .. n -> Tile] : taken(p)
  BY DEF Walks
<1>2. PICK p \in [1 .. n -> Tile] : taken(p)
  BY <1>0
<1>3. n \in Nat \ {0}
  OBVIOUS
<1>4. p \in Seq(Tile) /\ Len(p) = n /\ p # <<>>
  BY <1>3
<1>5. from = p[1] /\ to = p[n] /\ w = Tail(p)
  BY <1>1, <1>2, <1>4
<1>6. /\ w \in Seq(Tile) /\ Len(w) = n - 1
      /\ \A i \in 1 .. n - 1 : w[i] = p[i + 1]
  BY <1>4, <1>5, TailFacts
<1>7. Chain(from, w)
  <2> SUFFICES ASSUME NEW i \in 1 .. n - 1
               PROVE  w[i] \in Near[Before(from, w, i)]
    BY <1>6 DEF Chain
  <2>1. Before(from, w, i) = p[i]
    <3>1. CASE i = 1
      BY <1>5, <3>1 DEF Before
    <3>2. CASE i # 1
      BY <1>3, <1>6, <3>2 DEF Before
    <3> QED
      BY <3>1, <3>2
  <2>2. i + 1 \in 2 .. Len(p)
    BY <1>3, <1>4
  <2>3. p[i + 1] \in Near[p[i]]
    BY <1>2, <2>2
  <2> QED
    BY <1>6, <2>1, <2>3
<1>8. from \in Tile
  BY <1>3, <1>5
<1>9. StandOn(from, w) = to
  <2>1. CASE n = 1
    <3>1. w = <<>>
      BY <1>6, <2>1, EmptySeq
    <3> QED
      BY <1>5, <2>1, <3>1 DEF StandOn
  <2>2. CASE n # 1
    <3>1. w # <<>>
      BY <1>3, <1>6, <2>2
    <3>2. w[n - 1] = p[n]
      BY <1>3, <1>6, <2>2
    <3> QED
      BY <1>5, <1>6, <3>1, <3>2 DEF StandOn
  <2> QED
    BY <2>1, <2>2
<1> QED
  BY <1>6, <1>7, <1>8, <1>9 DEF RoutesFrom

\* A route put behind a way to a tile of it, from the next tile on, is a route.
LEMMA RoutesJoin ==
    ASSUME NEW from \in Tile, NEW w \in RoutesFrom(from), NEW start \in Tile,
           NEW p \in RoutesFrom(start), NEW a \in 1 .. Len(p), StandOn(from, w) = p[a]
    PROVE  w \o SubSeq(p, a + 1, Len(p)) \in RoutesFrom(from)
<1> DEFINE rest == SubSeq(p, a + 1, Len(p))
           n == Len(w)
           m == Len(p) - a
           r == w \o rest
<1>1. w \in Seq(Tile) /\ p \in Seq(Tile) /\ Chain(from, w) /\ Chain(start, p)
  BY DEF RoutesFrom
<1>2. n \in Nat /\ m \in Nat /\ Len(p) \in Nat
  BY <1>1
<1>3. Len(rest) = m /\ \A i \in 1 .. m : rest[i] = p[a + i]
  BY <1>1, CutFacts
<1>4. rest \in Seq(Tile)
  <2>1. a + 1 \in Int /\ Len(p) \in Int /\ \A i \in a + 1 .. Len(p) : p[i] \in Tile
    BY <1>1, ElementOfSeq
  <2> QED
    BY <2>1, SubSeqProperties
<1> HIDE DEF rest
<1>5. /\ r \in Seq(Tile) /\ Len(r) = n + m
      /\ \A i \in 1 .. n : r[i] = w[i]
      /\ \A i \in 1 .. m : r[n + i] = rest[i]
  <2>1. /\ r \in Seq(Tile) /\ Len(r) = n + Len(rest)
        /\ \A i \in 1 .. n : r[i] = w[i]
        /\ \A i \in 1 .. Len(rest) : r[n + i] = rest[i]
    BY <1>1, <1>4, ConcatFacts
  <2> QED
    BY <1>3, <2>1
<1> HIDE DEF r
<1>6. \A i \in 1 .. n : r[i] \in Near[Before(from, r, i)]
  <2> SUFFICES ASSUME NEW i \in 1 .. n PROVE r[i] \in Near[Before(from, r, i)]
    OBVIOUS
  <2>1. Before(from, r, i) = Before(from, w, i)
    BY <1>2, <1>5 DEF Before
  <2> QED
    BY <1>1, <1>5, <2>1 DEF Chain
<1>7. \A i \in 1 .. m : r[n + i] \in Near[Before(from, r, n + i)]
  <2> SUFFICES ASSUME NEW i \in 1 .. m PROVE r[n + i] \in Near[Before(from, r, n + i)]
    OBVIOUS
  <2>1. r[n + i] = p[a + i] /\ a + i \in 1 .. Len(p) /\ a + i # 1
    BY <1>2, <1>3, <1>5
  <2>2. p[a + i] \in Near[p[a + i - 1]]
    BY <1>1, <2>1 DEF Chain, Before
  <2>3. Before(from, r, n + i) = p[a + i - 1]
    <3>1. CASE i > 1
      <4>1. PICK k \in 1 .. m : k = i - 1
        BY <1>2, <3>1
      <4>2. n + i # 1 /\ n + i - 1 = n + k /\ a + i - 1 = a + k
        BY <1>2, <3>1, <4>1
      <4>3. r[n + k] = p[a + k]
        BY <1>3, <1>5, <4>1
      <4> QED
        BY <4>2, <4>3 DEF Before
    <3>2. CASE i = 1 /\ n = 0
      <4>1. w = <<>>
        BY <1>1, <3>2, EmptySeq
      <4>2. from = p[a]
        BY <4>1 DEF StandOn
      <4> QED
        BY <3>2, <4>2 DEF Before
    <3>3. CASE i = 1 /\ n # 0
      <4>1. w # <<>>
        BY <3>3
      <4>2. r[n] = p[a]
        BY <1>2, <1>5, <3>3, <4>1 DEF StandOn
      <4> QED
        BY <1>2, <3>3, <4>2 DEF Before
    <3> QED
      BY <3>1, <3>2, <3>3
  <2> QED
    BY <2>1, <2>2, <2>3
<1>8. ASSUME NEW i \in 1 .. n + m PROVE r[i] \in Near[Before(from, r, i)]
  <2>1. CASE i \in 1 .. n
    BY <1>6, <2>1
  <2>2. CASE i \notin 1 .. n
    <3>1. PICK k \in 1 .. m : i = n + k
      <4>1. i - n \in 1 .. m /\ i = n + (i - n)
        BY <1>2, <2>2
      <4> QED
        BY <4>1
    <3> QED
      BY <1>7, <3>1
  <2> QED
    BY <2>1, <2>2
<1> QED
  BY <1>5, <1>8 DEF RoutesFrom, Chain, r, rest

LEMMA NoRoute == ASSUME NEW from PROVE <<>> \in RoutesFrom(from)
<1>1. <<>> \in Seq(Tile) /\ Len(<<>>) = 0
  OBVIOUS
<1> QED
  BY <1>1 DEF RoutesFrom, Chain

\* A mended route is one from where the step on the wire leaves him
\* (patch_ahead plans from stepping_from and rejoins the route further on).
LEMMA MendedIsRoute ==
    ASSUME NEW from \in Tile, from = SteppingFrom', NEW p \in RoutesFrom(from),
           NEW r \in Mended(p)
    PROVE  r \in RoutesFrom(from)
<1> DEFINE open(t) == t \notin crowd \cup blocked'
           shut == {i \in 1 .. Min({PatchScan, Len(p)}) :
                       ~open(p[i]) \/ refused_edges'[<<Before(SteppingFrom', p, i), p[i]>>] > 0}
           first == Min(shut)
           ways(a) == Ways(SteppingFrom', p[a], crowd, blocked', Moves(refused_edges'))
           begin == Max({PatchScan, first + 1})
           end == Min({PatchScan + PatchAnchor, Len(p)})
           anchors == {a \in begin .. end : open(p[a]) /\ ways(a) # {}}
           anchor == Min(anchors)
<1>1. \/ r = <<>>
      \/ /\ shut # {} /\ anchors # {}
         /\ \E w \in ways(anchor) : r = w \o SubSeq(p, anchor + 1, Len(p))
  BY DEF Mended
<1>2. CASE r = <<>>
  BY <1>2, NoRoute
<1>3. CASE shut # {} /\ anchors # {} /\ \E w \in ways(anchor) : r = w \o SubSeq(p, anchor + 1, Len(p))
  <2>1. Len(p) \in Nat /\ PatchScan \in Nat /\ PatchScan + PatchAnchor \in Nat
    BY BudgetType DEF RoutesFrom
  <2>2. first \in Nat
    <3>1. shut \in SUBSET Nat
      OBVIOUS
    <3> HIDE DEF shut
    <3> QED
      BY <1>3, <3>1, LeastOfNaturals
  <2> HIDE DEF shut, first
  <2>3. begin \in Nat /\ begin >= 1
    BY <2>1, <2>2, MaxOfTwo
  <2>4. end \in Nat /\ end <= Len(p)
    BY <2>1, MinOfTwo
  <2> HIDE DEF begin, end
  <2>5. anchors \in SUBSET (1 .. Len(p))
    BY <2>1, <2>3, <2>4
  <2> HIDE DEF anchors
  <2>6. anchor \in 1 .. Len(p)
    <3>1. anchors \in SUBSET Nat
      BY <2>5
    <3> QED
      BY <1>3, <2>5, <3>1, LeastOfNaturals
  <2>7. PICK w \in ways(anchor) : r = w \o SubSeq(p, anchor + 1, Len(p))
    BY <1>3
  <2>8. w \in RoutesFrom(from) /\ StandOn(from, w) = p[anchor]
    BY <2>7, WaysAreRoutes
  <2> QED
    BY <2>6, <2>7, <2>8, RoutesJoin
<1> QED
  BY <1>1, <1>2, <1>3

-----------------------------------------------------------------------------
(* The invariant. *)

\* The walk: the step on the wire goes to a tile beside him, and the route goes
\* on from there.  Movement::refused needs the first to put the step back.
WalkInv ==
    /\ location \in Tile
    /\ asked \in Tile \cup {NoTile}
    /\ asked # NoTile => asked \in Near[location]
    /\ path \in RoutesFrom(SteppingFrom)

\* The budgets of the trip.
TripInv ==
    /\ {heading, trip_dest, last_path_fail} \subseteq Tile \cup {NoTile}
    /\ replans \in 0 .. ReplansMax
    /\ wait \in [cell : Tile \cup {NoTile}, here : Nat, trip : Nat]
    /\ wait.trip < WaitsGiveUp
    /\ wait.here <= wait.trip
MarksInv ==
    /\ blocked \subseteq Tile
    /\ refused_edges \in [Edges -> 0 .. EdgeRefusalsFirst + 1]

\* A door is only tried while an attempt on it is left, so the one that fails is
\* within the budget (DoorOpener::plan, DoorOpener::expired).
AttemptIsWithin == pending # NoAttempt => failures[pending.door] < AttemptsMax
OpenerInv ==
    /\ pending \in Attempts \cup {NoAttempt}
    /\ failures \in [Doors -> 0 .. AttemptsMax]
    /\ clicked \in [Doors -> Looks \cup {"never"}]
    /\ AttemptIsWithin
MacroInv == door_macro \in [from : Tile, tile : Tile] \cup {NoMacro}
DoorsInv ==
    /\ seen \in [Doors -> Looks]
    /\ leaf \in [Doors -> Looks]
    /\ asks \in Seq(Tile)
    /\ news \in Seq([door : Doors, look : Looks])
    /\ crowd \subseteq Tile
OrderInv ==
    /\ goal \in Tile \cup {NoTile}
    /\ given_up \in BOOLEAN
    /\ inputs \in 0 .. MaxInputs

IInv == WalkInv /\ TripInv /\ MarksInv /\ OpenerInv /\ MacroInv /\ DoorsInv /\ OrderInv

\* What leaves the variables of a part alone leaves the part alone.
LEMMA WalkStays == ASSUME WalkInv, UNCHANGED walk PROVE WalkInv'
BY DEF WalkInv, RoutesFrom, Chain, Before, SteppingFrom, walk

LEMMA TripStays ==
    ASSUME TripInv, UNCHANGED <<heading, trip_dest, replans, wait, last_path_fail>>
    PROVE  TripInv'
BY DEF TripInv

LEMMA MarksStay == ASSUME MarksInv, UNCHANGED marks PROVE MarksInv'
BY DEF MarksInv, marks

LEMMA OpenerStays == ASSUME OpenerInv, UNCHANGED opener PROVE OpenerInv'
BY DEF OpenerInv, AttemptIsWithin, opener

LEMMA MacroStays == ASSUME MacroInv, UNCHANGED door_macro PROVE MacroInv'
BY DEF MacroInv

LEMMA DoorsStay == ASSUME DoorsInv, UNCHANGED <<seen, shard, news>> PROVE DoorsInv'
BY DEF DoorsInv, shard

LEMMA OrderStays == ASSUME OrderInv, UNCHANGED <<goal, given_up, inputs>> PROVE OrderInv'
BY DEF OrderInv

LEMMA InputCounts == ASSUME inputs \in 0 .. MaxInputs, Input PROVE inputs' \in 0 .. MaxInputs
BY BudgetType DEF Input

\* The tile a step of the route is asked from, the leaf of a door, and an attempt.
LEMMA SteppingFromIsTile == ASSUME WalkInv PROVE SteppingFrom \in Tile
BY DEF WalkInv, SteppingFrom

LEMMA LeafTileIsTile == ASSUME NEW d \in Doors, NEW look PROVE LeafTile(d, look) \in Tile
BY MapType DEF LeafTile

LEMMA AttemptsAreAttempts == NoAttempt \notin Attempts /\ \A a \in Attempts : a.door \in Doors
BY MapType DEF NoAttempt, Attempts

LEMMA NoWaitIsWait ==
    /\ NoWait \in [cell : Tile \cup {NoTile}, here : Nat, trip : Nat]
    /\ NoWait.trip < WaitsGiveUp
    /\ NoWait.here <= NoWait.trip
BY BudgetType DEF NoWait

LEMMA InvAtFirst == Init => IInv
<1> SUFFICES ASSUME Init PROVE IInv
  OBVIOUS
<1>1. WalkInv
  <2>1. path \in RoutesFrom(SteppingFrom)
    BY NoRoute DEF Init
  <2> QED
    BY <2>1 DEF Init, WalkInv
<1>2. TripInv
  BY NoWaitIsWait, BudgetType DEF Init, TripInv
<1>3. MarksInv
  BY DEF Init, MarksInv, EdgeRefusalsFirst
<1>4. OpenerInv
  BY BudgetType DEF Init, OpenerInv, AttemptIsWithin
<1>5. MacroInv
  BY DEF Init, MacroInv
<1>6. DoorsInv
  BY DEF Init, DoorsInv, Looks
<1>7. OrderInv
  <2>1. goal \in Tile \cup {NoTile} /\ inputs \in 0 .. MaxInputs
    BY BudgetType DEF Init
  <2>2. given_up \in BOOLEAN
    BY Zenon DEF Init
  <2> QED
    BY <2>1, <2>2 DEF OrderInv
<1> QED
  BY <1>1, <1>2, <1>3, <1>4, <1>5, <1>6, <1>7 DEF IInv

LEMMA InvGivesTypes == IInv => TypeOK
<1> SUFFICES ASSUME IInv PROVE TypeOK
  OBVIOUS
<1>1. path \in Seq(Tile)
  BY DEF IInv, WalkInv, RoutesFrom
<1> QED
  BY <1>1 DEF IInv, WalkInv, TripInv, MarksInv, OpenerInv, MacroInv, DoorsInv, OrderInv, TypeOK

LEMMA InvGivesRoute == IInv => RouteHoldsTogether
BY DEF IInv, WalkInv, RoutesFrom, Chain, RouteHoldsTogether

-----------------------------------------------------------------------------
(* The end of a trip, and the next route of one. *)

LEMMA StoppedTrip ==
    ASSUME NEW at \in Tile, StopTheTrip(at)
    PROVE  path' \in RoutesFrom(SteppingFrom') /\ TripInv' /\ given_up' \in BOOLEAN
<1>1. path' \in RoutesFrom(SteppingFrom')
  BY NoRoute DEF StopTheTrip
<1>2. TripInv'
  BY NoWaitIsWait, BudgetType DEF StopTheTrip, TripInv
<1> QED
  BY <1>1, <1>2 DEF StopTheTrip

\* The route that is mended, or the trip that is stopped, keeps the walk whole.
LEMMA ReplannedTrip ==
    ASSUME TripInv, given_up \in BOOLEAN, location \in Tile,
           NEW from \in Tile, from = SteppingFrom', NEW p \in RoutesFrom(from),
           NEW w \in [cell : Tile \cup {NoTile}, here : Nat, trip : Nat],
           w.trip < WaitsGiveUp, w.here <= w.trip, ReplanTheRoute(p, w)
    PROVE  path' \in RoutesFrom(SteppingFrom') /\ TripInv' /\ given_up' \in BOOLEAN
<1>1. CASE CountReplan
  <2>1. path' \in RoutesFrom(SteppingFrom')
    BY <1>1, MendedIsRoute DEF ReplanTheRoute
  <2>2. TripInv'
    BY <1>1, BudgetType DEF ReplanTheRoute, CountReplan, TripInv
  <2> QED
    BY <1>1, <2>1, <2>2 DEF ReplanTheRoute
<1>2. CASE ~CountReplan
  BY <1>2, StoppedTrip DEF ReplanTheRoute
<1> QED
  BY <1>1, <1>2

-----------------------------------------------------------------------------
(* Planning. *)

\* A plan that was found is a route, and the door that goes with it may be tried.
LEMMA PlansAreRoutes ==
    ASSUME OpenerInv, NEW from \in Tile, NEW to, NEW plan \in Plans(from, to)
    PROVE  /\ plan.found => plan.steps \in RoutesFrom(from)
           /\ plan.attempt \in Attempts \cup {NoAttempt}
           /\ plan.attempt # NoAttempt => failures[plan.attempt.door] < AttemptsMax
<1> DEFINE routes == RoutesTo(from, to)
           throughs == Ways(from, to, {}, {}, {})
<1>1. \/ plan \in {[found |-> TRUE, steps |-> p, attempt |-> NoAttempt] : p \in routes}
      \/ plan = Failure
      \/ \E through \in throughs : plan \in Approaches(from, through)
  BY DEF Plans
<1>2. CASE plan \in {[found |-> TRUE, steps |-> p, attempt |-> NoAttempt] : p \in routes}
  <2>1. PICK p \in routes : plan = [found |-> TRUE, steps |-> p, attempt |-> NoAttempt]
    BY <1>2
  <2>2. p \in RoutesFrom(from)
    BY <2>1, WaysAreRoutes DEF RoutesTo
  <2> QED
    BY <2>1, <2>2
<1>3. CASE plan = Failure
  BY <1>3 DEF Failure
<1>4. ASSUME NEW through \in throughs, plan \in Approaches(from, through), plan # Failure
      PROVE  /\ plan.found => plan.steps \in RoutesFrom(from)
             /\ plan.attempt \in Attempts
             /\ failures[plan.attempt.door] < AttemptsMax
  <2> DEFINE doors == {d \in FirstDoor(through) : OpensDoors /\ MayTry(d)}
             walks == UNION {WalksTo(from, d) : d \in FirstDoor(through)}
  <2>1. PICK d \in doors, w \in walks :
           plan = [found |-> TRUE, steps |-> w,
                   attempt |-> [door |-> d, stand_on |-> StandOn(from, w), clicked |-> FALSE]]
    BY <1>4 DEF Approaches
  <2>2. d \in Doors /\ failures[d] < AttemptsMax
    BY <2>1 DEF FirstDoor, DoorOnTile, MayTry
  <2>3. w \in RoutesFrom(from)
    BY <2>1, WaysAreRoutes DEF WalksTo
  <2>4. StandOn(from, w) \in Tile
    <3>1. CASE w = <<>>
      BY <3>1 DEF StandOn
    <3>2. CASE w # <<>>
      <4>1. Len(w) \in 1 .. Len(w) /\ w \in Seq(Tile)
        BY <2>3, <3>2, EmptySeq DEF RoutesFrom
      <4> QED
        BY <3>2, <4>1, ElementOfSeq DEF StandOn
    <3> QED
      BY <3>1, <3>2
  <2> QED
    BY <2>1, <2>2, <2>3, <2>4 DEF Attempts
<1> QED
  BY <1>1, <1>2, <1>3, <1>4

\* What planning leaves of the walk, of the budgets and of the door attempt.
LEMMA PlannedTrip ==
    ASSUME WalkInv, TripInv, OpenerInv, MacroInv, NEW dest \in Tile,
           NEW plan \in Plans(SteppingFrom, dest), PlanTo(dest, plan),
           UNCHANGED <<location, asked, failures, clicked>>
    PROVE  WalkInv' /\ TripInv' /\ OpenerInv' /\ MacroInv'
<1>0. SteppingFrom \in Tile /\ SteppingFrom' = SteppingFrom
  BY SteppingFromIsTile DEF SteppingFrom
<1>1. /\ plan.found => plan.steps \in RoutesFrom(SteppingFrom)
      /\ plan.attempt \in Attempts \cup {NoAttempt}
      /\ plan.attempt # NoAttempt => failures[plan.attempt.door] < AttemptsMax
  BY <1>0, PlansAreRoutes
<1>2. path' \in RoutesFrom(SteppingFrom)
  BY <1>1 DEF PlanTo, Follow, WalkInv
<1>3. WalkInv'
  BY <1>0, <1>2 DEF WalkInv
<1>4. TripInv'
  <2>1. {heading', last_path_fail'} \subseteq Tile \cup {NoTile}
    BY DEF PlanTo, Follow, TripInv
  <2>2. /\ trip_dest' \in Tile \cup {NoTile}
        /\ replans' \in 0 .. ReplansMax
        /\ wait' \in [cell : Tile \cup {NoTile}, here : Nat, trip : Nat]
        /\ wait'.trip < WaitsGiveUp
        /\ wait'.here <= wait'.trip
    BY NoWaitIsWait, BudgetType DEF PlanTo, BeginTrip, TripInv
  <2> QED
    BY <2>1, <2>2 DEF TripInv
<1>5. OpenerInv'
  <2>1. pending' \in {plan.attempt, NoAttempt}
    BY DEF PlanTo, Follow
  <2> QED
    BY <1>1, <2>1 DEF OpenerInv, AttemptIsWithin
<1>6. MacroInv'
  BY DEF PlanTo, GiveUpTheDoor, MacroInv
<1> QED
  BY <1>3, <1>4, <1>5, <1>6

LEMMA FailedTrip ==
    ASSUME WalkInv, TripInv, OpenerInv, MacroInv, NEW dest, FailedLately(dest),
           UNCHANGED <<location, asked, failures, clicked>>
    PROVE  WalkInv' /\ TripInv' /\ OpenerInv' /\ MacroInv'
<1>1. WalkInv'
  BY WalkStays DEF FailedLately, walk
<1>2. TripInv'
  BY TripStays DEF FailedLately
<1>3. OpenerInv'
  BY DEF FailedLately, OpenerInv, AttemptIsWithin
<1>4. MacroInv'
  BY DEF FailedLately, GiveUpTheDoor, MacroInv
<1> QED
  BY <1>1, <1>2, <1>3, <1>4

LEMMA ArrivedTrip ==
    ASSUME WalkInv, TripInv, OpenerInv, MacroInv, Arrive,
           UNCHANGED <<location, asked, failures, clicked>>
    PROVE  WalkInv' /\ TripInv' /\ OpenerInv' /\ MacroInv' /\ goal' = NoTile
<1>1. WalkInv'
  BY WalkStays DEF Arrive, walk
<1>2. TripInv'
  BY DEF Arrive, TripInv
<1>3. OpenerInv'
  BY OpenerStays DEF Arrive, opener
<1>4. MacroInv'
  BY MacroStays DEF Arrive
<1> QED
  BY <1>1, <1>2, <1>3, <1>4 DEF Arrive

\* A route that could not be planned counts as planned too.
LEMMA FailurePlanned ==
    ASSUME WalkInv, TripInv, OpenerInv, MacroInv, NEW dest \in Tile,
           PlanTo(dest, Failure), UNCHANGED <<location, asked, failures, clicked>>
    PROVE  WalkInv' /\ TripInv' /\ OpenerInv' /\ MacroInv'
<1>1. ~Failure.found /\ pending' = NoAttempt
  BY DEF Failure, PlanTo, Follow
<1>2. WalkInv'
  BY <1>1, WalkStays DEF PlanTo, Follow, walk
<1>3. TripInv'
  <2>1. {heading', last_path_fail'} \subseteq Tile \cup {NoTile}
    BY <1>1 DEF PlanTo, Follow, TripInv
  <2>2. /\ trip_dest' \in Tile \cup {NoTile}
        /\ replans' \in 0 .. ReplansMax
        /\ wait' \in [cell : Tile \cup {NoTile}, here : Nat, trip : Nat]
        /\ wait'.trip < WaitsGiveUp
        /\ wait'.here <= wait'.trip
    BY NoWaitIsWait, BudgetType DEF PlanTo, BeginTrip, TripInv
  <2> QED
    BY <2>1, <2>2 DEF TripInv
<1>4. OpenerInv'
  BY <1>1 DEF OpenerInv, AttemptIsWithin
<1>5. MacroInv'
  BY DEF PlanTo, GiveUpTheDoor, MacroInv
<1> QED
  BY <1>2, <1>3, <1>4, <1>5

-----------------------------------------------------------------------------
(* The steps. *)

LEMMA MoveToKeepsInv == ASSUME IInv, MoveTo PROVE IInv'
<1> USE DEF IInv
<1>1. PICK dest \in Dests : MoveToIsOn(dest) \/ MoveToPlans(dest) \/ MoveToFails(dest)
  BY DEF MoveTo
<1>2. dest \in Tile
  BY MapType
<1>3. UNCHANGED quiet /\ given_up' = FALSE /\ Input
  BY DEF MoveTo
<1>4. UNCHANGED <<location, asked, failures, clicked>>
  BY <1>3 DEF quiet
<1>5. MarksInv' /\ DoorsInv'
  BY <1>3, MarksStay, DoorsStay DEF quiet
<1>6. WalkInv' /\ TripInv' /\ OpenerInv' /\ MacroInv' /\ goal' \in Tile \cup {NoTile}
  <2>1. CASE MoveToIsOn(dest)
    <3>1. CASE There(dest) /\ Arrive
      BY <1>4, <3>1, ArrivedTrip
    <3>2. CASE ~(There(dest) /\ Arrive)
      <4>1. /\ goal' = dest
            /\ UNCHANGED <<path, heading, trip_dest, replans, wait, last_path_fail,
                           pending, door_macro>>
        BY <2>1, <3>2 DEF MoveToIsOn
      <4> QED
        BY <1>2, <1>4, <4>1, WalkStays, TripStays, OpenerStays, MacroStays DEF walk, opener
    <3> QED
      BY <3>1, <3>2
  <2>2. CASE MoveToPlans(dest)
    <3>1. PICK plan \in Plans(SteppingFrom, dest) : PlanTo(dest, plan)
      BY <2>2 DEF MoveToPlans
    <3>2. goal' = dest
      BY <2>2 DEF MoveToPlans
    <3> QED
      BY <1>2, <1>4, <3>1, <3>2, PlannedTrip
  <2>3. CASE MoveToFails(dest)
    <3>1. CASE goal' = NoTile /\ (PlanTo(dest, Failure) \/ FailedLately(dest))
      BY <1>2, <1>4, <3>1, FailurePlanned, FailedTrip
    <3>2. ASSUME NEW spot \in Tile, goal' = spot,
                 \E plan \in Plans(SteppingFrom, spot) : PlanTo(spot, plan)
          PROVE  WalkInv' /\ TripInv' /\ OpenerInv' /\ MacroInv' /\ goal' \in Tile \cup {NoTile}
      BY <1>4, <3>2, PlannedTrip
    <3>3. ASSUME NEW spot \in Tile, goal' = dest, PlanTo(spot, Failure) \/ FailedLately(spot)
          PROVE  WalkInv' /\ TripInv' /\ OpenerInv' /\ MacroInv' /\ goal' \in Tile \cup {NoTile}
      BY <1>2, <1>4, <3>3, FailurePlanned, FailedTrip
    <3> QED
      BY <2>3, <3>1, <3>2, <3>3 DEF MoveToFails
  <2> QED
    BY <1>1, <2>1, <2>2, <2>3
<1>7. OrderInv'
  <2>1. given_up' \in BOOLEAN
    BY <1>3
  <2>2. inputs' \in 0 .. MaxInputs
    BY <1>3, InputCounts DEF OrderInv
  <2> QED
    BY <1>6, <2>1, <2>2 DEF OrderInv
<1> QED
  BY <1>5, <1>6, <1>7

LEMMA StopKeepsInv == ASSUME IInv, Stop PROVE IInv'
<1> USE DEF IInv
<1>1. UNCHANGED <<quiet, last_path_fail>>
  BY DEF Stop
<1>2. UNCHANGED <<location, asked, failures, clicked>>
  BY <1>1 DEF quiet
<1>3. MarksInv' /\ DoorsInv'
  BY <1>1, MarksStay, DoorsStay DEF quiet
<1>4. WalkInv'
  <2>1. path' \in RoutesFrom(SteppingFrom')
    BY NoRoute DEF Stop
  <2> QED
    BY <1>2, <2>1 DEF WalkInv
<1>5. TripInv'
  BY <1>1, NoWaitIsWait, BudgetType DEF Stop, TripInv
<1>6. OpenerInv'
  BY <1>2 DEF Stop, OpenerInv, AttemptIsWithin
<1>7. MacroInv'
  BY DEF Stop, MacroInv
<1>8. OrderInv'
  <2>1. goal' = NoTile /\ given_up' = FALSE /\ inputs' \in 0 .. MaxInputs
    BY InputCounts DEF Stop, OrderInv
  <2> QED
    BY <2>1 DEF OrderInv
<1> QED
  BY <1>3, <1>4, <1>5, <1>6, <1>7, <1>8

LEMMA QueueTheGoalKeepsInv == ASSUME IInv, QueueTheGoal PROVE IInv'
<1> USE DEF IInv
<1>1. UNCHANGED <<quiet, given_up, inputs>> /\ goal \in Tile
  BY DEF QueueTheGoal, OrderInv
<1>2. UNCHANGED <<location, asked, failures, clicked>>
  BY <1>1 DEF quiet
<1>3. MarksInv' /\ DoorsInv'
  BY <1>1, MarksStay, DoorsStay DEF quiet
<1>4. WalkInv' /\ TripInv' /\ OpenerInv' /\ MacroInv' /\ goal' \in {goal, NoTile}
  <2>1. CASE There(goal) /\ Arrive
    BY <1>2, <2>1, ArrivedTrip
  <2>2. CASE UNCHANGED goal /\ \E plan \in Plans(SteppingFrom, goal) : PlanTo(goal, plan)
    BY <1>1, <1>2, <2>2, PlannedTrip
  <2>3. CASE UNCHANGED goal /\ FailedLately(goal)
    BY <1>2, <2>3, FailedTrip
  <2> QED
    BY <2>1, <2>2, <2>3 DEF QueueTheGoal
<1>5. OrderInv'
  BY <1>1, <1>4 DEF OrderInv
<1> QED
  BY <1>3, <1>4, <1>5

LEMMA ArrivedKeepsInv == ASSUME IInv, Arrived PROVE IInv'
<1> USE DEF IInv
<1>1. UNCHANGED <<quiet, given_up, inputs>>
  BY DEF Arrived
<1>2. UNCHANGED <<location, asked, failures, clicked>>
  BY <1>1 DEF quiet
<1>3. MarksInv' /\ DoorsInv'
  BY <1>1, MarksStay, DoorsStay DEF quiet
<1>4. WalkInv' /\ TripInv' /\ OpenerInv' /\ MacroInv' /\ goal' = NoTile
  BY <1>2, ArrivedTrip DEF Arrived
<1>5. OrderInv'
  BY <1>1, <1>4 DEF OrderInv
<1> QED
  BY <1>3, <1>4, <1>5

\* The step that goes out is beside him, and the rest of the route goes on from
\* its tile.
LEMMA SendStepKeepsInv == ASSUME IInv, SendStep PROVE IInv'
<1> USE DEF IInv
<1>1. UNCHANGED <<location, trip, marks, opener, door_macro, seen, shard, news, given_up, inputs>>
  BY DEF SendStep
<1>2. TripInv' /\ MarksInv' /\ OpenerInv' /\ MacroInv' /\ DoorsInv' /\ OrderInv'
  BY <1>1, TripStays, MarksStay, OpenerStays, MacroStays, DoorsStay, OrderStays DEF trip
<1>3. WalkInv'
  <2>1. /\ path \in Seq(Tile) /\ path # <<>> /\ Chain(location, path)
        /\ asked = NoTile /\ location \in Tile
    BY DEF SendStep, WalkInv, RoutesFrom, SteppingFrom
  <2>2. /\ Len(path) \in Nat \ {0} /\ Head(path) = path[1] /\ path[1] \in Tile
        /\ Tail(path) \in Seq(Tile) /\ Len(Tail(path)) = Len(path) - 1
        /\ \A i \in 1 .. Len(path) - 1 : Tail(path)[i] = path[i + 1]
    BY <2>1, TailFacts
  <2>3. asked' = path[1] /\ path' = Tail(path) /\ location' = location
    BY <2>2 DEF SendStep
  <2>4. path[1] \in Near[location]
    BY <2>1, <2>2 DEF Chain, Before
  <2>5. asked' # NoTile /\ SteppingFrom' = path[1]
    BY <2>2, <2>3, MapType DEF SteppingFrom
  <2> DEFINE rest == Tail(path)
  <2>6. Chain(path[1], rest)
    <3> SUFFICES ASSUME NEW i \in 1 .. Len(path) - 1
                 PROVE  rest[i] \in Near[Before(path[1], rest, i)]
      BY <2>2 DEF Chain
    <3>1. i + 1 \in 1 .. Len(path) /\ i + 1 # 1 /\ i + 1 - 1 = i
      BY <2>2
    <3>2. path[i + 1] \in Near[path[i]]
      BY <2>1, <3>1 DEF Chain, Before
    <3>3. Before(path[1], rest, i) = path[i]
      <4>1. CASE i = 1
        BY <4>1 DEF Before
      <4>2. CASE i # 1
        <5>1. PICK k \in 1 .. Len(path) - 1 : k = i - 1
          BY <2>2, <4>2
        <5>2. rest[k] = path[k + 1] /\ k + 1 = i
          BY <2>2, <5>1
        <5> QED
          BY <4>2, <5>1, <5>2 DEF Before
      <4> QED
        BY <4>1, <4>2
    <3> QED
      BY <2>2, <3>2, <3>3
  <2>7. path' \in RoutesFrom(SteppingFrom')
    BY <2>2, <2>3, <2>5, <2>6 DEF RoutesFrom
  <2> QED
    BY <2>1, <2>2, <2>3, <2>4, <2>7 DEF WalkInv
<1> QED
  BY <1>2, <1>3

LEMMA PathFailWaitEndsKeepsInv == ASSUME IInv, PathFailWaitEnds PROVE IInv'
<1> USE DEF IInv
<1>1. WalkInv' /\ MarksInv' /\ OpenerInv' /\ MacroInv' /\ DoorsInv' /\ OrderInv'
  BY WalkStays, MarksStay, OpenerStays, MacroStays, DoorsStay, OrderStays DEF PathFailWaitEnds
<1>2. TripInv'
  BY DEF PathFailWaitEnds, TripInv
<1> QED
  BY <1>1, <1>2

LEMMA InputKeepsOrder ==
    ASSUME OrderInv, Input, UNCHANGED <<goal, given_up>>
    PROVE  OrderInv'
BY InputCounts DEF OrderInv

LEMMA ForgetKeepsInv == ASSUME IInv, Forget PROVE IInv'
<1> USE DEF IInv
<1>1. WalkInv' /\ TripInv' /\ OpenerInv' /\ MacroInv' /\ DoorsInv' /\ OrderInv'
  BY WalkStays, TripStays, OpenerStays, MacroStays, DoorsStay, InputKeepsOrder DEF Forget, trip
<1>2. MarksInv'
  <2>1. CASE \E t \in blocked : blocked' = blocked \ {t} /\ UNCHANGED refused_edges
    BY <2>1 DEF MarksInv
  <2>2. CASE UNCHANGED blocked /\ \E e \in Moves(refused_edges) :
                refused_edges' = [refused_edges EXCEPT ![e] = 0]
    BY <2>2 DEF MarksInv, Moves, EdgeRefusalsFirst
  <2> QED
    BY <2>1, <2>2 DEF Forget
<1> QED
  BY <1>1, <1>2

\* An attempt that is spent fails its door, and the budget had one left for it.
LEMMA DoorExpiredKeepsInv == ASSUME IInv, DoorExpired PROVE IInv'
<1> USE DEF IInv
<1>1. WalkInv' /\ TripInv' /\ MarksInv' /\ MacroInv' /\ DoorsInv'
  BY WalkStays, TripStays, MarksStay, MacroStays, DoorsStay DEF DoorExpired, trip
<1>2. OrderInv'
  BY InputKeepsOrder, OrderStays DEF DoorExpired, trip
<1>3. OpenerInv'
  <2>1. pending \in Attempts /\ pending.door \in Doors /\ failures[pending.door] < AttemptsMax
    BY AttemptsAreAttempts DEF DoorExpired, OpenerInv, AttemptIsWithin
  <2>2. failures' \in [Doors -> 0 .. AttemptsMax]
    BY <2>1, BudgetType DEF DoorExpired, OpenerInv
  <2> QED
    BY <2>2 DEF DoorExpired, OpenerInv, AttemptIsWithin
<1> QED
  BY <1>1, <1>2, <1>3

LEMMA PumpDoorsKeepsInv == ASSUME IInv, PumpDoors PROVE IInv'
<1> USE DEF IInv
<1>1. WalkInv' /\ TripInv' /\ MarksInv' /\ OrderInv'
  BY WalkStays, TripStays, MarksStay, OrderStays DEF PumpDoors, trip
<1>2. Owed \in [from : Tile, tile : Tile]
  <2>1. CASE DoorDue
    <3>1. pending.door \in Doors
      BY <2>1, AttemptsAreAttempts DEF DoorDue, OpenerInv
    <3>2. LeafTile(pending.door, seen[pending.door]) \in Tile
      BY <3>1, LeafTileIsTile
    <3> QED
      BY <2>1, <3>2 DEF Owed, WalkInv
  <2>2. CASE ~DoorDue
    BY <2>2 DEF PumpDoors, Owed, MacroInv
  <2> QED
    BY <2>1, <2>2
<1>3. UNCHANGED <<failures, seen, leaf, crowd, news>>
  BY DEF PumpDoors
<1>4. CASE MacroLeaves
  <2>1. MacroInv'
    BY <1>4 DEF MacroLeaves, MacroInv
  <2>2. asks' \in Seq(Tile)
    BY <1>2, <1>4 DEF MacroLeaves, DoorsInv
  <2>3. DoorsInv'
    BY <1>3, <2>2 DEF DoorsInv
  <2>4. OpenerInv'
    <3>1. CASE DoorDue
      <4>1. pending \in Attempts /\ failures[pending.door] < AttemptsMax
        BY <3>1 DEF DoorDue, OpenerInv, AttemptIsWithin
      <4>2. pending' \in Attempts /\ pending'.door = pending.door
        BY <1>4, <3>1, <4>1 DEF MacroLeaves, Attempts
      <4>3. clicked' \in [Doors -> Looks \cup {"never"}]
        BY <1>4, <3>1, <4>1, AttemptsAreAttempts DEF MacroLeaves, OpenerInv, DoorsInv
      <4> QED
        BY <1>3, <4>1, <4>2, <4>3 DEF OpenerInv, AttemptIsWithin
    <3>2. CASE ~DoorDue
      BY <1>3, <1>4, <3>2, OpenerStays DEF MacroLeaves, opener
    <3> QED
      BY <3>1, <3>2
  <2> QED
    BY <1>1, <2>1, <2>3, <2>4
<1>5. CASE /\ door_macro' = (IF Owed.from = location THEN Owed ELSE NoMacro)
           /\ UNCHANGED <<pending, clicked, asks>>
  <2>1. MacroInv'
    BY <1>2, <1>5 DEF MacroInv
  <2>2. DoorsInv'
    BY <1>3, <1>5, DoorsStay DEF shard
  <2>3. OpenerInv'
    BY <1>3, <1>5, OpenerStays DEF opener
  <2> QED
    BY <1>1, <2>1, <2>2, <2>3
<1> QED
  BY <1>4, <1>5 DEF PumpDoors

LEMMA OpenDoorKeepsInv == ASSUME IInv, OpenDoor PROVE IInv'
<1> USE DEF IInv
<1>1. WalkInv' /\ TripInv' /\ MarksInv' /\ OpenerInv' /\ DoorsInv' /\ OrderInv'
  BY WalkStays, TripStays, MarksStay, OpenerStays, DoorsStay, InputKeepsOrder DEF OpenDoor, trip
<1>2. MacroInv'
  BY LeafTileIsTile DEF OpenDoor, MacroInv, WalkInv
<1> QED
  BY <1>1, <1>2

\* A door that answers ends its attempt with a new route, and he may be on his
\* way to the tile of a step all the while: the route is mended from there.
LEMMA DoorPacketKeepsInv == ASSUME IInv, DoorPacket PROVE IInv'
<1> USE DEF IInv
<1> DEFINE d == Head(news).door
           look == Head(news).look
<1>1. UNCHANGED <<location, asked, goal, marks, clicked, door_macro, shard, inputs>>
  BY DEF DoorPacket
<1>2. /\ news # <<>> /\ news' = Tail(news)
      /\ Head(news) \in [door : Doors, look : Looks]
      /\ Tail(news) \in Seq([door : Doors, look : Looks])
  <2> DEFINE packets == [door : Doors, look : Looks]
  <2>1. news \in Seq(packets) /\ news # <<>> /\ news' = Tail(news)
    BY DEF DoorPacket, DoorsInv
  <2> HIDE DEF packets
  <2>2. Head(news) \in packets /\ Tail(news) \in Seq(packets)
    BY <2>1, TailFacts
  <2> QED
    BY <2>1, <2>2 DEF packets
<1>3. d \in Doors /\ look \in Looks
  BY <1>2
<1>4. seen' = [seen EXCEPT ![d] = look]
  BY DEF DoorPacket
<1>5. SteppingFrom' = SteppingFrom /\ SteppingFrom \in Tile
  BY <1>1, SteppingFromIsTile DEF SteppingFrom
<1>6. MarksInv' /\ MacroInv'
  BY <1>1, MarksStay, MacroStays
<1>7. DoorsInv'
  BY <1>1, <1>2, <1>3, <1>4 DEF DoorsInv, shard
<1>8. CASE UNCHANGED <<failures, pending, path, replans, wait, heading,
                       trip_dest, last_path_fail, given_up>>
  <2>1. WalkInv' /\ TripInv' /\ OpenerInv' /\ OrderInv'
    BY <1>1, <1>8, WalkStays, TripStays, OpenerStays, OrderStays DEF walk, opener
  <2> QED
    BY <1>6, <1>7, <2>1
<1>9. CASE /\ failures' = [failures EXCEPT ![d] = 0]
           /\ \/ pending.door = d /\ pending' = NoAttempt /\ ReplanTheRoute(path, wait)
              \/ pending.door # d /\ UNCHANGED <<pending, path, replans, wait, heading,
                                               trip_dest, last_path_fail, given_up>>
  <2>1. failures' \in [Doors -> 0 .. AttemptsMax]
    BY <1>3, <1>9, BudgetType DEF OpenerInv
  <2>2. CASE pending.door = d /\ pending' = NoAttempt /\ ReplanTheRoute(path, wait)
    <3>1. /\ location \in Tile /\ path \in RoutesFrom(SteppingFrom)
          /\ wait \in [cell : Tile \cup {NoTile}, here : Nat, trip : Nat]
          /\ wait.trip < WaitsGiveUp /\ wait.here <= wait.trip /\ given_up \in BOOLEAN
      BY DEF WalkInv, TripInv, OrderInv
    <3>2. path' \in RoutesFrom(SteppingFrom') /\ TripInv' /\ given_up' \in BOOLEAN
      <4>1. ReplanTheRoute(path, wait)
        BY <2>2
      <4> QED
        BY <1>5, <3>1, <4>1, ReplannedTrip
    <3>3. WalkInv'
      BY <1>1, <3>2 DEF WalkInv
    <3>4. OpenerInv'
      BY <1>1, <2>1, <2>2 DEF OpenerInv, AttemptIsWithin
    <3>5. OrderInv'
      BY <1>1, <3>2 DEF OrderInv
    <3> QED
      BY <1>6, <1>7, <3>2, <3>3, <3>4, <3>5
  <2>3. CASE pending.door # d /\ UNCHANGED <<pending, path, replans, wait, heading,
                                             trip_dest, last_path_fail, given_up>>
    <3>1. WalkInv' /\ TripInv' /\ OrderInv'
      BY <1>1, <2>3, WalkStays, TripStays, OrderStays DEF walk
    <3>2. AttemptIsWithin'
      <4>1. CASE pending = NoAttempt
        BY <2>3, <4>1 DEF AttemptIsWithin
      <4>2. CASE pending # NoAttempt
        <5>1. pending.door \in Doors
          BY <4>2, AttemptsAreAttempts DEF OpenerInv
        <5>2. failures'[pending.door] = failures[pending.door]
          BY <1>9, <2>3, <5>1 DEF OpenerInv
        <5> QED
          BY <2>3, <5>2 DEF OpenerInv, AttemptIsWithin
      <4> QED
        BY <4>1, <4>2
    <3>3. OpenerInv'
      BY <1>1, <2>1, <2>3, <3>2 DEF OpenerInv
    <3> QED
      BY <1>6, <1>7, <3>1, <3>3
  <2> QED
    BY <1>9, <2>2, <2>3
<1> QED
  BY <1>8, <1>9 DEF DoorPacket

-----------------------------------------------------------------------------
(* The answers to a step. *)

LEMMA RememberedIsTile ==
    ASSUME blocked \subseteq Tile, NEW t \in Tile, Remember(t)
    PROVE  blocked' \subseteq Tile
BY DEF Remember

\* The step that was refused is put back: it is beside him, and the route goes on
\* from its tile.
LEMMA RequeuedIsRoute ==
    ASSUME WalkInv, asked # NoTile
    PROVE  Requeued \in RoutesFrom(location)
<1>1. /\ asked \in Tile /\ asked \in Near[location]
      /\ path \in Seq(Tile) /\ Chain(asked, path)
  BY DEF WalkInv, RoutesFrom, SteppingFrom
<1> DEFINE one == <<asked>>
           n == Len(path)
<1>2. one \in Seq(Tile) /\ Len(one) = 1 /\ one[1] = asked /\ n \in Nat
  BY <1>1
<1> HIDE DEF one
<1>3. /\ one \o path \in Seq(Tile) /\ Len(one \o path) = Len(one) + n
      /\ \A i \in 1 .. Len(one) : (one \o path)[i] = one[i]
      /\ \A i \in 1 .. n : (one \o path)[Len(one) + i] = path[i]
  BY <1>1, <1>2, ConcatFacts
<1> DEFINE r == Requeued
<1>4. /\ r \in Seq(Tile) /\ Len(r) = 1 + n /\ r[1] = asked
      /\ \A i \in 1 .. n : r[1 + i] = path[i]
  BY <1>2, <1>3 DEF Requeued, one
<1> HIDE DEF r, n
<1>5. ASSUME NEW i \in 1 .. 1 + n
      PROVE  r[i] \in Near[Before(location, r, i)]
  <2>1. CASE i = 1
    BY <1>1, <1>4, <2>1 DEF Before
  <2>2. CASE i # 1
    <3>1. PICK k \in 1 .. n : i = 1 + k
      <4>1. i - 1 \in 1 .. n /\ i = 1 + (i - 1)
        BY <1>2, <2>2
      <4> QED
        BY <4>1
    <3>2. r[i] = path[k] /\ path[k] \in Near[Before(asked, path, k)]
      BY <1>1, <1>4, <3>1 DEF Chain, n
    <3>3. Before(location, r, i) = Before(asked, path, k)
      <4>1. CASE k = 1
        BY <1>4, <3>1, <4>1 DEF Before
      <4>2. CASE k # 1
        <5>1. PICK j \in 1 .. n : j = k - 1
          BY <1>2, <3>1, <4>2
        <5>2. r[1 + j] = path[j] /\ i - 1 = 1 + j
          BY <1>2, <1>4, <3>1, <5>1
        <5> QED
          BY <2>2, <4>2, <5>1, <5>2 DEF Before
      <4> QED
        BY <4>1, <4>2
    <3> QED
      BY <3>2, <3>3
  <2> QED
    BY <2>1, <2>2
<1> QED
  BY <1>4, <1>5 DEF RoutesFrom, Chain, r

LEMMA ConfirmedKeepsInv ==
    ASSUME WalkInv, TripInv, MarksInv, OpenerInv, MacroInv, given_up \in BOOLEAN,
           asked # NoTile, Confirmed
    PROVE  /\ WalkInv' /\ TripInv' /\ MarksInv' /\ OpenerInv' /\ MacroInv'
           /\ given_up' \in BOOLEAN /\ goal' = goal
<1>1. SteppingFrom' = SteppingFrom /\ path' = path
  BY DEF Confirmed, SteppingFrom
<1>2. WalkInv'
  BY <1>1 DEF Confirmed, WalkInv, RoutesFrom
<1>3. TripInv' /\ OpenerInv' /\ MacroInv'
  BY TripStays, OpenerStays, MacroStays DEF Confirmed, trip
<1>4. MarksInv'
  BY DEF Confirmed, MarksInv
<1>5. given_up' \in BOOLEAN /\ goal' = goal
  BY DEF Confirmed, trip
<1> QED
  BY <1>2, <1>3, <1>4, <1>5

\* The ladder: on every rung the step goes back to the head of a route from where
\* he stands, and the counts stay within their limits.
LEMMA LadderKeepsInv ==
    ASSUME WalkInv, TripInv, MarksInv, OpenerInv, MacroInv, given_up \in BOOLEAN,
           asked # NoTile, NEW tired \in BOOLEAN, Ladder(tired)
    PROVE  /\ WalkInv' /\ TripInv' /\ MarksInv' /\ OpenerInv' /\ MacroInv'
           /\ given_up' \in BOOLEAN /\ goal' = goal
<1>1. asked' = NoTile /\ UNCHANGED <<location, goal, opener>>
  BY DEF Ladder
<1>2. SteppingFrom' = location /\ location \in Tile /\ asked \in Tile
  BY <1>1 DEF SteppingFrom, WalkInv
<1>3. Requeued \in RoutesFrom(location)
  BY RequeuedIsRoute
<1>4. OpenerInv'
  BY <1>1, OpenerStays
<1>5. /\ wait \in [cell : Tile \cup {NoTile}, here : Nat, trip : Nat]
      /\ wait.trip < WaitsGiveUp /\ wait.here <= wait.trip
  BY DEF TripInv
<1>6. ASSUME NEW w \in [cell : Tile \cup {NoTile}, here : Nat, trip : Nat],
             w.trip < WaitsGiveUp, w.here <= w.trip, ReplanTheRoute(Requeued, w)
      PROVE  path' \in RoutesFrom(SteppingFrom') /\ TripInv' /\ given_up' \in BOOLEAN
  BY <1>2, <1>3, <1>6, ReplannedTrip
<1>7. Refuse \in [Edges -> 0 .. EdgeRefusalsFirst + 1]
  <2>1. Crossing \in Edges
    BY <1>2 DEF Crossing, Edges
  <2>2. refused_edges[Crossing] \in 0 .. 2
    BY <2>1 DEF MarksInv, EdgeRefusalsFirst
  <2> DEFINE count == refused_edges[Crossing]
  <2>3. Min({count + 1, 2}) \in 0 .. 2
    <3>1. count + 1 \in Nat /\ 2 \in Nat
      BY <2>2
    <3> HIDE DEF count
    <3> QED
      BY <3>1, MinOfTwo
  <2> QED
    BY <2>1, <2>3 DEF Refuse, MarksInv, EdgeRefusalsFirst
<1>8. /\ path' \in RoutesFrom(SteppingFrom') /\ TripInv' /\ given_up' \in BOOLEAN
      /\ MarksInv' /\ MacroInv'
  <2>1. CASE Fatigued
    BY <1>5, <1>6, <2>1, MarksStay, MacroStays DEF Fatigued
  <2>2. CASE SomebodyInTheWay
    <3>1. /\ WaitedAt \in [cell : Tile \cup {NoTile}, here : Nat, trip : Nat]
          /\ WaitedAt.here <= WaitedAt.trip
      BY <1>2, <1>5 DEF WaitedAt
    <3>2. MacroInv'
      BY <2>2, MacroStays DEF SomebodyInTheWay
    <3>3. CASE WaitedAt.trip >= WaitsGiveUp
      BY <1>2, <2>2, <3>2, <3>3, StoppedTrip, MarksStay DEF SomebodyInTheWay
    <3>4. CASE ~(WaitedAt.trip >= WaitsGiveUp) /\ WaitedAt.here >= WaitsBlockCell
      <4>1. Remember(asked) /\ UNCHANGED refused_edges /\ ReplanTheRoute(Requeued, WaitedOut)
        BY <2>2, <3>4 DEF SomebodyInTheWay
      <4>2. MarksInv'
        BY <1>2, <4>1, RememberedIsTile DEF MarksInv
      <4>3. /\ WaitedOut \in [cell : Tile \cup {NoTile}, here : Nat, trip : Nat]
            /\ WaitedOut.trip = WaitedAt.trip /\ WaitedOut.here = 0
        BY <3>1 DEF WaitedOut
      <4>4. WaitedOut.trip < WaitsGiveUp /\ WaitedOut.here <= WaitedOut.trip
        BY <3>1, <3>4, <4>3, BudgetType
      <4> QED
        BY <1>6, <3>2, <4>1, <4>2, <4>3, <4>4
    <3>5. CASE ~(WaitedAt.trip >= WaitsGiveUp) /\ ~(WaitedAt.here >= WaitsBlockCell)
      <4>1. UNCHANGED marks /\ ReplanTheRoute(Requeued, WaitedAt)
        BY <2>2, <3>5 DEF SomebodyInTheWay
      <4>2. WaitedAt.trip < WaitsGiveUp
        BY <3>1, <3>5, BudgetType
      <4> QED
        BY <1>6, <3>1, <3>2, <4>1, <4>2, MarksStay
    <3> QED
      BY <3>3, <3>4, <3>5
  <2>3. CASE TryTheDoor
    <3>1. path' \in RoutesFrom(SteppingFrom')
      BY <1>2, <1>3, <2>3 DEF TryTheDoor
    <3>2. TripInv' /\ given_up' \in BOOLEAN
      BY <2>3, TripStays DEF TryTheDoor
    <3>3. MarksInv'
      BY <1>7, <2>3 DEF TryTheDoor, MarksInv
    <3>4. MacroInv'
      BY <1>2, <2>3 DEF TryTheDoor, MacroInv
    <3> QED
      BY <3>1, <3>2, <3>3, <3>4
  <2>4. CASE ShutWay
    <3>1. ReplanTheRoute(Requeued, wait) /\ UNCHANGED door_macro
      BY <2>4 DEF ShutWay
    <3>2. blocked' \subseteq Tile
      BY <1>2, <2>4, RememberedIsTile DEF ShutWay, MarksInv
    <3>3. MarksInv'
      BY <1>7, <2>4, <3>2 DEF ShutWay, MarksInv
    <3> QED
      BY <1>5, <1>6, <3>1, <3>3, MacroStays
  <2> QED
    BY <2>1, <2>2, <2>3, <2>4 DEF Ladder
<1>9. WalkInv'
  BY <1>1, <1>2, <1>8 DEF WalkInv
<1> QED
  BY <1>1, <1>4, <1>8, <1>9

LEMMA StepAnsweredKeepsInv == ASSUME IInv, StepAnswered PROVE IInv'
<1> USE DEF IInv
<1>1. asked # NoTile /\ UNCHANGED <<seen, shard, news>> /\ given_up \in BOOLEAN
  BY DEF StepAnswered, OrderInv
<1>2. DoorsInv'
  BY <1>1, DoorsStay
<1>3. Confirmed \/ Ladder(FALSE) \/ Ladder(TRUE)
  BY DEF StepAnswered
<1>4. inputs' \in 0 .. MaxInputs
  BY InputCounts DEF StepAnswered, OrderInv
<1>5. /\ WalkInv' /\ TripInv' /\ MarksInv' /\ OpenerInv' /\ MacroInv'
      /\ given_up' \in BOOLEAN /\ goal' = goal
  <2>1. CASE Confirmed
    BY <1>1, <2>1, ConfirmedKeepsInv
  <2>2. CASE Ladder(FALSE)
    BY <1>1, <2>2, LadderKeepsInv
  <2>3. CASE Ladder(TRUE)
    BY <1>1, <2>3, LadderKeepsInv
  <2> QED
    BY <1>3, <2>1, <2>2, <2>3
<1>6. OrderInv'
  BY <1>4, <1>5 DEF OrderInv
<1> QED
  BY <1>2, <1>5, <1>6

-----------------------------------------------------------------------------
(* The shard. *)

LEMMA SwungDoor ==
    ASSUME DoorsInv, NEW d \in Doors, Swing(d)
    PROVE  leaf' \in [Doors -> Looks] /\ news' \in Seq([door : Doors, look : Looks])
BY DEF Swing, DoorsInv, Looks

LEMMA ShardTakesMacroKeepsInv == ASSUME IInv, ShardTakesMacro PROVE IInv'
<1> USE DEF IInv
<1>1. WalkInv' /\ TripInv' /\ MarksInv' /\ OpenerInv' /\ MacroInv' /\ OrderInv'
  BY WalkStays, TripStays, MarksStay, OpenerStays, MacroStays, OrderStays
     DEF ShardTakesMacro, trip
<1>2. asks' \in Seq(Tile) /\ UNCHANGED <<seen, crowd>>
  BY TailFacts DEF ShardTakesMacro, DoorsInv
<1>3. leaf' \in [Doors -> Looks] /\ news' \in Seq([door : Doors, look : Looks])
  <2>1. UNCHANGED <<leaf, news>> \/ \E d \in Doors : Swing(d)
    BY DEF ShardTakesMacro
  <2>2. CASE UNCHANGED <<leaf, news>>
    BY <2>2 DEF DoorsInv
  <2> QED
    BY <2>1, <2>2, SwungDoor
<1>4. DoorsInv'
  BY <1>2, <1>3 DEF DoorsInv
<1> QED
  BY <1>1, <1>4

LEMMA SomebodySwingsKeepsInv == ASSUME IInv, SomebodySwings PROVE IInv'
<1> USE DEF IInv
<1>1. WalkInv' /\ TripInv' /\ MarksInv' /\ OpenerInv' /\ MacroInv' /\ OrderInv'
  BY WalkStays, TripStays, MarksStay, OpenerStays, MacroStays, InputKeepsOrder
     DEF SomebodySwings, trip
<1>2. PICK d \in Doors : Swing(d)
  BY DEF SomebodySwings
<1>3. DoorsInv'
  BY <1>2, SwungDoor DEF SomebodySwings, DoorsInv
<1> QED
  BY <1>1, <1>3

LEMMA SomebodyMovesKeepsInv == ASSUME IInv, SomebodyMoves PROVE IInv'
<1> USE DEF IInv
<1>1. WalkInv' /\ TripInv' /\ MarksInv' /\ OpenerInv' /\ MacroInv' /\ OrderInv'
  BY WalkStays, TripStays, MarksStay, OpenerStays, MacroStays, InputKeepsOrder
     DEF SomebodyMoves, trip
<1>2. DoorsInv'
  BY DEF SomebodyMoves, DoorsInv
<1> QED
  BY <1>1, <1>2

LEMMA InvStays == IInv /\ [Next]_vars => IInv'
<1> SUFFICES ASSUME IInv, [Next]_vars PROVE IInv'
  OBVIOUS
<1>1. CASE UNCHANGED vars
  BY <1>1, WalkStays, TripStays, MarksStay, OpenerStays, MacroStays, DoorsStay, OrderStays
     DEF vars, trip, IInv
<1>2. CASE Next
  BY <1>2, MoveToKeepsInv, StopKeepsInv, QueueTheGoalKeepsInv, ArrivedKeepsInv,
     SendStepKeepsInv, PathFailWaitEndsKeepsInv, ForgetKeepsInv, DoorExpiredKeepsInv,
     PumpDoorsKeepsInv, OpenDoorKeepsInv, DoorPacketKeepsInv, StepAnsweredKeepsInv,
     ShardTakesMacroKeepsInv, SomebodySwingsKeepsInv, SomebodyMovesKeepsInv DEF Next
<1> QED
  BY <1>1, <1>2

-----------------------------------------------------------------------------
(* The theorems. *)

\* Every step of the program keeps the invariant.
THEOREM TripInvHolds == Spec => []IInv
<1> QED
  BY InvAtFirst, InvStays, PTL DEF Spec

\* The variables of a trip have their types, and the budgets of its waits, of its
\* replans and of its doors are never passed (TypeOK of Trip).
THEOREM TripTypeCorrect == Spec => []TypeOK
BY TripInvHolds, InvGivesTypes, PTL

\* The route goes on from where the step on the wire leaves him, tile by tile,
\* through refusals, patches, doors and new goals (RouteHoldsTogether of Trip).
THEOREM TripRouteHoldsTogether == Spec => []RouteHoldsTogether
BY TripInvHolds, InvGivesRoute, PTL
=============================================================================
