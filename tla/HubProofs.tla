------------------------------ MODULE HubProofs ------------------------------
(***************************************************************************)
(* What holds of Hub for every number of callers, links and acts: what the *)
(* table holds is somebody's, and the acts of a session take turns.        *)
(***************************************************************************)
EXTENDS Hub, FiniteSetTheorems, SequenceTheorems, TLAPS

-----------------------------------------------------------------------------
(* Callers and the table. *)

RegistryTypes ==
    /\ task \in [Caller -> Stage] /\ named \in [Caller -> BOOLEAN]
    /\ sent \in [Caller -> Request \cup {"none"}]
    /\ question \in [Caller -> {"none", "queued", "open"}]
    /\ reply \in [Caller -> Reply]
    /\ result \in [Caller -> {"none", "ok", "failed"}]
    /\ registered \in SUBSET Caller
    /\ stopping \in [Caller -> {"no", "asked", "untold", "sent", "cut"}]
    /\ inputs \in 0..MaxInputs

LoginTypes ==
    /\ link \in [Caller -> {"off", "first", "connecting", "telling", "done"}]
    /\ page \in [Caller -> {"here", "gone"}] /\ here \in [Caller -> BOOLEAN]
    /\ told \in [Caller -> {"no", "ready", "failed"}]

\* A question and its answer belong to a login that waits for them.
Asks(c) ==
    /\ reply[c] # "none" => Asking(c) /\ question[c] = "none"
    /\ question[c] # "none" => Asking(c) /\ c \in Screen
    /\ question[c] = "open" => here[c]

\* A session is in the table between its caller's insert and its stop, and its
\* caller has still to tell of it or has told.
Kept(c) ==
    /\ result[c] = "ok" => task[c] \in {"playing", "ended"}
    /\ link[c] \in {"off", "first"} => task[c] = "none" /\ result[c] = "none"
    /\ c \in registered =>
        /\ result[c] = "ok" /\ stopping[c] = "no"
        /\ link[c] = "telling" \/ (link[c] = "done" /\ told[c] = "ready")
    /\ stopping[c] # "no" => result[c] = "ok" /\ link[c] \in {"telling", "done"}

TableInv ==
    /\ RegistryTypes /\ LoginTypes
    /\ \A c \in Caller : Asks(c) /\ Kept(c)

LEMMA TableAtFirst == Init => TableInv
BY RegistrySizes
DEF Init, RegistryInit, LoginInit, TableInv, RegistryTypes, LoginTypes, Asks, Kept, Stage, Reply

USE RegistrySizes

LEMMA InputIsCounted ==
    ASSUME inputs \in 0..MaxInputs, Input
    PROVE  inputs' \in 0..MaxInputs
BY DEF Input

LEMMA TaskStepsKeepTheTable ==
    ASSUME TableInv, NEW c \in Caller, TaskSteps(c), UNCHANGED callerVars
    PROVE  TableInv'
<1> USE DEF TableInv, RegistryTypes, LoginTypes, Asks, Kept, callerVars, loginVars,
            Asking, Reading, Stage, Request, Reply
<1>1. CASE ServerList(c)
  BY <1>1 DEF ServerList, AskScreen
<1>2. CASE CharacterList(c)
  BY <1>2 DEF CharacterList, AskScreen, PlaysAsNamed, Input
<1>3. CASE Answered(c)
  BY <1>3 DEF Answered
<1>4. CASE Fails(c)
  BY <1>4 DEF Fails
<1>5. CASE Enters(c)
  BY <1>5 DEF Enters
<1> QED BY <1>1, <1>2, <1>3, <1>4, <1>5 DEF TaskSteps

LEMMA TaskEndsKeepTheTable ==
    ASSUME TableInv, NEW c \in Caller, UNCHANGED callerVars,
           \/ TaskEnds(c) \/ SendShutdown(c) \/ Disconnect(c) \/ StopCut(c)
           \/ EndsByItself(c)
    PROVE  TableInv'
<1> USE DEF TableInv, RegistryTypes, LoginTypes, Asks, Kept, callerVars, loginVars,
            Asking, Stage
<1>1. CASE TaskEnds(c)
  BY <1>1 DEF TaskEnds, TakesShutdown, LastHandleGoes, EndTask
<1>2. CASE SendShutdown(c)
  BY <1>2 DEF SendShutdown, Removed
<1>3. CASE Disconnect(c)
  BY <1>3 DEF Disconnect, Remove, Input
<1>4. CASE StopCut(c)
  BY <1>4 DEF StopCut, Input
<1>5. CASE EndsByItself(c)
  BY <1>5 DEF EndsByItself, EndTask, Input
<1> QED BY <1>1, <1>2, <1>3, <1>4, <1>5

\* A page is asked, or it is gone and its question with it.
LEMMA AskingKeepsTheTable ==
    ASSUME TableInv, NEW c \in Caller, question[c] # "none", Ask(c),
           UNCHANGED <<task, named, sent, result, registered, stopping, link, page, told, inputs>>
    PROVE  TableInv'
<1> USE DEF TableInv, Asking
<1>1. Asking(c) /\ c \in Screen /\ reply[c] = "none"
  BY DEF Asks
<1>2. CASE here[c] /\ question' = [question EXCEPT ![c] = "open"] /\ UNCHANGED <<here, reply>>
  BY <1>1, <1>2 DEF RegistryTypes, LoginTypes, Asks, Kept
<1>3. CASE Leave(c)
  <2> USE DEF Leave
  <2>1. LetGo(c) \in Reply
    BY DEF LetGo, Reply
  <2>2. RegistryTypes' /\ LoginTypes'
    BY <1>3, <2>1 DEF RegistryTypes, LoginTypes
  <2>3. ASSUME NEW d \in Caller
        PROVE  Asks(d)'
    <3>1. CASE d = c
      BY <1>1, <1>3, <3>1 DEF RegistryTypes, LoginTypes, Asks
    <3>2. CASE d # c
      BY <1>3, <3>2 DEF RegistryTypes, LoginTypes, Asks
    <3> QED BY <3>1, <3>2
  <2>4. ASSUME NEW d \in Caller
        PROVE  Kept(d)'
    BY DEF Kept
  <2> QED BY <2>2, <2>3, <2>4
<1> QED BY <1>2, <1>3 DEF Ask

LEMMA LinkStepsKeepTheTable ==
    ASSUME TableInv, NEW c \in Caller, LinkSteps(c)
    PROVE  TableInv'
<1> USE DEF TableInv, RegistryTypes, LoginTypes, Asks, Kept, registryVars, loginVars,
            Asking, Stage, Connecting
<1>1. CASE NoLogin(c)
  BY <1>1 DEF NoLogin
<1>2. CASE AskPage(c)
  BY <1>2, AskingKeepsTheTable DEF AskPage
<1>3. CASE ReadsTheEnd(c)
  <2>1. CASE question[c] = "open"
    BY <1>3, <2>1, AskingKeepsTheTable DEF ReadsTheEnd, Ask
  <2>2. CASE question[c] # "open"
    <3>1. /\ here' = [here EXCEPT ![c] = FALSE]
          /\ UNCHANGED <<task, named, sent, question, reply, result, registered, stopping,
                         link, page, told, inputs>>
      BY <1>3, <2>2 DEF ReadsTheEnd
    <3> QED BY <2>2, <3>1
  <2> QED BY <2>1, <2>2
<1>4. CASE Connected(c)
  BY <1>4 DEF Connected, Insert
<1>5. CASE TellReady(c)
  BY <1>5 DEF TellReady, StopUntold, Remove
<1>6. CASE TellFailed(c)
  BY <1>6 DEF TellFailed
<1>7. CASE PostDropped(c)
  BY <1>7 DEF PostDropped
<1> QED BY <1>1, <1>2, <1>3, <1>4, <1>5, <1>6, <1>7 DEF LinkSteps

LEMMA CallersKeepTheTable ==
    ASSUME TableInv, NEW c \in Caller, CallerInput(c)
    PROVE  TableInv'
<1> USE DEF TableInv, RegistryTypes, LoginTypes, Asks, Kept, registryVars, callerVars,
            loginVars, Asking, Stage, Request, Reply, Input
<1>1. CASE OpenLink(c)
  BY <1>1 DEF OpenLink
<1>2. CASE FirstMessage(c)
  BY <1>2 DEF FirstMessage, Connect
<1>3. CASE Replies(c)
  BY <1>3 DEF Replies, MayRead, Fitting
<1>4. CASE Misfits(c)
  BY <1>4, AskingKeepsTheTable DEF Misfits, MayRead
<1>5. CASE Post(c)
  BY <1>5 DEF Post, Connect
<1>6. CASE Goes(c)
  BY <1>6 DEF Goes
<1> QED BY <1>1, <1>2, <1>3, <1>4, <1>5, <1>6 DEF CallerInput

LEMMA ViewsLeaveTheTable ==
    ASSUME TableInv,
           UNCHANGED <<registryVars, callerVars>>, inputs' \in 0..MaxInputs
    PROVE  TableInv'
BY DEF TableInv, RegistryTypes, LoginTypes, Asks, Kept, registryVars, callerVars, Asking

\* The links and the acts change nothing of a login or of the table.
LEMMA LiveStepsLeaveTheTable ==
    ASSUME inputs \in 0..MaxInputs,
           \/ \E v \in View : ViewSteps(v) \/ ViewInput(v)
           \/ \E a \in Act : ActSteps(a) \/ ActInput(a)
    PROVE  UNCHANGED <<registryVars, callerVars>> /\ inputs' \in 0..MaxInputs
BY InputIsCounted
DEF ViewSteps, ViewInput, ActSteps, ActInput, Attach, FramesEnd, Find, PageCloses,
    AsksForTheTurn, MakesCall, EndsAct, StartAct

LEMMA TableStays == TableInv /\ [Next]_vars => TableInv'
<1> SUFFICES ASSUME TableInv, [Next]_vars
             PROVE  TableInv'
  OBVIOUS
<1>0. inputs \in 0..MaxInputs
  BY DEF TableInv, RegistryTypes
<1>1. ASSUME NEW c \in Caller, RegistryNext(c)
      PROVE  TableInv'
  BY <1>1, TaskStepsKeepTheTable, TaskEndsKeepTheTable DEF RegistryNext
<1>2. ASSUME NEW c \in Caller, LinkSteps(c) \/ CallerInput(c)
      PROVE  TableInv'
  BY <1>2, LinkStepsKeepTheTable, CallersKeepTheTable
<1>3. CASE \/ \E v \in View : ViewSteps(v) \/ ViewInput(v)
           \/ \E a \in Act : ActSteps(a) \/ ActInput(a)
  BY <1>0, <1>3, LiveStepsLeaveTheTable, ViewsLeaveTheTable
<1>4. CASE UNCHANGED vars
  BY <1>0, <1>4, ViewsLeaveTheTable DEF vars
<1> QED BY <1>1, <1>2, <1>3, <1>4 DEF Next

\* A page that never learnt of its session leaves none behind in the table
\* (login.rs:19, 181-182).
THEOREM HubStoppedOrTold == Spec => []StoppedOrTold
<1>1. Init => TableInv
  BY TableAtFirst
<1>2. TableInv /\ [Next]_vars => TableInv'
  BY TableStays
<1>3. TableInv => StoppedOrTold
  BY DEF TableInv, LoginTypes, Kept, StoppedOrTold
<1> QED BY <1>1, <1>2, <1>3, PTL DEF Spec

-----------------------------------------------------------------------------
(* Links and their lines. *)

LiveTypes ==
    /\ view \in [View -> {"off", "found", "open", "over"}]
    /\ of \in [View -> Caller \cup {Nobody}]
    /\ lineOf \in [View -> View \cup {NoLine}] /\ lines \in [Caller -> View \cup {NoLine}]
    /\ act \in [Act -> {"none", "placed", "waits", "over"}]
    /\ left \in [Act -> 0..MaxSteps] /\ begun \in [Act -> BOOLEAN]

Attached(v) == view[v] \in {"open", "over"}

\* A link has a session that is in the table or was stopped; all that are
\* attached to one that was not have its line.
Lined(v) ==
    /\ view[v] # "off" => of[v] \in Caller /\ (of[v] \in registered \/ of[v] \in Loose)
    /\ Attached(v) => lineOf[v] \in View
    /\ Attached(v) /\ of[v] \notin Loose => lines[of[v]] = lineOf[v]

LinesInv ==
    /\ \A v \in View : Lined(v)
    /\ \A a \in Act : act[a] # "none" => Attached(Sender[a])

\* A session leaves the table by a stop, and a stop is not taken back.
LEMMA OnlyStopsRemove ==
    ASSUME TableInv, [Next]_vars
    PROVE  Loose \subseteq Loose' /\ registered \subseteq registered' \cup Loose'
<1> USE DEF Loose
<1>1. stopping \in [Caller -> {"no", "asked", "untold", "sent", "cut"}] /\ registered \in SUBSET Caller
  BY DEF TableInv, RegistryTypes
<1>2. ASSUME NEW c \in Caller, RegistryNext(c)
      PROVE  Loose \subseteq Loose' /\ registered \subseteq registered' \cup Loose'
  <2>1. CASE TaskSteps(c) \/ TaskEnds(c) \/ EndsByItself(c)
    <3>1. UNCHANGED <<registered, stopping>>
      BY <2>1 DEF TaskSteps, ServerList, CharacterList, Answered, Fails, Enters, TaskEnds,
         TakesShutdown, LastHandleGoes, EndTask, EndsByItself
    <3> QED BY <3>1
  <2>2. CASE SendShutdown(c) \/ StopCut(c)
    BY <1>1, <2>2 DEF SendShutdown, StopCut, Removed
  <2>3. CASE Disconnect(c)
    BY <1>1, <2>3 DEF Disconnect, Remove
  <2> QED BY <1>2, <2>1, <2>2, <2>3 DEF RegistryNext
<1>3. ASSUME NEW c \in Caller, LinkSteps(c) \/ CallerInput(c)
      PROVE  Loose \subseteq Loose' /\ registered \subseteq registered' \cup Loose'
  <2>1. CASE TellReady(c)
    BY <1>1, <2>1 DEF TellReady, StopUntold, Remove
  <2>2. CASE Connected(c)
    BY <2>2 DEF Connected, Insert
  <2>3. CASE CallerInput(c) \/ (LinkSteps(c) /\ ~TellReady(c) /\ ~Connected(c))
    <3>1. UNCHANGED <<registered, stopping>>
      BY <2>3 DEF LinkSteps, NoLogin, AskPage, ReadsTheEnd, TellFailed, PostDropped, CallerInput,
         OpenLink, FirstMessage, Replies, Misfits, Post, Goes, registryVars
    <3> QED BY <3>1
  <2> QED BY <1>3, <2>1, <2>2, <2>3
<1>4. CASE \/ \E v \in View : ViewSteps(v) \/ ViewInput(v)
           \/ \E a \in Act : ActSteps(a) \/ ActInput(a)
  <2>1. inputs \in 0..MaxInputs
    BY DEF TableInv, RegistryTypes
  <2> QED BY <1>4, <2>1, LiveStepsLeaveTheTable DEF registryVars
<1>5. CASE UNCHANGED vars
  BY <1>5 DEF vars, registryVars
<1> QED BY <1>2, <1>3, <1>4, <1>5 DEF Next

\* A line a link was given stays its line until the session is stopped.
LEMMA AttachedStayLined ==
    ASSUME LiveTypes, NEW v \in View, Lined(v), lineOf'[v] = lineOf[v], of'[v] = of[v],
           view[v] # "off", Attached(v)' <=> Attached(v),
           Loose \subseteq Loose', registered \subseteq registered' \cup Loose',
           of[v] \in registered => lines'[of[v]] = lines[of[v]] \/ lines[of[v]] = NoLine
    PROVE  Lined(v)'
BY NoLineIsNone DEF Lined, LiveTypes, Loose

LEMMA LinesAtFirst == Init => LiveTypes /\ LinesInv
BY LiveSizes DEF Init, LiveInit, LiveTypes, LinesInv, Lined, Attached

\* A link changes nothing of the acts, an act nothing of the links.
LEMMA LiveTypesStay ==
    ASSUME TableInv, LiveTypes, LinesInv, [Next]_vars
    PROVE  LiveTypes'
<1> USE LiveSizes DEF LiveTypes
<1>1. CASE UNCHANGED liveVars
  BY <1>1 DEF liveVars
<1>2. ASSUME NEW v \in View, ViewSteps(v) \/ ViewInput(v)
      PROVE  LiveTypes'
  <2>1. CASE Attach(v)
    <3>1. LineFor(v, of[v]) \in [Caller -> View \cup {NoLine}]
      BY DEF LineFor
    <3>2. of[v] \in Caller /\ lines' = LineFor(v, of[v])
      BY <2>1 DEF Attach, LinesInv, Lined
    <3>3. lines'[of[v]] \in View \cup {NoLine}
      BY <3>1, <3>2
    <3>4. /\ view' = [view EXCEPT ![v] = "open"] /\ lineOf' = [lineOf EXCEPT ![v] = lines'[of[v]]]
          /\ UNCHANGED <<of, act, left, begun>>
      BY <2>1 DEF Attach
    <3> QED BY <3>1, <3>2, <3>3, <3>4
  <2>2. CASE Find(v)
    BY <2>2 DEF Find, TableInv, RegistryTypes
  <2>3. CASE FramesEnd(v) \/ PageCloses(v)
    BY <2>3 DEF FramesEnd, PageCloses
  <2> QED BY <1>2, <2>1, <2>2, <2>3 DEF ViewSteps, ViewInput
<1>3. ASSUME NEW a \in Act, ActSteps(a) \/ ActInput(a)
      PROVE  LiveTypes'
  <2>1. CASE StartAct(a)
    <3>1. /\ UNCHANGED <<view, of, lineOf, lines, begun>>
          /\ \/ UNCHANGED <<act, left>>
             \/ \E n \in 0..MaxSteps : /\ act' = [act EXCEPT ![a] = "placed"]
                                      /\ left' = [left EXCEPT ![a] = n]
      BY <2>1 DEF StartAct, MayAct
    <3> QED BY <3>1
  <2>2. CASE AsksForTheTurn(a)
    BY <2>2 DEF AsksForTheTurn
  <2>3. CASE MakesCall(a)
    BY <2>3 DEF MakesCall
  <2>4. CASE EndsAct(a)
    BY <2>4 DEF EndsAct
  <2> QED BY <1>3, <2>1, <2>2, <2>3, <2>4 DEF ActSteps, ActInput
<1> QED BY <1>1, <1>2, <1>3 DEF Next, RegistryNext, LinkSteps, CallerInput, vars

LEMMA LinesStay ==
    ASSUME TableInv, LiveTypes, LinesInv, [Next]_vars
    PROVE  LinesInv'
<1>0. Loose \subseteq Loose' /\ registered \subseteq registered' \cup Loose'
  BY OnlyStopsRemove
<1>s. Sender \in [Act -> View]
  BY LiveSizes
<1>1. CASE UNCHANGED <<view, of, lineOf, lines>> /\ \A a \in Act : act'[a] # "none" => Attached(Sender[a])
  BY <1>0, <1>1 DEF LinesInv, Lined, Attached, Loose
<1>2. ASSUME NEW v \in View, Attach(v)
      PROVE  LinesInv'
  <2>1. of[v] \in Caller /\ view[v] = "found" /\ (of[v] \in registered \/ of[v] \in Loose)
    BY <1>2 DEF Attach, LinesInv, Lined
  <2>2. /\ view' = [view EXCEPT ![v] = "open"] /\ of' = of /\ act' = act
        /\ lines' = LineFor(v, of[v]) /\ lineOf' = [lineOf EXCEPT ![v] = lines'[of[v]]]
    BY <1>2 DEF Attach
  <2>3. lines'[of[v]] \in View
    BY <2>1, <2>2 DEF LineFor, LiveTypes
  <2>4. \A c \in registered : c \in Caller => lines'[c] = lines[c] \/ lines[c] = NoLine
    BY <2>2 DEF LineFor
  <2>5. ASSUME NEW w \in View
        PROVE  Lined(w)'
    <3>1. CASE w = v
      BY <1>0, <2>1, <2>2, <2>3, <3>1 DEF Lined, Attached, LiveTypes
    <3>2. CASE w # v /\ view[w] # "off"
      <4>1. /\ lineOf'[w] = lineOf[w] /\ of'[w] = of[w] /\ (Attached(w)' <=> Attached(w))
        BY <2>2, <3>2 DEF LiveTypes, Attached
      <4>2. Lined(w)
        BY DEF LinesInv
      <4>3. of[w] \in Caller
        BY <3>2, <4>2 DEF Lined
      <4> QED BY <1>0, <2>4, <3>2, <4>1, <4>2, <4>3, AttachedStayLined
    <3>3. CASE w # v /\ view[w] = "off"
      BY <2>2, <3>3 DEF Lined, Attached, LiveTypes
    <3> QED BY <3>1, <3>2, <3>3
  <2>6. \A a \in Act : act'[a] # "none" => Attached(Sender[a])'
    BY <1>s, <2>2 DEF LinesInv, Attached, LiveTypes
  <2> QED BY <2>5, <2>6 DEF LinesInv
<1>3. ASSUME NEW v \in View, Find(v)
      PROVE  LinesInv'
  <2>1. PICK c \in registered :
          /\ view[v] = "off" /\ view' = [view EXCEPT ![v] = "found"]
          /\ of' = [of EXCEPT ![v] = c] /\ UNCHANGED <<registryVars, lineOf, lines, act>>
    BY <1>3 DEF Find
  <2>2. c \in Caller /\ UNCHANGED <<registered, Loose>>
    BY <2>1 DEF TableInv, RegistryTypes, registryVars, Loose
  <2>3. ASSUME NEW w \in View
        PROVE  Lined(w)'
    <3>1. CASE w = v
      BY <2>1, <2>2, <3>1 DEF Lined, Attached, LiveTypes
    <3>2. CASE w # v
      BY <2>1, <2>2, <3>2 DEF LinesInv, Lined, Attached, LiveTypes
    <3> QED BY <3>1, <3>2
  <2>4. \A a \in Act : act'[a] # "none" => Attached(Sender[a])'
    BY <1>s, <2>1 DEF LinesInv, Attached, LiveTypes
  <2> QED BY <2>3, <2>4 DEF LinesInv
<1>4. ASSUME NEW v \in View, PageCloses(v) \/ FramesEnd(v)
      PROVE  LinesInv'
  <2>1. /\ view[v] = "open" /\ view' = [view EXCEPT ![v] = "over"]
        /\ UNCHANGED <<registryVars, of, lineOf, lines, act>>
    BY <1>4 DEF PageCloses, FramesEnd
  <2>2. \A w \in View : (Attached(w)' <=> Attached(w)) /\ (view'[w] # "off" <=> view[w] # "off")
    BY <2>1 DEF Attached, LiveTypes
  <2>3. UNCHANGED <<registered, Loose>>
    BY <2>1 DEF registryVars, Loose
  <2> QED BY <1>s, <2>1, <2>2, <2>3 DEF LinesInv, Lined
<1>5. ASSUME NEW a \in Act, ActSteps(a) \/ ActInput(a)
      PROVE  LinesInv'
  <2>1. UNCHANGED <<view, of, lineOf, lines>>
    BY <1>5 DEF ActSteps, ActInput, AsksForTheTurn, MakesCall, EndsAct, StartAct
  <2>2. \/ act' = act
        \/ act[a] # "none" /\ \E s \in {"waits", "over"} : act' = [act EXCEPT ![a] = s]
        \/ view[Sender[a]] = "open" /\ act' = [act EXCEPT ![a] = "placed"]
    <3>1. CASE StartAct(a)
      <4>1. view[Sender[a]] = "open" /\ (act' = act \/ act' = [act EXCEPT ![a] = "placed"])
        BY <3>1 DEF StartAct
      <4> QED BY <4>1
    <3>2. CASE ActSteps(a)
      BY <3>2 DEF ActSteps, AsksForTheTurn, MakesCall, EndsAct, HasTheTurn
    <3> QED BY <1>5, <3>1, <3>2 DEF ActInput
  <2>3. \A b \in Act : act'[b] # "none" => Attached(Sender[b])
    BY <2>2 DEF LinesInv, LiveTypes, Attached
  <2> QED BY <1>1, <2>1, <2>3
<1>6. CASE UNCHANGED liveVars
  <2>1. \A a \in Act : act'[a] # "none" => Attached(Sender[a])
    BY <1>6 DEF liveVars, LinesInv
  <2> QED BY <1>1, <1>6, <2>1 DEF liveVars
<1> QED BY <1>2, <1>3, <1>4, <1>5, <1>6
  DEF Next, RegistryNext, LinkSteps, CallerInput, ViewSteps, ViewInput, vars

-----------------------------------------------------------------------------
(* Acts and their turns. *)

InLine(l, a) == \E i \in 1..Len(turns[l]) : turns[l][i] = a

\* The acts in a line wait on it, each in one place; the acts that wait are in
\* their line, and one under way stands first.
TurnsInv ==
    /\ turns \in [View -> Seq(Act)]
    /\ \A l \in View : \A i, j \in 1..Len(turns[l]) :
        /\ act[turns[l][i]] = "waits" /\ LineOf(turns[l][i]) = l
        /\ turns[l][i] = turns[l][j] => i = j
    /\ \A a \in Act : act[a] = "waits" => InLine(LineOf(a), a)
    /\ \A a \in Act : begun[a] => HasTheTurn(a)

PlacesInv ==
    \A l \in View : IsFiniteSet(PlacesTaken(l)) /\ Cardinality(PlacesTaken(l)) <= Places

IInv == TableInv /\ LiveTypes /\ LinesInv /\ TurnsInv /\ PlacesInv

LEMMA TurnsAtFirst == Init => TurnsInv /\ PlacesInv
<1> SUFFICES ASSUME Init PROVE TurnsInv /\ PlacesInv
  OBVIOUS
<1> USE DEF Init, LiveInit
<1>1. TurnsInv
  BY DEF TurnsInv
<1>2. \A l \in View : PlacesTaken(l) = {}
  BY DEF PlacesTaken, UnderWay
<1>3. PlacesInv
  <2>1. IsFiniteSet({}) /\ Cardinality({}) = 0 /\ 0 <= Places
    BY FS_EmptySet, LiveSizes
  <2> QED BY <1>2, <2>1 DEF PlacesInv
<1> QED BY <1>1, <1>3

\* An act that was taken has its line, and keeps it.
LEMMA ActsHaveLines ==
    ASSUME LiveTypes, LinesInv
    PROVE  \A a \in Act : act[a] # "none" => LineOf(a) \in View
BY LiveSizes DEF LinesInv, Lined, LineOf

LEMMA ActsKeepTheirLines ==
    ASSUME LiveTypes, LinesInv, [Next]_vars, NEW a \in Act, act[a] # "none"
    PROVE  lineOf'[Sender[a]] = lineOf[Sender[a]] /\ of'[Sender[a]] = of[Sender[a]]
<1> USE LiveSizes DEF LiveTypes
<1>0. view[Sender[a]] \in {"open", "over"}
  BY DEF LinesInv, Attached
<1>1. ASSUME NEW v \in View, ViewSteps(v) \/ ViewInput(v)
      PROVE  lineOf'[Sender[a]] = lineOf[Sender[a]] /\ of'[Sender[a]] = of[Sender[a]]
  <2>1. CASE Attach(v)
    <3>1. view[v] = "found" /\ lineOf' = [lineOf EXCEPT ![v] = lines'[of[v]]] /\ of' = of
      BY <2>1 DEF Attach
    <3> QED BY <1>0, <3>1
  <2>2. CASE Find(v)
    BY <1>0, <2>2 DEF Find
  <2>3. CASE FramesEnd(v) \/ PageCloses(v)
    BY <2>3 DEF FramesEnd, PageCloses
  <2> QED BY <1>1, <2>1, <2>2, <2>3 DEF ViewSteps, ViewInput
<1>2. ASSUME NEW b \in Act, ActSteps(b) \/ ActInput(b)
      PROVE  UNCHANGED <<lineOf, of>>
  BY <1>2 DEF ActSteps, ActInput, AsksForTheTurn, MakesCall, EndsAct, StartAct
<1>3. CASE UNCHANGED liveVars
  BY <1>3 DEF liveVars
<1> QED BY <1>1, <1>2, <1>3 DEF Next, RegistryNext, LinkSteps, CallerInput, vars

\* What is on when neither the acts nor the turns change.
LEMMA TurnsUntouched ==
    ASSUME LiveTypes, LinesInv, TurnsInv, [Next]_vars, UNCHANGED <<turns, begun>>,
           \A a \in Act : act'[a] = "waits" <=> act[a] = "waits"
    PROVE  TurnsInv'
<1>1. \A a \in Act : act[a] = "waits" => LineOf(a)' = LineOf(a)
  BY ActsKeepTheirLines DEF LineOf
<1> QED BY <1>1 DEF TurnsInv, InLine, HasTheTurn

LEMMA TurnsStay ==
    ASSUME LiveTypes, LinesInv, TurnsInv, [Next]_vars
    PROVE  TurnsInv'
<1>1. CASE UNCHANGED <<act, turns, begun>>
  BY <1>1, TurnsUntouched
<1>2. ASSUME NEW a \in Act, StartAct(a)
      PROVE  TurnsInv'
  <2>1. act[a] = "none" /\ UNCHANGED <<turns, begun>> /\ (act' = act \/ act' = [act EXCEPT ![a] = "placed"])
    BY <1>2 DEF StartAct
  <2> QED BY <2>1, TurnsUntouched DEF LiveTypes
<1>3. ASSUME NEW a \in Act, AsksForTheTurn(a)
      PROVE  TurnsInv'
  <2> DEFINE l == LineOf(a)
  <2>1. /\ act[a] = "placed" /\ act' = [act EXCEPT ![a] = "waits"]
        /\ turns' = [turns EXCEPT ![l] = Append(@, a)]
        /\ UNCHANGED <<lineOf, begun>>
    BY <1>3 DEF AsksForTheTurn
  <2>2. l \in View
    BY <2>1, ActsHaveLines
  <2>3. \A b \in Act : LineOf(b)' = LineOf(b)
    BY <2>1 DEF LineOf
  <2>4. /\ turns[l] \in Seq(Act) /\ turns'[l] = Append(turns[l], a)
        /\ \A k \in View \ {l} : turns'[k] = turns[k]
        /\ turns' \in [View -> Seq(Act)]
    BY <2>1, <2>2 DEF TurnsInv
  <2> HIDE DEF l
  <2>5. \A i \in 1..Len(turns[l]) : turns[l][i] # a
    BY <2>1, <2>2 DEF TurnsInv
  <2>6. ASSUME NEW k \in View, NEW i \in 1..Len(turns'[k]), NEW j \in 1..Len(turns'[k])
        PROVE  /\ act'[turns'[k][i]] = "waits" /\ lineOf'[Sender[turns'[k][i]]] = k
               /\ turns'[k][i] = turns'[k][j] => i = j
    <3>1. CASE k # l
      <4>1. turns'[k] = turns[k] /\ turns[k] \in Seq(Act)
        BY <2>4, <3>1 DEF TurnsInv
      <4>2. turns[k][i] \in Act
        BY <4>1
      <4>3. act[turns[k][i]] = "waits" /\ lineOf[Sender[turns[k][i]]] = k
        BY <4>1 DEF TurnsInv, LineOf
      <4>4. turns[k][i] = turns[k][j] => i = j
        BY <4>1 DEF TurnsInv
      <4> QED BY <2>1, <4>1, <4>2, <4>3, <4>4 DEF LiveTypes
    <3>2. CASE k = l
      <4>1. \A m \in 1..Len(turns'[l]) :
               \/ m \in 1..Len(turns[l]) /\ turns'[l][m] = turns[l][m] /\ turns[l][m] \in Act
               \/ m = Len(turns[l]) + 1 /\ turns'[l][m] = a
        BY <2>4
      <4>2. act'[turns'[k][i]] = "waits" /\ lineOf'[Sender[turns'[k][i]]] = k
        <5>1. CASE turns'[l][i] = a
          BY <2>1, <3>2, <5>1 DEF l, LiveTypes, LineOf
        <5>2. CASE i \in 1..Len(turns[l]) /\ turns'[l][i] = turns[l][i] /\ turns[l][i] \in Act
          <6>1. act[turns[l][i]] = "waits" /\ lineOf[Sender[turns[l][i]]] = l
            BY <2>2, <5>2 DEF TurnsInv, LineOf
          <6> QED BY <2>1, <3>2, <5>2, <6>1 DEF LiveTypes
        <5> QED BY <3>2, <4>1, <5>1, <5>2
      <4>3. turns'[k][i] = turns'[k][j] => i = j
        BY <2>2, <2>5, <3>2, <4>1 DEF TurnsInv
      <4> QED BY <4>2, <4>3
    <3> QED BY <3>1, <3>2
  <2>7. ASSUME NEW b \in Act, act'[b] = "waits"
        PROVE  InLine(LineOf(b), b)'
    <3>1. CASE b = a
      <4>1. Len(turns'[l]) = Len(turns[l]) + 1 /\ turns'[l][Len(turns[l]) + 1] = a /\ Len(turns[l]) \in Nat
        BY <2>4
      <4>2. LineOf(b)' = l
        BY <2>3, <3>1 DEF l
      <4> QED BY <3>1, <4>1, <4>2 DEF InLine
    <3>2. CASE b # a
      <4>1. act[b] = "waits"
        BY <2>1, <3>2, <2>7 DEF LiveTypes
      <4>2. PICK i \in 1..Len(turns[LineOf(b)]) : turns[LineOf(b)][i] = b
        BY <4>1 DEF TurnsInv, InLine
      <4>3. LineOf(b) \in View
        BY <4>1, ActsHaveLines
      <4>4. i \in 1..Len(turns'[LineOf(b)]) /\ turns'[LineOf(b)][i] = b
        BY <2>4, <4>2, <4>3
      <4> QED BY <2>3, <4>4 DEF InLine
    <3> QED BY <3>1, <3>2
  <2>8. ASSUME NEW b \in Act, begun'[b]
        PROVE  HasTheTurn(b)'
    <3>1. act[b] = "waits" /\ Head(turns[LineOf(b)]) = b /\ InLine(LineOf(b), b)
      BY <2>1, <2>8 DEF TurnsInv, HasTheTurn
    <3>2. LineOf(b) \in View
      BY <3>1, ActsHaveLines
    <3>3. Len(turns[LineOf(b)]) # 0
      BY <3>1 DEF InLine
    <3>4. Head(turns'[LineOf(b)]) = Head(turns[LineOf(b)])
      BY <2>4, <3>2, <3>3 DEF TurnsInv
    <3>5. act'[b] = "waits"
      BY <2>1, <3>1 DEF LiveTypes
    <3> QED BY <2>3, <3>1, <3>4, <3>5 DEF HasTheTurn
  <2> QED BY <2>4, <2>6, <2>7, <2>8 DEF TurnsInv, LineOf
<1>4. ASSUME NEW a \in Act, MakesCall(a)
      PROVE  TurnsInv'
  <2>1. HasTheTurn(a) /\ begun' = [begun EXCEPT ![a] = TRUE] /\ UNCHANGED <<act, turns, lineOf>>
    BY <1>4 DEF MakesCall
  <2>2. \A b \in Act : begun'[b] => HasTheTurn(b)
    BY <2>1 DEF TurnsInv, LiveTypes
  <2>3. \A b \in Act : HasTheTurn(b) => HasTheTurn(b)'
    BY <2>1 DEF HasTheTurn, LineOf
  <2> QED BY <2>1, <2>2, <2>3 DEF TurnsInv, InLine, LineOf
<1>5. ASSUME NEW a \in Act, EndsAct(a)
      PROVE  TurnsInv'
  <2> DEFINE l == LineOf(a)
  <2>1. /\ act[a] = "waits" /\ Head(turns[l]) = a
        /\ act' = [act EXCEPT ![a] = "over"] /\ begun' = [begun EXCEPT ![a] = FALSE]
        /\ turns' = [turns EXCEPT ![l] = Tail(@)] /\ UNCHANGED lineOf
    BY <1>5 DEF EndsAct, HasTheTurn, TurnGivenBack
  <2>2. l \in View
    BY <2>1, ActsHaveLines
  <2>3. \A b \in Act : LineOf(b)' = LineOf(b)
    BY <2>1 DEF LineOf
  <2>4. turns[l] \in Seq(Act) /\ Len(turns[l]) \in Nat /\ Len(turns[l]) > 0
    BY <2>1, <2>2 DEF TurnsInv, InLine
  <2>5. /\ turns[l][1] = a /\ turns'[l] = Tail(turns[l]) /\ Tail(turns[l]) \in Seq(Act)
        /\ Len(turns'[l]) = Len(turns[l]) - 1
        /\ \A i \in 1..Len(turns'[l]) : turns'[l][i] = turns[l][i + 1]
    BY <2>1, <2>2, <2>4 DEF TurnsInv
  <2>6. /\ \A k \in View \ {l} : turns'[k] = turns[k]
        /\ turns' \in [View -> Seq(Act)]
    BY <2>1, <2>2, <2>5 DEF TurnsInv
  <2> HIDE DEF l
  <2>7. ASSUME NEW k \in View, NEW i \in 1..Len(turns'[k]), NEW j \in 1..Len(turns'[k])
        PROVE  /\ act'[turns'[k][i]] = "waits" /\ lineOf'[Sender[turns'[k][i]]] = k
               /\ turns'[k][i] = turns'[k][j] => i = j
    <3>1. CASE k # l
      <4>1. turns'[k] = turns[k] /\ turns[k] \in Seq(Act)
        BY <2>6, <3>1 DEF TurnsInv
      <4>2. turns[k][i] \in Act
        BY <4>1
      <4>3. act[turns[k][i]] = "waits" /\ lineOf[Sender[turns[k][i]]] = k
        BY <4>1 DEF TurnsInv, LineOf
      <4>4. turns[k][i] = turns[k][j] => i = j
        BY <4>1 DEF TurnsInv
      <4>5. turns[k][i] # a
        BY <3>1, <4>3 DEF l, LineOf
      <4> QED BY <2>1, <4>1, <4>2, <4>3, <4>4, <4>5 DEF LiveTypes
    <3>2. CASE k = l
      <4>1. /\ i + 1 \in 1..Len(turns[l]) /\ j + 1 \in 1..Len(turns[l]) /\ 1 \in 1..Len(turns[l])
            /\ i + 1 # 1 /\ turns'[l][i] = turns[l][i + 1] /\ turns'[l][j] = turns[l][j + 1]
        <5>1. i \in 1..Len(turns'[l]) /\ j \in 1..Len(turns'[l])
          BY <3>2
        <5>2. i \in 1..Len(turns[l]) - 1 /\ j \in 1..Len(turns[l]) - 1
          BY <2>5, <5>1
        <5> QED BY <2>4, <2>5, <5>1, <5>2
      <4>2. turns[l][i + 1] \in Act
        BY <2>4, <4>1
      <4>3. act[turns[l][i + 1]] = "waits" /\ lineOf[Sender[turns[l][i + 1]]] = l
        BY <2>2, <4>1 DEF TurnsInv, LineOf
      <4>4. turns[l][i + 1] = turns[l][j + 1] => i + 1 = j + 1
        BY <2>2, <4>1 DEF TurnsInv
      <4>5. turns[l][i + 1] # a
        BY <2>2, <2>5, <4>1 DEF TurnsInv
      <4>6. act'[turns[l][i + 1]] = "waits"
        BY <2>1, <4>2, <4>3, <4>5 DEF LiveTypes
      <4>7. i + 1 = j + 1 => i = j
        BY <2>4, <2>5, <3>2
      <4> QED BY <2>1, <3>2, <4>1, <4>3, <4>4, <4>6, <4>7
    <3> QED BY <3>1, <3>2
  <2>8. ASSUME NEW b \in Act, act'[b] = "waits"
        PROVE  InLine(LineOf(b), b)'
    <3>1. b # a /\ act[b] = "waits"
      BY <2>1, <2>8 DEF LiveTypes
    <3>2. PICK i \in 1..Len(turns[LineOf(b)]) : turns[LineOf(b)][i] = b
      BY <3>1 DEF TurnsInv, InLine
    <3>3. LineOf(b) \in View
      BY <3>1, ActsHaveLines
    <3>4. CASE LineOf(b) = l
      <4>1. i # 1 /\ i \in 1..Len(turns[l])
        BY <2>5, <3>1, <3>2, <3>4
      <4>2. i - 1 \in 1..Len(turns'[l]) /\ (i - 1) + 1 = i
        BY <2>4, <2>5, <4>1
      <4>3. turns'[l][i - 1] = b
        BY <2>5, <3>2, <3>4, <4>2
      <4> QED BY <2>3, <3>4, <4>2, <4>3 DEF InLine
    <3>5. CASE LineOf(b) # l
      <4>1. turns'[LineOf(b)] = turns[LineOf(b)]
        BY <2>6, <3>3, <3>5
      <4> QED BY <2>3, <3>2, <4>1 DEF InLine
    <3> QED BY <3>4, <3>5
  <2>9. ASSUME NEW b \in Act, begun'[b]
        PROVE  HasTheTurn(b)'
    <3>1. b # a /\ HasTheTurn(b)
      BY <2>1, <2>9 DEF TurnsInv, LiveTypes
    <3>2. LineOf(b) \in View /\ LineOf(b) # l
      <4>1. act[b] = "waits"
        BY <3>1 DEF HasTheTurn
      <4> QED BY <2>1, <3>1, <4>1, ActsHaveLines DEF HasTheTurn, l
    <3>3. turns'[LineOf(b)] = turns[LineOf(b)] /\ act'[b] = act[b]
      BY <2>1, <2>6, <3>1, <3>2 DEF LiveTypes
    <3> QED BY <2>3, <3>1, <3>3 DEF HasTheTurn
  <2> QED BY <2>6, <2>7, <2>8, <2>9 DEF TurnsInv, LineOf
<1>6. ASSUME NEW v \in View, ViewSteps(v) \/ ViewInput(v)
      PROVE  UNCHANGED <<act, turns, begun>>
  BY <1>6 DEF ViewSteps, ViewInput, Attach, FramesEnd, Find, PageCloses
<1>7. CASE UNCHANGED liveVars
  BY <1>1, <1>7 DEF liveVars
<1> QED BY <1>1, <1>2, <1>3, <1>4, <1>5, <1>6, <1>7
  DEF Next, RegistryNext, LinkSteps, CallerInput, ActSteps, ActInput, vars

LEMMA PlacesStay ==
    ASSUME LiveTypes, LinesInv, PlacesInv, [Next]_vars
    PROVE  PlacesInv'
<1>1. ASSUME NEW l \in View, PlacesTaken(l)' \subseteq PlacesTaken(l)
      PROVE  IsFiniteSet(PlacesTaken(l))' /\ (Cardinality(PlacesTaken(l)) <= Places)'
  <2>1. IsFiniteSet(PlacesTaken(l)) /\ Cardinality(PlacesTaken(l)) <= Places
    BY DEF PlacesInv
  <2>2. /\ IsFiniteSet(PlacesTaken(l)') /\ Cardinality(PlacesTaken(l)') <= Cardinality(PlacesTaken(l))
        /\ Cardinality(PlacesTaken(l)') \in Nat /\ Cardinality(PlacesTaken(l)) \in Nat
    BY <1>1, <2>1, FS_Subset, FS_CardinalityType
  <2> QED BY <2>1, <2>2, LiveSizes
<1>2. CASE \A b \in Act : UnderWay(b)' => UnderWay(b)
  <2>1. \A b \in Act : UnderWay(b) => LineOf(b)' = LineOf(b)
    BY ActsKeepTheirLines DEF UnderWay, LineOf
  <2>2. \A l \in View : PlacesTaken(l)' \subseteq PlacesTaken(l)
    BY <1>2, <2>1 DEF PlacesTaken
  <2> QED BY <1>1, <2>2 DEF PlacesInv
<1>3. ASSUME NEW a \in Act, NEW n, StartAct(a), MayAct(a, n), act' = [act EXCEPT ![a] = "placed"]
      PROVE  PlacesInv'
  <2>1. UNCHANGED lineOf
    BY <1>3 DEF StartAct
  <2>2. \A b \in Act : LineOf(b)' = LineOf(b)
    BY <2>1 DEF LineOf
  <2>3. \A b \in Act \ {a} : UnderWay(b)' => UnderWay(b)
    BY <1>3 DEF UnderWay, LiveTypes
  <2>4. ASSUME NEW l \in View
        PROVE  IsFiniteSet(PlacesTaken(l))' /\ (Cardinality(PlacesTaken(l)) <= Places)'
    <3>1. CASE l # LineOf(a)
      <4>1. PlacesTaken(l)' \subseteq PlacesTaken(l)
        BY <2>2, <2>3, <3>1 DEF PlacesTaken
      <4> QED BY <1>1, <4>1
    <3>2. CASE l = LineOf(a)
      <4>1. PlacesTaken(l)' \subseteq PlacesTaken(l) \cup {a}
        BY <2>2, <2>3 DEF PlacesTaken
      <4>2. IsFiniteSet(PlacesTaken(l)) /\ Cardinality(PlacesTaken(l)) < Places
        BY <1>3, <3>2 DEF PlacesInv, MayAct
      <4>3. /\ IsFiniteSet(PlacesTaken(l) \cup {a}) /\ Cardinality(PlacesTaken(l)) \in Nat
            /\ Cardinality(PlacesTaken(l) \cup {a}) \in Nat
            /\ Cardinality(PlacesTaken(l) \cup {a}) <= Cardinality(PlacesTaken(l)) + 1
        <5>1. IsFiniteSet(PlacesTaken(l) \cup {a})
          BY <4>2, FS_AddElement
        <5>2. Cardinality(PlacesTaken(l)) \in Nat /\ Cardinality(PlacesTaken(l) \cup {a}) \in Nat
          BY <4>2, <5>1, FS_CardinalityType
        <5>3. \/ Cardinality(PlacesTaken(l) \cup {a}) = Cardinality(PlacesTaken(l))
              \/ Cardinality(PlacesTaken(l) \cup {a}) = Cardinality(PlacesTaken(l)) + 1
          BY <4>2, FS_AddElement
        <5> QED BY <5>1, <5>2, <5>3
      <4>4. /\ IsFiniteSet(PlacesTaken(l)') /\ Cardinality(PlacesTaken(l)') \in Nat
            /\ Cardinality(PlacesTaken(l)') <= Cardinality(PlacesTaken(l) \cup {a})
        BY <4>1, <4>3, FS_Subset, FS_CardinalityType
      <4> QED BY <4>2, <4>3, <4>4, LiveSizes
    <3> QED BY <3>1, <3>2
  <2> QED BY <2>4 DEF PlacesInv
<1>4. ASSUME NEW a \in Act, ActSteps(a) \/ ActInput(a)
      PROVE  PlacesInv'
  <2>1. CASE ActSteps(a)
    <3>1. UnderWay(a) /\ (act' = act \/ \E s : act' = [act EXCEPT ![a] = s])
      <4>1. CASE AsksForTheTurn(a)
        BY <4>1 DEF AsksForTheTurn, UnderWay
      <4>2. CASE MakesCall(a)
        BY <4>2 DEF MakesCall, HasTheTurn, UnderWay
      <4>3. CASE EndsAct(a)
        BY <4>3 DEF EndsAct, HasTheTurn, UnderWay
      <4> QED BY <2>1, <4>1, <4>2, <4>3 DEF ActSteps
    <3> QED BY <1>2, <3>1 DEF LiveTypes, UnderWay
  <2>2. CASE StartAct(a)
    <3>1. act' = act \/ \E n : MayAct(a, n) /\ act' = [act EXCEPT ![a] = "placed"]
      BY <2>2 DEF StartAct
    <3>2. CASE act' = act
      BY <1>2, <3>2 DEF UnderWay
    <3> QED BY <1>3, <2>2, <3>1, <3>2
  <2> QED BY <1>4, <2>1, <2>2 DEF ActInput
<1>5. CASE UNCHANGED act
  BY <1>2, <1>5 DEF UnderWay
<1>6. ASSUME NEW v \in View, ViewSteps(v) \/ ViewInput(v)
      PROVE  UNCHANGED act
  BY <1>6 DEF ViewSteps, ViewInput, Attach, FramesEnd, Find, PageCloses
<1>7. CASE UNCHANGED liveVars
  BY <1>5, <1>7 DEF liveVars
<1> QED BY <1>4, <1>5, <1>6, <1>7
  DEF Next, RegistryNext, LinkSteps, CallerInput, vars

THEOREM HubInv == Spec => []IInv
<1>1. Init => IInv
  BY TableAtFirst, LinesAtFirst, TurnsAtFirst DEF IInv
<1>2. IInv /\ [Next]_vars => IInv'
  BY TableStays, LiveTypesStay, LinesStay, TurnsStay, PlacesStay DEF IInv
<1> QED BY <1>1, <1>2, PTL DEF Spec

\* Every variable has its type, a question is open only for a page the link
\* knows to be there, the table holds no session still logging in, and an act
\* holds a place and a turn of one line (login.rs, live.rs).
THEOREM HubTypeCorrect == Spec => []TypeOK
<1>1. IInv => RegistryTypeOK /\ LoginTypeOK
  BY DEF IInv, TableInv, RegistryTypes, LoginTypes, Asks, Kept, RegistryTypeOK, LoginTypeOK
<1>2. IInv => LiveTypeOK
  <2> SUFFICES ASSUME IInv
               PROVE  LiveTypeOK
    OBVIOUS
  <2> USE DEF IInv
  <2>1. ASSUME NEW a \in Act
        PROVE  /\ begun[a] => act[a] = "waits"
               /\ UnderWay(a) => lineOf[Sender[a]] # NoLine
               /\ act[a] = "waits" <=> \E l \in View : \E i \in 1..Len(turns[l]) : turns[l][i] = a
    <3>1. begun[a] => act[a] = "waits"
      BY DEF TurnsInv, HasTheTurn
    <3>2. UnderWay(a) => LineOf(a) \in View
      BY ActsHaveLines DEF UnderWay
    <3>3. act[a] = "waits" <=> \E l \in View : \E i \in 1..Len(turns[l]) : turns[l][i] = a
      BY <3>2 DEF TurnsInv, InLine, UnderWay
    <3> QED BY <3>1, <3>2, <3>3, NoLineIsNone DEF LineOf
  <2> QED BY <2>1 DEF LiveTypes, TurnsInv, PlacesInv, LiveTypeOK
<1>3. IInv => TypeOK
  BY <1>1, <1>2 DEF TypeOK
<1> QED BY <1>3, HubInv, PTL

-----------------------------------------------------------------------------
(* What the links promise. *)

LEMMA PromiseUntouched ==
    ASSUME IInv, [Next]_vars, UNCHANGED <<act, begun>>
    PROVE  Status' = Status /\ On' = On
<1>1. \A a \in Act : act[a] # "none" => SessionOf(a)' = SessionOf(a)
  BY ActsKeepTheirLines DEF IInv, SessionOf
<1> QED BY <1>1 DEF Status, On

\* The acts of a session that was not stopped are all in its line.
LEMMA OneLineASession ==
    ASSUME IInv, NEW a \in Act, NEW b \in Act, act[a] # "none" \/ Attached(Sender[a]),
           act[b] # "none", SessionOf(a) = SessionOf(b), SessionOf(a) \notin Loose
    PROVE  LineOf(b) = LineOf(a)
BY LiveSizes DEF IInv, LinesInv, Lined, LineOf, SessionOf

LEMMA FirstCallBegins ==
    ASSUME IInv, NEW a \in Act, MakesCall(a), ~begun[a], UNCHANGED <<of, Loose>>
    PROVE  Promise!Begin(a)
<1>1. /\ act[a] = "waits" /\ Head(turns[LineOf(a)]) = a
      /\ act' = act /\ begun' = [begun EXCEPT ![a] = TRUE]
  BY DEF MakesCall, HasTheTurn
<1>2. Status[a] = "taken" /\ Status' = [Status EXCEPT ![a] = "begun"]
  BY <1>1 DEF Status, IInv, LiveTypes
<1>3. On' = On
  BY <1>1 DEF On, SessionOf
<1>4. On[a] = SessionOf(a)
  BY <1>1 DEF On
<1>5. ASSUME On[a] \notin Loose, NEW b \in Act, On[b] = On[a], Status[b] = "begun"
      PROVE  FALSE
  <2>1. act[b] # "none" /\ begun[b]
    BY <1>5 DEF Status
  <2>2. SessionOf(b) = SessionOf(a)
    BY <1>4, <1>5, <2>1 DEF On
  <2>3. LineOf(b) = LineOf(a)
    BY <1>1, <1>4, <1>5, <2>1, <2>2, OneLineASession
  <2>4. Head(turns[LineOf(b)]) = b
    BY <2>1 DEF IInv, TurnsInv, HasTheTurn
  <2> QED BY <1>1, <2>1, <2>3, <2>4
<1>6. On[a] \in Loose \/ Promise!Begun(On[a]) = {}
  BY <1>5 DEF Promise!Begun
<1> QED BY <1>2, <1>3, <1>6 DEF Promise!Begin

\* Turns counts as Live does.
LEMMA SameCount == \A S : Promise!Cardinality(S) = Cardinality(S)
BY Zenon DEF Promise!Cardinality, Cardinality

LEMMA StartTakes ==
    ASSUME IInv, NEW a \in Act, NEW n, StartAct(a), MayAct(a, n),
           act' = [act EXCEPT ![a] = "placed"], UNCHANGED Loose
    PROVE  \E s \in Caller : Promise!Take(a, s)
<1>1. act[a] = "none" /\ view[Sender[a]] = "open" /\ UNCHANGED <<of, begun>>
  BY DEF StartAct
<1>2. SessionOf(a) \in Caller
  BY <1>1, LiveSizes DEF IInv, LinesInv, Lined, SessionOf
<1>3. Status[a] = "none" /\ Status' = [Status EXCEPT ![a] = "taken"]
  <2>1. ~begun[a]
    BY <1>1 DEF IInv, TurnsInv, HasTheTurn
  <2> QED BY <1>1, <2>1 DEF Status, IInv, LiveTypes
<1>4. On' = [On EXCEPT ![a] = SessionOf(a)]
  BY <1>1 DEF On, SessionOf, IInv, LiveTypes
<1>5. CASE SessionOf(a) \notin Loose
  <2>1. ASSUME NEW b \in Act, On[b] = SessionOf(a), Status[b] \in {"taken", "begun"}
        PROVE  b \in PlacesTaken(LineOf(a))
    <3>1. act[b] # "none" /\ UnderWay(b)
      BY <2>1 DEF Status, UnderWay, IInv, LiveTypes
    <3>2. SessionOf(b) = SessionOf(a)
      BY <2>1, <3>1 DEF On
    <3>3. LineOf(b) = LineOf(a)
      BY <1>1, <1>5, <3>1, <3>2, OneLineASession DEF Attached
    <3> QED BY <3>1, <3>3 DEF PlacesTaken
  <2>2. Promise!Taken(SessionOf(a)) \subseteq PlacesTaken(LineOf(a))
    BY <2>1 DEF Promise!Taken
  <2>3. LineOf(a) \in View
    BY <1>1, LiveSizes DEF IInv, LinesInv, Lined, Attached, LineOf
  <2>4. IsFiniteSet(PlacesTaken(LineOf(a))) /\ Cardinality(PlacesTaken(LineOf(a))) < Places
    BY <2>3 DEF IInv, PlacesInv, MayAct
  <2>5. /\ Cardinality(Promise!Taken(SessionOf(a))) <= Cardinality(PlacesTaken(LineOf(a)))
        /\ Cardinality(PlacesTaken(LineOf(a))) \in Nat
        /\ Cardinality(Promise!Taken(SessionOf(a))) \in Nat
    BY <2>2, <2>4, FS_Subset, FS_CardinalityType
  <2>6. Cardinality(Promise!Taken(SessionOf(a))) < Places
    BY <2>4, <2>5, LiveSizes
  <2>7. Promise!Take(a, SessionOf(a))
    BY <1>3, <1>4, <2>6, SameCount DEF Promise!Take
  <2> QED BY <1>2, <2>7
<1>6. CASE SessionOf(a) \in Loose
  BY <1>2, <1>3, <1>4, <1>6 DEF Promise!Take
<1> QED BY <1>5, <1>6

LEMMA EndEnds ==
    ASSUME IInv, NEW a \in Act, EndsAct(a), UNCHANGED <<of, Loose>>
    PROVE  Promise!End(a)
<1>1. act[a] = "waits" /\ act' = [act EXCEPT ![a] = "over"] /\ begun' = [begun EXCEPT ![a] = FALSE]
  BY DEF EndsAct, HasTheTurn
<1>2. Status[a] \in {"taken", "begun"} /\ Status' = [Status EXCEPT ![a] = "over"]
  BY <1>1 DEF Status, IInv, LiveTypes
<1>3. On' = On
  BY <1>1 DEF On, SessionOf, IInv, LiveTypes
<1> QED BY <1>2, <1>3 DEF Promise!End

\* A session is let loose by a stop, one at a time, and by nothing else.
LEMMA StopsLoosen ==
    ASSUME TableInv, NEW c \in Caller, RegistryNext(c) \/ LinkSteps(c) \/ CallerInput(c)
    PROVE  Loose' = Loose \/ Loose' = Loose \cup {c}
<1> USE DEF Loose
<1>1. stopping \in [Caller -> {"no", "asked", "untold", "sent", "cut"}]
  BY DEF TableInv, RegistryTypes
<1>2. CASE Disconnect(c)
  BY <1>1, <1>2 DEF Disconnect, Remove
<1>3. CASE TellReady(c)
  BY <1>1, <1>3 DEF TellReady, StopUntold, Remove
<1>4. CASE SendShutdown(c) \/ StopCut(c)
  <2>1. stopping[c] # "no" /\ \E s \in {"sent", "cut"} : stopping' = [stopping EXCEPT ![c] = s]
    BY <1>4 DEF SendShutdown, StopCut, Removed
  <2> QED BY <1>1, <2>1
<1>5. CASE TaskSteps(c) \/ TaskEnds(c) \/ EndsByItself(c)
  <2>1. UNCHANGED stopping
    BY <1>5 DEF TaskSteps, ServerList, CharacterList, Answered, Fails, Enters, TaskEnds,
       TakesShutdown, LastHandleGoes, EndTask, EndsByItself
  <2> QED BY <2>1
<1>6. CASE CallerInput(c) \/ (LinkSteps(c) /\ ~TellReady(c))
  <2>1. UNCHANGED stopping
    BY <1>6 DEF LinkSteps, NoLogin, AskPage, ReadsTheEnd, Connected, TellFailed, PostDropped,
       CallerInput, OpenLink, FirstMessage, Replies, Misfits, Post, Goes, registryVars
  <2> QED BY <2>1
<1> QED BY <1>2, <1>3, <1>4, <1>5, <1>6 DEF RegistryNext

LEMMA StepsKeepThePromise ==
    ASSUME IInv, [Next]_vars
    PROVE  [Promise!TurnsNext]_(Promise!turns)
<1>1. ASSUME NEW c \in Caller, RegistryNext(c) \/ LinkSteps(c) \/ CallerInput(c)
      PROVE  [Promise!TurnsNext]_(Promise!turns)
  <2>1. UNCHANGED <<act, begun>>
    BY <1>1 DEF RegistryNext, LinkSteps, CallerInput, liveVars
  <2>2. Status' = Status /\ On' = On
    BY <2>1, PromiseUntouched
  <2>3. Loose' = Loose \/ Loose' = Loose \cup {c}
    BY <1>1, StopsLoosen DEF IInv
  <2> QED BY <2>2, <2>3 DEF Promise!TurnsNext, Promise!Loosen, Promise!turns
<1>2. ASSUME NEW v \in View, ViewSteps(v) \/ ViewInput(v)
      PROVE  [Promise!TurnsNext]_(Promise!turns)
  <2>1. UNCHANGED <<act, begun, stopping>>
    BY <1>2 DEF ViewSteps, ViewInput, Attach, FramesEnd, Find, PageCloses, registryVars
  <2>2. Status' = Status /\ On' = On /\ Loose' = Loose
    BY <2>1, PromiseUntouched DEF Loose
  <2> QED BY <2>2 DEF Promise!turns
<1>3. ASSUME NEW a \in Act, ActSteps(a) \/ ActInput(a)
      PROVE  [Promise!TurnsNext]_(Promise!turns)
  <2>1. UNCHANGED <<of, stopping>>
    BY <1>3 DEF ActSteps, ActInput, StartAct, AsksForTheTurn, MakesCall, EndsAct, registryVars
  <2>2. Loose' = Loose
    BY <2>1 DEF Loose
  <2>3. CASE StartAct(a)
    <3>1. begun' = begun
          /\ (act' = act \/ \E n : MayAct(a, n) /\ act' = [act EXCEPT ![a] = "placed"])
      BY <2>3 DEF StartAct
    <3>2. CASE act' = act
      BY <2>2, <3>1, <3>2, PromiseUntouched DEF Promise!turns
    <3>3. CASE \E n : MayAct(a, n) /\ act' = [act EXCEPT ![a] = "placed"]
      BY <2>2, <2>3, <3>3, StartTakes DEF Promise!TurnsNext
    <3> QED BY <3>1, <3>2, <3>3
  <2>4. CASE AsksForTheTurn(a)
    <3>1. act[a] = "placed" /\ act' = [act EXCEPT ![a] = "waits"] /\ begun' = begun
      BY <2>4 DEF AsksForTheTurn
    <3>2. Status' = Status /\ On' = On
      BY <2>1, <3>1 DEF Status, On, SessionOf, IInv, LiveTypes
    <3> QED BY <2>2, <3>2 DEF Promise!turns
  <2>5. CASE MakesCall(a) /\ begun[a]
    <3>1. act' = act /\ begun' = begun
      BY <2>5 DEF MakesCall, IInv, LiveTypes
    <3> QED BY <2>2, <3>1, PromiseUntouched DEF Promise!turns
  <2>6. CASE MakesCall(a) /\ ~begun[a]
    BY <2>1, <2>2, <2>6, FirstCallBegins DEF Promise!TurnsNext
  <2>7. CASE EndsAct(a)
    BY <2>1, <2>2, <2>7, EndEnds DEF Promise!TurnsNext
  <2> QED BY <1>3, <2>3, <2>4, <2>5, <2>6, <2>7 DEF ActSteps, ActInput
<1>4. CASE UNCHANGED vars
  <2>1. UNCHANGED <<act, begun, stopping>>
    BY <1>4 DEF vars, liveVars, registryVars
  <2> QED BY <2>1, PromiseUntouched DEF Loose, Promise!turns
<1> QED BY <1>1, <1>2, <1>3, <1>4 DEF Next

\* The acts of a session take turns, whatever link sent them, and no more than
\* the places are taken at a time, while it stands in the table (live.rs:13-17).
THEOREM ActsImplementTurns == Spec => ActsTakeTurns
<1>1. Init => Promise!TurnsInit
  <2> SUFFICES ASSUME Init
               PROVE  Promise!TurnsInit
    OBVIOUS
  <2>1. (\A a \in Act : act[a] = "none") /\ \A c \in Caller : stopping[c] = "no"
    BY DEF Init, LiveInit, RegistryInit
  <2> QED BY <2>1 DEF Promise!TurnsInit, Status, On, Loose, Nobody
<1>2. IInv /\ [Next]_vars => [Promise!TurnsNext]_(Promise!turns)
  BY StepsKeepThePromise
<1> QED BY <1>1, <1>2, HubInv, PTL DEF Spec, ActsTakeTurns, Promise!TurnsSpec
=============================================================================
