--------------------------------- MODULE Hub ---------------------------------
(***************************************************************************)
(* One process: callers log in, sessions stand in the table until they are *)
(* stopped, and live links work on them.  Composes Registry, Login and     *)
(* Live, and says what holds across them.                                  *)
(***************************************************************************)
EXTENDS Login, Live

CONSTANT Watched  \* one act, any: they differ by sender only

ASSUME WatchedIsOne == Watched \in Act

vars == <<registryVars, callerVars, liveVars, inputs>>

Init == RegistryInit /\ LoginInit /\ LiveInit

\* Somebody has a SessionHandle of c: the table, a connect under way, a stop
\* that waits for room, a live link or an act.
Held(c) ==
    \/ c \in registered \/ Removed(c) \/ link[c] \in {"connecting", "telling"}
    \/ \E v \in View : of[v] = c /\ view[v] \in {"found", "open"}
    \/ \E a \in Act : SessionOf(a) = c /\ UnderWay(a)

\* The command queue closes with the last handle, and the session ends.
LastHandleGoes(c) == ~Held(c) /\ EndTask(c) /\ UNCHANGED inputs

TaskSteps(c) == ServerList(c) \/ CharacterList(c) \/ Answered(c) \/ Fails(c) \/ Enters(c)
TaskEnds(c) == TakesShutdown(c) \/ LastHandleGoes(c)
RegistryNext(c) ==
    /\ \/ TaskSteps(c) \/ TaskEnds(c) \/ SendShutdown(c)
       \/ Disconnect(c) \/ StopCut(c) \/ EndsByItself(c)
    /\ UNCHANGED <<callerVars, liveVars>>

LinkSteps(c) ==
    /\ \/ NoLogin(c) \/ AskPage(c) \/ ReadsTheEnd(c) \/ Connected(c) \/ TellReady(c)
       \/ TellFailed(c) \/ PostDropped(c)
    /\ UNCHANGED liveVars
CallerInput(c) ==
    /\ OpenLink(c) \/ FirstMessage(c) \/ Replies(c) \/ Misfits(c) \/ Post(c) \/ Goes(c)
    /\ UNCHANGED liveVars

ViewSteps(v) == (Attach(v) \/ FramesEnd(v)) /\ UNCHANGED callerVars
ViewInput(v) == (Find(v) \/ PageCloses(v)) /\ UNCHANGED callerVars
ActSteps(a) == (AsksForTheTurn(a) \/ MakesCall(a) \/ EndsAct(a)) /\ UNCHANGED callerVars
ActInput(a) == StartAct(a) /\ UNCHANGED callerVars

Next ==
    \/ \E c \in Caller : RegistryNext(c) \/ LinkSteps(c) \/ CallerInput(c)
    \/ \E v \in View : ViewSteps(v) \/ ViewInput(v)
    \/ \E a \in Act : ActSteps(a) \/ ActInput(a)

Spec == Init /\ [][Next]_vars

\* Tasks of the runtime are scheduled, a shard that is silent runs into the
\* login's deadline, and a stop whose caller stays finds room for its Shutdown:
\* the session takes its commands in order.  No page, agent or shard owes an
\* input.
FairSpec ==
    /\ Spec
    /\ \A c \in Caller :
        /\ WF_vars(TaskSteps(c) /\ UNCHANGED <<callerVars, liveVars>>)
        /\ WF_vars((TaskEnds(c) \/ SendShutdown(c)) /\ UNCHANGED <<callerVars, liveVars>>)
        /\ WF_vars(LinkSteps(c))
    /\ \A v \in View : WF_vars(ViewSteps(v))
    /\ \A a \in Act : WF_vars(ActSteps(a))

-----------------------------------------------------------------------------
(* Properties. *)

\* Every variable has its type, a question is open only for a page the link
\* knows to be there, the table holds no session still logging in, and an act
\* holds a place and a turn of one line (login.rs, live.rs).
TypeOK == RegistryTypeOK /\ LoginTypeOK /\ LiveTypeOK

\* A page that never learnt of its session leaves none behind: once its link
\* is done without "ready", no session of that login stays in the table
\* (login.rs:19, 181-182).
StoppedOrTold ==
    \A c \in Caller : link[c] = "done" /\ told[c] # "ready" => c \notin registered

\* What the links promise of an act, of its session, and of those stopped.
Status ==
    [a \in Act |-> CASE act[a] = "none" -> "none" [] act[a] = "over" -> "over"
                     [] OTHER -> IF begun[a] THEN "begun" ELSE "taken"]
On == [a \in Act |-> IF act[a] = "none" THEN Nobody ELSE SessionOf(a)]
Loose == {c \in Caller : stopping[c] # "no"}

\* The acts of a session take turns, whatever link sent them, and no more than
\* the places are taken at a time, while it stands in the table (live.rs:13-17).
Promise == INSTANCE Turns WITH status <- Status, on <- On, loose <- Loose
ActsTakeTurns == Promise!TurnsSpec

\* A login whose caller is gone comes to its end, whatever the shard and the
\* task were waiting for (login.rs:16-18).
LeftLoginEnds == \A c \in Caller : page[c] = "gone" ~> link[c] = "done"

\* A session nobody was told of, and one that was stopped, does not play on
\* as a ghost: its task ends, unless the stop was dropped half way and a live
\* link still holds it (login.rs:19; manager.rs:201-207).
Nobodys(c) == stopping[c] # "no" \/ (link[c] = "done" /\ told[c] # "ready")
StillHeld(c) == stopping[c] = "cut" /\ \E v \in View : of[v] = c /\ view[v] = "open"
NobodysSessionEnds ==
    \A c \in Caller : Nobodys(c) ~> task[c] \in {"none", "ended"} \/ StillHeld(c)

\* An act that was taken is carried to its end, though its page closes or its
\* session ends (live.rs:13-15, 250-252).
ActsEnd == act[Watched] = "placed" ~> act[Watched] = "over"
=============================================================================
