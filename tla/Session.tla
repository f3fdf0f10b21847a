------------------------------ MODULE Session ------------------------------
(***************************************************************************)
(* The life of one session: the login, the world, the wait after a dropped *)
(* link and the login after it, with the tool calls that come meanwhile    *)
(* through the session's one bounded queue.                                *)
(*                                                                         *)
(* crates/uoterm-runtime/src/session.rs: SessionHandle, start,             *)
(* wait_to_reconnect, run_session, link_ended, the tool `logout` and the   *)
(* tools that wait.                                                        *)
(*                                                                         *)
(* Abstracted: what a tool does, the packets of the login (it succeeds or  *)
(* fails, before or after it named the character), and the clock: a wait   *)
(* has a level, and a call is slow once a second of its eight is gone      *)
(* before the session takes it.                                            *)
(***************************************************************************)
EXTENDS Naturals, Sequences, FiniteSets

CONSTANTS
    Call,          \* the calls of one behaviour
    CmdQueueCap,   \* CMD_QUEUE_CAP: the messages the queue holds
    Character,     \* the characters of the account
    FirstSlot,     \* the character of the first filled slot
    Title,         \* what the shard may call him that is no character's name
    NoName,        \* the empty name
    Reconnect,     \* the option `reconnect`
    LongestWait,   \* how often RECONNECT_WAIT_GROWTH lengthens the first wait
    MaxFaults      \* bound: links dropped and logins failed

ASSUME NamesType ==
    /\ FirstSlot \in Character
    /\ NoName \notin Character \cup Title
    /\ Title \cap Character = {}
    /\ {"act", "wait", "logout"} \cap Character = {}
ASSUME SessionSizes ==
    /\ CmdQueueCap \in Nat \ {0}
    /\ Reconnect \in BOOLEAN
    /\ LongestWait \in Nat
    /\ MaxFaults \in Nat
    /\ "shutdown" \notin Call

VARIABLES
    \* The session's task.
    phase,        \* "login", "world", "waiting" for the next login, its wait
                  \* "elapsed", "ended"
    login_tx,     \* what the caller of `start` was told: "untold", "ok", "error"
    queue,        \* the command channel: calls, and the word to shut down
    waiters,      \* the calls parked until an answer or their time
    character,    \* opts.character, whom the next login asks for
    played,       \* World::self_state.name
    logged_out,   \* Inner::logged_out
    relog_as,     \* Inner::relog_as
    wait,         \* how often the wait has grown
    \* The callers.
    holder,       \* of the handle: "starting" it, "holds" it, or "gone"
    state,        \* where each call stands with its caller
    tool,         \* which tool it calls
    slow,         \* calls that may be late: a second went by in the queue
    \* The shard, and history.
    plays,        \* the character really in the world
    wanted,       \* whom the session was last told to play
    misled,       \* a run ended while the shard called him by no name of his
    faults        \* how many of the MaxFaults are spent

task == <<phase, login_tx, character, played, logged_out, relog_as, wait>>
callers == <<holder, state, tool, slow>>
shard == <<plays, wanted, misled, faults>>
vars == <<task, queue, waiters, callers, shard>>

Tool == {"act", "wait", "logout"} \cup Character
Shutdown == "shutdown"
Pending == {"sending", "queued", "waiting"}
Fault == faults < MaxFaults /\ faults' = faults + 1

\* Every handle is dropped and no send is under way: recv() gives None.
SendersGone == holder = "gone" /\ \A c \in Call : state[c] # "sending"
HasRoom == Len(queue) < CmdQueueCap
\* Drop for HandleInner tells the session with try_send, so only if it fits.
TryShutdown == queue' = IF HasRoom /\ phase # "ended" THEN Append(queue, Shutdown) ELSE queue

-----------------------------------------------------------------------------
(* The callers: SessionHandle. *)

\* A call that comes to an ended session is told so; any other waits for room.
CallTool(c) ==
    /\ holder = "holds"
    /\ state[c] = "unmade"
    /\ tool' \in {[tool EXCEPT ![c] = t] : t \in Tool}
    /\ state' = [state EXCEPT ![c] = IF phase = "ended" THEN "closed" ELSE "sending"]
    /\ UNCHANGED <<task, queue, waiters, holder, slow, shard>>

Enqueue(c) ==
    /\ state[c] = "sending"
    /\ phase # "ended"
    /\ HasRoom
    /\ queue' = Append(queue, c)
    /\ state' = [state EXCEPT ![c] = "queued"]
    /\ UNCHANGED <<task, waiters, holder, tool, slow, shard>>

\* Slip: a caller whose call timed out has it sent again.
CallTimesOutAndTriesAgain(c) ==
    /\ state[c] \in {"queued", "waiting"}
    /\ c \in slow
    /\ state' = [state EXCEPT ![c] = "sending"]
    /\ UNCHANGED <<task, queue, waiters, holder, tool, slow, shard>>

\* TOOL_CALL_TIMEOUT.  The message stays in the queue, or the call parked.
CallTimesOut(c) ==
    /\ state[c] \in {"queued", "waiting"}
    /\ c \in slow
    /\ state' = [state EXCEPT ![c] = "timed_out"]
    /\ UNCHANGED <<task, queue, waiters, holder, tool, slow, shard>>

\* Slip: `start` hands out its handle whatever the login came to.
HoldsItEitherWay ==
    /\ holder = "starting"
    /\ login_tx # "untold"
    /\ holder' = "holds"
    /\ UNCHANGED <<task, queue, waiters, state, tool, slow, shard>>

\* `start` returns: with the handle, or with the error and the handle dropped.
StartReturns ==
    /\ holder = "starting"
    /\ login_tx # "untold"
    /\ \/ login_tx = "ok" /\ holder' = "holds" /\ UNCHANGED queue
       \/ login_tx = "error" /\ holder' = "gone" /\ TryShutdown
    /\ UNCHANGED <<task, waiters, state, tool, slow, shard>>

\* Whoever awaited `start` goes away, or the handle is dropped with no call under
\* way, or the session is closed with shutdown(), which waits for room.
HandleDropped ==
    /\ \/ holder = "starting"
       \/ holder = "holds" /\ \A c \in Call : state[c] \notin Pending
    /\ holder' = "gone"
    /\ TryShutdown
    /\ UNCHANGED <<task, waiters, state, tool, slow, shard>>

Close ==
    /\ holder = "holds"
    /\ HasRoom \/ phase = "ended"
    /\ holder' = "gone"
    /\ TryShutdown
    /\ UNCHANGED <<task, waiters, state, tool, slow, shard>>

-----------------------------------------------------------------------------
(* The end of a run, and what comes next: the loop of `start`. *)

\* Slip: only a name for the next login tells a logout from a lost link.
LinkEndedByName == IF relog_as # NoName THEN "relog" ELSE "lost_link"

LinkEnded ==
    IF logged_out THEN IF relog_as # NoName THEN "relog" ELSE "logged_out"
    ELSE "lost_link"

\* Slip: a new login always asks for the character of the options.
NextCharacterOfOptions(end, name) == character

\* A relog asks for the character it named, any other login for the one he
\* played, if he got as far as a name.
NextCharacter(end, name) ==
    IF end = "relog" THEN relog_as
    ELSE IF name # NoName THEN name ELSE character

\* Slip: the end of a run leaves the calls in its queue to their time-outs.
LetGoOfWaitersOnly(end, over) ==
    [c \in Call |-> IF state[c] = "waiting" THEN "closed" ELSE state[c]]

\* The calls parked in a run are let go with it; those in the queue live on
\* until the session ends for good.
LetGo(end, over) ==
    [c \in Call |->
        IF \/ state[c] = "waiting"
           \/ over /\ state[c] \in Pending
        THEN "closed" ELSE state[c]]

\* The run ended as `end`, its caller told `told`, with the world's name `name`.
EndRun(end, told, name) ==
    LET again == \/ end = "relog"
                 \/ Reconnect /\ told # "untold" /\ end \in {"lost_link", "network"}
    IN  /\ phase' = IF again THEN "waiting" ELSE "ended"
        /\ login_tx' = told
        /\ character' = IF again THEN NextCharacter(end, name) ELSE character
        /\ played' = IF again THEN NoName ELSE name
        /\ wanted' = IF end = "relog" THEN relog_as ELSE wanted
        /\ misled' = (end # "relog" /\ (misled \/ name \in Title))
        /\ state' = LetGo(end, ~again)
        /\ waiters' = {}
        /\ plays' = NoName
        /\ UNCHANGED <<logged_out, relog_as, wait, holder, tool, slow>>

-----------------------------------------------------------------------------
(* The login. *)

\* pick_character: the first slot stands in for a name nobody has.  The first
\* login may ask a screen instead.
PickCharacter == IF character \in Character THEN character ELSE FirstSlot
MayPlay == IF login_tx = "untold" THEN Character ELSE {PickCharacter}

LoginSucceeds ==
    /\ phase = "login"
    /\ \E chosen \in MayPlay :
        /\ played' = chosen
        /\ plays' = chosen
        /\ wanted' = IF login_tx = "untold" THEN chosen ELSE wanted
    /\ login_tx' = IF login_tx = "untold" THEN "ok" ELSE login_tx
    /\ phase' = "world"
    /\ UNCHANGED <<character, logged_out, relog_as, wait, queue, waiters, callers,
                   misled, faults>>

\* A failure of the link is worth another try; a refusal of the shard or a fault
\* of the options is not.  The caller of the first login hears of either.
LoginFails ==
    /\ phase = "login"
    /\ Fault
    /\ \E name \in {played} \cup MayPlay, end \in {"network", "refused"} :
        EndRun(end, IF login_tx = "untold" THEN "error" ELSE login_tx, name)
    /\ UNCHANGED queue

\* The login reads no calls, and it may take longer than a call's time.
LoginTakesLong ==
    /\ phase = "login"
    /\ \E c \in Call \ slow : state[c] = "queued"
    /\ slow' = slow \cup {c \in Call : state[c] = "queued"}
    /\ UNCHANGED <<task, queue, waiters, holder, state, tool, shard>>

-----------------------------------------------------------------------------
(* The world: the loop of run_session. *)

Reply(c, how) == state' = [state EXCEPT ![c] = IF @ \in Pending THEN how ELSE @]

\* Each tool is carried out, whether its caller still listens or not.
CarryOut(c) ==
    /\ \/ /\ tool[c] = "act"
          /\ Reply(c, "answered")
          /\ UNCHANGED <<waiters, logged_out, relog_as>>
       \/ /\ tool[c] = "wait"
          /\ Reply(c, "waiting")
          /\ waiters' = waiters \cup {c}
          /\ UNCHANGED <<logged_out, relog_as>>
       \/ /\ tool[c] \in {"logout"} \cup Character
          /\ Reply(c, "answered")
          /\ logged_out' = TRUE
          /\ relog_as' = IF tool[c] = "logout" THEN NoName ELSE tool[c]
          /\ UNCHANGED waiters
    /\ UNCHANGED <<phase, login_tx, character, played, wait, holder, tool, slow, shard>>

TakeCommand ==
    /\ phase = "world"
    /\ \/ /\ queue # <<>>
          /\ queue' = Tail(queue)
          /\ \/ Head(queue) = Shutdown /\ EndRun("shutdown", login_tx, played)
                  /\ UNCHANGED faults
             \/ Head(queue) # Shutdown /\ CarryOut(Head(queue))
       \/ /\ queue = <<>> /\ SendersGone
          /\ EndRun("shutdown", login_tx, played)
          /\ UNCHANGED <<queue, faults>>

\* What it waited for came, or its time ran out: within WAIT_MAX_MS.
AnswerWaiter(c) ==
    /\ phase = "world"
    /\ c \in waiters
    /\ waiters' = waiters \ {c}
    /\ Reply(c, "answered")
    /\ UNCHANGED <<task, queue, holder, tool, slow, shard>>

LinkDrops ==
    /\ phase = "world"
    /\ Fault
    /\ EndRun(LinkEnded, login_tx, played)
    /\ UNCHANGED queue

LogoutGranted ==
    /\ phase = "world"
    /\ logged_out
    /\ EndRun(LinkEnded, login_tx, played)
    /\ UNCHANGED <<queue, faults>>

\* The shard says what he is called: a title on his paperdoll, a prefix in his
\* property list, a disguise in his status, or his own name again.
ShardNamesHim ==
    /\ phase = "world"
    /\ played' \in Title \cup {plays}
    /\ UNCHANGED <<phase, login_tx, character, logged_out, relog_as, wait, queue,
                   waiters, callers, shard>>

-----------------------------------------------------------------------------
(* The wait: wait_to_reconnect. *)

RefuseCall ==
    /\ phase \in {"waiting", "elapsed"}
    /\ queue # <<>>
    /\ Head(queue) # Shutdown
    /\ queue' = Tail(queue)
    /\ Reply(Head(queue), "refused")
    /\ UNCHANGED <<task, waiters, holder, tool, slow, shard>>

\* Slip: the wait ends for the word to shut down only.
WaitClosedByWord ==
    /\ phase \in {"waiting", "elapsed"}
    /\ queue # <<>> /\ Head(queue) = Shutdown
    /\ phase' = "ended"
    /\ state' = LetGo("shutdown", TRUE)
    /\ UNCHANGED <<login_tx, character, played, logged_out, relog_as, wait, queue,
                   waiters, holder, tool, slow, shard>>

WaitClosed ==
    /\ phase \in {"waiting", "elapsed"}
    /\ \/ queue # <<>> /\ Head(queue) = Shutdown
       \/ queue = <<>> /\ SendersGone
    /\ phase' = "ended"
    /\ state' = LetGo("shutdown", TRUE)
    /\ UNCHANGED <<login_tx, character, played, logged_out, relog_as, wait, queue,
                   waiters, holder, tool, slow, shard>>

\* Slip: each wait is longer than the last, without end.
WaitGrowsForEver == wait' = wait + 1

WaitGrows == wait' = IF wait < LongestWait THEN wait + 1 ELSE wait

\* The wait is seconds long: by its end the queue was served, the caller of
\* `start` has read its answer, and a word to shut down was heeded.
WaitElapses ==
    /\ phase = "waiting"
    /\ queue = <<>> /\ ~SendersGone
    /\ holder # "starting"
    /\ phase' = "elapsed"
    /\ UNCHANGED <<login_tx, character, played, logged_out, relog_as, wait, queue,
                   waiters, callers, shard>>

\* What comes at its last moment may still go first, or be left to the login:
\* select! takes either.
WaitEnds ==
    /\ phase = "elapsed"
    /\ phase' = "login"
    /\ WaitGrows
    /\ logged_out' = FALSE
    /\ relog_as' = NoName
    /\ UNCHANGED <<login_tx, character, played, queue, waiters, callers, shard>>

-----------------------------------------------------------------------------
Init ==
    /\ phase = "login"
    /\ login_tx = "untold"
    /\ queue = <<>>
    /\ waiters = {}
    /\ character \in Character \cup {NoName}
    /\ played = NoName
    /\ logged_out = FALSE
    /\ relog_as = NoName
    /\ wait = 0
    /\ holder = "starting"
    /\ state = [c \in Call |-> "unmade"]
    /\ tool = [c \in Call |-> "act"]
    /\ slow = {}
    /\ plays = NoName
    /\ wanted = NoName
    /\ misled = FALSE
    /\ faults = 0

Next ==
    \/ \E c \in Call : CallTool(c) \/ Enqueue(c) \/ CallTimesOut(c) \/ AnswerWaiter(c)
    \/ StartReturns \/ HandleDropped \/ Close
    \/ LoginSucceeds \/ LoginFails \/ LoginTakesLong
    \/ TakeCommand \/ LinkDrops \/ LogoutGranted \/ ShardNamesHim
    \/ RefuseCall \/ WaitClosed \/ WaitElapses \/ WaitEnds

Spec == Init /\ [][Next]_vars

\* The task runs: it takes commands, its time-outs are on the clock, and a login
\* has a deadline for each answer, so it comes to an end.
Fairness ==
    /\ WF_vars(LoginSucceeds \/ LoginFails)
    /\ WF_vars(TakeCommand)
    /\ WF_vars(RefuseCall)
    /\ WF_vars(WaitClosed)
    /\ WF_vars(WaitElapses)
    /\ WF_vars(WaitEnds)
    /\ WF_vars(StartReturns)
    /\ \A c \in Call : WF_vars(Enqueue(c)) /\ WF_vars(AnswerWaiter(c))

FairSpec == Spec /\ Fairness

-----------------------------------------------------------------------------
(* Properties. *)

\* Every variable holds a value of its kind.
TypeOK ==
    /\ phase \in {"login", "world", "waiting", "elapsed", "ended"}
    /\ login_tx \in {"untold", "ok", "error"}
    /\ queue \in Seq(Call \cup {Shutdown})
    /\ Len(queue) <= CmdQueueCap
    /\ waiters \subseteq Call
    /\ character \in Character \cup Title \cup {NoName}
    /\ played \in Character \cup Title \cup {NoName}
    /\ logged_out \in BOOLEAN
    /\ relog_as \in Character \cup {NoName}
    /\ wait \in 0 .. LongestWait
    /\ holder \in {"starting", "holds", "gone"}
    /\ state \in [Call -> {"unmade", "answered", "refused", "closed", "timed_out"} \cup Pending]
    /\ tool \in [Call -> Tool]
    /\ slow \subseteq Call
    /\ plays \in Character \cup {NoName}
    /\ wanted \in Character \cup {NoName}
    /\ misled \in BOOLEAN
    /\ faults \in 0 .. MaxFaults

\* Through dropped links, failed logins and logouts for another character, he
\* is in the world as the character he was last told to be: the one played
\* when the link broke, or the one named by the logout (the loop of start).
\* So it is as long as no link broke while the shard called him otherwise.
PlaysWhoWasNamed == phase = "world" /\ ~misled => plays = wanted

\* What the comment in the loop of start says, without that condition: a person
\* whose link broke logs in to the character he played.
RelogsAsPlayed == phase = "world" => plays = wanted

\* A session logs in by itself only when it was in the world once: a first
\* login that failed, or whose caller left, is not tried again.  (The loop goes
\* on to the wait even then; only its dropped handle ends it there.)
OnlyThePlayedLogIn ==
    [][phase # "login" /\ phase' = "login" => login_tx = "ok"]_vars

\* Once the last word was a plain logout, no login follows, whether the shard
\* grants it or the link breaks first.
LogoutIsForGood ==
    [][phase = "world" /\ logged_out /\ relog_as = NoName => phase' # "waiting"]_vars

\* What callers are promised, whatever becomes of the link: a call has one
\* outcome and is taken up at most once, and not after its caller was told that
\* it was answered, refused or let go (SessionHandle::call, the command queue
\* that outlives each run, and the end of a session; contract Calls).
Outcome == [c \in Call |-> IF state[c] \in Pending THEN "under_way" ELSE state[c]]
Sent == {c \in Call : state[c] = "sending" \/ \E i \in 1 .. Len(queue) : queue[i] = c}
Open == IF phase = "ended" THEN {} ELSE Sent
Contract == INSTANCE Calls WITH outcome <- Outcome, open <- Open
CallsAreKept == Contract!CallsSpec

\* No caller hangs: each call is answered, refused, let go or timed out,
\* whatever becomes of the link while it is on its way.
EveryCallEnds == \A c \in Call : state[c] \in Pending ~> state[c] \notin Pending

\* A session nobody holds ends, wherever the news of it finds it.
CloseEndsIt == holder = "gone" ~> phase = "ended"
=============================================================================
