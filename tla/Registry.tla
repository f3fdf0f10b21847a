------------------------------ MODULE Registry ------------------------------
(***************************************************************************)
(* The sessions of one process: the task each login starts, the table the  *)
(* others find a session in, and the stop that takes it out.               *)
(*                                                                         *)
(* crates/uoterm-runtime/src/manager.rs: Runtime::connect, get and stop;   *)
(* session.rs: start, and login_steps as far as it asks a screen, waits    *)
(* for the shard and answers the caller.  What a session does in the world *)
(* is Session and the modules beside it; here it plays until it ends.      *)
(***************************************************************************)
EXTENDS Integers, FiniteSets

CONSTANTS
    Caller,       \* who asks for a session, once each; names that session too
    Screen,       \* the callers with a LoginPicker: the login asks them
    MaxSessions,  \* Runtime::max
    MaxInputs     \* bound: what pages, callers and the shard do unasked

ASSUME RegistrySizes ==
    Screen \subseteq Caller /\ MaxSessions \in Nat \ {0} /\ MaxInputs \in Nat

VARIABLES
    task,        \* where the session's task is
    named,       \* the options name a character of the account
    sent,        \* the character request the shard has still to answer
    question,    \* what the login asked its screen: "none", "queued" or "open"
    reply,       \* what the screen answered
    result,      \* what login_tx carried: "none", "ok" or "failed"
    registered,  \* the keys of Runtime::sessions
    stopping,    \* Runtime::stop: "no", "asked" of an agent or "untold" by a login
                 \* link, then its Shutdown is "sent", or the stop is "cut"
    inputs       \* how many of the MaxInputs are spent

registryVars == <<task, named, sent, question, reply, result, registered, stopping>>
loginVars == <<named, sent, question, reply>>

Stage == {"none", "servers", "pickShard", "game", "pickCharacter", "playing", "ended"}
Request == {"play", "make", "delete"}
Reply == {"none", "pick", "leave", "dropped"} \cup Request

Input == inputs < MaxInputs /\ inputs' = inputs + 1
Asking(c) == task[c] \in {"pickShard", "pickCharacter"}
Reading(c) == task[c] \in {"servers", "game"}

RegistryInit ==
    /\ task = [c \in Caller |-> "none"]
    /\ named = [c \in Caller |-> FALSE]
    /\ sent = [c \in Caller |-> "none"]
    /\ question = [c \in Caller |-> "none"] /\ reply = [c \in Caller |-> "none"]
    /\ result = [c \in Caller |-> "none"]
    /\ registered = {} /\ stopping = [c \in Caller |-> "no"]
    /\ inputs = 0

-----------------------------------------------------------------------------
(* Runtime::connect is its check, the login of the task, and its insert.   *)

MayConnect == Cardinality(registered) < MaxSessions

\* connect up to the spawn of start; no session when the table is full.
Connect(c) ==
    /\ task' = IF MayConnect THEN [task EXCEPT ![c] = "servers"] ELSE task
    /\ result' = IF MayConnect THEN result ELSE [result EXCEPT ![c] = "failed"]

Insert(c) == registered' = registered \cup {c}

\* stop: the session leaves the table; its Shutdown waits for room in the
\* command queue.
Remove(c, why) ==
    /\ registered' = registered \ {c}
    /\ stopping' = IF c \in registered THEN [stopping EXCEPT ![c] = why] ELSE stopping
Removed(c) == stopping[c] \in {"asked", "untold"}

\* An agent's `disconnect`.
Disconnect(c) ==
    /\ Input /\ c \in registered /\ Remove(c, "asked")
    /\ UNCHANGED <<task, loginVars, result>>

\* The Shutdown finds room, or the request of the agent is dropped before that.
SendShutdown(c) ==
    /\ Removed(c) /\ stopping' = [stopping EXCEPT ![c] = "sent"]
    /\ UNCHANGED <<task, loginVars, result, registered, inputs>>
StopCut(c) ==
    /\ Input /\ stopping[c] = "asked" /\ stopping' = [stopping EXCEPT ![c] = "cut"]
    /\ UNCHANGED <<task, loginVars, result, registered>>

-----------------------------------------------------------------------------
(* The login of the task. *)

AskScreen(c, stage) ==
    /\ task' = [task EXCEPT ![c] = stage]
    /\ question' = [question EXCEPT ![c] = "queued"]
    /\ UNCHANGED <<named, sent, reply>>

\* pick_shard: asks a screen unless the options name one or there is one.
ServerList(c) ==
    /\ task[c] = "servers"
    /\ \/ c \in Screen /\ AskScreen(c, "pickShard")
       \/ task' = [task EXCEPT ![c] = "game"] /\ UNCHANGED loginVars
    /\ UNCHANGED <<result, registered, stopping, inputs>>

\* pick_character finds a slot that is filled.
PlaysAsNamed(c) ==
    /\ sent' = [sent EXCEPT ![c] = "play"]
    /\ UNCHANGED <<task, named, question, reply>>

\* character_request: asks a screen, unless the options name a character of
\* the list and the shard refused nothing.  A shard refuses what was sent.
CharacterList(c) ==
    /\ task[c] = "game" /\ IF sent[c] = "none" THEN UNCHANGED inputs ELSE Input
    /\ UNCHANGED <<result, registered, stopping>>
    /\ \E refused \in {FALSE, sent[c] # "none"} :
        IF c \in Screen /\ (~named[c] \/ refused)
        THEN AskScreen(c, "pickCharacter") ELSE PlaysAsNamed(c)

\* The screen's answer: a pick or a request goes to the shard.  `Leave`, and a
\* question let go, end the login.
Answered(c) ==
    /\ Asking(c) /\ reply[c] \in {"pick"} \cup Request
    /\ task' = [task EXCEPT ![c] = "game"]
    /\ sent' = [sent EXCEPT ![c] = IF reply[c] = "pick" THEN @ ELSE reply[c]]
    /\ reply' = [reply EXCEPT ![c] = "none"]
    /\ UNCHANGED <<named, question, result, registered, stopping, inputs>>

\* start ends with the login's error: the screen left, the shard refused the
\* account, closed, or let the deadline pass.
Fails(c) ==
    /\ Reading(c) \/ (Asking(c) /\ reply[c] \in {"leave", "dropped"})
    /\ task' = [task EXCEPT ![c] = "ended"] /\ result' = [result EXCEPT ![c] = "failed"]
    /\ reply' = [reply EXCEPT ![c] = "none"] /\ sent' = [sent EXCEPT ![c] = "none"]
    /\ UNCHANGED <<named, question, registered, stopping, inputs>>

\* The shard puts a character played or made in the world.
Enters(c) ==
    /\ task[c] = "game" /\ sent[c] \in {"play", "make"}
    /\ task' = [task EXCEPT ![c] = "playing"] /\ result' = [result EXCEPT ![c] = "ok"]
    /\ sent' = [sent EXCEPT ![c] = "none"]
    /\ UNCHANGED <<named, question, reply, registered, stopping, inputs>>

-----------------------------------------------------------------------------
(* The end of the task. *)

EndTask(c) ==
    /\ task[c] = "playing" /\ task' = [task EXCEPT ![c] = "ended"]
    /\ UNCHANGED <<loginVars, result, registered, stopping>>

TakesShutdown(c) == stopping[c] = "sent" /\ EndTask(c) /\ UNCHANGED inputs
\* It logs out, or loses a link it does not take up again: it stays in the
\* table.
EndsByItself(c) == Input /\ EndTask(c)

RegistryTypeOK ==
    /\ task \in [Caller -> Stage] /\ named \in [Caller -> BOOLEAN]
    /\ sent \in [Caller -> Request \cup {"none"}]
    /\ question \in [Caller -> {"none", "queued", "open"}]
    /\ reply \in [Caller -> Reply]
    /\ result \in [Caller -> {"none", "ok", "failed"}]
    /\ registered \subseteq Caller
    /\ stopping \in [Caller -> {"no", "asked", "untold", "sent", "cut"}]
    /\ inputs \in 0..MaxInputs
    /\ \A c \in Caller :
        /\ reply[c] # "none" => Asking(c) /\ question[c] = "none"
        /\ question[c] # "none" => Asking(c) /\ c \in Screen
        /\ c \in registered => task[c] \in {"playing", "ended"} /\ stopping[c] = "no"
        /\ stopping[c] # "no" => result[c] = "ok"
=============================================================================
