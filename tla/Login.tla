-------------------------------- MODULE Login --------------------------------
(***************************************************************************)
(* The callers of a login: a web page on its login link, which carries the *)
(* questions of the login to the page and its replies back, and a POST of  *)
(* an agent, which is dropped with its caller.                             *)
(*                                                                         *)
(* crates/uoterm-runtime/src/api/login.rs: run_login and PageLogin;        *)
(* api/mod.rs: create_session; config.rs: LoginQuestion::answer.           *)
(***************************************************************************)
EXTENDS Registry

VARIABLES
    link,  \* the handler: "off", "first", "connecting", "telling" or "done"
    page,  \* the caller is at the other end: "here" or "gone"
    here,  \* PageLogin::here
    told   \* what the handler's last letter said: "no", "ready" or "failed"

callerVars == <<link, page, here, told>>

LoginInit ==
    /\ link = [c \in Caller |-> "off"] /\ page = [c \in Caller |-> "here"]
    /\ here = [c \in Caller |-> TRUE] /\ told = [c \in Caller |-> "no"]

Connecting(c) == link[c] = "connecting"

\* leave: the character list is left, a shard question is let go.
LetGo(c) == IF task[c] = "pickCharacter" THEN "leave" ELSE "dropped"

\* Slip: the open question is kept for a page that may come back.
LeaveForLater(c) ==
    /\ here' = [here EXCEPT ![c] = FALSE] /\ UNCHANGED <<question, reply>>
\* The page is gone and answers nothing: its question, if any, is left.
Leave(c) ==
    /\ here' = [here EXCEPT ![c] = FALSE]
    /\ question' = [question EXCEPT ![c] = "none"]
    /\ reply' = [reply EXCEPT ![c] = IF question[c] = "none" THEN @ ELSE LetGo(c)]

\* Slip: a page that is gone is asked as well.
AskWhoever(c) == question' = [question EXCEPT ![c] = "open"] /\ UNCHANGED <<here, reply>>
\* PageLogin::ask.  A socket may take a letter its page never reads; a slow
\* page may leave it untaken for LIVE_SEND_TIMEOUT.
Ask(c) ==
    \/ /\ here[c] /\ question' = [question EXCEPT ![c] = "open"]
       /\ UNCHANGED <<here, reply>>
    \/ Leave(c)

-----------------------------------------------------------------------------
(* The login link. *)

OpenLink(c) ==
    /\ Input /\ link[c] = "off" /\ c \in Screen
    /\ link' = [link EXCEPT ![c] = "first"]
    /\ UNCHANGED <<registryVars, page, here, told>>

\* The first message is a login, of a character by name or of none.
FirstMessage(c) ==
    /\ Input /\ link[c] = "first" /\ page[c] = "here"
    /\ \E name \in BOOLEAN : named' = [named EXCEPT ![c] = name]
    /\ Connect(c) /\ link' = [link EXCEPT ![c] = "connecting"]
    /\ UNCHANGED <<sent, question, reply, registered, stopping, page, here, told>>

\* It is something else, LOGIN_FIRST_WAIT passes, or the page went.
NoLogin(c) ==
    /\ link[c] = "first" /\ link' = [link EXCEPT ![c] = "done"]
    /\ told' = [told EXCEPT ![c] = IF page[c] = "here" THEN "failed" ELSE @]
    /\ UNCHANGED <<registryVars, page, here, inputs>>

AskPage(c) ==
    /\ Connecting(c) /\ question[c] = "queued" /\ Ask(c)
    /\ UNCHANGED <<task, named, sent, result, registered, stopping, link, page, told, inputs>>

Fitting(c) == IF task[c] = "pickShard" THEN {"pick"} ELSE Request \cup {"leave"}
MayRead(c) == Connecting(c) /\ here[c] /\ page[c] = "here" /\ question[c] = "open"

\* PageLogin::read of a reply that fits the open question.
Replies(c) ==
    /\ Input /\ MayRead(c)
    /\ \E answer \in Fitting(c) : reply' = [reply EXCEPT ![c] = answer]
    /\ question' = [question EXCEPT ![c] = "none"]
    /\ UNCHANGED <<task, named, sent, result, registered, stopping, callerVars>>

\* Of one that does not: the question goes to the page again.
Misfits(c) ==
    /\ MayRead(c) /\ Ask(c)
    /\ UNCHANGED <<task, named, sent, result, registered, stopping, link, page, told, inputs>>

\* Of the end of the page's messages.
ReadsTheEnd(c) ==
    /\ Connecting(c) /\ c \in Screen /\ here[c] /\ page[c] = "gone"
    /\ IF question[c] = "open" THEN Leave(c)
       ELSE here' = [here EXCEPT ![c] = FALSE] /\ UNCHANGED <<question, reply>>
    /\ UNCHANGED <<task, named, sent, result, registered, stopping, link, page, told, inputs>>

\* connect comes back: its insert is done.
Connected(c) ==
    /\ Connecting(c) /\ result[c] = "ok"
    /\ Insert(c) /\ link' = [link EXCEPT ![c] = "telling"]
    /\ UNCHANGED <<task, loginVars, result, stopping, page, here, told, inputs>>

\* Slip: the session of a page that did not take the letter is left to it.
LetItBe(c) == UNCHANGED <<registered, stopping>>
\* Slip: the session leaves the table, and nothing tells it to end.
ForgetUntold(c) == registered' = registered \ {c} /\ UNCHANGED stopping
\* PageLogin::end of a session the page cannot learn of.
StopUntold(c) == Remove(c, "untold")

\* PageLogin::end of a session; create_session answers without a look.
TellReady(c) ==
    /\ link[c] = "telling" /\ link' = [link EXCEPT ![c] = "done"]
    /\ \/ here[c] /\ told' = [told EXCEPT ![c] = "ready"] /\ UNCHANGED <<registered, stopping>>
       \/ c \in Screen /\ StopUntold(c) /\ UNCHANGED told
    /\ UNCHANGED <<task, loginVars, result, page, here, inputs>>

\* PageLogin::fail.
TellFailed(c) ==
    /\ Connecting(c) /\ result[c] = "failed" /\ link' = [link EXCEPT ![c] = "done"]
    /\ told' = [told EXCEPT ![c] = IF here[c] THEN "failed" ELSE @]
    /\ UNCHANGED <<registryVars, page, here, inputs>>

-----------------------------------------------------------------------------
(* The POST of an agent, and the end of a caller. *)

Post(c) ==
    /\ Input /\ link[c] = "off" /\ c \notin Screen
    /\ Connect(c) /\ link' = [link EXCEPT ![c] = "connecting"]
    /\ UNCHANGED <<loginVars, registered, stopping, page, here, told>>

Goes(c) ==
    /\ Input /\ link[c] \notin {"off", "done"} /\ page[c] = "here"
    /\ page' = [page EXCEPT ![c] = "gone"]
    /\ UNCHANGED <<registryVars, link, here, told>>

\* The server drops the handler of a POST whose caller hung up.
PostDropped(c) ==
    /\ c \notin Screen /\ Connecting(c) /\ page[c] = "gone"
    /\ link' = [link EXCEPT ![c] = "done"]
    /\ UNCHANGED <<registryVars, page, here, told, inputs>>

LoginTypeOK ==
    /\ link \in [Caller -> {"off", "first", "connecting", "telling", "done"}]
    /\ page \in [Caller -> {"here", "gone"}] /\ here \in [Caller -> BOOLEAN]
    /\ told \in [Caller -> {"no", "ready", "failed"}]
    /\ \A c \in Caller : question[c] = "open" => here[c]
=============================================================================
