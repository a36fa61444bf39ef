------------------------------- MODULE Session -------------------------------
(***************************************************************************)
(* What goes over the WebSocket (src/app/ha_connection.py): the commands   *)
(* of the setup task, of the registry refresh and of the callers of        *)
(* call_service, the answers that find their way back by id, and the state *)
(* events, all read by one reader in the order Home Assistant sent them.   *)
(*                                                                         *)
(* The lifecycle is HAConnection's, here reduced to where the newest       *)
(* WebSocket is; a task that waits has exactly one command under way.      *)
(***************************************************************************)
EXTENDS Naturals, Sequences, SequencesExt

CONSTANTS Callers,       \* the POST /mcp handlers that call a service, once each
          Users,         \* the Home Assistant users a token can belong to
          Owner,         \* Home Assistant's owner
          None,          \* no user
          MaxSockets,    \* bound: WebSockets opened
          MaxChanges,    \* bound: state changes in Home Assistant
          MaxRefreshes,  \* bound: commands of the registry refresh
          MaxIds         \* bound: ids in use at the same time

ASSUME SessionAssumption ==
    /\ Owner \in Users
    /\ {None, "unusable"} \cap Users = {}
    /\ {"setup", "refresh"} \cap Callers = {}
    /\ {MaxSockets, MaxChanges, MaxRefreshes, MaxIds} \subseteq Nat

VARIABLES
    link,        \* the newest WebSocket: "down", "greet", "open", "broken", "left"
    sockets,     \* how many were opened; the newest is the one with that number
    ws,          \* _ws: a WebSocket's number, 0 for None
    connected,   \* conn_state = "connected"
    token,       \* whose token the credentials hold
    user_id,     \* user_id; is_owner is user_id = Owner
    pending,     \* _pending: the task whose command has this id
    cmd,         \* for each waiting task, its command and what came of it
    outcome,     \* what each caller's call came to
    states,      \* conn.states, as the version of Home Assistant's states
    refreshes,   \* how many of MaxRefreshes there were
    out,         \* frames on their way to Home Assistant, or being handled there
    inbox,       \* frames on their way to the reader
    subscribed,  \* Home Assistant sends this WebSocket its events
    version,     \* the version of Home Assistant's states
    executed     \* the callers whose service call Home Assistant carried out

connVars  == <<link, sockets, ws, connected, token>>
cmdVars   == <<pending, cmd>>
wireVars  == <<out, inbox, subscribed>>
stateVars == <<user_id, states>>
haVars    == <<version, executed>>
vars == <<connVars, cmdVars, wireVars, stateVars, haVars, outcome, refreshes>>

Tasks == {"setup", "refresh"} \cup Callers

Without(f, S) == Restrict(f, DOMAIN f \ S)

With(f, x, y) == [z \in DOMAIN f \cup {x} |-> IF z = x THEN y ELSE f[z]]

\* No answer yet; the answer of a WebSocket that is gone.
Nothing == [kind |-> "nothing"]
Lost    == [kind |-> "lost"]

Init ==
    /\ link = "down"
    /\ sockets = 0
    /\ ws = 0
    /\ connected = FALSE
    /\ token \in Users
    /\ user_id = None
    /\ pending = <<>>
    /\ cmd = <<>>
    /\ outcome = [c \in Callers |-> "none"]
    /\ states = 0
    /\ refreshes = 0
    /\ out = {}
    /\ inbox = <<>>
    /\ subscribed = FALSE
    /\ version = 0
    /\ executed = {}

-----------------------------------------------------------------------------
(* Commands                                                                *)

Waits(t) == t \in DOMAIN cmd
Answered(t) == cmd[t].answer # Nothing
Succeeded(t) == Answered(t) /\ cmd[t].answer # Lost /\ cmd[t].answer.ok

\* The ids t's finally block pops.
Own(t) == IF Waits(t) THEN {cmd[t].id} ELSE {}

OnTheWire == {r.id : r \in out} \cup {f.to.id : f \in {g \in ToSet(inbox) : g.kind = "result"}}

\* Slip: every connection numbers its commands from 1.
FreshId_PerSocket == CHOOSE i \in 1..MaxIds : i \notin OnTheWire

Used == {cmd[t].id : t \in DOMAIN cmd} \cup OnTheWire

\* _next_msg_id never goes back: a new id is one that no command, and no frame
\* on its way, has.  Ids are only compared, so any such number will do.
FreshId == CHOOSE i \in 1..MaxIds : i \notin Used

\* t's command is over, and the next one goes out on an open WebSocket: _cmd up
\* to its wait.
Send(t, what) ==
    /\ ~(1..MaxIds \subseteq Used)   \* bound
    /\ pending' = With(Without(pending, Own(t)), FreshId, t)
    /\ cmd' = With(cmd, t, [id |-> FreshId, what |-> what, on |-> ws, answer |-> Nothing])
    /\ out' = out \cup {[id |-> FreshId, by |-> t, what |-> what]}

\* t's command is over, and t sends no other.
Forget(t) ==
    /\ pending' = Without(pending, Own(t))
    /\ cmd' = Without(cmd, {t})

\* Slip: the commands still open are forgotten, and left to their timeouts.
FailPending_Silent(ended) == pending' = <<>> /\ cmd' = Without(cmd, ended)

\* _fail_pending: whoever waits for an answer gets an error at once.  The tasks
\* in "ended" are cancelled with the connection.
FailPending(ended) ==
    /\ pending' = <<>>
    /\ cmd' = [t \in DOMAIN cmd \ ended |->
                  IF Answered(t) THEN cmd[t] ELSE [cmd[t] EXCEPT !.answer = Lost]]

-----------------------------------------------------------------------------
(* The run task                                                            *)

Connect ==
    /\ link = "down"
    /\ sockets < MaxSockets
    /\ sockets' = sockets + 1
    /\ ws' = sockets'
    /\ link' = "greet"
    /\ UNCHANGED <<connected, token, cmdVars, wireVars, stateVars, haVars, outcome,
                   refreshes>>

\* What was on its way on a WebSocket that is gone is gone.
WireGone == out' = {} /\ inbox' = <<>> /\ subscribed' = FALSE

\* The handshake fails, or the token is rejected; _ws keeps the WebSocket, and
\* what was sent on it stays pending.
HandshakeFails ==
    /\ link = "greet"
    /\ link' = "down"
    /\ WireGone
    /\ UNCHANGED <<sockets, ws, connected, token, cmdVars, stateVars, haVars, outcome,
                   refreshes>>

\* Slip: the previous connection's user is kept until the lookup answers.
ForgetUser_Never == UNCHANGED user_id

ForgetUser == user_id' = None

\* The setup task starts, and asks who the token belongs to.  Home Assistant
\* takes any earlier frame for a failed authentication.
AuthOk ==
    /\ link = "greet"
    /\ out = {}
    /\ link' = "open"
    /\ ForgetUser
    /\ Send("setup", "user")
    /\ UNCHANGED <<sockets, ws, connected, token, inbox, subscribed, states, haVars,
                   outcome, refreshes>>

\* The WebSocket closes; frames the reader has not read may be lost with it.
Break ==
    /\ link = "open"
    /\ link' = "broken"
    /\ WireGone
    /\ UNCHANGED <<sockets, ws, connected, token, cmdVars, stateVars, haVars, outcome,
                   refreshes>>

\* The reader's finally block, and the end of the setup it waits for.
ReaderLeaves ==
    /\ link = "broken"
    /\ link' = "left"
    /\ ws' = 0
    /\ FailPending({"setup"})
    /\ UNCHANGED <<sockets, connected, token, wireVars, stateVars, haVars, outcome, refreshes>>

Unreachable ==
    /\ link = "left"
    /\ link' = "down"
    /\ connected' = FALSE
    /\ UNCHANGED <<sockets, ws, token, cmdVars, wireVars, stateVars, haVars, outcome,
                   refreshes>>

\* apply_credentials replaces the connection, maybe with another user's token:
\* the refresh is cancelled, and the reader, if there is one, leaves.
Swap ==
    /\ token' \in Users
    /\ link' = "down"
    /\ ws' = 0
    /\ connected' = FALSE
    /\ IF link \in {"open", "broken"}
       THEN FailPending({"setup", "refresh"}) ELSE Forget("refresh")
    /\ WireGone
    /\ UNCHANGED <<sockets, stateVars, haVars, outcome, refreshes>>

-----------------------------------------------------------------------------
(* Home Assistant (external)                                               *)

\* It answers its requests in any order.
Answers(r) ==
    /\ link = "open"
    /\ out' = out \ {r}
    /\ \E ok \in BOOLEAN, user \in {token, "unusable", None} :
        /\ (user # None) = (r.what = "user" /\ ok)
        /\ inbox' = Append(inbox, [kind |-> "result", to |-> r, ok |-> ok, user |-> user,
                                   version |-> IF r.what = "states" THEN version ELSE 0])
        /\ subscribed' = (subscribed \/ (ok /\ r.what = "subscribe"))
        /\ executed' = IF ok /\ r.by \in Callers THEN executed \cup {r.by} ELSE executed
    /\ UNCHANGED <<connVars, cmdVars, stateVars, version, outcome, refreshes>>

\* A user, or nobody, changes a state.
Changes(who) ==
    /\ version < MaxChanges
    /\ version' = version + 1
    /\ inbox' = IF subscribed
                THEN Append(inbox, [kind |-> "event", who |-> who, version |-> version'])
                ELSE inbox
    /\ UNCHANGED <<connVars, cmdVars, out, subscribed, stateVars, executed, outcome, refreshes>>

-----------------------------------------------------------------------------
(* The reader                                                              *)

Reads(kind) ==
    /\ inbox # <<>>
    /\ Head(inbox).kind = kind
    /\ inbox' = Tail(inbox)
    /\ UNCHANGED <<connVars, pending, out, subscribed, user_id, haVars, outcome,
                   refreshes>>

\* Slip: an answer goes to the oldest command still open.
AnswersTo_Oldest(frame) ==
    {t \in DOMAIN cmd : ~Answered(t) /\ \A u \in DOMAIN cmd : Answered(u) \/ cmd[t].id <= cmd[u].id}

\* Whose open command a result answers: none when it came too late.
AnswersTo(frame) ==
    {t \in DOMAIN cmd : /\ frame.to.id \in DOMAIN pending
                        /\ pending[frame.to.id] = t
                        /\ ~Answered(t)}

\* The hook of get_states runs here, on the reader: _install_states.
HandleResult ==
    /\ Reads("result")
    /\ LET frame == Head(inbox)
       IN /\ cmd' = [t \in DOMAIN cmd |->
                        IF t \in AnswersTo(frame)
                        THEN [cmd[t] EXCEPT !.answer = frame] ELSE cmd[t]]
          /\ states' = IF frame.ok /\ \E t \in AnswersTo(frame) : cmd[t].what = "states"
                        THEN frame.version ELSE states

\* Changed by this connection's own user, who is not the owner.
BySelf(who) == who # None /\ who = user_id /\ who # Owner

HandleStateChanged ==
    /\ Reads("event")
    /\ states' = Head(inbox).version
    /\ UNCHANGED cmd

-----------------------------------------------------------------------------
(* The setup task                                                          *)

\* "subscribe" stands for the subscriptions and the registry lists behind them.
NextCommand == [user |-> "subscribe", subscribe |-> "states", states |-> "services"]

\* Slip: the user of a reply is taken as it is.
Learn_Unchecked ==
    /\ user_id' = IF cmd["setup"].what = "user" /\ Succeeded("setup")
                  THEN cmd["setup"].answer.user ELSE user_id
    /\ UNCHANGED states

\* Slip: the states are installed after the await, when the task resumes.
Learn_States ==
    /\ states' = IF cmd["setup"].what = "states" THEN cmd["setup"].answer.version ELSE states
    /\ user_id' = IF Succeeded("setup") /\ cmd["setup"].answer.user \in Users
                  THEN cmd["setup"].answer.user ELSE user_id

\* What the setup takes from its answer: a usable reply's user.
Learn ==
    /\ user_id' = IF Succeeded("setup") /\ cmd["setup"].answer.user \in Users
                  THEN cmd["setup"].answer.user ELSE user_id
    /\ UNCHANGED states

\* The answer is in, or the user lookup failed or timed out: the next command.
SetupGoesOn ==
    /\ Waits("setup")
    /\ cmd["setup"].what # "services"
    /\ Succeeded("setup") \/ cmd["setup"].what = "user"
    /\ link = "open"
    /\ Learn
    /\ Send("setup", NextCommand[cmd["setup"].what])
    /\ UNCHANGED <<connVars, inbox, subscribed, haVars, outcome, refreshes>>

SetupConnected ==
    /\ Waits("setup")
    /\ cmd["setup"].what = "services"
    /\ Succeeded("setup")
    /\ connected' = TRUE
    /\ Forget("setup")
    /\ UNCHANGED <<link, sockets, ws, token, wireVars, stateVars, haVars, outcome,
                   refreshes>>

\* A command fails or times out, or the next cannot be sent: the WebSocket is
\* closed, which ends the reader.
SetupFails ==
    /\ Waits("setup")
    /\ \/ ~Succeeded("setup") /\ cmd["setup"].what # "user"
       \/ link = "broken"
    /\ link' = "broken"
    /\ WireGone
    /\ Forget("setup")
    /\ UNCHANGED <<sockets, ws, connected, token, stateVars, haVars, outcome, refreshes>>

-----------------------------------------------------------------------------
(* The registry refresh and the callers                                    *)

CanSend == link \in {"greet", "open"}

\* _registry_refresh_loop asks on whatever WebSocket _ws is, also before the
\* handshake.
RefreshAsks ==
    /\ ~Waits("refresh")
    /\ refreshes < MaxRefreshes
    /\ ws # 0
    /\ CanSend
    /\ refreshes' = refreshes + 1
    /\ Send("refresh", "registries")
    /\ UNCHANGED <<connVars, inbox, subscribed, stateVars, haVars, outcome>>

\* Slip: any WebSocket will do.
MayCall_AnySocket == ws # 0

MayCall == connected /\ ws # 0

callFrame == <<connVars, inbox, subscribed, stateVars, haVars, refreshes>>

CallService(c) ==
    /\ ~Waits(c)
    /\ outcome[c] = "none"
    /\ MayCall
    /\ CanSend
    /\ Send(c, "call")
    /\ UNCHANGED <<callFrame, outcome>>

\* The guard refuses the call, or the WebSocket turns out to be closed.
CallRefused(c) ==
    /\ ~Waits(c)
    /\ outcome[c] = "none"
    /\ ~(MayCall /\ CanSend)
    /\ outcome' = [outcome EXCEPT ![c] = IF MayCall THEN "closed" ELSE "not_connected"]
    /\ UNCHANGED <<callFrame, cmdVars, out>>

\* t gets its answer, or runs into its timeout: that may happen even when the
\* answer is in, as long as t has not resumed.
CommandEnds(t) ==
    /\ Waits(t)
    /\ \E verdict \in {"timeout", "lost", "ok", "error"} :
        /\ verdict = "lost" => cmd[t].answer = Lost
        /\ verdict = "ok" => Succeeded(t)
        /\ verdict = "error" => Answered(t) /\ cmd[t].answer # Lost /\ ~Succeeded(t)
        /\ outcome' = IF t \in Callers THEN [outcome EXCEPT ![t] = verdict] ELSE outcome
    /\ Forget(t)
    /\ UNCHANGED <<callFrame, out>>

-----------------------------------------------------------------------------

RunStep   == Connect \/ HandshakeFails \/ AuthOk \/ Break \/ ReaderLeaves \/ Unreachable
SetupStep == SetupGoesOn \/ SetupConnected \/ SetupFails
Waiting   == {"refresh"} \cup Callers

Next ==
    \/ RunStep
    \/ Swap
    \/ \E r \in out : Answers(r)
    \/ \E who \in Users \cup {None} : Changes(who)
    \/ HandleResult
    \/ HandleStateChanged
    \/ SetupStep
    \/ RefreshAsks
    \/ \E c \in Callers : CallService(c) \/ CallRefused(c)
    \/ \E t \in Waiting : CommandEnds(t)

Spec == Init /\ [][Next]_vars

-----------------------------------------------------------------------------
(* Properties                                                              *)

\* What a task asks.
Asks(t) == CASE t = "setup"   -> {"user", "subscribe", "states", "services"}
             [] t = "refresh" -> {"registries"}
             [] OTHER         -> {"call"}

Asked == UNION {Asks(t) : t \in Tasks}

Requests == [id : Nat, by : Tasks, what : Asked]
Results  == [kind : {"result"}, to : Requests, ok : BOOLEAN, user : Users \cup {None, "unusable"},
             version : 0..MaxChanges]
Events   == [kind : {"event"}, who : Users \cup {None}, version : 0..MaxChanges]
Commands == [id : Nat, what : Asked, on : 1..MaxSockets, answer : Results \cup {Nothing, Lost}]

\* Every variable holds a value of its kind.
TypeOK ==
    /\ link \in {"down", "greet", "open", "broken", "left"}
    /\ sockets \in 0..MaxSockets
    /\ ws \in 0..MaxSockets
    /\ connected \in BOOLEAN
    /\ token \in Users
    /\ user_id \in Users \cup {None}
    /\ DOMAIN pending \subseteq Nat /\ \A i \in DOMAIN pending : pending[i] \in Tasks
    /\ DOMAIN cmd \subseteq Tasks /\ \A t \in DOMAIN cmd : cmd[t] \in Commands /\ cmd[t].what \in Asks(t)
    /\ outcome \in [Callers -> {"none", "ok", "error", "lost", "timeout", "closed",
                                "not_connected"}]
    /\ states \in 0..MaxChanges
    /\ refreshes \in 0..MaxRefreshes
    /\ \A r \in out : r \in Requests
    /\ inbox \in Seq(Results \cup Events)
    /\ subscribed \in BOOLEAN
    /\ version \in 0..MaxChanges
    /\ executed \subseteq Callers

\* Whatever order Home Assistant answers in, and however late, an answer reaches
\* the command it is the answer to and no other; and a command still open is
\* never forgotten, also one left over from a connection that is gone.
AnswersMatch ==
    \A t \in DOMAIN cmd :
        IF Answered(t) THEN cmd[t].answer # Lost => cmd[t].answer.to.id = cmd[t].id
                                                  /\ cmd[t].answer.to.by = t
        ELSE cmd[t].id \in DOMAIN pending /\ pending[cmd[t].id] = t

\* A call, or the setup, never waits for a WebSocket that is gone: losing the
\* connection fails it at once instead of leaving it to its timeout.
FailsFast ==
    \A t \in DOMAIN cmd \ {"refresh"} :
        ~Answered(t) => cmd[t].on = ws /\ link \in {"open", "broken"}

\* No service call goes out on a WebSocket that has not authenticated.
CallsAuthenticated == link = "greet" => \A r \in out : r.by \notin Callers

\* Once the setup has its states and everything sent has been read, conn.states
\* are Home Assistant's: the reply of get_states neither misses a change nor
\* overwrites one that came right behind it.
StatesCurrent ==
    /\ link = "open"
    /\ inbox = <<>>
    /\ connected \/ (Waits("setup") /\ cmd["setup"].what = "services")
    => states = version

\* A change the listeners are about to be told is the service's own was made with
\* the token of this connection, which is not the owner's: a user learned on an
\* earlier connection is never mistaken for it.
OwnChanges ==
    inbox # <<>> /\ Head(inbox).kind = "event" /\ BySelf(Head(inbox).who)
    => Head(inbox).who = token /\ token # Owner

\* A call that returns was carried out; one that was refused was not.
ReportsTruth ==
    \A c \in Callers :
        /\ outcome[c] = "ok" => c \in executed
        /\ outcome[c] \in {"closed", "not_connected"} => c \notin executed

-----------------------------------------------------------------------------
(* The inductive invariant behind the safety properties                    *)

\* A connection that is announced, or being set up, has a WebSocket that has
\* authenticated; and nothing is on its way on one that is gone.
SocketInv ==
    /\ connected => link \in {"open", "broken", "left"}
    /\ Waits("setup") => link \in {"open", "broken"}
    /\ link \in {"down", "broken", "left"} => out = {}

LinkInv ==
    /\ link \in {"greet", "open", "broken"} => ws # 0
    /\ link # "open" => inbox = <<>> /\ ~subscribed

\* No two commands share an id, a command that is open is pending and a pending
\* one waits, and what is on its way under a command's id is its own.
IdInv ==
    /\ \A t, u \in DOMAIN cmd : cmd[t].id = cmd[u].id => t = u
    /\ \A i \in DOMAIN pending : pending[i] \in DOMAIN cmd /\ cmd[pending[i]].id = i
    /\ \A t \in DOMAIN cmd :
        /\ ~Answered(t) => cmd[t].id \in DOMAIN pending
        /\ Answered(t) /\ cmd[t].answer # Lost =>
               cmd[t].answer.to = [id |-> cmd[t].id, by |-> t, what |-> cmd[t].what]
        /\ \A r \in out : r.id = cmd[t].id => r.by = t /\ r.what = cmd[t].what
        /\ \A i \in DOMAIN inbox :
            inbox[i].kind = "result" /\ inbox[i].to.id = cmd[t].id =>
                inbox[i].to.by = t /\ inbox[i].to.what = cmd[t].what

\* No event is behind the i-th frame.
NoNewsAfter(i) == \A j \in DOMAIN inbox : i < j => inbox[j].kind # "event"

\* The last frame that carries states carries the newest, and the reader's frames
\* say what Home Assistant did.
InboxInv ==
    /\ \A r \in out : r.what = "states" => subscribed
    /\ \A i \in DOMAIN inbox :
        /\ inbox[i].kind = "event" \/ inbox[i].to.what = "states" =>
               subscribed /\ (NoNewsAfter(i) => inbox[i].version = version)
        /\ inbox[i].kind = "result" =>
            /\ inbox[i].ok /\ inbox[i].to.what = "subscribe" => subscribed
            /\ inbox[i].ok /\ inbox[i].to.by \in Callers => inbox[i].to.by \in executed
            /\ inbox[i].user \in {token, "unusable", None}

\* The setup has got past its command "what", on this WebSocket.
Past(what) ==
    \/ connected
    \/ /\ Waits("setup")
       /\ \/ cmd["setup"].what = what /\ Succeeded("setup")
          \/ what = "subscribe" /\ cmd["setup"].what \in {"states", "services"}
          \/ what = "states" /\ cmd["setup"].what = "services"

\* What the setup has reached on an open WebSocket, and whom it has learned of.
SetupInv ==
    /\ Waits("setup") => ~connected
    /\ Waits("setup") /\ Answered("setup") /\ cmd["setup"].answer # Lost =>
           cmd["setup"].answer.user \in {token, "unusable", None}
    /\ link = "open" =>
        /\ user_id \in {token, None}
        /\ Past("subscribe") => subscribed
        /\ Past("states") /\ NoNewsAfter(0) => states = version

\* A caller's service call went out.
Sent(c) == Waits(c) \/ outcome[c] \in {"ok", "error", "lost", "timeout"}

\* Only what was sent is carried out, an answer says so, and a call that waits has
\* come to nothing yet.
CallInv ==
    /\ \A c \in Callers : Waits(c) => outcome[c] = "none"
    /\ \A r \in out : r.by \in Callers => Sent(r.by)
    /\ \A c \in executed : Sent(c)
    /\ \A c \in Callers : Waits(c) /\ Succeeded(c) => c \in executed

Inductive ==
    /\ TypeOK
    /\ LinkInv /\ SocketInv /\ CallsAuthenticated /\ FailsFast
    /\ IdInv /\ InboxInv /\ SetupInv /\ CallInv /\ ReportsTruth
=============================================================================
