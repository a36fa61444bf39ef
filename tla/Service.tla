------------------------------- MODULE Service -------------------------------
(***************************************************************************)
(* The service as a whole (create_app, src/app/server.py), between Alfred, *)
(* which pushes the stored credentials in answer to every registration,    *)
(* and a connection that keeps ConnectionContract, whose connect listener  *)
(* registers: a circle that the no-op in apply_credentials has to break.   *)
(* Begins where the service serves; what the registrar does is reduced to  *)
(* the order of its attempts (Registrar has it whole).                     *)
(***************************************************************************)
EXTENDS Naturals, Sequences, SequencesExt

CONSTANTS Creds,        \* credentials: a URL and a token
          Good,         \* those that Home Assistant accepts
          None,         \* no credentials
          MaxSaves,     \* bound: credentials the user saves while the service runs
          MaxFaults,    \* bound: attempts and connections that fail
          MaxFails,     \* bound: registrations that fail
          MaxRefreshes  \* bound: registry changes

ASSUME ServiceAssumption ==
    /\ Good \subseteq Creds /\ None \notin Creds
    /\ {MaxSaves, MaxFaults, MaxFails, MaxRefreshes} \subseteq Nat

VARIABLES
    conn_state, phase, listeners,  \* the connection, see ConnectionContract
    creds,    \* _url and _token
    swap,     \* the credentials an apply_credentials call is halting for
    pushes,   \* the calls of apply_credentials that wait for the lifecycle lock
    stored,   \* the credentials Alfred has stored
    owed,     \* the registrations Alfred has yet to answer with a push
    ready,    \* capabilities_ready: the client has the tools
    listed,   \* what Alfred has of the service: "none", "empty", "tools", "gone"
    setup,    \* on_connect: "idle", "publishing", "registering"
    asks,     \* the attempt lock of the registrar: who holds it (first) and who waits
    sent,     \* what each attempt under way sends
    retry,    \* a registration retry is pending
    refresh,  \* the registry refresh task is alive
    spoiled,  \* it sent a command on this WebSocket ahead of the token
    life,     \* lifespan: "serving", "stopping", "leaving", "closed"
    saves, faults, fails, refreshes  \* how much of each bound has been used

Conn == INSTANCE ConnectionContract

connVars  == <<conn_state, phase, listeners, spoiled>>
alfred    == <<stored, owed, listed>>
registrar == <<asks, sent, retry, refresh>>
bounds    == <<saves, faults, fails, refreshes>>
vars == <<connVars, creds, swap, pushes, alfred, ready, setup, registrar, life, bounds>>

Askers == {"connect", "refresh", "retry"}

Init ==
    /\ Conn!Init
    /\ creds = None
    /\ swap = None
    /\ pushes \in {<<>>} \cup {<<c>> : c \in Creds}   \* env-credentials
    /\ stored \in Creds \cup {None}
    /\ retry \in BOOLEAN                              \* lifespan's own registration
    /\ listed = IF retry THEN "none" ELSE "empty"
    /\ owed = IF retry THEN 0 ELSE 1
    /\ ready = FALSE
    /\ setup = "idle"
    /\ asks = <<>>
    /\ sent = [by \in Askers |-> "none"]
    /\ refresh = FALSE
    /\ spoiled = FALSE
    /\ life = "serving"
    /\ saves = 0 /\ faults = 0 /\ fails = 0 /\ refreshes = 0

Fault == faults < MaxFaults /\ faults' = faults + 1 /\ UNCHANGED <<saves, fails, refreshes>>

-----------------------------------------------------------------------------
(* Alfred                                                                  *)

Save(c) ==
    /\ life = "serving"
    /\ saves < MaxSaves
    /\ saves' = saves + 1
    /\ stored' = c
    /\ owed' = owed + 1
    /\ UNCHANGED <<connVars, creds, swap, pushes, listed, ready, setup, registrar, life,
                   faults, fails, refreshes>>

\* ServiceRegistered, or a save, is answered with what is stored by then.
Push ==
    /\ life = "serving"
    /\ owed > 0
    /\ owed' = owed - 1
    /\ pushes' = IF stored = None THEN pushes ELSE Append(pushes, stored)
    /\ UNCHANGED <<connVars, creds, swap, stored, listed, ready, setup, registrar, life, bounds>>

-----------------------------------------------------------------------------
(* apply_credentials                                                       *)

\* Slip: no no-op.
NothingToDo_Never(c) == FALSE

\* Slip: any connection will do.
NothingToDo_AnyCreds(c) == conn_state = "connected"

NothingToDo(c) == c = creds /\ conn_state = "connected"

\* The WebSocket is closed, and what went wrong on it is over.
Closed == spoiled' = FALSE

\* The lifecycle lock is acquired: nothing to do, or the old connection is halted
\* if there is one.
Apply ==
    /\ life = "serving"
    /\ swap = None
    /\ pushes # <<>>
    /\ pushes' = Tail(pushes)
    /\ LET c == Head(pushes) IN
       \/ /\ NothingToDo(c)
          /\ UNCHANGED <<connVars, creds, swap>>
       \/ /\ ~NothingToDo(c)
          /\ phase = "off"
          /\ Conn!Start
          /\ Closed
          /\ creds' = c
          /\ UNCHANGED swap
       \/ /\ ~NothingToDo(c)
          /\ Conn!Halt
          /\ Closed
          /\ swap' = c
          /\ UNCHANGED creds
    /\ UNCHANGED <<alfred, ready, setup, registrar, life, bounds>>

\* The old run and refresh tasks have ended: the new connection starts.
Swap ==
    /\ swap # None
    /\ phase = "halting"
    /\ ~refresh
    /\ Conn!Start
    /\ Closed
    /\ creds' = swap
    /\ swap' = None
    /\ UNCHANGED <<pushes, alfred, ready, setup, registrar, life, bounds>>

-----------------------------------------------------------------------------
(* The connection                                                          *)

Quietly == UNCHANGED <<creds, swap, pushes, alfred, ready, registrar, life>>

Authenticated ==
    /\ creds \in Good
    /\ ~spoiled
    /\ Conn!Authenticated
    /\ Quietly
    /\ UNCHANGED <<spoiled, setup, bounds>>

\* Home Assistant rejects a bad token, and a good one when its first frame was a
\* command; an unreachable host is a fault.
AttemptFails ==
    /\ Conn!AttemptFails
    /\ \/ /\ conn_state' = "auth_failed"
          /\ creds \notin Good \/ spoiled
          /\ UNCHANGED <<spoiled, bounds>>
       \/ /\ conn_state' = "unreachable"
          /\ Closed
          /\ Fault
    /\ Quietly
    /\ UNCHANGED setup

Announce ==
    /\ Conn!Announce
    /\ setup' = "publishing"
    /\ Quietly
    /\ UNCHANGED <<spoiled, bounds>>

Lose == Conn!Lose /\ Fault /\ Quietly /\ UNCHANGED <<spoiled, setup>>

GoesOn ==
    /\ Conn!Report \/ Conn!Reported \/ Conn!Retry \/ Conn!Cut
    /\ Quietly
    /\ UNCHANGED <<spoiled, setup, bounds>>

-----------------------------------------------------------------------------
(* The registrar                                                           *)

Asking(by) == by \in Range(asks)

\* What is left of a queue that x leaves, if it is there.
Removals(s, x) ==
    IF x \in Range(s) THEN {RemoveAt(s, i) : i \in {j \in DOMAIN s : s[j] = x}} ELSE {s}

Land(by) == listed' = sent[by] /\ owed' = owed + 1 /\ UNCHANGED stored

Leave(by) ==
    /\ asks' \in Removals(asks, by)
    /\ sent' = [sent EXCEPT ![by] = "none"]

\* A cancelled task leaves the queue; its attempt may have reached Alfred.
Cancelled(by) ==
    /\ Leave(by)
    /\ (sent[by] # "none" /\ Land(by)) \/ UNCHANGED alfred

\* Slip: attempts overlap.
Turn_Any(by) == Asking(by)

Turn(by) == asks # <<>> /\ Head(asks) = by

\* The tasks asked to cancel: they begin and end nothing more.  A stop gets to the
\* setup within two turns of the event loop, before any answer from Redis does.
Doomed(by) == \/ by = "connect" /\ phase \in {"lost", "halting"}
              \/ by = "refresh" /\ phase \in {"cutting", "halting"}

\* client.register() sends what the client has by now.
Attempt(by) ==
    /\ Turn(by)
    /\ ~Doomed(by)
    /\ sent[by] = "none"
    /\ sent' = [sent EXCEPT ![by] = IF ready THEN "tools" ELSE "empty"]
    /\ UNCHANGED <<connVars, creds, swap, pushes, alfred, ready, setup, asks, retry, refresh, life,
                   bounds>>

\* Alfred has it; a pending retry is let go.
Lands(by) ==
    /\ sent[by] # "none"
    /\ ~Doomed(by)
    /\ Land(by)
    /\ \E rest \in Removals(asks, by) : asks' \in Removals(rest, "retry")
    /\ sent' = [sent EXCEPT ![by] = "none"]
    /\ retry' = FALSE
    /\ UNCHANGED <<connVars, creds, swap, pushes, ready, setup, refresh, life, bounds>>

\* It fails; a retry is left behind, or goes back to sleep.
Fails(by) ==
    /\ sent[by] # "none"
    /\ ~Doomed(by)
    /\ fails < MaxFails
    /\ fails' = fails + 1
    /\ Leave(by)
    /\ retry' = TRUE
    /\ UNCHANGED <<connVars, creds, swap, pushes, alfred, ready, setup, refresh, life,
                   saves, faults, refreshes>>

RetryWakes ==
    /\ retry
    /\ ~Asking("retry")
    /\ asks' = Append(asks, "retry")
    /\ UNCHANGED <<connVars, creds, swap, pushes, alfred, ready, setup, sent, retry, refresh, life,
                   bounds>>

-----------------------------------------------------------------------------
(* The listeners                                                           *)

\* Slip: only the connect that generates the tools registers them.
Published_RegistersOnce ==
    /\ setup = "publishing"
    /\ ~Doomed("connect")
    /\ ready' = TRUE
    /\ asks' = IF ready THEN asks ELSE Append(asks, "connect")
    /\ setup' = "registering"
    /\ UNCHANGED <<connVars, creds, swap, pushes, alfred, sent, retry, refresh, life, bounds>>

\* The snapshot is published: the tools are there if they were not, and every
\* connect registers.
Published ==
    /\ setup = "publishing"
    /\ ~Doomed("connect")
    /\ ready' = TRUE
    /\ asks' = Append(asks, "connect")
    /\ setup' = "registering"
    /\ UNCHANGED <<connVars, creds, swap, pushes, alfred, sent, retry, refresh, life, bounds>>

ListenerDone ==
    /\ setup = "registering"
    /\ ~Doomed("connect")
    /\ ~Asking("connect")
    /\ Conn!ListenersEnd
    /\ setup' = "idle"
    /\ Quietly
    /\ UNCHANGED <<spoiled, bounds>>

\* The connection is lost, or halts: the setup task is cancelled at any await.
ListenerCancelled ==
    /\ Doomed("connect")
    /\ Conn!ListenersEnd
    /\ setup' = "idle"
    /\ Cancelled("connect")
    /\ UNCHANGED <<spoiled, creds, swap, pushes, ready, retry, refresh, life, bounds>>

\* on_registries_updated: the lists are fetched, the index is rebuilt, and the
\* refresh asks.
RegistryChange ==
    /\ ~refresh
    /\ phase \in {"setup", "up", "lost"}
    /\ refreshes < MaxRefreshes
    /\ refreshes' = refreshes + 1
    /\ refresh' = TRUE
    /\ asks' = Append(asks, "refresh")
    /\ UNCHANGED <<connVars, creds, swap, pushes, alfred, ready, setup, sent, retry, life,
                   saves, faults, fails>>

\* Its registration is through, and what that wrote to Redis.  No disconnect
\* cancels the refresh: when the registries changed again meanwhile it goes on,
\* on whatever WebSocket there is by now, with the token sent on it or not yet.
RefreshGoesOn ==
    /\ refresh
    /\ ~Asking("refresh")
    /\ ~Doomed("refresh")
    /\ refresh' = FALSE
    /\ spoiled' \in {FALSE, phase = "dial"}
    /\ UNCHANGED <<conn_state, phase, listeners, creds, swap, pushes, alfred, ready, setup,
                   asks, sent, retry, life, bounds>>

RefreshCancelled ==
    /\ refresh
    /\ Doomed("refresh")
    /\ Cancelled("refresh")
    /\ refresh' = FALSE
    /\ UNCHANGED <<connVars, creds, swap, pushes, ready, setup, retry, life, bounds>>

-----------------------------------------------------------------------------
(* Shutdown                                                                *)

LifeGoes(from, to) ==
    /\ life = from
    /\ life' = to
    /\ UNCHANGED <<creds, swap, ready, setup, bounds>>

\* The requests being served have ended, no more are; env-credentials is cancelled.
Shutdown ==
    /\ LifeGoes("serving", "stopping")
    /\ swap = None
    /\ pushes' = <<>>
    /\ UNCHANGED <<connVars, alfred, registrar>>

Halt ==
    /\ life # "serving"
    /\ Conn!Halt
    /\ Closed
    /\ Quietly
    /\ UNCHANGED <<setup, bounds>>

Halted ==
    /\ life # "serving"
    /\ ~refresh
    /\ Conn!Halted
    /\ Quietly
    /\ UNCHANGED <<spoiled, setup, bounds>>

\* Slip: the registrar stops without waiting for the connection.
StopRegistrar_Early ==
    /\ LifeGoes("stopping", "leaving")
    /\ retry' = FALSE
    /\ Cancelled("retry")
    /\ UNCHANGED <<connVars, pushes, refresh>>

\* conn.stop has returned: registrar.stop cancels the retry.
StopRegistrar ==
    /\ LifeGoes("stopping", "leaving")
    /\ phase = "off"
    /\ retry' = FALSE
    /\ Cancelled("retry")
    /\ UNCHANGED <<connVars, pushes, refresh>>

\* The last write to Alfred, whether it succeeds or not.
Unregister ==
    /\ LifeGoes("leaving", "closed")
    /\ listed' \in {listed, "gone"}
    /\ UNCHANGED <<connVars, pushes, stored, owed, registrar>>

-----------------------------------------------------------------------------

Connection == Authenticated \/ AttemptFails \/ Announce \/ GoesOn \/ Swap \/ Halted

Listener == Published \/ ListenerDone \/ ListenerCancelled \/ RefreshGoesOn \/ RefreshCancelled

Next ==
    \/ \E c \in Creds : Save(c)
    \/ Push \/ Apply
    \/ Connection \/ Lose \/ Halt
    \/ \E by \in Askers : Attempt(by) \/ Lands(by) \/ Fails(by)
    \/ RetryWakes \/ Listener \/ RegistryChange
    \/ Shutdown \/ StopRegistrar \/ Unregister

Spec == Init /\ [][Next]_vars

\* The event loop runs what is ready, Home Assistant, Redis and Alfred answer,
\* and a shutdown that began goes on.
Fairness ==
    /\ WF_vars(Push) /\ WF_vars(Apply)
    /\ WF_vars(Connection) /\ WF_vars(Halt)
    /\ WF_vars(Listener)
    /\ \A by \in Askers : WF_vars(Attempt(by) \/ Lands(by))
    /\ WF_vars(RetryWakes)
    /\ WF_vars(StopRegistrar \/ Unregister)

FairSpec == Spec /\ Fairness

-----------------------------------------------------------------------------
(* Properties                                                              *)

\* Every variable holds a value of its kind, nobody waits twice for the attempt
\* lock, and only whoever holds it has an attempt under way.
TypeOK ==
    /\ creds \in Creds \cup {None}
    /\ swap \in Creds \cup {None}
    /\ pushes \in Seq(Creds)
    /\ stored \in Creds \cup {None}
    /\ owed \in Nat
    /\ ready \in BOOLEAN
    /\ listed \in {"none", "empty", "tools", "gone"}
    /\ setup \in {"idle", "publishing", "registering"}
    /\ asks \in Seq(Askers) /\ IsInjective(asks)
    /\ sent \in [Askers -> {"none", "empty", "tools"}]
    /\ \A by \in Askers : sent[by] # "none" => Turn(by)
    /\ {retry, refresh, spoiled} \subseteq BOOLEAN
    /\ life \in {"serving", "stopping", "leaving", "closed"}

\* The service follows the Settings page: once Alfred owes no push and none is
\* being applied, the connection uses the credentials Alfred has stored,
\* whatever the environment said first and whatever connects, drops and
\* registrations came between.
FollowsStored ==
    listed # "none" /\ stored # None /\ owed = 0 /\ pushes = <<>> /\ swap = None
        /\ life = "serving" => creds = stored

\* Alfred never goes back from the tools to an empty manifest: a registration
\* that was sent before the tools were there does not land after one with them.
ToolsStay == [][listed = "tools" => listed' # "empty"]_listed

\* Once unregistered the service does not come back: no listener, refresh or
\* retry registers after shutdown's last step.
NoComeback == [][listed = "gone" => listed' = "gone"]_listed

\* A token is good for nothing on a WebSocket that a refresh has spoiled.
Settled == phase = IF stored \in Good /\ ~spoiled THEN "up" ELSE "rejected"

\* However often registering makes Alfred push, the circle ends: the connection
\* settles with the stored credentials and is left alone from then on, unless the
\* service shuts down.  It is up if they are good and rejected if not, with one
\* exception: after a drop during a refresh good ones may be rejected, when the
\* refresh gets a command in ahead of the token, and nothing tries them again.
Converges ==
    \/ <>(life # "serving")
    \/ <>[](stored = None)
    \/ <>[](creds = stored /\ Settled)

\* A connection that stays up brings the tools to Alfred, even when an earlier
\* connect generated them and was cut off before it could register them.
ToolsReachAlfred ==
    conn_state = "connected" ~> listed = "tools" \/ conn_state # "connected" \/ life # "serving"

-----------------------------------------------------------------------------
(* The inductive invariant behind the safety properties                    *)

Phases == {"off", "dial", "setup", "up", "lost", "report", "rejected", "backoff",
           "cutting", "halting"}

\* The connect listeners run exactly while on_connect does, and never once the
\* connection is off.
ConnInv ==
    /\ phase \in Phases
    /\ listeners \in {"idle", "running"}
    /\ listeners = "running" <=> setup # "idle"
    /\ listeners = "running" => phase \in {"up", "lost", "halting"}

\* Everyone who waits for the attempt lock has a task that is alive.
AskInv ==
    /\ Asking("connect") => setup = "registering"
    /\ Asking("refresh") => refresh
    /\ refresh => phase # "off"
    /\ Asking("retry") => retry

\* Once the registrar has stopped, nothing connects and nothing retries.
LeaveInv ==
    /\ swap # None => life = "serving"
    /\ life \in {"leaving", "closed"} => phase = "off" /\ ~retry
    /\ listed = "gone" => life = "closed"

\* Nothing that has still to land is older than what Alfred has.
ToolsInv ==
    /\ listed = "tools" => ready
    /\ \A by \in Askers : sent[by] = "tools" => ready
    /\ \A by \in Askers : listed = "tools" => sent[by] # "empty"

\* The last credentials on their way are those Alfred has stored.
PushInv ==
    listed # "none" /\ stored # None /\ owed = 0 /\ life = "serving" =>
        IF pushes # <<>> THEN pushes[Len(pushes)] = stored
        ELSE IF swap # None THEN swap = stored ELSE creds = stored

Inductive == TypeOK /\ ConnInv /\ AskInv /\ LeaveInv /\ ToolsInv /\ PushInv
=============================================================================
