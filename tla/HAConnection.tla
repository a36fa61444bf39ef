---------------------------- MODULE HAConnection ----------------------------
(***************************************************************************)
(* The connection to Home Assistant (src/app/ha_connection.py).            *)
(*                                                                         *)
(* Callers are the coroutines that call apply_credentials or stop, once    *)
(* each: POST /credentials handlers, the env-credentials task, shutdown.   *)
(* An apply call that gets through replaces the connection task: the run   *)
(* task, the setup task of its current WebSocket and the attempt_done      *)
(* event it waits for are all named after that caller.  One action is what *)
(* a coroutine does between two awaits; asyncio interleaves nothing finer. *)
(***************************************************************************)
EXTENDS Naturals, Sequences, SequencesExt

CONSTANTS Callers,          \* the coroutines that call the connection
          Creds,            \* (url, token) pairs
          GoodCreds,        \* the pairs Home Assistant accepts
          None,             \* no task, no credentials; as a request: stop()
          MaxFaults,        \* bound: failures of the network, HA, or a setup command
          MaxChanges,       \* bound: registry changes in Home Assistant
          RefreshMayFail    \* may a refresh's command fail on a live connection

ASSUME ConnectionAssumption ==
    /\ GoodCreds \subseteq Creds
    /\ None \notin Callers \cup Creds
    /\ MaxFaults \in Nat
    /\ MaxChanges \in Nat
    /\ RefreshMayFail \in BOOLEAN

ConnState == {"disconnected", "connected", "auth_failed", "unreachable"}

VARIABLES
    creds,          \* _url, _token
    conn_state,
    task,           \* _task: whose run task it is
    attempt,        \* _attempt_done: whose event it is
    fired,          \* the attempt_done events that are set
    ws,             \* _ws: whose WebSocket it is
    holder,         \* who holds _lifecycle_lock
    queue,          \* who waits for it, in order
    pc,             \* where each caller is
    request,        \* what each caller asked for: credentials, or None to stop
    victim,         \* the run task a caller's _stop_locked cancelled and awaits
    interrupted,    \* the callers cancelled inside _stop_locked
    run,            \* where each run task is
    cancelled,      \* the run tasks asked to cancel
    setup,          \* where the setup task of each run task's connection is
    refresh,        \* where _registry_refresh_task is
    registry_dirty, \* _registry_dirty
    spoiled,        \* the run tasks on whose WebSocket a command went out before auth
    version,        \* the version of the registries in Home Assistant
    asked,          \* the version a fetch of the setup, or of the refresh, asked for
    known,          \* the version of entity_registry, device_registry, area_registry
    faults          \* how many of MaxFaults have happened

callerVars  == <<pc, request, victim, interrupted, holder, queue>>
runVars     == <<run, cancelled, task, attempt, creds>>
refreshVars == <<refresh, registry_dirty, spoiled, version, asked, known>>
vars == <<callerVars, runVars, refreshVars, conn_state, fired, ws, setup, faults>>

Alive(k)      == run[k] \notin {"none", "ended"}
SetupAlive(k) == setup[k] \in {"subscribe", "fetch", "listen", "failing"}

\* Slip: the setup is cancelled but not awaited.
SetupEnded_NotAwaited(k) == k \in Callers

\* What the reader's cancel_and_wait(setup) waits for.
SetupEnded(k) == ~SetupAlive(k)

\* Slip: callers wait for whichever event is current, not for their own.
Woken_Shared == {c \in Callers : pc[c] = "waiting" /\ attempt \in fired}

\* Callers whose event is set but who have not run since.
Woken == {c \in Callers : pc[c] = "waiting" /\ c \in fired}

\* A woken caller and a task just created are in the event loop's ready queue:
\* they run before a new connection, which needs the network, is made.
NothingReady == Woken = {} /\ refresh # "loop"

Newest(a, b) == IF a < b THEN b ELSE a

Init ==
    /\ creds = None
    /\ conn_state = "disconnected"
    /\ task = None
    /\ attempt = None
    /\ fired = {}
    /\ ws = None
    /\ holder = None
    /\ queue = <<>>
    /\ pc = [c \in Callers |-> "idle"]
    /\ request = [c \in Callers |-> None]
    /\ victim = [c \in Callers |-> None]
    /\ interrupted = {}
    /\ run = [c \in Callers |-> "none"]
    /\ cancelled = {}
    /\ setup = [c \in Callers |-> "none"]
    /\ refresh = "off"
    /\ registry_dirty = FALSE
    /\ spoiled = {}
    /\ version = 0
    /\ asked = [by \in {"setup", "refresh"} |-> 0]
    /\ known = 0
    /\ faults = 0

-----------------------------------------------------------------------------
(* apply_credentials and stop                                              *)

Arrive(c) ==
    /\ pc[c] = "idle"
    /\ \E r \in Creds \cup {None} : request' = [request EXCEPT ![c] = r]
    /\ pc' = [pc EXCEPT ![c] = "lock"]
    /\ queue' = Append(queue, c)
    /\ UNCHANGED <<victim, interrupted, holder, runVars, refreshVars,
                   conn_state, fired, ws, setup, faults>>

\* Slip: nothing serialises the lifecycle calls.
AcquireLock_Unlocked(c) ==
    /\ pc[c] = "lock"
    /\ \E i \in DOMAIN queue : queue[i] = c /\ queue' = RemoveAt(queue, i)

AcquireLock(c) ==
    /\ pc[c] = "lock"
    /\ holder = None
    /\ queue # <<>>
    /\ Head(queue) = c
    /\ queue' = Tail(queue)

\* The guard against a reconnect loop: same credentials, still connected.
NothingToDo(c) ==
    /\ request[c] # None
    /\ request[c] = creds
    /\ conn_state = "connected"

AlreadyConnected(c) ==
    /\ AcquireLock(c)
    /\ NothingToDo(c)
    /\ pc' = [pc EXCEPT ![c] = "returned"]
    /\ UNCHANGED <<request, victim, interrupted, holder, runVars, refreshVars,
                   conn_state, fired, ws, setup, faults>>

\* _stop_locked up to its first await: both tasks are asked to cancel.
BeginStop(c) ==
    /\ AcquireLock(c)
    /\ ~NothingToDo(c)
    /\ holder' = c
    /\ pc' = [pc EXCEPT ![c] = "stopping"]
    /\ victim' = [victim EXCEPT ![c] = task]
    /\ cancelled' = cancelled \cup ({task} \ {None})
    /\ refresh' = IF refresh = "off" THEN "off" ELSE "cancelled"
    /\ UNCHANGED <<request, interrupted, run, task, attempt, creds, registry_dirty,
                   spoiled, version, asked, known, conn_state, fired, ws, setup, faults>>

\* Slips: the finally block leaves out the event, or conn_state.
Reset_Silent == ws' = None /\ refresh' = "off" /\ conn_state' = "disconnected" /\ UNCHANGED fired
Reset_KeepsState == ws' = None /\ refresh' = "off" /\ fired' = fired \cup {attempt} /\ UNCHANGED conn_state

\* The finally block of _stop_locked.
Reset ==
    /\ ws' = None
    /\ refresh' = "off"
    /\ conn_state' = "disconnected"
    /\ fired' = fired \cup {attempt}

\* The awaits of _stop_locked are over for c, and its finally block runs.
Stopped(c) ==
    /\ pc[c] = "stopping"
    /\ victim[c] # None => ~Alive(victim[c])
    /\ refresh = "off" \/ c \in interrupted
    /\ Reset
    /\ holder' = None
    /\ UNCHANGED <<request, victim, interrupted, queue, registry_dirty, spoiled,
                   version, asked, known, cancelled, setup, faults>>

StopRaises(c) ==
    /\ Stopped(c)
    /\ c \in interrupted
    /\ task' = None
    /\ pc' = [pc EXCEPT ![c] = "cancelled"]
    /\ UNCHANGED <<run, attempt, creds>>

StopReturns(c) ==
    /\ Stopped(c)
    /\ c \notin interrupted
    /\ request[c] = None
    /\ task' = None
    /\ pc' = [pc EXCEPT ![c] = "returned"]
    /\ UNCHANGED <<run, attempt, creds>>

StartAttempt(c) ==
    /\ Stopped(c)
    /\ c \notin interrupted
    /\ request[c] # None
    /\ creds' = request[c]
    /\ attempt' = c
    /\ task' = c
    /\ run' = [run EXCEPT ![c] = "dial"]
    /\ pc' = [pc EXCEPT ![c] = "waiting"]

CallerReturns(c) ==
    /\ c \in Woken
    /\ pc' = [pc EXCEPT ![c] = "returned"]
    /\ UNCHANGED <<request, victim, interrupted, holder, queue, runVars, refreshVars,
                   conn_state, fired, ws, setup, faults>>

\* A caller is cancelled while it waits for the lock or for its attempt.
CancelQueued(c) ==
    /\ pc[c] = "lock"
    /\ pc' = [pc EXCEPT ![c] = "cancelled"]
    /\ \E i \in DOMAIN queue : queue[i] = c /\ queue' = RemoveAt(queue, i)
    /\ UNCHANGED <<request, victim, interrupted, holder, runVars, refreshVars,
                   conn_state, fired, ws, setup, faults>>

CancelWaiting(c) ==
    /\ pc[c] = "waiting"
    /\ pc' = [pc EXCEPT ![c] = "cancelled"]
    /\ UNCHANGED <<request, victim, interrupted, holder, queue, runVars, refreshVars,
                   conn_state, fired, ws, setup, faults>>

\* A caller is cancelled while _stop_locked awaits a task: it goes on waiting
\* for that task, then raises.
CancelStopping(c) ==
    /\ pc[c] = "stopping"
    /\ (victim[c] # None /\ Alive(victim[c])) \/ refresh # "off"
    /\ interrupted' = interrupted \cup {c}
    /\ UNCHANGED <<pc, request, victim, holder, queue, runVars, refreshVars,
                   conn_state, fired, ws, setup, faults>>

-----------------------------------------------------------------------------
(* The run task: connect, authenticate, read, report, retry                *)

Goes(k, from, to) ==
    /\ run[k] = from
    /\ k \notin cancelled
    /\ run' = [run EXCEPT ![k] = to]
    /\ UNCHANGED <<callerVars, cancelled, task, attempt, creds>>

Fault == faults < MaxFaults /\ faults' = faults + 1

\* A connection that never got to the reader does not fail what is pending on
\* it: a refresh's command waits out its timeout.
AbandonRefresh ==
    refresh' = IF refresh = "fetch" THEN "hung" ELSE refresh

ConnectOk(k) ==
    /\ Goes(k, "dial", "greet")
    /\ NothingReady
    /\ ws' = k
    /\ spoiled' = spoiled \ {k}
    /\ UNCHANGED <<refresh, registry_dirty, version, asked, known,
                   conn_state, fired, setup, faults>>

ConnectFails(k) ==
    /\ Goes(k, "dial", "notify")
    /\ NothingReady
    /\ Fault
    /\ conn_state' = "unreachable"
    /\ UNCHANGED <<refreshVars, fired, ws, setup>>

\* auth_required arrives and the token is sent.
Greeted(k) ==
    /\ Goes(k, "greet", "auth")
    /\ UNCHANGED <<refreshVars, conn_state, fired, ws, setup, faults>>

HandshakeFails(k) ==
    /\ Goes(k, "greet", "notify") \/ Goes(k, "auth", "notify")
    /\ Fault
    /\ conn_state' = "unreachable"
    /\ AbandonRefresh
    /\ UNCHANGED <<registry_dirty, spoiled, version, asked, known, fired, ws, setup>>

AuthOk(k) ==
    /\ Goes(k, "auth", "read")
    /\ creds \in GoodCreds
    /\ k \notin spoiled
    /\ setup' = [setup EXCEPT ![k] = "subscribe"]
    /\ UNCHANGED <<refreshVars, conn_state, fired, ws, faults>>

\* Home Assistant answers auth_invalid to a token it rejects, and to any
\* first frame that is not an auth frame.
AuthInvalid(k) ==
    /\ Goes(k, "auth", "reject")
    /\ creds \notin GoodCreds \/ k \in spoiled
    /\ conn_state' = "auth_failed"
    /\ AbandonRefresh
    /\ UNCHANGED <<registry_dirty, spoiled, version, asked, known, fired, ws, setup, faults>>

\* The reader's finally block: no WebSocket, every pending command failed, the
\* setup task asked to cancel.
LeaveReader ==
    /\ ws' = None
    /\ refresh' = IF refresh \in {"fetch", "hung"} THEN "off" ELSE refresh
    /\ UNCHANGED <<registry_dirty, spoiled, version, asked, known, conn_state, fired, setup>>

\* The WebSocket closes, or a frame cannot be handled.
Drop(k) ==
    /\ Goes(k, "read", "unwind")
    /\ Fault
    /\ LeaveReader

\* The setup failed and closed the WebSocket.
ReaderEnds(k) ==
    /\ Goes(k, "read", "unwind")
    /\ setup[k] = "failing"
    /\ LeaveReader
    /\ UNCHANGED faults

\* The setup has ended.
Unwound(k) ==
    /\ Goes(k, "unwind", "notify")
    /\ SetupEnded(k)
    /\ conn_state' = "unreachable"
    /\ UNCHANGED <<refreshVars, fired, ws, setup, faults>>

Notified(k) ==
    /\ Goes(k, "notify", "sleep")
    /\ fired' = fired \cup {attempt}
    /\ UNCHANGED <<refreshVars, conn_state, ws, setup, faults>>

\* Slip: a rejected attempt gives up without setting its event.
RejectNotified_Silent(k) ==
    /\ Goes(k, "reject", "ended")
    /\ UNCHANGED <<refreshVars, conn_state, fired, ws, setup, faults>>

RejectNotified(k) ==
    /\ Goes(k, "reject", "ended")
    /\ fired' = fired \cup {attempt}
    /\ UNCHANGED <<refreshVars, conn_state, ws, setup, faults>>

Retry(k) ==
    /\ Goes(k, "sleep", "dial")
    /\ UNCHANGED <<refreshVars, conn_state, fired, ws, setup, faults>>

\* The cancellation _stop_locked asked for reaches the run task at its await:
\* the reader first waits for its setup, everything else ends.
Unwinds(k, to) ==
    /\ k \in cancelled
    /\ run' = [run EXCEPT ![k] = to]
    /\ UNCHANGED <<callerVars, cancelled, task, attempt, creds, faults>>

CancelledReader(k) ==
    /\ run[k] = "read"
    /\ Unwinds(k, "unwind")
    /\ LeaveReader

CancelledRun(k) ==
    /\ \/ run[k] \in {"dial", "greet", "auth", "notify", "reject", "sleep"}
       \/ run[k] = "unwind" /\ SetupEnded(k)
    /\ Unwinds(k, "ended")
    /\ UNCHANGED <<refreshVars, conn_state, fired, ws, setup>>

-----------------------------------------------------------------------------
(* The setup task of k's connection, _on_connected                         *)

SetupGoes(k, from, to) ==
    /\ run[k] = "read"
    /\ setup[k] = from
    /\ setup' = [setup EXCEPT ![k] = to]
    /\ UNCHANGED <<callerVars, runVars, ws>>

\* The user is learned and every event type subscribed; the registries are next.
SetupSubscribed(k) ==
    /\ SetupGoes(k, "subscribe", "fetch")
    /\ asked' = [asked EXCEPT !["setup"] = version]
    /\ UNCHANGED <<refresh, registry_dirty, spoiled, version, known, conn_state, fired, faults>>

\* Registries, states and services are in: connected, and the listeners start.
SetupConnected(k) ==
    /\ SetupGoes(k, "fetch", "listen")
    /\ known' = Newest(known, asked["setup"])
    /\ conn_state' = "connected"
    /\ UNCHANGED <<refresh, registry_dirty, spoiled, version, asked, fired, faults>>

SetupListened(k) ==
    /\ SetupGoes(k, "listen", "done")
    /\ fired' = fired \cup {attempt}
    /\ UNCHANGED <<refreshVars, conn_state, faults>>

\* Slip: a failed setup leaves the WebSocket open.
SetupFails_LeavesOpen(k) ==
    /\ SetupGoes(k, "subscribe", "done") \/ SetupGoes(k, "fetch", "done")
    /\ Fault
    /\ UNCHANGED <<refreshVars, conn_state, fired>>

\* A command of the setup fails or times out: it closes the WebSocket.
SetupFails(k) ==
    /\ SetupGoes(k, "subscribe", "failing") \/ SetupGoes(k, "fetch", "failing")
    /\ Fault
    /\ UNCHANGED <<refreshVars, conn_state, fired>>

\* The cancel of the reader's finally block reaches the setup.
SetupUnwinds(k) ==
    /\ run[k] = "unwind"
    /\ SetupAlive(k)
    /\ setup' = [setup EXCEPT ![k] = "done"]
    /\ UNCHANGED <<callerVars, runVars, refreshVars, conn_state, fired, ws, faults>>

-----------------------------------------------------------------------------
(* Registry events and the coalesced refresh task                          *)

refreshFrame == <<callerVars, runVars, conn_state, fired, ws, setup, faults>>

\* A reader that has subscribed and has not been asked to cancel hears events.
Hears(k) == run[k] = "read" /\ k \notin cancelled /\ setup[k] # "subscribe"

\* Home Assistant changes a registry; a reader that hears it schedules a
\* refresh unless one is running.
RegistryChange ==
    /\ version < MaxChanges
    /\ version' = version + 1
    /\ \/ /\ \E k \in Callers : Hears(k)
          /\ registry_dirty' = TRUE
          /\ refresh' = IF refresh = "off" THEN "loop" ELSE refresh
       \/ /\ \A k \in Callers : ~Hears(k)
          /\ UNCHANGED <<registry_dirty, refresh>>
    /\ UNCHANGED <<spoiled, asked, known, refreshFrame>>

\* _ws holds a WebSocket that is open; after a failed handshake it holds a
\* closed one until the next connect.
Open == ws # None /\ run[ws] \in {"greet", "auth", "read"}

AtLoopHead == refresh \in {"loop", "notify"}

\* Nothing is dirty, or there is nothing to ask: no WebSocket, or a closed one.
RefreshEnds ==
    /\ AtLoopHead
    /\ ~(registry_dirty /\ Open)
    /\ registry_dirty' = FALSE
    /\ refresh' = "off"
    /\ UNCHANGED <<spoiled, version, asked, known, refreshFrame>>

RefreshAsks ==
    /\ AtLoopHead
    /\ registry_dirty
    /\ Open
    /\ registry_dirty' = FALSE
    /\ refresh' = "fetch"
    /\ asked' = [asked EXCEPT !["refresh"] = version]
    /\ spoiled' = IF run[ws] = "greet" THEN spoiled \cup {ws} ELSE spoiled
    /\ UNCHANGED <<version, known, refreshFrame>>

\* Slip: the dirty flag is cleared when the replies are in, not before asking.
RefreshDone_ClearsDirty ==
    /\ refresh = "fetch"
    /\ \E k \in Callers : run[k] = "read" /\ k \notin cancelled
    /\ refresh' = "notify"
    /\ known' = Newest(known, asked["refresh"])
    /\ registry_dirty' = FALSE
    /\ UNCHANGED <<spoiled, version, asked, refreshFrame>>

\* The replies are in, and the registry listeners start.
RefreshDone ==
    /\ refresh = "fetch"
    /\ \E k \in Callers : run[k] = "read" /\ k \notin cancelled
    /\ refresh' = "notify"
    /\ known' = Newest(known, asked["refresh"])
    /\ UNCHANGED <<registry_dirty, spoiled, version, asked, refreshFrame>>

RefreshFails ==
    /\ RefreshMayFail
    /\ refresh \in {"fetch", "hung"}
    /\ refresh' = "off"
    /\ UNCHANGED <<registry_dirty, spoiled, version, asked, known, refreshFrame>>

RefreshUnwinds ==
    /\ refresh = "cancelled"
    /\ refresh' = "off"
    /\ UNCHANGED <<registry_dirty, spoiled, version, asked, known, refreshFrame>>

-----------------------------------------------------------------------------

Caller(c) == \/ AlreadyConnected(c) \/ BeginStop(c) \/ StopRaises(c)
             \/ StopReturns(c) \/ StartAttempt(c) \/ CallerReturns(c)

Cancel(c) == CancelQueued(c) \/ CancelWaiting(c) \/ CancelStopping(c)

RunStep(k) == \/ ConnectOk(k) \/ Greeted(k) \/ AuthOk(k) \/ AuthInvalid(k)
              \/ ReaderEnds(k) \/ Unwound(k) \/ Notified(k) \/ RejectNotified(k)
              \/ Retry(k) \/ CancelledReader(k) \/ CancelledRun(k)

RunFault(k) == ConnectFails(k) \/ HandshakeFails(k) \/ Drop(k)

SetupStep(k) == \/ SetupSubscribed(k) \/ SetupConnected(k)
                \/ SetupListened(k) \/ SetupUnwinds(k)

RefreshStep == RefreshEnds \/ RefreshAsks \/ RefreshDone \/ RefreshUnwinds

Next ==
    \/ \E c \in Callers : Arrive(c) \/ Caller(c) \/ Cancel(c)
    \/ \E k \in Callers : RunStep(k) \/ RunFault(k) \/ SetupStep(k) \/ SetupFails(k)
    \/ RegistryChange
    \/ RefreshStep
    \/ RefreshFails

Spec == Init /\ [][Next]_vars

\* The event loop runs what is ready, and Home Assistant answers.
Fairness ==
    /\ \A c \in Callers : WF_vars(Caller(c))
    /\ \A k \in Callers : WF_vars(RunStep(k)) /\ WF_vars(SetupStep(k))
    /\ WF_vars(RefreshStep)

FairSpec == Spec /\ Fairness

-----------------------------------------------------------------------------
(* Properties                                                              *)

RunPC     == {"none", "dial", "greet", "auth", "read", "unwind", "notify", "reject",
              "sleep", "ended"}
SetupPC   == {"none", "subscribe", "fetch", "listen", "failing", "done"}
CallerPC  == {"idle", "lock", "stopping", "waiting", "returned", "cancelled"}
RefreshPC == {"off", "loop", "fetch", "hung", "notify", "cancelled"}

\* The callers, and the lock.
CallerType ==
    /\ pc \in [Callers -> CallerPC]
    /\ request \in [Callers -> Creds \cup {None}]
    /\ victim \in [Callers -> Callers \cup {None}]
    /\ interrupted \subseteq Callers
    /\ holder \in Callers \cup {None}
    /\ queue \in Seq(Callers)

\* The run and setup tasks, and what they share with the callers.
RunType ==
    /\ run \in [Callers -> RunPC]
    /\ setup \in [Callers -> SetupPC]
    /\ cancelled \subseteq Callers
    /\ task \in Callers \cup {None}
    /\ attempt \in Callers \cup {None}
    /\ creds \in Creds \cup {None}
    /\ conn_state \in ConnState
    /\ fired \subseteq Callers \cup {None}
    /\ ws \in Callers \cup {None}
    /\ faults \in 0..MaxFaults

\* The refresh task and the registries.
RefreshType ==
    /\ refresh \in RefreshPC
    /\ spoiled \subseteq Callers
    /\ version \in 0..MaxChanges
    /\ asked \in [{"setup", "refresh"} -> 0..MaxChanges]
    /\ known \in 0..MaxChanges

\* Every variable holds a value of its kind.
TypeOK == CallerType /\ RunType /\ RefreshType /\ registry_dirty \in BOOLEAN

\* Overlapping apply_credentials and stop calls never leave two connection
\* loops alive: whatever run task is alive is the one _task names, so that the
\* next stop reaches it.
OneConnection == \A k \in Callers : Alive(k) => task = k

\* A setup task lives inside its connection's reader: while the disconnect
\* listeners run, and on every later attempt, no connect listener of an earlier
\* connection is still writing.
AttemptsNest == \A k \in Callers : SetupAlive(k) => run[k] \in {"read", "unwind"}

\* A caller still waiting for its attempt always has someone to wake it: the
\* attempt's run task is the current one, it has not reached its first verdict,
\* and the event it will set is the one this caller waits for.
NobodyStranded ==
    \A c \in Callers : pc[c] = "waiting" /\ c \notin fired =>
        /\ task = c /\ attempt = c
        /\ run[c] \notin {"none", "sleep", "ended"} \/ c \in cancelled
        /\ setup[c] = "done" => run[c] # "read"

\* Between lifecycle calls conn_state never contradicts where the connection
\* is: "connected" exactly from the end of the setup until the loss is handled,
\* "auth_failed" exactly when the loop has given up, "disconnected" without one.
StateTellsTruth ==
    holder = None =>
        /\ task = None => conn_state = "disconnected"
        /\ task # None =>
            /\ conn_state = "connected" => run[task] \in {"read", "unwind"}
            /\ run[task] = "read" /\ setup[task] \in {"listen", "done"} => conn_state = "connected"
            /\ (conn_state = "auth_failed") = (run[task] \in {"reject", "ended"})
            /\ run[task] \in {"notify", "sleep"} => conn_state = "unreachable"

\* A call never reports somebody else's attempt: when apply_credentials returns
\* after its wait, the state it returns is its own attempt's, or
\* "disconnected" because a newer call or a stop took over.
ReportsOwnAttempt ==
    [][\A c \in Callers : pc[c] = "waiting" /\ pc'[c] = "returned"
           => task = c \/ conn_state = "disconnected"]_vars

\* Once the connection is set up and no refresh runs, the registries are Home
\* Assistant's current ones: no registry change is lost to the coalescing, to a
\* drop, or to a refresh that finds no WebSocket.
RegistriesCurrent ==
    \A k \in Callers :
        /\ Hears(k)
        /\ setup[k] \in {"listen", "done"}
        /\ refresh = "off"
        => known = version

\* HAAuthError means that Home Assistant rejected the token.
AuthFailedMeansBadToken == conn_state = "auth_failed" => creds \notin GoodCreds

\* Every call ends: it returns or raises, whatever overlaps it.
CallersReturn ==
    \A c \in Callers : pc[c] = "lock" ~> pc[c] \in {"returned", "cancelled"}

\* Once the faults are over and nobody calls any more, the connection comes up
\* by itself, or has been rejected.
Settles ==
    <>[](task # None => conn_state = IF creds \in GoodCreds /\ task \notin spoiled
                                      THEN "connected" ELSE "auth_failed")

-----------------------------------------------------------------------------
(* The inductive invariant behind the safety properties                    *)

\* The lock: whoever is inside _stop_locked holds it and awaits the run task
\* _task names; only a run task that a lock holder cancelled is cancelled.
LockInv ==
    /\ \A c \in Callers : pc[c] = "stopping" <=> holder = c
    /\ \A c \in Callers : holder = c => victim[c] = task
    /\ task # None => (task \in cancelled <=> holder # None)

\* A caller that has not got through yet has no run task; the current run task
\* is the current attempt's; a cancelled run task has run.
AttemptInv ==
    /\ \A c \in Callers : pc[c] \in {"idle", "lock", "stopping"} => run[c] = "none"
    /\ task # None => attempt = task /\ run[task] # "none"
    /\ task = None => conn_state = "disconnected"
    /\ \A k \in cancelled : run[k] # "none"

\* Whoever waits for an attempt that has been replaced has been woken, reads
\* "disconnected", and does so before the new attempt gets anywhere.
SupersededInv ==
    \A c \in Callers : pc[c] = "waiting" /\ task # c =>
        /\ c \in fired
        /\ conn_state = "disconnected"
        /\ task # None => run[task] \in {"dial", "ended"}

Inductive ==
    /\ TypeOK /\ LockInv /\ AttemptInv /\ SupersededInv
    /\ OneConnection /\ AttemptsNest /\ NobodyStranded /\ StateTellsTruth

\* Nothing fetched is newer than Home Assistant's registries, a connection that
\* is open is the one _ws holds, and a refresh is cancelled inside a stop only.
RefreshInv ==
    /\ {known, asked["setup"], asked["refresh"]} \subseteq 0..version
    /\ \A k \in Callers : run[k] \in {"greet", "auth", "read"} => ws = k
    /\ refresh = "cancelled" => holder # None

\* While a connection hears of the changes, what it knows is current, or a fetch
\* that asked for the current version is under way, or one is still to be asked;
\* a refresh left hanging ends with the connection.
CurrentInv ==
    \A k \in Callers : Hears(k) =>
        \/ known = version
        \/ setup[k] = "fetch" /\ asked["setup"] = version
        \/ refresh \in {"loop", "fetch", "notify"} /\ registry_dirty
        \/ refresh = "fetch" /\ asked["refresh"] = version
        \/ refresh = "hung" \/ setup[k] = "failing"

-----------------------------------------------------------------------------
(* The abstract contract                                                   *)

\* Where the connection is, as its listeners see it.
Phase ==
    IF holder # None /\ task # None
    THEN IF run[task] = "read" /\ setup[task] \notin {"listen", "done"}
         THEN "cutting" ELSE "halting"
    ELSE IF task = None THEN "off"
    ELSE CASE run[task] \in {"dial", "greet", "auth"} -> "dial"
           [] run[task] = "read" ->
                IF setup[task] \in {"listen", "done"} THEN "up" ELSE "setup"
           [] run[task] = "unwind" -> "lost"
           [] run[task] \in {"notify", "reject"} -> "report"
           [] run[task] = "sleep" -> "backoff"
           [] OTHER -> "rejected"

Listeners == IF task # None /\ setup[task] = "listen" THEN "running" ELSE "idle"

Contract == INSTANCE ConnectionContract WITH phase <- Phase, listeners <- Listeners

\* The connection keeps its contract: every step is a contract step or none.
KeepsContract == Contract!Spec
=============================================================================
