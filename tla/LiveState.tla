------------------------------ MODULE LiveState ------------------------------
(***************************************************************************)
(* Alfred's copy of Home Assistant's states (src/app/live_state.py), with  *)
(* the listeners and the lifespan that drive it (src/app/server.py), on    *)
(* top of any connection that keeps ConnectionContract.                    *)
(*                                                                         *)
(* Five kinds of task write, each at most one write at a time: the         *)
(* connection's run task (state events, and the clear on disconnect), its  *)
(* setup task (the connect listener), the registry refresh task, the       *)
(* registration retry, and the lifespan.  The writes wait for the writer's *)
(* lock in the order they were handed over; they land, fail or are         *)
(* cancelled one at a time.                                                *)
(***************************************************************************)
EXTENDS Naturals, Sequences, SequencesExt

CONSTANTS Entities,   \* the entities of Home Assistant
          Values,     \* the states an entity can be in
          Rooms,      \* what the index and the service catalog can say of the entities
          Gone,       \* an entity that does not exist, an entry the hash does not have
          MaxFails,   \* bound: writes that fail
          MaxPushes   \* bound: credential pushes that interrupt a connection

ASSUME LiveStateAssumption ==
    /\ Gone \notin Values
    /\ Gone \notin Values \X Rooms
    /\ MaxFails \in Nat
    /\ MaxPushes \in Nat

VARIABLES
    conn_state, phase, listeners,   \* the connection, see ConnectionContract
    states,   \* conn.states
    rooms,    \* index.areas() and conn.services_catalog
    dirty,    \* _dirty
    stale,    \* _stale
    hash,     \* the hash in Redis
    queue,    \* the writes handed over, in the order of the writer's lock
    setup,    \* on_connect: "idle", "publishing", "healing"
    refresh,  \* on_registries_updated: "idle", "registering", "healing", "unwinding"
    life,     \* lifespan: "starting", "healing", "serving", "stopping", "final", "closed"
    fails,    \* how many of MaxFails have happened
    pushes    \* how many of MaxPushes have happened

Conn == INSTANCE ConnectionContract

connVars == <<conn_state, phase, listeners>>
taskVars == <<setup, refresh, life, pushes>>
vars == <<connVars, states, rooms, dirty, stale, hash, queue, taskVars, fails>>

Tasks == {"run", "setup", "refresh", "retry", "life"}

-----------------------------------------------------------------------------
(* Writes                                                                  *)

Empty == [e \in Entities |-> Gone]

\* Slip: an entity Home Assistant deleted is written as an entry without a state.
Entry_NoRemove(state, room) == <<state, room>>

\* What the hash should hold of an entity: nothing once Home Assistant deleted it.
Entry(state, room) == IF state = Gone THEN Gone ELSE <<state, room>>

SnapshotOf(ss, rs) == [e \in Entities |-> Entry(ss[e], rs)]
Snapshot == SnapshotOf(states, rooms)

\* A write replaces the entries it names; a replace or a clear names them all.
Apply(h, w) == [e \in Entities |-> IF e \in DOMAIN w.data THEN w.data[e] ELSE h[e]]

Whole(by, data)  == [by |-> by, whole |-> TRUE, data |-> data]
Update(e, entry) == [by |-> "run", whole |-> FALSE, data |-> [x \in {e} |-> entry]]

HandOver(w) == queue' = Append(queue, w)

Waits(by) == \E i \in DOMAIN queue : queue[i].by = by

\* publish(): the snapshot is built and handed over in one step.
Publish(by) == HandOver(Whole(by, Snapshot)) /\ stale' = FALSE

\* Slip: a heal republishes whatever the connection is doing.
Heal_Always(by) ==
    IF dirty THEN Publish(by) ELSE UNCHANGED <<queue, stale>>

\* heal(): a replace from a live connection, a clear without one.
Heal(by) ==
    IF ~dirty THEN UNCHANGED <<queue, stale>>
    ELSE IF conn_state = "connected" THEN Publish(by)
    ELSE HandOver(Whole(by, Empty)) /\ UNCHANGED stale

\* The tasks asked to cancel, whose writes the writer no longer serves.
Cancelled(by) == \/ by = "run" /\ phase \in {"cutting", "halting"}
                 \/ by = "setup" /\ phase = "lost"
                 \/ by = "refresh" /\ refresh = "unwinding"

\* A cancelled task drops its write: one still waiting for the lock never
\* lands, the one being served may have.  Nobody marks the hash dirty.
DropWrite(by) ==
    \/ /\ ~Waits(by)
       /\ UNCHANGED <<hash, queue>>
    \/ \E i \in DOMAIN queue :
        /\ queue[i].by = by
        /\ queue' = RemoveAt(queue, i)
        /\ hash' \in IF i = 1 THEN {hash, Apply(hash, queue[i])} ELSE {hash}

\* Slip: the lifespan begins without a clear.
FirstClear_None == <<>>

\* What a killed process has left is cleared first.
FirstClear == <<Whole("life", Empty)>>

Init ==
    /\ Conn!Init
    /\ states = Empty
    /\ rooms \in Rooms
    /\ dirty = FALSE
    /\ stale = FALSE
    /\ hash \in [Entities -> (Values \X Rooms) \cup {Gone}]   \* a killed process's
    /\ queue = FirstClear
    /\ setup = "idle"
    /\ refresh = "idle"
    /\ life = "starting"
    /\ fails = 0
    /\ pushes = 0

-----------------------------------------------------------------------------
(* The writer                                                              *)

Served == queue # <<>> /\ ~Cancelled(Head(queue).by)

\* Slip: the stale mark is cleared when a replace lands, not when it is built.
LandWhole_ClearsStale ==
    /\ Served
    /\ Head(queue).whole
    /\ hash' = Apply(hash, Head(queue))
    /\ queue' = Tail(queue)
    /\ dirty' = FALSE
    /\ stale' = FALSE
    /\ UNCHANGED <<connVars, states, rooms, taskVars, fails>>

\* A replace or a clear lands: whatever was wrong before is right again.
LandWhole ==
    /\ Served
    /\ Head(queue).whole
    /\ hash' = Apply(hash, Head(queue))
    /\ queue' = Tail(queue)
    /\ dirty' = FALSE
    /\ UNCHANGED <<connVars, states, rooms, stale, taskVars, fails>>

\* A state event's write lands: Redis is back, so whatever is pending follows.
LandUpdate ==
    /\ Served
    /\ ~Head(queue).whole
    /\ hash' = Apply(hash, Head(queue))
    /\ IF (dirty \/ stale) /\ conn_state = "connected"
       THEN /\ queue' = Append(Tail(queue), Whole("run", Snapshot))
            /\ stale' = FALSE
       ELSE /\ queue' = Tail(queue)
            /\ UNCHANGED stale
    /\ UNCHANGED <<connVars, states, rooms, dirty, taskVars, fails>>

\* A write fails; Redis may have taken it all the same.
Fail ==
    /\ Served
    /\ fails < MaxFails
    /\ fails' = fails + 1
    /\ hash' \in {hash, Apply(hash, Head(queue))}
    /\ queue' = Tail(queue)
    /\ dirty' = TRUE
    /\ UNCHANGED <<connVars, states, rooms, stale, taskVars>>

-----------------------------------------------------------------------------
(* The connection and its listeners                                        *)

\* Nothing but the connection moves.
Quietly == UNCHANGED <<states, rooms, dirty, stale, hash, queue, taskVars, fails>>

Start ==
    /\ life = "serving"
    /\ ~Waits("run")
    /\ Conn!Start
    /\ Quietly

Authenticated == Conn!Authenticated /\ Quietly

\* The get_states reply replaces the states while the reader handles its frame.
InstallStates ==
    /\ phase = "setup"
    /\ ~Waits("run")
    /\ states' \in [Entities -> Values \cup {Gone}]
    /\ UNCHANGED <<connVars, rooms, dirty, stale, hash, queue, taskVars, fails>>

\* A state event: the reader applies it and hands its write over, then waits.
StateChanged(e) ==
    /\ phase \in {"setup", "up"}
    /\ ~Waits("run")
    /\ \E v \in Values \cup {Gone} : states' = [states EXCEPT ![e] = v]
    /\ HandOver(Update(e, Entry(states'[e], rooms)))
    /\ UNCHANGED <<connVars, rooms, dirty, stale, hash, taskVars, fails>>

\* The catalog is in, conn_state turns, the index is rebuilt and the snapshot
\* is handed over, all in one step.
Announce ==
    /\ Conn!Announce
    /\ setup = "idle"
    /\ setup' = "publishing"
    /\ rooms' \in Rooms
    /\ HandOver(Whole("setup", SnapshotOf(states, rooms')))
    /\ stale' = FALSE
    /\ UNCHANGED <<states, dirty, hash, refresh, life, fails, pushes>>

\* on_connect's registration lands, and heals, or fails.
SetupRegistered ==
    /\ setup = "publishing"
    /\ phase # "lost"
    /\ ~Waits("setup")
    /\ Heal("setup") \/ UNCHANGED <<queue, stale>>
    /\ setup' = "healing"
    /\ UNCHANGED <<connVars, states, rooms, dirty, hash, refresh, life, fails, pushes>>

SetupDone ==
    /\ setup = "healing"
    /\ phase # "lost"
    /\ ~Waits("setup")
    /\ Conn!ListenersEnd
    /\ setup' = "idle"
    /\ UNCHANGED <<states, rooms, dirty, stale, hash, queue, refresh, life, fails, pushes>>

\* The setup of a lost or halting connection is cancelled.
SetupUnwinds ==
    /\ phase \in {"lost", "halting"}
    /\ Conn!ListenersEnd
    /\ DropWrite("setup")
    /\ setup' = "idle"
    /\ UNCHANGED <<states, rooms, dirty, stale, refresh, life, fails, pushes>>

\* The reader can only find the WebSocket closed between two messages.
Lose ==
    /\ ~Waits("run")
    /\ Conn!Lose
    /\ Quietly

\* Slip: only an established connection's loss clears the hash.
AttemptFails_Silent == Conn!AttemptFails /\ Quietly

\* The disconnect listener: clear().
AttemptFails ==
    /\ Conn!AttemptFails
    /\ HandOver(Whole("run", Empty))
    /\ UNCHANGED <<states, rooms, dirty, stale, hash, taskVars, fails>>

Report ==
    /\ Conn!Report
    /\ HandOver(Whole("run", Empty))
    /\ UNCHANGED <<states, rooms, dirty, stale, hash, taskVars, fails>>

Reported ==
    /\ ~Waits("run")
    /\ Conn!Reported
    /\ Quietly

Retry == Conn!Retry /\ Quietly

\* New credentials, or shutdown: the run and refresh tasks are asked to cancel.
Halt ==
    /\ \/ life = "stopping" /\ UNCHANGED pushes
       \/ life = "serving" /\ pushes < MaxPushes /\ pushes' = pushes + 1
    /\ Conn!Halt
    /\ refresh' = IF refresh = "idle" THEN "idle" ELSE "unwinding"
    /\ UNCHANGED <<states, rooms, dirty, stale, hash, queue, setup, life, fails>>

Cut == Conn!Cut /\ Quietly

RunUnwinds ==
    /\ phase \in {"cutting", "halting"}
    /\ Waits("run")
    /\ DropWrite("run")
    /\ UNCHANGED <<connVars, states, rooms, dirty, stale, taskVars, fails>>

\* Only shutdown stops the connection for good.
Halted ==
    /\ life = "stopping"
    /\ ~Waits("run")
    /\ Conn!Halted
    /\ Quietly

-----------------------------------------------------------------------------
(* The registry refresh, and the registration retry                        *)

\* on_registries_updated: the index is rebuilt, a move marks the hash stale,
\* and a registration is asked for.
RegistryRefresh ==
    /\ refresh = "idle"
    /\ phase \in {"setup", "up", "lost"}
    /\ rooms' \in Rooms
    /\ stale' = (stale \/ rooms' # rooms)
    /\ refresh' = "registering"
    /\ UNCHANGED <<connVars, states, dirty, hash, queue, setup, life, fails, pushes>>

RefreshRegistered ==
    /\ refresh = "registering"
    /\ Heal("refresh") \/ UNCHANGED <<queue, stale>>
    /\ refresh' = "healing"
    /\ UNCHANGED <<connVars, states, rooms, dirty, hash, setup, life, fails, pushes>>

RefreshDone ==
    /\ refresh = "healing"
    /\ ~Waits("refresh")
    /\ refresh' = "idle"
    /\ UNCHANGED <<connVars, states, rooms, dirty, stale, hash, queue, setup, life, fails, pushes>>

RefreshUnwinds ==
    /\ refresh = "unwinding"
    /\ DropWrite("refresh")
    /\ refresh' = "idle"
    /\ UNCHANGED <<connVars, states, rooms, dirty, stale, setup, life, fails, pushes>>

\* A registration retry lands at any time until the registrar is stopped; from
\* there its hook is never cancelled.
RetryRegistered ==
    /\ life \in {"healing", "serving", "stopping"}
    /\ dirty
    /\ ~Waits("retry")
    /\ Heal("retry")
    /\ UNCHANGED <<connVars, states, rooms, dirty, hash, taskVars, fails>>

-----------------------------------------------------------------------------
(* The lifespan                                                            *)

LifeGoes(from, to) ==
    /\ life = from
    /\ life' = to
    /\ UNCHANGED <<connVars, states, rooms, dirty, hash, setup, refresh, fails, pushes>>

\* The first clear has ended; the first registration lands, and heals, or fails.
StartupRegistered ==
    /\ LifeGoes("starting", "healing")
    /\ ~Waits("life")
    /\ Heal("life") \/ UNCHANGED <<queue, stale>>

Serve ==
    /\ LifeGoes("healing", "serving")
    /\ ~Waits("life")
    /\ UNCHANGED <<queue, stale>>

Shutdown ==
    /\ LifeGoes("serving", "stopping")
    /\ UNCHANGED <<queue, stale>>

\* Slip: the last clear does not wait for the connection to stop.
FinalClear_Early ==
    /\ LifeGoes("stopping", "final")
    /\ HandOver(Whole("life", Empty))
    /\ UNCHANGED stale

\* The connection and then the registrar have stopped: the last clear.
FinalClear ==
    /\ LifeGoes("stopping", "final")
    /\ phase = "off"
    /\ HandOver(Whole("life", Empty))
    /\ UNCHANGED stale

\* aclose waits its turn behind every write.
Close ==
    /\ LifeGoes("final", "closed")
    /\ queue = <<>>
    /\ UNCHANGED <<queue, stale>>

-----------------------------------------------------------------------------

Writer == LandWhole \/ LandUpdate

Connection == \/ AttemptFails \/ Authenticated \/ Announce \/ Report \/ Reported
              \/ Retry \/ Cut \/ RunUnwinds \/ Halted

Listener == SetupRegistered \/ SetupDone \/ SetupUnwinds

Refresh == RefreshRegistered \/ RefreshDone \/ RefreshUnwinds

Lifespan == StartupRegistered \/ Serve \/ FinalClear \/ Close

Next ==
    \/ Writer \/ Fail
    \/ Connection \/ Start \/ Lose \/ Halt
    \/ InstallStates \/ \E e \in Entities : StateChanged(e)
    \/ Listener
    \/ RegistryRefresh \/ Refresh \/ RetryRegistered
    \/ Lifespan \/ Shutdown

Spec == Init /\ [][Next]_vars

\* Redis answers, the event loop runs what is ready, an attempt ends, and a
\* shutdown goes through its steps.
Fairness ==
    /\ WF_vars(Writer)
    /\ WF_vars(Connection)
    /\ WF_vars(Start /\ phase = "halting")
    /\ WF_vars(Halt /\ life = "stopping")
    /\ WF_vars(Listener)
    /\ WF_vars(Refresh)
    /\ WF_vars(Lifespan)

FairSpec == Spec /\ Fairness

-----------------------------------------------------------------------------
(* Properties                                                              *)

Entries == (Values \X Rooms) \cup {Gone}

Data == UNION {[some -> Entries] : some \in SUBSET Entities}

\* A write: whose it is, and the entries it sets.
Writes ==
    {w \in [by : Tasks, whole : BOOLEAN, data : Data] : w.whole => DOMAIN w.data = Entities}

\* Every variable holds a value of its kind, and the hash only what Alfred can
\* read: an entity with a state, or nothing.
TypeOK ==
    /\ states \in [Entities -> Values \cup {Gone}]
    /\ rooms \in Rooms
    /\ dirty \in BOOLEAN
    /\ stale \in BOOLEAN
    /\ hash \in [Entities -> Entries]
    /\ queue \in Seq(Writes)
    /\ setup \in {"idle", "publishing", "healing"}
    /\ refresh \in {"idle", "registering", "healing", "unwinding"}
    /\ life \in {"starting", "healing", "serving", "stopping", "final", "closed"}
    /\ fails \in 0..MaxFails
    /\ pushes \in 0..MaxPushes

\* The hash once every write handed over has landed: the last write that names an
\* entity says what becomes of it.
Outcome ==
    [e \in Entities |->
        LET naming == {i \in DOMAIN queue : e \in DOMAIN queue[i].data}
        IN IF naming = {} THEN hash[e] ELSE queue[Max(naming)].data[e]]

\* While the connection is up, and nothing is marked wrong, Alfred's copy is or
\* is about to be exactly Home Assistant's states with their rooms: no write of
\* another task, of an earlier connection, or handed over before a room moved
\* ends up on top.
InStep == phase = "up" /\ ~dirty /\ ~stale => Outcome = Snapshot

\* Nothing has connected since the process began.
Unconnected == phase = "off" /\ life \in {"starting", "healing", "serving"}

\* Before anything connects, and once a lost connection or a failed attempt has
\* been reported, Alfred's copy, unless marked wrong, is or is about to be empty:
\* what a killed process left is gone, and nothing the lost connection's tasks,
\* the surviving refresh or a retry still write brings entries back.
AwayIsEmpty == (Unconnected \/ phase \in {"backoff", "rejected"}) /\ ~dirty => Outcome = Empty

\* A service that has shut down leaves no entries behind, unless a write failed
\* and nothing healed it.
ShutdownLeavesEmpty == life = "closed" /\ ~dirty => hash = Empty

\* While Home Assistant stays away, the reconnect attempts clear the hash again
\* and again until that lands: a failed write is not left in Redis while the
\* loop retries.
AwayHeals == phase = "backoff" /\ dirty ~> ~dirty \/ phase \in {"up", "rejected"} \/ life = "closed"

\* The refresh task never writes live state.
RefreshNeverWrites == ~Waits("refresh")

-----------------------------------------------------------------------------
(* The inductive invariant behind the safety properties                    *)

Phases == {"off", "dial", "setup", "up", "lost", "report", "rejected", "backoff",
           "cutting", "halting"}

\* The connect listeners are on_connect; conn_state is "connected" while the
\* connection is up, and not while it is dialled or reported lost; a refresh
\* that outlives a halt has been cancelled; and only a serving lifespan connects.
ConnInv ==
    /\ phase \in Phases
    /\ listeners \in {"idle", "running"}
    /\ listeners = "running" <=> setup # "idle"
    /\ listeners = "running" => phase \in {"up", "lost", "halting"}
    /\ phase = "up" => conn_state = "connected"
    /\ phase \in {"off", "dial", "setup", "report", "rejected", "backoff", "cutting"} =>
           conn_state # "connected"
    /\ phase \in {"off", "cutting", "halting"} => refresh \in {"idle", "unwinding"}
    /\ life \notin {"serving", "stopping"} => phase = "off"
    /\ life = "closed" => queue = <<>>

\* Every task waits for its write, so it has at most one, and none in between;
\* the run task alone writes less than everything.
WaitInv ==
    /\ \A i, j \in DOMAIN queue : queue[i].by = queue[j].by => i = j
    /\ \A i \in DOMAIN queue : queue[i].whole \/ queue[i].by = "run"
    /\ phase \in {"off", "dial", "lost", "rejected", "backoff"} => ~Waits("run")
    /\ setup = "idle" => ~Waits("setup")
    /\ refresh \in {"idle", "registering"} => ~Waits("refresh")
    /\ life \in {"serving", "stopping"} => ~Waits("life")

\* The last of the writes q that names e.
LastOn(q, e, i) ==
    /\ e \in DOMAIN q[i].data
    /\ \A j \in DOMAIN q : i < j => e \notin DOMAIN q[j].data

\* The writes q turn the hash h into t.
EndsIn(h, q, t) ==
    \A e \in Entities :
        \/ /\ \A i \in DOMAIN q : e \notin DOMAIN q[i].data
           /\ h[e] = t[e]
        \/ \E i \in DOMAIN q : LastOn(q, e, i) /\ q[i].data[e] = t[e]

\* Where the hash has something to be equal to, and what.
Settled ==
    Unconnected \/ phase \in {"up", "report", "rejected", "backoff"} \/ life \in {"final", "closed"}
Target  == IF phase = "up" THEN Snapshot ELSE Empty

\* A dirty hash is only as good as the next whole write: it clears the mark when
\* it lands, so from there on everything must be right.
HashInv ==
    /\ Settled
    /\ phase = "up" => ~stale
    /\ dirty => \E i \in DOMAIN queue : queue[i].whole
    => EndsIn(hash, queue, Target)

\* The write of a refresh that was cancelled may be dropped: it is not the last
\* whole one.
LeftoverInv ==
    Settled /\ refresh = "unwinding" =>
        \A i \in DOMAIN queue : queue[i].by = "refresh" =>
            \E j \in DOMAIN queue : i < j /\ queue[j].whole /\ queue[j].by # "refresh"

Inductive == TypeOK /\ ConnInv /\ WaitInv /\ HashInv /\ LeftoverInv
=============================================================================
