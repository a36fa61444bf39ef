# home-service: specifications and proofs

home-service joins a Home Assistant instance to Alfred. It holds one WebSocket to
Home Assistant, turns its service catalog into tools that Alfred can call, keeps a
copy of every entity's state in Redis for Alfred to read, and forwards state changes
to MQTT. It is a single process on one asyncio event loop: everything below happens
in coroutines that interleave at their awaits and nowhere else. What makes it hard is
that most of them can be cancelled in the middle, that the sockets fail at any
moment, and that several pieces of state (Redis, Alfred's registry, the registries
of Home Assistant) are copies that must end up equal to their originals.

`PROJECT.json` lists the components, the runs, the hazards with their lines, the
theorems, and for every definition the source lines it models. Paths below are
relative to the repository.

## Inventory

| component | state it keeps | operations | what makes it correct |
|---|---|---|---|
| **Home Assistant connection** `app/ha_connection.py` | `conn_state`, credentials, the run task, the attempt event, `_ws`, the lifecycle lock, the refresh task and its dirty flag, the registries, states and services, pending commands | `apply_credentials`, `stop`, the connection loop, handshake, setup, reader, registry refresh; commands, service calls and event contexts | one connection loop whatever overlaps; no caller waits for ever; the state it reports is true; connect and disconnect listeners never overlap; registries end up current |
| **Task helper** `app/tasks.py` | none | `cancel_and_wait` | waits until the task has ended, even if the waiter is cancelled meanwhile |
| **Live state publisher** `app/live_state.py` | dirty and stale marks; the hash in Redis through the SDK's writer | `publish`, `clear`, `heal`, `on_state_changed`, `mark_stale` | the hash equals Home Assistant's states while connected, is empty while it is not, and any mistake is marked |
| **Registrar** `app/server.py` | the retry task, the attempt lock | `register`, the retry loop, `stop` | a failed registration is retried until what it was for has landed; nothing survives `stop` |
| **Lifespan and listeners** `app/server.py` | `capabilities_ready` | startup, shutdown, `on_connect`, `on_registries_updated`, `/credentials`, `/mcp`, `/health` | shutdown leaves nothing behind; listeners do not undo each other; Alfred's push does not loop |
| **State forwarder** `app/state_forwarder.py` | the bounded queue, the message in flight | `on_state_changed`, the publish loop, `stop` | nothing reordered, nothing lost while the loop runs |
| **Entity index** `app/entity_index.py` | maps rebuilt from the registries | `rebuild`, name resolution, counts | a name resolves to the entity a person means, the same one every time |
| **Capability generator** `app/capability_generator.py`, **risk map** `app/risk_map.py` | the specs frozen at the first connect | `generate`, arguments of a call, risk lookup | a tool never carries less risk than the map says |
| **Home feature** `app/home_feature.py` | none | tool dispatch onto service calls | an error of Home Assistant reaches the caller as one |
| **SDK client** `alfred_ext/register.py` | none | construction | no state |
| **HTTP client** `app/ha_client.py` | none | a REST helper | not imported by the service |

How they interact:

    Alfred --POST /credentials--> connection --connect--> on_connect --> index, publisher, registrar
      ^                               |  --disconnect--> publisher.clear
      |                               |  --registries--> on_registries_updated --> index, publisher, registrar
      |                               |  --state event-> forwarder (queue -> MQTT), publisher (-> Redis)
      +---- pushes credentials <---- registrar.register() --lands--> publisher.heal

- The *run task* of the connection connects, authenticates, reads, and on a failure
  awaits the disconnect listeners and backs off. It calls the state listeners itself.
- Each WebSocket has a *setup task* that fetches everything, sets `conn_state` to
  `connected`, and awaits the connect listeners. The reader waits for it before it
  reports a loss.
- The *refresh task* is created by a registry event; it is not cancelled when the
  connection drops, only by `stop`, and it looks the WebSocket up again each time.
- Registration runs in whichever task asked for it, or in the registrar's own *retry
  task*. When one lands it awaits `publisher.heal`, so five kinds of task write Redis.
- The SDK's writer serialises writes behind a FIFO lock.

Hard behaviours: overlapping lifecycle calls and their cancellation; an attempt that
is replaced while callers wait for it; listeners that outlive their connection; writes
that fail after having taken effect; a refresh that resumes on a WebSocket that is not
yet authenticated; a success that cancels a retry a newer failure still needs; a
shutdown interrupted half way; two handshake reads without a timeout.

## Modules

| module | models | state ↔ code |
|---|---|---|
| `HAConnection` | lifecycle, loop, setup, refresh of `ha_connection.py` | see below |
| `ConnectionContract` | abstract: what the listeners may rely on | `conn_state`; `phase` and `listeners` are mapped |
| `Session` | what goes over the WebSocket: commands, answers, state events, service calls of `ha_connection.py` | `_pending`, `_ws`, `user_id`, `states`; `cmd` is the locals of `_cmd` |
| `Service` | `create_app` of `server.py` between Alfred and a connection that keeps the contract | `capabilities_ready`, `_url`/`_token`, the attempt lock; `stored`, `owed`, `listed` are Alfred's |
| `LiveState` | `live_state.py` with the listeners and lifespan of `server.py` | uses `ConnectionContract` for the connection |
| `Registrar` | class `Registrar` and its `stop` in the lifespan | `_retry`, `_attempt_lock`, the tasks |
| `StateForwarder` | `state_forwarder.py` | `_queue`, `inflight`, `_publish_loop` |
| `EntityIndex` | `entity_index.py`: operators, no state | `_entities` is the function `Rebuild` returns |
| `CapabilityGenerator` | `capability_generator.py`, `risk_map.py`, `home_feature.py`: operators | specs, fields, risks, what a call sends |
| `Tools` | the two above over a home that changes while it is fetched | `registries`, `states`, the index, `_specs`, the manifest |
| `*_proofs` | theorems about `HAConnection`, `Session`, `Service`, `LiveState`, `Registrar`, `StateForwarder`, `Tools` | |
| `MCHAConnection`, `MCLiveState`, `MCTools` | symmetry sets and the small home, for TLC | |

One action is what a coroutine does between two awaits. A definition named `X_...`
beside a definition `X` (marked "Slip" where it stands) is a plausible mistake in the
code, used to show that a property notices it; no specification uses it.

**HAConnection.** `Callers` are the coroutines that call `apply_credentials` or
`stop`, each once. The run task, the setup task and the `attempt_done` event that a
call creates are named after it, so `task`, `attempt` and `ws` say *whose* they are.
`_stop_locked` is two actions: `BeginStop` up to its first await (both tasks asked to
cancel) and, once the awaits are over, one of `StopReturns`, `StopRaises` and
`StartAttempt`, which all run the `finally` block (`Reset`); nothing yields between
that block and what follows it. A caller cancelled there keeps waiting, as
`cancel_and_wait` does, then raises. `run[k]` follows `_run` from `dial` through
`greet` (waiting for `auth_required`) and `auth` to `read`, `unwind` (the reader's
`finally`, waiting for the setup), `notify`/`reject` (disconnect listeners) and
`sleep`. `ws` is set before the handshake, as in the code, which is what
`preauth_refresh` turns on. The registries are a version number: `version` in Home
Assistant, `asked` when a fetch begins, `known` here. The version a fetch
asked for, not the one at the reply, is what it is credited with: an answer can only
be newer, so this is the cautious choice.

**ConnectionContract** is what `LiveState` and `Service` see: `conn_state`, a phase, and whether
the connect listeners are running. `HAConnection!Phase` and `Listeners` are the
refinement mapping. It says, among other things, that the disconnect listeners start
only when the connect listeners have ended, and that a cancelled setup may still
announce `connected` before it unwinds.

**Session** is the command layer of the same file. The lifecycle is reduced to where
the newest WebSocket is (`link`), because only that decides whether a frame can be sent
and who is told when it is gone. Each of the tasks that send (the setup, the refresh, the
callers of `call_service`) has at most one command under way: `cmd[t]` holds its id, the
WebSocket it went out on, and the answer once the reader has resolved its future;
`pending` is the dictionary. An answer may be in and the task may still time out, as long
as it has not resumed. `Send` is `_cmd` up to its wait and `Forget` its `finally`. Ids are
only compared, so a number that no command, answer or request uses (`FreshId`) stands for
the next one: any confusion of two commands that a growing counter could cause, this one
can. `MaxIds` bounds the numbers, and a command is sent only while one is left. Home Assistant answers
requests in any order, refuses any of them, and sends events to a WebSocket that has
subscribed; frames the reader has not read may be lost when the WebSocket closes. The
states are a version number, installed by the reader's hook (`HandleResult`), not by the
task that asked. "subscribe" stands for the four subscriptions and the three registry
lists behind them; their contents are in `Tools`.

**Service** closes the circle between registering and Alfred's push. `Creds` are a URL
and a token; Alfred answers every registration and every save with one push of what it
has stored by then, in order. `Apply` is `apply_credentials` with the lifecycle lock: a
no-op, a start, or a halt that `Swap` completes. The connection is `ConnectionContract`'s,
with what the contract leaves open decided by the credentials. Of the registrar only the
order of its attempts is kept: `asks` is the attempt lock, `sent` what the attempt under
way sends. A task that has been asked to cancel (`Doomed`) begins and ends nothing more;
this includes a setup that announces its connection while a `stop` is cutting it off,
since `stop` gets to it within two turns of the event loop, before Redis can answer the
listener's first write. The registry refresh (`refresh`) outlives a lost connection: when
it goes on (`RefreshGoesOn`) while a new WebSocket waits for the token, its command may be
the first frame, and the attempt is then rejected whatever the token (`spoiled`).

**EntityIndex** and **CapabilityGenerator** are the pure half of the service: what
`rebuild` makes of registries and states, what `resolve` finds, which tools `generate`
makes of a catalog, with which risk and fields, what a description offers and what
`_execute` sends. A text is a word together with what resolution tells apart of how it is
written, its case and the white space around it. **Tools** runs them: the setup and the
refresh fetch the three lists one by one, each overwriting what the other fetched, while
registries and states change in Home Assistant; the index is rebuilt by two tasks; the
specs are none before `capabilities_ready`, freeze at the first connect, and the manifest
is what was last registered. A change
of an entity's state updates the states and rebuilds nothing, as in the code. Each connect
may fetch another service catalog; `made` is the one the tools were made from. A refresh
may fail on a connection that stays (`RefreshFails`): it ends with the lists it has and
the flag cleared, as in the code. A tool's name is the sequence of the words that
`home.{domain}_{service}` joins (`WordsOf`), so two domains can arrive at one name.

**LiveState.** `queue` is the FIFO of writes behind the writer's lock; a whole write
is a replace or a clear, an update is one entity's. `dirty` and `stale` are the
publisher's marks, `states` is `conn.states`, `rooms` stands for everything else an
entry is made of (index and catalog). Each kind of task has at most one write under
way since it awaits it. `Fail` may or may not have reached Redis; a cancelled task's
write may have too, if it was the one being served, and nobody marks the hash then.
A killed process may have left any hash, which nothing marks; the lifespan's first clear
(`FirstClear`) is what removes it before anything connects.

**Registrar.** Requests call `register` once each, for a manifest version that is
theirs. A retry task is named after the request that created it. `queue` is the FIFO
attempt lock with its holder at the head. `hook` is `on_registered`, which in this
module only takes time.

**StateForwarder.** Events are numbered; an event that removes its entity yields no
message and gets no number. A failed publish may have got through. Any other
exception, and cancellation, end the loop.

## Runs

Expected to pass:

| run | question | bounds | distinct states |
|---|---|---|---|
| `lifecycle` | Do overlapping, cancelled, failing calls leave one loop, no stranded caller, a true `conn_state`, and the contract? | 3 callers, a good and a bad credential, 2 faults, 1 registry change, refresh may fail | 433,644 |
| `progress` | Does every call end, does the connection settle, and is a registry change ever lost to coalescing, a drop or a stop? | 2 callers, 2 credentials, 2 faults, 2 changes | 210,095 |
| `session` | Does every answer reach its command, and is nothing taken from another connection? | 1 caller, 2 users, 2 WebSockets, 1 change, 1 refresh command, 8 ids | 3,936,104 |
| `service` | Does the circle of registering, pushing and reconnecting settle, and where? | 2 good credentials and a bad one, 1 save, 1 fault, 1 failed registration, 1 registry change | 394,048 |
| `tools` | Do index, tools, risk, offers and calls fit the home? | 4 entities, 2 areas, 2 catalogs, 2 changes, 1 drop | 497,019 |
| `live` | Is Redis in step while connected, empty before anything connects, when Home Assistant is away and after shutdown? | 2 entities, 1 value, 2 rooms, 2 failed writes, 1 push | 1,364,978 |
| `live_heals` | Do reconnect attempts alone repair a dirty hash? | 1 entity, 2 failed writes, 1 push | 62,772 |
| `registrar` | Is a failed request ever forgotten, a retry ever untracked, and does what failed get registered? | 3 requests, 3 failures | 33,249 |
| `forwarder` | Are events reordered or lost, and is what was queued published? | queue of 2, 5 events, 3 MQTT errors | 7,595 |

Counts for runs with symmetry are of representatives. Symmetry is used only where the
properties are not liveness.

Expected to find a violation, each one a finding:

- `preauth_refresh`: a refresh that outlives its connection may send its next command
  on the new WebSocket before the token. Home Assistant answers a first frame that is
  not an auth frame with `auth_invalid`; a good token ends up `auth_failed`, and the
  loop never retries. `HAAuthError` says "Home Assistant rejected the access token".
  `Settles` and `Converges` except this case by name, and only this one.
- `lost_change`: a refresh whose command fails on a live connection gives up with the
  dirty flag already cleared; the README promises that "Renames/additions in HA are
  picked up live". With `RefreshMayFail = FALSE` the same property holds (`progress`).
  `Tools` lets refreshes fail: `IndexCurrent` holds from the next change or reconnect on,
  and `ManifestCurrent` throughout.
- `refresh_writes`: `on_registries_updated` "Never writes live state", yet the
  registration it awaits heals a dirty hash from the refresh task. `AwayIsEmpty` and
  `InStep` hold all the same: the writer's lock and the check of `conn_state` when the
  heal hands its write over make it harmless. The comment is wrong, the hash is not.

### Why the bounds are enough

- *Callers.* A call interacts with the holder of the lock, with the attempt it
  replaces and with the one that replaces it: three callers give a call in each role
  at once. Each caller issues one call; a coroutine calling again is another caller.
- *Faults.* Two let a retry fail again, or a setup fail after a handshake failed.
- *Changes.* In `progress` two: one fetched, and one during the fetch or the listeners.
- *Sockets, ids.* Two WebSockets: one whose commands are left over and one they could be
  mistaken on. Eight ids are more
  than can be in use at once at these bounds, so the guard of `Send` never bites.
- *Credentials.* Two good ones let what the environment says, what is stored and what is
  saved differ; the bad one ends in `auth_failed`. `service` also passes with two faults
  (844,270 states).
- *The home.* A lamp (reflex and benign), a script (reflex above benign), a blind and a
  garage door (one domain, two risks); sections that share a field; an entity with its
  own area, one with its device's, one disabled until a change enables it, which may be
  before or after the tools are made. Two changes let a second one fall into
  the fetch the first has caused, and make up for a refresh that failed. Two catalogs let a
  connect fetch other services than the tools were made from.
- *Entities.* Two distinguish "this entry is wrong" from "the hash is wrong"; for
  `InStep` the interesting difference is between an entity's old and new value and
  old and new room.
- *Requests.* Three: an older success, the failure that owns the retry, and a newer
  failure while the success waits for the retry or the retry is in its hook.
- *Queue.* Two places and five events fill it while one is in flight, twice.

`CHECK_DEADLOCK FALSE` in every configuration: when all calls have been made and all
bounds used up, the service is at rest. That nothing is *stuck* is what `CallersReturn`,
`Settles`, `AwayHeals`, `Registers`, `Forwards`, `Converges` and `ToolsReachAlfred` say,
and `FailsFast` says of commands.

The type invariant of every module with state is proved (`TypeCorrect` of each); those of
`LiveState`, `Session` and `Tools` are checked by their runs too.

### Fairness

- *The event loop runs what is ready* (weak fairness of a task's next step): asyncio's
  ready queue is FIFO, and no coroutine here computes without end.
- *Home Assistant answers, or the socket closes.* Commands have a timeout and the
  WebSocket has keepalive pings. Neither `recv` of the handshake has a timeout of its
  own, so for a server that accepts a WebSocket, answers pings and never speaks this
  is an assumption about Home Assistant, not something the code ensures: such an
  attempt lasts until somebody stops it.
- *Redis calls and MQTT calls end*, with success or an error.
- Faults, calls, cancellations and registry changes are never fair: liveness does not
  rest on them. Faults are bounded, which is "once the faults are over".

- In `Service`: Alfred answers what it owes, Redis and Alfred answer the listeners, and a
  shutdown that began goes on. Saves, lost connections, failed registrations and the
  shutdown itself are not fair. A failed attempt is what `AttemptFails` offers beside
  `Authenticated`; with faults used up, a good token gets through unless a refresh got in
  ahead of it.

In `LiveState`, a connection that was halted for new credentials starts again
(`Start` after `halting`), and a shutdown reaches each of its steps.

## Proofs

Every theorem below is checked by TLAPS for all values of the constants that satisfy
the `ASSUME`s of the module: any number of callers, credentials, requests, entities, any
queue size, any catalog, any bound on faults. Together they state every invariant and
every safety property of a step that a passing run checks.

- `HAConnection_proofs`: `TypeCorrect`, `AtMostOneConnection`, `ListenersNest`,
  `NoCallerStranded`, `StateIsTruthful`, `ReportsOwn`, and `Implements`, the
  refinement of `ConnectionContract`. The safety properties are not inductive by
  themselves. `Inductive` adds `LockInv` (whoever is in `_stop_locked` holds the lock
  and awaits the task `_task` names, and only such a task is cancelled), `AttemptInv`
  (a caller that has not got through has no run task; the current event belongs to the
  current task) and `SupersededInv` (who waits for a replaced attempt has been woken,
  and reads `disconnected` before the new attempt gets anywhere). The last needs that
  a woken caller runs before a new connection, which needs the network, is made
  (`NothingReady`): an event loop runs its ready queue before it polls. Each action
  preserves each part; `ReportsOwn` is an action property that follows from
  `SupersededInv`. For `Implements`, every action maps to one contract step or to none.
  `RegistriesStayCurrent` assumes `~RefreshMayFail`, without which it is false (finding
  `lost_change`). Its invariant `CurrentInv` says of a connection that hears of changes
  why what it knows will be current: it is, or the setup's or the refresh's fetch asked
  late enough, or the dirty flag is set and a refresh that will look at it is alive.
- `Registrar_proofs`: `TypeCorrect`, `NothingIsForgotten`, `RetriesAreTracked`,
  `StopLeavesNone`. `Inductive` adds `TaskInv` (the tracked retry has not been
  cancelled and has not landed), `LockInv` (whoever attempts holds the lock),
  `AttemptInv` (an attempt sends at least what every request that failed before it
  wanted, and nothing older than Alfred has) and `StopInv`. `AttemptInv` is why a
  success may cancel the retry: it is what the FIFO lock and rebuilding the index
  before registering buy.
- `StateForwarder_proofs`: `TypeCorrect`, `KeepsOrder`, `LosesNothing`. `Inductive`
  adds `FlightInv` (a message is in flight exactly while there is one to publish) and
  `LineInv` (published, in flight and waiting events are in order).
- `Service_proofs`: `TypeCorrect`, `CredentialsFollow`, `ToolsAreKept`, `StaysAway`.
  `Inductive` adds `ConnInv` (the listeners run exactly while `on_connect` does),
  `AskInv` (who waits for the attempt lock has a live task), `LeaveInv` (once the
  registrar has stopped nothing connects and nothing retries), `ToolsInv` (nothing
  under way is older than what Alfred has) and `PushInv` (the last credentials on their
  way are the stored ones). `ToolsAreKept` is what building the manifest under the
  attempt lock buys; `StaysAway` is what the order of the shutdown buys. The proof uses
  the contract, not `HAConnection`, so `Implements` is what makes it hold of the code.
- `LiveState_proofs`: `TypeCorrect`, `OneWriteEach`, `StaysInStep`, `AwayStaysEmpty`,
  `ShutdownLeavesNone`. All three properties of the hash are one invariant, `HashInv`:
  wherever there is something the hash should be equal to (`Settled`, `Target`) and the
  hash is clean, or a whole write is still to land, the queue ends in it. What a queue
  ends in is said without running it: for each entity the last write that names it gives
  the value, or none names it and the hash has it (`EndsIn`, `LastOn`), so that a write
  appended, landed or dropped is one lemma each. A write that a cancelled task leaves in
  the queue may never be performed; `LeftoverInv` says that a whole write of another task
  is behind it, so nothing depends on it. `ConnInv` is what follows from the contract of
  the connection, and `WaitInv` that a task has at most one write.
- `Session_proofs`: `TypeCorrect`, `NoCallBeforeAuth`, `NobodyWaitsInVain`,
  `AnswersFindTheirCommand`, `StatesStayCurrent`, `OwnIsThisConnections`,
  `CallsReportTheTruth`. `LinkInv` and `SocketInv` tie tasks and frames to the WebSocket:
  what is announced or being set up has an authenticated one, and nothing is on its way
  on one that is gone. `IdInv` says that no two commands share an id and that whatever is
  on its way under a command's id is its own; it needs an id that nothing under way uses.
  `InboxInv` says that the last frame that carries states carries the newest, which with
  `SetupInv` (what the setup has got past, and whom it has learned of) gives
  `StatesCurrent` and `OwnChanges`. `CallInv` follows a call from its sending to its
  execution and its answer.
- `Tools_proofs`: `TypeCorrect`, `AlwaysWellAimed`, `RiskIsCovered`, `IndexStaysCurrent`,
  `ManifestStaysCurrent`, `OffersAlwaysWork`, `OneToolPerService`, `ToolsAreTheCatalogs`,
  for every catalog, home, risk map, reflex configuration and target text.
  `IndexStaysCurrent` needs `ListsInv` (a list that is behind is still to be fetched, by
  the setup, the refresh or another round of it) and `IndexInv` (an index that does not
  match the lists is still to be rebuilt), each but for a refresh that failed and was not
  made up for, the exception that `IndexCurrent` states: two tasks overwriting each other's lists is
  harmless because every one of them has yet to fetch whatever changed since it started,
  or is followed by a round that does. `ManifestInv` (the specs are those generated from
  the first index, and the manifest is theirs unless the refresh is about to register)
  gives the rest. `OffersAlwaysWork` adds the type of the index: a text that was offered
  is one that `resolve` folds to what it compares with. `OneToolPerService` counts the
  specs of a service, domain by domain; that two services of a domain have tools of
  different names follows from `NamesAssumption`, since what two names have in front in
  common can be dropped (`ConcatCancels`). `ToolsAreTheCatalogs` is about the loop of
  `_service_fields`, a recursive function of the number of entries: what it computes
  (`Merged`: nothing given is lost, and a nested field is that of the first section that
  has it) is proved by taking the least number of entries for which it failed (`Least`),
  since induction with an operator parameter is out of the provers' reach; the function
  itself exists by the same argument (`UnfoldsUpTo`).

Each `Inductive` was model-checked at the bounds above before it was proved.

What the proofs assume, beyond that the bounds are numbers and sentinels are not values:

- `Session`: no user of Home Assistant is called `None` or "unusable", the two ways in
  which a user lookup yields none; setup and refresh are not callers.
- `Tools`: no domain of a catalog is `None`, the services of a domain have different names
  (`NamesAssumption`), the entries of a service are a sequence,
  entity ids are finite in number, and names that are given are texts.
- `LiveState`: an absent entry is neither a state nor an entry.

Only model-checked: every liveness property (`CallersReturn`, `Settles`, `AwayHeals`,
`Registers`, `Forwards`, `Converges`, `ToolsReachAlfred`), since fairness and `ENABLED`
are out of the prover's reach. And the three violations are TLC's.

## Simplifications

- *HAConnection.* The command layer is reduced to the success or failure of each
  fetch (`Session` has it). The user lookup and the event subscriptions are one step of the setup. After
  an interrupted `stop`, a refresh task that has been cancelled and not awaited is
  taken to have ended: it has only its own unwinding left. Backoff delays
  are steps without a length.
- *LiveState.* At most one retry hook writes at a time (a second needs a whole backoff
  to pass while the first waits). A connection interrupted by new credentials starts
  again; only shutdown halts it for good, so the case of a caller cancelled inside
  `_stop_locked`, which leaves the service without a connection, is not here. That
  case is in `HAConnection`. The contents of an entry other than its state are one
  value, `rooms`. Whether a registration lands is free.
- *Session.* The lifecycle is cut down (`HAConnection` has it): after `Swap` the next
  connection starts at once, and whether a setup is cancelled or fails makes no
  difference. Which person entity a user is linked to and the age of the last event are
  left out. A caller of `call_service` calls once; `/mcp` calls again as another caller.
- *Service.* Pushes reach the service in the order Alfred sent them, none is lost, and
  the service serves from the start; the lifespan's own registration has succeeded or
  left a retry by then. A refresh is one registration; whether the registries changed again
  meanwhile, so that it goes on to ask on the WebSocket there is by then, is a choice of
  `RefreshGoesOn`, and what it asks on an authenticated one is left out. What the listeners write is in `LiveState`, which task owns which
  retry in `Registrar`.
- *Tools.* Whatever a task does between two fetches is one step; the states are
  installed in one step and kept current by the reader. Registrations succeed at once,
  since what failed is retried with the manifest of that moment (`Registrar`). The
  wording of descriptions, the types of parameters and the YAML files are left out. Before
  `Subscribed` there may be an authenticated WebSocket, one that is not, or none: a refresh
  that begins then may fetch, fail or end at once.
- *Registrar.* The backoff is a step. The hook's writes are in `LiveState`.
- *StateForwarder.* The message's fields are left out, and whether an MQTT client that
  is being cancelled raises `MqttError` from its exit is not modelled: it is the
  behaviour of a library the repository does not hold.
- *External.* The SDK's `LiveStateWriter` (FIFO lock, replace, update), Redis, the
  MQTT broker and Home Assistant are modelled from how the code uses them.

## Not modelled

- `/mcp`'s mapping of exceptions to error codes (a `KeyError` raised inside a tool is
  reported as an unknown method, `app/server.py:302`) and the payload of `/health`:
  sequential, without state of their own.
- What a push does that arrives before the process serves requests: the web server's and
  Alfred's behaviour.
- The wording and parameter types of tools, and reading the YAML maps.
- `alfred_ext/register.py`: constructs a client. `app/ha_client.py`: not used.

Limits of the code that the models show and no comment of the code denies:

- `resolve` strips the target it is given and not the names it compares it with, so a
  name or area that is padded with white space in Home Assistant is offered and cannot
  be used; `OffersWork` leaves such names out. An area whose name reads like the id of an
  entity of the domain is shadowed by that entity, since `resolve` looks for ids first;
  `OffersWork` asks of such an area only that it leads somewhere.
- Two domains may have services whose tools share a name (`a` with `b_c` and `a_b` with
  `c`); the feature then keeps the one bound last. `ToolsFollowCatalog` speaks of the names
  within a domain. The escape hatch alone reaches the unconfigured services of a benign
  reflex domain, and those of a domain that had no entities at the first connect, both by
  design.
- A registry change whose refresh fails on a live connection is not in the index until the
  next change or reconnect (`IndexCurrent`, finding `lost_change`).
- A good token may be rejected for good after a drop during a refresh (`Converges`,
  `Settles`, finding `preauth_refresh`).
- The publish loop of the forwarder dies of anything but an MQTT error and is not
  restarted; what `StateForwarder` states of it is for a loop that runs.
- A garage door that appears, or becomes one, after the first connect is reached by the
  cover tool with the risk the domain had before: the tool set is frozen by design.
  `RiskCoversKnown` is therefore about the entities known then.

## Plan

Done, in this order: `HAConnection` with its contract and proofs; `LiveState` on top of
the contract; `Registrar`, `StateForwarder` and proofs; `Session`; `EntityIndex`,
`CapabilityGenerator` and `Tools`; `Service`, which composes contract, registrar and
Alfred; proofs of every invariant and action property of the passing runs.

Next, most important first:

1. The safety half of the liveness arguments: for each of `Registers`, `ToolsReachAlfred`
   and `Forwards`, the invariant that something which will bring it about is under way.
2. Abstract specifications of what `Registrar` (Alfred ends with the last manifest asked
   for) and `StateForwarder` (a channel in order) promise, and that they implement them.
