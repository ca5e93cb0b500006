# TLA+ models of meshtastic-matrix-relay

mmrelay connects a Meshtastic radio to Matrix rooms. One Python process holds an
asyncio event loop (Matrix sync, the outbound queue, periodic tasks), the reader
threads of the Meshtastic library, several thread pools and one SQLite database.
Most of what can go wrong lies between these: a link that breaks while a client
is being set up, a stop while a message is on its way, a crash in the middle of a
schema upgrade, a NodeDB that is read while the radio still fills it.

This directory models those parts in TLA+, checks small instances with TLC and
proves theorems with TLAPS. `PROJECT.json` lists the components, the runs, the
lines behind every definition, the hazards and the theorems.

Paths below are relative to `src/src/mmrelay/`.

## 1. Inventory

| Component | State | Operations | Hard behaviour | What makes it correct |
|---|---|---|---|---|
| Message queue (`message_queue.py`) | deque, current message, `_running/_stopping/_stop_failed`, processor task, executor, last send time | `enqueue`, `_process_queue`, `stop`, `start`, `drain`, `reset_failed_stop_state` | event loop, executor thread, daemon threads and watchdogs share the flags; cancellation while a send runs; restart while an old send runs | nothing lost, duplicated, reordered or sent too early; generations never overlap; a stop ends in a queue that can be started again |
| Meshtastic connection (`meshtastic/connection.py`, `events.py`, `subscriptions.py`, `health.py`, `main.py`) | `meshtastic_client`, `_relay_active_client_id`, `reconnecting`, `shutting_down`, subscription flags, attempt marker | `connect_meshtastic`, `on_lost_meshtastic_connection`, `reconnect`, `check_connection`, shutdown | worker threads that cannot be cancelled, reads without the lock, late events, shutdown in the middle of a setup | no interface leaks, one connection, lost links are replaced, shutdown closes all |
| SQLite runtime (`db_runtime.py`) | connections per thread, three locks, active count, async executor | `read`, `write`, `run_sync`, `run_async`, `close` | close against admitted work, cancelled writes, lock order | admitted work is served, writers are alone, answers are true, nothing hangs |
| Schema upgrade (`db_utils.py: initialize_database`) | four generations of the `message_map` table | one statement after the other at every start | sqlite3's implicit transactions, crash between statements, several interrupted upgrades | no mapping lost, the upgrade completes |
| Node names (`db_utils.py`, `meshtastic/node_refresh.py`, `events.py`) | `longnames`, `shortnames`, previous state | periodic sync, packet handler | partial snapshots, failed transactions, late saves | only the device makes the relay forget a name; the tables converge |
| Message map rows (`db_utils.py`) | `message_map` | store, look up, prune, wipe | concurrent tasks store and prune; replies look up meanwhile | a row links two copies of one message; the map stays bounded |
| BLE executors (`meshtastic/executors.py`, `ble.py`, `daemon_executor.py`, `async_utils.py`) | one-worker executor, generation, degraded address, current future, unresolved teardowns | construct, connect, time out, dispose late results, disconnect | constructors that return after their attempt was given up; library calls that hang | every open link has an owner; hung teardowns are counted exactly; no dead job keeps the slot |
| Metadata probes (`meshtastic/metadata.py`, `health.py`) | probe executor, orphan count, answer flags | submit, time out, replace the executor | three callers race for one slot; answers are late | hung probes are contained; no probe passes on an answer from before it |
| Inbound relay (`meshtastic/events.py`, `packet_routing.py`, `plugins.py`, `messaging.py`) | plugin list, channel map | classify, plugins first, relay | order of the filters, lost answers of the homeserver | private packets stay on the mesh, public text reaches its rooms |
| Matrix relay (`matrix/*.py`, `matrix_utils.py`) | room map, `message_map` | `on_room_message`, reactions, replies, commands | several relays read each other's events | nothing echoes, replies keep their thread |
| Matrix session (`matrix/sync_bootstrap.py`, `auth.py`, `credentials.py`, `e2ee_identity.py`) | `credentials.json`, client, cross-signing sidecar, startup lock | login, restore, first sync, join rooms | concurrent calls, another process, cancellation, a killed process | no client left over, one session in the file, the identity of the account is kept |
| Application lifecycle (`main.py`) | services, shutdown event, startup drain, readiness file | startup, sync loop, rollback, shutdown | failure, Ctrl-C or a signal at any await | readiness is true, every end is clean, the process ends or serves |
| Migration (`migrate.py`, `paths.py`) | legacy roots, destinations, staging and backup directories, lock file | migrate, roll back, verify | a failing operation or a dying process between file moves, repeated runs | what the home held is never lost; a reported success is one |
| Plugin loader (`plugin_loader.py`) | plugin list, repositories, scheduler thread | load, update, start, stop | stop while loading, scheduler thread | each active plugin started and stopped once (not modelled) |
| Plugins (`plugins/`) | stored rows, pending drops | message handlers | two handlers on one row | only their outcome and `mesh_relay` are modelled |
| Configuration, CLI, setup, platform helpers | files | parsing, output | none over time | not modelled but for the credentials file |

The parts interact as follows. `main()` starts the queue, connects to the radio on
a worker thread and then to Matrix. A Matrix event is routed by `on_room_message`,
which enqueues a send function; the processor asks `_should_send_message()` (client
present, not reconnecting, not shutting down) and runs it on its executor; a
successful send stores a row in `message_map` through the database manager. A
packet from the radio arrives on a reader thread, is filtered and scheduled on the
event loop. The connection-lost callback runs on the reader thread, the health
check on the loop; both end in one `reconnect()` coroutine. Names travel from the
radio to the two name tables, periodically and when a packet needs one.

## 2. Plan

Done: `MessageQueue` with the abstract `Outbox` it implements, `MeshConnection`,
`DatabaseManager`, `MessageMapSchema`, `NodeNames`, `Migration`, `MessageRelay`,
`BleLink`, `MetadataProbe`, `RelayLifecycle`, `MatrixSession`.

The modules compose along the calls between the components, and each takes the
others as what they promise: `MessageRelay` puts two or more relays, their meshes,
rooms, message maps and plugins together and uses the queue as the outbox it is;
`RelayLifecycle` has the connect only as far as the startup drain goes;
`MeshConnection` opens an interface in one step, which `BleLink` details for BLE;
`MetadataProbe` details the probe of the health check.

Proved: the refinement of the message queue, and every safety property that a run
checks, of all eleven modules (section 5).

Next, models: the scheduler thread and the load order of `plugin_loader.py`, and
`drop_plugin` over plugin data.

## 3. Modules

### MessageQueue (`MCMessageQueue`, `MessageQueue_proofs`)

Every module `M` below has an `MCM` for its run, and `M_proofs` where section 5 names one;
`Database_proofs` holds the proofs of `DatabaseManager`, `MessageMapSchema` and
`NodeNames`, `Application_proofs` those of `RelayLifecycle` and `Migration`.

The variables are the attributes of `MessageQueue`; a generation is one successful
`start()` with its task and executor. A step of the event loop is the code between
two awaits, split where another thread can change what it reads; a step of another
thread is one critical section of `_lock`. Producers are steps of `enqueue()`: the
lazy creation of the processor, the critical section, and the retries of a caller
that waits for space. The processor follows `_process_queue()` through its tests of
the connection, the rate limit and the second and third test; `_requeue_message()`
puts a message back at the front, or drops it when producers have filled its place.
`stop()` is split into its own statements, the cancel handler on the loop, the done
callback, the executor thread and the two watchdogs, each of which may call
`_finalize_stop_state()`; with `StopKinds` it is called from a thread or on the
event loop. `acc`, `out`, `tx`, `errs` and `count` are history: the order of
acceptance, the outcome, and how often a send function ran.

`Outbox` is what the rest of the relay relies on: messages are accepted one by one,
transmitted in that order, no sooner than the delay after the last one, again only
after a connection error, and settled once. `MessageQueue` implements it with the
order of acceptance as refinement mapping (`Promise`, `ImplementsOutbox`); the
deque, the threads and the generations are all behind it.

External: the thread pool (`JobRun`, `JobFinish`), task cancellation and the clock
(`Tick`, which counts `cool` down to the end of the inter-message delay).

### MeshConnection

Three callers (`main()`, the worker thread of `reconnect()`, one sender from Matrix
or a plugin) run `connect_meshtastic()`: the marker of the wrapper, the unlocked
tests, the first critical section, the retry loop, the opening of an interface, and
the second critical section, which is split at every read of `shutting_down`. A
failure leaves the critical section, rolls back under the lock and retries, gives
up or leaves the loop as the handlers of the exceptions do. Interfaces are numbered
in the order in which they open; each is open, lost or closed. The callback, the
health check, the coroutine and the shutdown of `main()` are actions of their own.
A health probe passes only on a working link; it may fail on one too (an exception, a
timeout, a degraded executor), and when the client is still the one that was asked, that
condemns it (`HealthFails`, `HealthLost`).
The transports differ for this module only in `HealthCheck`: BLE has none.
Configuration errors (a missing section, an unknown type) return None before
anything is opened and are left out.

`CoroConnect` waits until `main()` has resumed from its own call: the coroutine
sleeps `DEFAULT_BACKOFF_TIME` (10 s) first, while `main()` only has to be scheduled.

### DatabaseManager

Threads `Users` call `run_sync()` and `close()`, `Worker` serves `run_async()`. The
program counter of an operation follows `_sync_activity()`, `_get_connection()`,
`_create_connection()` and the read or write block; the three locks and the
condition variable are explicit. Jobs have a state of their own and one of their
caller, who may be cancelled while the worker goes on.

### MessageMapSchema

One action per statement of `initialize_database()`. `tables` is what the
connection sees and `disk` what is committed: sqlite3 opens a transaction at the
first INSERT, so the statements before it commit one by one. `Crash` throws away
what is not committed and starts again. `Init` ranges over every combination of
the four tables, with and without the `meshtastic_meshnet` column, with TEXT or
INTEGER ids and with or without a row.

### NodeNames

`Collect` is `_collect_node_name_snapshot()`: rows of the wrong type, missing names,
duplicates and conflicts. `sync_name_tables_if_changed()` is split into its
transactions; each may fail. The packet handler reads first and saves later. The
device changes its NodeDB at any time.

### Migration

A unit is one of the artifacts that `perform_migration()` moves (credentials, config,
database, logs, E2EE store, plugins, gpxtracker data), a place one of the directories
it may lie in. Each `_run_step()` goes through selection, backup, clearing or staging,
and placing, with the order and the branches of its `migrate_*` function; the database
is a main file and a sidecar that move one after the other. An item called "rest" is an
entry that its step leaves where it is: a log that is not `*.log` (the rotated
`mmrelay.log.1`), a loose file in a plugin tier, a track that is not `*.gpx` (`Takes`).
`Fails` lets the running
operation raise, `Crash` kills the process and leaves the lock, which the user may
remove. `Handle` and the rollback actions are the `except` branch and
`rollback_migration()`. `Init` ranges over layouts with data in one or two legacy
places and in the destination; the discovery of the roots is an input.

### MessageRelay

Several relays, each with a mesh and a bot of its own, share rooms. A packet or an
event is a copy of an utterance; texts, names and prefixes are left out. One action
is the packet handler (`OnMeshtasticMessage`) with `classify_packet()`, plugins and
the lookups of replies and reactions; `matrix_relay()` is a task with the attempts of
`_send_matrix_message_with_retry()`, the store and the pruning as separate steps;
`on_room_message()` is one action per kind of event. The message queue is the outbox
of above; its mapping store and pruning interleave with the tasks. The homeserver
(external) makes one event per transaction id. `NotReady` is the packet handler of a relay
that shuts down, has no interface or another one than the packet's, still drains the
backlog of its start, or has no event loop, node number or rooms yet: it drops the packet
without a trace. It may happen to any packet; `missed` remembers which.

### BleLink

Interfaces are named by the executor job that constructs them. The attempt follows
`connect_meshtastic()` through its BLE branch: gate of generation and unresolved
teardowns, submission, wait, the timeout handling with watchdog, late disposer,
executor reset and degradation, the connect job, and the error paths. The executor
threads, the done callbacks, the timers, the helper threads of
`_run_blocking_with_timeout()`, the lost-link callback and the shutdown are actions
of their own. A library call may hang for ever or end late. A late interface that does not
show its address has no generation (`IfaceGeneration`), and its calls are not counted. An
attempt whose disposer waits for `meshtastic_iface_lock`, which the attempt holds itself,
stays there (`SelfBlocked`, section 6).

### MetadataProbe

`check_connection()`, `connect_meshtastic()` and the timer of the delayed calibration
probe call `_submit_metadata_probe()`, split at its critical sections; worker,
watchdog and answers of the device are actions. The job resets the flags of its client
(`ClearFlags`), sends the request in a second step (`Probe`) and waits for the flags, which
any answer of the client sets.

### RelayLifecycle

`main()` is a program counter over its startup phases, the sync loop with the
readiness announcement, and the ordered shutdown; `Interrupt` (Ctrl-C) and `Signal`
come at any await. The startup drain is armed by the first connect, and a timer
thread, a packet or a reconnect ends it; the code between the lock and the signal is
split where another thread can run. The heartbeat touches the readiness file on a
thread. The removal of that file may fail, which is only logged (`Removed`, `main.kept`).
The message map has two writers, the queue after a send (`MapSent`) and `matrix_relay()`
(`MapRelayed`); the row is committed later by a database worker (`StoreRow`), also when
nobody waits for it any more, and `main.late` says that one was at work at the wipe. A
`connect_matrix()` that fails or is interrupted may leave a client that `main()` never got
("left"). Three timings are assumed because the delays in the code are far apart: a
touch of the readiness file ends within the wait for the heartbeat; the 15 s drain
window does not pass before the connect that armed it returns; Ctrl-C does not come
while the plugins are loaded on their thread.

### MatrixSession

Two callers of `connect_matrix()`, `main()` and a task that wants to send, and the
login command of another process. An action runs from one await to the next:
loading and checking credentials, automatic login, whoami, saving, cross-signing
policy and bootstrap, key upload, the initial sync with its invite-safe fallback,
and the close of a failed client. The awaits of `connect_matrix()`, of the login and of
the room joins may fail or be cancelled. `close()` may fail or be cancelled as well; the
client is then "broken": it was asked to close, and nobody asks again. A client that is
never asked to close is "left". The client that discovery uses for its one request is not
modelled. The process may be killed at any await, and a killed `save_credentials()` leaves
a torn file.
Rooms are joined at startup, where the alias is resolved first (`ResolveRoom`), the mapping
is updated or not (an error there is ignored) and the join is a second await (`JoinRoom`),
or by invitation. A write of the file on a worker thread is finished at once when its
caller is cancelled.

## 4. Runs

| Run | Instance | What it shows |
|---|---|---|
| `mq_flow` | three messages, a queue of two, one message with a mapping, one connection error each, drops of the link, delay 1 | `ImplementsOutbox`, `Conservation`, `QueueBounded`, `DrainSound`, `Delivery` |
| `mq_restart` | two generations, `stop()` from a thread or on the event loop, watchdogs | `CleanRestart` (one sender, no leftovers), `Restartable` |
| `conn` | all actors, one failure, two links that break or whose probe fails, one sender, shutdown | `OneInterface`, `ReconnectsOnce`, `Recovers`, `ShutdownClosesAll` |
| `db` | two threads, one worker, two operations, two jobs, close | `CloseIsOrderly`, `WritesAreTrue`, `EverythingEnds` |
| `schema` | one event, all old schemas, two crashes, one more start | `MappingsKept`, `UpgradeCompletes` |
| `names` | two nodes, eight NodeDBs, two changes, two failures, two packets | `OnlyTheDeviceForgets`, `TablesConverge` |
| `migration` | four pairs of artifacts in every layout of `SomeLayouts`, with entries that are not moved in the first legacy root, plain, forced and dry runs, two runs, two faults | `HomeKept`, `SuccessIsTrue`, `RollbackRestores` |
| `relay` | one relay with three utterances (three configurations, one with `mesh_relay`) or two with two, four copies, one retry, a map of two rows | `NoEcho`, `ThreadsKept`, `OnlyPublicLeaves`, `MapBounded`, `NothingForgotten` |
| `ble` | three jobs, two attempts, one hung call, one broken link, thresholds of two, interfaces with and without an address | `NoStrayLink`, `TeardownsCounted`, `SlotIsWatched` |
| `probe` | three probes, two clients, threshold of two | `HungProbesContained`, `PassMeansAnswer` |
| `life` | two connects, two sync tasks, two configurations: with the wipe, or with the continuous health check and the heartbeat | `ReadyMeansReady`, `EndIsClean`, `ZeroMeansAsked`, `StopEnds`, `BecomesReady` |
| `matrix` | two sessions, one foreign identity, one room, one restart, a token without and a password with encryption | `FailureLeavesNothing`, `CredentialsAreOneSession`, `IdentityKept` |

Each module also has a type invariant, `TypeOK` (`UpgradeTypeOK` in `MessageMapSchema`);
those of the queue, the migration and the relay are theorems, the other proofs carry the
types they need as the first part of their inductive invariants.

Why the bounds are enough. A queue of two with three producers is the smallest in
which a requeue meets a full queue and an overtaking message; one error per message
gives a retry. Two generations are what a restart needs. Five interfaces let the first
connection, a failed setup and two lost links be followed by a working one, so
`Recovers` never fails for want of an interface. In `conn` unlimited retries
(`RetryLimit = 0`) with `MaxTimeouts = 0` make the first timeout give up and every
other failure retry. Two crashes are needed for the set-aside table of a second
interrupted upgrade; events do not interact in any statement, so one is enough.
`SomeNodeDBs` has complete, incomplete, contradictory and empty NodeDBs. The artifacts
of a migration interact only through a shared directory (plugins and gpxtracker) and
through the rollback of earlier steps, so pairs suffice; a second run meets the
leavings of a faulty first, and a second fault strikes the rollback of the first. Two
relays are the smallest loop; three utterances allow a reply to a reply and a third
row in a map of two. Three BLE jobs are a hung constructor, its successor and a
connect; a threshold of two separates the first timeout from the one that resets. Two
connects are one that is rolled back after it armed the drain and its successor (the
safety part of `life` also holds with three). Two sessions are the one in the file and
the one a login makes.

Deadlock is checked in the runs in which every actor can go on or has an action
`Finished` that says it is done. It is not checked in `relay`, `ble`, `probe`, `life`
and `matrix`: there the actors really stop (the process ends, everything was said,
a library call hangs for ever) or a bound is used up.

Fairness. Threads, the event loop and the clock go on; a send function, a setup call
and a callable of the database end; an interface that can open is opened again
until it opens; the refresh task runs every interval; the timers of the drain fire
and their threads go on; the bounded waits of the shutdown end. Nobody has to call
`start()`, `stop()`, `enqueue()`, `close()` or a refresh that fails, to send a signal
or a packet. `Delivery` is promised only while the queue runs and the link stays up,
`BecomesReady` only for a relay that keeps serving.

## 5. What is proved

Each theorem below holds for every value of the constants that satisfies the named
assumption of its module, not only for the instance of its run. No property is inductive
as it stands; the inductive invariant of each proof is a conjunction of named parts, has
a lemma for each action or group of actions, and was checked with TLC on an instance of
millions of states (half a million and less for the three database modules) before it was
proved. The constants that bound a run (`Max...`) appear in guards
only, so a theorem for all their values is one for a program without them; the one
exception is named.

**`MessageQueue_proofs`** (`QueueAssumption`)

* `MessagesConserved`: `Spec => [](TypeOK /\ Conservation)`. An accepted message is in
  exactly one place, the queue or the hands of one processor, until it has an
  outcome, and nowhere afterwards. `Conservation` alone is not inductive: a
  processor past its checks must hold a message, a submitted send function must
  have one, and a message that was not accepted must have no outcome. That is
  `HeldAndFresh`; the inductive invariant `QueueInv` is the conjunction with
  `TypeOK`. The proof has a lemma for each way the queue changes: append, take,
  requeue, resolve, and a frame lemma for everything else.
* `QueueNeverOverflows`: `Spec => []QueueBounded`, from `QueueInv`, because both
  `enqueue()` and `_requeue_message()` compare with the bound first.

The same module, with the hypothesis `MaxGen <= 2`:

* `RestartIsClean`: `Spec => []CleanRestart`. `RestartInv` ties the flags to the
  generations: who may still send, who has cancelled whom, what each pending cleanup
  will find, and that an executor left behind belongs to a generation that has ended.
* `DrainIsSound`: `Spec => []DrainSound`. `DrainInv` follows `drain()` from flag to flag:
  while it has seen a flag clear, no watched message can be behind that flag.
* `QueueImplementsOutbox`: `Spec => ImplementsOutbox`, by step simulation from
  `PromiseInv`: the deque is in the order of acceptance, the message of the processor is
  older than all in it, the ranks are a bijection (so that `AcceptOrder` is a sequence
  that only grows), and the clock of the outbox is the clock of the queue.

The hypothesis says that the queue is started at most twice, which is what the process
can do: `main()` starts it once, and one restart may follow a stop. It is needed.
With three generations TLC finds a trace of eleven steps that violates `CleanRestart`:
see section 6.

**`Database_proofs`** (`DatabaseAssumption`, `SchemaAssumption`, whose last part says that
the value for a missing table or row is not a row or a table, and `NamesAssumption`)

* `CloseOrderly`: `Spec => []CloseIsOrderly`; `WritesTrue`: `Spec => []WritesAreTrue`.
  `CloseInv` says that each lock is held exactly by the thread in its critical section,
  that the active count is the number of admitted operations, that a registered
  connection belongs to an operation or is in the list that `close()` will go through,
  and how far `close()` has come. `WriteInv` adds what the worker and the caller of each
  job know of its outcome.

* `UpgradeKeepsMappings`: `UpgradeSpec => []MappingsKept`; `UpgradeIsWhole`: an upgrade that
  ends has ended as it should, the safety half of `UpgradeCompletes`. `UpgradeInv` gives
  for each statement where the rows of every event are, in what is committed and in what
  the connection sees: that is what makes a crash at any statement harmless.

* `NamesAreKept`: `NamesSpec => OnlyTheDeviceForgets`, an action property. `NamesInv` says
  that both tables have a value for every node and that only a complete snapshot gets as
  far as the pruning, between whose transactions packets are handled and the device
  changes its NodeDB. What `Collect` computes is not needed.

**`MetadataProbe_proofs`** (`ProbeAssumption`)

* `ProbesContained`: `Spec => []HungProbesContained`; `AnswersAreFresh`:
  `Spec => []PassMeansAnswer`. `ProbeInv` says that at most one probe is in flight
  on the executor in use, that the probes hanging on replaced executors never outnumber
  the count of orphans, and that the flag of a probe that sends or waits was set by an
  answer that came after this probe had reset it.

**`MeshConnection_proofs`** (`ConnectionAssumption`)

* `OneInterfaceAlways`: `Spec => []OneInterface`; `ReconnectsAreSound`:
  `Spec => ReconnectsOnce`, an action property. `ConnInv` says who has the marker of the
  wrapper, what a caller between the two critical sections may have opened and published,
  which client every caller remembers, and that an accepted interface is the client's. A
  reconnect is due when the link of the client is broken, or when the health check gives up
  the client on a failed probe of that very client (`HealthCondemns`).

**`BleLink_proofs`** (`BleAssumption`)

* `NoLinkIsStray`: `Spec => []NoStrayLink`; `HangingIsCounted`: `Spec =>
  []TeardownsCounted`; `SlotsAreWatched`: `Spec => []SlotIsWatched`. They share the
  inductive invariant `BleInv` (`InvariantHolds`). `Owned`: an open link is the
  singleton's, is held by the attempt, has a job with a disposer, or is settled, that is
  closed or being closed by some thread or hung call. The exception `SelfBlocked` is part
  of the property: an attempt that waits for its own lock owns nothing. A link changes its
  owner when `Created` or `AbandonJob` takes it over, so `Attempting` ties the job that is
  waited for, the singleton and `meshtastic_iface_lock` together; `Closing` says that
  whatever the rollback, the disposers, the lost-connection handler and the shutdown are
  about to forget is settled before they forget it; `Workers` that no worker of the
  executor in use can still dispose of the interface that a later job on it works with.
  `Counted` and `Shapes`: the count of a generation is the number of its calls that are
  recorded and not resolved, in every order of the record, the flag and the second look of
  the waiter and the two steps of the helper thread; `Shapes` says what the two have seen
  of each other, so that exactly one of them resolves. `Watched`: a job in the slot is
  waited for, or runs and has its timer.

**`Application_proofs`** (`LifeAssumption`, `MigrationAssumption`; the latter says that a layout
holds well-typed items named for the place they are in, nothing is staged at first, and the
legacy roots are neither MMRELAY_HOME nor the user's home directory)

* `ReadyIsReady`: `Spec => []ReadyMeansReady`. The drain can be armed, ended by three
  kinds of threads, rolled back and armed again while `main()` waits for its event:
  `Arming` and `Draining` say at which points of the connect the event is stale, and
  that a thread about to set it (a timer, a packet) does so only for a drain that is
  over for good; `Announcing` carries that to the file.
* `EndIsAlwaysClean`: `Spec => []EndIsClean`. `TakenDown`: a step of the shutdown that is
  no longer before `main()` is done, and what it has done stays done, whatever the
  threads beside it still do; the heartbeat is awaited before the file is removed and
  the queue before the wipe, in both plans. `BroughtUp` says what need not be taken down.
  The property names what may remain: a file whose removal failed, the client of a login
  that did not end well, and a row of a writer that was at work when the map was wiped.
* `ZeroIsAsked`: `Spec => []ZeroMeansAsked`, from `Reasons`, which knows why the relay
  was told to stop.

* `MigrationTypes`: `MigrationSpec => []MigrationTypeOK`.
* `HomeIsKept`: `MigrationSpec => []HomeKept`. Between the backup and the end of a step the old
  data may be in the backup only, and a later run may overwrite what a crashed one has
  placed. `KeptInv` therefore says of every item of the old MMRELAY_HOME where it is
  and, for each operation of the running step, which backup it can rely on: a step that
  is past its backup has one that covers all its destination holds, gpxtracker's data
  inside the plugins directory included. There is a lemma for each way of being torn.
* `RollbackPutsBack`: `MigrationSpec => []RollbackRestores`. `FirstRun` says that in the first
  run the only backup of a step is the one that this run made, so that the choice by
  time stamp in `find_backup_for_step()` cannot go wrong, and follows the rollback down
  the list of steps: those already undone hold again what they held before the run.
* `SuccessIsHonest`: `MigrationSpec => []SuccessIsTrue` under the hypothesis `Regular`:
  the file artifacts are files, a legacy directory that exists has something in it that
  its step takes, sidecars lie beside a database, and tracks are where the search looks,
  beside other legacy data. `SuccessInv` speaks of histories without a failure. `Calm`
  follows the data of the running step from its source to the staging path and the
  destination, says that the other staging paths are empty (so plugins never collide) and
  that the sources hold all that their steps take, and that every completed step is
  `Settled`: what `verify_migration()` still finds of it is also at its destination.
  `Whole` does the same item by item for the first run: the sources of the steps to come
  are as they were, and what a step picked is complete wherever it is. `Carries` is what
  the operations have in common, so that the invariant is shown once for all of them but
  the search and the end of a step. `RegularLayouts` has TLC check that the instance
  satisfies the hypothesis; without it the property is false (section 6).

**`MatrixSession_proofs`** (`SessionAssumption`)

* `FailuresLeaveNothing`: `Spec => []FailureLeavesNothing`; `CredentialsStayTogether`:
  `Spec => []CredentialsAreOneSession`; `IdentitySafe`: `Spec => IdentityKept`, an action
  property. `SessionInv` has one predicate per call, `Fits`: it holds the lock exactly
  between `TakeLock` and the end, its client is open there or is the published one, and
  "broken" only after a `close()` that went wrong, the client of a login is open only
  inside that login, the token and the device it carries are of one session, and a call
  that is to make an identity has seen none or may replace it. A lemma shows that a step
  of one call leaves the others fitting.

**`MessageRelay_proofs`** (`RelayAssumption`: rooms, relays, users and meshes are told
apart, there are finitely many rooms, and the configurations, texts and channel maps are
well-typed)

* `RelayTypes`: `Spec => []TypeOK`; `ThreadsAreKept`: `Spec => []ThreadsKept`;
  `OnlyPublicIsRelayed`: `Spec => []OnlyPublicLeaves`; `MapIsBounded`:
  `Spec => []MapBounded`; `NothingIsForgotten`: `Spec => []NothingForgotten`. They share
  the inductive invariant `RelayInv`. `Linked`: every packet, event, coroutine,
  queued message and row carries the utterance it says it carries and points to a copy
  of what that utterance answers, on the side where it will be used. `Leaves`: each
  coroutine and each event of a relay has the public packet it came from. `Fresh`: an
  event and a coroutine, or two coroutines, never stand for the same utterance in the
  same room, unless the event is the one whose answer got lost. `MapKept` counts the
  prunings under way, `RowsDiffer` keeps the events of the rows apart, and `OnItsWay`
  follows a public text from the inbox to its coroutines and events, unless it was missed.
* `NoRoomSeesTwice`: `Spec => []OncePerRoom`, one half of `NoEcho`, from `Fresh`.
* `NothingEchoes`: `Spec => []NoEcho` under the hypothesis `OneSharedRoom`: no relay
  bridges one of its channels into two rooms that another relay serves too. `EchoInv`
  adds `Spread` (the copies of a text from a mesh are in rooms of one channel) and
  `Once` (every event is read once, so its utterance waits in a queue or is on the mesh,
  once). The instance of the run satisfies the hypothesis. It cannot be dropped: when
  relay B bridges one channel into two rooms and relay A serves both, TLC finds that
  A sends B's text twice on its mesh, once for each event (section 6).

Only model-checked: everything that needs fairness (`Delivery`, `Restartable`, `Recovers`,
`ShutdownClosesAll`, `EverythingEnds`, `UpgradeCompletes`, `TablesConverge`, `StopEnds`,
`BecomesReady`), which is out of the reach of the proof system; and what the recursive
function of `Collect` computes, which needs induction over data.

## 6. What the models showed about the code

The models do what the code does, so the properties above are stated to hold with
these behaviours in place. Where a comment or docstring says otherwise, it is named.

Message queue

* `drain()` (`message_queue.py:618`) tests the work flags before `_running`, and the
  cancelled processor has cleared them: True instead of the False its docstring
  (line 615) promises for a queue that was stopped.
* `stop()` (`message_queue.py:226`) leaves `_has_current` set when `enqueue()` has
  already forgotten the finished task; `drain()` then waits on an idle queue, although
  the docstring (line 191) says the internal state is cleared.
* `_finalize_stop_state()` (`message_queue.py:220-240`, "Safe to call multiple times") does
  not know which stop it ends. With three generations, a late call for the first stop
  clears the `_stopping` that the second has set, although "`_stopping=True` blocks
  enqueue/start while stop cleanup is in progress" (line 76), and a third `start()`
  overlaps with the second generation. The process starts its queue once, so two
  generations cover what it does; the proof of `CleanRestart` says so in its hypothesis.
* A watchdog (`message_queue.py:214`) can latch `_stop_failed` after the cleanup and
  after a restart; its message (line 216) says "until cleanup completes".

Connection, BLE and probes

* Connection monitoring is said to cover "all interface types" (`main.py:796`), but
  BLE has no health check (`meshtastic/health.py:531`): a BLE link lost between the
  publication of the client and the subscription is never noticed.
* A health probe that fails on a working link (a timeout, any exception, a degraded
  executor; `meshtastic/health.py:666-711`) makes the relay drop the link and reconnect.
  `ReconnectsOnce` allows it for the client that was probed, and for no other.
* The late disposer is attached (`meshtastic/connection.py:1204`) while the attempt holds
  `meshtastic_iface_lock` (line 878), which is not reentrant. If the constructor ends just
  then, `add_done_callback()` runs the disposer on the same thread, and it waits for the
  lock that its thread holds (`meshtastic/ble.py:117`): the thread is blocked for ever and
  the link stays open, although the docstring (`meshtastic/ble.py:92-97`) says that late
  interfaces are disconnected. `NoStrayLink` names this link as its exception, `SelfBlocked`.
* A late interface without an address to extract has no generation
  (`meshtastic/ble.py:481-483`), so a hung teardown of it does not block later attempts;
  `TeardownsCounted` speaks of the calls with a generation.
* A BLE interface kept without a client at shutdown is not closed by `main()`
  (`main.py:614`); `NoStrayLink` counts it as owned by the singleton.
* The watchdog of an abandoned job checks the slot and resets it later
  (`meshtastic/executors.py:505-518`). The count of orphaned BLE workers is reset with
  the executor although the hung threads remain; a degraded address is freed when a
  job succeeds or a lost link is handled (`meshtastic/events.py:173`), neither of which
  happens while `reconnect()` retries the degraded address.
* After too many unanswered metadata probes the executor is degraded for good: nothing
  resets it for TCP and serial (`meshtastic/events.py:169-184`), and every health check
  from then on asks for a reconnect.
* Racing callers may replace a fresh metadata executor, and an orphaned probe may
  consume the answer of a newer one; neither passes a probe without an answer.
* The flags are reset (`meshtastic/health.py:474`) before the request is sent (line 487).
  An answer to a probe that was given up, arriving between the two or later, passes the
  new one. The comment (line 469) says "so this probe cannot 'pass' on prior traffic": it
  cannot pass on what came before the reset, which is what `PassMeansAnswer` says.

Lifecycle

* The drain event is cleared after the lock that arms the drain is released
  (`meshtastic/connection.py:1799-1806`); only the length of the window orders the two.
* A readiness file of a killed process is not removed at the next start, and a touch
  that hangs longer than the wait for the heartbeat could create it again.
* Ctrl-C while plugins are loaded leaves the loading thread running.
* A readiness file that cannot be removed is left (`main.py:267-270`), and reports a stopped
  relay as ready; `ReadyMeansReady` and `EndIsClean` exempt it (`main.kept`).
* `main()` closes the Matrix client that `connect_matrix()` returned (`main.py:584`). The
  client of a login that was interrupted, or whose close failed, it does not know.
* The map is wiped at the end (`main.py:1235`) while the worker of a row may still run: a
  task that `main()` cancelled, or a queue that did not stop in time, no longer waits for
  its `async_store_message_map()`, which commits after the wipe. The map is then not empty
  at the next start, which wipes it again.

Names, packets and message map

* Public texts are dropped while the relay shuts down (`meshtastic/events.py:457`, 705), has
  no client or another interface than the packet's (465-496), drains the packets that the
  radio had stored (524-539), has no event loop (709) or node number (723-727), or no rooms
  (1006-1012). `NothingForgotten` speaks of the packets that were not `missed` in this way.
* Duplicate rows are said to merge independently of their order (`db_utils.py:1528`);
  a conflict leaves None (`db_utils.py:1572`), which a third row fills again.
* A reply or reaction to a mapped message is relayed even when it is a direct message:
  the test for direct messages comes later (`meshtastic/events.py:988`). This is why
  `OnlyPublicLeaves` exempts answers.
* A channel mapped to two rooms: a reply from the mesh goes to the room of the first
  row only. With `mesh_relay` enabled, plugins take every text of a mapped channel.
* A relay that serves two rooms into which another relay bridges one channel sends the
  text of that channel twice: `on_room_message()` knows no event but the one it is
  handed. That is why `NothingEchoes` has its hypothesis.
* Two relays with the same meshnet name would take each other's replies for their own;
  `Relays` are distinct names.

Migration

* After a failed or cut-short run a legacy file can be gone although it was never at
  its destination: a rerun clears the staging directory that holds it. The module
  comment (`migrate.py:9`) says "Preserve old files as backups". `HomeKept` speaks of
  what the home held, not of the legacy files.
* A forced run of the plugins step clears the plugins directory, gpxtracker data inside
  it included (a backup is made). Backups to restore are chosen by their time stamps.
* An empty `logs`, `store` or `plugins` directory in the first legacy root hides a full one
  in the second: the searches ask whether the directory exists (`migrate.py:1706`),
  `_find_legacy_data()` whether it has entries (`migrate.py:519`). The run then reports
  success with the data still in the second root, and `verify_migration()` that a
  migration is needed. That is why `SuccessIsHonest` has its hypothesis.
* Files that no pattern matches stay at the source while the step reports success: rotated
  logs (`migrate.py:1786` globs `*.log`; the log handler makes `mmrelay.log.1`), loose
  files in a plugin tier (`migrate.py:2017`; they are then set aside with the old
  directory, line 2230), tracks that are not `*.gpx` (`migrate.py:2444`). A directory with
  them counts as data (`migrate.py:519`), which `verify_migration()` accepts when the
  destination has something too (`migrate.py:718`). A directory that holds nothing else
  gives success with nothing at the destination, and `verify_migration()` says that a
  migration is needed; the hypothesis `Regular` excludes it.
* `_cleanup_lock_file()`, registered with `atexit`, removes the file at the path of its
  lock, also when that lock was removed by hand and another process has made a new one.

Matrix session

* `save_credentials()` truncates the file in place (`config.py:1100`): a process killed
  there leaves a torn file, and the next automatic login makes a new device.
* A login cancelled before it has saved its credentials leaves its client open
  (`matrix/sync_bootstrap.py:1138` catches only the login errors, and the handler at 1052
  guards the cross-signing only). A `close()` that raises or is cancelled
  (`matrix/auth.py:382-387`, `matrix/sync_bootstrap.py:912`, 934, 978, 1067, 1135) is not
  repeated. `FailureLeavesNothing` names both exceptions.
* A whoami answer may be saved over the credentials of a newer login; the file is then
  the older session, but still one session. Two first logins at once make two devices.
* An identity that appears between the check and the bootstrap is replaced;
  `IdentityKept` exempts it.
* A room joined by invitation under its alias keeps the alias in the mapping. So does one
  joined at startup when the update of the mapping fails or finds no such alias: the join
  goes on (`matrix/sync_bootstrap.py:1193-1201`), and the room's messages are not relayed.
  No property says otherwise.

## 7. What is not modelled

See `PROJECT.json` for every component with its reason. The largest parts without a
module are `plugin_loader.py` (git, pip and import machinery), `cli.py` and
`setup_utils.py` (argument parsing, service files, output), the parsing of `config.py`
and the plugins that format answers: they have little state over time of their own.
Of the modelled components: logging, formatting and configuration parsing; the wording
of SQL; `get_status()`; nested database operations on one thread (no caller nests
them); failures of `close()` of an interface and of the statements of the message map,
which the code logs and ignores; errors that the migration ignores when it sets the old
plugins directory aside or removes an emptied one; a timer of a BLE watchdog that cannot be
created (`meshtastic/executors.py:525`); a failed send of `mesh_relay`; the age filter by
receive time and clock skew; `_disconnect_ble_by_address()`; cryptography.
