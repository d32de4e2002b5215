# Shelly Toolkit: a TLA+ verification project

Shelly Toolkit is a Home Assistant integration that talks JSON-RPC to Shelly devices, over
connections it opens itself (WebSocket, HTTP) and over WebSockets the devices open towards
Home Assistant. This directory holds TLA+ models of its core, TLC configurations that check
them on small instances, and TLAPS proofs of what holds for every instance.

Paths below are relative to `custom_components/shelly_toolkit/` unless they name another
place. Everything runs in one asyncio event loop: a task keeps the loop until it reaches an
`await` that suspends. All the hard behaviours of the program come from what other tasks,
the network and the devices do during those awaits.

* [1. Inventory](#1-inventory)
* [2. The modules](#2-the-modules)
* [3. The runs](#3-the-runs)
* [4. The proofs](#4-the-proofs)
* [5. Disagreements between code and documentation](#5-disagreements-between-code-and-documentation)
* [6. What is not modelled](#6-what-is-not-modelled)
* [7. Plan](#7-plan)

## 1. Inventory

| Component | State it keeps | Operations | Talks to |
|---|---|---|---|
| WebSocket RPC transport, `rpc/websocket.py` | `_socket`, `_reader`, `connected`, `_pending`, `_ids`, `_challenge`, `_nonce_count`, two locks | `async_connect`, `async_call`, `async_close`, the reader task | the device; the device manager through results and an event callback |
| HTTP RPC transport, `rpc/http.py` | `connected`, `last_error`, ids | `async_call`, `async_close` | the device |
| Transport protocol, `rpc/base.py`, `rpc/errors.py` | none | the interface of all transports, the error classes | |
| Remote server, `remote.py` `RemoteServer` | `_credentials`, `_transports`, `_credential_devices` | `async_handle` (one task per incoming socket), `async_update_credentials`, `async_close` | devices; the device manager through three callbacks; the panel commands |
| Remote RPC transport, `remote.py` `RemoteRpcTransport` | `connected`, `_pending`, ids | `async_call`, `async_handle_frame`, `async_close` | one incoming socket |
| Device manager, `device_manager.py` | `devices`, `transports`, `_local_ids`, `_remote_ids`, the persisted entry data | start, close, refresh, call, push, add and remove local targets, remote connected and disconnected, bind credential | every transport, remote server, entities, event history |
| Device record, `models.py` | status, config, capabilities, online, error, call metrics | `mark_seen`, `record_rpc_success`, `record_rpc_failure` | |
| Coordinator, `coordinator.py` | none | periodic `async_refresh_all` | device manager |
| Script studio, `scripts.py` | none | upload in chunks with backup, stop, verification and restart | device manager, backup engine |
| Backup engine, `backup.py` | `BackupRepository`: a bounded list on disk | create, list, delete, read scripts in chunks, scrub secrets | device manager |
| Restore engine, `restore.py` | none | preview, apply with a safety backup | device manager, backup engine, script studio |
| Migration engine, `migration.py` | none | back one device up and restore to another | backup and restore engines |
| Capability discovery, `capabilities.py` | none | paginated `Shelly.GetComponents` | a transport |
| Event history, `events.py` | a bounded deque | add, filter, clear | device manager |
| Doctor, `doctor.py` | repair issues of Home Assistant | run checks, create and delete issues | device manager |
| Setup, unload, config flow, `__init__.py`, `config_flow.py` | the runtime of the entry | setup, unload, migrate | everything |
| Panel API, services, diagnostics, `websocket_api.py`, `services.py`, `diagnostics.py` | none (credentials live in the entry) | forward commands; create, revoke, regenerate and list credentials | every engine |
| Entities, `entity.py` and the platforms | the entity registry | turn device state into entities, send commands | device manager |
| Panel, `frontend/` | browser state | user interface | panel API |

### What is hard, and what makes each component correct

* **WebSocket RPC transport.** Any number of callers share a connection that each of them may
  open, lose, close or reopen; a reader task resolves their futures and fails them when the
  connection ends; a lock serialises calls when there is a password, because the device
  expects strictly increasing nonce counts. Correct means: an answer reaches the call that
  asked, nobody waits on a connection that has no reader, a mutating method is executed at
  most once whatever is retried, there is one connection at a time, and every call returns.
* **Remote server.** Several handlers and several administrator commands change the three
  registries, each with awaits in the middle: the close of another handler's socket waits
  until that handler lets go. Correct means: a registered session is one that is being served
  and the one the device manager calls through, a credential is in use only while its session
  lives, a revoked or regenerated secret loses its session, handlers and commands never wait
  for each other for ever.
* **Remote and HTTP transports.** They make the same promise as the WebSocket transport (at
  most one execution of a mutating call, an answer only after an execution) without a retry.
* **Device manager.** Additions and removals of targets keep snapshots of the persisted list
  across network waits; refreshes, calls, pushes and disconnections write the same record in
  any order, the pushes of two sockets of one device included. Correct means: the persisted list,
  the targets and the transports agree, limits and uniqueness hold, no change of a status is
  missed, and whether a device counts as online has a reason.
* **Script studio, restore, migration.** Long sequences of remote steps, each of which may
  fail, time out after having been executed, or interleave with another sequence on the same
  device. Correct means: what is overwritten can be restored, a failure is reported, and what was
  running is running again.
* **Doctor.** A report ends in issues of Home Assistant that outlive it. Correct means: the
  issues are those of the last report.
* **Chunking.** Characters of several bytes at the boundary of a chunk.

`PROJECT.json` lists the hazards at their lines, with the properties that cover them.

## 2. The modules

| Module | Role |
|---|---|
| `RpcCall` | Abstract specification: what every transport promises about executions and answers. |
| `WsTransport` | `WebSocketRpcTransport` with all its callers, the reader, one `async_close`, the network and a device. Implements `RpcCall`. |
| `WsTransport_proofs` | Its theorems. |
| `MCWsTransport` | Its instance for TLC. |
| `RemoteServer` | `RemoteServer` with its handlers, the credential commands of `websocket_api.py` and the routing table of the device manager. |
| `RemoteServer_proofs` | Its theorems. |
| `MCRemoteServer` | Its instance for TLC. |
| `RemoteTransport` | `RemoteRpcTransport`: calls over the sessions of one device, with their frames, futures and closes. Implements `RpcCall` without any replay. |
| `RemoteTransport_proofs` | Its theorems. |
| `MCRemoteTransport` | Its instance for TLC. |
| `LocalTargets`, `MCTargets` | The inventory of `DeviceManager`: targets, transports and the persisted list, across unloads of the entry. |
| `LocalTargets_proofs` | Its theorems. |
| `DeviceState`, `MCDevice` | The record of one device, written by everything that learns about it, and the repair issues of the doctor. |
| `DeviceState_proofs` | Its theorems. |
| `ScriptUpload`, `MCUpload` | `ScriptStudio` and `BackupRepository` around one script. |
| `ScriptUpload_proofs` | Its theorems, and one about `_utf8_chunks`. |
| `BackupRestore`, `MCRestore` | `BackupEngine`, `RestoreEngine` and `MigrationEngine` around one target device. |
| `BackupRestore_proofs` | Its theorems. |
| `Minimum` | A non-empty set of natural numbers has a least one: the proofs' substitute for induction. |

The modules meet at `DeviceManager.async_call`: `RpcCall` is what the transports promise below it,
and the last three modules take no more than that from a call: a failed call may have been
executed or not. `RemoteServer` and `LocalTargets` each model one half of the routing table, the
remote and the local targets; `DeviceState` takes from `RemoteServer` that several sockets of a
device may be served at once, of which one is registered.

### RpcCall

`status[c]` is what the caller of call `c` knows, `executed[c]` how often the device executed
it. A mutating call is executed at most once, a read-only one (`Get`, `List`) at most twice;
`answered` requires an execution; `refused` (an authentication error) excludes one for
mutating calls; `unknown` (timeout, unavailable) says nothing, and an execution may still
follow it.

### WsTransport

*Steps.* One action is the code between two awaits that can suspend. Some of those stretches
are two actions for readability: the second one is a continuation (`pc` in `Continuations`, or
the closer in `finish`) and `LoopFree` keeps every other task of the loop still until it has
run. The device and the network are outside the loop and move at any time.

*State.* `pc`, `attempt` and `fut` are the local state of each `async_call`; `socket`, `link`,
`reader`, `connected`, `pending`, `nextId`, `nonceCount`, `connLock` and `authLock` are the
attributes of the transport; `conns`, `devNc`, `net` and `executed` belong to the device side;
`outcome`, `sentOn`, `unread` and the `from` of a future are history.

| Code | Action |
|---|---|
| `async_call` 93-101 | `Invoke`, `TakeAuthLock` |
| `async_connect` 69-91 | the `Live` test (fast path and recheck), `NeedConnection`, `ShareConnection`, `BeginConnect`, `CloseDone`, `DialOk`, `DialFails` |
| `_async_call` 103-124 | `ReturnAnswer`, `Challenged`, `AuthFails`, `Disconnected`, `RetryClose`, `CloseDone` |
| `_call_connected` 126-154 | `Send`, `SendFails`, `Timeout`, `Woken` |
| `_reader_loop` 156-203 | `ReaderStart`, `Deliver`, `ReaderEnd` |
| `_set_challenge`, `_build_auth` 205-247 | `Adoptable`, `NonceCountNext` |
| `_close_socket` 249-261, `async_close` 263-269 | `TakeSocket`, `CloseSuspends`, `CloseBegin`, `CloseFinish` |
| the device, after `tests/fake_shelly.py` | `Refuse`, `Execute`, `Stray`, `LinkLost` |

*Decisions.*

* Sending a small frame does not suspend: aiohttp's `send_json` awaits only when its write
  buffer is full. It may raise on a lost connection (`SendFails`), or go nowhere (`Send`).
* `_close_socket` cancels the reader and awaits it; the reader's `finally` runs in that await
  before anything the closer does next, so it is part of the same action (`TakeSocket`). A
  reader cancelled before its first turn never enters its `try`, hence no `finally`: `unread`
  records it.
* A dial takes several turns of the loop. `Settled` says that tasks woken before it ends have
  run by then. asyncio's queues are first-in-first-out, so this excludes nothing real.
* Locks: any waiting task may get a free lock. asyncio hands locks over in order, so the model
  has more behaviours than the code.
* A result, an error other than 401 and a malformed reply all end the call in the same way, as
  an `answer`. A 401 is a challenge, complete (`unauthorized`) or not (`badChallenge`).
* Lines 124 and 128-129 cannot be reached: the loop returns or raises on its second turn, and
  `async_connect` leaves a socket.
* The nonce count starts again with each connection, as in `fake_shelly.py`; a challenge
  carries the count the device expects next.

### RemoteServer

*State.* `creds`, `transports` and `credDev` are the dictionaries of the server, `store` the
credentials in the config entry, `routes` the remote part of `DeviceManager.transports`; each
socket has a handler (`pc`, `cred`, `dev`, `waits`), an `open` flag (not `socket.closed`) and
the `connected` flag of its transport; `upd` holds the local state of each command. Which
secret a socket was admitted with (`secret`), how many were issued (`issued`) and what a
command found to revoke (`revoked`) are history. A credential's secret is a number, so
that a regenerated one is a new number under the same id.

| Code | Action |
|---|---|
| `RemoteReceiverView.get` 349-358, `authenticate` 207-212 | `Accept` |
| `async_handle`: identity 214-244 | `IdentityFails` |
| `async_handle`: checks 246-260 | `Refuse`, `Admissible` |
| `async_handle`: bind, close the old session, register 261-280 | `Admit` (nothing to wait for), `AdmitClosingOld` then `Replace` |
| `async_handle`: serve and clean up 281-295 | `End` |
| `_set_credentials` and the three commands, `websocket_api.py` 84-89, 245-326 | `Create`, `Revoke`, `Regenerate` |
| `async_update_credentials` 190-205 | `Loop` inside them, `Continue` |

*Decisions.*

* aiohttp's server-side `close()` marks the socket closed first and then waits until the
  handler that is reading it lets go, so `Replace` and `Continue` wait for the old handler to
  be `done`. Closing a closed socket returns at once.
* The callbacks into the device manager (`async_bind_credential`, `async_remote_connected`,
  `async_remote_disconnected`) have no await that suspends: they are part of the step that
  calls them.
* `async_update_credentials` walks a snapshot of `_credential_devices` in dictionary order; the
  model takes the sessions in any order (`Loop` picks the next one that suspends and skips
  any that do not).
* A handler reads `_credentials[credential_id]` again when the identity arrives, by id: that
  is the code's own staleness (`RevokedClosed` with two commands, section 5).

### RemoteTransport

`RemoteServer` knows of a session only that it is served, open or closed. `RemoteTransport` opens
it up for one device: `Sessions` that come one after the other (or overlap, as
`remote_socket` shows they can), calls that take the transport the device manager has
(`Take`, then `via`), and use it at once or later: `async_refresh_device` keeps one transport for
several calls. `pending` holds the `_pending` entries of all sessions as records.

| Code | Action |
|---|---|
| `DeviceManager.get_transport` 445-450 | `Take` |
| `async_connect`, `async_call` 96-127 | `Offline`, `Send`, `SendFails`, `Answered`, `Closed`, `Timeout` |
| `async_handle_frame` 129-142 | `Receive` |
| `async_close` 150-158 | `CloseBegin` and `CloseFinish`, or `CloseAgain` when the socket is closed already |
| installation and clean-up in `RemoteServer.async_handle` | `Connect`, `HandlerEnds` |
| the device | `DeviceLeaves`, `Execute`, `Drop` |

*Decisions.* Sessions come and go at any time: every order that `RemoteServer` allows and more.
While a socket closes its handler may still handle frames; aiohttp lets at most one through,
the model any number. A device may execute a request it received before it left.
Line 278 hands the identity reply to the new transport once more, when the connect callback has
already started the first calls: if the id of the identity request (random below a million)
is one of theirs (which start at another such number), the reply would resolve that call. The
model leaves this frame out, and `OwnAnswer` holds up to that coincidence.

### LocalTargets

*State.* `stored` is the list in the config entry, the other tables are the attributes of the
manager now in use (`gen` counts the managers, one per load of the entry); `task` holds the
local variables of the commands, among them `snap`, the copy of the list that
`async_add_local` makes before it waits. `live` are the transports of local targets that were
created and not closed. A target is its id; `Host` and `Mac` say which ids share an address or
are one device.

| Code | Action |
|---|---|
| `async_refresh_all` 202-211 with `async_sync_official_devices` 166-200 | `RefreshAll` (`Synced`), then `Refreshed` for each target |
| `async_refresh_device` 213-239 | `RefreshOne`, `Refreshed` |
| `async_add_local` 370-418 | `Add`, then `ProbeFails`, `Discard` or `Register` (`RegisterLate` in a manager nobody uses any more), then `Refreshed` |
| `async_remove_local` 420-436 | `Remove` and `RemoveFinish`, or `RemoveAgain` when another removal has the transport |
| `async_remote_connected`, `async_remote_disconnected` 323-359 | `RemoteConnects`, `RemoteLeaves` |
| `async_close` 125-131 in `async_unload_entry` | `Unload`, `Unloaded` |
| `async_setup_entry`, `async_start` 105-123 | `Load` |

*Decisions.* The awaits of one addition (resolving the address, connecting, asking, closing)
are one wait: nothing between them touches shared state. A device that does not tell its MAC is
not compared (`Register` with `advertised` false). A refresh of all that finds a local device
without transport raises in one of the refreshes that `gather` started; the others go on.

### DeviceState

*State.* The status of the device itself (`dev`) and in the record (`status`) is one version
number per component. A socket is a number, in the order in which the device opened them: `line` is the
one it uses, `waiting` are those whose handler waits for the close of an older session, `served` those
whose handler reads them, `session` the one that is registered, which `transports` has. `queue` are the
frames on each socket in order, answers and pushes; `issues` is what Home Assistant shows, `active`
what the doctor remembers. A local device has one socket from the start, its transport.

| Code | Action |
|---|---|
| `async_refresh_device` 213-239, `async_discover_capabilities` | `Begin` (or `RemoteConnects`), `RefreshWrites`, `Discovers`, `RefreshFails` |
| `async_call` 264-283; the writes of `switch.py` 57-63 and `light.py` 115-128 after it | `Begin`, `CallReturns`, `CallFails` |
| `async_handle_frame` 285-321 and that of the transport, on any served socket | `HandleFrame` |
| `RemoteServer.async_handle`, from the identity to the installation | `Dials`, `RemoteConnects` with `async_remote_connected` |
| the end of `async_handle`, `remote.py` 280-294 | `SocketEnds`, with `RemoteLeaves` (`async_remote_disconnected`) if it is the registered one |
| `async_remove_local` | `Removed` |
| `ShellyDoctor.async_run`, `_script_findings`, `_sync_repairs` | `Begin` with `exam`, `RefreshFails`, `Inspects` or `InspectionLost` (`Noted`), `Reported` |
| a reload of the entry | `Reload` |
| the device | `DeviceChanges`, `Executes`, `Dials`, `HangsUp` |

*Decisions.* The three answers of a refresh are one: they are written together. A refresh
replaces the status by what was answered, a push merges what it names; answers are read from
the socket in order with the pushes, but wake their task later, which is where a push can
overtake an answer. A partial push of a component names its new version: fields that the push
omits are not told apart. Issues are `connectivity` and one error of a component.

Any waiting socket may be installed at any time, and any served one may end: that is every order
that `RemoteServer` has (`remote_socket`), and more. Every served socket is read to its end, also after
another one was installed or the registered one has left, and `DeviceManager` applies its pushes
as those of any other (`device_manager.py` 285-290). What is taken from outside the code is that a
device has one outbound WebSocket: it sends on the socket that it opened last, what it sent before
on an older one may still be read, and it executes requests only on the one it uses. The calls by
which an examination asks for the scripts of a device are one step, which writes `online` and `error`
as the last of them does.

### ScriptUpload

*State.* `code` and `running` of one script on the device; `late`, requests whose caller gave up
and that the device may still execute; the repository in memory (`backups`) and on `disk`, and the
saves under way (`saving`), each with the list it was given; the local state of each command. `calm`
remembers code and running state of the last moment at which nothing was under way; the properties
compare with it.

| Code | Action |
|---|---|
| `async_upload` 48-79 | `Upload`, `Read`, `Saved`, `Status`, `Answered` (stop, chunks, start), `Finally` |
| `async_put_script_code` 121-154, `_utf8_chunks` 99-118 | `Answered`, `CallFails` (`Refused`), `Chunks` |
| `async_read_script_code`, `backup.py` 245-263 | `Read` |
| `async_start`, `async_stop`, `async_restart` 81-89 | `Control` |
| `async_add`, `async_delete`, `async_load`, `backup.py` 92-136 | `Added`, `Delete`, `Asks`, `Saved`, `Restart` |
| the device | `Accepts`, `Execute`, `Piece`, `LateExecutes`, `LateLost` |

*Decisions.* Texts are sequences of characters with their size in bytes. A chunk above the limit
is refused by the device. Home Assistant may stop while commands are under way (`Restart`): the
device stays as it is and the repository is what was saved. The repository is full of other
backups from the start, so that every addition drops one.

A save is asked for with the list of that moment (`async_save(self._backups)`) and ends later. Home
Assistant's `Store` writes one list at a time, in the order of the requests, and always the latest
list it was given, so that the save of an older one may write a newer. `Saved` therefore writes the list
of any save under way, and `Restart` may find any of them, or none, written: this also allows the file
to go back from a newer list to the older one of the next save, which `Store` does not do.

### BackupRestore

*State.* `content` maps each part of the target (a component, a script, a list such as the
schedules) to what it holds; `created` is the script that a migration to another model creates.
A job goes through `capture`, `save`, `preview` and `apply`; `plan` holds the status of each
item, `step` the call under way of the item being applied.

| Code | Action |
|---|---|
| `BackupEngine.async_create` 146-193, `_read_scripts` | `Backup`, `Capture` (one action per kind of part), `CaptureFails`, `Save` |
| `RestoreEngine.async_preview` 64-147 with its two planners | `Preview` (`Plan`, `Planned`), `PreviewFails` |
| `RestoreEngine.async_apply` 245-311 | `Restore`, `Preview`, then the safety backup, then `Answered` and `CallFails` for each step (`Continue`, `Result`) |
| `async_put_script_code` with `manage_running` | the steps `status`, `stop`, `half`, `whole`, `verify`, `start` |
| `MigrationEngine.async_apply` 31-43 | `Migrate`, then as a restore |

*Decisions.* A code is written in two chunks, so that there is a half. A failed call was executed
or not at once; execution after the caller went on is in `ScriptUpload`. The source of a
migration does not change. Saving is one step here; the window between memory and disk is in
`ScriptUpload`.

## 3. The runs

Each passing run explores its whole state space. Every property has a mutation of the model
that breaks it (`PROJECT.json`, `mutants`), built from the *careless forms* section of each
module: a plausible mistake in the code, such as ignoring a lock or forgetting a clean-up.

| Run | Checks | Shows |
|---|---|---|
| `ws` | `TypeOK` `OwnAnswer` `NoStrandedCall` `NoSocketLeaked` `KeepsPromise` `EveryCallReturns` | A device without a password: calls run concurrently on one transport, and may also begin after `async_close`. |
| `ws_auth` | `IInv` `NonceKeptInStep` `KeepsPromise` `EveryCallReturns` | A device with a password: the authentication lock, challenges, nonce counts, and the inductive invariant of the proofs. |
| `remote` | `IInv` `SessionServed` `NoStaleClaim` `RevokedClosed` `RegistrationKept` `HandshakeEnds` `UpdateEnds` | Registries agree while sockets replace each other and a command changes a credential; the command closes what it found; nobody waits for ever. |
| `session` | `IInv` `OwnAnswer` `ClosedEndsCalls` `KeepsPromise` | Calls over two sessions of a device: late answers, callers with an older transport, overlapping closes. |
| `targets` | `IInv` `TargetsAgree` `TransportsAccounted` `SequentialPersisted` `LimitNearlyKept` | Tables, transports, list and limit while two commands overlap with each other and with an unload and load of the entry. |
| `device` | `IInv` `Informed` `OnlineHasReason` `RepairsMirrorReport` `NewsInOrder` `TasksEnd` | The record and the repairs while two tasks overlap with pushes, reconnections, a removal and a reload. |
| `upload` | `IInv` `OriginalKept` `RunningAgain` `NoMixture` `SoloSucceeds` | Two commands on one script, with failing and late calls and restarts. |
| `restore` | `IInv` `TargetRecoverable` `ReportTrue` | Two backups, restores or migrations around one target, with calls that fail. |
| `ws_closed` `remote_socket` `targets_persisted` `upload_overwrite` | one property each, violated | Section 5. |

`IInv` is in each run the inductive invariant of section 4; `TypeOK` is its first conjunct.

### Properties

* `OwnAnswer`: a future is only resolved with the device's answer to a request of the same
  call, after timeouts, retries and reconnections; it needs ids that are never reused.
* `NoStrandedCall`: an unresolved call was sent on the current connection and that one's
  reader is alive, so the end of the connection ends the wait. It needs every path that takes
  a socket away to fail the pending futures.
* `KeepsPromise`: the transport implements `RpcCall` (refinement mapping `status`); above all,
  the retry of `_async_call` never replays a mutating method (`AtMostOnce` in the proofs).
* `NoSocketLeaked`: a connection is only opened when there is none.
* `NonceKeptInStep`: with the right password a mutating call is refused for authentication
  only if there was a reconnection.
* `EveryCallReturns`: every call returns, whatever the device does.
* `SessionServed`: what the server has registered for a device is being served, as that
  device, and is what the device manager routes to.
* `RegistrationKept`: a registration goes away only with its own handler, or for a newer
  session; the late clean-up of a replaced session never removes the new one.
* `NoStaleClaim`: a credential counts as in use only by the registered session admitted with
  it; a stale claim would lock the device's next credential out for good.
* `RevokedClosed`: a completed change of the credentials left no session open that it found
  registered with a removed or regenerated secret. It holds for one change at a time, section 5.
* `HandshakeEnds`, `UpdateEnds`: handshakes and commands terminate.
* `ClosedEndsCalls`: once `async_close` of a session has returned no call waits on it, neither
  one that was pending nor one whose caller had taken the transport before.

* `TargetsAgree`: the three tables of the manager name the same local targets. The one
  exception is the window of a removal that awaits the close of its transport: a refresh of all
  that meets it fails.
* `TransportsAccounted`: every open transport of a local target is in the table, is being
  closed, or was created by an addition that was under way when its entry was unloaded.
* `SequentialPersisted`: as long as commands that change the list do not overlap, what is
  persisted is what is served, and no address is stored twice.
* `LimitNearlyKept`: overlapping additions exceed the limit by at most their number less one.
* `Informed`: while the socket that a remote device uses is served, registered or not, the device is
  known as it is, unless a push is on its way there, a refresh over it under way or failed, or
  something older was written over newer news: nothing falls between the refresh that a connection
  starts and the pushes. A failure counts only for the socket that the device uses.
* `OnlineHasReason`: a registered device is offline only with an error. One without session is online
  only if, when its session left, another socket of it was still served or a task had its answer and
  had not ended: a call that waits in vain, or a socket that was not there, never brings it back.
* `NewsInOrder`: the record goes back to an older status only by the answer of a refresh or of a
  command, or by a frame on a socket that the device had replaced by one that was already
  heard; never by the frames in the order of their sockets, across any number of connections.
* `RepairsMirrorReport`: the issues of a device are the errors of its last report, except those
  an earlier load of the entry left.
* `TasksEnd`: every refresh, call and examination ends.
* `OriginalKept`: when the code of a script has changed, the code it had when nothing was under
  way is on disk, whatever failed, overlapped, came late or was cut off by a restart.
* `RunningAgain`: after uploads a script runs if it ran before, unless a start or stop failed or
  was ordered; two uploads that see each other's stop included.
* `NoMixture`: uploads that all succeeded leave a code that one of them was given, even when
  their chunks interleaved: the verification of at least one fails otherwise.
* `SoloSucceeds`: an upload that nothing comes across succeeds: `_utf8_chunks` never makes a chunk
  that the device refuses, and the pieces read back are all of the code.
* `TargetRecoverable`: what a restore or migration overwrote is in a backup of the target, unless
  it could not be read.
* `ReportTrue`: what a restore that ran alone reports about each part is what happened to it,
  the script runs as before, and the network configuration is never touched.

### Bounds

* `ws`, `ws_auth`: one read-only and one mutating call. The two kinds differ in the retry, and
  two calls suffice for every interaction the code has: sharing a connection, one closing what
  the other uses, contention for both locks, late answers, an old id pending beside a new one.
  Each call has at most two attempts, so ids, connections and nonce counts are bounded without
  any guard. There is one `async_close`. The invariants are proved for any number of calls.
* `remote`: three sockets (one being replaced by two others is the smallest overlap), three
  devices with `MaxDevices` 2 so that the limit bites, three credentials, one of which can only be
  created during the run, one command. Properties under fairness rule out symmetry. What two
  overlapping commands do to the registries is proved (section 4).
* `session`: two calls over two sessions, so that an id of one session meets the same id on the
  other and a late answer meets a newer call; calls and sessions are symmetric. Every call
  sends at most one frame, which bounds ids and executions without a guard.
* `targets`: three ids of local targets, of which two share an address and all are one device, one
  remote and one official target, two tasks, a limit of one device (so that two overlapping
  additions exceed it) and one reload (`MaxReloads`). Tasks are symmetric. `targets_persisted` has two
  devices at two addresses, room for both and no reload.
* `device`: two components, so that a partial push differs from a full one; two tasks (the
  smallest overlap), two tasks begun (`MaxBegun`), two sockets (`MaxSessions`; both may be served, with
  either registered or none), one change of each component (`MaxVersion` 2). Both kinds of device are
  initial states. The safety properties were also checked with three tasks begun (8.1 million states);
  that is not kept as a run, because they are proved for any number.
* `upload`: two commands, two texts of several bytes each in two chunks (one fills its first chunk
  exactly, one cannot), an old code of one character, one late request (`MaxLate`), two backups.
  `MaxBackups` is at least the number of commands: the code keeps 50 for one administrator, and
  `OriginalKept` is about overlaps, not about waiting for 50 later backups.
* `restore`: two jobs, five parts (a component, a network component, a script, a list the target
  takes and one it does not), two failing calls (`MaxFaults`), same and different model.

### Fairness

Only what the event loop and the timeouts of the code guarantee is assumed. In `WsTransport`:
weak fairness of the steps of each call (a runnable task runs; waiting for an answer is
bounded by the call's timeout, 12 s, a dial by aiohttp's timeouts, a close handshake by
`ws_close=5`), of the reader's first turn and of the end of `async_close`. In `RemoteServer`:
weak fairness of the 12 s deadline of the identity (line 224), of the handler whose socket was
closed (its `receive` returns), and of tasks whose wait is over. In `DeviceState`: weak fairness of
the end of each wait of a task, by an answer or by the timeout. Nothing is assumed of devices:
they may never answer, never identify themselves, never leave.

`CHECK_DEADLOCK FALSE` appears where the system may rest: all calls returned, all devices
gone, all commands (which are given once) ended. In `ws` and `ws_auth` a hung call would be reported by
`EveryCallReturns`; the violated run of `WsTransport` does check deadlock, with `Terminating` as
the one state of rest.

## 4. The proofs

`tlapm` proves, for any constants that satisfy the modules' assumptions (sets of calls,
sockets, devices, credentials, targets, components, texts and commands of any size):

| Theorem | Statement |
|---|---|
| `WsTransport_proofs!Invariance` | `Spec => []IInv` |
| `TypeCorrect`, `AnswersAreOwn`, `NobodyStranded`, `MutatingAtMostOnce`, `NoLeak`, `NonceCountsKept` | `Spec =>` `TypeOK`, `OwnAnswer`, `NoStrandedCall`, `AtMostOnce`, `NoSocketLeaked`, `NonceKeptInStep` |
| `Refinement` | `Spec => Promise!Spec`: the transport implements `RpcCall` |
| `RemoteServer_proofs!Invariance` | `Spec => []IInv` |
| `TypeCorrect`, `RegisteredIsServed`, `OnlyOwnCleanUp`, `ClaimsAreLive` | `Spec =>` `TypeOK`, `SessionServed`, `RegistrationKept`, `NoStaleClaim` |
| `RevokedAreClosed` | `Alone => (Spec => []RevokedClosed)`: for a single change of the credentials |
| `RemoteTransport_proofs!Invariance` | `Spec => []IInv` |
| `AnswersAreOwn`, `ClosedIsQuiet` | `Spec =>` `OwnAnswer` and `ClosedEndsCalls` |
| `Refinement` | `Spec => Promise!Spec`: the remote transport implements `RpcCall` with `ReadOnly` empty |
| `LocalTargets_proofs!Invariance` | `Spec => []IInv` |
| `TypeCorrect`, `TablesAgree`, `NoTransportLost`, `PersistedIsManaged`, `LimitKept` | `Spec =>` `TypeOK`, `TargetsAgree`, `TransportsAccounted`, `SequentialPersisted`, `LimitNearlyKept` |
| `DeviceState_proofs!Invariance` | `Spec => []IInv` |
| `TypeCorrect`, `NewsReachesRecord`, `OnlineReasoned`, `RepairsCorrect`, `FramesInOrder` | `Spec =>` `TypeOK`, `Informed`, `OnlineHasReason`, `RepairsMirrorReport`, and the action property `NewsInOrder` |
| `ScriptUpload_proofs!Invariance` | `Spec => []IInv` |
| `TypeCorrect`, `OriginalStored`, `RunsAgain`, `WholeCode` | `Spec =>` `TypeOK`, `OriginalKept`, `RunningAgain`, `NoMixture` |
| `SoloUploadSucceeds` | `Spec /\ []Readable => []SoloSucceeds` |
| `ChunksAreWhole` | The chunks of a text are the text, cut into pieces that are neither empty nor above the limit. |
| `BackupRestore_proofs!Invariance` | `Spec => []IInv` |
| `TypeCorrect`, `NothingLost`, `ReportsAreTrue` | `Spec =>` `TypeOK`, `TargetRecoverable`, and the action property `ReportTrue` |

*WsTransport.* None of the properties is inductive alone. `IInv` adds: `IdInv`, ids in frames and in
the pending map are below the counter and an id in flight is pending, if at all, for its own
sender (this makes `OwnAnswer` inductive); `SocketInv`, only the holder of the connect lock is
closing or dialling and there is no socket meanwhile (this gives `NoSocketLeaked`), and every
unresolved future is pending (so that failing the pending ones misses nobody); `MutatingInv`,
a mutating call has at most one frame under way, and none before it is sent, after it was
executed or after it was refused; `AttemptInv`, executions plus requests in flight never
exceed the attempts made (this bounds a read-only call by two); `AnswerInv`, answers follow
executions. The proof has one lemma per part of the invariant and one step per action; the
refinement maps each step to a step of `RpcCall` or to a stutter.

`NonceKeptInStep` needs four parts more. `FrameInv`: ids tell the frames apart. `SerialInv`: with a
password one call is past the authentication lock, so the one pending request is the last that
was sent. `ChallengeInv`: who was challenged has adopted a count. `NonceInv` is the argument. On the
first connection and with the right password the counted requests under way carry, in the order
of their ids, every count from the one the device expects up to the transport's (`InStep`): a
timeout leaves its request under way, and the next one must not overtake it. A challenge that
somebody waits for or has received is the device's latest word (`LatestWord`), so adopting it
skips nothing; and a mutating call whose second attempt carries a count is not challenged again
(`NotAgain`). A reconnection starts the device's count again and may find the second attempt spent
(`RightPasswordAccepted`, section 5).

*RemoteServer.* `IInv` adds `Placed`: a handler past the point where the code assigns its
credential, device or awaited session has one. The proof separates steps that leave the
registries alone (`QuietFact`) from the two that write them (`InstallFact`, `EndFact`). For `RevokedClosed`,
`Settled` describes the server until a first change begins: who was admitted has the current
secret of its credential, and a registered session's credential is bound to its device and in use
by it. The change looks for the sessions to close by that very use (`_credential_devices`); as a
credential is in use by one device, it finds all it has to, and `aiohttp` marks each socket closed
before it waits (`Cut`). The hypothesis `Alone` (at most one change) is what the code needs: two
changes refute the property (section 5).

*RemoteTransport.* `IInv` has three parts besides types: `IdInv` as above, per session; `ExecInv`, a
call has at most one frame, a request before its execution and an answer after it (this
gives the refinement: the device executes a call at most once); `SessionInv`, an
unresolved call is pending on the session it took, and a session that was closed is not
open (so that nothing is sent on it, and failing the pending calls misses nobody).

*LocalTargets.* Between two awaits several commands hold ids, copies of the list and transports that
are in no table. `TasksInv` says what a command may hold; `FreshInv`, that the id of an addition under
way is in no table, list or copy, and in no other command, so that registering it collides with
nothing; `TablesInv` extends `TargetsAgree` to an unload under way; `CloseInv`, that
`async_close` finds every transport but those opened after it began (with `TransportsAccounted`,
which is inductive then); `SequentialInv`, that without overlaps the one command knows the
whole list; `LimitInv` counts an addition under way as if it had succeeded.

*DeviceState.* `SessionInv` and `FramesInv` say which sockets there are and to which task an answer on
one of them belongs; `VersionsInv`, that nobody knows more than the device. `OrderInv` compares the
queues of all sockets: a push is at least as new as whatever was sent before it, on its own socket or an
older one, and, unless a later socket has been heard, as whatever was written or answered; this gives
`NewsInOrder`. For `Informed`, a component is `Told` when its newest version was written once or a push
with it is on the socket that the device uses. `FreshInv` says that whatever the answer to a refresh
over that socket lacks is told, and `NewsInv` that everything is told while that socket is served,
unless a refresh over it failed or is under way: so the gap between a connection and its first
refresh closes, also when the device has changed sockets before anybody noticed. `SilenceInv` is what
`OnlineHasReason` needs: a device that had neither a served socket nor a task with an answer when its
session left gets none until it is installed again. `RepairsInv` relates the issues, what the doctor
remembers and its report.

*ScriptUpload.* `JobsInv` says what a job carries in each phase. `RunInv`: without commands and
failed stops or starts, a script that stands still although it ran has a job that will start it.
`SafeInv` is the argument for `OriginalKept`. A backup is `Kept` when the jobs that may still add
one (`Ahead`) are too few to push it out; `Safe` is such a backup, of the calm code, in memory and on
disk; `SavingInv` says the same of every list that a save under way may still write. A job that has
saved its own backup is past the point where the calm code could be missed,
because whoever was first to write had stored it: so until `Safe` the code is calm, and what a
job has read of it so far is a prefix of it. An addition pushes out at most one backup, and its
job leaves `Ahead`, so `Kept` is preserved. `MixInv`: a code that is not whole is being written, or a
verification has so far read a prefix of it, which will either find the difference or prove the code
whole. Reading in pieces is proved never to leave the prefix, whatever the limits
(`ReadFact`). `ChunksAreWhole` names the cuts: a sequence of increasing places, the last
at the end of the text, with each chunk between two of them. Its proof follows the recursive
function of `Chunks` by a least counterexample (`Minimum`).

`SoloInv` is about a job that nothing came across: no request is late, and nothing else is under way
but deletions of backups. What it has read is a prefix of the code, of at least
`reads * (ReadLimit - 3)` bytes (`Headway`): a round that leaves something brings all that the
device returns for one, but for the at most three bytes that are free before a character that does not fit
(`HeadwayFact`). Between its chunks the code is the text up to a cut, and the chunks to come go on from
there (`WritesOn`, `CutFrom`; `ChunksCut` gives the cuts, `CutStep` takes one, `JoinFact` joins what was
written and the next chunk): so no chunk is refused, and after the last one the code is the text, which the
verification finds. That it ends in time is the hypothesis `Readable`: the code has at most
`MaxReads * (ReadLimit - 3)` bytes (`RoundsSuffice`). The 256 rounds of `backup.py:249` cover
`MAX_SCRIPT_BYTES` (`scripts.py:11`, 256 000) as soon as a device returns 1003 bytes a round; what a
device returns is not the code's to choose, and neither is the old code it holds, so this is a
hypothesis of the theorem, on the states of the behaviour, and not an assumption on the
constants. TLC finds `SoloSucceeds` true of `upload.cfg` although texts there
are beyond `Readable`: the rounds suffice for the characters at hand.

*BackupRestore.* `JobsInv` says which parts a plan may contain and which step fits which part.
`KeptInv` is the counting argument again, with `Remaining`, the backups that all jobs may still add:
a part that differs from the calm one is `Settled` (kept in a backup, or recorded as
unreadable), for every job that is applying everything is settled, and what a capture under way has
read so far was calm or is settled. `SoloInv` follows a job that met no other: what it reported
happened, what it did not touch is as before, and the script it stopped it will start. The module
assumes one script among the parts (`RestoreAssumption`): `running` is about that one.

The inductive invariants were found with TLC (each is an invariant of a run) before they were
proved. In `DeviceState` and `BackupRestore` one action property needs the invariant of
the old state and a lemma about the step, no second invariant.

*A caution about the SMT backend.* This version of the prover encodes every function of a leaf as a
sequence as soon as `Seq` or `Len` occurs in it, with domain `1..Len(f)`; a function over `0..n` in
the same leaf is then contradictory. The proofs keep the two apart: the cuts of a text are a sequence
with `cut[1] = 0`, and the recursive function of `Chunks`, whose domain begins at 0, is handled in
lemmas without sequences (`CollectedExist`, `CollectedUpToFact`). The leaves of the modules with
sequences were tested by asking the backend for `FALSE` from the same facts, which it proves only
where the step is a proof by contradiction.

What stays with TLC: the liveness properties and anything with `ENABLED`, which the prover does not
do. Every invariant and action property of a passing run is a theorem; `RevokedClosed` and
`SoloSucceeds` under the hypotheses named above.

## 5. Disagreements between code and documentation

Met while modelling. The first four are runs that TLC finds violated, with the quoted text in
`PROJECT.json`.

* `ws_closed`: a read-only call that `async_close` fails retries and reconnects; the socket and
  the reader task outlive the transport. ("Close WebSocket and fail pending calls.")
* `remote_socket`: a handler that waited for the old session to close does not look at the
  registry again; two sockets that replace one session are both served. ("only one live
  socket may use a bound credential")
* `targets_persisted`: `async_add_local` writes the list it copied before its waits. Of two additions that
  overlap the later one writes the earlier one's target out of the list: it is served, and gone after
  the next start. ("stored in the Home Assistant config-entry store so the integration can
  reconnect after restart", `SECURITY.md:48`)
* `upload_overwrite`: between the backup of an upload and its first chunk another upload may write;
  that code is in no backup when it is overwritten. ("stored as a Toolkit backup immediately
  before overwrite")

The properties of the following are in the modules too, violated, without a run of their own.

* `WsTransport!HealthyConnectionKept` (constants of `ws.cfg`): `_close_socket` ends with
  `self.connected = False` after an await. If another caller connected in the meantime its healthy
  connection is marked dead, and the next call closes it and fails whoever waits on it.
  ("concurrent callers share the same attempt", `rpc/websocket.py:70`)
* `WsTransport!RightPasswordAccepted` (`ws_auth.cfg`): two attempts serve both the reconnection and
  the challenge; a read-only call that reconnects reports failed authentication with the right
  password. ("reconnecting once after transport failure", `rpc/websocket.py:94`)
* `RemoteServer!FirstDeviceKept` (`remote.cfg`): a change of the credentials installs a copy made
  before its awaits, and forgets a binding made meanwhile. ("bound to the first valid Shelly
  device identity that uses it", `ARCHITECTURE.md:51`)
* `RemoteServer!RevokedClosed` with `TwoUpdates`: a session still in its handshake while its
  credential is regenerated is registered afterwards, and a later change does not close it.
  ("disconnect revoked or regenerated sessions", `remote.py:191`)
* `LocalTargets!RemovedStaysGone` (`targets_persisted.cfg`): an addition that began before a removal
  writes the removed target back to the list, and the next start serves it again. ("Remove one
  Toolkit-owned local target.", `device_manager.py:421`)
* `DeviceState!UpToDate` (`device.cfg`): a refresh that was answered before a push is written after
  it, and the record keeps the older status until the next push or refresh; remote devices are
  not polled. ("Push-connected remote devices update state and events immediately.",
  `ARCHITECTURE.md`)
* `BackupRestore!SafetyComplete` (`restore.cfg`): a script whose code the safety backup could not
  read is left out of it and overwritten all the same.

Other behaviours that the models show and no sentence of the repository contradicts:

* A task that outlives its session turns a disconnected device online, or the new session offline
  with an error (`OnlineHasReason` names both).
* When two sockets of a device are served (`remote_socket`) and the registered one leaves, a push on the
  other turns the device online although it has no session: every call fails with "Device is
  offline", and the record stays online, even after that socket ends, because its handler does not
  find itself registered and reports nothing. `OnlineHasReason` names this case.
* Pushes that wait on the older of two such sockets are applied after newer ones of the other: the record
  goes back to an older status with no refresh involved. `NewsInOrder` names this case.
* A refresh of all targets fails while a removal awaits the close of a transport.
* An addition that outlives an unload leaks its transport; overlapping additions exceed the device
  limit.
* A migration is applied from a new capture of the source, which may differ from the one that was
  previewed.

## 6. What is not modelled

* WebSocket transports: the identity reply of line 278 as an answer, the cancellation of a
  caller's task, a second `async_close`, header and parameter handling, TLS; of the remote
  server, the emptying of the credentials by an unload and `RemoteServer.async_close` (nothing
  calls it).
* The HTTP transport: one request per call; its two flags are written and never read, and the
  digest exchange is inside aiohttp.
* Of the inventory and the records: the device registry of Home Assistant, the validation of
  addresses, pushes of configurations (written like those of statuses), the counters of calls.
* Of the engines: scrubbing of secrets and size limits of backups, the pages of
  `Shelly.GetComponents` (one step here), the thresholds of the doctor's findings.
* The event history, a bounded deque that is appended to without an await; the browser panel, the
  config flow's forms, what entities display, diagnostics; wall-clock values.

## 7. Plan

Done: the modules of section 2 with their runs, and proofs for every component that is modelled.

Every safety invariant and action property that a passing run checks is a theorem. What is left is
model-checked: the liveness properties of the transports, the server and the records.
