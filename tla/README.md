# A TLA+ model of the RustDesk API server

The repository is a self-hosted API server for RustDesk clients: a FastAPI application over SQLite
(`src/src/rustdesk_api`), an administration console, and a web client that runs in the browser
(`src/webclient`). Clients register, report system info, send a heartbeat every few seconds and receive
commands and settings in the answer; administrators decide on devices from the console.

This directory holds the TLA+ modules that model the server's core and the web client, the TLC runs that
check them, and theorems about them with proofs that TLAPS checks. Paths below are relative to
`src/src/rustdesk_api` for the server and to `src/webclient/src` for the web client (`ui/`, `core/`,
`worker/`, `media/`, `transport/`, `gen/`). `PROJECT.json` maps every definition to the lines it translates.

    tlc -config MCDeviceRegistryQueue.cfg MCDeviceRegistry      # one run
    tlapm DeviceRegistryProofs.tla                              # one module of proofs

## How requests run, and why that is the hard part

Most of the handlers modelled here are plain `def` functions: FastAPI runs each in a thread of a pool, with
a database session of its own (`db/database.py:get_db`); the import is an `async` handler with one too. The
sessions have `autoflush=False`, and SQLite runs in WAL mode. So

- a handler READS rows without a lock, and other requests may commit after that;
- it WRITES in one transaction that takes the single write lock at its first flush;
- an `UPDATE` sets only the columns whose value the handler changed from what it had loaded, and addresses
  the row by primary key; a row already loaded is never refreshed;
- when a row to be updated is gone, or a unique id has been inserted meanwhile, the whole transaction fails;
- a primary key may come back after its row was deleted, since the tables have no `AUTOINCREMENT`.

The models follow this: a request is a read step and a write step, carries what it has read, and everything
else may happen in between. A server restart drops the requests between the two.

The web client is the other kind of concurrency: the page and a worker run one task at a time each, and
post messages to one another in order. Whatever a handler awaits (a socket, the microphone, a local file, a
timer) suspends it, and any other task may run before it goes on. A step of the web client's models is
therefore one task, with the microtasks that run on from it, and every await that really leaves the task
ends a step. Remote devices, the id server and the relay are external and answer in any order the channels allow.

## The system's parts

| component | state | operations | hard because |
|---|---|---|---|
| device registry: `services/devices.py`, `api/heartbeat.py`, `api/device_tools.py`, `api/devices.py` | a row per RustDesk id: install uuid, parked uuid, approval, owner | upload, sign-in, assign, import, approve, reject, accept/reject uuid, delete, change owner, sweep | read-then-write requests by clients and administrators on one row; a limit that is counted; keys that come back |
| disconnect queue: `services/connections.py` | reported connections and queued disconnects on the row | heartbeat, list, disconnect some/all, reject | a queue read, extended, cleared by overlapping handlers; lost answers; client restarts that reuse numbers |
| strategies: `services/strategies.py`, `api/strategies.py` | options, version, default flag; assignments; the client's copy | create, edit, delete, default, assign, heartbeat | delivery over lost answers, versions, precedence, one option that must never be cleared |
| enrolment: `api/enrollment.py`, `services/enrollment.py` | the same rows, groups, books | `--assign`, presets | several rows in one request |
| fleet and housekeeping: `services/fleet.py`, `services/retention.py`, `maintenance.py` | offline announcements, archive flags | watch check, archive, sweep, retention | loops beside requests; announce once per outage |
| notifications: `services/notifications.py` | bounded queue, rate window | dispatch, sender thread | full queue, cap, shutdown |
| sign-in: `services/authentication.py`, `two_factor.py`, `tokens.py`, `password_reset.py` | failure counter and lock, challenges, recovery codes, sessions, reset links | log in, second factor, log out, reset | single-use secrets checked then marked |
| OIDC and LDAP: `services/oidc.py`, `services/ldap_auth.py` | login attempts | start, callback, poll, collect | three parties; a crash in the middle |
| address books, sharing: `services/address_book.py`, `sharing.py` | books, entries, shares | legacy whole-book sync, per-item edits | whole-book replacement against edits |
| client audit: `services/client_audit.py` | connection and file logs | new, authorised, close | events out of order |
| web client bridge: `services/webclient.py`, `api/webclient_ws.py` | tickets, open sockets per kind | issue, redeem, pump, close | caps released on every path |
| web client, session and worker: `worker/session.worker.ts`, `core/`, `transport/` | sockets, watchdog, pipelines, session state, cipher, decoders | connect, disconnect, handshake, login, pictures, codecs | callbacks across awaits, two sockets, a timer |
| web client, messages: `gen/` | none | create, encode, decode | defaults, unions, unknown fields, wide integers |
| web client, voice call: `ui/app.ts`, `ui/voice-call-attempt.ts`, `media/voice-capture.ts` | call state, microphone, the session's request | toggle, answer, hang up, permission | crossing messages, a browser prompt that outlives its call |
| web client, file transfers: `ui/file-panel.ts` | jobs, write chain, upload loop | download, upload, cancel, conflict | tasks that lag behind messages, a loop that waits |
| web client, restart: `ui/app.ts` | restart flow, timers | restart, retry, expire, leave | three timers against user and device |
| web client, remote security: `ui/app.ts` | blocked input, privacy mode | toggle, notice, release on leaving | answers that are still on their way at the end |
| web client, the rest | decoders, canvas, key maps, panels | render, type, chat, terminal | the browser's work |
| backup: `services/backup.py` | snapshot files | snapshot, rename, rotate | crash between steps |
| roles, users, groups, tags, views, settings, metrics, updates, installers, console | rows and caches | edits, reports | little: single rows, read-only reports, formatting |

They interact through the database only: the heartbeat handler touches the registry (is the device
approved, is it the same install), the disconnect queue and the strategy in one transaction; approval and
rejection gate the other two; the maintenance loops delete and archive rows the handlers work on.

What should hold of each, where it is modelled or planned: the registry keeps approval, identity and
ownership in the hands of those entitled to them under every interleaving; the queue delivers what was
asked for, once, and nothing else; strategies converge; an outage is announced once; a single-use secret
works once; a login attempt ends; an event log survives reordering; caps are exact and released; a backup
is whole at every crash point. Of the web client: nothing stays open behind a connection that was given up,
the login leaves only behind the chain of trust, device and session agree on what can be decoded and what was
shown, page and session agree on the call, files reported as transferred are whole, the page is never left
busy with nothing to come, a device is released when its user leaves, and a message reads as it was written.

## Modules

| module | what it is |
|---|---|
| `DeviceRegistry` | the device table and every request on it |
| `DeviceRegistryProofs` | theorems about it, for every value of its constants |
| `DisconnectQueue` | heartbeats and console requests that end connections, and the client that numbers them |
| `DisconnectQueueProofs` | theorems about it |
| `StrategySync` | strategies, and their delivery to a client |
| `StrategyProofs` | theorems about it |
| `FleetWatch` | the housekeeping loops that announce silent devices and archive stale ones |
| `FleetWatchProofs` | theorems about it, those on announcements for at most two server processes |
| `MCDeviceRegistry`, `MCDisconnectQueue`, `MCStrategySync`, `MCFleetWatch` | what TLC needs: symmetry sets and one definition of contents |
| `SessionLifecycle` | abstract: what a session worker promises its page |
| `WebSession` | one connection of the web client: page commands, worker, both sockets, device |
| `WebSessionProofs` | theorems about it, among them that it implements `SessionLifecycle` |
| `VoiceCall` | a voice call across page, microphone, session and device |
| `FileDownload`, `FileUpload` | a transfer of the file panel, either way |
| `RestartFlow` | the page over a restart of the device, on top of `SessionLifecycle` |
| `RemoteSecurity` | blocked input and privacy mode, and their release |
| `PageProofs` | theorems about `VoiceCall`, `FileDownload`, `FileUpload`, `RestartFlow` and `RemoteSecurity` |
| `WireFields`, `RendezvousProto`, `MessageProto` | kinds of field, and the fields of each of the 134 messages |
| `WireLevel` | how any message is created, written and read that nests others to some depth, given how those are |
| `WireLevelProofs` | theorems about it, for any table of fields |
| `Wire` | its instances for the depths 0 to 5 of the two protocols, and a writer, perhaps newer, with a reader |
| `MCWebSession`, `MCWebFeatures` | a small instance of `WebSession`; the page's features, one at a time |
| `FeaturesProofs` | theorems about `Wire`, and about the features together |

### DeviceRegistry

`table` is the set of committed rows by RustDesk id; `req` is the request each worker serves: its kind,
arguments, phase, and the row it has loaded (`snap`). Rows keep the five columns that decisions read:
primary key, approval, uuid, parked uuid, owner.

- `UploadStart`, `Recheck`, `UploadWrite` are `POST /api/sysinfo` and the device part of a client's sign-in:
  the first lookup decides `trusted`; `register_or_update` looks an unknown id up again and counts the waiting
  devices; the write is `Insert`, or `Update` with `Registered`.
- `AssignStart`, `Recheck`, `AssignWrite` are `rustdesk --assign`; `ImportStart`, `ImportWrite` the import,
  which stands for one row of the file (the rows do not interact).
- `View`, `DecideRead`, `DecideWrite` are the console's decisions. The console names a device by the primary
  key it showed, so the row found may be another device's by then; `DecideRead` repeats the permission
  check of the handler and its 409s. The owner change stands for `PATCH /api/devices/{id}` and the bulk
  update.
- `SweepRead`, `SweepWrite` are `drop_stale_pending`. Which waiting device has been silent long enough is
  left open.
- `Merge` is the column-wise `UPDATE`, `IsNextPk` SQLite's choice of the next key.

A role that may manage a device acts like an administrator on it, and is one here. Presets in uploads
(`ALLOW_SYSINFO_PRESETS`, off by default) are left out.

### DisconnectQueue

`row` is the device's row (approved or not, the reported connections `live`, the queue `pend`), with the
client process that reported `live` as history. `beat` holds heartbeats under way, `ask` console requests,
`client` the client: process number, next connection number, open connections. `asked` and `owed` are
history: what accepted requests have named, and what of it has not been handed over since.

`BeatRead`/`BeatWrite` are the heartbeat (`record_heartbeat`), `View`/`AskRead`/`AskWrite` the console
(`request_disconnect`), `RejectWrite` and `ApproveWrite` the decisions that clear or re-admit the device.
`Send`, `GiveUp`, `Lose`, `Receive`, `Open`, `Close`, `ClientRestart` are the client and the network, which
are external. The constant `Overlap` says whether handlers overlap. The cap of 256 reported ids is left out.

### StrategySync

`strategies` is the table, `device` the assignments of one device in one group, `recent` stands for
"`strategy_sent_at` less than five minutes ago", `client` what the client holds. An option is one of two
kinds: ordinary (`opt`), and the sticky API server (`api`), which is only ever sent with a value. Edits and
default changes are read and write steps; the heartbeat reads the device's row first (`BeatRead`), then holds
the write lock to its commit (`BeatAnswer`), because the handler's flush of `last_seen` comes before
`heartbeat_fragment`. `Applied` is the client.

`Tick` assumes that no two versions are taken in the same microsecond and that the clock is not set back.

### FleetWatch

`row` holds `last_seen`, `watch_offline`, `offline_notified_at` and whether the device is archived; `loop` the
housekeeping loop of each server process. A round is `CheckRead` (`check_watched_devices` reads, decides and
dispatches), `CheckCommit`, then `ArchiveRead` and `ArchiveCommit` (`archive_stale`); `Abort` is a commit that
fails, or the process stopping. `BeatRead`/`BeatCommit` is a heartbeat or an upload, `AskRead`/`AskCommit` the
switches on the device's page and in bulk. History: `word` is the last announcement dispatched, `said` how
often the present silence was, `excuses` how many failed rounds and switches may have it repeated.

Time is an integer: instants, `PerMinute` of them in a minute. `Pass` begins a minute, and does so only between
rounds: a round waits five seconds at most for the write lock, and silence is measured in minutes. For the
same reason a process does not begin its next round before the rounds that were under way when it fell asleep
have ended (`rest`), and a heartbeat may last into the next minute, not into the one after it. `SilentFor` is at
least one minute, which is the least `NOTIFY_OFFLINE_AFTER_MINUTES` that `config.py` accepts. The device stays
approved: a rejection clears the same two columns as switching watching
off. What happens to an announcement after `dispatch` (cap, throttle, queue) is left to a later module.

### SessionLifecycle, WebSession

`SessionLifecycle` is the promise: a session opens once, may wait for the remote user, may go live, and ends;
the page is told of each step as it is taken, and after the end of nothing else; opening does not last for
ever. `WebSession` is the code behind it. `hostVars` are `WorkerHost`'s (how far `connect` has come, the two
sockets, the watchdog, the pipelines, `tornDown`), `sessionVars` those of `Session`, `peerVars` the id server,
the device and the frames between, `shown` the last state event.

- `Connect`, `Ready`, `ProbeDecoding`, `IdSocketOpened`/`IdSocketFailed` are `WorkerHost.connect` cut at its
  awaits; `RelayOpened`/`RelayFailed` the dial of the relay; `Teardown`, `Disconnect`, `Watchdog` and the
  closed sockets its ends. A second teardown does nothing, and does not know a socket that is still opening.
- The answers of the id server, the signed identity, the hash, the login answer, pictures, a sealed frame that
  does not open and the close reason are the handlers of `Session`. The login hash is awaited and yet one
  step: it is computed without leaving the task.
- `Lifecycle` maps the worker to `SessionLifecycle`: torn down is over, else the state last shown.

A signed message is good or bad and a sealed frame opens or does not: the cryptography is a library.

### VoiceCall

`ToggleVoiceCall`, `OnVoiceCall`, `Prepared`, `CaptureFails`, `SessionEnds` are the page and its microphone;
`WorkerCommand` and `SessionFrame` the session; the `Device...` actions the remote device. A generation or
epoch counter is kept as what it is read for: each microphone request in `preparing` knows whether it still
has the attempt's generation, the controller's epoch and the page's session. The timestamp of a request is its
number.

### FileDownload, FileUpload

`FileDownload`: the device announces each file, is answered, sends blocks, an empty block and `done`; the page
appends to `chain`, whose first task may be suspended while a file opens or a write lasts. Cancelling, refusing
and losing the connection may come at any of these points. A file is a number of blocks, a local file "old",
"part" or "whole".

`FileUpload`: `uploadFiles` is one loop, `at` the await it is suspended in; the event handlers resolve it. The
device may ask to skip, to go on from a block it has, or for the user's word.

### RestartFlow

`flow`, `retry`, `tried` and `late` are `RdApp.restartFlow`, its armed timers, whether it has begun to
reconnect, and whether its two minutes are over; `page`, `overlay`, `offered` are what the user sees. The
session it runs is `SessionLifecycle`, instantiated: a step of the session is a step of that module together
with what the page does on hearing of it. `farewell` is history.

### RemoteSecurity

The page's switches (`blockInput`, `privacyMode`, each with its pending flag, and `activeImpl`), one channel of
commands and one of notices, and the device. `LeaveSession` is `releaseRemoteSecurityState` in front of the end
of the session. The device does as told or says that it failed; it shows its screen again before it tries
another implementation, which is what the page relies on.

### Wire

The generated `gen/message.ts` and `gen/rendezvous.ts` repeat one shape for every message. `RendezvousProto`
and `MessageProto` state what differs, the table of fields, one definition per message; `WireLevel` states what is
common: `createBase`, `encode`, `decode`, with defaults left out, the cases of a union in one slot, packed
lists, nested messages, unknown fields skipped, and a bigint beyond 64 bits refused. An entry is a field
number, a wire type and a value, not bytes.

A message's `encode` calls that of the messages it nests. No message nests itself, and none is nested more than five
deep: `WireLevel` is the codec of one depth, which asks the one below about the messages it nests (`Nested`, answered by
`Says`), and `Wire` instantiates it for each depth, from messages of scalars (`Depth0`) to all (`Codec`). Three assumptions say what the generated code relies on:
that numbers and names of a message's fields are distinct and that defaults and packed lists are of scalars
(`TablesAreAsRelied`), that the messages to be written are of those depths (`NamesAreTypes`), and that the bound on
fields is a number. TLC evaluates all three on the tables as they are. `Wire` instantiates `WireLevelProofs`, which
adds nothing but theorems to `WireLevel`, so that they can be cited at each depth.

## Runs

| run | expects | shows |
|---|---|---|
| `registry_queue` | pass | `TypeOK`, `PendingBounded`, `KeysDistinct`, `ApprovalIsVouched`: 3 ids, 2 requests at once, limit 1, uploads, approvals, deletions, imports, owner changes, sweeps |
| `registry_identity` | pass | `RebindNeedsTrust`, `RejectedUntouched`, `ParkedIsOther`: 1 id, 2 uuids, a user and an administrator, 2 requests at once, `approve` policies |
| `registry_limit` | violation of `PendingAtMostLimit` | finding 1 |
| `disconnect_serial` | pass | `NotForgotten`, `RejectedIsBare`, `HandedOverOnce` when handlers do not overlap: 2 connections, 2 administrators, rejections, losses, server restarts |
| `disconnect_live` | pass | `TypeOK`, `OnlyAskedIds`, `QueueDrains`, `PageCatchesUp` when handlers overlap, with 2 heartbeats under way, 2 client processes |
| `disconnect_reuse` | violation of `EndsOnlyAsked` | finding 2 |
| `disconnect_lost` | violation of `NotForgotten` | finding 3 |
| `strategy_deliver` | pass | `TypeOK`, `VersionIdentifies`, `AtMostOneDefault`, `ApiServerKept`, `Converges`: 2 strategies, 2 versions, one administrator |
| `strategy_default` | violation of `AtMostOneDefault` | finding 4 |
| `fleet_watch` | pass | `TypeOK`, `OncePerOutage`, `RecordIsTold`, `WordIsTrue`: 2 processes, 5 minutes of at most 2 instants, one failure or switch per outage |
| `web_session` | pass | `WebTypeOK`, `NothingLeftOpen`, `LoginIsTrusted`, `DecodersAgree`, `EveryPictureAcknowledged`, `LifecycleSteps`, `Settles`: 2 codecs, 2 frames in flight, 2 changes of what is advertised |
| `web_features` | pass | `FeaturesTypeOK`; `MicrophoneFollowsCall`, `PageAndSessionAgree` (3 calls, one more session); `ReceivedIsWhole`, `SentIsWhole`, `LoopIsAwaited` (2 files of 2 blocks); `NeverStranded`, `FarewellIsFinal`; `ReleasedOnLeave` (2 implementations, 2 commands on their way); `ReadsWhatWasWritten` (every message type, 2 fields filled in) |

`web_features` explores the features one after the other: its initial states differ in `focus`, and only the
module in focus steps. The features share nothing in the code but the session, which each reduces to whether it
is up; their product would say nothing more.

**Bounds.** Every hazard here needs two requests on one row, so two workers (or two heartbeats beside one
console request) reach it. In `registry_queue` a limit of 1 and three ids let the queue overflow and the key
of the last row come back. In `registry_identity` one device is enough, as requests on different ids touch
different rows except for the queue's count and the keys, which are the other run's subject; two uuids are
the known one and the other one. In `disconnect_serial` two connections tell "this one" from "also that
one"; in the runs with two processes one connection each is enough to reuse a number. `MaxVersion` 2 gives
two contents to lose track of, and `Disjoint` contents make every switch set one option and unset the
other. `MaxPk`, `MaxId`, `MaxEpoch` and `MaxVersion` bound counters in the actions' guards. In
`fleet_watch` a device is silent in the second minute after its last report (`SilentFor` 1), which leaves room in
five minutes for an outage, a return and a second outage; `MaxClock` and `MaxExcuses` are bounds in guards as well.
In the web client two codecs let one be preferred and the other fail, and two frames in flight put a picture
behind or in front of every other message; three calls let an answer to the first meet the second, and a late
click meet the call an earlier one brought about, and a second session lets a microphone answer outlive its session; two files of two blocks have a middle to be stopped in and
a next file to be opened wrongly; two implementations let the user change from one to the other while a notice of
the first is on its way. Two fields filled in are every pair of fields of a message, so that no field can
overwrite or swallow another; what is nested in the first has a field filled in too.

**Fairness.** `DisconnectQueue`: the client's loop sends a heartbeat again once it has an answer or has
given up (weak fairness of `Send`); a handler that is repeatedly possible finishes, which is strong fairness
because a server restart may undo its start; every exchange ends by an answer, a timeout or a loss. Nothing
forces a message to arrive. `StrategySync`: the same, with five minutes passing (`Elapse`), and strong
fairness of receiving an answer that carries options: not every one of them is lost. No console action is fair.
`FleetWatch`: every loop keeps starting rounds and some of their commits succeed; time and heartbeats are not
fair, so the device may stay silent for ever, and the properties are not owed to the bound on the clock.
`WebSession`: the steps `connect` resumes with after an await the browser always settles (the libraries'
start-up, the probe, the socket to the id server), and the watchdog's timer. Nothing is assumed of the id server, the
relay, the device or the user: `Settles` holds because the watchdog is armed in the step that asks the first of them.

**Deadlock** is checked in every run of the server. The two runs of the web client do not: a connection that
has ended, a finished transfer or a message that was read really stops.

### Findings

1. `registry_limit`: the waiting devices are counted and the new row inserted without a lock in between, so
   overlapping uploads exceed `NEW_DEVICE_PENDING_LIMIT`, which the README (line 691) gives as a maximum. The
   excess is bounded by the number of overlapping requests (`PendingBounded`, proved).
2. `disconnect_reuse`: a queued number outlives the client process it was meant for; after a client restart
   it ends a new connection with that number, which `src/docs/rustdesk-compatibility.md` (lines 682-683)
   rules out.
3. `disconnect_lost`: a heartbeat that had loaded the row clears a queue that a request has extended
   meanwhile; the README (lines 424-425) promises delivery with the next heartbeat.
4. `strategy_default`: two overlapping requests leave two default strategies; `models/strategy.py` says that
   `set_default` prevents it.

Each of the four properties is a theorem where its cause is absent: the first with one request at a time
(`LimitHoldsOneAtATime`), the second with one client process (`NumbersHoldOneProcess`), the third and the fourth
when handlers do not overlap (`NothingIsForgotten`, with the further assumptions given there, and `OneDefault`).

## Proofs

All proofs hold for every value of the constants that the modules' named `ASSUME`s allow: any finite sets of
ids and workers, any accounts, limits, policies and bounds.

- **`TypeCorrect`**: `Spec => []TypeOK` of `DeviceRegistry`. `TypeOK` is inductive; each way a transaction
  changes the table (`Insert`, `Update`, `Delete`) is a lemma.
- **`QueueBounded`**: `Spec => []PendingBounded`. Not inductive: a request that has passed the count holds a
  place before its row exists. `Admitted` is the set of requests that have passed it and are about to insert
  a waiting row; the invariant `QueueInv` bounds waiting devices plus admitted requests by the limit plus the
  workers minus one. A `Recheck` that admits a request sees fewer waiting devices than the limit, and at most
  all other workers are admitted; an insert trades an admission for a row.
- **`LimitHoldsOneAtATime`**: with one worker `PendingAtMostLimit`, its corollary; finding 1 needs two requests at once.
- **`KeysAreDistinct`**: `Spec => []KeysDistinct`. Inductive with `TypeOK`: a new key is above all in use.
- **`ApprovalVouched`**: `Spec => ApprovalIsVouched`, an action property. `AdminInv` says that the requests
  that may approve (approvals, imports) are an administrator's; with it each commit that turns a row approved
  is one of those, or an upload or an assignment that vouches. The case that needs care is `Merge`:
  a handler that has read an approved row and leaves that column alone cannot bring the approval back.
- **`QueueTypeCorrect`** and **`OnlyAskedIdsEnd`**: `Spec => []TypeOK` and `Spec => []OnlyAskedIds` of
  `DisconnectQueue`. `AskedInv` adds that a request about to be written extends a queue whose ids were all
  asked for, so that a stale queue written back brings nothing new.
- **`NumbersHoldOneProcess`**: `EndsOnlyAsked` with one client process (`MaxEpoch = 1`), handlers overlapping or not;
  it follows from the two before, since a number is then a connection.
- **`RejectedStaysBare`**, **`HandedOverIsOwed`**, **`NothingIsForgotten`**: `RejectedIsBare`, `HandedOverOnce` and
  `NotForgotten`, assuming `~Overlap`; the second and third also assume one client process (`MaxEpoch = 1`), the
  third one heartbeat at a time. `Serial` says that at most one handler is between its read and its write, and
  that what it read is still the row; with it nothing is written over. `Delivery` adds that what is queued is owed,
  and `Reports` that a heartbeat on its way reports every open connection that the server has heard of: the case
  that needs care is a heartbeat sent before a connection was opened, which may drop no id of it, and cannot,
  since no one has asked for an id the server does not know.
- **`StrategyTypeCorrect`** and **`VersionsIdentifyOptions`**: `Spec => []TypeOK` and
  `Spec => []VersionIdentifies` of `StrategySync`. `VersionIdentifies` compares two places that hold a version,
  the table and the client; it is not inductive, since an edit or an answer on its way may bring a version to
  either. `OneMeaning` looks at all places at once: a version that is held in a row, a pending edit, an answer or
  the client (and version 0, for no options) stands for one set of options wherever it is, and none is ahead of
  the clock. A step either moves a version from one of these places to another (`NoNewMeaning`) or takes a new
  one from the clock (`OneNewMeaning`).
- **`ApiServerIsKept`**: `Spec => ApiServerKept`. `NoReset` says that an answer on its way carries the API server
  or leaves it out, and never carries it empty.
- **`OneDefault`**: `Spec => []AtMostOneDefault`, assuming one console request at a time. `ReadsDefaults` says that a
  request to set the default has read every strategy that is one, so that its write clears them all. For two
  requests finding 4 is the counterexample.
- **`WebTypeCorrect`**, **`NothingIsLeftOpen`**, **`LoginNeedsTrust`**: the types, `NothingLeftOpen` and
  `LoginIsTrusted` of `WebSession`, for any codecs, any number of frames and of changes. The invariant is
  `Inv`, the types and `Order`: what must be true of the sockets while `connect` is at each of its awaits
  (`Opening`), which frames the device can have sent and the session can have shown at each stage (`Linked`,
  `Unlinked`), and which links of the chain of trust each stage implies (`Chain`). `LoginIsTrusted` follows
  only from `Chain` at every earlier stage, `NothingLeftOpen` only from the order of the openings.
- **`SessionKeepsLifecycle`**: `WebSpec => LifecycleSteps`. `WebInit` maps to `SessionLifecycle`'s `Init`, and
  under `Inv` each action maps to one of its steps or to none; what has to be shown is that no state is
  reported out of its order or after the end.
- **`MicrophoneIsFollowed`**: `VoiceSpec => []MicrophoneFollowsCall`, for any number of calls and sessions. `MicInv` adds
  `AttemptIsCurrent`: an open microphone request that still has the controller's epoch also has the attempt's
  generation and the page's session, and a call the page has not given up, so that the three checks made when
  the browser answers never disagree and every outdated answer is dropped.
- **`LeftIsReleased`**: `SecuritySpec => []ReleasedOnLeave`, for any implementations and any number of commands
  on their way. While the user is there (`BlockKnown`, `PrivacyKnown`), a mode that was asked for has one
  command or one notice of it in the channels, and none otherwise, so that what is on at the device is either
  known to the page or pending; once he has left (`Undone`), a command that turns off what is on, and one behind
  every command to turn on, is still in the channel. An empty channel then means that all is off. The lemmas say
  how these facts pass along a channel as a message is appended or taken from its head.
- **`RowsAreLoaded`**, **`RebindingNeedsTrust`**, **`RejectedStaysRejected`**, **`ParkedUuidIsOther`**: what a
  request may do to the row it has loaded, as `RebindNeedsTrust`, `RejectedUntouched` and `ParkedIsOther`, action
  properties. `LoadedInv` (`RowsAreLoaded`) says what every request carries from its read to its write: whoever
  decides may decide on the row that was loaded, and an assignment goes on only with a row it was not refused for.
  A commit on the current row (`Fresh`) then writes what these checks allow, and `Merge` writes just that.
- **`DecodersAreTold`**, **`PicturesAreAcknowledged`**: `DecodersAgree` and `EveryPictureAcknowledged`. The first is
  strengthened to every session that is not torn down, since what is said of the decoders between the login's
  request and its answer is what the live session begins with; the second is inductive with the types, by what a
  message appended or taken does to the number of pictures, and of acknowledgements, in a channel.
- **`PageAndSessionEndUpAgreeing`**: `VoiceSpec => []PageAndSessionAgree`, for any number of calls. `AnswerInv` is about
  session and device: requests and answers are numbered and in order, an answer to the latest request is the last
  one on its way, and during a call only a pending request can still be answered. `AgreeInv` is about page and session:
  the latest news on its way to the page shows what the session has come to, but for what the page itself has posted
  meanwhile (`LatestShows`), and without news the page shows it already (`PageKnows`). The property was stated more
  strongly before, without the pending request in the first line; the induction failed at a third click, and TLC
  confirms it with three calls: `startVoiceCall` (`core/session.ts`, line 813) guards against a pending request only,
  so a click that is heard late sends a second request during the call that the first one brought about. Page and
  session agree in that state too, on a call that is waiting for its answer.
- **`LoopStaysAwaited`**, **`SentFilesAreWhole`**: `LoopIsAwaited` and `SentIsWhole` of `FileUpload`, from one invariant,
  `UpInv`. At most one file is asked about, by one message or one question (`Asking`), and each wait has its message
  (`Awaiting`); the blocks of a file that the device has and those on their way are together as many as the loop has
  read (`Counted`), the end of the transfer is marked after all of them and stays behind them (`Marking`,
  `Ending`), and what the device reports, and a skipped file, it has from the loop (`Whole`, `Echoed`).
- **`ReceivedFilesAreWhole`**: `DlSpec => []ReceivedIsWhole` of `FileDownload`. `DlInv` says that the device waits for one
  word at a time (`Telling`), that the files' blocks and ends are in order along the connection and the chain of
  writes (`Sorting`), and, while nobody has stopped the transfer, that the blocks stored, chained and on their way are
  those the device has sent (`Storing`), in the one file that is open (`Handling`). A stopped transfer
  needs an invariant of its own (`Stopping`): an announcement that is handled late can bring its status back to
  running, and then the cancellation reaches the device before any word that would have it go on, so that the
  transfer is never reported as done.
- **`WatchTypeCorrect`**: `Spec => []TypeOK` of `FleetWatch`, for any number of processes.
- **`RecordsAreTold`**, **`AnnouncedOncePerOutage`**: `RecordIsTold` and `OncePerOutage`, for at most two processes; three
  can break either (see below). `Telling`: while a round that has announced a silence is not committed, and the record
  is there already from the other process, that other process waits, so that it cannot take the first one's record
  for a return. `OncePerOutage` needs to know that a record that is older than the last report is of a silence that
  has ended (`Returned`), which holds because rounds end in the minute they began and heartbeats in the next
  (`InTime`); that a return still to be recorded can be overtaken by one new announcement, and only where the
  administrator has cleared the record (`Clears`); and that without a record each process has one announcement
  left, but for those that are between announcement and commit (`Budget`). Before the assumption on heartbeats was
  made explicit in `Pass`, the induction failed there: with a heartbeat that lasts for minutes, and the switch turned
  off and on before it commits, a silence is announced a third time.
- **`BusyPageGoesOn`**, **`NoSessionAfterFarewell`**: `NeverStranded` and `FarewellIsFinal` of `RestartFlow`. They
  need each other, and `ShowsSession`: what the page shows of a session is what the session is, and without one it
  shows none that is live, so that no button of a live session can begin a flow where none may be.

- **`MessageIsReadBack`**, **`NewerIsSkipped`**, **`PutFits`**: about `WireLevel`, for any table of fields that is sound,
  and any message of it that is not refused. What has been read after the entries of the first fields holds those
  fields as the message has them and defaults elsewhere (`FieldsAreRead`); the next field's entries fill its own slot
  and leave the others alone (`FieldIsRead`), which for a union takes that nothing else of it was written, and for a
  list that it grows by one element per entry (`ListIsRead`). This is an induction over fields, and one over the
  elements of a list: the library's induction rules take an operator as parameter and cannot be used, but with a set in
  its place the rule follows from the well-foundedness of `<` (`NaturalsAreReached`), which also serves for what the
  folds `written` and `read` compute. An entry that no field answers changes nothing wherever it stands
  (`UnansweredIsSkipped`).
- **`WritesAreRead`**: `WireSpec => []ReadsWhatWasWritten`, from the theorems at each depth: messages that nest nothing
  are read back, hence those that nest them are (`ReadBackAtEveryDepth`), and what is filled in is a message all along
  (`FitsAtEveryDepth`). It holds for any number of fields that are filled in one after the other, of any message;
  the run fills in two. What a scalar may be stays abstract: its default, another value, one that does not fit.
- **`FeaturesAreTyped`**: `FeaturesSpec => []FeaturesTypeOK`, the types of all six features. Most are part of the invariants
  above. Two kinds of bound need one of their own: there are no more requests of a call than clicks that asked for one, on
  their way or answered (`CallBounds`), and a local file holds no more blocks than its file on the device has, since what
  is stored, chained and on its way is at most what the device has sent, in transfers that were stopped too, where the
  blocks need not be those (`DlBounds`).
- **`FeaturesKeepTheirWord`**: the nine other invariants of `web_features`, of the specification that the run explores. A
  step of it is a step of one feature while the variables of the others stay (`OneAtATimeMoves`), so that the
  features' invariants together are an invariant of all (`FeaturesInv`).

Every invariant and every action property that a passing run checks is a theorem, some under the assumptions named above.
Only model-checked is all liveness (`QueueDrains`, `PageCatchesUp`, `Converges`, `WordIsTrue`, `Settles`): liveness under
fairness and `ENABLED` are out of the prover's reach. No module has a `RECURSIVE` operator.

## What `Converges` and the others do not say

- `RebindNeedsTrust`, `RejectedUntouched` and `ParkedIsOther` speak of requests that worked on the current
  row (`Fresh`). A request that read the row earlier decides by what it read: the model has these steps, and
  they do break the unconditional forms. `ApprovalIsVouched` needs no such premise.
- `NotForgotten` passes only when handlers do not overlap; finding 3 is the other case.
- `Converges` assumes that from some point on the configuration stays, the client's user leaves the API
  server alone, and the client waits for its answers. A client that gives up on every answer while the server
  counts the strategy as sent gets none.
- `OncePerOutage` counts dispatched announcements: each process may make one, and the docstring of `fleet.py`
  ("worst case, one outage is announced twice") is its case of two processes and no excuse. Both it and
  `RecordIsTold` hold with two processes and not with three: a third can read what a second has committed while
  the first is still between its announcement and its commit, and announce a return that the first one's commit
  then overrides. The theorems about them assume `Cardinality(Procs) <= 2`.
- `AtMostOneDefault` passes with one administrator request at a time; finding 4 is the other case.
- `NothingLeftOpen` speaks of sockets and the watchdog. Pipelines that are created after a teardown, when the
  user disconnects during the start-up, are not closed; the model has that step (`pipes`).
- `LifecycleSteps` lets the end be told more than once: a relay that fails to open after the teardown posts a
  second error.
- `PageAndSessionAgree` is about page and session. The device may be left in a call neither of them knows: an
  answer to an earlier request is taken for one to the new request (`core/session.ts`, lines 429-446).
- `ReceivedIsWhole` promises nothing of a stopped transfer. The code commits a partial file when a transfer is
  cancelled while the browser opens the file and the device's `done` comes after it, although the comment at
  `ui/file-panel.ts`, lines 10-12, has stopped files aborted.
- `ReleasedOnLeave` excepts a device whose own user has turned privacy mode off: the notice of that clears a
  request for another implementation that is on its way, and leaving then turns nothing off (`ui/app.ts`, line
  2257; the comment at 2311 has it otherwise).
- `FarewellIsFinal` is about sessions the user did not ask for. A restart flow that is still there when the
  user connects by hand is kept, and may end that session when its two minutes are over; a session restored in the
  last seconds before that is ended too. `NeverStranded` and `FarewellIsFinal` hold nevertheless.

## Not modelled

Listed in `PROJECT.json` under components, with the reason. Of the web client: decoding, drawing, audio output and
Media Source buffers are the browser's; key maps and rendering are formatting; chat, terminal, camera and display
panels pass a command on and show its answer; browsing, creating, renaming and removing files are single requests.
The console's scripts and dictionaries are pages and texts. What remains of the plan:

1. `SignIn`: lockout counter, challenges, recovery codes, reset links and sessions, against an abstract
   specification of a secret that works once.
2. `Notifier`: the throttle, the cap per minute, the count of what was dropped, the bounded queue and the
   sender thread.
3. `OidcFlow`, `ClientAudit`, `Bridge`, `AddressBook`, `Backup`.
4. `Heartbeat`, which composes the registry, the queue and the strategy as the one transaction they are.
5. Of the web client: the switch of displays (a refused switch leaves `pendingDisplay` set, `core/session.ts`,
   line 520).
