# A verification project for Shatter-NC

Shatter-NC watches Brother CNC machines from a FastAPI backend (`src/backend/app`) and
shows them on web dashboards (`src/frontend`). It polls each machine's telnet port and
FTP server, keeps a live cache that it sends over WebSockets, writes events and
production runs to a database, sends notifications, writes tools, offsets and macros
back to the machine, and synchronises program folders. All of it runs in one process on
one asyncio event loop.

This directory models the parts where the order of things matters, checks the models
with TLC and proves theorems about them with TLAPS. `PROJECT.json` lists components,
runs, the source lines of every definition, hazards and theorems.

## 1. The system

### Components

| Component (under `src/backend/app`) | State it keeps | Operations | Hard behaviour | What makes it correct | Here |
|---|---|---|---|---|---|
| `MachinePoller` (`services/_machine_poller.py`) | failure count, online flags, last statuses; rows of `machine_status_events`, `production_runs` | `poll`, `poll_tool_data`, event-log tasks | overlapping polls, cancelled polls, log tasks that run later, failed commits, restarts, tasks of a replaced poller | memory agrees with the table, one open run, each cycle reported once, offline recorded | `MachinePoller`, proofs in `MachinePollerProofs` |
| `PollingService` (`services/polling.py`) | dictionary of pollers, two loops | poll all, poll all tool data, `refresh_tool_data`, update pollers | results of one pass are broadcast only when the slowest machine is done | no stale result replaces a newer one | writers of `StatusCache` |
| `WebSocketManager` (`services/websocket.py`) | `last_status`, `active_connections` | connect, disconnect, `broadcast_status` | partial payloads, concurrent senders, connections that vanish in a loop | a dashboard that hears the newest broadcast shows the cache, nobody is served twice | `StatusCache`, `WebSocketBroadcast`, together `WebSockets`, proofs in `WebSocketsProofs` |
| Telnet clients (`clients/telnet_client.py`, `_telnet_*.py`) | connection, lock per machine | `load_data`, single commands, `write_macro_variable` | late and split replies, retries, cancellation by `wait_for` | a reply is the reply to its command; writes are not disturbed | `SerialPort`, `TelnetSession`, proofs in `TelnetSessionProofs` |
| `FtpSyncService` (`services/ftp_sync_service.py`) | active runs, locks per machine, snapshots; `ftp_sync_runs`, `_items`, `_file_states` | trigger, watch, process run, process item, start, stop | check then await, crash, failed commits, people who edit both copies | one run per machine, rows never dangle, nobody's work is lost | `FtpSyncRuns`, `FtpSyncFile`, together `FtpSync`, proofs in `FtpSyncProofs` |
| Tool write batch (`services/tool_write_service.py`) | none of its own, the magazine of the machine | pre-clear, ordered application, verify | a step of several fails; order of dependent writes | a batch reaches the magazine it asked for and touches no other pot | `ToolBatch`, proofs in `ToolBatchProofs` |
| Tool names (`services/tool_name_write_service.py`), `NotificationService`, compressor polling, programs API | files, rules, samples, programs | | read-modify-write over FTP, cool-downs | | not modelled, see section 7 |
| `MachineStateValidator`, ATC optimizer, unified tool view of the server, parsers | none | pure functions | boundaries | | the check before a batch is in `ToolBatch`, the validation of a program in `Validation`; the rest is not modelled |
| History, settings, audit, HTTP client, MQTT, rate limit, start-up, schema | rows | | | | not modelled, see section 7 |

The frontend (`src/frontend/src`) is as large as the backend and keeps more state than it
looks. Its parts share the server, the WebSocket's data and the address:

| Component | State it keeps | Operations | Hard behaviour | What makes it correct | Here |
|---|---|---|---|---|---|
| Tool table (`components/machine-detail/ToolsPane.tsx`) | cached view, staged changes, drafts, the push under way | stage, clear, swap, push, discard | views arrive before, during and after a push that succeeds in part | no staged change is lost or forgotten, a pot is shown once | `ToolsPane` |
| File page and pane (`pages/FileBrowser.tsx`, `machine-detail/FileManagerPane.tsx`) | machine, path, list, selection, what is fetched about it | navigate, select, preview, validate, upload, delete | answers in any order, effects that trigger effects, deep links | what is shown belongs to where one is | `FileBrowser`, `FileManagerPane`, together `Files`, proofs in `PagesProofs` |
| Upload dialog (`UploadConfirmationModal.tsx`) | results, number, countdown, outcome | check, send, record, close | two services, one may fail; closed while busy | what it announces is so | `UploadModal` in `Files`, proofs in `PagesProofs` |
| Dashboard and cards (`pages/Dashboard.tsx`, `MachineCard.tsx`, `CompressorCard.tsx`, `Add*Card.tsx`) | expanded asset, forms, baselines, dialogs, previews | expand, edit, save, delete, add, hover | delayed renderings, messages that refill a form, deletion of what is edited | an open form can be ended and does not hang | `Dashboard`, `MachineCard`, `CompressorCard`, together with the add cards and the previews `Fleet`, proofs in `PagesProofs` |
| Pane layout (`LayoutManager.tsx`, `CompressorLayoutManager.tsx`, `utils/layoutUtils.ts`) | layout, waiting change | load, merge, drag, hide, reset, delayed save | change waits while the card goes; old stored layouts | the last edit is sent, a pane is shown | `PaneLayout`, proofs in `ScreensProofs` |
| Sync panel (`MachineSyncPanel.tsx`) | configurations, runs, form, details | create, edit, delete, trigger, poll | answers around a change of what is edited, polling that stops | the form is of the configuration it names, runs settle | `SyncPanel`, proofs in `ScreensProofs` |
| Tablet (`pages/tablet`) | stored asset, panes, screen saver | resolve, swipe, set up | three sources of one choice | what was stored decides the next start | `Tablet`, proofs in `ScreensProofs` |
| Validation display | verdict and rows | render | three screens compute one verdict | they agree | `Validation`, proofs in `ScreensProofs` |
| Charts (`*Timeline*.tsx`, `*History*.tsx`, `*Series*.tsx`, `statusTimelineUtils.ts`) | range, rows, requests, timers | choose, poll, thin, clip | aborts, retries, chains of timers; boundaries of ranges | rows belong to the choice, reading goes on, nothing is lost in drawing | `Charts`, proofs in `ScreensProofs`; `Traces` |
| Other panes, pages and modals | one list each | load, draw | | | not modelled |

### How they interact

* The fast loop awaits `poll()` of all machines (`asyncio.gather`), then broadcasts each
  result; the tool loop does the same with `poll_tool_data()`. REST handlers call the
  same objects in between.
* A poll leaves tasks on the event loop that write the database and schedule
  notifications; these read the poller's memory when they run, not when they were made.
* `broadcast_status` completes a payload from the cache, replaces the entry, sends it.
  FTP sync and REST handlers broadcast partial payloads through the same cache.
* Every telnet call of a machine takes that machine's lock; a new connection is opened
  per batch, so commands of different clients interleave between calls.
* FTP sync runs are coroutines of the same loop; triggers, the watcher, `stop` and the
  reconciliation at start touch the same rows and the same dictionary.

### Modelling choice common to all modules

The event loop is single threaded and database calls are synchronous, so the code
between two awaits that really suspend is one action. What can come in between is a
different action: other coroutines, the machine, people, a crash. Integers are small
counters, so no overflow occurs; ages are used instead of clocks.

## 2. Modules and how they correspond to the code

**`MachinePoller`** — one poller and its tables. `StartPoll`, `ReadPrd3`, `CompletePoll`,
`FailPoll` are `poll()` cut at its network awaits, with `_finalize_poll_failure`; each
caller of `poll()` is a *slot*, since the REST program-name refresh overlaps the loop's
poll of the same object. `LogEvents` and `LogOfflineBeat` are the tasks
(`_log_events_async`, `_log_offline_heartbeat`) in the order of `create_task`; a
database failure may hit the query or the commit, and what was changed in memory or
scheduled before stays. `Restart` and `Recreate` make a new poller that seeds itself from
the table: after a restart it is alone, but a poller that a loop replaces has polls and log
tasks under way (one started by the REST refresh, say), which go on with the old object and
write the same tables. Each object is a number, `of` says which one a poll or task belongs to,
and `Collect` forgets the fields of an object nothing refers to any more. Ages replace
timestamps, so the number of polls is unbounded.

**`StatusCache`** — the cache entry of one machine. A payload is a function from keys, so
keys may be absent, as in the Python dictionaries. Fast poll, tool poll, FTP progress and
the two writers in `api/machines.py` are the writers; the poller's merge of cached tool
data is part of the poll's end. `Remember` is `broadcast_status` up to its sends: the payload
is completed and cached before anything is awaited.

**`WebSocketBroadcast`** — the send loop with its list iterator: `Send` takes the
connection at the iterator's index, `Disconnected` shortens the list under it, and `Abandon`
is a tool poll whose `wait_for` ends while its broadcast waits for a client.

**`WebSockets`** — the two together, with the dashboards. A writer's step on the cache is the
start of its broadcast (`Write`) and takes the first turn of the send loop with it; the other
turns come one by one, between them other writers cache and send, and the writer goes on when
its broadcast has ended or, for a tool poll, timed out. A dashboard that connects gets the
snapshot `connect()` builds, and merges every message it hears into its entry
(`src/frontend/src/hooks/useWebSocket.ts`), so keys it has once been sent stay.

`FtpSync`, `Pages` and `Screens` put parts that share no state beside each other; each
behaviour follows one part while the others rest.

**`SerialPort`** and **`TelnetSession`** — what the machine lock promises, and the clients
that use it. `TelnetSession` has the connection, the queue of the lock, `load_data` with
its retries and reconnections, single commands, the macro write with its read-back, a
machine that answers late or in two pieces, and cancellation at every await.
`SerialPort` is its abstract specification: `Port == INSTANCE SerialPort WITH ...` maps
queued clients to `waiting` and the client between lock and release to `serving`.

**`FtpSyncRuns`** — runs as rows with coroutines. A download trigger awaits the remote
listing between check and entry (`TriggerDownload`, then `Listed`), an upload trigger does
not (`TriggerUpload`). `Begin`, `Acquire`, `Prepare`, `Item`, `Conclude`, `Abort`, `Close` are
`_process_run`; `Scan` is one turn of the watcher for a configuration; `Stop`, `ServiceCrash`,
`Start` with `Reconcile` are the service's life. `Edit` is a save the watcher can see.

**`FtpSyncFile`** — the same service seen from one file: both copies, the recorded hash,
the registered content. What is registered is the text `Decoded` gives for the bytes
that were sent, which loses what is not UTF-8 (`errors="replace"`). `TakeUpload` is `_process_item` to the point where it transfers;
`Upload`, `Register`, `RecordUpload` follow with a failure possible at each; `Fetch` and
`Store` are the download. `SwitchDirection` is `update_sync_config`, which does not ask
whether a run is active. A content stands for its hash. It takes runs of one
configuration one after another, which `FtpSyncRuns` shows for uploads.

**`ToolBatch`** — one `apply_tool_changes_batch` against a machine's magazine. `Submit` and
`Validate` are the request's checks, `ReadMagazine` and `PreClear` the pots cleared before
assignments, `TakeChange` the next change in `_EXEC_ORDER`; `ReadPot`, `ClearPot`, `Write` and
`Verify` are the commands a change consists of, `CommandFails` any of them failing with its
effect on the machine or without. Each command takes the machine's lock by itself, so
`Operator` (the panel, another client) comes between any two. What the machine accepts as
CHGMAGM is not in the repository: `Accepts` says that the pot must be empty or hold that
tool and that no other pot holds it, which is what the pre-clearing code works for.

**`ToolsPane`** — one machine's tool table. The `handle*` actions stage changes by tool or by
pot (the two keys a change may have), `PushStart` reads the view again and sends the batch,
`BatchAnswered` splits it into confirmed and failed, `FreshArrives` reads back what was
written, and `TakeView` is the effect that takes a WebSocket view over. `BatchRejected` is a
request that fails: refused as a whole, given up while pots were being cleared, or applied
with its answer lost. The machine and its views are external: a view is sent whenever the
server has read the machine (`WsUpdate`), and a copy of the one before may still be sent after
it (`WsLate`), because a fast poll carries the tools it copied when it ended.

**`Dashboard`**, **`MachineCard`**, **`CompressorCard`** are layers of one state, the grid with
its cards (`ui`), the server and what was polled; **`Fleet`** adds the cards that add an asset
and the previews of both kinds of cards, and is the specification of all. A step is one handler with the rendering and the effects it causes;
requests are records in the state that are answered in any order or fail.

**`Files`** composes **`FileBrowser`**, **`FileManagerPane`** and **`UploadModal`**: one of them is
mounted, and they share the address, sessionStorage and the machine's files. A step is a
click or an answer with the effects that follow from it until nothing more changes
(`Render`). **`Pages`** sets it beside `Fleet`.

**`PaneLayout`** — the layout managers of both kinds of cards, with their difference in
`layoutConfigToPanes`. The grid library is external; it packs what it is given and
reports it. The header of the dashboard holds the reset handler of the manager that set it,
which nobody clears when the manager goes: a click then starts a timer of a card that is gone
(`strays`), whose save is sent all the same. **`SyncPanel`** — every operation of the panel with its requests; the server's
rows, the watcher that starts runs and the folder listing are external. **`Tablet`** — start
of the kiosk, panes, setup, screen saver and its wake lock. **`Validation`** — the checks of
`api/programs.py` and the three screens that draw them, as operators over all small cases: a
program is a list of lines in which a tool number may come twice, of which the response keeps
the last row and the errors of all.
**`Charts`** — requests and timers of six panes, by kind; **`Traces`** — what is drawn of the
rows, as operators over all short histories. **`Screens`** sets these five beside each other.
`Screen` declares `None` for them, and the filter of arrays.

`MC*` modules give the constants their model values. A definition named
`X_what` beside `X`, marked *defect*, is a plausible bug of `X`; it is used by no
specification and shows which property notices it.

## 3. The runs

| Run | Question | Result |
|---|---|---|
| `machine_poller` | Do events, runs and memory stay together under overlapping polls, log tasks, one database failure, one restart or a new poller beside the old one's tasks; is each cycle reported, and once? | holds |
| `machine_poller_live` | Is an outage recorded and a run closed? | holds |
| `machine_poller_offline` | Is the transition to offline notified? | **violated**: memory moves on before the log task compares |
| `web_sockets` | `ViewsKept`: does a dashboard that has heard the newest broadcast show the cache's program, table and magazine, whatever sends were skipped, overtaken or abandoned before, and does a known program name survive? | holds |
| `web_socket_sends` | `ServedOnce`: is each message sent at most once to a connection, and is nobody skipped unless a connection is removed meanwhile? | holds |
| `telnet` | `CallsIsolated`: do replies match commands, and is a macro's read-back its own? `CommandsOnce`: is an awaited command left alone, and a write not repeated? Does the lock implement `SerialPort`, with no client starving? | holds, as long as replies come whole |
| `ftp_sync` | One sync per machine, every run tracked and ended (`RunsTracked`, `EveryRunEnds`); are records real, is local work kept? | holds |
| `tool_batch` | `ReportIsTrue`: does a batch that reports success reach the magazine it asks for, and a clean one succeed? Is every other pot untouched? | holds |
| `pages` | Can an edit on the dashboard always be ended, do forms and previews end? Is what the file screens list and select of where one is, is every wait due, is the upload dialog honest? | holds |
| `screens` | Is the last edit of a layout sent and a pane shown; does the stored asset decide; do a program's verdict and its rows explain each other; do charts show what is chosen, keep reading, and draw whole pies and no thinned-out change? | holds |
| `sync_panel` | Is the form of the configuration it names; do runs that are over show so? | holds |
| `tools_pane` | Is a pot shown once whatever is staged, is every staged change accounted for by a push, does what is shown settle on the machine's view? | holds |

The violated property is what a comment of the repository says; `PROJECT.json` quotes it.
Every property of a passing run has a mutant of the code there that breaks it.

Modules state further invariants that hold and that no run lists, since the ones above
imply or outweigh them: the `TypeOK`s, `FlagsMatchFailures` (all proved
where section 5 says so), `TableCatchesUp` of `MachinePoller`, `ListedCopyKept` and
`DownloadsSettle` of `FtpSyncFile`. Put into the `.cfg` of their module's
run they pass.

### What else does not hold

The modules state more properties that the code breaks. Each is found by TLC when it takes
the place of the properties in the `.cfg` of the module's passing run.

| Property | Module | How the code breaks it |
|---|---|---|
| `MemoryIsNewest` | `MachinePoller` | a log task of the poller that was replaced writes its event after the new one has read the table (`services/polling.py:113`, `:242`) |
| `SnapshotAgrees` | `WebSockets` | `broadcast_status` (`services/websocket.py:190`) completes a payload from a fixed list of keys without `is_online` and `status`; FTP progress sends neither, so a dashboard that connects next shows the machine offline |
| `MagazinePreserved` | `StatusCache` (in `WebSockets`) | the prior magazine is kept only while `tools_unified` is cached (`services/_machine_poller.py:541`), which partial payloads drop |
| `FastKeepsTable` | `StatusCache` (in `WebSockets`) | a fast poll carries the tool table it copied before and takes a newer one back when it is broadcast (`services/_machine_poller.py:844`) |
| `ClientsAgree` | `WebSockets` | a dashboard that a broadcast skipped, or that it had not reached when the tool poll timed out (`services/_machine_poller.py:584`), shows the older view until the next one |
| `EveryoneServed` | `WebSocketBroadcast` | `disconnect` removes from the list `broadcast_status` iterates (`services/websocket.py:206`), so the connection after it is skipped |
| `NoOverlap` | `TelnetSession` | after a time-out the lock is released while the machine still works (`clients/_telnet_data_reads.py:86`) |
| `DataIsOwn` | `TelnetSession` | a reply that comes in two pieces leaves the second to the next command (`clients/telnet_client.py:310`) |
| `OneRunPerConfig` | `FtpSyncRuns` | a download trigger lists the remote folder between check and entry (`services/ftp_sync_service.py:126`) |
| `EditIsRead` | `FtpSyncRuns` | the snapshot is replaced before the watcher looks for an active run (`services/ftp_sync_service.py:376`) |
| `RemoteWorkKept` | `FtpSyncFile` | conflicts are looked for in the listing taken when the run began (`services/ftp_sync_service.py:563`) |
| `ConflictMeansForeign` | `FtpSyncFile` | the check compares hashes of the local file only (`services/ftp_sync_service.py:565`) |
| `CapsAreStrict` | `ToolBatch` | the list of priorities that decides how strict the state check is lacks caps (`services/tool_write_service.py:62`) |
| `ClearsWhatWasSeen` | `ToolBatch` | pre-clearing goes by the magazine as it was read, and the command does not name the tool (`services/tool_write_service.py`, `_preclear_atc_pots`) |
| `DeletionKeepsPots` | `ToolsPane` | staged deletions are keyed by pot: a second one of a pot replaces the first, whose tool is shown there again (with `MaxEdits = 4`) |
| `ConfirmedKept` | `ToolsPane` | nothing is ever entered into `recentlyPushedRef` (comment at `ToolsPane.tsx:1364`), so the last message before the push is shown again when it ends |
| `EditDuringPushKept` | `ToolsPane` | the answer drops what is staged by key, the edit made meanwhile with it |
| `OnlyTypedStaged` | `ToolsPane` | a field that has the focus while an update arrives stages its old text on blur |
| `DiscardShowsView` | `ToolsPane` | discarding reverts to the values before the edits, not to the last view |
| `OneTargetPerTool` | `ToolsPane` | a row and a pocket may claim one tool for two pots |
| `AnyEditingIsEdited` | `Fleet` | deleting the machine that is edited leaves `isAnyMachineEditing` set (`MachineCard.tsx:166`) |
| `ShownAsEdited` | `PaneLayout` | saves and loads overtake each other; a reset while loading is replaced by what is loaded; a reset of the header clicked when its card was gone is saved after what was changed since (`LayoutManager.tsx:212`) |
| `StoredOnlyByUser` | `PaneLayout` | after a failed load the grid reports the default, which is saved in edit mode |
| `EditedExists` | `SyncPanel` | deleting the edited configuration leaves the form open; its save is refused |
| `ListsAdvance` | `SyncPanel` | answers of overlapping polls are taken in any order |
| `StorageBeatsEnv` | `Tablet` | a start that opens the stored compressor stores the environment's machine, which the next start opens (comment at `TabletEntry.tsx:25`) |
| `NoLockLeft` | `Tablet` | two wake locks may be granted, only the last is released (with `MaxLocks = 2`) |
| `RejectionExplained` | `Validation` | an earlier line of a repeated tool number fails and its row is overwritten by a line that passes (`api/programs.py:381`) |
| `RejectionShown` | `Validation` | a tool that is only called and missing is not drawn as an error |
| `DetailsDraw` | `Validation` | the file details format a tolerance that may be null |
| `AxesExplainOffset` | `Validation` | the server compares with the smaller of two tolerances, the rows with one |
| `MachineShowsChosen` | `Charts` | the panes of machines take late answers of a range that was left |
| `PageLeaves` | `Charts` | the page after the last full one has no rows and no button back |
| `HistoryAdvances` | `Charts` | an interval's late answer replaces a newer one |
| `LightNeedsBoth` | `Charts` | one of the two times is enough for a green light (comment at `ui/pollingFreshness.ts:3`) |
| `PeakInRange` | `Traces` | the range beside the peak is that of the last load |
| `PieAsTrace` | `Traces` | the pie counts the time before the first event, the trace does not draw it |

Reading the code for the frontend's models showed more, for which no property was written,
since nothing in the repository promises the contrary: a success of a closed upload dialog
is shown in the next one; the list that an upload in the pane asks for replaces that of
the directory one has gone to (the exception in `PaneListMatches`); a form does not survive a message that refills it, nor Escape; the
name typed in a machine's form is never sent; a compressor's layout with only the old pane
visible shows nothing; runs the watcher starts are not seen while none is shown active.

### Bounds, and why they are enough

* `MachinePoller`: threshold 3 and a heartbeat due after one tick, so that a failure may be
  below, at and above the threshold and a beat due or not; two slots, since `poll()` keeps
  no state between callers but the fields they share; one program (names are only compared
  with the placeholder); one database failure and one restart or replacement, in every order,
  so there are two objects and each may have a poll and log tasks. Liveness uses one slot (the
  second adds no fairness) and a poll that may last over a tick. The safety theorems hold
  without these bounds.
* `WebSockets`: both loops and one coroutine of another writer, two versions of the machine's
  tools, two program names, two dashboards, two broadcasts: a stale copy needs an older and a
  newer one, a skipped or overtaken dashboard another one. `ViewsKept` is proved for any number.
* `WebSocketBroadcast`: three clients (one before, at and after the iterator), three writers,
  three broadcasts.
* `TelnetSession`: a poller under `wait_for` and a request; two attempts; four commands, so
  that a macro write with its read-back meets a load and its retry; one cancellation; one
  split reply.
* `FtpSyncRuns`: an upload and a download configuration, two requests, runs of one file,
  two runs, one stop or crash, one failed commit, one save: two runs are all a race for a
  machine or a configuration needs.
* `FtpSyncFile`: two contents (own and foreign), three edits, one change of direction, two
  faults.
* `ToolBatch`: three pots, two tools, batches of up to three changes, one failed command or
  change by an operator: a swap, a rotation through a free pot and a cap over a tool fit in,
  from every magazine.

* `ToolsPane`: two tools, two pots, two edits, one push, one change at the machine, one
  late message: a swap of two pots, an edit beside a push and a view that is older than it fit in.
* `Pages`: a machine of each kind that matters (with a form, without), a compressor, a card
  that is added, six clicks on the grid; two directories, two files, two clicks on the file
  screens with one request of a kind that may be late, two uploads. Two clicks beside the
  effects suffice for every pair of answers to meet out of order.
* `Screens`: two panes of each kind with a layout of an older version, two saves and two
  mounts (a save and the load that follows it meet); two machines and a compressor; all
  sizes from 0 to 2 around a tolerance; two requests and one change of range or page; histories of
  up to four rows in time 0 to 3, so that each row may lie before, in and at the end of the range.
* `SyncPanel`: two configurations, one run, two operations, one poll beside them.

`CHECK_DEADLOCK FALSE` is given where the bounded environment may stop: everything was
sent, or the counts are used up.

## 4. Fairness

Fairness is per action and weak wherever the event loop itself guarantees progress: a
coroutine whose await is over is resumed, a created task runs, `wait_for` ends a poll, a
lock is handed to its first waiter, `while True` loops start another pass, a service that
is down is started. Strong fairness is used only as an assumption about the outside,
and is stated so beside the formula: a machine that stays reachable answers from time to
time (`MachinePoller`). In the browser, requests are answered or fail and timers fire (`SyncPanel`, `ToolsPane`); users
need do nothing, and `ShownSettles` asks for nothing of them but to stop; a late copy of a view is never
bound to come, and a present one is (each poll of the tools sends it). People never have to do anything: edits, direction
changes, connections, failures and crashes have no fairness. `FtpSyncFile` assumes that
the configuration is triggered again and again.

## 5. What is proved

The proofs are for every value of the constants: any sets of clients, pots, panes or ranges
and any bounds, of which section 3 checks one instance each. A theorem named `XHolds`
states `Spec => []X`, or `Spec => X` for an action property.

| Module | Theorem | Statement |
|---|---|---|
| `MachinePollerProofs` | `Typing` | `Spec => []TypeOK` |
| | `OneOpenRunHolds` | a machine never has two open production runs |
| | `CycleReportedOnceHolds` | a run is reported complete at most once more than commits failed |
| | `CycleEndReportedHolds` | a step from operating to standby or stopped reports the cycle, unless the database fails or the poller is made anew in it |
| | `FlagsMatchFailuresHolds` | the online flag and the offline flag follow the failure count |
| | `MemoryMatchesTableHolds` | without database failures, the present poller's memory and the newest event agree, unless a replaced poller has written one since |
| | `OpenRunMeansOperatingHolds` | without database failures, a run the present poller opened is open while it has last seen the machine operating or off |
| `WebSocketsProofs` | `SendsTyping`, `CacheTyping` | types; the list holds every open connection once |
| | `ServedOnceHolds` | no connection gets a broadcast twice, none misses one unless the list is shortened meanwhile |
| | `ViewsKeptHolds` | a dashboard that has heard the newest broadcast shows the cache's program, table and magazine; a known program name stays |
| `TelnetSessionProofs` | `Typing` | `Spec => []TypeOK` |
| | `Isolation` | `CallsIsolated`: an answer is that to one's own command while replies come whole; nothing comes between a macro's write and its read-back |
| | `OneCommand` | `CommandsOnce`: a command is left alone until its answer; `load_data` repeats only what was lost or refused |
| | `LockImplementsPort` | `Spec => Port!SafeSpec`, the refinement of `SerialPort` without its liveness |
| `FtpSyncProofs` | `RunsTyping`, `FileTyping` | types of the runs and of the file |
| | `OneSyncHolds` | at most one run works on a machine's files |
| | `RunsTrackedHolds` | the map names the live run of an upload and blocks nobody; unfinished rows have a coroutine unless a commit failed |
| | `RecordsAreRealHolds` | only content the machine has had is recorded, and only its text registered |
| | `LocalWorkKeptHolds` | a download never replaces a local copy the machine has not had |
| | `ServiceHolds` | these four of `FtpSync`, where the run checks them |
| `ToolBatchProofs` | `Typing` | no tool is in two pots, each change is accounted for once |
| | `OthersUntouchedHolds` | a batch changes only pots it names and pots that held one of its tools |
| | `ReportIsTrueHolds` | a batch reporting success has made the magazine it asks for; a consistent one that is not disturbed succeeds |
| `ScreensProofs` | `LayoutTyping`, `ChartsTyping` | types of the layouts and of the charts' requests |
| | `LastEditSentHolds` | the last change waits in edit mode or has been sent; the header resets only the card that is there |
| | `SomePaneShownHolds` | a machine's card has a pane to show |
| | `StoredDecidesHolds` | a launch opens what was stored; the screen saver counts with the stored delay |
| | `RowsExplainVerdictHolds` | the verdict, made line by line, and the rows, one per tool number, explain each other |
| | `ShownIsChosenHolds` | a compressor's pane that has loaded shows what is chosen |
| | `ReadingGoesOnHolds` | what loads has the request that ends it; a chart has one request or its timer |
| | `FormFollowsEditHolds` | what a save overwrites is the configuration the form was filled from |
| | `PaneInvariant` | the tool table's staged changes are well formed, with one change a key |
| | `PotsShownOnceHolds` | giving a tool a pot never shows two tools in one pot |
| | `PushAccountedHolds` | each change of an answered batch is on the machine or still staged |
| | `PieWholeHolds` | the pie counts every moment of the window once, and of each status what the trace shows |
| | `ThinningKeepsHolds` | a thinned trace has every change, a thinned curve its extremes, in order |
| | `ScreensHold` | the eight properties of `Screens`, where the run checks them |
| `PagesProofs` | `ListMatchesHolds` | rows and selection of the file page are of the machine and directory it names |
| | `AnswerIsDueHolds` | a file screen that loads has asked for what ends it; one that does not shows its directory or an error |
| | `PaneListMatchesHolds` | the pane shows another list only of its directory, none, or the one an upload asked for |
| | `LinkedFileSelectedHolds` | a file the address asks for ends up selected while the user leaves the screen alone |
| | `DialogHonestHolds` | the upload dialog waits for what is under way and announces what was sent and recorded |
| | `EditReachableHolds` | the form that adds an asset is open beside no other, and the header names what is expanded |
| | `FormsNeverStickHolds` | what a form of the dashboard waits for is under way |
| | `PreviewsCloseHolds` | a compressor's preview that is shown has the pointer or its timer |

`DataLemmas` holds what several of these need: a least number, what `Append` and the removal
of an element do to a queue without repetitions and to its head, and that a loop over a list
(`FoldLeft` of the community modules) has the run of intermediate results one expects, and that
a sum over a finite set does not depend on the order of its elements.

### Assumptions

The named ASSUMEs are those of the modules, and TLC evaluates each in the run of its module.
Most say that the markers (`None`, an absent or cut file, an empty pot, a cap, the
placeholder of a program) are not data and that bounds are numbers. The others are facts of
the code or its configuration: the offline threshold is positive and a poll times out before
the next heartbeat is due (`MachinePoller`), pollers are clients and a load is tried at least
once (`TelnetSession`), the loop is a caller of both polls (`StatusCache`), pots are finitely
many positive numbers (`ToolBatch`), a case has whole numbers for sizes and offsets on
finitely many axes (`CasesAssumption` of `Validation`). `LayoutAssumption` says that panes are
finitely many, that the old pane is none of today's and its heir is one of them, and, of the
layouts stored by an older version of a machine's card, that they show a pane: one of those
kept, or the old one as long as it has no heir.

Of the file screens: configured paths are paths (`PathsAssumption`), the pane and the card are
of machines (`OpenedAssumption`, `CardsAssumption`), a directory has finitely many files
(`DiskAssumption`), and a link that names a file names its machine (`LinksAssumption`), as
every link the application builds does (`UploadConfirmationModal.tsx`, `CurrentProgramPane.tsx`).
Of the dashboard (`AssetsAssumption`): machines and compressors are told apart, what exists is
one of them, and `None` is neither an asset, a kind of asset nor a place on a card. Of the tool table
(`PaneAssumption`): bounds are numbers, 0 is a value of a field, and a pot of the magazine holds
nothing, one of the tools or a cap. Of what the charts draw (`TracesAssumption`): the statuses are
finitely many, "off" is one and `None` is none of them; what is measured is a number; lengths of
ranges are numbers, of which there is one; and at least one point is drawn.

### Arguments

*Pollers.* `OneOpenRun` and `CycleReportedOnce` are not inductive: a log task may close a run
whose notification was scheduled by an earlier task whose commit failed. `RunsInv` bounds the
reports of the open run by the failures so far and the number of open rows by one; it is
preserved because a run is opened only when the query found none. `FlagsMatchFailures` needs
to know what the queued tasks will do: `FlagsInv` relates the flag to the tasks still waiting,
and has one lemma for a task appended, one for a task taken from the front and one for an
unchanged queue, each for one object. `Known` says that every poll and task belongs to an
object that was made. `MemoryInv` says that, without a failure, the status the present poller
holds is the newest event's while that is its own (`own`), and that the run it opened is that
of a machine it has last seen operating or gone off; the log task writes the row and the
memory in one step, and one of a replaced object changes neither the memory nor the opener of
a run of the present one. `CycleEndReported` needs the types only: `EndReportedLog` goes
through the branches of the log task.

*Broadcasts.* A loop that walks a list others shorten serves everyone once because of where
connections are: what is at or behind the iterator has not got the message (`AheadInv`), and
unless the list has shrunk who is owed a turn is there (`OwedInv`). Both rest on what the
removal of a connection does to the places of the others, which is derived by counting.
`ViewsInv` says that the newest contents are the cache's, that what a dashboard has heard last
was sent, and that one that has heard the newest shows the keys `broadcast_status` completes as
the cache has them; `Completed` puts each of them into what leaves. `StepsOfParts` splits a
step of `WebSockets` into one of the cache and one of the sends.

*The machine's port.* `LockInv`: a client is in the lock's queue at most once, only while it
needs the lock, and is its head from its turn on. `PortInv` then says that from a command to
its end no other client's command came last, and `ReplyInv` that, as long as replies come
whole, what is on a client's wire or still being answered is the reply to what it awaits:
the hang-up after a cancellation empties the wire, and a client that does not read has none.
Every step is shown to be a step of one client on the lock (`LockStep`) and on the port
(`PortStep`), and what these preserve is shown once. The refinement follows: `Waiting` and
`Served` change as `SerialPort` allows.

*Runs.* `QueueInv` is the same argument for the lock of a machine: a run is queued at most
once, and is the head from its first word to the remote side to the last, so two runs that
work are one. `BooksInv` adds to `RunsTracked` that only downloads await in a trigger, that a
run that closes has its verdict, and that a service that is down has nothing.

*Files.* `RecordsAreReal` needs `SeenInv`: the copy on the machine, and the bytes a run has
uploaded or fetched, have been on the machine; so whatever a run writes to the tables has,
too, or is the text decoded from such bytes, whatever `Decoded` loses. `LocalWorkKept` follows: `Store` replaces the local copy only if that is absent or the
recorded one, and what is recorded has been on the machine.

*Batches.* `BatchInv` strengthens the type by what each command belongs to (a write never to a
deletion, so that what it writes is a tool or a cap), by waiting changes being neither done
nor failed, and by `Clears`: a pot still to be cleared is named by the batch or held one of its
tools. That the next change is one of the waiting ones needs a least element. `ReportIsTrue`
takes three more: changes are applied in the order of their rank (`InOrder`); while nobody
else writes, what is done is in the magazine and pots outside the batch keep what they had
unless it was one of its tools (`Applied`); and while nothing fails, the pots to be written
have been cleared and stay so until their turn (`Prepared`), so that the machine accepts
every command.

*File screens.* A step is an answer or a click followed by effects that see the state before and
after, so the proof is about operators: for each effect a lemma says what it may change
(`Follows` for those that only fetch about a file, `Picks` for the one that selects). `FileInv`
says of every request for a list that it is for the present path once that is known, of a path
on its way that it has been asked for, and of what is shown that it is of that path; `RenderKeeps`
shows that the effects establish it from what an answer leaves (`Ready`), and `RendersIf` that
the pane brings no list of another place. `Waiting` adds that while the path of a pane is on
its way nothing can be clicked. `LinkInv` is for a user who does nothing: nothing has been
asked for but what leads to the file, each once, and a list that has the file has it selected;
`EffectsFind` shows that a list that arrives is looked through, because its loading ends or,
found in the store, its length changes. The count of clicks tells when this applies
(`LinkedInv`). `DialogInv` says what of the dialog is under way and what was sent.

*Dashboard.* A step changes the dashboard and is followed by a rendering, which mounts and
unmounts cards, forgets the forms of those that go, and lets the effects collapse what is to
be collapsed. `Pre` says what a handler leaves: every form waits for what is under way
(`Waits`), a preview has the pointer or its timer (`Closes`), the pointer is on a row its card
has, and the header either names what is expanded or is about to. `MountCompletes` shows that
the rendering makes of it a `Good` dashboard, in which the cards are those that are shown and
the form that adds an asset is open only while nothing is expanded or edited. That is needed because the
three properties hold only of what is rendered, and a card that is mounted anew does not wait
for the answers to its predecessor. The effects and the endings of an edit take nothing that
is waited for (`Tame`), and the pointer's handlers change nothing but previews and timers
(`Hovers`), which also covers a row that vanishes under the pointer. `GridInv` is `Good` of
the present dashboard.

*Screens.* `ChartsInv` adds to the types what a request knows (`AsksKept`: one of the present
effect is for the present choice, and its answer is of what it asked for), that a loading pane
has the request that ends it (`LoadsEnd`), and that a chart has one request of its effect
exactly when its timer is not set (`OneLive`); only an answer of the present effect is taken.
`LayoutInv` says of every layout that is shown, waits, is on its way or has been served that it
holds a shown pane and not the old one (`AllKept`), and of the stored one that it still does
after the merge (`StoredLeavesSome`). `MachineInv` relates the page of the tablet to what is
stored, `SaverInv` the timer of the screen saver to the stored delay and says that only a shell
that is shown has one. `CheckInv` says that a verdict that is known is that of the case;
`RowsExplainVerdict` is then a fact about `validate_program`, shown line by line, with `MaxIs`
for the last line of a repeated number and for the largest tolerance of the axes. `EditInv` adds to `FormFollowsEdit` that
a creation is under way only while nothing is edited. `ScreensAre` splits a behaviour of
`Screens` into those of its parts.

*Tool table.* What is shown is a loop over the staged changes, and so are filtering, discarding,
reconciling and what the backend does with a batch. The library defines such a loop by
recursion over finite sets, and its theorems about it take operators as parameters. So `FoldExists`
proves that the recursive function exists, by a counterexample with the least number of
elements; `FoldRuns` turns it into a function from the number of rounds to the result so far;
and for each loop a lemma such as `MergeRuns` states its first value, its step and its end.
`CountUp` then carries a fact from round to round. What a tool is shown in follows from the
last staged change that concerns it (`MergedIs`, with `LastIn`): its pot number or deletion if
there is one, else the view. Likewise an empty pocket shows its last staged tool (`HeldIs`).
`RowOnce` and `PocketOnce` show what staging, restaging and taking back a change do to the
occupants of each pot, in the cache and in the list; there they need that keys are different
and that a restaged change keeps its place. `PaneInv` says this of what is staged and sent, and
that a push during which nothing was edited is about what is staged. For `PushAccounted`, the
items of a batch that do not contradict each other (`Fits`, from `Simple` and the different
keys) each stay in place once applied, whatever is applied later (`StaysInPlace`), deletions
first or not; `Landed` follows the two loops to the end. What was not applied keeps its key.

*Charts' traces.* `TracesInv` says that the rows of the database ascend in time, that a machine's
fetched events descend and a compressor's samples ascend, that none is of the future, and that
a machine without a status is unknown or offline. `ByTimeIs` shows that a finite set of rows with
different times has exactly one row of each rank, so that sorting loses and adds nothing. The pie
is a loop (`PieRuns`): after each event the counted time is that from the start of the window to
the event (`Counting`, with `TotalUpdate` for the sum), and each status has at least the gaps
that begin with it; time after the last event goes to the status of now, if there is one
(`SlicesWhole`). The thinning loop keeps the changes of the rows it has seen, and its last sample
has the last status (`Thinning`), because a sample is dropped only if it has the status of the
one kept last; `ChangesGrow` says that one more row adds at most one change. For the curve,
`StepsFit` bounds the positions that are taken, and `FirstIs` finds the extremes among the
points, which are put back before the rows are sorted again.

## 6. What is only model-checked

* Liveness under fairness and everything with ENABLED: `OfflineRecorded`, `RunCloses`,
  `EveryRunEnds`, `RunsSettle`, `ShownSettles`, and of `PortSpec` that nobody
  starves: the prover does not reason about ENABLED, and so not about fairness.
* `ListedCopyKept` of `FtpSyncFile`, which no run lists (section 3).

## 7. What is not modelled, and why

* `MachinePoller`: rows of extended history and PRD3 history (written by the same task,
  read by nothing here); alarms' texts; MQTT. The tool poll is in `StatusCache`.
* `StatusCache`: clean-up of deleted machines; contents of tables beyond their version.
* `Validation`: the fallback that reads the tools over a connection of its own when there is no
  polling service (`api/programs.py:353`); it fills the same table.
* `TelnetSession`: frames, checksums, argument checks, the version cache, closing all
  connections at shutdown, and the content of replies.
* `FtpSyncRuns`: file times and `debounce_seconds`, deletion of a configuration with its
  rows, a second failed commit inside the except clause; `stop()` is one step.
* `FtpSyncFile`: validation's result (it never stops an upload), the recursive listing and
  nested paths, an upload that goes on in its thread after a timeout.
* `ToolBatch`: tool offsets, types and tool life (they leave the pots alone and are
  represented by "spindle" and "color"), the upload of names at the end, range checks of
  requests.
* `ToolsPane`: columns, sorting, search, the optimizer tab, the legacy table without unified
  view, the type and group of a tool (restored with its color); results are taken in the order
  of the staged changes, while the backend sorts a batch by priority. `FileBrowser`, `FileManagerPane`: sorting, formatting, scrolling. Cards: rendering of
  values. `Tablet`: the geometry of swipes. Charts: SVG, ticks, tooltips.
* The panes and pages that draw the latest message or one list (`CurrentProgramPane`,
  `AlarmPane`, `PanelPane`, overview and mini panels, tool management, notification settings,
  summary): they keep no state that another actor changes beyond what `StatusCache`'s
  dashboards merge.
* Of the backend: the read, patch and upload of tool names, rules and cool-downs of
  notifications, compressor polling, programs and their deployments, the dictionary of
  pollers while machines are created and deleted, the ATC optimizer. Each repeats a pattern
  modelled elsewhere (an FTP transfer, a message's delivery, a pass of polls) or is a pure
  function; a hazard of theirs is not listed.
* Text formats (parsers, PRD3, ATCTL, TOLN), queries over history, audit logging, rate
  limiting, configuration and scripts: pure I/O or formatting.

## 8. What could follow

A module for the dictionary of pollers that composes `MachinePoller` and `StatusCache`; the
rules of `NotificationService` over `MachinePoller`'s messages.
