# Zee-Mirror in TLA+

A verification project for Zee-Mirror, the Go server behind a Telegram bot that downloads
links (aria2, qBittorrent, yt-dlp, Google Drive, …), unpacks or packs what it got, and
uploads it to rclone remotes, Telegram or file hosts. The modules here are translations of
the Go code under `src/`; `PROJECT.json` maps every definition to its lines.

- [The system](#the-system): components, state, operations, hard behaviour, correctness
- [The plan](#the-plan)
- [The modules](#the-modules): what is modelled, checked and proved in each
- [Running](#running), [limits](#what-is-only-checked-what-is-neither)

## The system

One process. A Telegram poller hands commands and callbacks to handlers, each in a
goroutine of its own; an HTTP/WebSocket server does the same for the web dashboard. Both
call one `TaskManager`. PostgreSQL keeps what must survive. Files lie in one directory per
task.

```
 Telegram ──> handlers ──┐                         ┌─> DB: tasks, task_checkpoints, users,
 HTTP/WS ───> api ───────┤                         │       scheduled_tasks, …
 scheduler ──────────────┼─> TaskManager ──────────┤
 recovery (boot,/recover)┘     │  Tasks, Batches,  └─> files
                               │  sessions (maps under tm.Mu)
                               ├─> PriorityQueue + QueueSignal ─> workers ─> processTask
                               │        ^                          │  engine, 7z, rclone
                               │        └── retry goroutine <──────┘
                               ├─> processBatchTask ─> one goroutine per item
                               └─> BroadcastChan ─> Hub ─> WebSocket clients
```

| component | state | operations | hard behaviour | correct means |
|---|---|---|---|---|
| Task queue and worker pool (`queue/priority_queue.go`, `service/task_manager.go`) | heap, `QueueSignal` (1000 tokens), `Semaphore`, `ActiveCount`, `Wg`, `ShutdownChan` | `CreateTask`, `Enqueue`, `worker`, retry goroutine, `Shutdown` | entry and token are two steps on either side; token dropped on a full channel; shutdown against a worker between queue and `Wg.Add` | tokens and entries match, one holder per task, queued tasks start, shutdown ends |
| Task run (`service/task_processor.go`, `download.go`, `archive.go`, `clone.go`, `upload.go`) | `task.Status`, `RetryCount`, `URL`, the run's place | every step of `processTask`, `retryTask` | cancel or shutdown at every point, tools killed through the context, backoff in a goroutine | attempts bounded, cancelled runs end, accepted tasks come to a result |
| Persistence, recovery, checkpoints (`SaveToDB`, `service/recovery.go`, `recovery/checkpoint.go`, `database/*.go`) | rows `tasks`, `task_checkpoints` | snapshot and upsert, load at start, `/recover`, periodic checkpoint | crash between any two steps; late writes; a second object for a live id | finished stays finished, rows settle, no two live objects |
| Cancel and shutdown (`CancelTask`, `Task.Cancel`, `HandleCancelAll`, `BotService.Shutdown`) | contexts, `tm.Tasks` | remove from map, mark, cancel context, save | each a step of its own; crosses runs and retries | cancel is sticky, orphans are cancelled |
| Batches (`service/batch_manager.go`) | batch status, counters, semaphore of 3, directory | `processBatchTask`, per-item goroutine, `Cancel`, `CancelSubTask`, clean-up | items end in any order, cancel between items, four clean-up paths | counters agree, files outlive work, one outcome, a cancelled batch ends |
| Admission (`validateTaskConstraints`, `queue/ratelimit.go`, `CheckQuota`) | task map, limiters, usage counters | check, then insert | check and insert are two critical sections; several ways in skip checks; a restart refills limiters | a duplicate or an excess only by commands that overlap |
| Users and roles (`database/users.go`, `auth_service.go`, `handlers/admin/auth.go`, `api/users.go`) | one row per user | `SyncUser`, set role/limit/expiry, remove | read, then write back the whole row, before every update is handled | an admin's change is not undone by a message of the user |
| Scheduler (`service/scheduler.go`, `database/scheduled.go`) | table `scheduled_tasks` | poll, create task, mark done | crash or failed write in between; refused tasks | one task at a time per entry, and in the end it is done |
| Torrent and yt-dlp sessions (`torrent_menu.go`, `torrent_metadata.go`, …) | session maps | metadata fetch, start from the web, one-hour timer, terminal clean-up; the menu callbacks have no button that calls them | session ids taken for task ids; two starts at once; a fetch that finds nothing | one start per session, the page never waits for ever |
| Dashboard messages (`service/dashboard.go`) | current status message per chat | refresh, send anew, edit, delete | two mutexes guard the same maps; requests fail; the message id is kept in memory and in the settings | one live message per chat, showing the last state |
| WebSocket hub (`api/websocket.go`) | clients, their channels | `Run`, register/unregister, two pumps per client, `Broadcast` | slow clients dropped by the hub while their pumps end | no double close, no send after close, no goroutine left |
| Engines (`plugins/*`, `userbot/userbot.go`) | aria2's downloads, tools' processes, Telegram clients | start, follow, remove; `DownloadFile` | a magnet link's metadata is a download of its own; answers are lost; cancels cross the daemon's steps | no download runs that nobody follows |
| Uploaders and the report (`uploader/rclone.go`, `service/upload.go`, `viking.go`, `task_status.go`) | remotes, parts, `RemotePath`, `RemoteURL`, `ResultMessageID` | copy, fall back, link, send, report | a remote fails halfway and the next is tried; progress callbacks report beside the run | "completed" means delivered; one result message |
| HTTP API, command handlers, router | – | parse and call the above | – | – |
| Organizer, media, statistics, texts, configuration, front end, deployment | – | formatting, files, start-up | – | – |

`PROJECT.json` lists the same components with their sources and status, and under
`hazards` every place in the code where these behaviours bite.

## The plan

| | module | what | abstract promise or composition | theorems |
|---|---|---|---|---|
| 1 | `WorkQueue` | queue, signal channel, pool, retry, shutdown | composes producers, heap, channel, workers; implements `TaskPool` | types, accounting, single holder, free slot, no forgotten wake-up, the refinement |
| 2 | `TaskLifecycle` | one id through runs, retries, cancel, crash and restart | composes worker, canceller, recovery, checkpoint goroutine, database rows | types, one live object, cancel sticky, attempts, settled row, row and object agree |
| 3 | `TaskContract` | what a user of one task is promised | implemented by `TaskLifecycle` | the refinement |
| 4 | `Batch` | a batch and its items | implements `BatchContract` | types, counters, files outlive work, completed is complete, outcome final, the refinement |
| 5 | `Hub` | the WebSocket hub and its connections | – | types, no panic, no update skipped, leavers forgotten, backlog bounded |
| 6 | `Access` | users' rows, `SyncUser`, orders | commands, web page, boot | types, decisions survive |
| 7 | `Admission` | quota, duplicates, limiter, scheduler | commands and scheduler over one `CreateTask` | types, duplicates, entries, quota |
| 8 | `Dashboard` | one status message per chat, under two mutexes | – | types, one dashboard |
| 9 | `Sessions`, `Engines`, `Delivery` over `TaskState` | the torrent session, what the engines do, what the uploaders and the report do | composed by `Transfer` | types, one start, strays, delivered, one report |

What is left: the heap as `container/heap` keeps it (a function on sequences that would
refine the set with "take a maximum" of `WorkQueue`), several tasks at one aria2 daemon,
and the age of rows.

Every module declares its parameters as constants with a named assumption, has one action
per operation, and no RECURSIVE operator, so that it can be proved about. Next to some
definitions stand variants with a plausible mistake (`RetryUnbounded`, `WgDoneSkipped`, …);
no specification uses them. They are there to be put in the place of the real definition:
each property is known to fail for one of them.

## The modules

### WorkQueue

State: the heap as the set of tasks with an entry (a task object has at most one: theorem
`SingleOwner`), the tokens in `QueueSignal`, what producers still owe it, and per worker the
line it stands at. Correspondence:

| action | code |
|---|---|
| `CreateTask`, `Enqueue`, `PostSignal` | `CreateTask`, `CreatePlaylistSubTask`, loading at start: insert into `tm.Tasks`, `Queue.Enqueue`, non-blocking send |
| `TakeSignal` … `CountDown`, `WorkerStop` | the lines of `worker`, one step for each operation on shared state |
| `BackoffElapsed`, `BackoffAborted` | the goroutine of `retryTask`; its `select` takes any ready case |
| `EngineFails`, `Retry` | `executeDownloadEngine` asks `IsShuttingDown` and then calls `retryTask`: two steps, so a retry can still begin after the close |
| `ProcessReturn` | `ProcessTaskFunc` returns with the task over, then `Wg.Done` |
| `CancelTask` | the user's cancel as far as the queue sees it: the context ends, an entry stays in the heap |
| `ShutdownCancel`, `ShutdownClose`, `ShutdownWaitReturns` | `BotService.Shutdown` |

What a run does to its task is left to `TaskLifecycle`; a run here ends, asks for a retry,
or never comes back. The order among equal priorities is left open: `Less` compares
`Priority` and nothing else (`priority_queue.go:40-42`), and a heap does not keep the order
of arrival. `FirstOut` is what the heap owes.

*Run `work_queue`* (2 tasks, 2 workers, one token of capacity, 1 retry; deadlock checked):
with capacity 1 two producers overflow the channel, with two workers a third token-holder
or a worker late for the shutdown occurs, and a retry makes a task a producer again. The
interesting interleavings involve two of each kind. Properties:
`SignalAccounting`, `OneHolder`, `KeepsPool`, and under fairness `QueuedTaskStarts`,
`ShutdownEnds`. `QueuedTaskStarts` assumes no dropped token: with 1000 tokens in flight the
code drops one and posts none in its place, so an entry can be left behind until other
traffic picks it up. It also assumes that runs keep coming back. In the code new tasks of
higher priority may overtake an old one for ever; here the tasks are finitely many, so the
property speaks of lost wake-ups and not of starvation by priority.

`KeepsPool` is the refinement. `TaskPool` is what the manager promises of many tasks: each
is in one place, at most `MaxConcurrentDownloads` run, the most urgent of those that wait is
next, a failed one comes back a bounded number of times and as the least urgent, and one
that is owed another run is given up only if its user cancelled it, the shutdown did, or the
shutdown has closed the manager. `PlaceOf` maps the
state to it: a submitted task with an entry waits, one without is running. So what `worker`
does between `DequeueNonBlocking` and `ProcessTaskFunc`, the tokens, the semaphore and the
counters are all stutters of the pool; a second entry, a lost one, or one taken out of turn
is not. It was also checked once with 3 tasks and no retry (2.6 million states).

*Fairness*: each worker's own lines, producers between enqueue and send, timers, and a
shutdown that has begun. `ProcessReturn` has none: nothing obliges a tool to answer.

*Proved* (`WorkQueueProofs`, for every finite set of tasks and workers and every capacity):
`TypeCorrect`, `TokensMatchEntries`, `SingleOwner`, `WakeupFindsEntry`, `SlotAvailable`,
`NoWakeupForgotten`, `TokensDropOnlyInACrowd`, `PoolIsKept`.
The types alone are not inductive: that `sem`, `active` and `wg` never go below zero holds
because each equals the number of workers inside its bracket of program points. So the
invariant says which workers are in which segment, `sem = |InPC(admitted … done)|` and so
on, adds the token equation of `SignalAccounting`, and ties `held` to `pc`, `phase` and
`heap`. From `sem = |…|` follows `SlotIsFree`: a worker that is still "holding" is not
among those counted, so at least one slot is free. (`SlotIsFree` is only proved: a run
would say the same of two workers.) The token equation gives two more results that no run
states: a token is dropped only while more than `SignalCap` entries wait, so the 1000 slots
are enough for any 1000 tasks however they come, and apart from dropped tokens no entry is
ever without a wake-up on its way. `PoolIsKept`, the refinement, needs one part more,
`Attended`: a submitted task without an entry is in some worker's hand. `OneHolder` then makes the running tasks at most as
many as the other workers when one dequeues, which is the pool's bound, and the token
equation rules out that a woken worker finds nothing.

### TaskLifecycle

One task id. `Objs` are the objects a process may make for it; a restart or `/recover`
makes a new one. `at` is where the goroutine that owns the object stands. `SaveToDB` is two
steps (snapshot under the lock: `SetStatus`/`saveW`; write: `SaveCommit`), for the run and
for the canceller separately, so their writes may cross. `Upsert` keeps the columns that
the `ON CONFLICT` clause does not name.

| action | code |
|---|---|
| `CreateTask`, `Pick` | `CreateTask`; `processTask` up to the engine choice |
| `ResolveFile` … `CloneFails` | `processTask`, `executeDownloadEngine`, `HandleLocalFileDownload`, `cloneWithRclone` |
| `Retry`, `GiveUp`, `RetryFires`, `RetryAborted` | `executeDownloadEngine`, `retryTask` |
| `PostSkipped` … `UploadFails`, `Cleanup` | `HandlePostDownload`, archive, upload, `cleanupTask` |
| `CheckpointTick` | `StartPeriodicCheckpoint` |
| `CancelTask`, `CancelMark`, `CancelCommit` | `CancelTask`, `Task.Cancel` and its save |
| `RecoverRead`, `RecoverInsert`, `Forget` | `RecoverIncompleteTasks`, `cleanupTerminalTasks` |
| `ShutdownCancel` … `Crash`, `Boot` | `Shutdown`, a killed process, `NewTaskManager` |

What tools answer is a choice; which kind of link a task has is chosen at creation (file
ids that must be resolved, local files, what aria2, mega or rclone fetch, what yt-dlp
fetches, Telegram messages, Drive folders cloned from remote to remote), because the paths
through `processTask` differ. yt-dlp's engine calls the progress callback, which saves, from
goroutines that parse the tool's output and are not joined when the engine returns; they are
actors of their own (`ParserProgress`, `ParserCommit`, `ParserEnds`). The other engines
call it from the run's own goroutine (`EngineProgress`). Sizes, progress and the
age of rows are left out.

*Run `task_lifecycle`* (1 object per process, 1 retry, 1 stop, all kinds of links): there
is a run, a retry of it, and a crash or shutdown at any point of either, after which the
recovered run goes through the same. `AttemptsBounded`, `SettledRow`, `KeepsContract`,
`CancelledRunEnds`, `TaskSettles`. The run has one stop;
all its properties but `KeepsContract` were also checked with a second, for every link but
yt-dlp's, which quadruples the states. The proofs cover any number of stops. `overtaken` records that the
yt-dlp parser wrote a snapshot the object had moved on from; only then may a row be left
unsettled, an attempt come back or a finished task be reopened. Without that exception
those properties fail.

`KeepsContract` is the refinement: with `stored` taken from the row and `attempts`,
`restarts`, `asked`, `late` from the histories, every step of `TaskLifecycle` is a step of
`TaskContract` or none. The contract says that a task is stored before it is tried, that it
is tried at most once for each retry and each restart and once more, that it ends once, and
that nothing but the user's cancel or a late report changes how it ended.

*Run `task_incarnations`* (2 objects in one process, no stop; symmetric, safety only):
`/recover` may make the second object while the first still runs or is being cancelled.
`OrphansAreCancelled`, `CancelSticky`.

*Run `lifecycle_cancel_wins`* refutes "Cancel wins": the retry goroutine sets `queued`
without looking at the status and may do so although the context is done.

*Fairness* (`Fairness` in the module): the process's own steps; the canceller; a shutdown
that has begun; and an answer of a tool only under a cancelled context, where the code
kills it. Strong fairness there, because the engines' loops select between `ctx.Done` and a
ticker whose callback saves, and Go's `select` is fair only in that sense. Uploads to
Telegram and Viking and the userbot's downloads ignore the context and are owed nothing
(`Deaf`). Resolving a file id has time limits of its own. `TaskSettles` states as its
premise that tools answer and that the process stays up from some time on.

*Proved* (`TaskLifecycleProofs`, for any set of objects, any retry limit, any number of
stops): `TypeCorrect`, `OneLiveObject`, `CancelledStays`. The invariant beside the types
has three parts: `Incarnated` (an object nobody made is empty, and outside a living process
there is none), `CancelledContext` (a cancelled status comes with a cancelled context, but
for a row loaded at start) and `EndedRun` (where the owning goroutine has ended there is no
retry to come). Without them the prover meets states in which an object outside `tm.Tasks`
wakes from a backoff with a live context.

*Proved* (`TaskLifecycleProofs` too, from those): `AttemptsStayBounded`, `RowSettles` and
`ContractIsKept`, the refinement. The contract speaks of the row, the run changes the object
first, so the invariant has to say how far the two are apart. While no late report of the
parser and no cancel interfere there is one object and one run (`OneObject`); the row has its
status once a save is behind it (`RowTells`), and its retry count lags by one at most, and
not at all while an engine runs (`RowCounts`). So a crash costs one attempt at most, which
is the contract's bound. `RowAndObjectAgree` reads the same invariant at the moment of a stop:
while the process lives, and as `Shutdown` leaves it, an open row has an object that is not
over (or is about to write its result) and an object that is not over has an open row (or
its first save is still to come). That is the part of the README's auto-recovery that holds;
a run that `Shutdown` itself makes fail is over on both sides. `Written` is what remains under cancels: no run goes beyond its first
save unless there is a row.

### Batch

| action | code |
|---|---|
| `Start` … `Announce` | `processBatchTask`, `zipBatchResults`, `uploadBatchResults`, `cleanupBatch` |
| `ItemBegins` … `ItemLeaves` | the goroutine per item |
| `Cancel`, `CancelMark` | `BatchTask.Cancel`: context first, then the status |
| `CancelSubTask` | `BatchManager.CancelSubTask` |

*Run `batch`* (4 items, 2 slots, zip or not): items wait for a slot, finish in any order,
and two are still waiting when a cancel finds the others running. `CountersMatch`,
`CompletedMeansAllIn`, `NoCleanupUnderWork`, `KeepsContract`, `CancelEnds`. The system
stops when all goroutines have returned, so deadlock is not checked; `CancelEnds` covers the
one place where the loop could hang.

`KeepsContract` is the refinement. `BatchContract` is what the user of `/batch` may count on:
items are taken up in order and at most `MaxParallel` at a time, none that was not chosen
before the cancel, each is counted once; there is one verdict, the first that is recorded,
and it is deserved - completed when all are in, cancelled when that was asked for, failed
when there was nowhere to put the items or the archive of those that came could not be
made; and the files go after the verdict and after the last item. Goroutines, semaphore,
`wg.Wait` and the statuses in between are stutters of it.

*Fairness*: goroutines are scheduled; tools are owed to return only under a cancelled
context, which the batch's `exec.CommandContext` calls take care of.

*Proved* (`BatchProofs`, any number of items, any capacity): `TypeCorrect`,
`CountersAgree`, `FilesOutliveWork`, `CompletedIsComplete`, `OutcomeStays` (`OutcomeIsFinal`, which
the contract implies), `ContractIsKept`. The invariant: `Accounts` (the
semaphore counts the running items, the counters the finished ones), `Started` (exactly the
items below `next` have a goroutine) and `AfterJoin` (past `wg.Wait` no item runs, and the
directory is removed only there). `CountersAgree` adds `Tallied`: no counter is behind the
items that say so, and a counted item has its outcome. The refinement adds `Standing` (a
cancelled status comes with a cancelled context, the directory is there from the loop on)
and gets the contract's guards by counting: what is begun runs or is counted, so the tokens
bound the items under way (`TokensBound`), and an item still before its count keeps the
counters below the loop's index (`CountLagsBehind`).

### Hub

| action | code |
|---|---|
| `Register`, `Unregister`, `SendTo` | `handleWebsocket` with `Run`'s three cases; a broadcast visits one client per step |
| `Broadcast` | `broadcastLoop`, `Hub.Broadcast` |
| `ReadFails`, `ReaderCloses` | `readPump` and its deferred calls |
| `WriterTake` … `FlushFails`, `Ping`, `PingFails`, `WriterSeesClosed`, `WriterCloses` | `writePump`: first update, the rest of the channel, `w.Close`, the ticker, the closed channel, the deferred close |
| `DeadlinePasses`, `PeerTurns` | ten seconds after a ping; the browser |

An update is its number. `written` is what was put into the connection, not what the page
made of it. The library (`gorilla/websocket`) is taken to apply the write deadline last set
to every write, to let `NextWriter` fail once it has answered a close frame, and to fail
reads and writes of a closed connection. A peer may fall silent and come back, or leave.
Reconnecting gives a new `Client`, so an object registers once.

*Run `hub`* (1 connection, channel of 2, 5 updates): three updates fill writer and channel,
the fourth overflows it, and one more follows the drop, while the reader leaves at any
point, so that the two ways to close a channel meet. All five properties. Connections meet
only in the hub, which looks at one after the other; what several of them add to safety is
covered by the proofs, which hold for any set of connections.

*Fairness*: the hub's and the pumps' own steps; strong fairness for `Unregister`, since `Run`
selects among ready cases and Go chooses among them at random; reads fail, as they have a
deadline. A write to a silent peer is owed nothing: `FlushEnds` leaves it blocked until the
reader has closed the connection. Pings are owed nothing either.

*Proved* (`HubProofs`, any set of connections, any capacity, any number of updates):
`TypeCorrect`, `NeverPanics`, `NothingSkipped`, `HubForgetsLeavers`, `SlowClientsAreCutOff`. `Bookkeeping` says that the clients in the
hub's set have open channels and that a connection nobody has made has no state; it makes
the types inductive, since an update in a channel must have a number. `InOrder` cuts a
client's stream into written, in writing and waiting, lets each part begin where the one
before ends, and fixes the end of the last: `sent`, or `sent - 1` for a client the current
broadcast has not reached. `Kept` follows the message being written, which holds at most a
drained channel and the update it began with; with the order of the stream this bounds how
far a client can fall behind before it is cut off: two channels and two updates, one of them
the broadcast under way. TLC finds a state where it is exactly that. `Kept` also ties the hub's
set to the channels: a connection's channel is open exactly while it is in the set, and a
reader that is done has left it, so whoever is dropped is told.

### Access

The table `users`, reduced per row to role, where the limits come from, the date of expiry
(none, ahead, passed) and whether there is a key.

| action | code |
|---|---|
| `Admit` | `processUpdates`: `/start` passes everybody, the rest needs `IsAuthorized` |
| `SyncRead`, `SyncReadFails`, `SyncWrite` | `SyncUser`, a read and an upsert; a failed read is taken for "no row" |
| `Serve`, `CheckRank`, `Obey` | the handlers: other commands, `IsOwner`/`IsAdmin`, the order's one statement |
| `WebRequest`, `WebStatement` | the user page: one request, several statements, no transaction |
| `TimePasses`, `Reboot` | a date passes; `NewBotService` writes the configured users' rows |

`Effect` is what each SQL statement does to a row, with the `CASE` of the upsert.
`decided` is what the last order left in the row; `overtaken` are the users whose row was
written from a reading that an order had overtaken or that had failed.

*Run `access`* (owner and one user, 2 handlers, 1 order, 1 failed read, 1 restart): one
message synchronises the row while another handler's, or the page's, order goes through, and
a second message follows. `DecisionsSurvive` says that limits, the role `authorized` and
access withdrawn outlast everybody's messages unless the row is `overtaken`. The role `admin`,
dates and keys are not in it:
`SyncUser` erases role and date at the next message, with no race at all
([below](#what-the-code-does-that-its-documents-do-not-say)). *Run `access_admins`* refutes
`AdminsStay`: the role `admin` does not outlast the administrator's own next message, which
`SyncUser` precedes (`bot_service.go:350-358`).

*Proved* (`AccessProofs`, any users, goroutines, orders, failed reads, restarts):
`TypeCorrect`, `DecisionsStand`. Beside the types the invariant needs `Addressed`: a goroutine
that is busy knows whose update it handles, and one that obeys has an order. The rest is an
argument about writers. Every write of a row makes the decision itself, keeps the fields it
is about (`Effect`, statement by statement), or has its user in `overtaken`, since its
reading was older.

### Admission

A task is created by a goroutine that looks at the quota (`CheckQuota`), scans `tm.Tasks`
for its link (`Scan`), asks the database (`Lookup`), takes a token of the limiter and
inserts the task (`Insert`), saves and queues it (`Save`); each is a step, because each takes
its lock or runs its statement by itself. Who starts where is in `Mirror`, `Leech`,
`FileReply`, `Viking`, `Clone`, `Ytdlp`, `Playlist`, `DashboardAdd`, `BatchUrls`,
`MirrorButton` and `Schedule`/`Poll`/`Execute`. What becomes of tasks is `Finish`, `Cancel`,
`Resolve` (a file id replaced by its path, which changes the link), `Ignore` (a type
without an engine) and `Reboot`. Of the quota only the daily count has figures: an unlimited
user has one he never reaches, and whoever is not the owner may be refused at any time, for
the bandwidth of the day or as inactive. A count that fails lets the command through
(`auth_service.go:118-121`, `stats.go:105`); such a command is one that does not look
(`QuotaUnread`). `origin` keeps how a task came in and which tasks of its
link were there when it was looked for.

*Run `admission`* (1 user of each rank, 2 handlers, 3 commands, limit 1, burst 2, one crash
or cancel): two commands race, the third meets what they left. `DuplicatesOverlap`: two
tasks of one link under way were looked for before either was there, or one is a playlist's,
or its link was rewritten. `QuotaHolds`: what reads the quota exceeds it by at most one
task per further goroutine. *Run `scheduler`* (1 entry, 1 handler, 1 command with the same
link, 2 mishaps): `EntryRunsOnceAtATime` holds although a crash or a failed write between
`CreateTask` and `MarkScheduledDone` has the entry executed again, because the duplicate
check meets the first task; `EntrySettles` says that an entry is done in the end unless its
link was completed or belongs to a task nobody runs.

*Fairness*: the scheduler's and the handlers' own steps, an end for every task a worker can
have, a limiter that refills. Commands, mishaps and cancels are owed nothing.

*Proved* (`AdmissionProofs`, any users, goroutines, entries, limits): `TypeCorrect`,
`NoDuplicateMissed`, `EntriesNeverDouble`, `QuotaKept`. `Fit` ties together what is known of
a task in four places: the goroutine that makes it, the map, the table, `origin`. From it
follow three arguments. What a scan passed over although it had been asked for with the same
link has been renamed (`LinksFit`). While the scheduler is past its scan no entry's task is
active, because entries ask for one link and nobody else makes such a task (`EntriesApart`).
Tasks that count, with the goroutines that have passed the look at the quota, are fewer than
the limit and the goroutines together (`ChargesBounded`): whoever passes has seen fewer than
the limit, and the others carry one each.

### Dashboard

| action | code |
|---|---|
| `Call`, `TryCall`, `Tick` | `UpdateSharedDashboard`, its non-blocking form, the two-second ticker |
| `LockStatus` … `Throttle` | `UpdateSharedDashboardNonBlocking` under `StatusMu` |
| `LockSend` … `Store` | `sendStatusMessage` under its own mutex; requests may fail |
| `SweepLooks`, `Sweep` | `cleanupTerminalTasks` in its two critical sections |
| `MediaButton`, `UserDeletes`, `Crash` | the button under a media file, a user of the chat, the process |

The text of a dashboard is the number of changes it shows. `lost` are messages the bot let
go of through a failed request (one that was posted and whose answer was lost, too), a sweep,
the media button or a crash. The clean-up looks for a chat's tasks only, so it also takes the
entry of a chat whose only work is a batch (`batched`).

*Run `dashboard`* (2 goroutines and the ticker, 2 changes, 2 calls, 1 failing request, 1
mishap): a forced update and an ordinary one overlap, and one clears what the other sends.
`OneDashboard`: whatever the order, a live message that nobody tracks is in `lost`.
`DashboardSettles`: once nothing changes, the dashboard, in the map or in the settings, comes
to show the last state or is gone. What the ticker goes by is the entry in the map, so there is
one way for the message to stay behind, `LeftBehind`: it has no entry, because the clean-up
or a crash has taken it and nobody has asked for an update since, or because a request to
delete it failed before its id came into the settings.
*Fairness*: the ticker, the clock, goroutines that have begun.

*Proved* (`DashboardProofs`, any goroutines, changes, failures and mishaps): `TypeCorrect`,
`OneLiveDashboard`. `sendMsgMu` makes the lines from the look at `LastStatusMsg` to its update
those of one goroutine (`OneSender`), and `Placed` says at each of them where a live message
can be that is not lost: at `fetch` it is the stored one, at `text` the one taken over, at
`post` there is none, at `record` and `store` the one just sent. A post that fails leaves
nothing, or a message that is lost at once. The dangerous steps are those
of others in between, which take no `sendMsgMu`: clearing, the sweep, the media button. A
message taken over for editing must be the tracked one or out of reach by the time it is
edited, or an edit would bring a forgotten message back.

### Transfer: Sessions, Engines, Delivery

`TaskState` is what an engine and an uploader see of a task. `Sessions` is the torrent
session, `Engines` the aria2 client with its daemon, the tools and the userbot, `Delivery`
the uploaders and `updateTaskStatus`. `Transfer` extends all three and adds `processTask` and
`HandlePostDownload`, which start the one when the other is over, a retry, cancels, and a
restart; an action of a part leaves the other parts' variables unchanged.

| module | actions | code |
|---|---|---|
| `Sessions` | `FetchBegins` … `UpdateSessionError` | `FetchTorrentMetadataBackground` and what it calls |
| | `TakeSession`, `StartCreates`, `StartRefused` | `handleTorrentStart`, `StartTorrentWithSelectedFiles` |
| | `Expire`, `Sweep` | the timer of an hour, `cleanupTerminalTasks` |
| `Engines` | `AddJob` … `RemoveLost` | `Aria2Engine.Download` and the RPC client: ten-second limit, `followedBy`, `forceRemove` |
| | `JobRuns`, `MetadataDone`, `JobEnds`, `DaemonDies` | the daemon, external, as the client uses it |
| | `ProbeDrive` … `ToolKilled` | yt-dlp, ffmpeg, Mega, rclone for Drive |
| | `UserbotStart` … `ClientDies` | `UserBot.Start`, `DownloadFile`, the client's goroutine |
| `Delivery` | `CopySucceeds`, `CopyFails`, `GenerateRcloneLink`, `UploadToDest2` | `RcloneUploader.Upload` and `uploadToDest` |
| | `VikingInit` … `VikingComplete`, `TelegramSend` … | `UploadToViking`, `UploadToTelegram` |
| | `UpdateTaskStatus` … `EditFails` | `updateTaskStatus`, `sendVideoWithThumbnail`, `sendFinalMessage` |
| `Transfer` | `Pick` … `CleanupTask` | `processTask`, `executeDownloadEngine`, `retryTask`, `HandlePostDownload` |

Reports about a task that is not over only redraw the dashboard and are left out. Reports
about one that is over come from the run (`Tell`, and `RunReports` where the run redraws a
task that was cancelled meanwhile), from a callback the uploader waits for (`joined`) and
from the goroutine that reads rclone's or yt-dlp's output, which nobody waits for (`reader`).

*Run `transfer`* (seven routes, each kind of source and of target among them; 2 requests, 2
ids at the daemon of which 1 runs, 2 clients, 2 remotes, 2 parts, 1 retry, 1 fault, 1 slip):
a slip is an edit that fails or a message Telegram delivers and whose answer is lost; two ids are a magnet link's metadata and its torrent, or a download whose answer was
lost and its retry; two remotes are one that fails halfway and the one that takes over; what
an engine leaves behind matters to no target, so not every pair of source and target is
needed. `StraysExplained`: a download of the daemon that no run follows is the torrent of a
magnet link cancelled between two looks, or there was a fault. `DeliveredMeansThere`: a
completed task's remote and link are those of a remote that has the file (or had one of its
name and size: `--size-only`), all parts are at Viking that its answer gave a URL for, the
file is in the chat.
`OneReport`: the chat gets one result message and one more for each that arrived and whose
answer was lost (`unheard`); any other needs two reports that overlap, an edit that failed, a
restart, or a file sent after a report. `TransferSettles`: the torrent page gets an answer,
and a cancelled run ends unless it hangs in the userbot's stream or in a file sent to
Telegram.

*Fairness*: the fetch, which has a limit of five minutes; the run's own steps and calls with
a time limit; tools only under a cancelled context, which kills them; reports somebody waits
for. It is strong where the run's own reports may come between again and again.

*Proved* (`TransferProofs`, any requests, ids, clients, remotes and parts, any number of
retries, faults and slips): `TypeCorrect`, `SessionStartsOnce`, `StraysAccountedFor`,
`CompletedIsDelivered`, `OneResultMessage`. None of the last three looks inductive at the start, because each speaks of the
past of several actors; what carries them is where the actors can stand at all. The parts of
the invariant, each about one component:

- `SessionFits`: at most one request has taken the session out of the map, and what it
  created is counted. `PhaseFits` ties the components together: while a session can become a
  task there is none, so no engine and no uploader runs under it, and a result is only there
  from the report on.
- `AriaFits`: without a fault, what the daemon still has to do is `Followed`, the id the
  engine polls and the one that follows it. That a finished metadata download and nothing
  else has a follower, and that an unused id follows nobody, keeps this when the daemon
  hands over between two looks.
- `UploadFits`: at each step of the uploader the target is its own, the remote it copied to
  last is the one named, and the parts up to here are sent. It makes "ok" mean delivered, and
  a remote that was good stays so, since only the run copies.
- `ReportsFit`: until two reports overlap or an edit fails, at most one reporter is about to
  send, and nobody is once the bot knows that the chat has the result or the file
  (`Announced`); until then every result in the chat is one whose answer was lost.

Before it was proved the invariant was checked by TLC with the run's constants and with
larger ones (3 requests, 3 ids, 2 faults, 2 failed edits: 6.7 million states; before lost
answers were added). With them the run was also checked with one failed edit and one lost
answer at once (980 thousand states).

## Statements the code does not keep

Two are runs: `lifecycle_cancel_wins` and `access_admins`. Four more are defined in the
modules, and a configuration with the constants of the module's run and the statement as its
only property shows the counterexample:

| statement | where it is made | why the code breaks it |
|---|---|---|
| `WorkQueue!AllTasksStopped` | `bot_service.go:163` "All tasks stopped." | `Wg.Add` comes after the dequeue and the semaphore (`task_manager.go:689-704`), so `Wg.Wait` may return while a worker is on its way to start a task, and the database is closed under it |
| `TaskLifecycle!InterruptedIsRecoverable` | `README.md:86` "auto-recovery for interrupted tasks after restart" | a graceful shutdown during unpacking or upload kills the tool, whose error is recorded as a failure (`task_processor.go:194, 203, 239`), which no start takes up again |
| `Batch!CancelTerminatesSubTasks` | `batch_manager.go:688` "Cancel terminates the batch and its sub-tasks" | items that have no goroutine yet stay queued, in their rows too (`batch_manager.go:265-270`), and the next start downloads them |
| `Hub!ConnectionPersists` | `README.md:719` "maintains a persistent WebSocket connection" | the write deadline of a ping is never renewed (`websocket.go:165-169`): the first update more than ten seconds after the first ping breaks the connection, and the page reconnects every minute |

## What the code does that its documents do not say

Beside the two findings of `PROJECT.json` and the four statements above, read off while
modelling. About files, downloads and uploads:

- `README.md:521` calls `/batch` sequential; up to three items run in parallel.
- `README.md:574-576` says checkpoints are preserved; a graceful shutdown sends an
  interrupted download through `cleanupTask`, which deletes checkpoint and partial files. A
  crash keeps both.
- `README.md:75, 519`: aria2 puts a torrent of several files into a directory, and
  `findDownloadedFile` skips directories (`task_processor.go:315`), so such a download ends
  as failed with "Downloaded file not found". So do folders cloned through the local disk.
- `rclone copy` runs with `--size-only` (`rclone.go:154`): a file of the same name and size
  at the remote counts as delivered. An upload to the second destination that fails is only
  logged.
- A crash between the last save of a task and its report leaves the user without a result.
  Telegram refuses an edit to an identical text, so a second report posts a new message.
- A result, or a file, that reached the chat and whose answer was lost counts as not sent
  (`task_status.go:54-66, 137-144`, `upload.go:83-87`): a second message follows, after a
  file one that says the task failed.
- Viking's answer names a number of parts and a list of URLs, which nobody compares
  (`viking.go:124, 133`): a part without a URL is never sent and the upload is completed
  without it; with more URLs than parts the process ends with an index out of range.
- A run of yt-dlp that leaves an error text and no file ends without a result
  (`task_processor.go:183`).
- A daemon of aria2 that dies is not started again, and one that outlives a killed bot keeps
  downloading.
- `cleanup.go:44` looks up directories by task id only; the directory of a batch that runs
  for more than a day is removed under it.
- `GetPlaylistMetadata` never passes the URL to yt-dlp (`ytdlp.go:157-173`).
- Starting a torrent from the page answers success although `CreateTask` may refuse the
  task, when the session is gone already.

About tasks:

- The checkpoint goroutine of a finished task ends only with the task's context, which
  nobody cancels on completion, and keeps writing the row that was deleted.
- `README.md:377` speaks of retries for a task; only download errors are retried, an upload
  is not.
- `/recover` looks for ids in `tm.Tasks` only: running items of a batch are not there, and
  are taken up a second time.
- A cancelled or shut-down userbot download goes on to its end (`telegram.go:39` drops the
  context), and `Shutdown` waits for it.
- A late write of yt-dlp's parser (`ytdlp.go:230-243`) can leave a finished task as
  `downloading` in its row; the next start downloads it again.
- A playlist's parent task is never queued and never finished: its row stays
  `downloading`, is loaded at every start, and keeps its URL a duplicate for
  `validateTaskConstraints`; cancelling it cancels the contexts of its items but marks none.
- `handlers/download/mirror.go` sets `Dest` and `Dest2` after `CreateTask` has queued and
  saved the task, without the lock.
- Without active tasks an update carries `tasks: null`, which the page ignores
  (`App.tsx:193`): the last finished task stays on it until it is reloaded. Updates that
  share a message are not JSON and are dropped.
- A batch cancelled after the last look at its context (`batch_manager.go:366`) is cancelled
  and still announced as done.
- The clean-up takes the entry of a dashboard from every chat without tasks, although the
  dashboard is live as long as any chat has some, or the chat has a batch
  (`task_manager.go:288-320`): the ticker goes by the entries, so the message is not updated
  until the next command or change of a task.
- Rows with status `expired` are not terminal for `GetActive`: they are loaded and run
  again at every start.

About users and limits:

- `README.md:373` promises that a URL in progress is not downloaded again: two commands at
  once both pass, a task's quality is not restored at start so that it no longer equals its
  repetition, a file id is replaced by a path once resolved, and a torrent's selection is part
  of its URL.
- `/schedule`, the media button, batches, the wizard and the page (whose tasks belong to user
  0) never ask for the quota; items of a playlist pass neither the limiter nor the duplicate
  check.
- `CheckQuota` takes a count that fails for consent (`auth_service.go:118-121`).
- The limiter announces 5 tasks a minute and allows ten at once (`task_manager.go:133, 396`).
  What it stores is the full burst, and what it loads is dropped (`ratelimit.go:60-74, 104`):
  a restart refills everybody.
- The day of the quota is the server's local day (`stats.go:74`).
- `README.md:662, 671`: an expiration set by the owner is erased by the user's next message,
  because `SyncUser` writes the row without it; `/start`, which needs no permission, lets an
  expired user back in.
- `README.md:331`: of several bots only the first is polled, because `startPolling` does not
  return before the shutdown (`main.go:158-160`). A SIGHUP replaces the configuration of the
  task manager alone (`main.go:84-89`).

## What is only checked, what is neither

Liveness (`QueuedTaskStarts`, `ShutdownEnds`, `CancelledRunEnds`, `TaskSettles`,
`CancelEnds`, `NothingLingers`, `UpdatesArrive`, `EntrySettles`, `DashboardSettles`,
`TransferSettles`) stays with TLC: the prover has no ENABLED and so no fairness. Every
invariant, action property and refinement the passing runs check is also a theorem.
Induction over data and RECURSIVE operators are out of the prover's reach too, which is why
no module uses the latter.

Not modelled: the components whose status in `PROJECT.json` says so, each with the reason;
progress figures, sizes, speeds, texts, messages and keyboards; the age of rows; the order
of equal priorities. The database is assumed to execute each statement atomically and
not to fail; a failed save is logged by the code and nothing more.

## Running

```
tlc -workers 2 -config MCWorkQueue.cfg MCWorkQueue
tlc -workers 2 -config MCTaskLifecycle.cfg MCTaskLifecycle   # also MCTaskIncarnations.cfg, LifecycleCancelWins.cfg
tlc -workers 2 -config MCBatch.cfg MCBatch
tlc -workers 2 -config MCHub.cfg MCHub
tlc -workers 2 -config MCAccess.cfg MCAccess                 # also AccessAdmins.cfg
tlc -workers 2 -config MCAdmission.cfg MCAdmission           # also MCScheduler.cfg
tlc -workers 2 -config MCDashboard.cfg MCDashboard
tlc -workers 2 -config MCTransfer.cfg MCTransfer
tlapm WorkQueueProofs.tla      # TaskLifecycleProofs, BatchProofs, HubProofs, AccessProofs,
                               # AdmissionProofs, DashboardProofs, TransferProofs
```

The runs take from a few seconds to about four minutes, the proofs of a module about two.
`LifecycleCancelWins.cfg` and `AccessAdmins.cfg` end with the counterexample they are named
for.
