# gdrive-bot: specifications and proofs

gdrive-bot is a Telegram bot that downloads files (from Telegram or from a link)
and uploads them to the user's Google Drive with rclone. This directory holds
TLA+ models of it, TLC configurations that check them on small instances, and
proofs checked by TLAPS. Paths and line numbers are those of the repository
(`internal/...` is `src/internal/...` in `PROJECT.json`).

## Inventory

| component | state it keeps | operations | with whom it interacts |
|---|---|---|---|
| **Upload queue** `queue/worker.go`, `queue/task.go`, `utils/retry.go` | the `jobs` channel, the `cancels` map, the worker goroutines, loop variables of `Retry` | `Enqueue`, `Cancel`, `Resume`, `runWorker`/`process` | message handlers enqueue; workers call the processor; every step writes the task document |
| **Worker pool control** `worker.go`, `ownercommands.go` | `workerCancel`, `workerWG` | `Start`, `Stop`, `Resize` | `/setworkers`, `/shutdown`, each in a goroutine of its own |
| **Job processor** `bot/processor.go`, `download/`, `upload/`, `rclone.Upload` | the local file, the attempt's result; per stage two channels and up to two goroutines; rclone's pipe | `Process`: download, limit, login check, upload, finish | MongoDB, disk, Drive, the rclone process |
| **Task documents** `database/tasks.go` | status and `retry_count` per task | `Insert`, `UpdateStatus`, `SetResult`, `IncrementRetry`, `Pending` | survive the process; `Resume` starts from them |
| **Disk cleaner** `bot/cleaner.go`, `/clean` | a directory listing and a set of active tasks per round | `run`, `Clean` | shares the download directory with the workers, reads task documents |
| **Authorization guard** `middleware/auth.go`, `cache/cache.go`, `database/users.go` | the cache of `is_authed`; the user document | `IsAuthorized`, `Invalidate`, `/auth`, `/unauth` | in front of every command and message |
| **Process lifecycle** `bot/bot.go`, `gdrive-bot.service` | – | start, resume, `/restart`, `/shutdown`, crash, restart by systemd | all |
| **Upload intake** `handlers/upload.go` | what a handler has counted | `IncomingFile`, `IncomingText`, `checkUserQueueLimit` | in front of `Enqueue`; counts the task documents; login and explorer take texts first |
| **Login and credentials** `handlers/login.go`, `auth/oauth.go`, `rclone/rclone.go` | `google_token`, `rclone_remote`, pending logins, rclone's config file | `/login`, `/logout`, refresh of tokens | MongoDB, Google, rclone |
| **Explorer** `explorer/`, `callbacks/`, `handlers/myfiles.go`, `database/state.go` | navigation state per message, awaiting flags, cached listings | open, back, page, search, rename, delete | MongoDB, cache, Drive |
| **Settings** `database/settings.go` | one document | `GetOrCreate`, `Update` | owner commands, which also resize the pool; the start of the process |
| Drive client, progress reporting, configuration, deployment | none that matters | pure I/O | – |

What is hard in this code: goroutines that interleave between a database write,
a map update and a channel operation of one call; the end of the process at any
of these points, with only MongoDB, Drive, the disk and perhaps Redis surviving;
status writes whose errors are all ignored; a bounded channel that both handlers
and `Resume` push to without blocking; pool replacement with an unprotected
cancel function and a reused WaitGroup; a cache that is filled by one goroutine
and invalidated by another; a cleaner that acts on a listing and a query made
earlier; documents that are read, changed and replaced as a whole; a login kept
in two stores that no transaction spans; a row of goroutines, channels and a
child process that wait for one another. `PROJECT.json` lists every such hazard with its line, and the
properties that would catch it going wrong or the reason why none does yet.

What makes each component correct:

* queue: no task is lost, none is worked on twice at a time, a completed one is
  on Drive, a settled one stays settled, retries are bounded, and every task
  settles in the end;
* pool control: `Stop` waits for exactly the running workers and returns, and
  `Resize` leaves one pool, of the size asked for;
* cleaner: it spares the files of running attempts and removes garbage;
* guard: its answers agree with MongoDB but for entries overtaken by a command,
  and a revocation takes effect in the end;
* explorer: the breadcrumb leads to the folder listed, the entries shown are those
  of the folder, search and page named, a prompt fires once, the message and the
  stored state agree when presses do not overlap;
* intake: a user has at most so many tasks in progress, but for counts that were
  overtaken;
* credentials: the token in MongoDB and the remote in rclone's configuration are
  for one account, a token is whole, and nobody uploads without a login;
* settings: a command changes its own field and forgets no other, and the pool is
  what the document says;
* transfer: rclone reads all that was received, and nobody writes to it meanwhile;
  an attempt leaves nothing behind, progress does not go back, the goroutines do not
  wait for one another in a circle, and a canceled task ends.

## Modules

| module | models | remarks |
|---|---|---|
| `TaskQueue` | queue, processor stages, task documents, process lifecycle | the core |
| `TaskLedger` | what the queue promises of a task | abstract specification |
| `MCTaskQueue` | – | symmetry set for TLC |
| `QueueCleaner` | the cleaner and `/clean`, composed with `TaskQueue` | EXTENDS it; a step of the queue is one of `Queue`'s |
| `UploadIntake` | how a user's messages become tasks, composed with `TaskQueue` | EXTENDS it |
| `Transfer` | one `Process` at the level of goroutines, channels and rclone | refines no other module: it looks below one step of `TaskQueue` |
| `WorkerPool` | `Start`, `Stop`, `Resize` step by step | jobs are only counted |
| `Settings` | the settings document under owner commands, restarts | EXTENDS `WorkerPool`, which it resizes |
| `AuthGuard` | the guard, its cache, `/auth`, `/unauth` | one user |
| `Credentials` | login, logout, refresh of tokens | one user |
| `Explorer` | the `/myfiles` browser | one message |
| `MCExplorer` | – | symmetry set for TLC |
| `TaskQueueProofs` | – | theorems about `TaskQueue`, also that it implements `TaskLedger` |
| `CleanerProofs`, `IntakeProofs`, `TransferProofs`, `SettingsProofs`, `AuthGuardProofs`, `CredentialsProofs`, `ExplorerProofs` | – | theorems about those modules |

### TaskQueue

A task's journey and the steps it is cut into; goroutines interleave at every
boundary, and `Crash` may come at any.

| code | actions |
|---|---|
| `Enqueue` (worker.go:91) | `EnqueueInsert` (document), `EnqueueRegister` (`cancels`), `EnqueuePush`, or `EnqueueFull` and `EnqueueReject` (status failed) |
| `Cancel` (worker.go:121) | `Cancel`, for the tasks in `Cancelable`; the code has no caller of it yet |
| `runWorker` (worker.go:158) | `Dequeue`, `WorkerExit`; both are enabled when both channels are ready, as in a Go select |
| `Retry` (retry.go:35) with its function (worker.go:184) | `BeginAttempt`, `AfterAttempt`, `Backoff`; `GiveUp` writes the final failure |
| `Process` (processor.go:39) | `MarkDownloading`, `CreateFile`, `DownloadDone`/`DownloadFailed`, `TooLarge`, `NotLoggedIn`, `MarkUploading`, `OpenFile`, `UploadDone`/`UploadFailed`, `Finish`, `Return` (the deferred removal) |
| deferred function of `process` (worker.go:176) | `Cleanup` |
| `Stop`, `Start` (worker.go:45-62) | `StopPool`, `StartPool`: one caller at a time here, concurrent ones in `WorkerPool` |
| `bot.Run` (bot.go:92-97), `Resume` | `Start` (workers start, then `Pending` is read), `ResumePush` per task, in any order since the query has no sort, `ResumeDone` |
| `/restart`, end of `/shutdown`, a crash | `Crash` |

`status` and `retryCount` are the task documents; `uploaded` and `files` are
Drive and the download directory. Every database call may fail, within
`MaxDbFaults`; a failing `Insert` may have written the document. `dropped` and
`lost` are history variables: the tasks `Resume` could not put back, and those
whose last status write failed, in this life of the process. Not in the model:
messages to the user and their failures, delays, and what `Transfer` models:
progress channels, file names, the search for the uploaded file (every path of
`finish` writes completed and returns nil).

### TaskLedger

MongoDB as a ledger that only live tasks change: "completed" is for ever, a task
leaves the live ones with its entry settled unless it is known to be stranded,
and after a restart the live tasks are those with a pending entry, or none when
they cannot be read. `TaskQueue` implements it under the mapping `Ledger`: the
ledger is the kind of status, live tasks are those with a handler, in the
channel, with a worker or with `Resume`, stranded ones are `dropped` and `lost`.

### QueueCleaner, WorkerPool, AuthGuard

`QueueCleaner` adds `ListDir`, `QueryActive`, one `CheckEntry` per file and
`Clean`; each may come between any two steps of the queue, and the cleaner dies
with the process. `/clean` may stop part-way, so it removes any subset.

`WorkerPool` has contexts as numbers. `CancelWorkers` reads the field
`workerCancel`, `StartContext` overwrites it, `Wait` sleeps on the WaitGroup,
`Exit` is the worker's deferred `Done`, which wakes all sleepers when it is the
last, and `WakeUp` panics when the WaitGroup is in use again, as Go's does; the
dispatcher recovers the panic. `overlapped` is a history variable: two commands
were on their way together.

`AuthGuard` is one user that is not the owner, whose updates are checked
concurrently (`Hit`, `Miss`, `DropExpired`, `Upsert`, `Read`, `Fill`) while the
owner's commands run (`EnsureTarget`, `SetAuthed`, `Invalidate`). Time is the
countdown of the cache entry. `redis` says which cache is configured; only Redis
survives `Crash`. `entry.overtaken` is history: the entry was filled from a read
a command has overtaken, or a command failed to invalidate it.

### UploadIntake

The tasks of `TaskQueue` are those of one user who is not the owner. A message
is counted against the limit (`CheckLimit`), answered (`ReplyFails` when that
fails) and then enqueued by the queue's own steps, which `Queue` admits only for
an admitted task; whatever comes before the limit is `TurnedAway`. A count that
fails admits, as in upload.go. `extra` is history: the tasks whose count was
overtaken by another insert or failed, and those that left the count when an
attempt failed and came back with the next one.

### Settings

A command's `Update` is `Find`, perhaps `InsertSeed`, and `Replace`, and for
`/setworkers` the call of `Resize`, whose steps are `WorkerPool`'s. `Shutdown`
is `Stop` and then the end of the process; `Restart` stands for any end and the
start of the next process, which reads the document for the size of its pool.
The limit stands for all fields but the workers. History: `asked` is the
document if every command had changed its field at once, `clobbered` says that a
command wrote over what another had written since its read, `mixed` that pool
and document may differ: commands ran beside each other, the answer to a write
was lost, or the document could not be read at the start.

### Credentials

`token` and `named` are the fields of the user document, `remote` rclone's
configuration, `pending` the pending login; an authorization code stands for the
Google account that granted it. `Message`, `PutCode` and `DropPending` are
`HandleLoginMessage` and the read, write and delete it does; `Continue`,
`Exchange`, `CreateRemote`, `SaveToken` and `DropPending` are `CompleteLogin`;
`Logout`, `RemoveRemote`, `ClearToken` are `Logout`; `Use`, then `StoreAccess` or
`UseFails`, is `DriveClientFor` with the refresher's write. Any call may fail,
any two handlers interleave, and `Crash` cuts them off. A `SaveToken` or `ClearToken`
that fails is one that had no effect: a write whose answer is lost would leave the
two stores together all the same, and `mixed` excuses them after any failure. History: `rival` are the
handlers whose login or logout ran beside another, `mixed` says that the last
thing written to the two stores failed half-way, was cut off or had a rival,
`raced` that the document was written under a use of Drive.

### Transfer

| code | actions |
|---|---|
| `Process`, `runDownload`, `runUpload`, `finish` (processor.go) and `Retry`'s loop | `Begin`, `Show`, `Downloaded`, `Refused`, `StartUpload`, `Uploaded`, `Finish` (`FinishBlind` or `FinishFound`), `Leave`, `GiveUp` |
| the download goroutine and `streamWithProgress` (link.go, telegram.go, progress.go) | `DlRequest`, `DlChunk`, `DlEof`, `DlFails`, `DlSend`, `DlClose`, `DlReturn` |
| `ToDrive` (rclone_upload.go) | `UpStart`, `UpSend`, `UpWaited`, `UpClose`, `UpReturn` |
| `Upload` (rclone.go) | `RcStart`, `Scan`, `Offer`, `Wait`, `SendLast`, `RcClose`, `RcReturn` |
| the rclone process | `RcloneWrites`, `RcloneAgain`, `RcloneCopied`, `RcloneFails` |

A chunk of the file, a line of rclone's and a report of progress carry how far
they are. A buffered channel is a sequence with its closed flag; on the
unbuffered one a send happens with the receive. rclone blocks when its pipe is
full. A line longer than the scanner's buffer ends the scan, and from then on
nobody reads the pipe; `long` records that there was one. `framed` is whether the
response said where its body ends (a length, or a chunked encoding): if it did, a
body cut short is an error of net/http; if not, it ends in io.EOF like a whole one,
at any chunk, and `streamWithProgress` takes it for a success. rclone copies whatever
the local file has (`sent = file`), and by its own retries may start over
(`RcloneAgain`), with its numbers from zero; `again` counts how often. The status
writes are `TaskQueue`'s and left out here.

### Explorer

`state` is the document of one message, `cache` its cached listings, `view` what
Telegram shows. A press or text starts a handler, which goes through the code's
steps: `Read` (`mustState`, and the change it makes to its copy, `Changed`),
`Write` (`Upsert`), then `render`: `Hit`, or `Miss`, `Fill` and `Save`, and
`Edit`. Refresh has `Invalidate` before, a confirmed deletion `Purge`; a text
goes through `Find` and `Clear` (`FindPending`), then `Apply` (rename) or on as a
search. Several handlers interleave at every step, any call may fail
(`HandlerFails`; errors the code ignores are in the step itself), and the process
may end. Buttons are those of `view`; a handler that starts late stands for a
press on a message that has changed since.

A listing of Drive has `NumPages` pages, and a page token is the page it leads
to, with its folder and search; Drive accepts any token, so the model does not
help the code to pair them. `asked` (prompts asked for and not answered),
`overlapped` and `skipped` are history. Left out: the contents of folders, so
every folder can be opened from every listing, and the download menu.

## Runs

| run | instance | shows |
|---|---|---|
| `TaskQueue_safety` | 2 tasks, 2 workers, channel of 1, 2 attempts, both tasks cancelable, 1 crash, 1 resize, 1 failing database call | the safety properties, the inductive invariant of the proofs, the refinement of `TaskLedger` |
| `TaskQueue_live` (`UploadIntake`) | 2 tasks, 1 worker, channel of 1, 2 attempts, limit 1, 1 crash, 1 failing database call | `LimitHolds`, and `EveryTaskSettles` for what the intake lets in |
| `QueueCleaner` | 2 tasks, 1 worker, 2 attempts, 1 crash, 1 `/clean` | the cleaner's properties, and that an upload whose file is taken is not recorded as completed |
| `WorkerPool` (`Settings`) | 2 callers, 3 worker slots, sizes 1 and 2, 2 commands, 1 job, 1 failing call, 1 restart | the properties of pool and settings; deadlock is off because overlapping commands can really hang (below) |
| `AuthGuard` | 2 updates, 2 commands at a time, TTL 2, 1 fault, 1 crash, either cache | the guard's properties |
| `Explorer` | 2 handlers, 1 folder below the root, 2 pages, 4 presses or texts, 1 fault, 1 crash | the explorer's properties |
| `Credentials` | 2 accounts, 2 handlers at a time, 2 logins, 6 updates, 1 fault, 1 crash, with and without a document | the properties of token and remote |
| `Transfer` | 5 chunks and lines, progress channel of 2, pipe of 1, rclone starts over once, 2 attempts, body with or without an end told, canceled at any point or never | the properties of a transfer, liveness included |
| `TaskQueue_inflight` | 1 task | finding: `InFlightIsResumed` fails |
| `QueueCleaner_fault` | 1 task, 1 failing query | finding: `CleanerSparesActive` fails |
| `Credentials_owner` | 1 login of a user without a document | finding: `CompleteLoginIsSaved` fails |
| `Transfer_finish` | 1 chunk, 1 attempt | finding: `FinishFindsUpload` fails |

Why the bounds are enough to be worth something: with two tasks and a channel of
one, a handler meets a full channel and `Resume` drops a task; with two workers
a task could be taken twice; two attempts have a first, a last and a backoff
between them; one crash has everything `Resume` starts from, at every point of
the two lives. One resize stops a pool with jobs waiting and starts another of
any size. Two commands overlap, or follow one another across a restart. Five
chunks fill the progress channel of two, the hands of `ToDrive` and of the reader,
and the pipe behind them, so every party of a transfer meets every other one that
does not take what it has; and a body can break off before each of them. Two accounts, logins and handlers are a login over an older one, with a
logout, a refresh or another login beside it, and six updates take both to their
ends. The theorems have none of these bounds. Four presses of two
handlers turn a page and come back, open a folder with another handler between
read and write, ask for two prompts, or for one and answer it twice.

### Findings

1. A failed attempt writes `failed` (processor.go:54, 82) before the next one is
   tried, so a restart in the backoff loses the task (task.go:4 says it does not).
2. When the query fails the cleaner's set of active tasks is empty
   (cleaner.go:101) and every file is removed (cleaner.go:17 says it is not).
3. The owner's login is reported as complete and not saved: `SaveGoogleToken` is
   an update without upsert (users.go:81), and the guard, which creates the
   documents of all other users, returns before that for the owner (auth.go:42).
4. `finish` looks for the upload as `FileName` (processor.go:153), but it was
   uploaded from `<id>_<name>` (processor.go:49): it is never found, and the
   worker polls for it five times (processor.go:142 says it is located).

Other disagreements between what the code does and what it says, which the
models contain and the properties are stated around:

* `Resume` drops what does not fit into the channel (worker.go:148), although
  worker.go:132 says it re-enqueues every task. The tasks stay pending
  (`dropped`).
* A check that read `is_authed` before `/unauth` fills the cache after it
  (auth.go:51-57), so a change does not always take effect on the next message
  (auth.go:60; `entry.overtaken`).
* Overlapping `/setworkers` leave two pools, one of which cannot be stopped
  (worker.go:64-69; `overlapped`).
* `Pending` is "ordered oldest first" (tasks.go:69) without a sort.
* "Limits how many tasks a non-owner can queue simultaneously" (upload.go:15):
  a burst of updates, or failed attempts that come back, pass the limit
  (`extra`).
* "Update applies a partial update" (settings.go:40), but the document is read
  and replaced as a whole (`clobbered`).
* `Logout` ignores the error of `RemoveRemote` and says that all is removed
  (login.go:129); after a login cut off between the two stores it says "not
  logged in" and leaves the remote (`mixed`).
* `Token` reports every access token it hands out as refreshed (oauth.go:109),
  so the write of users.go:95 follows each use of Drive; one that comes after
  `/logout` makes a token again, with which the user counts as logged in to the
  explorer but not for uploads (`raced`).
* "Nothing here requires a restart" (models/settings.go:5), but the queue's size
  and the number of retries are read at the start only.
* `Cancel` of a rename prompt (filemenu.go:82) does not take the prompt back.
* `Cancel` is "used ... internally on /shutdown" (worker.go:119), but nothing calls
  it.
* The end of the body is the end of the file for `streamWithProgress`
  (telegram.go:107), which never compares `done` with `total`: a response that says
  no length and breaks off is uploaded, and recorded as completed, with a part of the
  file (`framed`).
* The last report of an upload shows an empty bar (rclone.go:162).

### Fairness

* `TaskQueue`: weak fairness of each worker (the Go scheduler runs a goroutine
  that can run; and of its peers, which the code does not see to, that each
  download, upload and call of Drive ends one way or the other: `Transfer` says
  what becomes of a task otherwise), of a handler that began, of `Resume`'s loop, and of the start of a
  stopped pool or process (`Resize` goes on to `Start`; gdrive-bot.service has
  `Restart=always`). Users need not submit anything, nobody needs to cancel,
  nothing needs to crash. `UploadIntake` adds none: a message need not go on to
  the queue.
* `QueueCleaner`: the process is started and `Resume` finishes, the ticker fires
  again, a round goes on. No fairness of the workers is needed.
* `WorkerPool`: callers that began and workers go on; jobs end.
* `AuthGuard`: checks and commands that began go on, and time passes.
* `Settings`: as `WorkerPool`; a command that waits for MongoDB is not needed to
  go on.
* `Transfer`: a goroutine that can go on does, and calls of MongoDB and of Telegram's
  bot API return. Not assumed is that the source, rclone or Drive answers: there is no
  timeout in link.go:27, in drive/client.go:27 or in the refresh of a token
  (oauth.go:120), and the task's context has no deadline. That a done context ends a
  request, a call of Drive and rclone is assumed, because all of them take it. So
  `EndsUnlessPeerHangs` has the three peers as its exceptions, and `CancelEnds` none.
  As nothing calls `Cancel`, a worker whose peer hangs is held until the process ends.
* `Explorer` and `Credentials` have safety properties only.

### Mutants

Every property of a passing run has a mutant: a small plausible bug put into one
definition (`PROJECT.json`, "mutants"; in the modules each stands before the
definition it replaces, after `\* mutant:`) with which TLC finds the property
violated.

## Proofs

Every theorem holds for all values of the constants that satisfy the named
assumptions of the modules: all sets of tasks, workers, handlers and codes, all
capacities, sizes and bounds. Assumptions beyond the types of the constants are
that workers are finitely many (in `WorkerPool`; they are counted), that one
user's messages are (in `UploadIntake`), that "none" is neither a code, a token, a
document nor the argument of a command, and that the folders of `Explorer` are
none of its buttons, since both name what a handler was started with.

| module | theorem | says |
|---|---|---|
| `TaskQueueProofs` | `TypeCorrect` | `Spec => []TypeOK` |
| | `SingleOwnerCorrect` | `Spec => []SingleOwner` |
| | `CompletedIsUploaded` | `Spec => []CompletedImpliesUploaded` |
| | `NoTaskIsLost` | `Spec => []NoLostTask` |
| | `QueueInvariant` | `Spec => []QueueInv` |
| | `SettledStays` | `Spec => SettledIsFinal` |
| | `QueueImplementsLedger` | `Spec => ImplementsLedger`, that is `Ledger!LedgerSpec` |
| | `CancelFindsJobs` | `Spec => []CancelReachesJobs` |
| | `NoFileIsLeaked` | `Spec => []NoDiskLeak` |
| | `RetriesStayBounded` | `Spec => []RetriesBounded` |
| `CleanerProofs` | `CompletedThoughCleaned` | `CleanerSpec => []CompletedImpliesUploaded` |
| | `CleanerSpares` | `CleanerSpec /\ [](faults = 0) => CleanerSparesActive` |
| `IntakeProofs` | `LimitIsKept` | `IntakeSpec => []LimitHolds` |
| `SettingsProofs` | `WaitGroupIsRight` | `SettingsFairSpec => []WaitGroupCounts` |
| | `OnePoolAtATime` | `SettingsFairSpec => []OnePool` |
| | `NoUpdateIsLost` | `SettingsFairSpec => []UpdatesKept` |
| | `PoolIsAsStored` | `SettingsFairSpec => []PoolMatchesSettings` |
| | `SettingsTyped` | `SettingsFairSpec => []SettingsTypeOK` |
| `AuthGuardProofs` | `GuardTyped` | `Spec => []TypeOK` |
| | `CacheIsFresh` | `Spec => []OnlyOvertakenIsStale` |
| `CredentialsProofs` | `CredentialsTyped` | `Spec => []TypeOK` |
| | `TokenStaysWhole` | `Spec => []TokenIsWhole` |
| | `UploadsNeedALogin` | `Spec => []NoUploadOnLeftovers` |
| | `StoresAgree` | `Spec => []TokenAndRemoteAgree` |
| `TransferProofs` | `TransferTyped` | `Spec => []TypeOK` |
| | `RcloneReadsAllReceived` | `Spec => []UploadReadsAllReceived` |
| | `NothingIsLeftBehind` | `Spec => []NobodyLeftBehind` |
| | `ProgressInOrder` | `Spec => ShownInOrder` |
| `ExplorerProofs` | `ExplorerTypeCorrect` | `Spec => []TypeOK` |
| | `BackNeverFails` | `Spec => []CrumbsLeadToFolder` |
| | `PageIsTheOneNamed` | `Spec => []PageShownIsListed` |
| | `ButtonsActOnWhatIsSeen` | `Spec => []ViewFollowsState` |
| | `PromptFiresForItsAnswer` | `Spec => PromptFiresOnce` |
| | `RefreshShowsNext` | `Spec => RefreshOffersNext` |

The arguments; none of these properties is inductive alone.

**Queue.** `TypeOK` needs `WorkerInv` (a worker holds a job exactly while it is
busy, and backs off only before its last attempt, else `attempt` would leave its
range) and `DownInv` (a process that is down holds nothing). `SingleOwner` needs
`NewInv`: a task that is owned has a document, so a handler that begins has a
task nobody owns, and `DownInv`, so that `Resume` starts with nobody owning
anything. `CompletedImpliesUploaded` needs `StageInv` (a worker about to call
`finish` has its job on Drive) and, because a second owner could write over the
first's status, `SingleOwner`; `CompletedInv` strengthens it with who may still
hold a completed task, which is what `SettledIsFinal` rests on too. `NoLostTask`
needs `StageInv`: a worker that lets go of its job has written a terminal status
or lost the write. `QueueInv` is the conjunction; it is checked by
`TaskQueue_safety` and proved in the layers typing, ownership, stages, no loss,
each with one lemma per group of actions.

**Ledger.** Step simulation under the mapping, one lemma per group of actions:
a worker's write of a terminal status maps to a change of the ledger's entry, its
`Cleanup` to the ledger letting go of a settled task, `Crash` and the reading of
`Pending` to the ledger's restart, and most steps to stutters. It rests on
`QueueInv` (a task leaves its last owner only settled or stranded) and on
`DownClean`: nothing is known to be stranded when the process is down.

**Bounds.** `CancelReachesJobs` is strengthened by what a handler between
registering and pushing has in the map; `NoDiskLeak` by which worker the file
belongs to in each stage; `RetriesBounded` by the attempt in progress: a task's
count is at most that of the earlier lives plus the retries its worker has
begun, and that of a task not yet taken in this life at most that of the earlier
ones (`Untried`).

**Cleaner.** The cleaner, `/clean` and the failing query change only `files`,
`faults` and their own variables, of which typing, `OwnerInv` and `DoneInv` need
little; so those hold beside them and `CompletedImpliesUploaded` follows. That a
first attempt is spared rests on `SpareInv`. The files there are, and so those
listed, are of tasks an attempt of which has begun (`Tried`). A task whose first
attempt of this life is to come or goes on (`Ahead`) is pending, because the
attempt ends where its last status is written. So what a query finds inactive among
the listed files is not `Ahead`, and no step but a restart, with which the cleaner
ends, puts a tried task there again. A failing write breaks the second fact, a
failing query the third, so the theorem has `[](faults = 0)` as its hypothesis, and
`QueueCleaner_fault` shows that it is needed.

**Intake.** `LimitInv` adds that, as long as an admitted message is not `extra`,
fewer than `Limit` tasks are counted; every insert either is that message's or
makes it `extra`. The facts about the queue come from `TaskQueueProofs`, because
a step of the intake is a step of the queue, or leaves it alone but for a fault.

**Pool and settings.** `WaitGroupCounts` needs the types of the pool (a command
spawns no more workers than there are slots) and finite cardinalities. `OnePool`
needs where the one command is: past `Wait` no worker runs (`StartAfterWait`),
and what it spawns is under the context it set. `PoolMatchesSettings` is about
the ends of commands; `Matching` says it in between: the one command writes from a
fresh copy, resizes to the number it wrote, finds the pool empty when it begins to
spawn, and has spawned as many as there are. `SettingsTypeOK` bounds the contexts by
the calls: those made and those that calls under way are yet to make are at most
one more than the calls (`PoolBounds`).

**Guard.** `CarriedIsFresh`: a check that carries an answer no command has
overtaken carries the stored one. Then a fill makes no stale entry that is not
marked.

**Credentials.** `UseInv`: unless raced, a use of Drive holds a token of the
stored account. `StoresInv`: a login or logout without a rival is the only one,
has put its own account into rclone when it is about to save and none when it is
about to clear; nobody else makes the two stores differ.

**Transfer.** `Nested`: a goroutine runs only in its stage, the inner one only
while the outer one receives, rclone only under the inner one, and an error is in
its channel only after its sender has ended. `ReceivedFile`: from the end of the
download on, until the file is removed, success is reported only while the last
report is of all that the file has, which is all there is where the response said so
(`Complete`). `Order` follows a report from its source (the file, rclone's counter)
through the pipe, the three goroutines' hands and the channel to the message: none is
before one that is further on, until rclone starts over (`AgainStep`: only its next
start takes that back).

**Explorer.** Nothing bounds the page of a stored document but that each press
turns one: `PageInv` counts the handlers that are yet to turn to the next page
with the page of every document held or stored. `CrumbInv` says of each document a
handler holds what `CrumbsLeadToFolder` says of the stored one, because any of them
may be written over it. `ListInv` follows a page of Drive's from the token it was
asked for with through a handler's hands, the cache and the message: until a page
was turned to without a token, every stored token is for the page it is stored
under and there is one for each page up to the one shown. The other three are about
handlers one after the other (`Sole`): `FollowInv` says what the document, the
handler's copy and the message have to do with each other at each of its steps,
`PromptInv` that a flag, also in a copy about to be written, stands for a prompt
that was asked for, and `RefreshInv` that what Refresh renders was not in the cache
and that the token of the page it fetched comes to the document. The proof of
`RefreshShowsNext` showed that a token that outlives a page without one makes
Refresh offer Next on the last page, which needs three pages; so the property has
`~skipped`, which an instance with two pages does not miss.

Only model-checked: all liveness (`EveryTaskSettles`, `GarbageIsRemoved`,
`RevocationTakesEffect`, `CallsReturn`, `EndsUnlessPeerHangs`, `CancelEnds`;
fairness and ENABLED are out of TLAPS' reach here). Every invariant and every other
property of the passing runs is a theorem.

## Plan

Done in this order: queue, ledger, cleaner, pool, guard, proofs about the queue,
explorer; credentials, settings with the pool, intake, transfer; the refinement
proof, the queue's bounds, and the proofs about settings, guard, credentials,
transfer, intake, cleaner and explorer. What is left:

1. `Transfer` under `TaskQueue`'s worker: that a call of `Process` implements the
   steps from `MarkDownloading` to `Return`.
2. `Explorer`: the contents of folders against the cache.

## Not modelled

* The contents of folders: so the listing fetched before a rename and cached
  after its invalidation (explorer.go:271) is in the hazards without a property.
* The arithmetic of the upload limit in bytes (processor.go:65), one expression
  with a value only the owner chooses.
* The Drive client, which keeps no state: an outside service to the models.
* Wording and formatting of messages, whose failures the code ignores;
  `progress/editor.go` has no caller.
* Configuration, wiring, polling (`bot.go` drops updates that came while the
  process was down) and deployment files; `DownloadLimitMB` is stored and never
  read.
* Users beside one another: documents, remotes and the guard's entries are per
  user, and the models have one.
