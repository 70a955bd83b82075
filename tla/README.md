# VidScan: TLA+ models, model checking and proofs

VidScan takes video uploads from anonymous browser sessions, keeps them in a
queue, runs each through a pipeline (size, MIME type, ClamAV, ffprobe) and
stores those that pass. Web threads (gunicorn, gthread), RQ workers, Redis,
PostgreSQL or SQLite, two directories on disk and the pages of the users take part.
This directory models where those meet: who may write which row and which
file when, and what is left after every interleaving, failure and crash.

Contents: 1 the system, 2 the modules, 3 model checking, 4 proofs, 5 what was
observed on the way, 6 what is not modelled, 7 what is left to do.

## 1. The system

### 1.1 Components

| component | source | state it keeps | operations | model |
|---|---|---|---|---|
| QueueManager | `services/queue.py`, `services/redis_queue.py` | rows of `queue_items`, the cached answer of `redis_available` | add, log, update_status, remove, cancel, is_cancelled, enqueue, inline processing | `QueueTable`, `VideoQueue`, `LogStream` |
| Pipeline | `services/pipeline.py` | the temp file, the final file, a row of `video` | lookup, four steps, `_fail_step`, `_store_video`, `finally` | `VideoQueue` |
| RQ worker | `worker.py` (RQ is external) | RQ's job, its retries, the scheduled retries | run a job, handle a failure, `_handle_failure` | `VideoQueue`, `RQBroker` |
| Queue endpoints | `app.py` | none of their own | process, cancel, delete one, delete all | `VideoQueue` |
| Sessions and videos | `app.py`, `models.py` | rows of `sessions` and `video`, the folder of a session | create, touch, upload, delete one video, all videos, the session | `SessionStore` |
| CleanupDaemon | `services/cleanup.py` | none | an hourly sweep over expired sessions | `SessionStore` |
| Upload gate | `services/rate_limiter.py`, `upload` in `app.py`, `uploadWithRetry` in `app.js` | a sorted set in Redis, or a list in the process | is_allowed, the item limit, retries of an upload | `UploadGate` |
| Item log stream | `queue_stream` in `app.py`, `services/sse.py` | the position of each stream | poll the row, send what is new, end | `LogStream` |
| Queue list stream | `queue_events`, `list_queue` in `app.py` | `last_state` of each generator, the thread it holds | poll the rows, send a snapshot that differs, keep alive | `QueuePage` |
| Browser queue client | `static/app.js` | event streams, timers, the list on the page | render, poll, stop, delete after the end, upload again | `QueuePage`, `LogStream`, `UploadGate` |
| Checks | `services/scan.py`, `video_analyzer.py`, `services/validation.py` | none | decide pass or fail from what a tool answered | `MediaChecks` |
| Thumbnails | `services/thumbnail.py` | a file | choose the frame, write the file | `MediaChecks`, `SessionStore` |
| Migrations and deployment | `alembic/`, `start.sh`, `start-worker.sh`, `docker-compose.yml` | the schema and its stamp | upgrade at the start of every container, restart | `Startup` |
| Application shell | `app.py` | none | `_init_db`; configuration, headers, health | `_init_db` in `Startup` |
| Downloads | `app.py` | none | read rows and files | not modelled |

How they meet. The endpoints and the pipeline share the tables and the temp
folder without any lock, each call being its own short transaction. A job goes
from `enqueue` to a worker through RQ, with the upload's id as its job id. RQ calls
`_handle_failure` after it has done its own bookkeeping. When Redis did not
answer the first probe of a process, that process runs the pipeline in the
request and keeps its own rate limits. The CleanupDaemon runs beside all of them and
shares the rows of `sessions` and the folders. The pages see the rows through two
kinds of streams that poll the table, and act on what they see. All containers
upgrade the same database when they start.

### 1.2 What is hard, and what makes each part correct

- **One item, many hands.** Nothing reserves an item: two `process` requests
  may both see "uploaded", an enqueue whose answer is lost runs the item twice,
  retries follow failures, and cancel and delete arrive at any point. Correct
  means: at most one stored video per upload; "done" only for a stored one; no
  item left in "queued" or "processing" with nobody to move it on; no temp file
  left behind an item that is settled.
- **Files against rows.** A file operation and the row that goes with it are
  never atomic. Correct means: a file that exists can be found from a row, and
  a row never outlives its session.
- **Failure and retry.** Exceptions, RQ's job timeout, killed workers and lost
  writes; `update_status` swallows every error. Correct means: a failed item is
  retried with what the retry needs, or settled; where no code handles a failure,
  nothing but that failure does damage.
- **Lists that are read and written back.** `QueueManager.log` and `cancel` replace
  a whole list. Correct means: what a stream counted as sent stays sent.
- **Limits checked apart from what they limit.** The sliding window and the
  item limit. Correct means: they are passed by a known amount at most, and nobody is
  refused for what others did not use.
- **Stale views.** A page renders snapshots, answers of fetches and local marks in any
  order. Correct means: in the end it shows the table, or what is known to hide it.
- **Starting together.** Two containers upgrade one database, with kills between
  statements. Correct means: a stamp means a schema, and everybody comes to serve.

`PROJECT.json` lists every such place with its line under `hazards`, and the
properties that speak of it.

## 2. Modules

| module | models | notes |
|---|---|---|
| `Config` | the items, `MAX_RETRIES` | constants and their assumption |
| `QueueTable` | the rows of `queue_items` and the temp files | one operator per method of QueueManager that touches them |
| `RQBroker` | RQ, as this code uses it | external: its behaviour is taken from how `queue.py` and `worker.py` call it |
| `VideoQueue` | endpoints, enqueue, pipeline, worker, failures, crashes | EXTENDS both; the core of the project |
| `UploadCustody` | what becomes of the bytes of an upload | abstract specification; `VideoQueue` implements it |
| `SessionStore` | sessions, foreign keys, folders, deletions, the sweep | the item's life is cut to what sessions see of it |
| `LogStream` | the log of an item, its streams, the page that shows them | executions as far as they log and write the status |
| `QueuePage` | the list of a session: snapshots, fetches, the page, the threads | the table is one of a few lists |
| `SchemaUpgrade` | what is seen of an upgrade of the schema | abstract specification; `Startup` implements it |
| `UploadGate` | the page's upload with its retries, rate limiter, item limit | the processing of an item is its removal at any time |
| `MediaChecks` | the decisions of the four checks and the thumbnail over what the tools answer | what `VideoQueue` has as `StepPasses`, `StepFails` and `Raise` |
| `Startup` | migrations, `_init_db`, containers and their restarts | alembic and the locks of PostgreSQL are external |
| `VideoQueueProofs`, `OwnershipProofs` | theorems about `VideoQueue` | the second extends the first |
| `SessionStoreProofs`, `LogStreamProofs`, `QueuePageProofs`, `UploadGateProofs`, `StartupProofs`, `MediaChecksProofs` | theorems about the others | |
| `MCVideoQueue`, `MCSessionStore`, `MCLogStream`, `MCQueuePage`, `MCUploadGate`, `MCMediaChecks`, `MCStartup` | instances for TLC | symmetry, owners of uploads, boundary values |

`VideoQueue` composes the table and the broker with the processes. The other modules
are views of the same system, each with the rest of it cut down to what the view can
see. What is cut down may do whatever it likes there (an item is dropped, an execution fails,
a list changes at any time), within the bounds of section 3. What a view leaves out and why
its properties do not depend on it stands in its part below, and in section 6.

### 2.1 VideoQueue

Each process (RQ worker or web thread) has a program counter. An action is the
code between one access to shared state and the next: `RemoveLookup` is
`os.path.exists` with the row read before it, `RemoveUnlink` the `os.remove`
that follows, `RemoveRow` the commit. A worker can come between any two. Where
the code would raise because the world changed (an `os.remove` of a file that is
gone, an UPDATE of a row that is gone) the action has that branch.

| state | in the code |
|---|---|
| `status[t]` | the column `queue_items.status`, "absent" before the upload, "deleted" after the row is gone |
| `temp` | the uploads whose temp file exists |
| `unhandled` | history: items hit by a failure that no code handles |
| `jobs[t]`, `scheduled`, `retriesLeft[t]` | how often the job id is in RQ's list; RQ's registry of retries; `retries_left` of the job |
| `videos[t]` | rows of `video` made from the upload |
| `pc, cur, step, exc` | position of a process, its item, its pipeline step, an exception on its way |
| `todo, batch` | the loop and the query of `delete_all_queue` |

`Raise` stands for any exception in the pipeline, RQ's job timeout included; it
may happen at every step. The bytes are the upload's name; messages, logs and
results are left out. `Offline` says whether some web process cached
`redis_available() = False`, and `MaxRetries` is the set of values of `MAX_RETRIES`
the web processes were started with.

`unhandled` collects the items of five failures: a status write that
`update_status` lost and swallowed, an exception in a web thread (which has no
failure handler), a `Retry` that RQ refuses because `MAX_RETRIES` is 1, the
end of a process that no retry follows, and an exception that the failure handler swallows
after it has written "error" (`HandlerRaises`, `worker.py` 33-38): the item is settled then,
and its temp file stays. A sixth thing in it is no failure: `session_delete` deletes the
rows of its session in any status and none of their temp files (`SessionDelete`, `app.py` 340).
`NoAbandonedItem` and `NoTempLeak` exempt the items in `unhandled` and no others, so they say
what can strand an item or leak a file: nothing but these.

What is assumed of RQ, all of it in `RQBroker`: the failure of a job is
recorded, and its retry scheduled, before the exception handlers run, after
every attempt; `Retry(max = 0)` is refused; a retry with an interval is started
by RQ's scheduler, which runs only if `WithScheduler`; two enqueues of a job id
put the id in the list twice. `CancelWorks` says whether
`Queue.cancel_job` exists in the RQ that is installed: when it does not, the
exception is swallowed by `_cancel_rq_job`. The order of the list is not modelled.

`shutil.move` goes from the temp folder to the uploads folder. On two volumes it
is a copy and an unlink, and that is what the model has; on one volume the two steps
come without anything between, which is one of the model's behaviours.

### 2.2 SessionStore

Rows of the three tables, the temp files, the folder of a session with its
videos and thumbnails. `session[c]` is "expired" when `last_active` is before
the cutoff of the sweep; any request of the session makes it "active" again.
The foreign keys are those of the initial migration. The three deletions share
the loop over the rows of their query (`LookFile`, `UnlinkFile`) and differ in
what follows, named by `mode`: only `delete_all_videos` removes the thumbnail,
only `session_delete` goes on to the bulk delete, the commit and the `rmdir`.
An item's way through the pipeline is `PipelineReaches` and the four steps of
`_store_video`. `uploads` and `temp` are two volumes (`docker-compose.yml` 60-61), so
`shutil.move` is a copy (`StoreCopy`; `copies` has the workers whose copy stands in the folder)
and an unlink of the source (`StoreUnlink`), between which a deletion may take the source, or
the sweep the folder with the copy. In the first case the unlink raises and the copy stays,
under a name that nobody knows. The same becomes of a file whose row is refused, because its
session went while it was stored, and of one whose worker is killed. `litter` has the
sessions whose folder holds such a thing; the folder's last hope is the sweep.

Requests, stores and sweeps may raise or be killed at any of their steps (`RequestRaises`,
`StoreRaises`, `SweepRaises`): nothing is committed, and what was done to the disk stays. An
upload that gets as far as its file and no further leaves it for good (`forgotten`). `NoOrphanFile`
therefore speaks of the files whose move is complete and whose store did not raise, and
`NoOrphanTemp` of those whose upload did not fail. `SweepErrors` lets the daemon's `rmtree` or
commit fail; only `v_cleanup` turns it off, whose sweep fails without any fault.

### 2.3 LogStream

One row with its status and its list of entries, the executions of the pipeline
on it and the pages that show it. `QueueManager.log` is two actions, `LogRead`
and `LogWrite`, and so is `cancel`: each appends to the list it read and writes
the whole list back, so a write in between is overwritten, which `lost`
records. `StreamPoll` is one turn of `queue_stream`: one read of the row, every entry
beyond the count it has sent, then perhaps the event that ends the stream.
`StartStream`, `End` and `RemoveItem` are `startQueueStream`, its two listeners and
the timer they start; `inbox` is an answer on its way, so a list may arrive
after its item has moved on. `ConnectionLost` is the browser's own `error`
event, which the page handles like the server's.

When the temp file is missing or a step fails is `VideoQueue`'s subject; here
either may happen to any execution, and executions begin at any time once a job or an inline
execution was (`enqueued`). An execution may raise (`Raise`), which for one of RQ's jobs ends in
the failure handler. It may also break off without any handler (`BreakOff`): an inline execution in
a web thread, or a killed worker. A commit of `log` or of `update_status` may fail and is
swallowed (`LogWrite`, `WriteStatus`); a job may be lost (`JobLost`), or refused by
`Retry(max = 0)` after "queued" was written (`ProcessRaises`). `lost` records that a write dropped an
entry, by overwriting another list or by failing; `abandoned` that a status write, a job or an
execution was lost; `MaxFailures` bounds these failures in a run. `LeftBehind` is an item that such a
failure left in an unsettled status with nobody running: its stream polls for ever, and
`StreamEnds` exempts it and nothing else.

The lines of the result, logged after "done", are left out: no property speaks of them, and
a stream may end before them (section 5). A page asks for a cancel once.

### 2.4 QueuePage

`table` is what `list_items` returns. A page has a stream from `queue_events`,
with the snapshot its generator sent last (`last`) and the snapshots on their way
(`pipe`), and fetches of `/api/queue`, each with what `loadQueue` read before it asked and
the answer it has. `StreamError` closes the stream for good, after which the page polls.
`Reload`, `UserLoads` and `Mark` are what users and the stream of an item do to the
page. `zombies` are generators whose page has gone: they hold a thread until they
write, at the latest the keep-alive. The same process serves the streams of items
(`queue_stream`), one for a page and item: `held` counts those of a page, which keep their thread
as long as the item waits or is processed, and `work` those whose page has gone, with the
executions of `_process_inline`. `Connect`, `Serve`, `OpenItem` and `RunInline` need a free thread.
`disturbed` records that something else than a snapshot was last put on the page.

### 2.5 UploadGate

A request is the k-th attempt to send a file. `TakeStamp` is `time.time()`,
`ExecutePipeline` the transaction of `ZREMRANGEBYSCORE`, `ZADD`, `ZCARD` and
`EXPIRE`, `Withdraw` the `zrem` of a refused request; each may fail. A process that is not
`Online` decides in its own memory (`AskMemory`). `CountItems` and `AddItem`
are the check of `MAX_QUEUE_ITEMS` and the insert, with the saving of the file between
them. `LoseConnection` makes the page retry while the server goes on.
Stamps are numbers of a clock that moves at any time; a request may be held up between
its stamp and the window for `MaxDelay` at most, the timeout of the socket.

### 2.6 MediaChecks

One file on its way through `validate_file_size`, `validate_mime_type`,
`scan_with_clamav`, `analyze_video` and `generate_thumbnail`. Each action takes
one answer of a tool, any it may give, and decides as the code does. `scan` and
`streams` are what the tools said; `note` is the text stored as `clamav_result`, cut
down to clean, virus or skipped. `Fit` says without the order of the checks what
a container may hold, and `StoredIsFit` and `RefusedIsUnfit` compare the code with
it from both sides. `FormatName` is external: the first name ffprobe prints
for each kind of file. Words in tags are a flag of the stream, and a
resolution or rate ffprobe leaves out is 0, as the code reads it. `ChecksAssumption` says what
the runs take a sample of and the proofs take whole: sizes are natural numbers, durations
whole ones, streams are any of `Streams`, with any codec, sides and rates.

### 2.7 Startup

Every host (two containers with a script, and a process started by hand) reads the revision
of the database and goes through `Plan`, the statements of the two migrations in
their order. On PostgreSQL they are one transaction, whose statements wait for another
transaction that made the same table and then fail; on SQLite each is
committed at once, `except: pass` passes over what is there (`swallowed` keeps the
columns whose error hid that they are missing). A script that fails ends its
container, which docker starts again; `_init_db`, which follows in the import of `app.py`, swallows its
errors. The database at first is empty, downgraded, at the first revision, or has the
tables of the versions before alembic.

`SchemaUpgrade` is what those who only use the database may rely on. The mapping of
`Startup` onto it: `schema` is what has been made or passed over (`objs` with
`swallowed`), `revision` the level of the stamp, `atomic` PostgreSQL, `admitted` the
containers that serve. Everything else (plans, locks, failures, kills) is hidden.

## 3. Model checking

| run | instance | what it shows |
|---|---|---|
| `faults` | 1 item, 1 worker, 2 web threads, `MAX_RETRIES` 1 and 2, scheduler, crashes, lost writes, ambiguous enqueues, a process without Redis (2.0 million states) | at most one video, done only when stored, nothing abandoned or leaked but by the five unhandled failures and by `session_delete`, `StatusProtocol`, and `VideoQueue` implements `UploadCustody` |
| `single_client` | 1 item, 2 workers, 1 web thread, `MAX_RETRIES` 3, a `cancel_job` that works, fair | executions of an item never overlap; a cancel takes no job an item depends on; everything is settled in the end |
| `sessions` | 1 session, 2 uploads, 2 web threads, 1 worker, the daemon, with failures of each (4.0 million) | `NoOrphanFile`, `NoOrphanTemp`, the foreign keys |
| `streams` | 2 executions, 1 page, 1 lost write, job or execution, fair (2.0 million) | a stream shows no line twice, misses one only after a write that dropped one, and ends unless its item is left behind |
| `page` | 2 pages, 1 item stream each, 4 threads, 2 lists, 2 fetches at a time, 3 events, fair (1.2 million) | what a generator compares with is what its page has; a page shows the table in the end, by polling or by its stream |
| `gate` | 1 file with 2 retries, 2 processes of which one has Redis, 2 threads, limit 1 in a window of 3, 1 item, delay 1, clock 6 (1.3 million) | windows and item limit hold, refusals are earned, a second row needs a lost answer |
| `startup` | 2 containers and 1 process by hand, PostgreSQL and SQLite, 2 faults, fair (0.1 million) | a stamp means a schema, a container serves the last revision, all come to serve; implements `SchemaUpgrade` |
| `media` | boundary values of every limit, one or two streams (1.5 million) | stored files are fit, unfit is the only reason to refuse one, only a virus blocks in the scan |
| `v_retry_file` | 1 worker, 1 web thread, scheduler | violated: the handler deletes the file the pending retry needs |
| `v_stuck` | 1 worker, 1 web thread, crashes, no scheduler | violated: an item of a killed worker stays in "processing" |
| `v_formats` | as `media` | violated: WebM and MKV are offered and never pass |
| `v_cleanup` | as `sessions`, 1 web thread, no failing sweep, fair | violated: an expired session with a row is never reaped |

The four violations are the `findings` of `PROJECT.json`, each with the line
that promises otherwise.

**Bounds.** The properties of `VideoQueue` speak of one item at a time, and items meet
only in `delete_all_queue` and by competing for workers, which the
program counters already allow to be late. Two web threads and a worker overlap any two handlers on
the item with a third party between their steps, and a web thread without Redis is
a second runner of the pipeline; `single_client` has two workers. With the retries of
`faults` a retry can follow a failure and be refused, with those of `single_client` one can
follow another. `MaxJobs` caps how often an item is enqueued again, which only a lost
write of "queued" allows. In `SessionStore` two uploads of one session let a store and an
upload run while the session's other rows are being deleted. In `LogStream` two
executions, and the cancel request of the page beside them, make three writers of one
list; pages only meet in the row. One failure is enough for each kind to meet every step;
the proofs take any number. In `QueuePage` `MaxEvents` bounds changes, losses and
what users do, together: three let a list change twice and a fetch overtake, or a stream
break between; `MaxFetches` of two is an answer that overtakes another. `MCQueuePage`
assumes a thread for every page and each of its item streams, here four; with three
`PollingCatchesUp` is false (section 5). In
`UploadGate` the window is longer than the delay and shorter than the clock, so it can
move past requests; three attempts are more than either limit. In `Startup` a fault may
follow a fault, which is what a half-done SQLite database and its half-done repair
need. `MediaChecks` takes every limit on, just inside and just outside, and
streams that differ from a fit one in one thing, since the code judges each by
itself.

Deadlock is not checked: when every item is settled and nobody asks for anything, the
system stops, and `UploadGate`'s clock and the events of `QueuePage` are bounded.

**Fairness.** `VideoQueue` asks weak fairness of each worker and web thread that
is in the middle of something and of RQ's promotion of scheduled jobs where there
is a scheduler; `SessionStore` of its processes and the daemon's hourly loop. A thread
that runs is scheduled by the operating system, and the daemon's loop ends only with
its process. In `LogStream` an item in "queued" is run as long as no failure has taken its job
or its execution (`~ abandoned`), which is what `NoAbandonedItem` says of the queue with a worker
that is up; an execution goes on, but may break off; a page and its stream go on: the server polls,
answers and timers arrive. In `QueuePage` a request that finds a free thread from some point
on gets one, generators poll and write, browsers render and poll, and executions in web threads
and item streams without a page end (the first by the time limits of its steps, the others with a
keep-alive); item streams with a page need not end. In `Startup` an upgrade that runs goes on and docker
restarts containers (`restart: unless-stopped`); nobody restarts the process started by hand.
Nothing is asked of users, and crashes and errors never have to happen or to
stop, except that bounds end them; `EventuallySettled` is checked without crashes, since a
killed worker does leave its item (`v_stuck`).

**What the properties would catch.** Every property of a passing run has a
mutant, a plausible slip in the code (a `finally` that forgets cancelled items, a copy
instead of a move, a swallowed commit, a missing guard) under which TLC finds it
violated. The mutants stand just before the definitions they change.

## 4. Proofs

TLAPS checks all of the following for every value of the constants that the
modules' assumptions allow: any number of items, workers, web threads, pages,
containers, any limits, and any combination of faults.

| module | theorem | property |
|---|---|---|
| `VideoQueueProofs` | `TypeCorrect`, `StoredAtMostOnce`, `DoneIsStored`, `ImplementsCustody` | `TypeOK`, `AtMostOneVideo`, `DoneImpliesStored`; `CustodyKept`, the refinement of `UploadCustody` |
| `OwnershipProofs` | `ProtocolKept`, `NothingAbandoned`, `NothingLeaks`, `NoOverlap` | `StatusProtocol`; `NoAbandonedItem` and `NoTempLeak` if `Accountable`; `ExclusiveExecution` if `SingleClient` |
| `SessionStoreProofs` | `StoreTypeCorrect`, `FilesAreFound`, `TempsAreFound` | `TypeOK`, `NoOrphanFile`, `NoOrphanTemp` |
| `LogStreamProofs` | `StreamTypeCorrect`, `NothingIsMissed`, `NoLineIsShownTwice` | `TypeOK`, `NothingMissed`, `NoLineTwice` |
| `QueuePageProofs` | `PageTypeCorrect`, `StreamKnowsItsPage` | `TypeOK`, `LastIsNewest` |
| `UploadGateProofs` | `GateTypeCorrect`, `ItemsBounded`, `WindowLimit`, `SecondRowWasLost`, `RefusalIsEarned` | `TypeOK`, `ItemLimit`, `AllowedPerWindow`, `SecondRowNeedsLoss`, `RefusedWhenFull` |
| `StartupProofs` | `StartupTypeCorrect`, `StampMeansSchema`, `ServedSchema`, `ImplementsSchemaUpgrade` | `TypeOK`, `StampedIsMigrated`, `ServingIsMigrated`; `SchemaUpgraded`, the refinement of `SchemaUpgrade` |
| `MediaChecksProofs` | `ChecksTypeCorrect`, `OnlyFitStored`, `OnlyUnfitRefused`, `VirusBlocks`, `SeekStaysInside` | `TypeOK`, `StoredIsFit`, `RefusedIsUnfit`, `BlockedOnlyByVirus`, `SeekInside` |

**VideoQueueProofs: the temp file is a token.** What makes storing exclusive is that
`_store_video` can only go on once it has unlinked the temp file, and nothing makes the
file again. `CustodyInv` says so: while the file exists nothing is stored and
nobody is between the unlink and the commit (`TempIsFresh`); at most one process is
between them, and then nothing is stored (`HolderIsAlone`); at most one row
(`StoredOnce`); a process about to write "done", and the status "done", come only
after the commit (`DoneAfterCommit`).

**VideoQueueProofs: the refinement.** With `CustodyInv` the places of the bytes are
exclusive, so that `CustodyOf` is a function of four facts (`PlaceOf`). An upload, a claim
and a store are then the steps of the same name of `UploadCustody`; of every other
action it is shown that it is `Confined` to the file or the holder of one item, and a confined
step leaves the custody alone or discards or drops it.

**OwnershipProofs: who is responsible.** `NoAbandonedItem` is far from inductive: that
somebody has an item does not say that they will do something about it. `OwnerInv` gives
each item that waits or runs a job, a retry the scheduler starts, or a process at a place from
which it must write the status, delete the row or hand over (`Moves`), and each settled
item with a temp file one that must clean up or hand over (`Cleans`). It needs two further
facts: nothing but a start or a deletion happens to an item that was never enqueued
(`FreshItem`), and a file goes before its row, but for `session_delete` (`GoneFile`). The failure
handler that looks for the file is bound to remove it, unless it raises (`Cleans`). A step of one process
concerns one item, and `OtherItems` does the others once for all actions.

A `cancel_job` that works takes away a job it knows nothing of, so with it nobody may rely
on a job while the item runs or a cancel is under way (`Relied`, `Spared`). That holds with
one client and without kills (`Accountable`), where a job and an execution are
never both needed: the client that pushes a job is alone with the item
from its check of "uploaded" to the push (`StartInv`). Each half of the condition is
necessary, as section 5 tells. `ExclusiveExecution` has an invariant of its own, `TokenInv`:
the job in RQ's list, the scheduled retry and the execution are one token, which an item gets
when it is started and which only changes its form. `SingleClient` (one client thread, no lost
status write, and no enqueue that raises after its push) is what keeps a second one from being
made.

**SessionStoreProofs.** The two properties are inductive together with the types, the
foreign keys, that an id is handed out once and its bytes reach the folder only by
leaving the temp folder (`OneWay`), that a process acts for the owner of its upload
(`ActsFor`), and that a deletion that has passed a file leaves none behind (`Passed`). A
store that gives up takes its file out of `files` and into `litter`: what was a file with
a worker about to write its row is then one that nobody will find.

**LogStreamProofs: every entry has one place.** `NoLineTwice` follows from `OnePlace`:
in the row, in every copy that a writer has read and in every stream, an entry of an
execution is at the same place, and what an execution has logged is not in its
`Future`. A write takes a copy and puts one entry behind it, an entry that is nowhere yet, so it
gets one place there; a lost update or a failed write drops entries and moves none. `Faithful`
says what holds while nothing was lost: streams are prefixes of the log, and one that ended
with complete has shown the entry that says so.

**QueuePageProofs.** `LastIsNewest` is inductive once a page without an open stream has
no generator and nothing on its way. The counts of fetches and of generators without a page are
natural numbers because each step that takes one away has found one (`CountMoves`), and so
are those of item streams and of executions in web threads.

**UploadGateProofs.** `ItemLimit`: a slot counts as taken from the moment its request saw
the queue below the limit (`Seats`). `AllowedPerWindow`: an allowed request whose stamp
nobody shares stays in the set, or in its process's list, until the clock is a window past
it (`Remembered`), and a request decides at most `MaxDelay` after its stamp; so the last
allowed request of a window saw all the others, and saw fewer than the limit.
`SecondRowNeedsLoss`: an attempt that was sent has only failed or lost ones before
it (`Chain`). `RefusedWhenFull`: every stamp in the set or in a list belongs to a request
that was let in, is being withdrawn or met an error (`Sources`), and distinct stamps
have distinct requests, so those that a refused request counted are as many rivals.

**StartupProofs.** A host at a place of the plan believes in the revision of that place
(`RevisionOfPlace`) and everything before that place is made, by itself, by others or
passed over (`PlanDone`). A host at the end of the plan that did not write the stamp
itself finds the database stamped with the last revision, and on SQLite no
statement waits for a commit (`OwnStamp`).

**StartupProofs: the refinement.** On SQLite every statement is a step of its own, a part or a
revision. On PostgreSQL a host's statements are nothing to the others until its commit, which
must then be the one step from the revision it read to the last: by `TransactionInv` at
most one transaction has written the stamp, the revision in the table is still the one it
began with, and whoever comes to its commit without having written the stamp has made nothing.

**MediaChecksProofs: the code against `Fit`.** `AnalysisDecides` is the heart: the
errors that `analyze_video` collects are none exactly when the streams are `Fit`,
for any set of streams; it goes through the pictures (`VideoDecides`, with the fall back
from one frame rate to the other in `RateDecides`) and the sounds (`AudioDecides`). Around it an
invariant each for the file (`FileDecided`: what has been passed on met the checks before) and
for the scan (`ScanDecided`). `SeekBounds` bounds the rounding of the thumbnail's position.

Only model-checked is liveness: `EventuallySettled`, `StreamEnds`, `PollingCatchesUp`,
`StreamCatchesUp` and `EventuallyServing` rest on fairness, which is out of this prover's reach.
Of what `TypeOK` leaves open, that a page of `QueuePage` never has more than `MaxFetches`
fetches under way is an induction over a sum, and unproved.

## 5. Observations without a run

Queue and pipeline:

- A running step overwrites "cancelled" (`pipeline.py` 67 and 146): a cancel that was
  answered with success after the last `is_cancelled` may end in "done".
- An execution that fails in a web thread has no failure handler: the request
  answers 500, the item stays in "queued" or "processing", and `queue_process`
  refuses it from then on (`queue.py` 151, 164). With `MAX_RETRIES = 1`, `Retry(max = 0)`
  raises outside the `try` block after "queued" was committed (`queue.py` 153), with
  the same result, and so does a lost write that `update_status` swallows (106). These are
  what `unhandled` collects. The stream of such an item stays open for as long as its page does.
- The failure handler swallows what `queue.get` or `os.remove` raise (`worker.py` 33-38): the item
  is in "error" by then and its temp file stays.
- With a `Queue.cancel_job` that works and an item that was enqueued twice, a cancel
  cancels the second job while the first runs and overwrites the cancel: the item is left in
  "queued" without a job. With one client the same call leaves the temp file of an item
  whose worker was killed: it takes the scheduled retry, the only one that would have
  removed the file (`queue.py` 173-179).
- `worker.py` 45 starts the worker without RQ's scheduler, so a retry with an
  interval is never started.
- `delete_all_queue` deletes rows of items in "processing", which
  `queue_remove` refuses; the worker notices only at its next `is_cancelled`.
- A web worker killed between `file.save` and `queue.add` (`app.py` 437) leaves a temp
  file that no row names, and nothing looks for such files.

Sessions:

- `shutil.move` to another volume copies first. When `delete_all_queue` removes the temp
  file before the unlink (`pipeline.py` 115), the store raises and its copy stays in
  the folder of a session that goes on, with no row; so does a moved file whose row is
  refused. Only the `rmtree` of the sweep removes them.
- `delete` and `session_delete` leave the thumbnail on the disk; only
  `delete_all_videos` removes it.
- `session_delete` deletes the `queue_items` rows without removing the temp
  files they name and leaves the thumbnails, so that its `os.rmdir` fails and
  is ignored (`app.py` 340-353), where `app.js` 168 says that every video, file
  and datum is deleted.

Upload gate:

- Two requests with the same `time.time()` are one member of the sorted set
  (`rate_limiter.py` 48): they pass together, and a refused one removes the stamp of an
  allowed one. `AllowedPerWindow` exempts windows with equal stamps.
- Without Redis every process has its own window, so the limit is multiplied by their
  number. A request that was held up shortens the window by its delay (44).
- An upload whose answer was lost is sent again and gets a second row (`app.js` 216); the
  rows have no relation to each other.
- `RateLimiter.cleanup` has no caller but a test: the lists in memory stay.

Pages:

- A page with a stream may show an old list until the next change: the answer of a fetch
  is rendered over a newer snapshot (`app.js` 464), and `queue_events` sends only what
  differs from what it sent last, also when the list went from A to B and back.
- A fetch that fails empties a page that was filled while it was under way, and the
  "Sin conexión" note stays beside items that come later (`app.js` 413-470).
- A page never opens its list stream again after an error (`app.js` 642).
- Every open page holds a thread of its process, every stream of an item another, and so does
  every execution in a web thread: with as many of them as threads no request is answered any
  more. Two pages can do that to two threads, or one page with the stream of an item.
- The lines of the result are logged after "done" (`pipeline.py` 146-167): a
  stream that polls in between ends without them, although `README.md` 32 promises
  the block in the terminal at the end.
- A lost connection ends a stream like an error, and 3 s later the page deletes
  the item (`app.js` 325-335): a network hiccup deletes an item that waits in
  "queued", and only `queue_remove`'s refusal saves one in "processing".
- Only a page whose stream was open when the item ended deletes it; an item whose
  pages were all closed by then stays in the list as "done".

Checks and thumbnails:

- `ALLOWED_VIDEO_CODECS` has `dnxhd`, which no container of `CONTAINER_CODEC_MAP`
  takes; the entries for `mp4`, `webm` and `mkv` are never looked up, since
  ffprobe's first names are `mov` and `matroska`. `MAX_DURATION_SECONDS` is never used.
- `generate_thumbnail` leaves its `.tmp` file when ffmpeg fails with an exit
  code (`thumbnail.py` 45-47); the other error paths remove it.

Start:

- On SQLite every error of `ADD COLUMN` is passed over, a locked database too, and the
  revision is stamped without its column (`swallowed`).
- Of two containers that upgrade an empty PostgreSQL at once, one fails and is restarted;
  it finds the work done.
- `_init_db` swallows its errors, so a process started without the scripts may serve an
  old schema. `ServingIsMigrated` therefore speaks of the containers only.
- A database stamped with the revision `8438c06a97d5`, which `CHANGELOG.md` 77 removed,
  cannot be upgraded: alembic does not find the revision.
- `fileConfig` in `env.py` 9-10 replaces the handlers that `LOG_FORMAT=json` has set up.

## 6. Not modelled

- Downloads: they read rows and files and change nothing. (`download_selected` writes two
  videos of the same `original_name` under one name into its archive.)
- The rest of the application shell: configuration, logging, headers, health, error pages,
  SIGTERM.
- The page's video list, dialogs and toasts: they keep no state the server depends on.
- `RateLimiter.cleanup`, which nothing calls, and the downgrades of the migrations,
  which nothing runs; a downgraded database is an initial state of `Startup`.
- The `.tmp` file of a thumbnail.
- ClamAV, ffprobe, ffmpeg and libmagic are outside; their answers are inputs of
  `MediaChecks`. RQ, Redis and alembic are modelled as the code uses them.

## 7. Plan

Done: the queue and its races, the abstract custody, the session store, the log streams, the
checks, the upload gate, the queue list and its pages, the start, and the proofs of section 4.

Left: induction over data (what the folds over streams and fetches compute for every input) and
liveness stay with TLC, as section 4 tells.
