# FetchShelf: a TLA+ model of the collection server

FetchShelf collects works of Douyin and TikTok accounts. Its Web UI server
(`src/src/application/main_server.py`, class `APIServer`) runs collection tasks in
the background, on behalf of several *collector identities* (a cookie and a
proxy each) that must not be driven harder than they allow, while users pause,
resume, cancel, retry and schedule those tasks and the process is stopped,
killed and started again. This directory holds TLA+ modules of that core, the
TLC configurations that check them on small instances, and proofs that the TLA+
proof system checks for every instance.

Everything in the server runs on one asyncio event loop. Code between two
`await`s is atomic, and every `await` is a place where another coroutine, a
route or a cancellation may come in: that is the grain of every module here.

## 1. Inventory

| Component | State it keeps | Operations | Talks to |
|---|---|---|---|
| Identity leases (`collector/lease.py`) | a slot per key: semaphore, limit, `active`, `waiting` | configure, remove, acquire, release, snapshot | every collector operation, identity and policy routes, login browser |
| Task queue and workers (`main_server.py` 550-1074) | `ui_tasks`, `ui_task_queue`, per task: status, runner, pause event, active units | create, execute, pause control, retry with new clients, stop, restore | task routes, journal, endpoints, schedules |
| Task routes (`server_routes.py` 1907-2246, 2178 retry-failed) | none of their own | create, pause, resume, cancel, retry, retry-failed | tasks, queue, journal |
| Task journal (`webui/task_journal.py`) | SQLite rows of tasks, accounts, activity | save, save activity, load, recover_interrupted, account progress | workers, batch, restart |
| Account batch (`main_server.py` 5290-6255) | progress counters, results per account and identity | plan routes, run groups in chunks, cross-identity retry, totals | leases, journal, pause control, routing |
| Collector operation (`main_server.py` 4816-5288) | identity health, cooldown, `active_leases` in the store | choose identity, take identity and platform lease, run, record health | leases, store, routing, login browser |
| Routing (`collector/routing.py`) | assignments, policy | choose an identity per target | store |
| Login browser (`collector/login_browser.py`) | the one session, tickets, viewer, expiry | start, capture, ticket, view, stop, expire | identities, leases |
| Schedules and monitors (`main_server.py` 4230-4790) | schedules, a runner task each, overlap state | create, toggle, run now, delete, wait for the previous run | task queue, settings file |
| Identity store (`collector/store.py`, `secrets.py`, `migration.py`) | SQLite rows of identities, sealed credentials, policies, bindings | create, edit, delete, seal, bind, fill at the first start | routes, routing, runtimes |
| Collector runtimes, TikTok bridge (`collector/runtime.py`, `module/tiktok_api.py`) | parameters per identity, a registry of shared browser sessions, cooldowns after signs of risk | build, close, share, reset a session; classify, refuse, pause | operations, endpoints |
| Endpoints (`interface/`, `extract/`, `main_terminal.py`) | cursor and items of a walk, diagnostics of the last requests | list pages, filter by date, give a verdict on an account | retries, downloader, settings |
| Single requests (`main_server.py` 5241-5288, detail links) | groups of links, their responses | spread links over identities, gather, answer | routing, operations, downloader |
| Account board (`main_server.py`, `server_routes.py` 1480-1700) | pins of covers, avatars, the rows of an avatar batch | show, pin, refresh, look for a face, draw avatars | crawls, journal, files |
| Collection tools (`tools/`) | pages of a collection, a report | audit, align | endpoints, settings file |
| Downloader, recorder, caches (`downloader/`, `manager/`) | temporary files, files, download record, the names of an account's folder | choose, fetch, resume, move into place, record, rename | endpoints |
| Settings (`config/`) | the parameters in memory, `settings.json` | save, raw edit, patch, archive, verify, schedule changes | every route that edits, batch, monitors |
| Feed (`webui/feed_index.py`, `feed_state.py`, `feed_routes.py`) | SQLite index of works, cursors, marks, a cache of comments | passes of a worker thread, scans of requests, pages, likes, comments | files, crawl database, Web UI |

The behaviours that are hard here: routes that look at a task while its worker
is between two steps; cancellation arriving at any await, twice; a stop and a
kill at any moment, followed by a restart from the journal; several identity
groups of one batch sharing one pause; slots replaced under waiters; settings
that are read before an await and written after it, by several writers of one
file; browser sessions and processes shared between tasks that end at different
times; walks over pages while the platform, the user or another thread changes
what is listed; fields of a worker that outlive the request they were set by.

What makes each component correct:

- leases: at most `limit` users per key over any reconfiguration, exact
  counters, no lost permit or wake-up, first come first served;
- tasks: one execution per task, no work in a paused or canceled task, outcomes
  that stand, requests to pause or cancel that survive a stop and a kill, no
  task forgotten or stuck;
- batch: every account counted once, and the journal agrees with the totals;
- collector operation: health and lease counts in the store agree with what ran;
- login browser: one session, never alongside an operation of its identity;
- schedules: one runner per schedule, no overlap under the policies wait and skip;
- routing: the chosen identity is eligible and balanced; explicit choices win;
- sessions: one browser per profile directory, none left behind;
- crawls: `earliest` passes no work that was not downloaded; a verdict is about
  the account that was asked for; a folder is read to its end or to the limit;
- downloader: what is recorded is on the disk, what is in place is whole;
- settings: no account lost, no edit undone, the file as the memory is;
- feed: a row of the index that looks current is, no post is skipped, and the
  likes keep their order;
- requests to the platform: no pause after a sign of risk is cut short by another
  caller, and comments are fetched one at a time with the delay between them;
- answers: a listing without gap or double, every link of a request accounted
  for, a report that says of the collection what is in it;
- identity store: its tables agree, whatever is killed between two writes;
- account board: what the user pinned stays, a batch draws each avatar once, and
  the newest work of an account stays known.

The full list of hazards, with their source lines, is in `PROJECT.json`.

## 2. Modules

| Module | Models |
|---|---|
| `LeaseGate` | what users of the lease manager rely on: a gate per key with a limit |
| `IdentityLease` | `IdentityLeaseManager` and `IdentityLease` over `asyncio.Semaphore` |
| `TaskLifecycle` | task queue, workers, runners, pause control, task routes, journal status, stop and restart |
| `CollectorOperation` | an operation under its two leases, the identity's row, the routes that change it |
| `AccountBatch` | an account batch and the journal's account rows |
| `Routing` | the planner, bindings, policy, affinities |
| `LoginBrowser` | the login browser's sessions, processes, viewers, captures |
| `ScheduleRunner` | one schedule or monitor, its runners, its routes, its entry in the file |
| `SharedSession` | the TikTok bridge's registry of shared browser sessions |
| `AccountCrawl` | one account crawled again and again, and its `earliest` |
| `AccountVerdict` | what a visit of an account ends with, and the archive |
| `CollectionWalk` | a monitor's walk over a folder, by interface and by browser |
| `Downloader` | the files of one work over several runs |
| `SettingsFile` | the lists in memory and in `settings.json`, and all their writers |
| `FeedIndex`, `FeedPages` | the index behind the feed; paging through it |
| `IdentityStore` | identities, envelopes, policies, bindings, and the start that fills them |
| `TikTokRisk` | what the TikTok bridge does about signs of risk |
| `EndpointPages` | the page loops of the endpoints, with the replies of comments |
| `DetailLinks` | lists of links, spread over identities, and single requests |
| `CollectionAudit` | the audit of a collection and its alignment with the accounts |
| `FolderNames` | folders and files that follow an account's nickname and mark |
| `FeedMarks`, `FeedComments` | likes of the feed; its comments |
| `BoardCovers`, `AvatarBatch` | covers of the account board; avatars drawn by a task |
| `AccountActivity` | the newest work that the board knows of an account |
| `MCIdentityLease`, `MCTaskLifecycle`, `MCCollectorOperation` | symmetry sets for TLC |
| `MCParts` | `AccountBatch` to `FeedPages`, side by side |
| `MCServices` | `IdentityStore` to `AccountActivity`, side by side |
| `...Proofs` | theorems, section 4 |

Each module holds a few definitions marked *Mutant*: a changed form of the
definition that follows, as a plausible bug would have it. Nothing refers to
them; put in place of the original, each must make TLC find a property violated
(the pairs are listed in `PROJECT.json`).

How modules compose. `IdentityLease` implements `LeaseGate` (checked and
proved), and `CollectorOperation` uses leases only as that gate with its waiters
in order. `TaskLifecycle` owns a task's status; `AccountBatch` is what its runner
does (pauses are `TaskLifecycle`'s), `CollectorOperation` what each chunk of the
batch runs in, `Routing` where its accounts go. In each module the others'
part is any behaviour they allow: a lane of `AccountBatch` waits for any time
and an operation raises wherever it can. `SettingsFile` is the file that
`ScheduleRunner`, `AccountCrawl` and `AccountVerdict` write. `IdentityStore` is
what `CollectorOperation` and `Routing` read, below their `row` and `bindings`;
`DetailLinks` and `AvatarBatch` are, like `AccountBatch`, what a runner of
`TaskLifecycle` does.

### IdentityLease

`slots` is `_slots`; `limit`, `value`, `active`, `waiting` are the fields of a
slot and of its semaphore; `pc`, `key`, `slot`, `ahead` say where each task
stands. The semaphore comes from CPython: its waiters are futures in a deque,
`release` raises the value and lowers it again for the first waiter whose future
is pending, and `acquire` of a woken waiter passes a permit on that is still
free. (Later CPython versions wake waiters in a loop; the states at rest are the
same.) No block under `_state_lock` awaits anything, so the lock is never found
taken and is not a variable.

| Action | Code |
|---|---|
| `Configure`, `Remove` | `configure`, `remove` that are not refused |
| `Enter` | `lease` and `_acquire` up to the first suspension |
| `Promote`, `AbandonWait` | the rest of `_acquire`, woken or cancelled |
| `Cancel` | `task.cancel()` of a waiter or of a task in `__aexit__` |
| `Leave`, `Release` | `__aexit__` and the shielded release task |

### TaskLifecycle

`status` and `journal` are a task's status in memory and in its row; `queue` is
`ui_task_queue`; `runnerOf`, `requested`, `units` are `_runner` (with
`_pause_event`), `_pause_requested`, `_active_units`; `stage` and `job` say what
a worker does and for which task; `open`, `busy`, `waiting`, `left` are the
pause event and the lanes of its execution. A lane is an identity group of an
account batch (the avatar batch has one); a unit is one account.

| Action | Code |
|---|---|
| `Create`, `Pause`, `Resume`, `Cancel` | the task routes (retry and retry-failed create a task) |
| `PickUp` | the worker's loop and `_execute_ui_task` up to `await runner` |
| `BeginUnit`, `EndUnit`, `Checkpoint`, `IdentityFailure` | the pause control as the batches call it |
| `RunnerEnds`, `RunnerLosesClient`, `Unwound` | how the runner's task ends |
| `TakeResult`, `TakeCancellation`, `StartRetry`, `EndRetry` | the rest of `_execute_ui_task`, its `finally` included |
| `Stop` | `_stop_ui_task_workers` |
| `Restart` | a kill at any moment, or the end of a stop, then `recover_interrupted` and `_restore_ui_tasks` |

One constant opens a part of the behaviour: `ClientCloses` lets a shared HTTP
client be closed under a request (a change of the proxy settings does it,
`parameter.py` 1311-1328, and so does the retry of another task), which leads to
the retry path. The pausable batches catch the errors of their accounts, so
only other endpoints let that error out. A route can run between the end of a
runner and the next step of its worker; the auxiliary variable `crossed` holds
the tasks it met there.

### CollectorOperation

`row` is the identity with its runtime row in the store; `limit`, `line` and
`pc` are the two leases as gates; `on`, `named`, `result` describe an
operation. A step runs from one `await` to the next: `Begin`, `FirstLease`,
`SecondLease`, `OperationEnds`, `RuntimeClosed`, `Release`, `Account`. Around
them stand the routes `Create`, `Update`, `Delete`, `UpdatePolicy`, `Probed`,
and `Pause`, `Cancel`, `Abandon`, `Restart`. Each event class is a member
of the constant `Events`, so that a run chooses the ones it can afford. `paused`
are the tasks whose status is pausing or paused, which is what the delete route
looks at: a pause can come at any stage, the lanes wait only at their next
checkpoint, and past the last one the operation goes on to its accounting. The
create route takes an `identity_id` from its body and overwrites the row of an
identity that exists before it asks the lease for the new limit, which may be
refused; the ghost `overrun` notes the identities whose row and limit differ for
that reason. `Begin` puts the stored limit in force, or is refused, too. Every
write of the row goes through `Saved` or `Upserted`, which copy the rule of the
store that a disabled identity stays shown as disabled.

### AccountBatch

`row` is the journal's status per account, `lane` the state of
`run_identity_group`, `tally` the progress counters, `base` what they were when
this execution began. `EndUnit` ends one account; `ChunkDone` and `LaneFails` a
chunk; `ProbeBegins` to `Settle` try failed accounts with other identities;
`Kill` and the next `Plan` are a kill and the restart from the rows. The ghost
`recounted` notes an operation that raised after some of its chunk was done.

### Routing

Identities and accounts are numbers and the order of the numbers stands for the
order of the hash (the choice is a maximum of `_hash_fraction`, which any
assignment of ranks to pairs covers for one account; `Rank` rotates it from
account to account). `PlanAndPersist` and `PlanBatch` are the two callers of the
planner; `Succeed` is the write of an affinity at the end of a batch that was
planned earlier, `Bind` the user's.

### LoginBrowser

An attempt is one call of the start route and, if it succeeds, the session. The
lock is held by `opener` or a capture. `start` is cut at its three awaits
(`Enter`, `Reaped`, `Launched`), `stop` at the end of its locked part
(`TakeSession`, then `CleanUp` beside whatever comes next). `raced` notes crawls
that began while a browser was being started, `overwritten` the sessions whose
identity the create route has overwritten while they capture: it is the one route
that edits an identity without asking for its login browser (`Overwrite`).

### ScheduleRunner

`memory`, `file` and `entry` are the schedule in `ui_schedules`, in the file and
in `ui_schedule_tasks`; `runner` says where each asyncio task stands: asleep,
due, polling the run before, monitoring, cancelled and not yet unwound. The
clock may ring at any time. `crossed` notes that a runner that ended took the
entry of its successor (`main_server.py` 4781). A write of the settings may fail:
a route has changed the memory by then and answers 500, a runner is ended by it.
`unsaved` says that a route's write failed, or that the settings page has written
the schedules it had loaded, or none (`WriteSettings`), and that nobody has
written since.

### SharedSession

`registered`, `made`, `api` are the registry and its entries, `created` and
`open` the sessions, `call` where each runtime stands. Creation, reset and
closing hold the lock of an entry, not of the registry. `unclosed` notes
sessions that were dropped for one of two reasons the code does not handle.

### AccountCrawl

A work is its place in the order of publication. A crawl lists page after page
(`ListPage`, `ListBreaks`), chooses by date and loads (`Load`), and moves
`earliest` (`Update`). `excused` takes up the works that a crawl missed for a
known reason: a page that could not be had, an edit of `earliest` during the
crawl, more midnights between the crawl and the end of its batch than
`earliest_update_days`.

### AccountVerdict

`state`, `infoError`, `itemsError` are fields of a worker
(`_confirmed_account_state` and the two diagnostics), `visit` what each visitor
does and which answers it got. With `shared` the visitors have one worker.

### CollectionWalk

`walk` is the state of the interface walk and of the browser walk; `pending` the
answers that are being read, each by a task of its own, in any order. `lacking`
names the reasons why a walk may end before it has every work: an empty answer of the
interface (`"refused"`) or its page limit (`"pages"`), an answer that could not be read
(`"unread"`) or is still being read when the loop is over (`"late"`), and a page that
showed nothing for `MaxIdle` rounds (`"idle"`). Works come in any order, so with more
works than the limit the returned ones need not be the newest.

### Downloader

A file is a number of chunks; `temp` counts those in its temporary file. The
server answers with a part, the whole, an error or 416 as it likes. `job` is
`request_file` with its failures; `recorded` the record of the work. The one
video of a work may be forbidden (403): then a browser session fetches it into
the same temporary file, opened anew (`Bridge`, from `refused` to `streaming`),
and the move of the file happens inside the except clause, where an error ends the
whole run (`BridgeEscapes`, `run = "lost"`). `bridged` are temporary files that
such a session has begun: the next request resumes them by the address, whose file
may be another. `spliced` notes files that are put together so, or from a server
that answers a range with the whole file.

### SettingsFile

`accounts`, `trash`, `plans` are the lists of `Parameter`, `served` the server's
own schedules, `onDisk` the file. Writers write the whole file from the memory
(`WriteFile`), and any write may fail (`dirty`). `Patch` and `VerifyBegins` await
in the middle. `dropped` and `doubled` note what a save of the user left out or
put into both lists; `patched` that the settings were replaced as a whole.

### FeedIndex and FeedPages

`folder` and `records` are what the index mirrors, `mirror`, `marks`, `stamp` the
index, `pass` the worker's place in its pass, and a visit scans one folder from
the thread of a request. `unseen` notes changes below a folder that leave its
time alone. `FeedPages` draws pages by keyset cursor, or by the three pools of
"for you"; posts come and go between two queries.

### IdentityStore

`identity`, `envelope`, `default`, `bound` are the four tables. A transaction is
a step (`Upserted`, `Seal`, `Choose`, `Bind`); a start is several
(`LooksForIdentities` to `ServerUp`), with `ServerKilled` between any two, and
each start may find another key of the vault or none. `BeginsUpdate` and
`SavesUpdate` are the route that waits for the leases between reading a row and
writing it. The ghost `given` is what an identity was given last.

### TikTokRisk

`cooldown` is `_risk_cooldowns`, by account label and session. A request passes
`Falls` (the old interface gave nothing), `BridgeAsks` (refused in a cooldown) and
an answer or an exception, classified as `tiktok_risk.py` does it (`FaultSignal`,
`AnswerSignal`). `pausedAt` remembers when a pause was called for.

### EndpointPages

`kind` is the class of the endpoint, `loop` its `run_single`/`run_batch` loop,
`thread` a `Reply` between two pages of comments. A page has items, none, or
fails. The one exception to "each page once": after an empty or a failed page the
callback runs for the page before it once more, and its replies are there twice.
A thread of replies passes on what is left of the budget only when that is more
than one request (`ThreadEnds`): with replies, a work can take more requests than
`max_pages`, which is documented as their largest number (`docs/FetchShelf文档.md`
388). A thread that leaves exactly one ends the loop over the threads, and the one
request stays unused. `Exhausted` therefore looks at both counts, and at one less.

### DetailLinks

`route` is the plan, `group` what `run_group` does for each identity, `reply` the
response. Groups end in any order, or fail at any step; `Cancel` is the
cancellation of the task, which `gather` hands on. A target is an id and, for
TikTok, the address it was named by (`DetailTargets`): what the code holds to have
been seen is the pair, so that a work named by two addresses, as a video and as a
photo or under an old and a new `@name`, is handed to the downloader twice.

### CollectionAudit

`shelf` is the collection, which the user changes while `PageComes` walks it or a
browser sees a part of it; `report` and `alignment` are what the two tools write.
A work that is taken out during the walk shifts the positions behind the cursor,
and `taken` notes it. A page without items, or one that cannot be read, sets
`finished` and no error (`PageLost`), and an answer may leave out `has_more`: the
walk takes either for its end, wherever it is, and `cutShort` notes it. But for
these the walk misses no work.

### FolderNames

`mapping` is the row of `mapping_data`, `folders` and `files` the disk, `visit` one
run of `_batch_process_detail`: `CheckNames` renames the folder and lists its files,
`RenameFile` renames one of them, until `ScanEnds` or the first file without the
old name (`ScanBreaks`); then `WriteRow` and `LoadItems`. A file's name is a field
for each word of `name_format`, in any order. The code replaces the first
occurrence of the old name in the whole file name, and so does `RenameFile`: in its
own field, in another one that is equal (without a mark the nickname is the mark),
or inside a longer text, which then is any text. Where that is not its own field,
`strayed` is set: a file may from then on carry a wrong name or replace another
one, so that a recorded work has no file any more. `clean` says
that nothing strayed, that the account has one tab, that no rename failed and no process ended between
a rename and its row. Without it files keep old names for good: the row is one
for both tabs of an account (posts and favorites), so the folder of the tab that
is crawled second is never renamed, although the documentation promises it
(`docs/FetchShelf文档.md` 1178-1182). No work is lost unless a rename strayed.

### FeedMarks and FeedComments

`likes` is the table of marks, a tap is the lookup of a post and then the write;
the viewer leafs by offset. `touched` notes a like that came or went while the
viewer leafed, which moves the offsets. In `FeedComments`, `slot` is the
semaphore's line, `viewer` where each request stands, `cache` the kept pages. The
moment that spaces the fetches, `lastFetch`, is kept in `Begins`, before the leases
are awaited; the requests (`Asks`) come after that, as often as the retries take, and
the delay is the one that held when the viewer came (`gap`). So two requests can be
closer than the delay; two fetches on they cannot, which `earlier` remembers.

### BoardCovers and AvatarBatch

`pin` is the entry of `account_profile_pins.json`; a selection looks for a face in
a thread (`Selects`) and stores what it found only after a second look (`Store`,
`StoreScraped`). In `AvatarBatch`, `journalRow` is the journal, `drawing` the
execution, which reads the file of avatars once (`known`): an avatar that the user
sets after that can be replaced. The work on an account is four steps, each the
write of one thing: `StartItem` the running row, `DrawPicture` the picture,
`NoteAvatar` the entry in the file of avatars, `EndItem` the row. Nothing but a kill
or an error comes between them, and either may: after a kill between entry and
row the account is settled as skipped for the task's own avatar or drawn again. The
file of avatars is written in place, and a write that breaks off leaves it
unreadable, which counts as empty (`Unsaved`). `RetryFailed` makes a new task of failed rows;
the route does not ask whether the old one is over, so that one may go on beside
it (`FormerDraws`).

### AccountActivity

`activity` is one row of `ui_account_activity`, `errand` what a batch's visit came
to: `ListCome` is the visit, `SavesActivity` the upsert at the end of the batch,
after which another, later batch may long have written. Times are compared as
texts of the local time (`TextOf`), and `turnsBack` puts two works into the hour
that a clock repeats. The ghost `told` collects what visits have seen, `dropped`
notes an outcome that was never written: the journal of the task calls the account
finished before the row of activity is saved, so a batch that is killed there does
not come back to it. The next crawl repairs the row.

## 3. Runs

| Run | Instance | Shows |
|---|---|---|
| `LeaseSafety` | 2 keys, 4 tasks, 3 slots, limits 1 and 2 | capacity, counters, permits, no stranded waiter, no lost wake-up |
| `LeaseOrder` | 1 key, 3 tasks, 2 slots, fairness of the loop, none of the bodies | order of service, waits end if the bodies before them do, refinement of `LeaseGate` |
| `TaskSafety` | 3 tasks (1 pausable), 2 workers, 3 queue entries, 2 lanes, 1 restart, client retries | a paused task is quiet, one execution per task, no wait without a way to resume, pending tasks are queued once, pauses and batches survive stop and kill, no work starts after a pause or cancel, outcomes stand, over restarts |
| `TaskLiveness` | 3 tasks, 1 worker, 2 lanes, 1 restart, fairness | pending tasks start; cancellations are carried out and running tasks end (`TasksEnd`) |
| `OperationSafety` | 1 identity, 2 operations, threshold 2, 1 restart, every event but `abandon` and `unnamed` | leases, rows, lease counts and cooldowns stay in step |
| `OperationLiveness` | 2 identities, 3 routed operations, pauses inside and abandoned waits, fairness | a busy identity does not block an idle one |
| `Parts` | the twelve parts, below | one property for each part, or for two |
| `Services` | the eleven parts, below | four properties, each kept by two or three parts |
| `TaskCanceledStays` | 2 tasks, client retries | violation: a canceled task is collected on and becomes a success |
| `OperationDelete` | 1 identity, 2 operations | violation: an identity that a paused task names is deleted |
| `SettingsPatch` | 1 account, 1 schedule | violation: `POST /settings` empties the recycle bin |
| `StoreRemoved` | 1 identity, 1 key | violation: the last identities that a user removed are there again after a restart |

`MCParts` puts twelve modules that share no state side by side: the first state
chooses one, only that one runs, and the variables of the others stay as they
are in one first state of theirs. The reachable states are the sum of those of
the parts, each part sees exactly its own behaviours, and a property of a part is
true in the states of the others because it is true in the first state that was
fixed. It is one run instead of twelve because the parts are small. `MCServices`
does the same with eleven others.

Some properties of these two runs are conjunctions, each of promises of one kind
that are kept by different parts; the conjuncts have names of their own, with
their comments, in the modules of the parts:

| Property | Conjuncts |
|---|---|
| `IdentityExclusive` | `OneUserAtATime` (browser), `SessionsClosed` (session) |
| `FeedKept` | `IndexFaithful`, `NothingLost` (pages) |
| `BatchSettles` | `EveryAccountOnce`, `RoutesStand` |
| `NothingStalls` | `BrowsersEnd`, `EnabledRuns` (schedule) |
| `AnswersWhole` | `ListingsWhole` (pages of endpoints), `LinksAnswered`, `AuditExact` |
| `RecordsStand` | `StoreSound`, `NamesFollow`, `LikesListed` |
| `RequestsPaced` | `PausesKept` (risk), `CommentsPaced` |
| `BoardStands` | `CoversKept`, `AvatarsOnce`, `NewestIsKnown` (activity) |

### Bounds

Leases and tasks: three slots let two keys be reconfigured while an old slot is
still referenced; four tasks give a holder, a woken, a cancelled and a queued
waiter at once. Two lanes are what it takes for one lane to be at work while the
other pauses, two workers for a task to be picked up twice, three tasks for a
queue behind two busy workers, one restart for every status to be recovered. One
worker is the hard case for starvation. `MaxRestarts` bounds stops and kills
together, `Units` the units an execution starts, `Lanes` those at work at once.

Parts. *Browser*: one identity and two attempts, for each hazard needs a session
and its successor; one edit. *Schedule*: two runners alive, the stopped one and
its successor, two tasks, one restart. *Batch*: three accounts in two lanes with
chunks of two, so that one chunk is cut in the middle, and one mishap (a raise or
a kill). *Routing*: three identities (the chosen, a fallback, another) and two
accounts. *Download*: two files of two chunks, one retry, two runs; the
semaphore of simultaneous downloads is left out, as it only delays, and the
recorder is switched on. *Feed*: one account with one post and one table, one
write, one fault. *Pages*: three posts, two to a page. *Crawl*: three days, two
works, `earliest_update_days` 1. *Settings*: one account, one schedule, one save
at a time. *Session*: two runtimes of one key, three entries and sessions (each
runtime builds at most one again). *Walk*: three works, a limit of three,
`MinRounds` 2 and `MaxIdle` 3 where the code has 3 and 12: the loop is the same
and only its length shrinks. *Verdict*: two visitors, two accounts of which one
is restricted, two visits.

Services. *Covers*: two files and one selection at a time, which is what the slot
allows to be at work; the pin changes under it by other routes. *Avatars*: two
accounts, one before and one behind any interruption. *Risk*: two callers and a
pause of two of four ticks, so that a request begins before, in and after it.
*Pages*: three pages, two threads of two pages, budgets of one
and two requests, one of 14 that leaves a request unused, and the unlimited one. *Links*: two links of up to two targets each, one
work with an address and without, two
identities and the process's own collector, so that links share a group, a target, a
work or nothing. *Names*: two titles, two tabs, one work, one visit at a time (with
two visits, the exception `clean` is all that changes; two works have been checked
apart from this run, with one tab, in 7.7 million states, and the proof has any number). *Store*: one identity of the user
beside the two of older versions, two keys and none. *Audit*: three works, pages
of one and two, one author and works without, two rows. *Comments*: two viewers,
two pages, a cache of one, four ticks for delays of one and two and a lifetime of two. *Marks*:
two posts, two accounts, one tap under way, one post to a page. *Activity*: two
batches that overlap and two works, which is what it takes for the older one to be
written last, with the clock set back between them or not.

Deadlock is checked for the leases; everything else stops where its bound or the
end of its work is reached (a task server whose tasks have all ended), so those
runs do not check it. States in which everybody waits for everybody are found
by the liveness properties.

### Fairness

The event loop runs every scheduled coroutine, so a step of a worker, a woken
lane or an operation that stays possible is taken (weak fairness). A unit and an
operation end because their HTTP requests have timeouts and bounded retries;
processes end because they are killed three seconds after they were asked to. A
paused batch waits for its user inside the operation with both leases held, so
that nothing is assumed of the body under a lease: `EveryWaitEnds` says of a key
that waits for it end if the bodies under it do (`BodiesEnd`), and the operation
of a paused task is under no fairness while it runs (`NoHeadOfLineBlocking`
excepts who is held up by one). The expiry of a login browser asks for a lock that others take and
give back again, and `asyncio.Lock` serves in order: strong fairness of that one
step. Users, identity failures, stops and kills are under no fairness.

### What the violations say

`CanceledStays`. When a runner has returned and the worker that awaits it has not
had its turn yet, the cancel route takes the branch for tasks without a runner:
it reports the task as canceled, and the worker's next step writes the result over
it. While a task is retried with new clients its runner is done, too, for as long
as the collection takes, and nothing stops the retry. A resume in the same gap
queues a task again that its worker is about to settle, and another worker can
begin it a second time. The routes act in the gap in every run; the auxiliary
variable `crossed` holds the tasks a route met there, until the last worker has
let go of them, and the properties of an execution say what is promised to the
others (`PausedIsQuiet`, `OneExecution`, `WaitIsResumable`, `PendingIsQueued`,
`UnitsStartWhileRunning`, `OutcomeStands`, `CancelEnds`); `PauseHonoured` and
`StopKeepsBatches` hold without exception. `MaxEntries` bounds the length the
queue can reach by such resumes. `TaskLiveness` has one worker: with two, the
second execution of a task can wait for a pause event that the first one has
replaced, and keep its worker for ever.

`DeleteSparesTasks`. The delete route looks for tasks that are pending, running
or canceling, and the journal's list of active statuses has pausing and paused,
too. A task that was found paused at a start, or one that is pausing between two
stages, holds no lease; its identity can be deleted, and the task fails when it is
resumed, or the result of its operation is lost.

`RemovedStayRemoved`. `migrate_legacy_settings` says that a marker keeps removed
identities from coming back; the marker is looked for in the settings, where
nothing writes it, and an empty pool is filled at every start.

`PatchKeepsTheRest`. The route that promises to change only what is passed sets
the deleted accounts to the default of the model, an empty list.

What holds only with an exception is written into the property, so that it can
be read there: a paused task keeps its worker, and two paused batches hold up the
whole queue (`AllParked` in `PendingStarts`); an operation that raises after part
of its chunk has that part counted again (`recounted`); a crawl that began while
a login browser was being started goes on beside it (`raced`), and a create over
its identity is undone by a capture (`overwritten`); a schedule whose write failed,
or that the settings page wrote over, comes back after a restart as the file has it
(`unsaved`); a schedule that
was switched off and on in time may lose its entry (`crossed`); a cancelled wait
for the platform lease leaves `active_leases` as it was (`abandon` in
`ActiveSettles`); an operation that was routed or whose task is pausing can lose
its identity between release and accounting, and its result with it (comment at
`LeasesMatchRows`); a create over an identity in use leaves its stored limit ahead
of the one in force (`overrun`); a file resumed with an answer that does not go on where
it ends is spliced together and taken for whole (`spliced`); visits that
share a worker can give another account's verdict, though not archive it
(`shared`); an answer that only looks like the last page ends an audit early
(`cutShort`); an old name that is found in another field misnames a file or costs
one (`strayed`); and the ghosts named under the modules above.

## 4. Proofs

`IdentityLeaseProofs` proves, for every finite set of tasks and any keys, slots
and limits (`LeaseAssumption`): `LeaseTypeOK`, `LeaseNoStrandedTask`,
`LeaseSlotAccounting` and `LeaseCapacity`.
`CapacityRespected` is not inductive. It follows from exact counters and
conserved permits: holders of a key stand on the key's slot, each holds a permit
of it, and permits held and permits free add up to the limit. Counters and
permits in turn need that nobody is stranded, for `_release` finds the slot by
its key; and nobody is stranded because `configure` and `remove` look at the
counters. The inductive invariant is therefore the conjunction of the four,
with two facts about the deque. Lemmas state what a wake-up does to the stages
and to the count of permits, and how a count changes when one task changes its
stage; each action then has a step of its own.

The order of service needs more. `Deque` says that the tasks of a slot's deque
stand in a strict total order and that nobody else is in it; with `NoLostWakeUp`
it is inductive (`OInv`). That a non-empty deque has a first task is a lemma
(`SomebodyIsFirst`): who is ahead of somebody has fewer tasks ahead, and the
natural numbers do not descend for ever. `LeaseServedInOrder` and
`LeaseNoLostWakeUp` follow.

The module also proves that the manager implements `LeaseGate`
(`LeaseImplementsGate`): each action is an admission, a dismissal, a change of
limit or nothing, seen from the gate. A wake-up admits nobody by itself
(`WakeUpAdmitsNobody`); that an admission stays below the limit follows from
`LeaseCapacity` in the state after it, and that limits change on an empty gate
from the counters being exact (`QuietGate`).

`TaskLifecycleProofs` proves, for any tasks, workers, lanes, units and number of
restarts (`TaskAssumption`), with the routes at any moment, the invariants `TaskTypeCorrect`,
`TaskOneExecution`, `TaskPausedIsQuiet` and `TaskWaitIsResumable`, and four
properties of steps: `TaskUnitsStartWhileRunning`, `TaskPauseHonoured`,
`TaskStopKeepsBatches` and `TaskOutcomeStands`. None of them is inductive: that
a paused task is quiet, for instance, needs the count of units to agree with the
lanes at work, which needs the task to belong to one execution, which needs to
know which statuses go with which stage of a worker. `IInv` says it per task (`TaskInv`) and per
worker (`WorkerInv`: resting, owning a task, working on it, ending it), of tasks
that no route met between a runner's end and its worker's step (`crossed`).
The lemma `Frame` reduces a step to the one task and the one worker it touches;
every action has a lemma that ends in it, save `Stop` and `Restart`, which touch
all workers. The step properties follow from `Moves`, which lists how the status
of a task can move.

`TaskPendingIsQueued` is proved there, too. The queue keeps the entries of
tasks that were canceled while pending, so "one entry per pending task" is
preserved only together with "no entry of a task that may be queued again"
(`QueueInv`). A restart builds the queue anew; that an ascending sequence of the
right length names every task is a counting argument (`AscendingEntries`).

`CollectorOperationProofs` proves, for any identities, operations, limits,
thresholds, sets of events and restarts, the three invariants of
`CollectorOperation` and `CooldownDiscipline`. `OpInv` says of an operation that it
stands in the line it waits in, and that it waits for and holds an identity that
is there; `LimitsMatch` that the gates have the limits of the rows, but for
`overrun`, and of the policy; `NoLine` that nobody waits for an identity without
a row. A cancelled waiter is taken out of its line by
`RemoveFirst`, and that the others stay in it is a lemma on sequences
(`FirstRemoved`). `RowAssumption` says that `None` is no row.

`CrawlProofs`, `ServerProofs` and `FeedProofs` prove of each part
of `MCParts` its type invariant and its property, for any values of the constants
(each under the module's named assumption; `DownloadAssumption` says that a work
has a file, for with none it is recorded and has nothing in place; there is an
identity to route to, a runner to start and an account to sign in).

- `CrawlLeavesNothing`. `ListedSoFar` says what a crawl has listed: every work of
  its window above the cursor, and, once the walk is over without a broken page,
  that what is below the cursor is from before the window. `Window` ties the window
  to `earliest` as long as the user leaves it alone, `WorksReported` says that a
  crawl that went well has all works of its window.
- `DownloadHonest`. `FetchedPlaced` says of every file of a run that it is on its
  way, in place or too large; `MixedSpliced` that a temporary file goes wrong
  only by an answer that does not fit what it holds; `RecordedPlaced` that a file whose
  record is being made is in place.
- `VerdictsAreSound`. A verdict is made of fields of the worker. `InStep` ties
  the fields to the answers of the visit that is under way (unless the worker is
  shared), `Aimed` gives every visit an account, and `Grounded` says that a
  confirmed state is one of a restricted account.
- `WalkIsComplete`. `ByInterface` and `ByBrowser` say that every work the folder
  had when the walk began and that the page has shown is among the items or in an
  answer that is being read (`Covered`), that only an answer from the end of the
  folder says that there are no more works, the preview excepted, and that the
  preview is alone or comes after a page. What `Added` does is induction over a
  sequence; the recursive function `AddedUpTo` is proved to exist and to add what
  is new, once each (`AddedIs`). The proof did not go through at first, and the
  property was wrong: with a larger folder than TLC had been given, the walk may
  find itself complete after a round and end while an answer that came during
  that round's `gather` is still being read. `Proceeds` names that reason now
  (`"late"`), and so does an idle round that is the last the code allows.
- `RoutingStands`. `RendezvousIs` and `LeastLoadedIs` say what the two choices
  return, with ranks that differ (`RankStrict`); that a choice does not change
  when another identity is lost is `ChoiceStands`, which holds for the sticky
  strategy only, as the loads of the other depend on the accounts before.
- `BatchCountsOnce`. `RowsRight` says that an account without an outcome has not
  been done and one with an outcome has it in its row, unless it is tried again
  or was settled; `LanesRight` that lanes have accounts of their own and every
  account without an outcome is still open in its lane; `ProbesRight` that only a
  failed account is tried elsewhere. Then each action keeps `TallyRight`, the
  progress of the rows, because it moves one row or a set of open ones
  (`OneMoves`, `CompletedCounts`). All of this holds as long as no operation
  raised after accounts of its chunk were done (`recounted`).
- `SettingsKept`. The three parts of `SettingsHold` are inductive with one more,
  `ServedKept`: that the server's own schedules are those of the settings holds
  even while a write is missing.
- `ScheduleKept`. `Table` says that what the table of runners holds was not
  cancelled, and that, unless a runner took another one's entry (`crossed`),
  nobody serves but the one in it.
- `BrowserOneUser`, `SessionClosedOnce`. `Display` and `LockHeld` say who has the
  one display and the lock, `Captures` that the row a capture has read is not
  edited before it is over, `CrawlsRaced` that a crawl beside the browser began
  during its start. For the shared session: a session that somebody will close is
  in the registered entry (`InRegistry`), and is created by one runtime
  (`Creations`).
- `FeedFaithful`, `PagesLoseNothing`. A row and a scan are not newer than their
  folder and agree with it at its time (`Folded`, `Scanned`); up to the stamp of a
  pass every row of a table that is done is copied (`Copying`), where the file's
  time and size stand for its rows, however many (`Database`). Of a walk by date
  or likes, what is in front of the cursor was given (`TimeWalk`); of the mixed
  one, what is in front of the cursor of its pool, and no pool is passed over
  (`PoolWalk`).

`PartsProofs` puts them together: the parts side by side implement the
specification of each part (`PartsImplement`, one step per part: no action of
another part touches its variables), so that all that was proved holds in
`MCParts`, with the properties to which two parts contribute:
`PartsTypeCorrect`, `IdentitiesAreExclusive`, `FeedIsKept`, `BatchesSettle`,
`PartsAreSafe`.

`ServicesProofs` does the same for the eleven parts of `MCServices`: of each its
type invariant and its property, for any values of the constants.

- `StoreStaysSound`. Besides the property, that a start which is filling the pool
  found it empty, and writes a policy only when the identity it names is there
  (`Founding`): a kill between two of its writes leaves it what it was.
- `RiskPausesKept`, `CommentsArePaced`. `Paused`: a pause that is not over is a
  cooldown that has its end. `OneInside`: the slot lets one viewer in; `Spacing`
  says that the last request of the fetches before is not later than the moment
  kept for the last one; `KeptAnswers` follows the cache.
- `ListingsStayWhole`. `PagesCounted` and `KeyCounted` say page by page how often
  each was listed, `BudgetKept` that requests made and requests left never add up
  to less than the budget, `KeyThere` that the replies behind the cursor are
  there as long as the budget has more than one request left.
- `LinksAreAnswered`. `GroupsSound` says of a group what it has parsed, got and
  loaded, `ReplyWhole` of the answer what the groups said. The totals are sums
  over the groups (`SumsThere`, `TotalTakes`), and loaded never exceeds parsed
  because it does not in any group (`TotalOrder`). That a fold over a link's targets
  adds each new one once is `NamesSteps`.
- `AuditIsExact`. `WorksFetched` says of the walk that what was on the shelf all
  the time and lies in front of the cursor is among the items, all of them once
  a walk that was not cut short has ended, and that the items have no work
  with an id twice (`WorkJoins`, `PageSteps`); `ReportMade` and `AlignmentIs` say
  what was made of the rows.
- `NamesKeepUp`. `OneVisit`, which holds while `clean` does: between a rename and
  its row the folder and the files that are done carry the names of the visit
  (`HalfMarked`, `HalfNamed`), and otherwise all carry those of the row; in every
  state works that were fetched have a file until something strayed.
- `LikesStayListed`. `LeafedSoFar`: what is placed in front of the offset was
  shown once and what is behind it not yet. `Place` counts the rows up to
  one; that no row comes at place zero or behind the number of rows are lemmas
  on finite sets of numbers (`CountsBefore`, `PlaceIs`).
- `CoversAreKept`, `AvatarsDrawnOnce`, `NewestStaysKnown`. `Founded` says what a
  selection has read of the pin when it began; `Drawn` that what an execution
  knows agrees with the rows, at each of the four steps of an account; `Known` that what a visit has seen is in the row or
  in an errand that will bring it.

A fold is a function defined by recursion over sets, which the prover cannot do
by itself. `SetRecursion` proves once, by counting the elements, that such a
function exists on the subsets of a finite set; the chain of a fold's values
(`PageChain`, `SumsThere`) follows, and with it the result step by step.
`ServicesImplement` lifts all of it into the composition, as `PartsImplement` does: `ServicesTypeCorrect`, `AnswersAreWhole`,
`RecordsAlwaysStand`, `RequestsArePaced`, `BoardAlwaysStands`.

The proofs changed three things that TLC had passed. With other budgets than the
run had, a listing can be incomplete with one request left: `Comment.run_reply`
stops when a thread of replies leaves exactly one, so nobody uses it, and
`Exhausted` says so now (the run has a budget of 14, which gets there). The count
`next` of `DetailLinks` had a bound that more works than links exceed. And several
parts need that their constants are what they stand for, which had not been
written down: a clock that ticks, a cache with room for an entry, names of nothing
that are no names (`RiskAssumption`, `CommentsAssumption`,
`BlankAssumption`, `AbsentAssumption`, `MarksAssumption`, `NamesAssumption`).

Model-checked only: everything temporal under fairness (`EveryWaitEnds`,
`PendingStarts`, `TasksEnd`, `NoHeadOfLineBlocking`, `NothingStalls`), which is
beyond the prover (as are `ENABLED` and induction over data for a recursive
operator), and the violations. Every invariant and every property of steps that a
passing run checks is proved.

## 5. Not modelled

The program has some 41,800 lines, and a large part of them has no state of its
own: signatures (`encrypt/`), extraction and formatting (`extract/`, `record/`,
`storage/` with its columns), request parameters of the endpoints, translations,
the terminal's menus, the tables behind the account pages. What the map covers is
the code that keeps state over an `await`, a restart or another actor's step.

Left out of the parts that are modelled: content of requests and responses;
SQLite errors (a failed save ends a worker, see the hazards); the limit of 2000
restored tasks; notifications, marks and wording; cron arithmetic (a clock that
may ring); threads of the media scan; the closing of shared HTTP clients by the
retry of another task, except as `ClientCloses`; deletion of the feed's index
file under a running server; two runs that write to one temporary path.

Not modelled at all: the storage overview and its
alerts, the terminal, the clipboard monitor and the CLI front ends (sequential
menus over the same endpoints), the Web UI's browser code (it only calls the
routes). `PROJECT.json` lists them with their reasons.
