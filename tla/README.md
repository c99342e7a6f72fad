# Verification of MigrationBot

MigrationBot is a chat assistant and dashboard over migration trackers kept in Google Sheets. A FastAPI process
serves chat (a WebSocket that runs an LLM tool loop) and a REST dashboard; every change of a sheet goes through a
Redis queue to one worker process; reads go through a two-tier cache. This directory models its concurrent core in
TLA+, and the many calculations over a tracker that must agree with each other, checks the models with TLC and proves
the main invariants with TLAPS. Paths below are under
`src/backend/app/` unless they say otherwise.

## 1. The system

| Part | State it keeps | Operations | Hard about it |
|---|---|---|---|
| write queue (`queue/`) | Redis lists pending / processing / dead-letter, one `job_state` hash per job | enqueue; BLMOVE, execute, LREM; recovery at start | worker crashes, lost Redis replies, replay order, three processes on one `job_state` key |
| row cache (`sheets/rows_cache.py`, `sheets/records_cache.py`) | a Redis matrix per tab (60 s), a Postgres copy with dirty flag and `modifiedTime` stamp | `get_tab_matrix`, `invalidate_tab`, `store_tab`, `mark_dirty` | refills that race edits, invalidations and each other |
| push channels (`sheets/drive.py`, `api/watch.py`, `api/webhooks.py`) | one row per spreadsheet, channels open at Drive | register, stop, renewal by readers, notification | row and Drive change in different steps; delayed notifications |
| sheet writers (`sheets/write.py`, `meta.py`, `format.py`, `retry.py`) | the spreadsheet | update, bulk update, add row, format | look-up-then-write, retries of non-idempotent calls, half-done bulk writes |
| agent loop (`core/agentic_loop.py`, `tool_dispatch.py`, `streaming.py`) and history (`core/history.py`, `db/message_store.py`) | the messages of a session | one turn: model call, tool calls, persist; reload, trim | exceptions in mid-turn, tool calls without results |
| chat socket (`api/chat.py`, `src/frontend/src/hooks/useWebSocket.ts`) | current socket, reconnect timer, heartbeat, the last bubble; the user's session per project | connect, prompt, switch project, leave, reconnect; find or create the session | events of an old socket acting on a new one, frames in the wrong bubble, two sessions |
| grid edits (`api/dashboard.py`, `src/frontend/src/hooks/useRowEdits.ts`) | a marker per edited cell, a poll timer, the rows on screen | PATCH, poll of job states, reload of rows | polls that overtake edits, row answers out of order, a poll that is never armed |
| audit and undo (`api/audit.py`, `core/audit.py`) | audit rows | undo a write, undo the latest of a cell | check-then-enqueue |
| tracker (`core/schema.py`, `schema_detect.py`, `people.py`, `aliases.py`, `timeline.py`, `health.py`, `digest.py`, `data_quality.py`, `api/dashboard.py`, `sheets/read.py`) | the stored schema and aliases, over a sheet people edit | detect, resolve, filter, group, count, report | seven surfaces compute the same facts by code of their own, over a schema that lags behind the sheet |
| permissions, administration, authentication, pages | database rows, sessions | decide, CRUD, rendering | single transactions |

How they interact: chat and dashboard call `producer.enqueue_write_job`; the worker executes with the sheet writers,
then invalidates the row cache, then publishes a queue event on Redis that the chat socket relays to the chat page; the
project page opens no socket, and its grid polls `GET /jobs/{id}`, which reads `job_state`. Reads from chat tools and
dashboard go through the row cache, which asks Drive for `modifiedTime` unless a push channel's row is live; Drive's
notifications come back through the webhook into `invalidate_tab`. Undo enqueues an inverse write.

What makes each part correct is stated as properties below; `PROJECT.json` lists every component with its status and
every hazard with its line and the properties that cover it.

## 2. Modules

| Module | Models | Composes with |
|---|---|---|
| `JobLedger` | the abstract queue: accept, begin, land, judge, finish, bury, lose | implemented by `WriteQueue` (`ImplementsLedger`) |
| `WriteQueue` | producer, the three lists, `job_state`, worker loop, recovery | instantiates `JobLedger` under its refinement mapping |
| `RowsCache` | one tab in both cache tiers, readers, `invalidate_tab` run by worker and webhook | its `watched` is what `WatchChannel` calls a trusted, open channel |
| `WatchChannel` | the channel's row, Drive's channels, administrators, renewing readers, notifications | gives the conditions under which `RowsCache` may trust silence |
| `SheetWrite` | what a job does to a tab people edit, its audit rows, undo | its `Take` to `Finish` is `Execute` of `WriteQueue`; its `Finish` of a successful job is `WorkerWrites` of `RowsCache` |
| `AgentTurn` | one session's conversation: sockets, the tool loop, history | its `DispatchWrite` is `Push` of `WriteQueue` |
| `ChatSocket` | the hook's sockets and timers, the endpoint up to its session | its `SendPrompt` is `Prompt` of `AgentTurn` |
| `GridEdits` | markers, PATCHes, polls and row requests of the project page | its job statuses are `job_state` of `WriteQueue` |
| `TrackerSchema`, `TrackerPeople` | operators: columns, roles and detection; dates, names and aliases | extended by `TrackerViews` |
| `TrackerViews` | the tab, its schema and aliases, and what people change; grid, workload, digest, timeline | extended by `TrackerReports` |
| `TrackerReports` | health panel, agent reports, data quality check; what the surfaces owe each other | |
| `WriteQueueProofs`, `RowsCacheProofs`, `WatchChannelProofs`, `SheetWriteProofs`, `AgentTurnProofs`, `ChatSocketProofs`, `GridEditsProofs`, `TrackerReportsProofs` | theorems and proofs | each extends its module and TLAPS |
| `MCWriteQueue`, `MCRowsCache`, `MCWatchChannel`, `MCSheetWrite`, `MCAgentTurn`, `MCChatSocket`, `MCGridEdits`, `MCTrackerReports` | TLC instances: values and symmetry only | |

### WriteQueue

`queue`, `processing`, `deadLetter` are the Redis lists `QUEUE_KEY`, `PROCESSING_KEY`, `DEAD_LETTER_KEY`; an element is
an envelope (job id and attempt counter). `worker` is the worker's program counter and `hand` the envelope in its
memory. Every Redis command is an action: `Push` (RPUSH) and `SetInitialState` of `enqueue_write_job`;
`RecoverPop` (LPOP), `RecoverPut` (RPUSH to the queue's tail or the dead-letter list), `NotifyBuried` of
`recover_stale_jobs`; `GetJobState`/`SetJobState` for the two halves of `_set_job_state`; `Pick` (BLMOVE), `Execute`,
`Report`, `Clear` (LREM) of the main loop. Each command may fail: before it is executed, or after (its reply lost);
each failure goes where the code's handler goes. `Crash` stops the worker anywhere and `Start` is docker's
`restart: unless-stopped`. The tool a job runs is `Execute`, which takes effect and succeeds, takes effect and is
reported as failed (a bulk update that stops half-way, a lost answer), or fails without effect.

`JobLedger` says what all of this promises without lists, processes or crashes: a job is `new`, `open`, `finished`,
`buried` or `lost`; it may be begun `MaxStarts` times, lands on the sheet only while open and begun, is finished only
after an outcome was reported, buried only when its starts are used up, and lost only once begun. The refinement mapping
reads a job's phase off the lists (`Phase`), its starts off the pickups, and the sheet and outcomes as they are.

### RowsCache

The sheet is a version number, a matrix is the pair of versions its headers and its rows were read at, and Drive's
`modifiedTime` is the version. `hot` is the Redis entry; `stored` is the `sheet_sync_state` row with the records it
describes. A reader goes through the awaits of `get_tab_matrix`: `Begin` (Redis miss), `ReadState`,
`CleanWithoutDrive` or `AskDrive` (+ `CommitChecked`), `SelectRows`; or, after any of the reasons for which `read_tab`
answers None, `ReadStamp`, `ScanHeaders`, `ScanRows`, `StoreTab`; then `FillRedis`. A read that hits Redis changes
nothing and is not a step. `invalidate_tab` is `DeleteHot` and `MarkDirty`, run by the worker after `WorkerWrites` and
by the webhook after `NoticeArrives`; either half may fail. `EditSheet` is an edit in Google, and also a queued job
that changed the sheet without success, which skips the invalidation. Failures that the code swallows without any
other effect (a Redis GET or SET, `store_tab`, `modifiedTime`) are free choices; failures that leave something stale
(invalidation commands, notifications) count against `MaxFaults`. `floor`, `began`, `covers` and `raced` are
bookkeeping: the newest version a complete invalidation has covered, the floor a read began at, and whether a read
that overlapped an invalidation has filled a tier.

### WatchChannel

`row` is the row of `sheet_watch_channels`; `life` is each channel's stage (`fresh`, `margin`: the last six hours,
`expired`), `stopped` the channels closed at Drive. `RenewBegin/Open/Commit/Stop` are `_maybe_renew_channel`;
`RegisterBegin/Stop/Open/Commit` are `register_project_watch`; `StopBegin/StopAtDrive/StopCommit` are
`stop_project_watch`; `Notice` is the webhook, which ignores a channel that is not the row's. Commits act on the row by
primary key, as SQLAlchemy does: a renewal's UPDATE of a deleted row fails, a DELETE of one does nothing, an INSERT
beside another row violates the unique `spreadsheet_id` and rolls back. Lost notifications are left to `RowsCache`.

### SheetWrite

A row of the tab is the number in its ID column (0 when empty) and the value of the one column that is written. A job
carries its targets, each with the value that was read before the write for the audit row. `DispatchUpdate`,
`DispatchBulk` and `DispatchAdd` are the chat tools and the grid's PATCH: the pre-read may fail, and then the old value
is blank. The worker takes a job (`Take`) and goes through the calls of the Sheets API one by one: `FindRow` (the ID
column, per target), `MapRows` (once for all targets of a bulk update), `NumberRow` (the next ID), and the write itself,
which is answered (`WriteAnswered`), fails with a transient status and is repeated as it is on the same rows (`Retry`,
`_with_retry`) or fails for good (`GiveUp`); every failing call may have taken effect. A bulk update whose one call
fails goes on to write row by row, each with a lookup of its own; any other exception becomes one failed audit row for
the whole job (`Raise`). `Report` inserts audit rows, `Finish` ends the job, `Crash` queues it again. Undo is three
steps: `UndoFind` looks the ID up, `UndoRead` compares the cell, `UndoEnqueue` enqueues the inverse. `Edit` is any one
change people make in Google: insert, delete, exchange rows, retype an ID, change a value. `written`, `moved`, `lost`
and `calm` are bookkeeping: what this job has written, whether people changed the tab since the rows of the next write
were looked up, whether a call took effect without an answer, and for which undos nothing changed the sheet since they
looked.

### AgentTurn

A message is its turn, its position in the turn, its role, the number of tool calls it makes, and the position of the
message whose call it answers. `store` is the session's rows of the messages table; each socket's handler has its
`memory` (`message_history`) and, in a turn, `messages`, of which the first `sent` are the window that `TrimForModel`
cut. `Connect`, `Leave`, `SwitchTab` and `Prompt` are the endpoint between turns; `Answer`, `CallTools`, `ModelFails`,
`MalformedCall`, `ReadOrRefuse`, `DispatchWrite`, `DispatchSwitch` and `Report` are `run_agentic_loop`; `Save` and
`Touch` follow it. The last iteration offers no tools, so the branch after an exhausted loop is unreachable. `Drop` is
the client's departure at any moment: from then on a send may be lost, so that the handler goes on, or raise
(`Vanish`), so that the turn is not persisted. `Restart` ends all handlers of the process.

### ChatSocket

The browser's half is the hook's refs (`current`, `connected`, `retry`, `ping`), each socket's `life` and whether its
handlers are `attached`, and the socket the last bubble waits for. `Visit`, `Leave` and `SwitchProject` are the effect
and its cleanup, `RetryFires` the 3 s timer, `Opens` and `OnClose` the handlers behind their `wsRef` guard, `CloseEvent`
the late close of a socket the hook has closed, `Drops` a network or server failure, `FrameArrives` any frame that
writes into a bubble. The server's half is the endpoint: `Reject` (1008), `FindSession`, `FindNoSession` and
`CreateSession` (a SELECT and an INSERT with awaits between), `HandlerEnds`. `strayed` and `raced` are bookkeeping: a
frame was written into another connection's bubble; two requests of one project were between look-up and insert.

### GridEdits

An edit and its job share a name; the sheet, a row answer and the grid are versions. `Save`, `Accept`,
`AcceptanceArrives`, `RefusalArrives` and `PatchLost` are `saveCell` and `patch_row`; `JobReturns`, `JobRaises` and
`Recover` are what the worker does to `job_state` (a mutation that fails also returns, and ends "done" without a new
version). Every change of the markers re-arms the polling effect (`Rearmed`); `TimerFires`, `Ask`, `AskFails`,
`HearOpen`, `HearDone` and `HearFailed` are its callback, one request after another, and go on running after the effect
was cleaned up. `RowsRead`, `RowsShown` and `RowsFail` are `load`, several at once; `Rerender` is a changed filter, tab
or token, `Reload` a fresh page. `due`, `crossed`, `missed` and `overtaken` are bookkeeping: the newest version whose
marker was dropped, cells edited under a running callback, jobs whose poll failed, and row answers out of order.

### The tracker modules

A header is a model string with its stripped and case-folded forms and the words it contains; a cell is a date, a
sequence of names (each a sequence of words) or a word, with a tag that tells spellings apart. `TrackerSchema` has
`resolve_header`, the role, deadline and start columns of a schema, normalisation, `_structural_fallback`, and the column
maps of `core/column_mapper.py`: `BuildColumnMap` is what detection keeps of the language model's terms for the headers
as they then are, `ResolveColumn` what `resolve_column` makes of a term, by the stored map or else by `COLUMN_ALIASES`;
`TrackerPeople` has `split_cell`, `PersonResolver`, `collect_assignments`, `count_observed_names` and `suggest_merges`.
`TrackerViews` has the state - the header row `raw`, the `rows`, `config`, `aliases`, `today` - and the actions that
change it: `EditCell`, `RenameHeader` (people, in Google), `DetectAllTabs` (with the model's answer or the fallback),
`UpdateProject`, `CreateAlias`, `DeleteAlias`, `NextDay`; every view is an operator over that state, because the code
recomputes it on every request. A view takes a `resolver` from `Resolvers`: each surface loads the alias table for itself
and goes on without one when the database fails (`api/dashboard.py:154-166`, `core/tool_dispatch.py:32-34`).
`TrackerReports` adds the health panel and the agent's reports. The operators repeat the code's differences: `summarize`
rewrites a field by the column map before it looks for a header (`Canonical`), so that a report may be refused or be of
another column than the one asked for, and says which in `field`; it looks columns up by index, falls back on other
headers, has a default for the ID column only on a tab without a schema (`IdColumn`), and compares dates its own way; the
data quality check sees rows without their trailing blanks.

## 3. Runs

Passing runs:

| Run | Instance | Shows |
|---|---|---|
| `write_queue` | 2 jobs on one cell, `MaxAttempts` 1, 2 crashes, 1 fault, fair | no job lost outside recovery's LPOP-RPUSH gap (`NoJobLost`), none in two places (`NoJobTwice`), bounded pickups, first pickups in order, newest write shown when nothing was replayed, truthful job status; the queue drains once crashes end (`Quiesces`), a start empties the processing list (`StaleJobsRecovered`), and every behaviour is one of `JobLedger` (`ImplementsLedger`) |
| `rows_cache` | 2 readers, 1 edit, a channel, invalidation by worker and webhook | a stamp equal to `modifiedTime` proves the stored rows current (`StampSound`); nothing old is served unless a read overlapped an invalidation and filled a tier (`StaleNeedsOverlap`) |
| `rows_cache_live` | 1 reader, 1 edit, a channel, a fault, fair | once edits and the channel end, reads return the sheet (`EventuallyFresh`) |
| `watch_channel` | 2 renewing reads, 1 administrator, 3 channels, 1 fault | renewals never close the channel that reads trust (`RenewalKeepsRowOpen`); an edit stays announced while the row keeps its channel (`AnnouncedUnlessReplaced`) |
| `sheet_write` | 2 jobs on 2 rows with two IDs or one ID twice, 2 attempts, 1 event, fair | writes land on the row of their ID (`LandsOnTarget`), no ID is given out twice (`AddedIdIsNew`), audit rows and verdict claim no write that was not made (`AuditTruthful`), undo replaces only what its entry wrote (`UndoRestoresOnlyItsOwn`), each as long as people, lost answers or crashes do not come between lookup and write; every job ends (`JobsEnd`) |
| `agent_turn` | 2 sockets, 2 turns, 2 iterations, windows of 3 and 4 messages, 1 fault, fair | messages are stored once (`StoredOnce`), the model API refuses only contexts with a torn turn (`RefusalsHaveCause`), the context is the newest part of the stored conversation without a gap (`ContextIsRecent`), enqueued writes are on record (`WritesRemembered`), turns end (`TurnsEnd`) |
| `chat_socket` | 4 sockets, 2 projects, 1 drop or rejection, 2 switches or departures, fair | the hook owns one live socket and knows its state (`OneLiveSocket`), answers keep to their connection's bubble (`AnswersKeepToTheirSocket`), one session per project unless two first connections raced (`OneSessionUnlessRaced`), a visited page gets connected (`EventuallyConnected`) |
| `grid_edits` | 2 edits of one or two cells, 2 callbacks and 2 row requests at once, 1 incident, fair | what a cell says of its edit is so (`MarkerTruthful`), the grid catches up with every write whose marker it dropped (`AppliedEditShown`), a poll that is due settles its cell (`PollSettles`) |
| `tracker_reports` | 2 rows, 7 columns, 2 starting sheets, 3 answers of the detection (one names a column twice), no column map, one of the headers or one that gives a header another's name, 2 changes, 2 days; with the alias table and without | all surfaces call the same work overdue (`OverdueAgrees`) and credit the same people (`PeopleAgree`); the timeline loses and doubles nothing (`TimelineWhole`); what a report passes over the health panel explains, and a blank report is of the column it says (`HealthExplains`) |

Runs that refute a statement of the repository (each is a finding in `PROJECT.json`):

| Run | Statement | What happens instead |
|---|---|---|
| `rows_cache_midscan` | an edit landing mid-scan is caught by the next check (`sheets/records_cache.py:272`) | the refill clears the dirty flag, and a live channel means no check |
| `sheet_write_failed` | a failed job changed nothing, so the cache is still accurate (`queue/worker.py:351`) | a bulk update whose batch failed writes row by row; an exception at a later row makes the verdict failed, and the rows written stay behind the cache |
| `agent_turn_valid` | the trimmed slice is still valid to send (`core/history.py:85`) | a turn torn by an exception between a call and its result is persisted and restored |

Known consequences that the properties name rather than forbid: a crash or Redis error between recovery's LPOP and
RPUSH loses the job (`dropped` in `NoJobLost`); a reader that began before an invalidation can fill a tier after it
(`raced` in `StaleNeedsOverlap`); a notification of a replaced channel is ignored (`AnnouncedUnlessReplaced`); an
append repeated after a lost answer adds the row twice (`lost` in `AddedIdIsNew`); a row that people move between
lookup and write receives another row's value (`moved` in `LandsOnTarget`); two first connections of a user split the
conversation (`raced` in `OneSessionUnlessRaced`); an edit of a cell under a running poll may lose its marker (`crossed`
in `MarkerTruthful`), and an older row answer may stay on screen until the next reload (`overtaken` in
`AppliedEditShown`: `load` does not check that its answer is the latest asked for).

Behaviour of the code that the models have and that a document or a reader may not expect:

- A replayed write is queued behind newer writes of its cell and overwrites them (`queue/worker.py:114`), though
  `src/TDD.md:2802` calls a replay harmless; `NewestWriteShowsUnlessReplayed` excepts it.
- A registration that Drive refuses has stopped the old channel already (`api/watch.py:137`), although its answer says
  "Reads are unaffected" (151): reads trust a channel that announces nothing until it expires. `RenewalKeepsRowOpen`
  excepts it (`cut`).
- A worker that picks a job up before the producer's first SET of the job's state erases the owner for good, when its own
  read-modify-write began before that SET and ends after it (`queue/producer.py:74`): the user who made the job is then
  refused its status. `StatusTruthful` claims the owner up to the first pickup. It does not claim that a status is the
  worker's latest report either: a late first SET or a report that was lost leaves an older one.
- `summarize` sends the field it is asked for through `resolve_column` first (`sheets/read.py:475`, 511, 536), although
  `sheets/read.py:366` tells why `search_rows` no longer does. A tab without a stored column map is read by one customer's
  `COLUMN_ALIASES`: a count by its "Owner" is refused for want of a "Business Owner", and a blank report on "Ref", which is
  close to "Std Ref", too. A map made before a header was renamed may send the new name to the old one, and the
  report is refused; a map in which one header's terms include another header's name reports on the
  first column when asked for the second. The properties are therefore about the `field` a report says it is of, and only with `MapCurrent` (there is a map
  and its headers are all there) that no report is refused; that the field is the one asked for is not claimed.
- A surface that alone failed to load the alias table shows the unmerged names while the others show the merged ones.
  `PeopleAgree` compares names among surfaces that all have the table or all lack it, and otherwise the roles taken.
- A write that follows `switch_module` in one turn still goes to the tab the turn began with
  (`core/agentic_loop.py:191`), although the prompt tells the model to switch first (`core/tool_schemas.py:479`).
- A job whose mutation failed ends as "done" (`queue/worker.py:421`); the grid takes that for written and drops the
  marker (`useRowEdits.ts:133`), so the edit reverts without a message.
- The grid asks about a queued job once, 8 s after the markers last changed (`useRowEdits.ts:123`): a job that has not
  ended by then is not asked about again until a marker changes or the page re-renders, and its cell stays "queued",
  which the comment at 120 says it would not. `PollSettles` is therefore about jobs that have ended while a poll is due.
- The consistency checks skip rows that are shorter than their columns (`core/data_quality.py:193`), as a finished row
  with a blank sign-off date in the last column is, without an entry in `skipped`.
- A bar whose dates are reversed counts as overdue by its start (`core/timeline.py:271`). `summarize` falls back on a
  "Dev Status" column that no dashboard uses (`sheets/read.py:568`). Of two headers that differ in case, `_col` takes the
  last and `resolve_header` the first. `count_by_field` and the timeline's groups key on spelled names, the workload
  folds case. One column under two spellings in `people_columns` counts a row twice. The fallback stores "Planned Start
  Date" as both deadline and start. A cell of delimiters only is assigned for the health panel and names nobody.

Bounds. Two jobs suffice for order, replay, duplicates and undo, because those relate one job to another; the retry
limits (3 pickups and 4 attempts of a call in the code) are 1 and 2, so that every retry decision occurs. Two crashes
allow a crash during the recovery from a crash. In `rows_cache` the webhook and the worker invalidate at once while two
readers refill; `rows_cache_live` trades the second reader for a fault and fairness. Three channels are one
registration and two racing renewals. In `sheet_write` crashes, lost answers, failed reads, failed audit inserts and
edits share one bound, `MaxEvents`: each alone meets every interleaving of two jobs and an undo. `TwoRows` starts the
tab with two different IDs or with a duplicate; `DispatchBulk` names all IDs, found or not. In `agent_turn` the windows
are shorter than one turn with two tool calls (5 messages), so both limits cut inside turns; one tab is enough there.
In `chat_socket` four sockets are a first connection, two replacements and a retry. In `grid_edits` two edits of one
cell race each other and of two cells share a poll; two callbacks and two row requests overlap in every way, and one
incident is any lost request, raised or recovered job, filter change or reload. In `tracker_reports` two rows can
duplicate an identifier and share groups; `MaxGroups` is 1, so that two groups already fold, a sample of two names is
large enough for the profiler, two starting sheets are one that matches its schema and one that does not, and two
changes let a rename meet an edit, a detection or an alias. `Legacy` has the entries of `COLUMN_ALIASES` that the headers
of the instance are or resemble, `Close` what difflib finds at its cutoff, and `Claiming` a map that gives "Owner" the
name of "QA"; a tab starts with no map, with one of its headers or with what the model gave. All other values are model values;
symmetry is used only where no liveness is checked.

Fairness. `WriteQueue`: the worker's steps and its restart are weakly fair (one process in a loop, restarted by
docker); crashes, faults and enqueues are not, and crashes and faults are finite. `RowsCache`: reads, the halves of an
invalidation and the two clocks are fair, edits and registrations are not, and the channel ends; that last is an
assumption, because a renewed channel need not, and `rows_cache_midscan` shows why it is needed. `SheetWrite`: the
worker's step, because calls of Google and Postgres return or time out; nobody has to ask, edit or crash. `AgentTurn`:
the steps of a turn for each socket, for the same reason; clients need not connect, prompt or stay. `ChatSocket`: the
retry timer, and that a connection attempt is answered. `GridEdits`: timers and requests end; jobs need not run. The
tracker has no fairness: its properties are of states. Deadlock is not checked in `write_queue`, `sheet_write`,
`chat_socket`, `grid_edits` and `tracker_reports`, where everything may be done or the bounds be used up; elsewhere it
is.

## 4. Proofs

All theorems hold for every value of the constants under the modules' `ASSUME`s (which TLC evaluates in the runs).

- `WriteQueueProofs`: `TypeCorrect`, `Durability` (`NoJobLost`), `Uniqueness` (`NoJobTwice`), `Backing`
  (`HeldJobIsBacked`: from pickup to LREM the job in hand is in the processing list), `RetryBudget` (`AttemptsBounded`)
  and `Refinement` (`ImplementsLedger`: each action maps to one of the ledger's or to a stutter). None of these is
  inductive alone: a step that moves the envelope in hand is safe only if the processing list, or nothing, holds it,
  according to where the worker is. The invariant `IInv` is the types, `PlaceInv` (which list each pushed, unfinished
  job is in, for each location of the worker, and that no two elements share an id) and `AttemptInv` (the counter in an
  envelope counts its pickups). Lemmas say what append, pop and removal do to the ids of a list. `FifoPicks`
  (`FirstPicksInOrder`) adds `OrderInv`: the jobs nobody has picked up are in the queue in the order of enqueueing,
  whatever was re-queued among them. `NewestShown` (`NewestWriteShowsUnlessReplayed`) adds `ShowInv`: unless a job is
  replayed, the worker is busy with the one picked up last, so what it writes is enqueued after all that is written.
  `StatusCorrect` (`StatusTruthful`) adds `StatusInv`: what the worker is about to say of a job is already so.
- `RowsCacheProofs`: `TypeCorrect`, `StampCorrect` (`StampSound`), `StaleOnlyByOverlap` (`StaleNeedsOverlap`). `IInv`
  adds that a stamp is never newer than what was scanned after it, in the readers' hands as well as in the store
  (`StampInv`), and, without a race, that whatever a reader holds is at least as new as the floor it began at, and
  that between the halves of an invalidation the Redis entry stays empty (`FreshInv`).
- `WatchChannelProofs`: `TypeCorrect`, `RenewalSafe` (`RenewalKeepsRowOpen`), `Announced`
  (`AnnouncedUnlessReplaced`). `IInv` adds that a channel waiting to be committed is known to nobody but its opener
  (`NewInv`), from which a renewal can only stop a channel the row no longer names (`StopInv`).
- `SheetWriteProofs`: `TypeCorrect`, `AuditCorrect` (`AuditTruthful`), `LandingCorrect` (`LandsOnTarget`),
  `AddingCorrect` (`AddedIdIsNew`), `UndoCorrect` (`UndoRestoresOnlyItsOwn`). The types rest on `ShapeInv` (an edit has a
  target; the rows of a write call are bounded, so that the written tab has a last row). `NotedInv` adds where each
  target of a job is while nothing has failed: written, in a write call, or waiting. `AimInv` says of the rows of a write
  call what the lookup found, as long as nobody has changed the tab; repeated calls keep it because writing values moves
  no ID (`HitsKept`). `UndoInv` carries what the undo's look found through the queue to the write, for jobs that are
  still `calm`. That a new ID exceeds all others needs the greatest member of a bounded set (`GreatestNatural`) and the
  bound itself (`IdsBounded`), both from the well-foundedness of `<`, since induction over the rows is out of reach.
- `AgentTurnProofs`: `TypeCorrect`, `NoDuplicates` (`StoredOnce`), `WritesOnRecord` (`WritesRemembered`),
  `RefusalsExplained` (`RefusalsHaveCause`), `ContextRecent` (`ContextIsRecent`). `HandlerInv` says what a handler has by where it is; `RunInv` that a turn's
  own messages follow the window it sent and are numbered from the user's; `FreshInv` that running turns are distinct and
  nothing of them is stored, so that a save stores nothing twice; `WritesInv` where the result of each write is.
  `SoundInv` is what refusals need: outside turns that an exception tore every call is answered by the messages right
  after it, and a result has its call before it or only results before it. Every cut keeps this (`FromSound`), what
  `TrimForModel` keeps starts with no result, and appending a turn, whose first message is the user's, to the store parts
  nothing (`StoreSound`).
  For the context, `PastInv` says that what is stored, remembered or sent as history is of turns that have ended, and
  `RecentInv` that a handler's memory is the end of the store, apart from the turns it could not see and those that
  were not saved: loading, trimming and remembering a turn each take the end of something that was one.
- `ChatSocketProofs`: `TypeCorrect`, `SingleSocket` (`OneLiveSocket`), `AnswersApart` (`AnswersKeepToTheirSocket`),
  `SingleSession` (`OneSessionUnlessRaced`). The invariant adds that the current socket is alive, heeded and made for
  the active project (`CurrentInv`), that handlers are left only on it and on closed sockets (`HandlersInv`), that the
  last bubble waits for it once it was prompted (`BubbleInv`), and that in a project nobody raced for at most one request
  creates a session, and only where there is none (`SessionInv`).
- `GridEditsProofs`: `MarkersTruthful` (`MarkerTruthful`) and `EditsShown` (`AppliedEditShown`). A marker is truthful
  because whoever acts on it is about the cell's last edit: the armed timer is about the markers as they are
  (`TimerInv`), a queued marker belongs to the edit answered last (`QueuedInv`), and so does what a running callback
  asks about, unless the cell is `crossed` (`AskedInv`). The grid catches up because, as long as no answer has overtaken
  another, it is new enough or some running request will make it so (`ViewInv`), the sheet being as new as whatever
  was heard of (`VersionInv`).
- `TrackerReportsProofs`: `TypeCorrect` (`TypeInv` and `SchemaInv`), `OverdueCorrect` (`OverdueAgrees`), `HealthCorrect`
  (`HealthExplains`), `TimelineCorrect` (`TimelineWhole`), `PeopleCorrect` (`PeopleAgree`), for any tab, schema, column
  map, aliases and date, with the alias table or without. The properties are of single states, so the invariant is small:
  the tab is a table and the aliases are typed (`TypeInv`, alone in `TabCorrect`), and the schema in use has a list of
  headers or absent ones for its people and a column map that is a list of headers with their terms (`SchemaInv`, which
  detection, the fallback and an admin's schema each establish; it says nothing of the other fields). The weight is in
  the operators. Fields: what a map makes of a term is one of the map's headers (`ResolvedColumn`), so that while these
  are all there no field is taken for a missing column (`CurrentColumn`), and a blank report that is given lists the blanks
  of the column it says it is of (`BlankReport`). Rows: the agent's `Index` and the grid's `resolve_header` reach the same cell when no two headers
  differ by case alone (`IndexAgrees`). Sums: a count per key adds up to the elements that have a key (`SumOfShares`),
  which gives the workload's, the panel's and the agent's totals. Lists: what the folds of `TrackerPeople` and
  `TrackerViews` keep (`DistinctProperties`, `CanonicalsProperties`, `OnlyProperties`), what a sort returns
  (`InOrderProperties`) and what flattening keeps (`FlattenProperties`). Groups: every item that can be drawn is under
  its labels, in none twice (`GroupsProperties`); folding the small groups loses none, and its label, `Other` numbered
  until it is free, exists by the pigeonhole principle (`FoldGroupsProperties`, `OtherFree`). People: a row credits a
  person once in a role (`AssignmentsProperties`), the roles taken are the same with and without the alias table (`RolesTaken`), the person filter and the
  digest show those credits (`PersonFilter`, `DigestNames`), and where the schema names no column twice the agent's counts are those credits too (`CountsAgree`).
  Two misspellings of one name differ at a word, so the rule that decides for one of them decides against the other,
  unless the words of one are some of the other's, which `suggest_merges` may offer both ways (`MergesOneWay`). What
  `PeopleAgree` presumes is in it: where it compares columns by name, that no two headers differ by case alone, and
  where it compares counts, that the schema names no column twice; the runs have states with both and without.

The assumptions on constants of the tracker: trimming a header does not change its folded form (`SpellingAssumption`);
a starting sheet is a table, each column with a header or none and a cell in every row (`SheetsAssumption`); a name an
admin submits is blank or has a part (`AliasesAssumption`); a schema somebody gives has the fields of one, absent
or not, a list of columns for its people and a column map that is a list of headers with their terms
(`AnswersAssumption`): a `people_columns` that is no list is read like an empty one (`core/schema.py:33`); and so is the
map the code falls back on, while what is close to a text is a list of texts (`ColumnMapAssumption`).

Recursion is the folds of the community modules. What they compute is shown without induction: a fold is a function on
`0..Len(s)`, and if a claim about its values failed there would be a least place where it does (`CountUp`,
`LeastExists`), where one step of the fold contradicts it.

Only model-checked: liveness (`Quiesces`, `StaleJobsRecovered`, `EventuallyFresh`, `JobsEnd`, `TurnsEnd`,
`EventuallyConnected`, `PollSettles`), which the prover's backends do not do. Every other property of a passing run is
a theorem.

## 5. Abstractions and what is not modelled

- redis-py's own retries of a command are not modelled: a command is executed once, or fails, or is executed and
  reported as failed.
- Two scans that commit in Postgres at the same instant are one after the other; a conflict of their inserts is a
  failed `store_tab`.
- `modifiedTime` is taken to change with every edit, and scans of one page to be instantaneous; headers and rows are
  scanned at different instants.
- A caller with another `data_start_row` appears as a `read_tab` that answers None.
- `SheetWrite` has one column, fixed headers and IDs of one prefix and module; `format_row` after an add, which changes
  no value, is left out; `values.batchUpdate` takes effect as a whole or not at all. The dispatcher's early answers to
  ambiguous or unknown IDs change no state. The permission to undo is `UndoEnqueue`'s free choice to deny.
- `AgentTurn` leaves out streaming, the wording of frames, the second try after leaked markup (its failure is
  `ModelFails`) and what permissions decide (`ReadOrRefuse` is a free choice). The rows of one `save_turn` are taken to
  get contiguous ids. Nothing calls `clear_history`, and it is left out.
- `ChatSocket` leaves out what a turn does, the replay of the history into an empty store and the relay of queue events.
  A frame is taken to write into the last bubble, whatever it says.
- `GridEdits` leaves out values and wording; that the user retries a failed edit is a new edit. The hook's
  `queue_update` listener is left out because the project page never opens the socket that would feed it.
- The tracker modules: detection samples the rows above row 10 of the sheet, the model has two rows and samples both;
  the five criteria of `column_profile` are a share of at least eight in ten name words, a sample and distinct values;
  groups that start together are in any order; labels that people's names could imitate are told apart; scopes, severity,
  samples, sorting, paging and stale items are left out, and so is `toggle_project_field`, whose effect on the stored
  JSON depends on SQLAlchemy's change detection. The language model's answer is any of `Answers` or unusable,
  its column map any of `Synonyms` or none, and difflib's closeness the constant `Alike`. A `column_map` beside the tabs of
  a configuration, which detection does not write, is left out; so is the difference between an ID column that is absent from a
  stored schema and one that is null, of which `summarize` gives only the first a default. `completion_rate`, which
  treats its field as the modelled reports do, is left out.
- Permissions are one read and a decision table, administration of users is single-transaction CRUD, pages render: no
  state is shared and nothing is concurrent, so there is nothing for a model to find. Two boundary cases a reader should
  know of: an empty `allowed_fields` means no restriction (`core/permissions.py:22`); and the alias row that
  `core/aliases.py:53` recommends for a team called "R&D", which points at its own name, is refused (`api/aliases.py:101`).
- The legacy Streamlit application is not part of the deployed system.
- Security checks (tokens, sign-in) change no state and are left out.

## 6. Plan

Done: `WriteQueue` with `JobLedger` and the refinement, `RowsCache`, `WatchChannel`, `SheetWrite`, `AgentTurn`,
`ChatSocket`, `GridEdits` and the tracker modules, each with the proofs of its safety properties.

Left: the relay of queue events and the replay of the history in `ChatSocket`; `consistency_checks` in
`TrackerReports`, with the theorem that it reports every row it does not skip.
