# ac7 in TLA+

ac7 is a broker for a team of agents and humans (`apps/server`), the library its
fan-out is built on (`packages/core`), and a runner that sits next to each agent
(`packages/cli`). This directory holds TLA+ models of the parts with state worth
arguing about, TLC configurations that check them on small instances, and proofs
that hold for every value of the constants.

    tlc -workers 2 -config MCObjectives.cfg MCObjectives     # model-check
    tlapm ObjectivesProofs.tla                               # check the proofs

Line numbers are those of the modelled commit; `PROJECT.json` gives, for every
definition that stands for code, the lines it stands for.

## 1. How the system runs, and what that means for a model

The broker is one Node process over one SQLite database. SQLite is called
synchronously, so **a handler is atomic between two `await`s**; the await in front
of almost every mutation is the one that reads the request body. Three things
follow, and all modules use them:

* a handler that reads something before the body and uses it afterwards is two
  actions (`BeginX`, then the rest), with the request kept in `inflight` or
  `waiting`; one whose early reads cannot change is one action;
* each SQL statement outside a transaction is durable by itself, so where a handler
  writes twice there is an action or an alternative for the crash between the two;
* what is queued in memory (microtasks, timers, open requests) is lost with the
  process, what is committed is not.

A runner is another process: it knows the broker through HTTP answers and a stream
of events, both of which may be late, and the stream may lose events.

## 2. Inventory

| Component | State | Operations | Hard behaviour | Correct when | Module |
|---|---|---|---|---|---|
| Objectives service (`objectives.ts`, `app.ts` 1064-1611) | rows, audit events, thread messages, queued pushes | create, update, complete, cancel, reassign, watchers, discuss, publish | checks before the body, commit before push, crash | audit log explains every row and every message, an end is an end | `Objectives`, `ObjectiveLifecycle` |
| Runner's copy of its objectives (`objectives-tracker.ts`, `forwarder.ts`, `runner.ts`; `GET /objectives` in `app.ts`) | open set, debounce timer, fetch in flight, markers | subscribe, receive, debounce, fetch, mark | two reads, dropped refresh, lost and unpublished events | a copy at rest is what the broker lists, markers pair up | `ObjectivesTracker` |
| Roster (`team-store.ts`, `members.ts`, `tokens.ts`, `auth.ts`) | members, presets, tokens | create, update, delete, presets, rotate, revoke, boot | stale target, dangling preset, torn writes | an admin remains, tokens follow members | `Roster` |
| Enrollment (`enrollments.ts`, `connect.ts`) | pending rows, device, its token | mint, poll, approve, reject, expire, purge | two directors, lost answers, crash, expiry | one decision, one hand-out, no lost token, devices end | `Enrollment` |
| Activity uploader and store | queue, batch in flight, timers, back-off | enqueue, flush, close, append | retry, caps, close during a flush | order, nothing lost silently, something always armed | `ActivityUploader` |
| File store (`files/`, `/fs` and attachments in `app.ts`) | entries, blob counts, grants, bytes on disk | upload, copy, move, mkdir, remove, attach | uploads in three waits, unlinks outside the transaction | counts are exact, a file has its bytes, the tree is a tree | `FileStore` |
| Channels (`channels.ts`, `app.ts` 868-1007) | channels, members with roles | create, rename, archive, join, leave | lookup before the body, two inserts | one active channel per slug, an admin in each | `Channels` |
| Sessions and TOTP (`sessions.ts`, `totp.ts`, `auth.ts`) | sessions, secrets, last counters, lockouts | sign in, present, sign out, enrol, purge | replay, guesses, names used again | a code is used once, a dead session stays dead | `SignIn` |
| Busy signal (`trace/busy.ts`, `http1-reassembler.ts`, `host.ts`, `hook-server.ts`, `busy-sniff.ts`, `busy-reporter.ts`, `busy-tracker.ts`) | handles, pending requests, heartbeat, reports, server entry | start, finish, age out, report, expire | unordered and lost reports, poisoned connections, dead runners | the count is the work, the spinner follows it | `BusySignal`, `Presence` |
| Fan-out and web client (`broker.ts`, `sqlite-event-log.ts`, `live.ts`, `messages.ts`, `thread-history.ts`) | log, socket, requests for history, message store | push, connect, backfill, page, merge | answers in any order, reconnects, equal times | sorted, nothing missing but what is stated | `Transcript` |
| Codex adapter (`agents/codex/`, `commands/codex.ts`) | buffer, timer, dispatch, view of the thread, connection | notify, flush, retry, teardown | races with a turn's end, one flush at a time, exit of codex | in order and once, nobody waits for ever | `CodexSink` |
| Bridge and IPC | requests by number | request, answer | - | - | not modelled, see 8 |
| Trace capture | buffers, parsers | parse, redact | - | - | only its request queue, in `BusySignal` |
| Web push, platform connection, wizard, SDK, CLI commands | | | | | not modelled, see 8 |

The services interact through the database, through `broker.push`, and through the
roster: an objective's thread is pushed to names on the roster, an approved
enrollment creates members and tokens, a deleted member leaves sessions and channel
rows behind, an objective event makes a runner list its objectives again over HTTP.

## 3. Modules

**`ObjectiveLifecycle`** is the promise of `objectives.ts:10-17`: four states, two
terminal, one assignee who changes only while the objective is open.

**`Objectives`** is the service. `objectives` and `audit` are the two tables,
`Commit` their transaction; `outbox` is what `queueMicrotask` holds, `thread` what
reached the event log; `inflight` holds requests that passed their check and wait for
a body. `BeginComplete`, `BeginUpdate` and `BeginDiscuss` are the halves of handlers
before that wait, `Complete`, `Block`, `Unblock` and `Discuss` the halves after it.
`Create`, `Cancel`, `Reassign` and `UpdateWatchers` check nothing that can change and
are whole. `Create` has an alternative in which mirroring the attachments throws
after the commit. `Publish` may fail, `Crash` loses `outbox` and `inflight`.
`Abstract` maps the module to `ObjectiveLifecycle`.

**`ObjectivesTracker`** has the broker's objectives as one member sees them (`status`, his
`tie` to each, and whether he `creates` objectives), the `stream` of his subscription, the
tracker's debounce `timer` and `inflight` flag, the `answers` of its two list requests
(each a snapshot of its own), the runner's `open` and the activity `markers`. `Listed` is
what the broker answers: the assignee filter of the request holds only for a member who may
create objectives, any other gets what he is assigned, originated or watches
(`app.ts:1182-1199`); the briefing a runner starts from has the assigned ones (`Briefed`).
A `Change` is announced, or nobody hears of it: because the subscription is down, because
the push failed (`app.ts:1136-1142`), or because mirroring the attachments of a new
objective threw after the commit (1285-1314). `Regrant` takes or gives `objectives.create`,
which no event announces. `stale` is a history variable: why the copy may differ.

**`Roster`** keeps raw permission lists as the rows do, and resolves them at every
read (`Resolves`, `Granted`); an entry that resolves to nothing makes the read throw,
for one name (`Readable`) or for everyone (`RosterReadable`). `waiting` holds the
requests with a body; `Update` carries with it the permissions its target had before
the wait. `era`, `slips` and `torn` are histories: which of several members of one
name, which unguarded step cost an admin, whose removal a crash cut.

**`Enrollment`** EXTENDS `Roster` and composes with it: every step of the roster is a
step here that leaves the enrollments alone, an approval changes both, `Restart` is
the boot of both. `rows` is the table, `device` and `held` are the `ac7 connect`
process, `late` says which codes are past their time. The clock is the action
`Expire`. `issuedFor`, `verdicts`, `handouts` and `strays` are histories.

**`ActivityUploader`** is the runner's queue of activity events and the table they end
in. `queue`, `queueBytes`, `timer`, `retry` and `closed` are the fields of the class,
`batch` and `request` the flight that `inFlight` stands for, `closing` says that
`close()` awaits it. `Send` is `doFlush` up to its await, `Land` what follows, with the
batch put back (`Requeue`) or not (`Succeed`). `FailBroken` covers a request that never
arrived, one whose append failed, one whose answer was lost, and one the server carries
out later (`ProcessLate`); `FailRefused` is an answer 400. `maxBatchBytes` and
`maxBatchAgeMs` only say how soon the timer fires, so they do not appear; nor does the
length of a back-off. `lost` and `troubles` are histories.

**`FileStore`** has the three tables (`entries`, `refs`, `grants`) apart from the bytes on
`disk` and the `unlinks` asked for. A path is a sequence of segments. An upload is cut
where the code awaits: `BeginUpload` makes the directories, `Look` and `Rename` are the
two halves of `putFromStream`, `Commit`, `Refuse` and `CommitFails` the transaction.
`Copy`, `Mkdir`, `Move`, `Remove` and `Post` (attachments and their grants) touch the
tables only and are whole. `RollBack` is a transaction of an upload or a copy that fails
(`CommitFails`, `CopyFails`): the rows are as before, the unlink asked for is not taken back. `Alike` says which paths the `LIKE` pattern of a directory
matches besides those below it. `leaked`, `exposed` and `outlived` are histories: who
counted a reference twice, for which bytes an upload and an unlink raced, which upload
came back to a directory that was gone.

**`Channels`** numbers rows in the order of insertion, because several may bear one slug
and `getBySlug` (`Resolve`) takes the first, archived or not. `Create` checks through
that lookup and through the partial unique index, and may lose its second insert.
`BeginAdd` and `Add` are the halves of `POST .../members`. `callers` are those whose
request may have been authenticated before their account was deleted. `adrift` is a
history: channels whose first admin was never inserted, or that everybody had left.

**`SignIn`** counts time in TOTP periods and takes a code to be a secret and a period.
`Matches` is the loop of a sign-in without a name and the lookup of one with a name.
`Refuse` is a failure, `Locked` the lockout; `Request`, `Orphaned` and `SignOut` are what
the auth middleware does with a session. `accepted`, `wrong`, `cleared`, `minted`, `ended`
and `revenants` are histories; `wrong` keeps every refusal of a key, `cleared` when a running
lockout of it was forgotten, by a sign-in through it or by a restart.

**`BusySignal`** counts handles: `Request`, `Respond`, `Poison` and `Close` are the
reassembler with the host's map of handles, `ToolStarted`, `ToolCompleted` and
`DrainTools` both the hook server and the codex sniff, `AgeOut` the timers, `CloseAll`
and `ForceFinishAll` the end. `lost` is a history: live handles nothing but their timer
will finish. **`Presence`** EXTENDS it and adds the reporter (`Notify`, `Heartbeat`,
`Abort`), reports under way as counts by kind, because they are alike, the handler
(`Admit`, `Land`), the tracker's entry with its time-to-live, and runners that die and
are launched again.

**`Transcript`** is one viewer. `log` is the table, as far as his unfiltered history query
can return it: that query has every row sent to no one by name (`sqlite-event-log.ts:103-109`),
so messages of channels he is not in and of others' objectives are in it, count against its
limit and are stored, though no frame of them is sent to him. `mine` says which messages are
addressed to him, `Shared` which threads have others. `wire` the frames of the `link`,
`fetches` the requests for history: asked, answered by `Answer` with what the log holds
then, and merged by `Arrive`, or failed. `Appended` and `Prepended` are the merges with
their fast paths. `beyond` is a history: messages that a request should have brought and
no later one will. `failed` is the connection whose backfill failed last.

**`CodexSink`** has the sink's `buffer`, `timer` and `flight`, what the adapter has `seen`
of the thread, the two pipes, and codex itself, which is external: it answers in order,
may refuse, fall into an error, unload its thread or exit. `Dispatch` is `dispatchOnce` up
to its await; `Finish` and `Retry` follow it; `waiting` is a flush that awaits another.
`Read` handles a line, `Cleanup` is `cleanup()`, when stdout ends (`StdoutEnds`) or a write to
a codex that is gone fails with lines unread (`StdinBreaks`), `Teardown` to `Close` the teardown
step by step. What follows an await runs before the next thing from outside (`Quiet`).

The operators marked `mutant` are plausible bugs of the definition that follows them.
They are used by no specification.

## 4. Runs

| Run | Instance | Distinct states | Shows |
|---|---|---|---|
| `objectives` | 1 objective, 3 members, 3 audit events, 1 post, 2 waiting requests, 1 fault | 668,061 | invariants, `EventsAnnounced`, `ImplementsLifecycle` |
| `tracker` | 2 objectives, 3 changes, 1 trouble | 1,129,596 | invariants, `ComesToRest` |
| `roster` | 2 names, 2 connections, 3 tokens, 4 edits, 1 crash | 611,312 | invariants |
| `enrollment` | 2 names, 2 connections, 1 device, 2 tokens, 2 edits, 1 crash, 1 lost answer | 1,070,323 | invariants, `EveryDeviceStops` |
| `uploader` | 6 events, 3 queued at most, batches of 2, 2 broken requests, 1 refused event | 104,480 | invariants, `Delivered` |
| `files` | a manager and a crew member, 6 paths, 2 contents, 2 uploads at a time, 3 writes, 1 edit, 1 post, 1 fault | 1,510,428 | invariants |
| `files_lookalike` | 5 paths, two of them alike, 1 write, 2 edits | - | `RemovesOneSubtree` fails |
| `channels` | 2 names, 2 slugs, 3 channels, 1 waiting add, 1 deletion, 1 fault | 991,450 | invariants, `ReadOnlyOnceArchived` |
| `signin` | 2 names, 2 sessions, 3 periods, 2 secrets, lockout after 1 (2 without a name) of 4 refusals in windows of 2, 1 fault | 8,802,262 | invariants |
| `presence` | 2 handles, 1 connection with 2 stamps, 1 tool, ages and time-to-live of 1 tick, 2 reports under way, 1 lost, 1 crash | 698,376 | invariants, `SpinnerStops`, `WorkIsSeen` |
| `transcript` | 2 threads, one with a history and one with messages for others, 3 messages at 2 times, limits 2, 1 and 1, 1 break, 1 failed request | 11,300,697 | invariants |
| `codex` | 3 events, 1 trouble, an exit | 1,170,525 | invariants, `EventsSettle`, `TeardownEnds` |

**Why these bounds.**

* `objectives`: objectives of different ids share only the microtask queue, which is first
  in first out, so one id is enough for everything but its order. Three members are an
  assignee, the next one, and a watcher who is neither; two waiting requests let either of
  two stale checks come first, and a third event after a stale one is where an ended
  objective would come back.
* `tracker`: a wrong copy takes a change between two answers and another one behind it;
  three changes leave one over, for a permission or for an event that is never published.
  Two objectives of any status and tie at the start are one that moves and one that stays.
* `roster`: a stale guard takes a promotion, a demotion and the late update; four edits
  leave one for the preset. `enrollment`: every property is about one code, and two names
  let its member be removed and created again. Two connections let two directors decide
  it while both their bodies are read: both have passed the permission check, and the
  row is looked up when a body is there. Every member is an admin by preset or has no
  permission; two tokens are one minted for the code and one to sign in with.
* `uploader`: the queue needs four events behind a batch to overflow by count, and events
  of different size to overflow by bytes; the sixth is bigger than the cap by itself, and
  is the one the server refuses. Two broken requests leave two copies of a batch under way.
* `files`: a shared content takes two writes and a third to overwrite one of them; two
  uploads and one edit are the race of a re-upload with an unlink and of an upload with the
  removal of its directory, or of one two levels up. Contents and connections are interchangeable.
* `channels`: a slug is archived, reclaimed and reclaimed again in three rows. Slugs are
  interchangeable.
* `signin`: a code can be offered in three periods, its own and one on either side. The
  codeless key allows two failures: one at the end of a window and two at the start of the
  next are the most that a span of its length holds, and the fourth refusal would be one too
  many; a key with a name allows one, and one more after each clear. Names and session ids
  are interchangeable.
* `presence`: two pipelined requests that share a stamp and a tool besides are three claims
  on two handles. Two reports under way can overtake each other. Longer ages only put off
  what one tick brings: no transition compares two ages.
* `transcript`: with a backfill of one message, two messages are a gap and the third comes
  live; two messages at one time straddle the end of a page; one break gives two
  connections whose backfills overtake each other. A message for others in `obj` takes the
  place of one for the viewer in a window of one.
* `codex`: one event out, one put back and one that came meanwhile are three.

Deadlock is not checked: the bounds stop every model, and a process nobody calls may rest
for ever.

**What is assumed of the schedule.** `Objectives`: a queued microtask runs before the
process waits for input again (`WF(Publish)`); no request need ever come.
`ObjectivesTracker`: the runner's loop reconnects, receives, fires its timer and
handles answers, and the broker answers (`WF` of each); no change need happen and no
trouble need end. `Enrollment`: time passes and a device that has not ended looks at
its clock (`WF(Expire)`, `WF(GiveUp)`); nothing is assumed of the broker, and
`EveryDeviceStops` holds when it dies for good. `ActivityUploader`: timers fire, and a
request is answered or given up (`WF` of `Flush`, `Retry`, `Process`, `Succeed`,
`FailRefused`); requests break finitely often, and one given up may never be carried
out. `Delivered` excepts an event the server refuses: the code retries it for ever.
`Presence`: clocks run, the interval and every handle's timer fire, a report under way is
authenticated and carried out unless it is lost; nothing is assumed of responses, hooks,
connections or the runner, so `SpinnerStops` rests on ages and time-to-live alone.
`CodexSink`: the process runs what is due, codex answers, ends its turns and loads or
recovers its thread unless it exits; a teardown need only come once codex has exited.
The other models promise nothing that needs time to pass.

## 5. Where the code and its documentation part

One disagreement is a run of its own:

* `RemovesOneSubtree`: `remove()` takes "the target dir plus every row under it"
  (`filesystem-store.ts:654-655`), but finds the rows with `path LIKE '<dir>/%'` (line 251),
  which ignores case and lets `_` match anything: removing `docs` takes the files in `Docs`.

The others are exceptions that a property which holds states in so many words:

* `ActorsWereEntitled`: `POST /objectives/:id/complete` is "assignee only"
  (`app.ts:1359`), checked before the body and not again: whoever completes was the
  assignee at an earlier time.
* `QuietCopyIsRight`: the tracker keeps its set "in sync with the server"
  (`objectives-tracker.ts:2`), but drops a refresh that is due while a fetch is out (line
  48), hears of no change whose push failed and of no change of its member's permissions, and
  an id missing from the copy may have moved between its two lists, though
  `runner.ts:327-329` takes it for closed. The copy is "this agent's authoritative open
  plate" (`objectives-tracker.ts:13-16`) only for a member who may create objectives: for
  any other the broker ignores the filter the tracker sends and lists what he originated or
  watches as well (`app.ts:1182-1199`), so the copy grows with the first refresh after
  the briefing. The model follows the code, and the property speaks of what is listed.
* `AnAdminRemains`: `PATCH /members/:name` must not demote the only remaining admin
  (`permissions.mdx:121-123`), but looks at the target as it was before the body
  (`slips`). Deleting a preset "silently removes those leaves on next read"
  (`app.ts:2042-2043`); the next read throws, and so does the next boot.
* `NothingLostSilently`: `close()` makes "exactly one final flush attempt per remaining
  batch" (`activity-uploader.ts:141-142`); it tries one batch, or none while one is in
  flight, and drops the rest (line 164).
* `RefsCountEntries`: overwriting a file with the bytes it has counts a reference more
  (`leaked`), so those bytes are never unlinked. `BytesPresent`: an upload that finds its
  bytes on disk does not see the unlink under way, and an unlink asked for inside a
  transaction outlives its rollback (`exposed`). `TreeClosed`: an upload commits under a
  directory removed meanwhile (`outlived`). `Post`: an attachment in a channel is granted
  to the whole team (`app.ts:778`).
* `OneActivePerSlug` rests on the index alone: `getBySlug` may show an archived channel in
  front of the active one that reclaimed its slug (`channels.ts:103-107`), which then
  cannot be reached by its name. `AnAdminInEach`: create inserts the admin outside the
  transaction, deleted members keep their rows, and whoever joins an empty channel chooses
  a role (`adrift`).
* `GuessesBounded`: the window counts from the first failure though its comment calls it
  sliding (`app.ts:398`): a span of that length admits one guess less than twice the limit.
  And the count is not kept through a success: a sign-in through a key forgets its
  failures, for the codeless key a sign-in of any member without a name
  (`app.ts:594-597`), and so does a restart, because the map is in memory. Each of those lets
  one limit more of guesses into the span, which the property adds (`cleared`). The comment's
  "global cap" on codeless guesses (`app.ts:253-259`) is a cap between two of them.
* `EndedForGood`: a session survives the deletion of its member until it is presented
  (`auth.ts:175`), and serves an account created in between under the same name.
* `SignalMatchesWork`: a poisoned connection never reports its requests
  (`http1-reassembler.ts:165`), and two requests of one chunk share a handle.
* `NothingMissing`: a gap longer than a backfill stays (`live.ts:95-98`), messages at the
  time where a page ends are skipped, and an older answer clears a newer error (`beyond`).
  The length of that gap is counted in rows of the feed, not in messages for the viewer:
  traffic in channels he is not in and in others' objectives fills the backfill, so a
  direct message sent while his socket was down can be missing, with no error shown, after an
  absence in which few messages were for him. In a thread with a history it stays within
  reach of its pages unless the thread holds something as old.
* `FlushedAtTheEnd`: events held back because the turn is not known yet go down with the
  sink; `turn/started` does not flush them, a later event or status does.

## 6. Proofs

The `...Proofs` modules EXTEND their component and TLAPS; `RosterProofs` covers `Roster` and
`Enrollment`, `RunnerProofs` the runner's `ObjectivesTracker`, `BusySignal` and `Presence`,
`MessagesProofs` `Channels` and `Transcript`.
All constants are arbitrary, within the named assumptions of the component; the bounds are
constants too, so the theorems hold for every bound. TLC checked each inductive invariant
on the run's instance before it was proved.

* **`ObjectivesProofs`**: `TypeCorrect` is inductive by itself. `AuditIsTheHistory`
  is proved from lemmas on how `StatusAt`, `HolderAt` and `WatcherAt` change when events are
  appended, one step per action; the two tables change only in `Commit`, and what a
  request brings from before its wait never reaches the row. `EndsAreFinal` needs
  `AuditIsTheHistory`: the row of an ended objective is terminal, so the guard of every
  other mutation is false. `NoStrangerActs` is strengthened by what a waiting request knows: its
  caller held the objective or may cancel. `LifecycleImplemented` shows each action to
  be a step or a stutter of the lifecycle. `ThreadTellsTheAudit` and `RightPeopleAreTold`
  share `TellInv`: each message, queued or in a thread, announces what the log has at its
  index, with the audience that follows from the log up to there; the queue is ahead of the
  threads; a post that waits for its body goes to names the log connects with the
  objective, then and later, because the log only grows. `LogInv` says that the row from
  which a recipient list is computed agrees with the log.
* **`RunnerProofs`**: `QuietCopyIsTheListing` rests on an invariant of the
  fetch: with no cause of staleness and nothing more on its way, the answers so far
  are what the broker lists now. `ObjectivesAreBracketed` goes through `Bracket`, the same
  statement about any prefix of the markers: one refresh appends at most one marker for
  each id, because it compares sets of ids, not the two lists. `HeartbeatFollowsWork` needs
  that nothing is live while no runner is up. `CountIsTheWork` is about the keys of handles:
  a live one is named by a request that waits or a tool that runs, or is in `lost`
  (`LiveIsNamed`), two requests that wait under one stamp are marked as sharing it
  (`RepeatsAreShared`), and the handle of one that shares with none is set
  (`AskedIsCounted`).
* **`RosterProofs`**: `TheTeamKeepsAnAdmin` follows from a statement about every step:
  if it takes the last admin, it leaves a mark in `slips`. The delicate case is `Update`,
  where the permissions carried across the wait and those of the moment may differ.
  `TokensBelong` needs that a name not on the roster owns no token, but for `torn`.
  The three ledger properties of enrollment are inductive only together
  (`Ledger`): a row holds a token exactly when approved, its token was issued for it
  and handed to nobody, and a verdict is out only while the row is settled or gone.
  The roster's theorems carry over to the composition from the lemmas about its steps.
* **`ActivityUploaderProofs`**: `QueueStaysInReach` and `QueueNeverStranded` are
  inductive together with the types of queue and batch and with `TimerIdle`: a running
  flush timer means an open uploader with no flight, so a flush replaces no batch.
  `ClosedIsQuiet` follows from `TimerIdle`. `RowsAreInOrder` and `EveryEventIsAccountedFor`
  are inductive together (`LineInv`). A line of events is `Rooted` in a set when each event
  earlier than one of them is in the set or ahead in the line: the rows in what was dropped,
  the batch and every request given up also in the rows, the queue also in the batch. Cutting a line,
  joining two and appending the next event keep it so, and nothing else happens to lines.
  What `queueBytes` counts is a fold over a sequence, so no theorem speaks of its value.
* **`MessagesProofs`**: the types of `Channels` are inductive. `SlugsAreUnique` follows from the
  index alone, for `Create` and `Rename`. `ChannelsKeepAnAdmin` goes step by step: roles
  never change, `MayLeave` keeps a second admin, and a channel that is left empty is
  adrift. `ArchivedIsFinal` is an action property and needs only the types.
  `ThreadsStaySorted` rests on `RankHits`: under a strict order of a finite set each rank is
  that of exactly one element, so `Sorted` permutes what it sorts (`SortedSorts`) and
  `NewestFirst` lists a set. A merge then adds to a thread what is new of the answer and
  nothing else, on the fast path and off it (`Merges`).
  `ViewerMissesNothing` needs what is under way: the wire is the tail of the log
  (`WireInOrder`), a connection asks for one backfill, and a page ends where a held message
  begins (`FetchInv`). Once the backfill of this connection is answered, each message is held, on
  the wire, in that answer, written off, or deep (`MissInv`): none of the latest, older
  than all its thread holds, and no answer under way has an older one without it. A window is
  full or leaves nothing out, and what leaves the latest never comes back (`LatestAreNewest`,
  `LatestPasses`), so a message stays deep until a page brings it.
* **`FileStoreProofs`**: the types are inductive only with `RefsCountEntries` (a count that
  is exact never falls below zero), from what a put, a removal and a move do to the
  cardinality of the entries of one content. `BytesStay` needs `BytesKept`: unless its
  content is exposed, a file or a stored upload has its bytes and no unlink of them is
  asked for; the last reference goes only when the exact count says so. `TreeStaysClosed`
  needs no more than that a subtree holds whatever lies in one of its directories, and the
  same of what a pattern matches (`AlikeAssumption`).
* **`SignInProofs`**: `CodesAreUsedOnce` needs that a secret has at most one account
  (`OneHolder`), that every accepted period of that secret is at or before the counter of
  its account (`Ahead`), and that no code of a secret not yet drawn was accepted
  (`Untried`). `EndedSessionsStayDead` needs `Dead`: an ended session is gone or expired,
  and its id is never drawn again. `GuessersAreLockedOut` needs
  `GuessInv`, the books of every key for every span (`Balanced`): a lockout that began
  before the span has one of its failures outside it, one that began in the span does not
  elapse in it, and so only a clear makes room for the failures of another.
* **`CodexSinkProofs`**: `EventsAreTakenInOrder` goes along what codex took, the dispatch
  under way, the buffer and what waits for the thread (`PipeInv`): each in order, each below
  the next, at most one input in the pipe and one answer coming back, and no event
  nowhere. It needs what the sink's view of the thread's status may lag behind codex
  (`StatusInv`) and that no interrupt precedes the teardown (`HushInv`).
  `NothingLeftBehind` adds `LeftInv`: in the teardown, from the final flush on, an event
  from before it is still in the buffer only with nothing in flight and the thread not
  loaded, or active with its turn unknown. `CodexTypeCorrect` needs that no turn number
  outruns the stream (`TurnsKnown`): a dispatch is never empty, so a turn begins only with
  events newly taken, and those are in order and received (`FewEvents`); whoever speaks of
  a turn, the adapter, a request or a line, speaks of one that codex began.

Only model-checked:

* liveness (`EventsAnnounced`, `ComesToRest`, `EveryDeviceStops`, `Delivered`,
  `SpinnerStops`, `WorkIsSeen`, `EventsSettle`, `TeardownEnds`), which is out of this prover's
  reach;
* the type invariant of `ActivityUploader` as far as `queueBytes` is concerned, a fold.

## 7. Plan

Done: `Objectives` with `ObjectiveLifecycle`, `ObjectivesTracker`, `Roster`, `Enrollment`
over `Roster`, `ActivityUploader`, `FileStore`, `Channels`, `SignIn`, `BusySignal` with
`Presence`, `Transcript`, `CodexSink`; the proofs of section 6.

Next: an abstract specification of the uploader and of `CodexSink`, a line of events that
are delivered in order or given up, and the proof that both implement it.

## 8. Not modelled, and why

* Bridge and IPC (`bridge.ts`, `ipc.ts`): the state is a map from increasing numbers to
  callbacks, over one socket that keeps its order; nothing is retried or times out.
* Trace capture: parsing bytes, intercepting TLS and redacting have no protocol between
  actors. What they tell the busy signal is in `BusySignal`.
* Web push, platform connection: best effort against services outside the repository.
* The broker's pool of deliveries: the only subscriber in the repository writes to a socket
  and does not wait. The registry of who is online and when it was last seen.
* Web client: rendering and unread marks.
* Wizard, key encryption, TLS files: one-shot prompts, cryptography, file writes. What
  the wizard leaves behind is `RosterInit`.
* SDK, CLI commands, MCP tools: formatting and validation around the HTTP API.
* Sessions: JWT verification, cookies, the arithmetic of codes. Bearer tokens are in `Roster`.
* Inside the modelled parts: texts and titles; member roles and instructions; token expiry
  and last use; the mint rate limit and `slow_down`; a lost answer to the mint; the
  authentication of callers, who in `Roster` are any member with the permission and in
  `Objectives` any name on the roster; attachments other than as grants of `FileStore`.
