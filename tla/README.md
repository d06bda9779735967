# Verification of nco-logger

nco-logger runs amateur radio nets: owners schedule nets, a net control
operator (NCO) runs one in a live room with a list of stations and a chat, a
background worker keeps schedules, reminders and abandoned rooms in order, and
every page of a net follows it in the browser.

The server is one Node.js process over MongoDB.  Where both exist,
`server/dist` is the authoritative code of the server (see
`docs/architecture.md`) and `server/src` what it is compiled from; the models
name `dist` where there is no `src`.  The pages are
`client/src/public/js`.  Paths below are relative to those.

Node runs one callback at a time, so every `await` of a database call is a
point where another request, or the worker, may run.  Some handlers put their
calls in a MongoDB transaction, most do not, and the process may die between
any two calls.  A page is the same once more: timers, answers, events of a stream
and clicks come in any order, and every answer may be late or missing.  Those
interleavings are what these specifications are about.

## The system

| Component | State | Operations | What makes it correct |
|---|---|---|---|
| Occurrence lifecycle (`lib/scheduling/lifecycle.js`) | `ScheduledOccurrence.status`, `.liveNet`, the room it prepares | prepare, go live, cancel, miss, expire | an occurrence has a room exactly while preparing or live; final statuses are final |
| Net creation (`controllers/liveNetController.js`) | `LiveNet`, the NCO's `StationInteraction`, `NetProfile.liveNet` | `liveNetCreatePost`, four writes | one running net per profile; nothing left half made |
| Net closing (`closeNet` in `lib/sharedNetOps.js`) | `LiveNet.closing`, retention job, the records it deletes | claim, retain, complete, clear, remove, unlink | one closer; report and chat kept before destruction; an interrupted close is finished by others |
| Integrity sweep (`lib/scheduling/hardening.js`) | the copies it holds between queries | drop stale links, rooms, interactions, occurrence links | repairs everything broken, leaves the healthy alone |
| Auto-close (`lib/scheduling/hardening.js`) | `LiveNetAutoClose` | observe, claim, close, recover, mail | closes only abandoned nets; one report |
| Chat retention (`lib/chatRetention.js`) | `ChatRetention` jobs with a lease | enqueue, report, clean up, retry | report sent or known skipped before the chat goes |
| Keyed operations (`lib/keyedOperation.js`) | `operationTails` | queue, run, release | one operation per key, nobody waits for ever |
| Check-in (`lib/sharedNetOps.js`) | `LiveNet.lookupTable`, `StationInteraction` | check in, out, default | one interaction per station and room |
| Roles and handoff (`lib/sharedNetOps.js`, `lib/netAdminCommands`, `byView/liveNet/ncoLogger.js`) | check-state and role of every interaction, each page's copy and pending choices | commands, role changes, handoff, callsign correction with its undo | one net control; one command per station and page; nobody dropped by a failed correction |
| Station profiles (`lib/stationProfileService.js`) | fields with revision and origin, the interaction's copy | prepare, edit, synchronize, enrich | no lost update |
| Realtime push (`lib/realtimeClients.ts`, `lib/stores.ts`, `lib/presence.ts`) | streams and pushes of each net, change streams; each page's store | subscribe, push, close, restart; poll, listen | every page shows the net in the end |
| Local chat (`lib/localChat.js`, `lib/chat.ts`, `lib/chatState.ts`) | messages, bans, streams; each page's history | post, clear, stream, reload | no message is lost to a late answer |
| Typing indicator (`lib/localChat.js`, `lib/chat.ts`) | who types where, timers on both sides | start, stop, expire | nobody types for ever |
| Favorites (`lib/clientUtils.ts`, `lib/stores.ts`, `lib/widgets.ts`) | the loop, the store's window, the hearts | poll, click, follow | the loop never stops; the list is the server's |
| Logger page: shared marks (`ncoLogger.js`) | local marks, save timer, `LiveNet.loggerState` | mark, save, take over | no mark is lost between two saves |
| Logger page: panels (`ncoLogger.js`, `lib/logger*.ts`) | a layout per role and screen | move, resize, dock, hide, restore | panels on the grid, none over another |
| Logger page: lists (`ncoLogger.js`) | three ordered lists | render, hide, choose, drag, correct | a row for every station, order kept |
| Logger page: dialogs and photo viewer (`ncoLogger.js`) | what is shown, the history of the browser | open, close, Back, dock | the chat covered when it must be; Back closes the photo |
| Logger page: photos (`ncoLogger.js`) | a queue of lookups, images by source | enqueue, look up, preload, retry | the queue is served |
| Station groups (`lib/stores.ts`) | groups carried on by differences | index, ask | a group holds those whose state says so |
| Chat overlays (`lib/chat.ts`) | menus, action rows, lightbox, scroll lock | open, close, redraw | one open; the page scrolls again |
| Backups (`bin/dbBackup.ts`, `backup-scheduler.sh`) | archives, uploads, manifests, copies off the host | backup, prune, restore, migrate | a manifest means a complete backup; there always is one |
| Materialization (`lib/scheduling/worker.js`, `recurrence.js`, `scheduleState.js`) | `NetSchedule`, `ScheduledOccurrence` | create, shift, withdraw, restore, delete | occurrences follow their schedule; overrides and started ones survive |
| Reminders (`lib/scheduling/worker.js`) | `ScheduledOccurrence.notification` | claim, send, retry, expire, re-arm | at most one delivery per time, never for a cancelled one |
| Ownership (`lib/sharedNetOps.js`, `lib/backgroundTasks`) | `owners`, `myNets`, `followers`, `following`, delete queue | add owner, delete net, unfollow, delete account | both sides agree; a profile never loses its last owner silently |
| Sign-in and limits (`lib/magicLoginTokens.js`, `lib/persistentRateLimit.js`) | token hashes, window counters | issue, consume, count | a token is used once |
| Daily processing, HTTP, views, e-mail | – | – | – |

How they meet.  The first six share the same documents (profile, room,
occurrence, retention job, auto-close event) and are where most of the server's
care goes: claims, conditional updates, transactions, a sweep that repairs.  The
lists of stations in a running room are the place where requests of several
people meet; the keyed operations are the only lock the server has, and the
logger page has one of its own.  Whatever the server stores reaches the pages in
three ways (pushed states, polled lists, chat events), each with its own
answer to lost and late messages.  What a page then does with it (lists, groups,
panels, dialogs, photos) is sequential code, but its inputs are not: user,
timers, answers and refreshes come in any order.

## Modules

The session and its end, on the server:

- `OccurrenceStatus` – what the scheduling subsystem promises about the status
  of an occurrence: the legal moves, whoever makes them.
- `LiveNetLifecycle` – lifecycle, creation, closing, presence and sweep of one
  net, refining `OccurrenceStatus`.
- `ChatRetention` – the leased job that sends a closed session's report and
  removes its chat.
- `AutoClose` – explicit and automatic closes of sessions, the automatic one's
  recovery and e-mails; extends `ChatRetention`.

The stations of a running room:

- `KeyedOperations` – the queues per key of `keyedOperation.js`.
- `CheckIn` – check-in, check-out and arrival of stations in one room; extends
  `KeyedOperations`, whose calls are its `checkState` requests.
- `StationRoles` – commands, roles, handoff and corrections as several
  operators' logger pages make them.
- `StationProfiles` – name and location of one station, written by managers, by
  its own account and by QRZ.

What reaches the pages:

- `RealtimePush` – pushes and polls of a net's state, servers and pages.
- `Chat`, `ChatTyping` – one page's chat; who is typing.
- `Favorites` – the polled list and its hearts.

The logger page:

- `SharedLogger` – marks shared by the logger pages of a net.
- `LoggerLayout`, `StationLists`, `LoggerModals`, `StationPhotos`,
  `ChatOverlays`, `StationGroups` – panels, lists, dialogs, photos, the chat's
  overlays, the store's groups.

Beside the server: `Backup`.

What is composed:

- `Logger` – the commands of `StationRoles` and the marks of `SharedLogger`, as the
  same operators' pages make them.
- `LoggerPage` – `LoggerModals`, `ChatOverlays`, `StationGroups`, `StationPhotos` and
  `StationProfiles`: what one page shows, and the profile that several pages write.
- `Live` – `RealtimePush`, `Favorites`, `Chat` and `ChatTyping`: what reaches the pages
  of a net on the air.
- `ScreensAndBackups` – `LoggerLayout`, which it extends, and instances of
  `StationLists` and `Backup`: what lies where on a manager's page, and beside it the
  backups of the server.

In all four the parts interleave freely, and the theorems about them are of that
interleaving.  The parts share no variable (in the code, other documents, other
objects of the page), so an interleaving of two projects to a behaviour of each.

`MCLifecycle`, `MCCheckIn` and `MCAutoClose` are instances of one module each for
TLC, `MCLogger`, `MCPage`, `MCLive` and `MCScreens` of the four compositions.  In these
four a variable `part`, chosen at the start, says which part takes steps: since no step of a part reads or writes a variable of
another, nothing that a property of one part says is lost by having the others stand
still, and TLC need not multiply their states.  A part at rest has one of its
initial states, or none (`None`).

`LiveNetLifecycleProofs`, `CheckInProofs`, `AutoCloseProofs`, `LoggerProofs`,
`LoggerPageProofs`, `LiveProofs` and `ScreensAndBackupsProofs` hold the theorems,
`LoggerLayoutProofs` what the last of them needs of the panels.

### LiveNetLifecycle

One net.  `profile` is `NetProfile.liveNet`; `rooms` are the `LiveNet`
documents (a room id is used once, as ObjectIds are); `occurrences` the
`ScheduledOccurrence` documents; `crew[r]` the NCO's interaction in room `r`
(`none`, `away`, or seen in the last minutes: `recent`); `retained` the rooms
that have a `ChatRetention` job.  `creators` and `closers` are the requests in
flight inside `liveNetCreatePost` and `closeNet`; `worker` is the scheduling
worker, which never runs two passes at once (`passRunning`).

What is one action and what is several:

- The functions of `lifecycle.js` run in transactions and conflict with every
  concurrent write of the same documents, so each is one action:
  `PrepareOccurrence`, `TransitionPreparedOccurrence`, `CancelPreparation`,
  `MissUnprepared`.  `processOccurrenceLifecycle` first tries the transition
  and then finalizes in a second transaction, which is why `ExpireDecide` and
  `ExpirePreparation` are two.
- `liveNetCreatePost` is `CreateCheck`, `CreateRoom`, `CreateEntry`,
  `CreateLink`; `closeNet` is `CloseClaim`, `CloseRetain` or `CloseReopen`,
  `CloseComplete`, `CloseClear`, `CloseRemove`, `CloseUnlink`, and `CloseFail`
  at any of them once the job is kept; both may be cut short by `Crash`.
- `reconcileLiveNetPersistence` is three queries (`SweepReadRooms`,
  `SweepReadProfile`, `SweepReadOccurrence`), the judgement with its
  conditional update of the profile (`SweepJudge`), the conditional delete
  (`SweepDelete`) with its consequences (`SweepDiscard`, `SweepUnlink`), and the
  second half (`SweepReadRemaining`, `SweepOrphans`, `SweepReadDangling`,
  `SweepRepair`).

Abstractions: `LiveNet.url` is unique and derived from the profile id, so at
most one room is stored at a time, and the sweep's list of rooms is one room or
none.  `findOneAndDelete` compares `updatedAt`; the model keeps a flag telling
whether any write of that document came in between (`Overtake`).  `updatedAt`
as a time is kept only while the room is closing, where it is compared with the
clock.  Saves of other fields of the room are one action, `EditRoom`, because
all that matters of them is that they move `updatedAt`; so is a heartbeat,
which only matters when it changes `away` to `recent`.  The owner's edits also
refuse an occurrence whose reminder is being delivered: the model allows them,
which only adds behaviours.  An error in the middle of a worker's pass ends the
pass as a crash does and is covered by `Crash`.

Time: the clock ticks in units of which `Prep`, `Grace` and `Stale` are given
numbers; only the order of the instants matters to the guards.

### KeyedOperations

`tails` is `operationTails`; a promise is named by its call and its key.  A call
is `new`, `waiting` for its turn `at` a key `behind` the promise it found,
`running` its operation, or `leaving`: giving its keys back, the last first.
What runs between two `await`s is one action: `Call` up to the first queue,
`Proceed` from a turn to the next queue or the operation, `Finish` the end of
the operation, `Release` one `finally` block (resolve, then delete the entry if
it is still the call's own).  Keys are numbers, their order that of the strings.

### CheckIn

One room that stays open.  `table` is `LiveNet.lookupTable`; `docs` the
`checkedState` of each `StationInteraction` (`default` is null, `in` true, `out`
false); `snap` and `was` a call's copies of the table and of the interactions,
gone when its operation ends (`Ended`).  The keys are the stations.
`checkStateUnlocked` is `Load`, `Refuse` or `Read`, `UpdateKnown`, `CreateNew`,
`Link` or `AnswerKnown`; a `Promise.all` of saves puts them all in `writes` and
each lands by itself (`Land`), also when the call has failed in the meantime
(`WriteFails`, or `UpdateKnown` when a lurker is to be checked out).  The arrival
of a station (`capturePresence`, `createStationInteraction`) is `ArriveRead`,
`ArriveSave`, `ArriveLink`.

Abstractions: the checks of roles, of the source station and of the spelling are
one refusal that may come or not (`Refuse`); the reads of several interactions
are one step; the profile looked up for a new station and its enrichment after
the answer do not touch the check-in state and are left out.  A call's list of
stations is a set.  An arrival of a station already in the table writes other
fields only.

### ChatRetention

`job[l]` is the `ChatRetention` document of session `l`, `event[l]` its
`LiveNetAutoClose`, `room[l]` its `LiveNet`, as far as this part reads it; `chat`
the sessions whose messages and images are kept, `delivered` those of which a
report was accepted for delivery (which no document says, and the properties
compare the documents with).  `run[w]` is a call of `processChatRetentionJob`
with its own copies of `reportState` and of what `expiresAt > now` answers; a
call uses the `now` it was given throughout.  Each database call is an action:
`Claim` (or `ClaimNone`), `CheckLive`, `AwaitEmail` / `Deliver` / `NoReport`,
`Record`, `Postpone` or `Clean` and `Finish`, and `Retry` for the catch block, to
which `RunFails` leads from anywhere.  The updates on condition of the claim are
`IfHeld`.

Time is what the comparisons with it answer: `due` (`nextAttemptAt`), `leased`
(`leaseUntil`) and `expired` (`expiresAt`) change by actions of their own
(`RetryDue`, `LeaseLapses`, `ChatExpires`) at any moment.  A lease may lapse
under a call at work.  Two claims of a job never have the same `leaseUntil` (the
second needs the first one's to be past), so a claim is named by who made it.

`cleanupNetChat` is one action: it removes images, then messages, and a failure
in between leaves the messages, to be tried again.  The recovery of images whose
upload failed, in the same pass, is left out.

### AutoClose

`call[c]` is a `closeNet` in flight (`CloseClaim`, `CloseRetain` or
`CloseReopen`, `CloseRemove`, `CloseProcess`; `CloseFail`), of a request or of the
automatic close (`AutoCloser`), which enters it with the room claimed.  The
removal of the session's other records is in `LiveNetLifecycle` and is here part
of `CloseRemove`.  `pass` is `processLiveNetHardening`, its program counter at the
database call it is about to make, `session` the one in hand, `todo` those still
to visit and `absent` those whose presence it read as too old: `PassStart`,
`Recover` and `RecoverUnclaim`, `RecoverEmails`; `SweepRemove`, `SweepQueue`;
`LookStart`, then for each session `Observe`, `ClaimEvent`, `Recheck`,
`ClaimRoom`, `Boundary`, `Commit`, `Snapshot`, the call, `Complete`, or `Reopen`
and `Release`; `EmailsStart`, `EmailClaim`, `EmailAccepted`, `EmailSent` or
`EmailFails`.  `PassAborts` is a database call that throws.  `nco[l]` says
whether qualifying presence is later than the pass's cutoff.

Of the sweep only the removal of a close that was abandoned is here
(`room[l] = "abandoned"`: `closing`, and its claim `CLAIM_STALE_MS` old).

What is assumed of time, each a guard with its comment:

- A call of `closeNet`, and the pass at one session, take less than the 15 minutes
  of `CLAIM_STALE_MS` and `RETRY_MS` (`Busy`).  A retention run may take longer.
- A pass keeps the cutoff it began with, so presence becomes old for it only
  between passes (`NcoAway`); it may become recent at any time.
- A room claimed by an automatic close goes stale no earlier than the event it
  claimed before; the pass that would remove the room recovers the event first
  (`CloseAges`).
- A net does not go on for the retention days, at least one, after a close of it
  was interrupted (`JobExpires`).
- One pass at a time (`passRunning`); the server is one process, and
  `bin/closeNet.js` another that only closes.

### StationRoles

`room` is the interaction of every callsign (`checkedState`, `role`), `page[m]`
what manager `m`'s logger page shows of it, which role each selector waits for
(`pending`) and which stations have a command under way (`busy`).  A click is a
task: `Correct`, `CheckIn`, `CheckOut`, `MarkInOut`, `ChangeRole`, a tag.  Each
command of it is `RunCommand` (the page's own key), then on the server `Load`,
`ReadState` and `SetCheckedState`, `ReadOut` and `SetOut`, `ReadRole` and
`SetRole`, or `Handoff`, and `Answered` or `ApplyPendingRole` on the page; `Fails`
and `AnswerLost` at any of them.  A failure of the command that takes a
correction back (`Restores`), like an answer that is lost, sets the task's `lost`.
A handoff is one action: its transaction reads
both stations again and conflicts with every other write of them.  The lookup
table and the server's own keys are `CheckIn`'s.

### StationProfiles

`doc` is the station's profile, a revision and an origin for every field; `room`
what the interaction shows.  `Serve` takes one request (of a manager or of a
visit) by one database call: `ensureProfile`'s read and its conditional fill,
`compareAndSetField`'s conditional update, the copy into the room.
`OpenEdit`, `SaveEdit`, `CloseEdit` are the edit window; `Visit` the station's own
account, tried three times; `Enrich` QRZ.

### RealtimePush

One net on several servers.  `items`, `pushes`, `cache` and `stream` are what each
instance of `RealtimeClients` keeps (`middlewareMap`, `pushStates`,
`netDetailsCache`, the change stream); `page` and `wire` the stores of the pages
and what is on its way to them.  Of the net's data only a version is kept: that
is what the hash of a response tells apart.  `BeginRound`, `Generate`, `Send`,
`SendClose` and `GenerateFails` are one round of `push`; `Announced`, `Requested`
and `Tick` call it (change stream, handlers, the periodic timer).  `PollRead`,
`PollAnswered`, `Connect`, `Receive`, `Presence` are the page.  Losses: `StreamFails`,
`Disconnect`, `Refused`, `PollFails`, `Shutdown`, `Crash`.

A stream gets no message equal to the one before it, since `handleNewData` drops
a response whose hash it has; that keeps the streams finite.

### Chat and ChatTyping

One page of `chat.ts`, everybody else, and what `localChat.js` does for them.  A
message is its place in the order of creation with sender and recipient; what it
says is left out, so an edit, a deletion, a reaction and a pin are one operation
(`Touched`).  The page asks for its history (`Connect`, `ConnectServed`,
`Connected`), opens a stream without replay, and after a reconnect reloads its
history (`ReloadRequested`, `ReloadServed`, `Reloaded`); the answers wait in `page` and
come in any order with the events.  The stream is `asked` for, `authorized` (the
server has read the ban and the preference, and opens its change stream after
that), `open`, `ended` by a ban whose event is on its way, or `refused`;
`stream.lists` are the lists of recipients the server is about to write.

`fresh` and `twice` are no variables of the code.  `fresh` says that the page has
reloaded since its stream is live, `twice` of which peers a message came anew while
an older load of their conversation was under way (see Departures).  A page with no
message at all has nothing to lose: `ChatAssumption` asks for `MaxMessages >= 1`.

`ChatTyping` is the indicator: calls nobody waits for and that overtake each
other, the server's memory, the timers on both sides.

### Favorites

`loop` is `Looper` with the timers it has lost sight of, `polls` the runs of its
function, `store` the `ReactiveStore` with the `InFlightWindowManager`: the newest
content, the shown one, the window a click opens, and the check after it.
`calls` are follow and unfollow requests on their way.

### SharedLogger

`pages[p]` is a logger page's copy of the marks with its save timer, the save under
way (`CoalescedAsyncRequest`: `posts`, `again`), the revision it has taken and the
signature it has saved; `state` the `LiveNet.loggerState` of the server.
`SaveTimer`, `SaveArrives`, `SaveAnswered`, `SaveFails` are a save, `Refresh` a
refresh with the answer of the server or of its three-second cache, `Observed` what a
page makes of stations that came and went.  `edited` and `snapped` count the
changes of a page and those a save has read; the code has no such counters.

### LoggerLayout

`layout` is the layout on the screen, `saved` one for each role and kind of screen,
`drag` the pointer's drag.  A drag is `Grabs`, `Holds`, `Ends`, with the layout the
code would show at each (`Placed`, `Docked`, `Pulled`, `Split`); `Rotate`,
`LowWindow`, `Relabel`, `ResetScreen`, `Reload` are all that replaces a layout, with
the migration of what an older version stored for each screen (`Older`), in any of
the four formats.  `Normalized` is what every
stored layout goes through.  A pixel is a grid line, except in the oldest format,
whose heights are pixels and are rounded to rows (`Packed`).  The search for a free
place, a list of all positions sorted by distance, is the choice of the nearest
(`Nearest`) of those where nothing is covered (`Vacant`).  `drag.steady`, whether role
and window are as they were when the drag began, is history: properties read it, the
code and the steps do not.

### StationLists, LoggerModals, StationPhotos, ChatOverlays, StationGroups

- `StationLists`: `page` with its three lists, `drag` a row held by mouse or
  finger, `fix` a callsign correction under way.  Every action ends with the
  rendering that the handler ends with (`Rendered`).
- `LoggerModals`: what lies over the logger's panels and whether the chat is
  suspended; the photo viewer with its `CloseWatcher` or its entry in the browser's
  history (`at`, `top`, `backs`).
- `StationPhotos`: `queue`, its processor (`running`, `current`), and the images
  by source (`pending`, `resolved`, `failed`).
- `ChatOverlays`: menus, a message's actions, the lightbox and the two locks of the
  page's scrolling.
- `StationGroups`: `index` and `groups` as `StationIndexer.process` carries them on,
  `flags` what tells widgets to draw.

### Backup

`dir` holds for every archive its dump, its packed images and its manifest, each
a file that may be missing; `offsite` the copies.  `run` is the scheduler's loop
(`backup`, copy, `prune`), `command` an operator's `restore` or `migrate`, each a
program counter at the next file it writes or removes; either is killed or fails
anywhere.  Meanwhile the application uploads images, posts, and deletes (`Lives`).

## Runs

Nine runs pass, three show a violation (see Findings).

### On MCLifecycle

All with `Prep = Grace = Stale = 1`, start time 1, clock up to 2:
so an occurrence is first closed, then open for preparation, due, and past its
grace period, and a claim made before the last tick goes stale.

| Run | Instance | Shows |
|---|---|---|
| `sessions` | 2 occurrences, 2 rooms, 1 closer | links, statuses and rooms agree; `OccurrenceStatus` is implemented |
| `closing` | 1 occurrence, 1 room, 2 closers, 1 creator, 1 crash | one closer at a time, report kept first, with a crash anywhere |
| `recovery` | 1 occurrence, 1 room, 1 closer, 1 creator, 1 crash, fairness | what a close, a creation or a crash leaves broken is repaired |
| `sweep_race` | 1 occurrence, 1 room, 1 closer | violation |
| `creation_race` | 1 occurrence, 2 rooms, 1 creator | violation |

Bounds.  Two rooms are needed for a link to go from one session to another;
two occurrences for one to take what another releases; two closers to collide.
More of them adds no new pair.  `WithinHorizon` keeps closes out of the last
`Stale` ticks of the clock: a claim made there could never go stale before time
stops, which is the bound's doing and not the code's.  `recovery` uses one room
and one occurrence: its properties are about one broken piece at a time.
Symmetry (rooms and occurrences are interchangeable) is used in the runs without
liveness properties.

Fairness (`LiveNetLifecycle!Fairness`).  The worker's timer starts a pass every
minute while the process lives (`startSchedulingWorker`), so time passes, a pass
that has begun goes on (`WF`), and a pass that is due again and again between the
others is made (`SF`, since the worker is at other work in between).  Nothing is
assumed of requests: a closer or a creator may stop for ever at any step, and no
owner or NCO need ever come.

### On MCCheckIn

| Run | Instance | Shows |
|---|---|---|
| `check_in` | calls on stations {1,2}, {1,2}, {1}, an arrival at 1, one failed write, fairness | serial turns, no waiting for ever, one interaction per station from the calls, a table that names stored ones |
| `bulk_race` | calls on {1}, {1,2}, {1}, a lurker at 2 | violation |

Bounds.  Two calls with the same two stations can deadlock and can create twice;
the third is the newcomer who meets a release while the second waits.  Which
state each call asks for is left open, so every mixture of check-in, check-out
and default is run.  More calls, stations and arrivals are the theorems' matter.

These runs say `CHECK_DEADLOCK FALSE`: a call is made once, and when all have
been made and have answered nothing is left to do.  A deadlock among the calls
would violate `EveryCallServed`.

Fairness (`CheckIn!Fairness`).  Node goes on with a call whose awaited promise is
resolved, and a database call returns or fails: each call's own steps and the
landing of saves are weakly fair.  Calls and arrivals need never come.

### On MCAutoClose

| Run | Instance | Shows |
|---|---|---|
| `auto_close` | 1 session, 1 explicit closer, quiet or loud, the worker's two loops, 1 failure, fairness | who ends the session; report before chat; closes end; the chat goes or waits |

Bounds.  Sessions share nothing but the order of the pass, which visits each by
itself; one explicit and one automatic close are the pair that collides, and
three processors (both closes' own and the worker) contend for the job.
`MaxFailures` counts failed database calls, refused mails and crashes together:
one is enough to interrupt anything; the theorems hold for any number.  Explicit
closes may be repeated, so one closer can close a session that another call of
its own, or a crash, reopened.

Fairness (`AutoClose!Fairness`).  What has been started goes on unless it crashes
(`WF` of `CloseStep`, `HardeningPass`, `ProcessJob`), the timers of both workers
fire, and time passes.  A due job is taken up in the end (`SF` of `TakeUp`): the
worker is at other jobs in between and takes the oldest first, so a job that is
due again and again is not passed over for ever.  Nobody has to close a net.

### On MCLive, MCLogger, MCPage, MCScreens

These say `CHECK_DEADLOCK FALSE`: when users have done what the bounds let them
do, nothing is left.

| Run | Parts and their instances | Shows |
|---|---|---|
| `live` | `RealtimePush`: 1 server, 1 page, 3 versions, 2 faults; `Favorites`: 1 net, 2 clicks, 1 change by others, 1 failure; `Chat`: 1 peer, 3 messages, histories of 2, 3 events; `ChatTyping`: 2 onlookers, 3 events; fairness | nobody is forgotten or sent away, pushes cover their calls, messages stay, pages settle |
| `logger` | `StationRoles`: 2 managers, 1 station, 2 clicks, 1 fault; `SharedLogger`: 2 pages, 1 station, 2 events, 2 nets; fairness | one net control, one command per station and page, no one dropped, marks saved in order, all of it comes to rest |
| `page` | `LoggerModals`: history of 3; `ChatOverlays`: 2 messages, 1 peer; `StationGroups`: 2 stations, 2 roles; `StationPhotos`: 2 stations, one with a photo; `StationProfiles`: 2 managers, 2 edits, 1 visit | chat covered, Back for the photo, groups, photos and overlays in order, edits stand |
| `screens` | `LoggerLayout`: 2 roles, desktop and upright phone, stores of 2 older versions with layouts of 3 formats, 1 edit, 1 reload; `StationLists`: 3 stations, 2 events; `Backup`: 1 image, 2 archives, 2 commands, 1 fault | panels clear, rows in place, backups complete and restorable |

Bounds.  A push needs three versions for a call to come while a round for an
earlier one is under way and another change to come after; two faults lose a
stream and then what replaced it.  A second server shares only the net with the
first (each has its pushes, cache and streams), a page that reads on both is
covered by a page that reads again on one whose cache has expired; the theorems
are for any number of both.  The chat's limit of two with three messages makes the
oldest fall out of the history.  Two clicks are the pair of tasks that collide;
two pages the pair that overwrite each other's marks (what one more page that
only reads could see, the theorem covers, for any number of both); two archives the new and the
old backup.  A layout is judged step by step from the layout before it, so one
edit after one restore covers every order in which a layout is used; tablets and
phones held across, which the run leaves out, are in the theorems.

Fairness.  Timers fire, requests are answered or fail (a server that serves
nothing is a fault that is counted), the network delivers, a page refreshes.
Each is weakly fair (`FeedFairness`, `ListFairness`, `ChatFairness`,
`TypingFairness`, `RolesFairness`, `MarksFairness`).  Nobody has to click, type,
come or go.

### Times

On four cores shared with other work `live` takes about three minutes, `sessions`,
`recovery`, `auto_close`, `page` and `screens` one to two and a half, the others less.  The proofs of `LiveProofs` and of
`LoggerPageProofs` take some eight minutes each when nothing is remembered of them.

## Properties

### Session and its end

`LinkIffEngaged`, `RoomMatchesOccurrence` – five writers change an occurrence
and its room (owner, lifecycle pass, NCO, closeNet, sweep), two of them acting
on what they read some calls before.
`ImplementsOccurrenceStatus` – completed and missed are final, what was on the
air is never missed or rescheduled.
`AiredRoomRetained` – a net that was on the air is destroyed only after its
retention job exists.  The sweep alone may destroy without (its enqueue failure
is logged), so its step is excepted, and named.
`ClosersExclusive` – one explicit close at a time.  The automatic close, which
resets the flag when it recovers, is in `AutoClose`, and there it does not hold:
what matters for the session is that a close beside another does no harm
(`CompletedIsGone`, `ChatOutlivesReport`, `ClosesEnd`).
`PastGraceSettles`, `RemainsCleared` – what an interruption can leave behind
does not stay: broken rooms, stale links, orphan interactions, dangling
occurrences.
`ChatOutlivesReport` – the chat goes after the session, its days and its report.
Closes, retries and processors that lost their lease all write the job; a call
that is at the chat may long have lost it.
`SentStands` – the catch block writes the state a call believes in; only the
condition on its claim keeps it from reviving a report another call sent.
`CompletedIsGone` – the recovery infers from `closeCommittedAt` and the missing
room that a close had been done, beside explicit closes of the same session.
`MailedIsCompleted` – e-mails say that a net was closed for inactivity.
`ClosesEnd` – a close that was claimed ends, by its caller, the recovery, the
sweep or an undo, wherever it was interrupted.
`ChatGoesOrWaits` – after a close the chat goes in the end, through retries,
lapsed leases and an e-mail claimed by a process that died.  Its exception is a
job that waits for the e-mail of an automatic close that was not completed: that
of a quiet close of an observed net (see Departures), or of an automatic close of
which a write failed after the room was removed.

### Stations

`OneHolderPerKey`, `TailsAreQueued`, `EveryCallServed` – what the chain of
promises is for; newcomers find the map's entry of a call that is waiting,
running, or has just resolved its promise; bulk calls that share stations do not
wait for each other; the map does not keep the stations of every net ever run.
`OneCheckInEntry` – parallel check-ins of an unknown station create it once; it
needs the turn, and that the room is read again inside it.  A failed save is
excepted: it may leave an interaction that no table names.
`TableNamesStored` – every command on a station goes through the table.
`OneNco` – overlapping handoffs, and role commands of pages whose copy is old.
`LoggerHolds` – one command per station and page through every early return; a
correction that fails half way loses nobody; a mark made while a save is under
way is saved by another one.
`OwnSavesInOrder`, `LoggerSettles`, `LoggerTypes` – a page's saves stored in the
order it made them; every click ends and every page takes the last state.
`EditsStand` – stale edits conflict, and the station's account never replaces what a
manager wrote; a group that changes has its flag up.

### Pages

`OpenServedOrTold` – between a claim, closed streams, and pages that connect
meanwhile, nobody keeps an open stream to a server that has forgotten it.
`PushCoversCalls` – a call of `push` while one is under way gets its promise: the
round behind that promise must not answer from before the call.
`PagesSettle` – after any losses each page shows the net, says it is offline, or
leaves; the favorites are the server's; nobody types for ever.
`LiveHolds` – nobody is sent home from a net on the air; the favorites' loop lives;
the history has no hole after a reload; unread counts are of messages there are.
`MessagesStay`, `ChatCatchesUp` – a late answer drops no newer message, a
reconnect during a reload asks for another reload.
`ChatIsCovered`, `BackClosesThePhoto`, `PanelsStayClear`, `RowsKeepTheirPlaces` –
many handlers, each of which must restore what the others rely on, at inputs in any
order.
`PageAgrees` – of what a page keeps by differences: groups say what the state says; a
queue of lookups has a processor, an image that is waited for is being loaded; one
menu of the chat is open, marks agree with it, and the page scrolls again.
`PageTypes`, `ListsAgree` – the page's state stays well formed, its lists have a row
for every station, and what is chosen is on a list.
`PanelsStayClear` has three parts: panels come to rest on the grid whatever layout they
come from (`RestsOnGrid`); no edit of a sound layout covers a panel (`EditsStayClear`);
and who moves one panel leaves the others alone (`OthersStay`).
`BackupsRestore`, `AlwaysRestorable` – programs killed between two files; a dump
and the uploads read at different times.

Where a property has an exception, it is for a case in which the code does
something else, and the comment at the property says what.

## Findings

Each is a run that TLC ends with a violation.

- `sweep_race` (`hardening.js:146`).  The sweep reads the rooms and then the
  profiles.  A room prepared in between is linked by a profile it reads and
  absent from the rooms it read: the link of a healthy session is cleared.  The
  session's requests, which find the room through the link, then fail, and the
  next pass removes the room.  `test/scheduling-phase7-hardening.test.js:260`
  expects valid relationships to reconcile safely.
- `creation_race` (`liveNetController.js:300`).  `liveNetCreatePost` checks the
  link and writes it without a condition four calls later.  If the sweep removes
  its unlinked room meanwhile and an occurrence is prepared, the last write
  replaces the link of the running net by a dead one.
- `bulk_race` (`sharedNetOps.js:320`).  A bulk check-out that names a lurker
  rejects with the saves of the other stations under way and gives the keys back.
  A check-in of one of those stations then reads it as still in, answers, and the
  late save checks it out.  `test/check-state.test.js:120`: a check-in does not
  resolve before persistence, and an immediate read sees the new state.

## Departures

What the models do, because the code does, though a doc or a test reads
otherwise, or a reader might expect otherwise.  No run is about these; they are
the reason for exceptions in properties.

- Check-in: the arrival of a station (`liveNetHelpers.js:217`) is not a keyed
  operation; beside a check-in of the same station by net control both create an
  interaction, and the table names the later one.
- Chat retention: a quiet close takes the session's report for the outbox's as soon
  as a `LiveNetAutoClose` exists (`chatRetention.js:29`), and the worker makes one
  for every started net; the e-mail never comes and the chat stays
  (`docs/chat-image-privacy.md:52`).
- Handoff: its transaction reads the roles again, but not on condition of the
  check state, which another command may change meanwhile (`sharedNetOps.js:242`,
  `:355`): net control may end up checked out.
- Corrections: a correction whose second command fails takes the first back, and says
  that the station "was restored" also when the command that restores it fails too
  (`ncoLogger.js:2072`).
- Shared marks: the page's own earlier save, read back from the server's cache, may
  take the place of a newer mark that is still to be saved (`ncoLogger.js:651`),
  and the marks of a page are reset when it sees a new net, not when it starts
  (`docs/nco-logger-ui.md:23`).
- Push: a page may go back to an older state for a while, when a cached answer
  comes after a newer one (`docs/security.md:108`, `stores.ts:266`).
- Chat: a message posted between the first history and the stream's first `ready`
  is seen at the next reload only (`chat.ts:1023`).
- Chat: an unread badge may count a message that is not there: an ignore takes the
  messages of a peer away, a restore brings them back and counts them, and the answer
  of a load of the conversation that was asked for before the ignore drops them again
  (`chat.ts:790`).
- Favorites: the heart of a click that failed stays as clicked until the list
  changes (`stores.ts:178`).
- Panels: a window that becomes lower, or is turned, in the middle of a drag may
  leave panels that overlap (`docs/logger-shared-splitters.md:16`).
- Panels: a drag that goes on over a turn of the screen may leave Station Controls of
  an upright phone two rows below the grid until the page is drawn again:
  `normalizeModuleLayout` raises its height to six after it has brought the panel into
  the grid (`ncoLogger.js:3968`).  A panel is grabbed on an upright phone, docked on
  Station Controls' edge while the phone is across, and released upright again.
- Panels: pulling one boundary of an upright phone twice in a drag, where two panels
  share a row, is applied to the stored layout each time as if it were the first
  (`ncoLogger.js:4165`); the stack changes its order and panels come to lie over
  each other in what is stored.  The keys do not do this.
- Panels: on an upright tablet Station Controls can be dragged, or Chat and the Active
  Log pulled to its row, and the release puts it back to the top, five rows high
  (`ncoLogger.js:3961`), over whatever is there by then; the help (`ncoLogger.js:4705`)
  and `docs/logger-shared-splitters.md:20` say that panels do not overlap.
- Groups: a station that was away and comes back with another role stays in the
  group of its old one.
- Profiles: when two managers prepare an old profile at once the later one takes the
  revisions back (`ensureProfile`), and the room may not show an accepted edit.
- Photos: when the browser's storage refuses a write (`ncoLogger.js:882`) the
  processor of the queue does not start again.
- Backup: `migrate` of an archive restored with sessions brings sessions back
  (`dbBackup.ts:732`).

## Proofs

Checked by TLAPS, for any values of the constants that satisfy the assumptions
the modules state about them (sets of any size, any bound).

`LiveNetLifecycleProofs`, checked by TLAPS for any sets of occurrences, rooms,
creators and closers, any time constants and bounds, from `NoneAssumption` and
`TimeAssumption` alone:

- `TypeCorrect`: `Spec => []TypeOK`.  `TypeOK` is not inductive: a close that is
  past its claim writes its room, and a worker in the middle of a pass its
  target.  `BusyIsBound` says these are not `None`; `TypeInv` adds it.
- `LinksFollowStatus`, `RoomsFollowOccurrences`: from `AgreementInv`, the two
  invariants and `LinkedRoomUsed` (a linked room id is not a fresh one, so
  nobody makes it anew).  Each step is shown to be one of a few ways to write an
  occurrence and a room (`OccurrenceSteps`, `RoomSteps`), and the invariant is
  proved of these.
- `StatusRefinement`: `Spec => Abstract!Spec`; a step moves one occurrence along
  `Moves` or none (`OneOccurrence`, `MoveStep`).
- `AiredNetsRetained`: a stored room is deleted by a cleanup of a room not on
  the air, by a close past `cleared`, or by the sweep (`RemovalSteps`); a close
  that far has queued its job (`RetainedFirst`), and jobs only come (`RetainedGrows`).
- `OneCloserPerRoom`: `ClosersExclusive` is strengthened by `ClaimHeld`, a room
  whose close is in progress is closing or gone; closing is reset only by the
  call that set it (`ClosingSteps`), and a room that is gone does not return.

`CheckInProofs`, first of the queues alone, for any calls, keys and sets of keys, from
`KeysAssumption` and `CallsAssumption`:

- `MutualExclusion`, `MapHoldsTheQueued`: from `KeyedInv`.  `OneHolderPerKey` says
  nothing of who may take the turn next, so it is strengthened to `OneFree`: at
  most one call has its turn *or is free to take it*.  That holds since no two
  calls wait behind the same promise, nobody waits behind the tail
  (`QueueIsLinear`), and a key missing from the map is nobody's
  (`MissingIsIdle`).  `AskPreserves` is the newcomer's step and `ReleasePreserves`
  the release: one promise resolved frees at most one waiter.

Then of check-ins, for any calls, arrivals, failures and either `autoIn`, from
`VisitsAssumption` also:

- `KeyedRefinement`: the check-in's steps are steps of the queues, so `KeyedInv`
  holds of it.
- `TypeCorrect`, and `TableIsSound` from `StoredInv`: copies of the table name
  stored interactions, and a call about to write the table has each of its new
  interactions stored or its save under way.
- `OneEntryPerStation` from `OneStarted`: a call that has created an interaction
  of a station is the only one, and until the table has the station nobody else
  is in the middle of an operation that took it for unknown.  `ActiveApart` brings
  mutual exclusion in: an operation in progress holds all its stations.

`AutoCloseProofs`, for any sessions, closers, kinds of close and bound on
failures, from the assumptions the two modules state about their constants:

- `TypeCorrect`: `TypeOK` is inductive only with `Bound`: who is at work has a
  session in hand.
- `CompletedSessionsAreGone`, `MailsFollowCompletion`: from `EventInv`.  The pass
  completes an event because `closeNet` said so; `AutoCalls` carries the removal
  from the call to the pass, `EventsHeld` says that the event in the pass's hands
  is still claimed (so that nothing it undoes was completed), and a session that
  is gone stays so (`GoneStays`).
- `ChatKept`: from `ChatInv`.  `SentIsDelivered` follows the word "sent" from the
  mail through copies, event and job; `ExpiredIsFinal` says that no close can
  renew an expired job; and `CleaningIsSettled` that while a call is at the chat
  the job's report is settled and that whoever has the lease meanwhile read it
  so, and thus cannot unsettle it.  That is the case of a lease that lapses
  between `Record` and `Clean`.
- `SentReportsStand`: `HolderKnowsSent`, the lease's holder read the job as sent.

The steps of the job are first reduced to five effects (`Claims`, `GoesOn`,
`Records`, `Ends`, `Elsewhere`; lemma `Effects`), and each part of `ChatInv` is
proved of these.

`LiveProofs`, first of the pushes alone, for any servers, pages, versions and number of
faults, from `BoundsAssumption`, `PermitsAssumption` and `NoneAssumption` (`None` is no
number, no set of pages and no push):

- `TypeCorrect`: `TypeOK` is inductive only with a bound on the change events and
  requests on their way: they are fewer than the changes made (`TypeInv`).
- `NobodyForgotten`: `OpenServedOrTold`, by what each step does to one page: the
  three ways a net's streams are closed (`ClosedIsTold`), a message that is sent
  after another (`SentStays`), one page that goes (`OthersKeepTheirPlace`).
- `PushesCoverCalls`: from `PushInv`, what a push knows: calls that wait for
  another round make it ask for one without the cache, and calls its round is for
  keep that round from the cache, so that its answer is read after them.
  `NewPush`, `Joined`, `Released`, `NextRound` each keep it.
- `NobodySentAway`: `HomeAfterEnd`, from `Undisturbed`: as long as no net was
  claimed and no server stopped no close is on its way and no push has found its
  net gone.

Then of all that reaches the pages, for any nets, users, messages and limits, from the
assumptions of `Favorites` and `Chat` also:

- `LiveSound`: `LiveHolds`, from `LiveInv`, which joins `TypeInv` and `HomeInv` of the
  pushes with an invariant for each other part.  `ListInv`: the loop has a timer, or
  a poll whose end sets one.  `TypingInv`: whom the server takes for typing has a
  stream.  `ChatInv` is what makes the order of answers and events not matter:
  - `StoredInv`: what is cleared is older than what is not.
  - `SoundRequest`: of the messages that were known when a history was asked for, its
    answer lacks only those that are cleared or have enough newer ones
    (`NothingLost`), however old the answer is by the time it comes.
  - `FreshOf`: a history that counts as current has, together with the events on
    their way, all that the server has (`Top`); so has the answer of a reload, with
    what the page shows.  `NoneMissing` is the case in which nothing is on its way.
  - `BadgesOf`: a badge counts no more than the messages of its peer that no load
    under way could take back (`Kept`).  `UnreadIsThere` alone is not inductive: the
    answer of a load drops what it knew and the server no longer delivers.
- `MessagesKept`: `MessagesStay`.  Each step is shown to keep `PublicsStay`; that the
  page cuts its collection to the newest (`Trim`) loses none that has not enough
  newer ones, also when several cuts follow each other (`NewestMany`).

`LoggerProofs`, for any managers, viewers, stations, clicks, faults, marks and nets,
from `RolesAssumption` and `MarksAssumption`; first of the commands:

- `TypeCorrect`, with `StagesFit`: what a task asks for fits the stage it is in.
- `OneNetControl`: `OneNco`, restated without cardinality (`OnlyOne`), by the steps
  that write the room: commands on check-states leave the roles alone, role
  commands give net control to nobody (and may take it), and the handoff gives it
  to one in the place of the other, both read in its transaction.
- `OneCommandAtATime`: from `BusyHeld`, a key that is taken has exactly one command,
  one on a check-state that was not answered.  A command that is refused, fails or is
  the middle one of a correction gives the key back or passes it on
  (`BusyHeldTaken`, `BusyHeldGiven`, `BusyHeldFurther`).
- `CorrectionKeepsStation`: from `CInv`.  `Phase` says for a correction that nobody
  disturbs how far it has come (undo, add, restore, role, end) and under which call
  the station is logged by then; `Standing` that its operator still outranks the
  station, so that the server refuses none of its commands for that reason; `Fresh`
  that the page it starts from agrees with the room.  Whoever works on one of the two
  calls takes it out of the property (`AloneBefore`), everyone else leaves them as
  they are (`OthersSound`).

Of the marks, for any pages, stations and kinds of commands:

- `NoMarkForgotten`: from `MarksInv`.  `MarksSound` says that a page has one request
  under way at a time and that a change no save has read has a timer or a request to be
  followed by another; each handler is shown to take a sound page to a sound one
  (`PageGoes`), by way of the operators it is made of (`PublishedSound`,
  `SaveOnceSound`, `ObservedAlike`, `WithSnapshotAlike`).
- `SavesInOrder`, from `SavesInv`: what is stored of a page is not newer than the save
  it has under way (`Follows`), since the server takes a request once.

Then of both, each of which the other's steps leave alone (`Parts`): `LoggerTyped`,
`LoggerSound`, `MarksInOrder`.

`LoggerPageProofs`, for any dialogs, length of the history, messages, peers,
stations, photos, editors, fields and values, from the assumptions of the five
modules.  `PageInv` joins an invariant for each part; a step of one part leaves the
variables of the others alone (`PartSteps`), so each is proved of its own part's steps.

- `BackIsTheViewers`: `BackClosesThePhoto` from `HistoryInv`: never more traversals
  to come than entries behind the current one, and one way to close the viewer at
  a time.
- `ChatCovered`: `ChatIsCovered` is inductive, each handler ending with
  `syncNativeChatVisibility` or leaving alone what it looks at.
- `PageSound`, `PageTyped`, by parts.  Overlays (`OverlayInv`): marks and menus are
  brought together by every handler, and the scroll lock is proved of what it was when
  the first overlay came (`ScrollOK`).  Groups (`GroupsInv`): a station's place follows
  from its state alone (`StatesPlace`, `RolePlaces`), so indexing a difference is as
  good as indexing anew (`Reindexed`), but for the exception named under
  Departures.  Photos (`PhotosInv`): nobody is in the queue twice, the one being served
  is its head, and what is asked of QRZ is bounded by what is waiting (`QueueOK`);
  this carries over pauses, retries and refreshes in the middle.
- `EditsHold`: `EditsStand` from `ProfilesInv`.  A profile is complete or as it was
  found (`DocOK`); what a window, an edit or a visit has read is of this profile or of
  an earlier state of it (`Sees`, `Filled`, `Copied`), where a revision that is still
  the same means the same content.  All steps move a profile `Onward`: a field stays
  or its revision grows, unless one had prepared it over the head of another, which
  the property excepts (see Departures).

`ScreensAndBackupsProofs`, of the three parts side by side, from `PartsAssumption`, which
is `BackupAssumption`, `ListsAssumption` and `ScreensAssumption` together; a step of one
part leaves the others' variables alone (`PartSteps`).  Of the backups, for any images
and any number of archives, commands and faults:

- `BackupsComplete`: `BackupsRestore` from `BackupInv`.  `NamesInv`: the
  scheduler and a command work on archives of their own, and nothing is filed under a
  name that was not given.  `StageInv`: how far a backup has come by its stage; it has
  no manifest while it is written, and is complete once it is copied.  `ImagesInv`: an
  image whose message was read into a dump is posted or was (`Life` goes one way), so
  that what a complete archive's dump names and is still shown is among its uploads.
  That carries the order of `cmdBackup`, the dump before the tar, over whatever the
  application does between the two.  A restore brings back the uploads it has read
  though its archive may be pruned meanwhile, which is why `RestoredTogether` is part
  of the induction and does not follow from the archives.
- `RestorableForEver`: `AlwaysRestorable`.  A step writes files only of an archive that
  has no manifest yet, or takes away archives that the backup just completed outlives
  (`WritesApart`): the one at work is not among the `aged`, and pruning begins only
  when it is `Complete`.

Of the lists, for any finite set of stations and any number of events:

- `ListsSound`: `ListsAgree`, from `ListInv`.  The two statements about rows are
  inductive only with what the lists hold of stations that have *no* row at the time:
  nobody is twice in a list, and everybody who is shown is in the list of his standing
  (`SoundPage`), so that hiding, showing and pinning draw on lists that are complete.
  Lists are filtered, appended to and inserted into; that a filter keeps the members
  that pass, their order and their distinctness is proved from its threading
  (`Places`, `Threaded`, `ThreadKeeps`, `OnlyKeeps`) and from there of joining,
  inserting and removing duplicates (`ConcatKeeps`, `InsertKeeps`, `OnceKeeps`).  No
  induction over lists is needed: a filtered list is described by counting, its k-th
  member being the one with k members that pass up to it.
- `RowsKept`: `RowsKeepTheirPlaces`.  `LandsThere`: a drop puts the row beside the one
  that its mark was at, which needs that a row is never its own target (`ListInv`).
  `OrderStays`: every other step but `Snapshot` either draws the lists anew
  (`OnlyRenders`), by filtering and appending, or renames one station
  (`CorrectedIs`).

Of the panels, for any roles, screens, older layouts, movements and number of edits,
with the lemmas of `LoggerLayoutProofs`:

- `ListsSound` has the panels' types too, from `LayoutInv`.  A layout that nobody drags
  was `Brought` to the grid: each panel lies in it and is no smaller than it may be,
  but for Station Controls of an upright phone, whose height is raised afterwards.
- `PanelsRest`: `RestsOnGrid`.  That exception does not arise where Station Controls has
  room for six rows (`Roomy`), and a drag that is `steady` keeps it so (`Sturdy`,
  `DragSound`): by `BroughtIs`, `PutIs`, and one lemma for each action.
- `WideScreensStayClear`: what `EditsStayClear` and `OthersStay` say of a step, on
  desktops, tablets and phones held across.  From `WideDrag`, which says how the
  layout on the screen and the preview differ from the layout a drag began with: a
  moved panel is alone, has traded places with one, or shares the room of another;
  a pulled one is the only one changed; a boundary divides the same room.
  `DockedIs` is the longest step: the panels that take the place of the one docked tile
  the stretch it leaves (`BoundaryTiles`, `GrownIs`), and two halves tile the panel it
  is docked to (`HalvesAre`).  `SplitClear` is the same for a boundary.
- `PanelsAreClear`: `PanelsStayClear`, where no phone is held upright.

Only model-checked:

- The liveness properties (`PastGraceSettles`, `RemainsCleared`, `EveryCallServed`,
  `ClosesEnd`, `ChatGoesOrWaits`, `PagesSettle`, `ChatCatchesUp`, `LoggerSettles`) and the
  violations: TLAPS does not reason about fairness and ENABLED.
- Of `PanelsStayClear`, the steps on a phone held upright: the stack that is shown there
  is another layout than the stored one, and what a boundary of the one makes of the
  other would be an induction over the stack.  (That panels rest on the grid is proved
  of such a phone too.)

## Plan

Done: all modules above.  What a next step would take up, in this order:

1. `Materialization`: `materializeSchedule`, disabling and enabling a schedule
   against a concurrent prepare; refines `OccurrenceStatus` with `withdrawn`.
2. `Reminders`: the notification's claim, retry and expiry against edits.
3. `Ownership`: owners, nets, deletion and unfollow jobs; `SignIn`.
4. Images of the chat: upload, recovery of those that failed.
5. The panels of an upright phone: a theorem like `WideScreensStayClear` about edits
   by keys and moves.

## Simplifications

Steps of the code that a model takes together or leaves out, where no property
depends on the difference.

- Several reads or a read and a save in one step: `capturePresence` in
  `LiveNetLifecycle!EditRoom` (`liveNetHelpers.js:293-327`), the state that
  `StationRoles!ReadState` answers with.  `Prepare` reads the clock where the code
  keeps the time at which the request began (`lifecycle.js:58`).
- `ChatRetention`: when the write of the catch block fails as well (`RunAborts`),
  `closeNet` answers false though the net was closed (`sharedNetOps.js:952-958`); here
  the close ends like one whose report comes later.  `Postpone` asks whether the chat
  has expired when it writes, the code when the run began.
- `StationProfiles`: two first visits that create one profile (E11000,
  `stationProfileService.js:56`), and an account value that is blank.  `StationRoles`:
  corrections are of stations that are in or out.
- `StationPhotos`: the limits of the two caches.
- `ChatOverlays`: the options menu of the chat (a `details` element, `chat.ts:374`),
  the quick reactions of a message, and the removal of the widget, which closes the
  lightbox (`chat.ts:539`).  "One menu" in `PageAgrees` does not speak of the first two.
- `StationGroups`: a change of nothing but the order of stations only raises the
  attendees' flag (`stores.ts:657-668`); stations have no order here.
- `StationLists`: who helps does not change, loggers and relays are one group, and the
  selected row is not announced to other pages.
- `LoggerLayout`: `collapsedSections`, from before there were layouts, hides nothing
  here (`ncoLogger.js:3896-3904`).  That a drag has gone far enough to be a move is
  a choice of `Release`.
- `Backup`: an operator's own `backup` or `prune` beside the scheduler's, the option
  that restores over uploads, and a dump that is piped.

## Not modelled

- Schedule materialization, reminders, ownership and account deletion, sign-in and
  rate limits, daily processing: each is a few conditional updates whose
  hazards are listed in `PROJECT.json`; planned above.
- In the chat: what a message says, images (upload, recovery of failed uploads,
  `chatRetention.js:147`), the export, the cut of a private conversation at 500
  messages, emoji tables.
- In the logger: drawing, the measuring of pixels, HTML templates, and code that
  nothing calls: the relay synchronization (`ncoLogger.js` 3770-3880) and the
  profile candidates (3556-3675).
- Widgets: of `widgets.ts` only those the pages register are used (the favorites'
  among them); the rest (931-3327) is not reached.
- Of the controllers the read-only handlers (lists, details).
- HTTP routing, views, configuration, e-mail rendering and the other command line
  tools, which hold no state that evolves.
- The count of reports a session gets (an e-mail that may have been sent is marked
  failed and then sent again), and the two halves of `closeNet` in one module.
