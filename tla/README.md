# Torrentinel: specification, model checking and proofs

Torrentinel (`server/`, a Node service with SQLite; `src/`, its web interface)
watches trackers for its users. A *direct* subscription watches one topic page,
a *rule* matches releases a tracker's feed or search shows; what changes is
recorded and sent to the user's Telegram chat. The program is a single process
of cooperative callbacks: one piece of code runs at a time, and gives way at
every `await`. What it promises must hold over those awaits, over edits made
meanwhile, over crashes, and over a network that fails. That is what this
directory specifies in TLA+, checks with TLC and proves with TLAPS.

## 1. Inventory

| Component | State it keeps | Operations | Interacts with |
|---|---|---|---|
| Notification outbox (`notification-queue.ts`) | table `notification_queue`: payload, `next_attempt_at`, `attempts`, lease, receipt; per process `timer`, `active`, `stopping` | `enqueueNotification`, `start`, `wake`/`drain`, `process`, `stop` | enqueued inside the scheduler's transactions; calls `TelegramService.notifyRelease` |
| Telegram service (`telegram.ts`) | tables of bots, chats, link codes, stored offset; a worker per bot | `configureBot`, `removeBot`, `createLink`, `pollLoop`, `notifyRelease` | outbox, cover cache, Telegram |
| Direct checks (`scheduler.ts`: `checkSubscription`, `checkDirect`, `checkDirectOnce`; `direct-snapshot.ts`) | `subscriptions` row (URL, fingerprint, snapshot, error), the map `directChecks`, timers | check, join, baseline decision, record a change | routes, polls, cover cache, outbox |
| Cover cache (`cover-cache.ts`) | a row and a file per subscription | `refresh`, `read`, `remove`, orphan pruning | direct checks, routes, Telegram |
| Rule polling (`scheduler.ts`: `pollRules`, `processRuleMatches`; `rule-matching.ts`) | `subscription_tracker_state`, `rule_matches` | discovery, baseline, enrichment, match | feed, routes, outbox |
| Rolling feed and gaps (`release-buffer.ts`, `scheduler.ts`) | `release_buffer`, the feed's last page and gap | feed poll, overlap, catch-up searches, closing a gap | rule polling, feed assistance |
| Feed assistance (`feed-assist.ts`) | none (`detail_verified_at`, `continuousSince` are read) | `feedShowsNoChange` | direct checks |
| Scheduler runs and lanes (`scheduler.ts`) | `currentRun`, timers, `stopping` | `run`, targeted runs, `stop`, lanes | all checks, outbox |
| Subscription, collection, admin and settings routes (`routes/`) | the tables | create, PATCH, DELETE, check, enable, mirrors, bots | direct checks, rules, cover cache |
| Sign-in limiter (`attempt-limiter.ts`) | windows and spacers in memory | reserve, prune | authentication routes |
| Browser and Kinozal sessions (`trackers/`) | a browser, a client per user | serialised operations, idle close, sign-in, retry | plugins |
| Plugins, parsers, transport, egress, diagnostics, database set-up | none, or logs | pure functions, stateless requests, appends | - |
| Web interface (`src/hooks/useWorkspaceData.ts`) | loaded data, requests in flight | load, abort, refresh | HTTP API |

Hard behaviours, and what makes each part correct:

* **Outbox.** Between the claim of a row and its receipt lies the network:
  answers get lost, processes die, two processes overlap while a container is
  replaced, leases expire under a slow send. Correct: nothing owed is lost or
  acknowledged unseen; a second copy always has a cause; a rate limit defers
  what waits; everything deliverable is delivered in the end; shutdown ends.
* **Direct checks.** Two awaits (page, cover), each of which the row may not
  survive as it was; overlapping requests share one check; identifiers are
  reused. Correct: the baseline is the watched topic's, reported changes are
  real and go to the right user, an edit is checked after all, artwork belongs
  to the topic, callers return.
* **Rule polling and gaps.** Long polls with an await per match, rules edited
  meanwhile, foreign keys that fail in the middle of a loop, a feed that skips
  pages. Correct: a rule reports no release it silently accepted, and none of
  a rule that changed; a gap is closed only when no active rule misses it.
* **Telegram workers.** Offsets read before an await and written after it.
  Correct: one worker per configured bot, with that bot's token and offset.
* **Scheduler.** Single flight, targeted runs that wait, stop against work in
  flight. Correct: one run at a time, no run or timer after `stop()` returned.
* **Sessions, limiter, cover files, web data.** Idle timers against new work,
  bounded maps, rows against files, answers out of order.

`PROJECT.json` lists every component with its status, and under `hazards` each
of these at its line.

## 2. Plan

| Step | Modules | Composition | State |
|---|---|---|---|
| 1 | `NotificationQueue`, `Outbox` | refines `Outbox` | checked, proved |
| 2 | `DirectCheck` | | checked, proved |
| 3 | `FeedCoverage`, `FeedAssist`, `RutrackerSearch` | each extends the one before | checked, proved |
| 4 | `RulePoll`, `RuleWatch` | extends `FeedCoverage`, refines `RuleWatch` | checked, proved |
| 5 | `SchedulerRun` | | checked, proved |
| 6 | `TelegramBot`, `CoverCache` | | checked, proved |
| 7 | `BrowserSession`, `KinozalSession` | the second extends the first | checked, proved |
| 8 | `StartUp`, `Accounts`, `AttemptLimiter` | | proved |
| 9 | `WorkspaceData` (`src/hooks/useWorkspaceData.ts`) | | to do |

Every safety property of the runs is a theorem, but for the two that have a
counterexample. Bounds of the runs: two actors of each kind, two or three values
of each datum, two or three edits, one crash.

## 3. What is modelled

### `NotificationQueue` (and `Outbox`)

The table is a function per column over `Notes`; the users' settings `enabled`
and `linked`; per instance `pc` ("idle" between passes, "loop" in
`process`, "call" while a Telegram call is on its way, "accepted" when Telegram
has shown the message and its answer is on its way back), `stopping`, `job`
(the claim in flight) and `claims`. SQLite statements and transactions are one
step. Times are relative and count ticks.

| Action | Code |
|---|---|
| `Enqueue`, `Delete` | `enqueueNotification`; cascades of subscription and collection deletion |
| `SetDisabled`, `SetLinked` | `PATCH /api/admin/users/:id`; `configureBot`, `removeBot`, `unlink` |
| `Start`, `Wake`, `EndPass`, `Stop`, `Exit` | `start`, `wake`/`drain`, the end of `process` with its pruning, `stop` and the end of the process |
| `Claim`, `ClaimUnlinked` | the claim transaction; the latter with `notifyRelease` finding no destination |
| `Accept`, `Refused`, `AnswerLost`, `RateLimited` | the outcomes of a Telegram call, over the chain of send methods of `notifyRelease` |
| `Delivered`, `RecordFailure` | the receipt and the catch block of `process`, both guarded by the lease |
| `Crash`, `Tick` | external |

`Outbox` says what this is for: an entry is owed from the moment it is handed
over until Telegram has shown a copy or the user gives it up. The refinement
mapping is `Promise`; `OutboxPromise` states it.

History variables (`copies`, `excused`, `limit`, `deferral`) record what the
program cannot see; no action reads them. Left out: captions, keyboards, the
delivery log, the reason of a failure. The lease token is modelled by the
instance that holds it: an instance sends one row at a time, and a claim of its
own for the same row follows only after its previous send has ended.

### `DirectCheck`

One identifier; all of the program's state is keyed by it. `sub` is the row,
`mirror` the base URL, `cover` the cover row (the topic its artwork is of),
`check` the entry of `directChecks` together with the state of its check: the
await it is at ("fetch", "retrieve" for the cover, "tail" for the file
operations after the cover row is written, "drop" for the removal of a
superseded check's artwork, "skip" when the feed shows the topic unchanged), the
row it holds and the snapshot it read. `caller` holds the callers of
`checkSubscription` and its timers, `patching` and `deleting` the handlers that
wait for `coverCache.remove`.

| Action | Code |
|---|---|
| `Create`, `PatchUrl`, `PatchQueues`, `DeleteBegins`, `DeleteEnds`, `Toggle`, `SetMirror` | the routes, split where they wait |
| `Request`, `Timer`, `CheckSubscription` | `POST .../check`, `queueSubscriptionCheck`, `checkSubscription` (no row, join, or lead) |
| `Poll` | a full poll's `checkDirect` |
| `Fetched`, `FetchFails` | the continuation of `fetchSnapshot` |
| `CoverStored`, `CoverFails`, `Settle`, `Dropped` | `coverCache.refresh` up to its statement, what follows it, `coverCache.remove` |
| `Skip` | the end of a check the feed made needless |
| `Crash` | external: the database stays, everything else goes |

A page is one of `Versions`; a snapshot remembers, as history, the topic it was
read from (`from`), which the code does not store and the properties are about.
The fingerprint comparison of `directRowStillCurrent` is therefore weaker than
equality of snapshots, as in the code. `Conclude` is the whole tail of
`checkDirectOnce`: the baseline decision of `direct-snapshot.ts`, the silent
outcomes, the change with its event and notification in one transaction.

Abstractions: which feed entries make a check needless is left open within the
guards of `unchangedInFeed`; one PATCH of the URL and one DELETE at a time wait
for their cover removal (either may overlap the other, and every check); the
three switches (subscription, account, mirror) are one `on`; the statement that
deletes a row whose user is another one cannot be reached within these bounds.

### `FeedCoverage`, `FeedAssist` and `RutrackerSearch`

`FeedCoverage` is one tracker's feed: what the tracker has listed and when by
its own clock (`listed`, `offset`), the page the plugin keeps for a while
(`cache`), the row of `tracker_feed_state` (`feed`) and `tracker_release_buffer`
(`buffer`). `FeedAssist` adds the one decision made over them, `RutrackerSearch`
the search that catches up on a gap: the user's account and mirror, the client
with its cookie jar, whether the tracker still knows the session (`alive`), and
the search in flight.

| Action | Code |
|---|---|
| `Publish`, `Tick`, `Remove`, `SessionEnds` | external: the tracker |
| `ReadFeed`, `Ingest` | `loadFeed`; `ingestRollingFeedBatch`, one transaction, with overlap, gap, continuity and pruning |
| `CatchUp`, `CloseGap` | storing a search's releases; `markFeedRecovery(complete)` |
| `FeedShowsNoChange` | `feedShowsNoChange` |
| `LaneReads`, `LaneIngests`, `Skip`, `Recover`, `LaneEnds` | the poll around one search |
| `ExistingAnswers`, `ClearanceComes`, `LoggedIn`, `LoginRefused`, `ResultsAnswer`, `LimitReached`, `RequestFails` | each answer `recover` can get, with the pages read so far; the page past the limit is requested and not looked at |
| `SetAccount`, `Restart` | PUT of the account; the client and the feed page live in memory |

`shown` and `skipped` remember, as history, what was listed when the last page
was read and which listings neither a page nor a search has shown. A listing
takes an instant, so no two share a time; entries without a time are left out. A
lapsed session is answered with the login page, as the tracker does, not with
HTTP 401.

### `RulePoll` and `RuleWatch`

The poll of one tracker's lane over that feed. `rule` joins the subscription
with its `subscription_tracker_state`; `served` are the rules whose owner and
whose tracker's mirror are enabled, which `ruleRows` asks for and `stillCurrent`
does not; `poll` is the lane: the rows it selected (`held`), the discovery
groups to come, the row and the matches being processed. It gives way at the
feed request, the lane's direct checks, a search and the enrichment of a match;
its steps between two awaits are separate actions during which no handler acts
(`Waiting`).

| Action | Code |
|---|---|
| `Create`, `PatchRule`, `PatchTerms`, `Toggle`, `Delete` | the routes; a PATCH with and without `trackerKeys` |
| `Serve` | an account or a mirror is disabled or enabled (`routes/admin.ts`); any set of rules may be left |
| `BeginPoll`, `PollReads`, `PollIngests`, `FeedFails`, `DirectsDone` | `ruleRows`, `pollTrackerLane`; a full poll's direct checks |
| `NextGroup`, `SearchFinds`, `SearchFails`, `StartRows`, `GroupDone`, `EndPoll` | `pollRules` |
| `Baseline`, `StartRow`, `Enriched`, `RowDone` | `processRuleMatches` with `stillCurrent` |
| `Crash` | external |

A statement about a rule that is gone fails on its foreign key; what was stored
before it is any of the rows (`ErrorOn`, `LaneDies`). Terms are the sets of
topics they match. As history, `before` is what the buffer held when a rule got
its terms, less what is pruned from it before the baseline, and `owes` the time
from which a rule must miss nothing; `Missed` is what it would miss, `Known`
that it carries an error or that the gap's beginning accounts for it.
`RuleWatch` is the promise without polls: a rule settles each release it watches
for once, silently or by telling it, while it is enabled and by the terms it has
then. Whether its owner and its tracker are enabled counts only when a check
takes it up (`TakeUp`): what the check took up it may finish.

### `SchedulerRun`

`life` and `stopAt` follow the process through `stop()`; `runs`, `current`,
`waiting` and `resuming` are the executions of `executeRun`, `currentRun` and the
targeted callers that await it; `pass` is the notification queue's pass, `row`
the row `scheduler_status`. There is one direct subscription, of the tracker
`Home`: `check` says whether a user or a lane began the check that is in
`directChecks`, `joined` how many users await it besides, `after` where the users
are whose check has left the map (they drain the notifications). A promise that
is settled resumes its callers before anything else happens (`Settled`).

| Action | Code |
|---|---|
| `Start`, `StartupFires`, `IntervalFires`, `SetPollInterval`, `Poll` | `start`, its timers, the interval's setting, `POST /api/system/poll` |
| `CheckNow`, `TimerFires`, `EditRule`, `EditDirect`, `ArtworkRemoved` | `checkSubscription`, `queueSubscriptionCheck` and the routes that call it |
| `LaneChecks`, `LaneEnds`, `RunEnds`, `Resume` | the lanes of `executeRun`, which begin or share the direct check, its end, the loop of `runWithScope` |
| `DirectLoaded`, `DirectEnds`, `Wake`, `PassEnds` | the end of a check, after which those who joined a superseded one go again (`GoAgain`), its `drain`, the queue's passes |
| `Stop`, `ChecksStopped`, `Closed`, `Exit` | `stop`, the shutdown in `app.ts` and `index.ts`; a crash anywhere |

What a lane, a check and a pass do is the business of the modules above; here
they begin and end.

### `TelegramBot`

The rows `telegram_bots` (`bot`), `telegram_accounts` and `telegram_link_codes`;
`loops` are the poll loops, `worker` the entry of `workers`; `asking` counts the
calls that wait for a bot's name, by token, `calls` are those that wait for the
worker to end, `due` those that resume next; `messages` and `forgotten` are
Telegram's side (it forgets what lies before the offset it is asked for).

| Action | Code |
|---|---|
| `Configure`, `GetMeAnswers`, `GetMeFails`, `Remove`, `Resume` | `configureBot`, `removeBot`, `stopWorker`, `startWorker` |
| `CreateLink`, `Unlink`, `CodeExpires`, `Send` | link codes; a user's message |
| `UpdatesArrive`, `Replied`, `ReplyFails`, `PollFails`, `DelayOver` | `pollLoop` and `handleUpdate` |
| `Start`, `Stop`, `Crash` | `start`, `stop`, the end of the process |

Every message is a "/start" with a code; other texts only answer.

### `CoverCache`

The row of `subscription_cover_cache` and the files of one subscription, whose
names depend on the content. `check` is the check's refresh at its file
operation, `handler` a request that waits for its unlink, `reader` a `read`.

| Action | Code |
|---|---|
| `Backfill`, `PageChanged`, `Redirected`, `NotRetrieved`, `Retrieved` | when `checkDirectOnce` refreshes; `cover-fetch.ts` with its redirects and the three ways it tries |
| `Renamed`, `NotWritten`, `Inserted`, `Unlinked`, `Settle`, `Dropped` | `refresh` and the check after it |
| `Patch`, `Delete`, `Removed`, `Create` | the routes around `remove` |
| `Read`, `Loaded`, `ReadEnds`, `ReadDropped` | `read` |
| `Crash` | external, with `pruneOrphans` at the next start; files that were not synced may be short |

### `BrowserSession` and `KinozalSession`

`BrowserSession` is `IntegratedBrowserClient`: its queue of operations, the
Chrome it launches, restarts and closes, the idle timer. All clients share one
profile, which one Chrome may have open. `KinozalSession` puts the session
manager on it: the entry with its client, `authenticated` and the pause after a
failure; callers; the account configured and the cookie in the profile.

| Action | Code |
|---|---|
| `Begin`, `ChromeEnds`, `Launch`, `Repeat`, `IdleFires`, `IdleClosed` | `serialized`, `ensureContext`, `resetContext`, `withContextRetry`, the idle timer |
| `Get`, `FirstGet`, `Replace`, `Replaced` | `KinozalSessionManager.get`, `entry` |
| `Landed`, `FormAccepted`, `PageServed`, `PageNeedsLogin`, `Fails`, `PauseEnds` | `ensureAuthenticated`, `request`, `deferRetry` |
| `ChangeAccount`, `SessionEnds`, `ChromeFails` | external |

A crashed Chrome is assumed to leave no live singleton socket behind. Clients
are objects and never run out: `ChangeAccount` is bounded so that one is left
for whoever may need one (`ClientLeft`).

### `StartUp`, `Accounts` and `AttemptLimiter`

`AccountBase` has the constants the three share, so that one module can prove about
all of them; they share no state.

`StartUp` is a start as a sequence of statements and file operations
(`createApplication`, `createDatabase`, `createSecretVault`, `ensureVaultKey`,
`prepareInitialAdmin`), cut short anywhere (`Die`, `KeyCutShort`), between which
the operator copies and restores either volume (`CopyDatabase`,
`RestoreDatabase`, `RestoreFiles`). While it serves, the first account may delete
its Inbox (`DeleteInbox`).

`Accounts` is users, sessions and revoked sessions. A handler that hashes or
compares a password is two actions (`Login`/`LoggedIn`/`Refused`,
`Change`/`Changed`, `Create`/`Created`, `Reset`/`ResetDone`), and between them
anything happens; `Patch`, `Logout` and `Expire` run in one piece. Sessions are
ended by two statements outside a transaction when an administrator resets a
password or disables an account: a crash may come before the first and between
the two (`RevokeCut`).

`AttemptLimiter` is the two in-memory maps of `attempt-limiter.ts` and their use
in the authentication routes: an attempt is checked and takes its turn
(`LoginFree`, `LoginInLine`, `ChangeAttempt`), then ends (`Fails`, `Succeeds`). The
pruning of a full map drops any entry (`DropBucket`, `DropLine`). `Spacing` is
the table of the code's formula, of which the proofs need only that it lies
between the initial and the maximum spacing.

## 4. Runs

| Run | Shows | Bounds |
|---|---|---|
| `outbox` | `TypeOK`, `NoUnexplainedDuplicate`, `RateLimitDefers`, `OutboxPromise` | two instances, two rows of one user, a lease of one tick, one claim per pass, one photo method, one stop or crash |
| `outbox_live` | `EventuallyDelivered`, `ShutdownCompletes` | one instance, two rows, backoff that still grows, one stop or crash |
| `outbox_limit` | counterexample to `LimitHonoured` | one instance, two rows |
| `direct` | `TypeOK`, `BaselineOfTopic`, `ReportsRealChanges`, `EditPursued`, `ArtworkOfTopic` | two users, topics, versions, mirrors and callers, three edits, one crash |
| `direct_live` | `CallersReturn`, `EventuallyBaselined` | one user, version and mirror, two topics and callers, two edits, one crash |
| `direct_artwork` | counterexample to `NoOldArtwork` | as `direct_live` |
| `feed` | `BufferFollowsFeed`, `SkippedIsGap`, `SkippedPageUnchanged`, `SearchIsComplete`, `FinalMeansFinal` | three topics, pages of one entry, four instants, clocks that differ by one, searches of two pages, one mirror, one change of account or session |
| `rules` | `TypeOK`, `SilentBaseline`, `WatchPromise`, `GapClosedKnowingly` | two rules and topics, a feed of one entry, three instants, a retention of two, two edits |
| `scheduler` | `TypeOK`, `SingleFlight`, `NothingStartsAfterStop`, `ClosedIsQuiet`, `StatusIsTrue`, `EditChecked`, `ShutdownEnds` | two rules and a direct subscription, two lanes, two edits, one request, one restart |
| `telegram` | `OnePoller`, `LinkedByBot`, `NothingSkipped`, `RepeatsExplained`, `MessagesRead` | two bots, two calls, one code, two messages, two starts |
| `covers` | `ReadMatches`, `CoverKept`, `CoverReturns` | two topics and images, one request and one reader at a time, three edits, one crash |
| `sessions` | `AttemptsLimited`, `ReplacedCloses`, `Recovers` | three clients, two callers, two accounts, three events |

Why the bounds are enough.

* Outbox: two rows are what the order of claims, the pass limit and the spread
  of a rate limit need; two instances what leases need; one crash or stop
  reaches every step of a send, and the process starts again.
* Direct checks: three edits cover every pair of events between the two awaits
  of a check and the re-creation of a deleted identifier (delete, create, edit).
* Feed: with a page of one entry two listings between polls open a gap; three
  topics give it two releases, so that one may be found on a first page of
  results while another moves to the second, and the limit of two pages may be
  met. Four instants hold a page, a gap and what is listed during the search.
* Rules: two rules of equal or different terms share or split a discovery group;
  two edits are a creation and an edit, a deletion or a disabling during its
  first poll, or two rules of which one is polled.
* Scheduler: two rules and a direct subscription let two callers wait for a run
  that a third began; one restart follows a shutdown or a crash.
* Telegram: two calls overlap in every way of one replacing the other; two
  messages make a batch that a failure cuts in the middle.
* Covers: a refresh, a request and a reader meet on one name or on two; three
  edits delete a subscription and create it again before a stale step ends.
* Sessions: two callers hold an old and a new client; three clients are what one
  change of the account with two concurrent replacements uses.

The constants of the code (30 s, 6 h, 10 min, 100 claims, 15 min) matter through
their order only. `MaxStops`, `MaxEdits`, `MaxCrashes`, `MaxTime`, `MaxChanges`,
`MaxRequests`, `MaxRestarts`, `MaxCalls`, `MaxCodes`, `MaxMessages`, `MaxStarts`,
`MaxFaults`, `MaxEvents`, `AttemptCap` and `Overdue` bound counters and are no
part of the code; `Callers`, `Handlers` and `Readers` bound requests that
overlap. `TypeOK` of `RutrackerSearch`, `TelegramBot`, `CoverCache` and
`KinozalSession` describes their variables and is not among the properties of
their runs.

Only `sessions` checks deadlock: with all edits made, nothing subscribed and
nobody waiting, every row settled, time run out or the last process stopped, the
other models have nothing left to do.

### Findings

* `outbox_limit`. "A bot-level rate limit applies to all its pending sends"
  (`server/notification-queue.ts:99`), and the README promises retries that
  honor Telegram's rate limits; the limit is spread over the rows that are in
  the table at that moment. A release recorded a moment later is due at once and
  is sent within the limit. `RateLimitDefers` is what does hold.
* `direct_artwork`. "Edits during that request must not allow this old snapshot
  (or its newly cached artwork) back in" (`server/scheduler.ts:441`). The
  artwork is stored first and removed after the second look at the row; a crash
  between leaves it with the edited subscription. `ArtworkOfTopic` is what does
  hold.

### What the properties exempt

Some properties hold of the code only with an exception, which they state:

* `SearchIsComplete`: a topic removed while pages are read moves the next ones
  up over the edge of a page, and one of them may be missed.
* `FinalMeansFinal`: a session that ends between two pages ends the search for
  good, although the next search would sign in anew; the comment at
  `server/scheduler.ts:1076` has only what the user must change in mind.
* `SilentBaseline` (`raced`): a PATCH of the terms alone leaves the tracker's
  state initialised, and a poll under which a rule was edited marks the new
  terms initialised; either way what was there when the terms were given may be
  told.
* `GapClosedKnowingly`: the same edits; what was listed before the gap's
  recorded beginning by the tracker's clock, between the reading of the last
  page and its storing or while that clock was behind; what was listed anew
  since, or is older than the buffer keeps. And a rule that is enabled while a
  full poll waits for the feed: `ruleRows` was read before, the poll searches
  nothing for it, and closes the gap all the same (`server/scheduler.ts:802`,
  or line 336 when the lane has no rules at all), although "the next full poll
  must cover all active rules first" (`docs/operations.md:9`). The same goes for
  the rules of an account or a mirror that is enabled meanwhile.
* `WatchPromise`: a match is told although its owner or the tracker's mirror was
  disabled while it was enriched, or later in the same poll: `stillCurrent`
  (`server/scheduler.ts:847`) looks at the rule's own switch only, `ruleRows`
  (lines 536 and 538) at all three. The promise is about rules that a check took
  up while all three were on.
* `NothingStartsAfterStop`: a full run that is active when `stop()` is called
  still begins the direct checks of its lanes (`server/scheduler.ts:333`, 339-351,
  neither asks `stopping`). `stop()` awaits the run and with it those checks.
* `SingleFlight`: a full poll joins the active run, and so does the one an
  administrator asks for ("Administration **Run now** performs a full poll",
  `docs/operations.md:9`), even when that run checks one rule only
  (`server/scheduler.ts:222`).
* `OnePoller`, `LinkedByBot` (`overlapped`): `configureBot` and `removeBot` for
  one user are not ordered. At most one loop runs all the same, but it may be
  the other bot's, or run without a bot.
* `NothingSkipped` (`late`): the worker of a replaced bot stores its offset with
  whatever bot there is by then (`server/telegram.ts:480`).
* `RepeatsExplained` (`repeats`): the offset a worker is started with was read
  before the previous worker had stored its own (`server/telegram.ts:172`), or
  a crash came first; messages are then handled again.
* `CoverKept`: a read that found an earlier file missing deletes the row a
  refresh has just written (`server/cover-cache.ts:134`); an unlink that was
  issued earlier takes the same content again. `CoverReturns` says that the
  next checks make up for it. Files left by a row that went with its
  subscription stay until `pruneOrphans`.
* `AttemptsLimited` is one attempt for each request in flight, not one in all:
  requests side by side may each submit the form, and the second, which finds
  none any more, pauses a session that is signed in.
* `ReplacedCloses` says that every replaced client's Chrome closes in the end:
  two concurrent replacements make two clients on one profile, and the one that
  is not kept closes by its idle timer only.
* `ChangesEndSessions`, `EndedForGood` (`spared`): a crash before the sessions of
  an account are ended leaves them; between the two statements of
  `revokeSessions` (`server/auth.ts:104` and 106) it leaves sessions that are
  listed as ended and are still accepted.
* `InboxSeeded`: no later start makes up for an Inbox that a cut start did not
  make; and `DELETE /api/collections/:id` takes an Inbox like any other
  collection (`server/routes/collections.ts:47`).

## 5. Fairness

Safety is checked and proved without it, except that the runs with liveness
properties check their invariants under the same specification.

* `NotificationQueue`: a process that ended is started again (the deployment
  restarts the service), timers and continuations that are due run, every call
  ends (it has a timeout), time passes; and of the calls made for one row over
  and over, one is accepted and answered at last. The last is an assumption
  about Telegram.
* `DirectCheck`: timers fire, handlers and checks continue when what they wait
  for is there, polls go on, and pages are not unreachable forever. A caller
  woken by the end of a check continues in that turn of the event loop while
  polls are minutes apart: strong fairness of "no check is active and this
  caller goes on".
* `SchedulerRun`: requests end or time out, so what runs and checks do goes on
  and a pass ends, timers fire, and `stop()` goes on when what it awaits is over;
  weak fairness of each. Nothing is asked of the interval,
  so that `EditChecked` does not hold by the next poll alone, nor of a run being
  started by anyone.
* `TelegramBot`: weak fairness of answers, replies, aborts, pauses and
  resumptions; strong fairness of an answer with messages, since a request may
  fail over and over but not forever.
* `CoverCache`: polls go on, file operations and requests end (weak); of images
  asked for and files written over and over one succeeds (strong).
* `KinozalSession`: the lane asks again, a client works on its queue, timers
  fire and pauses end (weak); of pages and forms tried over and over one is
  answered, and a Chrome is not kept from starting forever (strong).

## 6. Proofs

All constants are arbitrary: under the assumptions of the modules, or in
`StartUp`, `Accounts` and `AttemptLimiter` under the hypothesis `Constants` of
each theorem. Besides types and orders of bounds these say that topics and
callers are finitely many, and that `None` is none of the values it stands
beside. Any number of rows, users, instances, topics, callers, edits and
crashes, any lengths of times and sizes of pages.

`NotificationQueueProofs`

* `TypeCorrect`: `TypeOK` is inductive.
* `NoDuplicate`: from `SenderInv`. As long as nothing went unrecorded, a row has
  at most one sender, it holds the lease, and a copy shown of an undelivered
  row is the one whose answer it waits for. `NoUnexplainedDuplicate` alone says
  nothing of senders and is not inductive.
* `LimitDefers`: from `DeferralInv`, that nobody is sending a deferred row.
* `KeepsPromise`: the refinement. Every step of the queue maps to a step of
  `Outbox` or a stutter; that a receipt follows a shown copy is `SenderInv`'s.

`DirectCheckProofs`

* `TypeCorrect`: `TypeOK`, with what an entry of `directChecks` may look like.
* `BaselineHolds`, `ReportsHold`: from `BaselineInv`. What a check has read is
  of the row it holds; and while a check is active nobody else stores a
  snapshot, so what is stored, if anything, is what its row held. That closes
  the hole a comparison of fingerprints leaves: two topics may show the same
  fingerprint.
* `ArtworkHolds`: from `ArtworkInv`, that no artwork is without its subscription
  and what an active check cached is of its row.
* `PursuitHolds`: from `PursuitInv`, that what waits for its first check is
  enabled and has no baseline, and that a check the feed answers has one, so a
  skip never answers for a new topic.

`FeedProofs`, of `FeedCoverage`, `FeedAssist` and `RutrackerSearch`

* `BufferFollows`, `GapCovers`: from `FInv`, about three readings of one tracker,
  the page of the last poll, the page in the cache, and what is listed now. What
  has changed between an older and a newer one was listed after everything the
  older one has (`Advances`), the page is the top of what it was read from, and
  the row's keys are of the page that was shown. So an entry both pages have
  (`Overlaps`) proves that the newer page shows all that changed
  (`OverlapShowsAll`), and without one the gap begins at the row's time, no later
  than the change but for the age of the page.
* `SkipsAreSafe`: arithmetic over `BufferFollows`. The tolerance is used twice: to
  place the topic's listing in the time the feed covers, and to tell the
  entry's time from the time the page was loaded; `MaxAge` within the retention
  keeps the entry from being pruned before.
* `CompleteHasAll`: from `SearchInv`, that a release the search has not got yet is
  at the position the next page begins at or further down. A listing moves
  releases only down (`PublishMovesDown`), which may show one twice and never
  hides one; a removal moves them up, which is why the property exempts it.
* `FinalIsFinal`: one case per request; a search reads results only with the
  session of the mirror it was called with.

That the pages are of finitely many topics is assumed; the newest and the
oldest of a listing exist by that.

`FeedProofs`, of `RulePoll`. Its feed is the same, so `FInv` holds of it by the
same lemmas; `RuleInvariant` adds what a poll may rely on after each await.
`PollShape` is how far the lane has got, `PollTimes` that what a page missed was
listed before the last gap was seen, and five parts are about each rule.

* `RuleTypeCorrect`: what was told is recorded, and a poll's rows are rows.
* `BaselineIsSilent`: from `RowSilent`. Before the baseline, what was there at
  first is in the buffer and nothing was told; after it, it is recorded. The
  baseline step takes the one to the other because the row it holds has the
  terms the rule has, `RowSame`, unless the rule was edited under the poll,
  which is `raced`.
* `GapsCloseKnowingly`: from `RowCovered`, the one that had to be found. While a
  gap is open and no search has to be repeated, what a rule would miss is
  accounted for wherever the poll is: nothing is claimed before the rule's group
  is searched, then it waits in the buffer, during the rule's turn in `todo`,
  and afterwards it is recorded, or the search failed and the error is stored.
  A rule that skips its search has `gap_recovered_at` from an earlier one;
  `RowFound` says what that earlier search is still worth, and `PollTimes` that
  it came after all that was missed.
* `WatchIsKept`: the refinement, one step of `RuleWatch` or a stutter for every
  action. `stillCurrent` supplies that a release is told by the terms the rule
  has when it is told and while it is enabled, the selection that the rule was
  served when the check took it up, `RowSame` that a baseline settles releases of
  its own terms.

`SchedulerRunProofs`

* `TypeCorrect`: with `CountInv`, since a timer and a version of a rule are each
  of an edit, and those are bounded.
* `RunsAreSingle`: from `RunInv`: there is no run, or one, and `currentRun` is
  it. A targeted caller that its end wakes looks again and waits for the run
  that the first of them begins, so a second one never is added.
* `NothingIsLeft`, `StopIsFinal`: from `StopInv`, what is over at each stage of
  a shutdown: timers when `stop()` was called, runs and callers when the passes
  are awaited, everything when the database is closed. `WaitInv` supplies that
  callers wait only while there is what they wait for; `RunInv` that only a full
  run has direct checks to make. `ClosedIsQuiet` alone is not inductive: closing rests on what the
  stages before it have awaited.
* `StatusStaysTrue`: from `RowInv`: a run that ends writes the interval's next time
  as it is then, not as it was told when it began, and a start resets the row.

`CoverCacheProofs`

* `TypeCorrect` with `CheckInv`: what a refresh is about to unlink is not what
  it writes, and what it has written is whole, or gone.
* `ReadsMatch`: from `FileInv`. A name stands for one image, in the directory,
  in the row, and in the row a reader has looked up before it got the file.
* `CoverStays`: an action property of the same invariant, one case per action; a
  refresh falls under none of the exceptions because of `CheckInv`.

`TelegramBotProofs`

* `TypeCorrect`: with `Shape`, the worker with regard to the calls: a loop that
  has not ended is the worker's, it was aborted if and only if a call waits for
  its end, and only a process that runs has either. So there is at most one
  loop, whatever overlaps.
* `ReadByOne`: from `Single` and `Matched`. Calls that do not overlap are one
  call, and the one that replaces a bot starts the worker of the row there is.
* `LinkedByTheBot`: from `Linked`. A worker that outlives its bot may still
  handle a batch, but no code that is valid now is in it: codes go with the bot
  (`DeleteBot`, `StoreBot`), and later ones are sent later than the batch
  arrived.
* `NoneSkipped`: from `Kept` with `InOrder`. Every message before an offset was
  handled, for each offset there is: the row's, the worker's, the one a waiting
  call will start with, and Telegram's.
* `NoneRepeated`: from `Once`: what a worker has before it was not handled
  unless it was started behind a handled message.

`KinozalSessionProofs`

* `TypeCorrect`: with `Used` and `Placed`. A client that was used has the
  account it was made for; a caller has one operation, in the queue of the
  client it holds. That `ChangeAccount` leaves clients enough is part of it.
* `SignInsLimited`: from `Limited`, which counts callers. While the entry is not
  paused, the attempts are no more than the forms in the queue; once it is
  paused, no more than the callers that do not wait for the landing page any
  more, since only they can still submit. The property alone does not say who
  may yet submit and is not inductive.

`SignInProofs`, of `StartUp`

* `SecretsAreReadable`: from `KeyInv`. In the database and in every copy of it,
  all secrets are under the key that its `vault_key_check` names; a start that
  is past the check has that key in memory and in the file. So restoring one
  volume without the other ends the start ("Restore the application and
  database volumes as a pair") and never serves unreadable secrets.
* `FirstPasswordIsKnown`: from `PasswordInv`, what holds at each stage between
  setting the account's password and saving or removing the file.
* `MigrationsAreDone`: from `StepInv`, that the loop has done what it is past.
* `InboxIsSeeded`: from `InboxInv`. An account whose Inbox was never made comes
  only from a start that died between the two statements, or a copy taken there;
  no later start repairs it (`server/db.ts:449`), which is why the theorem
  exempts them. An Inbox its owner deleted is none of its business.

`SignInProofs`, of `Accounts`

* `AdminAlwaysRemains`: whoever disables or demotes others is an enabled
  administrator and cannot do it to themselves, in one piece. `ReferenceInv`
  supplies that sessions and requests refer to accounts that exist.
* `ChangesEndAllSessions`: a session is of its account's present epoch. A
  sign-in that had read the account before the change and is given its session
  after it (`server/routes/auth.ts:51`), and a crash between the change and the
  deletion of the sessions, are exempt: the code does allow both.
* `EndedSessionsStayEnded`: no token is both a session and a revoked one, but for
  those a crash has spared between the two statements; tokens are not drawn
  twice.

`SignInProofs`, of `AttemptLimiter`

* `FailuresAreLimited`: failures and attempts in flight together exceed the
  limit by less than the number of attempts served at a time, since the check is
  made before the wait and not repeated. `CountedInv`: an attempt counts against
  keys it was checked for.
* `TurnsAreApart`: from `LineInv`. The line ends one spacing after every turn
  given out, and who waits in it holds such a turn; a line dropped for want of
  room is exempt.
* `WaitsAreBounded`: the line is never longer than the wait that is accepted and
  one spacing.

`StartUp`, `Accounts` and `AttemptLimiter` have no run: their theorems hold for
every value of the constants, which a run of a small instance would add nothing
to.

What the proofs found. Three properties held in the runs only by their bounds,
and were restated:

* `GapClosedKnowingly` ignored a rule enabled under a full poll, which takes
  three edits to matter, compared times by the server's clock where the code
  compares the tracker's, and ignored the retention.
* `SilentBaseline` ignored releases that are pruned from the buffer between a
  rule's creation and its baseline, listed anew and then told; the run's
  retention was as long as its time and is shorter now.
* `ChangeAccount` of `KinozalSession` could leave too few clients for callers
  that replace one after another.

Only model-checked, because fairness and ENABLED are out of the prover's reach:
`EventuallyDelivered`, `ShutdownCompletes`, `CallersReturn`,
`EventuallyBaselined`, `EditChecked`, `ShutdownEnds`, `MessagesRead`,
`CoverReturns`, `ReplacedCloses` and `Recovers`; and the two counterexamples.
Assumed throughout: SQLite transactions are atomic and durable, and a handler
without an await runs in one piece.

## 7. Not modelled

* Parsers turn text into releases: their results are inputs of the models, and
  so is the text matching of `rule-matching.ts`.
* Of transport and egress, timeouts, decoding and address checks: an await that
  succeeds or fails. Of the browser, request filtering, the proxy and the
  details of a challenge.
* A rule on several trackers and `settleRuleSubscriptions`, which sums their
  states up; coverage minutes and the health report.
* Overlapping starts of two processes on one database before either serves, and
  databases older than `vault_key_check`.
* Diagnostics and listing routes decide nothing the modelled parts read.
* The web interface. Its rendering is left out; the requests aborted and
  answered out of order in `useWorkspaceData.ts` are the one part left to model.
