# AIMarketAnalyst: a TLA+ verification of its order management and caches

AIMarketAnalyst is a PyQt6 desktop application that scans markets, places orders
through MetaTrader 5 (MT5) and then manages the stop of every open position: a
break-even stop first, a trailing stop after it.  This directory models the part of
the program that can lose money silently — the automatic stop management, its state
files, the thread that talks to the broker, the manual operations on that thread —
and two caches every score is computed from: the candle histories and the macro
downloads.  It also covers the jobs that follow a scan and the close of the program.
TLC checks the modules on small instances; TLAPS proves their main properties for
every instance.

## 1. The system

### 1.1 Components

| Component | State it keeps | Operations | Module |
|---|---|---|---|
| `core/order_management_state_machine.py` | none: immutable records in, a decision out | `start_management`, `pause`, `resume`, `evaluate`, `apply_confirmation` | `OrderStateMachine` |
| `services/order_management_service.py` | runtimes by ticket, active account, snapshots, refresh future, shutdown flag | poll cycle, account activation, register / pause / resume / unregister | `ManagedPosition` |
| the same, its executor | one worker's queue of futures | `request_refresh`, `submit_broker_operation`, `shutdown` | `ServiceExecutor` |
| `services/order_management_state_store.py` | primary file, backup, quarantined files | `save_sync`, `load`, recovery | `StateFiles`, promising `StateRegister` |
| `services/mt5_service.py`, orders | the terminal connection | snapshots, quotes, stop modification | in `ManagedPosition` |
| | | `close_position`, `cancel_pending_order`, `modify_pending_order` | `BrokerOperations`, promising `BrokerPromise` |
| `services/candle_history_cache.py`, `MT5Service.load_primary_timeframes_cached` | candle series by account and timeframe | activate, get, merge a tail, store | `CandleHistory` |
| `services/macro_market_cache.py` | cached frames, retry bookkeeping, flights | `_fetch`, forced or not | `MacroMarketCache` |
| `services/scanner_job_state.py` | registry of running jobs, marker files | begin, complete, interrupt, bounded wait | `ScanAftercare` |
| `controllers/scanner_controller.py` | scan lock, job registry | scan, aftercare, save by hand | its concurrency in `ScanAftercare` |
| `controllers/app_controller.py` | the services | shutdown order | split between `ScanAftercare` and `ServiceExecutor` |
| analysis, scores, gates, news, journal, AI, UI | SQLite, files, widgets | — | not modelled (section 7) |

`PROJECT.json` lists every component with its sources, and under `hazards` every
place where this code is exposed to something a test would hardly reach, with the
properties that would catch it.

### 1.2 How they interact

* **Threads.** The Qt thread (timer, user commands, shutdown), the service's single
  worker (every broker call of the service), the scan thread (candle loads, macro data,
  auto-trades), the dashboard's workers (macro data), daemon threads for deferred
  marker writes.
* **Shared state.** The service's runtimes under one `RLock`, released around each
  broker call and each evaluation; the state file behind the store's own lock; the
  job registry behind a condition; a candle load holds the MT5 operation lock from its
  first read to its last write; the macro cache keeps frames and attempts behind two
  locks and its flights behind a condition.
* **Calls.** Timer → `request_refresh` → executor → `_poll_cycle` → MT5 snapshot →
  state machine → `modify_position_sltp` → confirmation → save.  Orders screen →
  `submit_broker_operation` with the account and symbol of the last snapshot →
  executor → `MT5Service`; when it is done its callback calls `request_refresh`.
* **The outside.** The terminal's user and expert advisers edit or close the
  position; MT5 loses its connection or its replies; the process dies.

### 1.3 What is hard

* A decision is made without the lock from a state read under it, and a request is
  made from a snapshot that is older still: pause, resume, unregister, a manual edit
  or a close may come at each of these points.
* `order_send` may fail after it was executed, succeed without effect, or not answer.
* Break-even is a gate: nothing may trail from a stop that does not cover it, also
  after outages, restarts, retries and stops removed by hand.
* A crash leaves an intent, half a save or a damaged file.
* Several threads save the same file; a snapshot is taken before the set of tickets
  it is compared with is read.
* A done callback runs in the worker or in the thread that adds it, whichever is late.
* A shutdown must neither wait for ever nor record an interrupted job as completed.
* A manual operation runs later than it was asked for, perhaps on another account with
  the same ticket numbers; what the user is told must follow from what the broker did.
* A warm candle load joins three fresh bars to a cached series whose last bar was still
  forming; the reads of one load lag, fail, or straddle a new bar.
* A macro download that fails must neither be repeated by everybody nor forgotten, and
  old data must not live longer for it.

## 2. Modules

```
OrderStateMachine ── OrderStateMachineProofs
        │ EXTENDS              │ EXTENDS
ManagedPosition ──────── ManagedPositionProofs
        │ EXTENDS
MCManagedPosition (small instances)

StateRegister ◄─INSTANCE─ StateFiles ── StateFilesProofs

ServiceExecutor ──────── ServiceExecutorProofs

ScanAftercare ────────── ScanAftercareProofs

BrokerPromise ◄─INSTANCE─ BrokerOperations ── BrokerOperationsProofs
                                  │ EXTENDS
                          MCBrokerOperations

CandleHistory ────────── CandleHistoryProofs
        │ EXTENDS
MCCandleHistory

MacroMarketCache ─────── MacroMarketCacheProofs
```

### OrderStateMachine

The pure state machine, one operator per function.  Prices are integers on the
broker's grid and 0 is a missing price, as `_is_positive_number` treats both; the
tick size, the digit quantum, the stop distance and the settings are constants with
assumptions `ConstraintsAssumption` and `SettingsAssumption`.  `Evaluate` is
`evaluate()` with its order of checks: identity, staleness, pending intent, retry,
active phase.  `NormalizeStopTarget` clamps to the stop distance and rounds to both
grids.  `last_error`, messages and profit figures are left out.

### ManagedPosition

One position under management.  `pc` is the step of the poll in the worker; an action
is the code between two points where another thread or the broker can act:

| Actions | Code |
|---|---|
| `PollSnapshot`, `PollOutage`, `MarkAllStale` | `_poll_cycle`, `_mark_all_stale` (read outside the lock, write unconditionally) |
| `ActivateAccount`, `LoadState`, `RestoreStates` | `_activate_account`: clear, load, `dict.update` |
| `SelectRuntime`, `Observe`, `Commit`, `Gate` | `_evaluate_position`: read, decide, store if unchanged, execution gate |
| `Requery…`, `Send…`, `Verify…` | `MT5Service.modify_position_sltp`: re-query and precondition, `order_send`, postcondition |
| `LoadFails` | the branch of `_activate_account` for a file that could not be read: an event, nothing restored |
| `PollCollect`, `PollSave`, `CallerCollect`, `CallerSave` | `_persist_state`: image under the lock, save after it, which may fail (`SaveDocument`) |
| `Register`, `PausePosition`, `ResumePosition`, `UnregisterPosition`, `CommandForAnother` | the commands of other threads |
| `OrderFilled`, `PositionClosed`, `UserEdit`, `LinkChange`, `Restart` | the broker, its user, the process |

Quotes are drawn anew at every read, so the market may do anything between two
reads.  `held` says that the runtime object the poll captured is still the one in
`_states`.  A refused broker request is `ERROR_NON_RETRYABLE`
(`order_management_state_machine.py:559`); the contract's sentence that a rejection
keeps the management phase is not followed by the code, and the model follows the
code.

The state file is one register here whose saves and loads may fail (`DiskFailures`): a
failed save is reported and leaves the older or the newer image, a failed load leaves
the states cleared and the poll goes on.  `StateFiles` has the two files behind it, what
damage adds, and the one case in which they are no such register.  `store` is history:
whether the last save succeeded and whether this process could read the file.

### StateRegister and StateFiles

`StateRegister` is what the store promises: a save is all or nothing, acknowledged
only once it is what a load finds, and nothing but a save, or damage while the
program is down, changes what a load finds.  `StateFiles` is the code: primary →
backup copy, primary replaced, load with quarantine and fallback, reads, moves and
writes that fail, crashes between any two steps, damage while down, and the terminal's
switch between accounts with the service's activation.  `IsRegister` is the refinement.

The register has one exception, because the code has it.  A corrupt primary that the
load could not read or move away stays where it is (`LoadRefused`, history variable
`stuck`), and the next save copies it over the good backup before it writes the new
primary.  From such a load until something is restored or saved the register is
`exposed`: a save under way may lose its value.

### ServiceExecutor

The worker's queue.  A future is queued, running or done, with or without its done
callback; `thread` says where the Qt thread and the worker are.  `request_refresh`,
`_refresh_completed` and `completed` are the same actions for both threads, because a
callback runs in the worker or in the thread that adds it (`AlreadyDone`).  `Shutdown` sets the flag,
`Disconnect` is the end of the executor's join, the last save and
`AppController.shutdown`'s disconnect.

### ScanAftercare

The job registry with its callers: scan thread, save button, shutdown wait, deferred
marker writers.  Each action is one critical section of the condition or one marker
write; the per-job marker lock is a pair of the scan and the thread that made it,
since a second registration makes a second lock for the same scan.

### BrokerPromise and BrokerOperations

`BrokerPromise` says what an `OperationStatus` promises the user, in terms of what the
broker did: one effect per call at most, CONFIRMED only for a goal that has been
reached, REJECTED only for a call that changed nothing and will change nothing.
`BrokerOperations` is the code:

| Actions | Code |
|---|---|
| `Ask` | `submit_broker_operation`: account and symbol from the snapshot, task queued |
| `Query` | the first statements of each operation on the worker: re-read the ticket |
| `RefuseScope`, `AcceptScope` | account and symbol checked, nothing to change answered at once |
| `SendExecuted`, `SendRefused`, `SendPending` | `order_send`: done, refused, or accepted (or unanswered) and carried out later or never |
| `Verify` | the query after it, and the status that follows |
| `CarryOutLate`, `Drop`, `PositionMoves`, `OrderMoves`, `SwitchAccount` | the broker, the market, the terminal's user |

Two accounts use the same ticket numbers.  Volumes count lot steps; of an order's
fields the model keeps one price, one optional price and the stop-limit leg, which the
code sends back when the user did not mention it.  `touched` is history: the fields
somebody else edited after the call had read them.

### CandleHistory

The market is a set of instants that brought a quote.  A bar exists from its first
quote on and its content is its last quote, so the newest bar goes on forming and a
closed one is final; an interval without a quote has no bar.  A request names a count
for every timeframe: three settings, each edited by itself.  `BeginCached`, `Read`,
`ReadFails`, `CommitTails`, `FallBack`, `CommitFulls` and `EndUnstored` are
`load_primary_timeframes_cached` step by step: look up all timeframes, dropping an entry
stored for another count (`LookedUp`), read the tails, merge all or none, otherwise read
everything.  `Regressed`, `HasGap`, `Overlaid` and `KeepNewest` are the parts of
`merge_tail`, `Merged` its result.  A response not strictly increasing in time is
`Garbled`.  `asOf`, `overlapped` and `turn` are history: the instant of the last read,
whether every tail since the full load began inside the series, and which load stored
the entry (`TurnAfter`: a turn that no entry left of the account has).

### MacroMarketCache

One key.  A caller peeks (`Peek`, `Judge`), claims the flight or joins it
(`ClaimOrJoin`), looks again as its owner (`LookAgain`, `DownloadAtOnce`), downloads,
records the outcome and publishes it (`Publish`), which also retires the flight and
wakes those who joined.  Frames and attempts have a lock each, so a read of both is two
steps.  `born` and `warned` are history: when the data behind a frame was asked for,
and whether a failure was pending when the caller came, with no success since.
`FetchFails` is the branch for any other exception of the owner (lines 467-479), after
any of its steps: an error is published, and what it had stored stays.

## 3. Runs

Twelve runs; a cfg is named after its module and question.

| Run | Asks | Instance | Distinct states |
|---|---|---|---|
| `position_safety` | Is every stop sent sound, is every intent reconciled, does the file keep the position? | BUY or SELL, five quotes, two take-profits, user stops, outages, data gaps, lost replies, restarts | 1 371 856 |
| `position_commands` | Do commands and the poll respect each other? | an order that fills between two polls, one UI thread with five commands, permission and data gaps, netting edits | 1 491 674 |
| `position_liveness` | Does management make progress and reach the file? | outages, pauses and saves of a UI thread, saves and loads that fail | 321 032 |
| `state_files` | Are two files one durable register? | two accounts, four bounded saves, damage, failing reads, moves and writes | 461 584 |
| `service_shutdown` | Are results read, operations cancelled, callers answered, shutdowns finished? | five futures, two operations in flight | 69 478 |
| `aftercare_close` | Are markers true and waits bounded? | two scans, failing marker writes | 5 355 |
| `broker_operations` | Is the user told what the broker did? | two calls, two accounts, partial fills, late and lost requests, two moves of the market | 1 826 438 |
| `candle_history` | Is a merged history the one a full load gives, and of one load? | two timeframes, two accounts, two counts for each timeframe, seven instants, lag, failures | 2 677 186 |
| `market_cache` | Are downloads shared, failures remembered, callers answered? | two threads, four instants, failures anywhere in a flight | 406 129 |
| `lost_pause`, `activation_empties_file`, `stale_closed_bar` | section 5 | | |

**Why these bounds are enough.** The grid of `MCManagedPosition` has a quote for each
side of each threshold — below entry, past break-even, past the tight trigger — and
the stop distance 3 of `position_safety` makes the clamp bite: a break-even target
is sometimes refused for falling short and trailing targets are sometimes clamped.
`MaxRetries = 1` has a first request, a retry and the end of the budget.  One position
suffices for properties of one position, because runtimes of different tickets share
only the file and the lock; `CommandForAnother` is the save another ticket causes.
Outages, gaps, failures and commands are spread over the runs because their product is
too large for one.  In particular a disk that fails is in `position_liveness`, without
restarts, and restarts are in `position_safety`, without a disk that fails.  Both at
once are in `ManagedPosition_file.cfg`, which checks `DurableAtRest` and
`LoadedFileKeepsPosition` for the poll alone (28 338 states), and a pause by two threads
on a failing disk in `ManagedPosition_pause.cfg` (44 629 states).  The theorems of section 6 have
no such split.  Two scans are the
fewest for which one is shown and saved while another runs.  Five futures always leave
one free with two operations in flight (checked: with four they do not), so no request
is refused for lack of one.

Two calls are the fewest of which one waits while the other changes what it will find,
and two lot steps make a partial close and a partial fill.  The bars of the candle
instance are two and four instants long, so that one timeframe begins a bar inside
another's; counts 2 and 4 lie on both sides of the tail of 3; quotes one or three
instants apart give bars with one and with several quotes, intervals without any, and
with seven instants every number of new bars from none to the tail's three.  The two
counts are asked of each timeframe independently, so that a lookup drops one entry and
keeps the other.  The
macro instance has `Ttl = 2 < StaleIfError = 3` in the order of the program's defaults
(5 and 30 minutes, `macro_market_cache.py:35`), a retry window of 2 and enough instants
for a frame and a retry window to expire after a failure.

**Deadlock** is checked except in `service_shutdown` and `aftercare_close`, where the
process ends, and `broker_operations`, where the user's calls are used up.

## 4. What the properties say

*Stops.* `RatchetAtSend`: what is sent is stricter than what was just read back, with
the take-profit read back.  `HardGate`: no trailing stop over a stop short of
break-even.  `ProfitLocked`: no stop short of break-even at all.  `RetryBudget`.

*Intents and commands.* `NoOrphanedIntent`, `IntentIsCurrent`, `NeverSelfRevives`,
`TrackedUntilClosed` (with the order filled between two polls, `LateFills = FALSE`; a fill
during a poll, registered before the next snapshot, is in section 5).

*The file.* `DurableAtRest`: with every thread at rest and the last save not reported as
failed, the file is what memory is.  `LoadedFileKeepsPosition`: a process that could
read the file never makes it forget an open position.  `PauseBecomesDurable`: once
saves succeed, a pause reaches the file, whatever overtook it.  `IsRegister`,
`StateIsOwn`, and `LosesAtMostOneSave`, until a load leaves damage in place.
`FileKeepsOpenPosition` and `OneDamageOneSave` are the same promises without the
conditions; section 5 shows them violated.

*Progress.* `StaleResolves`, `GetsProtected`, `ShutdownCompletes`, `ShutdownBounded`.

*The worker.* `ResultsAreRead`: when everything has come to rest, a poll has read what
the last operation did, although `request_refresh` declines while another refresh is
pending — the one worker takes tasks in order, so a pending one has not read yet.
`BacklogIsBounded`: the race that lets a second refresh in never lets in a third.
`QueuedAreCancelled`.  `AnsweredBeforeDisconnect`: at the disconnect every accepted task
is over and its callback has run, although a future may be done before the callback is
added; the join itself waits for the tasks, not for the callbacks of the Qt thread.

*Markers.* `MarkerIsTruthful`, `MarkerNeverReverts`, `NoSilentInterruption`.

*Manual operations.* `KeepsPromise`: the refinement of `BrokerPromise` — fills that come
late, an order that fills or expires between request and verification, a position that
closes by itself.  `OtherAccountUntouched`, `OmittedFieldsKept`.

*Candle histories.* `OneLoad`: what is cached of an account was stored by one load, so
that no timeframe is analysed beside an older one, whatever fails and whichever setting
changes.  `WarmIsFull`: a series merged from overlapping tails is the one
a full load at its last read would have returned, every value of every bar.

*Macro data.* `FailureIsRemembered`: data is never given beyond its own life, and never
as fresh to a caller who came after a failure and before the next success.  `NoNeedlessDownload`: one
download at a time, and none unforced while the cache answers.  `EveryCallReturns`.

Each property of a passing run has a mutant in `PROJECT.json`: a changed definition,
next to the original in its module, under which TLC finds the property violated.

**Fairness.** `ManagedPosition!FairSpec`: the timer queues the poll for ever and the
worker runs what it is given (`WF(Poll)`); a thread finishes the save it began
(`WF(Persist)`); a backoff has a capped delay, so a poll finds it elapsed again and
again (`SF(Observe(TRUE))`).  The liveness properties assume `<>[]link` where they need
MT5, `PauseBecomesDurable` assumes `<>[]store.saved`.  `ServiceExecutor!FairSpec`: both threads run and a broker call returns; timer,
user and the moment of shutdown are free, so `ResultsAreRead` cannot lean on the
timer.  `ScanAftercare!FairSpec`: only the Qt thread's wait is fair (its deadline is a
clock); nothing is assumed of workers, network or disk, which is what `ShutdownBounded`
is about.  `MacroMarketCache!FairSpec`: a thread inside `_fetch` goes on and a download
ends, with either outcome; nobody has to call and time may stand still.

## 5. Where the code and its documents disagree

Three runs end with a counterexample:

| Run | What happens |
|---|---|
| `lost_pause` | `_mark_all_stale` overwrites a pause that came between its read and its write; the evaluation path compares before it writes. |
| `activation_empties_file` | During activation another thread's save writes the cleared states over the file about to be read. |
| `stale_closed_bar` | Exactly as many bars followed the last cached one as the tail has.  The tail begins right after it, no gap is seen (`candle_history_cache.py:249`), and the bar that was forming keeps its half-formed high, low, close and volume for as long as it is cached.  One bar more and everything is reloaded. |

Eight more counterexamples are kept as configurations to run by hand (section 9):

| Configuration | Property | What happens |
|---|---|---|
| `ManagedPosition_late_registration` | `TrackedUntilClosed` | A position registered after the poll's snapshot is taken for closed and dropped.  Only the auto-trade registration (`scanner_controller.py:2052`) can be that young, and today `_order_send_boundary_blocks` (1468-1474) keeps it from being reached. |
| `ManagedPosition_demoted` | `TightStaysTight` | An outage during a retry overwrites the phase the retry would resume; the tight trail starts again from break-even and goes wide. |
| `ManagedPosition_spent_retry` | `RetryBudget` | Both retries are spent and the runtime is an error; an outage makes it STALE, a pause and a resume then overwrite the phase behind it: management starts again, with a request beyond the budget. |
| `ManagedPosition_unread` | `FileKeepsOpenPosition` | The load fails (an I/O error, a version not supported); `_activate_account` reports it and goes on with cleared states, and the same poll's `_persist_state` saves an empty document over the file (`order_management_service.py:878-886`, 904), although the contract (`docs/trading/order-management-contract.md:57`) removes tracking only when a snapshot confirms that the ticket is gone. |
| `StateFiles_stuck` | `OneDamageOneSave` | A corrupt primary cannot be read or quarantined and stays; the next save copies it over the good backup (`order_management_state_store.py:272-274`), and a crash before the new primary is written leaves two corrupt files, although the contract (286) keeps the previous generation in the backup. |
| `StateFiles_other_account` | `OtherAccountsKept` | One file serves all accounts: logging in to another wipes the first one's state from the file and, one poll later, from the backup. |
| `ScanAftercare_early` | `NoSilentInterruption` | With the early core result, a save by hand ends the job of the aftercare still running: the program closes without waiting and the marker says completed. |
| `CandleHistory_foreign` | `NoForeignCandles` | The cache identity is taken when the scan connects; a terminal that changes account while the scan reads fills the first account's cache with the other's candles. |

Seen while modelling:

* A close whose `order_send` returns nothing is told REJECTED (`mt5_service.py:2094`),
  although no answer is no refusal and the request may be executed later; section 5.2
  of the contract keeps `rejected` for what the broker refused.  With `"close"` in `LostReplies`, TLC shows `KeepsPromise`
  violated.
* Every manual operation reads its ticket before it checks the account once (a
  modification in 2569 and 2588): with `SwitchMidCall = TRUE` a switch of account in
  between, or after the check, reaches the same ticket of another account.
* `has_open_position_or_order` treats a query that failed as "none" (1345-1356).
* A caller of the macro cache that forces a refresh may join a flight nobody forced and
  get its cached outcome, against the module docstring (20-22).
* A save copies the primary over the backup also when it is of another version: the
  file an older program could not read is in neither place two saves later.
* Two savers can leave the older image until the next poll; a poll queued before the
  shutdown still sends automatic changes after the flag is set.

Where one of these limits a property, the note of its hazard in `PROJECT.json` says so.

## 6. What is proved

| Theorem | States |
|---|---|
| `OrderStateMachineProofs!EvaluateSound` | for every state, position, tick and setting: an action proposed by `evaluate` is recorded as pending in an active phase, tightens the observed stop, reaches break-even, and trails only from a stop beyond it |
| `OrderStateMachineProofs!EvaluateKeeps` | the same for what `evaluate` never does to a state: change its identity, close it, add a retry, start stopped management |
| `ManagedPositionProofs!Invariance`, `TypeCorrect`, `Ratchet`, `HardGateHolds`, `ProfitIsLocked`, `IntentsAreReconciled`, `RequestsAreCurrent` | the safety properties of the poll for every price grid, setting, set of threads and environment |
| `ManagedPositionProofs!RetriesAreBounded`, `NothingRevivesItself`, `TrackedTillClosed`, `PauseSurvives`, `RestIsDurable`, `OpenPositionIsOnFile` | `RetryBudget`, `NeverSelfRevives`, `TrackedUntilClosed`, `PauseWins`, `DurableAtRest`, `LoadedFileKeepsPosition`, each in the behaviours that keep one race out (below) |
| `StateFilesProofs!TypeCorrect`, `OwnState`, `OneSaveAtMost`, `Refinement` | the file properties and the refinement for every set of accounts and number of saves, with every read, move and write free to fail |
| `ServiceExecutorProofs!Invariance`, `TypeCorrect`, `ResultsRead`, `QueuedCancelled`, `EveryoneIsAnswered`, `BacklogBounded` | the executor's safety properties for every number of futures |
| `ScanAftercareProofs!TypeCorrect`, `Truthful` | the markers' truth for every set of scans, with and without the early result |
| `ScanAftercareProofs!InterruptionIsSeen`, `MarkerIsNotReopened` | what the close of the program leaves behind, where `EarlyCore = FALSE` (with it the first is false: `ScanAftercare_early.cfg`) |
| `BrokerOperationsProofs!TypeCorrect` | for every set of calls, requests and accounts |
| `BrokerOperationsProofs!Refinement`, `ScopeIsKept`, `OmittedKept` | the promise and the two scope properties, where the account does not change in the middle of a call and a close gets an answer (`Restricted`; without either they are false, section 5) |
| `CandleHistoryProofs!TypeCorrect`, `HistoriesAreOfOneLoad` | the cache's shape, and that what it holds of an account is of one load, for every set of timeframes, counts and accounts |
| `CandleHistoryProofs!WarmHistoriesAreFull` | the merge is right for every bar length, count, lag and pattern of quotes, where the terminal keeps its account during a scan |
| `MacroMarketCacheProofs!TypeCorrect`, `DownloadsAreNeeded` | one flight, one download, none needless, for every number of threads |
| `MacroMarketCacheProofs!FailuresAreRemembered` | the life of cached data, where `Ttl <= StaleIfError` (`WindowsNest`), as the program's defaults have it |

Assumptions: the named `ASSUME`s of the modules (`ConstraintsAssumption`,
`SettingsAssumption`, `PositionAssumption`, `FilesAssumption`, `ExecutorAssumption`,
`AftercareAssumption`, `BrokerAssumption`, `HistoryAssumption`, `CacheAssumption`), which
TLC evaluates on every run.

**The argument for ManagedPosition.** The properties speak of the moment of the
request, several steps and several lock releases after the decision.  The inductive
invariant carries the decision there:

* `HeldIsTracked`: a captured runtime is tracked;
* `DecisionIsSound`: from `commit` to `verify` the decision is what `EvaluateSound`
  says of the state observed and the snapshot — this is where arithmetic enters, once;
* `StayIsSettled`: a decision without action leaves no intent but a STALE one;
* `RequeryAgrees`: what was read back equals what the decision expected, which turns
  statements about the snapshot into statements about the stop being replaced;
* `RestoredIsReconciled`: what is read from the file has no live intent;
* `NoOrphanedIntent` and `InFlightIsCurrent`: `Pause` refuses a runtime with an intent,
  so only removal can take a runtime from a request.

Without `RequeryAgrees`, `RatchetAtSend` is not inductive: a user edit between snapshot
and request would break it.

**The life of a runtime.** The other properties of `ManagedPosition` relate states that
are far apart: what was paused, saved, lost and restored.  `Known` is every state that
can still come back — in memory, in the file, in an image about to be saved, in what the
poll has read or decided — and `Flow` says, once for the whole next-state relation, that
a state known after a step was known before it but for one change of the code
(`Follows`), or is a new registration's.  `FollowsKeeps` goes through the changes: the
identity is kept, no kept state is closed, and stopped management carries no intent
(`Settled`, without which a STALE error would be taken up again by its own intent).
`StepFrame` says who writes what.  On these rest:

| Theorem | Hypothesis, and why it is needed | What carries it |
|---|---|---|
| `RetriesAreBounded` | `NoSpentPause`: a runtime with its retries spent is not paused (`ManagedPosition_spent_retry`) | `StatesAreWithinBudget`: a known state with its retries spent is an error |
| `NothingRevivesItself` | `QuietOutage`: no command between an outage noticed and recorded (`lost_pause`) | `DecisionKeepsStopped`: a decision leaves stopped what it read stopped; `OutageIsCurrent`: what an outage is recorded in is what it read |
| `PauseSurvives` | `QuietOutage`; `EntryIsFixed`: no netting deal moves the entry, which makes an error of the pause | `DecisionKeepsPause`; the commit compares |
| `TrackedTillClosed` | `NoFillUnseen`: no order is filled between a snapshot and its use (`ManagedPosition_late_registration`) | `UnfilledIsUnknown`: nothing is known of an order not filled yet |
| `RestIsDurable` | `SavesDoNotOverlap`: two saves are not under way at a time (the older image could be written last) | `SaveIsCurrent`: a save under way, or the last one that succeeded, is of what memory holds, unless somebody has still to collect |
| `OpenPositionIsOnFile` | `QuietActivation`: no command thread is active while the poll reads the file (`activation_empties_file`); `NoRegistration`: a registration saved during the save of an earlier, empty image is overwritten by it; `EntryIsFixed`: a stored position with another entry is not restored, by the service's identity check.  That the file could be read is part of the property (`ManagedPosition_unread`) | `OpenIsCovered`: an open position in the file is in memory or in the image, and in every image being saved, at every step of a process that read the file; `SaveOutcome`: a failed save leaves one of the two documents |

All but `NoRegistration` and `EntryIsFixed`, which speak of the constants, are state
predicates Q, and the theorem is about the behaviours that satisfy `[]Q`: it holds with
any number of command threads, outages and restarts as long as the one window named by
Q is respected.  The window is the defect's: what the code would have to close (a
comparison in `_mark_all_stale`, the lock held from the clearing of the states to the
end of the load, a save that drops an image older than the last) for the property to
hold without it.

**The argument for StateFiles.** `PayloadIsNewest` and `GenerationsGrow` order the
documents; `FilesWellFormed` and `LoadedBeforeSaved` say that nothing is saved before a
load ended; `HarmIsBounded` counts damage against the copies left.  From these each
step of the code maps to a step of `StateRegister` or leaves it unchanged; a corrupt
primary that is copied over the backup maps to `LoseValue`, which needs `exposed`.

**The argument for ServiceExecutor.** `ResultsAreRead` speaks of a quiet executor; the
invariant says who will read a result until then (`ResultIsFollowed`): its operation,
whose callback will ask, a request that is being made, or a poll that has not read the
broker.  A refresh may be declined only because `WorkerRuns` makes the pending one a
poll that has not read, and nothing is lost between worker and callback because of
`CallbacksAreHeld`: a callback that has not run is attached, or held by exactly one
thread.  `BacklogIsBounded` adds `Backlog`: at most one poll has escaped the
marker (`OneStray`), and the marked one was submitted last (`MarkerIsNewest`), so that
it cannot end, and free the marker's place, while the stray one still waits.
`AnsweredBeforeDisconnect` follows from `CallbacksAreHeld` too: with the queue empty and
the worker idle, a future that is not free would be held by the Qt thread, which is at
the disconnect.

**The argument for ScanAftercare.** `OutcomesAreClaimed` carries the claimed outcome to
whoever writes it, which gives `MarkerIsTruthful` in every configuration.  Without the
early result `ShownWhenOver` adds that nobody else works for a scan before its own
worker is done, and `FirstMarkerIsGuarded` that a first write still under way holds the
lock its job's outcome waits for.

**The argument for BrokerOperations.** Whether REJECTED is true depends on requests
still on their way.  `OutIsAdmitted` says of each of them that its call has not been
told so and will not be: it has a verdict already, or it is at its verification with a
reply that was no refusal.  `ReplyIsTrue` ties the reply to the effect.  The two scope
properties add `FInv`: what the worker has read, and what is on its way, is still what
the broker holds in every field nobody touched (`ReadIsCurrent`, `PendingIsCurrent`).

**The argument for CandleHistory.** `MergeIsSeries` is its heart: a cached series and an
overlapping tail, read as of two instants, make the series as of the tail's instant,
unless the tail has regressed (a lagging terminal, which the code detects).  Bars after the last cached one come from the tail alone; bars before the
tail are closed and did not change; keeping the newest of both is keeping the newest of
all.  `OneLoad` needs that a load's turn is one that no entry left of its account has,
from the lookup to the commit.  `CInv` carries to the merge that every cached entry and every read was such a
series when it was made, and that quotes only come later than that.

**The argument for MacroMarketCache.** `SingleOwner` — whoever owns
a flight is alone and it is active — gives the one download; that its owner looked again after claiming
gives the need for it.  `RInv` says what each caller has come to know, step by step,
although frame and bookkeeping are read in different steps: the failure that preceded a caller
stays recorded until a success, which only an owner brings.

**Only model-checked.** Liveness: `StaleResolves`, `GetsProtected`,
`PauseBecomesDurable`, `ShutdownCompletes`, `ShutdownBounded`, `EveryCallReturns`.
Liveness under fairness and `ENABLED` are outside what the prover does.  Every other
property of a passing run is the statement of a theorem, under the hypotheses named
above.

## 7. What is not modelled

* *Several positions at once*: tickets share the lock and the file only; no property
  relates two tickets.
* *Order placement and the auto-trade loop*: the send boundary
  (`scanner_controller.py:1425-1476`) returns a block for every candidate, so that
  nothing behind it runs today.
* *Of manual operations*: take-profit, expiration and its type follow the path of the two
  fields that are kept; `order_check` and volume steps are validation before the request.
* *The store*: field validation, JSON text, `flush`.
* *Settings changed while running*: constants here.
* *Health and event records*: observability without influence on a decision.
* *Non-durable aftercare jobs*, which leave no marker; the contents of snapshots.
* *Macro gate and tiers*: classification by thresholds.  *News*: periodic collection into
  SQLite, whose transactions give the atomicity.
* *Analysis, scores, gates, ranking* (`core/smc_context.py`, `smc_models.py`,
  `technical_signal_scorer.py` and others, the bulk of `core/`): pure functions over
  price series and weights, with no state and no order of events; a model would be a
  transcription and its inputs out of a model checker's reach.
* *User interface, journal, AI, Telegram, settings, scripts*: widgets, files and remote
  services.  What the interface may call is in the actions.

Most of the repository's lines are of the last three kinds.  The map therefore covers a
small part of them, and nearly all of what is concurrent, durable or sent to the broker.

## 8. Plan

Done: state machine, managed position, state files, executor, aftercare, manual
operations, candle histories and macro cache, with the proofs of each.

1. What `Evaluate` leaves of a tight trail, as a theorem: `TightStaysTight` in the
   behaviours without an outage during a retry.
2. `ManagedPosition`'s file shown to be an instance of `StateRegister`; two managed
   tickets, `CommandForAnother` refined to the second.
3. `BrokerOperations` on `ServiceExecutor`'s queue instead of one call at a time, with
   the shutdown between request and verification.
4. Order placement, once the send boundary lets anything through.
5. Snapshot writes that share a temporary name (hazard without property).

## 9. Running the checks

```
tlc -workers 2 -config ManagedPosition_safety.cfg MCManagedPosition
tlc -workers 2 -config StateFiles_register.cfg StateFiles
tlc -workers 2 -config BrokerOperations_manual.cfg MCBrokerOperations
tlc -workers 2 -config CandleHistory_warm.cfg MCCandleHistory
tlc -workers 2 -config MacroMarketCache_flights.cfg MacroMarketCache
tlapm ManagedPositionProofs.tla
```

Two more instances of the file's properties, which pass:

```
tlc -workers 2 -config ManagedPosition_file.cfg MCManagedPosition
tlc -workers 2 -config ManagedPosition_pause.cfg MCManagedPosition
```

The counterexamples kept outside the runs:

```
tlc -workers 2 -config ManagedPosition_late_registration.cfg MCManagedPosition
tlc -workers 2 -config ManagedPosition_demoted.cfg MCManagedPosition
tlc -workers 2 -config ManagedPosition_spent_retry.cfg MCManagedPosition
tlc -workers 2 -config ManagedPosition_unread.cfg MCManagedPosition
tlc -workers 2 -config StateFiles_stuck.cfg StateFiles
tlc -workers 2 -config StateFiles_other_account.cfg StateFiles
tlc -workers 2 -config ScanAftercare_early.cfg ScanAftercare
tlc -workers 2 -config CandleHistory_foreign.cfg MCCandleHistory
```

`PROJECT.json` names the module, the cfg and the expected result of each run, maps each
definition to the lines it models, and lists findings, hazards and theorems.
