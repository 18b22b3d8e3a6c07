# Formal models of the stock analysis service

TLA+ models of the parts of the service that keep state which several requests,
threads and processes share, model-checked with TLC and, where it matters most,
proved with TLAPS. Paths are relative to the repository (`src/`).

## 1. The system

The service is a FastAPI application (`app/main.py`). Gunicorn runs several worker
processes (two by default, recycled after some 300 requests), each with its own event
loop, in-process caches and background schedulers; request handlers push their blocking
work to threads (`asyncio.to_thread`). State is in Oracle (most stores), Redis (tokens,
OAuth states, caches), SQLite (ranking and scan snapshots) and, for in-app
notifications, in the memory of one process. Almost every store call is a transaction
of its own; what a handler read in one call and uses in the next may be stale. That is
where the hard behaviours are.

| Component | State | Operations | Interacts with | Status |
|---|---|---|---|---|
| Momentum Breakout alert lifecycle (`trade_planner/alerts/`, `app/services/strategy/*alert*`, `*paper_trade*`) | alert rows, event log, paper-trade rows, in-app notifications | create, refresh, price update, cancel, backfill; a scheduler per process | price provider, notification services | modelled |
| Schwab connection (`app/services/schwab_auth_service.py`, `app/adapters/schwab/`) | token row, cached token, OAuth states | status, serve, connect, callback, disconnect | Schwab token server, everything that reads a brokerage account | modelled |
| Watchlist (`app/adapters/user/watchlist_adapter.py`) | folders, items, version row | read, sync, delete | several devices of a user, account deletion | partly |
| Morning brief (`app/services/morning_brief_delivery_service.py`) | delivery record per day | dispatch, build, send, record | e-mail, Schwab, portfolio memory; called by a workflow | modelled |
| Portfolio memory and alert history (`portfolio_memory_service.py`) | snapshots, active, resolved and dismissed alerts | capture, record, dismiss | morning brief, portfolio pages | modelled |
| Accounts, chats and account deletion (`user_service.py`, `chat_service.py`, `account_deletion_service.py`) | users, waiting list, cached users, access tokens, chats and messages, rows of every other store | sign in, ask, list, delete, clear; delete twelve stores in a row | every component with user rows, the model's answer stream | modelled |
| Day trade replay and backtest (`trade_replay_service.py`, `day_trade_backtest_service.py`) | what a walk over the bars of a day has told so far | walk the bars, pair triggers with outcomes | market data, replay persistence | partly |
| Day trade replay persistence (`trade_replay_oracle_store.py`, `app/jobs/day_trade_replay_persistence_scheduler.py`) | plans, events, missed moves; the scheduler's completed dates | refresh by a visitor or by the scheduler of each process | Oracle, market data cache | partly |
| Wheel backtest (`app/services/strategy/wheel_backtest_engine.py`) | phase, wallet, shares, open option, log | one bar: settle, open | option prices | partly |
| Momentum Breakout evaluation (`risk_gate.py`, `market_calendar.py`) | none | evaluate a symbol against gates and calendar | supplies the plan of an alert | not modelled |
| Model answer stream (`app/adapters/llm/openai_adapter.py`) | a queue per request | thread reads, coroutine serves | OpenAI, chats | not modelled |
| Scan snapshots (`app/storage/momentum_breakout_scan_store.py`) | runs and results | store a scan, serve the latest | precompute script, API | not modelled |
| Market data clients (Finnhub, Yahoo) | per-process caches, circuit | fetch, cache, throttle | external HTTP | not modelled |
| Ranking pipeline, other trade planning, pattern models, guidance and prompts | files, SQLite runs | batch computation | scan snapshots, API | not modelled |
| HTTP service, configuration, access control | none of its own | wiring, authentication, flags | all | not modelled |

What makes each correct:

* *Alerts.* An alert walks its status graph and is never reopened; a hit is the hit of an
  entered position; event log, paper row and notifications follow the alert and never
  contradict it; one active alert per symbol; an expired alert does not stay pending.
* *Schwab.* What a disconnect cleared stays cleared; a connected user is served; a token
  never gives way to an older one; an expired one is replaced.
* *Watchlist.* No device overwrites what it has not seen; a version names one workspace;
  a sync stores exactly its payload; a conflict leaves no lock behind.
* *Morning brief.* One e-mail per user and day, and a day's record that says so.
* *Alert history.* A live alert is active once, and what nobody reports any more is not.
* *Accounts and chats.* A message is in a chat of its author; an answer has its question;
  no more users than room; a place in the queue is kept; a deletion leaves nothing, and
  one that failed can be repeated.
* *Replay and backtest.* The story of a day is one a trader could have lived and only
  grows; two programs for the same rules do not contradict each other.
* *Replay persistence.* What is stored holds though bars and plans change while refreshes
  overlap; what a refresh found is served.
* *Wheel backtest.* Every option is covered until it is settled and settled when it
  expires; wallet, deposits and cycles of the report are those of the log.

The hazards behind these, each at its line with the properties that cover it, are in
`PROJECT.json`.

## 2. What is modelled, and how

### Alerts: `AlertBook`, `AlertLifecycle`

`AlertBook` is the promise: a status per alert, the edges of the lifecycle, no second
active alert for a symbol. `AlertLifecycle` is the code: one step per store call.

* `alerts`, `trail`, `paper` are the rows of the alert store, the status events of its
  event table and the paper-trade rows; `inbox` is the notification store of each
  process, lost when the process restarts. A row is its status, whether `triggered_at`
  and `exit_at` are set and which exit price it has.
* `pc[t]` is the next store call of thread `t`, `frame[t]` its locals: the record in
  hand, the status the notifying layer read first, the goal of the transition, the alerts
  a refresh has still to visit.
* `Create … CreateNote` is `create_alert` through its three layers; `Refresh`/`Schedule`,
  `Fetch`, `NoPrice` the refresh loop; `Prior … Sync` the whole
  `update_with_latest_price` of the notifying, recording and core service, with
  `MarkLoad, MarkSave, MarkLog, MarkSync` the `mark_*` calls and `OpenSave, OpenLog` the
  step to OPEN; `Cancel` enters the same `mark_*` path; `Backfill*` is the script that
  writes missing paper rows. `StoreFault` lets any store call raise, `Restart` kills a
  process with its threads and notifications, `Lapse` is the clock passing an expiry.
* Prices are the four classes the code compares (stop, below entry, entry, target). The
  model is one user's alerts; ids are fresh (uuid). Events of a plain price update are
  left out of `trail`. `MERGE` is atomic; the paper store's read before its upsert is
  folded into the upsert. Notifications are assumed enabled; those of risk-gate warnings
  do not touch an alert and are left out.

### Schwab: `SchwabTokens`

`row` (Oracle), `cache` and `states` (Redis), `codes` (what Schwab knows of an
authorization), `age` of each token. One call to a store or to the token server is one
step: `ReadCache`, `ReadRow`, `Judge` (`is_schwab_authorized`,
`get_valid_token_by_user_id`), `Refresh`, `Save`, `PutCache`; `Connect`, then the
browser's `Approve`, then `GetState … Invalidate` of the callback; `DropCache`, `DropRow`
of a disconnect. `Fail` raises any of them, `CacheLapse` and `StateLapse` are Redis
losing a key at any time. Tokens are numbered in the order of receipt. `Expire` and `Die`
are the two ends of a token; a dead token is never cached, since the cache's time to live
is 15 minutes less than the seven days. `link` and `calm` are history variables: what the
user was last promised, and whether anything disturbed the request so far.

### Watchlist: `WatchlistStore`, `WatchlistSync`, `WatchlistTables`

`WatchlistStore` is the adapter of `tests/test_watchlist_versioning.py`: a workspace and a
version, replaced in one step. `WatchlistSync` is the Oracle adapter: `Lock`, `Insert`,
`Relock` find or create the version row and lock it, `Check` compares `base_version`,
`Write` and `Commit` rewrite and count up, `Fail` raises or loses the answer, `BeginRead …
ReadVersion` is the read-only transaction. Each device has one request at a time and
remembers its last answer (`known`); old clients send no version. A database from before
the versions starts with folders and no version row. Row locks, the wait of an insert for
an uncommitted one of the same key, and the snapshot of a read-only transaction are
Oracle's, and assumed.

`WatchlistTables` opens the step `Write`: the statements of one sync, folder by folder and
row by row, as functions by recursion over the payload, with the validation in front and the
constraints of `app/sql/watchlist_folder.sql`. It relates to `WatchlistSync` as follows: a
sync for which `ok` is false is the `Rollback` of `Write`, one for which it is true the way to `Commit`.

### Morning brief: `AlertHistory`, `MorningBrief`

`AlertHistory` is the table of alerts and the captures that keep it: `RecordBegins`, one
MERGE per alert in two steps (`UpsertReads`, `UpsertWrites`), `ResolveMissing`,
`RecordFails`, `Dismiss`. The table has no unique constraint, so it is a count per alert
and status. `MorningBrief` composes it with the dispatch of one user's brief: `Check`
(`was_delivered_today`), `GetToken`, `CaptureSnapshot`, `RecordAlerts`, `BuildBrief`,
`SendEmail`, `RecordReads`, `RecordWrites`. Days pass between any two steps, since
`date.today()` is asked for at every use; an e-mail may leave though its answer is lost; a
statement may fail and a process may die anywhere. `dispatch_all` gives each user a thread
of their own and nothing is shared between users, so one user is the whole model; a
dispatch may be forced, and beside it pages of the user store snapshots. `mails`, `met`,
`reported` and `broken` are history variables.

### Accounts and chats: `ChatSessions`, `Accounts`

`ChatSessions` is an ask, statement by statement (`FindGiven`, `PeekGiven`, `FindLatest`,
`CreateSession`, `ReadHistory`, `SaveQuestion`, `StreamAnswer`, `SaveAnswer`), and the
requests that delete one chat or all of a kind, page by page. Any step may be a request's
last. `Accounts` composes it with signing in (`create_or_link_user`: the count of users,
the waiting list, the cache, the tokens) and with the deletion, which walks through the
stores in the order of `delete_account`, takes the chats away page by page until a listing
is empty, and drops the row last. The stores that only hold rows of a user are `Tables`:
any request with a token writes such a row, the deletion empties them one by one. Tokens
and the cached user are not checked against the row, as in `dependencies.py`.

### Replay and backtest: `DayTradeReplay`, `DayTradeBacktest`, `DayTrade`

`DayTradeReplay` is the walk of the replay: `AfterBar` looks at triggers, targets, stops
and invalidation of both sides in the order of the code, with its latches and its
`continue`; `Sorted` and `MissedMoves` are `build_completed_missed_moves`.
`DayTradeBacktest` is `_simulate_day` and its exit rules. `DayTrade` lets both see the same
bars: the replay with any plan (mode, live VWAP as a stop or none, live second targets),
the backtest with any entry filter, until the session closes. Prices are whole cents and a
short side is the long side of the negated prices, which is what the mirrored branches of
the code compute. The VWAP of the opening range lies inside the range.

### Replay persistence: `ReplayStore`

The three tables of one symbol and date: `plans`, `events` by natural key, `rows` of
missed moves by setup and side. A refresh of a visitor or of the scheduler is `SavePlan`,
`LoadBars` (through the cache of five minutes), `AppendEvents`, `MatchRows`, `MergeRows`;
`Fails` is any of them raising, a deadlock included. Meanwhile bars are added and the last
one grows (`NewBar`, `Grow`), the plan changes from refresh to refresh, days pass and the
process restarts. The walk itself is `DayTradeReplay`, and the story is generated anew by
every refresh. Whatever else a plan says (bias, confidence, action) only decides whether
two plans are the same, and `setup` stands for it. `SavePlan` is one step: plans are never
removed, so nothing between the look and the insertion matters. The opening range is fixed
by the time anything is replayed.

### Wheel: `WheelBacktest`

The loop of `run_wheel_backtest` over closes: `NextBar`, the settlements of puts and calls
(`PutAssigned`, `PutExpired`, `CallAssigned`, `CallExpired`), `OpenShortPut` and
`OpenShortCall` with the search for a strike that the wallet secures, top-ups, fees, the
floor on call strikes; then the report, with the cycles `_build_wheel_cycles` reads out of
the log. Strikes and premiums come from Black-Scholes and are any listed strike and any
premium here. Money is counted in twentieths for the 5 % buffer.

## 3. Runs

Every run is exhaustive and passes; TLC finishes each in less than two minutes.

| Run | Instance | Shows |
|---|---|---|
| `alert_serial` | 1 thread, 2 alerts of one symbol, 4 requests, 1 failing call, 1 restart | `ImplementsBook`: refinement of `AlertBook`; `RecordsAreTrue`: outcome, event log, paper row and notifications never contradict each other; `RecordsCatchUp`: when nothing has failed they are complete between two requests |
| `alert_race` | scheduler and worker in two processes, 1 alert, 3 requests | What no interleaving breaks: `StillPending`, `CreatedOnce`, `PendingNeverReturns` |
| `alert_live` | 1 thread, 1 alert, 4 requests, 1 fault, 1 restart, fairness | `ExpiryHappens`; `RepairHappens`: later updates finish what a crash interrupted |
| `schwab_serial` | 1 thread, 3 tokens, 2 states, 3 requests, 2 faults, fairness | `NeverOlder`, `AccessRecovers` |
| `schwab_race` | 2 threads, 3 tokens, 2 states, 3 requests, 1 fault | `GoneStaysGone`, `LinkedIsServed` |
| `watchlist_clients` | 2 devices, 2 workspaces, 3 commits, 1 fault, fairness | `ImplementsStore`: refinement of `WatchlistStore`; `SyncsAreInformed`: nobody replaces what they have not seen; `RequestsEnd` |
| `watchlist_rows` | 2 folders, 3 row ids, 2 symbols in 2 spellings, up to 3 rows | `SyncHolds` for every payload after every reachable workspace: exactly the payload is stored, and only a changed symbol can be refused |
| `brief_delivery` | 2 dispatches, 1 kind of alert, 2 days, 2 starts, 1 fault, fairness | `BriefOncePerDay`, `BriefIsTrue` (record, report and contents), `ActiveIsReported`, `CapturesAreExact`; `DispatchEnds` |
| `accounts` | 2 users, room for 1, 2 threads, 4 requests, 1 cut short, pages of 1 chat, 2 other stores, fairness | `ChatsAreWhole`, `ContextWhenAlone`, `UsersAreKnown`, `PlacesAreKept`, `ErasedWhenAlone`; `RequestsEnd`: the deletion's loop over chats ends |
| `wheel` | 7 bars, 3 closes, 3 strikes, 3 premiums, options of 2 bars, with and without top-ups and floor | `ContractsAreCovered`, `CallsAboveCost`, `OptionsExpire`, `ReportMatches` |
| `day_trade` | 3 bars, every mode, with and without a live stop and a second target, 3 sets of filters | `StoryIsTrue`, `ActiveIsUnstopped`, `StoryStands` of the replay; `BacktestAgrees` of both |
| `replay_store` | 1 visitor and the scheduler, 2 bars, 2 plans, 1 fault, 2 days | `StoredIsTrue`, `MovesAreServed`, `OneRunPerWindow` |

A property that is a conjunction names one idea in several parts, each a definition of its
own with its comment: `RecordsAreTrue`, for instance, is `OutcomeIsTrue`, `TrailIsTrue`,
`PaperFollows` and `NoticeIsTrue`. Each part has a mutant of its own.

*Types.* `TypeOK` of alerts, Schwab and watchlist sync is proved and no run repeats it; in the
other runs the type invariant (`TablesOK` of the tables) is an invariant, or the first part
of one.

*Bounds.* Two threads show every pairwise race of the code: each hazard is one request
overtaking another between two of its own store calls, and a scheduler beside a worker
that serves everything has all pairs that touch an alert. Two alerts of one symbol
are what the one-active rule needs; alerts of different symbols share nothing. Three or
four requests take an alert through a whole life with a request left to disturb it. One
fault or restart at a time is enough to separate any two stores; the serial Schwab run
allows two, so that a failure can hit the repair of an earlier one. Three tokens are an
old one, its refresh, and one of a new login. Two devices are a winner and a loser, each
of them also as an old client; three commits give a version that is two behind. Three rows
in two folders can swap, rotate and move across folders. Two days put midnight between any
two steps of a dispatch; after the first row of an alert no new capture begins, so that
two captures at once can still insert it twice. Two users for one place are one who gets
it and one who waits; four requests are two asks, a deletion and a sign-in, say, two at a
time. Seven bars hold an assigned put, a called-away stock and the put after it. A day of
three bars has a trigger, a target and an end, on one side or on both, in one bar or in
three; the prices are one below, at and above each level of the range. Two bars, of which
the last may grow twice, a visitor beside the scheduler and a window of the weekend after
it are what a stored row has to survive. The proofs cover any number of all of these.
`schwab_race` takes threads and states as symmetric, which no definition tells apart; it
checks invariants only.

*Deadlock.* The watchlist runs check it: a client may always read. The others say
`CHECK_DEADLOCK FALSE`, because their bounded system rightly comes to rest: all requests
spent, all alerts closed, all tokens dead, the last bar seen, the last day over.

*Fairness.* Alerts: a request that is under way goes on and the scheduler's loop starts
another round (weak fairness of `Step` and `Schedule`; the loop catches every exception),
and a symbol's price is available again and again (strong fairness of `Fetch`): the code
passes over an alert without a price before it looks at its expiry, so without that
nothing can be promised. Schwab: requests are answered, the client keeps asking, the token
server does not refuse for ever. Watchlist: the statements of a request are executed and
Oracle gives a freed lock to those who wait for it. Morning brief: the steps of a dispatch
and of its capture go on, since every call in them has a timeout; nobody promises another
dispatch. Accounts: the steps of a request go on. Wheel, day trade and replay store are
checked for safety only.

### What the models show the code does not promise

Each of these follows from the code read for the models, and bounds a property above
(`...WhenAlone`, history variables such as `met`, `calm`, `crowded`, `overlapped`).

* *Alerts.* `create_alert` checks and saves in two transactions and the store has no
  constraint, so two requests at once create two active alerts for a symbol
  (`trade_planner/alerts/lifecycle_service.py:51`). `mark_cancelled` reads the alert again
  after the check of `cancel_alert` and overwrites an alert that was closed in between
  (`:255`). A paper row may be written after that of a cancellation, and nothing visits a
  closed alert again
  (`app/services/strategy/paper_trade_recording_lifecycle_service.py:126`, `:137`).
* *Schwab.* A token refresh does not look whether the user has disconnected since it read
  the old token (`app/services/schwab_auth_service.py:182`); two refreshes may leave row
  and cached copy with different tokens (`:183`).
* *Watchlist.* Row ids are checked per folder; one id in two folders moves the row instead
  of storing two (`app/adapters/user/watchlist_adapter.py:62`). `delete_by_user_id` takes
  its tables in another order than a sync (`:425`).
* *Morning brief.* Two dispatches at once, or one that died between the e-mail and its
  record, send two; a forced one that fails takes the day's record back.
* *Accounts.* Two sign-ups at once may exceed the room (`user_service.py:41`); a sign-up cut
  short after `mark_promoted` loses the place (`:44`). Two first asks make two chats.
* *Replay.* A bar that touches both stop and target ends the look at that bar, so the other
  side's stop is found one bar later (`trade_replay_service.py:936`). With both sides live a
  missed move may pair one side's trigger with the other's end (`:763`). A plan whose setup
  changes leaves a second row for the same trigger, and a row the latest replay no longer
  tells stays. The scheduler takes a date for completed even if every symbol failed
  (`day_trade_replay_persistence_scheduler.py:85`). The backtest's rule notes speak of a
  target logic that the live plan, with resistance and support, does not have
  (`day_trade_backtest_service.py:50` beside `trade_replay_service.py:582`).
* *Wheel.* The report may say that the wallet could not fund a put when in fact no strike
  was listed (`wheel_backtest_engine.py:811`), and its cycles count 100 shares whatever
  `contracts` is.

## 4. Proofs

Each holds for every value of the constants; the assumptions are the named `ASSUME`s of
the modules (ids differ from their "none" values, bounds are naturals, functions have
their domains, prices are integers and the VWAP of the opening range lies inside it),
evaluated by TLC in the runs.

| Module | Theorem | Statement |
|---|---|---|
| `AlertLifecycleProofs` | `TypeCorrect` | `[]TypeOK` |
| | `RecordsBacked` | `[]LocalsBacked` |
| | `NeverPendingAgain` | `PendingNeverReturns` |
| | `NothingRunsAhead` | `[]StillPending` |
| | `OneCreation` | `[]CreatedOnce` |
| | `RecordsStayTrue` (one thread) | `[]RecordsAreTrue` |
| | `RecordsComplete` (one thread) | `[]RecordsCatchUp` |
| | `BookImplemented` (one thread) | `Spec => ImplementsBook` |
| `SchwabTokensProofs` | `TypeCorrect` | `[]TypeOK` |
| | `DisconnectHolds` | `[]GoneStaysGone` |
| | `LinkHolds` | `[]LinkedIsServed` |
| | `TokensOnlyRenewed` (one thread) | `NeverOlder` |
| `WatchlistSyncProofs` | `TypeCorrect` | `[]TypeOK` |
| | `ClientsAreInformed` (`OneWorkspacePerVersion`, `UpdatesKept`) | `[]SyncsAreInformed` |
| | `StoreImplemented` | `Spec => ImplementsStore` |
| | `TablesStayLegal` | `TablesSpec => []TablesOK` |
| | `SyncsAreExact` | `TablesSpec => []SyncHolds` |
| `MorningBriefProofs` | `HistoryIsReported`, `BriefKeepsHistory` | `[]ActiveIsReported`, of the history alone and beside the dispatch |
| | `ReportsAreTrue` | `[]ReportIsTrue` |
| | `OneBriefADay` (`NoSecondBrief`, `SentRecordsStand`) | `BriefOncePerDay` |
| | `AlertsAreExact` | `CapturesAreExact` |
| | `TheBriefIsTrue` | `[]BriefIsTrue` |
| `AccountsProofs` | `ChatsStayWhole` (`MessagesStayOwn`, `OrphansWereWiped`) | `[]ChatsAreWhole` |
| | `UsersStayKnown` (`CapacityHolds`, `TokensHaveAccounts`, `WhatIsLeftCameLate`) | `[]UsersAreKnown` |
| | `PlacesStand` | `PlacesAreKept` |
| | `NothingIsLeft` | `ErasedWhenAlone` |
| | `AloneHasContext` | `[]ContextWhenAlone` |
| | `TypesHold` | `[]TypeOK` |
| `WheelBacktestProofs` | `ContractsStayCovered` (`PhaseIsAlwaysHeld`, `PutsAreSecured`) | `[]ContractsAreCovered` |
| | `EveryOptionExpires` | `[]OptionsExpire` |
| | `ReportIsOfTheRun` | `[]ReportMatches` |
| | `StockIsNotSoldLower` | `[]CallsAboveCost` |
| `DayTradeProofs` | `NoSideOutlivesItsStop` | `[]ActiveIsUnstopped` |
| | `TheBacktestAgrees` (`TheEntryIsTriggered`, `TheLossIsTold`, `TheWinIsNotStopped`, `TheResultIsEarned`) | `[]BacktestAgrees` |
| | `StoryStaysTrue` | `[]StoryIsTrue` |
| | `StoryOnlyGrows` | `StoryStands` |
| `ReplayStoreProofs` | `MovesStayServed` (`MovesAreKept`, `LatestIsServed`) | `[]MovesAreServed` |
| | `WindowHasOneRun` | `[]OneRunPerWindow` |
| | `StoredStaysTrue` | `[]StoredIsTrue` |

*Alerts.* Every save writes a whole row from a copy read earlier, so `PendingNeverReturns`
is not inductive: it needs to know what threads hold. `LocalsBacked` says that: a status
past PENDING_ENTRY in a thread's record is one the alert has left PENDING_ENTRY for. It is
preserved because the stores only grow out of PENDING_ENTRY (`StepGrows`), which keeps what
the other threads hold backed (`KeepInHand`), and the acting thread's next record is read
from, or just written to, the store. `NothingRunsAhead` follows with one case per store.
`CreatedOnce` holds whatever threads do together, because an alert has one maker:
`MakersKnown` says that no two threads are creating the same alert, and that its maker logs
the creation before it announces it.

The serial theorems assume `OneThread`, as the run `alert_serial` does, because two threads
do break them (section 3). Their invariant is `SerialInv`: the stores are true of one life
of each alert (`StoresTrue`), and what the thread has in hand at each step is the row, or
the row but for the save that comes next (`HandsTrue`); a failure or a restart only leaves
the event log or the paper row behind, never at odds with the row. `RecordsCatchUp` adds
`Complete`: without a failure, what is behind is what the thread still owes. For the
refinement, `StepWalks` maps each save to an edge of the book's graph, or to a creation that
found no active alert for its symbol, and every other step to a stutter.

*Schwab.* `GoneStaysGone` needs to know that an undisturbed disconnect has no writer beside
it and an empty cache at its second call (`CleanInv`); `LinkedIsServed` that under the
promise "linked" the row is there and nobody deletes it, which every calm reader inherits
(`LinkInv`). The history variables exist to state exactly this. `NeverOlder` is false for
two threads, whose refreshes may save in either order (section 3), so its theorem assumes
one (`OneThread`), as the run `schwab_serial` does. What it needs then is `OrderInv`: the
cached copy is never newer than the row; the token a thread is about to store has been
issued and is at least as new as the row, and the one it is about to cache is the row's; a
disconnect drops the row only after the copy. So a request that falls back from the copy to
the row sees the same token or a newer one.

*Watchlist.* Whoever is past the lock holds it and has the committed version in hand
(`LockInv`), and every answer, delivered or under way, is no newer than the store and right
if it is as new (`AnswerInv`): a commit moves the version past every answer given, so it
makes none of them wrong. `NoLostUpdate` is the two together, and the refinement takes
`LockInv` for the step that counts up. For the tables, each statement keeps what the schema
asks for (`Legal`), and after the first turns of the loop the tables hold exactly the rows
of the folders written so far and those stored rows that no turn has touched (`TurnsLeave`).
After the last turn nothing untouched is left, since the DELETE at the start took the other
folders. A MERGE can only raise over a row of its folder that has the symbol already, and
each turn clears such a row first unless the payload keeps its id in the folder, which takes
a symbol that changes. The step from turn to turn is an induction over the payload (see
*Data* below).

*Morning brief.* That a day is mailed once needs to know what a dispatch that met no other
carries from its check to its record: the day is not on record as sent, though midnight may
have made it another day than the one it checked, and no later day is on record at all
(`CheckedInv`, `FutureInv`). For the history, what is active after a capture resolved has an
owner among the captures still recording (`LeftoverHasOwner`); each statement of a capture
keeps that, and every step of the dispatch is one of these or leaves the table alone. For
`CapturesAreExact`, a capture that met no other knows more (`AloneIsExact`): the active row
it did not find is still not there, and what it recorded is active unless somebody dismissed
it. `BriefIsTrue` needs a count (`Tally`): the days on record as sent and the dispatches
about to put one there are no more than the e-mails that left; and what a dispatch is about
to mail is at least as new as the snapshot it stored (`Shown`).

*Accounts.* `OwnChats` and `Answered` say what an ask carries between its statements: a
session it may write to is its user's or is gone, and its question is there or was wiped
under it. `Deletions` says what a deletion has cleared so far, unless somebody wrote beside
it: each listing that comes back empty means that there is no chat (`NothingListed`), so the
row goes last and leaves nothing. `RoomForOne` counts the sign-ups between the count and the
row. `PlacesAreKept` needs that faults only grow (`PlaceInv`).
`ErasedWhenAlone` and `ContextWhenAlone` are about requests that met nobody: `HaveMet` says
that two requests of a user under way have both met. A deletion that met none is past
nothing that it has not cleared (`LoneClears`), and a session without messages is one that a
request of its user is busy with, so an ask that found it has met that request (`Context`).
`TypeOK` bounds sessions and serials by the requests served: sessions made and requests that
may still make one are counted together (`Counted`).

*Wheel.* `WheelInv` ties phase, shares and open option together and says that the wallet and
the fees paid secure the option that is open; premiums and fees of later bars cannot take
that away. `Ahead` says where an expiration stands among the bars, so the test by equality
never misses it. For `ReportMatches`, `Ledger` says that what the log took in and paid out
is what the wallet gained, and `TellsNow` that the builder of cycles, run on the log so far,
stands where the loop stands: one trade more is one step more of the builder (`CyclesGrow`).
`CallsAboveCost` follows: the strike the builder remembers is the floor, below which
`open_short_call` does not search.

*Day trade.* Both walks are folds over bars, so the invariant is about one bar more. A step
of the replay is cut into the looks it takes at a bar; each look that moves goes `Along` (it
only adds events its side is ready for) and `Settles` what the bar touched, and the chain of
them carries both to the end of the bar. `IInv` is then the story (`StoryInv`), the row of
the backtest (`RowInv`) and what the one says of the other (`TradeInv`). `StoryIsTrue` is
about the story as it is told: sorted by time, and paired into missed moves. The ranks of
`Sorted` are a bijection that keeps the order of one side's events, so a side that was told
a trigger, its targets and one end (`Sound`) is read as that; and if a trigger were paired
with the other side's end, events of the other side would stand between the two, which makes
both sides live at once. `StoryStands` follows since a bar adds events no earlier than its
own time.

*Replay store.* `Inv` says that a refresh keeps the plan it was asked for from statement to
statement (`PlanKept`), so that the rows it reports are those it merged: the MERGE leaves
every one of its keys with a row, whoever wrote it. If refreshes never overlapped, the rows
it found are still the ones to update (`AloneInv`). `StoredIsTrue` is about events and rows
that outlive the refresh that wrote them. A replay tells a side's trigger at the first bar
that reaches the entry (`Tale`), which no plan moves. The bars a refresh holds are an
earlier look at the day, in which only the last may have been forming (`Older`): if that one
reached the entry then, it still does, so the trigger is of the first such bar of the day as
it is now (`FirstAt`). A row is merged after its refresh appended the events it pairs, and
events are never removed (`Carries`).

*Data.* Recursive functions over payloads, logs, bars and events need an induction over
their length, and no installed prover can instantiate an induction theorem over a formula.
The proofs take the set of the lengths at which a claim fails instead: if it is not empty it
has a least element (`WFMin` of WellFoundedInduction, cited with sets), and the definition
of the function refutes that one.

Only model-checked: liveness (`ExpiryHappens`, `RepairHappens`, `AccessRecovers`,
`RequestsEnd` of both, `DispatchEnds`), since temporal reasoning under fairness and ENABLED
is out of the prover's reach. Every other property of the runs is stated by a theorem.

## 5. Not modelled, and what is next

Numeric code (indicators, ranking, guidance, option prices, risk gate and calendar), prompts,
rendering and wiring keep no shared state, and what can go wrong in them is in the numbers;
market data clients are external calls behind caches; scan snapshots are one row per scan
in one transaction. The model's answer stream has one producer and one consumer and puts
an end on every path; an answer that breaks off is in `ChatSessions`. That is most of the
code by lines, so the models cover the part of the service that keeps state, not most of
its text.

Inside the modelled components: the cache of recent orders a Schwab callback empties;
quotes, titles, positions and timestamps of the watchlist, and `delete_by_user_id`, which is
one of the deletions of `Accounts`; which alerts a portfolio has; swing plans and summary
statistics of replay and backtest, and replays of an earlier date by hand; splits and
dividends of the wheel, which no caller passes.

Next to model: the strategy journey of a user
(`app/services/strategy/strategy_journey_service.py`), whose steps are read, changed and
written back as one document by requests that may overlap.

Next to prove: that `WatchlistTables` implements the step `Write` of `WatchlistSync`, for
which a map from workspaces to payloads would have to join the two; and what `SerialInv` leaves
true of one alert when threads of several processes touch it.
