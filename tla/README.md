# PumpLens: specifications, model checking and proofs

This directory holds TLA+ specifications of PumpLens, a Binance USD-M Futures anomaly
scanner with a Telegram front end (Python under `src/src/pumplens`, 12,600 lines). The
specifications are translated from the source; each definition that models code is
listed, with the lines it stands for, in `PROJECT.json`. TLC checks them on small
instances, and TLAPS proves the safety properties for all values of the constants.

## The system

PumpLens is one process: `application.py` starts twelve tasks in one asyncio task group
(scanner, bot, web app, reconciler, private streams, risk monitor and worker, outcome
evaluators, delivery worker and cleanup, personal monitor). Tasks interleave only at an
`await`, share dictionaries in memory and a PostgreSQL database, and die together: an
exception that leaves one task ends the group, and the container restarts the process
(`src/README.md:76`). What was in memory is then lost and what was committed is not.

| Part | State | Operations | What makes it correct |
|---|---|---|---|
| Signal FSM, `analytics/fsm.py` | a lifecycle per (symbol, direction): stage, timers, levels | `advance` once per symbol and scan; time | directions exclude each other, a confirmation is earned by 5 s of an open gate, a closed signal stays quiet, no timer leaks, stages never repeat |
| Persistence and fan-out, `repositories.py`, `TransitionFanout` | tables signals, deliveries | `persist_transition`, enqueue per user, in one transaction | one active row per signal, one delivery per (signal, user, stage) |
| Delivery worker, `DeliveryWorker` | status and retries of a delivery; locals across awaits | claim, render, send or edit, mark, retry | one message per signal and user, which ends up showing the present stage; every delivery ends |
| Delivery cleanup, `DeliveryCleanupWorker` | `delete_after`, `deleted_at` | delete messages after 47 h | every shown message is deleted once |
| Stage B pool, `stage_b.py` | symbols with expiry and rank | `update`, `rescore` | cap respected, follows the selection, nobody overstays |
| Deep WebSocket, `ws_deep.py` | desired set, an event per route, subscriptions | `set_symbols`, connect, subscribe, break | subscriptions follow the desired set |
| Risk monitor and worker, `portfolio/risk.py` | risk_alerts, position_risk_states | scan, arm, resolve; claim, send, mark | each appearance of a condition is told once, and milestones only climb |
| Reconciliation, `portfolio/service.py` | accounts, holdings, positions | reconcile, mark stale, disconnect | a disconnected account stays so, holdings are one snapshot |
| Private streams, `private_stream.py` | a worker per account | events, debounce, reconnect | every change is eventually reconciled |
| Personal monitor, `personal_monitor/service.py` | scenarios, runtimes, candle tasks, subscriptions | activate, stop, evaluate a closed candle | one active scenario per user, its symbol is streamed, each candle evaluated once |
| Connect sessions, `webapp/` | one-time sessions; account and key | create, validate, consume, store | a link stores at most one account, and not before the key is verified |
| Onboarding and invites, `onboarding/` | users, invite counters, onboarding state | start, redeem, consent, profile | an invite is used at most `max_uses` times |
| Recorder, `replay/recorder.py` | a bounded queue, a batch, the file | record, write in batches, rotate, close | what the queue accepted is written once and in order |
| Outcome evaluators, `replay/evaluator.py` | a row of samples per signal | select the oldest due, sample, finish after an hour | every signal is evaluated in the end |
| Rate limiter and REST clients, `binance/rate_limiter.py`, `public_rest.py` | tokens, the time of the last look | acquire, refill, retry | no stretch of time exceeds the budget |
| Panels, `telegram/panel.py` | ids of the anchor and of the panel | replace the anchor, edit or move the panel | the reply keyboard does not disappear |
| Stage A, Stage C, features, buffers, levels, scoring | numbers | pure functions of the market | arithmetic, see "Not modelled" |

How the parts meet: the scan loop (`cli/scanner.py:162-213`) runs Stage A, hands the
selection to Stage B, the retained symbols to the deep WebSocket, and each candidate,
with Stage C's verdict if it got one, to `advance`; a transition is awaited through
`TransitionFanout`, which writes the row and the deliveries; the delivery worker polls
the table. The risk monitor reads accounts, positions and active signals from the
database and marks from memory; its worker polls risk_alerts. The Mini App and the
handlers write the account that the reconciler, the manager of private streams and their
workers poll; a reconciliation may be asked for by any of them, and `reconcile_now`
serialises them by a lock per account. The personal monitor shares its runtimes and its
WebSocket between the discovery loop, the handlers and the candle tasks.

What is hard here: rows read in one transaction and written in another, state read
before an `await` and used after it, Telegram answers that are lost, a process that dies
between two commits, timers that several branches start and stop, and loops that must
come to an end. `PROJECT.json` lists these hazards at their lines with the properties
that watch over them.

## Modules

`SignalLifecycle` is the abstract promise of the state machine: five kinds of edges
between eight stages, for each symbol and direction. `SignalFSM` implements it (checked
as `KeepsLifecycle`, proved as `Refinement`), and `SignalDelivery` extends it, so that
the delivery pipeline is checked against every behaviour the state machine may show and
not against one market.

### SignalFSM

`lc[s][d]` is a `SignalLifecycle` object; a field `x_since` is a timer that holds `None`
or the time passed since, up to the delay it is compared with, and `cooldown_until` is
the time left. A candidate is a record of what `advance` asks of it: direction,
freshness, hard reject, selection, early flash, Stage C's verdict, readiness of the deep
data, the score's band (below invalidation, below WATCH, below CONFIRMED, above), and the
price tests. `Coherent` states which combinations Stage A and Stage C can produce. Each
branch of `advance` is an action with the guards of the branches before it negated, in
the order of the code (`DirectionFlip`, `DataStale`, `StageCInvalidated`, `TooLate`, then
one group per stage), and every one ends in `Record`. `Tick` ages the timers: any number
of passes may happen between two ticks, and any number of ticks between two passes.
`seen` is a history of what the properties speak about. `FlashEarly`, for instance,
is lines 170-180; the snapshot it stores is only formatted. Prices and scores are
abstracted to the comparisons made with them.

### SignalDelivery

`rows` is the signals table, `jobs` deliveries keyed by the unique (signal, user,
stage), `worker` the locals of `_deliver`, `chat` the messages with what they showed
last, those that are `gone` included. A transition
with its row and deliveries is one action, because it is one transaction and the only
scan loop awaits it. The worker's claim, its reading of the text and the target, the
call of Telegram, and the recording of the answer are four actions, with transitions
between them. Telegram may refuse, may be told to stop by the user, or may show the
message and lose the answer; an edit that changes nothing is a bad request
(`telegram/panel.py:63`). `Crash` forgets lifecycles and locals. Which users a signal is
meant for is any set, chosen anew at EARLY and at WATCH. The branches of `_deliver` for
rows that are missing cannot be reached: nothing deletes deliveries or signals. `CleanUp` is the pass
of the cleanup worker over the oldest delivery: it deletes the message and marks the
delivery. That 47 hours must pass is left out, so it may come at any time after the
delivery. Deleting and marking are one step: a death between them makes the next pass
delete again, which Telegram refuses and the worker counts as done.

### DeepStream and StageB

`DeepStream` has one state per route: the event, the connection, the locals of
`_sync_subscriptions` and the set the exchange streams. Sending a subscription and
sending the removals are separate steps, and the desired set may change at each. An
error of the connection cancels the other task and loses the locals (`Break`); an
orderly close ends `_receive` only (`Close`), and the connection is found dead when the
next message is sent (`SendFails`). `StageB` keeps the pool as a sequence because the
dictionary's order decides ties in the sort. A stable selection may still be kept out of
the pool by an unexpired symbol that remembers a better rank, until it expires: this is
why `FollowsSelection` speaks of the end. It also means that the cap can evict a symbol
before the "at least 180 seconds" of the docstring `analytics/stage_b.py:29` when more
symbols are selected than fit.

### RiskAlerts

`world[a]` is what the database and the live marks say of an account: fresh, stale or
gone, with a position or not, close to liquidation or not, the milestone its return has
reached, and whether signals match or oppose it. `Read` is `_conditions` with its commit
of the watermarks, followed by the select of the second transaction; `Write` is the rest
of `scan_once`. The ORM writes a column only when its new value differs from the one
that was read, and `Column` says so: this decides what survives when the worker commits
between the two. The worker's claim, its second look before sending, the call, the look
before marking and the write are five steps. `credit` counts, per alert, the times it was
armed minus the times a send was recorded by Telegram as successful.

### PortfolioAccount

One account of one user. `account` is the status with the credential's key, `holdings`,
`earn` and `snapshot` say which reading of Binance the tables hold: a reading is the key
it was made with and the version the balances had. `task[c]` are the locals of a
`reconcile_now` called by `c`: the periodic pass, the refresh button, the stream worker
before it opens its streams, or a stream on an event. `Begin` is the start of the
transaction under the account's lock, `Fetch` the answers of Binance, where the earn and
funding sources may fail alone, `Commit` and `MarkStale` the two ends. `Accept` and
`Connect` are the transaction of `connect_account`, `Leave` and `Disconnect` that of
`confirm_disconnect_callback`: neither takes the lock. `Column` says, as in `RiskAlerts`,
that the ORM writes a column only when it differs from what was read. `worker` is
`_account_worker` with the client's key and the debounce (`quiet`); `news` are events the
streams have not handled. Cancelling the worker does not cancel the two streams it waits
for, so `CancelWorker` leaves an `orphan` that runs with the old key until its listen key
or its connection ends.

### MonitorScenario and MonitorRuntime

The personal monitor has a side in the database and a side in memory, with a module each.
`MonitorScenario` has the scenarios of one user on one symbol, the transactions of
`activate` (the row is read, all active rows of the user are updated, the row is written)
and `stop`, and `_process_closed_candle`, which reads the active rows some awaits before
it writes them. `Outcome` and `Judged` are `evaluate_scenario` with a plan's setups;
prices are abstracted to whether a close is beyond the invalidation or the trigger,
touches the zone, and is confirmed. `MonitorRuntime` has the runtimes, the subscription,
and the processes that change them: the discovery loop and callbacks, each of which
reads the wanted symbols, makes sure of their runtimes one by one (warming them up, or
waiting for whoever does), and then drops what it did not read. `route` is one connection
of `ws_personal.py`, whose two routes go the same way: one turn of `_sync_subscriptions`
is one step here, since what happens between its sends might as well happen after them
(`DeepStream` has the same code of `ws_deep.py` send by send). `Lose` ends the connection;
`Close` is the orderly close, which ends `_receive` without an error and leaves the
other task waiting, until `SubscribeClosed` has something to send and fails.

### Onboarding, Recorder, Outcomes, RateLimiter, Panel

`Onboarding` has what is counted when several handlers run at once: `/start` with an
invite code (`Arrives`, `Redeem` under the row lock, `Register`) and the connect requests
behind a link (`Submit`, `Consume` after Binance answered, `StoreAccount`).
`PortfolioAccount` begins where `Consume` ends. `Recorder` has the queue, the batch that a
burst makes longer, the rotation, the sentinel and the failures of a write. `Outcomes` is
`SignalOutcomeEvaluator`, with ages in ticks of the least time between two samples. `RateLimiter` is the
token bucket with the retries of `_get`; `burst` is the largest excess of what was spent
over the refill in any stretch of time that ends now. `Panel` has the two messages of a
chat, each handler reading a stored id before it talks to Telegram and storing one after.

These seven share no variable, so `MCBackground` checks them in one run: a behaviour is
one of the component that `part` names, and the others stay in their initial states.

## Runs

| Run | Module | Result | Properties |
|---|---|---|---|
| `signal_fsm` | MCSignalFSM | holds | TypeOK, ExclusiveDirections, NoStaleTimers, HeldBeforeConfirm, QuietPeriod, KeepsLifecycle, ConfirmedEnds |
| `signal_delivery` | SignalDelivery | holds | DeliveryTypeOK, ChatSettles, OneThread, EveryDeliveryEnds |
| `delivery_restart` | SignalDelivery | holds | ClosingIsShown |
| `delivery_crash` | SignalDelivery | violated | EveryDeliveryEnds |
| `deep_stream` | DeepStream | holds | TypeOK, NoLostChange, ConvergesUnlessClosed |
| `deep_stream_close` | DeepStream | violated | Converges |
| `stage_b` | StageB | holds | TypeOK, NoneOverstays, FollowsSelection |
| `risk_alerts` | MCRiskAlerts | holds | TypeOK, NoSpam, OneShot, AnnouncesUnlessKilled, ResolvesGone |
| `risk_milestone` | MCRiskAlerts | violated | MilestoneTold |
| `accounts` | PortfolioAccount | holds | TypeOK, FreshIsWhole, ReadingsAdvance, Converges, StreamsFollowKey |
| `accounts_disconnect` | PortfolioAccount | violated | StaysDisconnected |
| `background` | MCBackground | holds | TypeOK, OneActive, NoRevival, CandleOnce, WaitersReleased, MonitorConverges, InviteCounted, OneConnectPerLink, RecordingWhole, OutcomesEnd, BudgetKept, KeyboardStays |

The four violations are disagreements between the code and its README or the words it
shows to its users:

- `delivery_crash`: the claim commits PROCESSING, and no query selects PROCESSING rows
  again. A process that dies before it records the end of a delivery leaves it
  undelivered for ever. The trace is three steps of the worker's life: transition,
  claim, crash.
- `deep_stream_close`: after an orderly close the connection's task group waits for
  `_sync_subscriptions`, which waits for its event. The route streams nothing until
  Stage B's selection changes. The personal monitor's connection has the same two tasks
  (`ws_personal.py:95-103`) and the same gap; `MonitorRuntime` models it (`Close`), and
  `MonitorConverges` excepts it in the open, as `ConvergesUnlessClosed` does here.
- `risk_milestone`: a milestone is a condition only in the scan that crosses it, so
  the scan five seconds later resolves its alert even when the worker had no time to
  send it, and the watermark keeps it from coming back.
- `accounts_disconnect`: a reconciliation reads the account, the user disconnects it and
  is told that the key is deleted, the reconciliation fails with a credential error, and
  `_mark_stale` makes the DISCONNECTED account STALE; it is then swept and given a worker
  again. If the reconciliation succeeds after it had read a STALE account, its commit
  makes the account ACTIVE and writes the deleted holdings again.

Five behaviours are accepted by the properties as they are stated. A lost answer makes
the retry of a SEND appear as a second message, before any delivery of that signal is
recorded for the user: `OneThread` begins when one is. An edit without effect ends
FAILED after its retries, so `ChatSettles` accepts the error `unchanged`. The alert
that a killed worker held stays in PROCESSING while its condition stays:
`AnnouncesUnlessKilled` excepts it, and `ResolvesGone` shows that it is freed with it. An
EDIT of a message that the cleanup worker deleted is refused until it is given up, for
the query for the earlier delivery (`telegram/notifications.py:243`) does not look at
`deleted_at`. A message keeps in the model the text it showed last, with the mark `gone`
once it is deleted, so `ChatSettles` and `ClosingIsShown` speak of what it showed: an edit
that found its message gone and counted as sent all the same would leave a COOLDOWN
recorded that nobody was shown, and `ClosingIsShown` would fail. And a connection closed
in order streams nothing as long as its task has nothing to send: `MonitorConverges`
excepts a closed connection whose task believes the present symbols subscribed, which
shows that any change of the set brings the connection back.

`EveryDeliveryEnds` and `OutcomesEnd` say that whenever something is open there comes a
time when nothing is. This is stronger than saying of each delivery or signal that it
ends, and within the bounds, where new ones stop coming, it is what the loops must do.

The code does some things that no property forbids, because nothing in the repository
says otherwise; a reader of the models will meet them:

- two taps on "activate" of a SEARCHING scenario, or a stop that races an activation, can
  leave a row active with the status STOPPED (the status seems not to change and is not
  written); it is then neither searched nor judged, until its user acts;
- one user who opens a code for several uses twice at once burns two of its uses, which
  is why `InviteCounted` says "at most" of the guests;
- `/binance` makes a link for whoever asks, and storing an account needs only a row of
  the user;
- the cleanup worker counts any bad request as a message already deleted;
- a signal whose symbol Binance refuses for ever fails every pass at the same place, and
  signals behind it wait (`OutcomesEnd` bounds the refusals);
- `close` of the recorder waits for ever when its task has died and the queue is full:
  `RecordingWhole` speaks of a close that returns;
- two handlers can leave two panels in a chat, the older one orphaned.

Some steps are coarser than the code, and what lies between them is not checked:

- `Begin` and `Accept` of `PortfolioAccount` read the account and its credential at once,
  where the code asks for one after the other;
- `Fetch` gives one version to the several requests of a reconciliation: balances that
  change between two of them are not told apart;
- a visit of `Onboarding` whose transaction fails is one that a restart ends; its rollback
  leaves the same tables, but the process would go on;
- `BudgetKept` is about one bucket. Each `BinancePublicClient` makes its own
  (`binance/public_rest.py`), so several clients together may spend more of Binance's limit.

### Bounds

- `signal_fsm`: one symbol, since `advance` reads only the lifecycles of its
  symbol; both directions; the moments in `MCSignalFSM`, at least one for each branch
  and each order of priority between two; delays of 1 or 2 units, different where the
  code compares them (the rearm delay is shorter than the cooldown).
- `signal_delivery`: one symbol and direction, one user, one row, one retry, two
  faults. Users share only the order of the queue, and rows share nothing. One retry
  reaches both sides of the limit.
- `delivery_restart`, `delivery_crash`: one crash, no faults; the first with one pass of
  the cleanup worker and no retries, since an edit of a message that is gone, or of one
  that shows its text already, is refused again each time. `ClosingWord` covers every
  number of retries and faults.
- `deep_stream`: two symbols, both routes, three changes, one break and one close per
  route: enough for a change during each send, and for a lost connection in each state.
- `stage_b`: three symbols for two places, three changes of the selection.
- `risk_alerts`: one account, the three worlds of `MCRiskAlerts`, two milestones, one retry,
  three changes, one fault, one crash. Alerts of different keys share the queue and the
  scan. `risk_milestone` has no fault and no crash: the loss needs neither.
- `accounts`: two connect requests, so that one account is connected, disconnected and
  connected again with another key; one disconnection; one change of the balances, one
  failure or restart; one stream, since the second one differs only in its name. Four
  callers may reconcile at once. The semaphore that limits how many accounts are read at
  a time is left out: accounts share no row. One disconnection is a limit of what
  `Converges` shows: a second one that races a request could leave a key in a
  DISCONNECTED account, which the property excepts.
- `background`: two scenarios, two handlers and two candles (a repeated candle, and one
  that arrives during an evaluation); two symbols, one callback besides the discovery
  loop, three calls, two failures (of a warmup, or a lost or closed connection); three
  persons, one of them an admin, and two visits for a code of two uses; two requests behind one link, one restart; a queue of four with
  batches of two and files of three, eight events, so that batches grow, files rotate
  and the queue overflows; three signals for a batch of two; two requests of different
  weights and two attempts; two handlers and three messages. Only one plan is offered:
  setups differ in what confirms them, and `Facts` takes every value.

### Fairness

Weak fairness of each task's steps: they are coroutines of one running event loop, each
awaits only timers, a database and sockets with timeouts, and each is in a `while True`.
`FairSpec` of `SignalFSM` asks that time passes and that the loop passes over every symbol
after each tick, and never which candidate it meets there. `DeepStream` asks
that a connection is made at last when it is tried for ever. Nothing is asked of the
market, of Telegram's refusals (bounded by the retries), of the network or of crashes.

`PortfolioAccount` asks strong fairness of the worker's `Begin`: an `asyncio.Lock` is
first come, first served, so the worker gets it though others ask for it again and
again. Weak fairness of `Hangup` and `OrphanEnds` is Binance's: it closes a connection
after 24 hours and lets a listen key expire. Nothing is asked of users. In `MCBackground`
the fairness of `MonitorRuntime` (its discovery loop, its callbacks, its connection) and
of `Outcomes` (the clock and the evaluator's loop) is asked only of the part it belongs
to, because the other parts do not move.

## Proofs

`SignalFSM_proofs` proves type correctness, `ExclusiveDirections`, `NoStaleTimers`,
`HeldBeforeConfirm`, `QuietPeriod` and the refinement `KeepsLifecycle` for every set of
symbols, every set of candidates and every delay. None of the properties is inductive
alone. The invariant `IInv` adds to the types, for each lifecycle together with its
history, that its timers agree with its stage (`Tidy`) and with what the history saw
(`Agree`: the hold timer never runs ahead of the gate, and a cooldown never ends before
the silence is due). The argument goes by branch: a lemma for each group of branches
shows that the lifecycle it leaves is sound and that its edge is one of
`SignalLifecycle`; `ScanStep` combines them, and `TickSound` shows that ageing keeps
everything in agreement. The same lemmas give the refinement, since a pass changes one
stage of one direction. The assumptions are those of the module: the delays
are natural numbers and the candidates are of the type `Candidate`.

`SignalLifecycle_proofs` proves of the abstract machine that directions exclude each
other and that no stage is entered twice before a rearm: this is what makes the unique
key (signal, user, stage) of deliveries enough for a row's life.

`DeepStream_proofs` proves the type invariant and `NoLostChange` for any symbols, routes
and bounds. The invariant says what each stop of the task knows: while the event is not
set, the target of the last wake is the desired set, and what the server streams is what
the task believes plus the additions it has sent.

`RiskAlerts_proofs` proves `TypeOK`, `NoSpam` and `OneShot` for any finite set of
accounts, any worlds, and any number of milestones, retries, failures and crashes.
`NoSpam` needs to know who may still send: a row that waits and a delivery that may
still be sent or put back each hold one unit of credit (`Covered`), so that arming pays
for exactly one message. `OneShot` follows from the watermark being at or above whatever
was crossed (`Below`). That accounts are finitely many is assumed only to number the rows
by their creation.

`SignalDelivery_proofs` proves `DeliveryTypeOK` and `ClosingIsShown` for any symbols,
users, rows, retries, faults and crashes, and `OneThread` and `ChatSettles` as long as the
process does not die (`MaxCrash = 0` in the one, `crashes = 0` in the other). The
hypothesis is needed: a restart begins its lifecycles anew over rows that reached more, so
a row may return to a stage whose delivery exists already, or announce EARLY twice. The
invariant has three ideas. Deliveries are numbered in the order of their transactions and
the worker takes the oldest, so whatever is older than a delivery that was once taken is
over (`InQueue`). While the process lives a row climbs its stages, so the delivery of its
present stage exists and is the last of each user (`JobsFollow`, `LastWord`). And whoever
holds a text that was read earlier, in the worker's locals or in the chat, knows that it
is the present one or that the delivery of the present one is still to come (`Current`).
`DeliveryTypeOK` is not inductive alone either: that a job of the worker exists and that
its target is a message of its row come from the same invariant.

`PortfolioAccount_proofs` proves `TypeOK`, `FreshIsWhole` and `ReadingsAdvance` for any
streams, keys and bounds. At most one caller is past `Begin` (`OneHolder`), and what it
read of Binance is at least as new as all that the tables hold, and no newer than the
balances (`InOrder`): the transactions that do not take the lock, `Connect` and
`Disconnect`, write no reading, only delete one, so they cannot spoil this.

`StageB_proofs` proves `TypeOK` and `NoneOverstays` for any finite set of symbols and any
cap. The filters and the sort of `update` are one operator, `Arranged`, and the lemmas say
of it that the listing it chooses exists (counting the positions up to each one lists
them) and that it holds each position once. `NoneOverstays` follows from `Owed`: what is
left of a symbol's time and the time since it was selected are together within the
retention. It needs a retention above zero.

`Background_proofs` proves the types, the seven invariants and the action property of the
components of `MCBackground`, each from an invariant of its own:

- `MonitorScenario` (`OneActive`, `CandleOnce`, `NoRevival`): a commit that the unique index
  would refuse changes nothing, and any other sweeps what is active and not its own
  (`Single`); one evaluation runs at a time, what it read of the last candle stays so until
  it writes (`JobsAgree`), and every candle evaluated is no later than the row's last one
  (`Remembered`);
- `Onboarding` (`InviteCounted`, `OneConnectPerLink`): one visit at most holds the row of
  the code, and it is about to write one use more than the row says, in the transaction
  that adds its guest (`VisitsAgree`); a link through which an account was stored, or is
  about to be, is used up, and one request at most is about to store (`PostsAgree`);
- `Recorder` (`RecordingWhole`): files, batch and queue together are what was accepted, with
  at most the sentinel behind it; this is the property itself, with the phases that hold
  no batch;
- `RateLimiter` (`BudgetKept`): the burst and the tokens, counting those not refilled
  yet, never exceed the capacity; no bound on requests or on time is used;
- `Panel` (`KeyboardStays`): whatever anchor a handler is about to clean up, a newer
  one stands (`AnchorsStand`);
- `MonitorRuntime` and `Outcomes`: types only, their other properties are liveness.

The assumptions are the named ones of the modules: bounds of the models are natural
numbers, delays, sizes and attempts are what the code makes of them (a batch has a size, a
retention is not zero), the sets of requests, symbols or persons are finite where they are
counted.

Only model-checked: the liveness properties (`ConfirmedEnds`, `EveryDeliveryEnds`,
`ConvergesUnlessClosed`, `FollowsSelection`, `AnnouncesUnlessKilled`, `ResolvesGone`,
`Converges`, `StreamsFollowKey`, `WaitersReleased`, `MonitorConverges`, `OutcomesEnd`).
Liveness under fairness and ENABLED are out of TLAPS's reach. `OneThread` and
`ChatSettles` are neither proved nor checked across a crash, where they do not hold.

## Plan

Modelled, in this order: `SignalLifecycle` and `SignalFSM`; `SignalDelivery`;
`DeepStream`; `StageB`; `RiskAlerts`; `PortfolioAccount`; `MonitorScenario` and
`MonitorRuntime`; `Onboarding`; `Recorder`, `Outcomes`, `RateLimiter`, `Panel`. Proved:
every invariant and every action property that a passing run checks, in eight modules of
proofs beside the modules they speak of.

Proofs that may be added: types and safety of the locals that the liveness properties rest
on (in `MonitorRuntime`, that whoever waits for a symbol waits for a task that runs).

Not modelled yet, and of less weight: the evaluator of early signals, Stage A's debounce.

## Not modelled

Floating-point indicators, scores, levels, and the geometry of Stage C's verdict: TLC
has no reals and nothing there has states; what they can answer is the input of
`SignalFSM`. Cryptography, signing, parsing, HTML, keyboards, configuration, migrations
and logging: pure functions or I/O. The market WebSocket: its subscriptions are fixed and
its rotation reconnects in any case. The Telegram bot's own update loop and the web
server are libraries.

Of modelled components: the questionnaire of the onboarding, whose column only chooses
the next screen; the early evaluator; the compression and expiry of recorded files and
the reader that replays them; the text of panels and the handlers that only read.
