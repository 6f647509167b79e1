# A verification of LossFunction

LossFunction is a Rust program that trades Korean equities through the KIS Open API, in paper mode through an
in-process broker. This directory models it in TLA+:

- its order path, from a strategy's intent through risk check, submission, execution reports and the portfolio, to
  crash recovery;
- the process around it: configuration and startup, the paper loops and what they write to the database;
- its side of the venue: the REST session with its shared token, the market-data WebSocket, the backfill of candles and
  the history that strategies see;
- the research side: strategies, the backtest engine and the parameter search;
- the web control of background jobs and the watchlist they edit.

TLC checks the models on small instances; TLAPS proves every safety property that a run finds to hold, for any number of
orders, symbols, broker ids, callers, requests, bars and days. Paths below are relative to `src/rust/lossfunction/src/` unless they start with
`docs/`.

## The system and its parts

| part | state | operations | interacts with | what is hard | what makes it correct |
|---|---|---|---|---|---|
| status state machine `execution/state_machine.rs` | status and event list per order | `register`, `transition`, `mark_unknown` | called by gateway, reconciler and runtime | three callers move one order's status | every event is a legal move; the events replay the order's life |
| order gateway `execution/gateway.rs` | `broker_ids` | `submit` | state machine, broker | an answer that never comes, or comes late | no second submission of an id; no answer is `Unknown`, not a failure |
| reconciler `execution/gateway.rs` | none | `reconcile`, `reconcile_pending` | state machine, broker | one lookup of several fails | every pending order is settled or tracked |
| trading runtime `runtime/mod.rs` | `open_local`, `order_seq`, portfolio, quotes | `run_decision_cycle`, `sync_all`, `recover`, `rebuild_portfolio` | all of the above | the venue moves at every await; two lookups per settled order | open set exact; each fill booked once |
| risk gate `risk.rs` | kill switch, limits | `check_order`, `activate/deactivate_kill_switch` | runtime task reads, web task writes | check and submission are two steps | at most one order leaves after the switch |
| portfolio `domain/portfolio.rs` | positions | `apply_fill` | runtime, backtest | sells whose buy was lost | never negative |
| broker trait, `MockBroker` `broker/` | acks, reports, positions | `submit_order`, `cancel_order`, `execution_report`, `positions` | runtime, loops, backtest | idempotency per client id | one order per client id |
| settings, assembly, `config.rs`, `main.rs`, `runtime/assembly.rs` | settings | load, validate, choose broker and loop | everything | the same rules written twice | the two agree; only confirmed live settings reach the real domain |
| paper loops `runtime/realtime.rs`, `sim.rs`, `demo.rs` | `persisted_status`, `persisted_fills`, pending quotes | `on_quote`/`tick`, `cycle`, `record_fill` | runtime, storage | a storage error in the middle of a cycle; a crash between broker and database; a restart on old rows | between cycles the rows say what the runtime knows |
| storage `storage/` | orders, fills, positions, candles, watchlist, audit | transactions, migrations | loops, web server, backfill | rows that outlive the process whose ids they bear | a row tells the truth about the order it is for |
| KIS broker, REST `kis/broker.rs`, `kis/rest.rs` | order context for cancels | the broker calls, pagination, one retry after 401 | token cache | outcome of a request with no answer | only a definitive refusal is `Rejected`; positions are whole or absent |
| KIS token cache `kis/auth.rs` | token and expiry | `token`, `invalidate` | REST client | concurrent issuance, a late 401 | a retry goes out with another token |
| KIS WebSocket client `kis/ws.rs` | desired set, backoff index | `subscribe`, `unsubscribe`, `run` | realtime loop | disconnects at any point of the replay | a live connection carries what is desired |
| chart data, backfill `kis/chart.rs`, `marketdata/mod.rs`, `runtime/backfill.rs` | windows still to fetch | page, split, retain, store, retry | venue, storage | pages cut off at a limit; trading goes on while pages are fetched | no bar missing, none that is not final |
| aggregator, history `marketdata/aggregator.rs`, `history.rs` | bar in progress, window | `push`, `closes` | realtime loop, backtest | lost ticks, a restart in the middle of a day | one close per day, in order, of days that are over |
| strategies `strategy.rs`, `strategies.rs`, `strategies2.rs` | none | `decide` on a snapshot | runtime, backtest | indicator arithmetic at short histories | nothing sold that is not held |
| backtest engine, search `backtest.rs`, `backtest_optimize.rs`, `runtime/*_runner.rs` | cash, portfolio, curve, ranking | run a feed, report, walk forward | strategies, `MockBroker`, storage | cash, portfolio and trades are three books | the report agrees with what was traded; a suggestion is no worse than the default |
| web controls `runtime/server.rs` | job statuses | start a backtest, optimisation, screening, backfill; kill switch | risk gate, storage | check and start are separated by an await | a running status has a job behind it and comes to rest |
| screener, watchlist `runtime/server.rs`, `storage/mod.rs`, `main.rs` | watchlist rows | screening pass, add, remove, seed | venue, storage | a list read once and edited row by row | the ranking is applied but for what others edited |
| VWAP `execution/vwap.rs` | none | slice schedule | nothing | rounding | slices sum to the order |
| GLM analysis, code generation, web pages | | | | parsing, rendering | |

The runtime is one task. What runs beside it is the venue, the web server (kill switch, background jobs) and the
WebSocket client. `main.rs` builds one loop around `MockBroker`; nothing calls `recover`, which `docs/recovery.md`
describes and the tests exercise.

## The modules

    Orders -- OrderStateMachine --+
       +----- BrokerVenue --------+- TradingRuntime -- RuntimeRecovery
    OrderLifecycle (contract), refined by TradingRuntime
    Orders -- Storage --+
             Startup ---+- PaperLoop
    Strategies -- BacktestEngine -- Lab
    ControlJobs -- WebControl
    KisSession      KisMarketData      MarketHistory
    proofs: TradingRuntimeProofs (contract included), RuntimeRecoveryProofs, PaperLoopProofs, KisSessionProofs,
            KisMarketDataProofs, MarketHistoryProofs, LabProofs, WebControlProofs
    MC*: constants for TLC

**Orders** — ids, statuses and requests (`domain/order.rs`, `broker/mod.rs`). A `client_order_id` is
`<prefix>-<seq>` with a fixed prefix, so the model keeps the sequence number. Prices are left out.

**OrderStateMachine** — `execution/state_machine.rs`: the transition table, `Register`, `Transition`, `MarkUnknown`,
and the event list. A status `"Unregistered"` stands for a missing map entry.

**BrokerVenue** — the `Broker` trait as its callers see it. A request on the wire is accepted, refused, or lost; it
may be delayed past the moment the caller gave up. Accepted orders fill share by share and may be cancelled at any
time. `Idempotent` says whether a reused client id returns the first ack (`MockBroker`, and the promise of
`broker/mod.rs:14-15`) or makes a second order (KIS, which is not sent the client id). `MockBroker` fills at once or
not at all and reports an oversell as filled; both are abstracted: partial fills are KIS's, and a venue that holds too
few shares does not fill a sell here.

**TradingRuntime** — the core. `pc` is where the task stands in a cycle: `idle`, `deciding` (between two intents),
`checked` (risk check passed), `awaiting` (inside `submit`), `syncing`. Its variables are the fields of
`TradingRuntime`, `OrderGateway` and `RiskManager`, with three history variables (`sentUnderKill`, `booked`, and the
state machine's own `history`). One action stands for each run of code between two awaits:

| action | code |
|---|---|
| `Tick` | the loop starts a cycle |
| `SkipIntent`, `PassRisk` | `new_order`, `check_order` |
| `Submit` | `submit` up to its await |
| `ReceiveAck`, `ReceiveRejection`, `AnswerLost` | `submit` after its await, and the runtime's match on its result |
| `BeginSync`, `EndSync`, `AbortCycle` | `sync_all`; a storage error in the loop between the two passes |
| `SyncReport`, `SyncLookupFails` | `sync_execution` up to `apply_fills` |
| `ApplyFills`, `ApplyFillsLookupFails` | `apply_fills` and `open_local.remove` |
| `ActivateKillSwitch`, `DeactivateKillSwitch` | the web handler |
| `Venue` | any step of `BrokerVenue` |

A lookup and the use of its result are one step: between them only the venue and the switch can move, and neither
reads or writes what the runtime then changes, so the two orders give the same states. The two lookups of a settled
order are two steps (`closing` holds the order in between). `sync_execution`'s branch for `Unknown` orders
(`runtime/mod.rs:214-220`) is not an action: `OpenSetExact` shows that no `Unknown` order is ever in the open set.
`submit`'s refusal of an id it has seen (`RefuseDuplicate`) is not a step of `TradingRuntime` either: `IdsAreFresh` shows
that one process never meets it. It is a step of `RuntimeRecovery`, where ids come again.

**RuntimeRecovery** — crash at any step, restart and `recover`, around `TradingRuntime`'s own actions. The caller's
copy of the open orders (`saved`) is as old as the last `SaveOpenOrders`. `life` tells the processes apart; the new
one draws its ids from 1 again (`runtime/mod.rs:72`), and `ReuseRefused` is the gateway's refusal of those it knows.
`CrashWithVenue` is paper mode, where the broker dies too. `Reconcile` and `ReconcileLookupFails` are one turn of
`reconcile_pending`'s loop, `Rebuild` and `RebuildFails` the two ways `rebuild_portfolio` ends.

**OrderLifecycle** — what `docs/architecture.md` section 3 promises of one order, in two variables: the venue's `truth`
and the process's `belief`. `TradingRuntime` implements it under the mapping `Truth`, `Belief`.

**Startup** — `main.rs`, `config.rs`, `runtime/assembly.rs`, `storage/migrations.rs`. `settings` is what the choice of
broker and loop depends on, `schema` the last migration, each in a transaction of its own; `LoopOf` and `Chosen` are
`main`'s choices and `Assembled` is `assemble_broker`'s, which nothing but the tests calls. A killed process comes back
with the same environment and database.

**Storage** — the tables `orders`, `fills` and `positions` with their keys: which writes the schema refuses, which replace
a row, which are ignored the second time. A row remembers the `life` of the process it is about.

**PaperLoop** — one process of `realtime.rs`, `sim.rs` or `demo.rs` on top of the two. The record `proc` holds the
process; `pc` walks through a cycle: `quoting`, `deciding` (`Intend`, `RefuseIntent`), `creating` (`create_order`, one
row a step), `syncing`, `writing` (status, then fill), `positions`. `StorageFails` and `ConstraintFails` are the `?` of
each write, which drops the rest of the cycle, `Kill` and `Restart` the process. `MockBroker` fills these orders as they
are submitted, so the runtime is here what `TradingRuntime` becomes with that venue: an order is open until the sync.

**KisSession** — `kis/broker.rs` over `kis/rest.rs` over `kis/auth.rs`. Each caller has a call with its `pc` (`token`,
`issuing`, `caching`, `sending`), its token, the token it was refused, and whether it has tried again. `cache` is the
shared token, not locked between `AskToken` and `CacheToken`. The venue answers as the code tells answers apart:
`Unauthorized`, `Rejected`, `Unusable` (the order may have been placed, not placed, or be placed later), `Answered`.
`TokenAges` is the expiry with its margin, `Restart` the loss of cache, context and calls.

**KisMarketData** — `kis/ws.rs`. `stage` is where `run` stands (`connecting`, `keying`, `replaying`, `streaming`,
`backoff`), `desired` and `delayIndex` are its fields, `alive` and `subscribed` are the connection as the venue sees it.
The lock on `desired` is held for the whole replay, since the guard in the head of a `for` loop lives as long as the
loop: `Subscribe` and `Unsubscribe` wait for its end. A send on a connection that has just broken may look successful.
Frames and keepalives change no state here and are left out.

**MarketHistory** — where closes come from. The venue trades (`Trade`), closes its sessions and serves pages
of its newest rows. A backfill (`job`) walks the symbols, splits a full page into halves, keeps the bars whose close lies
in the range and stores them in one transaction; a page or a write can fail, and the command line tries symbols with a
server error once more. A realtime loop seeds its window from the stored candles (`StartLoop`), builds daily bars from
the ticks that reach it, and dies. `missed` is a history variable: the days whose last tick the running loop lacks.

**Strategies** — the six registered strategies as functions of a snapshot. `Decimal` averages, returns and bands are
compared after multiplying by their denominators, so the model is exact where the code rounds at 28 digits; the
Bollinger band's square root is squared away, and MACD's averages are folds over pairs of numerator and denominator.

**BacktestEngine** — `backtest.rs` as one fold over bars: fills, fees, portfolio, window, equity curve, and the report
(drawdown, round trips matched first in first out). Money is a whole number of `Unit`ths of the currency. Each loop over
bars, intents, fills or lots is a recursive function whose step is a definition of its own (`Played`, `Execute`,
`Book`, `Take`, `Deeper`), so that the proofs can follow it. The engine buys whatever it is told to, so the cash may
become negative and a fall may be deeper than the peak: `DrawdownIsWorst` is about falls from the highest equity so far.

**Lab** — the two jobs on that engine. `Advance` draws the next bar, of any symbol that has one left, so every
interleaving of two symbols' bars is a run; `Train`, `Validate` and `Suggest` are the walk-forward search. A generated
strategy is any script of intents, oversells and limits that never cross included.

**ControlJobs** — the four handlers of `runtime/server.rs` that start a job, and the tasks that run them. A request's
`phase` says how far it and its job are; `status` is the lock-protected status per kind. Each access to the lock is one
step: `PassCheck`/`Refuse`, the audit event, `Start`, `Finish`, `Settle`. The kinds differ in what they check and
write, which are the constants `Validated`, `Unannounced` and `Venue`: the backtest validates a configuration after the
check (`RefuseConfig`), the screener writes no start event, and screener and backfill need credentials
(`RefuseCredentials`).

**WebControl** — `ControlJobs` with the watchlist table. A screening pass (`pass[r]`) ranks, reads the list once, drops
and adds row by row, passes over edits that fail, and reports; meanwhile the operator edits (`Command`), the command
line seeds an empty list one row at a time and may die half-way (`Seed`, `SeedDies`), and other passes run. `touched` is
a history variable: what others edited since the pass read the list.

## The runs

| run | question | result |
|---|---|---|
| `runtime` | does local order state stay true to the venue, whatever the interleaving, and does the runtime implement the contract, its liveness included? | holds |
| `recovery` | what does recovery guarantee, when its lookups succeed? | holds |
| `market_data` | does a live connection carry the desired set, does the backoff grow to its cap, do lost connections always come back (`kis/ws.rs:11`)? | holds |
| `paper_loop` | do settings and assembly agree, do the rows tell the truth between cycles, do portfolio and broker agree after half-failed cycles, do open orders settle? | holds |
| `kis_session` | does a submission that is sent twice place one order at most, does a retry change its token, are positions whole? | holds |
| `lab` | does the report agree with the trades behind it, and a suggestion with both windows? | holds |
| `market_history` | are stored candles final, is no bar dropped by the splitting, is the window true, does a backfill end? | holds |
| `web_control` | is a running status true and does it settle, is a job hidden only by an overlap, does no backtest, search or backfill run without its start event, is a screening applied? | holds |
| `terminal_fills` | does an order that ends cancelled leave its fills in the portfolio (`runtime/mod.rs:187`)? | no: filled in part, cancelled, closed with every lookup answered, and nothing booked |
| `unknown_orders` | does a timed-out order leave `Unknown` (`runtime/mod.rs:155`)? | no: nothing polls it |
| `restarted_ids` | is everything persisted (`runtime/demo.rs:5`)? | no: after a restart on the same database the ids start over and their rows are refused |
| `seen_close` | does a strategy never see the close it trades on (`backtest.rs:242`)? | no: with two symbols it does |

The properties of the runs that hold are the negative results' complement: `BookedOnce` shows that fills are lost but
never doubled in one process, `ReconciledNeverResubmitted` that after a recovery whose lookups succeed no pending id goes
out again, and `OnlyHalfFilledBookedTwice` that only an order with shares in the positions read is counted twice.
`ConnectionCarriesDesired` says exactly what a live connection may lack (what was asked for since its replay),
`HiddenOnlyByOverlap` that overlapping requests are the only way to a wrong job status, `ScreeningApplied` which rows a
screening may leave wrong, and `RowsTellTheTruth` which rows a storage error may leave out. `EquityExplained` holds for
every strategy that does not oversell: an oversold fill moves the cash and not the portfolio.

### Bounds

- `runtime`: one symbol, two orders of one or two shares, two broker ids, a cap of three. Two shares are the smallest
  order that can be filled in part; two orders are the fewest that can be confused, share a symbol, or follow one
  another under the switch; two broker ids suffice because each request is accepted at most once, and a second order for
  one id (the `AnswerLostResent` mutant) needs two.
- `recovery`: one restart, two orders of two shares, a venue that recognises ids (with one that does not, reuse would only
  add orders under the same id). With one restart the two kinds of it, with and without the venue, do not follow one
  another. They could: after a failed lookup and a second restart of the other kind a caller's old pair may name a broker
  id that now belongs to a later order, and TLC finds `RecoveredSettled` violated with two. The proof has no bound on the
  restarts and says which ones are meant (`VenueOutlives`, below).
- `market_data`: two symbols, so that a replay can stop half way, and three delays, so that the cap is reached and held;
  `failures` is counted up to one past the cap, where the delay no longer depends on it.
- `paper_loop`, `restarted_ids`: two symbols, two order ids in each of two lives, one error of the database's own. A pass
  of two orders can fail between them, the next cycle then fails on the missing row, a symbol is bought twice, and a second
  process meets the rows of the first. The replay has two bars, one per symbol or two of one.
- `kis_session`: two callers, so that their calls overlap in every way; five tokens: when one is issued, the
  cache, the other caller and the caller's own refused one hold four at most; up to three pages with a limit of two, so that a list can be shorter, equal and longer.
- `lab`, `seen_close`: two symbols, up to five and three bars at one of two prices, periods small enough for every strategy to
  trade; searches over feeds of eleven bars, the fewest that the code's thresholds, scaled down, let through, and every
  sequence of prices in them. The window holds four closes, so it overflows. The scripts hold an oversell, a limit that is
  not crossed and a buy that the cash does not cover.
- `market_history`: three days for a watchlist of one symbol, one day for a watchlist of two; windows of two days that
  hold one row a page and may be split once, so that every full page is split; a window of two closes; one start of the loop and one
  backfill, which still overlap in every way.
- `web_control`: two requests over four kinds, so that two of the same kind overlap and one is refused by the other; two
  symbols of which one may be ranked, and one command or seeding beside the passes.

`CHECK_DEADLOCK FALSE` is set where the modelled system comes to its end: `web_control` (all requests used up),
`paper_loop` and `restarted_ids` (settings refused, bars or lives used up), `lab` and `seen_close` (the job is over),
`market_history` (the calendar ends).

Broker ids are interchangeable in `recovery`, which checks no liveness; no other run uses symmetry.

### Fairness

`TradingRuntime!Fairness`: the task runs (weak fairness of its own steps), a quote always comes again, a broker call
returns one of its outcomes. This is right for `MockBroker`, the broker every loop runs on; the KIS HTTP client sets no
timeout, so with it a hanging call would stop the task. Strong fairness of `BeginSync` and `SyncReport` says that not
every cycle is aborted by a storage error and that not every lookup of an order fails. Nothing is assumed of the venue.
`ImplementsLifecycle` needs this for the contract's weak fairness of `Settle`, and `UnknownResolved` fails in spite of it.

`KisMarketData!Fairness`: the task runs, sleeps end, and a broken connection makes `recv` fail in the end, which the code
leaves to the transport (it sets no timeout). Strong fairness says that the venue can be reached: attempts do not all fail,
and connections do not all break before the key or before the same symbol. Without that nothing could be promised after a
disconnect.

`PaperSpec`: the loop's task runs, ticks of the live and of the demo market among its steps, and the cycle interval
elapses; the database does not fail for ever, since `MaxErrors` bounds its errors. `OrdersSettle` excludes the simulation,
whose bars may run out with orders open. `WebControl!WebFairness`: handlers past their check and tasks run, and every job
ends. For backtest and search this is so, they compute over stored bars; for backfill and screener it is an assumption,
since their HTTP clients set no timeout, and for all of them it leaves out a panic, after which a status says running
until the process ends. `MarketHistory!Fairness`: the backfill's task runs, each request of it ending in a page or an
error; that it ends is then due to the bounded splitting and the single retry.

## What is proved

`TradingRuntimeProofs` proves, for all values of the constants that satisfy the `ASSUME`s of `Orders`, `BrokerVenue` and
`TradingRuntime` (any number of orders, any set of symbols, quantities and broker ids, either kind of venue), that
`IInv` is an inductive invariant of `Spec`, and from it every safety property of the run `runtime`: `TypeOK`, `AuditTrail`,
`SettledByVenue`, `NoDoubleOrder`, `IdsAreFresh`, `OpenSetExact`, `BookedOnce`, `ReportsAreLegalSteps` and
`KillSwitchBound`. `IInv` is stronger than their conjunction, since none of them is inductive alone:

- `Tracking` ties `pc`, `order` and the order's status: an order being submitted is `Pending`, and no other is.
  Without it an ack could move an order that is not waiting for one.
- `SentRegistered`: every request, answer and venue order carries a registered id. `NoDoubleOrder` needs it at
  `Accept`: only a fresh id is ever sent.
- `OneFate`: an id is on the wire, or at the venue, or answered, and only in one of these ways. It is why a late
  acceptance cannot follow a rejection (`SettledByVenue`) or make a second order.
- `VenueSane`: an open order is not filled, a closed one does not change. It makes a report's status a legal next one.
- `OpenUnbooked`: an order in the open set has nothing booked yet. With `OpenSetExact` it gives `BookedOnce`.
- `ControlState`: what `syncTodo` and `closing` may hold at each `pc`.

The same module proves that each step of `Spec` maps to a step of the contract or a stutter
(`RuntimeImplementsLifecycle`, with `IInv` as the invariant of the simulation), that the contract implies `BeliefIsTrue`
(`ContractGivesTruth`), and with both that the runtime's belief is true (`BeliefsAreTrue`).

`RuntimeRecoveryProofs` proves `RecoveryTypeOK` and `ReconciledNeverResubmitted` for any number of restarts, of either
kind, and any number of orders. Types alone are not inductive: a tracked id must have a record at the venue (`Tracked`,
`AcksRecorded`, `ResolvedAtVenue`), or the sync could read what is not there. For the second, `SentBefore` says that the
requests of this life bear ids already drawn, and `PendingRegistered` that in the new process every pending id reached by
the loop is registered, so the gateway refuses it.

`RecoveredSettled` and `OnlyHalfFilledBookedTwice` relate the orders of two processes. Their invariant is `SettleInv`:

- `CopyTrue`: the pairs that the caller saved and the pairs being recovered name orders which the venue has under those
  ids. It holds though the copy is out of date, because a venue gives no broker id away twice.
- `Progress`: how far `reconcile_pending` is: what it has resolved are the pairs it has visited, and nothing is tracked or
  booked before the new process is up.
- `Recovered`: the claim itself for the ids already reached, in any later cycle, with `TrueAtVenue` tying a status to the
  venue's record of the same order.
- `Counted`: an order tracked again that had no share in the positions read (it is not in `halfBooked`) has nothing
  booked while it is open, and never more than the venue filled.

The first fails of a venue that dies with the process and starts its ids over while an old copy lives on: restart with the
process's own broker (`CrashWithVenue`), a failed lookup, an id given out again, then a plain `Crash`. TLC shows it with
two restarts. So `RecoveredOrdersSettle` and `OthersBookedOnce` assume `VenueOutlives`, that the in-process venue goes
with the last process only; `OneRestartSettles` shows that one restart of either kind needs no such assumption. All
restarts of a process that trades at KIS meet it too.

`PaperLoopProofs` proves `RowsTellTheTruth`, `BooksAgree` and `LayersAgree` for any number of orders, symbols, lives, bars
and storage errors. `RowOf` says where an order of the running process stands in the cycle: still to be stored, stored and
open, settled with its status or its fill still to be written, or told in full by the two tables; a failed cycle moves
what is left of it into `lost`, and rows of an earlier life never answer for an order of this one. `BooksAgree` compares
the broker's position with the portfolio and the open orders of a symbol. Their sum is a number of lots once they are
known to be all on one side (`OneSide`), the side that the portfolio still asks for until the next sync
(`SideByBooks`), and once the portfolio holds whole lots (`WholeLots`): a position is nothing or enough to sell.

`KisSessionProofs` proves `TypeOK`, `DefinitiveAnswers`, `RetryUsesAnotherToken` and `PositionsWhole` for any number of
callers, tokens and pages. `IssuedPrivate` is what the unlocked cache leaves: a token that was issued and not yet cached is
known to its caller only. With `RefusedGone` a refused token never comes back into the cache. `FreshToken` is a counting
argument: with more tokens than the callers can hold, there is one to issue. `OrdersCounted` ties an outcome to the number
of orders placed and still to be placed.

`MarketHistoryProofs` proves `CandlesAreFinal`, `HistoryIsTrue` and `NoBarDropped` for any calendar, windows and page
limit. `JobInRange` says that the range of a backfill ends with a day that is over, and stays over; `FetchedTrue` that a
fetched row in that range is the last word on its day, although pages also hold the day in progress. For the window of
the loop, `BarInProgress` says that the bar being built is of the last day with a received tick, newer than every entry, and
has that tick's price unless the day is in `missed`; it enters the window only when its day is over. The seeded part is true
because stored candles are final, and in the order of its days because the query counts back from the newest
(`NthDays`). For the backfill, `FetchedOrPending` says that a day with a bar has been fetched or lies in a window still
to be asked for. The halves of a window cover it (`HalvesCover`), and a page that is not split is whole (`PageWhole`):
either it is shorter than the limit, or the window was halved until it is no longer than a page. The latter is `SplitAssumption`: as often as the code splits,
`WindowDays` can be halved down to the limit. The code's windows of 100 days and pages of 100 rows meet it at once.

`LabProofs` proves `EquityExplained`, `DrawdownIsWorst`, `TripsExplainReturn` and `SuggestionSurvives` for any universe,
feed, prices, fees and capital, any grid and any script of intents.

- The books: `Explained` says that every fill has moved cash and shares by its own amounts and `Priced` that a bar closes
  with the equity of both. A registered strategy decides at most once per symbol, to buy what is not held or to sell what is
  (`Toggles`, which `DecideToggles` shows of each of the six), so it never oversells and the property's exception is for
  scripts only.
- The report: after every point of the curve the running peak is a highest so far and the worst fraction is reached by one
  fall and exceeded by none (`WorstOf`).
- The round trips: what a sell takes from the lots, what these cost and what is left adds up at every lot (`Matched`), so
  after each fill the trips have gained what the fills moved and the lots left over cost (`Tallied`).
- The search: a finite strict order gives every rank to exactly one element (`OrderedExists`), so a ranking is a
  permutation, its first is a best and fewer than `k` precede the `k`-th.

`WebControlProofs` proves the four invariants of the jobs and `ScreeningApplied` for any requests, kinds and symbols; of
`StartsAudited` the kinds that announce their start.
`WebImplementsJobs` shows that the watchlist adds only stuttering to `ControlJobs`, so the jobs' invariant carries over;
`Overlaps` (two requests past the check have met) is what `HiddenOnlyByOverlap` needs when a job settles over another, and
`EditsAccounted` says at any point of a pass that a symbol not left to edit agrees with the ranking.

`KisMarketDataProofs` proves `TypeOK`, `ConnectionCarriesDesired` and `BackoffGrows` for any symbols and any number of
delays. `ReplayCoversDesired` is the strengthening: while the lock is held the desired set is what was sent and what is
left to send.

What a loop computes is proved by induction all the same, by hand: for a recursive function on `0 .. n`, `StepByStep` shows
that it exists, `Unfolds` that its values are of their type, and `UpTo` is the least counterexample of a statement about them,
given as a set of numbers. The library's induction theorems, which take an operator, are not used.

Only model-checked is liveness: the fairness of the contract in `ImplementsLifecycle` (its safety part is proved),
`Resubscribed`, `OrdersSettle`, `StatusSettles` and `BackfillReports`. The prover has no rule for it.

What the proofs do not reach are the constants' own assumptions. Each is named next to the constants of its module, is
evaluated by TLC in the runs, and is what the code's tables, limits and defaults satisfy.

## Disagreements met

Four are runs (see above). More are visible in the models without a run of their own:

- "Concurrent runs refused (409)" (`runtime/server.rs:289`, `backfill.rs:5-6`) is not so: two requests for the same kind of
  job can both pass the check and start (`server.rs:312`, check, await, start), and a request with a bad configuration can
  write `Failed` over the job of another (`server.rs:323`). `met` records the overlaps, `HiddenOnlyByOverlap` exempts
  them and says that nothing else hides a job.
- "Every change is audited with its source" (`runtime/server.rs:522-523`), "every action audited" (`server.rs:649`) and
  `docs/architecture.md:156` do not hold of the watchlist. The screener announces no start, edits the list row by row,
  and drops the error of its only event (`server.rs:394`): `Finish` may leave a changed list and no event. The operator's
  edit is committed before its event, and stays when the event fails (`server.rs:529-545`; the events of these commands
  are not in the model). `StartsAudited` is about backtest, search and backfill.
- A Filled order whose second lookup fails is closed unbooked too, although the first report announced its shares
  (`runtime/mod.rs:244-246`, `ApplyFillsLookupFails`). `TerminalFillsApplied` is about cancelled orders, where no
  lookup has to fail.
- Live settings on the memory backend pass `validate` and `main`, and start on the in-memory broker (`main.rs:169`);
  `assemble_broker`, which `main` does not call, refuses them. `LayersAgree` states the exception.
- One failed lookup in `recover` discards all results (`runtime/mod.rs:276`), and ids that the loop did not reach are free to
  be sent again; the properties of `recovery` are stated for lookups that succeed.

## What is not modelled

- Average and entry prices, realised profit and the limits computed from prices and clocks in the order path: they appear
  only as refusals of the risk gate.
- `execution/vwap.rs`: no code of the crate calls it.
- The GLM analysis (one HTTP answer validated against a schema, which never reaches the order path), the handler that
  writes a generated strategy to a source file, the web pages.
- `Order::amend` and the fill bookkeeping in the `Order` struct, which the runtime does not call.
- Timeframes finer than a day, the quote table, the audit rows that repeat a write of the same transaction.
- Some hazards have no statement of the repository to check: the kill switch lives in memory and a restart turns it off
  (`risk.rs:121`), a seeding that dies half-way is never completed (`storage/mod.rs:225`), a symbol sold out keeps its
  stored row (`realtime.rs:160`, the exception in `RowsTellTheTruth`).
- A job that panics; a tick that arrives after the first one of the next day or after the close of its own; a correction of
  a past close by the venue. A ranked code that does not parse (`server.rs:444`) is an edit that fails.
- The rounding of the training cut, `len * 0.7` in floating point: `Cut` is exact, and no property depends on it.
- Parsing of frames and numbers, transaction ids and field names of the venue; the Python reference under
  `src/reference`.

## Plan

Done: the order path, recovery and the contract; startup, paper loops and storage; the KIS session, the market-data
client and market history; strategies, backtest and search; web control with the watchlist; proofs of every safety
property the runs check and of the step simulation between the runtime and the contract.

Left:

1. Recovery over several restarts of both kinds, with a property that names which stale pairs are still sound.
2. `MockBroker` with its own fills as a refinement of `BrokerVenue`, so that `PaperLoop` becomes an instance of
   `TradingRuntime` and inherits its theorems.
3. `RuntimeRecovery` with the rows of `Storage` as the caller's copy, which is what a `main` that calls `recover` would do.
