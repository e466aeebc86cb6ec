# Formal specification of trade-scanner

trade-scanner watches US stocks and options through Alpaca, and lets each user trade what it shows: on a
paper or live Alpaca account, or in **Simulation Mode**, a broker of its own that fills orders against live
or replayed prices. Most of its code is market data, ranking and pricing, numeric functions without state.
What can go wrong in an order nobody tested sits in a Python asyncio process in which background loops and
HTTP requests read and write the same sqlite tables and the same brokers, one short transaction or call at a
time, mostly without a lock around any of them; and in walks over bars, fills and legs whose result depends
on the order things are met in.

## Inventory

Paths are relative to `src/backend/app/`.

| Part | State | Operations | Hard behaviour |
|---|---|---|---|
| Simulated order book: `trading/sim/broker.py`, `store.py`, `service.py` | `sim_orders`, `sim_positions`, `sim_trades`, `sim_account` per user | submit, check_fills, cancel, replace stop/target/limit, close_position, reset | brackets and OCO groups; fills that flip a position; the fill loop and requests of one user between each other's transactions; restart in the middle of a fill |
| Fill loop: `trading/sim/loop.py` | none of its own; who is replaying, read once a tick | price the working symbols, check_fills per user, options tick | stale snapshots; two fillers of one book (live loop, replay loop, submit itself) |
| Ticket resolution: `trading/models.py`, `sizing.py` | none | resolve_ticket: shape, sides of stops and exits, sizing, ceilings | boundaries where a limit is marketable and exits are judged against another price than the limit |
| Round trips: `trading/trades.py` and `_apply_fill_to_position` | the open trip / the position row | pair fills into trips | splitting a fill at zero; an order that opens two trips; a reload after a partial exit |
| Round trip record: `sync_trades`, `alpaca/activities.py`, `trading/trade_store.py` | the trades table | sync: orders, activities, positions, upsert | late bookings, the capped window of orders, the reset of the account, syncs side by side |
| Simulated options book: `trading/sim/options_book.py`, `settlement.py`, `options_store.py`, `options_service.py` | packages, positions per contract; shares and cash shared with the stock book | submit, check_fills, cancel, close, roll, settle_expired | over-closing; puts and calls settled on the same shares; resting packages that outlive their contracts; the order marked last |
| Options tickets: `options/models.py`, `pricing.py`, `custom.py`, `payoff.py`, `service.py` | none | check_shape, spread_risk, cover and extremes of a built package | closed forms against the payoff; which long covers which short; slopes beyond the chart's edge |
| Position groups: `options/positions.py`, `closed_spreads.py` | none; read from the legs at every call | group_spreads, collateral, names | three passes that take legs from each other |
| History replay: `replay/loop.py`, `store.py`, `routers/replay.py` | session row (as_of, playing, speed), resident engines | start, play, pause, seek, step, stop; pacing tick | pacing tick against manual moves; who fills a replaying user; engine lost by a restart |
| Exit triggers: `options/monitor.py`, `sim_monitor.py`, `trigger_store.py` | trigger rows (active, fired, failed, orphaned, cancelled) | arm, cancel, check_one | fire against cancel; restart or lost answer between the closing order and the mark; attempts |
| Playbook campaigns: `playbooks/runner.py`, `store.py` | campaign row with orders cursor, event log | tick: reconcile, propose, execute | cursor by timestamp; execute and remember in two steps |
| Live order service: `trading/service.py` | orders held at Alpaca | submit, replace, close with cancel and re-arm | cancel succeeds and close fails; partial close of a short; an exit that fills meanwhile |
| Live streams: `market_data/stream_manager.py`, `ws/chart_ws.py` | reference counts, topics, pending trades | subscribe, unsubscribe, flush | a subscribe between the two halves of an unsubscribe |
| Keyed caches: `market_data/gex_cache.py`, `options/chain_fetch.py` | entries, a lock per key | get, refresh, evict | eviction of a key whose lock is held |
| Scanner: `scanners/engine.py`, `history_store.py`, `premarket_backfill.py` | polled rows, premarket list, latest session, appearances | run_loop: poll, freeze, backfill, record | phases of the day, failed batches, restarts, the day a row is of |
| Backtests: `scanners/strategy_backtest.py`, `momentum_backtest.py`, `intraday_backtest.py`, `rvol_backtest.py`, `exit_rules.py` | none | walks over a finished tape | looking ahead; agreement with the live side; the order inside a bar |
| Options analytics: `options/optimizer.py`, `optimize.py`, `screener.py` | none; a request at a time | enumerate shapes and expiries, price, filter, rank, preview, judge | shapes cut out of sorted lists; what a structure is worth beside what its ticket says; calls that fail on the way |
| Scheduled recorders: `options/iv_recorder.py`, `screen_job.py`, `track_record.py` | rows per day | one run a day | runs missed or repeated |
| Indicators, volatility and Greeks, fundamentals, news | caches of fetched data | numbers and lists | numeric only |
| Auth, prefs, watchlists, Dash pages, React frontend | rows and views | CRUD, presentation | none for a model checker |

How they interact: `main.py` starts the loops on one event loop. The fill loop and every request reach the
tables through `SimStore`, whose every method is one sqlite transaction run by `asyncio.to_thread`, so each
`await` of a store call is a point at which any other task may run. The replay loop takes over filling for
a user with a replay session. Both loops settle options, check triggers and tick campaigns after filling;
campaigns read the orders the options book wrote, and the options book moves shares in the stock book. The
scanner's loop feeds the views, the alarms and the history that the backtests later walk.

What makes each part correct:

* order book: exits follow their entry; at most one exit of a group fills; a final row stays final; no fill
  worse than a limit; position, cash and trade rows are what the filled orders add up to; no fill is lost or
  applied twice, whatever runs in between;
* round trips: no share in two trips or in none; the profit of the trips is the cash they moved; the
  simulator's rows agree with the journal's; the record holds every trip that closed, once, as it was;
* options book: settlement neither creates nor destroys value, never sells shares that are not there, and a
  package that closes never opens;
* tickets and groups: what is stated as the most a package can lose is the most it can lose; every contract
  of a book is shown once;
* replay: the clock goes where it was last put; one filler per user; a playing session reaches its end;
* triggers: a bounded number of closing orders, never more than is held, and each hit trigger comes to an end;
* campaigns: every order becomes exactly one event; a proposal executes once;
* live close: nothing is left behind a full close, and a stop that is lost is reported;
* streams and caches: nothing stays subscribed for nobody, no print is kept for ever, one fetch per burst;
* scanner and backtests: a list or a sighting is of the day it claims, and a walk decides each bar by what
  was known then, the way the live side does.

## Modules

| Module | Models | Extends |
|---|---|---|
| `SimOrderBook` | the order table and every handler of `SimBroker` on it, each one atomic | |
| `SimBroker` | the same handlers with the position, the trade ids and the cash | `SimOrderBook` |
| `SimBrokerTasks` | the handlers at the grain of their transactions, tasks interleaved, restarts | `SimBroker` |
| `FillPairing` | `round_trips` of `trades.py`, the walk over fills | |
| `RoundTrips` | that walk and `_apply_fill_to_position` fed the same fills | `FillPairing` |
| `TradeJournal` | `sync_trades` and the trades table beside what happens at the broker | `FillPairing` |
| `OptionsBook` | packages of option legs, settlement at expiry, the shares and the cash it moves | |
| `SpreadTickets` | shapes, stated risk, cover and extremes of an options ticket | |
| `StructureSearch` | the optimizer: expiries, shapes, pricing, filters, seats, preview, ranking | `SpreadTickets` |
| `ChainScreen` | the screener: one row after another, its expiry, legs, candidates, verdicts | `StructureSearch` |
| `PositionGroups` | `group_spreads` with its three passes, ids, collateral | |
| `ReplayClock` | the session row and the engine of a replay, and the tasks that move, fill or leave it | |
| `ExitTriggers` | trigger rows, the loop that fires them, the broker's resting closes | |
| `Campaigns` | one campaign: reconcile, propose, execute, by a loop and a request | |
| `LiveClose` | `close_position` of the live service, call by call | |
| `ChartStreams` | sockets, counted subscriptions, provider calls, batches | |
| `GexCache` | readings, locks, backoff, eviction | |
| `ScannerDay` | the poll loop through the phases of days | |
| `SignalWalks` | four backtests and the live readings of the same rules on a growing tape | |
| `ExitRules` | `simulate_exit` over the bars after an entry | |
| `SimBrokerProofs`, `OptionsBookProofs`, `CampaignsProofs` | theorems | the module they name |
| `SpreadTicketsProofs` | theorems about `SpreadTickets` and `ChainScreen` | the two |
| `RoundTripsProofs` | theorems about `RoundTrips` and `TradeJournal` | the two |
| `ClosingProofs` | theorems about `ExitTriggers`, `LiveClose` and `ExitRules` | the three |
| `MarketDataProofs` | theorems about `GexCache`, `ChartStreams`, `ScannerDay`, `ReplayClock`, `SignalWalks` | the five |
| `SumLemmas` | sums over finite sets and folds over sequences, for the proofs | |

The `MC*` modules instantiate them for TLC. The parts that do not meet in the code are checked side by side
in four instances: `MCDesk` (order book, tickets, optimizer, screener, live close, exit rules, round trips),
`MCRecords` (order transactions, journal, streams, campaigns, readings, scanner), `MCBooks` (order tasks,
options book, walks) and `MCServices` (replay clock, triggers, groups). In each, the variable `part` is chosen at the start and
never changes, the part's own variables move by its own next-state relation and the others stand still: one
run checks several specifications, and no part's behaviour depends on another's.

**SimOrderBook.** An order is named `<<ticket, leg>>`: one submission writes an entry and up to two exits,
so `parent_id`, `oco_group_id`, side and type of an exit are functions of its name and of the ticket. The
variables are the columns that change: `ticket` (what was submitted), `status`, `limit`, `stop`,
`fillPrice`. Prices are a small set of naturals, 0 standing for NULL and for "no price available". The
market price is not a variable, because the code keeps none: each call reads one, and any may be read.
`Accepted` is `resolve_ticket` with `check_shape`, `_check_trigger_side`, `_check_stop_limit_shape`,
`_expected_fill` and `_check_bracket_sides`; the sizing half of it, the notional and equity ceilings and the
rounding to cents are left out. `FillSets` is one pass of `check_fills` over the rows it read: of two
crossed exits of one group, the one the query returns first fills and the other is skipped, so the model
takes every choice a query order can make.

**SimBroker.** `account` holds the position row (`shares`, and `opener`, its `entry_order_id`), the ids of
the trade rows and the cash. `ApplyFill` is `_apply_fill_to_position` with `add_cash`. A trade row is named
after its opener, as its id is (`symbol:entry_order_id:0`). Average prices and exit tallies only feed the
reported profit and are the subject of `RoundTrips`; initial stop and R-multiple are left out. Buying power
is `Margin` times positive cash.

**SimBrokerTasks.** `task` holds each task's program counter and the locals it still needs; each action is
one transaction, with the reads before it folded into the step that uses them only where the code does so
in one transaction. `ReadPosition` and `WritePosition` are apart, and so is `AddCash`. A cancel, a close
and a replace write the rows they read earlier, whatever those say by then. `InsertTrade` ends the handler
when the id exists, as the IntegrityError does. `Crash` forgets the tasks and keeps the tables. `applied`
counts, per order, how often its fill reached the position and the cash; `saved` remembers the tables while
tasks run. Both are history: no guard reads them. `reset` is not split: it is one transaction.

**FillPairing, RoundTrips.** `log` is any sequence of fills; `TripsOf(log)` walks it as `round_trips` does,
`position` and `trades` are maintained fill by fill as the simulator does. Averages are exact fractions.
Times and percentages are left out; the `_FLAT` tolerance is zero.

**TradeJournal.** `life` is what has happened to one contract since the account was last reset: orders that
filled, and assignments or an expiry, which the broker books as an activity some time after they took effect.
A sync (`FetchOrders`, `FetchActivities`, `ReadPositions`, `Upsert`) is three reads and one upsert, each a
step; the orders are the newest `FetchLimit`. `journal` has one row per trip id. What is bought, sold,
assigned or let expire, and when the broker books it, is open; so is whether a read fails. `kept` and
`inSync` are history.

**OptionsBook.** `held` gives each contract its signed number of contracts, `orders` is the sequence of
packages ever submitted (the signed ratios of the legs, which of them close, quantity, the most it may cost,
status), `shares` and `cash` are the rows shared with the stock book. A contract is a right, a strike and an
expiry; the day is counted in market closes. What closes and what covers is checked
as a package is submitted; `TryFill` is one turn of `check_fills`, which asks again for nothing but the net
against the limit and fills with its cash. Settlement is a pass, as in the code:
`BeginSettle` lists the expired positions (`settling`), and each `SettleNext` reads the cash and the shares
again and settles one of them, which is where a put's shares can meet a call. `SkipUnpriced` is the position
left for the next pass for want of a price. `MoveSpot`, `MarketClose` and `TradeShares` are the
surroundings: the market, the calendar, a fill of the stock book. The collateral and spread ceilings, custom
packages with shares, the settlement's own order and round-trip rows, and the half-cent limit tolerance are
left out, and so is a crash between the two legs of one assignment.

**SpreadTickets.** `preview` is the last ticket shown: a strategy with its strikes, or a list of legs, a net
price and, for a built package, the shares held. `FieldsFit`, `LegsFit`, `SpreadRisk`, `NakedShorts` and `WorstCase`
are the code's; the reference is `PositionPnl`, the payoff of the legs themselves. Amounts are per share, for
the multiplier and the quantity are factors of all of them. The tolerance of a cent is nothing on the grid
of prices. Values before expiry of a leg that outlives the others are left out.

**StructureSearch.** `search` is the request at hand with what each stage made of it: the expiries chosen
around the horizon, the shapes enumerated from their boards, their value at the target, what the filters left,
one seat for each family and the rest by rank, the previews, the answer. A board is what `condense_chain` left
of a chain. What a contract is worth beyond its intrinsic value is one unit for each day left, which keeps the
order of expiries and nothing of the numbers.

**ChainScreen.** `screen` is the screen at hand. Rows share nothing, so one is at hand at a time, from one of
its calls to the next; any of them may fail and is then done without. Chances and expectations count a set of outcomes instead of
integrating a density. Readings that are shown and judge nothing are left out.

**PositionGroups.** The state is the book, one contract or lot at a time; `Groups` computes the three passes
(two expiries, covered calls, shapes per expiry), `Reserved` the collateral. All contracts have one root.

**ReplayClock.** `session` is the row, `engine` the replay whose bars are resident. `loop` is the pacing tick:
it reads the playing sessions (`due`), looks for the engine when the user's turn comes, fetches the bars if
there is none (`load`), writes the clock or the end (`advance`) and fills (`fill`). Users before this one in
the same tick are why anything may happen between the first two. A range is counted back from the day of the
fetch, so bars fetched anew may be another range or none (`NoBars`); an engine without bars ends on nothing
(`EndOf`), and its session plays on, which is counted up to `LastMoment`. `liveFill` is the fill loop between
reading who is replaying and filling at the market. `request` says where each client's request is: a play, a pause or a
seek is one update of the row, as its first read only asks whether there is one; a step reads the row and
writes it apart; a start makes the engine resident before it writes the row, and a stop deletes the row
before it discards the engine. `quote` is where the last order or fill check took its prices. `drift` and
`strays` are history. Speed only decides when a tick is due, and here a tick may be due at any time. What a
fill check does to the books is `SimBroker` and `OptionsBook`.

**ExitTriggers.** A tick lists the active triggers, reads the prices once and takes the triggers one by one
(`check_one`): the owner's access, whether the legs are still held, whether a bound is crossed, the closing
order for what is held, and the mark. `resting` is what the broker has of those orders; it holds the
contracts, so a second close is refused as long as the first rests. An order may be in although its answer
never came, which the loop counts as a failed attempt. Requests arm and cancel, users close by themselves,
and a restart forgets the loop. A zero is a bound that is not set or a price that could not be read.

**Campaigns.** `orders` is the account's list with each order's stamp; `row` and `events` are the campaign's
tables. A pass reads the row and the orders (`BeginPass`, `ReadOrders`), reconciles order by order, saves, and with the switch on proposes and
executes; two passes may be anywhere in it at once, and a restart ends both. An order is stamped with the `now`
its handler was called with, before the awaits in which it fills or settles a whole pass: any of `Moments`, so two
orders may have one stamp, and an order an earlier one than those recorded. `late` says of an order that its stamp
had been reached when it was written, `placed` how often the last step was placed in a row and how often a placing
was torn, by a restart or by another pass before its mark; both are history. The strategies an order maps to
events by are those of the wheel and of the poor man's covered call, the cash settlement among them; which
strike is proposed is open.

**LiveClose.** Each request lists the working orders, cancels them one by one, reads what the broker then
holds, sells, and for a part puts the exits back. Calls may fail though the broker would have accepted them
(`MaxTroubles`), resting exits fill, and the user moves a stop (`MaxMoves`), which gives it a new id. The
broker refuses what would sell more than is not held by other orders; a market order fills at once.

**ChartStreams.** A handler runs to its next await. `refs` is `StreamManager`'s count, `live` what the
provider has subscribed, `topic` the sockets on a symbol, `batch`, `entry`, `sleeping` and `dying` the flush
tasks of `_flush_tasks`. Provider calls may fail (`broken` is history).

**GexCache.** A caller runs from one await to the next: up to the lock, up to the fetch, up to the answer.
As `asyncio.Lock` is first come, first served, `ahead` is the set of callers before it. Eviction drops the
symbol's lock, whoever holds it.

**ScannerDay.** A row is the moment its batch was answered at and the session the tick read, before it asked;
a tape says which symbols are up when, and `wall` is
the clock. One tick asks for one batch per symbol, each of which may fail, then freezes, ranks and records
(`Wake`, `PollBatch`, `RecordNewAppearances`). Gainers and losers stand for every view that is ranked off the rows. A
phase lasts hours and a tick seconds, so a tick begins in every phase (`mayEnd`), and it may end in the next: one
that straddles the bell asks before it and is answered after it. `unanswered`, the symbols that no premarket tick
of today has polled, is history. Pause, resume, a stop and a start with its two backfills are
actions of their own.

**SignalWalks.** `tape` grows by one bar of a symbol; a bar has its day and slot, its low, high and close, what was
paid on average and a colour, and every bar has the same volume. Four backtests are computed from the whole tape: the
strategies, which fix levels (`FindLevels` of the hours before, and `MarksForSession`) and the ATR at a day's first
bar and evaluate the range breakouts with them; the momentum alarms; the screen; the relative volume. Beside them
stand what is shown live of the bars so far. `WalkLatestSession` is the live walk with the levels it is handed.
`AttachStrategies` is the scanner's use of it, whose cache holds one session: it has the marks of that session, no
older structure and no ATR. `SharedFirings` is the chart's, with structure of all hours at hand. `LiveAlert` is
`MomentumCache`. Two inputs of the backtests are taken over the whole range of a replay, the volume curve of
the normalized definitions (`rvol_backtest.py:172-174`, `intraday_backtest.py:184-187`) and today's fundamentals
(`LOOK_AHEAD_FIELDS`, `intraday_backtest.py:300-301`): both do look ahead. They are constants here (`Asides`), and
what is claimed of looking ahead is claimed of the tape alone, with both held fixed. Of the rules the long side of the
two range breakouts is modelled, with the measured move as a switch; a touch band holds one price and every
excursion is a rejection; the ranking and the number of levels, their separation and the buffer above a box are left
out, and the chart's hourly bars are the hours of the tape.

**ExitRules.** `bars` are the bars after an entry, `rule` a trade; `Exit` is `simulate_exit`. The reference
is every order in which the bars may have visited their highs and lows (`Tapes`), traded by a resting stop and target.

All of it is for one user, and one symbol or underlying where it is about orders: every query is scoped by
`user_id`, and no handler relates two symbols but through the cash. The two simulated books are apart: the
options book sees the stock book as `TradeShares` only.

## Runs

| Run | Checks | Bounds and why they are enough |
|---|---|---|
| `desk` | order book: `TypeOK`, `ExitsFollowEntry`, `OcoPairStandsTogether`, `NeverWorseThanLimit`, `AccountIsFills`; pairing: `TripsAccountForCash`, `SimCutsTheSameTrips`; tickets: `StatedRiskHolds`, `BuiltRiskHolds`, `NakedOnlyIfUncovered`; optimizer: `ShapesAreTickets`; screener: `AvoidedReportsAreAvoided`, `ScreenAgreesWithTicket`; live close: `StopLossIsTold`, `FlatMeansFlat`; exits: `OutcomeIsTheTapes` | two tickets (interchangeable, hence the symmetry), three prices, positions up to 3: a bracket with both exits, a market sell of twice its size that flips it, a short stop-limit with a stop. Four fills of one or two shares at two prices: open, reload, reduce and flip. Strikes 1, 2, 4, 7, whose gaps differ, so that uneven wings happen. Boards of three expiries with a handful of strikes, one view or screen at a time; each of the screener's calls fails in turn. Two close requests, one call that fails, one stop moved, a position of 4 with a bracket. Two bars of four prices and two parts |
| `records` | order transactions: `OrdersImplementBook`; journal: `JournalIsTheRecord`; streams: `StreamsLetGo`, `BatchIsFlushed`; readings: `OneFetchUnlessEvicted`; campaigns: `CursorPassesOnlyTheLate`, `OncePerPass`, `PlacedAgainOnlyWhenTorn`; scanner: `FrozenIsThisMorning` | one task at a time runs every handler but the re-pricing ones; two syncs, three events and one account reset; two sockets on two stocks with room for one; three callers, two symbols, a cache of one; two orders of a poor man's covered call, stamped at any moment from before the campaign began, in three parts (below); two symbols, two days of five phases, two things that go wrong, ticks across the bell and across midnight |
| `books` | `QuietPositionIsFills`, `FillsApplyAtMostOnce`; `ClosesNeverReopen`, `SettlementKeepsEquity`, `ExpiredContractsSettle`; walks: `WalksAgree`, `ScannerOverFlags`, `EntriesStay` | the loop beside one request that submits or re-prices stop entries with both exits (never filled by submit itself), one restart. A sold put and a sold call that expire together at different strikes, a call a day later that can cover the other; two spots; shares for exactly one call or none; three packages, an opening and two closes that compete for it. Three days of bars at nine moments, any of which may be missing: the first two may leave a level and bound a range, the second has a bar at its close, the third a premarket, with a far night's bar in it or not, and a session that breaks its range by a little or by much, below a near level, a far one or none |
| `services` | clock: `PausedClockSettles`, `LiveLoopLetsGo`, `PlayingEnds`; triggers: `OrdersAreBounded`, `HitTriggersSettle`; groups: `GroupsPartitionTheBook`, `ReservedCoversLoss` | two clients with four requests between them, one restart, two replays, a reload that brings either of them or no bars, seeks before and after the bars. One trigger on two legs, two attempts, one close by the user, one restart. Books of up to five different contracts, two of each either way, and 100 shares |
| `race_held_exits` | `QuietExitsFollowEntry` is violated | one ticket, the loop beside a submit |
| `race_double_fill` | `QuietPositionIsFills` is violated | one marketable limit, the loop beside its submit |
| `replay_live_price` | `OrdersPriceAtTheClock` is violated | one client, one restart |
| `campaign_premiums` | `PremiumsAreTheOrders` is violated | one pass at a time, two orders |
| `journal_cap` | `CapDropsOnlyOldTrips` is violated | a window of two orders, three events |
| `night_level` | `NightIsALevel` is violated | as the walks of `books` |
| `appearance_day` | `AppearancesAreOfTheirDay` is violated | two days, no failures |
| `cursor` | `CursorPassesNothingUnseen` is violated | one request's passes, a put and a call that expire |

`MaxShares`, `MaxFills`, `MaxQty`, `MaxRatio`, `MaxOrders`, `MaxShareTrades`, `MaxCrashes`, `MaxRequests`,
`MaxRestarts`, `MaxTroubles`, `MaxMoves`, `MaxHeld`, `MaxLegs`, `MaxBars`, `MaxFlushes`,
`MaxGexCalls`, `MaxEvents`, `MaxAccountResets`, `MaxSwitches`, `MaxPassRestarts`, `MaxUserCloses`,
`MaxLoopRestarts`, `MaxScannerTroubles`, `LastDay`, `LastMoment`, `EarliestNow` and the sets of tickets, contracts, tapes, prints, asides,
replays and seeks are the bounds; `MAX_ATTEMPTS`, `max_symbols` and the fetch limit of 500 are constants of the code,
made small so that they are reached. `MaxShares` is a guard on fills that would grow the position. The options
instance opens each contract in one direction only; a contract held long by one package and sold by another
is outside it. Where tickets, fills, requests or days run out a part stops, so the runs do not check for
deadlock; that no caller of the cache waits on a lock
nobody holds (`QueuesMove`), that a stopped replay stays stopped (`StoppedStaysStopped`), that a final order
row is never written again (`FinalOrdersStay`) and that no share is called away that is not held
(`CalledAwayAreHeld`) are proved for every instance and not run.

The campaign runs in three parts, because one with both passes, the switch and a restart has more states than a run
of this project should take: the loop alone, with the switch, a restart and orders by hand, but no shares moved and no
pause (`campaigns`); loop and request side by side with the switch off, with all of that (`passes`); and both with
the switch on, rolling the long call or closing the short one while nothing else moves (`placing`), which is where one
step may be placed twice. `Premiums` is empty in `records`: see
below for what the streams of option contracts do.

`DeskSymmetry` and `TabSymmetry` exchange tickets and close requests, and sockets, which nothing tells apart; the
temporal properties of both runs are about steps and name none of them. `BooksView`, `ServicesView` and `RecordsNow`
drop what no step and no checked formula of the run reads: history, the rows of what is done, which of two resting
packages came first.

What the violations show:

* `race_held_exits`: submit writes the entry row, live, before its exits. A tick in between fills the
  entry, finds no children to activate, and submit then inserts the exits as `held` behind a filled entry.
  Nothing ever activates them: a protective stop that will not fire.
* `race_double_fill`: a limit that is marketable on arrival is a working row until submit fills it a few
  transactions later. A tick in between fills it as well: twice the shares and twice the cash for one order.
  Both need the five-second loop to land inside a submit of a few milliseconds; nothing but luck keeps them
  apart. `books` shows the other interleavings with the loop to be harmless as long as submit does not fill
  and nothing cancels.
* `replay_live_price`: the session row outlives a restart, its engine does not, and for a paused session only
  a new start loads one. Until then orders are priced at the market, in a session whose clock shows the past.
* `campaign_premiums`: the event in which a campaign notes what it placed carries the order's id, by which
  reconcile later takes the filled order for one already counted: its premium is never in the campaign.
* `journal_cap`: of two purchases and a sale of part, the newest two orders are the second purchase and the sale.
  They are paired as a trip, opened by an order that opened none and closed while the real trip is still open, and
  the phantom stays in the record.
* `night_level`: the strategy backtest marks a day's levels before its premarket has printed, so the range of
  the night is no level of it: it enters towards a target further off where the live side sees the night's high too
  near for a trade.
* `cursor`: two contracts that expire together are settled one after the other under one moment. A pass that reads
  the orders in between saves that moment as its cursor, and the second order, not later than it, is never read.
* `appearance_day`: between midnight and the first premarket poll the rows of the day before are recorded
  under the new date, and keep the day's real first sightings out.

## Fairness

Liveness is claimed of three things. `FairSpec` of `OptionsBook` adds weak fairness of `BeginSettle` and strong
fairness of `SettleNext`, for `ExpiredContractsSettle`. The live loop ticks for ever and swallows what a tick
raises, so a pass always comes; strong, because a pass that finds no price skips the position and the next
pass tries again, so what is assumed is that the quote source does not fail at every pass. It is a claim
about a user whom the live loop serves: for one who paused a replay nobody settles until the replay moves.
`FairSpec` of `ReplayClock` adds weak fairness of the pacing tick and strong fairness of its fetch of the
bars, for `PlayingEnds`, with the same reasons; that the fetch brings bars is not assumed, and the property excepts
the session whose engine has none, because that one plays for ever. `TriggersFairness` adds weak fairness of the trigger loop's
steps, once a tick has listed its triggers and read its prices, and strong fairness of reading them, for
`HitTriggersSettle`: the loop runs for ever and swallows what a tick raises, and the prices are not missing
at every tick. Nothing is assumed of the broker: what it refuses counts as an attempt, and attempts run out.
Nothing is assumed of requests. Everything else is a safety property of a specification without fairness.

## Proofs

Each theorem holds for every value of the constants, under the named assumptions on them, which every run
evaluates. Theorems about a component are in the module named after it; the invariants are conjunctions of
named parts, and there is one lemma per handler.

**Order table** (`SimBrokerProofs`). For every set of tickets, prices and submissions and every share bound
the table keeps its types, `ExitsFollowEntry`, `OcoPairStandsTogether`, `NeverWorseThanLimit` and
`FinalOrdersStay`. The inductive invariant is `BookInv`: the types, the first two, and that no entry is ever
`held`. Neither of the two is inductive alone: that an exit goes live with its entry needs to know that the
entry was not `held` itself, and that the sibling of a filled exit is canceled needs the sibling to be working
or final with it. The proof goes handler by handler over what it does to `status`: `CancelIn`
(`CancelKeeps`), `FillIn` (`FillKeeps`) and `InsertIn` (`InsertKeeps`) each keep the invariant, and every
handler is made of those three. `NeverWorseThanLimit` is then proved from what each fill writes, a replace
being possible only on working rows.

**Broker** (`SimBrokerProofs`). `SimBroker` implements the table: its position stays within the bound
(`SharesStayBounded`: a close never asks for more than is held), so each of its steps is a step of the table
or leaves it alone (`BrokerImplementsBook`), and the four theorems hold of the broker. Its own rows keep
their types (`BrokerTypesHold`), and the position and the cash are what the filled orders add up to
(`AccountIsAlwaysItsFills`). `AccountInv` says the account is `Tallied`, the sum over the orders that have
filled; a pass of the fill loop is a fold over the rows it read, in any order the query may return them, so
the tally is carried through the fold row by row: each row filled by it was not counted yet, none is filled
twice, and what it adds is its own term of the sum.

**Broker, split at its awaits** (`SimBrokerProofs`). Two tasks that fill the same order are the race of
`race_double_fill`; the theorems say that nothing else is needed to prevent it than a single filler. Under
`OneFiller`, one task may run every handler and the others re-price orders and submit tickets that do not fill
as they are submitted, as the loop and the request of the run `books` do. Then a fill moves the position and
the cash at most once and never before its order is marked, across restarts anywhere in between
(`OneFillerAppliesOnce`), and short of a restart the position between tasks is what filled
(`OneFillerKeepsPosition`). `TasksInv` says what each program counter may rely on: the rows of the list still to
be filled are live and no row is on it twice, a fill in hand is marked and has moved the position exactly when
its counter is past that write, the shares still in hand and the position add up to what filled (`Squared`),
and submissions under way insert exits that are not there, each under a ticket of its own (`Entering`).
`FillerUndisturbed` is the other half: rows that appear unfilled beside the filler change nothing it relies on.

**Options book** (`OptionsBookProofs`). The book keeps its types; settling one position leaves the equity at
the settlement price as it was (`SettlementAlwaysKeepsEquity`), by arithmetic on one position, the shares and
the cash, split by what the code splits on; a call only ever takes shares that are there
(`CalledAwaySharesAreHeld`); and what rests to close a contract never comes to more than is held
(`ClosesAlwaysClose`). The last has a hypothesis, `OpenedOneWay`: each contract is opened on one side only,
by buying or by selling. It is needed: a package that opens by selling a contract held long reduces what the
closes already resting count on, and the code's check, which looks at the closing legs of a package only,
lets it pass. The invariant is the sum of what rests against each contract bounded by what is held, so every
handler is a change of one term of a sum.

**Sums** (`SumLemmas`). Sums over finite sets are folds, defined by recursion on the set. That the recursion
has a value, and that a term may be taken out of it, changed or added, is shown by the smallest subset for
which it would fail, and so is that a finite set of numbers has its greatest; induction theorems proper take an operator and cannot be used.

Folds over sequences, in which a walk of fills is written, are treated the same way: `FoldByAppend` says
that the fold of a sequence and one more element is one step from the fold of the sequence, and
`FoldBySteps` carries a fact along a fold, each by the shortest prefix for which it would fail. The step of a
fold is there a function of a pair, as the library's operator argument cannot be instantiated; a lemma for each
operator that is folded says the two folds agree.

**Round trips** (`RoundTripsProofs`). For any number of fills, of any sizes and prices: what the pairing leaves
open is the net of the fills, its profits add up to the cash when the account is flat, and no two trips share
an id (`RoundTripsAccountForCash`); and the simulator, which never sees more than one fill, writes the trips
that the pairing finds in the whole log (`SimCutsRoundTrips`). `TripsAccounted` is the first as an invariant: the
profits closed so far are a whole number of dollars, and with the cash of the trip that is open they are the
cash of the log at all times, not only when flat; an id is an order and the legs it has opened, so the next
one is always new (`Apart`). `SimCut` sets the simulator's row beside the open trip: same opener, side,
shares and exits, and the same average until a reload (`Kept`), after which the row averages what it still
holds and the walk all entries of the trip. Averages are fractions in lowest terms; that two computations of
one average give the same fraction is `SameRatio`, from the least denominator a fraction can have.

**Round trip record** (`RoundTripsProofs`). For any number of events, of overlapping syncs and of account
resets: the record is complete once a sync has seen everything and none that began earlier is still to write,
and rows of a life before stay (`RecordIsComplete`, for `JournalIsTheRecord`). `JournalInv` says what each sync
still tells at each of its stops. A life is a sequence in which every event may follow the ones before (`Lives`:
an order opens, an assignment or expiry only takes off), so the walk is told at every point (`Walks`: the trip
open is the net, every trip is of an order of the fills). A sync that missed nothing has `Told`, all events but a
last one that is not booked; `LastIsLapsed` says why that is enough: if the contract is still held the closed
trips are the same, and if not, what the lapsed contracts stand for is that very event. What any sync may
write is named for orders of the life it began in (`NamesOf`), so a late writer touches no row of another
life; of this life it writes only trips that happened, as long as it is orders alone and one query returns
them. A sync that something happened behind is `Blind`: it claims no longer to have missed nothing, and the
rest of what it tells stays.

**Replay clock** (`MarketDataProofs`). For any number of clients, requests, restarts and replays the tasks
keep their types, the pacing loop moves a paused clock at most once more (`PausedClockAlwaysSettles`), at most
one pass of the live loop fills a user who has a session (`LiveLoopAlwaysLetsGo`), and a stopped replay stays
stopped. `drift <= 1` is not inductive; `TickInv` adds why: a tick that has not written was begun on a clock
that played, so as long as one is under way nothing has drifted, and a clock that plays or is gone has no
drift. `LiveInv` says the same of the live pass.

**Exit triggers** (`ClosingProofs`). For any triggers, attempts, quotes and restarts, `OrdersAreBounded`:
at most one closing order for each attempt and each restart, and at most one after a confirmed cancel.
`TriggersInv` adds what a tick still may do: while a trigger waits for its turn the loop's count of attempts is
that of the row, and an order that is out and not yet recorded is the one the next attempt or restart makes
room for.

**Closing at the live broker** (`ClosingProofs`). For any requests, position and resting orders, any number of
failing calls and of moved stops: a whole position closed with every call answered leaves nothing held and
nothing resting (`ClosedMeansFlat`), and an answer that does not tell of a lost stop leaves the stops covering
as much as before or all that is left (`LostStopsAreTold`). Both are about a request that no other request and
no exit came between; the service keeps no state, so `CloseInv` says what the locals of such a request still
tell of the broker. `ListTells`: what rests is on its list to cancel, so after the list nothing rests, unless
a stop changed its id. `StopsTold`: the position is on the side it found and holds at least what is to be sold
and what is to be left, and the stops it found are among the exits to put back, or there was none, or the list
could not be had and they rest as they did. Of the accounts it is assumed that they hold finitely many orders,
and that orders which stand and fall together are on one side (`ClosesAssumption`).

**Exits of a backtest** (`ClosingProofs`). `OutcomeIsAlwaysTheTapes`, for any prices, rules and number of bars:
`simulate_exit` answers what every tape of the bars makes, unless it says that it is ambiguous, and then,
without portions, no tape makes less. The argument is about one bar first. Where the backtest does not leave,
a position is what it was on both ways through the bar, as no print is beyond the ends of the bar; where it
leaves unambiguously, the position is settled by the first print that meets a level, and no later one of the
bar changes it (`BarMakes`). The tape is a fold over the bars, and by induction on their number (`UpTo`) a
position is unchanged up to the bar the walk leaves in and stays out after it. A runner is the same argument
again from the bar that met the target, with its stop at the entry.

**Walks of the backtests** (`MarketDataProofs`). `NoLookAhead`, for any bars, any number of them and any curve and
fundamentals held beside them: whatever is printed next, every entry found so far is found again, with its stop,
target and readings. It is a statement about the tape; the curve and the fundamentals are handed to the walks
from outside it. The tape needs an invariant, that its bars are in the order of their time (`TapeInv`). A backtest is
a fold over the bars, so it is the last of a function of states, one to each bar (`WalksBars`, `AlarmsOver`); over
one bar more, each of those states is what it was, because levels, ATR, boxes, averages and alerts are read of
the bars up to their own, and only what follows a bar, whether it can be measured, may be more. The screen reads the
session so far. The relative volume compares with a day that is over, as a later bar is never of an earlier day, and
what can be measured only now comes after every crossing of its day, so the first stays the first.
`WalksAlwaysAgree`: a backtest enters exactly where the live reading of the same rule turned true, with the same
trade, for any settings: the momentum alarms as they are, the strategies where the live walk is handed the levels of
the day's morning, which are the backtest's. That the scanner and the chart are handed others is not in
question here: `NightIsALevel` and `ScannerOverFlags` are about that. What a walk carries after i bars is set beside
what the live reading of those i bars finds for itself (`Beside`, `AlarmsBeside`), by induction on the bars: the
session's average, whether the reading one bar ago held, the levels, and the ATR, which the live side takes of
all bars and the walk of those before its day (`AtrIsKept`). The alarm keeps only its last few bars. They hold the
last one a window ago, because each bar of a day is at least a slot after the one before it (`SlotsRise`,
`WindowIsTrailing`), and what the first bar of a day drops could not have raised one.

**Market data** (`MarketDataProofs`). Of the readings: the callers of one lock form a line (`LockLine`), so
that two fetches of one symbol overlap only where eviction dropped the lock (`OneFetchAtATime`) and nobody
waits on a lock that nobody holds (`QueuesAlwaysMove`). `LockInv` says what that takes: a caller waits only for
calls under way on its own lock, who fetches waits for nobody, of two on the symbol's lock one is ahead of the
other, being ahead is transitive, and no set of callers waits for itself.

Of the bar streams: the feed of a stock lasts no longer than a handler that counts it (`StocksAlwaysLetGo`),
and prints that wait have a task that sends them (`BatchAlwaysFlushed`). The invariant relates the counts to
the sockets that watch: no count is higher than the number of its watchers, and whatever streams has a watcher
or somebody who is about to give it up.

Of the scanner: the premarket list shown after the bell is what the ticks of that morning's premarket asked for, or
the morning's bars, but for symbols that no such tick has polled (`FrozenAlwaysThisMorning`), whatever batches fail,
pauses and restarts happen and wherever a tick is when the bell rings. The invariant follows the loop through the
phases: what it saw last is this phase or the one before, a tick that is polling was begun in one of the two
(`SawThisPhaseOrTheLast`), and a row held in a premarket was asked for in it or its symbol is unanswered
(`RowsAreThisMorning`).

**Tickets** (`SpreadTicketsProofs`). `StatedRiskAlwaysHolds` for all strikes, prices and settlements: the
payoff at expiry of each named shape is piecewise linear, so it is bounded on each of the intervals its
strikes cut the line into, by arithmetic, and the closed forms of `spread_risk` are those bounds.

`NakedIffUncovered`: `naked_shorts` hands out longs leg by leg, each to the shorts it happens to meet, and
yet leaves a short of a built package bare only where no other order would cover it: at the expiry of some leg
more shorts of a kind still run than longs. It rests on the order of `leg_specs_full`, earlier expiries first:
a short that is served before its successors then takes the long that ends first. The invariant of the loop says, for each kind and every expiry,
that the contracts the longs have left to give cover what they had less what was taken, which no leg of the
other kind disturbs; a short that finds too little has used up every long that outlives it, so at its expiry
the count falls short. `BuiltRiskAlwaysHolds`: between two neighbouring strikes the payoff of any package is
a line, so its worst is at a strike, at zero or past the last strike, where it falls with the net of the
calls; the chart of `worst_case` has all strikes on it.

**Screener** (`SpreadTicketsProofs`). `ReportsAlwaysAvoided`: where reports are to be avoided, neither a row's
expiry nor a candidate's holds the one its calendar named, a row is said to be excluded exactly where no expiry
of its window comes before that report, and the back of a calendar expires after its front; whatever calls fail.
`ScreenInv` says it of the rows that are in and of the row at hand, of which it adds that until it is judged its
expiry is the one its days give (`PickExpiryIs`): the back is picked later, of the same days. That it is later
too (`BackIsLater`) is not said by its window, which may begin below the front: but a front after
some day of it is in that window too, below its middle, and so nearer to it than that day. Candidates stand on the row's
expiry or on the second one, each before the report (`TriedOnThese`). The symbols are those of greatest volume,
which exist because volumes are numbers and the universe is finite (`FirstTradedIs`).

**Campaigns** (`CampaignsProofs`). For either playbook, any orders by hand, any passes, switches and restarts,
the rows keep their types (`CampaignTypesHold`) and the cursor passes over no order that left no event, but for one
written with a stamp that had been reached before (`CursorAlwaysPassesOnlyTheLate`). The exception is real: `cursor`
finds such an order. The rest is not inductive: a pass saves a cursor it made up from a list it read earlier, while
other passes add events and move the cursor. `CursorsTell` says what a list is worth: of the orders that were in
time, all that were done up to any order on it left a trace or stand before it (`Covered`), as orders done
later are later than every moment reached so far, or late (`DoneOrderTells`), and no event is taken back (`Grows`);
so what a pass has as its newest stamp is safe to save whenever it does. `InHand` says what each phase of a pass may
rely on.
`CountedOncePerPass` bounds what passes side by side may repeat: an event is written at most once by each. `CountsTell`:
the times an order was counted and the passes still about to count it are together no more than the passes.
`ExecutionsTell`: an order noted as executed was noted by the pass that placed it, which has moved on.

Model-checked only: `PlacedAgainOnlyWhenTorn` and `ScannerOverFlags`; `ReservedCoversLoss`,
`GroupsPartitionTheBook`, `ShapesAreTickets` and `ScreenAgreesWithTicket`, whose models filter and sort sequences by
the recursive `SelectSeq` and `SortSeq`, of which the provers know nothing; that `SimBrokerTasks` implements the
atomic book with one task (`OrdersImplementBook`), left to the plan; and liveness, which is out of the prover's reach.

## Seen on the way and not run

Smaller divergences met while modelling, which no run shows:

* `options_book.py:362-364` says the shares a put delivers today do not cover a call that expires today,
  because the calls come after the puts; each position reads the shares when its turn comes, so they do.
* `broker.py:101` multiplies an average that covers what remains by all that was sold, once a partial exit is
  followed by a reload; `_OpenTrip` of `trades.py` keeps the trip's own sums.
* A tab turned away at the cap of the option stream gives up its contract all the same, with the count of a
  tab let in since; if that happens before the other's provider calls, the contract streams on, and as
  `unsubscribe` (`option_stream_manager.py:63`) returns early when there is no count, nobody ever ends it.
  `StreamsLetGo` is about stocks for that reason: there the last handler always makes the calls.
* A package that opens by selling a contract held long leaves the closes that rest against it larger than
  what is held: `_assert_not_over_closing` is asked for closing legs only.
* Two passes of a campaign at once may place the same step twice, as may one before a restart and one after it;
  `runner.py:20` says "not the same proposal twice". `PlacedAgainOnlyWhenTorn` is what holds: nothing else does.
* `filter_and_rank` caps candidates per strategy, its docstring says per strategy and expiry; the counts of
  what it skipped do not add up once all seats are taken; a target range is valued at five points, between
  which the worst may lie; the risk budget is not asked again after the preview; the final ranks follow the
  seats, not the scores.
* `rank_rows` says a row that cannot be priced sorts last; one whose chain failed has an expiry and does not. A
  report today does not count against an expiry today. A calendar's volatility comparison, "reported, not
  judged", counts as a check. A covered call is valued as a bare call in the screener. With few deltas quoted,
  a condor may come out with its wings inside.
* `pricing.py:93` states an uneven fly's risk from one width; the README tells two.
* `exit_rules.py:184-187` takes the runner out at the entry price on the very bar the target is met.
* `service.py:80-97` (options) ends the chart it takes the worst case of at its last price also where shares
  or a bare put lose on below it.
* In a live close, an add-on stop moved to a new id survives a full close, a refused close after the cancels
  leaves the position without exits, and a re-arm can race a second close.
* In campaigns, a restart between the two events of one order loses the second; `propose_now` does not ask for the
  status.
* `service.py:639` compares the quantity asked for with the position as the broker signs it, so a partial close of
  a short buys all of it back.
* A replay reloaded without bars has no end (`engine.py:114-127`), so it plays for ever; `loop.py:141-142` says "stop
  rather than freeze silently".
* The scanner's rows get their marks from a cache of one session (`bars.py:243`), so they are the premarket range
  alone; `engine.py:826` says "premarket range, prior-session range" and `context.py:102-103` that it "holds one prior session".
  With the measured move on, its target can be nearer than the chart's, of which `engine.py:827` says that more
  levels only bring it nearer.
* `intraday_backtest.py:171` says of `rvol_1h` "Same warmup and direction rules as the live field"; `_anchor` of
  `volume_surge` counts time instead of bars, and asks for no direction.
* An iron butterfly is closed under the name of an iron condor; resting purchases reserve nothing; two
  covered calls may be covered by the same shares; a diagonal whose long is beyond its short can lose more
  than its debit (`pricing.py:126`).
* `session_marks` and ATR take bars up to and including the close, `is_regular_session_bar` does not: the bar
  stamped 16:00 counts for the one and not for the other.
* In the scanner, a premarket spent paused freezes the rows of the day before; a start just before the bell
  leaves no list; a failed batch keeps the row of the day before; rows that fell on the day are flagged live
  in the fallback.

## Plan

1. `OptionsBook` at the grain of its transactions: a crash between the option leg and the shares of an
   assignment, a fill between the rows of a package, two settlement passes at once, a close that fills while
   the settlement goes through its list.
2. The scanner's follow-up snapshots and movers backstop; the chain cache and the other TTL caches.
3. No look-ahead in the replay engines and the backtest of playbooks; the short side and the other strategy rules.
4. The scheduled recorders: one row per day across restarts.
5. Theorems for `PositionGroups` (no leg lost or shown twice), for which its sorting and filtering have to be
   written as folds; that the handlers of one task implement the atomic book, and so the
   task-level `ExitsFollowEntry` under a lock held per handler.

Not modelled, and why: indicators, volatility and Greeks are numeric functions of bars and chains; market data
access is I/O; authentication, prefs and the user interface are CRUD and presentation. In the modelled parts,
what each paragraph above names as left out.
