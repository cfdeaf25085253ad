# Verification of capital_management

`capital_management` keeps a person's capital in one ledger: transactions with
signed legs, from which holdings, FIFO lots, profit and loss, liabilities, net
worth and performance are computed. It is a FastAPI program with synchronous
endpoints over PostgreSQL: each request runs in a worker thread with one
SQLAlchemy session (`src/app/core/db.py`), which is one database transaction
from the query that authenticates the user to the commit at the end of the
service function. No service takes a lock and no isolation level is set, so
requests interleave statement by statement at READ COMMITTED.

This directory holds TLA+ models of that program, TLC runs that check them on
small instances, and proofs, checked by TLAPS, for every instance.

## Inventory

| component | state | operations | what makes it correct |
|---|---|---|---|
| lot engine (`services/lots.py`, `cost_basis.py`) | `lot`, `lot_consumption` rows | `rebuild` of an asset: delete all, replay all rows, insert | FIFO; every unit sold realized once; cost carried over a transfer; a function of the active rows |
| transaction ledger (`services/ledger.py`, `schemas/transaction.py`) | `transaction`, `transaction_leg` rows | create (7 types), reverse, delete, list | no balance below zero at any date; history never rewritten; one reversal a row |
| holdings (`services/holdings.py`) | none, sums the legs | holdings by pair, asset, class; valued | agree with the lots |
| profit and loss (`services/pnl.py`) | none, reads the lots | realized gains of a range, unrealized gains of a date, grouped | every gain counted once; one story with the valued holdings |
| audit log (`services/audit.py`) | `audit_log` rows | append in the caller's transaction | one entry for a command carried out, none for a refused one |
| accounts, assets (`account_service.py`, `asset_service.py`) | rows with `deleted_at` | create, update, close | scope: a request changes its own user's rows only |
| prices and valuation (`prices.py`, `valuation.py`) | `price` rows | add, bulk add, nearest price, conversion through FX | absent data gives an absent value, never an error |
| liabilities (`liabilities.py`) | `liability`, `liability_event` rows | create, borrow, repay, interest | outstanding agrees with the events; money side booked once |
| net worth, snapshots (`net_worth.py`, `snapshots.py`, `jobs/snapshot_job.py`) | `portfolio_snapshot` rows | build, backfill, daily job | one row a day; no holes; a failed user does not cost the others theirs |
| performance (`performance.py`) | none | XIRR, TWR, nominal and real | every external flow in exactly one period |
| inflation, assumptions (`inflation.py`, `assumptions.py`) | `inflation_rate`, `assumptions` rows | upsert, compound, hurdles | one row a key; a month of a window counts once; a hurdle compares like with like |
| projection (`projection.py`) | none | project net worth in three scenarios | assets and contributions are all carried on |
| goals, allocation (`goals.py`, `allocation.py`) | `goal` rows, `audit_log` rows | create, change, progress, drift, rebalancing | rebalancing reaches the target; the audit log explains the goal |
| authentication (`auth_service.py`, `core/deps.py`) | `user` rows | register, log in | one user an e-mail address |

Components interact by calls inside one session and through shared tables: a
ledger command flushes its rows, asks `holdings` for the balances of the pairs
it touches, has `lots` rebuild the assets it touches (which reads `price`
rows), appends to the audit log and commits. Reports read the same tables
later, statement by statement.

Hard behaviours: rows that are backdated, reversed or deleted after others have
come to depend on them; a stored projection next to the rows it is computed
from; rounding in a transfer with a fee; overlapping requests that each
validate against what the other has not committed; locks taken in the order
of a Python set; a worker lost between flush and commit; a daily job without a
retry. `PROJECT.json` lists each at its line, with the properties that cover it.

## Modules

| module | models | state |
|---|---|---|
| `Lots` | `lots.py`, `cost_basis.py` | none: `Rebuild(txns, prices, asset)` |
| `Transactions` | the rules of legs, the sums of `holdings.py` | none |
| `Ledger` | `ledger.py`, `delete_account`, the audit entries | the tables, and the last response |
| `Book` | the abstract ledger: dated entries, covered at every entry | `book`, `answer` |
| `LedgerBook` | `Ledger` implements `Book` | that of `Ledger` |
| `SumTheorems` | induction and folds over finite sets, sums | none |
| `LotsProofs` | lemmas about the operators of `Lots` and `Transactions` | none |
| `ReplayProofs` | what a rebuild leaves, of any rows | none |
| `LedgerProofs` | theorems about `Ledger` and `LedgerBook` | that of `Ledger` |
| `ProfitLoss` | `pnl.py` and the valued holdings of `holdings.py`, over `Ledger` with price entry | that of `Ledger` |
| `LedgerDB` | the statements of overlapping ledger requests | committed tables, and a session a request |
| `LedgerDBProofs` | theorems about `LedgerDB` | that of `LedgerDB` |
| `Snapshots` | `snapshots.py`, `snapshot_job.py`, `net_worth.py`: overlapping rebuilds and the daily thread | chart rows, sessions, clock, what the reports read |
| `SnapshotsProofs` | theorems about `Snapshots` | that of `Snapshots` |
| `Valuation` | `prices.py`, `valuation.py`: price entry, the nearest price, FX, conversion, the value of one unit | price rows, the order among those of one date |
| `Liabilities` | `liabilities.py`: debts, their events, the derived balance | debts, events, audit entries |
| `Reports` | `holdings.py`, `net_worth.py`, `performance.py`: valued holdings, net worth, returns | that of the two above, and the transaction rows that count |
| `ReportsProofs` | theorems about `Valuation`, `Liabilities` and `Reports` | that of `Reports` |
| `ReportsPast` | `Reports` beside `Reports` over tables cut at a moment | that of `Reports` |
| `Inflation` | `inflation.py`: the months of a window and their compounded rates | none |
| `Planning` | `allocation.py`, `goals.py` (progress), `projection.py`, hurdles and real returns, over `ReportsPast` | that of `Reports` |
| `UserData` | registration, upserts, goals, accounts and assets as overlapping requests | rows, audit entries, a session a request |
| `UserDataProofs` | theorems about `UserData` | that of `UserData` |
| `MCLedger`, `MCProfitLoss`, `MCLedgerDB`, `MCSnapshots`, `MCReports`, `MCUserData` | instances for TLC | |

### Lots

`Rebuild` folds `ReplayTxn` over the rows of an asset that count (active, not
deleted), listed (`Sorted`) by `occurred_at` and then by creation (`lots.py:66-68`). An
inflow appends a lot (`IncreaseLot`), an outflow takes from the open lots of
its account in FIFO order (`Take`, `Segments`, `Consume`), a trade also records
consumptions (`Realize`), a transfer appends the carried lots (`CarriedLots`).
An outflow that finds too little sets `short`, where the code raises 422.

Abstractions: quantities are integers of a smallest unit; a ratio has
`Precision` units per one and divisions round half to even there, as Decimal
does at 28 digits, so that the effect of rounding is kept at a size TLC can
reach; the rounding of the stored columns to 18 places is left out; the two
reporting currencies are computed by the same formulas independently, so one
stands for both, and its FX conversion is left out.

### Ledger

One request is one step, and `response` says how it ended. `Settle` is the
tail that create, reverse and delete share: the flushed rows (`rows`), the
balance check (`NegativePair`), the rebuild of every touched asset
(`ShortRebuild`, `lots'`, `consumptions'`), the audit entry, the commit. A
refused request leaves every table alone (`Refuse`): the session is closed
without a commit. `DeleteAccount` is `delete_account`, which looks at no
balance; afterwards `Post` answers `unknown_account`.

Left out: assets that are not visible (same test as for accounts, no request
makes an asset invisible), notes, fees as records, listing.

### ProfitLoss

`PricedSpec` is `Ledger` with one more action, `EnterPrice`, which touches no
lot. `PnlReport` is `pnl_report`: `Realized` selects the consumptions by the moment of
their sale, `Unrealized` goes over the open lots of today, `Grouped` sums either
by `GroupKey`. `ValuedHoldings`, `ValuedByAsset` and `ValuedByClass` are the functions of
`holdings.py` that compute unrealized gains a second time, holding by
holding. A fiat asset is worth its nominal value, another its nearest price; the
conversion between currencies is the business of `Valuation` and `Reports`.

### LedgerDB

`session[r]` is what request `r` has done and not committed; `pc` names the
next statement: `read` (get_transaction), `write` (flush), `check` (balance),
then per asset `consumptions` and `lots` (the two DELETEs of
`_delete_existing`), `replay` (SELECT, replay, INSERT), and `commit`. `rows`
and `batches` are committed; `View(r)` lays what `r` flushed over the rows
committed at that moment, which is what a READ COMMITTED statement reads.

A DELETE fixes its targets when it starts, locks them one by one, waits
for a peer that holds one (`Awaited`), and skips it when the peer has
committed its deletion. The lots of one rebuild appear and go together, so a
*batch* is the unit of locking. A lot deleted under a consumption the request
did not see violates the foreign key (`CheckReferences`). PostgreSQL ends one request of a
cycle of waits (`DeadlockVictim`); a lost worker or connection rolls back
(`Crash`). What belongs to PostgreSQL is marked external in the map: it is
modelled from how the services use it.

A request's number is the id of the row it inserts. It is given when the request
begins, since `created_at` is PostgreSQL's `now()`, the start of the transaction.
`met` is a history variable: whom a request has overlapped.

`LedgerDBAssumption` says what committed requests have left to begin with: opening rows
whose legs `_build_specs` lets through (`Accepted`), with lots for every outflow,
and a finite set of new requests with such legs.

### Snapshots

`session[r]` is a rebuild request (`backfill`) or the scheduler thread (`Job`):
its `pc` names the next statement for the key it builds, `todo` the keys still
to come, `reading` what it has read of the key, `found` the stored row its
SELECT returned, `written` what it has flushed. `ComputeAssets`, `ComputeByClass` and
`ComputeDebts` are the three passes of `compute_live`, each with a snapshot of
its own; a valuation that raises (users in `Broken`) ends the session. `Find` is
the SELECT, `Store` the flush: an INSERT when nothing was found, which waits for
a peer that has inserted the key and fails when the peer commits; else an UPDATE of the
columns that differ from `found` (`Dirty`), which waits for the row and then
applies to whatever is stored. `Commit` ends all days of the request at once
(`commit=False` in both loops). `chart` is the set of committed rows.

The thread: `NextRun` is `_seconds_until_next_run`, `Due` its wake-up, `BeginRun` the
run over all users in one session, `End` the `try`/`except` of `_loop`. There is no
retry: `target` moves on however the run ended.

Abstractions: what a report of a day reads is one number for the assets and one
for the debts (`worth`), changed by `Post`, which stands for every commit of a
transaction, a price or a liability event, and moves that day and the later ones;
each pass is one read, although the code issues a query per asset or liability; the
set of users is fixed; the rounding of stored amounts is left out. `Tick`
assumes a run that is due ends before the next half day. `Restart` kills the
thread together with the requests of the process. `alone` is a history variable: nothing
overlapped so far and no figure changed.

### Valuation, Liabilities, Reports

`Valuation` translates the functions of `valuation.py` one by one: `PriceAt`
(`nearest_price`), `FxUsdIrr`, `UnitRate` (`_unit_rate`),
`PriceViaCurrencyAsset`, `Convert`, `MarketUnitValue`. Each ends in an amount, in
`None` (not valued) or in `Raised` (an exception that nothing catches), and
`Times` passes the latter two on as the callers do. Two rows of one `as_of` are
ordered by nothing in the query, so `heap`, an arbitrary rank chosen in
`PricesInit`, decides which one `LIMIT 1` returns; it may change whenever prices are entered, while the queries of one report
are taken to choose alike.

`Liabilities` has one action a command, with its audit entry. `ComponentsAgree`
is the check of the split of a repayment, `EventRow` the row with the defaults
filled in, and the two outstanding amounts are sums over the events up to a
moment, as `outstanding` folds them.

`Reports` composes the two with the rows a ledger command commits. `ComputeLive`
is `compute_live`, with both currencies and the unvalued lists; `FlowRows`,
`FlowAt`, `Window` (every figure a return reads), `Cuts`, `StartOf`, `EndOf` and `Twr` are the time-weighted
return, `BuildFlows` the input of the money-weighted one. `Past(at)` of `ReportsPast` is a second instance of `Reports` whose
tables lack every row of a later date.

Abstractions: a moment is a half day, an even one the midnight that a day begins with;
prices carry the day, transactions and events the moment. Amounts are
integers of `1 / Precision`. Rows that do not count (reversed, deleted, reversal
rows) reach no report, so `posted` is the set of those that do, and `Post` and
`Undo` add or remove one row under the rule that `Ledger` keeps, `Covered`; how the
ledger gets there is the business of `Ledger`. Any row counts once, so two
identical ones are not told apart. A refused request changes nothing and is no step. The asset
catalogue is constant. Returns are exact fractions.

### Planning and Inflation

`Inflated` compounds the rates of the months of a window (`MonthsInRange`,
`Compounded`); a month without a rate has none, and neither has a window that ends before it
begins (`Precedes`). `TargetFromGoal`, `Drift`,
`AllocationReport` are `allocation.py`; `ProgressAllocation` and `ProgressNetWorth` the
progress of `goals.py`, which computes the drift on its own; `Project` is
`projection.py` with its three `Scenarios` and both its columns; `CurrencyBlock`, `PerformanceReport`,
`Hurdle` and `InflationComparison` put a return beside inflation and a hurdle.

Abstractions: a share is a number of `1 / RateUnit`, a return or factor a
fraction of integers, and nothing is rounded. The twelfth root that turns an annual
growth into a monthly one is the table `Growth` (external). Goals, assumptions and
rates are constants, since `UserData` is about how they change; `PlanningAssumption` says what of them is
a number. `Compounding(months)` is the denominator that so many months of growth have, and a contribution to an
empty portfolio makes a class of its own, `fiat`, which then grows like any other. The root search of
XIRR, and with it the progress of a return goal, is left out. Allocation,
progress and projection are computed at `Now`, the date they take by default.

### UserData

The services for users, accounts, assets, goals, assumptions and rates share a
pattern: find a row, insert one or set attributes of the one found, commit.
`session[r].pc` goes from `find` (the SELECT and what is decided on it) over `write` (the flush)
and `commit` to `done`. What is found is by unique key (`RowsByKey`) or by id
within the user's own rows that are not deleted (`OwnRowById`). An INSERT waits
for a peer that has its unique key in flight and fails when that peer commits
(`KeyTaken`, an uncaught `IntegrityError`); an UPDATE waits for a peer that has
changed the row, then writes the columns that differed from what was read
(`Differing`) to the row as it is then. A goal's commit carries its audit
entry: type and title of a new one, everything asked for of a changed one
(`Diff`). `Crash` loses the worker before the commit. `met` is a history variable: whom
a request has overlapped.

Columns and their values are abstract but for rates, which are numbers under a period, hashing and tokens are left out, listing reads only.
`UserDataAssumption` says that a row has every column of its table, so that a change by id names
columns the row has, and that of a rate what `schemas/inflation.py` validates.

## Runs

A property is checked where it is most exposed; the runs are kept few. `ledger_transfers` is an instance of `LedgerBook`, `ledger_trades` of `ProfitLoss`,
`db_requests` of `LedgerDB`, `snap_*` of `Snapshots`, `reports` of `Planning` and `user_data` of `UserData`.

| run | instance | properties |
|---|---|---|
| `ledger_transfers` | 2 accounts (symmetric), 1 asset, 2 days with different prices, deposits and withdrawals of 4 and 8, transfers with and without a fee of 4, malformed bodies, 4 commands, the last of them in every form it can be proposed | `TypeOK` `LotsReconcile` `LotProvenance` `CostConserved` `ReversalPairing` `AuditTrail` `RefusalsAreExact` `HistoryKept` `ImplementsBook` |
| `ledger_trades` | 2 accounts (symmetric), gold and rials, deposits, fees, priced and unpriced trades, transfers of gold, a price entered later, 3 commands, an account closed | `HoldingsNonNegative` `FifoRespected` `SalesRealized` `GainsAddUp` `ViewsAgree` |
| `db_requests` | 3 overlapping requests out of trades both ways, deposits, a reversal and a deletion; 2 assets; two deposits and a trade with a consumption to begin with | `TypeOK` `NoLotLost` `HealedAlone` `PairsNeverOverdraw` `EveryRequestAnswered` |
| `snap_rebuilds` | 1 user, 2 days, 2 rebuilds (symmetric) and the thread, 1 commit of figures | `TypeOK` `WaitsAscend` `RebuildIsExact` `RangeCovered` |
| `snap_daily` | 2 users, one whose valuation raises, 2 days, 2 rebuilds and the thread, 1 restart | `EveryRebuildAnswered` `SchedulerGoesOn` |
| `reports` | 1 account, USD, EUR, BTC and a USD of the user's own, 2 days of 2 moments, 9 batches of prices, 6 rows, 1 debt with up to 3 of 6 events, 4 requests; 7 goals, rates in the last month of a year and the first of the next, 3 growths in 3 scenarios | `TypeOK` `BalanceAgrees` `CurrenciesAgree` `FailsOnlyAtZeroRate` `FlowsAreNotReturn` `WindowsCompose` `PastIsFixed` `RebalanceReachesTarget` `HurdlesAreUnits` `ContributionsKept` |
| `user_data` | 3 overlapping requests out of 12; 2 users and one who registers; a goal, an account, a system asset and a rate to begin with | `TypeOK` `OneRowPerKey` `AuditExplains` `InflationCountsEachMonth` `EveryRequestAnswered` |

Bounds. Four commands are enough for the cases that relate rows: two inflows
at different costs, an outflow that takes from both, and a backdated, reversed
or deleted row under them; or an inflow, a transfer, a sale of what was
carried, a reversal. `ledger_trades` makes do with three, since two accounts, two assets and a later
price multiply the proposals: a purchase, a sale, and a row that moves what either
rests on (four commands, 625 thousand states, pass as well, but take all of five minutes). Amounts 4 and 8 with a fee of 4 keep the ratio of a transfer exact
(`Precision = 8`), so `CostConserved` and `RefusalsAreExact` are about the
algorithm and not about rounding. `MaxCommands`
bounds the commands carried out, never the refused ones. Two requests are what
a pairwise race needs, three what defeats the row locks (`overdrawn`), and a third also
finds what two have left behind (`HealedAlone`) or closes a circle of waits over two assets. Two days let a
rebuild hold one row and wait for the next, and let a commit change the later
day only; two rebuilds and the thread are the three kinds of waiting pair; one change
of figures makes a stored row differ from what a rebuild reads. In `reports` four requests are two prices and two rows,
or a rate, a debt and two events: what one figure is computed from. Prices
are powers of two, so no quotient is rounded; the batches hold a rate that
doubles, one corrected on its day, one of zero, EUR quoted in either currency, BTC
quoted in its preferred currency, in another, and in a third. The growths of nothing,
all and minus all in each scenario give monthly factors below, at and above one, and
one that is lost altogether; two months are one step of the
recurrence after the first. In `user_data` three requests are two that
race for a row or a key and one that comes after. Of the seven request types `deposit`,
`withdrawal`, `transfer`, `trade` and `fee` occur; income and expense differ
from deposit and withdrawal in name only.

Deadlock is checked in the `ledger_*` runs (some request can always come). In the `db_requests` and `user_data` runs
the requests are finitely many and the system stops when they are done, so
deadlock is not checked there; that no request is stuck is
`EveryRequestAnswered`. The same holds for `Snapshots`, whose days end, with
`EveryRebuildAnswered` and `SchedulerGoesOn`. In `reports` the number of requests is
bounded, so the instance stops.

What the ledger properties say beyond their comments. `PairsNeverOverdraw` is the true
part of what `overdrawn` refutes: as long as no request has overlapped more than one
other, the order of the DELETEs on the lots keeps the balance. `GainsAddUp`
leaves out histories with an outflow other than a sale (a withdrawal, expense or fee
realizes nothing, its lots just go) and with a cost or price that is not known. `ViewsAgree`
leaves out dates that some row comes after: there `valued_holdings` counts the units held then and
both services go over the lots of today. `AuditExplains` leaves out
goals whose requests overlapped: an entry lists all that was asked for, but a column
that was read as it was to be is not written, whatever a peer makes of it meanwhile. `RebalanceReachesTarget` relates `allocation.py` to
`goals.py`, two computations of one drift, and `HurdlesAreUnits` the
dollar's growth to the dollar's report: rial return above the growth of the dollar is gain in dollars.
`ContributionsKept` compares a projection class by class with an annuity of the live net worth.

What the report properties say. `CurrenciesAgree` leaves out a day on which a
currency other than the two has prices of its own in both (`QuotedTwice`): the two quotes
need not agree, and the reports repeat what was entered. It covers every other path: the direct
quote, the bridge, the preferred currency of an asset, any other.
`FailsOnlyAtZeroRate` is the true part of what `valuation.py:4` says,
"never raise": a zero rate, which `schemas/price.py:13` admits, is divided by
(`valuation.py:95`), and every report of that day that meets the division fails, in both currencies (`NeverRaises`, put in
place of the properties of `reports`, is refuted by a zero rate and a holding priced in IRR).
`FlowsAreNotReturn` compares a chain of sub-periods with the price of the asset alone.
`WindowsCompose` is the half-open window of `external_cashflows`: a flow on the
boundary of two windows is in exactly one. `BalanceAgrees` permits a repayment beyond what is
owed; the code does not look, and the balance goes below zero.

Fairness. Only the `FairSpec`s assume any. In `LedgerDB`: a request that has begun
and can take its next step does not stay so for ever. The worker thread keeps
running, and PostgreSQL's detector looks at every wait that lasts
(`deadlock_timeout`). No client has to begin a request, and no crash has to
happen. The condition is written with `Ready`, which is what enables
`Step(r) \/ DeadlockVictim(r)`; a request takes finitely many steps, so this
is weak fairness of that action. In `UserData`: weak fairness of each session's
next statement, for the same reason; waits cannot close a circle there, since a request
flushes once, and `EveryRequestAnswered` shows so. In `Snapshots`: weak fairness of each
session's next statement, of the start of a due run, and of time; no client has
to ask for a rebuild, no figure has to change, no restart has to happen. A
statement that waits for a row is not enabled, so `EveryRebuildAnswered` does
not follow from the fairness alone: it needs that waits never close a circle, for there
the model has no deadlock detector.

### What the code says and the model refutes

| run | property | shown |
|---|---|---|
| `overdrawn` | `NeverOverdrawn` | Deposit C deletes the lots L and inserts L'. Withdrawal A, whose DELETE started before C's commit, waits for L, finds it gone and holds no lock. Withdrawal B deletes L'. A and B replay without seeing each other, and both commit: the holding is negative. |
| `reversed_twice` | `ReversedOnce` | Both requests read `active`; the second UPDATE waits and then applies. Two reversal rows and two audit entries; holdings stay right, since reversal rows do not count. |
| `snap_collision` | `NoHoles` | One user rebuilds today while the daily run is under way: the run finds no row, waits on the unique key and fails, and no other user has a snapshot of the day. The same happens without a race when one user's valuation raises (a zero FX price, `valuation.py:95`), or when the server restarts around the run time. |
| `midnight_flow` | `FlowsNeverReturn` | A deposit at the midnight at which the price doubles: the period before it ends a moment earlier, at the old price, and the deposit counts at the new one. Two units become four, one price becomes twice itself, and the return is 33 % where the asset gained 100 % (`performance.py:167`, against "chain sub-period returns, breaking the window at each external flow", `performance.py:159-160`). `FlowsAreNotReturn` holds of every other flow. |

| `repriced_cost` | `CostsAreSnapshots` | Buy gold when its last price is 3. Enter a price for the day of the purchase. Post any row of gold: the rebuild computes the cost of the old lot again, now 5 (`lots.py:155`), against "recorded with the rate of the day of purchase, a snapshot, so that the report stays stable" (`DATA_MODEL.md:59`) and "snapshotting FX at the acquisition date" (`lots.py:131`). |

Two more disagreements are stated and refuted, without a run of their own.

`CoverGuaranteed` (`MCLedger` with the bodies `ThirdBodies`): `lots.py:202` says a shortfall
in a rebuild "should not happen". A third of three units arrives by transfer, the ratio
is rounded, the carried lots sum to less than the holding, and a withdrawal of the
holding is refused. With Decimal's 28 digits the shortfall is in the last place,
and the withdrawal of everything is refused all the same. A second cause needs no rounding:
deposit on day 2, withdraw on day 1. The balance check sees today's total and
passes, the replay falls short, and the request is refused by what was meant as an
assertion. `RefusalsAreExact` shows that this assertion is the check that
keeps the past covered.

`ProjectionAtRest` (of `LedgerDB`): B waits for the lots A deletes, does not meet those A inserts,
and inserts its own: every lot is there twice, or lots of a reversed row stay.
`HealedAlone` shows the next request that runs alone repairs it, `NoLotLost` that
nothing is ever missing.

Two overlapping rebuilds of one user may also leave a row with the assets of
one computation and the net worth of the other, since an UPDATE writes only the columns
that differ from what was found before the wait. `RebuildIsExact` is therefore
stated of a rebuild that nothing overlaps.

Other differences met while modelling, which the models repeat and no run is about:

- Unrealized gains at a past date go over the lots that are open today
  (`holdings.py:140`, `pnl.py:71`); what was sold since is missing and what was bought since counts.
- `DATA_MODEL.md:58` has lots for non-cash assets only; the code makes them for fiat too.
- Of two registrations of one address that overlap, the loser gets an uncaught `IntegrityError`,
  a bare 500, where a later one gets the 409 of `tests/test_auth.py:17` (`Write` in `UserData`).
- Two overlapping changes of one row leave a mixture when each sets a column
  that the other has, or has not, changed: only columns that differ from what was read are written.
- A negative growth assumption turns the scenarios round: half of it is the pessimistic one,
  one and a half times of it the optimistic.
- An empty portfolio is half way to every allocation (drift 1, progress 50 %).
- Without an FX rate at either end the dollar counts as not having grown.
- A goal in a currency other than USD is measured in IRR.
- Assets that share a symbol share a group of the P&L report.
- Inflation of -100 % in a window is a division by zero (`CurrencyBlock`).

## Proofs

Eight modules hold theorems, each for every value of the constants that satisfies the `ASSUME`s of the
modules it extends: any users, accounts, assets, days, amounts and prices, any number
of rows and of requests, overlapping or not.

    SumTheorems - LotsProofs - ReplayProofs - LedgerProofs
        |              |             \-------- LedgerDBProofs
        |              \- ReportsProofs
        \- UserDataProofs                      SnapshotsProofs

### Induction and sums (`SumTheorems`)

A principle of induction that takes a predicate as an operator cannot be instantiated by the provers
at hand. Here a predicate is the set of what satisfies it (`NatSetInduction`,
`FiniteSetInduction`, from the well-foundedness theorems of the library), which makes
a principle an ordinary fact. From it follow that a recursive function over the finite subsets of a
set exists (`FoldExists`), so that the sums of the community modules obey
their equations (`SumUnfolds`), and what is used of sums: one element more, two disjoint sets, terms
that agree, terms that are zero, renaming, scaling, differences, a sum taken fibre by fibre; and the same
of products. `RecursionExists` says of a recursive function over the naturals up to a bound
that it exists and obeys its equation, which is how the loops of the code become formulas.

### The lot engine (`LotsProofs`, `ReplayProofs`)

`ReplayIsExact` says what `Rebuild` leaves, of any rows that request validation lets through and any prices.
`Exact` promises of a replay that is not `short`:

- every lot comes from an inflow that counts, and every such inflow has its lots where transfers arrive whole (`FromInflows`, `Arrived`);
- consumptions are those of trades that count (`FromSales`), their units add up to what was sold (`AllRealized`), nothing of a lot goes twice (`WithinLots`);
- a sale that took from a lot left nothing in the older ones of its account that were there by then (`InOrder`);

and where no transfer loses anything to a fee (`AllWhole`), that it is `short` exactly when the rows up to some
row leave an account owing, and otherwise leaves open, in each account, what its legs add up to
(`Reconciled`), while what its lots cost, and what its consumptions brought and cost, is what
the legs say (`Priced`, `Conserved`).

The argument is an induction along the listing of the rows: `SoundAt` holds of what is
left after `n` rows, and each kind of row keeps it (`KeepsInflows`,
`KeepsSales`, `KeepsOrder`, `KeepsRealized`, `KeepsWithin`, `KeepsReconciled`, `KeepsArrived` and those of the costs).
The core is arithmetic of FIFO: the takes of an outflow add up to what it asks for,
if so much is open (`TakesAddUp`), and touch a lot only after those before it are
empty (`TakenInOrder`).

That a transfer with a fee is left out of these last promises is not a matter of proof. The ratio
of what arrives to what was sent is rounded, and the lots carried may add up to less
than what arrives (`CoverGuaranteed` above), so nothing exact can be said of all amounts.
The runs check the same properties with fees where the ratio is exact.

### The ledger (`LedgerProofs`)

- `LedgerTypeOK`: `TypeOK` is inductive by itself. The work is in the rows that a
  request appends (`RowType`, `ReversalRowType`) and in the shape of a commit:
  `Settle` either changes no table or appends one row, marks one, or both.
- `LedgerHoldingsNonNegative`: a request checks the pairs of its own legs only.
  The sum of every other pair is over the same legs before and after
  (`PairLegsEntry`, `OtherPair`), so it stays what it was.
- `LedgerReversalPairing`: inductive together with `TypeOK`. A create
  appends a row with `reversal_of = 0`; a reverse needs an active original,
  and a reversal row is born reversed, so it can be no original again; a delete
  touches neither field.
- `LedgerAuditTrail`: the set of entries is a function of the rows, no entry
  occurs twice, and a delete entry is the last of its row. It needs `ReversalPairing`
  to know that an active row is not a reversal.
- `LedgerHistoryKept`: an action property, from `TypeOK` and the shape of a
  commit.
- `LedgerProjectionFresh`: the stored lots and consumptions of each asset are what some replay that
  keeps the promise `Exact` would leave of the rows as they are. It is inductive
  (`LotsInv`, with the types and shapes of rows). A request rebuilds the assets
  of its own legs; of any other asset the rows that count are the same before and
  after (`FreshStep`, `ExactDepends`). It does not say that the stored lots equal a replay of
  today: a price entered since would give another cost, which `repriced_cost` shows.
- `LedgerLotProvenance`, `LedgerFifoRespected`, `LedgerSalesRealized`: read off from it.
- `LedgerLotsReconcile`, `LedgerRefusalsAreExact`, `LedgerImplementsBook`: the same where no request
  carries a fee (`FeeFree`), for the reason above. The refinement maps a row that counts
  to an entry whose delta in a pair is the sum of its legs there (`DeltaIsLegSum`), and so a balance of the
  book to a sum of legs (`BalanceIsLegSum`); a create enters, a reverse or delete of
  an active row voids, everything else leaves the book. That what is committed is
  covered is what a replay that is not short says.

- `LedgerCostConserved`: under `FeeFree` too, a carried lot keeps its unit cost, so what came in at a
  cost is at all times in a lot or in a consumption. With a fee the cost goes through a rounded quotient.
- `LedgerGainsAddUp`, `LedgerViewsAgree`: of `ProfitLoss` and its `PricedSpec`, where prices are entered at any
  time between requests. `LotsInv` does not speak of prices, so a price entry keeps it (`PricedStep`),
  and both follow from it. Each report is a sum over lots, legs or
  consumptions grouped its own way; the proofs regroup the sums (by account, asset, class, symbol, or
  day sold) until both sides are over the same lots.

In the first five, lemmas state once what a committed step does to the rows; one step
per request type then follows from them.

### Overlapping requests (`LedgerDBProofs`)

The invariants speak of one request at a time, of what it holds and of the committed rows
and batches, so that a step of one is a lemma about it and a commit a lemma about the others.

- `Basis`: what each session has deleted and not committed is still there
  (`Holds`), no two hold the same (`Apart`), the lots of its rows come from rows there are
  (`FreshFrom`), its scans stay within the assets of its legs. This is the lock
  discipline: a DELETE waits for who holds a batch, and skips it only when it is gone.
  `LedgerDBTypeOK` follows.
- `Kept` adds `Carried`: of an asset a request has rebuilt, every inflow whose lots it deletes
  has a lot in what it inserts. What it does not delete stays, so
  `LedgerDBNoLotLost` follows, whatever overlaps, where no transfer carries a fee (what a ratio
  rounds to nothing leaves no lot).
- `Together` and `Clean`: as long as nobody a request has overlapped commits (`Quiet`), its scans meet
  every batch of the asset (`Swept`) and what it has rebuilt is the projection (`Right`). A request that nobody
  overlaps is one such, which is `LedgerDBHealedAlone`; it needs no `FeeFree`
  and nothing about what was there before.
- `Safe`: as long as no request has met two others, no committed row leaves an account owing, and what a
  request has rebuilt is `Covered` on top of what is committed (`Sheltered`). The step that matters is
  the commit of a peer when both have rebuilt the same asset. If a row of it counts, something came in first
  (`NothingReceived`) and has lots (`Kept`); both have seen nobody commit, so both hold them (`Swept`),
  which `Apart` forbids (`OneRebuilds`). If none counts, each of the two can only have added to
  the asset (`AloneCredits`), so their rows together owe nothing (`TwoCredit`).
  `LedgerDBPairsNeverOverdraw` follows. A third request breaks the argument where
  `overdrawn` shows: a request that has seen a commit no longer meets every lot.

### Snapshots (`SnapshotsProofs`)

- `SnapshotsTypeOK` and `SnapshotsWaitsAscend`, from the invariant `TypeOK /\
  LockOrder`. `WaitsAscend` looks only at sessions that wait now and says
  nothing of those that will; `LockOrder` says of every session that what it has
  written lies before the day it builds and what it has to build lies after, the
  thread staying on one day. It rests on the order of the loop in `backfill`
  (`Upcoming`). Ranks that strictly ascend along every wait leave no circle.
- `SnapshotsRangeCovered`, from `TypeOK /\ Covering`: what is left of a
  range is always to be built, written or stored. The interesting case is the row
  that is not written because nothing differs: it was found, and stored
  keys never go away (`OverlayKeys`).
- `SnapshotsRebuildIsExact`, from `Undisturbed`: a session that is alone is the only one under
  way (`Solitary`), so what it has read of a day is true until it commits (`ReadTruly`), and the
  days behind it are stored as they should be, or will be once it commits (`StoredTruly`). One row a key
  (`OneRowEach`) is part of it, for sessions that are not alone too: an UPDATE replaces the row it found.

### User data (`UserDataProofs`)

- `TypeCorrect` and `KeysAreUnique`, from the invariant `IInv`: `Shapes` (types),
  `Progress` (what a request has found is still there and its own, and a row
  with its number exists only once it is done), `EntriesOfGoals`, `RowsOfKeys` and
  `Exclusive`. `OneRowPerKey` is not inductive: a request that has flushed could
  commit next to a row with its key. `Exclusive` rules that out, a flushed
  key is in no row and in no other flush, and it takes both halves of
  the unique index: that an INSERT waits for a key in flight, and that it then
  looks again.
- `OwnRowsOnly`, an action property from the same invariant: no step removes a row or
  changes its table, owner or key, and a change by id reaches rows of its user only,
  although what it may change was decided some steps before.
- `AuditTellsGoals`, from `IInv /\ AuditInv`: the columns a request is going to write are
  those in which the goal differs from what was asked for, unless an author of the goal has overlapped it
  (`Knowing`). So whoever commits next to nobody writes everything its entry says, and
  the last entry to name a column has its value (`Told`).
- `MonthsCountOnce`: every rate in the table is a number under a period (`RatesStored`, kept by every commit),
  and at most one a period by `OneRowPerKey`, so the rates of a user are a function. The loop of
  `inflation.py` is unfolded to the list of months numbered through from year to year
  (`MonthsInOrder`, `LoopListsMonths`), in which each recorded month occurs once (`EachMonthOnce`);
  what is compounded along the list is a product (`CompoundedIsProducts`). The months of the list
  are those of which the window holds a day (`MonthsMet`), none when it ends before it begins.

### Reports (`ReportsProofs`)

- `TypeCorrect`, `BalancesAgree`: what the events of a debt move, folded or split into principal and interest,
  is the balance (`DebtSums`), since a repayment is split without remainder (`Split`).
- `ReportsFailOnlyAtZeroRate`: conversion and valuation, taken apart into each of their paths (`RatesKnown`, `ConvertKnown`,
  `MarketKnown`), raise only by that division.
- `PastIsKept`, an action property: a step that changes the tables only after a moment, and not the
  order the database meets tied prices in, leaves all that is reported up to it.
- `ReportsIgnoreTheFuture`: the same independence in one state. `PastIsFixed` compares each report with that of a
  second instance whose tables are cut; lemma by lemma every operator, from a price over holdings and debts to a return, gives
  the same over both.
- `RebalancingReachesTargets`: needs that no holding is negative, hence the invariant `Covered(posted)` beside
  `IInv`, and that the values of the classes add up; the rest is arithmetic of weights.
- `PerformanceComposes`: the cuts of a window are those of its two halves (`IsWindow`), no flow
  is in both or in neither; where something is `Invested` at the last cut and at the end, the
  quotients telescope.
- `DepositsAreNoReturn`: of an asset that is alone and moved by external flows only, what a sub-period starts with is
  the units held times the price, so each quotient is one of two prices and their product along the cuts
  collapses to the last price over the first.
- `ContributionsAreKept`: with all classes at one factor the recursion over months (`ProjectionIsAnnuity`)
  commutes with the sum over classes, and the shares of a contribution add up to it (`SharesOutContribution`).
  The class of contributions to an empty portfolio must grow alike too, which the property says.

### Only model-checked

- `LotsReconcile`, `RefusalsAreExact`, `ImplementsBook`, `CostConserved`, `GainsAddUp`, `ViewsAgree`, `NoLotLost`
  and `PairsNeverOverdraw` where transfers carry a fee: what a ratio rounds away makes them
  false of arbitrary amounts. The runs have fees whose ratio is exact.
- `CurrenciesAgree` and `HurdlesAreUnits`: false of arbitrary prices, because each conversion is rounded to
  `Precision`; the runs have prices and rates that are powers of two.
- Liveness (`EveryRequestAnswered`, `EveryRebuildAnswered`, `SchedulerGoesOn`) is beyond the provers,
  which know no `ENABLED`.

## Plan

1. `Lots`, `Transactions`, `Ledger`, `Book`, `LedgerBook`, `LedgerDB`, `Snapshots`,
   with their proofs: done, above.
2. `Valuation`, `Liabilities`, `Reports`, `ReportsPast`, `ReportsProofs`: done, above.
3. `ProfitLoss`, with price entry over `Ledger`: done, above.
4. `Planning` and `Inflation`: done, above.
5. `UserData`, `UserDataProofs`: done, above. Left: an account closed under an
   overlapping transaction, which needs the account row in `LedgerDB`.
6. Proofs of all safety properties of the runs that hold of arbitrary amounts: done, above. Left: bounds on
   what rounding can lose, which would say of transfers with a fee and of conversions how far off the
   exact statements are.

## Not modelled

Routing, serialization, schema creation and migrations (pure I/O); token and
password libraries; log-in, which changes nothing; formatting, listing and pagination;
XIRR's root search, the progress of return goals that rests on it, and real
roots in compound growth (real arithmetic). What is left out of a component that
is otherwise modelled is said in its section above and in `PROJECT.json`.
