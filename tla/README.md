# Wonka in TLA+

Wonka is a candy ledger with a market: agents earn, pay, buy and sell candy over HTTP, and the
server keeps everything in PostgreSQL. This directory models the parts of it that move candy, set
prices, decide who may do what, or answer from several queries. TLC checks them on small instances;
TLAPS proves, for every value of the constants, every safety property the passing runs check, of
the components and of ledger and market together, the two refinements among them. Liveness is only
model-checked.

File and line references are to the repository (`handlers.go`, `market.go`, `admin.go`,
`refresh.go`, `auth.go`, `main.go`, `migrations/`, `skills/wonka-ledger/SKILL.md`).

## 1. Inventory

| Component | State | Operations | Hard part | What makes it correct |
|---|---|---|---|---|
| Adjusts (`handlers.go:162`, `admin.go:159`) | `candy_ledger` | agent's adjust, administrator's adjust | two calls with one key; a transfer of the same agent in progress | a key takes effect once; the answer tells what happened |
| Transfers (`handlers.go:318`) | `transfers`, `candy_ledger`, row locks on `agents` | transfer | eight statements, two locks, a failure at each; retries | no overdraft, both rows or none, no deadlock |
| Market trades (`market.go:75`, `:185`) | `inventories`, `candy_ledger` | buy, sell | key and price are read before the lock; prices change meanwhile | a good is sold once and paid for; no overdraft; no expired price |
| Ledger and market together | all of the above | all of the above | the same agent and key from several handlers | a key is spent once over all handlers; deadlocks only where PostgreSQL must break them |
| Market refresh (`refresh.go:56`, `:190`) | `market_listings`, `market_price_history` | daily and hourly refresh | an AI call between read and write; overlapping refreshes; reads whose errors are dropped | no partial market; one price per item; small moves |
| Anchor update (`refresh.go:388`) | `market_items.anchor_price` | goroutine after a daily refresh | read and write in separate statements, errors ignored | anchors stay within the prices there have been, as far as they are read |
| Price arithmetic (`refresh.go`) | none | five formulas | rounding, clamps, floors | prices are at least 1 |
| Enabling agents (`admin.go:55`, `auth.go:76`) | `agents.enabled` | enable, disable, authenticate | a call already past the check | part of every ledger run |
| Schedulers (`main.go:226-306`) | two goroutines and a clock | start a daily or an hourly refresh | a clock window instead of waiting; late sleeps, restarts; a panic ends the loop | refreshes stay apart; one is started per mark, one every hour |
| Settings (`main.go:118-136`, `admin.go:211-256`, `refresh.go:434`) | one row of `settings` | seed at start-up, store, read | a start that fails half-way; a store without a row; environment as a fallback | what an administrator stored is kept, if there was a row to store it in |
| Agents and users (`handlers.go:18-135`, `:459`, `:673`, `admin.go:120`, `auth.go`) | `users`, `agents`, tokens | register, log in, create an agent, regenerate a key, delete a user | several statements without a transaction; tokens that outlive users; row locks shared with transfers | owners exist; keys go to whom they belong; deadlocks only with a deletion |
| Reads (`market.go:15`, `:300-445`, `:548`) | none | market, snapshot, paging through sales | several SELECTs, or several requests, while trades and refreshes commit | the parts of an answer agree as far as their order allows |
| AI client (`refresh.go:449-697`) | none | one HTTP request | slow, may fail, may panic | seen through its result |
| Other reads, migrations, middleware | - | - | single statements, or library code | not modelled |

The components meet in the database only. The handlers share no memory: each HTTP request runs in
a goroutine of its own, and what orders two of them is a row lock on `agents`, an entry of a unique
index, or nothing. The refreshes are started by two scheduler goroutines and by three HTTP routes.

`PROJECT.json` lists every hazard at its line, with the property that would catch it.

## 2. Modules

```
LedgerDB ------+--> CandyLedger --> CandySafety --> CandyLedgerProofs --> CandyBooksProofs
 tables, locks,|                      |  |--> CandyBook (abstract, INSTANCE)
 keys, pool,   |                      v  v
 life of a call|                    Wonka <--+
               +--> MarketTrade --> TradeSafety --> TradeProofs
                                      |--> MarketBook (abstract, INSTANCE)
Wonka, CandyBooksProofs ----------> WonkaProofs
                     MarketReads --> ReadsSafety --> ReadsProofs  (MarketReads EXTENDS MarketBook)
Pricing -----------> MarketRefresh --> RefreshSafety --> RefreshProofs
                     RefreshScheduler --> ScheduleSafety --> ScheduleProofs
                     AgentAccess --> AccessSafety --> AccessProofs
```

The MC modules (`MCCandy`, `MCTrade`, `MCWonka`, `MCRefresh`, `MCSchedule`, `MCAccess`, `MCReads`)
give the constants values. Each module that ends in `Proofs` has theorems of the specification it
EXTENDS (section 5).

**LedgerDB** is what every money-moving handler stands on. State: the committed rows of
`candy_ledger`, the balance of every agent, `agents.enabled`, the owner of every FOR UPDATE lock,
and for each call its request, its next statement (`pc`), the rows it has written but not
committed (`pend`) and its answer. One step is one SQL statement.

* *READ COMMITTED.* A statement sees committed rows only; `pend` is invisible to other calls,
  except that an INSERT waits for an open transaction that has the same unique key (`Writing`).
* *Locks.* `SELECT ... FOR UPDATE` on a row of `agents` conflicts with itself, with the UPDATE of
  `handleAdminPatchAgent`, and with the FOR KEY SHARE lock that the foreign key
  `candy_ledger.agent_id` takes: an adjust of an agent waits while a transfer has the agent's row.
  PostgreSQL enters the row into the unique index before it checks the foreign key, so an adjust
  is two steps, `AdjustInsert` and `AdjustCommit`. A buy or a transfer that posts to an agent it has
  locked itself waits for nothing.
* *Balance.* The code stores none, it computes `SUM(delta)` each time. `balance` stands for that sum
  of the committed rows, so that a step need not add them up; that it may is a lemma of
  CandyBooksProofs (`BalanceStandsForSum`), not a property of the code.
* *Calls.* A call is one HTTP request. It arrives once; a client's retry is another call with the
  same request, so retries and duplicates are calls of one run, at the same time or later.
* *Failures.* `Abort` (and `TradeAbort`) may end a call at any statement: a cancelled request, a
  broken connection, a stopped server. The deferred rollback frees rows and locks, and the call gets
  the answer the handler gives for an error at that statement. A server crash is every open call's
  abort. A commit may also take effect and be reported as an error.
* *Pool.* A call needs a connection from its first waiting statement to its answer; there are
  `PoolSize` of them.

**CandyLedger** adds table `transfers` and the handlers of adjust, administrator's adjust, enable,
disable and transfer: `TransferResolve`, the two locks in id order, `TransferCheck`,
`TransferInsert`, `TransferDebit`, `TransferCredit`, `TransferCommit`. **CandySafety** states what
must be true of it.

**CandyBook** is the abstract promise: funds per agent, a posting per agent and key, a payment per
key that never goes below zero, and an administrator's issues. `BookRefined` maps balances, client
keys and transfer keys to it: each commit is one step of the book, everything else is none.

**MarketTrade** has the handlers of buy and sell statement by statement: the EXISTS check and the
listing outside the transaction, then the lock, the balance check, the ledger row, the good and the
commit; for a sell the good, its price (newest active listing, else newest past price, else 1), the
credit and the mark. `Relist` is a refresh as trades see it: one atomic change of all prices, which
may leave rows of an overlapping refresh active and may have the older `refreshed_at`. **TradeSafety**
states its properties. `arrived` is a history variable used only by `NoStalePrice`.

**MarketBook** is the abstract promise of the market: a refresh replaces what is listed, a purchase
takes its price from funds that cover it and adds a good, a sale pays for one good that has not been
sold; each in one step, and each trade once. `TradesAreBooked` maps balances, listings and goods of
the concurrent handlers to it.

**Wonka** composes the two over one database and adds what neither has alone: two transactions
that wait for each other, and PostgreSQL failing one of them.

**Pricing** holds the formulas of `refresh.go` as sets of possible results. A float64 expression is
the exact quotient it computes; a rounding tie may go either way, since the float's error decides
it; a factor chosen by the AI or at random is any factor of its clamped range.

**MarketRefresh** has the daily and hourly refreshes and the anchor goroutine: read items, read
current prices, compute, expire (which waits for the transaction that has updated the same rows and
then skips what that one expired), insert, commit; then mean, anchor and update per item.
Errors do there what they do in the code. `rows.Err()` is never read, so a result may be cut off: a
refresh takes the `items` it has read for all (the others are off the market until the next one). The
error of the query for the current prices (`refresh.go:213`) is dropped: `read[j][i].cur` is then 0, for
some items or all, and `CurrentPrice` takes the anchor. The error of the volumes (`:238`) makes
trades look like none. A statement of the transaction that fails makes the commit fail (`FailJob`). In
the goroutine, an error of the mean skips the item, one of the anchor's SELECT (`:412`) leaves the anchor
read at 0, and one of the UPDATE is ignored (`WriteFails`).
Nothing in the code prevents two refreshes from running at once; `overlapped` remembers that two
have, and `blind` which anchors were written without being read. **RefreshSafety** states the
properties.

**RefreshScheduler** has the two scheduler goroutines minute by minute over whole days: what each
computes from the clock, the sleep, the two looks at the daily window, the refresh that ends well,
fails or panics, and the server's crash and restart at any minute. Only the length of a refresh
matters here; what it does is MarketRefresh. The rows of `settings` are in it because a base URL that
does not parse is what panics: none if a start could not seed one, two if it could not count them.
`PutSettings` updates all there are, none included, and answers ok. `due`, `since`, `shelf`, `put`
and `stored` are history variables: nothing in the code reads them. **ScheduleSafety** states the properties.

**AgentAccess** has users, agents, owners, keys and tokens. A handler there is a few statements
with no transaction around them, so each statement is a step of its own; an UPDATE or DELETE of
several rows is one step per row it locks. `POST /agents/create` is two steps like an adjust: its
name enters the unique index, then the foreign key waits for a deletion of the owner. Transfers
appear with their two locks only. `may` is a history variable. **AccessSafety** states the
properties.

**MarketReads** has one reader: the two statements of `handleMarket`, the seven of
`handleMarketSnapshot`, or a client's pages of `handleInventoryHistory`, with MarketBook moving
between any two. Rows carry the time their transaction began, so a refresh may commit after one with
a later time (`late`), and a sale may be committed behind one already read. **ReadsSafety** states what
the answer's parts may be relied on for together, of the statements that have succeeded: the code drops
the error of every statement of the snapshot and answers 200 with a balance of 0 or an empty part
(`ReadFails`), which no property excludes. A result cut off by an error in its middle counts as failed.

## 3. What the runs check

| Run | Shows |
|---|---|
| `candy_safety` | Three concurrent calls out of adjusts, transfers that form a ring, administrator calls and refused requests. Types; `DoubleEntry` (two rows per transfer or none); `OneRowPerKey`; `AnswersAreTrue`; `Isolation` (the inductive strengthening); `NoWaitCycle` (no deadlock); `TransfersNeverOverdraw`; `BookRefined`. |
| `trade_safety` | Two concurrent trades and two re-listings. `TradesAreBooked` (the handlers implement MarketBook: nobody overdraws, a good is sold once), `GoodsAreBooked` (a good is bought or sold exactly when its payment is in the ledger, at the same price), `NoStalePrice` (the price was on sale at some moment of the call; only a sale of an item that no listing keeps on sale from the call's arrival to its commit may be at a past price, or 1). |
| `wonka_safety` | Three calls of all kinds on the same agents and keys. `SpendersNeverOverdraw`, `KeyIsSpentOnce`, and `DeadlocksShareAKey`: the only calls that can wait for each other are an adjust and a trade of one agent with one key. |
| `wonka_live` | `AllCallsAnswered`: with two connections for three calls every call is answered. |
| `refresh_overlap` | Two refreshes of two items, overlapping or one after the other, with failures, dropped errors and results cut off. `NeverPartial` (the rows of a refresh are listed together or not at all, and something always is), `HistoryIsListings`, prices and anchors of at least 1. `AnchorWithinPrices`: anchors stay within the prices there have been; one written without being read is at least about a tenth of one. Until two have overlapped: `OneListingPerItem` (what the last refresh has read has one price, nothing else has any) and `HourlyMoveIsSmall` (each price moves by a fifth at most or, without trades, all by a fiftieth of the way to their anchors; the anchor stands in for a price that was not read). |
| `refresh_live` | `EveryRefreshEnds` for three refreshes that wait for each other's rows. |
| `schedule_safety` | Both schedulers, started at any minute of the day and restarted. `RefreshesStayApart`; `OneRunPerMark`: for each 08:00 and 20:00 that finds the server up one daily refresh is started, in time, and no second one, over failures and restarts. One that fails is not made up for, so such a mark brings no event; nor does one whose AI call fails, which lists prices without an event. `EveryHourHasARefresh` counts starts, too; `ListingsAreCurrent` (no listing outlives its `expires_at` unless a refresh has failed); `SettingsAreKept` (what a PUT has found a row for is kept; a PUT that found none has stored nothing). |
| `access_safety` | Three concurrent calls out of registrations, creations, regenerations, deletions and transfers. `OwnersExist`, `KeysGoToOwners`, `AdminsGoByCrossing` (the last administrators go only by deleting each other at once), `DeadlocksNeedADeletion`. |
| `reads_safety` | One reader, two trades, two refreshes. `SnapshotMissesNoGood` (balance before inventory: no good is lost from view, none shown that the balance was paid for), `EventIsNotOlder`, `ChangeIsFromEarlier` (a change is from an earlier refresh, and only the newest price read and later refreshes may be passed over), `PagingMissesNothing`. |

Three runs show a statement of the documentation that the code does not keep:

| Run | Statement | Code |
|---|---|---|
| `candy_dup_unpaid` | a repeated key gets `duplicate` (SKILL.md:251) | `handlers.go:383`: any error of the INSERT gets `duplicate`, so a transfer never made is reported as made |
| `refresh_twice` | 12 current listings (SKILL.md:94) | `refresh.go:90`: two overlapping refreshes leave every item listed twice |
| `schedule_stops` | refreshed every day at 08:00 and 20:00 (SKILL.md:189) | `refresh.go:465` with `main.go:228-232`: a base URL that does not parse panics, and the scheduler is dead until the server restarts, though the URL has been repaired |

Differences between documentation and code that have no run of their own. The models have the
behaviour, and the property named states what does hold, the exception included:

* `change_pct` is "vs previous refresh" (SKILL.md:132), but the snapshot reads the recent prices before
  the listings (`market.go:623`, `:640`): a refresh that ends between the two SELECTs makes it compare
  across two refreshes. `ChangeIsFromEarlier` says that only such refreshes are passed over.
* An anchor is nudged "10% toward 7-day avg" (`refresh.go:414`), but the error of its SELECT (`:412`) is
  dropped: it counts as 0, and a tenth of the mean is written over it. `AnchorWithinPrices` says how low
  it gets then (`blind`).
* An hour without trades is a "gentle decay" of 2% (`refresh.go:282`), but the error of the query for the
  current prices (`:213`) is dropped and the anchors are listed in their place (`:259-262`): a listing of
  40 with an anchor of 20 goes to 20. `HourlyMoveIsSmall` counts the move from the anchor then.
* A start is to "ensure settings row exists (only if table is empty)" (`main.go:118`). One that cannot
  seed a row only logs it (`:133`), and the administrator's PUT then updates nothing and is answered ok
  (`admin.go:239-255`); one that cannot count the rows (`:120`) takes the table for empty and adds a second
  one, and `getAIConfig` reads any of the two. `SettingsAreKept` says what is in the table in each case.
* The retry of a transfer that was made gets `insufficient balance`, not `duplicate` (SKILL.md:251), once
  the payer has spent the rest: the balance is checked before the key (`handlers.go:373`). It moves nothing.
* The second of two concurrent trades with one key gets 500 `ledger error`, not `duplicate`
  (`market.go:148`).
* 2% of a gap under 25 rounds to no move, so a price near its anchor never decays toward it
  (`refresh.go:294`; the comment at `:282`).
* A list of items that is cut off (`refresh.go:66-71`, `200-205`) takes every listing off the market and
  lists only the items that were read, while SKILL.md:94 shows 12. `NeverPartial` says what is listed then.
* The statements of the snapshot drop their errors: an answer of 200 may have a balance of 0 or empty
  parts that were not read (`market.go:552-712`).
* Every error of a registration or a creation is answered as a conflict (`handlers.go:44`, `:485`), and
  a regeneration for an agent that does not exist is answered with a key (`handlers.go:698`).
* A good bought between the snapshot's balance and its inventory is shown, though the balance has not
  paid for it; an event may be newer than the listings it is shown with. Only the other direction is
  excluded.
* The range -1000..1000 of an adjust (SKILL.md:44) is not enforced; `limit` and `offset` of the candy
  and transfer histories (SKILL.md:51-52, 80-82) are not read.

### Bounds

* *Calls.* Three at once (two in `trade_safety`). Each call arrives once, so a behaviour has at
  most three requests. Every hazard listed is between two calls, or two calls and a third that holds
  a lock or a connection; the theorems of section 5 have no such bound.
* *Agents.* Three in `candy_safety`, the least that can pay in a ring; two elsewhere, the least that
  can pay each other.
* *Requests.* Small sets in the MC modules, chosen so that keys collide, a payer can afford one of two
  payments, or can afford one only after being paid.
* *`MaxBatches`*: re-listings of a behaviour. Two in `trade_safety` and `reads_safety`, so that one
  may overlap the other; one in `wonka_safety`; none in `wonka_live`, where prices play no part.
* *Jobs.* Two refreshes, three in `refresh_live` (one holds the rows, two wait).
* *Prices.* In `refresh_overlap` one item at 1, where the floor bites, and one at 9, the least from which
  an anchor moves by a tenth and a price by 3% of it after rounding; at 20 the run has tens of millions of
  states. The seeded anchors are 6 to 25, and `refresh_twice` has one at 20. The theorems have any.
* *Time.* `MaxRun` = 20 minutes for a refresh (an AI call of at most 30 seconds and some dozen
  statements) and `MaxLate` = 9 for a sleep that ends late. `RefreshesAreShort` asks that a late sleep and
  the refresh after it fit in an hour and that lateness stays below the window's 10 minutes; without it
  the clock does not keep the refreshes apart. `schedule_stops` uses 2 and 1, which is
  enough for its violation.
  `since` is counted up to `MaxSince`, one minute past what `EveryHourHasARefresh` allows. A refresh
  started over HTTP is outside this module: MarketRefresh has it.
* *Users.* Two administrators, who can delete each other, and one owner of two agents, who can pay each
  other; one name and two addresses, so that they collide.
* *Reads.* One reader (a reader changes nothing) with one good and three sold ones, `MaxLimit` 2 and
  `DefaultLimit` 1 in place of 100 and 50, limits 0 to 3: below, within and above what is served.
  Deadlock is not checked in `reads_safety`: a reader that has read everything, on a market that has
  used up its trades and refreshes, has nothing left to do.
* Symmetry is used in safety runs only, on calls or jobs no request names.

### Fairness

`WonkaSpec` has weak fairness on the handler steps of each call and on the deadlock detector, and
`Spec` of MarketRefresh on the statements of each refresh and goroutine: Go runs every runnable
goroutine, and PostgreSQL wakes who waits when the lock is free. Arrivals, failures and
re-listings have no fairness: clients need not call and nothing need fail. Locks are held by finitely
many calls that each answer once, so weak fairness is enough; with an unbounded stream of calls a
waiter relies on PostgreSQL's lock queue being first come, first served, which is not modelled.
The server's own crash appears only as aborts of calls, so a run in which it stops for good is not
a counterexample to liveness and not a witness of it either.

## 4. What is abstracted

Names, reasons, formatting and logging are left out, as are passwords, signatures of tokens and the
bytes of keys: an agent's key is named by the call that made it. The clock is Asia/Taipei, which has
no summer time; a server without that time zone logs it and runs no scheduler
(`main.go:234-238`), which is not modelled. Candy runs start with their agents and never delete one,
as no route does. Amounts are small integers; PostgreSQL's
INTEGER overflow of a sum is out of range of anything the routes accept one call at a time and is not
modelled. A key made by the server (`out:<id>`, `in:<id>`, `admin-...`) never equals a client's:
a client that sends such a string is outside the model. The balance a handler reads for its answer
after committing changes nothing and is left out. The lookup of the agent in `handleAdminAdjust`
is part of its start: agents are never deleted.

## 5. What is proved

TLAPS checks these theorems for every value of the constants that the modules' ASSUMEs admit: any
sets of agents, keys, items, calls, jobs and requests, any balances, prices and batches, any pool.

| Module | Theorem | Property | Statement |
|---|---|---|---|
| CandyLedgerProofs | `TypeCorrect` | `TypeOK` | types |
| | `TransactionsAreIsolated` | `Isolation` | a transfer keeps its locks, its rows and the balance it checked |
| | `NoOverdraft` | `TransfersNeverOverdraw` | no transfer leaves its payer below zero |
| CandyBooksProofs | `KeysTakeEffectOnce` | `OneRowPerKey` | a key has one row at most, a transfer key one transfer |
| | `AnswersTellTheTruth` | `AnswersAreTrue` | an answer is what the call has committed |
| | `TransfersAreDoubleEntry` | `DoubleEntry` | both rows or none |
| | `NobodyWaitsInACircle` | `NoWaitCycle` | no deadlock among any number of ledger calls |
| | `HandlersImplementBook` | `BookRefined` | the handlers implement CandyBook |
| TradeProofs | `TradeTypes` | `TradeTypeOK` | types; prices of at least 1 |
| | `GoodsAreInTheBooks` | `GoodsAreBooked` | goods and payments match |
| | `PricesAreFresh` | `NoStalePrice` | a price was on sale during the call, with the exception of section 3 |
| | `HandlersImplementMarket` | `TradesAreBooked` | the handlers implement MarketBook |
| RefreshProofs | `RefreshTypes` | `RefreshTypeOK` | types; prices and anchors of at least 1 |
| | `NobodySeesAPart` | `NeverPartial` | a refresh is seen whole |
| | `HistoryHasThePrices` | `HistoryIsListings` | the history has each listing's price |
| | `AnchorsStayWithin` | `AnchorWithinPrices` | anchors stay within the prices there have been, a tenth of them if written unread |
| | `OnePriceAtATime` | `OneListingPerItem` | one price per item of the last refresh, until two have overlapped |
| | `HourlyMovesAreSmall` | `HourlyMoveIsSmall` | an hourly refresh that runs alone moves the prices it has read little |
| ScheduleProofs | `ScheduleTypes` | `ScheduleTypeOK` | types |
| | `NeverBothRefresh` | `RefreshesStayApart` | the daily and the hourly refresh never run at once |
| | `EachMarkOnce` | `OneRunPerMark` | one daily refresh is started per mark, in time |
| | `NoHourWithout` | `EveryHourHasARefresh` | no hour without the start of a refresh |
| | `ListingsOutlastTheHour` | `ListingsAreCurrent` | no listing outlives its `expires_at` |
| | `SettingsLast` | `SettingsAreKept` | what a PUT found a row for is kept, what it found none for is not stored |
| AccessProofs | `AccessTypes` | `AccessTypeOK` | types |
| | `OwnersAreUsers` | `OwnersExist` | an owner is a user |
| | `OwnersGetKeys` | `KeysGoToOwners` | a key was made by a call entitled to it |
| | `LastAdminGoesByCrossing` | `AdminsGoByCrossing` | the last administrator is deleted by a deleted one |
| | `DeadlocksHaveADeletion` | `DeadlocksNeedADeletion` | no deadlock without a deletion |
| ReadsProofs | `SnapshotsAgree` | `SnapshotMissesNoGood` | balance and inventory of a snapshot agree |
| | `EventsAreFresh` | `EventIsNotOlder` | an event is no older than its listings |
| | `ChangesLookBack` | `ChangeIsFromEarlier` | a change compares with an earlier refresh and passes over none before the newest price read |
| | `PagesShowAll` | `PagingMissesNothing` | paging misses no sale |
| WonkaProofs | `KeysAreSpentOnce` | `KeyIsSpentOnce` | a key is spent once over adjusts, buys and sells |
| | `NobodyOverdraws` | `SpendersNeverOverdraw` | no transfer or buy overdraws, with all handlers at once |
| | `DeadlocksAreForAKey` | `DeadlocksShareAKey` | only an adjust and a trade with one key can deadlock |

Each module proves one inductive invariant, stated at its beginning as a conjunction of named parts
(`Inv` and `Books`, `Deals`, `Refresh`, `Clock`, `Access`, `Reading`, `Shared`): the initial states
have it, and each action keeps it, with one lemma or step per action. The properties follow from it.

### The arguments

*Transfers (`Inv`).* `TransfersNeverOverdraw` speaks of one step, the commit, but is about everything
that happened since the balance check. It follows from `FundsHeld`: from the check to the commit the
payer's balance covers the amount. `FundsHeld` is not inductive alone: some other call's commit could
take the money. It cannot because every commit posts to an agent only under the agent's lock or while
nobody has it (`PostsUnderLock`), and the transfer has the lock (`LocksHeld`); what a commit posts is
what the call has written (`RowsPending`); and who may be at which statement with which request is
`Routed`. `Isolation` is the conjunction of these, and TLC checks it in `candy_safety`. There is one lemma
for each way a step changes the database (`ReceiveInv`, `GotoInv`, `AnswerInv`, `RollbackInv`, `LockInv`,
`WriteInv`, `CommitInv`, `PatchInv`), and `NextInv` names the lemma of each action.

*Books (`Books`, on top of `Inv`).* Every committed row is a seed or belongs to a call that has ended
(`RowsHaveCalls`), every transfer has its two rows, and a call that has a key in the unique index
excludes every other, committed or not. Keys, answers and double entry follow. *Deadlocks:* in a circle
somebody waits for a row, and every row waited for is held by a call at its second lock. Among the
calls of the circle that are there, finitely many since finitely many have arrived, take the one
whose first row has the greatest id. It waits for a row with a greater id, which another of them has as
its first. *Refinement:* each action is one step of CandyBook or
leaves its variables as they are. *Sum:* that `balance` may stand for `SUM(delta)` is about the
abstraction, not the code: the fold of the community modules is proved to be a sum (adding one row
adds its delta), by well-founded recursion and the least counterexample, since the induction rules
that take an operator cannot be used.

*Trades (`Deals`).* `Quoted` is what a trade has read and may rely on until its commit: a price that was on
sale after the call arrived, or an item that was not, a balance that covers the price, a good that is
the seller's and unsold. It holds because the call has the agent's row (`Routed`), because a listing
only ever expires (`ListingsLast`), and because a good is named by the call that bought it and changes
only when it is sold (`GoodsLast`). `PastPrices` says that the newest past price is one the item was
listed at. `GoodsAreBooked` is a conjunct: with it, a commit that is reported as an error is a step of
the book all the same.

*Refresh (`Refresh`).* `Named`: what is listed belongs to a refresh that has committed. `Marked`: what
an UPDATE has found is whole, and may only have been expired by the refresh it waited for. Anchors are
bounded by the prices because a mean of prices is, and an update between the old anchor and a mean
stays between them, even if the anchor has moved since it was read: the one read was within, too
(`MeansWithin`). One that was not read counts as 0, so a tenth of the mean is written, which is not
under a tenth of the least price; from then on the item is `blind` and has the weaker bound. `Moved`
keeps, from the pricing to the commit, that the new prices are near those the refresh took for the
current ones; `Alone` that these are the listed ones or, unread, 0.

*Schedulers (`Clock`).* The invariant ties what a scheduler has left to sleep or to run to the minute
of the day (`DailyClock`, `HourlyClock`, `InTime`): the daily refresh runs within the hours 8 and 20, the
hourly outside them. `DueIsAwaited` ties a mark to the sleep that ends at it, `Together` the two goroutines
to one server. `SettingsLast` has an invariant of its own, the property: a start only adds the
environment's row, and a PUT makes every row its own or finds none.

*Access (`Access`).* A row is locked only by a transfer or a statement of a deletion (`RowsHaveHolders`),
a creation between its two steps has its name in the index, and whoever has once been an administrator
is a seeded one. The last administrator cannot be deleted by one that is still there, since nobody
deletes themselves. A circle without a deletion would be one of transfers, which the order of ids excludes.

*Reads (`Reading`).* `Left` lists what a reader may have left to read; for each part of the answer the
invariant compares what was read with the market as it is now (`GoodsRead`, `ListingsRead`, `PagesRead`).
The two newest times of an item have none between them, and no later refresh puts one there
(`PricesRead`), as long as refreshes do not overlap; so a listing is passed over only if its time is the
newest read, or later.
A page is served from the newest sale down; sales meanwhile move the older ones to later pages, so a
client meets a sale twice but never passes one.

*Ledger and market together (`Shared`).* Neither `Inv` nor `Deals` holds here as it stands: a client's
key may belong to a row of either part, and an agent's row may be locked by either. `Shared` says for a
call of any kind which agents' rows it has (`Has`, exactly those it has locked) and which ledger rows
it has written (`Wrote`); every action is a change of these two. A spender stays `Covered` because every
commit posts to an agent whose row it has, or, an adjust past its key, whose row nobody has. A
client's key has one row, committed or not, over all calls (`OneRow`), so a call that writes it has found
it free in the index, whichever handler had it before. *Deadlocks:* suppose a circle without an adjust and
a trade that wait for each other. Then nobody in it waits as a trade for a key: the one who has the key would
be an adjust that waits for the row the trade has. So every row waited for is held by a transfer at its
second lock, and the one of those that holds the greatest id waits for a greater one.

### The assumptions

Ids are integers, seeds are integers, requests are typed and name agents, names of calls, jobs, users
and agents do not collide with each other or with the constants for none, prices are at least 1, and
the goods there are at the beginning are named, unsold in MarketTrade, and in MarketReads in the order
they were sold. These hold of any PostgreSQL database the server can have been started
on. TLC evaluates them in the runs.

Two theorems depend on time, which nothing in the code bounds. `RefreshesAreShort` (`MaxLate < 10`,
`MaxLate + MaxRun < 60`) is assumed of every scheduler theorem. `ListingsOutlastTheHour` needs
`MaxLate + MaxRun < 30` besides, as a hypothesis of its own: a refresh that ends as its
hour begins lists until half past the next hour, and the next one has to end before that. The bounds of
`schedule_safety` (20 and 9) satisfy both.

### What the proofs corrected

* `HourlyMoveIsSmall` said that each price moves by a fifth at most. The decay of 2% toward the anchor
  exceeds that when the anchor is more than eleven times the price (`refresh.go:294`), which the prices of
  the run never reached.
* `NoStalePrice` made an exception for sales that four overlapping batches, more than the run has, could
  break; it now speaks of the listings that were there from the call's arrival to its commit.
* In MarketBook an item that was not listed at the beginning may be bought back at 1 for good: a sale
  that has found no price (`market.go:254`) may commit after the item's first listing.
* The assumptions that goods are named by their rows, that the stock is unsold, and that names of
  users and agents differ were implicit in the instances.

### Only model-checked

* Liveness, `AllCallsAnswered` and `EveryRefreshEnds`: beyond the prover, as ENABLED is.
* The three runs that show a violation.

## 6. Not modelled

* The other reads (balance, histories, leaderboard, summary, lists, profile, price history): one
  SELECT each, of committed data, and nothing changes. Their balance is the same sum,
  except that the view `agent_balances` leaves out disabled agents.
* Model and API key of the settings: they travel in the statements of the base URL, which is
  modelled. (The GET hides the key, so storing the form again without it blanks it.)
* The AI's prompt, HTTP and JSON: MarketRefresh takes any factor of the clamped range, or an error.
* Echo's middleware: a request it refuses reaches no handler. Applying migrations is the library's
  work. `migrate_sqlite_to_pg.sh` runs once, with the server down.

## 7. Plan

1. MarketRefresh shown to implement `Relist`, so that `NoStalePrice` rests on the refresh itself; its
   proof belongs in RefreshProofs, next to `Named` and `Marked`.
2. The refinements `BookRefined` and `TradesAreBooked` stated for the composition, on top of `Shared`.
