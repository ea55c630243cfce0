----------------------------- MODULE MarketReads -----------------------------
(***************************************************************************)
(* What an agent reads of a market that moves on: GET /v1/market/snapshot  *)
(* and GET /v1/market, each several SELECTs with no transaction around     *)
(* them, and a client that pages through GET /v1/inventory/history.  The   *)
(* market is MarketBook, which the handlers implement (TradeSafety).  One  *)
(* reader is enough: a reader changes nothing.  market.go                  *)
(***************************************************************************)
EXTENDS MarketBook, Sequences, SequencesExt, FiniteSetsExt

CONSTANTS
    Me,             \* the agent that reads
    SoldBefore,     \* goods Me has sold, the newest first
    Asks,           \* limits a client may ask for
    MaxLimit,       \* the largest limit served (100)
    DefaultLimit,   \* what is served for any other (50)
    MaxBatches      \* bound: the refreshes of a behaviour

ASSUME MeReads == Me \in Agents
ASSUME NoTradeIsNotATrade == NoTrade \notin Trades
ASSUME BatchesListItems ==
    \A b \in Batches \cup {FirstBatch} :
        DOMAIN b \subseteq Items /\ \A i \in DOMAIN b : b[i] \in Nat
ASSUME StockIsNamed ==
    /\ \A g \in Stock : g = [id |-> g.id, agent |-> g.agent, item |-> g.item, paid |-> g.paid,
                           sold |-> g.sold, got |-> g.got]
    /\ \A g, k \in Stock : g.id = k.id => g = k
ASSUME SoldBeforeAreSales ==
    /\ SoldBefore \in Seq({g.id : g \in {k \in Stock : k.agent = Me /\ k.sold # NoTrade}})
    /\ \A g \in Stock : g.agent = Me /\ g.sold # NoTrade =>
         \E i \in DOMAIN SoldBefore : SoldBefore[i] = g.id
    /\ \A i, j \in DOMAIN SoldBefore : SoldBefore[i] = SoldBefore[j] => i = j
ASSUME LimitsAreServed ==
    MaxLimit \in Nat /\ DefaultLimit \in 1..MaxLimit /\ Asks \subseteq Nat

VARIABLES
    at,         \* at[b]: when the transaction of batch b began
    events,     \* batches that brought an event
    overlapped, \* a refresh has overlapped another (nothing in the code reads it)
    order,      \* goods Me has sold, by sold_at, the newest first
    todo,       \* the statements the reader has still to run
    seen,       \* what it has read
    failed      \* statements that have failed

refreshVars == <<at, events, overlapped>>
readerVars  == <<todo, seen, failed>>
rvars       == <<bookVars, refreshVars, order, readerVars>>

-----------------------------------------------------------------------------
(* The market moves.  Rows carry the time their transaction began (now()), so *)
(* a row may be committed after another with a later time.                    *)

Refresh ==
    /\ batch < MaxBatches
    /\ \E prices \in Batches, b \in 0..batch, late, event \in BOOLEAN :
         LET time == IF late THEN 2 * batch - 1 ELSE 2 * batch + 2
         IN  /\ List(prices, {l \in listings : l.id[1] <= b})
             /\ late => batch > 0
             /\ at' = [c \in 0..(batch + 1) |-> IF c > batch THEN time ELSE at[c]]
             /\ events' = events \cup {c \in {batch + 1} : event}
             /\ overlapped' = (overlapped \/ late \/ b < batch)
    /\ UNCHANGED <<order, readerVars>>

Buy ==
    /\ \E t \in Trades, l \in listings : Purchase(t, Me, l)
    /\ UNCHANGED <<refreshVars, order, readerVars>>

NewSales == Cardinality({g \in goods : g.agent = Me /\ g.sold \in Trades})

Sell ==
    /\ \E t \in Trades, g \in goods : \E p \in Prices(g.item) :
         /\ g.agent = Me
         /\ Sale(t, g, p)
         /\ \E k \in 1..(NewSales + 1) : order' = InsertAt(order, k, g.id)
    /\ UNCHANGED <<refreshVars, readerVars>>

-----------------------------------------------------------------------------
(* The statements of the two handlers, in their order. *)

\* Mutated: the balance is read after the inventory.
GoodsFirst    == <<"goods", "balance", "volume", "prices", "listings", "event", "recent">>
\* Mutated: the listings are read before the price history.
PricesLast    == <<"balance", "goods", "volume", "listings", "prices", "event", "recent">>
SnapshotOrder == <<"balance", "goods", "volume", "prices", "listings", "event", "recent">>

\* Mutated: the event is read before the listings.
EventFirst  == <<"event", "listings">>
MarketOrder == <<"listings", "event">>

Runs(statement) == todo # <<>> /\ Head(todo) = statement

\* The statement's result is kept, and the next one is up.
Keep(change) ==
    /\ seen' = change
    /\ todo' = Tail(todo)
    /\ UNCHANGED <<bookVars, refreshVars, order, failed>>

\* trades: those of Me that the SUM(delta) counts.
ReadBalance == /\ Runs("balance")
               /\ Keep([seen EXCEPT !.trades = {t \in Trades : Made(t)}])

ReadGoods == /\ Runs("goods")
             /\ Keep([seen EXCEPT !.goods = {g \in goods : g.agent = Me /\ g.sold = NoTrade}])

\* The volume of an item counts its goods; counted: which.
ReadVolume == Runs("volume") /\ Keep([seen EXCEPT !.counted = {g.id : g \in goods}])

\* recent_prices[0] and [1] of an item, which change_pct takes for what it is listed
\* for and what it was listed for before: when that was, -1 if there is no such price.
Times(i) == {at[l.id[1]] : l \in {m \in listings : m.item = i}}
Newest(T) == Max({-1} \cup T)
Second(T) == Newest(T \ {Newest(T)})
ReadPrices == /\ Runs("prices")
              /\ Keep([seen EXCEPT !.prices = [i \in Items |->
                         [newest |-> Newest(Times(i)), before |-> Second(Times(i))]]])

ReadListings == /\ Runs("listings")
                /\ Keep([seen EXCEPT !.listings = {l \in listings : ~l.expired}])

\* ORDER BY created_at DESC LIMIT 1, and LIMIT 5.
ReadEvent == /\ Runs("event")
             /\ Keep([seen EXCEPT !.event = Max({-1} \cup {at[b] : b \in events})])
ReadRecent == Runs("recent") /\ Keep([seen EXCEPT !.recent = {at[b] : b \in events}])

\* The snapshot ignores every error; only handleMarket answers an error of its
\* first statement.
ReadFails ==
    /\ todo \notin {<<>>, <<"page">>}
    /\ failed' = failed \cup {Head(todo)}
    /\ todo' = IF todo = MarketOrder THEN <<>> ELSE Tail(todo)
    /\ UNCHANGED <<bookVars, refreshVars, order, seen>>

-----------------------------------------------------------------------------
(* A client reads its sales page by page: its next offset is the last one and *)
(* the limit of the answer; a page shorter than that is the last.             *)

Served(limit) == IF limit <= 0 \/ limit > MaxLimit THEN DefaultLimit ELSE limit

\* Mutated: the limit asked for is answered, whatever has been served.
AskedLimit(limit) == limit
AnsweredLimit(limit) == Served(limit)

Page(offset, limit) ==
    {order[i] : i \in {j \in DOMAIN order : offset < j /\ j <= offset + limit}}

ReadPage ==
    /\ Runs("page")
    /\ LET page == Page(seen.offset, Served(seen.asked))
       IN  /\ seen' = [seen EXCEPT !.rows = @ \cup page,
                                   !.offset = @ + AnsweredLimit(seen.asked)]
           /\ todo' = IF Cardinality(page) < AnsweredLimit(seen.asked) THEN <<>> ELSE todo
    /\ UNCHANGED <<bookVars, refreshVars, order, failed>>

-----------------------------------------------------------------------------

NothingSeen == [begun |-> FALSE, trades |-> {}, goods |-> {}, counted |-> {},
                prices |-> [i \in Items |-> [newest |-> -1, before |-> -1]],
                listings |-> {}, event |-> -1, recent |-> {},
                asked |-> 0, offset |-> 0, rows |-> {}, sold |-> {}]

\* sold: what there was to read when the client began (nothing in the code reads it).
Begin ==
    /\ ~seen.begun
    /\ \/ /\ todo' \in {SnapshotOrder, MarketOrder}
          /\ seen' = [seen EXCEPT !.begun = TRUE]
       \/ /\ todo' = <<"page">>
          /\ \E limit \in Asks :
               seen' = [seen EXCEPT !.begun = TRUE, !.asked = limit,
                                    !.sold = {order[i] : i \in DOMAIN order}]
    /\ UNCHANGED <<bookVars, refreshVars, order, failed>>

Read == \/ ReadBalance \/ ReadGoods \/ ReadVolume \/ ReadPrices \/ ReadListings
        \/ ReadEvent \/ ReadRecent \/ ReadPage \/ ReadFails

ReadsInit ==
    /\ MarketInit
    /\ at = [b \in {0} |-> 0]
    /\ events = {}
    /\ overlapped = FALSE
    /\ order = SoldBefore
    /\ todo = <<>>
    /\ seen = NothingSeen
    /\ failed = {}

ReadsNext == Refresh \/ Buy \/ Sell \/ Begin \/ Read

ReadsSpec == ReadsInit /\ [][ReadsNext]_rvars
=============================================================================
