---------------------------- MODULE MarketTrade ----------------------------
(***************************************************************************)
(* Buying and selling: POST /v1/market/buy and POST /v1/market/sell, run   *)
(* by concurrent calls while the market is re-listed under them.  market.go *)
(***************************************************************************)
EXTENDS LedgerDB

CONSTANTS
    Items,          \* the ids of the rows of market_items
    Batches,        \* what a refresh may list: functions from items to prices
    FirstBatch,     \* what is listed when the server starts
    Stock,          \* unsold rows of inventories when the server starts
    MaxBatches      \* bound: the refreshes of a behaviour

Price == Nat \ {0}      \* every listing is at least 1 (refresh.go:117)

ASSUME BatchesArePrices ==
    \A b \in Batches \cup {FirstBatch} :
        DOMAIN b \subseteq Items /\ \A i \in DOMAIN b : b[i] \in Price
ASSUME MaxBatchesIsNat == MaxBatches \in Nat

TradeOps == {"buy", "sell"}
TradeRequests == {r \in Requests : r.op \in TradeOps}
ASSUME TradeRequestsHaveKeys == \A r \in TradeRequests : r.key \in Keys

VARIABLES
    batch,      \* refreshes so far
    listings,   \* rows of market_listings; id[1] is the batch
    history,    \* newest row of market_price_history of each item, if any
    goods,      \* committed rows of inventories
    quote,      \* quote[h]: the item and price h has read
    arrived     \* arrived[h]: listings when h arrived (nothing in the code reads it)

marketVars == <<batch, listings, history>>
tradeVars  == <<goods, quote, arrived>>
mvars      == <<ledger, balance, enabled, lock, pend, req, pc, resp,
                batch, listings, history, goods, quote, arrived>>

NoQuote == [item |-> NoRequest, price |-> 0]

Listing(b, i, p) == [id |-> <<b, i>>, item |-> i, price |-> p, expired |-> FALSE]

\* sold and got are sold_at and sold_price; the row of a buy is named by its call.
Good(id, a, i, p) == [id |-> id, agent |-> a, item |-> i, paid |-> p,
                      sold |-> NoCall, got |-> 0]

ASSUME StockIsUnsold ==
    /\ \A g \in Stock : /\ g = Good(g.id, g.agent, g.item, g.paid) /\ g.id \notin Calls
                        /\ g.agent \in Agents /\ g.item \in Items /\ g.paid \in Price
    /\ \A g, k \in Stock : g.id = k.id => g = k

-----------------------------------------------------------------------------
(* A refresh, as trades see it: its transaction expires what is listed and  *)
(* lists new prices, in one step.  Rows of refreshes that overlapped it, those *)
(* after batch since, its UPDATE has not seen: they stay as they are, and may *)
(* have the later refreshed_at, which is the start of their transaction.    *)

Relist ==
    /\ batch < MaxBatches
    /\ batch' = batch + 1
    /\ \E prices \in Batches, since \in 0..batch :
         LET unseen == {l \in listings : l.id[1] > since}
         IN  /\ listings' = {[l EXCEPT !.expired = TRUE] : l \in listings \ unseen} \cup unseen
                  \cup {Listing(batch + 1, i, prices[i]) : i \in DOMAIN prices}
             /\ \E later \in SUBSET {l.item : l \in unseen} :
                  history' = [i \in Items |-> IF i \in DOMAIN prices \ later
                                              THEN prices[i] ELSE history[i]]
    /\ UNCHANGED <<dbVars, callVars, tradeVars>>

-----------------------------------------------------------------------------

TradeKey(h) == Key("client", req[h].key)

ReceiveTrade(h) ==
    /\ Receive(h, TradeRequests)
    /\ arrived' = [arrived EXCEPT ![h] = listings]
    /\ UNCHANGED <<marketVars, goods, quote>>

BeginTrade(h) ==
    /\ pc[h] = "begin" /\ req[h].op \in TradeOps
    /\ Begin(h)
    /\ UNCHANGED <<marketVars, tradeVars>>

\* SELECT EXISTS(... idempotency_key = $2), before any lock is held.
TradeIdem(h) ==
    /\ pc[h] = "idem"
    /\ HasConnection
    /\ \/ Taken(req[h].agent, TradeKey(h)) /\ Answer(h, "duplicate")
       \/ /\ ~Taken(req[h].agent, TradeKey(h))
          /\ Goto(h, IF req[h].op = "buy" THEN "listing" ELSE "begin")
    /\ UNCHANGED <<dbVars, marketVars, tradeVars>>

\* Mutated: the query does not say expired = false.
AnyListing(l) == TRUE
OnSale(l) == ~l.expired

\* The price is read before the transaction: it may expire while h waits.
BuyListing(h) ==
    /\ pc[h] = "listing"
    /\ HasConnection
    /\ \/ /\ ~\E l \in listings : l.id = req[h].ref /\ OnSale(l)
          /\ Answer(h, "gone")
          /\ UNCHANGED quote
       \/ \E l \in listings :
            /\ l.id = req[h].ref /\ OnSale(l)
            /\ quote' = [quote EXCEPT ![h] = [item |-> l.item, price |-> l.price]]
            /\ Goto(h, "begin")
    /\ UNCHANGED <<dbVars, marketVars, goods, arrived>>

\* Mutated: the trader's row is not locked.
LockNothing(h) ==
    /\ pc[h] \in {"lockBuyer", "lockSeller"}
    /\ Goto(h, IF pc[h] = "lockBuyer" THEN "checkBuyer" ELSE "find")
    /\ UNCHANGED <<dbVars, marketVars, tradeVars>>

LockTrader(h) ==
    /\ pc[h] \in {"lockBuyer", "lockSeller"}
    /\ LockAgent(h, req[h].agent, IF pc[h] = "lockBuyer" THEN "checkBuyer" ELSE "find")
    /\ UNCHANGED <<marketVars, tradeVars>>

BuyCheck(h) ==
    /\ pc[h] = "checkBuyer"
    /\ \/ balance[req[h].agent] < quote[h].price /\ Rollback(h, "insufficient")
       \/ /\ balance[req[h].agent] >= quote[h].price
          /\ Goto(h, "debitBuyer")
          /\ UNCHANGED dbVars
    /\ UNCHANGED <<marketVars, tradeVars>>

\* INSERT INTO candy_ledger with the client's key: waits for an open transaction
\* that has the key, and is an error when the key is there.
PostTrade(h, delta, label) ==
    /\ Writing(h, req[h].agent, TradeKey(h)) = {}
    /\ \/ /\ Taken(req[h].agent, TradeKey(h))
          /\ Rollback(h, "error")
       \/ /\ ~Taken(req[h].agent, TradeKey(h))
          /\ Write(h, Row(h, req[h].agent, TradeKey(h), delta), label)
    /\ UNCHANGED <<marketVars, tradeVars>>

BuyDebit(h)   == pc[h] = "debitBuyer" /\ PostTrade(h, -quote[h].price, "stock")
SellCredit(h) == pc[h] = "creditSeller" /\ PostTrade(h, quote[h].price, "mark")

\* INSERT INTO inventories, and UPDATE inventories SET sold_at: the row is h's
\* own, or locked by h, until h commits.
TouchGoods(h) ==
    /\ \/ pc[h] = "stock" /\ Goto(h, "commitBuy")
       \/ pc[h] = "mark" /\ Goto(h, "commitSell")
    /\ UNCHANGED <<dbVars, marketVars, tradeVars>>

BuyCommit(h) ==
    /\ pc[h] = "commitBuy"
    /\ Commit(h, {"ok", "error"})
    /\ goods' = goods \cup {Good(h, req[h].agent, quote[h].item, quote[h].price)}
    /\ UNCHANGED <<marketVars, quote, arrived>>

-----------------------------------------------------------------------------

Owned(h) == {g \in goods : g.id = req[h].ref /\ g.agent = req[h].agent}

\* Mutated: sold_at is not looked at.
NeverSold(g) == FALSE
IsSold(g) == g.sold # NoCall

\* SELECT ... FROM inventories ... FOR UPDATE OF inv.  Only a sell of the same
\* agent locks the row, and it holds the agent's lock: there is nothing to wait for.
SellFind(h) ==
    /\ pc[h] = "find"
    /\ \/ Owned(h) = {} /\ Rollback(h, "gone") /\ UNCHANGED quote
       \/ \E g \in Owned(h) : IsSold(g) /\ Rollback(h, "sold") /\ UNCHANGED quote
       \/ \E g \in Owned(h) :
            /\ ~IsSold(g)
            /\ quote' = [quote EXCEPT ![h] = [item |-> g.item, price |-> 0]]
            /\ Goto(h, "price")
            /\ UNCHANGED dbVars
    /\ UNCHANGED <<marketVars, goods, arrived>>

\* The newest active listing of the item (any, when overlapping refreshes have
\* left several), else its newest past price, else 1.
Newest(i) == {l \in listings : l.item = i /\ OnSale(l)}

SellPrice(h) ==
    /\ pc[h] = "price"
    /\ \/ \E l \in Newest(quote[h].item) :
            /\ quote' = [quote EXCEPT ![h].price = l.price]
            /\ Goto(h, "creditSeller")
       \/ /\ Newest(quote[h].item) = {}
          /\ Goto(h, "pastPrice")
          /\ UNCHANGED quote
    /\ UNCHANGED <<dbVars, marketVars, goods, arrived>>

\* Mutated: no price of 1 for an item that was never listed.
PastPriceOnly(h) ==
    /\ pc[h] = "pastPrice"
    /\ quote' = [quote EXCEPT ![h].price = history[quote[h].item]]
    /\ Goto(h, "creditSeller")
    /\ UNCHANGED <<dbVars, marketVars, goods, arrived>>

SellPastPrice(h) ==
    /\ pc[h] = "pastPrice"
    /\ LET past == history[quote[h].item]
       IN  quote' = [quote EXCEPT ![h].price = IF past = 0 THEN 1 ELSE past]
    /\ Goto(h, "creditSeller")
    /\ UNCHANGED <<dbVars, marketVars, goods, arrived>>

SellCommit(h) ==
    /\ pc[h] = "commitSell"
    /\ Commit(h, {"ok", "error"})
    /\ goods' = {IF g.id = req[h].ref THEN [g EXCEPT !.sold = h, !.got = quote[h].price]
                                      ELSE g : g \in goods}
    /\ UNCHANGED <<marketVars, quote, arrived>>

-----------------------------------------------------------------------------

\* What a trade answers when the statement it is at fails.
TradeFailAnswer(h) == IF pc[h] \in {"listing", "find"} THEN "gone" ELSE "error"

TradeAbort(h) ==
    /\ Open(h)
    /\ req[h].op \in TradeOps
    /\ Rollback(h, TradeFailAnswer(h))
    /\ UNCHANGED <<marketVars, tradeVars>>

Buy(h)   == BuyListing(h) \/ BuyCheck(h) \/ BuyDebit(h) \/ BuyCommit(h)
Sell(h)  == SellFind(h) \/ SellPrice(h) \/ SellPastPrice(h) \/ SellCredit(h) \/ SellCommit(h)
Trade(h) == BeginTrade(h) \/ TradeIdem(h) \/ LockTrader(h) \/ TouchGoods(h) \/ Buy(h) \/ Sell(h)

TradeInit ==
    /\ LedgerInit
    /\ batch   = 0
    /\ listings = {Listing(0, i, FirstBatch[i]) : i \in DOMAIN FirstBatch}
    /\ history = [i \in Items |-> IF i \in DOMAIN FirstBatch THEN FirstBatch[i] ELSE 0]
    /\ goods   = Stock
    /\ quote   = [h \in Calls |-> NoQuote]
    /\ arrived = [h \in Calls |-> {}]

TradeFinished == AllAnswered /\ UNCHANGED mvars

TradeNext == \/ \E h \in Calls : ReceiveTrade(h) \/ Trade(h) \/ TradeAbort(h)
             \/ Relist \/ TradeFinished

TradeSpec == TradeInit /\ [][TradeNext]_mvars
=============================================================================
