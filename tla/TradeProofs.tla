----------------------------- MODULE TradeProofs -----------------------------
(***************************************************************************)
(* For any agents, items, batches, stock and calls: the types of           *)
(* MarketTrade, that goods and ledger tell one story, that no price is     *)
(* stale, and that the handlers implement MarketBook.                      *)
(***************************************************************************)
EXTENDS TradeSafety, TLAPS

BuyLabels  == {"listing", "lockBuyer", "checkBuyer", "debitBuyer", "stock", "commitBuy"}
SellLabels == {"lockSeller", "find", "price", "pastPrice", "creditSeller", "mark", "commitSell"}
Debited    == {"stock", "commitBuy"}
Credited   == {"mark", "commitSell"}
Locked     == {"checkBuyer", "debitBuyer", "find", "price", "pastPrice", "creditSeller"}
                \cup Debited \cup Credited

Shop     == [id: Nat \X Items, item: Items, price: Price, expired: BOOLEAN]
Goods    == [id: {g.id : g \in Stock} \cup Calls, agent: Agents, item: Items, paid: Price,
             sold: Calls \cup {NoCall}, got: Nat]

\* What a call has written, and not committed.
Posts(h) == IF pc[h] \in Debited THEN {Row(h, req[h].agent, TradeKey(h), -quote[h].price)}
            ELSE IF pc[h] \in Credited THEN {Row(h, req[h].agent, TradeKey(h), quote[h].price)}
            ELSE {}

MarketTyped ==
    /\ batch \in 0..MaxBatches
    /\ listings \subseteq Shop
    /\ history \in [Items -> Nat]
    /\ goods \subseteq Goods
    /\ quote \in [Calls -> [item: Items \cup {NoRequest}, price: Nat]]
    /\ arrived \in [Calls -> SUBSET Shop]

CallsTyped ==
    /\ balance \in [Agents -> Int]
    /\ lock \in [Agents -> Calls \cup {NoCall}]
    /\ req \in [Calls -> Requests \cup {NoRequest}]
    /\ pc \in [Calls -> TradeLabels]
    /\ resp \in [Calls -> TradeAnswers]
    /\ pend = [h \in Calls |-> Posts(h)]

\* A call is at a statement of its request's handler, with the lock it has taken.
RoutedOf(h) ==
    /\ pc[h] # "idle" => req[h] \in TradeRequests
    /\ pc[h] \in BuyLabels => req[h].op = "buy"
    /\ pc[h] \in SellLabels => req[h].op = "sell"
    /\ pc[h] \in Locked => lock[req[h].agent] = h

\* Listings are named; a row only ever expires, and what is listed after a call
\* has arrived is of a later batch.
ListingsLast ==
    /\ \A l, m \in listings : l.id = m.id => l = m
    /\ \A l \in listings : l.id[1] <= batch
    /\ \A h \in Calls : \A m \in arrived[h] :
         /\ m.id[1] <= batch
         /\ \A l \in listings : m.id = l.id /\ m.expired => l.expired

\* The newest past price of an item is a price it was listed at; it has none as long
\* as it was never listed.
PastPrices ==
    \A i \in Items :
        IF history[i] = 0 THEN i \notin DOMAIN FirstBatch /\ \A l \in listings : l.item # i
                          ELSE \E l \in listings : l.item = i /\ l.price = history[i]

\* What h has read from the market holds until its commit: under the agent's lock,
\* a balance that covers the price, and a good that is the seller's and unsold.
Live(h, i, p)   == \E l \in LiveDuring(h) : l.item = i /\ l.price = p
Unlisted(h, i)  == ~\E l \in arrived[h] \cap listings : l.item = i /\ ~l.expired
ToSell(h, g)    == /\ g.id = req[h].ref /\ g.agent = req[h].agent
                   /\ g.item = quote[h].item /\ g.sold = NoCall
QuotedOf(h) ==
    /\ pc[h] \in (BuyLabels \ {"listing"}) \cup {"begin"} /\ req[h].op = "buy" =>
         Live(h, quote[h].item, quote[h].price)
    /\ pc[h] \in {"debitBuyer"} \cup Debited => quote[h].price <= balance[req[h].agent]
    /\ pc[h] \in {"price", "pastPrice", "creditSeller"} \cup Credited => \E g \in goods : ToSell(h, g)
    /\ pc[h] = "pastPrice" => Unlisted(h, quote[h].item)
    /\ pc[h] \in {"creditSeller"} \cup Credited =>
         /\ quote[h].price \in Price /\ quote[h].price \in Market!Prices(quote[h].item)
         /\ Live(h, quote[h].item, quote[h].price) \/ Unlisted(h, quote[h].item)

Routed == \A h \in Calls : RoutedOf(h)
Quoted == \A h \in Calls : QuotedOf(h)

\* A good is named by the call that bought it; who sold it asked for it.
GoodsLast ==
    /\ \A g, k \in goods : g.id = k.id => g = k
    /\ \A g \in goods :
         /\ g.sold = NoCall <=> g.got = 0
         /\ g.id \in Calls => /\ pc[g.id] = "done" /\ req[g.id].op = "buy"
                              /\ Live(g.id, g.item, g.paid)
         /\ g.sold \in Calls => pc[g.sold] = "done" /\ req[g.sold].op = "sell" /\ req[g.sold].ref = g.id
    /\ \A r \in ledger : r.by \in Calls => pc[r.by] = "done"

Deals == /\ MarketTyped /\ CallsTyped /\ Routed /\ ListingsLast /\ PastPrices
         /\ Quoted /\ GoodsLast /\ GoodsAreBooked

-----------------------------------------------------------------------------
(* Init => Deals *)

\* One batch is listed, the stock is unsold, and nothing has arrived.
LEMMA InitDeals == TradeInit => Deals
  <1> SUFFICES ASSUME TradeInit PROVE Deals
    OBVIOUS
  <1> USE NoCallIsNotACall DEF TradeInit, LedgerInit
  <1>a. /\ \A i \in DOMAIN FirstBatch : i \in Items /\ FirstBatch[i] \in Price
        /\ MaxBatches \in Nat
    BY BatchesArePrices, MaxBatchesIsNat
  <1>b. /\ \A i \in DOMAIN FirstBatch : Listing(0, i, FirstBatch[i]) \in listings
        /\ \A l \in listings : \E i \in DOMAIN FirstBatch : l = Listing(0, i, FirstBatch[i])
        /\ \A i \in DOMAIN FirstBatch :
             /\ Listing(0, i, FirstBatch[i]) \in Shop
             /\ Listing(0, i, FirstBatch[i]).id = <<0, i>>
             /\ Listing(0, i, FirstBatch[i]).item = i
             /\ Listing(0, i, FirstBatch[i]).price = FirstBatch[i]
    BY <1>a DEF Listing, Shop
  <1>c. \A g \in goods : /\ g \in Goods /\ g.sold = NoCall /\ g.got = 0 /\ g.id \notin Calls
    BY StockIsUnsold DEF Good, Goods
  <1>1. MarketTyped
    <2>1. listings \subseteq Shop
      BY <1>b
    <2>2. history \in [Items -> Nat]
      BY <1>a DEF Price
    <2>3. quote \in [Calls -> [item: Items \cup {NoRequest}, price: Nat]]
      BY DEF NoQuote
    <2> QED
      BY <1>a, <1>c, <2>1, <2>2, <2>3 DEF MarketTyped
  <1>2. CallsTyped
    BY SeedIsBalance DEF CallsTyped, TradeLabels, TradeAnswers, Posts, Debited, Credited
  <1>3. Routed /\ Quoted
    BY DEF Routed, RoutedOf, Quoted, QuotedOf, BuyLabels, SellLabels, Locked, Debited, Credited
  <1>4. ListingsLast
    <2>1. \A l, m \in listings : l.id = m.id => l = m
      BY <1>b
    <2>2. \A l \in listings : l.id[1] <= batch
      BY <1>b
    <2> QED
      BY <2>1, <2>2 DEF ListingsLast
  <1>5. PastPrices
    <2>1. ASSUME NEW i \in Items, i \in DOMAIN FirstBatch
          PROVE  history[i] # 0 /\ \E l \in listings : l.item = i /\ l.price = history[i]
      BY <1>a, <1>b, <2>1 DEF Price
    <2>2. ASSUME NEW i \in Items, i \notin DOMAIN FirstBatch
          PROVE  history[i] = 0 /\ \A l \in listings : l.item # i
      BY <1>b, <2>2
    <2> QED
      BY <2>1, <2>2 DEF PastPrices
  <1>6. GoodsLast
    BY <1>c, StockIsUnsold DEF GoodsLast, SeedRow, Row
  <1>7. GoodsAreBooked
    BY DEF GoodsAreBooked
  <1> QED
    BY <1>1, <1>2, <1>3, <1>4, <1>5, <1>6, <1>7 DEF Deals

-----------------------------------------------------------------------------
(* Steps of a call that leave the market, the goods and the ledger alone. *)

Tables == <<batch, listings, history, goods, ledger, balance>>

\* The other calls keep what they have.
Others(h) == \A g \in Calls \ {h} : /\ pc'[g] = pc[g] /\ req'[g] = req[g]
                                    /\ quote'[g] = quote[g] /\ arrived'[g] = arrived[g]

\* A call writes what its label says.
LEMMA PendStep ==
    ASSUME CallsTyped, NEW h \in Calls, Others(h), pend' = [pend EXCEPT ![h] = Posts(h)']
    PROVE  pend' = [g \in Calls |-> Posts(g)']
  <1>1. \A g \in Calls \ {h} : Posts(g)' = Posts(g)
    BY DEF Others, Posts, Row, Key, TradeKey
  <1> QED
    BY <1>1 DEF CallsTyped

\* What a call has ended with is in the books; before, it has nothing there.
LEMMA NothingBooked ==
    ASSUME GoodsLast, NEW h \in Calls, pc[h] # "done"
    PROVE  /\ {r \in ledger : r.by = h} = {}
           /\ {g \in goods : g.id = h} = {} /\ {g \in goods : g.sold = h} = {}
  BY DEF GoodsLast

\* Such a step keeps Deals when it keeps what concerns its call.
LEMMA CallStep ==
    ASSUME Deals, NEW h \in Calls, pc[h] # "done", UNCHANGED Tables, Others(h),
           \/ req'[h] = req[h] /\ arrived'[h] = arrived[h]
           \/ arrived'[h] = listings,
           \A a \in Agents : lock[a] \in Calls \ {h} => lock'[a] = lock[a],
           MarketTyped', CallsTyped', RoutedOf(h)', QuotedOf(h)'
    PROVE  Deals'
  <1> USE DEF Deals, Tables
  <1>1. \A g \in Calls \ {h} : \A i, p : /\ Live(g, i, p)' <=> Live(g, i, p)
                                         /\ Unlisted(g, i)' <=> Unlisted(g, i)
    BY DEF Others, Live, LiveDuring, Unlisted
  <1>2. Routed'
    <2>1. ASSUME NEW g \in Calls \ {h} PROVE RoutedOf(g)'
      <3>1. RoutedOf(g) /\ pc'[g] = pc[g] /\ req'[g] = req[g]
        BY DEF Routed, Others
      <3>2. pc[g] \in Locked => lock'[req[g].agent] = lock[req[g].agent]
        <4>1. pc[g] # "idle" => req[g].agent \in Agents
          BY <3>1, RequestsNameAgents DEF RoutedOf, TradeRequests
        <4> QED
          BY <3>1, <4>1 DEF RoutedOf, Locked, Debited, Credited
      <3> QED
        BY <3>1, <3>2 DEF RoutedOf
    <2> QED
      BY <2>1 DEF Routed
  <1>3. Quoted'
    <2>1. ASSUME NEW g \in Calls \ {h} PROVE QuotedOf(g)'
      <3>1. QuotedOf(g) /\ pc'[g] = pc[g] /\ req'[g] = req[g] /\ quote'[g] = quote[g]
        BY DEF Quoted, Others
      <3>2. /\ \A k : ToSell(g, k)' <=> ToSell(g, k)
            /\ Market!Prices(quote[g].item)' = Market!Prices(quote[g].item)
        BY <3>1 DEF ToSell, Market!Prices
      <3> QED
        BY <1>1, <3>1, <3>2 DEF QuotedOf
    <2> QED
      BY <2>1 DEF Quoted
  <1>4. ListingsLast'
    <2>1. \A m \in arrived'[h] : m.id[1] <= batch /\ \A l \in listings : m.id = l.id /\ m.expired => l.expired
      BY DEF ListingsLast
    <2>2. \A g \in Calls \ {h} : \A m \in arrived'[g] :
             m.id[1] <= batch /\ \A l \in listings : m.id = l.id /\ m.expired => l.expired
      BY DEF ListingsLast, Others
    <2>3. \A g \in Calls : \A m \in arrived'[g] :
             m.id[1] <= batch /\ \A l \in listings : m.id = l.id /\ m.expired => l.expired
      BY <2>1, <2>2
    <2> QED
      BY <2>3 DEF ListingsLast
  <1>5. PastPrices'
    BY DEF PastPrices
  <1>6. GoodsLast'
    <2>1. \A g \in goods : g.id \in Calls => pc'[g.id] = "done" /\ req'[g.id].op = "buy" /\ Live(g.id, g.item, g.paid)'
      BY <1>1 DEF GoodsLast, Others
    <2>2. \A g \in goods : g.sold \in Calls =>
             pc'[g.sold] = "done" /\ req'[g.sold].op = "sell" /\ req'[g.sold].ref = g.id
      BY DEF GoodsLast, Others
    <2>3. \A r \in ledger : r.by \in Calls => pc'[r.by] = "done"
      BY DEF GoodsLast, Others
    <2> QED
      BY <2>1, <2>2, <2>3 DEF GoodsLast, Live, LiveDuring
  <1>7. GoodsAreBooked'
    <2>1. ASSUME NEW g \in Calls \ {h} PROVE req'[g] = req[g] /\ TradeKey(g)' = TradeKey(g)
      BY DEF Others, TradeKey, Key
    <2>2. /\ {r \in ledger : r.by = h} = {}
          /\ {g \in goods : g.id = h} = {} /\ {g \in goods : g.sold = h} = {}
      BY NothingBooked
    <2> QED
      BY <2>1, <2>2 DEF GoodsAreBooked, Row
  <1> QED
    BY <1>2, <1>3, <1>4, <1>5, <1>6, <1>7

\* A call arrives: nothing of it is anywhere yet.
LEMMA ReceiveDeals == ASSUME Deals, NEW h \in Calls, ReceiveTrade(h) PROVE Deals'
  <1> USE NoCallIsNotACall DEF Deals
  <1>a. PICK r \in TradeRequests :
            /\ pc[h] = "idle" /\ req' = [req EXCEPT ![h] = r] /\ arrived' = [arrived EXCEPT ![h] = listings]
            /\ \/ /\ pc' = [pc EXCEPT ![h] = "done"]
                  /\ \E code \in {"unauthorized", "invalid"} : resp' = [resp EXCEPT ![h] = code]
               \/ pc' = [pc EXCEPT ![h] = "idem"] /\ resp' = resp
            /\ UNCHANGED <<batch, listings, history, goods, quote, ledger, balance, lock, pend>>
    <2>1. \A r \in TradeRequests : Entry(r) = "idem"
      BY DEF TradeRequests, TradeOps, Entry
    <2> QED
      BY <2>1 DEF ReceiveTrade, Receive, dbVars, marketVars
  <1>b. /\ Others(h) /\ pc'[h] \in {"done", "idem"} /\ req'[h] = r /\ arrived'[h] = listings
    BY <1>a DEF CallsTyped, MarketTyped, Others
  <1>p. pend' = [pend EXCEPT ![h] = Posts(h)']
    BY <1>a, <1>b DEF CallsTyped, Posts, Debited, Credited
  <1>1. MarketTyped'
    BY <1>a DEF MarketTyped
  <1>2. CallsTyped'
    BY <1>a, <1>b, <1>p, PendStep DEF CallsTyped, TradeLabels, TradeAnswers, TradeRequests
  <1>3. RoutedOf(h)'
    BY <1>a, <1>b DEF RoutedOf, BuyLabels, SellLabels, Locked, Debited, Credited
  <1>4. QuotedOf(h)'
    BY <1>a, <1>b DEF QuotedOf, BuyLabels, SellLabels, Locked, Debited, Credited
  <1> QED
    BY <1>a, <1>b, <1>1, <1>2, <1>3, <1>4, CallStep DEF Tables, CallsTyped

\* A transaction begins.
LEMMA BeginDeals == ASSUME Deals, NEW h \in Calls, BeginTrade(h) PROVE Deals'
  <1> USE NoCallIsNotACall DEF Deals
  <1>a. /\ pc[h] = "begin"
        /\ \/ req[h].op = "buy" /\ pc' = [pc EXCEPT ![h] = "lockBuyer"]
           \/ req[h].op = "sell" /\ pc' = [pc EXCEPT ![h] = "lockSeller"]
        /\ UNCHANGED <<batch, listings, history, goods, quote, arrived, ledger, balance, lock, pend, req, resp>>
    BY DEF BeginTrade, Begin, Goto, FirstStatement, TradeOps, dbVars, marketVars, tradeVars
  <1>b. /\ Others(h)
        /\ \/ pc'[h] = "lockBuyer" /\ req[h].op = "buy"
           \/ pc'[h] = "lockSeller" /\ req[h].op = "sell"
    BY <1>a DEF CallsTyped, MarketTyped, Others
  <1>p. pend' = [pend EXCEPT ![h] = Posts(h)']
    BY <1>a, <1>b DEF CallsTyped, Posts, Debited, Credited
  <1>1. MarketTyped'
    BY <1>a DEF MarketTyped
  <1>2. CallsTyped'
    BY <1>a, <1>b, <1>p, PendStep DEF CallsTyped, TradeLabels, TradeAnswers
  <1>3. RoutedOf(h)'
    BY <1>a, <1>b DEF Routed, RoutedOf, BuyLabels, SellLabels, Locked, Debited, Credited
  <1>4. QuotedOf(h)'
    BY <1>a, <1>b
       DEF Quoted, QuotedOf, Live, LiveDuring, BuyLabels, SellLabels, Locked, Debited, Credited
  <1> QED
    BY <1>a, <1>b, <1>1, <1>2, <1>3, <1>4, CallStep DEF Tables, CallsTyped

\* The key is looked up.
LEMMA IdemDeals == ASSUME Deals, NEW h \in Calls, TradeIdem(h) PROVE Deals'
  <1> USE NoCallIsNotACall DEF Deals
  <1>a. /\ pc[h] = "idem"
        /\ \/ pc' = [pc EXCEPT ![h] = "done"] /\ resp' = [resp EXCEPT ![h] = "duplicate"]
           \/ req[h].op = "buy" /\ pc' = [pc EXCEPT ![h] = "listing"] /\ resp' = resp
           \/ req[h].op # "buy" /\ pc' = [pc EXCEPT ![h] = "begin"] /\ resp' = resp
        /\ UNCHANGED <<batch, listings, history, goods, quote, arrived, ledger, balance, lock, pend, req>>
    BY DEF TradeIdem, Goto, Answer, dbVars, marketVars, tradeVars
  <1>b. /\ Others(h)
        /\ \/ pc'[h] = "done"
           \/ pc'[h] = "listing" /\ req[h].op = "buy"
           \/ pc'[h] = "begin" /\ req[h].op # "buy"
    BY <1>a DEF CallsTyped, MarketTyped, Others
  <1>p. pend' = [pend EXCEPT ![h] = Posts(h)']
    BY <1>a, <1>b DEF CallsTyped, Posts, Debited, Credited
  <1>1. MarketTyped'
    BY <1>a DEF MarketTyped
  <1>2. CallsTyped'
    BY <1>a, <1>b, <1>p, PendStep DEF CallsTyped, TradeLabels, TradeAnswers
  <1>3. RoutedOf(h)'
    BY <1>a, <1>b DEF Routed, RoutedOf, BuyLabels, SellLabels, Locked, Debited, Credited
  <1>4. QuotedOf(h)'
    BY <1>a, <1>b DEF Quoted, QuotedOf, BuyLabels, SellLabels, Locked, Debited, Credited
  <1> QED
    BY <1>a, <1>b, <1>1, <1>2, <1>3, <1>4, CallStep DEF Tables, CallsTyped

\* A price is read: it is on sale, so it had not expired when the call arrived.
LEMMA ListingDeals == ASSUME Deals, NEW h \in Calls, BuyListing(h) PROVE Deals'
  <1> USE NoCallIsNotACall DEF Deals
  <1>a. /\ pc[h] = "listing"
        /\ \/ /\ pc' = [pc EXCEPT ![h] = "done"] /\ resp' = [resp EXCEPT ![h] = "gone"]
              /\ quote' = quote
           \/ /\ pc' = [pc EXCEPT ![h] = "begin"] /\ resp' = resp
              /\ \E l \in listings : /\ ~l.expired
                                     /\ quote' = [quote EXCEPT ![h] = [item |-> l.item, price |-> l.price]]
        /\ UNCHANGED <<batch, listings, history, goods, arrived, ledger, balance, lock, pend, req>>
    BY DEF BuyListing, OnSale, Goto, Answer, dbVars, marketVars
  <1>b. /\ Others(h)
        /\ \/ pc'[h] = "done"
           \/ /\ pc'[h] = "begin"
              /\ \E l \in listings : ~l.expired /\ quote'[h].item = l.item /\ quote'[h].price = l.price
    BY <1>a DEF CallsTyped, MarketTyped, Others
  <1>c. \A l \in listings : ~l.expired => l \in LiveDuring(h)
    BY DEF LiveDuring, ListingsLast
  <1>p. pend' = [pend EXCEPT ![h] = Posts(h)']
    BY <1>a, <1>b DEF CallsTyped, Posts, Debited, Credited
  <1>1. MarketTyped'
    <2>1. \A l \in listings : [item |-> l.item, price |-> l.price] \in [item: Items \cup {NoRequest}, price: Nat]
      BY DEF MarketTyped, Shop, Price
    <2>2. quote' \in [Calls -> [item: Items \cup {NoRequest}, price: Nat]]
      BY <1>a, <2>1 DEF MarketTyped
    <2> QED
      BY <1>a, <2>2 DEF MarketTyped
  <1>2. CallsTyped'
    BY <1>a, <1>b, <1>p, PendStep DEF CallsTyped, TradeLabels, TradeAnswers
  <1>3. RoutedOf(h)'
    BY <1>a, <1>b DEF Routed, RoutedOf, BuyLabels, SellLabels, Locked, Debited, Credited
  <1>4. QuotedOf(h)'
    <2>1. pc'[h] = "begin" => Live(h, quote'[h].item, quote'[h].price)
      BY <1>b, <1>c DEF Live
    <2> QED
      BY <1>a, <1>b, <2>1
         DEF QuotedOf, Live, LiveDuring, BuyLabels, SellLabels, Locked, Debited, Credited
  <1> QED
    BY <1>a, <1>b, <1>1, <1>2, <1>3, <1>4, CallStep DEF Tables, CallsTyped

\* The trader's row is locked.
LEMMA LockDeals == ASSUME Deals, NEW h \in Calls, LockTrader(h) PROVE Deals'
  <1> USE NoCallIsNotACall DEF Deals
  <1>a. /\ \/ pc[h] = "lockBuyer" /\ pc' = [pc EXCEPT ![h] = "checkBuyer"]
           \/ pc[h] = "lockSeller" /\ pc' = [pc EXCEPT ![h] = "find"]
        /\ lock[req[h].agent] \in {NoCall, h} /\ lock' = [lock EXCEPT ![req[h].agent] = h]
        /\ UNCHANGED <<batch, listings, history, goods, quote, arrived, ledger, balance, pend, req, resp>>
    BY DEF LockTrader, LockAgent, CanLock, Goto, marketVars, tradeVars
  <1>b. /\ Others(h)
        /\ \/ pc'[h] = "checkBuyer" /\ pc[h] = "lockBuyer"
           \/ pc'[h] = "find" /\ pc[h] = "lockSeller"
    BY <1>a DEF CallsTyped, MarketTyped, Others
  <1>c. req[h].agent \in Agents /\ lock'[req[h].agent] = h
    BY <1>a, RequestsNameAgents DEF Routed, RoutedOf, TradeRequests, CallsTyped
  <1>p. pend' = [pend EXCEPT ![h] = Posts(h)']
    BY <1>a, <1>b DEF CallsTyped, Posts, Debited, Credited
  <1>1. MarketTyped'
    BY <1>a DEF MarketTyped
  <1>2. CallsTyped'
    BY <1>a, <1>b, <1>p, PendStep DEF CallsTyped, TradeLabels, TradeAnswers
  <1>3. RoutedOf(h)'
    BY <1>a, <1>b, <1>c DEF Routed, RoutedOf, BuyLabels, SellLabels, Locked, Debited, Credited
  <1>4. QuotedOf(h)'
    BY <1>a, <1>b
       DEF Quoted, QuotedOf, Live, LiveDuring, BuyLabels, SellLabels, Locked, Debited, Credited
  <1> QED
    BY <1>a, <1>b, <1>1, <1>2, <1>3, <1>4, CallStep DEF Tables, CallsTyped

\* The balance covers the price, or the call ends.
LEMMA CheckDeals == ASSUME Deals, NEW h \in Calls, BuyCheck(h) PROVE Deals'
  <1> USE NoCallIsNotACall DEF Deals
  <1>a. /\ pc[h] = "checkBuyer"
        /\ \/ /\ pc' = [pc EXCEPT ![h] = "done"] /\ resp' = [resp EXCEPT ![h] = "insufficient"]
              /\ lock' = [a \in Agents |-> IF lock[a] = h THEN NoCall ELSE lock[a]]
              /\ pend' = [pend EXCEPT ![h] = {}]
           \/ /\ balance[req[h].agent] >= quote[h].price
              /\ pc' = [pc EXCEPT ![h] = "debitBuyer"] /\ resp' = resp
              /\ lock' = lock /\ pend' = pend
        /\ UNCHANGED <<batch, listings, history, goods, quote, arrived, ledger, balance, req>>
    BY DEF BuyCheck, Rollback, EndTx, Answer, Goto, dbVars, marketVars, tradeVars
  <1>b. /\ Others(h)
        /\ \/ pc'[h] = "done"
           \/ pc'[h] = "debitBuyer" /\ balance[req[h].agent] >= quote[h].price /\ lock' = lock
    BY <1>a DEF CallsTyped, MarketTyped, Others
  <1>c. req[h].agent \in Agents
    BY <1>a, RequestsNameAgents DEF Routed, RoutedOf, TradeRequests
  <1>p. pend' = [pend EXCEPT ![h] = Posts(h)']
    BY <1>a, <1>b DEF CallsTyped, Posts, Debited, Credited
  <1>1. MarketTyped'
    BY <1>a DEF MarketTyped
  <1>2. CallsTyped'
    <2>1. pend' = [g \in Calls |-> Posts(g)']
      BY <1>b, <1>p, PendStep
    <2>2. lock' \in [Agents -> Calls \cup {NoCall}]
      BY <1>a DEF CallsTyped
    <2>3. pc' \in [Calls -> TradeLabels] /\ resp' \in [Calls -> TradeAnswers]
      BY <1>a DEF CallsTyped, TradeLabels, TradeAnswers
    <2> QED
      BY <1>a, <2>1, <2>2, <2>3 DEF CallsTyped
  <1>3. RoutedOf(h)'
    BY <1>a, <1>b DEF Routed, RoutedOf, BuyLabels, SellLabels, Locked, Debited, Credited
  <1>4. QuotedOf(h)'
    <2>1. balance[req[h].agent] >= quote[h].price => quote[h].price <= balance[req[h].agent]
      BY <1>c DEF CallsTyped, MarketTyped
    <2> QED
      BY <1>a, <1>b, <2>1
         DEF Quoted, QuotedOf, Live, LiveDuring, BuyLabels, SellLabels, Locked, Debited, Credited
  <1> QED
    BY <1>a, <1>b, <1>1, <1>2, <1>3, <1>4, CallStep DEF Tables, CallsTyped

\* The debit is written, or its key is there.
LEMMA DebitDeals == ASSUME Deals, NEW h \in Calls, BuyDebit(h) PROVE Deals'
  <1> USE NoCallIsNotACall DEF Deals
  <1>a. /\ pc[h] = "debitBuyer"
        /\ \/ /\ pc' = [pc EXCEPT ![h] = "done"] /\ resp' = [resp EXCEPT ![h] = "error"]
              /\ lock' = [a \in Agents |-> IF lock[a] = h THEN NoCall ELSE lock[a]]
              /\ pend' = [pend EXCEPT ![h] = {}]
           \/ /\ pc' = [pc EXCEPT ![h] = "stock"] /\ resp' = resp /\ lock' = lock
              /\ pend' = [pend EXCEPT ![h] = pend[h] \cup
                             {Row(h, req[h].agent, TradeKey(h), -quote[h].price)}]
        /\ UNCHANGED <<batch, listings, history, goods, quote, arrived, ledger, balance, req>>
    BY DEF BuyDebit, PostTrade, Write, Rollback, EndTx, Answer, Goto, dbVars, marketVars, tradeVars
  <1>b. Others(h) /\ (pc'[h] = "done" \/ (pc'[h] = "stock" /\ lock' = lock))
    BY <1>a DEF CallsTyped, MarketTyped, Others
  <1>c. pend[h] = {} /\ TradeKey(h)' = TradeKey(h)
    BY <1>a DEF CallsTyped, Posts, Debited, Credited, TradeKey, Key
  <1>p. pend' = [pend EXCEPT ![h] = Posts(h)']
    BY <1>a, <1>b, <1>c DEF CallsTyped, Posts, Debited, Credited, Row
  <1>1. MarketTyped'
    BY <1>a DEF MarketTyped
  <1>2. CallsTyped'
    <2>1. pend' = [g \in Calls |-> Posts(g)']
      BY <1>b, <1>p, PendStep
    <2>2. lock' \in [Agents -> Calls \cup {NoCall}]
      BY <1>a DEF CallsTyped
    <2>3. pc' \in [Calls -> TradeLabels] /\ resp' \in [Calls -> TradeAnswers]
      BY <1>a DEF CallsTyped, TradeLabels, TradeAnswers
    <2> QED
      BY <1>a, <2>1, <2>2, <2>3 DEF CallsTyped
  <1>3. RoutedOf(h)'
    BY <1>a, <1>b DEF Routed, RoutedOf, BuyLabels, SellLabels, Locked, Debited, Credited
  <1>4. QuotedOf(h)'
    BY <1>a, <1>b
       DEF Quoted, QuotedOf, Live, LiveDuring, Unlisted, ToSell, Market!Prices, BuyLabels,
       SellLabels, Locked, Debited, Credited
  <1> QED
    BY <1>a, <1>b, <1>1, <1>2, <1>3, <1>4, CallStep DEF Tables, CallsTyped

\* The credit is written, or its key is there.
LEMMA CreditDeals == ASSUME Deals, NEW h \in Calls, SellCredit(h) PROVE Deals'
  <1> USE NoCallIsNotACall DEF Deals
  <1>a. /\ pc[h] = "creditSeller"
        /\ \/ /\ pc' = [pc EXCEPT ![h] = "done"] /\ resp' = [resp EXCEPT ![h] = "error"]
              /\ lock' = [a \in Agents |-> IF lock[a] = h THEN NoCall ELSE lock[a]]
              /\ pend' = [pend EXCEPT ![h] = {}]
           \/ /\ pc' = [pc EXCEPT ![h] = "mark"] /\ resp' = resp /\ lock' = lock
              /\ pend' = [pend EXCEPT ![h] = pend[h] \cup
                             {Row(h, req[h].agent, TradeKey(h), quote[h].price)}]
        /\ UNCHANGED <<batch, listings, history, goods, quote, arrived, ledger, balance, req>>
    BY DEF SellCredit, PostTrade, Write, Rollback, EndTx, Answer, Goto, dbVars, marketVars,
       tradeVars
  <1>b. Others(h) /\ (pc'[h] = "done" \/ (pc'[h] = "mark" /\ lock' = lock))
    BY <1>a DEF CallsTyped, MarketTyped, Others
  <1>c. pend[h] = {} /\ TradeKey(h)' = TradeKey(h)
    BY <1>a DEF CallsTyped, Posts, Debited, Credited, TradeKey, Key
  <1>p. pend' = [pend EXCEPT ![h] = Posts(h)']
    BY <1>a, <1>b, <1>c DEF CallsTyped, Posts, Debited, Credited, Row
  <1>1. MarketTyped'
    BY <1>a DEF MarketTyped
  <1>2. CallsTyped'
    <2>1. pend' = [g \in Calls |-> Posts(g)']
      BY <1>b, <1>p, PendStep
    <2>2. lock' \in [Agents -> Calls \cup {NoCall}]
      BY <1>a DEF CallsTyped
    <2>3. pc' \in [Calls -> TradeLabels] /\ resp' \in [Calls -> TradeAnswers]
      BY <1>a DEF CallsTyped, TradeLabels, TradeAnswers
    <2> QED
      BY <1>a, <2>1, <2>2, <2>3 DEF CallsTyped
  <1>3. RoutedOf(h)'
    BY <1>a, <1>b DEF Routed, RoutedOf, BuyLabels, SellLabels, Locked, Debited, Credited
  <1>4. QuotedOf(h)'
    BY <1>a, <1>b
       DEF Quoted, QuotedOf, Live, LiveDuring, Unlisted, ToSell, Market!Prices, BuyLabels,
       SellLabels, Locked, Debited, Credited
  <1> QED
    BY <1>a, <1>b, <1>1, <1>2, <1>3, <1>4, CallStep DEF Tables, CallsTyped

\* The good is written, and seen by nobody yet.
LEMMA TouchDeals == ASSUME Deals, NEW h \in Calls, TouchGoods(h) PROVE Deals'
  <1> USE NoCallIsNotACall DEF Deals
  <1>a. /\ \/ pc[h] = "stock" /\ pc' = [pc EXCEPT ![h] = "commitBuy"]
           \/ pc[h] = "mark" /\ pc' = [pc EXCEPT ![h] = "commitSell"]
        /\ UNCHANGED <<batch, listings, history, goods, quote, arrived, ledger, balance, lock, pend, req, resp>>
    BY DEF TouchGoods, Goto, dbVars, marketVars, tradeVars
  <1>b. /\ Others(h)
        /\ \/ pc[h] = "stock" /\ pc'[h] = "commitBuy"
           \/ pc[h] = "mark" /\ pc'[h] = "commitSell"
    BY <1>a DEF CallsTyped, MarketTyped, Others
  <1>p. pend' = [pend EXCEPT ![h] = Posts(h)']
    <2>1. Posts(h)' = Posts(h)
      BY <1>a, <1>b DEF Posts, Debited, Credited, Row, TradeKey, Key
    <2> QED
      BY <1>a, <2>1 DEF CallsTyped
  <1>1. MarketTyped'
    BY <1>a DEF MarketTyped
  <1>2. CallsTyped'
    BY <1>a, <1>b, <1>p, PendStep DEF CallsTyped, TradeLabels, TradeAnswers
  <1>3. RoutedOf(h)'
    BY <1>a, <1>b DEF Routed, RoutedOf, BuyLabels, SellLabels, Locked, Debited, Credited
  <1>4. QuotedOf(h)'
    BY <1>a, <1>b
       DEF Quoted, QuotedOf, Live, LiveDuring, Unlisted, ToSell, Market!Prices, BuyLabels,
       SellLabels, Locked, Debited, Credited
  <1> QED
    BY <1>a, <1>b, <1>1, <1>2, <1>3, <1>4, CallStep DEF Tables, CallsTyped

\* A good is found that the agent owns and has not sold.
LEMMA FindDeals == ASSUME Deals, NEW h \in Calls, SellFind(h) PROVE Deals'
  <1> USE NoCallIsNotACall DEF Deals
  <1>a. /\ pc[h] = "find"
        /\ \/ /\ pc' = [pc EXCEPT ![h] = "done"] /\ quote' = quote
              /\ \E code \in {"gone", "sold"} : resp' = [resp EXCEPT ![h] = code]
              /\ lock' = [a \in Agents |-> IF lock[a] = h THEN NoCall ELSE lock[a]]
              /\ pend' = [pend EXCEPT ![h] = {}]
           \/ /\ pc' = [pc EXCEPT ![h] = "price"] /\ resp' = resp /\ lock' = lock /\ pend' = pend
              /\ \E g \in Owned(h) : /\ g.sold = NoCall
                                     /\ quote' = [quote EXCEPT ![h] = [item |-> g.item, price |-> 0]]
        /\ UNCHANGED <<batch, listings, history, goods, arrived, ledger, balance, req>>
    BY DEF SellFind, IsSold, Rollback, EndTx, Answer, Goto, dbVars, marketVars
  <1>b. /\ Others(h)
        /\ \/ pc'[h] = "done"
           \/ /\ pc'[h] = "price" /\ lock' = lock
              /\ \E g \in goods : /\ g.id = req[h].ref /\ g.agent = req[h].agent /\ g.sold = NoCall
                                  /\ quote'[h].item = g.item
    BY <1>a DEF CallsTyped, MarketTyped, Others, Owned
  <1>p. pend' = [pend EXCEPT ![h] = Posts(h)']
    BY <1>a, <1>b DEF CallsTyped, Posts, Debited, Credited
  <1>1. MarketTyped'
    <2>1. \A g \in goods : [item |-> g.item, price |-> 0] \in [item: Items \cup {NoRequest}, price: Nat]
      BY DEF MarketTyped, Goods
    <2>2. quote' \in [Calls -> [item: Items \cup {NoRequest}, price: Nat]]
      BY <1>a, <2>1 DEF MarketTyped, Owned
    <2> QED
      BY <1>a, <2>2 DEF MarketTyped
  <1>2. CallsTyped'
    <2>1. pend' = [g \in Calls |-> Posts(g)']
      BY <1>b, <1>p, PendStep
    <2>2. lock' \in [Agents -> Calls \cup {NoCall}]
      BY <1>a DEF CallsTyped
    <2>3. pc' \in [Calls -> TradeLabels] /\ resp' \in [Calls -> TradeAnswers]
      BY <1>a DEF CallsTyped, TradeLabels, TradeAnswers
    <2> QED
      BY <1>a, <2>1, <2>2, <2>3 DEF CallsTyped
  <1>3. RoutedOf(h)'
    BY <1>a, <1>b DEF Routed, RoutedOf, BuyLabels, SellLabels, Locked, Debited, Credited
  <1>4. QuotedOf(h)'
    <2>1. pc'[h] = "price" => \E g \in goods : ToSell(h, g)'
      BY <1>a, <1>b DEF ToSell
    <2> QED
      BY <1>a, <1>b, <2>1 DEF QuotedOf, BuyLabels, SellLabels, Locked, Debited, Credited
  <1> QED
    BY <1>a, <1>b, <1>1, <1>2, <1>3, <1>4, CallStep DEF Tables, CallsTyped

\* The price is one on sale, or nothing of the item is.
LEMMA PriceDeals == ASSUME Deals, NEW h \in Calls, SellPrice(h) PROVE Deals'
  <1> USE NoCallIsNotACall DEF Deals
  <1>a. /\ pc[h] = "price"
        /\ \/ /\ pc' = [pc EXCEPT ![h] = "creditSeller"]
              /\ \E l \in Newest(quote[h].item) : quote' = [quote EXCEPT ![h] = [quote[h] EXCEPT !.price = l.price]]
           \/ /\ pc' = [pc EXCEPT ![h] = "pastPrice"] /\ quote' = quote
              /\ Newest(quote[h].item) = {}
        /\ UNCHANGED <<batch, listings, history, goods, arrived, ledger, balance, lock, pend, req, resp>>
    BY DEF SellPrice, Goto, dbVars, marketVars
  <1>b. /\ Others(h) /\ quote'[h].item = quote[h].item
        /\ \/ /\ pc'[h] = "creditSeller"
              /\ \E l \in listings : /\ l.item = quote[h].item /\ ~l.expired /\ quote'[h].price = l.price
           \/ /\ pc'[h] = "pastPrice"
              /\ \A l \in listings : l.item = quote[h].item => l.expired
    BY <1>a DEF CallsTyped, MarketTyped, Others, Newest, OnSale
  <1>c. \A l \in listings : ~l.expired => l \in LiveDuring(h)
    BY DEF LiveDuring, ListingsLast
  <1>p. pend' = [pend EXCEPT ![h] = Posts(h)']
    BY <1>a, <1>b DEF CallsTyped, Posts, Debited, Credited
  <1>1. MarketTyped'
    <2>1. \A l \in listings : [quote[h] EXCEPT !.price = l.price] \in [item: Items \cup {NoRequest}, price: Nat]
      BY DEF MarketTyped, Shop, Price
    <2>2. quote' \in [Calls -> [item: Items \cup {NoRequest}, price: Nat]]
      BY <1>a, <2>1 DEF MarketTyped, Newest
    <2> QED
      BY <1>a, <2>2 DEF MarketTyped
  <1>2. CallsTyped'
    BY <1>a, <1>b, <1>p, PendStep DEF CallsTyped, TradeLabels, TradeAnswers
  <1>3. RoutedOf(h)'
    BY <1>a, <1>b DEF Routed, RoutedOf, BuyLabels, SellLabels, Locked, Debited, Credited
  <1>4. QuotedOf(h)'
    <2>1. \E g \in goods : ToSell(h, g)'
      BY <1>a, <1>b DEF ToSell, Quoted, QuotedOf
    <2>2. pc'[h] = "pastPrice" => Unlisted(h, quote'[h].item)
      BY <1>a, <1>b DEF Unlisted
    <2>3. ASSUME NEW l \in listings, l.item = quote[h].item, ~l.expired, quote'[h].price = l.price
          PROVE  /\ quote'[h].price \in Price /\ quote'[h].price \in Market!Prices(quote'[h].item)
                 /\ Live(h, quote'[h].item, quote'[h].price)
      BY <1>b, <1>c, <2>3 DEF MarketTyped, Shop, Market!Prices, Live
    <2>4. pc'[h] = "creditSeller" =>
              /\ quote'[h].price \in Price /\ quote'[h].price \in Market!Prices(quote'[h].item)
              /\ Live(h, quote'[h].item, quote'[h].price)
      BY <1>b, <2>3
    <2>5. goods' = goods /\ arrived' = arrived /\ listings' = listings
      BY <1>a
    <2> QED
      BY <1>b, <2>1, <2>2, <2>4, <2>5
         DEF QuotedOf, Live, LiveDuring, Unlisted, Market!Prices, BuyLabels, SellLabels, Locked,
         Debited, Credited
  <1> QED
    BY <1>a, <1>b, <1>1, <1>2, <1>3, <1>4, CallStep DEF Tables, CallsTyped

\* The price is one the item has had, or 1 when it has had none.
LEMMA PastDeals == ASSUME Deals, NEW h \in Calls, SellPastPrice(h) PROVE Deals'
  <1> USE NoCallIsNotACall DEF Deals
  <1>a. /\ pc[h] = "pastPrice" /\ pc' = [pc EXCEPT ![h] = "creditSeller"]
        /\ quote' = [quote EXCEPT ![h] = [quote[h] EXCEPT !.price =
                        IF history[quote[h].item] = 0 THEN 1 ELSE history[quote[h].item]]]
        /\ UNCHANGED <<batch, listings, history, goods, arrived, ledger, balance, lock, pend, req, resp>>
    BY DEF SellPastPrice, Goto, dbVars, marketVars
  <1>b. /\ Others(h) /\ quote'[h].item = quote[h].item /\ pc'[h] = "creditSeller"
        /\ quote'[h].price = IF history[quote[h].item] = 0 THEN 1 ELSE history[quote[h].item]
    BY <1>a DEF CallsTyped, MarketTyped, Others
  <1>c. quote[h].item \in Items
    BY <1>a DEF Quoted, QuotedOf, ToSell, MarketTyped, Goods
  <1>d. quote'[h].price \in Price /\ quote'[h].price \in Market!Prices(quote[h].item)
    BY <1>b, <1>c DEF PastPrices, MarketTyped, Market!Prices, Price
  <1>p. pend' = [pend EXCEPT ![h] = Posts(h)']
    BY <1>a, <1>b DEF CallsTyped, Posts, Debited, Credited
  <1>1. MarketTyped'
    <2>1. quote' \in [Calls -> [item: Items \cup {NoRequest}, price: Nat]]
      BY <1>a, <1>c DEF MarketTyped
    <2> QED
      BY <1>a, <2>1 DEF MarketTyped
  <1>2. CallsTyped'
    BY <1>a, <1>b, <1>p, PendStep DEF CallsTyped, TradeLabels, TradeAnswers
  <1>3. RoutedOf(h)'
    BY <1>a, <1>b DEF Routed, RoutedOf, BuyLabels, SellLabels, Locked, Debited, Credited
  <1>4. QuotedOf(h)'
    <2>1. \E g \in goods : ToSell(h, g)'
      BY <1>a, <1>b DEF ToSell, Quoted, QuotedOf
    <2>2. Unlisted(h, quote[h].item)
      BY <1>a DEF Quoted, QuotedOf
    <2>3. goods' = goods /\ arrived' = arrived /\ listings' = listings
      BY <1>a
    <2> QED
      BY <1>b, <1>d, <2>1, <2>2, <2>3
         DEF QuotedOf, Unlisted, Market!Prices, BuyLabels, SellLabels, Locked, Debited, Credited
  <1> QED
    BY <1>a, <1>b, <1>1, <1>2, <1>3, <1>4, CallStep DEF Tables, CallsTyped

\* A statement fails, and nothing has happened.
LEMMA AbortDeals == ASSUME Deals, NEW h \in Calls, TradeAbort(h) PROVE Deals'
  <1> USE NoCallIsNotACall DEF Deals
  <1>a. /\ pc[h] \notin {"idle", "done"} /\ pc' = [pc EXCEPT ![h] = "done"]
        /\ \E code \in {"gone", "error"} : resp' = [resp EXCEPT ![h] = code]
        /\ lock' = [a \in Agents |-> IF lock[a] = h THEN NoCall ELSE lock[a]]
        /\ pend' = [pend EXCEPT ![h] = {}]
        /\ UNCHANGED <<batch, listings, history, goods, quote, arrived, ledger, balance, req>>
    BY DEF TradeAbort, Open, TradeFailAnswer, Rollback, EndTx, Answer, marketVars, tradeVars
  <1>b. Others(h) /\ pc'[h] = "done"
    BY <1>a DEF CallsTyped, MarketTyped, Others
  <1>p. pend' = [pend EXCEPT ![h] = Posts(h)']
    BY <1>a, <1>b DEF CallsTyped, Posts, Debited, Credited
  <1>1. MarketTyped'
    BY <1>a DEF MarketTyped
  <1>2. CallsTyped'
    <2>1. pend' = [g \in Calls |-> Posts(g)']
      BY <1>b, <1>p, PendStep
    <2>2. lock' \in [Agents -> Calls \cup {NoCall}]
      BY <1>a DEF CallsTyped
    <2>3. pc' \in [Calls -> TradeLabels] /\ resp' \in [Calls -> TradeAnswers]
      BY <1>a DEF CallsTyped, TradeLabels, TradeAnswers
    <2> QED
      BY <1>a, <2>1, <2>2, <2>3 DEF CallsTyped
  <1>3. RoutedOf(h)'
    BY <1>a, <1>b DEF Routed, RoutedOf, BuyLabels, SellLabels, Locked, Debited, Credited
  <1>4. QuotedOf(h)'
    BY <1>a, <1>b DEF QuotedOf, BuyLabels, SellLabels, Locked, Debited, Credited
  <1> QED
    BY <1>a, <1>b, <1>1, <1>2, <1>3, <1>4, CallStep DEF Tables, CallsTyped

-----------------------------------------------------------------------------
(* Commits. *)

\* A commit adds the one row its call wrote to the ledger and to its agent's
\* balance, and ends the call.
LEMMA CommitOneRow ==
    ASSUME Deals, NEW h \in Calls, pc[h] \in {"commitBuy", "commitSell"},
           Commit(h, {"ok", "error"}), UNCHANGED <<quote, arrived>>,
           NEW d \in Int, Posts(h) = {Row(h, req[h].agent, TradeKey(h), d)}
    PROVE  /\ ledger' = ledger \cup {Row(h, req[h].agent, TradeKey(h), d)}
           /\ req[h].agent \in Agents
           /\ balance' = [balance EXCEPT ![req[h].agent] = balance[req[h].agent] + d]
           /\ Others(h) /\ req' = req /\ pc' = [pc EXCEPT ![h] = "done"]
           /\ lock' = [a \in Agents |-> IF lock[a] = h THEN NoCall ELSE lock[a]]
           /\ CallsTyped'
  <1> USE DEF Deals
  <1> DEFINE row == Row(h, req[h].agent, TradeKey(h), d)
  <1>1. /\ ledger' = ledger \cup {row}
        /\ pend[h] = {row}
        /\ pend' = [pend EXCEPT ![h] = {}]
    BY DEF Commit, PublishRows, EndTx, CallsTyped
  <1>2. /\ req' = req /\ pc' = [pc EXCEPT ![h] = "done"]
        /\ \E code \in {"ok", "error"} : resp' = [resp EXCEPT ![h] = code]
        /\ lock' = [a \in Agents |-> IF lock[a] = h THEN NoCall ELSE lock[a]]
        /\ balance' = [a \in Agents |-> balance[a] + Posted(h, a)]
    BY DEF Commit, PublishRows, EndTx, Answer
  <1>3. req[h].agent \in Agents
    BY RequestsNameAgents DEF Routed, RoutedOf, TradeRequests
  <1>4. Posted(h, req[h].agent) = d
    <2>1. {r \in pend[h] : r.agent = req[h].agent} = {row}
      BY <1>1 DEF Row
    <2>2. (CHOOSE r \in {row} : TRUE) = row
      OBVIOUS
    <2>3. row.delta = d
      BY DEF Row
    <2> HIDE DEF row
    <2> QED
      BY <2>1, <2>2, <2>3 DEF Posted
  <1>5. ASSUME NEW a \in Agents \ {req[h].agent} PROVE Posted(h, a) = 0
    <2>1. {r \in pend[h] : r.agent = a} = {}
      BY <1>1 DEF Row
    <2> QED
      BY <2>1 DEF Posted
  <1>6. balance' = [balance EXCEPT ![req[h].agent] = balance[req[h].agent] + d]
    <2>1. \A a \in Agents : balance[a] + Posted(h, a) =
             IF a = req[h].agent THEN balance[req[h].agent] + d ELSE balance[a]
      BY <1>4, <1>5 DEF CallsTyped
    <2>2. balance' = [a \in Agents |-> IF a = req[h].agent THEN balance[req[h].agent] + d ELSE balance[a]]
      BY <1>2, <2>1
    <2> QED
      BY <2>2 DEF CallsTyped
  <1>7. Others(h)
    BY <1>2 DEF Others, CallsTyped
  <1>8. CallsTyped'
    <2>1. Posts(h)' = {}
      BY <1>2 DEF Posts, Debited, Credited, CallsTyped
    <2>2. pend' = [g \in Calls |-> Posts(g)']
      BY <1>1, <1>7, <2>1, PendStep
    <2>3. balance' \in [Agents -> Int]
      BY <1>3, <1>6 DEF CallsTyped
    <2>4. lock' \in [Agents -> Calls \cup {NoCall}]
      BY <1>2 DEF CallsTyped
    <2> QED
      BY <1>2, <2>2, <2>3, <2>4 DEF CallsTyped, TradeLabels, TradeAnswers
  <1> QED
    BY <1>1, <1>2, <1>3, <1>6, <1>7, <1>8

\* The other calls do not notice: those that have read a balance or a good hold the
\* lock of another agent.
LEMMA CommitOthers ==
    ASSUME Deals, NEW h \in Calls, pc[h] \in {"commitBuy", "commitSell"}, Others(h),
           UNCHANGED <<batch, listings, history, quote, arrived, req>>,
           pc' = [pc EXCEPT ![h] = "done"],
           lock' = [a \in Agents |-> IF lock[a] = h THEN NoCall ELSE lock[a]],
           \A a \in Agents \ {req[h].agent} : balance'[a] = balance[a],
           \A k \in goods : k.agent # req[h].agent => k \in goods'
    PROVE  Routed' /\ Quoted' /\ ListingsLast' /\ PastPrices'
  <1> USE NoCallIsNotACall DEF Deals
  <1>1. pc'[h] = "done" /\ lock[req[h].agent] = h
    BY DEF CallsTyped, Routed, RoutedOf, Locked, Debited, Credited
  <1>2. ASSUME NEW g \in Calls \ {h}
        PROVE  /\ RoutedOf(g) /\ QuotedOf(g)
               /\ pc'[g] = pc[g] /\ req'[g] = req[g] /\ quote'[g] = quote[g]
               /\ pc[g] # "idle" => req[g].agent \in Agents
               /\ pc[g] \in Locked => lock[req[g].agent] = g /\ req[g].agent # req[h].agent
    BY <1>1, RequestsNameAgents DEF Others, Routed, Quoted, RoutedOf, TradeRequests
  <1>3. Routed'
    <2>1. ASSUME NEW g \in Calls \ {h} PROVE RoutedOf(g)'
      BY <1>2 DEF RoutedOf, Locked, Debited, Credited
    <2>2. RoutedOf(h)'
      BY <1>1 DEF Routed, RoutedOf, BuyLabels, SellLabels, Locked, Debited, Credited
    <2> QED
      BY <2>1, <2>2 DEF Routed
  <1>4. Quoted'
    <2>1. ASSUME NEW g \in Calls \ {h} PROVE QuotedOf(g)'
      <3>1. \A i, p : /\ Live(g, i, p)' <=> Live(g, i, p)
                      /\ Unlisted(g, i)' <=> Unlisted(g, i)
        BY DEF Live, LiveDuring, Unlisted
      <3>2. Market!Prices(quote[g].item)' = Market!Prices(quote[g].item)
        BY DEF Market!Prices
      <3>3. pc[g] \in Locked => balance'[req[g].agent] = balance[req[g].agent]
        BY <1>2 DEF Locked, Debited, Credited
      <3>4. pc[g] \in Locked => \A k \in goods : ToSell(g, k) => k \in goods' /\ ToSell(g, k)'
        BY <1>2 DEF ToSell
      <3>5. {"debitBuyer", "price", "pastPrice", "creditSeller"} \cup Debited \cup Credited \subseteq Locked
        BY DEF Locked
      <3>6. /\ pc[g] \in {"debitBuyer"} \cup Debited => quote[g].price <= balance'[req[g].agent]
            /\ pc[g] \in {"price", "pastPrice", "creditSeller"} \cup Credited => \E k \in goods' : ToSell(g, k)'
        BY <1>2, <3>3, <3>4, <3>5 DEF QuotedOf
      <3> QED
        BY <1>2, <3>1, <3>2, <3>6 DEF QuotedOf
    <2>2. QuotedOf(h)'
      BY <1>1 DEF QuotedOf, BuyLabels, SellLabels, Locked, Debited, Credited
    <2> QED
      BY <2>1, <2>2 DEF Quoted
  <1>5. ListingsLast' /\ PastPrices'
    BY DEF ListingsLast, PastPrices
  <1> QED
    BY <1>3, <1>4, <1>5

\* A good and its payment appear together.
LEMMA BuyCommitDeals == ASSUME Deals, NEW h \in Calls, BuyCommit(h) PROVE Deals'
  <1> USE NoCallIsNotACall DEF Deals
  <1> DEFINE new == Good(h, req[h].agent, quote[h].item, quote[h].price)
             row == Row(h, req[h].agent, TradeKey(h), -quote[h].price)
  <1>a. /\ pc[h] = "commitBuy" /\ Commit(h, {"ok", "error"})
        /\ goods' = goods \cup {new}
        /\ UNCHANGED <<batch, listings, history, quote, arrived>>
    BY DEF BuyCommit, marketVars
  <1>b. /\ req[h] \in TradeRequests /\ req[h].op = "buy"
        /\ Live(h, quote[h].item, quote[h].price) /\ Posts(h) = {row}
    BY <1>a DEF Routed, RoutedOf, Quoted, QuotedOf, BuyLabels, Posts, Debited
  <1>c. quote[h].item \in Items /\ quote[h].price \in Price /\ -quote[h].price \in Int
    BY <1>b DEF Live, LiveDuring, MarketTyped, Shop, Price
  <1>d. /\ ledger' = ledger \cup {row} /\ req[h].agent \in Agents
        /\ balance' = [balance EXCEPT ![req[h].agent] = balance[req[h].agent] + -quote[h].price]
        /\ Others(h) /\ req' = req /\ pc' = [pc EXCEPT ![h] = "done"]
        /\ lock' = [a \in Agents |-> IF lock[a] = h THEN NoCall ELSE lock[a]]
        /\ CallsTyped'
    BY <1>a, <1>b, <1>c, CommitOneRow
  <1>e. /\ new.id = h /\ new.agent = req[h].agent /\ new.item = quote[h].item
        /\ new.paid = quote[h].price /\ new.sold = NoCall /\ new.got = 0 /\ row.by = h
    BY DEF Good, Row
  <1>f. /\ pc'[h] = "done" /\ \A g \in Calls \ {h} : pc'[g] = pc[g]
        /\ \A g \in Calls : TradeKey(g)' = TradeKey(g)
    BY <1>d DEF CallsTyped, TradeKey, Key
  <1>g. /\ {r \in ledger : r.by = h} = {}
        /\ {g \in goods : g.id = h} = {} /\ {g \in goods : g.sold = h} = {}
    BY <1>a, NothingBooked
  <1>1. MarketTyped'
    <2>1. new \in Goods
      BY <1>c, <1>d DEF Good, Goods
    <2> QED
      BY <1>a, <2>1 DEF MarketTyped
  <1>2. Routed' /\ Quoted' /\ ListingsLast' /\ PastPrices'
    <2>1. \A a \in Agents \ {req[h].agent} : balance'[a] = balance[a]
      BY <1>d DEF CallsTyped
    <2>2. \A k \in goods : k.agent # req[h].agent => k \in goods'
      BY <1>a
    <2> QED
      BY <1>a, <1>d, <2>1, <2>2, CommitOthers
  <1>3. GoodsLast'
    <2> HIDE DEF new, row
    <2>1. \A g, k \in goods' : g.id = k.id => g = k
      BY <1>a, <1>e, <1>g DEF GoodsLast
    <2>2. ASSUME NEW g \in goods
          PROVE  /\ g.sold = NoCall <=> g.got = 0
                 /\ g.id \in Calls => /\ pc'[g.id] = "done" /\ req'[g.id].op = "buy"
                                      /\ Live(g.id, g.item, g.paid)
                 /\ g.sold \in Calls => /\ pc'[g.sold] = "done" /\ req'[g.sold].op = "sell"
                                        /\ req'[g.sold].ref = g.id
      BY <1>d, <1>f DEF GoodsLast
    <2>3. /\ new.sold = NoCall <=> new.got = 0
          /\ pc'[new.id] = "done" /\ req'[new.id].op = "buy" /\ Live(new.id, new.item, new.paid)
          /\ new.sold \notin Calls
      BY <1>b, <1>d, <1>e, <1>f
    <2>4. \A r \in ledger' : r.by \in Calls => pc'[r.by] = "done"
      BY <1>d, <1>e, <1>f DEF GoodsLast
    <2>5. \A g \in Calls : \A i, p : Live(g, i, p)' <=> Live(g, i, p)
      BY <1>a DEF Live, LiveDuring
    <2> QED
      BY <1>a, <2>1, <2>2, <2>3, <2>4, <2>5 DEF GoodsLast
  <1>4. GoodsAreBooked'
    <2>1. ASSUME NEW g \in Calls \ {h}
          PROVE  /\ {r \in ledger' : r.by = g} = {r \in ledger : r.by = g}
                 /\ {x \in goods' : x.id = g} = {x \in goods : x.id = g}
                 /\ {x \in goods' : x.sold = g} = {x \in goods : x.sold = g}
      <3> HIDE DEF new, row
      <3> QED
        BY <1>a, <1>d, <1>e
    <2>2. {r \in ledger' : r.by = h} = {row} /\ {x \in goods' : x.id = h} = {new}
      <3> HIDE DEF new, row
      <3> QED
        BY <1>a, <1>d, <1>e, <1>g
    <2>3. {Row(h, x.agent, TradeKey(h), -x.paid) : x \in {new}} = {row}
      <3> HIDE DEF new
      <3> QED
        BY <1>e
    <2>4. ASSUME NEW g \in Calls \ {h}, req[g] # NoRequest
          PROVE  LET rows == {r \in ledger' : r.by = g}
                 IN  /\ (req[g].op = "buy" => rows = {Row(g, x.agent, TradeKey(g), -x.paid) : x \in {y \in goods' : y.id = g}})
                     /\ (req[g].op = "sell" => rows = {Row(g, x.agent, TradeKey(g), x.got) : x \in {y \in goods' : y.sold = g}})
      <3> HIDE DEF new, row
      <3> QED
        BY <2>1, <2>4 DEF GoodsAreBooked
    <2>5. req[h] # NoRequest /\ req[h].op = "buy" =>
             {r \in ledger' : r.by = h} = {Row(h, x.agent, TradeKey(h), -x.paid) : x \in {y \in goods' : y.id = h}}
      BY <2>2, <2>3
    <2> HIDE DEF new, row
    <2>6. \A g \in Calls : /\ TradeKey(g)' = TradeKey(g) /\ req'[g] = req[g]
                           /\ \A a, k, n : Row(g, a, k, n)' = Row(g, a, k, n)
      BY <1>d, <1>f
    <2> QED
      BY <1>b, <2>4, <2>5, <2>6 DEF GoodsAreBooked
  <1> QED
    BY <1>1, <1>2, <1>3, <1>4, <1>d

\* A good is marked sold and its payment appears, together; it was the agent's, and
\* unsold, ever since the agent's row was locked.
LEMMA SellCommitDeals == ASSUME Deals, NEW h \in Calls, SellCommit(h) PROVE Deals'
  <1> USE NoCallIsNotACall DEF Deals
  <1> DEFINE row == Row(h, req[h].agent, TradeKey(h), quote[h].price)
             Now(g) == IF g.id = req[h].ref THEN [g EXCEPT !.sold = h, !.got = quote[h].price] ELSE g
  <1>a. /\ pc[h] = "commitSell" /\ Commit(h, {"ok", "error"})
        /\ goods' = {Now(g) : g \in goods}
        /\ UNCHANGED <<batch, listings, history, quote, arrived>>
    BY DEF SellCommit, marketVars
  <1>b. /\ req[h] \in TradeRequests /\ req[h].op = "sell" /\ Posts(h) = {row}
        /\ quote[h].price \in Price
        /\ \E g \in goods : ToSell(h, g)
    BY <1>a DEF Routed, RoutedOf, Quoted, QuotedOf, SellLabels, Posts, Debited, Credited
  <1>c. PICK old \in goods : ToSell(h, old)
    BY <1>b
  <1>d. /\ ledger' = ledger \cup {row} /\ req[h].agent \in Agents
        /\ balance' = [balance EXCEPT ![req[h].agent] = balance[req[h].agent] + quote[h].price]
        /\ Others(h) /\ req' = req /\ pc' = [pc EXCEPT ![h] = "done"]
        /\ lock' = [a \in Agents |-> IF lock[a] = h THEN NoCall ELSE lock[a]]
        /\ CallsTyped'
    <2>1. quote[h].price \in Int
      BY <1>b DEF Price
    <2> QED
      BY <1>a, <1>b, <2>1, CommitOneRow
  <1>e. \A g \in goods : /\ Now(g) \in Goods
                         /\ Now(g).id = g.id /\ Now(g).agent = g.agent /\ Now(g).item = g.item
                         /\ Now(g).paid = g.paid
                         /\ g # old => Now(g) = g
    <2>1. ASSUME NEW g \in goods
          PROVE  /\ Now(g) \in Goods
                 /\ Now(g).id = g.id /\ Now(g).agent = g.agent /\ Now(g).item = g.item
                 /\ Now(g).paid = g.paid
      <3>1. g \in Goods /\ quote[h].price \in Nat
        BY <1>b DEF MarketTyped, Price
      <3> QED
        BY <3>1 DEF Goods
    <2>2. ASSUME NEW g \in goods, g # old PROVE Now(g) = g
      BY <1>c, <2>2 DEF GoodsLast, ToSell
    <2> QED
      BY <2>1, <2>2
  <1>f. /\ old.id = req[h].ref /\ old.agent = req[h].agent /\ old.sold = NoCall /\ old.got = 0
        /\ Now(old).sold = h /\ Now(old).got = quote[h].price /\ quote[h].price # 0
    BY <1>b, <1>c DEF MarketTyped, Goods, Price, GoodsLast, ToSell
  <1>g. row.by = h
    BY DEF Row
  <1>h. /\ pc'[h] = "done" /\ \A g \in Calls \ {h} : pc'[g] = pc[g]
        /\ \A g \in Calls : TradeKey(g)' = TradeKey(g)
    BY <1>d DEF CallsTyped, TradeKey, Key
  <1>i. /\ {r \in ledger : r.by = h} = {}
        /\ {g \in goods : g.id = h} = {} /\ {g \in goods : g.sold = h} = {}
    BY <1>a, NothingBooked
  <1> HIDE DEF row, Now
  <1>1. MarketTyped'
    BY <1>a, <1>e DEF MarketTyped
  <1>2. Routed' /\ Quoted' /\ ListingsLast' /\ PastPrices'
    <2>1. \A a \in Agents \ {req[h].agent} : balance'[a] = balance[a]
      BY <1>d DEF CallsTyped
    <2>2. \A k \in goods : k.agent # req[h].agent => k \in goods'
      BY <1>a, <1>e, <1>f
    <2> QED
      BY <1>a, <1>d, <2>1, <2>2, CommitOthers
  <1>3. GoodsLast'
    <2>1. \A g, k \in goods' : g.id = k.id => g = k
      BY <1>a, <1>e DEF GoodsLast
    <2>2. ASSUME NEW g \in goods
          PROVE  /\ Now(g).sold = NoCall <=> Now(g).got = 0
                 /\ Now(g).sold \in Calls => /\ pc'[Now(g).sold] = "done" /\ req'[Now(g).sold].op = "sell"
                                             /\ req'[Now(g).sold].ref = Now(g).id
      BY <1>b, <1>d, <1>e, <1>f, <1>h DEF GoodsLast
    <2>3. ASSUME NEW g \in goods, Now(g).id \in Calls
          PROVE  /\ pc'[Now(g).id] = "done" /\ req'[Now(g).id].op = "buy"
                 /\ Live(Now(g).id, Now(g).item, Now(g).paid)
      BY <1>d, <1>e, <1>h, <2>3 DEF GoodsLast
    <2>4. \A r \in ledger' : r.by \in Calls => pc'[r.by] = "done"
      BY <1>d, <1>g, <1>h DEF GoodsLast
    <2>5. \A g \in Calls : \A i, p : Live(g, i, p)' <=> Live(g, i, p)
      BY <1>a DEF Live, LiveDuring
    <2> QED
      BY <1>a, <2>1, <2>2, <2>3, <2>4, <2>5 DEF GoodsLast
  <1>4. GoodsAreBooked'
    <2>1. ASSUME NEW g \in Calls \ {h}
          PROVE  /\ {r \in ledger' : r.by = g} = {r \in ledger : r.by = g}
                 /\ {x \in goods' : x.sold = g} = {x \in goods : x.sold = g}
      <3>1. {x \in goods' : x.sold = g} \subseteq {x \in goods : x.sold = g}
        BY <1>a, <1>e, <1>f
      <3>2. {x \in goods : x.sold = g} \subseteq {x \in goods' : x.sold = g}
        BY <1>a, <1>e, <1>f
      <3> QED
        BY <1>d, <1>g, <3>1, <3>2
    <2>2. ASSUME NEW g \in Calls
          PROVE  {Row(g, x.agent, TradeKey(g), -x.paid) : x \in {y \in goods' : y.id = g}}
                   = {Row(g, x.agent, TradeKey(g), -x.paid) : x \in {y \in goods : y.id = g}}
      <3>1. \A x \in {y \in goods' : y.id = g} : \E k \in {y \in goods : y.id = g} :
               x.agent = k.agent /\ x.paid = k.paid
        BY <1>a, <1>e
      <3>2. \A x \in {y \in goods : y.id = g} : \E k \in {y \in goods' : y.id = g} :
               x.agent = k.agent /\ x.paid = k.paid
        BY <1>a, <1>e
      <3> QED
        BY <3>1, <3>2 DEF Row
    <2>3. {r \in ledger' : r.by = h} = {row} /\ {x \in goods' : x.sold = h} = {Now(old)}
      BY <1>a, <1>d, <1>e, <1>f, <1>g, <1>i
    <2>4. {Row(h, x.agent, TradeKey(h), x.got) : x \in {Now(old)}} = {row}
      BY <1>e, <1>f DEF row
    <2>5. ASSUME NEW g \in Calls \ {h}, req[g] # NoRequest
          PROVE  LET rows == {r \in ledger' : r.by = g}
                 IN  /\ (req[g].op = "buy" => rows = {Row(g, x.agent, TradeKey(g), -x.paid) : x \in {y \in goods' : y.id = g}})
                     /\ (req[g].op = "sell" => rows = {Row(g, x.agent, TradeKey(g), x.got) : x \in {y \in goods' : y.sold = g}})
      BY <2>1, <2>2, <2>5 DEF GoodsAreBooked
    <2>6. req[h].op = "sell" =>
             {r \in ledger' : r.by = h} = {Row(h, x.agent, TradeKey(h), x.got) : x \in {y \in goods' : y.sold = h}}
      BY <2>3, <2>4
    <2>7. \A g \in Calls : /\ TradeKey(g)' = TradeKey(g) /\ req'[g] = req[g]
                           /\ \A a, k, n : Row(g, a, k, n)' = Row(g, a, k, n)
      BY <1>d, <1>h
    <2> QED
      BY <1>b, <2>5, <2>6, <2>7 DEF GoodsAreBooked
  <1> QED
    BY <1>1, <1>2, <1>3, <1>4, <1>d

-----------------------------------------------------------------------------
(* A refresh runs under the calls: what they hold of the market only grows. *)

LEMMA RelistDeals == ASSUME Deals, Relist PROVE Deals'
  <1> USE DEF Deals
  <1>a. /\ batch < MaxBatches /\ batch' = batch + 1
        /\ UNCHANGED <<goods, quote, arrived, ledger, balance, lock, pend, req, pc, resp>>
    BY DEF Relist, dbVars, callVars, tradeVars
  <1>b. PICK prices \in Batches, since \in 0..batch :
          LET unseen == {l \in listings : l.id[1] > since}
          IN  /\ listings' = {[l EXCEPT !.expired = TRUE] : l \in listings \ unseen} \cup unseen
                   \cup {Listing(batch + 1, i, prices[i]) : i \in DOMAIN prices}
              /\ \E later \in SUBSET {l.item : l \in unseen} :
                   history' = [i \in Items |-> IF i \in DOMAIN prices \ later
                                               THEN prices[i] ELSE history[i]]
    BY DEF Relist
  <1> DEFINE unseen  == {l \in listings : l.id[1] > since}
             Gone(l) == [l EXCEPT !.expired = TRUE]
             New(i)  == Listing(batch + 1, i, prices[i])
  <1>c. PICK later \in SUBSET {l.item : l \in unseen} :
          history' = [i \in Items |-> IF i \in DOMAIN prices \ later THEN prices[i] ELSE history[i]]
    BY <1>b
  <1>m. /\ listings' = {Gone(l) : l \in listings \ unseen} \cup unseen \cup {New(i) : i \in DOMAIN prices}
        /\ unseen \subseteq listings
    BY <1>b
  <1>d. /\ batch \in Nat /\ batch' \in 0..MaxBatches
        /\ \A i \in DOMAIN prices : i \in Items /\ prices[i] \in Price
    BY <1>a, BatchesArePrices, MaxBatchesIsNat DEF MarketTyped
  \* The new listings.
  <1>e. \A i \in DOMAIN prices :
          LET l == New(i)
          IN  /\ l \in listings' /\ l \in Shop /\ l.id = <<batch + 1, i>> /\ l.id[1] = batch + 1
              /\ l.item = i /\ l.price = prices[i]
    <2>1. ASSUME NEW i \in DOMAIN prices
          PROVE  LET l == New(i)
                 IN  /\ l \in Shop /\ l.id = <<batch + 1, i>> /\ l.id[1] = batch + 1
                     /\ l.item = i /\ l.price = prices[i]
      BY <1>d DEF Listing, Shop
    <2> HIDE DEF New
    <2> QED
      BY <1>m, <2>1
  \* The old ones stay, or expire.
  <1>f. ASSUME NEW l \in listings
        PROVE  /\ l \in Shop /\ l.id[1] <= batch
               /\ Gone(l) \in Shop
               /\ Gone(l).id = l.id
               /\ Gone(l).item = l.item
               /\ Gone(l).price = l.price
               /\ Gone(l).expired
    <2>1. l \in Shop /\ l.id[1] <= batch
      BY DEF MarketTyped, ListingsLast
    <2> QED
      BY <2>1 DEF Shop
  <1> HIDE DEF unseen, Gone, New
  <1>n. ASSUME NEW l \in listings PROVE l.id[1] \in Nat /\ l.id[1] <= batch /\ l.id[1] # batch + 1
    <2>1. l.id[1] \in Nat
      BY <1>f DEF Shop
    <2> QED
      BY <1>d, <1>f, <2>1
  <1>g. ASSUME NEW l \in listings
        PROVE  \E m \in listings' : m.id = l.id /\ m.item = l.item /\ m.price = l.price
    BY <1>m, <1>f
  <1>h. ASSUME NEW m \in listings'
        PROVE  \/ \E l \in listings : /\ m.id = l.id /\ m.item = l.item /\ m.price = l.price
                                      /\ (m = l /\ l \in unseen) \/ (m.expired /\ m = Gone(l) /\ l \notin unseen)
               \/ \E i \in DOMAIN prices : m = New(i)
    <2>1. CASE m \in unseen
      BY <1>m, <2>1
    <2>2. CASE \E l \in listings \ unseen : m = Gone(l)
      BY <1>f, <2>2
    <2>3. m \in unseen \/ (\E l \in listings \ unseen : m = Gone(l)) \/ \E i \in DOMAIN prices : m = New(i)
      BY <1>m
    <2> QED
      BY <2>1, <2>2, <2>3
  <1>i. \A g \in Calls : \A m \in arrived[g] :
          m.id[1] <= batch /\ \A l \in listings : m.id = l.id /\ m.expired => l.expired
    BY DEF ListingsLast
  <1>j. ASSUME NEW g \in Calls, NEW i, NEW p, Live(g, i, p) PROVE Live(g, i, p)'
    BY <1>a, <1>g, <1>j DEF Live, LiveDuring
  <1>k. ASSUME NEW g \in Calls, NEW i, Unlisted(g, i) PROVE Unlisted(g, i)'
    <2> SUFFICES ASSUME NEW m \in arrived[g], m \in listings', m.item = i, ~m.expired PROVE FALSE
      BY <1>a DEF Unlisted
    <2>1. ~ \E j \in DOMAIN prices : m = New(j)
      BY <1>d, <1>e, <1>i
    <2>2. m \in listings
      BY <1>h, <2>1
    <2> QED
      BY <1>k, <2>2 DEF Unlisted
  <1>l. ASSUME NEW i PROVE Market!Prices(i) \subseteq Market!Prices(i)'
    BY <1>g DEF Market!Prices
  <1>1. MarketTyped'
    <2>1. listings' \subseteq Shop
      <3> SUFFICES ASSUME NEW m \in listings' PROVE m \in Shop
        OBVIOUS
      <3>1. CASE m \in listings
        BY <3>1, <1>f
      <3>2. CASE \E l \in listings : m = Gone(l)
        BY <3>2, <1>f
      <3>3. CASE \E i \in DOMAIN prices : m = New(i)
        BY <3>3, <1>e
      <3> QED
        BY <1>h, <3>1, <3>2, <3>3
    <2>2. history' \in [Items -> Nat]
      BY <1>c, <1>d DEF MarketTyped, Price
    <2> QED
      BY <1>a, <1>d, <2>1, <2>2 DEF MarketTyped
  <1>2. CallsTyped'
    <2>1. \A g \in Calls : Posts(g)' = Posts(g)
      BY <1>a DEF Posts, Row, TradeKey, Key
    <2> QED
      BY <1>a, <2>1 DEF CallsTyped
  <1>3. Routed'
    BY <1>a DEF Routed, RoutedOf
  <1>4. Quoted'
    <2>1. ASSUME NEW g \in Calls PROVE QuotedOf(g)'
      <3>1. QuotedOf(g)
        BY DEF Quoted
      <3>2. \A k : ToSell(g, k)' <=> ToSell(g, k)
        BY <1>a DEF ToSell
      <3> QED
        BY <1>a, <1>j, <1>k, <1>l, <3>1, <3>2 DEF QuotedOf
    <2> QED
      BY <2>1 DEF Quoted
  <1>5. ListingsLast'
    <2>1. ASSUME NEW l \in listings', NEW m \in listings', l.id = m.id PROVE l = m
      <3>1. CASE \E i \in DOMAIN prices : l = New(i)
        <4>1. PICK i \in DOMAIN prices : l = New(i)
          BY <3>1
        <4>2. m.id[1] = batch + 1 /\ m.id = <<batch + 1, i>>
          BY <1>e, <2>1, <4>1
        <4>3. PICK j \in DOMAIN prices : m = New(j)
          BY <1>h, <1>n, <4>2
        <4>4. m.id = <<batch + 1, j>>
          BY <1>e, <4>3
        <4> QED
          BY <4>1, <4>2, <4>3, <4>4
      <3>2. CASE ~\E i \in DOMAIN prices : l = New(i)
        <4>1. PICK k \in listings : /\ l.id = k.id
                                    /\ (l = k /\ k \in unseen) \/ (l.expired /\ l = Gone(k) /\ k \notin unseen)
          BY <1>h, <3>2
        <4>2. m.id[1] <= batch
          BY <1>f, <2>1, <4>1
        <4>3. ~\E i \in DOMAIN prices : m = New(i)
          BY <1>d, <1>e, <4>2
        <4>4. PICK n \in listings : /\ m.id = n.id
                                    /\ (m = n /\ n \in unseen) \/ (m.expired /\ m = Gone(n) /\ n \notin unseen)
          BY <1>h, <4>3
        <4>5. k = n
          BY <2>1, <4>1, <4>4 DEF ListingsLast
        <4> QED
          BY <4>1, <4>4, <4>5
      <3> QED
        BY <3>1, <3>2
    <2>2. ASSUME NEW l \in listings' PROVE l.id[1] <= batch'
      <3>1. CASE \E k \in listings : l.id = k.id
        BY <1>a, <1>d, <1>n, <3>1
      <3>2. CASE \E i \in DOMAIN prices : l = New(i)
        BY <1>a, <1>d, <1>e, <3>2
      <3> QED
        BY <1>h, <3>1, <3>2
    <2>3. ASSUME NEW g \in Calls, NEW m \in arrived'[g]
          PROVE  /\ m.id[1] <= batch'
                 /\ \A l \in listings' : m.id = l.id /\ m.expired => l.expired
      <3>1. m.id[1] \in Nat /\ m.id[1] <= batch
        BY <1>a, <1>i DEF MarketTyped, Shop
      <3>2. ASSUME NEW l \in listings', m.id = l.id, m.expired PROVE l.expired
        <4>1. ~\E i \in DOMAIN prices : l = New(i)
          BY <1>d, <1>e, <3>1, <3>2
        <4> QED
          BY <1>a, <1>h, <1>i, <3>2, <4>1
      <3> QED
        BY <1>a, <1>d, <3>1, <3>2
    <2> QED
      BY <2>1, <2>2, <2>3 DEF ListingsLast
  <1>6. PastPrices'
    <2>1. ASSUME NEW i \in Items, i \in DOMAIN prices \ later
          PROVE  history'[i] # 0 /\ \E l \in listings' : l.item = i /\ l.price = history'[i]
      BY <1>c, <1>d, <1>e, <2>1 DEF Price
    <2>2. ASSUME NEW i \in Items, i \notin DOMAIN prices \ later, history[i] # 0
          PROVE  history'[i] # 0 /\ \E l \in listings' : l.item = i /\ l.price = history'[i]
      BY <1>c, <1>g, <2>2 DEF PastPrices
    <2>3. ASSUME NEW i \in Items, i \notin DOMAIN prices \ later, history[i] = 0
          PROVE  history'[i] = 0 /\ i \notin DOMAIN FirstBatch /\ \A l \in listings' : l.item # i
      <3>1. i \notin DOMAIN FirstBatch /\ \A l \in listings : l.item # i
        BY <2>3 DEF PastPrices
      <3>2. i \notin DOMAIN prices
        <4>1. i \notin {l.item : l \in unseen}
          BY <1>m, <3>1
        <4>2. i \notin later
          BY <4>1
        <4>3. i \notin DOMAIN prices \ later
          BY <2>3
        <4> QED
          BY <4>2, <4>3
      <3> QED
        BY <1>c, <1>e, <1>h, <2>3, <3>1, <3>2
    <2> QED
      BY <2>1, <2>2, <2>3 DEF PastPrices
  <1>7. GoodsLast'
    BY <1>a, <1>j DEF GoodsLast
  <1>8. GoodsAreBooked'
    BY <1>a DEF GoodsAreBooked, Row, TradeKey, Key
  <1> QED
    BY <1>1, <1>2, <1>3, <1>4, <1>5, <1>6, <1>7, <1>8

-----------------------------------------------------------------------------
(* Every step. *)

\* Deals is inductive.
LEMMA DealsNext == Deals /\ [TradeNext]_mvars => Deals'
  <1> SUFFICES ASSUME Deals, [TradeNext]_mvars PROVE Deals'
    OBVIOUS
  <1>1. CASE UNCHANGED mvars
    BY <1>1 DEF mvars, Deals, MarketTyped, CallsTyped, Routed, RoutedOf, ListingsLast, PastPrices,
                Quoted, QuotedOf, GoodsLast, GoodsAreBooked, Live, LiveDuring, Unlisted, ToSell,
                Market!Prices, Posts, Row, TradeKey, Key
  <1>2. ASSUME NEW h \in Calls, ReceiveTrade(h) \/ Trade(h) \/ TradeAbort(h) PROVE Deals'
    BY <1>2, ReceiveDeals, BeginDeals, IdemDeals, ListingDeals, LockDeals, CheckDeals, DebitDeals,
       CreditDeals, TouchDeals, FindDeals, PriceDeals, PastDeals, AbortDeals, BuyCommitDeals,
       SellCommitDeals DEF Trade, Buy, Sell
  <1>3. CASE Relist
    BY <1>3, RelistDeals
  <1> QED
    BY <1>1, <1>2, <1>3 DEF TradeNext, TradeFinished

\* Deals always holds.
LEMMA DealsAreKept == TradeSpec => []Deals
  <1> QED
    BY InitDeals, DealsNext, PTL DEF TradeSpec

\* The types of the tables and of the handlers' variables; no price is below 1.
THEOREM TradeTypes == TradeSpec => []TradeTypeOK
  <1>1. Deals => TradeTypeOK
    BY DEF Deals, MarketTyped, CallsTyped, GoodsLast, TradeTypeOK, Shop, Goods
  <1> QED
    BY <1>1, DealsAreKept, PTL

\* Goods and ledger tell one story, for any number of concurrent trades.
THEOREM GoodsAreInTheBooks == TradeSpec => []GoodsAreBooked
  <1>1. Deals => GoodsAreBooked
    BY DEF Deals
  <1> QED
    BY <1>1, DealsAreKept, PTL

-----------------------------------------------------------------------------
(* What a step does to the market. *)

\* Only refreshes and commits are seen by the market.
LEMMA MarketSteps ==
    ASSUME TradeNext
    PROVE  \/ Relist
           \/ \E h \in Calls : BuyCommit(h) \/ SellCommit(h)
           \/ UNCHANGED <<balance, batch, listings, goods>>
  BY DEF TradeNext, ReceiveTrade, Trade, BeginTrade, TradeIdem, LockTrader, TouchGoods, Buy, Sell,
         BuyListing, BuyCheck, BuyDebit, SellFind, SellPrice, SellPastPrice, SellCredit, PostTrade,
         TradeAbort, Receive, Begin, LockAgent, Write, Rollback, TradeFinished, mvars, dbVars,
         marketVars, tradeVars

\* What a buy commits.
LEMMA Bought ==
    ASSUME Deals, NEW h \in Calls, BuyCommit(h)
    PROVE  LET new == Good(h, req[h].agent, quote[h].item, quote[h].price)
           IN  /\ new.id = h /\ new.sold = NoCall
               /\ new.item = quote[h].item /\ new.paid = quote[h].price
               /\ goods' = goods \cup {new}
               /\ req[h].agent \in Agents /\ Live(h, quote[h].item, quote[h].price)
               /\ quote[h].price \in Nat /\ quote[h].price <= balance[req[h].agent]
               /\ balance' = [balance EXCEPT ![req[h].agent] = balance[req[h].agent] - quote[h].price]
               /\ UNCHANGED <<batch, listings>>
  <1> USE DEF Deals
  <1>1. /\ pc[h] = "commitBuy" /\ Commit(h, {"ok", "error"})
        /\ goods' = goods \cup {Good(h, req[h].agent, quote[h].item, quote[h].price)}
        /\ UNCHANGED <<batch, listings, quote, arrived>>
    BY DEF BuyCommit, marketVars
  <1>2. /\ Live(h, quote[h].item, quote[h].price) /\ quote[h].price <= balance[req[h].agent]
        /\ Posts(h) = {Row(h, req[h].agent, TradeKey(h), -quote[h].price)}
    BY <1>1 DEF Routed, RoutedOf, Quoted, QuotedOf, BuyLabels, Posts, Debited
  <1>3. quote[h].price \in Nat /\ -quote[h].price \in Int
    BY DEF MarketTyped
  <1>4. /\ req[h].agent \in Agents
        /\ balance' = [balance EXCEPT ![req[h].agent] = balance[req[h].agent] + -quote[h].price]
    BY <1>1, <1>2, <1>3, CommitOneRow
  <1>5. balance[req[h].agent] + -quote[h].price = balance[req[h].agent] - quote[h].price
    BY <1>3, <1>4 DEF CallsTyped
  <1> QED
    BY <1>1, <1>2, <1>3, <1>4, <1>5 DEF Good

\* What a sale commits.
LEMMA Sold ==
    ASSUME Deals, NEW h \in Calls, SellCommit(h)
    PROVE  \E old \in goods :
             /\ old.agent = req[h].agent /\ old.agent \in Agents /\ old.item = quote[h].item
             /\ old.sold = NoCall
             /\ goods' = (goods \ {old}) \cup {[old EXCEPT !.sold = h, !.got = quote[h].price]}
             /\ quote[h].price \in Nat /\ quote[h].price \in Market!Prices(old.item)
             /\ Live(h, old.item, quote[h].price) \/ Unlisted(h, old.item)
             /\ balance' = [balance EXCEPT ![old.agent] = balance[old.agent] + quote[h].price]
             /\ UNCHANGED <<batch, listings>>
  <1> USE DEF Deals
  <1> DEFINE Now(g) == [g EXCEPT !.sold = h, !.got = quote[h].price]
  <1>1. /\ pc[h] = "commitSell" /\ Commit(h, {"ok", "error"})
        /\ goods' = {IF g.id = req[h].ref THEN Now(g) ELSE g : g \in goods}
        /\ UNCHANGED <<batch, listings, quote, arrived>>
    BY DEF SellCommit, marketVars
  <1>2. /\ \E g \in goods : ToSell(h, g)
        /\ quote[h].price \in Price /\ quote[h].price \in Market!Prices(quote[h].item)
        /\ Live(h, quote[h].item, quote[h].price) \/ Unlisted(h, quote[h].item)
        /\ Posts(h) = {Row(h, req[h].agent, TradeKey(h), quote[h].price)}
    BY <1>1 DEF Quoted, QuotedOf, Posts, Debited, Credited
  <1>3. PICK old \in goods : ToSell(h, old)
    BY <1>2
  <1>4. quote[h].price \in Nat /\ quote[h].price \in Int
    BY <1>2 DEF Price
  <1>5. /\ req[h].agent \in Agents
        /\ balance' = [balance EXCEPT ![req[h].agent] = balance[req[h].agent] + quote[h].price]
    BY <1>1, <1>2, <1>4, CommitOneRow
  <1>6. goods' = (goods \ {old}) \cup {Now(old)}
    <2>1. \A g \in goods : g.id = req[h].ref <=> g = old
      BY <1>3 DEF GoodsLast, ToSell
    <2> HIDE DEF Now
    <2> QED
      BY <1>1, <2>1
  <1>7. /\ old.agent = req[h].agent /\ old.item = quote[h].item /\ old.sold = NoCall
    BY <1>3 DEF ToSell
  <1> QED
    BY <1>1, <1>2, <1>4, <1>5, <1>6, <1>7

\* No trade is at a price that had expired before its call arrived.
THEOREM PricesAreFresh == TradeSpec => NoStalePrice
  <1> DEFINE Fresh(h) ==
        /\ \A g \in goods' \ goods : g.id = h =>
             \E l \in LiveDuring(h) : l.item = g.item /\ l.price = g.paid
        /\ \A g \in goods' \ goods : g.sold = h =>
             \/ \E l \in LiveDuring(h) : l.item = g.item /\ l.price = g.got
             \/ ~\E l \in arrived[h] \cap listings : l.item = g.item /\ ~l.expired
  <1>1. Deals /\ [TradeNext]_mvars => [\A h \in Calls : Fresh(h)]_mvars
    <2> SUFFICES ASSUME Deals, TradeNext, NEW h \in Calls, goods' # goods PROVE Fresh(h)
      BY DEF mvars
    <2>1. PICK t \in Calls : BuyCommit(t) \/ SellCommit(t)
      BY MarketSteps DEF Relist, tradeVars
    <2>2. CASE BuyCommit(t)
      <3> DEFINE new == Good(t, req[t].agent, quote[t].item, quote[t].price)
      <3>1. /\ new.id = t /\ new.sold = NoCall /\ new.item = quote[t].item /\ new.paid = quote[t].price
            /\ goods' = goods \cup {new} /\ Live(t, quote[t].item, quote[t].price)
        BY <2>2, Bought
      <3> HIDE DEF new
      <3> QED
        BY <3>1, NoCallIsNotACall DEF Live
    <2>3. CASE SellCommit(t)
      <3>1. PICK old \in goods :
              /\ goods' = (goods \ {old}) \cup {[old EXCEPT !.sold = t, !.got = quote[t].price]}
              /\ Live(t, old.item, quote[t].price) \/ Unlisted(t, old.item)
        BY <2>3, Sold
      <3> DEFINE new == [old EXCEPT !.sold = t, !.got = quote[t].price]
      <3>2. /\ new.id = old.id /\ new.item = old.item /\ new.paid = old.paid
            /\ new.sold = t /\ new.got = quote[t].price
        BY DEF Deals, MarketTyped, Goods
      <3>3. old.id \in Calls => Live(old.id, old.item, old.paid)
        BY DEF Deals, GoodsLast
      <3>4. goods' = (goods \ {old}) \cup {new}
        BY <3>1
      <3> HIDE DEF new
      <3> QED
        BY <3>1, <3>2, <3>3, <3>4 DEF Live, Unlisted
    <2> QED
      BY <2>1, <2>2, <2>3
  <1> QED
    BY <1>1, DealsAreKept, PTL DEF TradeSpec, NoStalePrice

\* The handlers implement MarketBook: every step is one of its steps, or none.
THEOREM HandlersImplementMarket == TradeSpec => TradesAreBooked
  <1>1. TradeInit => Market!MarketInit
    BY DEF TradeInit, LedgerInit, Market!MarketInit, Listing, Market!Listed
  <1>2. Deals /\ [TradeNext]_mvars => [Market!MarketNext]_(Market!bookVars)
    <2> SUFFICES ASSUME Deals, TradeNext PROVE Market!MarketNext \/ UNCHANGED Market!bookVars
      BY DEF mvars, Market!bookVars
    <2>1. CASE Relist
      <3>1. PICK prices \in Batches, since \in 0..batch :
              LET unseen == {l \in listings : l.id[1] > since}
              IN  listings' = {[l EXCEPT !.expired = TRUE] : l \in listings \ unseen} \cup unseen
                      \cup {Listing(batch + 1, i, prices[i]) : i \in DOMAIN prices}
        BY <2>1 DEF Relist
      <3> DEFINE unseen == {l \in listings : l.id[1] > since}
                 seen   == {l \in listings : l.id[1] <= since}
      <3>2. seen = listings \ unseen /\ unseen = listings \ seen
        <4>1. \A l \in listings : l.id[1] > since <=> ~(l.id[1] <= since)
          BY DEF Deals, MarketTyped, Shop
        <4> QED
          BY <4>1
      <3>3. listings' = (listings \ seen) \cup {[l EXCEPT !.expired = TRUE] : l \in seen}
               \cup {Market!Listed(batch + 1, i, prices[i]) : i \in DOMAIN prices}
        <4>1. listings' = {[l EXCEPT !.expired = TRUE] : l \in listings \ unseen} \cup unseen
                      \cup {Market!Listed(batch + 1, i, prices[i]) : i \in DOMAIN prices}
          BY <3>1 DEF Listing, Market!Listed
        <4> HIDE DEF seen, unseen
        <4>2. seen = listings \ unseen /\ unseen = listings \ seen
          BY <3>2
        <4> QED
          BY <4>1, <4>2
      <3>4. Market!List(prices, seen)
        BY <2>1, <3>3 DEF Relist, Market!List, dbVars, tradeVars
      <3> QED
        BY <3>4 DEF Market!MarketNext
    <2>2. ASSUME NEW h \in Calls, BuyCommit(h) PROVE Market!MarketNext
      <3> DEFINE a == req[h].agent
      <3>1. /\ a \in Agents /\ Live(h, quote[h].item, quote[h].price)
            /\ goods' = goods \cup {Good(h, a, quote[h].item, quote[h].price)}
            /\ quote[h].price <= balance[a]
            /\ balance' = [balance EXCEPT ![a] = balance[a] - quote[h].price]
            /\ UNCHANGED <<batch, listings>>
        BY <2>2, Bought
      <3>2. PICK l \in listings : l.item = quote[h].item /\ l.price = quote[h].price
        BY <3>1 DEF Live, LiveDuring
      <3>3. Good(h, a, quote[h].item, quote[h].price) = Market!Bought(h, a, l)
        BY <3>2 DEF Good, Market!Bought
      <3>4. ~Market!Made(h)
        BY <2>2, NothingBooked DEF Deals, BuyCommit, Market!Made
      <3> HIDE DEF a
      <3>5. Market!Purchase(h, a, l)
        BY <3>1, <3>2, <3>3, <3>4 DEF Market!Purchase
      <3> QED
        BY <3>1, <3>5 DEF Market!MarketNext
    <2>3. ASSUME NEW h \in Calls, SellCommit(h) PROVE Market!MarketNext
      <3>1. PICK old \in goods :
             /\ old.agent \in Agents /\ old.sold = NoCall
             /\ goods' = (goods \ {old}) \cup {[old EXCEPT !.sold = h, !.got = quote[h].price]}
             /\ quote[h].price \in Market!Prices(old.item)
             /\ balance' = [balance EXCEPT ![old.agent] = balance[old.agent] + quote[h].price]
             /\ UNCHANGED <<batch, listings>>
        BY <2>3, Sold
      <3>2. ~Market!Made(h)
        BY <2>3, NothingBooked DEF Deals, SellCommit, Market!Made
      <3>3. Market!Sale(h, old, quote[h].price)
        BY <3>1, <3>2 DEF Market!Sale
      <3> QED
        BY <3>1, <3>3 DEF Market!MarketNext
    <2> QED
      BY <2>1, <2>2, <2>3, MarketSteps DEF Market!bookVars
  <1> QED
    BY <1>1, <1>2, DealsAreKept, PTL DEF TradeSpec, TradesAreBooked, Market!MarketSpec
=============================================================================
