---------------------------- MODULE TradeSafety ----------------------------
(* What must be true of buying and selling. *)
EXTENDS MarketTrade

TradeLabels  == {"idle", "idem", "listing", "begin", "lockBuyer", "checkBuyer",
                 "debitBuyer", "stock", "commitBuy", "lockSeller", "find", "price",
                 "pastPrice", "creditSeller", "mark", "commitSell", "done"}
TradeAnswers == {"none", "ok", "duplicate", "error", "insufficient", "gone", "sold",
                 "unauthorized", "invalid"}

\* The tables and the handlers' local variables have their types; a price is
\* never below 1, whether listed, paid or got.
TradeTypeOK ==
    /\ balance \in [Agents -> Int]
    /\ lock \in [Agents -> Calls \cup {NoCall}]
    /\ pc \in [Calls -> TradeLabels]
    /\ resp \in [Calls -> TradeAnswers]
    /\ batch \in 0..MaxBatches
    /\ \A l \in listings : l.item \in Items /\ l.price \in Price
    /\ history \in [Items -> Nat]
    /\ \A g \in goods : /\ g.agent \in Agents /\ g.item \in Items /\ g.paid \in Price
                        /\ g.sold = NoCall <=> g.got = 0

\* The goods and the ledger tell one story: what call h bought or sold is in
\* inventories exactly when its payment is in the ledger, with the same price,
\* for the same agent (market.go:144-162 and 259-277 are one transaction each).
\* So a good is sold once, whatever sells of it run at the same time.
GoodsAreBooked ==
    \A h \in Calls :
        LET rows == {r \in ledger : r.by = h}
        IN  /\ req[h] # NoRequest /\ req[h].op = "buy" =>
                 rows = {Row(h, g.agent, TradeKey(h), -g.paid) : g \in {x \in goods : x.id = h}}
            /\ req[h] # NoRequest /\ req[h].op = "sell" =>
                 rows = {Row(h, g.agent, TradeKey(h), g.got) : g \in {x \in goods : x.sold = h}}

\* A trade is at a price that was on sale at some moment of the call: never at
\* one that had expired before the call arrived.  Only a sale of an item that
\* nothing keeps on sale, from the call's arrival to its commit, may be at a past
\* price, or 1 (market.go:104-131, 240-255).
LiveDuring(h) == {l \in listings : ~\E m \in arrived[h] : m.id = l.id /\ m.expired}
NoStalePrice ==
    [][\A h \in Calls :
         /\ \A g \in goods' \ goods : g.id = h =>
              \E l \in LiveDuring(h) : l.item = g.item /\ l.price = g.paid
         /\ \A g \in goods' \ goods : g.sold = h =>
              \/ \E l \in LiveDuring(h) : l.item = g.item /\ l.price = g.got
              \/ ~\E l \in arrived[h] \cap listings : l.item = g.item /\ ~l.expired
      ]_mvars

-----------------------------------------------------------------------------
(* The market.  Each commit of a trade or a refresh is one of its steps.    *)

Market == INSTANCE MarketBook WITH funds   <- balance,
                                   Trades  <- Calls,
                                   NoTrade <- NoCall

\* The concurrent handlers implement MarketBook: a purchase takes its price from
\* funds that cover it and a sale pays for one good, each in one step and once per
\* call, whatever runs between the statements (market.go:114-181, 212-296).
TradesAreBooked == Market!MarketSpec
=============================================================================
