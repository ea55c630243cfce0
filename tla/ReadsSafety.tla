----------------------------- MODULE ReadsSafety -----------------------------
(* What an answer that was put together by several SELECTs may be relied on for. *)
EXTENDS MarketReads

Has(statement) == seen.begun /\ statement \notin failed \cup ToSet(todo)

\* The balance and the inventory of a snapshot agree on the past: a good that the
\* balance has paid for is shown, unless it has been sold since, and none is shown
\* that the balance has been paid for.  What is shown is counted in the volume.
\* The balance is read first for that (market.go:552-615).
SnapshotMissesNoGood ==
    Has("goods") =>
        /\ \A g \in goods : g.agent = Me /\ g.id \in seen.trades /\ g.sold = NoTrade =>
             g \in seen.goods
        /\ ~\E g \in goods : g.sold \in seen.trades /\ \E s \in seen.goods : s.id = g.id
        /\ Has("volume") => \A g \in seen.goods : g.id \in seen.counted

\* The event of an answer is at least as new as the one that each listing in it was
\* priced by, even if refreshes overlap: the listings are read first (market.go:29-65,
\* 639-697).
EventIsNotOlder ==
    Has("event") => \A l \in seen.listings :
        l.id[1] \in events => at[l.id[1]] <= seen.event

\* change_pct compares a listing with a price of an earlier refresh, never with its
\* own or a later one, though the prices are read before the listings; and the only
\* refreshes it passes over are the newest one of the prices it has read and those
\* that ended between the two SELECTs (market.go:623-671).  As long as refreshes do
\* not overlap.
PassedOver(l) ==
    {m \in listings : m.item = l.item /\ seen.prices[l.item].before < at[m.id[1]]
                                     /\ at[m.id[1]] < at[l.id[1]]}
ChangeIsFromEarlier ==
    ~overlapped => \A l \in seen.listings : seen.prices[l.item].before # -1 =>
        /\ seen.prices[l.item].before < at[l.id[1]]
        /\ \A m \in PassedOver(l) : seen.prices[l.item].newest <= at[m.id[1]]

\* Paging through the sales, whatever is sold meanwhile and whatever limit is asked
\* for, misses none that was there at the start: sales are never taken back, so a row
\* only moves to later pages, and the limit that was served is answered
\* (market.go:400-445).
PagingMissesNothing ==
    seen.offset > 0 /\ todo = <<>> => seen.sold \subseteq seen.rows
=============================================================================
