---------------------------- MODULE RefreshSafety ----------------------------
(* What must be true of the prices, whoever refreshes them. *)
EXTENDS MarketRefresh

Labels    == {"idle", "current", "price", "begin", "expire", "insert", "commit", "done"}
Positive  == Nat \ {0}
Shelf     == [batch: Jobs \cup {NoJob}, item: Items, price: Positive, expired: BOOLEAN]
ActiveOf(i) == {l \in Active : l.item = i}

\* Tables and job variables have their types; every price and anchor is at least 1.
RefreshTypeOK ==
    /\ anchor \in [Items -> Positive]
    /\ listings \subseteq Shelf
    /\ history \subseteq [batch: Jobs \cup {NoJob}, item: Items, price: Positive]
    /\ pc \in [Jobs -> Labels]
    /\ \A j \in Jobs : /\ marks[j] \subseteq Shelf
                       /\ fresh[j] # <<>> => fresh[j] \in [items[j] -> Positive]
                       /\ todo[j] \subseteq Items
    /\ blind \subseteq Items

\* The items that a batch lists: those its refresh has read.
Offered(b) == IF b = NoJob THEN Items ELSE items[b]

\* The market never shows a part of a refresh: something is always listed, and the
\* rows of one refresh are listed together or not at all (refresh.go:83 "All DB
\* mutations in a single transaction to prevent partial state").  So an item is off
\* the market only when no refresh that is listed has read it.
NeverPartial ==
    /\ Active # {}
    /\ \A l \in listings : \A i \in Offered(l.batch) :
         \E m \in listings : m.batch = l.batch /\ m.item = i /\ m.expired = l.expired

\* Every price that was ever listed is in the price history, and no other.
HistoryIsListings ==
    history = {[batch |-> l.batch, item |-> l.item, price |-> l.price] : l \in listings}

\* However the updates of two daily refreshes interleave, an anchor stays within
\* the first anchor and the prices its item has had.  One that an update has written
\* without reading it may fall to a tenth of them, but no further, and never rises
\* above them (refresh.go:411-419).
Known(i) == PricesOf(i) \cup {FirstAnchor[i]}
AnchorWithinPrices ==
    \A i \in Items :
        /\ \E p \in Known(i) : anchor[i] <= p
        /\ \E p \in Known(i) : p <= 10 * anchor[i] + 5
        /\ i \notin blind => \E p \in Known(i) : p <= anchor[i]

\* As long as no two refreshes have run at once, what is listed is the last refresh,
\* each of its items at one price (refresh.go:90 expires what was listed before, all
\* of it and nothing else).
OneListingPerItem ==
    overlapped \/ \E b \in Jobs \cup {NoJob} : \A i \in Items :
        Cardinality(ActiveOf(i)) = IF i \in Offered(b) THEN 1 ELSE 0

\* An hourly refresh that has run alone moves the prices the items have: each by a
\* fifth of it at most, or, when nobody traded, each by a fiftieth of the way to its
\* anchor, up to the rounding (refresh.go:294, 339-362, prompt rule 1 at
\* refresh.go:679).  Far from the anchor that is the greater move of the two.  Only a
\* price that it could not read is replaced by one near the item's anchor.
MovedByAFifth(new, cur)            == 10 * (new - cur) \in (-2 * cur - 5)..(2 * cur + 5)
MovedByAFiftieth(new, cur, target) == 50 * (new - cur) - (target - cur) \in -25..25
PricedFrom(j, l) == IF read[j][l.item].cur = 0 THEN read[j][l.item].anchor ELSE l.price
MovedLittle(j) ==
    LET its == {l \in Active : l.item \in items[j]}
    IN  \/ \A l \in its : MovedByAFifth(fresh[j][l.item], PricedFrom(j, l))
        \/ \A l \in its : MovedByAFiftieth(fresh[j][l.item], PricedFrom(j, l),
                                            read[j][l.item].anchor)
HourlyMoveIsSmall ==
    [][\A j \in Jobs :
         ~overlapped /\ kind[j] = "hourly" /\ listings' # listings /\ pc[j] # pc'[j] =>
            MovedLittle(j)]_vars

\* Every refresh that starts ends: two that wait for the same rows do not block
\* each other, and the anchors are updated in the end.
EveryRefreshEnds ==
    \A j \in Jobs : Running(j) \/ todo[j] # {} ~> ~Running(j) /\ todo[j] = {} /\ seen[j] = Nothing

-----------------------------------------------------------------------------
\* SKILL.md:94: the market shows the current listings, one of each of 12 items.
MarketShowsEachItemOnce == \A i \in Items : Cardinality(ActiveOf(i)) = 1
=============================================================================
