---------------------------- MODULE MarketRefresh ----------------------------
(***************************************************************************)
(* Setting the prices: the daily refresh (runMarketRefresh), the hourly one *)
(* (runHourlyPriceRefresh) and the anchor update a daily refresh starts    *)
(* (updateAnchorPrices).  refresh.go.  A refresh is started by one of two  *)
(* schedulers or by an HTTP call; nothing keeps two from running at once.  *)
(***************************************************************************)
EXTENDS Pricing, FiniteSets

CONSTANTS
    Items,          \* enabled rows of market_items
    Jobs,           \* refreshes, each of which runs at most once
    FirstAnchor,    \* anchor_price of each item when the server starts
    Flows,          \* net purchases an hour may have: functions from Items to Int
    NoJob           \* the batch that was listed before any job ran

ASSUME SomeItems          == Items # {}
ASSUME AnchorsArePositive == FirstAnchor \in [Items -> Nat \ {0}]
ASSUME FlowsAreNets       == Flows \subseteq [Items -> Int]
ASSUME NoJobIsNotAJob     == NoJob \notin Jobs

VARIABLES
    anchor,     \* market_items.anchor_price
    listings,   \* committed rows of market_listings; batch is the job that wrote it
    history,    \* committed rows of market_price_history
    pc,         \* pc[j]: the statement refresh j is about to run
    kind,       \* kind[j]: "daily" or "hourly"
    items,      \* items[j]: allItems, the items j has read and will list
    read,       \* read[j]: the anchor and current price j has read of each of them
    marks,      \* marks[j]: listings j's UPDATE finds, then those it has locked
    fresh,      \* fresh[j]: the price j has computed of each item
    todo,       \* todo[j]: items whose anchor j's goroutine has yet to update
    seen,       \* seen[j]: the item that goroutine is at and what it has read
    overlapped, \* two refreshes have run at once (nothing in the code reads it)
    blind       \* items whose anchor was written without being read (nor this)

jobVars   == <<pc, kind, items, read, marks, fresh, overlapped>>
goVars    == <<todo, seen, blind>>
vars      == <<anchor, listings, history, jobVars, goVars>>

Active == {l \in listings : ~l.expired}
Goto(j, label) == pc' = [pc EXCEPT ![j] = label]

Nothing == [item |-> NoJob]

Init ==
    /\ anchor   = FirstAnchor
    /\ listings = {[batch |-> NoJob, item |-> i, price |-> FirstAnchor[i], expired |-> FALSE] : i \in Items}
    /\ history  = {[batch |-> NoJob, item |-> i, price |-> FirstAnchor[i]] : i \in Items}
    /\ pc       = [j \in Jobs |-> "idle"]
    /\ kind     = [j \in Jobs |-> "none"]
    /\ items    = [j \in Jobs |-> {}]
    /\ read     = [j \in Jobs |-> <<>>]
    /\ marks    = [j \in Jobs |-> {}]
    /\ fresh    = [j \in Jobs |-> <<>>]
    /\ todo     = [j \in Jobs |-> {}]
    /\ seen     = [j \in Jobs |-> Nothing]
    /\ overlapped = FALSE
    /\ blind    = {}

-----------------------------------------------------------------------------
(* Reading.  rows.Err() is never read: a result that is cut off is taken for *)
(* all there is.  So is that of the current prices if its query fails.       *)

Running(j) == pc[j] \notin {"idle", "done"}

ReadAnchors(j) ==
    /\ pc[j] = "idle"
    /\ overlapped' = (overlapped \/ \E k \in Jobs : Running(k))
    /\ \E what \in {"daily", "hourly"} :
         /\ kind' = [kind EXCEPT ![j] = what]
         /\ Goto(j, IF what = "daily" THEN "price" ELSE "current")
    /\ \E some \in (SUBSET Items) \ {{}} :
         /\ items' = [items EXCEPT ![j] = some]
         /\ read' = [read EXCEPT ![j] = [i \in some |-> [anchor |-> anchor[i], cur |-> 0]]]
    /\ UNCHANGED <<anchor, listings, history, marks, fresh, goVars>>

\* Of several active listings of an item the one scanned last counts; 0: none was.
ReadCurrent(j) ==
    /\ pc[j] = "current"
    /\ \E cur \in [items[j] -> {0} \cup {l.price : l \in Active}] :
         /\ \A i \in items[j] : cur[i] # 0 => \E l \in Active : l.item = i /\ l.price = cur[i]
         /\ read' = [read EXCEPT ![j] = [i \in items[j] |-> [anchor |-> @[i].anchor, cur |-> cur[i]]]]
    /\ Goto(j, "price")
    /\ UNCHANGED <<anchor, listings, history, kind, items, marks, fresh, overlapped, goVars>>

-----------------------------------------------------------------------------
(* Pricing: the volumes of the hour, and a call to the AI outside any       *)
(* transaction that may take 30 seconds and may fail.                       *)

\* The anchor stands in for a current price that was not read.
CurrentPrice(j, i) == IF read[j][i].cur = 0 THEN read[j][i].anchor ELSE read[j][i].cur

\* The prices j may give item i: by the AI, by the fallback that follows an
\* error, or by the decay of an hour without trades.
DailyPrice(j, i, aiOk) == DailyPrices(read[j][i].anchor, aiOk)
DecayPrice(j, i)       == DecayPrices(CurrentPrice(j, i), read[j][i].anchor)

\* Mutated: the hourly clamp is the daily one.
BusyPrice50(j, i)      == Swung(CurrentPrice(j, i), 50)
BusyPrice(j, i)        == Swung(CurrentPrice(j, i), 20)
FlowPrice(j, i, net)   == FlowPrices(CurrentPrice(j, i), net)

\* The volumes may be cut off, too: an item that is missing has had no trade, and
\* with all of them the hour is one without trades.
Price(j) ==
    /\ pc[j] = "price"
    /\ \E ps \in [items[j] -> UNION {DailyPrice(j, i, TRUE) \cup DecayPrice(j, i)
                                       \cup BusyPrice(j, i) : i \in items[j]}] :
         /\ \/ /\ kind[j] = "daily"
               /\ \E aiOk \in BOOLEAN : \A i \in items[j] : ps[i] \in DailyPrice(j, i, aiOk)
            \/ /\ kind[j] = "hourly"
               /\ \/ \A i \in items[j] : ps[i] \in DecayPrice(j, i)
                  \/ \A i \in items[j] : ps[i] \in BusyPrice(j, i)
                  \/ \E net \in Flows, some \in SUBSET items[j] :
                       \A i \in items[j] :
                         ps[i] \in FlowPrice(j, i, IF i \in some THEN net[i] ELSE 0)
         /\ fresh' = [fresh EXCEPT ![j] = ps]
    /\ Goto(j, "begin")
    /\ UNCHANGED <<anchor, listings, history, kind, items, read, marks, overlapped, goVars>>

-----------------------------------------------------------------------------
(* The transaction.  UPDATE market_listings SET expired = true WHERE        *)
(* expired = false works on the rows committed when it starts; it waits for *)
(* a transaction that has updated one of them, and skips the row if that    *)
(* one commits.  Rows that one inserts are not among those it started with. *)
(* The error of a statement in it is ignored, but makes the commit fail.    *)

ExpireStart(j) ==
    /\ pc[j] = "begin"
    /\ marks' = [marks EXCEPT ![j] = Active]
    /\ Goto(j, "expire")
    /\ UNCHANGED <<anchor, listings, history, kind, items, read, fresh, overlapped, goVars>>

Holding(j) == {k \in Jobs \ {j} : pc[k] \in {"insert", "commit"} /\ marks[k] \cap marks[j] # {}}

\* Mutated: the UPDATE is committed at once, by pool.Exec instead of tx.Exec.
ExpireOutsideTx(j) ==
    /\ pc[j] = "expire"
    /\ listings' = {IF l \in marks[j] THEN [l EXCEPT !.expired = TRUE] ELSE l : l \in listings}
    /\ marks' = [marks EXCEPT ![j] = {}]
    /\ Goto(j, "insert")
    /\ UNCHANGED <<anchor, history, kind, items, read, fresh, overlapped, goVars>>

ExpireDone(j) ==
    /\ pc[j] = "expire"
    /\ Holding(j) = {}
    /\ marks' = [marks EXCEPT ![j] = @ \cap Active]
    /\ Goto(j, "insert")
    /\ UNCHANGED <<anchor, listings, history, kind, items, read, fresh, overlapped, goVars>>

NewPrices(j) == {[batch |-> j, item |-> i, price |-> fresh[j][i]] : i \in items[j]}

\* Mutated: the history is written outside the transaction.
InsertHistoryAtOnce(j) ==
    /\ pc[j] = "insert"
    /\ history' = history \cup NewPrices(j)
    /\ Goto(j, "commit")
    /\ UNCHANGED <<anchor, listings, kind, items, read, marks, fresh, overlapped, goVars>>

InsertAll(j) ==
    /\ pc[j] = "insert"
    /\ Goto(j, "commit")
    /\ UNCHANGED <<anchor, listings, history, kind, items, read, marks, fresh, overlapped, goVars>>

NewListing(j, i) == [batch |-> j, item |-> i, price |-> fresh[j][i], expired |-> FALSE]

\* Mutated: what was listed does not expire.
PublishedOnTop(j) ==
    /\ listings' = listings \cup {NewListing(j, i) : i \in items[j]}
    /\ history'  = history \cup NewPrices(j)

Published(j) ==
    /\ listings' = (listings \ marks[j]) \cup {[l EXCEPT !.expired = TRUE] : l \in marks[j]}
                     \cup {NewListing(j, i) : i \in items[j]}
    /\ history'  = history \cup NewPrices(j)

EndJob(j) ==
    /\ Goto(j, "done")
    /\ marks' = [marks EXCEPT ![j] = {}]
    /\ fresh' = [fresh EXCEPT ![j] = <<>>]
    /\ read'  = [read EXCEPT ![j] = <<>>]

\* A daily refresh whose commit is acknowledged starts updateAnchorPrices, with the
\* items it then reads; one whose commit is lost has taken effect and reports an error.
CommitJob(j) ==
    /\ pc[j] = "commit"
    /\ Published(j)
    /\ EndJob(j)
    /\ \E some \in SUBSET Items : /\ some # {} => kind[j] = "daily"
                                  /\ todo' = [todo EXCEPT ![j] = some]
    /\ UNCHANGED <<anchor, kind, items, seen, overlapped, blind>>

\* The items cannot be read, the AI call panics, the server stops, the transaction
\* does not begin, or its commit fails, of itself or for a statement before it:
\* nothing takes effect.
FailJob(j) ==
    /\ Running(j)
    /\ EndJob(j)
    /\ UNCHANGED <<anchor, listings, history, kind, items, overlapped, goVars>>

-----------------------------------------------------------------------------
(* updateAnchorPrices, in a goroutine of its own: for one item after the    *)
(* other, the mean of its prices, its anchor, and the new anchor are three  *)
(* statements outside any transaction.  An error of the first skips the     *)
(* item; one of the second leaves the anchor read at 0, and goes on; one of *)
(* the third is ignored.                                                    *)

PricesOf(i) == {r.price : r \in {h \in history : h.item = i}}
Mean(i) == [item |-> i, prices |-> PricesOf(i), anchor |-> 0, done |-> FALSE]

\* Mutated: the item just read is not taken off the list.
ReadMeanAgain(j) ==
    /\ seen[j] = Nothing
    /\ \E i \in todo[j] :
         seen' = [seen EXCEPT ![j] = Mean(i)]
    /\ UNCHANGED <<anchor, listings, history, jobVars, todo, blind>>

ReadMean(j) ==
    /\ seen[j] = Nothing
    /\ \E i \in todo[j] :
         /\ seen' \in {seen, [seen EXCEPT ![j] = Mean(i)]}
         /\ todo' = [todo EXCEPT ![j] = @ \ {i}]
    /\ UNCHANGED <<anchor, listings, history, jobVars, blind>>

ReadAnchor(j) ==
    /\ seen[j] # Nothing /\ ~seen[j].done
    /\ \E current \in {0, anchor[seen[j].item]} :
         seen' = [seen EXCEPT ![j].anchor = current, ![j].done = TRUE]
    /\ UNCHANGED <<anchor, listings, history, jobVars, todo, blind>>

\* The mean is of the prices of seven days, hence between the least and the
\* greatest price read.
WriteAnchor(j) ==
    /\ seen[j] # Nothing /\ seen[j].done
    /\ \E low, high \in seen[j].prices :
         /\ \A p \in seen[j].prices : low <= p /\ p <= high
         /\ \E a \in NudgedAnchors(seen[j].anchor, low, high) :
              anchor' = [anchor EXCEPT ![seen[j].item] = a]
    /\ blind' = blind \cup {i \in {seen[j].item} : seen[j].anchor = 0}
    /\ seen' = [seen EXCEPT ![j] = Nothing]
    /\ UNCHANGED <<listings, history, jobVars, todo>>

WriteFails(j) ==
    /\ seen[j] # Nothing /\ seen[j].done
    /\ seen' = [seen EXCEPT ![j] = Nothing]
    /\ UNCHANGED <<anchor, listings, history, jobVars, todo, blind>>

\* The server stops: the goroutine is gone with what it had not done.
FailAnchors(j) ==
    /\ todo[j] # {} \/ seen[j] # Nothing
    /\ todo' = [todo EXCEPT ![j] = {}]
    /\ seen' = [seen EXCEPT ![j] = Nothing]
    /\ UNCHANGED <<anchor, listings, history, jobVars, blind>>

-----------------------------------------------------------------------------
Work(j) == \/ ReadCurrent(j) \/ Price(j) \/ ExpireStart(j) \/ ExpireDone(j)
           \/ InsertAll(j)   \/ CommitJob(j)
Update(j) == ReadMean(j) \/ ReadAnchor(j) \/ WriteAnchor(j) \/ WriteFails(j)

AllDone == \A j \in Jobs : pc[j] = "done" /\ todo[j] = {} /\ seen[j] = Nothing

Next == \/ \E j \in Jobs : \/ ReadAnchors(j) \/ Work(j) \/ FailJob(j)
                           \/ Update(j) \/ FailAnchors(j)
        \/ AllDone /\ UNCHANGED vars

SafeSpec == Init /\ [][Next]_vars
Spec     == SafeSpec /\ \A j \in Jobs : WF_vars(Work(j)) /\ WF_vars(Update(j))
=============================================================================
