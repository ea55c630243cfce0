---------------------------- MODULE RefreshProofs ----------------------------
(***************************************************************************)
(* For any items, refreshes, anchors and flows: the types of MarketRefresh, *)
(* that nobody sees a part of a refresh, that history and listings agree,  *)
(* that anchors stay within the prices there have been, a tenth of them at *)
(* worst, and that refreshes that have not overlapped leave an item one    *)
(* price, moved a little.                                                  *)
(***************************************************************************)
EXTENDS RefreshSafety, FiniteSetTheorems, TLAPS

InTx   == {"insert", "commit"}
Priced == {"begin", "expire"} \cup InTx

Quote  == [anchor: Positive, cur: Nat]
Means  == [item: Items, prices: SUBSET Positive, anchor: Nat, done: BOOLEAN]

\* The variables of the refreshes are functions, and have what their statement needs.
JobsTyped ==
    /\ items \in [Jobs -> SUBSET Items]
    /\ marks \in [Jobs -> SUBSET Shelf]
    /\ kind \in [Jobs -> {"none", "daily", "hourly"}]
    /\ todo \in [Jobs -> SUBSET Items]
    /\ seen \in [Jobs -> {Nothing} \cup Means]
    /\ overlapped \in BOOLEAN
    /\ DOMAIN fresh = Jobs /\ DOMAIN read = Jobs
    /\ \A j \in Jobs : /\ Running(j) => items[j] # {} /\ read[j] \in [items[j] -> Quote]
                       /\ IF pc[j] \in Priced THEN fresh[j] \in [items[j] -> Positive]
                                            ELSE fresh[j] = <<>>

\* What is listed is named by refresh and item, one of the items the refresh has
\* read, and a refresh lists when it ends.
Named ==
    /\ \A l \in listings : /\ l.batch \in Jobs => pc[l.batch] = "done"
                           /\ l.item \in Offered(l.batch)
    /\ \A l, m \in listings : l.batch = m.batch /\ l.item = m.item => l = m

\* The rows an UPDATE has found are all of each refresh's; one that it waits for may
\* have expired by another, one that it has locked not, and has no other lock.
Whole(S) ==
    \A l \in S : \A i \in Offered(l.batch) :
        \E m \in S : m.batch = l.batch /\ m.item = i /\ m.expired = l.expired
Expired(l) == [l EXCEPT !.expired = TRUE]
Marked ==
    \A j \in Jobs :
        /\ pc[j] \in {"expire"} \cup InTx => Whole(marks[j]) /\ \A l \in marks[j] : ~l.expired
        /\ pc[j] = "expire" => \A l \in marks[j] : l \in listings \/ Expired(l) \in listings
        /\ pc[j] \in InTx => /\ marks[j] \subseteq listings
                             /\ \A k \in Jobs \ {j} : pc[k] \in InTx => marks[j] \cap marks[k] = {}

\* What an update of the anchors has read is still within the prices: not under them
\* unless the anchor has been written blindly, and then not under a tenth of them.
Within(i, a) == /\ \E p \in Known(i) : a <= p
                /\ \E p \in Known(i) : p <= 10 * a + 5
                /\ i \notin blind => \E p \in Known(i) : p <= a
MeansWithin ==
    \A j \in Jobs : seen[j] # Nothing =>
        /\ seen[j].prices \subseteq PricesOf(seen[j].item)
        /\ seen[j].anchor # 0 => Within(seen[j].item, seen[j].anchor)

\* Until two refreshes have run at once, one batch is listed; a refresh has found
\* all of it, and an hourly one has its prices, or none.
Alone == ~overlapped =>
    /\ \A j, k \in Jobs : Running(j) /\ Running(k) => j = k
    /\ \A l, m \in Active : l.batch = m.batch
    /\ \A j \in Jobs :
         /\ pc[j] \in {"expire"} \cup InTx => marks[j] = Active
         /\ kind[j] = "hourly" /\ pc[j] \in {"price"} \cup Priced =>
              \A l \in Active : l.item \in items[j] => read[j][l.item].cur \in {0, l.price}

\* The new prices of an hourly refresh have moved a little from those it takes for the
\* current ones.
Moved ==
    \A j \in Jobs : kind[j] = "hourly" /\ pc[j] \in Priced =>
        \/ \A i \in items[j] : MovedByAFifth(fresh[j][i], CurrentPrice(j, i))
        \/ \A i \in items[j] : MovedByAFiftieth(fresh[j][i], CurrentPrice(j, i), read[j][i].anchor)

Listed  == NeverPartial /\ HistoryIsListings /\ Named /\ Marked
Anchors == AnchorWithinPrices /\ MeansWithin
Refresh == RefreshTypeOK /\ JobsTyped /\ Listed /\ Anchors /\ Alone /\ Moved

-----------------------------------------------------------------------------
(* Prices. *)

\* What is rounded is within a half of the results at both ends, and at least 1.
LEMMA BetweenIsNear ==
    ASSUME NEW m \in Int, NEW n \in Int, NEW d \in {10, 100},
           NEW q \in AtLeast1(RoundedBetween(m, n, d))
    PROVE  /\ q \in Positive /\ 2 * m - d <= 2 * (q * d)
           /\ q = 1 \/ 2 * (q * d) <= 2 * n + d
           /\ d <= 2 * n => 2 * (q * d) <= 2 * n + d
  BY DEF AtLeast1, RoundedBetween, Positive

\* The same of one number.
LEMMA RoundedIsNear ==
    ASSUME NEW n \in Int, NEW d \in {10, 50, 100}, NEW q \in AtLeast1(Rounded(n, d))
    PROVE  q \in Positive /\ 2 * n - d <= 2 * (q * d) /\ (d <= 2 * n => 2 * (q * d) <= 2 * n + d)
  BY DEF AtLeast1, Rounded, Positive

\* Every price of a daily refresh is at least 1.
LEMMA DailyIsPositive ==
    ASSUME NEW a \in Positive, NEW aiOk \in BOOLEAN, NEW q \in DailyPrices(a, aiOk)
    PROVE  q \in Positive
  <1>1. \A pct \in {30, 50} : \A p \in Swung(a, pct) : p \in Positive
    <2>1. \A pct \in {30, 50} : a * (100 - pct) \in Int /\ a * (100 + pct) \in Int
      BY DEF Positive
    <2> QED
      BY <2>1, BetweenIsNear DEF Swung
  <1>2. \A f \in Floor(a) : f \in Positive
    <2>1. 3 * a \in Int
      BY DEF Positive
    <2> QED
      BY <2>1, RoundedIsNear DEF Floor
  <1> QED
    BY <1>1, <1>2 DEF DailyPrices

\* With trades, a fifth at most, by the AI or by the flow.
LEMMA BusyIsAFifth ==
    ASSUME NEW cur \in Positive, NEW q \in Swung(cur, 20)
    PROVE  q \in Positive /\ MovedByAFifth(q, cur)
  <1>1. cur \in Int /\ cur >= 1 /\ cur * (100 - 20) = 80 * cur /\ cur * (100 + 20) = 120 * cur
    BY DEF Positive
  <1>2. q \in Positive /\ 2 * (80 * cur) - 100 <= 2 * (q * 100) /\ 2 * (q * 100) <= 2 * (120 * cur) + 100
    BY <1>1, BetweenIsNear DEF Swung
  <1> QED
    BY <1>1, <1>2 DEF MovedByAFifth, Positive

\* See BusyIsAFifth.
LEMMA FlowIsAFifth ==
    ASSUME NEW cur \in Positive, NEW net \in Int, NEW q \in FlowPrices(cur, net)
    PROVE  q \in Positive /\ MovedByAFifth(q, cur)
  <1> DEFINE c == Clamp20(3 * net)
             n == cur * (100 + c)
  <1>1. c \in Int /\ -20 <= c /\ c <= 20
    BY DEF Clamp20
  <1>2. cur \in Int /\ cur >= 1
    BY DEF Positive
  <1> HIDE DEF c
  <1>3. n \in Int /\ 80 * cur <= n /\ n <= 120 * cur
    <2>1. cur * (c + 20) >= 0 /\ cur * (20 - c) >= 0
      BY <1>1, <1>2
    <2>2. n = 80 * cur + cur * (c + 20) /\ n = 120 * cur - cur * (20 - c)
      BY <1>1, <1>2
    <2> QED
      BY <1>1, <1>2, <2>1, <2>2
  <1>4. q \in AtLeast1(Rounded(n, 100))
    BY DEF FlowPrices, c
  <1> HIDE DEF n
  <1>5. q \in Positive /\ 2 * n - 100 <= 2 * (q * 100) /\ 2 * (q * 100) <= 2 * n + 100
    BY <1>2, <1>3, <1>4, RoundedIsNear
  <1> QED
    BY <1>2, <1>3, <1>5 DEF MovedByAFifth, Positive

\* Without trades, a fiftieth of the way to the anchor.
LEMMA DecayIsAFiftieth ==
    ASSUME NEW cur \in Positive, NEW a \in Positive, NEW q \in DecayPrices(cur, a)
    PROVE  q \in Positive /\ MovedByAFiftieth(q, cur, a)
  <1>1. cur \in Int /\ cur >= 1 /\ a \in Int /\ a >= 1
    BY DEF Positive
  <1>2. /\ q \in Positive /\ 2 * (49 * cur + a) - 50 <= 2 * (q * 50)
        /\ 2 * (q * 50) <= 2 * (49 * cur + a) + 50
    BY <1>1, RoundedIsNear DEF DecayPrices
  <1> QED
    BY <1>1, <1>2 DEF MovedByAFiftieth, Positive

\* An anchor that is moved stays between what it was read to be and the prices it is
\* moved to, and reaches a tenth of those even if it was read to be 0.
LEMMA NudgeStaysBetween ==
    ASSUME NEW a \in Nat, NEW low \in Positive, NEW high \in Positive, low <= high,
           NEW q \in NudgedAnchors(a, low, high)
    PROVE  /\ q \in Positive /\ low <= 10 * q + 5
           /\ q <= high \/ q <= a
           /\ low <= q \/ a <= q
  <1>1. a \in Int /\ a >= 0 /\ low \in Int /\ low >= 1 /\ high \in Int /\ high >= 1
    BY DEF Positive
  <1>2. /\ q \in Positive /\ 2 * (9 * a + low) - 10 <= 2 * (q * 10)
        /\ q = 1 \/ 2 * (q * 10) <= 2 * (9 * a + high) + 10
    BY <1>1, BetweenIsNear DEF NudgedAnchors
  <1> QED
    BY <1>1, <1>2 DEF Positive

-----------------------------------------------------------------------------
(* Init => Refresh *)

\* One batch is listed at the first anchors, and nothing runs.
LEMMA RefreshInit == Init => Refresh
  <1> SUFFICES ASSUME Init PROVE Refresh
    OBVIOUS
  <1> USE AnchorsArePositive, NoJobIsNotAJob, SomeItems DEF Init
  <1>a. \A i \in Items : FirstAnchor[i] \in Positive
    BY DEF Positive
  <1> DEFINE first(i) == [batch |-> NoJob, item |-> i, price |-> FirstAnchor[i], expired |-> FALSE]
             past(i)  == [batch |-> NoJob, item |-> i, price |-> FirstAnchor[i]]
  <1>c. /\ listings = {first(i) : i \in Items} /\ history = {past(i) : i \in Items}
        /\ \A i \in Items : /\ first(i).batch = NoJob /\ first(i).item = i
                            /\ first(i).price = FirstAnchor[i] /\ first(i).expired = FALSE
                            /\ first(i) \in Shelf
                            /\ past(i) \in [batch: Jobs \cup {NoJob}, item: Items, price: Positive]
                            /\ past(i) = [batch |-> first(i).batch, item |-> first(i).item, price |-> first(i).price]
    BY <1>a DEF Shelf
  <1>d. /\ \A i \in Items : first(i) \in listings
        /\ \A l \in listings : \E i \in Items : l = first(i)
    <2> HIDE DEF first
    <2> QED
      BY <1>c
  <1>e. /\ \A i \in Items : past(i) \in history
        /\ \A r \in history : \E i \in Items : r = past(i)
    <2> HIDE DEF past
    <2> QED
      BY <1>c
  <1>b. /\ \A l \in listings : /\ l.batch = NoJob /\ l.item \in Items /\ l.price = FirstAnchor[l.item]
                               /\ l.expired = FALSE
        /\ \A i \in Items : \E l \in listings : l.item = i
        /\ \A l, m \in listings : l.item = m.item => l = m
    <2>1. ASSUME NEW l \in listings
          PROVE  /\ l.batch = NoJob /\ l.item \in Items /\ l.price = FirstAnchor[l.item]
                 /\ l.expired = FALSE /\ l = first(l.item)
      <3>1. PICK i \in Items : l = first(i)
        BY <1>d
      <3> QED
        BY <1>c, <3>1
    <2>2. \A i \in Items : first(i) \in listings /\ first(i).item = i
      BY <1>c, <1>d
    <2> QED
      BY ONLY <2>1, <2>2
  <1>1. RefreshTypeOK
    <2>1. listings \subseteq Shelf
      <3> HIDE DEF first, past
      <3>1. ASSUME NEW l \in listings PROVE l \in Shelf
        <4>1. PICK i \in Items : l = first(i)
          BY ONLY <1>d
        <4> QED
          BY ONLY <1>c, <4>1
      <3> QED
        BY ONLY <3>1
    <2>2. history \subseteq [batch: Jobs \cup {NoJob}, item: Items, price: Positive]
      <3> HIDE DEF first, past
      <3>1. ASSUME NEW r \in history PROVE r \in [batch: Jobs \cup {NoJob}, item: Items, price: Positive]
        <4>1. PICK i \in Items : r = past(i)
          BY ONLY <1>e
        <4> QED
          BY ONLY <1>c, <4>1
      <3> QED
        BY ONLY <3>1
    <2> QED
      BY <1>a, <2>1, <2>2 DEF RefreshTypeOK, Labels, Positive
  <1>2. JobsTyped /\ Moved
    BY DEF JobsTyped, Moved, Running, Priced, InTx
  <1>3. NeverPartial
    <2>1. Active # {}
      BY <1>b DEF Active
    <2>2. \A l \in listings : \A i \in Offered(l.batch) :
             \E m \in listings : m.batch = l.batch /\ m.item = i /\ m.expired = l.expired
      <3> SUFFICES ASSUME NEW l \in listings, NEW i \in Offered(l.batch)
                   PROVE  \E m \in listings : m.batch = l.batch /\ m.item = i /\ m.expired = l.expired
        OBVIOUS
      <3>1. PICK m \in listings : m.item = i
        BY <1>b DEF Offered
      <3>2. m.batch = l.batch /\ m.expired = l.expired
        BY <1>b
      <3> QED
        BY <3>1, <3>2
    <2> QED
      BY ONLY <2>1, <2>2 DEF NeverPartial
  <1>4. HistoryIsListings
    <2> DEFINE rows == {[batch |-> l.batch, item |-> l.item, price |-> l.price] : l \in listings}
    <2>1. ASSUME NEW r \in history PROVE r \in rows
      <3>1. PICK i \in Items : r = past(i)
        BY <1>e
      <3>2. first(i) \in listings /\ r = [batch |-> first(i).batch, item |-> first(i).item, price |-> first(i).price]
        BY <1>c, <1>d, <3>1
      <3> HIDE DEF first, past
      <3> QED
        BY <3>2
    <2>2. ASSUME NEW l \in listings PROVE [batch |-> l.batch, item |-> l.item, price |-> l.price] \in history
      <3>1. PICK i \in Items : l = first(i)
        BY <1>d
      <3>2. [batch |-> l.batch, item |-> l.item, price |-> l.price] = past(i) /\ past(i) \in history
        BY <1>c, <1>e, <3>1
      <3> HIDE DEF first, past
      <3> QED
        BY <3>2
    <2> QED
      BY <2>1, <2>2 DEF HistoryIsListings
  <1>5. Named /\ Marked
    BY <1>b DEF Named, Marked, InTx, Offered
  <1>6. Anchors
    <2>1. \A i \in Items : FirstAnchor[i] <= FirstAnchor[i] /\ FirstAnchor[i] <= 10 * FirstAnchor[i] + 5
      BY <1>a DEF Positive
    <2> QED
      BY <2>1 DEF Anchors, AnchorWithinPrices, MeansWithin, Known
  <1>7. Alone
    BY <1>b DEF Alone, Running, Active, InTx, Priced
  <1> QED
    BY <1>1, <1>2, <1>3, <1>4, <1>5, <1>6, <1>7 DEF Refresh, Listed

-----------------------------------------------------------------------------
(* Every step keeps Refresh. *)

\* A refresh that changes no table keeps what is said of the tables.
LEMMA TablesKept ==
    ASSUME Listed, NEW j \in Jobs, pc[j] # "done", UNCHANGED <<listings, history, items>>,
           \A k \in Jobs \ {j} : pc'[k] = pc[k]
    PROVE  NeverPartial' /\ HistoryIsListings' /\ Named'
  <1>1. NeverPartial' /\ HistoryIsListings'
    BY DEF Listed, NeverPartial, HistoryIsListings, Offered, Active
  <1>2. Named'
    BY DEF Listed, Named, Offered
  <1> QED
    BY <1>1, <1>2

\* The anchors keep within prices that only become more.
LEMMA AnchorsKept ==
    ASSUME Anchors, JobsTyped, anchor' = anchor, history \subseteq history', seen' = seen, blind' = blind
    PROVE  Anchors'
  <1>1. \A i : PricesOf(i) \subseteq PricesOf(i)'
    BY DEF PricesOf
  <1>2. AnchorWithinPrices'
    BY <1>1 DEF Anchors, AnchorWithinPrices, Known
  <1>3. ASSUME NEW j \in Jobs, seen[j] # Nothing
        PROVE  /\ seen[j].prices \subseteq PricesOf(seen[j].item)'
               /\ seen[j].anchor # 0 => Within(seen[j].item, seen[j].anchor)'
    BY <1>1, <1>3 DEF Anchors, MeansWithin, Within, Known
  <1>4. MeansWithin'
    BY <1>3 DEF MeansWithin, Within, Known, PricesOf
  <1> QED
    BY <1>2, <1>4 DEF Anchors

\* A refresh starts: either it is the only one now, or two have run at once.
LEMMA ReadAnchorsKept == ASSUME Refresh, NEW j \in Jobs, ReadAnchors(j) PROVE Refresh'
  <1> USE DEF Refresh, Running, goVars, jobVars
  <1>a. PICK some \in (SUBSET Items) \ {{}} :
        /\ pc[j] = "idle" /\ overlapped' = (overlapped \/ \E k \in Jobs : Running(k))
        /\ \/ kind' = [kind EXCEPT ![j] = "daily"] /\ pc' = [pc EXCEPT ![j] = "price"]
           \/ kind' = [kind EXCEPT ![j] = "hourly"] /\ pc' = [pc EXCEPT ![j] = "current"]
        /\ items' = [items EXCEPT ![j] = some]
        /\ read' = [read EXCEPT ![j] = [i \in some |-> [anchor |-> anchor[i], cur |-> 0]]]
        /\ UNCHANGED <<anchor, listings, history, marks, fresh, todo, seen, blind>>
    BY DEF ReadAnchors, Goto
  <1>b. /\ \A k \in Jobs \ {j} : /\ pc'[k] = pc[k] /\ kind'[k] = kind[k] /\ read'[k] = read[k]
                                 /\ items'[k] = items[k]
        /\ items'[j] = some /\ read'[j] = [i \in some |-> [anchor |-> anchor[i], cur |-> 0]]
        /\ \/ pc'[j] = "price" /\ kind'[j] = "daily"
           \/ pc'[j] = "current"
    BY <1>a DEF RefreshTypeOK, JobsTyped
  <1>c. \A l \in listings : l.batch # j /\ Offered(l.batch)' = Offered(l.batch)
    BY <1>a, <1>b DEF Listed, Named, Offered, RefreshTypeOK, Shelf
  <1>1. RefreshTypeOK' /\ JobsTyped'
    <2>1. [i \in some |-> [anchor |-> anchor[i], cur |-> 0]] \in [some -> Quote]
      BY DEF RefreshTypeOK, Quote
    <2>2. items' \in [Jobs -> SUBSET Items] /\ DOMAIN read' = Jobs
      BY <1>a DEF JobsTyped
    <2>3. kind' \in [Jobs -> {"none", "daily", "hourly"}] /\ pc' \in [Jobs -> Labels]
      BY <1>a DEF RefreshTypeOK, JobsTyped, Labels
    <2>4. overlapped' \in BOOLEAN
      BY <1>a
    <2>5. \A k \in Jobs : Running(k)' => items'[k] # {} /\ read'[k] \in [items'[k] -> Quote]
      BY <1>a, <1>b, <2>1 DEF JobsTyped
    <2>6. \A k \in Jobs : IF pc'[k] \in Priced THEN fresh'[k] \in [items'[k] -> Positive]
                                              ELSE fresh'[k] = <<>>
      BY <1>a, <1>b DEF JobsTyped, Priced, InTx
    <2>7. \A k \in Jobs : fresh'[k] # <<>> => fresh'[k] \in [items'[k] -> Positive]
      BY <2>6
    <2> QED
      BY <1>a, <2>2, <2>3, <2>4, <2>5, <2>6, <2>7 DEF RefreshTypeOK, JobsTyped
  <1>2. Listed'
    <2>1. NeverPartial' /\ HistoryIsListings'
      BY <1>a, <1>c DEF Listed, NeverPartial, HistoryIsListings, Active
    <2>2. Named'
      BY <1>a, <1>b, <1>c DEF Listed, Named
    <2>3. ASSUME NEW k \in Jobs, pc[k] \in {"expire"} \cup InTx, NEW l \in marks[k]
          PROVE  Offered(l.batch)' = Offered(l.batch)
      <3>1. l \in listings \/ Expired(l) \in listings
        BY <2>3 DEF Listed, Marked, InTx
      <3>2. l \in Shelf /\ Expired(l).batch = l.batch
        BY DEF RefreshTypeOK, Expired, Shelf
      <3> QED
        BY <1>c, <3>1, <3>2
    <2>4. ASSUME NEW k \in Jobs, pc[k] \in {"expire"} \cup InTx
          PROVE  Whole(marks[k])'
      <3>1. marks'[k] = marks[k] /\ Whole(marks[k])
        BY <1>a, <2>4 DEF Listed, Marked
      <3> QED
        BY <2>3, <2>4, <3>1 DEF Whole
    <2>5. Marked'
      <3>1. \A k \in Jobs : pc'[k] \in {"expire"} \cup InTx => k # j /\ pc[k] = pc'[k]
        BY <1>b DEF InTx
      <3> QED
        BY <1>a, <2>4, <3>1 DEF Listed, Marked, InTx
    <2> QED
      BY <2>1, <2>2, <2>5 DEF Listed
  <1>3. Anchors'
    BY <1>a, AnchorsKept
  <1>4. Alone'
    <2> SUFFICES ASSUME ~overlapped' PROVE Alone'
      BY DEF Alone
    <2>1. ~overlapped /\ \A k \in Jobs : pc[k] \in {"idle", "done"}
      BY <1>a
    <2>2. \A l, m \in Active' : l.batch = m.batch
      BY <1>a, <2>1 DEF Alone, Active
    <2>3. \A k \in Jobs \ {j} : pc'[k] \in {"idle", "done"}
      BY <1>b, <2>1
    <2>4. pc'[j] \notin {"expire"} \cup InTx /\ (kind'[j] = "hourly" => pc'[j] \notin {"price"} \cup Priced)
      BY <1>b DEF InTx, Priced
    <2> QED
      BY ONLY <2>2, <2>3, <2>4 DEF Alone, Running, InTx, Priced
  <1>5. Moved'
    BY <1>a, <1>b DEF Moved, InTx, Priced, CurrentPrice
  <1> QED
    BY <1>1, <1>2, <1>3, <1>4, <1>5

\* An hourly refresh that runs alone reads the one price of each item, or none.
LEMMA ReadCurrentKept == ASSUME Refresh, NEW j \in Jobs, ReadCurrent(j) PROVE Refresh'
  <1> USE DEF Refresh, Running, goVars, jobVars
  <1>a. PICK cur \in [items[j] -> {0} \cup {l.price : l \in Active}] :
            /\ pc[j] = "current" /\ pc' = [pc EXCEPT ![j] = "price"]
            /\ \A i \in items[j] : cur[i] # 0 => \E l \in Active : l.item = i /\ l.price = cur[i]
            /\ read' = [read EXCEPT ![j] = [i \in items[j] |-> [anchor |-> read[j][i].anchor, cur |-> cur[i]]]]
            /\ UNCHANGED <<anchor, listings, history, kind, items, marks, fresh, overlapped, todo, seen, blind>>
    BY DEF ReadCurrent, Goto
  <1>b. /\ \A k \in Jobs \ {j} : pc'[k] = pc[k] /\ read'[k] = read[k]
        /\ pc'[j] = "price" /\ \A i \in items[j] : read'[j][i].cur = cur[i]
        /\ read'[j] = [i \in items[j] |-> [anchor |-> read[j][i].anchor, cur |-> cur[i]]]
    BY <1>a DEF RefreshTypeOK, JobsTyped
  <1>1. RefreshTypeOK' /\ JobsTyped'
    <2>1. ASSUME NEW i \in items[j]
          PROVE  cur[i] \in Nat /\ read[j][i].anchor \in Positive
      <3>1. read[j][i] \in Quote
        BY <1>a DEF JobsTyped
      <3>2. \A l \in Active : l.price \in Nat
        BY DEF RefreshTypeOK, Active, Shelf, Positive
      <3> QED
        BY <1>a, <3>1, <3>2 DEF Quote
    <2>2. [i \in items[j] |-> [anchor |-> read[j][i].anchor, cur |-> cur[i]]] \in [items[j] -> Quote]
      BY <2>1 DEF Quote
    <2> QED
      BY <1>a, <1>b, <2>2 DEF RefreshTypeOK, JobsTyped, Labels, Priced, InTx
  <1>2. Listed'
    <2>1. Marked'
      BY <1>a, <1>b DEF Listed, Marked, Whole, Offered, InTx
    <2> QED
      BY <1>a, <1>b, <2>1, TablesKept DEF Listed
  <1>3. Anchors'
    BY <1>a, AnchorsKept
  <1>4. Alone'
    <2>1. ASSUME ~overlapped, NEW l \in Active, l.item \in items[j] PROVE read'[j][l.item].cur \in {0, l.price}
      <3> SUFFICES ASSUME cur[l.item] # 0 PROVE cur[l.item] = l.price
        BY <1>b, <2>1
      <3>1. PICK m \in Active : m.item = l.item /\ m.price = cur[l.item]
        BY <1>a, <2>1
      <3>2. m = l
        BY <2>1, <3>1 DEF Alone, Listed, Named, Active
      <3> QED
        BY <3>1, <3>2
    <2> QED
      BY <1>a, <1>b, <2>1 DEF Alone, Active, InTx, Priced, RefreshTypeOK, JobsTyped
  <1>5. Moved'
    BY <1>a, <1>b DEF Moved, InTx, Priced, CurrentPrice
  <1> QED
    BY <1>1, <1>2, <1>3, <1>4, <1>5

\* The new prices are positive, and near those that were read.
LEMMA PriceKept == ASSUME Refresh, NEW j \in Jobs, Price(j) PROVE Refresh'
  <1> USE DEF Refresh, Running, goVars, jobVars
  <1>a. PICK ps \in [items[j] -> UNION {DailyPrice(j, i, TRUE) \cup DecayPrice(j, i)
                                       \cup BusyPrice(j, i) : i \in items[j]}] :
            /\ pc[j] = "price" /\ pc' = [pc EXCEPT ![j] = "begin"]
            /\ \/ /\ kind[j] = "daily"
                  /\ \E aiOk \in BOOLEAN : \A i \in items[j] : ps[i] \in DailyPrice(j, i, aiOk)
               \/ /\ kind[j] = "hourly"
                  /\ \/ \A i \in items[j] : ps[i] \in DecayPrice(j, i)
                     \/ \A i \in items[j] : ps[i] \in BusyPrice(j, i)
                     \/ \E net \in Flows, some \in SUBSET items[j] :
                          \A i \in items[j] : ps[i] \in FlowPrice(j, i, IF i \in some THEN net[i] ELSE 0)
            /\ fresh' = [fresh EXCEPT ![j] = ps]
            /\ UNCHANGED <<anchor, listings, history, kind, items, read, marks, overlapped, todo, seen, blind>>
    BY DEF Price, Goto
  <1>b. /\ \A k \in Jobs \ {j} : pc'[k] = pc[k] /\ fresh'[k] = fresh[k]
        /\ pc'[j] = "begin" /\ fresh'[j] = ps
    BY <1>a DEF RefreshTypeOK, JobsTyped
  <1>c. \A i \in items[j] : CurrentPrice(j, i) \in Positive /\ read[j][i].anchor \in Positive
    <2>1. \A i \in items[j] : read[j][i].cur \in Nat /\ read[j][i].anchor \in Positive
      BY <1>a DEF JobsTyped, Quote
    <2> QED
      BY <2>1 DEF CurrentPrice, Positive
  <1>d. /\ \A i \in items[j] : ps[i] \in Positive
        /\ kind[j] = "hourly" =>
             \/ \A i \in items[j] : MovedByAFifth(ps[i], CurrentPrice(j, i))
             \/ \A i \in items[j] : MovedByAFiftieth(ps[i], CurrentPrice(j, i), read[j][i].anchor)
    <2>1. ASSUME NEW aiOk \in BOOLEAN, \A i \in items[j] : ps[i] \in DailyPrice(j, i, aiOk)
          PROVE  \A i \in items[j] : ps[i] \in Positive
      BY <1>c, <2>1, DailyIsPositive DEF DailyPrice
    <2>2. ASSUME \A i \in items[j] : ps[i] \in DecayPrice(j, i)
          PROVE  \A i \in items[j] : /\ ps[i] \in Positive
                                  /\ MovedByAFiftieth(ps[i], CurrentPrice(j, i), read[j][i].anchor)
      BY <1>c, <2>2, DecayIsAFiftieth DEF DecayPrice
    <2>3. ASSUME \A i \in items[j] : ps[i] \in BusyPrice(j, i)
          PROVE  \A i \in items[j] : ps[i] \in Positive /\ MovedByAFifth(ps[i], CurrentPrice(j, i))
      BY <1>c, <2>3, BusyIsAFifth DEF BusyPrice
    <2>4. ASSUME NEW net \in Flows, NEW some \in SUBSET items[j],
                 \A i \in items[j] : ps[i] \in FlowPrice(j, i, IF i \in some THEN net[i] ELSE 0)
          PROVE  \A i \in items[j] : ps[i] \in Positive /\ MovedByAFifth(ps[i], CurrentPrice(j, i))
      <3>1. \A i \in items[j] : (IF i \in some THEN net[i] ELSE 0) \in Int
        BY FlowsAreNets DEF JobsTyped
      <3> QED
        BY <1>c, <2>4, <3>1, FlowIsAFifth DEF FlowPrice
    <2> QED
      BY <1>a, <2>1, <2>2, <2>3, <2>4
  <1>1. RefreshTypeOK' /\ JobsTyped'
    <2>1. ps \in [items[j] -> Positive]
      BY <1>d
    <2> QED
      BY <1>a, <1>b, <2>1 DEF RefreshTypeOK, JobsTyped, Labels, Priced, InTx
  <1>2. Listed'
    <2>1. Marked'
      BY <1>a, <1>b DEF Listed, Marked, Whole, Offered, InTx
    <2> QED
      BY <1>a, <1>b, <2>1, TablesKept DEF Listed
  <1>3. Anchors'
    BY <1>a, AnchorsKept
  <1>4. Alone'
    BY <1>a, <1>b DEF Alone, Active, InTx, Priced, RefreshTypeOK, JobsTyped
  <1>5. Moved'
    BY <1>a, <1>b, <1>d DEF Moved, InTx, Priced, CurrentPrice
  <1> QED
    BY <1>1, <1>2, <1>3, <1>4, <1>5

\* The UPDATE finds what is listed, which is whole.
LEMMA ExpireStartKept == ASSUME Refresh, NEW j \in Jobs, ExpireStart(j) PROVE Refresh'
  <1> USE DEF Refresh, Running, goVars, jobVars
  <1>a. /\ pc[j] = "begin" /\ pc' = [pc EXCEPT ![j] = "expire"] /\ marks' = [marks EXCEPT ![j] = Active]
        /\ UNCHANGED <<anchor, listings, history, kind, items, read, fresh, overlapped, todo, seen, blind>>
    BY DEF ExpireStart, Goto
  <1>b. /\ \A k \in Jobs \ {j} : pc'[k] = pc[k] /\ marks'[k] = marks[k]
        /\ pc'[j] = "expire" /\ marks'[j] = Active
    BY <1>a DEF RefreshTypeOK, JobsTyped
  <1>c. Active \subseteq Shelf
    BY DEF RefreshTypeOK, Active
  <1>1. RefreshTypeOK' /\ JobsTyped'
    BY <1>a, <1>b, <1>c DEF RefreshTypeOK, JobsTyped, Labels, Priced, InTx
  <1>2. Listed'
    <2>1. Marked'
      <3>1. Whole(Active) /\ \A l \in Active : ~l.expired /\ l \in listings
        BY DEF Listed, NeverPartial, Whole, Active
      <3> QED
        BY <1>a, <1>b, <3>1 DEF Listed, Marked, Whole, Offered, InTx
    <2> QED
      BY <1>a, <1>b, <2>1, TablesKept DEF Listed
  <1>3. Anchors'
    BY <1>a, AnchorsKept
  <1>4. Alone'
    BY <1>a, <1>b DEF Alone, Active, InTx, Priced, RefreshTypeOK, JobsTyped
  <1>5. Moved'
    BY <1>a, <1>b DEF Moved, InTx, Priced, CurrentPrice
  <1> QED
    BY <1>1, <1>2, <1>3, <1>4, <1>5

\* It goes on with the rows that have not expired meanwhile: still all of each refresh's.
LEMMA ExpireDoneKept == ASSUME Refresh, NEW j \in Jobs, ExpireDone(j) PROVE Refresh'
  <1> USE DEF Refresh, Running, goVars, jobVars
  <1>a. /\ pc[j] = "expire" /\ Holding(j) = {} /\ pc' = [pc EXCEPT ![j] = "insert"]
        /\ marks' = [marks EXCEPT ![j] = marks[j] \cap Active]
        /\ UNCHANGED <<anchor, listings, history, kind, items, read, fresh, overlapped, todo, seen, blind>>
    BY DEF ExpireDone, Goto
  <1>b. /\ \A k \in Jobs \ {j} : pc'[k] = pc[k] /\ marks'[k] = marks[k]
        /\ pc'[j] = "insert" /\ marks'[j] = marks[j] \cap Active
    BY <1>a DEF RefreshTypeOK, JobsTyped
  <1>1. RefreshTypeOK' /\ JobsTyped'
    BY <1>a, <1>b DEF RefreshTypeOK, JobsTyped, Labels, Priced, InTx
  <1>2. Listed'
    <2>1. Marked'
      <3>1. ASSUME NEW l \in marks[j] \cap Active, NEW i \in Offered(l.batch)
            PROVE  \E m \in marks[j] \cap Active : m.batch = l.batch /\ m.item = i /\ m.expired = l.expired
        <4>1. PICK m \in marks[j] : m.batch = l.batch /\ m.item = i /\ m.expired = l.expired
          BY <1>a DEF Listed, Marked, Whole
        <4>2. PICK n \in listings : n.batch = l.batch /\ n.item = i /\ n.expired = l.expired
          BY DEF Listed, NeverPartial, Active
        <4>3. m \in Shelf /\ ~l.expired /\ ~m.expired
          BY <1>a DEF RefreshTypeOK, Listed, Marked
        <4>4. Expired(m).batch = m.batch /\ Expired(m).item = m.item /\ Expired(m).expired = TRUE
          BY <4>3 DEF Expired, Shelf
        <4>5. Expired(m) \notin listings
          BY <4>1, <4>2, <4>3, <4>4 DEF Listed, Named
        <4>6. m \in Active
          BY <1>a, <4>3, <4>5 DEF Listed, Marked, Active
        <4> QED
          BY <4>1, <4>6
      <3>2. Whole(marks'[j]) /\ (\A l \in marks'[j] : ~l.expired) /\ marks'[j] \subseteq listings
        BY <1>b, <3>1 DEF Whole, Active
      <3>3. \A k \in Jobs \ {j} : pc[k] \in InTx => marks[k] \cap marks'[j] = {}
        BY <1>a, <1>b DEF Holding, InTx
      <3> QED
        BY <1>a, <1>b, <3>2, <3>3 DEF Listed, Marked, Whole, Offered, InTx
    <2> QED
      BY <1>a, <1>b, <2>1, TablesKept DEF Listed
  <1>3. Anchors'
    BY <1>a, AnchorsKept
  <1>4. Alone'
    BY <1>a, <1>b DEF Alone, Active, InTx, Priced, RefreshTypeOK, JobsTyped
  <1>5. Moved'
    BY <1>a, <1>b DEF Moved, InTx, Priced, CurrentPrice
  <1> QED
    BY <1>1, <1>2, <1>3, <1>4, <1>5

\* The rows are inserted, and seen by nobody yet.
LEMMA InsertAllKept == ASSUME Refresh, NEW j \in Jobs, InsertAll(j) PROVE Refresh'
  <1> USE DEF Refresh, Running, goVars, jobVars
  <1>a. /\ pc[j] = "insert" /\ pc' = [pc EXCEPT ![j] = "commit"]
        /\ UNCHANGED <<anchor, listings, history, kind, items, read, marks, fresh, overlapped, todo, seen, blind>>
    BY DEF InsertAll, Goto
  <1>b. (\A k \in Jobs \ {j} : pc'[k] = pc[k]) /\ pc'[j] = "commit"
    BY <1>a DEF RefreshTypeOK
  <1>1. RefreshTypeOK' /\ JobsTyped'
    BY <1>a, <1>b DEF RefreshTypeOK, JobsTyped, Labels, Priced, InTx
  <1>2. Listed'
    <2>1. Marked'
      BY <1>a, <1>b DEF Listed, Marked, Whole, Offered, InTx
    <2> QED
      BY <1>a, <1>b, <2>1, TablesKept DEF Listed
  <1>3. Anchors'
    BY <1>a, AnchorsKept
  <1>4. Alone'
    BY <1>a, <1>b DEF Alone, Active, InTx, Priced, RefreshTypeOK, JobsTyped
  <1>5. Moved'
    BY <1>a, <1>b DEF Moved, InTx, Priced, CurrentPrice
  <1> QED
    BY <1>1, <1>2, <1>3, <1>4, <1>5

\* A refresh fails, and nothing has happened.
LEMMA FailJobKept == ASSUME Refresh, NEW j \in Jobs, FailJob(j) PROVE Refresh'
  <1> USE DEF Refresh, Running, goVars, jobVars
  <1>a. /\ Running(j) /\ pc' = [pc EXCEPT ![j] = "done"] /\ marks' = [marks EXCEPT ![j] = {}]
        /\ fresh' = [fresh EXCEPT ![j] = <<>>] /\ read' = [read EXCEPT ![j] = <<>>]
        /\ UNCHANGED <<anchor, listings, history, kind, items, overlapped, todo, seen, blind>>
    BY DEF FailJob, EndJob, Goto
  <1>b. /\ \A k \in Jobs \ {j} : /\ pc'[k] = pc[k] /\ marks'[k] = marks[k]
                                 /\ fresh'[k] = fresh[k] /\ read'[k] = read[k]
        /\ pc'[j] = "done" /\ marks'[j] = {} /\ fresh'[j] = <<>>
    BY <1>a DEF RefreshTypeOK, JobsTyped
  <1>1. RefreshTypeOK' /\ JobsTyped'
    BY <1>a, <1>b DEF RefreshTypeOK, JobsTyped, Labels, Priced, InTx
  <1>2. Listed'
    <2>1. Marked'
      BY <1>a, <1>b DEF Listed, Marked, Whole, Offered, InTx
    <2> QED
      BY <1>a, <1>b, <2>1, TablesKept DEF Listed
  <1>3. Anchors'
    BY <1>a, AnchorsKept
  <1>4. Alone'
    BY <1>a, <1>b DEF Alone, Active, InTx, Priced, RefreshTypeOK, JobsTyped
  <1>5. Moved'
    BY <1>a, <1>b DEF Moved, InTx, Priced, CurrentPrice
  <1> QED
    BY <1>1, <1>2, <1>3, <1>4, <1>5

\* A refresh commits: what it has locked expires, and what it has computed is listed.
LEMMA CommitJobKept == ASSUME Refresh, NEW j \in Jobs, CommitJob(j) PROVE Refresh'
  <1> USE NoJobIsNotAJob DEF Refresh, Running
  <1> DEFINE new(i)  == NewListing(j, i)
             entry(l) == [batch |-> l.batch, item |-> l.item, price |-> l.price]
  <1>a. /\ pc[j] = "commit" /\ pc' = [pc EXCEPT ![j] = "done"] /\ marks' = [marks EXCEPT ![j] = {}]
        /\ fresh' = [fresh EXCEPT ![j] = <<>>] /\ read' = [read EXCEPT ![j] = <<>>]
        /\ listings' = (listings \ marks[j]) \cup {Expired(l) : l \in marks[j]} \cup {new(i) : i \in items[j]}
        /\ history' = history \cup {entry(new(i)) : i \in items[j]}
        /\ \E some \in SUBSET Items : todo' = [todo EXCEPT ![j] = some]
        /\ UNCHANGED <<anchor, kind, items, seen, overlapped, blind>>
    BY DEF CommitJob, Published, EndJob, Goto, NewPrices, NewListing, Expired
  <1>b. /\ \A k \in Jobs \ {j} : /\ pc'[k] = pc[k] /\ marks'[k] = marks[k]
                                 /\ fresh'[k] = fresh[k] /\ read'[k] = read[k]
        /\ pc'[j] = "done" /\ marks'[j] = {} /\ fresh'[j] = <<>>
    BY <1>a DEF RefreshTypeOK, JobsTyped
  <1>c. \A i \in items[j] : /\ new(i) \in Shelf /\ new(i).batch = j /\ new(i).item = i
                         /\ new(i).expired = FALSE
                         /\ entry(new(i)) \in [batch: Jobs \cup {NoJob}, item: Items, price: Positive]
    BY <1>a DEF JobsTyped, NewListing, Shelf, Priced, InTx
  <1>d. \A l \in marks[j] : /\ l \in listings /\ Expired(l) \in Shelf /\ l.expired = FALSE
                            /\ Expired(l).batch = l.batch /\ Expired(l).item = l.item
                            /\ Expired(l).price = l.price /\ Expired(l).expired = TRUE
    <2>1. \A l \in marks[j] : l \in listings /\ ~l.expired /\ l \in Shelf
      BY <1>a DEF RefreshTypeOK, Listed, Marked, InTx
    <2>2. \A l \in Shelf : /\ Expired(l) \in Shelf /\ l.expired \in BOOLEAN
                           /\ Expired(l).batch = l.batch /\ Expired(l).item = l.item
                           /\ Expired(l).price = l.price /\ Expired(l).expired = TRUE
      BY DEF Expired, Shelf
    <2> QED
      BY <2>1, <2>2
  <1> HIDE DEF new
  <1>e. /\ \A l \in listings \ marks[j] : l \in listings'
        /\ \A l \in marks[j] : Expired(l) \in listings'
        /\ \A i \in items[j] : new(i) \in listings'
        /\ \A l \in listings' : \/ l \in listings \ marks[j]
                                \/ \E m \in marks[j] : l = Expired(m)
                                \/ \E i \in items[j] : l = new(i)
    BY ONLY <1>a
  <1>f. \A l \in listings : l.batch # j
    BY <1>a DEF Listed, Named
  <1>g. ASSUME NEW k \in marks[j], NEW i \in Offered(k.batch)
        PROVE  \E m \in marks[j] : m.batch = k.batch /\ m.item = i
    <2>1. Whole(marks[j])
      BY <1>a DEF Listed, Marked, InTx
    <2> QED
      BY ONLY <2>1 DEF Whole
  <1>1. RefreshTypeOK' /\ JobsTyped'
    <2>1. listings' \subseteq Shelf
      BY <1>c, <1>d, <1>e DEF RefreshTypeOK
    <2>2. history' \subseteq [batch: Jobs \cup {NoJob}, item: Items, price: Positive]
      BY <1>a, <1>c DEF RefreshTypeOK
    <2>3. todo' \in [Jobs -> SUBSET Items]
      BY <1>a DEF JobsTyped
    <2> QED
      BY <1>a, <1>b, <2>1, <2>2, <2>3 DEF RefreshTypeOK, JobsTyped, Labels, Priced, InTx
  <1>2. NeverPartial'
    <2>1. Active' # {}
      <3>1. PICK i \in items[j] : TRUE
        BY <1>a DEF JobsTyped
      <3> QED
        BY <1>c, <1>e, <3>1 DEF Active
    <2>2. ASSUME NEW l \in listings', NEW i \in Offered(l.batch)
          PROVE  \E m \in listings' : m.batch = l.batch /\ m.item = i /\ m.expired = l.expired
      <3>1. CASE l \in listings \ marks[j]
        <4>1. PICK m \in listings : m.batch = l.batch /\ m.item = i /\ m.expired = l.expired
          BY <2>2, <3>1 DEF Listed, NeverPartial
        <4>2. m \notin marks[j]
          <5>1. SUFFICES ASSUME m \in marks[j] PROVE FALSE
            OBVIOUS
          <5>2. l.item \in Offered(m.batch)
            BY <3>1, <4>1 DEF Listed, Named
          <5>3. PICK n \in marks[j] : n.batch = m.batch /\ n.item = l.item
            BY <1>g, <5>1, <5>2
          <5>4. n = l
            BY <1>d, <3>1, <4>1, <5>3 DEF Listed, Named
          <5> QED
            BY <3>1, <5>3, <5>4
        <4> QED
          BY <1>e, <4>1, <4>2
      <3>2. ASSUME NEW k \in marks[j], l = Expired(k)
            PROVE  \E m \in listings' : m.batch = l.batch /\ m.item = i /\ m.expired = l.expired
        <4>1. PICK m \in marks[j] : m.batch = k.batch /\ m.item = i
          <5>1. k.batch = l.batch
            BY <1>d, <3>2
          <5> QED
            BY <1>g, <5>1
        <4> QED
          BY <1>d, <1>e, <3>2, <4>1
      <3>3. ASSUME NEW k \in items[j], l = new(k)
            PROVE  \E m \in listings' : m.batch = l.batch /\ m.item = i /\ m.expired = l.expired
        <4>1. new(i) \in listings' /\ new(i).batch = l.batch /\ new(i).item = i
          BY <1>c, <1>e, <2>2, <3>3 DEF Offered
        <4>2. new(i).expired = l.expired
          BY <1>c, <2>2, <3>3 DEF Offered
        <4> QED
          BY <4>1, <4>2
      <3> QED
        BY <1>e, <3>1, <3>2, <3>3
    <2> QED
      BY <1>a, <2>1, <2>2 DEF NeverPartial, Offered
  <1>3. HistoryIsListings'
    <2>1. \A r \in history : \E l \in listings : r = entry(l)
      BY DEF Listed, HistoryIsListings
    <2>2. ASSUME NEW l \in listings PROVE \E m \in listings' : entry(l) = entry(m)
      <3>1. l \in marks[j] => Expired(l) \in listings' /\ entry(Expired(l)) = entry(l)
        BY <1>d, <1>e
      <3> QED
        BY <1>e, <3>1
    <2>3. ASSUME NEW r \in history' PROVE \E l \in listings' : r = entry(l)
      <3>1. CASE r \in history
        <4>1. PICK l \in listings : r = entry(l)
          BY <2>1, <3>1
        <4>2. PICK m \in listings' : entry(l) = entry(m)
          BY <2>2
        <4> QED
          BY <4>1, <4>2
      <3>2. CASE r \in {entry(new(i)) : i \in items[j]}
        BY <1>e, <3>2
      <3> QED
        BY <1>a, <3>1, <3>2
    <2>4. ASSUME NEW l \in listings' PROVE entry(l) \in history'
      <3>1. \A m \in listings : entry(m) \in history
        BY DEF Listed, HistoryIsListings
      <3>2. \A m \in marks[j] : entry(Expired(m)) = entry(m) /\ m \in listings
        BY <1>d
      <3>3. \A i \in items[j] : entry(new(i)) \in history'
        BY <1>a
      <3>4. history \subseteq history'
        BY <1>a
      <3> QED
        BY <1>e, <3>1, <3>2, <3>3, <3>4
    <2>5. history' = {entry(l) : l \in listings'}
      <3> HIDE DEF entry
      <3> QED
        BY <2>3, <2>4
    <2> QED
      BY <2>5 DEF HistoryIsListings
  <1>4. Named'
    <2>1. \A l \in listings' : l.batch \in Jobs => pc'[l.batch] = "done"
      BY <1>b, <1>c, <1>d, <1>e DEF Listed, Named
    <2>3. \A l \in listings' : l.item \in Offered(l.batch)
      BY <1>c, <1>d, <1>e DEF Listed, Named, Offered
    <2>4. \A l \in listings' : l.item \in Offered(l.batch)'
      BY <1>a, <2>3 DEF Offered
    <2>2. ASSUME NEW l \in listings', NEW m \in listings', l.batch = m.batch, l.item = m.item
          PROVE  l = m
      <3>1. \A k \in listings' : (k.batch = j => k = new(k.item)) /\
                                 (k.batch # j => \/ k \in listings \ marks[j]
                                                 \/ \E n \in marks[j] : k = Expired(n))
        BY <1>c, <1>d, <1>e, <1>f
      <3>2. \A a, b \in listings : a.batch = b.batch /\ a.item = b.item => a = b
        BY DEF Listed, Named
      <3>3. CASE l.batch = j
        BY <2>2, <3>1, <3>3
      <3>4. CASE l.batch # j
        <4>1. ASSUME NEW k \in listings', k.batch = l.batch, k.item = l.item
              PROVE  \E n \in listings : /\ n.batch = l.batch /\ n.item = l.item
                                         /\ k = IF n \in marks[j] THEN Expired(n) ELSE n
          BY <1>d, <3>1, <3>4, <4>1
        <4> QED
          BY <2>2, <3>2, <4>1
      <3> QED
        BY <3>3, <3>4
    <2> QED
      BY <2>1, <2>2, <2>4 DEF Named
  <1>5. Marked'
    <2>1. ASSUME NEW k \in Jobs, k # j, pc[k] = "expire", NEW l \in marks[k]
          PROVE  l \in listings' \/ Expired(l) \in listings'
      <3>1. l \in listings \/ Expired(l) \in listings
        BY <2>1 DEF Listed, Marked
      <3>2. Expired(l) \in listings => Expired(l) \notin marks[j]
        <4>1. l \in Shelf
          BY DEF RefreshTypeOK
        <4>2. Expired(l).expired = TRUE
          BY <4>1 DEF Expired, Shelf
        <4> QED
          BY <1>d, <4>2
      <3> QED
        BY <1>e, <3>1, <3>2
    <2>2. ASSUME NEW k \in Jobs, k # j, pc[k] \in InTx
          PROVE  marks[k] \subseteq listings'
      <3>1. marks[k] \subseteq listings /\ marks[k] \cap marks[j] = {}
        BY <1>a, <2>2 DEF Listed, Marked, InTx
      <3> QED
        BY <1>e, <3>1
    <2> QED
      BY <1>a, <1>b, <2>1, <2>2 DEF Listed, Marked, Whole, Offered, InTx
  <1>6. Anchors'
    <2>1. history \subseteq history'
      BY <1>a
    <2> QED
      BY <1>a, <2>1, AnchorsKept
  <1>7. Alone'
    <2>1. ASSUME ~overlapped, NEW l \in Active' PROVE l.batch = j
      <3>1. l \in listings \ marks[j] => l \in Active
        BY <2>1 DEF Active
      <3>2. marks[j] = Active
        BY <1>a, <2>1 DEF Alone, InTx
      <3>3. l \in listings' /\ ~l.expired
        BY <2>1 DEF Active
      <3> QED
        BY <1>c, <1>d, <1>e, <3>1, <3>2, <3>3
    <2>2. ASSUME ~overlapped, NEW k \in Jobs PROVE pc'[k] \in {"idle", "done"}
      BY <1>a, <1>b, <2>2 DEF Alone
    <2> QED
      BY <1>a, <2>1, <2>2 DEF Alone, InTx, Priced
  <1>8. Moved'
    BY <1>a, <1>b DEF Moved, InTx, Priced, CurrentPrice
  <1> QED
    BY <1>1, <1>2, <1>3, <1>4, <1>5, <1>6, <1>7, <1>8 DEF Listed

\* An update of the anchors keeps what is said of listings and refreshes, whatever
\* it does to the anchors.
LEMMA AnchorStep ==
    ASSUME Refresh, UNCHANGED <<listings, history, jobVars>>, anchor' \in [Items -> Positive],
           todo' \in [Jobs -> SUBSET Items], seen' \in [Jobs -> {Nothing} \cup Means],
           blind' \subseteq Items, Anchors'
    PROVE  Refresh'
  <1> USE DEF Refresh, jobVars
  <1>1. RefreshTypeOK' /\ JobsTyped'
    BY DEF RefreshTypeOK, JobsTyped, Running
  <1>2. NeverPartial' /\ HistoryIsListings' /\ Named' /\ Marked'
    <2>1. NeverPartial' /\ HistoryIsListings' /\ Named'
      BY DEF Listed, NeverPartial, HistoryIsListings, Named, Offered, Active
    <2>2. Marked'
      BY DEF Listed, Marked, Whole, Offered
    <2> QED
      BY <2>1, <2>2
  <1>3. Alone' /\ Moved'
    BY DEF Alone, Moved, Active, Running, CurrentPrice
  <1> QED
    BY <1>1, <1>2, <1>3 DEF Listed

\* The prices of an item are read: they are some of its prices.
LEMMA ReadMeanKept == ASSUME Refresh, NEW j \in Jobs, ReadMean(j) PROVE Refresh'
  <1> USE DEF Refresh
  <1>a. PICK i \in todo[j] :
            /\ seen' = seen \/ seen' = [seen EXCEPT ![j] = Mean(i)]
            /\ todo' = [todo EXCEPT ![j] = todo[j] \ {i}]
            /\ UNCHANGED <<anchor, listings, history, jobVars, blind>>
    BY DEF ReadMean
  <1>b. Mean(i) \in Means /\ Mean(i).item = i /\ Mean(i).prices = PricesOf(i) /\ Mean(i).anchor = 0
    BY DEF Mean, Means, PricesOf, RefreshTypeOK, JobsTyped
  <1>c. seen' \in [Jobs -> {Nothing} \cup Means] /\ todo' \in [Jobs -> SUBSET Items]
    BY <1>a, <1>b DEF JobsTyped
  <1>1. Anchors'
    <2>1. AnchorWithinPrices'
      BY <1>a DEF Anchors, AnchorWithinPrices, Known, PricesOf
    <2>2. MeansWithin'
      <3>1. /\ seen'[j] = seen[j] \/ seen'[j] = Mean(i)
            /\ \A k \in Jobs \ {j} : seen'[k] = seen[k]
        BY <1>a DEF JobsTyped
      <3>2. history' = history /\ blind' = blind
        BY <1>a
      <3>3. ASSUME NEW k \in Jobs, seen'[k] # Nothing
            PROVE  /\ seen'[k].prices \subseteq PricesOf(seen'[k].item)
                   /\ seen'[k].anchor # 0 => Within(seen'[k].item, seen'[k].anchor)
        BY <1>b, <3>1, <3>3 DEF Anchors, MeansWithin
      <3> QED
        BY <3>2, <3>3 DEF MeansWithin, Within, Known, PricesOf
    <2> QED
      BY <2>1, <2>2 DEF Anchors
  <1> QED
    BY <1>a, <1>c, <1>1, AnchorStep DEF RefreshTypeOK

\* The anchor is read: it is within the prices.  Or it is not, and is taken for 0.
LEMMA ReadAnchorKept == ASSUME Refresh, NEW j \in Jobs, ReadAnchor(j) PROVE Refresh'
  <1> USE DEF Refresh
  <1>a. PICK current \in {0, anchor[seen[j].item]} :
        /\ seen[j] # Nothing /\ seen[j] \in Means
        /\ seen' = [seen EXCEPT ![j] = [seen[j] EXCEPT !.anchor = current, !.done = TRUE]]
        /\ UNCHANGED <<anchor, listings, history, jobVars, todo, blind>>
    BY DEF ReadAnchor, JobsTyped
  <1> DEFINE new == [seen[j] EXCEPT !.anchor = current, !.done = TRUE]
  <1>b. /\ new \in Means /\ new.item = seen[j].item /\ new.prices = seen[j].prices
        /\ new.anchor = current /\ seen[j].item \in Items
    <2>1. current \in Nat
      BY <1>a DEF RefreshTypeOK, Means, Positive
    <2>2. seen[j] \in [item: Items, prices: SUBSET Positive, anchor: Nat, done: BOOLEAN]
      BY <1>a DEF Means
    <2>3. new \in [item: Items, prices: SUBSET Positive, anchor: Nat, done: BOOLEAN]
      BY <2>1, <2>2
    <2> QED
      BY <2>1, <2>2, <2>3 DEF Means
  <1> HIDE DEF new
  <1>c. /\ seen' \in [Jobs -> {Nothing} \cup Means]
        /\ seen'[j] = new /\ \A k \in Jobs \ {j} : seen'[k] = seen[k]
    BY <1>a, <1>b DEF JobsTyped, new
  <1>1. Anchors'
    <2>1. AnchorWithinPrices'
      BY <1>a DEF Anchors, AnchorWithinPrices, Known, PricesOf
    <2>2. current # 0 => Within(seen[j].item, current)
      BY <1>b DEF Anchors, AnchorWithinPrices, Within
    <2>3. MeansWithin'
      <3>1. history' = history /\ blind' = blind
        BY <1>a
      <3>2. ASSUME NEW k \in Jobs, seen'[k] # Nothing
            PROVE  /\ seen'[k].prices \subseteq PricesOf(seen'[k].item)
                   /\ seen'[k].anchor # 0 => Within(seen'[k].item, seen'[k].anchor)
        BY <1>a, <1>b, <1>c, <2>2, <3>2 DEF Anchors, MeansWithin
      <3> QED
        BY <3>1, <3>2 DEF MeansWithin, Within, Known, PricesOf
    <2> QED
      BY <2>1, <2>3 DEF Anchors
  <1> QED
    BY <1>a, <1>c, <1>1, AnchorStep DEF RefreshTypeOK, JobsTyped

\* The anchor is written, between what was read for it, which another update may have
\* replaced, and prices that were read.
LEMMA WriteAnchorKept == ASSUME Refresh, NEW j \in Jobs, WriteAnchor(j) PROVE Refresh'
  <1> USE DEF Refresh
  <1> DEFINE i == seen[j].item
             c == seen[j].anchor
  <1>a. PICK low \in seen[j].prices, high \in seen[j].prices :
            \E a \in NudgedAnchors(c, low, high) :
                /\ seen[j] # Nothing /\ seen[j] \in Means /\ low <= high
                /\ anchor' = [anchor EXCEPT ![i] = a]
                /\ blind' = blind \cup {k \in {i} : c = 0}
                /\ seen' = [seen EXCEPT ![j] = Nothing]
                /\ UNCHANGED <<listings, history, jobVars, todo>>
    BY DEF WriteAnchor, JobsTyped
  <1>b. PICK a \in NudgedAnchors(c, low, high) : anchor' = [anchor EXCEPT ![i] = a]
    BY <1>a
  <1>c. low \in Positive /\ high \in Positive /\ c \in Nat /\ i \in Items
    BY <1>a DEF Means
  <1>d. /\ a \in Positive /\ low <= 10 * a + 5
        /\ a <= high \/ a <= c
        /\ low <= a \/ c <= a
    BY <1>a, <1>b, <1>c, NudgeStaysBetween
  <1>e. /\ low \in Known(i) /\ high \in Known(i) /\ \A r \in Known(i) : r \in Int
        /\ c # 0 => Within(i, c)
    <2>1. low \in Known(i) /\ high \in Known(i) /\ (c # 0 => Within(i, c))
      BY <1>a DEF Anchors, MeansWithin, Known
    <2>2. \A r \in Known(i) : r \in Int
      BY <1>c, AnchorsArePositive DEF Known, RefreshTypeOK, PricesOf, Positive
    <2> QED
      BY <2>1, <2>2
  <1>f. /\ \E p \in Known(i) : a <= p
        /\ \E p \in Known(i) : p <= 10 * a + 5
        /\ c # 0 /\ i \notin blind => \E p \in Known(i) : p <= a
    <2>1. a \in Int /\ c \in Int /\ a >= 1
      BY <1>c, <1>d DEF Positive
    <2>2. \E p \in Known(i) : a <= p
      <3>1. CASE a <= high
        BY <1>e, <3>1
      <3>2. CASE a <= c
        <4>1. PICK p \in Known(i) : c <= p
          BY <1>e, <2>1, <3>2 DEF Within
        <4> QED
          BY <1>e, <2>1, <3>2, <4>1
      <3> QED
        BY <1>d, <3>1, <3>2
    <2>3. ASSUME c # 0, i \notin blind PROVE \E p \in Known(i) : p <= a
      <3>1. PICK p \in Known(i) : p <= c
        BY <1>e, <2>3 DEF Within
      <3>2. low <= a \/ p <= a
        BY <1>d, <1>e, <2>1, <3>1
      <3> QED
        BY <1>e, <3>2
    <2> QED
      BY <1>d, <1>e, <2>2, <2>3
  <1> HIDE DEF i, c
  <1>1. /\ anchor' \in [Items -> Positive] /\ seen' \in [Jobs -> {Nothing} \cup Means]
        /\ blind' \subseteq Items
    BY <1>a, <1>b, <1>c, <1>d DEF RefreshTypeOK, JobsTyped
  <1>2. Anchors'
    <2>1. history' = history /\ \A k \in Jobs : seen'[k] = Nothing \/ seen'[k] = seen[k]
      BY <1>a DEF JobsTyped
    <2>2. blind \subseteq blind' /\ (c = 0 => i \in blind')
      BY <1>a
    <2>3. /\ anchor'[i] = a /\ \A k \in Items \ {i} : anchor'[k] = anchor[k]
      BY <1>b, <1>c DEF RefreshTypeOK
    <2>4. ASSUME NEW k \in Items
          PROVE  /\ \E p \in Known(k) : anchor'[k] <= p
                 /\ \E p \in Known(k) : p <= 10 * anchor'[k] + 5
                 /\ k \notin blind' => \E p \in Known(k) : p <= anchor'[k]
      <3>1. CASE k = i
        BY <1>f, <2>2, <2>3, <3>1
      <3>2. CASE k # i
        BY <2>2, <2>3, <3>2 DEF Anchors, AnchorWithinPrices
      <3> QED
        BY <3>1, <3>2
    <2>5. \A k \in Items : Known(k)' = Known(k)
      BY <2>1 DEF Known, PricesOf
    <2>6. AnchorWithinPrices'
      BY <2>4, <2>5 DEF AnchorWithinPrices
    <2>7. ASSUME NEW k \in Jobs, seen'[k] # Nothing
          PROVE  /\ seen'[k].prices \subseteq PricesOf(seen'[k].item)
                 /\ seen'[k].anchor # 0 => Within(seen'[k].item, seen'[k].anchor)
      BY <2>1, <2>7 DEF Anchors, MeansWithin
    <2>8. MeansWithin'
      BY <2>1, <2>2, <2>7 DEF MeansWithin, Within, Known, PricesOf
    <2> QED
      BY <2>6, <2>8 DEF Anchors
  <1> QED
    BY <1>a, <1>1, <1>2, AnchorStep DEF JobsTyped

\* An update of the anchors does not write one, or is lost.
LEMMA AnchorLost ==
    ASSUME Refresh, NEW j \in Jobs, WriteFails(j) \/ FailAnchors(j)
    PROVE  Refresh'
  <1> USE DEF Refresh
  <1>a. /\ seen' = [seen EXCEPT ![j] = Nothing]
        /\ todo' = todo \/ todo' = [todo EXCEPT ![j] = {}]
        /\ UNCHANGED <<anchor, listings, history, jobVars, blind>>
    BY DEF WriteFails, FailAnchors
  <1>b. seen' \in [Jobs -> {Nothing} \cup Means] /\ todo' \in [Jobs -> SUBSET Items]
    BY <1>a DEF JobsTyped
  <1>1. Anchors'
    <2>1. /\ history' = history /\ anchor' = anchor /\ blind' = blind
          /\ \A k \in Jobs : seen'[k] = Nothing \/ seen'[k] = seen[k]
      BY <1>a DEF JobsTyped
    <2> QED
      BY <2>1 DEF Anchors, AnchorWithinPrices, MeansWithin, Within, Known, PricesOf
  <1> QED
    BY <1>a, <1>b, <1>1, AnchorStep DEF RefreshTypeOK

\* Every step keeps Refresh.
LEMMA RefreshNext == Refresh /\ [Next]_vars => Refresh'
  <1> SUFFICES ASSUME Refresh, [Next]_vars PROVE Refresh'
    OBVIOUS
  <1>1. CASE UNCHANGED vars
    <2>1. Anchors'
      BY <1>1, AnchorsKept DEF Refresh, vars, goVars
    <2> QED
      BY <1>1, <2>1, AnchorStep DEF vars, goVars, Refresh, RefreshTypeOK, JobsTyped
  <1>2. ASSUME NEW j \in Jobs,
               ReadAnchors(j) \/ Work(j) \/ FailJob(j) \/ Update(j) \/ FailAnchors(j)
        PROVE  Refresh'
    BY <1>2, ReadAnchorsKept, ReadCurrentKept, PriceKept, ExpireStartKept, ExpireDoneKept,
       InsertAllKept, CommitJobKept, FailJobKept, ReadMeanKept, ReadAnchorKept, WriteAnchorKept,
       AnchorLost DEF Work, Update
  <1> QED
    BY <1>1, <1>2 DEF Next

\* Refresh is an invariant of the specification.
THEOREM RefreshIsKept == SafeSpec => []Refresh
  BY RefreshInit, RefreshNext, PTL DEF SafeSpec

-----------------------------------------------------------------------------
(* What it says. *)

\* The tables and the jobs keep their types, and no price or anchor falls under 1.
THEOREM RefreshTypes == SafeSpec => []RefreshTypeOK
  BY RefreshIsKept, PTL DEF Refresh

\* Nobody ever sees a part of a refresh, however many run at once and whichever
\* fail, and something is always listed (refresh.go:83).
THEOREM NobodySeesAPart == SafeSpec => []NeverPartial
  BY RefreshIsKept, PTL DEF Refresh, Listed

\* The price history has every price that was listed, and no other.
THEOREM HistoryHasThePrices == SafeSpec => []HistoryIsListings
  BY RefreshIsKept, PTL DEF Refresh, Listed

\* An anchor stays within the prices there have been, though an update may write
\* from an anchor that another has replaced (refresh.go:415); and one that was
\* written without being read is not under a tenth of them (refresh.go:412).
THEOREM AnchorsStayWithin == SafeSpec => []AnchorWithinPrices
  BY RefreshIsKept, PTL DEF Refresh, Anchors

\* Refreshes that have not overlapped leave each item of the last one, and no other,
\* one price (refresh.go:90).
THEOREM OnePriceAtATime == SafeSpec => []OneListingPerItem
  <1>1. ASSUME Refresh, ~overlapped
        PROVE  \E b \in Jobs \cup {NoJob} : \A i \in Items :
                 Cardinality(ActiveOf(i)) = IF i \in Offered(b) THEN 1 ELSE 0
    <2>1. PICK l \in Active : TRUE
      BY <1>1 DEF Refresh, Listed, NeverPartial
    <2>2. /\ l.batch \in Jobs \cup {NoJob} /\ l \in listings /\ ~l.expired
          /\ \A m \in Active : m.batch = l.batch
      BY <1>1 DEF Refresh, Alone, RefreshTypeOK, Shelf, Active
    <2>3. ASSUME NEW i \in Items, i \in Offered(l.batch)
          PROVE  Cardinality(ActiveOf(i)) = 1
      <3>1. PICK m \in ActiveOf(i) : TRUE
        BY <1>1, <2>2, <2>3 DEF Refresh, Listed, NeverPartial, ActiveOf, Active
      <3>2. \A n \in ActiveOf(i) : n = m
        BY <1>1, <2>2 DEF Refresh, Listed, Named, ActiveOf, Active
      <3>3. ActiveOf(i) = {m}
        BY <3>1, <3>2
      <3> QED
        BY <3>3, FS_Singleton
    <2>4. ASSUME NEW i \in Items, i \notin Offered(l.batch)
          PROVE  Cardinality(ActiveOf(i)) = 0
      <3>1. \A m \in listings : m.item \in Offered(m.batch)
        BY <1>1 DEF Refresh, Listed, Named
      <3>2. ActiveOf(i) = {}
        BY <2>2, <2>4, <3>1 DEF ActiveOf, Active
      <3> QED
        BY <3>2, FS_EmptySet
    <2> QED
      BY <2>2, <2>3, <2>4
  <1>2. Refresh => OneListingPerItem
    BY <1>1 DEF OneListingPerItem
  <1> QED
    BY <1>2, RefreshIsKept, PTL

\* An hourly refresh that has run alone moves each price by a fifth at most, or,
\* without trades, a fiftieth of the way to its anchor: the price it could read, or
\* the anchor in its place (refresh.go:213, 259-262, 294, 339-362).
THEOREM HourlyMovesAreSmall == SafeSpec => HourlyMoveIsSmall
  <1> DEFINE Small == \A j \in Jobs :
         ~overlapped /\ kind[j] = "hourly" /\ listings' # listings /\ pc[j] # pc'[j] =>
            MovedLittle(j)
  <1>1. ASSUME Refresh, [Next]_vars, NEW j \in Jobs,
               ~overlapped, kind[j] = "hourly", listings' # listings, pc[j] # pc'[j]
        PROVE  MovedLittle(j)
    <2>1. PICK k \in Jobs : CommitJob(k)
      BY <1>1
         DEF Next, Work, Update, ReadAnchors, ReadCurrent, Price, ExpireStart, ExpireDone,
         InsertAll,
         FailJob, ReadMean, ReadAnchor, WriteAnchor, WriteFails, FailAnchors, vars
    <2>2. k = j /\ pc[j] = "commit"
      BY <1>1, <2>1 DEF CommitJob, EndJob, Goto, Refresh, RefreshTypeOK
    <2>3. \A l \in Active : l.item \in items[j] => PricedFrom(j, l) = CurrentPrice(j, l.item)
      BY <1>1, <2>2 DEF Refresh, Alone, Priced, InTx, PricedFrom, CurrentPrice
    <2>4. \/ \A i \in items[j] : MovedByAFifth(fresh[j][i], CurrentPrice(j, i))
          \/ \A i \in items[j] : MovedByAFiftieth(fresh[j][i], CurrentPrice(j, i), read[j][i].anchor)
      BY <1>1, <2>2 DEF Refresh, Moved, Priced, InTx
    <2>5. \/ \A l \in {m \in Active : m.item \in items[j]} :
               MovedByAFifth(fresh[j][l.item], PricedFrom(j, l))
          \/ \A l \in {m \in Active : m.item \in items[j]} :
               MovedByAFiftieth(fresh[j][l.item], PricedFrom(j, l), read[j][l.item].anchor)
      BY <2>3, <2>4
    <2> QED
      BY <2>5 DEF MovedLittle
  <1>2. Refresh /\ [Next]_vars => [Small]_vars
    BY <1>1
  <1> QED
    BY <1>2, RefreshIsKept, PTL DEF SafeSpec, HourlyMoveIsSmall
=============================================================================
