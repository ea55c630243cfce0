----------------------------- MODULE ReadsProofs -----------------------------
(***************************************************************************)
(* What an answer put together by several SELECTs may be relied on for,    *)
(* for any goods, listings, limits and refreshes.  Reading is the          *)
(* inductive invariant: what the market keeps, what is left to read, and   *)
(* how what has been read compares with the market of now.                 *)
(***************************************************************************)
EXTENDS ReadsSafety, FiniteSetTheorems, WellFoundedInduction, TLAPS

\* What a reader may have left to run.
Left == { SnapshotOrder,
          <<"goods", "volume", "prices", "listings", "event", "recent">>,
          <<"volume", "prices", "listings", "event", "recent">>,
          <<"prices", "listings", "event", "recent">>,
          <<"listings", "event", "recent">>,
          <<"event", "recent">>,
          <<"recent">>,
          MarketOrder, <<"event">>, <<"page">>, <<>> }

\* Rows of market_listings.
Offers == [id: Nat \X Items, item: Items, price: Nat, expired: BOOLEAN]

\* A good is named by its row; the names of what Me has sold are in order, once each.
GoodsKept ==
    /\ \A g \in goods : g = [id |-> g.id, agent |-> g.agent, item |-> g.item, paid |-> g.paid,
                             sold |-> g.sold, got |-> g.got]
    /\ \A g, k \in goods : g.id = k.id => g = k
    /\ order \in Seq({g.id : g \in goods})
    /\ \A i \in DOMAIN order : \E g \in goods : g.id = order[i] /\ g.sold # NoTrade
    /\ \A i, j \in DOMAIN order : order[i] = order[j] => i = j
    /\ \A g \in goods : g.agent = Me /\ g.sold # NoTrade => \E i \in DOMAIN order : order[i] = g.id

\* A batch is listed at a time of its own, before any that begins after it ends;
\* while none has overlapped another, only the last batch is on sale.
ListingsKept ==
    /\ batch \in Nat
    /\ \A l \in listings : l \in Offers /\ l.id[1] \in 0..batch
    /\ at \in [0..batch -> Nat] /\ \A b \in 0..batch : at[b] <= 2 * batch
    /\ events \subseteq 0..batch
    /\ overlapped \in BOOLEAN
    /\ ~overlapped => /\ \A b \in 0..batch : at[b] = 2 * b
                      /\ \A l \in listings : ~l.expired => l.id[1] = batch

ReaderTyped ==
    /\ todo \in Left
    /\ seen = [begun |-> seen.begun, trades |-> seen.trades, goods |-> seen.goods,
               counted |-> seen.counted, prices |-> seen.prices, listings |-> seen.listings,
               event |-> seen.event, recent |-> seen.recent, asked |-> seen.asked,
               offset |-> seen.offset, rows |-> seen.rows, sold |-> seen.sold]
    /\ ~seen.begun => todo = <<>> /\ seen = NothingSeen /\ failed = {}

\* What the snapshot has read of trades and goods.
GoodsRead ==
    /\ seen.trades \subseteq {t \in Trades : Made(t)}
    /\ \A s \in seen.goods : s.sold = NoTrade /\ \E g \in goods : g.id = s.id
    /\ "goods" \in ToSet(todo) => seen.goods = {}
    /\ SnapshotMissesNoGood

\* While no refresh has overlapped another: no price between the two that have been
\* read is that of a listing, nor of one to come; and a listing that has been read is
\* later than the older of them.
NoneBetween(p, i) ==
    ~overlapped => \A m \in listings :
        m.item = i /\ p.before < at[m.id[1]] => p.newest <= at[m.id[1]]
PricesRead ==
    \A i \in Items : /\ seen.prices[i].before \in Int /\ seen.prices[i].before < 2 * batch
                     /\ seen.prices[i].newest \in Int /\ seen.prices[i].newest <= 2 * batch
                     /\ NoneBetween(seen.prices[i], i)
LooksBack ==
    ~overlapped => \A l \in seen.listings : seen.prices[l.item].before < at[l.id[1]]

\* What has been read of listings, their past and the events.
ListingsRead ==
    /\ \A l \in seen.listings : l.id[1] \in 0..batch /\ l.item \in Items
    /\ "listings" \in ToSet(todo) => seen.listings = {}
    /\ PricesRead /\ EventIsNotOlder /\ LooksBack

\* What a client has paged through.
PagesRead ==
    /\ seen.asked \in Nat /\ seen.offset \in Nat
    /\ seen.sold \subseteq ToSet(order)
    /\ \A j \in DOMAIN order : j <= seen.offset /\ order[j] \in seen.sold => order[j] \in seen.rows
    /\ todo \notin {<<>>, <<"page">>} => seen.sold = {}
    /\ PagingMissesNothing

Reading == GoodsKept /\ ListingsKept /\ ReaderTyped /\ GoodsRead /\ ListingsRead /\ PagesRead

-----------------------------------------------------------------------------
(* What is left to read. *)

\* A statement is run once, after those before it.
LEMMA StatementsInOrder ==
    ASSUME NEW s \in Left
    PROVE  /\ s = <<>> <=> ToSet(s) = {}
           /\ "balance" \in ToSet(s) => "goods" \in ToSet(s)
           /\ "goods" \in ToSet(s) => "volume" \in ToSet(s)
           /\ "prices" \in ToSet(s) => "listings" \in ToSet(s)
           /\ "listings" \in ToSet(s) => "event" \in ToSet(s)
           /\ "page" \in ToSet(s) => s = <<"page">>
           /\ s # <<>> => /\ Head(s) \in ToSet(s) /\ Tail(s) \in Left
                          /\ ToSet(Tail(s)) = ToSet(s) \ {Head(s)}
  <1> USE DEF ToSet, Left
  <1>1. CASE s = SnapshotOrder
    BY <1>1 DEF SnapshotOrder
  <1>2. CASE s = <<"goods", "volume", "prices", "listings", "event", "recent">>
    BY <1>2
  <1>3. CASE s = <<"volume", "prices", "listings", "event", "recent">>
    BY <1>3
  <1>4. CASE s = <<"prices", "listings", "event", "recent">>
    BY <1>4
  <1>5. CASE s = <<"listings", "event", "recent">>
    BY <1>5
  <1>6. CASE s = <<"event", "recent">>
    BY <1>6
  <1>7. CASE s = <<"recent">>
    BY <1>7
  <1>8. CASE s = MarketOrder
    BY <1>8 DEF MarketOrder
  <1>9. CASE s = <<"event">>
    BY <1>9
  <1>10. CASE s = <<"page">>
    BY <1>10
  <1>11. CASE s = <<>>
    BY <1>11
  <1> QED
    BY <1>1, <1>2, <1>3, <1>4, <1>5, <1>6, <1>7, <1>8, <1>9, <1>10, <1>11

-----------------------------------------------------------------------------
(* The operators the statements are made of. *)

\* A set of whole numbers with a bound has a largest one, and Max is it.
LEMMA MaxIsLargest ==
    ASSUME NEW N \in Nat, NEW S, S \subseteq (-1)..N, S # {}
    PROVE  Max(S) \in S /\ \A x \in S : x <= Max(S)
  <1> DEFINE Gaps == {N - x : x \in S}
             Less == OpToRel(<, Nat)
  <1>1. Gaps \subseteq Nat /\ Gaps # {}
    <2>1. \A x \in S : N - x \in Nat
      OBVIOUS
    <2> QED
      BY <2>1
  <1>2. PICK g \in Gaps : \A k \in Gaps : <<k, g>> \notin Less
    <2> HIDE DEF Gaps, Less
    <2> QED
      BY <1>1, WFMin, NatLessThanWellFounded DEF Less
  <1>3. PICK m \in S : g = N - m
    OBVIOUS
  <1>4. ASSUME NEW x \in S PROVE m >= x
    <2>1. N - x \in Gaps /\ N - x \in Nat /\ N - m \in Nat
      OBVIOUS
    <2>2. ~(N - x < N - m)
      BY <1>2, <1>3, <2>1 DEF OpToRel
    <2> QED
      BY <2>2
  <1>5. Max(S) \in S /\ \A y \in S : Max(S) >= y
    BY <1>4 DEF Max
  <1> QED
    BY <1>5

\* The newest of some times, or -1.
LEMMA NewestIsLast ==
    ASSUME NEW N \in Nat, NEW T, T \subseteq 0..N
    PROVE  /\ Newest(T) \in Int /\ Newest(T) <= N
           /\ Newest(T) \in T \/ Newest(T) = -1
           /\ \A x \in T : x <= Newest(T)
  <1> DEFINE S == {-1} \cup T
  <1>1. S \subseteq (-1)..N /\ S # {}
    OBVIOUS
  <1>2. Max(S) \in S /\ \A x \in S : x <= Max(S)
    <2> HIDE DEF S
    <2> QED
      BY <1>1, MaxIsLargest
  <1>3. Newest(T) = Max(S)
    BY DEF Newest
  <1> HIDE DEF Newest
  <1>4. Newest(T) \in S /\ \A x \in S : x <= Newest(T)
    BY <1>2, <1>3
  <1>5. \A x \in S : x \in Int /\ x <= N /\ (x \in T \/ x = -1)
    OBVIOUS
  <1>6. \A x \in T : x \in S
    OBVIOUS
  <1> HIDE DEF S
  <1> QED
    BY <1>4, <1>5, <1>6

\* The second newest of some times is before the newest, and none is in between.
LEMMA SecondIsEarlier ==
    ASSUME NEW N \in Nat, NEW T, T \subseteq 0..N
    PROVE  /\ Second(T) \in Int /\ Second(T) < N
           /\ \A x \in T : Second(T) < x => Newest(T) <= x
  <1> DEFINE a == Newest(T)
             U == T \ {a}
             b == Newest(U)
  <1>1. a \in Int /\ a <= N /\ \A x \in T : x <= a
    BY NewestIsLast
  <1>2. U \subseteq T /\ U \subseteq 0..N /\ a \notin U
    OBVIOUS
  <1>3. b \in Int /\ (b \in U \/ b = -1) /\ \A x \in U : x <= b
    <2> HIDE DEF U
    <2> QED
      BY <1>2, NewestIsLast
  <1>4. Second(T) = b
    BY DEF Second
  <1>5. \A x \in T : x = a \/ x \in U
    OBVIOUS
  <1> HIDE DEF a, b, U
  <1>6. b < N
    <2>1. CASE b \in U
      <3>1. b <= a /\ b # a
        BY <1>1, <1>2, <2>1
      <3> QED
        BY <1>1, <1>3, <3>1
    <2> QED
      BY <1>3, <2>1
  <1>7. ASSUME NEW x \in T, b < x PROVE a <= x
    <2>1. x \in Int
      OBVIOUS
    <2> QED
      BY <1>1, <1>3, <1>5, <1>7, <2>1
  <1> QED
    BY <1>3, <1>4, <1>6, <1>7 DEF a

\* Two sequences one after the other.
LEMMA Concatenated ==
    ASSUME NEW S, NEW a \in Seq(S), NEW b \in Seq(S)
    PROVE  /\ a \o b \in Seq(S) /\ Len(a \o b) = Len(a) + Len(b)
           /\ \A i \in 1..Len(a) : (a \o b)[i] = a[i]
           /\ \A i \in (Len(a) + 1)..(Len(a) + Len(b)) : (a \o b)[i] = b[i - Len(a)]
  OBVIOUS

\* Where what is inserted, and what is behind it, ends up.
LEMMA InsertAtPlaces ==
    ASSUME NEW S, NEW s \in Seq(S), NEW e \in S, NEW k \in 1..(Len(s) + 1)
    PROVE  \A u : u = InsertAt(s, k, e) =>
             /\ u \in Seq(S) /\ Len(u) = Len(s) + 1
             /\ \A i \in 1..(k - 1) : u[i] = s[i]
             /\ u[k] = e
             /\ \A i \in (k + 1)..(Len(s) + 1) : u[i] = s[i - 1]
  <1> DEFINE front == SubSeq(s, 1, k - 1)
             back  == SubSeq(s, k, Len(s))
  <1>1. /\ front \in Seq(S) /\ Len(front) = k - 1
        /\ \A i \in 1..(k - 1) : front[i] = s[i]
    OBVIOUS
  <1>2. /\ back \in Seq(S) /\ Len(back) = Len(s) + 1 - k
        /\ \A i \in 1..(Len(s) + 1 - k) : back[i] = s[k + i - 1]
    OBVIOUS
  <1>3. <<e>> \in Seq(S) /\ Len(<<e>>) = 1 /\ <<e>>[1] = e
    OBVIOUS
  <1> DEFINE head == front \o <<e>>
  <1>4. /\ head \in Seq(S) /\ Len(head) = k
        /\ \A i \in 1..(k - 1) : head[i] = s[i]
        /\ head[k] = e
    <2> HIDE DEF front
    <2>1. Len(front) = k - 1 /\ (k - 1) + 1 = k
      BY <1>1
    <2> QED
      BY <1>1, <1>3, <2>1, Concatenated
  <1>5. InsertAt(s, k, e) = head \o back
    BY DEF InsertAt
  <1> DEFINE t == head \o back
  <1>6. /\ t \in Seq(S) /\ Len(t) = Len(s) + 1
        /\ \A i \in 1..k : t[i] = head[i]
        /\ \A i \in (k + 1)..(Len(s) + 1) : t[i] = back[i - k]
    <2> HIDE DEF head, back
    <2>1. Len(head) = k /\ Len(back) = Len(s) + 1 - k /\ k + (Len(s) + 1 - k) = Len(s) + 1
      BY <1>2, <1>4
    <2> QED
      BY <1>2, <1>4, <2>1, Concatenated
  <1>7. \A i \in (k + 1)..(Len(s) + 1) : t[i] = s[i - 1]
    <2> HIDE DEF head, back, t
    <2> SUFFICES ASSUME NEW i \in (k + 1)..(Len(s) + 1) PROVE t[i] = s[i - 1]
      OBVIOUS
    <2>1. i - k \in 1..(Len(s) + 1 - k) /\ k + (i - k) - 1 = i - 1
      OBVIOUS
    <2> QED
      BY <1>2, <1>6, <2>1
  <1> HIDE DEF head, back, front, t
  <1> QED
    BY <1>4, <1>5, <1>6, <1>7 DEF t

\* A page that is not full is the last.
LEMMA ShortPageIsLast ==
    ASSUME NEW S, order \in Seq(S), \A i, j \in DOMAIN order : order[i] = order[j] => i = j,
           NEW o \in Nat, NEW n \in Nat, Cardinality(Page(o, n)) < n
    PROVE  Len(order) < o + n
  <1> SUFFICES ASSUME Len(order) >= o + n PROVE FALSE
    OBVIOUS
  <1> DEFINE I == (o + 1)..(o + n)
             f == [i \in I |-> order[i]]
  <1>1. I \subseteq DOMAIN order
    OBVIOUS
  <1>2. Page(o, n) = {order[i] : i \in I}
    <2>1. I = {j \in DOMAIN order : o < j /\ j <= o + n}
      BY <1>1
    <2> QED
      BY <2>1 DEF Page
  <1>3. f \in Surjection(I, Page(o, n)) /\ f \in Injection(I, Page(o, n))
    BY <1>1, <1>2 DEF Surjection, Injection, IsInjective
  <1>4. IsFiniteSet(I) /\ Cardinality(I) = n
    BY FS_Interval
  <1>5. Cardinality(Page(o, n)) = n
    <2> HIDE DEF I, f
    <2> QED
      BY <1>3, <1>4, FS_Surjection
  <1> QED
    BY <1>5

\* There are no more new sales than sales.
LEMMA NewSalesAreSales == ASSUME GoodsKept PROVE NewSales \in Nat /\ NewSales <= Len(order)
  <1> DEFINE G == {g \in goods : g.agent = Me /\ g.sold \in Trades}
             I == {i \in DOMAIN order : \E g \in G : g.id = order[i]}
             f == [i \in I |-> CHOOSE g \in G : g.id = order[i]]
  <1>1. Len(order) \in Nat /\ DOMAIN order = 1..Len(order)
    BY DEF GoodsKept
  <1>2. IsFiniteSet(I) /\ Cardinality(I) \in Nat /\ Cardinality(I) <= Len(order)
    <2>1. IsFiniteSet(1..Len(order)) /\ Cardinality(1..Len(order)) = Len(order)
      <3> DEFINE n == Len(order)
      <3>1. n \in Nat
        BY <1>1
      <3> HIDE DEF n
      <3>2. IsFiniteSet(1..n) /\ Cardinality(1..n) = n
        BY <3>1, FS_Interval
      <3> QED
        BY <3>2 DEF n
    <2>2. I \in SUBSET (1..Len(order))
      BY <1>1
    <2> HIDE DEF I
    <2> QED
      BY <2>1, <2>2, FS_Subset, FS_CardinalityType
  <1>3. \A i \in I : f[i] \in G /\ f[i].id = order[i]
    OBVIOUS
  <1>4. ASSUME NEW g \in G PROVE \E i \in I : f[i] = g
    <2>1. PICK i \in DOMAIN order : order[i] = g.id
      BY NoTradeIsNotATrade DEF GoodsKept
    <2>2. i \in I
      BY <2>1
    <2>3. f[i] \in goods /\ f[i].id = g.id
      BY <1>3, <2>1, <2>2
    <2> QED
      BY <2>2, <2>3 DEF GoodsKept
  <1>5. f \in Surjection(I, G)
    <2>1. f \in [I -> G]
      BY <1>3
    <2> HIDE DEF I, G, f
    <2> QED
      BY <2>1, <1>4 DEF Surjection
  <1>6. IsFiniteSet(G) /\ Cardinality(G) <= Cardinality(I)
    <2> HIDE DEF I, G, f
    <2> QED
      BY <1>2, <1>5, FS_Surjection
  <1>7. NewSales = Cardinality(G)
    BY DEF NewSales
  <1> HIDE DEF I, G, f
  <1> QED
    BY <1>1, <1>2, <1>6, <1>7, FS_CardinalityType

\* Sequences over a set are sequences over a larger one.
LEMMA SeqGrows ==
    ASSUME NEW S, NEW T, S \subseteq T, NEW s \in Seq(S)
    PROVE  s \in Seq(T)
  OBVIOUS

-----------------------------------------------------------------------------
(* Init => Reading *)

\* One batch is listed, and nobody has read.
LEMMA ReadsBegin == ReadsInit => Reading
  <1> SUFFICES ASSUME ReadsInit PROVE Reading
    OBVIOUS
  <1> USE DEF ReadsInit, MarketInit
  <1>1. GoodsKept
    <2> DEFINE Mine == {g.id : g \in {k \in Stock : k.agent = Me /\ k.sold # NoTrade}}
    <2>1. SoldBefore \in Seq(Mine) /\ Mine \subseteq {g.id : g \in goods}
      BY SoldBeforeAreSales
    <2>2. \A i \in DOMAIN SoldBefore : SoldBefore[i] \in Mine
      <3> HIDE DEF Mine
      <3> QED
        BY <2>1
    <2>3. SoldBefore \in Seq({g.id : g \in goods})
      <3> HIDE DEF Mine
      <3> QED
        BY <2>1, SeqGrows
    <2>4. \A i \in DOMAIN order : \E g \in goods : g.id = order[i] /\ g.sold # NoTrade
      BY <2>2
    <2> QED
      BY <2>3, <2>4, StockIsNamed, SoldBeforeAreSales DEF GoodsKept
  <1>2. ListingsKept
    <2>1. \A i \in DOMAIN FirstBatch : i \in Items /\ FirstBatch[i] \in Nat
      BY BatchesListItems
    <2>2. ASSUME NEW i \in DOMAIN FirstBatch
          PROVE  Listed(0, i, FirstBatch[i]) \in Offers /\ Listed(0, i, FirstBatch[i]).id[1] = 0
      <3>1. i \in Items /\ FirstBatch[i] \in Nat /\ <<0, i>> \in Nat \X Items
        BY <2>1
      <3> QED
        BY <3>1 DEF Listed, Offers
    <2>3. at \in [0..0 -> Nat] /\ at[0] = 0 /\ \A b \in 0..0 : b = 0
      OBVIOUS
    <2>4. ASSUME NEW l \in listings PROVE l \in Offers /\ l.id[1] = 0
      <3>1. PICK i \in DOMAIN FirstBatch : l = Listed(0, i, FirstBatch[i])
        OBVIOUS
      <3> QED
        BY <2>2, <3>1
    <2> QED
      BY <2>3, <2>4 DEF ListingsKept
  <1>3. ToSet(todo) = {} /\ seen = NothingSeen /\ failed = {} /\ todo = <<>>
    BY DEF ToSet
  <1>4. ReaderTyped
    BY <1>3 DEF ReaderTyped, Left, NothingSeen
  <1>5. GoodsRead
    BY <1>3 DEF GoodsRead, NothingSeen, SnapshotMissesNoGood, Has
  <1>6. ListingsRead
    <2>1. \A i \in Items : seen.prices[i].newest = -1 /\ seen.prices[i].before = -1
      BY <1>3 DEF NothingSeen
    <2>2. seen.listings = {}
      BY <1>3 DEF NothingSeen
    <2>3. PricesRead
      <3>1. batch = 0 /\ \A l \in listings : at[l.id[1]] \in Nat
        BY <1>2 DEF ListingsKept
      <3> QED
        BY <2>1, <3>1 DEF PricesRead, NoneBetween
    <2> QED
      BY <2>2, <2>3 DEF ListingsRead, EventIsNotOlder, LooksBack
  <1>7. PagesRead
    BY <1>3 DEF PagesRead, NothingSeen, PagingMissesNothing
  <1> QED
    BY <1>1, <1>2, <1>4, <1>5, <1>6, <1>7 DEF Reading

-----------------------------------------------------------------------------
(* The market moves. *)

\* Names of goods last; what has been made stays made.
LEMMA RefreshReads == ASSUME Reading, Refresh PROVE Reading'
  <1> USE DEF Reading
  <1>a. PICK prices \in Batches, b \in 0..batch, late \in BOOLEAN, event \in BOOLEAN :
          /\ List(prices, {l \in listings : l.id[1] <= b})
          /\ late => batch > 0
          /\ at' = [c \in 0..(batch + 1) |->
                      IF c > batch THEN (IF late THEN 2 * batch - 1 ELSE 2 * batch + 2) ELSE at[c]]
          /\ events' = events \cup {c \in {batch + 1} : event}
          /\ overlapped' = (overlapped \/ late \/ b < batch)
    BY DEF Refresh
  <1>b. UNCHANGED <<funds, goods, order, todo, seen, failed>>
    BY <1>a DEF Refresh, readerVars, List
  <1>c. batch \in Nat /\ batch' = batch + 1 /\ 0..batch \subseteq 0..batch' /\ batch' \in Nat
    BY <1>a DEF List, ListingsKept
  <1>d. /\ at' \in [0..batch' -> Nat]
        /\ \A c \in 0..batch : at'[c] = at[c]
        /\ at'[batch + 1] = IF late THEN 2 * batch - 1 ELSE 2 * batch + 2
        /\ \A c \in 0..batch' : c \in 0..batch \/ c = batch + 1
    <2>1. (IF late THEN 2 * batch - 1 ELSE 2 * batch + 2) \in Nat
      BY <1>a, <1>c
    <2>2. \A c \in 0..(batch + 1) : c > batch <=> c = batch + 1
      BY <1>c
    <2>3. at \in [0..batch -> Nat]
      BY DEF ListingsKept
    <2> QED
      BY <1>a, <1>c, <2>1, <2>2, <2>3
  <1> DEFINE old == {l \in listings : l.id[1] <= b}
             Gone(l) == [l EXCEPT !.expired = TRUE]
             New(i) == Listed(batch + 1, i, prices[i])
  <1>e. listings' = (listings \ old) \cup {Gone(l) : l \in old} \cup {New(i) : i \in DOMAIN prices}
    BY <1>a DEF List
  <1>f. \A i \in DOMAIN prices : New(i) \in Offers /\ New(i).id[1] = batch + 1
    BY <1>c, BatchesListItems DEF Listed, Offers
  <1>g. ASSUME NEW l \in listings
        PROVE  /\ l \in Offers /\ l.id[1] \in 0..batch
               /\ Gone(l) \in Offers /\ Gone(l).id = l.id /\ Gone(l).item = l.item
               /\ Gone(l).expired
    <2>1. l \in Offers /\ l.id[1] \in 0..batch
      BY DEF ListingsKept
    <2> QED
      BY <2>1 DEF Offers
  <1>h. b = batch => \A l \in listings : l \in old
    <2>1. \A l \in listings : l.id[1] \in 0..batch
      BY DEF ListingsKept
    <2> QED
      BY <1>c, <2>1
  <1> HIDE DEF old, Gone, New
  <1>1. GoodsKept'
    BY <1>b DEF GoodsKept
  <1>2. ListingsKept'
    <2>1. ASSUME NEW l \in listings'
          PROVE  /\ l \in Offers /\ l.id[1] \in 0..batch'
                 /\ b = batch /\ ~l.expired => l.id[1] = batch'
      <3>1. CASE l \in listings \ old
        BY <1>c, <1>g, <1>h, <3>1
      <3>2. CASE \E k \in listings : l = Gone(k)
        BY <1>c, <1>g, <3>2
      <3>3. CASE \E i \in DOMAIN prices : l = New(i)
        BY <1>c, <1>f, <3>3
      <3>4. old \subseteq listings
        BY DEF old
      <3> QED
        BY <1>e, <3>1, <3>2, <3>3, <3>4
    <2>2. \A c \in 0..batch' : at'[c] <= 2 * batch'
      <3>1. \A c \in 0..batch : at[c] \in Nat /\ at[c] <= 2 * batch
        BY DEF ListingsKept
      <3> QED
        BY <1>c, <1>d, <3>1
    <2>3. events' \subseteq 0..batch'
      <3>1. events \subseteq 0..batch'
        BY <1>c DEF ListingsKept
      <3>2. batch + 1 \in 0..batch'
        BY <1>c
      <3>3. \A c \in events' : c \in events \/ c = batch + 1
        BY <1>a
      <3> QED
        BY <3>1, <3>2, <3>3
    <2>4. overlapped' \in BOOLEAN
      BY <1>a
    <2>5. ~overlapped' => ~overlapped /\ ~late /\ b = batch
      <3>1. ~overlapped' => ~overlapped /\ ~late /\ ~(b < batch)
        BY <1>a
      <3> QED
        BY <1>c, <3>1
    <2>6. ~overlapped' => \A c \in 0..batch' : at'[c] = 2 * c
      <3>1. ~overlapped => \A c \in 0..batch : at[c] = 2 * c
        BY DEF ListingsKept
      <3> QED
        BY <1>c, <1>d, <2>5, <3>1
    <2> QED
      BY <1>c, <1>d, <2>1, <2>2, <2>3, <2>4, <2>5, <2>6 DEF ListingsKept
  <1>3. ReaderTyped'
    BY <1>b DEF ReaderTyped
  <1>4. GoodsRead'
    BY <1>b DEF GoodsRead, SnapshotMissesNoGood, Has, Made
  <1>5. ListingsRead'
    <2>1. \A l \in seen.listings : /\ l.id[1] \in 0..batch /\ l.item \in Items
                                   /\ at'[l.id[1]] = at[l.id[1]]
                                   /\ l.id[1] \in events' <=> l.id[1] \in events
      BY <1>a, <1>c, <1>d DEF ListingsRead
    <2>2. PricesRead'
      <3> SUFFICES ASSUME NEW i \in Items
                   PROVE  /\ seen.prices[i].before \in Int /\ seen.prices[i].before < 2 * batch'
                          /\ seen.prices[i].newest \in Int /\ seen.prices[i].newest <= 2 * batch'
                          /\ NoneBetween(seen.prices[i], i)'
        BY <1>b DEF PricesRead
      <3> DEFINE p == seen.prices[i]
      <3>1. /\ p.before \in Int /\ p.before < 2 * batch
            /\ p.newest \in Int /\ p.newest <= 2 * batch
            /\ NoneBetween(p, i)
        BY DEF ListingsRead, PricesRead
      <3> HIDE DEF p
      <3>2. ASSUME ~overlapped', NEW m \in listings', m.item = i, p.before < at'[m.id[1]]
            PROVE  p.newest <= at'[m.id[1]]
        <4>0. ~overlapped /\ ~late
          BY <1>a, <3>2
        <4>1. ASSUME NEW l \in listings, l.item = i, l.id = m.id PROVE p.newest <= at'[m.id[1]]
          BY <1>d, <1>g, <3>1, <3>2, <4>0, <4>1 DEF NoneBetween
        <4>2. CASE m \in listings \ old
          BY <3>2, <4>1, <4>2
        <4>3. CASE \E l \in old : m = Gone(l)
          <5>1. PICK l \in old : m = Gone(l)
            BY <4>3
          <5>2. l \in listings /\ m.id = l.id /\ m.item = l.item
            BY <1>g, <5>1 DEF old
          <5> QED
            BY <3>2, <4>1, <5>2
        <4>4. CASE \E j \in DOMAIN prices : m = New(j)
          <5>1. m.id[1] = batch + 1
            BY <1>f, <4>4
          <5> QED
            BY <1>c, <1>d, <3>1, <4>0, <5>1
        <4> QED
          BY <1>e, <3>2, <4>2, <4>3, <4>4
      <3>3. NoneBetween(p, i)'
        BY <1>b, <3>2 DEF NoneBetween, p
      <3> QED
        BY <1>c, <3>1, <3>3 DEF p
    <2>3. EventIsNotOlder'
      BY <1>b, <2>1 DEF ListingsRead, EventIsNotOlder, Has
    <2>4. LooksBack'
      BY <1>a, <1>b, <2>1 DEF ListingsRead, LooksBack
    <2> QED
      BY <1>b, <1>c, <2>1, <2>2, <2>3, <2>4 DEF ListingsRead
  <1>6. PagesRead'
    BY <1>b DEF PagesRead, PagingMissesNothing
  <1> QED
    BY <1>1, <1>2, <1>3, <1>4, <1>5, <1>6

\* A purchase is of a good with a new name.
LEMMA BuyReads == ASSUME Reading, Buy PROVE Reading'
  <1> USE NoTradeIsNotATrade DEF Reading
  <1>a. PICK t \in Trades, l \in listings : ~Made(t) /\ goods' = goods \cup {Bought(t, Me, l)}
    BY DEF Buy, Purchase
  <1>b. UNCHANGED <<batch, listings, at, events, overlapped, order, todo, seen, failed>>
    BY DEF Buy, Purchase, refreshVars, readerVars
  <1> DEFINE new == Bought(t, Me, l)
  <1>c. /\ new = [id |-> new.id, agent |-> new.agent, item |-> new.item, paid |-> new.paid,
                  sold |-> new.sold, got |-> new.got]
        /\ new.id = t /\ new.sold = NoTrade
    BY DEF Bought
  <1>d. \A g \in goods : g.id # t /\ g.sold # t
    BY <1>a DEF Made
  <1>e. goods' = goods \cup {new}
    BY <1>a
  <1> HIDE DEF new
  <1>1. GoodsKept'
    <2>1. order' \in Seq({g.id : g \in goods'})
      <3>1. {g.id : g \in goods} \subseteq {g.id : g \in goods'}
        BY <1>e
      <3> QED
        BY <1>b, <3>1, SeqGrows DEF GoodsKept
    <2>2. \A g, k \in goods' : g.id = k.id => g = k
      BY <1>c, <1>d, <1>e DEF GoodsKept
    <2> QED
      BY <1>b, <1>c, <1>e, <2>1, <2>2 DEF GoodsKept
  <1>2. ListingsKept'
    BY <1>b DEF ListingsKept
  <1>3. ReaderTyped'
    BY <1>b DEF ReaderTyped
  <1>4. GoodsRead'
    <2>1. seen.trades \subseteq {u \in Trades : Made(u)'}
      BY <1>e DEF GoodsRead, Made
    <2>2. t \notin seen.trades
      BY <1>a DEF GoodsRead
    <2>3. SnapshotMissesNoGood'
      BY <1>b, <1>c, <1>e, <2>1, <2>2 DEF GoodsRead, SnapshotMissesNoGood, Has
    <2> QED
      BY <1>b, <1>e, <2>1, <2>3 DEF GoodsRead
  <1>5. ListingsRead'
    BY <1>b DEF ListingsRead, PricesRead, NoneBetween, EventIsNotOlder, LooksBack, Has
  <1>6. PagesRead'
    BY <1>b DEF PagesRead, PagingMissesNothing
  <1> QED
    BY <1>1, <1>2, <1>3, <1>4, <1>5, <1>6

\* A good that is sold keeps the rest of its row.
LEMMA SoldGood ==
    ASSUME NEW g, NEW t, NEW p, NEW h, h = [g EXCEPT !.sold = t, !.got = p],
           g = [id |-> g.id, agent |-> g.agent, item |-> g.item, paid |-> g.paid,
                sold |-> g.sold, got |-> g.got]
    PROVE  /\ h = [id |-> h.id, agent |-> h.agent, item |-> h.item, paid |-> h.paid,
                   sold |-> h.sold, got |-> h.got]
           /\ h.id = g.id /\ h.agent = g.agent /\ h.sold = t
  <1> DEFINE Row == [id: {g.id}, agent: {g.agent}, item: {g.item}, paid: {g.paid},
                     sold: {g.sold, t}, got: {g.got, p}]
             sold == [g EXCEPT !.sold = t, !.got = p]
  <1>1. g \in Row
    OBVIOUS
  <1>2. sold \in Row /\ sold.sold = t
    BY <1>1
  <1> HIDE DEF sold
  <1>3. /\ sold = [id |-> sold.id, agent |-> sold.agent, item |-> sold.item, paid |-> sold.paid,
                sold |-> sold.sold, got |-> sold.got]
        /\ sold.id = g.id /\ sold.agent = g.agent
    BY <1>2
  <1> QED
    BY <1>2, <1>3 DEF sold

\* A sale names one of Me's goods that was not sold, and moves others only to later
\* places.
LEMMA SellReads == ASSUME Reading, Sell PROVE Reading'
  <1> USE NoTradeIsNotATrade DEF Reading
  <1>0. PICK t \in Trades, g \in goods :
          \E p \in Prices(g.item), k \in 1..(NewSales + 1) :
            g.agent = Me /\ Sale(t, g, p) /\ order' = InsertAt(order, k, g.id)
    BY DEF Sell
  <1>a. PICK p \in Prices(g.item), k \in 1..(NewSales + 1) :
          g.agent = Me /\ Sale(t, g, p) /\ order' = InsertAt(order, k, g.id)
    BY <1>0
  <1>b. UNCHANGED <<batch, listings, at, events, overlapped, todo, seen, failed>>
    BY <1>a DEF Sell, Sale, refreshVars, readerVars
  <1> DEFINE h == [g EXCEPT !.sold = t, !.got = p]
  <1>c. ~Made(t) /\ g.sold = NoTrade /\ goods' = (goods \ {g}) \cup {h}
    BY <1>a DEF Sale
  <1>d. \A q \in goods : q.id # t /\ q.sold # t
    BY <1>c DEF Made
  <1>e. /\ h = [id |-> h.id, agent |-> h.agent, item |-> h.item, paid |-> h.paid,
                sold |-> h.sold, got |-> h.got]
        /\ h.id = g.id /\ h.agent = g.agent /\ h.sold = t
    <2>1. g = [id |-> g.id, agent |-> g.agent, item |-> g.item, paid |-> g.paid,
               sold |-> g.sold, got |-> g.got]
      BY DEF GoodsKept
    <2>2. h = [g EXCEPT !.sold = t, !.got = p]
      BY Zenon
    <2> HIDE DEF h, Reading
    <2> QED
      BY <2>1, <2>2, SoldGood, Zenon
  <1> HIDE DEF h
  <1>f. \A q \in goods' : q = h \/ (q \in goods /\ q # g)
    BY <1>c
  <1>g. {q.id : q \in goods'} = {q.id : q \in goods}
    <2>1. \A q \in goods : q = g \/ q \in goods'
      BY <1>c
    <2>2. h \in goods'
      BY <1>c
    <2>3. \A x \in {q.id : q \in goods} : x \in {q.id : q \in goods'}
      BY <1>e, <2>1, <2>2
    <2>4. \A x \in {q.id : q \in goods'} : x \in {q.id : q \in goods}
      BY <1>e, <1>f
    <2> QED
      BY <2>3, <2>4
  <1>h. k \in 1..(Len(order) + 1) /\ Len(order) \in Nat /\ DOMAIN order = 1..Len(order)
    BY NewSalesAreSales DEF GoodsKept
  <1>i. /\ order' \in Seq({q.id : q \in goods}) /\ DOMAIN order' = 1..(Len(order) + 1)
        /\ \A i \in 1..(k - 1) : order'[i] = order[i]
        /\ order'[k] = g.id
        /\ \A i \in (k + 1)..(Len(order) + 1) : order'[i] = order[i - 1]
    <2> DEFINE S == {q.id : q \in goods}
    <2>1. order \in Seq(S) /\ g.id \in S
      BY DEF GoodsKept
    <2> HIDE DEF S
    <2>2. /\ order' \in Seq(S) /\ Len(order') = Len(order) + 1
          /\ \A i \in 1..(k - 1) : order'[i] = order[i]
          /\ order'[k] = g.id
          /\ \A i \in (k + 1)..(Len(order) + 1) : order'[i] = order[i - 1]
      <3> HIDE DEF Reading
      <3>1. PICK s, e, u : s = order /\ e = g.id /\ u = order'
        OBVIOUS
      <3>2. s \in Seq(S) /\ e \in S /\ k \in 1..(Len(s) + 1) /\ u = InsertAt(s, k, e)
        BY <1>a, <1>h, <2>1, <3>1
      <3>3. /\ u \in Seq(S) /\ Len(u) = Len(s) + 1
            /\ \A i \in 1..(k - 1) : u[i] = s[i]
            /\ u[k] = e
            /\ \A i \in (k + 1)..(Len(s) + 1) : u[i] = s[i - 1]
        BY <3>2, InsertAtPlaces
      <3> QED
        BY <3>1, <3>3
    <2>3. DOMAIN order' = 1..(Len(order) + 1)
      BY <2>2
    <2> QED
      BY <2>2, <2>3 DEF S
  \* Where each place of order' comes from, and where each of order goes.
  <1>j. ASSUME NEW i \in DOMAIN order', i # k
        PROVE  \E j \in DOMAIN order : j = (IF i < k THEN i ELSE i - 1) /\ order'[i] = order[j]
    <2>1. i \in 1..(Len(order) + 1) /\ k \in Int
      BY <1>h, <1>i
    <2>2. CASE i < k
      <3>1. i \in 1..(k - 1) /\ i \in DOMAIN order
        BY <1>h, <2>1, <2>2
      <3> QED
        BY <1>i, <2>2, <3>1
    <2>3. CASE ~(i < k)
      <3>1. i \in (k + 1)..(Len(order) + 1) /\ i - 1 \in DOMAIN order
        BY <1>h, <1>j, <2>1, <2>3
      <3> QED
        BY <1>i, <2>3, <3>1
    <2> QED
      BY <2>2, <2>3
  <1>k. ASSUME NEW j \in DOMAIN order PROVE \E i \in DOMAIN order' : order'[i] = order[j]
    <2>1. CASE j < k
      <3>1. j \in 1..(k - 1) /\ j \in DOMAIN order'
        BY <1>h, <1>i, <2>1
      <3> QED
        BY <1>i, <3>1
    <2>2. CASE ~(j < k)
      <3>1. j + 1 \in (k + 1)..(Len(order) + 1) /\ j + 1 \in DOMAIN order' /\ (j + 1) - 1 = j
        BY <1>h, <1>i, <2>2
      <3> QED
        BY <1>i, <3>1
    <2> QED
      BY <2>1, <2>2
  <1>l. \A j \in DOMAIN order : order[j] # g.id
    BY <1>c DEF GoodsKept
  <1>m. k \in DOMAIN order' /\ order'[k] = g.id
    BY <1>h, <1>i
  <1>1. GoodsKept'
    <2>1. order' \in Seq({q.id : q \in goods'})
      BY <1>g, <1>i
    <2>2. \A q \in goods' : q = [id |-> q.id, agent |-> q.agent, item |-> q.item, paid |-> q.paid,
                                 sold |-> q.sold, got |-> q.got]
      BY <1>e, <1>f DEF GoodsKept
    <2>3. \A q, r \in goods' : q.id = r.id => q = r
      BY <1>e, <1>f DEF GoodsKept
    <2>4. ASSUME NEW i \in DOMAIN order'
          PROVE  \E q \in goods' : q.id = order'[i] /\ q.sold # NoTrade
      <3>1. CASE i = k
        BY <1>c, <1>e, <1>m, <3>1
      <3>2. CASE i # k
        <4>1. PICK j \in DOMAIN order : order'[i] = order[j]
          BY <1>j, <3>2
        <4>2. PICK q \in goods : q.id = order[j] /\ q.sold # NoTrade
          BY DEF GoodsKept
        <4> QED
          BY <1>c, <4>1, <4>2
      <3> QED
        BY <3>1, <3>2
    <2>5. ASSUME NEW i \in DOMAIN order', NEW j \in DOMAIN order', order'[i] = order'[j]
          PROVE  i = j
      <3>1. CASE i = k \/ j = k
        <4>1. i # k => order'[i] # g.id
          BY <1>j, <1>l
        <4>2. j # k => order'[j] # g.id
          BY <1>j, <1>l
        <4> QED
          BY <1>m, <2>5, <3>1, <4>1, <4>2
      <3>2. CASE i # k /\ j # k
        <4>1. PICK a \in DOMAIN order : a = (IF i < k THEN i ELSE i - 1) /\ order'[i] = order[a]
          BY <1>j, <3>2
        <4>2. PICK b \in DOMAIN order : b = (IF j < k THEN j ELSE j - 1) /\ order'[j] = order[b]
          BY <1>j, <3>2
        <4>3. a = b
          BY <2>5, <4>1, <4>2 DEF GoodsKept
        <4>4. i \in Int /\ j \in Int /\ k \in Int
          BY <1>h, <1>i
        <4> QED
          BY <3>2, <4>1, <4>2, <4>3, <4>4
      <3> QED
        BY <3>1, <3>2
    <2>6. ASSUME NEW q \in goods', q.agent = Me, q.sold # NoTrade
          PROVE  \E i \in DOMAIN order' : order'[i] = q.id
      <3>1. CASE q = h
        BY <1>e, <1>m, <3>1
      <3>2. CASE q \in goods
        <4>1. PICK j \in DOMAIN order : order[j] = q.id
          BY <2>6, <3>2 DEF GoodsKept
        <4> QED
          BY <1>k, <4>1
      <3> QED
        BY <1>f, <3>1, <3>2
    <2> QED
      BY <2>1, <2>2, <2>3, <2>4, <2>5, <2>6 DEF GoodsKept
  <1>2. ListingsKept'
    BY <1>b DEF ListingsKept
  <1>3. ReaderTyped'
    BY <1>b DEF ReaderTyped
  <1>4. GoodsRead'
    <2>1. \A u \in Trades : Made(u) => Made(u)'
      <3> SUFFICES ASSUME NEW u \in Trades, NEW q \in goods, u \in {q.id, q.sold} PROVE Made(u)'
        BY DEF Made
      <3>1. CASE q = g
        <4>1. u = h.id
          BY <1>c, <1>e, <3>1
        <4> QED
          BY <1>c, <4>1 DEF Made
      <3>2. CASE q # g
        BY <1>c, <3>2 DEF Made
      <3> QED
        BY <3>1, <3>2
    <2>2. t \notin seen.trades
      BY <1>c DEF GoodsRead
    <2>3. \A s \in seen.goods : \E q \in goods' : q.id = s.id
      <3> SUFFICES ASSUME NEW s \in seen.goods PROVE \E q \in goods' : q.id = s.id
        OBVIOUS
      <3>1. PICK q \in goods : q.id = s.id
        BY DEF GoodsRead
      <3> QED
        BY <1>c, <1>e, <3>1
    <2>4. ASSUME Has("goods")'
          PROVE  /\ \A q \in goods' : q.agent = Me /\ q.id \in seen.trades /\ q.sold = NoTrade =>
                        q \in seen.goods
                 /\ ~\E q \in goods' : q.sold \in seen.trades /\ \E s \in seen.goods : s.id = q.id
                 /\ Has("volume")' => \A s \in seen.goods : s.id \in seen.counted
      <3>1. Has("goods") /\ (Has("volume")' => Has("volume"))
        BY <1>b, <2>4 DEF Has
      <3>2. /\ \A q \in goods : q.agent = Me /\ q.id \in seen.trades /\ q.sold = NoTrade =>
                   q \in seen.goods
            /\ ~\E q \in goods : q.sold \in seen.trades /\ \E s \in seen.goods : s.id = q.id
            /\ Has("volume") => \A s \in seen.goods : s.id \in seen.counted
        BY <3>1 DEF GoodsRead, SnapshotMissesNoGood
      <3>3. h.sold # NoTrade /\ h.sold \notin seen.trades
        BY <1>e, <2>2
      <3> QED
        BY <1>f, <3>1, <3>2, <3>3
    <2>5. SnapshotMissesNoGood'
      BY <1>b, <2>4 DEF SnapshotMissesNoGood
    <2> QED
      BY <1>b, <2>1, <2>3, <2>5 DEF GoodsRead
  <1>5. ListingsRead'
    BY <1>b DEF ListingsRead, PricesRead, NoneBetween, EventIsNotOlder, LooksBack, Has
  <1>6. PagesRead'
    <2>1. seen.sold \subseteq ToSet(order')
      BY <1>k DEF PagesRead, ToSet
    <2>2. ASSUME NEW i \in DOMAIN order', i <= seen.offset, order'[i] \in seen.sold
          PROVE  order'[i] \in seen.rows
      <3>1. i # k
        BY <1>l, <1>m, <2>2 DEF PagesRead, ToSet
      <3>2. PICK j \in DOMAIN order : j = (IF i < k THEN i ELSE i - 1) /\ order'[i] = order[j]
        BY <1>j, <3>1
      <3>3. j <= seen.offset
        <4>1. i \in Int /\ k \in Int /\ seen.offset \in Int
          BY <1>h, <1>i DEF PagesRead
        <4> QED
          BY <2>2, <3>2, <4>1
      <3> QED
        BY <2>2, <3>2, <3>3 DEF PagesRead
    <2> QED
      BY <1>b, <2>1, <2>2 DEF PagesRead, PagingMissesNothing
  <1> QED
    BY <1>1, <1>2, <1>3, <1>4, <1>5, <1>6

-----------------------------------------------------------------------------
(* A statement is run. *)

\* A result takes one field of what has been read.
LEMMA ResultsAreKept ==
    ASSUME ReaderTyped, NEW x
    PROVE  /\ [seen EXCEPT !.trades = x] =
                [begun |-> seen.begun, trades |-> x, goods |-> seen.goods,
                 counted |-> seen.counted, prices |-> seen.prices, listings |-> seen.listings,
                 event |-> seen.event, recent |-> seen.recent, asked |-> seen.asked,
                 offset |-> seen.offset, rows |-> seen.rows, sold |-> seen.sold]
           /\ [seen EXCEPT !.goods = x] =
                [begun |-> seen.begun, trades |-> seen.trades, goods |-> x,
                 counted |-> seen.counted, prices |-> seen.prices, listings |-> seen.listings,
                 event |-> seen.event, recent |-> seen.recent, asked |-> seen.asked,
                 offset |-> seen.offset, rows |-> seen.rows, sold |-> seen.sold]
           /\ [seen EXCEPT !.counted = x] =
                [begun |-> seen.begun, trades |-> seen.trades, goods |-> seen.goods,
                 counted |-> x, prices |-> seen.prices, listings |-> seen.listings,
                 event |-> seen.event, recent |-> seen.recent, asked |-> seen.asked,
                 offset |-> seen.offset, rows |-> seen.rows, sold |-> seen.sold]
           /\ [seen EXCEPT !.prices = x] =
                [begun |-> seen.begun, trades |-> seen.trades, goods |-> seen.goods,
                 counted |-> seen.counted, prices |-> x, listings |-> seen.listings,
                 event |-> seen.event, recent |-> seen.recent, asked |-> seen.asked,
                 offset |-> seen.offset, rows |-> seen.rows, sold |-> seen.sold]
           /\ [seen EXCEPT !.listings = x] =
                [begun |-> seen.begun, trades |-> seen.trades, goods |-> seen.goods,
                 counted |-> seen.counted, prices |-> seen.prices, listings |-> x,
                 event |-> seen.event, recent |-> seen.recent, asked |-> seen.asked,
                 offset |-> seen.offset, rows |-> seen.rows, sold |-> seen.sold]
           /\ [seen EXCEPT !.event = x] =
                [begun |-> seen.begun, trades |-> seen.trades, goods |-> seen.goods,
                 counted |-> seen.counted, prices |-> seen.prices, listings |-> seen.listings,
                 event |-> x, recent |-> seen.recent, asked |-> seen.asked,
                 offset |-> seen.offset, rows |-> seen.rows, sold |-> seen.sold]
           /\ [seen EXCEPT !.recent = x] =
                [begun |-> seen.begun, trades |-> seen.trades, goods |-> seen.goods,
                 counted |-> seen.counted, prices |-> seen.prices, listings |-> seen.listings,
                 event |-> seen.event, recent |-> x, asked |-> seen.asked,
                 offset |-> seen.offset, rows |-> seen.rows, sold |-> seen.sold]
  <1> DEFINE View == [begun: {seen.begun}, trades: {x, seen.trades}, goods: {x, seen.goods},
                      counted: {x, seen.counted}, prices: {x, seen.prices},
                      listings: {x, seen.listings}, event: {x, seen.event},
                      recent: {x, seen.recent}, asked: {seen.asked}, offset: {seen.offset},
                      rows: {seen.rows}, sold: {seen.sold}]
  <1>1. seen \in View
    BY DEF ReaderTyped
  <1>2. [seen EXCEPT !.trades = x] =
           [begun |-> seen.begun, trades |-> x, goods |-> seen.goods,
            counted |-> seen.counted, prices |-> seen.prices, listings |-> seen.listings,
            event |-> seen.event, recent |-> seen.recent, asked |-> seen.asked,
            offset |-> seen.offset, rows |-> seen.rows, sold |-> seen.sold]
    BY <1>1
  <1>3. [seen EXCEPT !.goods = x] =
           [begun |-> seen.begun, trades |-> seen.trades, goods |-> x,
            counted |-> seen.counted, prices |-> seen.prices, listings |-> seen.listings,
            event |-> seen.event, recent |-> seen.recent, asked |-> seen.asked,
            offset |-> seen.offset, rows |-> seen.rows, sold |-> seen.sold]
    BY <1>1
  <1>4. [seen EXCEPT !.counted = x] =
           [begun |-> seen.begun, trades |-> seen.trades, goods |-> seen.goods,
            counted |-> x, prices |-> seen.prices, listings |-> seen.listings,
            event |-> seen.event, recent |-> seen.recent, asked |-> seen.asked,
            offset |-> seen.offset, rows |-> seen.rows, sold |-> seen.sold]
    BY <1>1
  <1>5. [seen EXCEPT !.prices = x] =
           [begun |-> seen.begun, trades |-> seen.trades, goods |-> seen.goods,
            counted |-> seen.counted, prices |-> x, listings |-> seen.listings,
            event |-> seen.event, recent |-> seen.recent, asked |-> seen.asked,
            offset |-> seen.offset, rows |-> seen.rows, sold |-> seen.sold]
    BY <1>1
  <1>6. [seen EXCEPT !.listings = x] =
           [begun |-> seen.begun, trades |-> seen.trades, goods |-> seen.goods,
            counted |-> seen.counted, prices |-> seen.prices, listings |-> x,
            event |-> seen.event, recent |-> seen.recent, asked |-> seen.asked,
            offset |-> seen.offset, rows |-> seen.rows, sold |-> seen.sold]
    BY <1>1
  <1>7. [seen EXCEPT !.event = x] =
           [begun |-> seen.begun, trades |-> seen.trades, goods |-> seen.goods,
            counted |-> seen.counted, prices |-> seen.prices, listings |-> seen.listings,
            event |-> x, recent |-> seen.recent, asked |-> seen.asked,
            offset |-> seen.offset, rows |-> seen.rows, sold |-> seen.sold]
    BY <1>1
  <1>8. [seen EXCEPT !.recent = x] =
           [begun |-> seen.begun, trades |-> seen.trades, goods |-> seen.goods,
            counted |-> seen.counted, prices |-> seen.prices, listings |-> seen.listings,
            event |-> seen.event, recent |-> x, asked |-> seen.asked,
            offset |-> seen.offset, rows |-> seen.rows, sold |-> seen.sold]
    BY <1>1
  <1> QED
    BY <1>2, <1>3, <1>4, <1>5, <1>6, <1>7, <1>8

\* What no statement changes, and what is left to run after one.
LEMMA StatementRuns ==
    ASSUME Reading, NEW st, st # "page", Runs(st), todo' = Tail(todo),
           UNCHANGED <<bookVars, refreshVars, order, failed>>,
           seen' = [begun |-> seen.begun, trades |-> seen'.trades, goods |-> seen'.goods,
                    counted |-> seen'.counted, prices |-> seen'.prices,
                    listings |-> seen'.listings, event |-> seen'.event,
                    recent |-> seen'.recent, asked |-> seen.asked, offset |-> seen.offset,
                    rows |-> seen.rows, sold |-> seen.sold]
    PROVE  /\ GoodsKept' /\ ListingsKept' /\ ReaderTyped' /\ PagesRead'
           /\ todo \in Left /\ st \in ToSet(todo) /\ ToSet(todo') = ToSet(todo) \ {st}
           /\ \A x : Has(x)' => x \notin ToSet(todo') /\ (Has(x) \/ x = st)
  <1> USE DEF Reading, bookVars, refreshVars
  <1>1. todo \in Left /\ todo # <<>> /\ Head(todo) = st
    BY DEF ReaderTyped, Runs
  <1>2. /\ st \in ToSet(todo) /\ todo' \in Left /\ ToSet(todo') = ToSet(todo) \ {st}
        /\ "page" \in ToSet(todo) => todo = <<"page">>
    BY <1>1, StatementsInOrder
  <1>3. todo \notin {<<>>, <<"page">>}
    BY <1>1
  <1>4. seen.sold = {}
    BY <1>3 DEF PagesRead
  <1>5. seen.begun /\ seen'.begun = seen.begun
    BY <1>1 DEF ReaderTyped
  <1>6. GoodsKept'
    BY DEF GoodsKept
  <1>7. ListingsKept'
    BY DEF ListingsKept
  <1>8. ReaderTyped'
    <2>1. seen' = [begun |-> seen'.begun, trades |-> seen'.trades, goods |-> seen'.goods,
                   counted |-> seen'.counted, prices |-> seen'.prices,
                   listings |-> seen'.listings, event |-> seen'.event,
                   recent |-> seen'.recent, asked |-> seen'.asked, offset |-> seen'.offset,
                   rows |-> seen'.rows, sold |-> seen'.sold]
      OBVIOUS
    <2> QED
      BY <1>2, <1>5, <2>1 DEF ReaderTyped
  <1>9. PagesRead'
    <2>1. /\ seen'.asked = seen.asked /\ seen'.offset = seen.offset
          /\ seen'.rows = seen.rows /\ seen'.sold = {}
      BY <1>4
    <2> QED
      BY <1>4, <2>1 DEF PagesRead, PagingMissesNothing
  <1>10. ASSUME NEW x, Has(x)' PROVE x \notin ToSet(todo') /\ (Has(x) \/ x = st)
    BY <1>2, <1>5, <1>10 DEF Has
  <1> QED
    BY <1>1, <1>2, <1>6, <1>7, <1>8, <1>9, <1>10

\* What is known of goods, while they are not read, and of listings and events.
LEMMA GoodsStay ==
    ASSUME Reading, goods' = goods, seen'.trades = seen.trades, seen'.goods = seen.goods,
           seen'.counted = seen.counted, ToSet(todo') \subseteq ToSet(todo),
           Has("goods")' => Has("goods"), Has("volume")' => Has("volume")
    PROVE  GoodsRead'
  <1>1. GoodsRead
    BY DEF Reading
  <1>2. SnapshotMissesNoGood'
    BY <1>1 DEF GoodsRead, SnapshotMissesNoGood
  <1> QED
    BY <1>1, <1>2 DEF GoodsRead, Made

LEMMA ListingsStay ==
    ASSUME Reading, batch' = batch, listings' = listings, at' = at, events' = events,
           overlapped' = overlapped,
           seen'.listings = seen.listings, seen'.prices = seen.prices, seen'.event = seen.event,
           ToSet(todo') \subseteq ToSet(todo),
           seen.listings = {} \/ (Has("event")' => Has("event"))
    PROVE  ListingsRead'
  <1>1. ListingsRead
    BY DEF Reading
  <1>2. EventIsNotOlder'
    BY <1>1 DEF ListingsRead, EventIsNotOlder
  <1>3. LooksBack'
    BY <1>1 DEF ListingsRead, LooksBack
  <1>4. PricesRead'
    BY <1>1 DEF ListingsRead, PricesRead, NoneBetween
  <1> QED
    BY <1>1, <1>2, <1>3, <1>4 DEF ListingsRead

\* The balance is read before the goods, so nothing it has paid for is missed.
LEMMA BalanceReads == ASSUME Reading, ReadBalance PROVE Reading'
  <1> DEFINE X == {t \in Trades : Made(t)}
  <1>1. /\ Runs("balance") /\ todo' = Tail(todo) /\ seen' = [seen EXCEPT !.trades = X]
        /\ UNCHANGED <<bookVars, refreshVars, order, failed>>
    BY DEF ReadBalance, Keep
  <1>x. X = {t \in Trades : Made(t)}
    OBVIOUS
  <1> HIDE DEF X
  <1>2. seen' = [begun |-> seen.begun, trades |-> X, goods |-> seen.goods,
                 counted |-> seen.counted, prices |-> seen.prices, listings |-> seen.listings,
                 event |-> seen.event, recent |-> seen.recent, asked |-> seen.asked,
                 offset |-> seen.offset, rows |-> seen.rows, sold |-> seen.sold]
    BY <1>1, ResultsAreKept DEF Reading
  <1>3. /\ GoodsKept' /\ ListingsKept' /\ ReaderTyped' /\ PagesRead'
        /\ todo \in Left /\ "balance" \in ToSet(todo) /\ ToSet(todo') = ToSet(todo) \ {"balance"}
        /\ \A x : Has(x)' => x \notin ToSet(todo') /\ (Has(x) \/ x = "balance")
    BY <1>1, <1>2, StatementRuns
  <1>4. "goods" \in ToSet(todo')
    BY <1>3, StatementsInOrder
  <1>5. GoodsRead'
    <2>1. ~Has("goods")'
      BY <1>3, <1>4
    <2>2. SnapshotMissesNoGood'
      BY <2>1 DEF SnapshotMissesNoGood
    <2>3. goods' = goods /\ seen'.trades = X /\ seen'.goods = seen.goods
      BY <1>1, <1>2 DEF bookVars
    <2>4. X = {t \in Trades : Made(t)'}
      BY <1>x, <2>3 DEF Made
    <2> QED
      BY <1>3, <2>2, <2>3, <2>4 DEF Reading, GoodsRead
  <1>6. ListingsRead'
    <2>1. Has("event")' => Has("event")
      BY <1>3
    <2> QED
      BY <1>1, <1>2, <1>3, <2>1, ListingsStay DEF bookVars, refreshVars
  <1> QED
    BY <1>3, <1>5, <1>6 DEF Reading

\* What is shown is what there is, before it is counted.
LEMMA GoodsReads == ASSUME Reading, ReadGoods PROVE Reading'
  <1> DEFINE X == {g \in goods : g.agent = Me /\ g.sold = NoTrade}
  <1>1. /\ Runs("goods") /\ todo' = Tail(todo) /\ seen' = [seen EXCEPT !.goods = X]
        /\ UNCHANGED <<bookVars, refreshVars, order, failed>>
    BY DEF ReadGoods, Keep
  <1>x. X = {g \in goods : g.agent = Me /\ g.sold = NoTrade}
    OBVIOUS
  <1> HIDE DEF X
  <1>2. seen' = [begun |-> seen.begun, trades |-> seen.trades, goods |-> X,
                 counted |-> seen.counted, prices |-> seen.prices, listings |-> seen.listings,
                 event |-> seen.event, recent |-> seen.recent, asked |-> seen.asked,
                 offset |-> seen.offset, rows |-> seen.rows, sold |-> seen.sold]
    BY <1>1, ResultsAreKept DEF Reading
  <1>3. /\ GoodsKept' /\ ListingsKept' /\ ReaderTyped' /\ PagesRead'
        /\ todo \in Left /\ "goods" \in ToSet(todo) /\ ToSet(todo') = ToSet(todo) \ {"goods"}
        /\ \A x : Has(x)' => x \notin ToSet(todo') /\ (Has(x) \/ x = "goods")
    BY <1>1, <1>2, StatementRuns
  <1>4. "volume" \in ToSet(todo')
    BY <1>3, StatementsInOrder
  <1>5. GoodsRead'
    <2>1. ~Has("volume")' /\ "goods" \notin ToSet(todo')
      BY <1>3, <1>4
    <2>2. /\ goods' = goods /\ seen'.trades = seen.trades /\ seen'.goods = X
          /\ seen.trades \subseteq {t \in Trades : Made(t)'}
      BY <1>1, <1>2 DEF bookVars, Made, Reading, GoodsRead
    <2>3. ASSUME NEW g \in goods, NEW s \in X, s.id = g.id PROVE g.sold \notin seen.trades
      <3>1. s = g /\ g.sold = NoTrade
        BY <1>x, <2>3 DEF Reading, GoodsKept
      <3> QED
        BY <2>2, <3>1, NoTradeIsNotATrade
    <2>4. SnapshotMissesNoGood'
      BY <1>x, <2>1, <2>2, <2>3 DEF SnapshotMissesNoGood
    <2> QED
      BY <1>x, <2>1, <2>2, <2>4 DEF GoodsRead
  <1>6. ListingsRead'
    <2>1. Has("event")' => Has("event")
      BY <1>3
    <2> QED
      BY <1>1, <1>2, <1>3, <2>1, ListingsStay DEF bookVars, refreshVars
  <1> QED
    BY <1>3, <1>5, <1>6 DEF Reading

\* What has been shown is still there to be counted.
LEMMA VolumeReads == ASSUME Reading, ReadVolume PROVE Reading'
  <1> DEFINE X == {g.id : g \in goods}
  <1>1. /\ Runs("volume") /\ todo' = Tail(todo) /\ seen' = [seen EXCEPT !.counted = X]
        /\ UNCHANGED <<bookVars, refreshVars, order, failed>>
    BY DEF ReadVolume, Keep
  <1>x. X = {g.id : g \in goods}
    OBVIOUS
  <1> HIDE DEF X
  <1>2. seen' = [begun |-> seen.begun, trades |-> seen.trades, goods |-> seen.goods,
                 counted |-> X, prices |-> seen.prices, listings |-> seen.listings,
                 event |-> seen.event, recent |-> seen.recent, asked |-> seen.asked,
                 offset |-> seen.offset, rows |-> seen.rows, sold |-> seen.sold]
    BY <1>1, ResultsAreKept DEF Reading
  <1>3. /\ GoodsKept' /\ ListingsKept' /\ ReaderTyped' /\ PagesRead'
        /\ todo \in Left /\ "volume" \in ToSet(todo) /\ ToSet(todo') = ToSet(todo) \ {"volume"}
        /\ \A x : Has(x)' => x \notin ToSet(todo') /\ (Has(x) \/ x = "volume")
    BY <1>1, <1>2, StatementRuns
  <1>5. GoodsRead'
    <2>1. /\ goods' = goods /\ seen'.trades = seen.trades /\ seen'.goods = seen.goods
          /\ seen'.counted = X
      BY <1>1, <1>2 DEF bookVars
    <2>2. \A s \in seen.goods : s.id \in X
      BY <1>x DEF Reading, GoodsRead
    <2>3. Has("goods")' => Has("goods")
      BY <1>3
    <2>4. SnapshotMissesNoGood'
      BY <2>1, <2>2, <2>3 DEF Reading, GoodsRead, SnapshotMissesNoGood
    <2> QED
      BY <1>3, <2>1, <2>4 DEF Reading, GoodsRead, Made
  <1>6. ListingsRead'
    <2>1. Has("event")' => Has("event")
      BY <1>3
    <2> QED
      BY <1>1, <1>2, <1>3, <2>1, ListingsStay DEF bookVars, refreshVars
  <1> QED
    BY <1>3, <1>5, <1>6 DEF Reading

\* What an item was listed for before is of an earlier batch than the newest, and the
\* newest is the next one.
LEMMA PricesReads == ASSUME Reading, ReadPrices PROVE Reading'
  <1> DEFINE X == [i \in Items |->
                    [newest |-> Newest(Times(i)), before |-> Second(Times(i))]]
  <1>1. /\ Runs("prices") /\ todo' = Tail(todo) /\ seen' = [seen EXCEPT !.prices = X]
        /\ UNCHANGED <<bookVars, refreshVars, order, failed>>
    BY DEF ReadPrices, Keep
  <1>x. \A i \in Items : X[i].newest = Newest(Times(i)) /\ X[i].before = Second(Times(i))
    OBVIOUS
  <1> HIDE DEF X
  <1>2. seen' = [begun |-> seen.begun, trades |-> seen.trades, goods |-> seen.goods,
                 counted |-> seen.counted, prices |-> X, listings |-> seen.listings,
                 event |-> seen.event, recent |-> seen.recent, asked |-> seen.asked,
                 offset |-> seen.offset, rows |-> seen.rows, sold |-> seen.sold]
    BY <1>1, ResultsAreKept DEF Reading
  <1>3. /\ GoodsKept' /\ ListingsKept' /\ ReaderTyped' /\ PagesRead'
        /\ todo \in Left /\ "prices" \in ToSet(todo) /\ ToSet(todo') = ToSet(todo) \ {"prices"}
        /\ \A x : Has(x)' => x \notin ToSet(todo') /\ (Has(x) \/ x = "prices")
    BY <1>1, <1>2, StatementRuns
  <1>4. seen.listings = {}
    BY <1>3, StatementsInOrder DEF Reading, ListingsRead
  <1>5. GoodsRead'
    <2>1. (Has("goods")' => Has("goods")) /\ (Has("volume")' => Has("volume"))
      BY <1>3
    <2> QED
      BY <1>1, <1>2, <1>3, <2>1, GoodsStay DEF bookVars
  <1>6. ListingsRead'
    <2>1. /\ batch' = batch /\ listings' = listings /\ at' = at /\ overlapped' = overlapped
          /\ seen'.listings = {} /\ seen'.prices = X
      BY <1>1, <1>2, <1>4 DEF bookVars, refreshVars
    <2>2. ASSUME NEW i \in Items
          PROVE  /\ X[i].before \in Int /\ X[i].before < 2 * batch
                 /\ X[i].newest \in Int /\ X[i].newest <= 2 * batch
                 /\ NoneBetween(X[i], i)
      <3> DEFINE T == Times(i)
      <3>1. batch \in Nat /\ 2 * batch \in Nat /\ at \in [0..batch -> Nat]
        BY DEF Reading, ListingsKept
      <3>2. \A l \in listings : l.id[1] \in 0..batch
        BY DEF Reading, ListingsKept
      <3>3. \A b \in 0..batch : at[b] \in 0..(2 * batch)
        BY <3>1 DEF Reading, ListingsKept
      <3>4. T \subseteq 0..(2 * batch) /\ \A m \in listings : m.item = i => at[m.id[1]] \in T
        BY <3>2, <3>3 DEF Times
      <3>5. X[i].before = Second(T) /\ X[i].newest = Newest(T)
        BY <1>x
      <3> HIDE DEF T
      <3>6. /\ Second(T) \in Int /\ Second(T) < 2 * batch
            /\ Newest(T) \in Int /\ Newest(T) <= 2 * batch
            /\ \A x \in T : Second(T) < x => Newest(T) <= x
        BY <3>1, <3>4, SecondIsEarlier, NewestIsLast
      <3> QED
        BY <3>4, <3>5, <3>6 DEF NoneBetween
    <2>4. PricesRead'
      BY <2>1, <2>2 DEF PricesRead, NoneBetween
    <2>3. EventIsNotOlder' /\ LooksBack'
      BY <2>1 DEF EventIsNotOlder, LooksBack
    <2> QED
      BY <2>1, <2>3, <2>4 DEF ListingsRead
  <1> QED
    BY <1>3, <1>5, <1>6 DEF Reading

\* While no refresh has overlapped another, what is on sale is of the last batch.
LEMMA ListingsReads == ASSUME Reading, ReadListings PROVE Reading'
  <1> DEFINE X == {l \in listings : ~l.expired}
  <1>1. /\ Runs("listings") /\ todo' = Tail(todo) /\ seen' = [seen EXCEPT !.listings = X]
        /\ UNCHANGED <<bookVars, refreshVars, order, failed>>
    BY DEF ReadListings, Keep
  <1>x. X = {l \in listings : ~l.expired}
    OBVIOUS
  <1> HIDE DEF X
  <1>2. seen' = [begun |-> seen.begun, trades |-> seen.trades, goods |-> seen.goods,
                 counted |-> seen.counted, prices |-> seen.prices, listings |-> X,
                 event |-> seen.event, recent |-> seen.recent, asked |-> seen.asked,
                 offset |-> seen.offset, rows |-> seen.rows, sold |-> seen.sold]
    BY <1>1, ResultsAreKept DEF Reading
  <1>3. /\ GoodsKept' /\ ListingsKept' /\ ReaderTyped' /\ PagesRead'
        /\ todo \in Left /\ "listings" \in ToSet(todo) /\ ToSet(todo') = ToSet(todo) \ {"listings"}
        /\ \A x : Has(x)' => x \notin ToSet(todo') /\ (Has(x) \/ x = "listings")
    BY <1>1, <1>2, StatementRuns
  <1>4. "event" \in ToSet(todo')
    BY <1>3, StatementsInOrder
  <1>5. GoodsRead'
    <2>1. (Has("goods")' => Has("goods")) /\ (Has("volume")' => Has("volume"))
      BY <1>3
    <2> QED
      BY <1>1, <1>2, <1>3, <2>1, GoodsStay DEF bookVars
  <1>6. ListingsRead'
    <2>1. /\ batch' = batch /\ listings' = listings /\ at' = at /\ overlapped' = overlapped
          /\ seen'.listings = X /\ seen'.prices = seen.prices
      BY <1>1, <1>2 DEF bookVars, refreshVars
    <2>2. ~Has("event")' /\ "listings" \notin ToSet(todo')
      BY <1>3, <1>4
    <2>3. ASSUME NEW l \in X PROVE l.id[1] \in 0..batch /\ l.item \in Items
      <3>1. l \in listings
        BY <1>x
      <3> QED
        BY <3>1 DEF Reading, ListingsKept, Offers
    <2>4. ASSUME ~overlapped, NEW l \in X PROVE seen.prices[l.item].before < at[l.id[1]]
      <3>1. l \in listings /\ ~l.expired
        BY <1>x
      <3>2. batch \in Nat /\ l.id[1] = batch /\ at[batch] = 2 * batch
        BY <2>4, <3>1 DEF Reading, ListingsKept
      <3>3. seen.prices[l.item].before < 2 * batch
        BY <2>3 DEF Reading, ListingsRead, PricesRead
      <3> QED
        BY <3>2, <3>3
    <2>5. EventIsNotOlder' /\ LooksBack'
      BY <2>1, <2>2, <2>4 DEF EventIsNotOlder, LooksBack
    <2>6. PricesRead'
      BY <2>1 DEF Reading, ListingsRead, PricesRead, NoneBetween
    <2> QED
      BY <2>1, <2>2, <2>3, <2>5, <2>6 DEF Reading, ListingsRead
  <1> QED
    BY <1>3, <1>5, <1>6 DEF Reading

\* The newest event is no older than that of any listing read before.
LEMMA EventReads == ASSUME Reading, ReadEvent PROVE Reading'
  <1> DEFINE X == Max({-1} \cup {at[b] : b \in events})
  <1>1. /\ Runs("event") /\ todo' = Tail(todo) /\ seen' = [seen EXCEPT !.event = X]
        /\ UNCHANGED <<bookVars, refreshVars, order, failed>>
    BY DEF ReadEvent, Keep
  <1>x. X = Max({-1} \cup {at[b] : b \in events})
    OBVIOUS
  <1> HIDE DEF X
  <1>2. seen' = [begun |-> seen.begun, trades |-> seen.trades, goods |-> seen.goods,
                 counted |-> seen.counted, prices |-> seen.prices, listings |-> seen.listings,
                 event |-> X, recent |-> seen.recent, asked |-> seen.asked,
                 offset |-> seen.offset, rows |-> seen.rows, sold |-> seen.sold]
    BY <1>1, ResultsAreKept DEF Reading
  <1>3. /\ GoodsKept' /\ ListingsKept' /\ ReaderTyped' /\ PagesRead'
        /\ todo \in Left /\ "event" \in ToSet(todo) /\ ToSet(todo') = ToSet(todo) \ {"event"}
        /\ \A x : Has(x)' => x \notin ToSet(todo') /\ (Has(x) \/ x = "event")
    BY <1>1, <1>2, StatementRuns
  <1>5. GoodsRead'
    <2>1. (Has("goods")' => Has("goods")) /\ (Has("volume")' => Has("volume"))
      BY <1>3
    <2> QED
      BY <1>1, <1>2, <1>3, <2>1, GoodsStay DEF bookVars
  <1>6. ListingsRead'
    <2>1. /\ batch' = batch /\ listings' = listings /\ at' = at /\ overlapped' = overlapped
          /\ events' = events /\ seen'.listings = seen.listings /\ seen'.prices = seen.prices /\ seen'.event = X
      BY <1>1, <1>2 DEF bookVars, refreshVars
    <2>2. \A b \in events : at[b] <= X
      <3> DEFINE T == {-1} \cup {at[b] : b \in events}
      <3>1. batch \in Nat /\ at \in [0..batch -> Nat] /\ events \subseteq 0..batch
        BY DEF Reading, ListingsKept
      <3>2. \A b \in 0..batch : at[b] \in 0..(2 * batch)
        BY <3>1 DEF Reading, ListingsKept
      <3>3. T \subseteq (-1)..(2 * batch) /\ 2 * batch \in Nat
        <4>1. 2 * batch \in Nat /\ -1 \in (-1)..(2 * batch)
          BY <3>1
        <4>2. \A b \in events : at[b] \in (-1)..(2 * batch)
          BY <3>1, <3>2
        <4> QED
          BY <4>1, <4>2
      <3>4. -1 \in T /\ \A b \in events : at[b] \in T
        OBVIOUS
      <3>5. X = Max(T)
        BY <1>x
      <3> HIDE DEF T
      <3> QED
        BY <3>3, <3>4, <3>5, MaxIsLargest
    <2>3. EventIsNotOlder'
      BY <2>1, <2>2 DEF EventIsNotOlder
    <2>4. LooksBack'
      BY <2>1 DEF Reading, ListingsRead, LooksBack
    <2>5. PricesRead'
      BY <2>1 DEF Reading, ListingsRead, PricesRead, NoneBetween
    <2> QED
      BY <1>3, <2>1, <2>3, <2>4, <2>5 DEF Reading, ListingsRead
  <1> QED
    BY <1>3, <1>5, <1>6 DEF Reading

\* The recent events are compared with nothing.
LEMMA RecentReads == ASSUME Reading, ReadRecent PROVE Reading'
  <1> DEFINE X == {at[b] : b \in events}
  <1>1. /\ Runs("recent") /\ todo' = Tail(todo) /\ seen' = [seen EXCEPT !.recent = X]
        /\ UNCHANGED <<bookVars, refreshVars, order, failed>>
    BY DEF ReadRecent, Keep
  <1>x. X = {at[b] : b \in events}
    OBVIOUS
  <1> HIDE DEF X
  <1>2. seen' = [begun |-> seen.begun, trades |-> seen.trades, goods |-> seen.goods,
                 counted |-> seen.counted, prices |-> seen.prices, listings |-> seen.listings,
                 event |-> seen.event, recent |-> X, asked |-> seen.asked,
                 offset |-> seen.offset, rows |-> seen.rows, sold |-> seen.sold]
    BY <1>1, ResultsAreKept DEF Reading
  <1>3. /\ GoodsKept' /\ ListingsKept' /\ ReaderTyped' /\ PagesRead'
        /\ todo \in Left /\ "recent" \in ToSet(todo) /\ ToSet(todo') = ToSet(todo) \ {"recent"}
        /\ \A x : Has(x)' => x \notin ToSet(todo') /\ (Has(x) \/ x = "recent")
    BY <1>1, <1>2, StatementRuns
  <1>5. GoodsRead'
    <2>1. (Has("goods")' => Has("goods")) /\ (Has("volume")' => Has("volume"))
      BY <1>3
    <2> QED
      BY <1>1, <1>2, <1>3, <2>1, GoodsStay DEF bookVars
  <1>6. ListingsRead'
    <2>1. Has("event")' => Has("event")
      BY <1>3
    <2> QED
      BY <1>1, <1>2, <1>3, <2>1, ListingsStay DEF bookVars, refreshVars
  <1> QED
    BY <1>3, <1>5, <1>6 DEF Reading

\* A statement that fails is left out of what may be relied on; what it would have
\* filled is empty.
LEMMA FailureReads == ASSUME Reading, ReadFails PROVE Reading'
  <1>1. /\ todo \notin {<<>>, <<"page">>} /\ failed' = failed \cup {Head(todo)}
        /\ todo' = IF todo = MarketOrder THEN <<>> ELSE Tail(todo)
        /\ UNCHANGED <<bookVars, refreshVars, order, seen>>
    BY DEF ReadFails
  <1>2. UNCHANGED <<batch, listings, goods, at, events, overlapped, order, seen>>
    BY <1>1 DEF bookVars, refreshVars
  <1>3. /\ todo \in Left /\ Tail(todo) \in Left /\ <<>> \in Left
        /\ ToSet(Tail(todo)) = ToSet(todo) \ {Head(todo)}
    BY <1>1, StatementsInOrder DEF Reading, ReaderTyped, Left
  <1>4. /\ ToSet(MarketOrder) = {"listings", "event"} /\ ToSet(<<>>) = {}
    BY DEF ToSet, MarketOrder
  <1>5. todo' \in Left /\ ToSet(todo') \subseteq ToSet(todo)
    BY <1>1, <1>3, <1>4
  <1>6. ASSUME NEW x, Has(x)' PROVE Has(x) \/ (todo = MarketOrder /\ x \in {"listings", "event"})
    <2>1. seen.begun /\ x \notin failed' /\ x \notin ToSet(todo')
      BY <1>2, <1>6 DEF Has
    <2>2. CASE todo = MarketOrder
      BY <1>1, <1>4, <2>1, <2>2 DEF Has
    <2>3. CASE todo # MarketOrder
      BY <1>1, <1>3, <2>1, <2>3 DEF Has
    <2> QED
      BY <2>2, <2>3
  <1>7. GoodsKept' /\ ListingsKept'
    BY <1>2 DEF Reading, GoodsKept, ListingsKept
  <1>8. seen.begun /\ seen.sold = {}
    BY <1>1 DEF Reading, ReaderTyped, PagesRead
  <1>9. ReaderTyped'
    BY <1>2, <1>5, <1>8 DEF Reading, ReaderTyped
  <1>10. GoodsRead'
    <2>1. (Has("goods")' => Has("goods")) /\ (Has("volume")' => Has("volume"))
      BY <1>6
    <2> QED
      BY <1>2, <1>5, <2>1, GoodsStay
  <1>11. ListingsRead'
    <2>1. seen.listings = {} \/ (Has("event")' => Has("event"))
      <3>1. CASE todo = MarketOrder
        BY <1>4, <3>1 DEF Reading, ListingsRead
      <3>2. CASE todo # MarketOrder
        BY <1>6, <3>2
      <3> QED
        BY <3>1, <3>2
    <2> QED
      BY <1>2, <1>5, <2>1, ListingsStay
  <1>12. PagesRead'
    BY <1>2, <1>8 DEF Reading, PagesRead, PagingMissesNothing
  <1> QED
    BY <1>7, <1>9, <1>10, <1>11, <1>12 DEF Reading

-----------------------------------------------------------------------------
(* A page is read. *)

\* A client is served at least a row, and the limit answered is the limit served.
LEMMA LimitsServed == ASSUME NEW limit \in Nat PROVE Served(limit) \in Nat /\ Served(limit) > 0
  BY LimitsAreServed DEF Served

\* A page takes the rows and the offset.
LEMMA PagesAreKept ==
    ASSUME ReaderTyped, NEW r, NEW o, NEW s, s = [seen EXCEPT !.rows = r, !.offset = o]
    PROVE  s = [begun |-> seen.begun, trades |-> seen.trades, goods |-> seen.goods,
                counted |-> seen.counted, prices |-> seen.prices,
                listings |-> seen.listings, event |-> seen.event, recent |-> seen.recent,
                asked |-> seen.asked, offset |-> o, rows |-> r, sold |-> seen.sold]
  <1> DEFINE View == [begun: {seen.begun}, trades: {seen.trades}, goods: {seen.goods},
                      counted: {seen.counted}, prices: {seen.prices},
                      listings: {seen.listings}, event: {seen.event},
                      recent: {seen.recent}, asked: {seen.asked}, offset: {o, seen.offset},
                      rows: {r, seen.rows}, sold: {seen.sold}]
             new == [seen EXCEPT !.rows = r, !.offset = o]
  <1>1. seen \in View
    BY DEF ReaderTyped
  <1>2. new \in View /\ new.rows = r /\ new.offset = o
    BY <1>1
  <1>3. s = new
    OBVIOUS
  <1> HIDE DEF new
  <1> QED
    BY <1>2, <1>3

\* A client's first page.
LEMMA FirstAsk ==
    ASSUME NEW limit, NEW sold, NEW s,
           s = [NothingSeen EXCEPT !.begun = TRUE, !.asked = limit, !.sold = sold]
    PROVE  s = [begun |-> TRUE, trades |-> {}, goods |-> {}, counted |-> {},
                prices |-> [i \in Items |-> [newest |-> -1, before |-> -1]],
                listings |-> {}, event |-> -1,
                recent |-> {}, asked |-> limit, offset |-> 0, rows |-> {}, sold |-> sold]
  <1> DEFINE View == [begun: BOOLEAN, trades: {{}}, goods: {{}}, counted: {{}},
                      prices: {[i \in Items |-> [newest |-> -1, before |-> -1]]},
                      listings: {{}}, event: {-1}, recent: {{}}, asked: {0, limit}, offset: {0}, rows: {{}},
                      sold: {{}, sold}]
             new == [NothingSeen EXCEPT !.begun = TRUE, !.asked = limit, !.sold = sold]
  <1>1. NothingSeen \in View
    BY DEF NothingSeen
  <1> HIDE DEF NothingSeen
  <1>2. new \in View /\ new.begun = TRUE /\ new.asked = limit /\ new.sold = sold
    BY <1>1
  <1>3. s = new
    OBVIOUS
  <1> HIDE DEF new
  <1> QED
    BY <1>2, <1>3

\* A page is of the rows behind those that have been served; a short one is the last.
LEMMA PageReads == ASSUME Reading, ReadPage PROVE Reading'
  <1> DEFINE n == Served(seen.asked)
             page == Page(seen.offset, n)
             R == seen.rows \cup page
             O == seen.offset + n
  <1>1. /\ todo = <<"page">> /\ todo # <<>>
        /\ todo' = IF Cardinality(page) < n THEN <<>> ELSE todo
        /\ UNCHANGED <<bookVars, refreshVars, order, failed>>
    <2>1. /\ Runs("page") /\ todo' = IF Cardinality(page) < n THEN <<>> ELSE todo
          /\ UNCHANGED <<bookVars, refreshVars, order, failed>>
      BY DEF ReadPage, AnsweredLimit
    <2>2. todo # <<>> /\ Head(todo) = "page" /\ todo \in Left
      BY <2>1 DEF Runs, Reading, ReaderTyped
    <2> QED
      BY <2>1, <2>2, StatementsInOrder
  <1>2. seen' = [seen EXCEPT !.rows = R, !.offset = O]
    BY DEF ReadPage, AnsweredLimit
  <1>3. UNCHANGED <<batch, listings, goods, at, events, overlapped, order, failed>>
    BY <1>1 DEF bookVars, refreshVars
  <1>4. /\ n \in Nat /\ n > 0 /\ seen.offset \in Nat /\ O \in Nat
        /\ order \in Seq({g.id : g \in goods}) /\ Len(order) \in Nat
        /\ DOMAIN order = 1..Len(order)
    BY LimitsServed DEF Reading, PagesRead, GoodsKept
  <1>5. page = {order[i] : i \in {j \in DOMAIN order : seen.offset < j /\ j <= O}}
    BY DEF Page
  <1>6. Cardinality(page) < n => Len(order) < O
    <2> SUFFICES ASSUME Cardinality(page) < n PROVE Len(order) < O
      OBVIOUS
    <2>1. \A i, j \in DOMAIN order : order[i] = order[j] => i = j
      BY DEF Reading, GoodsKept
    <2> HIDE DEF n
    <2> QED
      BY <1>4, <2>1, ShortPageIsLast
  <1> HIDE DEF n, page, R, O
  <1>7. /\ seen' = [begun |-> seen'.begun, trades |-> seen'.trades, goods |-> seen'.goods,
                    counted |-> seen'.counted, prices |-> seen'.prices,
                    listings |-> seen'.listings, event |-> seen'.event,
                    recent |-> seen'.recent, asked |-> seen'.asked, offset |-> seen'.offset,
                    rows |-> seen'.rows, sold |-> seen'.sold]
        /\ seen'.begun = seen.begun /\ seen'.trades = seen.trades /\ seen'.goods = seen.goods
        /\ seen'.counted = seen.counted /\ seen'.prices = seen.prices
        /\ seen'.listings = seen.listings /\ seen'.event = seen.event
        /\ seen'.asked = seen.asked /\ seen'.sold = seen.sold
        /\ seen'.rows = R /\ seen'.offset = O
    <2>1. ReaderTyped
      BY DEF Reading
    <2>2. seen' = [begun |-> seen.begun, trades |-> seen.trades, goods |-> seen.goods,
                   counted |-> seen.counted, prices |-> seen.prices,
                   listings |-> seen.listings, event |-> seen.event, recent |-> seen.recent,
                   asked |-> seen.asked, offset |-> O, rows |-> R, sold |-> seen.sold]
      BY <1>2, <2>1, PagesAreKept
    <2> QED
      BY <2>2
  <1>8. /\ todo' \in Left /\ ToSet(todo) = {"page"} /\ ToSet(todo') \subseteq {"page"}
    BY <1>1 DEF ToSet, Left
  <1>9. ASSUME NEW x, x # "page", Has(x)' PROVE Has(x)
    BY <1>3, <1>7, <1>8, <1>9 DEF Has
  <1>10. GoodsKept' /\ ListingsKept'
    BY <1>3 DEF Reading, GoodsKept, ListingsKept
  <1>11. ReaderTyped'
    <2>1. seen.begun
      BY <1>1 DEF Reading, ReaderTyped
    <2> QED
      BY <1>7, <1>8, <2>1 DEF ReaderTyped
  <1>12. GoodsRead'
    <2>1. (Has("goods")' => Has("goods")) /\ (Has("volume")' => Has("volume"))
      BY <1>9
    <2> QED
      BY <1>3, <1>7, <1>8, <2>1, GoodsStay
  <1>13. ListingsRead'
    <2>1. Has("event")' => Has("event")
      BY <1>9
    <2> QED
      BY <1>3, <1>7, <1>8, <2>1, ListingsStay
  <1>14. PagesRead'
    <2>1. ASSUME NEW j \in DOMAIN order, j <= O, order[j] \in seen.sold PROVE order[j] \in R
      <3>1. CASE j <= seen.offset
        BY <2>1, <3>1 DEF Reading, PagesRead, R
      <3>2. CASE seen.offset < j
        BY <1>5, <2>1, <3>2 DEF R
      <3> QED
        BY <1>4, <3>1, <3>2
    <2>2. ASSUME todo' = <<>> PROVE seen.sold \subseteq R
      <3>1. Len(order) < O
        BY <1>1, <1>6, <2>2
      <3>2. \A j \in DOMAIN order : j <= O
        BY <1>4, <3>1
      <3>3. seen.sold \subseteq ToSet(order)
        BY DEF Reading, PagesRead
      <3> QED
        BY <2>1, <3>2, <3>3 DEF ToSet
    <2>3. todo' \in {<<>>, <<"page">>}
      BY <1>1
    <2>4. seen.asked \in Nat /\ seen.sold \subseteq ToSet(order)
      BY DEF Reading, PagesRead
    <2> QED
      BY <1>3, <1>4, <1>7, <2>1, <2>2, <2>3, <2>4 DEF PagesRead, PagingMissesNothing
  <1> QED
    BY <1>10, <1>11, <1>12, <1>13, <1>14 DEF Reading

-----------------------------------------------------------------------------
(* A reader begins. *)

\* What was to be read is remembered, and nothing has been.
LEMMA BeginReads == ASSUME Reading, Begin PROVE Reading'
  <1>1. seen = NothingSeen /\ todo = <<>> /\ failed = {}
    BY DEF Begin, Reading, ReaderTyped
  <1>2. UNCHANGED <<batch, listings, goods, at, events, overlapped, order, failed>>
    BY DEF Begin, bookVars, refreshVars
  <1>3. /\ todo' \in Left
        /\ \E limit \in Nat, sold \in SUBSET ToSet(order) :
             /\ seen' = [begun |-> TRUE, trades |-> {}, goods |-> {}, counted |-> {},
                         prices |-> [i \in Items |-> [newest |-> -1, before |-> -1]],
                         listings |-> {}, event |-> -1,
                         recent |-> {}, asked |-> limit, offset |-> 0, rows |-> {},
                         sold |-> sold]
             /\ todo' # <<"page">> => sold = {}
    <2>1. CASE /\ todo' \in {SnapshotOrder, MarketOrder}
               /\ seen' = [seen EXCEPT !.begun = TRUE]
      <3>1. seen' = [begun |-> TRUE, trades |-> {}, goods |-> {}, counted |-> {},
                     prices |-> [i \in Items |-> [newest |-> -1, before |-> -1]],
                     listings |-> {}, event |-> -1,
                     recent |-> {}, asked |-> 0, offset |-> 0, rows |-> {}, sold |-> {}]
        BY <1>1, <2>1 DEF NothingSeen
      <3>2. {} \in SUBSET ToSet(order) /\ 0 \in Nat
        OBVIOUS
      <3> QED
        BY <2>1, <3>1, <3>2 DEF Left
    <2>2. CASE /\ todo' = <<"page">>
               /\ \E limit \in Asks :
                    seen' = [seen EXCEPT !.begun = TRUE, !.asked = limit,
                                         !.sold = {order[i] : i \in DOMAIN order}]
      <3>1. PICK limit \in Asks :
              seen' = [seen EXCEPT !.begun = TRUE, !.asked = limit,
                                   !.sold = {order[i] : i \in DOMAIN order}]
        BY <2>2
      <3> DEFINE sold == {order[i] : i \in DOMAIN order}
      <3>2. sold \in SUBSET ToSet(order) /\ limit \in Nat
        BY LimitsAreServed DEF ToSet
      <3> HIDE DEF sold
      <3>3. seen' = [begun |-> TRUE, trades |-> {}, goods |-> {}, counted |-> {},
                     prices |-> [i \in Items |-> [newest |-> -1, before |-> -1]],
                     listings |-> {}, event |-> -1,
                     recent |-> {}, asked |-> limit, offset |-> 0, rows |-> {}, sold |-> sold]
        BY <1>1, <3>1, FirstAsk DEF sold
      <3> QED
        BY <2>2, <3>2, <3>3 DEF Left
    <2> QED
      BY <2>1, <2>2 DEF Begin
  <1>4. PICK limit \in Nat, sold \in SUBSET ToSet(order) :
          /\ seen' = [begun |-> TRUE, trades |-> {}, goods |-> {}, counted |-> {},
                      prices |-> [i \in Items |-> [newest |-> -1, before |-> -1]],
                      listings |-> {}, event |-> -1,
                      recent |-> {}, asked |-> limit, offset |-> 0, rows |-> {}, sold |-> sold]
          /\ todo' # <<"page">> => sold = {}
    BY <1>3
  <1>5. GoodsKept' /\ ListingsKept'
    BY <1>2 DEF Reading, GoodsKept, ListingsKept
  <1>6. ReaderTyped'
    BY <1>3, <1>4 DEF ReaderTyped
  <1>7. GoodsRead'
    BY <1>4 DEF GoodsRead, SnapshotMissesNoGood
  <1>8. ListingsRead'
    <2>1. batch' \in Nat /\ \A l \in listings' : at'[l.id[1]] \in Nat
      BY <1>5 DEF ListingsKept
    <2>2. /\ seen'.listings = {}
          /\ \A i \in Items : seen'.prices[i].newest = -1 /\ seen'.prices[i].before = -1
      BY <1>4
    <2>3. PricesRead'
      BY <2>1, <2>2 DEF PricesRead, NoneBetween
    <2> QED
      BY <2>2, <2>3 DEF ListingsRead, EventIsNotOlder, LooksBack
  <1>9. PagesRead'
    <2>1. /\ seen'.asked = limit /\ seen'.offset = 0 /\ seen'.rows = {} /\ seen'.sold = sold
      BY <1>4
    <2>2. order \in Seq({g.id : g \in goods}) /\ \A j \in DOMAIN order : ~(j <= 0)
      BY DEF Reading, GoodsKept
    <2> QED
      BY <1>2, <1>4, <2>1, <2>2 DEF PagesRead, PagingMissesNothing
  <1> QED
    BY <1>5, <1>6, <1>7, <1>8, <1>9 DEF Reading

-----------------------------------------------------------------------------
(* Every step preserves Reading. *)

LEMMA ReadsStep == ASSUME Reading, [ReadsNext]_rvars PROVE Reading'
  <1>1. CASE Refresh
    BY <1>1, RefreshReads
  <1>2. CASE Buy
    BY <1>2, BuyReads
  <1>3. CASE Sell
    BY <1>3, SellReads
  <1>4. CASE Begin
    BY <1>4, BeginReads
  <1>5. CASE Read
    BY <1>5, BalanceReads, GoodsReads, VolumeReads, PricesReads, ListingsReads, EventReads,
       RecentReads, PageReads, FailureReads DEF Read
  <1>6. CASE UNCHANGED rvars
    <2>1. UNCHANGED <<batch, listings, goods, at, events, overlapped, order, todo, seen, failed>>
      BY <1>6 DEF rvars, bookVars, refreshVars, readerVars
    <2> QED
      BY <2>1 DEF Reading, GoodsKept, ListingsKept, ReaderTyped, GoodsRead, ListingsRead,
         PagesRead, SnapshotMissesNoGood, EventIsNotOlder, PricesRead, NoneBetween, LooksBack,
         PagingMissesNothing, Has, Made
  <1> QED
    BY <1>1, <1>2, <1>3, <1>4, <1>5, <1>6 DEF ReadsNext

\* Reading is an invariant: of the market, what is left to read, and what has been read.
THEOREM ReadingIsKept == ReadsSpec => []Reading
  <1> QED
    BY ReadsBegin, ReadsStep, PTL DEF ReadsSpec

\* Balance and inventory of a snapshot agree on the past, and what is shown is
\* counted, though no transaction is around the statements (market.go:552-615).
THEOREM SnapshotsAgree == ReadsSpec => []SnapshotMissesNoGood
  <1>1. Reading => SnapshotMissesNoGood
    BY DEF Reading, GoodsRead
  <1> QED
    BY <1>1, ReadingIsKept, PTL

\* The event of an answer is no older than that of any listing in it
\* (market.go:29-65, 639-697).
THEOREM EventsAreFresh == ReadsSpec => []EventIsNotOlder
  <1>1. Reading => EventIsNotOlder
    BY DEF Reading, ListingsRead
  <1> QED
    BY <1>1, ReadingIsKept, PTL

\* While refreshes do not overlap, a listing is compared with a price of an earlier
\* refresh; those passed over are the newest whose price has been read, and later ones
\* (market.go:617-669).
THEOREM ChangesLookBack == ReadsSpec => []ChangeIsFromEarlier
  <1>1. Reading => ChangeIsFromEarlier
    <2> SUFFICES ASSUME Reading, ~overlapped, NEW l \in seen.listings
                 PROVE  /\ seen.prices[l.item].before < at[l.id[1]]
                        /\ \A m \in PassedOver(l) : seen.prices[l.item].newest <= at[m.id[1]]
      BY DEF ChangeIsFromEarlier
    <2>1. LooksBack /\ NoneBetween(seen.prices[l.item], l.item)
      BY DEF Reading, ListingsRead, PricesRead
    <2> QED
      BY <2>1 DEF LooksBack, NoneBetween, PassedOver
  <1> QED
    BY <1>1, ReadingIsKept, PTL

\* A client that pages through its sales sees all that were there when it began,
\* whatever limit it asks for and whatever it sells meanwhile (market.go:400-445).
THEOREM PagesShowAll == ReadsSpec => []PagingMissesNothing
  <1>1. Reading => PagingMissesNothing
    BY DEF Reading, PagesRead
  <1> QED
    BY <1>1, ReadingIsKept, PTL
=============================================================================
