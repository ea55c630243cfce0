----------------------------- MODULE WonkaProofs -----------------------------
(***************************************************************************)
(* Ledger and market over one database, for any agents, keys, calls and    *)
(* requests: nobody overdraws, a key is spent once over all handlers, and  *)
(* calls wait in a circle only for one key.  Shared is the inductive       *)
(* invariant.                                                              *)
(***************************************************************************)
EXTENDS Wonka, CandyBooksProofs

ClientOps   == {"adjust", "buy", "sell"}
BuyLabels   == {"listing", "lockBuyer", "checkBuyer", "debitBuyer", "stock", "commitBuy"}
SellLabels  == {"lockSeller", "find", "price", "pastPrice", "creditSeller", "mark", "commitSell"}
TradeLocked == {"checkBuyer", "debitBuyer", "stock", "commitBuy", "find", "price", "pastPrice",
                "creditSeller", "mark", "commitSell"}

Labels  == CandyLabels \cup TradeLabels
Answers == CandyAnswers \cup TradeAnswers

\* The variables of the calls and the database rows they share have their types.
CallsTyped ==
    /\ balance \in [Agents -> Int]
    /\ lock \in [Agents -> Calls \cup {NoCall}]
    /\ req \in [Calls -> Requests \cup {NoRequest}]
    /\ pc \in [Calls -> Labels]
    /\ resp \in [Calls -> Answers]
    /\ pend = [h \in Calls |-> pend[h]]
    /\ IsFiniteSet(Arrived)

\* The market's tables and the goods that trades have quoted have their types.
MarketTyped ==
    /\ \A l \in listings : l.item \in Items /\ l.price \in Nat
    /\ history \in [Items -> Nat]
    /\ \A g \in goods : g.item \in Items
    /\ quote \in [Calls -> [item: Items \cup {NoRequest}, price: Nat]]

\* A call is at a statement of the handler its request is routed to.
RoutedTo(h) ==
    /\ pc[h] # "idle" => req[h] \in CandyRequests \cup TradeRequests
    /\ pc[h] \in TransferLabels => req[h].op = "transfer"
    /\ pc[h] \in TransferLabels \ {"resolve"} => req[h].agent # req[h].peer
    /\ pc[h] = "begin" /\ req[h].op = "transfer" => req[h].agent # req[h].peer
    /\ pc[h] \in {"post", "fk"} => req[h].op \in Adjusts
    /\ pc[h] = "patch" => req[h].op \in {"enable", "disable"}
    /\ pc[h] \in BuyLabels => req[h].op = "buy"
    /\ pc[h] \in SellLabels => req[h].op = "sell"
    /\ pc[h] = "idem" => req[h].op \in TradeOps
    /\ pc[h] \in (BuyLabels \ {"listing"}) \cup {"price", "pastPrice"} => quote[h].item \in Items
    /\ pc[h] = "begin" /\ req[h].op = "buy" => quote[h].item \in Items

\* The rows of agents that a call has locked, and no other call has.
Has(h) == CASE pc[h] = "lock2"       -> {LockOrder(h)[1]}
            [] pc[h] \in Locked      -> {req[h].agent, req[h].peer}
            [] pc[h] \in TradeLocked -> {req[h].agent}
            [] OTHER                 -> {}

\* The rows of candy_ledger that a call has written and not committed.
Wrote(h) ==
    CASE pc[h] \in {"stock", "commitBuy"} -> {Row(h, req[h].agent, TradeKey(h), -quote[h].price)}
      [] pc[h] \in {"mark", "commitSell"} -> {Row(h, req[h].agent, TradeKey(h), quote[h].price)}
      [] OTHER                            -> RowsWritten(h)

\* A spender has the balance it has checked.
Covered(h) ==
    /\ pc[h] \in {"insert"} \cup Claiming => balance[req[h].agent] >= req[h].n
    /\ pc[h] \in {"debitBuyer", "stock", "commitBuy"} => balance[req[h].agent] >= quote[h].price

\* A call is answered when it ends, and of a client's key "ok" and "duplicate" say
\* that it is taken.
Answered(h) ==
    /\ pc[h] # "done" => resp[h] = "none"
    /\ resp[h] \in {"ok", "duplicate"} /\ req[h].op \in ClientOps =>
         Taken(req[h].agent, Key("client", req[h].key))

CallKept(h) == /\ RoutedTo(h) /\ Covered(h) /\ Answered(h)
               /\ pend[h] = Wrote(h)
               /\ \A a \in Agents : lock[a] = h <=> a \in Has(h)

\* A row in the books is of a call that has ended, and said so or lost its answer.
RowsEnd == \A r \in ledger : r.by \in Calls => pc[r.by] = "done" /\ resp[r.by] \in {"ok", "error"}

\* A client's key has one row, committed or not, whichever handler has written it.
OneRow ==
    /\ \A r, s \in ledger : r.key.kind = "client" /\ r.agent = s.agent /\ r.key = s.key => r = s
    /\ \A h \in Calls : \A r \in pend[h] : r.key.kind = "client" =>
         ~Taken(r.agent, r.key) /\ Writing(h, r.agent, r.key) = {}

Shared == CallsTyped /\ MarketTyped /\ (\A h \in Calls : CallKept(h)) /\ RowsEnd /\ OneRow

-----------------------------------------------------------------------------
(* What a call's request and its rows are. *)

\* A call that has arrived has a typed request of the ledger or of the market.
LEMMA RequestTypes ==
    ASSUME Shared, NEW h \in Calls, pc[h] # "idle"
    PROVE  /\ req[h] \in Requests /\ req[h].agent \in Agents
           /\ \/ /\ req[h] \in CandyRequests /\ req[h].op \in CandyOps
                 /\ req[h].peer \in Agents /\ req[h].n \in Int
              \/ req[h] \in TradeRequests /\ req[h].op \in TradeOps
  <1>1. req[h] \in CandyRequests \cup TradeRequests
    BY DEF Shared, CallKept, RoutedTo
  <1>2. CASE req[h] \in CandyRequests
    BY <1>2, CandyRequestsAreTyped DEF CandyRequests
  <1>3. CASE req[h] \in TradeRequests
    BY <1>3, RequestsNameAgents DEF TradeRequests
  <1> QED
    BY <1>1, <1>2, <1>3

\* What a call has written is its own, of agents whose rows it has locked or may
\* lock, and one row if it has a client's key.
LEMMA WroteRows ==
    ASSUME Shared, NEW h \in Calls
    PROVE  /\ \A r \in Wrote(h) : /\ r.by = h
                                  /\ \/ r.agent = req[h].agent /\ pc[h] = "fk"
                                     \/ r.agent \in Has(h)
           /\ \A r, s \in Wrote(h) : r.key.kind = "client" => r = s
  <1> USE DEF Row, Key
  <1>1. CASE pc[h] = "fk"
    BY <1>1 DEF Wrote, RowsWritten
  <1>2. CASE pc[h] = "credit"
    BY <1>2 DEF Wrote, RowsWritten, Has, Locked
  <1>3. CASE pc[h] = "commit"
    <2>1. Wrote(h) = {Row(h, req[h].agent, Key("out", h), -req[h].n), CreditRow(h)}
      BY <1>3 DEF Wrote, RowsWritten
    <2>2. req[h].agent \in Has(h) /\ req[h].peer \in Has(h)
      BY <1>3 DEF Has, Locked, TradeLocked
    <2> QED
      BY <2>1, <2>2 DEF CreditRow
  <1>4. CASE pc[h] \in {"stock", "commitBuy", "mark", "commitSell"}
    BY <1>4 DEF Wrote, Has, Locked, TradeLocked
  <1>5. CASE pc[h] \notin {"fk", "credit", "commit", "stock", "commitBuy", "mark", "commitSell"}
    BY <1>5 DEF Wrote, RowsWritten
  <1> QED
    BY <1>1, <1>2, <1>3, <1>4, <1>5

-----------------------------------------------------------------------------
(* What a step of one call may do to the others. *)

Free(h, r) == ~Taken(r.agent, r.key) /\ Writing(h, r.agent, r.key) = {}
Effect(h) ==
    /\ OnlyCall(h) /\ \A g \in Calls \ {h} : quote'[g] = quote[g]
    /\ pc[h] # "done"
    /\ \A a \in Agents : lock'[a] = lock[a] \/ {lock[a], lock'[a]} \subseteq {NoCall, h}
    /\ \/ /\ UNCHANGED <<ledger, balance>>
          /\ \A r \in pend'[h] : r \in pend[h] \/ r.key.kind # "client" \/ Free(h, r)
       \/ /\ ledger' = ledger \cup pend[h] /\ pend'[h] = {}
          /\ pc'[h] = "done" /\ resp'[h] \in {"ok", "error"}
          /\ \A a \in Agents : lock[a] \in {NoCall, h} \/ balance'[a] = balance[a]

\* The other calls keep what they rely on: their locks, and so their balances.
LEMMA OthersKept ==
    ASSUME Shared, NEW h \in Calls, Effect(h), NEW g \in Calls \ {h}
    PROVE  CallKept(g)'
  <1>1. /\ pc'[g] = pc[g] /\ req'[g] = req[g] /\ resp'[g] = resp[g] /\ pend'[g] = pend[g]
        /\ quote'[g] = quote[g]
    BY DEF Effect, OnlyCall
  <1>2. CallKept(g)
    BY DEF Shared
  <1>3. RoutedTo(g)'
    BY <1>1, <1>2 DEF CallKept, RoutedTo
  <1>4. \A a \in Agents : lock'[a] = g <=> lock[a] = g
    BY NoCallIsNotACall DEF Effect
  <1>5. \A a \in Agents : lock[a] = g => balance'[a] = balance[a]
    BY NoCallIsNotACall DEF Effect
  <1>6. Has(g)' = Has(g)
    BY <1>1 DEF Has, LockOrder
  <1>7. Wrote(g)' = Wrote(g)
    BY <1>1 DEF Wrote, RowsWritten, TradeKey, AdjustKey, CreditRow
  <1>8. Covered(g)'
    <2>1. CASE pc[g] \in {"insert", "debitBuyer", "stock", "commitBuy"} \cup Claiming
      <3>1. req[g].agent \in Agents /\ req[g].agent \in Has(g)
        BY <2>1, RequestTypes DEF Has, Locked, TradeLocked, BuyLabels, Claiming
      <3> QED
        BY <1>1, <1>2, <1>5, <3>1 DEF CallKept, Covered
    <2>2. CASE pc[g] \notin {"insert", "debitBuyer", "stock", "commitBuy"} \cup Claiming
      BY <1>1, <2>2 DEF Covered
    <2> QED
      BY <2>1, <2>2
  <1>9. Answered(g)'
    BY <1>1, <1>2 DEF CallKept, Answered, Taken, Effect
  <1> QED
    BY <1>1, <1>2, <1>3, <1>4, <1>6, <1>7, <1>8, <1>9 DEF CallKept

\* What is committed is in the books once, and of a call that has ended.
LEMMA BooksKept ==
    ASSUME Shared, NEW h \in Calls, Effect(h)
    PROVE  RowsEnd' /\ OneRow'
  <1>1. \A g \in Calls \ {h} : pc'[g] = pc[g] /\ resp'[g] = resp[g] /\ pend'[g] = pend[g]
    BY DEF Effect, OnlyCall
  <1>2. \A r \in pend[h] : r.by = h
    BY WroteRows DEF Shared, CallKept
  <1>3. \A r, s \in pend[h] : r.key.kind = "client" => r = s
    BY WroteRows DEF Shared, CallKept
  <1>4. RowsEnd'
    <2> SUFFICES ASSUME NEW r \in ledger', r.by \in Calls
                 PROVE  pc'[r.by] = "done" /\ resp'[r.by] \in {"ok", "error"}
      BY DEF RowsEnd
    <2>1. CASE r \in ledger
      BY <1>1, <2>1 DEF Shared, RowsEnd, Effect
    <2>2. CASE r \notin ledger
      BY <1>2, <2>2 DEF Effect
    <2> QED
      BY <2>1, <2>2
  <1>5. ASSUME NEW r \in ledger', NEW s \in ledger', r.key.kind = "client",
               r.agent = s.agent, r.key = s.key
        PROVE  r = s
    <2>1. CASE r \in ledger /\ s \in ledger
      BY <1>5, <2>1 DEF Shared, OneRow
    <2>2. CASE r \notin ledger /\ s \notin ledger
      BY <1>3, <1>5, <2>2 DEF Effect
    <2>3. CASE r \in ledger /\ s \notin ledger
      <3>1. s \in pend[h]
        BY <2>3 DEF Effect
      <3> QED
        BY <1>5, <2>3, <3>1 DEF Shared, OneRow, Taken
    <2>4. CASE r \notin ledger /\ s \in ledger
      <3>1. r \in pend[h]
        BY <2>4 DEF Effect
      <3> QED
        BY <1>5, <2>4, <3>1 DEF Shared, OneRow, Taken
    <2> QED
      BY <2>1, <2>2, <2>3, <2>4
  <1>6. ASSUME NEW g \in Calls, NEW r \in pend'[g], r.key.kind = "client"
        PROVE  (~Taken(r.agent, r.key))'
    <2>1. CASE UNCHANGED ledger
      BY <1>1, <1>6, <2>1 DEF Effect, Shared, OneRow, Taken, Free
    <2>2. CASE ledger' = ledger \cup pend[h] /\ pend'[h] = {}
      <3>1. g # h /\ r \in pend[g]
        BY <1>1, <2>2
      <3>2. ~Taken(r.agent, r.key) /\ h \notin Writing(g, r.agent, r.key)
        BY <1>6, <3>1 DEF Shared, OneRow
      <3> QED
        BY <2>2, <3>1, <3>2 DEF Taken, Writing
    <2> QED
      BY <2>1, <2>2 DEF Effect
  <1>7. ASSUME NEW g \in Calls, NEW r \in pend'[g], r.key.kind = "client",
               NEW k \in Calls \ {g}, NEW s \in pend'[k], s.agent = r.agent, s.key = r.key
        PROVE  FALSE
    <2>1. ASSUME NEW f \in Calls, NEW e \in Calls \ {f}, NEW t \in pend[f], NEW u \in pend[e],
                 t.key.kind = "client", t.agent = u.agent, t.key = u.key
          PROVE  FALSE
      BY <2>1 DEF Shared, OneRow, Writing
    <2>2. ASSUME NEW t \in pend'[h], Free(h, t), NEW e \in Calls \ {h}, NEW u \in pend[e],
                 t.agent = u.agent, t.key = u.key
          PROVE  FALSE
      BY <2>2 DEF Free, Writing
    <2>3. \A t \in pend'[h] : t \in pend[h] \/ t.key.kind # "client" \/ Free(h, t)
      BY DEF Effect
    <2>4. CASE g # h /\ k # h
      BY <1>1, <1>7, <2>1, <2>4
    <2>5. CASE g = h
      BY <1>1, <1>7, <2>1, <2>2, <2>3, <2>5
    <2>6. CASE k = h
      BY <1>1, <1>7, <2>1, <2>2, <2>3, <2>6
    <2> QED
      BY <2>4, <2>5, <2>6
  <1>8. \A g \in Calls : \A r \in pend'[g] :
          r.key.kind = "client" => (Writing(g, r.agent, r.key) = {})'
    BY <1>7 DEF Writing
  <1> QED
    BY <1>4, <1>5, <1>6, <1>8 DEF OneRow

\* A step that one call makes keeps Shared if it keeps it for that call.
LEMMA EffectKeeps ==
    ASSUME Shared, NEW h \in Calls, Effect(h), CallsTyped', MarketTyped', CallKept(h)'
    PROVE  Shared'
  <1>1. \A g \in Calls : CallKept(g)'
    BY OthersKept
  <1> QED
    BY <1>1, BooksKept DEF Shared

-----------------------------------------------------------------------------
(* The ways a step changes a call and the database. *)

OnlyQuote(h) == \A g \in Calls \ {h} : quote'[g] = quote[g]

\* Only finitely many calls have arrived.
LEMMA ArrivedKept ==
    ASSUME Shared, NEW h \in Calls, OnlyCall(h)
    PROVE  IsFiniteSet(Arrived')
  <1>1. Arrived' \subseteq Arrived \cup {h}
    BY DEF Arrived, OnlyCall
  <1>2. IsFiniteSet(Arrived \cup {h})
    BY FS_AddElement DEF Shared, CallsTyped
  <1> QED
    BY <1>1, <1>2, FS_Subset

\* A call that goes on to its next statement.
LEMMA GotoKeeps ==
    ASSUME Shared, NEW h \in Calls, pc[h] \notin {"idle", "done"},
           NEW label \in Labels \ {"idle", "done"}, Goto(h, label),
           UNCHANGED <<ledger, balance, lock, pend>>, OnlyQuote(h), MarketTyped',
           RoutedTo(h)', Covered(h)', Has(h)' = Has(h), Wrote(h)' = Wrote(h)
    PROVE  Shared'
  <1> USE DEF Goto
  <1>1. CallsTyped /\ CallKept(h)
    BY DEF Shared
  <1>2. OnlyCall(h)
    BY <1>1 DEF OnlyCall, CallsTyped
  <1>3. CallsTyped'
    BY <1>1, <1>2, ArrivedKept DEF CallsTyped
  <1>4. Effect(h)
    BY <1>2 DEF Effect, OnlyQuote
  <1>5. CallKept(h)'
    BY <1>1, <1>3 DEF CallKept, Answered, CallsTyped
  <1> QED
    BY <1>3, <1>4, <1>5, EffectKeeps

\* A call that locks a row.
LEMMA LockKeeps ==
    ASSUME Shared, NEW h \in Calls, pc[h] \notin {"idle", "done"},
           NEW label \in Labels \ {"idle", "done"}, NEW a \in Agents, LockAgent(h, a, label),
           UNCHANGED quote, MarketTyped', RoutedTo(h)', Covered(h)',
           Has(h)' = Has(h) \cup {a}, Wrote(h)' = Wrote(h)
    PROVE  Shared'
  <1> USE DEF LockAgent, Goto
  <1>1. CallsTyped /\ CallKept(h)
    BY DEF Shared
  <1>2. OnlyCall(h)
    BY <1>1 DEF OnlyCall, CallsTyped
  <1>3. CallsTyped'
    BY <1>1, <1>2, ArrivedKept DEF CallsTyped
  <1>4. Effect(h)
    BY <1>1, <1>2 DEF Effect, CanLock, CallsTyped
  <1>5. \A b \in Agents : lock'[b] = h <=> b \in Has(h)'
    BY <1>1 DEF CallKept, CallsTyped
  <1>6. CallKept(h)'
    BY <1>1, <1>3, <1>5 DEF CallKept, Answered, CallsTyped
  <1> QED
    BY <1>3, <1>4, <1>6, EffectKeeps

\* A call that writes a row whose key, if it is a client's, nobody has.
LEMMA WriteKeeps ==
    ASSUME Shared, NEW h \in Calls, pc[h] \notin {"idle", "done"},
           NEW label \in Labels \ {"idle", "done"}, NEW row, Write(h, row, label),
           row.key.kind # "client" \/ Free(h, row),
           UNCHANGED quote, MarketTyped', RoutedTo(h)', Covered(h)',
           Has(h)' = Has(h), Wrote(h)' = Wrote(h) \cup {row}
    PROVE  Shared'
  <1> USE DEF Write, Goto
  <1>1. CallsTyped /\ CallKept(h)
    BY DEF Shared
  <1>2. OnlyCall(h) /\ pend'[h] = pend[h] \cup {row}
    BY <1>1 DEF OnlyCall, CallsTyped
  <1>3. CallsTyped'
    <2>1. pend' = [g \in Calls |-> pend'[g]]
      BY <1>1 DEF CallsTyped
    <2> QED
      BY <1>1, <1>2, <2>1, ArrivedKept DEF CallsTyped
  <1>4. Effect(h)
    BY <1>1, <1>2 DEF Effect
  <1>5. CallKept(h)'
    BY <1>1, <1>2, <1>3 DEF CallKept, Answered, CallsTyped
  <1> QED
    BY <1>3, <1>4, <1>5, EffectKeeps

\* A call that has ended has nothing to rely on.
LEMMA DoneKept ==
    ASSUME Shared, NEW h \in Calls, pc[h] # "idle", EndTx(h), pc'[h] = "done", UNCHANGED req,
           resp'[h] \in {"ok", "duplicate"} /\ req[h].op \in ClientOps =>
             Taken(req[h].agent, Key("client", req[h].key))'
    PROVE  CallKept(h)'
  <1>1. RoutedTo(h)' /\ Covered(h)' /\ Answered(h)'
    BY DEF Shared, CallKept, RoutedTo, Covered, Answered, TransferLabels, BuyLabels, SellLabels,
           Claiming
  <1>2. Has(h)' = {} /\ Wrote(h)' = {}
    BY DEF Has, Wrote, RowsWritten, Locked, TradeLocked
  <1>3. pend'[h] = {}
    BY DEF EndTx, Shared, CallsTyped
  <1>4. \A a \in Agents : lock'[a] # h
    BY NoCallIsNotACall DEF EndTx
  <1> QED
    BY <1>1, <1>2, <1>3, <1>4 DEF CallKept

\* A call that is answered, and leaves nothing in the books.
LEMMA EndKeeps ==
    ASSUME Shared, NEW h \in Calls, pc[h] \notin {"idle", "done"}, NEW code \in Answers,
           EndTx(h), Answer(h, code), UNCHANGED <<ledger, balance, quote>>, MarketTyped',
           code \in {"ok", "duplicate"} /\ req[h].op \in ClientOps =>
             Taken(req[h].agent, Key("client", req[h].key))
    PROVE  Shared'
  <1> USE DEF Answer
  <1>1. CallsTyped
    BY DEF Shared
  <1>2. OnlyCall(h) /\ pend'[h] = {} /\ pc'[h] = "done" /\ resp'[h] = code
    BY <1>1 DEF OnlyCall, CallsTyped, EndTx
  <1>3. CallsTyped'
    <2>1. /\ pend' = [g \in Calls |-> pend'[g]]
          /\ lock' \in [Agents -> Calls \cup {NoCall}]
      BY <1>1 DEF CallsTyped, EndTx
    <2> QED
      BY <1>1, <1>2, <2>1, ArrivedKept DEF CallsTyped, Labels, CandyLabels
  <1>4. Effect(h)
    BY <1>2 DEF Effect, EndTx
  <1>5. CallKept(h)'
    BY <1>2, DoneKept DEF Taken
  <1> QED
    BY <1>3, <1>4, <1>5, EffectKeeps

\* A call that has locked and written nothing ends its transaction by leaving all
\* as it is.
LEMMA NothingToEnd ==
    ASSUME Shared, NEW h \in Calls, Has(h) = {}, Wrote(h) = {}, UNCHANGED <<lock, pend>>
    PROVE  EndTx(h)
  <1>1. CallsTyped /\ pend[h] = {} /\ \A a \in Agents : lock[a] # h
    BY DEF Shared, CallKept
  <1> QED
    BY <1>1 DEF EndTx, CallsTyped

\* What a call posts is what it has written, and integers.
LEMMA WrotePosts ==
    ASSUME Shared, NEW h \in Calls, NEW a \in Agents
    PROVE  Posted(h, a) \in Int
  <1>1. pend[h] = Wrote(h)
    BY DEF Shared, CallKept
  <1>2. ASSUME NEW r \in Wrote(h) PROVE r.delta \in Int
    <2> USE DEF Row
    <2>1. quote[h].price \in Nat
      BY DEF Shared, MarketTyped
    <2>2. CASE pc[h] \in {"fk", "credit", "commit"}
      <3>1. req[h].op \in Adjusts \cup {"transfer"}
        BY <2>2 DEF Shared, CallKept, RoutedTo, TransferLabels
      <3>2. req[h].n \in Int
        BY <2>2, <3>1, RequestTypes DEF Adjusts, TradeOps
      <3> QED
        BY <1>2, <2>2, <3>2 DEF Wrote, RowsWritten, CreditRow
    <2>3. CASE pc[h] \notin {"fk", "credit", "commit"}
      BY <1>2, <2>1, <2>3 DEF Wrote, RowsWritten
    <2> QED
      BY <2>2, <2>3
  <1> DEFINE mine == {r \in pend[h] : r.agent = a}
  <1>3. CASE mine = {}
    BY <1>3 DEF Posted
  <1>4. CASE mine # {}
    <2>1. (CHOOSE r \in mine : TRUE) \in mine
      BY <1>4
    <2>2. Posted(h, a) = (CHOOSE r \in mine : TRUE).delta
      BY <1>4 DEF Posted
    <2> QED
      BY <1>1, <1>2, <2>1, <2>2
  <1> QED
    BY <1>3, <1>4

\* A call that commits changes balances only of agents whose rows nobody else has.
LEMMA CommitKeeps ==
    ASSUME Shared, NEW h \in Calls, pc[h] \in {"fk", "commit", "commitBuy", "commitSell"},
           pc[h] = "fk" => CanLock(h, req[h].agent),
           Commit(h, {"ok", "error"}), UNCHANGED quote, MarketTyped'
    PROVE  Shared'
  <1> USE DEF Commit, PublishRows
  <1>1. CallsTyped /\ pend[h] = Wrote(h) /\ \A a \in Agents : lock[a] = h <=> a \in Has(h)
    BY DEF Shared, CallKept
  <1>2. PICK code \in {"ok", "error"} : Answer(h, code)
    OBVIOUS
  <1>3. OnlyCall(h) /\ pend'[h] = {} /\ pc'[h] = "done" /\ resp'[h] = code
    BY <1>1, <1>2 DEF OnlyCall, CallsTyped, EndTx, Answer
  <1>4. CallsTyped'
    <2>1. /\ pend' = [g \in Calls |-> pend'[g]]
          /\ lock' \in [Agents -> Calls \cup {NoCall}]
      BY <1>1 DEF CallsTyped, EndTx
    <2>2. balance' \in [Agents -> Int]
      BY <1>1, WrotePosts DEF CallsTyped
    <2>3. /\ pc' \in [Calls -> Labels] /\ resp' \in [Calls -> Answers]
          /\ req' \in [Calls -> Requests \cup {NoRequest}]
      BY <1>1, <1>2 DEF CallsTyped, Answer, Labels, CandyLabels, Answers, CandyAnswers
    <2> QED
      BY <1>3, <2>1, <2>2, <2>3, ArrivedKept DEF CallsTyped
  <1>5. ASSUME NEW a \in Agents, lock[a] \notin {NoCall, h} PROVE balance'[a] = balance[a]
    <2>1. \A r \in pend[h] : r.agent # a
      BY <1>1, <1>5, WroteRows DEF CanLock
    <2>2. balance'[a] = balance[a] + 0 /\ balance[a] \in Int
      BY <1>1, <2>1, PostedElsewhere DEF CallsTyped
    <2> QED
      BY <2>2
  <1>6. Effect(h)
    BY <1>2, <1>3, <1>5 DEF Effect, EndTx
  <1>7. req[h].op \in ClientOps => \E r \in pend[h] : r.agent = req[h].agent
                                                     /\ r.key = Key("client", req[h].key)
    <2>1. CASE pc[h] = "fk"
      <3>1. Row(h, req[h].agent, AdjustKey(h), req[h].n) \in pend[h]
        BY <1>1, <2>1 DEF Wrote, RowsWritten
      <3>2. req[h].op \in ClientOps => AdjustKey(h) = Key("client", req[h].key)
        BY <2>1 DEF AdjustKey, ClientOps, Shared, CallKept, RoutedTo, Adjusts
      <3> QED
        BY <3>1, <3>2 DEF Row
    <2>2. CASE pc[h] = "commit"
      BY <2>2 DEF ClientOps, Shared, CallKept, RoutedTo, TransferLabels
    <2>3. CASE pc[h] \in {"commitBuy", "commitSell"}
      <3>1. PICK n : Row(h, req[h].agent, TradeKey(h), n) \in pend[h]
        BY <1>1, <2>3 DEF Wrote
      <3> QED
        BY <3>1 DEF Row, TradeKey
    <2> QED
      BY <2>1, <2>2, <2>3
  <1>8. CallKept(h)'
    <2>1. req[h].op \in ClientOps => Taken(req[h].agent, Key("client", req[h].key))'
      BY <1>2, <1>7 DEF Taken, Answer
    <2>2. UNCHANGED req
      BY <1>2 DEF Answer
    <2> QED
      BY <1>3, <2>1, <2>2, DoneKept
  <1> QED
    BY <1>4, <1>6, <1>8, EffectKeeps

-----------------------------------------------------------------------------
(* Init => Shared, and every step keeps it. *)

\* The initial states satisfy Shared: nothing has arrived.
LEMMA InitShared == WonkaInit => Shared
  <1> SUFFICES ASSUME WonkaInit PROVE Shared
    OBVIOUS
  <1> USE NoCallIsNotACall DEF WonkaInit, CandyInit, TradeInit, LedgerInit
  <1>1. CallsTyped
    <2>1. Arrived = {}
      BY DEF Arrived
    <2> QED
      BY <2>1, FS_EmptySet, SeedIsBalance
         DEF CallsTyped, Labels, Answers, CandyLabels, CandyAnswers
  <1>2. MarketTyped
    <2>1. \A i \in DOMAIN FirstBatch : i \in Items /\ FirstBatch[i] \in Nat
      BY BatchesArePrices DEF Price
    <2>2. \A l \in listings : l.item \in Items /\ l.price \in Nat
      BY <2>1 DEF Listing
    <2>3. history \in [Items -> Nat]
      BY <2>1
    <2>4. \A g \in goods : g.item \in Items
      BY StockIsUnsold
    <2>5. quote \in [Calls -> [item: Items \cup {NoRequest}, price: Nat]]
      BY DEF NoQuote
    <2> QED
      BY <2>2, <2>3, <2>4, <2>5 DEF MarketTyped
  <1>3. ASSUME NEW h \in Calls PROVE CallKept(h)
    <2>1. RoutedTo(h) /\ Covered(h) /\ Answered(h)
      BY DEF RoutedTo, Covered, Answered, TransferLabels, BuyLabels, SellLabels, Claiming
    <2>2. Has(h) = {} /\ Wrote(h) = {}
      BY DEF Has, Wrote, RowsWritten, Locked, TradeLocked
    <2> QED
      BY <2>1, <2>2 DEF CallKept
  <1>4. \A r \in ledger : r.by = NoCall /\ r.key.kind = "seed"
    BY DEF SeedRow, Row, Key
  <1> QED
    BY <1>1, <1>2, <1>3, <1>4 DEF Shared, RowsEnd, OneRow

\* A call that arrives.
LEMMA ReceiveKeeps ==
    ASSUME Shared, NEW h \in Calls, NEW offered,
           offered = CandyRequests \/ offered = TradeRequests,
           Receive(h, offered), UNCHANGED quote, MarketTyped'
    PROVE  Shared'
  <1> USE DEF Receive, dbVars
  <1>1. CallsTyped /\ CallKept(h) /\ pc[h] = "idle" /\ resp[h] = "none"
    BY DEF Shared, CallKept, Answered
  <1>2. PICK r \in offered :
          /\ req' = [req EXCEPT ![h] = r]
          /\ \/ pc' = [pc EXCEPT ![h] = "done"] /\ resp' = [resp EXCEPT ![h] = "unauthorized"]
             \/ pc' = [pc EXCEPT ![h] = "done"] /\ resp' = [resp EXCEPT ![h] = "invalid"]
             \/ pc' = [pc EXCEPT ![h] = Entry(r)] /\ UNCHANGED resp
    OBVIOUS
  <1>3. r \in Requests /\ r \in CandyRequests \cup TradeRequests
    BY DEF CandyRequests, TradeRequests
  <1>4. /\ Entry(r) \in {"resolve", "idem", "begin"}
        /\ Entry(r) = "resolve" <=> r.op = "transfer"
        /\ Entry(r) = "idem" <=> r.op \in TradeOps
    BY DEF Entry, TradeOps
  <1>5. OnlyCall(h) /\ req'[h] = r /\ pc'[h] \in {"done", Entry(r)}
    BY <1>1, <1>2 DEF OnlyCall, CallsTyped
  <1>6. resp'[h] \in {"none", "unauthorized", "invalid"} /\ (pc'[h] # "done" => resp'[h] = "none")
    BY <1>1, <1>2, <1>4 DEF CallsTyped
  <1>7. CallsTyped'
    <2>1. pc' \in [Calls -> Labels] /\ resp' \in [Calls -> Answers]
      BY <1>1, <1>2, <1>4
         DEF CallsTyped, Labels, CandyLabels, TransferLabels, TradeLabels, Answers, CandyAnswers
    <2>2. req' \in [Calls -> Requests \cup {NoRequest}]
      BY <1>1, <1>2, <1>3 DEF CallsTyped
    <2> QED
      BY <1>1, <1>5, <2>1, <2>2, ArrivedKept DEF CallsTyped
  <1>8. Effect(h)
    BY <1>1, <1>5 DEF Effect
  <1>9. CallKept(h)'
    <2>1. RoutedTo(h)'
      BY <1>3, <1>4, <1>5
         DEF RoutedTo, TransferLabels, BuyLabels, SellLabels, TradeOps
    <2>2. Covered(h)' /\ Answered(h)'
      BY <1>4, <1>5, <1>6 DEF Covered, Answered, Claiming
    <2>3. /\ Has(h) = {} /\ Has(h)' = {}
          /\ Wrote(h) = {} /\ Wrote(h)' = {}
      BY <1>1, <1>4, <1>5 DEF Has, Wrote, RowsWritten, Locked, TradeLocked
    <2> QED
      BY <1>1, <2>1, <2>2, <2>3 DEF CallKept
  <1> QED
    BY <1>7, <1>8, <1>9, EffectKeeps

\* A handler that takes a connection for its first waiting statement.
LEMMA BeginKeeps ==
    ASSUME Shared, NEW h \in Calls, Begin(h), UNCHANGED quote, MarketTyped'
    PROVE  Shared'
  <1> USE DEF Begin
  <1>1. CallsTyped /\ RoutedTo(h)
    BY DEF Shared, CallKept
  <1> DEFINE label == FirstStatement(req[h])
  <1>2. /\ label \in {"lock1", "lockBuyer", "lockSeller", "post", "patch"}
        /\ label = "lock1" <=> req[h].op = "transfer"
        /\ label = "lockBuyer" <=> req[h].op = "buy"
        /\ label = "lockSeller" <=> req[h].op = "sell"
        /\ label = "post" <=> req[h].op \in Adjusts
    BY DEF FirstStatement, Adjusts
  <1>3. label = "patch" => req[h].op \in {"enable", "disable"}
    BY <1>2, RequestTypes DEF CandyOps, TradeOps, Adjusts
  <1>4. pc'[h] = label /\ req' = req
    BY <1>1 DEF Goto, CallsTyped
  <1>5. RoutedTo(h)' /\ Covered(h)'
    BY <1>1, <1>2, <1>3, <1>4
       DEF RoutedTo, Covered, Claiming, TransferLabels, BuyLabels, SellLabels
  <1>6. Has(h) = {} /\ Has(h)' = {} /\ Wrote(h) = {} /\ Wrote(h)' = {}
    BY <1>2, <1>4 DEF Has, Wrote, RowsWritten, Locked, TradeLocked
  <1>7. label \in Labels \ {"idle", "done"}
    BY <1>2 DEF Labels, CandyLabels, TransferLabels, TradeLabels
  <1> HIDE DEF label
  <1> QED
    BY <1>5, <1>6, <1>7, GotoKeeps DEF dbVars, OnlyQuote, label

-----------------------------------------------------------------------------
(* The steps of the ledger. *)

\* Enabling or disabling an agent.
LEMMA PatchKeeps ==
    ASSUME Shared, NEW h \in Calls, PatchAgent(h), UNCHANGED quote, MarketTyped'
    PROVE  Shared'
  <1> USE DEF PatchAgent
  <1>1. PICK code \in {"ok", "notfound"} : Answer(h, code)
    OBVIOUS
  <1>2. Has(h) = {} /\ Wrote(h) = {}
    BY DEF Has, Wrote, RowsWritten, Locked, TradeLocked
  <1>3. EndTx(h)
    BY <1>2, NothingToEnd
  <1>4. req[h].op \notin ClientOps
    BY DEF Shared, CallKept, RoutedTo, ClientOps
  <1> QED
    BY <1>1, <1>3, <1>4, EndKeeps DEF Answers, CandyAnswers

\* An adjust: of its key nobody has a row when it writes one.
LEMMA AdjustKeeps ==
    ASSUME Shared, NEW h \in Calls, AdjustInsert(h) \/ AdjustCommit(h),
           UNCHANGED quote, MarketTyped'
    PROVE  Shared'
  <1>0. CallsTyped /\ RoutedTo(h)
    BY DEF Shared, CallKept
  <1>1. CASE AdjustCommit(h)
    BY <1>1, CommitKeeps DEF AdjustCommit
  <1>2. CASE AdjustInsert(h) /\ Duplicate(h)
    <2>1. Rollback(h, "duplicate") /\ pc[h] = "post"
      BY <1>2 DEF AdjustInsert
    <2>2. req[h].op \in ClientOps => AdjustKey(h) = Key("client", req[h].key)
      BY <1>0, <2>1 DEF RoutedTo, ClientOps, Adjusts, AdjustKey
    <2> QED
      BY <1>2, <2>1, <2>2, EndKeeps DEF Rollback, Duplicate, Answers, CandyAnswers
  <1>3. CASE AdjustInsert(h) /\ ~Duplicate(h)
    <2> DEFINE row == Row(h, req[h].agent, AdjustKey(h), req[h].n)
    <2>1. Write(h, row, "fk") /\ pc[h] = "post" /\ Free(h, row)
      BY <1>3 DEF AdjustInsert, Duplicate, Free, Row
    <2>2. pc'[h] = "fk" /\ req' = req
      BY <1>0, <2>1 DEF Write, Goto, CallsTyped
    <2>3. RoutedTo(h)' /\ Covered(h)'
      BY <1>0, <2>1, <2>2 DEF RoutedTo, Covered, Claiming, TransferLabels, BuyLabels, SellLabels
    <2>4. Has(h) = {} /\ Has(h)' = {} /\ Wrote(h) = {}
      BY <2>1, <2>2 DEF Has, Wrote, RowsWritten, Locked, TradeLocked
    <2>5. Wrote(h)' = {row}
      BY <2>2 DEF Wrote, RowsWritten, AdjustKey
    <2> HIDE DEF row
    <2> QED
      BY <2>1, <2>3, <2>4, <2>5, WriteKeeps DEF Labels, CandyLabels
  <1> QED
    BY <1>1, <1>2, <1>3

\* A transfer that looks up its payee, and goes on with another agent than the payer.
LEMMA ResolveKeeps ==
    ASSUME Shared, NEW h \in Calls, TransferResolve(h), UNCHANGED quote, MarketTyped'
    PROVE  Shared'
  <1> USE DEF TransferResolve
  <1>0. CallsTyped /\ RoutedTo(h) /\ req[h].op = "transfer"
    BY DEF Shared, CallKept, RoutedTo, TransferLabels
  <1>1. Has(h) = {} /\ Wrote(h) = {}
    BY DEF Has, Wrote, RowsWritten, Locked, TradeLocked
  <1>2. ASSUME NEW code \in {"notfound", "self"}, Answer(h, code) PROVE Shared'
    BY <1>1, <1>2, NothingToEnd, EndKeeps DEF Answers, CandyAnswers
  <1>3. CASE Goto(h, "begin") /\ req[h].peer # req[h].agent
    <2>1. pc'[h] = "begin" /\ req' = req
      BY <1>0, <1>3 DEF Goto, CallsTyped
    <2>2. RoutedTo(h)' /\ Covered(h)'
      BY <1>0, <1>3, <2>1 DEF RoutedTo, Covered, Claiming, TransferLabels, BuyLabels, SellLabels
    <2>3. Has(h)' = {} /\ Wrote(h)' = {}
      BY <2>1 DEF Has, Wrote, RowsWritten, Locked, TradeLocked
    <2> QED
      BY <1>1, <1>3, <2>2, <2>3, GotoKeeps DEF Labels, CandyLabels, OnlyQuote
  <1> QED
    BY <1>2, <1>3

\* A transfer that locks its two rows one after the other.
LEMMA TransferLockKeeps ==
    ASSUME Shared, NEW h \in Calls, TransferLock1(h) \/ TransferLock2(h),
           UNCHANGED quote, MarketTyped'
    PROVE  Shared'
  <1>0. /\ CallsTyped /\ RoutedTo(h) /\ pc[h] \in {"lock1", "lock2"}
        /\ req[h].op = "transfer"
    BY DEF Shared, CallKept, RoutedTo, TransferLabels, TransferLock1, TransferLock2
  <1>1. LockOrder(h)[1] \in Agents /\ LockOrder(h)[2] \in Agents
    BY <1>0, RequestTypes, LockOrderRows DEF TradeOps
  <1>2. CASE TransferLock1(h)
    <2>1. LockAgent(h, LockOrder(h)[1], "lock2") /\ pc[h] = "lock1"
      BY <1>2 DEF TransferLock1
    <2>2. pc'[h] = "lock2" /\ req' = req
      BY <1>0, <2>1 DEF LockAgent, Goto, CallsTyped
    <2>3. RoutedTo(h)' /\ Covered(h)'
      BY <1>0, <2>2 DEF RoutedTo, Covered, Claiming, TransferLabels, BuyLabels, SellLabels
    <2>4. Has(h) = {} /\ Has(h)' = {LockOrder(h)[1]} /\ Wrote(h) = {} /\ Wrote(h)' = {}
      BY <2>1, <2>2 DEF Has, Wrote, RowsWritten, Locked, TradeLocked, LockOrder
    <2> QED
      BY <1>1, <2>1, <2>3, <2>4, LockKeeps DEF Labels, CandyLabels, TransferLabels
  <1>3. CASE TransferLock2(h)
    <2>1. LockAgent(h, LockOrder(h)[2], "check") /\ pc[h] = "lock2"
      BY <1>3 DEF TransferLock2
    <2>2. pc'[h] = "check" /\ req' = req
      BY <1>0, <2>1 DEF LockAgent, Goto, CallsTyped
    <2>3. RoutedTo(h)' /\ Covered(h)'
      BY <1>0, <2>2 DEF RoutedTo, Covered, Claiming, TransferLabels, BuyLabels, SellLabels
    <2>4. Wrote(h) = {} /\ Wrote(h)' = {}
      BY <2>1, <2>2 DEF Wrote, RowsWritten
    <2>5. Has(h) = {LockOrder(h)[1]} /\ Has(h)' = {req[h].agent, req[h].peer}
      BY <2>1, <2>2 DEF Has, Locked, TradeLocked
    <2>6. Has(h)' = Has(h) \cup {LockOrder(h)[2]}
      BY <2>5, LockOrderRows
    <2> QED
      BY <1>1, <2>1, <2>3, <2>4, <2>6, LockKeeps DEF Labels, CandyLabels, TransferLabels
  <1> QED
    BY <1>2, <1>3

\* A transfer under both locks: the balance it checks covers its amount to the end.
LEMMA TransferKeeps ==
    ASSUME Shared, NEW h \in Calls, TransferCheck(h) \/ TransferInsert(h) \/ TransferCommit(h),
           UNCHANGED quote, MarketTyped'
    PROVE  Shared'
  <1>0. /\ CallsTyped /\ RoutedTo(h) /\ Covered(h) /\ pc[h] \in {"check", "insert", "commit"}
        /\ req[h].op = "transfer" /\ req[h].agent \in Agents /\ req[h].n \in Int
    <2>1. /\ CallsTyped /\ RoutedTo(h) /\ Covered(h) /\ pc[h] \in {"check", "insert", "commit"}
          /\ req[h].op = "transfer"
      BY DEF Shared, CallKept, RoutedTo, TransferLabels, TransferCheck, TransferInsert,
             TransferCommit
    <2> QED
      BY <2>1, RequestTypes DEF TradeOps
  <1>1. CASE TransferCommit(h)
    BY <1>1, CommitKeeps DEF TransferCommit
  <1>2. ASSUME NEW code \in {"insufficient", "duplicate"}, Rollback(h, code) PROVE Shared'
    BY <1>0, <1>2, EndKeeps DEF Rollback, Answers, CandyAnswers, ClientOps
  <1>3. ASSUME NEW label \in {"insert", "debit"}, Goto(h, label), UNCHANGED dbVars,
               pc[h] \in {"check", "insert"}, balance[req[h].agent] >= req[h].n
        PROVE  Shared'
    <2>1. pc'[h] = label /\ req' = req
      BY <1>0, <1>3 DEF Goto, CallsTyped
    <2>2. RoutedTo(h)'
      BY <1>0, <1>3, <2>1 DEF RoutedTo, TransferLabels, BuyLabels, SellLabels
    <2>3. Covered(h)'
      BY <1>3, <2>1 DEF Covered, dbVars
    <2>4. Has(h)' = Has(h)
      BY <1>3, <2>1 DEF Has, Locked, TradeLocked
    <2>5. Wrote(h)' = {} /\ Wrote(h) = {}
      BY <1>3, <2>1 DEF Wrote, RowsWritten
    <2> QED
      BY <1>3, <2>2, <2>3, <2>4, <2>5, GotoKeeps
         DEF Labels, CandyLabels, TransferLabels, OnlyQuote, dbVars
  <1>4. CASE TransferCheck(h)
    BY <1>2, <1>3, <1>4 DEF TransferCheck, Covers
  <1>5. CASE TransferInsert(h)
    BY <1>0, <1>2, <1>3, <1>5 DEF TransferInsert, Covered
  <1> QED
    BY <1>1, <1>4, <1>5

\* The rows of a transfer have keys of its own.
LEMMA TransferWriteKeeps ==
    ASSUME Shared, NEW h \in Calls, TransferDebit(h) \/ TransferCredit(h),
           UNCHANGED quote, MarketTyped'
    PROVE  Shared'
  <1> DEFINE out == Row(h, req[h].agent, Key("out", h), -req[h].n)
  <1>0. /\ CallsTyped /\ RoutedTo(h) /\ Covered(h) /\ pc[h] \in {"debit", "credit"}
    BY DEF Shared, CallKept, TransferDebit, TransferCredit
  <1>1. \/ pc[h] = "debit" /\ Write(h, out, "credit")
        \/ pc[h] = "credit" /\ Write(h, CreditRow(h), "commit")
    BY DEF TransferDebit, TransferCredit
  <1>2. out.key.kind = "out" /\ CreditRow(h).key.kind = "in"
    BY DEF Row, Key, CreditRow
  <1>3. ASSUME NEW label \in {"credit", "commit"}, pc'[h] = label, UNCHANGED <<req, balance>>
        PROVE  RoutedTo(h)' /\ Covered(h)' /\ Has(h)' = Has(h)
    <2>1. RoutedTo(h)' /\ Covered(h)'
      BY <1>0, <1>3 DEF RoutedTo, Covered, Claiming, TransferLabels, BuyLabels, SellLabels
    <2>2. Has(h)' = Has(h)
      BY <1>0, <1>3 DEF Has, Locked, TradeLocked
    <2> QED
      BY <2>1, <2>2
  <1>4. CASE pc[h] = "debit" /\ Write(h, out, "credit")
    <2>1. pc'[h] = "credit" /\ UNCHANGED <<req, balance>>
      BY <1>0, <1>4 DEF Write, Goto, CallsTyped
    <2>2. Wrote(h) = {} /\ Wrote(h)' = {out}
      BY <1>4, <2>1 DEF Wrote, RowsWritten
    <2> HIDE DEF out
    <2> QED
      BY <1>2, <1>3, <1>4, <2>1, <2>2, WriteKeeps DEF Labels, CandyLabels, TransferLabels
  <1>5. CASE pc[h] = "credit" /\ Write(h, CreditRow(h), "commit")
    <2>1. pc'[h] = "commit" /\ UNCHANGED <<req, balance>>
      BY <1>0, <1>5 DEF Write, Goto, CallsTyped
    <2>2. CreditRow(h)' = CreditRow(h)
      BY <2>1 DEF CreditRow
    <2>3. Wrote(h) = {out} /\ Wrote(h)' = {out, CreditRow(h)}
      BY <1>5, <2>1, <2>2 DEF Wrote, RowsWritten
    <2> HIDE DEF out
    <2> QED
      BY <1>2, <1>3, <1>5, <2>1, <2>3, WriteKeeps DEF Labels, CandyLabels, TransferLabels
  <1> QED
    BY <1>1, <1>4, <1>5

\* A statement of the ledger that fails.
LEMMA AbortKeeps ==
    ASSUME Shared, NEW h \in Calls, Abort(h), UNCHANGED quote, MarketTyped'
    PROVE  Shared'
  <1>1. /\ pc[h] \notin {"idle", "done"} /\ Rollback(h, FailAnswer(h))
    BY DEF Abort, Open
  <1>2. FailAnswer(h) \in {"notfound", "insufficient", "duplicate", "error"}
    BY DEF FailAnswer
  <1>3. FailAnswer(h) = "duplicate" => pc[h] = "insert"
    BY DEF FailAnswer
  <1>4. pc[h] = "insert" => req[h].op = "transfer"
    BY DEF Shared, CallKept, RoutedTo, TransferLabels
  <1> QED
    BY <1>1, <1>2, <1>3, <1>4, EndKeeps DEF Rollback, Answers, CandyAnswers, ClientOps

\* Every step of a call of the ledger.
LEMMA CandyKeeps ==
    ASSUME Shared, NEW h \in Calls, CandyCall(h), UNCHANGED <<marketVars, tradeVars>>
    PROVE  Shared'
  <1>1. MarketTyped' /\ UNCHANGED quote
    BY DEF Shared, MarketTyped, marketVars, tradeVars
  <1>2. CASE ReceiveCandy(h)
    BY <1>1, <1>2, ReceiveKeeps DEF ReceiveCandy
  <1>3. CASE BeginCandy(h)
    BY <1>1, <1>3, BeginKeeps DEF BeginCandy
  <1>4. CASE Patch(h)
    BY <1>1, <1>4, PatchKeeps DEF Patch
  <1> QED
    BY <1>1, <1>2, <1>3, <1>4, AdjustKeeps, ResolveKeeps, TransferLockKeeps, TransferKeeps,
       TransferWriteKeeps, AbortKeeps DEF CandyCall, Handle, Transfer

-----------------------------------------------------------------------------
(* The steps of the market. *)

\* What a call reads from the market is an item and a price.
LEMMA QuoteKept ==
    ASSUME MarketTyped, NEW h \in Calls, NEW i \in Items, NEW p \in Nat,
           \/ quote' = [quote EXCEPT ![h] = [item |-> i, price |-> p]]
           \/ quote' = [quote EXCEPT ![h].price = p] /\ quote[h].item = i,
           UNCHANGED <<marketVars, goods>>
    PROVE  MarketTyped' /\ OnlyQuote(h) /\ quote'[h].item = i /\ quote'[h].price = p
  <1> USE DEF MarketTyped
  <1>1. quote[h] \in [item: Items \cup {NoRequest}, price: Nat]
    OBVIOUS
  <1>2. quote' = [quote EXCEPT ![h] = [item |-> i, price |-> p]]
    BY <1>1
  <1>3. quote' \in [Calls -> [item: Items \cup {NoRequest}, price: Nat]]
    BY <1>2
  <1>4. quote'[h] = [item |-> i, price |-> p] /\ OnlyQuote(h)
    BY <1>2 DEF OnlyQuote
  <1> QED
    BY <1>3, <1>4 DEF marketVars

\* A trade that is answered, or goes on, and has locked nothing.
LEMMA IdemKeeps ==
    ASSUME Shared, NEW h \in Calls, TradeIdem(h) \/ BuyListing(h)
    PROVE  Shared'
  <1>0. CallsTyped /\ MarketTyped /\ RoutedTo(h) /\ pc[h] \in {"idem", "listing"}
    BY DEF Shared, CallKept, TradeIdem, BuyListing
  <1>1. Has(h) = {} /\ Wrote(h) = {}
    BY <1>0 DEF Has, Wrote, RowsWritten, Locked, TradeLocked
  <1>2. ASSUME NEW code \in {"duplicate", "gone"}, Answer(h, code),
               UNCHANGED <<dbVars, marketVars, tradeVars>>,
               code = "duplicate" => Taken(req[h].agent, TradeKey(h))
        PROVE  Shared'
    <2>1. MarketTyped'
      BY <1>0, <1>2 DEF MarketTyped, marketVars, tradeVars
    <2>2. EndTx(h)
      BY <1>1, <1>2, NothingToEnd DEF dbVars
    <2> QED
      BY <1>0, <1>2, <2>1, <2>2, EndKeeps
         DEF Answers, TradeAnswers, TradeKey, dbVars, tradeVars
  <1>3. ASSUME NEW label \in {"listing", "begin"}, Goto(h, label), UNCHANGED dbVars, OnlyQuote(h),
               MarketTyped', req[h].op \in TradeOps,
               label = "listing" => req[h].op = "buy",
               label = "begin" => req[h].op = "sell" \/ quote'[h].item \in Items
        PROVE  Shared'
    <2>1. pc'[h] = label /\ req' = req
      BY <1>0, <1>3 DEF Goto, CallsTyped
    <2>2. RoutedTo(h)' /\ Covered(h)'
      BY <1>0, <1>3, <2>1
         DEF RoutedTo, Covered, Claiming, TransferLabels, BuyLabels, SellLabels, TradeOps
    <2>3. Has(h)' = {} /\ Wrote(h)' = {}
      BY <2>1 DEF Has, Wrote, RowsWritten, Locked, TradeLocked
    <2> QED
      BY <1>0, <1>1, <1>3, <2>2, <2>3, GotoKeeps DEF Labels, TradeLabels, dbVars
  <1>4. CASE TradeIdem(h)
    <2>1. req[h].op \in TradeOps /\ UNCHANGED <<dbVars, marketVars, tradeVars>>
      BY <1>0, <1>4 DEF TradeIdem, RoutedTo
    <2>2. MarketTyped' /\ OnlyQuote(h)
      BY <1>0, <2>1 DEF MarketTyped, marketVars, tradeVars, OnlyQuote
    <2>3. \/ Taken(req[h].agent, TradeKey(h)) /\ Answer(h, "duplicate")
          \/ Goto(h, "listing") /\ req[h].op = "buy"
          \/ Goto(h, "begin") /\ req[h].op = "sell"
      BY <1>4, <2>1 DEF TradeIdem, TradeOps
    <2> QED
      BY <1>2, <1>3, <2>1, <2>2, <2>3
  <1>5. CASE BuyListing(h)
    <2>1. req[h].op = "buy" /\ UNCHANGED <<dbVars, marketVars, goods, arrived>>
      BY <1>0, <1>5 DEF BuyListing, RoutedTo, BuyLabels
    <2>2. CASE Answer(h, "gone") /\ UNCHANGED quote
      BY <1>2, <2>1, <2>2 DEF tradeVars
    <2>3. ASSUME NEW l \in listings, Goto(h, "begin"),
                 quote' = [quote EXCEPT ![h] = [item |-> l.item, price |-> l.price]]
          PROVE  Shared'
      <3>1. l.item \in Items /\ l.price \in Nat
        BY <1>0 DEF MarketTyped
      <3>2. MarketTyped' /\ OnlyQuote(h) /\ quote'[h].item \in Items
        BY <1>0, <2>1, <2>3, <3>1, QuoteKept
      <3> QED
        BY <1>3, <2>1, <2>3, <3>2 DEF TradeOps
    <2> QED
      BY <1>5, <2>2, <2>3 DEF BuyListing
  <1> QED
    BY <1>4, <1>5

\* A trade that locks its agent's row.
LEMMA LockTraderKeeps ==
    ASSUME Shared, NEW h \in Calls, LockTrader(h), MarketTyped', UNCHANGED quote
    PROVE  Shared'
  <1> DEFINE label == IF pc[h] = "lockBuyer" THEN "checkBuyer" ELSE "find"
  <1>0. /\ CallsTyped /\ RoutedTo(h) /\ pc[h] \in {"lockBuyer", "lockSeller"}
        /\ LockAgent(h, req[h].agent, label) /\ req[h].agent \in Agents
    BY RequestTypes DEF Shared, CallKept, LockTrader
  <1>1. pc'[h] = label /\ req' = req
    BY <1>0 DEF LockAgent, Goto, CallsTyped
  <1>2. RoutedTo(h)' /\ Covered(h)'
    BY <1>0, <1>1 DEF RoutedTo, Covered, Claiming, TransferLabels, BuyLabels, SellLabels
  <1>3. Has(h) = {} /\ Has(h)' = {req[h].agent} /\ Wrote(h) = {} /\ Wrote(h)' = {}
    BY <1>0, <1>1 DEF Has, Wrote, RowsWritten, Locked, TradeLocked
  <1>4. label \in Labels \ {"idle", "done"}
    BY DEF Labels, TradeLabels
  <1> HIDE DEF label
  <1> QED
    BY <1>0, <1>2, <1>3, <1>4, LockKeeps

\* A trade under its agent's lock goes on to its next statement.
LEMMA TradeGoes ==
    ASSUME Shared, NEW h \in Calls, NEW label \in TradeLocked, Goto(h, label), UNCHANGED dbVars,
           OnlyQuote(h), MarketTyped', pc[h] \in TradeLocked,
           Wrote(h)' = Wrote(h), Covered(h)',
           label \in BuyLabels => pc[h] \in BuyLabels /\ UNCHANGED quote,
           label \in SellLabels => pc[h] \in SellLabels,
           label \in {"price", "pastPrice"} => quote'[h].item \in Items
    PROVE  Shared'
  <1>0. CallsTyped /\ RoutedTo(h)
    BY DEF Shared, CallKept
  <1>1. pc'[h] = label /\ req' = req
    BY <1>0 DEF Goto, CallsTyped
  <1>2. RoutedTo(h)'
    BY <1>0, <1>1 DEF RoutedTo, TransferLabels, BuyLabels, SellLabels, TradeLocked
  <1>3. Has(h)' = Has(h)
    BY <1>1 DEF Has, Locked, TradeLocked
  <1>4. label \in Labels \ {"idle", "done"} /\ pc[h] \notin {"idle", "done"}
    BY DEF Labels, TradeLabels, TradeLocked
  <1> QED
    BY <1>2, <1>3, <1>4, GotoKeeps DEF dbVars

\* A buyer whose balance covers the price, and the good that either trade touches.
LEMMA CheckKeeps ==
    ASSUME Shared, NEW h \in Calls, BuyCheck(h) \/ TouchGoods(h), MarketTyped', UNCHANGED quote
    PROVE  Shared'
  <1>0. CallsTyped /\ Covered(h)
    BY DEF Shared, CallKept
  <1>1. ASSUME pc[h] = "checkBuyer", Rollback(h, "insufficient") PROVE Shared'
    BY <1>1, EndKeeps DEF Rollback, Answers, CandyAnswers
  <1>2. ASSUME pc[h] = "checkBuyer", Goto(h, "debitBuyer"), UNCHANGED dbVars,
               balance[req[h].agent] >= quote[h].price
        PROVE  Shared'
    <2>1. pc'[h] = "debitBuyer" /\ req' = req
      BY <1>0, <1>2 DEF Goto, CallsTyped
    <2>2. Covered(h)' /\ Wrote(h) = {} /\ Wrote(h)' = {}
      BY <1>2, <2>1 DEF Covered, Claiming, Wrote, RowsWritten, dbVars
    <2> QED
      BY <1>2, <2>2, TradeGoes DEF TradeLocked, BuyLabels, SellLabels, OnlyQuote
  <1>3. ASSUME pc[h] = "stock", Goto(h, "commitBuy"), UNCHANGED dbVars PROVE Shared'
    <2>1. pc'[h] = "commitBuy" /\ req' = req
      BY <1>0, <1>3 DEF Goto, CallsTyped
    <2>2. Covered(h)'
      BY <1>0, <1>3, <2>1 DEF Covered, Claiming, dbVars
    <2>3. Wrote(h)' = Wrote(h)
      BY <1>3, <2>1 DEF Wrote, TradeKey
    <2> QED
      BY <1>3, <2>2, <2>3, TradeGoes DEF TradeLocked, BuyLabels, SellLabels, OnlyQuote
  <1>4. ASSUME pc[h] = "mark", Goto(h, "commitSell"), UNCHANGED dbVars PROVE Shared'
    <2>1. pc'[h] = "commitSell" /\ req' = req
      BY <1>0, <1>4 DEF Goto, CallsTyped
    <2>2. Covered(h)'
      BY <2>1 DEF Covered, Claiming
    <2>3. Wrote(h)' = Wrote(h)
      BY <1>4, <2>1 DEF Wrote, TradeKey
    <2> QED
      BY <1>4, <2>2, <2>3, TradeGoes DEF TradeLocked, BuyLabels, SellLabels, OnlyQuote
  <1> QED
    BY <1>1, <1>2, <1>3, <1>4 DEF BuyCheck, TouchGoods

\* A trade writes its row when nobody has the key.
LEMMA PostKeeps ==
    ASSUME Shared, NEW h \in Calls, BuyDebit(h) \/ SellCredit(h), MarketTyped', UNCHANGED quote
    PROVE  Shared'
  <1>0. CallsTyped /\ RoutedTo(h) /\ Covered(h) /\ pc[h] \in {"debitBuyer", "creditSeller"}
    BY DEF Shared, CallKept, BuyDebit, SellCredit
  <1> DEFINE delta == IF pc[h] = "debitBuyer" THEN -quote[h].price ELSE quote[h].price
             label == IF pc[h] = "debitBuyer" THEN "stock" ELSE "mark"
             row   == Row(h, req[h].agent, TradeKey(h), delta)
  <1>1. PostTrade(h, delta, label)
    BY <1>0 DEF BuyDebit, SellCredit
  <1>2. CASE Rollback(h, "error")
    BY <1>0, <1>2, EndKeeps DEF Rollback, Answers, CandyAnswers
  <1>3. CASE Write(h, row, label) /\ Free(h, row)
    <2>1. pc'[h] = label /\ req' = req /\ balance' = balance
      BY <1>0, <1>3 DEF Write, Goto, CallsTyped
    <2>2. RoutedTo(h)'
      BY <1>0, <2>1 DEF RoutedTo, TransferLabels, BuyLabels, SellLabels
    <2>3. Covered(h)'
      BY <1>0, <2>1 DEF Covered, Claiming
    <2>4. Has(h)' = Has(h)
      BY <1>0, <2>1 DEF Has, Locked, TradeLocked
    <2>5. Wrote(h) = {} /\ Wrote(h)' = {row}
      BY <1>0, <2>1 DEF Wrote, RowsWritten, TradeKey
    <2>6. label \in Labels \ {"idle", "done"}
      BY DEF Labels, TradeLabels
    <2> HIDE DEF row, label, delta
    <2> QED
      BY <1>0, <1>3, <2>2, <2>3, <2>4, <2>5, <2>6, WriteKeeps
  <1>4. Rollback(h, "error") \/ (Write(h, row, label) /\ Free(h, row))
    BY <1>1 DEF PostTrade, Free, Row
  <1> QED
    BY <1>2, <1>3, <1>4

\* A seller that finds its good, unsold, and then a price.
LEMMA SellKeeps ==
    ASSUME Shared, NEW h \in Calls, SellFind(h) \/ SellPrice(h) \/ SellPastPrice(h)
    PROVE  Shared'
  <1>0. CallsTyped /\ MarketTyped /\ RoutedTo(h) /\ pc[h] \in {"find", "price", "pastPrice"}
    BY DEF Shared, CallKept, SellFind, SellPrice, SellPastPrice
  <1>1. UNCHANGED <<marketVars, goods, arrived>>
    BY DEF SellFind, SellPrice, SellPastPrice
  <1>2. ASSUME NEW label \in {"price", "pastPrice", "creditSeller"}, Goto(h, label),
               UNCHANGED dbVars, MarketTyped', OnlyQuote(h), quote'[h].item \in Items
        PROVE  Shared'
    <2>1. pc'[h] = label /\ req' = req
      BY <1>0, <1>2 DEF Goto, CallsTyped
    <2>2. Covered(h)' /\ Wrote(h) = {} /\ Wrote(h)' = {}
      BY <1>0, <2>1 DEF Covered, Claiming, Wrote, RowsWritten
    <2> QED
      BY <1>0, <1>2, <2>2, TradeGoes DEF TradeLocked, BuyLabels, SellLabels
  <1>3. ASSUME NEW code \in {"gone", "sold"}, Rollback(h, code), UNCHANGED quote PROVE Shared'
    <2>1. MarketTyped'
      BY <1>0, <1>1, <1>3 DEF MarketTyped, marketVars
    <2> QED
      BY <1>0, <1>3, <2>1, EndKeeps DEF Rollback, Answers, TradeAnswers
  <1>4. ASSUME NEW label \in {"price", "creditSeller"}, NEW i \in Items, NEW p \in Nat,
               \/ quote' = [quote EXCEPT ![h] = [item |-> i, price |-> p]]
               \/ quote' = [quote EXCEPT ![h].price = p] /\ quote[h].item = i,
               Goto(h, label), UNCHANGED dbVars
        PROVE  Shared'
    <2>1. MarketTyped' /\ OnlyQuote(h) /\ quote'[h].item = i
      BY <1>0, <1>1, <1>4, QuoteKept
    <2> QED
      BY <1>2, <1>4, <2>1
  <1>5. CASE SellFind(h)
    <2>1. ASSUME NEW g \in Owned(h), quote' = [quote EXCEPT ![h] = [item |-> g.item, price |-> 0]],
                 Goto(h, "price"), UNCHANGED dbVars
          PROVE  Shared'
      <3>1. g.item \in Items
        BY <1>0 DEF Owned, MarketTyped
      <3> QED
        BY <1>4, <2>1, <3>1
    <2> QED
      BY <1>3, <1>5, <2>1 DEF SellFind
  <1>6. ASSUME pc[h] \in {"price", "pastPrice"} PROVE quote[h].item \in Items
    BY <1>0, <1>6 DEF RoutedTo
  <1>7. CASE SellPrice(h)
    <2>1. ASSUME NEW l \in Newest(quote[h].item), quote' = [quote EXCEPT ![h].price = l.price],
                 Goto(h, "creditSeller"), UNCHANGED dbVars
          PROVE  Shared'
      <3>1. l.price \in Nat
        BY <1>0 DEF Newest, MarketTyped
      <3> QED
        BY <1>4, <1>6, <1>7, <2>1, <3>1 DEF SellPrice
    <2>2. ASSUME Goto(h, "pastPrice"), UNCHANGED quote, UNCHANGED dbVars PROVE Shared'
      <3>1. MarketTyped' /\ OnlyQuote(h)
        BY <1>0, <1>1, <2>2 DEF MarketTyped, marketVars, OnlyQuote
      <3> QED
        BY <1>2, <1>6, <1>7, <2>2, <3>1 DEF SellPrice
    <2> QED
      BY <1>7, <2>1, <2>2 DEF SellPrice
  <1>8. CASE SellPastPrice(h)
    <2> DEFINE p == IF history[quote[h].item] = 0 THEN 1 ELSE history[quote[h].item]
    <2>1. p \in Nat /\ quote[h].item \in Items
      BY <1>0, <1>6, <1>8 DEF SellPastPrice, MarketTyped
    <2>2. quote' = [quote EXCEPT ![h].price = p] /\ Goto(h, "creditSeller") /\ UNCHANGED dbVars
      BY <1>8 DEF SellPastPrice
    <2> HIDE DEF p
    <2> QED
      BY <1>4, <2>1, <2>2
  <1> QED
    BY <1>5, <1>7, <1>8

\* A trade that commits its payment and its good at once.
LEMMA TradeCommitKeeps ==
    ASSUME Shared, NEW h \in Calls, BuyCommit(h) \/ SellCommit(h)
    PROVE  Shared'
  <1>0. MarketTyped /\ RoutedTo(h)
    BY DEF Shared, CallKept
  <1>1. CASE BuyCommit(h)
    <2>1. quote[h].item \in Items
      BY <1>0, <1>1 DEF BuyCommit, RoutedTo, BuyLabels
    <2>2. MarketTyped'
      BY <1>0, <1>1, <2>1 DEF BuyCommit, MarketTyped, Good, marketVars
    <2> QED
      BY <1>1, <2>2, CommitKeeps DEF BuyCommit
  <1>2. CASE SellCommit(h)
    <2>1. \A g \in goods' : \E k \in goods :
            g = k \/ g = [k EXCEPT !.sold = h, !.got = quote[h].price]
      BY <1>2 DEF SellCommit
    <2>2. \A g \in goods' : g.item \in Items
      <3> TAKE g \in goods'
      <3>1. PICK k \in goods : g = k \/ g = [k EXCEPT !.sold = h, !.got = quote[h].price]
        BY <2>1
      <3>2. [k EXCEPT !.sold = h, !.got = quote[h].price].item = k.item
        OBVIOUS
      <3> QED
        BY <1>0, <3>1, <3>2 DEF MarketTyped
    <2>3. MarketTyped'
      BY <1>0, <1>2, <2>2 DEF SellCommit, MarketTyped, marketVars
    <2> QED
      BY <1>2, <2>3, CommitKeeps DEF SellCommit
  <1> QED
    BY <1>1, <1>2

\* Every step of a call of the market.
LEMMA TradeKeeps ==
    ASSUME Shared, NEW h \in Calls, TradeCall(h)
    PROVE  Shared'
  <1>1. ASSUME UNCHANGED <<marketVars, goods, quote>> PROVE MarketTyped'
    BY <1>1 DEF Shared, MarketTyped, marketVars
  <1>2. CASE ReceiveTrade(h)
    BY <1>1, <1>2, ReceiveKeeps DEF ReceiveTrade
  <1>3. CASE BeginTrade(h)
    BY <1>1, <1>3, BeginKeeps DEF BeginTrade, tradeVars
  <1>4. CASE LockTrader(h)
    BY <1>1, <1>4, LockTraderKeeps DEF LockTrader, tradeVars
  <1>5. CASE BuyCheck(h) \/ TouchGoods(h)
    BY <1>1, <1>5, CheckKeeps DEF BuyCheck, TouchGoods, tradeVars
  <1>6. CASE BuyDebit(h) \/ SellCredit(h)
    BY <1>1, <1>6, PostKeeps DEF BuyDebit, SellCredit, PostTrade, tradeVars
  <1>7. CASE TradeAbort(h)
    <2>1. TradeFailAnswer(h) \in {"gone", "error"}
      BY DEF TradeFailAnswer
    <2>2. MarketTyped' /\ UNCHANGED quote
      BY <1>1, <1>7 DEF TradeAbort, tradeVars
    <2>3. Rollback(h, TradeFailAnswer(h)) /\ pc[h] \notin {"idle", "done"}
      BY <1>7 DEF TradeAbort, Open
    <2> QED
      BY <2>1, <2>2, <2>3, EndKeeps DEF Rollback, Answers, TradeAnswers, CandyAnswers
  <1> QED
    BY <1>2, <1>3, <1>4, <1>5, <1>6, <1>7, IdemKeeps, SellKeeps, TradeCommitKeeps
       DEF TradeCall, Trade, Buy, Sell

\* A call relies on nothing else than the database's rows and its own variables.
LEMMA QuietKept ==
    ASSUME Shared, NEW h \in Calls, UNCHANGED <<dbVars, callVars, quote>>
    PROVE  CallKept(h)'
  <1> USE DEF dbVars, callVars
  <1>1. CallKept(h)
    BY DEF Shared
  <1>2. RoutedTo(h)' /\ Covered(h)' /\ Answered(h)'
    BY <1>1 DEF CallKept, RoutedTo, Covered, Answered, Taken
  <1>3. Has(h)' = Has(h)
    BY DEF Has, LockOrder
  <1>4. Wrote(h)' = Wrote(h)
    BY DEF Wrote, RowsWritten, TradeKey, AdjustKey, CreditRow
  <1> QED
    BY <1>1, <1>2, <1>3, <1>4 DEF CallKept

\* New prices change nothing that the calls rely on.
LEMMA RelistKeeps ==
    ASSUME Shared, Relist
    PROVE  Shared'
  <1> USE DEF Relist, dbVars, callVars, tradeVars
  <1>1. PICK prices \in Batches, since \in 0..batch :
          LET unseen == {l \in listings : l.id[1] > since}
          IN  /\ listings' = {[l EXCEPT !.expired = TRUE] : l \in listings \ unseen} \cup unseen
                   \cup {Listing(batch + 1, i, prices[i]) : i \in DOMAIN prices}
              /\ \E later \in SUBSET {l.item : l \in unseen} :
                   history' = [i \in Items |-> IF i \in DOMAIN prices \ later
                                               THEN prices[i] ELSE history[i]]
    OBVIOUS
  <1>2. \A i \in DOMAIN prices : i \in Items /\ prices[i] \in Nat
    BY BatchesArePrices DEF Price
  <1>3. MarketTyped'
    <2>1. \A l \in listings' : \/ \E m \in listings : l = m \/ l = [m EXCEPT !.expired = TRUE]
                               \/ \E i \in DOMAIN prices : l = Listing(batch + 1, i, prices[i])
      BY <1>1
    <2>2. \A l \in listings' : l.item \in Items /\ l.price \in Nat
      <3> TAKE l \in listings'
      <3>1. CASE \E i \in DOMAIN prices : l = Listing(batch + 1, i, prices[i])
        BY <1>2, <3>1 DEF Listing
      <3>2. ASSUME NEW m \in listings, l = m \/ l = [m EXCEPT !.expired = TRUE]
            PROVE  l.item \in Items /\ l.price \in Nat
        <4>1. /\ [m EXCEPT !.expired = TRUE].item = m.item
              /\ [m EXCEPT !.expired = TRUE].price = m.price
          OBVIOUS
        <4> QED
          BY <3>2, <4>1 DEF Shared, MarketTyped
      <3> QED
        BY <2>1, <3>1, <3>2
    <2>3. history' \in [Items -> Nat]
      BY <1>1, <1>2 DEF Shared, MarketTyped
    <2> QED
      BY <2>2, <2>3 DEF Shared, MarketTyped
  <1>4. CallsTyped'
    BY DEF Shared, CallsTyped, Arrived
  <1>5. \A h \in Calls : CallKept(h)'
    BY QuietKept
  <1>6. RowsEnd' /\ OneRow'
    BY DEF Shared, RowsEnd, OneRow, Taken, Writing
  <1> QED
    BY <1>3, <1>4, <1>5, <1>6 DEF Shared

\* No step changes nothing.
LEMMA StutterKeeps ==
    ASSUME Shared, UNCHANGED wvars
    PROVE  Shared'
  <1> USE DEF wvars, vars, marketVars, tradeVars
  <1>1. CallsTyped' /\ MarketTyped'
    BY DEF Shared, CallsTyped, MarketTyped, Arrived
  <1>2. \A h \in Calls : CallKept(h)'
    BY QuietKept DEF dbVars, callVars
  <1>3. RowsEnd' /\ OneRow'
    BY DEF Shared, RowsEnd, OneRow, Taken, Writing
  <1> QED
    BY <1>1, <1>2, <1>3 DEF Shared

\* Every step keeps Shared.
LEMMA NextShared == Shared /\ [WonkaNext]_wvars => Shared'
  BY CandyKeeps, TradeKeeps, RelistKeeps, StutterKeeps DEF WonkaNext

\* Calls keep their locks, rows and funds, and keys one row, in all reachable states.
THEOREM SharedIsKept == WonkaSafeSpec => []Shared
  BY InitShared, NextShared, PTL DEF WonkaSafeSpec

-----------------------------------------------------------------------------
(* What follows from it. *)

\* A key has one row over adjusts, buys and sells, and an answer says what has been
\* done (handlers.go:172-190, market.go:85-97, 144-148, 195-206, 259-263).
THEOREM KeysAreSpentOnce == WonkaSafeSpec => []KeyIsSpentOnce
  <1>1. ASSUME Shared, NEW h \in Calls, resp[h] \in {"ok", "duplicate"}, req[h].op \in ClientOps
        PROVE  Cardinality({r \in ledger : /\ r.agent = req[h].agent
                                           /\ r.key = Key("client", req[h].key)}) = 1
    <2>1. PICK r \in ledger : r.agent = req[h].agent /\ r.key = Key("client", req[h].key)
      BY <1>1 DEF Shared, CallKept, Answered, Taken
    <2>2. \A s \in ledger : s.agent = req[h].agent /\ s.key = Key("client", req[h].key) => s = r
      BY <1>1, <2>1 DEF Shared, OneRow, Key
    <2>3. {s \in ledger : s.agent = req[h].agent /\ s.key = Key("client", req[h].key)} = {r}
      BY <2>1, <2>2
    <2> QED
      BY <2>3, FS_Singleton
  <1>2. Shared => KeyIsSpentOnce
    BY <1>1 DEF KeyIsSpentOnce, ClientOps, Shared, RowsEnd
  <1> QED
    BY <1>2, SharedIsKept, PTL

\* What a spender's commit takes is what it has checked that there is.
LEMMA CommitTakes ==
    ASSUME Shared, NEW h \in Calls, pc[h] \in {"commit", "commitBuy"}, PublishRows(h)
    PROVE  req[h].agent \in Agents /\ balance'[req[h].agent] >= 0
  <1>1. /\ pend[h] = Wrote(h) /\ Covered(h) /\ RoutedTo(h) /\ req[h].agent \in Agents
        /\ balance[req[h].agent] \in Int /\ quote[h].price \in Nat
    BY RequestTypes DEF Shared, CallKept, CallsTyped, MarketTyped
  <1>2. CASE pc[h] = "commit"
    <2> DEFINE out == Row(h, req[h].agent, Key("out", h), -req[h].n)
    <2>1. req[h].op = "transfer" /\ req[h].agent # req[h].peer
      BY <1>1, <1>2 DEF RoutedTo, TransferLabels
    <2>2. req[h].n \in Int /\ req[h].n <= balance[req[h].agent]
      BY <1>1, <1>2, <2>1, RequestTypes DEF Covered, Claiming, TradeOps
    <2>3. pend[h] = {out, CreditRow(h)}
      BY <1>1, <1>2 DEF Wrote, RowsWritten
    <2>4. out.agent = req[h].agent /\ out.delta = -req[h].n /\ CreditRow(h).agent = req[h].peer
      BY DEF Row, CreditRow
    <2>5. Posted(h, req[h].agent) = -req[h].n
      BY <2>1, <2>3, <2>4, PostedOneRow
    <2> QED
      BY <1>1, <2>2, <2>5 DEF PublishRows
  <1>3. CASE pc[h] = "commitBuy"
    <2> DEFINE row == Row(h, req[h].agent, TradeKey(h), -quote[h].price)
    <2>1. quote[h].price <= balance[req[h].agent]
      BY <1>1, <1>3 DEF Covered
    <2>2. pend[h] = {row}
      BY <1>1, <1>3 DEF Wrote
    <2>3. row.agent = req[h].agent /\ row.delta = -quote[h].price
      BY DEF Row
    <2>4. Posted(h, req[h].agent) = -quote[h].price
      BY <2>2, <2>3, PostedOneRow
    <2> QED
      BY <1>1, <2>1, <2>4 DEF PublishRows
  <1> QED
    BY <1>2, <1>3

\* Neither a transfer nor a buy overdraws, whatever runs with it: all that posts to
\* an agent meets at the agent's row (handlers.go:359-375, market.go:122-142).
THEOREM NobodyOverdraws == WonkaSafeSpec => SpendersNeverOverdraw
  <1> DEFINE Payers == \A t \in transfers' \ transfers : balance'[t.from] >= 0
             Buyers == \A g \in goods' \ goods : g.sold = NoCall => balance'[g.agent] >= 0
  <1>1. ASSUME Shared, [WonkaNext]_wvars PROVE Payers /\ Buyers
    <2>1. CASE UNCHANGED <<transfers, goods>>
      BY <2>1
    <2>2. CASE \E h \in Calls : TransferCommit(h) /\ UNCHANGED goods
      BY <1>1, <2>2, CommitTakes DEF TransferCommit, Commit, TransferRow
    <2>3. CASE \E h \in Calls : BuyCommit(h) /\ UNCHANGED transfers
      BY <1>1, <2>3, CommitTakes DEF BuyCommit, Commit, Good
    <2>4. CASE \E h \in Calls : SellCommit(h) /\ UNCHANGED transfers
      <3>1. PICK h \in Calls : SellCommit(h)
        BY <2>4
      <3>2. ASSUME NEW g \in goods' \ goods PROVE g.sold # NoCall
        <4>1. PICK k \in goods : g = [k EXCEPT !.sold = h, !.got = quote[h].price]
          BY <3>1 DEF SellCommit
        <4> QED
          BY <4>1, NoCallIsNotACall
      <3> QED
        BY <2>4, <3>2
    <2>5. \/ UNCHANGED <<transfers, goods>>
          \/ \E h \in Calls : TransferCommit(h) /\ UNCHANGED goods
          \/ \E h \in Calls : (BuyCommit(h) \/ SellCommit(h)) /\ UNCHANGED transfers
      <3>1. ASSUME NEW h \in Calls, CandyCall(h)
            PROVE  TransferCommit(h) \/ UNCHANGED transfers
        BY <3>1 DEF CandyCall, Handle, Transfer, ReceiveCandy, BeginCandy, Patch, AdjustInsert,
               AdjustCommit, TransferResolve, TransferLock1, TransferLock2, TransferCheck,
               TransferInsert, TransferDebit, TransferCredit, Abort
      <3>2. ASSUME NEW h \in Calls, TradeCall(h)
            PROVE  BuyCommit(h) \/ SellCommit(h) \/ UNCHANGED goods
        BY <3>2 DEF TradeCall, Trade, Buy, Sell, ReceiveTrade, BeginTrade, TradeIdem, LockTrader,
               TouchGoods, BuyListing, BuyCheck, BuyDebit, SellCredit, PostTrade, SellFind,
               SellPrice, SellPastPrice, TradeAbort, tradeVars
      <3> QED
        BY <1>1, <3>1, <3>2 DEF WonkaNext, Relist, wvars, vars, tradeVars
    <2> QED
      BY <2>1, <2>2, <2>3, <2>4, <2>5
  <1> QED
    BY <1>1, SharedIsKept, PTL DEF WonkaSafeSpec, SpendersNeverOverdraw

\* Calls wait in a circle only if an adjust and a trade of one agent and key are in
\* it: the adjust has the key, the trade the agent's row (handlers.go:172-190,
\* market.go:122-148, 259-263).  Of the others the one whose row has the greatest id
\* waits for a row that nobody in the circle has.
THEOREM DeadlocksAreForAKey == WonkaSafeSpec => []DeadlocksShareAKey
  <1> DEFINE Pair(g, h) == /\ g \in Awaits(h) /\ h \in Awaits(g)
                           /\ req[g].op = "adjust" /\ req[h].op \in TradeOps
                           /\ req[g].agent = req[h].agent /\ req[g].key = req[h].key
  <1>1. ASSUME Shared, NEW S \in SUBSET Calls, S # {}, \A h \in S : Awaits(h) \cap S # {},
               \A g, h \in S : ~Pair(g, h)
        PROVE  FALSE
    <2> DEFINE Rows2 == {h \in S : pc[h] = "lock2"}
    <2>0. \A h \in S : CallKept(h) /\ pc[h] \in Labels
      BY <1>1 DEF Shared, CallsTyped
    <2>1. \A g \in S : pc[g] \in {"lock1", "lock2", "fk", "patch", "insert", "post", "lockBuyer",
                                  "lockSeller", "debitBuyer", "creditSeller"}
      BY <1>1 DEF Awaits, WaitsFor
    <2>2. \A g \in S : pc[g] # "insert"
      <3> SUFFICES ASSUME NEW g \in S, pc[g] = "insert" PROVE FALSE
        OBVIOUS
      <3>1. PICK k \in S : k \in Paying(g, req[g].key)
        BY <1>1 DEF Awaits, WaitsFor
      <3> QED
        BY <2>1, <3>1 DEF Paying
    <2>3. ASSUME NEW h \in S, NEW g \in S \ {h}, NEW a, NEW k,
                 g \in Writing(h, a, Key("client", k)), pc[g] = "fk"
          PROVE  req[g].op = "adjust" /\ req[g].agent = a /\ req[g].key = k
      <3>1. pend[g] = {Row(g, req[g].agent, AdjustKey(g), req[g].n)}
        BY <2>0, <2>3 DEF CallKept, Wrote, RowsWritten
      <3>2. req[g].agent = a /\ AdjustKey(g) = Key("client", k)
        BY <2>3, <3>1 DEF Writing, Row
      <3> QED
        BY <3>2 DEF AdjustKey, Key
    <2>4. \A g \in S : pend[g] # {} => pc[g] = "fk"
      BY <2>0, <2>1 DEF CallKept, Wrote, RowsWritten
    <2>5. \A h \in S : pc[h] \notin {"debitBuyer", "creditSeller"}
      <3> SUFFICES ASSUME NEW h \in S, pc[h] \in {"debitBuyer", "creditSeller"} PROVE FALSE
        OBVIOUS
      <3>1. PICK g \in S : g \in Awaits(h) /\ g \in Writing(h, req[h].agent, TradeKey(h))
        BY <1>1 DEF Awaits
      <3>2. g # h /\ pend[g] # {}
        BY <3>1 DEF Writing
      <3>3. pc[g] = "fk"
        BY <2>4, <3>2
      <3>4. req[g].op = "adjust" /\ req[g].agent = req[h].agent /\ req[g].key = req[h].key
        BY <2>3, <3>1, <3>2, <3>3 DEF TradeKey
      <3>5. req[h].op \in TradeOps /\ req[h].agent \in Has(h) /\ req[h].agent \in Agents
        <4>1. req[h].op \in TradeOps
          BY <2>0 DEF CallKept, RoutedTo, BuyLabels, SellLabels, TradeOps
        <4>2. req[h].agent \in Has(h)
          BY DEF Has, Locked, TradeLocked
        <4> QED
          BY <1>1, <4>1, <4>2, RequestTypes
      <3>6. lock[req[g].agent] = h
        BY <2>0, <3>4, <3>5 DEF CallKept
      <3>7. h \in Awaits(g)
        BY <3>2, <3>3, <3>6, NoCallIsNotACall DEF Awaits, WaitsFor
      <3> QED
        BY <1>1, <3>1, <3>4, <3>5, <3>7
    <2>6. ASSUME NEW h \in S, NEW a \in Agents, lock[a] \in S
          PROVE  lock[a] \in Rows2 /\ a = LockOrder(lock[a])[1]
      <3>1. a \in Has(lock[a])
        BY <2>0, <2>6 DEF CallKept
      <3> QED
        BY <2>1, <2>2, <2>5, <2>6, <3>1 DEF Has, Locked, TradeLocked
    <2>7. ASSUME NEW h \in S
          PROVE  /\ req[h].agent \in Agents
                 /\ pc[h] \in {"lock1", "lock2"} =>
                      /\ LockOrder(h)[1] \in Agents /\ LockOrder(h)[2] \in Agents
                      /\ LockOrder(h)[1] < LockOrder(h)[2]
      <3>1. pc[h] # "idle" /\ req[h].agent \in Agents
        BY <1>1, <2>1, RequestTypes
      <3>2. CASE pc[h] \in {"lock1", "lock2"}
        <4>1. req[h].op = "transfer" /\ req[h].agent # req[h].peer
          BY <2>0, <3>2 DEF CallKept, RoutedTo, TransferLabels
        <4>2. req[h].peer \in Agents
          BY <1>1, <3>1, <4>1, RequestTypes DEF TradeOps
        <4>3. req[h].agent \in Int /\ req[h].peer \in Int
          BY <3>1, <4>2, AgentsAreOrdered
        <4>4. CASE req[h].agent > req[h].peer
          BY <3>1, <4>2, <4>3, <4>4 DEF LockOrder
        <4>5. CASE req[h].agent < req[h].peer
          BY <3>1, <4>2, <4>3, <4>5 DEF LockOrder
        <4> QED
          BY <4>1, <4>3, <4>4, <4>5
      <3> QED
        BY <3>1, <3>2
    <2>8. Rows2 # {}
      <3>1. \A h \in S : pc[h] \in {"lock1", "lock2", "fk", "patch", "lockBuyer", "lockSeller"} =>
                Rows2 # {}
        <4> TAKE h \in S
        <4>1. CASE pc[h] = "lock1"
          <5>1. lock[LockOrder(h)[1]] \in S
            BY <1>1, <4>1 DEF Awaits, WaitsFor
          <5> QED
            BY <2>6, <2>7, <4>1, <5>1
        <4>2. CASE pc[h] = "lock2"
          BY <4>2
        <4>3. CASE pc[h] \in {"fk", "patch", "lockBuyer", "lockSeller"}
          <5>1. lock[req[h].agent] \in S
            BY <1>1, <4>3 DEF Awaits, WaitsFor
          <5> QED
            BY <2>6, <2>7, <5>1
        <4> QED
          BY <4>1, <4>2, <4>3
      <3>2. PICK h \in S : TRUE
        BY <1>1
      <3>3. CASE pc[h] = "post"
        <4>1. PICK g \in S : g \in Writing(h, req[h].agent, AdjustKey(h))
          BY <1>1, <3>3 DEF Awaits, WaitsFor
        <4>2. pc[g] = "fk"
          BY <2>4, <4>1 DEF Writing
        <4> QED
          BY <3>1, <4>2
      <3> HIDE DEF Rows2
      <3> QED
        BY <2>1, <2>2, <2>5, <3>1, <3>3
    <2>9. IsFiniteSet(Rows2)
      <3>1. Rows2 \in SUBSET Arrived
        BY <1>1 DEF Arrived
      <3> QED
        BY <1>1, <3>1, FS_Subset DEF Shared, CallsTyped
    <2> DEFINE held == [h \in Rows2 |-> LockOrder(h)[1]]
    <2>10. held \in [Rows2 -> Int]
      BY <2>7, AgentsAreOrdered
    <2>11. PICK h \in Rows2 : \A g \in Rows2 : held[g] <= held[h]
      <3> HIDE DEF held, Rows2
      <3> QED
        BY <2>8, <2>9, <2>10, FiniteMax
    <2>12. lock[LockOrder(h)[2]] \in S
      BY <1>1, <2>11 DEF Awaits, WaitsFor
    <2>13. /\ LockOrder(h)[1] < LockOrder(h)[2]
           /\ LockOrder(h)[1] \in Int /\ LockOrder(h)[2] \in Int
           /\ LockOrder(h)[2] \in Agents
      BY <2>7, <2>11, AgentsAreOrdered
    <2>14. /\ lock[LockOrder(h)[2]] \in Rows2
           /\ LockOrder(h)[2] = LockOrder(lock[LockOrder(h)[2]])[1]
      BY <2>6, <2>11, <2>12, <2>13
    <2>15. held[lock[LockOrder(h)[2]]] = LockOrder(h)[2] /\ held[h] = LockOrder(h)[1]
      BY <2>11, <2>14
    <2> QED
      BY <2>11, <2>13, <2>14, <2>15
  <1>2. Shared => DeadlocksShareAKey
    BY <1>1 DEF DeadlocksShareAKey
  <1> QED
    BY <1>2, SharedIsKept, PTL
=============================================================================
