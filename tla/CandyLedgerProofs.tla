------------------------- MODULE CandyLedgerProofs -------------------------
(***************************************************************************)
(* For any agents, keys, calls and requests: the types of CandyLedger, the *)
(* isolation its transactions rely on, and that no transfer overdraws.     *)
(* TypeOK /\ Isolation is inductive; the rest follows from it.             *)
(***************************************************************************)
EXTENDS CandySafety, TLAPS

Inv == TypeOK /\ Isolation

\* Labels of a transfer that holds both of its locks.
Locked == {"check", "insert", "debit", "credit", "commit"}

-----------------------------------------------------------------------------
(* What a call's request is. *)

\* A call that has arrived has one of the typed requests of CandyOps.
LEMMA RequestType ==
    ASSUME Inv, NEW h \in Calls, pc[h] # "idle"
    PROVE  /\ req[h] \in CandyRequests
           /\ req[h] \in Requests
           /\ req[h].op \in CandyOps
           /\ req[h].agent \in Agents
           /\ req[h].peer \in Agents
           /\ req[h].n \in Int
           /\ req[h].key \in Keys
  BY CandyRequestsAreTyped DEF Inv, Isolation, Routed, CandyRequests

\* The two rows a transfer locks are its payer's and its payee's, whatever the
\* order of their ids (handlers.go:353-358).
LEMMA LockOrderRows ==
    ASSUME NEW h
    PROVE  \/ LockOrder(h)[1] = req[h].agent /\ LockOrder(h)[2] = req[h].peer
           \/ LockOrder(h)[1] = req[h].peer /\ LockOrder(h)[2] = req[h].agent
  BY DEF LockOrder

\* What a call posts to an agent is an integer.
LEMMA PostedIsInt ==
    ASSUME TypeOK, NEW h \in Calls, NEW a
    PROVE  Posted(h, a) \in Int
  <1> DEFINE mine == {r \in pend[h] : r.agent = a}
  <1>1. \A r \in mine : r.delta \in Int
    BY DEF TypeOK, Rows
  <1>2. CASE mine = {}
    BY <1>2 DEF Posted
  <1>3. CASE mine # {}
    <2>1. (CHOOSE r \in mine : TRUE) \in mine
      BY <1>3
    <2>2. Posted(h, a) = (CHOOSE r \in mine : TRUE).delta
      BY <1>3 DEF Posted
    <2> QED
      BY <1>1, <2>1, <2>2
  <1> QED
    BY <1>2, <1>3

\* A call posts nothing to an agent it has written no row of.
LEMMA PostedElsewhere ==
    ASSUME NEW h \in Calls, NEW a, \A r \in pend[h] : r.agent # a
    PROVE  Posted(h, a) = 0
  <1>1. {r \in pend[h] : r.agent = a} = {}
    OBVIOUS
  <1> QED
    BY <1>1 DEF Posted

\* A call posts to an agent the one row it has written of that agent.
LEMMA PostedOneRow ==
    ASSUME NEW h \in Calls, NEW a, NEW row \in pend[h], row.agent = a,
           \A r \in pend[h] : r.agent = a => r = row
    PROVE  Posted(h, a) = row.delta
  <1>1. {r \in pend[h] : r.agent = a} = {row}
    OBVIOUS
  <1> HIDE DEF Posted
  <1>2. (CHOOSE r \in {row} : TRUE) = row
    OBVIOUS
  <1> QED
    BY <1>1, <1>2 DEF Posted

-----------------------------------------------------------------------------
(* Init => Inv *)

\* Inv holds when the server starts on the seeded tables.
LEMMA InitInv == CandyInit => Inv
  <1> SUFFICES ASSUME CandyInit PROVE Inv
    OBVIOUS
  <1> USE DEF CandyInit, LedgerInit
  <1>1. TypeOK
    <2>1. \A a \in Agents : SeedRow(a) \in Rows
      BY SeedIsBalance DEF SeedRow, Row, Key, Rows, AllKeys
    <2>2. ledger \subseteq Rows
      BY <2>1
    <2> QED
      BY <2>2, SeedIsBalance DEF TypeOK, CandyLabels, CandyAnswers
  <1>2. Routed
    BY DEF Routed, TransferLabels
  <1>3. LocksHeld
    BY DEF LocksHeld
  <1>4. RowsPending
    BY DEF RowsPending, RowsWritten
  <1>5. FundsHeld
    BY DEF FundsHeld
  <1> QED
    BY <1>1, <1>2, <1>3, <1>4, <1>5 DEF Inv, Isolation

-----------------------------------------------------------------------------
(* Inv /\ Next => Inv', one lemma per way a step changes the database.      *)

\* A call arrives, or goes on, or ends, and no table and no lock changes.
LEMMA ReceiveInv ==
    ASSUME Inv, NEW h \in Calls, ReceiveCandy(h)
    PROVE  Inv'
  <1> USE DEF Inv, Isolation, ReceiveCandy, Receive, dbVars
  <1>1. PICK r \in CandyRequests :
          /\ req' = [req EXCEPT ![h] = r]
          /\ \/ pc' = [pc EXCEPT ![h] = "done"] /\ resp' = [resp EXCEPT ![h] = "unauthorized"]
             \/ pc' = [pc EXCEPT ![h] = "done"] /\ resp' = [resp EXCEPT ![h] = "invalid"]
             \/ ~Invalid(r) /\ pc' = [pc EXCEPT ![h] = Entry(r)] /\ UNCHANGED resp
    OBVIOUS
  <1>2. r \in Requests /\ r.op \in CandyOps /\ r.n \in Int
    BY CandyRequestsAreTyped DEF CandyRequests
  <1>3. Entry(r) \in {"resolve", "begin"} /\ (Entry(r) = "resolve" <=> r.op = "transfer")
    BY <1>2 DEF Entry, CandyOps
  <1>4. r.op = "transfer" /\ ~Invalid(r) => r.n > 0
    BY <1>2 DEF Invalid
  <1>5. TypeOK'
    BY <1>1, <1>2, <1>3 DEF TypeOK, CandyLabels, TransferLabels, CandyAnswers
  <1>6. Routed'
    BY <1>1, <1>2, <1>3, <1>4 DEF Routed, TransferLabels, TypeOK
  <1>7. LocksHeld'
    <2>1. \A a \in Agents : lock[a] # h
      BY NoCallIsNotACall DEF LocksHeld, TypeOK
    <2>2. \A g \in Calls \ {h} : LockOrder(g)' = LockOrder(g) /\ req'[g] = req[g] /\ pc'[g] = pc[g]
      BY <1>1 DEF LockOrder, TypeOK
    <2>3. pc'[h] \in {"done", "resolve", "begin"}
      BY <1>1, <1>3 DEF TypeOK
    <2> QED
      BY <2>1, <2>2, <2>3 DEF LocksHeld, TypeOK
  <1>8. RowsPending'
    <2>1. \A g \in Calls \ {h} : RowsWritten(g)' = RowsWritten(g)
      BY <1>1 DEF RowsWritten, AdjustKey, CreditRow, Row, Key, TypeOK
    <2>2. RowsWritten(h) = {} /\ RowsWritten(h)' = {}
      BY <1>1, <1>3 DEF RowsWritten, TypeOK
    <2> QED
      BY <2>1, <2>2 DEF RowsPending
  <1>9. FundsHeld'
    BY <1>1, <1>3 DEF FundsHeld, TypeOK
  <1> QED
    BY <1>5, <1>6, <1>7, <1>8, <1>9

\* A call goes from one statement to another that neither holds other rows nor
\* has written others.
LEMMA GotoInv ==
    ASSUME Inv, NEW h \in Calls, pc[h] # "idle", NEW label \in CandyLabels \ {"idle"},
           Goto(h, label), UNCHANGED <<dbVars, transfers>>,
           label \in {"post", "patch"} => pc[h] = "begin" /\ label = FirstStatement(req[h]),
           label = "lock1"  => pc[h] = "begin" /\ req[h].op = "transfer",
           label = "begin"  => pc[h] = "resolve" /\ req[h].agent # req[h].peer,
           label = "insert" => pc[h] = "check" /\ balance[req[h].agent] >= req[h].n,
           label = "debit"  => pc[h] = "insert",
           label \in {"post", "patch", "lock1", "begin", "insert", "debit"}
    PROVE  Inv'
  <1> USE DEF Inv, Isolation, Goto, dbVars
  <1>1. /\ pc'[h] = label
        /\ \A g \in Calls \ {h} : pc'[g] = pc[g]
        /\ \A g : LockOrder(g)' = LockOrder(g)
    BY DEF LockOrder, TypeOK
  <1>2. TypeOK'
    BY DEF TypeOK
  <1>3. Routed'
    <2>1. req[h] \in CandyRequests /\ req[h].op \in CandyOps
      BY RequestType
    <2>2. label = "post" => req[h].op \in {"adjust", "adminAdjust"}
      BY <2>1 DEF FirstStatement, CandyOps
    <2> QED
      BY <1>1, <2>1, <2>2 DEF Routed, TransferLabels
  <1>4. LocksHeld'
    BY <1>1 DEF LocksHeld, TypeOK
  <1>5. RowsPending'
    <2>1. \A g \in Calls \ {h} : RowsWritten(g)' = RowsWritten(g)
      BY <1>1 DEF RowsWritten, AdjustKey, CreditRow
    <2>2. RowsWritten(h) = {} /\ RowsWritten(h)' = {}
      BY <1>1 DEF RowsWritten
    <2> QED
      BY <2>1, <2>2 DEF RowsPending
  <1>6. FundsHeld'
    BY <1>1 DEF FundsHeld
  <1> QED
    BY <1>2, <1>3, <1>4, <1>5, <1>6

\* A call that has no transaction open answers.
LEMMA AnswerInv ==
    ASSUME Inv, NEW h \in Calls, pc[h] = "resolve", NEW code \in CandyAnswers,
           Answer(h, code), UNCHANGED <<dbVars, transfers>>
    PROVE  Inv'
  <1> USE DEF Inv, Isolation, Answer, dbVars
  <1>1. /\ pc'[h] = "done"
        /\ \A g \in Calls \ {h} : pc'[g] = pc[g]
        /\ \A g : LockOrder(g)' = LockOrder(g)
    BY DEF LockOrder, TypeOK
  <1>2. TypeOK'
    BY DEF TypeOK, CandyLabels
  <1>3. Routed'
    BY <1>1 DEF Routed, TransferLabels
  <1>4. LocksHeld'
    BY <1>1 DEF LocksHeld, TypeOK
  <1>5. RowsPending'
    <2>1. \A g \in Calls \ {h} : RowsWritten(g)' = RowsWritten(g)
      BY <1>1 DEF RowsWritten, AdjustKey, CreditRow
    <2>2. RowsWritten(h) = {} /\ RowsWritten(h)' = {}
      BY <1>1 DEF RowsWritten
    <2> QED
      BY <2>1, <2>2 DEF RowsPending
  <1>6. FundsHeld'
    BY <1>1 DEF FundsHeld
  <1> QED
    BY <1>2, <1>3, <1>4, <1>5, <1>6

\* defer tx.Rollback: the call's locks are free, its rows are gone.
LEMMA RollbackInv ==
    ASSUME Inv, NEW h \in Calls, pc[h] # "idle", NEW code \in CandyAnswers,
           Rollback(h, code), UNCHANGED transfers
    PROVE  Inv'
  <1> USE DEF Inv, Isolation, Rollback, EndTx, Answer
  <1>1. /\ pc'[h] = "done" /\ pend'[h] = {}
        /\ \A g \in Calls \ {h} : pc'[g] = pc[g] /\ pend'[g] = pend[g]
        /\ \A g : LockOrder(g)' = LockOrder(g)
    BY DEF LockOrder, TypeOK
  <1>2. TypeOK'
    BY DEF TypeOK, CandyLabels
  <1>3. Routed'
    BY <1>1 DEF Routed, TransferLabels
  <1>4. LocksHeld'
    <2>1. \A g \in Calls \ {h} : pc'[g] = "lock2" => lock'[LockOrder(g)[1]] = g
      BY <1>1, RequestType, LockOrderRows DEF LocksHeld, TypeOK
    <2>2. \A g \in Calls \ {h} : pc'[g] \in Locked =>
             lock'[req[g].agent] = g /\ lock'[req[g].peer] = g
      BY <1>1, RequestType DEF LocksHeld, TypeOK, Locked
    <2>3. \A a \in Agents : lock'[a] # NoCall => lock'[a] = lock[a] /\ lock'[a] # h
      BY NoCallIsNotACall DEF TypeOK
    <2> QED
      BY <1>1, <2>1, <2>2, <2>3 DEF LocksHeld, TypeOK, Locked
  <1>5. RowsPending'
    <2>1. \A g \in Calls \ {h} : RowsWritten(g)' = RowsWritten(g)
      BY <1>1 DEF RowsWritten, AdjustKey, CreditRow
    <2>2. RowsWritten(h)' = {}
      BY <1>1 DEF RowsWritten
    <2> QED
      BY <1>1, <2>1, <2>2 DEF RowsPending
  <1>6. FundsHeld'
    BY <1>1 DEF FundsHeld
  <1> QED
    BY <1>2, <1>3, <1>4, <1>5, <1>6

\* FOR UPDATE of the first row, then of the other one.
LEMMA LockInv ==
    ASSUME Inv, NEW h \in Calls, TransferLock1(h) \/ TransferLock2(h)
    PROVE  Inv'
  <1> USE DEF Inv, Isolation, TransferLock1, TransferLock2, LockAgent, Goto
  <1> DEFINE i == IF pc[h] = "lock1" THEN 1 ELSE 2
             a == LockOrder(h)[i]
             label == IF pc[h] = "lock1" THEN "lock2" ELSE "check"
  <1>1. /\ pc[h] \in {"lock1", "lock2"}
        /\ lock[a] \in {NoCall, h}
        /\ lock' = [lock EXCEPT ![a] = h]
        /\ pc' = [pc EXCEPT ![h] = label]
        /\ UNCHANGED <<ledger, balance, enabled, pend, req, resp, transfers>>
    BY DEF CanLock
  <1>2. /\ req[h].agent \in Agents /\ req[h].peer \in Agents /\ a \in Agents
        /\ a \in {req[h].agent, req[h].peer}
    BY <1>1, RequestType, LockOrderRows
  <1>3. /\ pc'[h] = label
        /\ \A g \in Calls \ {h} : pc'[g] = pc[g]
        /\ \A g : LockOrder(g)' = LockOrder(g)
        /\ lock'[a] = h /\ \A b \in Agents \ {a} : lock'[b] = lock[b]
    BY <1>1, <1>2 DEF LockOrder, TypeOK
  <1>4. TypeOK'
    BY <1>1, <1>2 DEF TypeOK, CandyLabels, TransferLabels
  <1>5. Routed'
    BY <1>1, <1>3 DEF Routed, TransferLabels
  <1>6. LocksHeld'
    <2>1. \A g \in Calls \ {h} : pc'[g] = "lock2" => lock'[LockOrder(g)[1]] = g
      BY <1>1, <1>3, RequestType, LockOrderRows, NoCallIsNotACall DEF LocksHeld
    <2>2. \A g \in Calls \ {h} : pc'[g] \in Locked =>
             lock'[req[g].agent] = g /\ lock'[req[g].peer] = g
      BY <1>1, <1>3, RequestType, NoCallIsNotACall DEF LocksHeld, Locked
    <2>3. pc'[h] = "lock2" => lock'[LockOrder(h)[1]] = h
      BY <1>1, <1>3
    <2>4. pc'[h] \in Locked => lock'[req[h].agent] = h /\ lock'[req[h].peer] = h
      <3> SUFFICES ASSUME pc[h] = "lock2"
                   PROVE  lock'[req[h].agent] = h /\ lock'[req[h].peer] = h
        BY <1>1, <1>3 DEF Locked
      <3>1. lock[LockOrder(h)[1]] = h /\ a = LockOrder(h)[2]
        BY DEF LocksHeld
      <3> QED
        BY <1>2, <1>3, <3>1, LockOrderRows
    <2>5. \A b \in Agents : lock'[b] # NoCall =>
            /\ pc'[lock'[b]] \in Locked \cup {"lock2"}
            /\ b \in {req[lock'[b]].agent, req[lock'[b]].peer}
      <3> SUFFICES ASSUME NEW b \in Agents, lock'[b] # NoCall
                   PROVE  /\ pc'[lock'[b]] \in Locked \cup {"lock2"}
                          /\ b \in {req[lock'[b]].agent, req[lock'[b]].peer}
        OBVIOUS
      <3>1. CASE lock'[b] = h
        <4>1. b \in {req[h].agent, req[h].peer}
          <5>1. CASE b = a
            BY <5>1, <1>2
          <5>2. CASE b # a
            BY <5>2, <3>1, <1>3, NoCallIsNotACall DEF LocksHeld
          <5> QED
            BY <5>1, <5>2
        <4> QED
          BY <3>1, <4>1, <1>3 DEF Locked
      <3>2. CASE lock'[b] # h
        BY <3>2, <1>3 DEF LocksHeld, Locked, TypeOK
      <3> QED
        BY <3>1, <3>2
    <2>6. req' = req /\ \A g : LockOrder(g)' = LockOrder(g)
      BY <1>1, <1>3
    <2> QED
      BY ONLY <2>1, <2>2, <2>3, <2>4, <2>5, <2>6 DEF LocksHeld, Locked
  <1>7. RowsPending'
    <2>1. \A g \in Calls \ {h} : RowsWritten(g)' = RowsWritten(g)
      BY <1>1, <1>3 DEF RowsWritten, AdjustKey, CreditRow
    <2>2. RowsWritten(h) = {} /\ RowsWritten(h)' = {}
      BY <1>1, <1>3 DEF RowsWritten
    <2> QED
      BY <1>1, <2>1, <2>2 DEF RowsPending
  <1>8. FundsHeld'
    BY <1>1, <1>3 DEF FundsHeld
  <1> QED
    BY <1>4, <1>5, <1>6, <1>7, <1>8

\* INSERT INTO candy_ledger: of an adjust, of a transfer's debit, of its credit.
LEMMA WriteInv ==
    ASSUME Inv, NEW h \in Calls, NEW row, NEW label,
           \/ /\ pc[h] = "post" /\ label = "fk"
              /\ row = Row(h, req[h].agent, AdjustKey(h), req[h].n)
           \/ /\ pc[h] = "debit" /\ label = "credit"
              /\ row = Row(h, req[h].agent, Key("out", h), -req[h].n)
           \/ pc[h] = "credit" /\ label = "commit" /\ row = CreditRow(h),
           Write(h, row, label), UNCHANGED transfers
    PROVE  Inv'
  <1> USE DEF Inv, Isolation, Write, Goto
  <1>1. /\ pc'[h] = label /\ pend'[h] = pend[h] \cup {row}
        /\ \A g \in Calls \ {h} : pc'[g] = pc[g] /\ pend'[g] = pend[g]
        /\ \A g : LockOrder(g)' = LockOrder(g)
    BY DEF LockOrder, TypeOK
  <1>2. TypeOK'
    <2>1. /\ req[h].agent \in Agents /\ req[h].peer \in Agents
          /\ req[h].n \in Int /\ -req[h].n \in Int /\ req[h].key \in Keys
      BY RequestType
    <2>2. /\ AdjustKey(h) \in AllKeys
          /\ Key("out", h) \in AllKeys /\ Key("in", h) \in AllKeys
      BY <2>1 DEF AdjustKey, Key, AllKeys
    <2>3. \A a \in Agents, key \in AllKeys, d \in Int : Row(h, a, key, d) \in Rows
      BY DEF Row, Rows
    <2>4. row \in Rows
      BY <2>1, <2>2, <2>3 DEF CreditRow
    <2>5. pend' \in [Calls -> SUBSET Rows]
      BY <2>4 DEF TypeOK
    <2>6. pc' \in [Calls -> CandyLabels]
      BY DEF TypeOK, CandyLabels, TransferLabels
    <2> QED
      BY <2>5, <2>6 DEF TypeOK
  <1>3. Routed'
    BY <1>1 DEF Routed, TransferLabels
  <1>4. LocksHeld'
    BY <1>1 DEF LocksHeld, TypeOK
  <1>5. RowsPending'
    <2>1. \A g \in Calls \ {h} : RowsWritten(g)' = RowsWritten(g)
      BY <1>1 DEF RowsWritten, AdjustKey, CreditRow
    <2>2. pend'[h] = RowsWritten(h)'
      BY <1>1 DEF RowsPending, RowsWritten, AdjustKey, CreditRow
    <2> QED
      BY <1>1, <2>1, <2>2 DEF RowsPending
  <1>6. FundsHeld'
    BY <1>1 DEF FundsHeld
  <1> QED
    BY <1>2, <1>3, <1>4, <1>5, <1>6

\* What a call is about to commit: the row of an adjust, the two of a transfer.
LEMMA PendingAdjust ==
    ASSUME Inv, NEW h \in Calls, pc[h] = "fk"
    PROVE  pend[h] = {Row(h, req[h].agent, AdjustKey(h), req[h].n)}
  BY DEF Inv, Isolation, RowsPending, RowsWritten

\* The two rows of a transfer that is about to commit (handlers.go:388-406).
LEMMA PendingTransfer ==
    ASSUME Inv, NEW h \in Calls, pc[h] = "commit"
    PROVE  pend[h] = {Row(h, req[h].agent, Key("out", h), -req[h].n), CreditRow(h)}
  BY DEF Inv, Isolation, RowsPending, RowsWritten

\* What a commit posts to an agent, it posts under the agent's lock, or while
\* nobody has that lock: the foreign key of candy_ledger, or FOR UPDATE.
LEMMA PostsUnderLock ==
    ASSUME Inv, NEW h \in Calls, NEW a \in Agents, lock[a] \notin {NoCall, h},
           (pc[h] = "fk" /\ CanLock(h, req[h].agent)) \/ pc[h] = "commit"
    PROVE  Posted(h, a) = 0
  <1>1. \A r \in pend[h] : r.agent # a
    <2>1. CASE pc[h] = "fk"
      <3>1. pend[h] = {Row(h, req[h].agent, AdjustKey(h), req[h].n)}
        BY <2>1, PendingAdjust
      <3>2. req[h].agent # a
        BY <2>1 DEF CanLock
      <3> QED
        BY <3>1, <3>2 DEF Row
    <2>2. CASE pc[h] = "commit"
      <3>1. pend[h] = {Row(h, req[h].agent, Key("out", h), -req[h].n), CreditRow(h)}
        BY <2>2, PendingTransfer
      <3>2. req[h].agent # a /\ req[h].peer # a
        BY <2>2 DEF Inv, Isolation, LocksHeld
      <3> QED
        BY <3>1, <3>2 DEF Row, CreditRow
    <2> QED
      BY <2>1, <2>2
  <1> QED
    BY <1>1, PostedElsewhere

\* A commit publishes the call's rows and frees its locks; the balances that
\* other open transfers have checked are not touched by it.
LEMMA CommitInv ==
    ASSUME Inv, NEW h \in Calls, NEW codes \in SUBSET CandyAnswers,
           (pc[h] = "fk" /\ CanLock(h, req[h].agent)) \/ pc[h] = "commit",
           Commit(h, codes), transfers' \subseteq Paper
    PROVE  Inv'
  <1> USE DEF Inv, Isolation, Commit, EndTx, Answer, PublishRows
  <1>1. /\ pc'[h] = "done" /\ pend'[h] = {}
        /\ \A g \in Calls \ {h} : pc'[g] = pc[g] /\ pend'[g] = pend[g]
        /\ \A g : LockOrder(g)' = LockOrder(g)
        /\ UNCHANGED req
    BY DEF LockOrder, TypeOK
  <1>2. TypeOK'
    <2>1. ledger' \subseteq Rows /\ transfers' \subseteq Paper
      BY DEF TypeOK
    <2>2. balance' \in [Agents -> Int]
      BY PostedIsInt DEF TypeOK
    <2>3. pc' \in [Calls -> CandyLabels] /\ resp' \in [Calls -> CandyAnswers]
      BY DEF TypeOK, CandyLabels
    <2>4. lock' \in [Agents -> Calls \cup {NoCall}] /\ pend' \in [Calls -> SUBSET Rows]
      BY DEF TypeOK
    <2> QED
      BY <2>1, <2>2, <2>3, <2>4, <1>1 DEF TypeOK
  <1>3. Routed'
    BY <1>1 DEF Routed, TransferLabels
  <1>4. LocksHeld'
    <2>1. \A g \in Calls \ {h} : pc'[g] = "lock2" => lock'[LockOrder(g)[1]] = g
      BY <1>1, RequestType, LockOrderRows DEF LocksHeld
    <2>2. \A g \in Calls \ {h} : pc'[g] \in Locked =>
             lock'[req[g].agent] = g /\ lock'[req[g].peer] = g
      BY <1>1, RequestType DEF LocksHeld, Locked
    <2>3. \A a \in Agents : lock'[a] # NoCall => lock'[a] = lock[a] /\ lock'[a] # h
      BY NoCallIsNotACall
    <2> QED
      BY <1>1, <2>1, <2>2, <2>3 DEF LocksHeld, TypeOK, Locked
  <1>5. RowsPending'
    <2>1. \A g \in Calls \ {h} : RowsWritten(g)' = RowsWritten(g)
      BY <1>1 DEF RowsWritten, AdjustKey, CreditRow
    <2>2. RowsWritten(h)' = {}
      BY <1>1 DEF RowsWritten
    <2> QED
      BY <1>1, <2>1, <2>2 DEF RowsPending
  <1>6. FundsHeld'
    <2> SUFFICES ASSUME NEW g \in Calls, pc'[g] \in {"insert", "debit", "credit", "commit"}
                 PROVE  balance'[req[g].agent] >= req[g].n
      BY <1>1 DEF FundsHeld
    <2>1. g # h /\ pc[g] = pc'[g]
      BY <1>1
    <2>2. req[g].agent \in Agents /\ lock[req[g].agent] = g
      BY <2>1, RequestType DEF LocksHeld
    <2>3. Posted(h, req[g].agent) = 0
      BY <2>1, <2>2, PostsUnderLock, NoCallIsNotACall
    <2>4. balance'[req[g].agent] = balance[req[g].agent]
      BY <2>2, <2>3 DEF TypeOK
    <2> QED
      BY <2>1, <2>4 DEF FundsHeld
  <1> QED
    BY <1>2, <1>3, <1>4, <1>5, <1>6

\* An administrator enables or disables an agent.
LEMMA PatchInv ==
    ASSUME Inv, NEW h \in Calls, Patch(h)
    PROVE  Inv'
  <1> USE DEF Inv, Isolation, Patch, PatchAgent, Answer
  <1>1. /\ pc'[h] = "done" /\ pc[h] = "patch"
        /\ \A g \in Calls \ {h} : pc'[g] = pc[g]
        /\ \A g : LockOrder(g)' = LockOrder(g)
    BY DEF LockOrder, TypeOK
  <1>2. TypeOK'
    BY RequestType DEF TypeOK, CandyLabels, CandyAnswers
  <1>3. Routed'
    BY <1>1 DEF Routed, TransferLabels
  <1>4. LocksHeld'
    BY <1>1 DEF LocksHeld, TypeOK
  <1>5. RowsPending'
    <2>1. \A g \in Calls \ {h} : RowsWritten(g)' = RowsWritten(g)
      BY <1>1 DEF RowsWritten, AdjustKey, CreditRow
    <2>2. RowsWritten(h) = {} /\ RowsWritten(h)' = {}
      BY <1>1 DEF RowsWritten
    <2> QED
      BY <2>1, <2>2 DEF RowsPending
  <1>6. FundsHeld'
    BY <1>1 DEF FundsHeld
  <1> QED
    BY <1>2, <1>3, <1>4, <1>5, <1>6

-----------------------------------------------------------------------------
(* The invariant, and what follows from it. *)

\* Every step, of any handler or of a failure, preserves Inv.
LEMMA NextInv == Inv /\ [CandyNext]_vars => Inv'
  <1> SUFFICES ASSUME Inv, [CandyNext]_vars PROVE Inv'
    OBVIOUS
  <1>1. ASSUME NEW h \in Calls, ReceiveCandy(h) PROVE Inv'
    BY <1>1, ReceiveInv
  <1>2. ASSUME NEW h \in Calls, BeginCandy(h) PROVE Inv'
    <2> DEFINE label == FirstStatement(req[h])
    <2>1. /\ label \in {"post", "patch", "lock1"}
          /\ label = "lock1" <=> req[h].op = "transfer"
      BY <1>2 DEF BeginCandy, FirstStatement, CandyOps
    <2> QED
      BY <1>2, <2>1, GotoInv DEF BeginCandy, Begin, CandyLabels, TransferLabels
  <1>3. ASSUME NEW h \in Calls, Patch(h) PROVE Inv'
    BY <1>3, PatchInv
  <1>4. ASSUME NEW h \in Calls, AdjustInsert(h) PROVE Inv'
    <2>1. CASE Rollback(h, "duplicate")
      BY <1>4, <2>1, RollbackInv DEF AdjustInsert, CandyAnswers
    <2>2. CASE Write(h, Row(h, req[h].agent, AdjustKey(h), req[h].n), "fk")
      BY <1>4, <2>2, WriteInv DEF AdjustInsert
    <2> QED
      BY <1>4, <2>1, <2>2 DEF AdjustInsert
  <1>5. ASSUME NEW h \in Calls, AdjustCommit(h) PROVE Inv'
    <2>1. transfers' \subseteq Paper
      BY <1>5 DEF AdjustCommit, Inv, TypeOK
    <2>2. {"ok", "error"} \in SUBSET CandyAnswers
      BY DEF CandyAnswers
    <2> QED
      BY <1>5, <2>1, <2>2, CommitInv DEF AdjustCommit
  <1>6. ASSUME NEW h \in Calls, TransferResolve(h) PROVE Inv'
    <2>1. CASE Goto(h, "begin") /\ req[h].peer # req[h].agent
      BY <1>6, <2>1, GotoInv DEF TransferResolve, dbVars, CandyLabels, TransferLabels
    <2>2. ASSUME NEW code \in {"notfound", "self"}, Answer(h, code) PROVE Inv'
      BY <1>6, <2>2, AnswerInv DEF TransferResolve, dbVars, CandyAnswers
    <2> QED
      BY <1>6, <2>1, <2>2 DEF TransferResolve
  <1>7. ASSUME NEW h \in Calls, TransferLock1(h) \/ TransferLock2(h) PROVE Inv'
    BY <1>7, LockInv
  <1>8. ASSUME NEW h \in Calls, TransferCheck(h) PROVE Inv'
    <2>1. CASE Rollback(h, "insufficient")
      BY <1>8, <2>1, RollbackInv DEF TransferCheck, CandyAnswers
    <2>2. CASE Covers(h) /\ Goto(h, "insert") /\ UNCHANGED dbVars
      BY <1>8, <2>2, GotoInv DEF TransferCheck, Covers, CandyLabels, TransferLabels
    <2> QED
      BY <1>8, <2>1, <2>2 DEF TransferCheck
  <1>9. ASSUME NEW h \in Calls, TransferInsert(h) PROVE Inv'
    <2>1. CASE Rollback(h, "duplicate")
      BY <1>9, <2>1, RollbackInv DEF TransferInsert, CandyAnswers
    <2>2. CASE Goto(h, "debit") /\ UNCHANGED dbVars
      BY <1>9, <2>2, GotoInv DEF TransferInsert, CandyLabels, TransferLabels
    <2> QED
      BY <1>9, <2>1, <2>2 DEF TransferInsert
  <1>10. ASSUME NEW h \in Calls, TransferDebit(h) PROVE Inv'
    BY <1>10, WriteInv DEF TransferDebit
  <1>11. ASSUME NEW h \in Calls, TransferCredit(h) PROVE Inv'
    BY <1>11, WriteInv DEF TransferCredit
  <1>12. ASSUME NEW h \in Calls, TransferCommit(h) PROVE Inv'
    <2>1. TransferRow(h) \in Paper
      <3>1. req[h].n > 0
        BY <1>12 DEF TransferCommit, Inv, Isolation, Routed, TransferLabels
      <3> QED
        BY <1>12, <3>1, RequestType DEF TransferCommit, TransferRow, Paper
    <2>2. transfers' \subseteq Paper
      BY <1>12, <2>1 DEF TransferCommit, Inv, TypeOK
    <2>3. {"ok", "error"} \in SUBSET CandyAnswers
      BY DEF CandyAnswers
    <2> QED
      BY <1>12, <2>2, <2>3, CommitInv DEF TransferCommit
  <1>13. ASSUME NEW h \in Calls, Abort(h) PROVE Inv'
    <2>1. FailAnswer(h) \in CandyAnswers
      BY DEF FailAnswer, CandyAnswers
    <2> QED
      BY <1>13, <2>1, RollbackInv DEF Abort, Open
  <1>14. CASE UNCHANGED vars
    BY <1>14 DEF vars, Inv, TypeOK, Isolation, Routed, LocksHeld, LockOrder, RowsPending,
                 RowsWritten, AdjustKey, CreditRow, FundsHeld
  <1> QED
    BY <1>1, <1>2, <1>3, <1>4, <1>5, <1>6, <1>7, <1>8, <1>9, <1>10, <1>11, <1>12, <1>13, <1>14
       DEF CandyNext, Handle, Transfer, Finished

\* Inv holds in every reachable state.
LEMMA Invariance == CandySpec => []Inv
  BY InitInv, NextInv, PTL DEF CandySpec

\* Every table and every local variable keeps its type.
THEOREM TypeCorrect == CandySpec => []TypeOK
  <1>1. Inv => TypeOK
    BY DEF Inv
  <1> QED
    BY <1>1, Invariance, PTL

\* Transactions are isolated: a transfer between its locks and its commit keeps
\* both agents' rows, its uncommitted rows are its own, and the balance it has
\* checked covers its amount whatever other calls commit.
THEOREM TransactionsAreIsolated == CandySpec => []Isolation
  <1>1. Inv => Isolation
    BY DEF Inv
  <1> QED
    BY <1>1, Invariance, PTL

\* The commit of a transfer leaves the payer with what it had less the amount.
LEMMA CommitTakesAmount ==
    ASSUME Inv, NEW h \in Calls, pc[h] = "commit"
    PROVE  Posted(h, req[h].agent) = -req[h].n
  <1> DEFINE out == Row(h, req[h].agent, Key("out", h), -req[h].n)
  <1>1. pend[h] = {out, CreditRow(h)}
    BY PendingTransfer
  <1>2. req[h].peer # req[h].agent
    BY DEF Inv, Isolation, Routed, TransferLabels
  <1>3. out.agent = req[h].agent /\ out.delta = -req[h].n /\ CreditRow(h).agent = req[h].peer
    BY DEF Row, CreditRow
  <1> QED
    BY <1>1, <1>2, <1>3, PostedOneRow

\* No transfer leaves its payer below zero, for any number of concurrent calls.
THEOREM NoOverdraft == CandySpec => TransfersNeverOverdraw
  <1>1. Inv /\ [CandyNext]_vars => [\A t \in transfers' \ transfers : balance'[t.from] >= 0]_vars
    <2> SUFFICES ASSUME Inv, CandyNext, NEW t \in transfers' \ transfers
                 PROVE  balance'[t.from] >= 0
      OBVIOUS
    <2>1. PICK h \in Calls : TransferCommit(h)
      BY DEF CandyNext, Handle, Transfer, Finished, vars, ReceiveCandy, BeginCandy, Patch,
             AdjustInsert, AdjustCommit, TransferResolve, TransferLock1, TransferLock2,
             TransferCheck, TransferInsert, TransferDebit, TransferCredit, Abort
    <2>2. t.from = req[h].agent
      BY <2>1 DEF TransferCommit, TransferRow
    <2>3. /\ req[h].agent \in Agents /\ req[h].n \in Int
          /\ balance[req[h].agent] \in Int /\ balance[req[h].agent] >= req[h].n
      BY <2>1, RequestType DEF TransferCommit, Inv, Isolation, FundsHeld, TypeOK
    <2>4. balance'[req[h].agent] = balance[req[h].agent] - req[h].n
      BY <2>1, <2>3, CommitTakesAmount DEF TransferCommit, Commit, PublishRows
    <2> QED
      BY <2>2, <2>3, <2>4
  <1> QED
    BY <1>1, Invariance, PTL DEF CandySpec, TransfersNeverOverdraw
=============================================================================
