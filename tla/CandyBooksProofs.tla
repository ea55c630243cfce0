-------------------------- MODULE CandyBooksProofs --------------------------
(***************************************************************************)
(* What the candy ledger has in its books, for any agents, keys, calls and *)
(* requests: a key takes effect once, a transfer is its two rows, an       *)
(* answer tells the truth, no calls wait in a circle, the handlers         *)
(* implement CandyBook.  Books strengthens Inv to an inductive invariant.  *)
(* The last part is about the model: its balances are sums of rows.        *)
(***************************************************************************)
EXTENDS CandyLedgerProofs, FiniteSetTheorems, WellFoundedInduction

Adjusts  == {"adjust", "adminAdjust"}
Postings == Adjusts \cup {"transfer"}

\* Labels of a transfer whose key is in the unique index, not committed.
Claiming == {"debit", "credit", "commit"}

\* The rows a call puts into the ledger when it commits.
RowsOf(h) ==
    IF req[h].op = "transfer"
    THEN {Row(h, req[h].agent, Key("out", h), -req[h].n), CreditRow(h)}
    ELSE {Row(h, req[h].agent, AdjustKey(h), req[h].n)}

\* A commit may be answered "error" when its acknowledgement is lost.
Committed(h) == pc[h] = "done" /\ resp[h] \in {"ok", "error"}

Progress ==
    \A h \in Calls :
        /\ resp[h] # "none" => pc[h] = "done"
        /\ pc[h] = "patch" => req[h].op \in {"enable", "disable"}
        /\ pc[h] \in {"begin", "post", "fk"} /\ req[h].op \in Adjusts => req[h].n # 0

\* A committed row is an agent's seed or was committed by a call that has ended.
RowsHaveCalls ==
    \A r \in ledger :
        \/ r = SeedRow(r.agent)
        \/ \E h \in Calls : /\ Committed(h) /\ r \in RowsOf(h)
                            /\ req[h].op \in Postings
                            /\ req[h].op = "transfer" => TransferRow(h) \in transfers

TransfersHaveRows ==
    \A t \in transfers :
        /\ Committed(t.id) /\ req[t.id].op = "transfer"
        /\ t = TransferRow(t.id) /\ RowsOf(t.id) \subseteq ledger

\* A key that is in a unique index and not committed is in no committed row, and
\* no other open call has it.
KeysReserved ==
    /\ \A h \in Calls : pc[h] = "fk" => ~Taken(req[h].agent, AdjustKey(h))
    /\ \A h \in Calls : pc[h] \in Claiming => ~Paid(req[h].key)
    /\ \A g, h \in Calls :
         /\ pc[g] = "fk" /\ pc[h] = "fk" =>
              (req[g].agent = req[h].agent /\ AdjustKey(g) = AdjustKey(h) => g = h)
         /\ pc[g] \in Claiming /\ pc[h] \in Claiming =>
              (req[g].key = req[h].key => g = h)

Books == /\ Progress /\ RowsHaveCalls /\ TransfersHaveRows /\ KeysReserved
         /\ OneRowPerKey /\ AnswersAreTrue

-----------------------------------------------------------------------------
(* The kinds of steps: a quiet one leaves the books alone, a commit does    *)
(* not.                                                                      *)

OnlyCall(h) ==
    \A g \in Calls \ {h} :
        pc'[g] = pc[g] /\ req'[g] = req[g] /\ resp'[g] = resp[g] /\ pend'[g] = pend[g]

Quiet(h) ==
    /\ OnlyCall(h)
    /\ UNCHANGED <<ledger, balance, transfers>>
    /\ pc[h] # "done" /\ pc'[h] # "idle"
    /\ pc[h] # "idle" => req'[h] = req[h]
    /\ resp'[h] # "none" => pc'[h] = "done"
    /\ resp'[h] = "ok" => req'[h].op \in {"enable", "disable"}
    /\ resp'[h] = "duplicate" /\ req'[h].op = "adjust" =>
         Taken(req[h].agent, AdjustKey(h)) /\ req'[h] = req[h]
    /\ pc'[h] = "patch" => req'[h].op \in {"enable", "disable"}
    /\ pc'[h] \in {"begin", "post", "fk"} /\ req'[h].op \in Adjusts => req'[h].n # 0
    /\ pc'[h] = "fk" => /\ pc[h] = "post"
                        /\ ~Taken(req[h].agent, AdjustKey(h))
                        /\ Writing(h, req[h].agent, AdjustKey(h)) = {}
    /\ pc'[h] \in Claiming => \/ pc[h] \in Claiming
                              \/ /\ pc[h] = "insert" /\ ~Paid(req[h].key)
                                 /\ Paying(h, req[h].key) = {}

CommitStep(h) ==
    /\ OnlyCall(h)
    /\ UNCHANGED req
    /\ pc'[h] = "done" /\ resp'[h] \in {"ok", "error"}
    /\ ledger' = ledger \cup pend[h] /\ pend[h] = RowsOf(h)
    /\ \/ /\ pc[h] = "fk" /\ req[h].op \in Adjusts /\ req[h].n # 0
          /\ UNCHANGED transfers
       \/ /\ pc[h] = "commit" /\ req[h].op = "transfer"
          /\ transfers' = transfers \cup {TransferRow(h)}

\* A call that arrives leaves the books alone.
LEMMA ReceiveIsQuiet ==
    ASSUME Inv, Books, NEW h \in Calls, ReceiveCandy(h)
    PROVE  Quiet(h)
  <1>1. PICK r \in CandyRequests :
          /\ req' = [req EXCEPT ![h] = r]
          /\ \/ pc' = [pc EXCEPT ![h] = "done"] /\ resp' = [resp EXCEPT ![h] = "unauthorized"]
             \/ pc' = [pc EXCEPT ![h] = "done"] /\ resp' = [resp EXCEPT ![h] = "invalid"]
             \/ ~Invalid(r) /\ pc' = [pc EXCEPT ![h] = Entry(r)] /\ UNCHANGED resp
    BY DEF ReceiveCandy, Receive
  <1>2. pc[h] = "idle" /\ resp[h] = "none" /\ UNCHANGED <<ledger, balance, transfers, pend>>
    BY DEF ReceiveCandy, Receive, dbVars, Books, Progress
  <1>3. r.op \in CandyOps /\ Entry(r) \in {"resolve", "begin"}
    BY DEF CandyRequests, Entry, CandyOps
  <1>4. ~Invalid(r) /\ r.op \in Adjusts => r.n # 0
    BY DEF Invalid, Adjusts
  <1>5. OnlyCall(h) /\ req'[h] = r
    BY <1>1, <1>2 DEF OnlyCall, Inv, TypeOK
  <1> QED
    BY <1>1, <1>2, <1>3, <1>4, <1>5 DEF Quiet, Inv, TypeOK, Claiming

\* So does a step from one statement to the next.
LEMMA GotoIsQuiet ==
    ASSUME Inv, Books, NEW h \in Calls, pc[h] \notin {"idle", "done"},
           NEW label \in CandyLabels \ {"idle", "done"}, Goto(h, label),
           UNCHANGED <<ledger, balance, transfers>>,
           \A g \in Calls \ {h} : pend'[g] = pend[g],
           label \in {"begin", "post", "patch"} => pc[h] \in {"resolve", "begin"},
           label = "patch" => req[h].op \in {"enable", "disable"},
           label \in {"post"} => pc[h] = "begin",
           label = "begin" => req[h].op = "transfer",
           label = "fk" => /\ pc[h] = "post"
                           /\ ~Taken(req[h].agent, AdjustKey(h))
                           /\ Writing(h, req[h].agent, AdjustKey(h)) = {},
           label \in Claiming => \/ pc[h] \in Claiming
                                 \/ /\ pc[h] = "insert" /\ ~Paid(req[h].key)
                                    /\ Paying(h, req[h].key) = {}
    PROVE  Quiet(h)
  <1>1. pc'[h] = label /\ OnlyCall(h) /\ UNCHANGED <<req, resp>>
    BY DEF Goto, OnlyCall, Inv, TypeOK
  <1>2. resp[h] = "none"
    BY DEF Books, Progress
  <1>3. label \in {"begin", "post", "fk"} /\ req[h].op \in Adjusts => req[h].n # 0
    BY DEF Books, Progress, Adjusts
  <1> QED
    BY <1>1, <1>2, <1>3 DEF Quiet

\* So does an end without a commit.
LEMMA RefusalIsQuiet ==
    ASSUME Inv, Books, NEW h \in Calls, pc[h] \notin {"idle", "done"},
           NEW code \in CandyAnswers, Answer(h, code),
           UNCHANGED <<ledger, balance, transfers>>,
           \A g \in Calls \ {h} : pend'[g] = pend[g],
           code = "ok" => req[h].op \in {"enable", "disable"},
           code = "duplicate" /\ req[h].op = "adjust" => Taken(req[h].agent, AdjustKey(h))
    PROVE  Quiet(h)
  <1>1. pc'[h] = "done" /\ resp'[h] = code /\ OnlyCall(h) /\ UNCHANGED req
    BY DEF Answer, OnlyCall, Inv, TypeOK
  <1> QED
    BY <1>1 DEF Quiet, Claiming

\* Every step of a call leaves the books alone or is its commit.
LEMMA StepKinds ==
    ASSUME Inv, Books, NEW h \in Calls, ReceiveCandy(h) \/ Handle(h) \/ Abort(h)
    PROVE  Quiet(h) \/ (CommitStep(h) /\ (AdjustCommit(h) \/ TransferCommit(h)))
  <1>1. ASSUME ReceiveCandy(h) PROVE Quiet(h)
    BY <1>1, ReceiveIsQuiet
  <1>2. ASSUME BeginCandy(h) PROVE Quiet(h)
    <2>1. /\ FirstStatement(req[h]) \in {"post", "patch", "lock1"}
          /\ FirstStatement(req[h]) = "patch" => req[h].op \in {"enable", "disable"}
      BY <1>2 DEF BeginCandy, FirstStatement, CandyOps
    <2> QED
      BY <1>2, <2>1, GotoIsQuiet
         DEF BeginCandy, Begin, CandyLabels, TransferLabels, dbVars, Claiming
  <1>3. ASSUME Patch(h) PROVE Quiet(h)
    <2>1. PICK code \in {"ok", "notfound"} : Answer(h, code)
      BY <1>3 DEF Patch, PatchAgent
    <2>2. req[h].op \in {"enable", "disable"}
      BY <1>3 DEF Patch, PatchAgent, Books, Progress
    <2> QED
      BY <1>3, <2>1, <2>2, RefusalIsQuiet DEF Patch, PatchAgent, CandyAnswers
  <1>4. ASSUME NEW code \in CandyAnswers \ {"ok"}, Rollback(h, code), pc[h] \notin {"idle", "done"},
               UNCHANGED transfers,
               code = "duplicate" /\ req[h].op = "adjust" => Taken(req[h].agent, AdjustKey(h))
        PROVE  Quiet(h)
    <2>1. \A g \in Calls \ {h} : pend'[g] = pend[g]
      BY <1>4 DEF Rollback, EndTx, Inv, TypeOK
    <2> QED
      BY <1>4, <2>1, RefusalIsQuiet DEF Rollback
  <1>5. ASSUME AdjustInsert(h) PROVE Quiet(h)
    <2>1. CASE Duplicate(h) /\ Rollback(h, "duplicate")
      BY <1>5, <2>1, <1>4 DEF AdjustInsert, Duplicate, CandyAnswers
    <2>2. CASE ~Duplicate(h) /\ Write(h, Row(h, req[h].agent, AdjustKey(h), req[h].n), "fk")
      <3>1. \A g \in Calls \ {h} : pend'[g] = pend[g]
        BY <2>2 DEF Write, Inv, TypeOK
      <3> QED
        BY <1>5, <2>2, <3>1, GotoIsQuiet
           DEF AdjustInsert, Duplicate, Write, CandyLabels, Claiming
    <2> QED
      BY <1>5, <2>1, <2>2 DEF AdjustInsert
  <1>6. ASSUME AdjustCommit(h) PROVE CommitStep(h)
    <2>1. pend[h] = RowsOf(h) /\ req[h].op \in Adjusts /\ req[h].n # 0
      BY <1>6, PendingAdjust
         DEF AdjustCommit, RowsOf, Inv, Isolation, Routed, Books, Progress, Adjusts
    <2> QED
      BY <1>6, <2>1
         DEF AdjustCommit, CommitStep, OnlyCall, Commit, PublishRows, EndTx, Answer, Inv, TypeOK
  <1>7. ASSUME TransferResolve(h) PROVE Quiet(h)
    <2>1. CASE Goto(h, "begin")
      <3>1. req[h].op = "transfer"
        BY <1>7 DEF TransferResolve, Inv, Isolation, Routed, TransferLabels
      <3> QED
        BY <1>7, <2>1, <3>1, GotoIsQuiet DEF TransferResolve, CandyLabels, Claiming
    <2>2. ASSUME NEW code \in {"notfound", "self"}, Answer(h, code) PROVE Quiet(h)
      BY <1>7, <2>2, RefusalIsQuiet DEF TransferResolve, CandyAnswers
    <2> QED
      BY <1>7, <2>1, <2>2 DEF TransferResolve
  <1>8. ASSUME TransferLock1(h) \/ TransferLock2(h) PROVE Quiet(h)
    BY <1>8, GotoIsQuiet
       DEF TransferLock1, TransferLock2, LockAgent, CandyLabels, TransferLabels, Claiming
  <1>9. ASSUME TransferCheck(h) PROVE Quiet(h)
    <2>1. CASE Rollback(h, "insufficient")
      BY <1>9, <2>1, <1>4 DEF TransferCheck, CandyAnswers
    <2>2. CASE Goto(h, "insert") /\ UNCHANGED dbVars
      BY <1>9, <2>2, GotoIsQuiet DEF TransferCheck, dbVars, CandyLabels, TransferLabels, Claiming
    <2> QED
      BY <1>9, <2>1, <2>2 DEF TransferCheck
  <1>10. ASSUME TransferInsert(h) PROVE Quiet(h)
    <2>1. CASE Rollback(h, "duplicate")
      <3>1. req[h].op = "transfer"
        BY <1>10 DEF TransferInsert, Inv, Isolation, Routed, TransferLabels
      <3> QED
        BY <1>10, <2>1, <3>1, <1>4 DEF TransferInsert, CandyAnswers
    <2>2. CASE ~Paid(req[h].key) /\ Goto(h, "debit") /\ UNCHANGED dbVars
      BY <1>10, <2>2, GotoIsQuiet DEF TransferInsert, dbVars, CandyLabels, TransferLabels
    <2> QED
      BY <1>10, <2>1, <2>2 DEF TransferInsert
  <1>11. ASSUME NEW row, NEW label \in {"credit", "commit"}, Write(h, row, label),
                pc[h] \in Claiming, UNCHANGED transfers
         PROVE  Quiet(h)
    <2>1. \A g \in Calls \ {h} : pend'[g] = pend[g]
      BY <1>11 DEF Write, Inv, TypeOK
    <2> QED
      BY <1>11, <2>1, GotoIsQuiet DEF Write, CandyLabels, TransferLabels, Claiming
  <1>12. ASSUME TransferDebit(h) \/ TransferCredit(h) PROVE Quiet(h)
    BY <1>11, <1>12 DEF TransferDebit, TransferCredit, Claiming
  <1>13. ASSUME TransferCommit(h) PROVE CommitStep(h)
    <2>1. pend[h] = RowsOf(h) /\ req[h].op = "transfer"
      BY <1>13, PendingTransfer
         DEF TransferCommit, RowsOf, Inv, Isolation, Routed, TransferLabels
    <2> QED
      BY <1>13, <2>1
         DEF TransferCommit, CommitStep, OnlyCall, Commit, PublishRows, EndTx, Answer, Inv, TypeOK
  <1>14. ASSUME Abort(h) PROVE Quiet(h)
    <2>1. FailAnswer(h) \in CandyAnswers \ {"ok"}
      BY DEF FailAnswer, CandyAnswers
    <2>2. FailAnswer(h) = "duplicate" => req[h].op = "transfer"
      BY DEF FailAnswer, Inv, Isolation, Routed, TransferLabels
    <2> QED
      BY <1>14, <2>1, <2>2, <1>4 DEF Abort, Open
  <1> QED
    BY <1>1, <1>2, <1>3, <1>5, <1>6, <1>7, <1>8, <1>9, <1>10, <1>12, <1>13, <1>14
       DEF Handle, Transfer

-----------------------------------------------------------------------------
(* Books is inductive, one lemma per part. *)

\* A call that has not ended has no row in the ledger and no transfer.
LEMMA OpenHasNoRows ==
    ASSUME Books, NEW h \in Calls, pc[h] # "done"
    PROVE  /\ \A r \in ledger : r.by # h
           /\ \A r \in ledger : r.key.kind \in {"out", "in", "admin"} => r.key.id # h
           /\ \A t \in transfers : t.id # h
  <1>1. \A g \in Calls : \A r \in RowsOf(g) :
            r.by = g /\ (r.key.kind \in {"out", "in", "admin"} => r.key.id = g)
    BY DEF RowsOf, CreditRow, AdjustKey, Row, Key
  <1>2. \A a : SeedRow(a).by = NoCall /\ SeedRow(a).key.kind = "seed"
    BY DEF SeedRow, Row, Key
  <1> QED
    BY <1>1, <1>2, NoCallIsNotACall DEF Books, RowsHaveCalls, TransfersHaveRows, Committed

\* The facts of a call that has ended do not change.
LEMMA EndedStays ==
    ASSUME NEW h \in Calls, OnlyCall(h), pc[h] # "done", NEW g \in Calls, pc[g] = "done"
    PROVE  /\ pc'[g] = pc[g] /\ resp'[g] = resp[g] /\ req'[g] = req[g]
           /\ Committed(g)' = Committed(g) /\ RowsOf(g)' = RowsOf(g)
           /\ TransferRow(g)' = TransferRow(g) /\ AdjustKey(g)' = AdjustKey(g)
  <1>1. pc'[g] = pc[g] /\ resp'[g] = resp[g] /\ req'[g] = req[g]
    BY DEF OnlyCall
  <1> QED
    BY <1>1 DEF Committed, RowsOf, CreditRow, TransferRow, AdjustKey

\* A step that leaves the books alone preserves Books.
LEMMA QuietKeepsBooks ==
    ASSUME Inv, Inv', Books, NEW h \in Calls, Quiet(h)
    PROVE  Books'
  <1> USE DEF Quiet
  <1>1. \A g \in Calls \ {h} :
          /\ pc'[g] = pc[g] /\ resp'[g] = resp[g] /\ req'[g] = req[g] /\ pend'[g] = pend[g]
          /\ AdjustKey(g)' = AdjustKey(g) /\ TransferRow(g)' = TransferRow(g)
    BY DEF OnlyCall, AdjustKey, TransferRow
  <1>2. Progress'
    BY <1>1 DEF Books, Progress
  <1>3. RowsHaveCalls'
    <2> SUFFICES ASSUME NEW r \in ledger, r # SeedRow(r.agent)
                 PROVE  \E g \in Calls :
                          /\ Committed(g)' /\ r \in RowsOf(g)' /\ req'[g].op \in Postings
                          /\ req'[g].op = "transfer" => TransferRow(g)' \in transfers'
      BY DEF RowsHaveCalls, SeedRow
    <2>1. PICK g \in Calls : /\ Committed(g) /\ r \in RowsOf(g) /\ req[g].op \in Postings
                             /\ req[g].op = "transfer" => TransferRow(g) \in transfers
      BY DEF Books, RowsHaveCalls
    <2>2. pc[g] = "done"
      BY <2>1 DEF Committed
    <2> QED
      BY <2>1, <2>2, EndedStays
  <1>4. TransfersHaveRows'
    BY EndedStays DEF Books, TransfersHaveRows, Committed, Inv, TypeOK, Paper
  <1>5. KeysReserved'
    <2>1. \A a, key : Taken(a, key)' = Taken(a, key)
      BY DEF Taken
    <2>2. \A key : Paid(key)' = Paid(key)
      BY DEF Paid
    <2>3. pc[h] # "idle" => AdjustKey(h)' = AdjustKey(h)
      BY DEF AdjustKey
    <2>4. \A g \in Calls : pc'[g] = "fk" => ~Taken(req[g].agent, AdjustKey(g))'
      BY <1>1, <2>1, <2>3 DEF Books, KeysReserved
    <2>5. \A g \in Calls : pc'[g] \in Claiming => ~Paid(req[g].key)'
      BY <1>1, <2>2 DEF Books, KeysReserved, Claiming
    <2>6. ASSUME NEW g \in Calls \ {h}, pc'[g] = "fk", pc'[h] = "fk",
                 req'[g].agent = req'[h].agent, AdjustKey(g)' = AdjustKey(h)'
          PROVE  FALSE
      <3>1. pend[g] = {Row(g, req[g].agent, AdjustKey(g), req[g].n)}
        BY <1>1, <2>6, PendingAdjust
      <3>2. \E r \in pend[g] : r.agent = req[h].agent /\ r.key = AdjustKey(h)
        BY <1>1, <2>3, <2>6, <3>1 DEF Row
      <3> QED
        BY <2>6, <3>2 DEF Writing
    <2>7. ASSUME NEW g \in Calls \ {h}, pc'[g] \in Claiming, pc'[h] \in Claiming,
                 req'[g].key = req'[h].key
          PROVE  FALSE
      <3>1. pc[g] \in Claiming /\ req[g].key = req[h].key
        BY <1>1, <2>7 DEF Claiming
      <3> QED
        BY <2>7, <3>1 DEF Books, KeysReserved, Paying, Claiming
    <2>8. \A g, k \in Calls : /\ pc'[g] = "fk" /\ pc'[k] = "fk" /\ req'[g].agent = req'[k].agent
                              /\ AdjustKey(g)' = AdjustKey(k)'
                              => g = k
      BY <1>1, <2>6 DEF Books, KeysReserved
    <2>9. \A g, k \in Calls : pc'[g] \in Claiming /\ pc'[k] \in Claiming
                              /\ req'[g].key = req'[k].key => g = k
      BY <1>1, <2>7 DEF Books, KeysReserved
    <2> QED
      BY <2>4, <2>5, <2>8, <2>9 DEF KeysReserved
  <1>6. OneRowPerKey'
    BY DEF Books, OneRowPerKey
  <1>7. AnswersAreTrue'
    <2> SUFFICES ASSUME NEW g \in Calls
                 PROVE  /\ resp'[g] = "ok" /\ req'[g].op \in {"adjust", "adminAdjust"} =>
                             Row(g, req'[g].agent, AdjustKey(g)', req'[g].n) \in ledger'
                        /\ resp'[g] = "ok" /\ req'[g].op = "transfer" =>
                             TransferRow(g)' \in transfers'
                        /\ resp'[g] \notin {"none", "ok", "error"} => \A r \in ledger' : r.by # g
                        /\ resp'[g] = "duplicate" /\ req'[g].op = "adjust" =>
                             Taken(req[g].agent, AdjustKey(g))'
      BY DEF AnswersAreTrue
    <2>1. CASE g = h
      <3>1. \A r \in ledger : r.by # h
        BY OpenHasNoRows
      <3>2. req'[h] = req[h] => AdjustKey(h)' = AdjustKey(h)
        BY DEF AdjustKey
      <3> QED
        BY <2>1, <3>1, <3>2 DEF Taken
    <2>2. CASE g # h
      BY <1>1, <2>2 DEF Books, AnswersAreTrue, Taken
    <2> QED
      BY <2>1, <2>2
  <1> QED
    BY <1>2, <1>3, <1>4, <1>5, <1>6, <1>7 DEF Books

\* A commit preserves Books.
LEMMA CommitKeepsBooks ==
    ASSUME Inv, Inv', Books, NEW h \in Calls, CommitStep(h)
    PROVE  Books'
  <1> USE DEF CommitStep
  <1>1. /\ \A g : RowsOf(g)' = RowsOf(g) /\ AdjustKey(g)' = AdjustKey(g)
                  /\ TransferRow(g)' = TransferRow(g)
        /\ ledger' = ledger \cup RowsOf(h)
        /\ pc[h] # "done" /\ req[h].op \in Postings
    BY DEF RowsOf, AdjustKey, CreditRow, TransferRow, Postings
  <1>2. \A g \in Calls \ {h} : pc'[g] = pc[g] /\ resp'[g] = resp[g]
    BY DEF OnlyCall
  <1>3. /\ \A g \in Calls : Committed(g) => Committed(g)' /\ g # h
        /\ Committed(h)'
    BY <1>1, <1>2 DEF Committed
  <1>4. \A r \in RowsOf(h) : r.by = h
    BY DEF RowsOf, CreditRow, Row
  <1>5. Progress'
    BY <1>2 DEF Books, Progress
  <1>6. RowsHaveCalls'
    <2>1. ASSUME NEW r \in ledger, r # SeedRow(r.agent)
          PROVE  \E g \in Calls : /\ Committed(g)' /\ r \in RowsOf(g) /\ req[g].op \in Postings
                                  /\ req[g].op = "transfer" => TransferRow(g) \in transfers'
      BY <1>3, <2>1 DEF Books, RowsHaveCalls
    <2>2. req[h].op = "transfer" => TransferRow(h) \in transfers'
      BY DEF Adjusts
    <2>3. \A r : SeedRow(r.agent)' = SeedRow(r.agent)
      BY DEF SeedRow
    <2> QED
      BY <1>1, <1>3, <2>1, <2>2, <2>3 DEF RowsHaveCalls
  <1>7. TransfersHaveRows'
    <2>1. ASSUME NEW t \in transfers
          PROVE  /\ Committed(t.id)' /\ req[t.id].op = "transfer"
                 /\ t = TransferRow(t.id) /\ RowsOf(t.id) \subseteq ledger'
      <3>1. t.id \in Calls
        BY DEF Inv, TypeOK, Paper
      <3> QED
        BY <1>1, <1>3, <3>1 DEF Books, TransfersHaveRows
    <2>2. TransferRow(h).id = h
      BY DEF TransferRow
    <2> QED
      BY <1>1, <1>3, <2>1, <2>2 DEF TransfersHaveRows
  <1>8. KeysReserved'
    <2>1. ASSUME NEW g \in Calls, pc'[g] = "fk"
          PROVE  ~Taken(req[g].agent, AdjustKey(g))'
      <3>1. g # h /\ pc[g] = "fk" /\ ~Taken(req[g].agent, AdjustKey(g))
        BY <1>2, <2>1 DEF Books, KeysReserved
      <3>2. \A r \in RowsOf(h) : ~(r.agent = req[g].agent /\ r.key = AdjustKey(g))
        <4>1. CASE req[h].op = "transfer"
          BY <4>1 DEF RowsOf, CreditRow, Row, Key, AdjustKey
        <4>2. CASE pc[h] = "fk" /\ req[h].op # "transfer"
          BY <4>2, <3>1 DEF Books, KeysReserved, RowsOf, Row
        <4> QED
          BY <4>1, <4>2
      <3> QED
        BY <1>1, <3>1, <3>2 DEF Taken
    <2>2. ASSUME NEW g \in Calls, pc'[g] \in Claiming
          PROVE  ~Paid(req[g].key)'
      <3>1. g # h /\ pc[g] \in Claiming /\ ~Paid(req[g].key)
        BY <1>2, <2>2 DEF Books, KeysReserved, Claiming
      <3>2. pc[h] = "commit" => req[h].key # req[g].key
        BY <3>1 DEF Books, KeysReserved, Claiming
      <3> QED
        BY <3>1, <3>2 DEF Paid, TransferRow
    <2>3. \A g \in Calls : pc'[g] = "fk" \/ pc'[g] \in Claiming => pc[g] = pc'[g]
      BY <1>2 DEF Claiming
    <2> QED
      BY <1>1, <2>1, <2>2, <2>3 DEF Books, KeysReserved, Claiming
  <1>9. OneRowPerKey'
    <2>1. ASSUME NEW r \in ledger, NEW s \in RowsOf(h), r.agent = s.agent, r.key = s.key
          PROVE  FALSE
      <3>1. CASE pc[h] = "fk"
        BY <2>1, <3>1 DEF Books, KeysReserved, Taken, RowsOf, Row, Adjusts
      <3>2. CASE req[h].op = "transfer"
        BY <1>1, <2>1, <3>2, OpenHasNoRows DEF RowsOf, CreditRow, Row, Key
      <3> QED
        BY <3>1, <3>2
    <2>2. \A r, s \in RowsOf(h) : r.agent = s.agent /\ r.key = s.key => r = s
      BY DEF RowsOf, CreditRow, Row, Key
    <2>3. \A r, s \in ledger' : r.agent = s.agent /\ r.key = s.key => r = s
      BY <1>1, <2>1, <2>2 DEF Books, OneRowPerKey
    <2>4. \A t, u \in transfers' : t.key = u.key => t = u
      <3>1. pc[h] = "commit" => \A t \in transfers : t.key # TransferRow(h).key
        BY DEF Books, KeysReserved, Claiming, Paid, TransferRow
      <3> QED
        BY <3>1 DEF Books, OneRowPerKey
    <2> QED
      BY <2>3, <2>4 DEF OneRowPerKey
  <1>10. AnswersAreTrue'
    <2>1. \A a, key : Taken(a, key) => Taken(a, key)'
      BY DEF Taken
    <2>2. ASSUME NEW g \in Calls \ {h}
          PROVE  /\ resp'[g] = "ok" /\ req[g].op \in {"adjust", "adminAdjust"} =>
                      Row(g, req[g].agent, AdjustKey(g), req[g].n) \in ledger'
                 /\ resp'[g] = "ok" /\ req[g].op = "transfer" => TransferRow(g) \in transfers'
                 /\ resp'[g] \notin {"none", "ok", "error"} => \A r \in ledger' : r.by # g
                 /\ resp'[g] = "duplicate" /\ req[g].op = "adjust" =>
                      Taken(req[g].agent, AdjustKey(g))'
      BY <1>1, <1>2, <1>4, <2>1 DEF Books, AnswersAreTrue
    <2>3. /\ resp'[h] = "ok" /\ req[h].op \in {"adjust", "adminAdjust"} =>
               Row(h, req[h].agent, AdjustKey(h), req[h].n) \in ledger'
          /\ resp'[h] = "ok" /\ req[h].op = "transfer" => TransferRow(h) \in transfers'
      BY <1>1 DEF RowsOf, Adjusts
    <2> QED
      BY <1>1, <2>2, <2>3 DEF AnswersAreTrue
  <1> QED
    BY <1>5, <1>6, <1>7, <1>8, <1>9, <1>10 DEF Books

\* Books holds when the server starts on the seeded tables.
LEMMA InitBooks == CandyInit => Books
  <1> SUFFICES ASSUME CandyInit PROVE Books
    OBVIOUS
  <1> USE DEF CandyInit, LedgerInit
  <1>1. Progress /\ KeysReserved /\ TransfersHaveRows
    BY DEF Progress, KeysReserved, TransfersHaveRows, Claiming
  <1>2. RowsHaveCalls /\ OneRowPerKey
    BY DEF RowsHaveCalls, OneRowPerKey, SeedRow, Row, Key
  <1>3. AnswersAreTrue
    BY DEF AnswersAreTrue
  <1> QED
    BY <1>1, <1>2, <1>3 DEF Books

\* Every step preserves Books.
LEMMA NextBooks == Inv /\ Inv' /\ Books /\ [CandyNext]_vars => Books'
  <1> SUFFICES ASSUME Inv, Inv', Books, [CandyNext]_vars PROVE Books'
    OBVIOUS
  <1>1. ASSUME NEW h \in Calls, ReceiveCandy(h) \/ Handle(h) \/ Abort(h) PROVE Books'
    BY <1>1, StepKinds, QuietKeepsBooks, CommitKeepsBooks
  <1>2. CASE UNCHANGED vars
    BY <1>2 DEF vars, Books, Progress, RowsHaveCalls, TransfersHaveRows, KeysReserved,
                OneRowPerKey, AnswersAreTrue, Committed, RowsOf, CreditRow, AdjustKey,
                TransferRow, Taken, Paid
  <1> QED
    BY <1>1, <1>2 DEF CandyNext, Finished

\* Books holds in every reachable state.
LEMMA BooksInvariance == CandySpec => [](Inv /\ Books)
  <1>1. CandyInit => Inv /\ Books
    BY InitInv, InitBooks
  <1>2. Inv /\ Books /\ [CandyNext]_vars => (Inv /\ Books)'
    BY NextInv, NextBooks
  <1> QED
    BY <1>1, <1>2, PTL DEF CandySpec

-----------------------------------------------------------------------------
(* What follows from Books. *)

\* A client's key takes effect at most once for an agent, and a transfer's key
\* at most once, whatever is retried at the same time.
THEOREM KeysTakeEffectOnce == CandySpec => []OneRowPerKey
  <1>1. Books => OneRowPerKey
    BY DEF Books
  <1> QED
    BY <1>1, BooksInvariance, PTL

\* An "ok" is answered only when the call's rows are committed, a refusal only
\* when none is, a "duplicate" to an adjust only when its key is in the books.
THEOREM AnswersTellTheTruth == CandySpec => []AnswersAreTrue
  <1>1. Books => AnswersAreTrue
    BY DEF Books
  <1> QED
    BY <1>1, BooksInvariance, PTL

\* A transfer is in the books as its two rows, and no such row is there alone.
THEOREM TransfersAreDoubleEntry == CandySpec => []DoubleEntry
  <1>1. Inv /\ Books => DoubleEntry
    <2> SUFFICES ASSUME Inv, Books PROVE DoubleEntry
      OBVIOUS
    <2>1. ASSUME NEW r \in ledger, r.key.kind \in {"out", "in"}
          PROVE  \E h \in Calls : /\ r \in RowsOf(h) /\ req[h].op = "transfer"
                                  /\ r.key.id = h /\ TransferRow(h) \in transfers
      <3>1. r # SeedRow(r.agent)
        BY <2>1 DEF SeedRow, Row, Key
      <3>2. PICK h \in Calls : /\ r \in RowsOf(h) /\ req[h].op \in Postings
                               /\ req[h].op = "transfer" => TransferRow(h) \in transfers
        BY <3>1 DEF Books, RowsHaveCalls
      <3> QED
        BY <2>1, <3>2 DEF RowsOf, CreditRow, AdjustKey, Row, Key
    <2>2. ASSUME NEW t \in transfers
          PROVE  {r \in ledger : r.key.kind \in {"out", "in"} /\ r.key.id = t.id}
                   = {Row(t.id, t.from, Key("out", t.id), -t.n),
                      Row(t.id, t.to, Key("in", t.id), t.n)}
      <3>1. /\ t = TransferRow(t.id) /\ RowsOf(t.id) \subseteq ledger
            /\ req[t.id].op = "transfer"
        BY DEF Books, TransfersHaveRows
      <3>2. t.from = req[t.id].agent /\ t.to = req[t.id].peer /\ t.n = req[t.id].n
        BY <3>1 DEF TransferRow
      <3>3. RowsOf(t.id) = {Row(t.id, t.from, Key("out", t.id), -t.n),
                            Row(t.id, t.to, Key("in", t.id), t.n)}
        BY <3>1, <3>2 DEF RowsOf, CreditRow
      <3>4. \A r \in RowsOf(t.id) : r.key.kind \in {"out", "in"} /\ r.key.id = t.id
        BY <3>3 DEF Row, Key
      <3> QED
        BY <2>1, <3>1, <3>3, <3>4
    <2>3. \A r \in ledger : r.key.kind \in {"out", "in"} => \E t \in transfers : t.id = r.key.id
      BY <2>1 DEF TransferRow
    <2> QED
      BY <2>2, <2>3 DEF DoubleEntry
  <1> QED
    BY <1>1, BooksInvariance, PTL

-----------------------------------------------------------------------------
(* Nobody waits in a circle. *)

\* Among subsets of a finite set one has no other of them inside it: the smallest.
LEMMA FiniteMinimal ==
    ASSUME NEW S, IsFiniteSet(S), NEW B, \A s \in B : s \subseteq S, B # {}
    PROVE  \E s \in B : \A t \in B : t \subseteq s => t = s
  <1> DEFINE Sizes == {Cardinality(s) : s \in B}
             Less  == OpToRel(<, Nat)
  <1>1. \A s \in B : IsFiniteSet(s) /\ Cardinality(s) \in Nat
    BY FS_Subset, FS_CardinalityType
  <1>2. Sizes \subseteq Nat /\ Sizes # {}
    BY <1>1
  <1>3. PICK n \in Sizes : \A m \in Sizes : <<m, n>> \notin Less
    <2> HIDE DEF Sizes, Less
    <2> QED
      BY <1>2, WFMin, NatLessThanWellFounded DEF Less
  <1>4. PICK s \in B : n = Cardinality(s)
    OBVIOUS
  <1>5. ASSUME NEW t \in B, t \subseteq s, t # s
        PROVE  FALSE
    <2>1. Cardinality(t) <= n /\ Cardinality(t) # n
      BY <1>1, <1>4, <1>5, FS_Subset
    <2>2. <<Cardinality(t), n>> \in Less
      BY <1>1, <1>2, <2>1 DEF OpToRel
    <2> QED
      BY <1>3, <2>2
  <1> QED
    BY <1>5

\* A finite set has a member on which f is greatest: one with no more above it.
LEMMA FiniteMax ==
    ASSUME NEW S, IsFiniteSet(S), S # {}, NEW f \in [S -> Int]
    PROVE  \E x \in S : \A y \in S : f[y] <= f[x]
  <1> DEFINE Above(x) == {y \in S : f[y] > f[x]}
             B        == {Above(x) : x \in S}
  <1>1. PICK s \in B : \A t \in B : t \subseteq s => t = s
    <2>1. \A s \in B : s \subseteq S
      OBVIOUS
    <2>2. PICK x \in S : TRUE
      OBVIOUS
    <2>3. Above(x) \in B
      OBVIOUS
    <2> HIDE DEF B
    <2> QED
      BY <2>1, <2>3, FiniteMinimal
  <1>2. PICK x \in S : s = Above(x)
    OBVIOUS
  <1>3. ASSUME NEW y \in S, f[y] > f[x]
        PROVE  FALSE
    <2>1. Above(y) \subseteq Above(x) /\ Above(y) # Above(x)
      BY <1>3
    <2> QED
      BY <1>1, <1>2, <2>1
  <1> QED
    BY <1>3

\* A transfer that waits for its second lock holds the first one only, and only
\* finitely many calls have arrived.
FirstLockOnly ==
    \A a \in Agents : lock[a] # NoCall /\ pc[lock[a]] = "lock2" => a = LockOrder(lock[a])[1]

Arrived == {h \in Calls : pc[h] # "idle"}

Waits == FirstLockOnly /\ IsFiniteSet(Arrived)

\* Only TransferLock1 brings a call to "lock2"; no other step gives it a lock
\* there.
LEMMA OtherLocks ==
    ASSUME Inv, NEW h \in Calls,
           ReceiveCandy(h) \/ Handle(h) \/ Abort(h), ~TransferLock1(h)
    PROVE  /\ pc'[h] # "lock2"
           /\ \A a \in Agents : lock'[a] \in {lock[a], NoCall, h}
  <1> USE DEF Inv, TypeOK
  <1>1. ASSUME NEW code, Answer(h, code) PROVE pc'[h] = "done"
    BY <1>1 DEF Answer
  <1>2. ASSUME EndTx(h) PROVE \A a \in Agents : lock'[a] \in {lock[a], NoCall}
    BY <1>2 DEF EndTx
  <1>3. ASSUME ReceiveCandy(h) PROVE pc'[h] # "lock2" /\ UNCHANGED lock
    BY <1>3 DEF ReceiveCandy, Receive, Entry, dbVars
  <1>4. ASSUME BeginCandy(h) PROVE pc'[h] # "lock2" /\ UNCHANGED lock
    BY <1>4 DEF BeginCandy, Begin, Goto, FirstStatement, dbVars
  <1>5. ASSUME Patch(h) PROVE pc'[h] # "lock2" /\ UNCHANGED lock
    BY <1>1, <1>5 DEF Patch, PatchAgent
  <1>6. ASSUME AdjustInsert(h) \/ TransferCheck(h) \/ TransferInsert(h)
        PROVE  pc'[h] # "lock2" /\ \A a \in Agents : lock'[a] \in {lock[a], NoCall}
    BY <1>1, <1>2, <1>6
       DEF AdjustInsert, TransferCheck, TransferInsert, Rollback, Write, Goto, dbVars
  <1>7. ASSUME AdjustCommit(h) \/ TransferCommit(h) \/ Abort(h)
        PROVE  pc'[h] # "lock2" /\ \A a \in Agents : lock'[a] \in {lock[a], NoCall}
    BY <1>1, <1>2, <1>7 DEF AdjustCommit, TransferCommit, Abort, Rollback, Commit
  <1>8. ASSUME TransferResolve(h) \/ TransferDebit(h) \/ TransferCredit(h)
        PROVE  pc'[h] # "lock2" /\ UNCHANGED lock
    BY <1>1, <1>8 DEF TransferResolve, TransferDebit, TransferCredit, Write, Goto, dbVars
  <1>9. ASSUME TransferLock2(h)
        PROVE  pc'[h] # "lock2" /\ \A a \in Agents : lock'[a] \in {lock[a], h}
    BY <1>9 DEF TransferLock2, LockAgent, Goto
  <1> QED
    BY <1>3, <1>4, <1>5, <1>6, <1>7, <1>8, <1>9 DEF Handle, Transfer

\* Every step preserves Waits.
LEMMA NextWaits == Inv /\ Inv' /\ Books /\ Waits /\ [CandyNext]_vars => Waits'
  <1> SUFFICES ASSUME Inv, Inv', Books, Waits, [CandyNext]_vars PROVE Waits'
    OBVIOUS
  <1>1. ASSUME NEW h \in Calls, ReceiveCandy(h) \/ Handle(h) \/ Abort(h) PROVE Waits'
    <2>1. \A g \in Calls \ {h} : pc'[g] = pc[g] /\ LockOrder(g)' = LockOrder(g)
      BY <1>1, StepKinds DEF Quiet, CommitStep, OnlyCall, LockOrder
    <2>2. IsFiniteSet(Arrived')
      <3>1. Arrived' \subseteq Arrived \cup {h}
        BY <2>1 DEF Arrived
      <3>2. IsFiniteSet(Arrived \cup {h})
        BY FS_AddElement DEF Waits
      <3> QED
        BY <3>1, <3>2, FS_Subset
    <2>3. FirstLockOnly'
      <3>1. CASE TransferLock1(h)
        <4>1. /\ pc[h] = "lock1" /\ UNCHANGED req
              /\ lock' = [lock EXCEPT ![LockOrder(h)[1]] = h]
          BY <3>1 DEF TransferLock1, LockAgent, Goto
        <4>2. \A a \in Agents : lock[a] # h
          BY <4>1, NoCallIsNotACall DEF Inv, Isolation, LocksHeld
        <4>3. LockOrder(h)' = LockOrder(h)
          BY <4>1 DEF LockOrder
        <4> QED
          BY <2>1, <4>1, <4>2, <4>3 DEF FirstLockOnly, Waits, Inv, TypeOK
      <3>2. CASE ~TransferLock1(h)
        <4>1. /\ pc'[h] # "lock2"
              /\ \A a \in Agents : lock'[a] \in {lock[a], NoCall, h}
          BY <1>1, <3>2, OtherLocks
        <4> QED
          BY <2>1, <4>1 DEF FirstLockOnly, Waits, Inv, TypeOK
      <3> QED
        BY <3>1, <3>2
    <2> QED
      BY <2>2, <2>3 DEF Waits
  <1>2. CASE UNCHANGED vars
    BY <1>2 DEF vars, Waits, FirstLockOnly, Arrived, LockOrder
  <1> QED
    BY <1>1, <1>2 DEF CandyNext, Finished

\* Waits holds in every reachable state.
LEMMA WaitsInvariance == CandySpec => [](Inv /\ Books /\ Waits)
  <1>1. CandyInit => Waits
    <2> SUFFICES ASSUME CandyInit PROVE Waits
      OBVIOUS
    <2>1. Arrived = {}
      BY DEF CandyInit, LedgerInit, Arrived
    <2> QED
      BY <2>1, FS_EmptySet DEF CandyInit, LedgerInit, Waits, FirstLockOnly
  <1> QED
    BY <1>1, InitInv, InitBooks, NextInv, NextBooks, NextWaits, PTL DEF CandySpec

\* Among any calls one waits for none of them: who waits for a key waits for a
\* call that waits for a row or for nothing, who waits for a row waits for a call
\* that waits for a row with a greater id or for nothing (handlers.go:353-366).
THEOREM NobodyWaitsInACircle == CandySpec => []NoWaitCycle
  <1>1. Inv /\ Books /\ Waits => NoWaitCycle
    <2> SUFFICES ASSUME Inv, Books, Waits, NEW S \in SUBSET Calls, S # {},
                        \A h \in S : WaitsFor(h) \cap S # {}
                 PROVE  FALSE
      BY DEF NoWaitCycle
    <2> DEFINE Rows2 == {h \in S : pc[h] = "lock2"}
    <2>1. \A g \in S : pc[g] \notin {"check", "debit", "credit", "commit", "done", "idle"}
      BY DEF WaitsFor
    <2>2. \A g \in S : pc[g] # "insert"
      BY <2>1 DEF WaitsFor, Paying
    <2>3. ASSUME NEW h \in S, NEW a \in Agents, WaitsFor(h) = {lock[a]} \ {h, NoCall}
          PROVE  lock[a] \in Rows2 /\ lock[a] # h
      <3>1. lock[a] \in S /\ lock[a] # h /\ lock[a] # NoCall
        BY <2>3
      <3> QED
        BY <2>1, <2>2, <3>1 DEF Inv, Isolation, LocksHeld
    <2>4. \A h \in S : /\ pc[h] # "idle"
                       /\ LockOrder(h)[1] \in Agents /\ LockOrder(h)[2] \in Agents
                       /\ req[h].agent \in Agents /\ req[h].peer \in Agents
      BY <2>1, RequestType, LockOrderRows
    <2>5. Rows2 # {}
      <3>1. \A h \in S : pc[h] \in {"lock1", "lock2", "fk", "patch"} => Rows2 # {}
        <4> TAKE h \in S
        <4>1. pc[h] = "lock1" => WaitsFor(h) = {lock[LockOrder(h)[1]]} \ {h, NoCall}
          BY DEF WaitsFor
        <4>2. pc[h] \in {"fk", "patch"} => WaitsFor(h) = {lock[req[h].agent]} \ {h, NoCall}
          BY DEF WaitsFor
        <4> QED
          BY <2>3, <2>4, <4>1, <4>2
      <3>2. PICK h \in S : TRUE
        OBVIOUS
      <3>3. CASE pc[h] = "post"
        <4>1. PICK g \in S : g \in Writing(h, req[h].agent, AdjustKey(h))
          BY <3>3 DEF WaitsFor
        <4>2. pend[g] # {}
          BY <4>1 DEF Writing
        <4>3. pc[g] \in {"fk", "credit", "commit"}
          BY <4>2 DEF Inv, Isolation, RowsPending, RowsWritten
        <4> QED
          BY <2>1, <3>1, <4>3
      <3>4. CASE pc[h] \in {"begin", "resolve"}
        BY <3>4 DEF WaitsFor
      <3> QED
        BY <2>1, <2>2, <3>1, <3>3, <3>4
           DEF Inv, TypeOK, CandyLabels, TransferLabels
    <2>6. IsFiniteSet(Rows2)
      <3>1. Rows2 \in SUBSET Arrived
        BY DEF Arrived
      <3> QED
        BY <3>1, FS_Subset DEF Waits
    <2> DEFINE held == [h \in Rows2 |-> LockOrder(h)[1]]
    <2>7. held \in [Rows2 -> Int]
      BY <2>4, AgentsAreOrdered
    <2>8. PICK h \in Rows2 : \A g \in Rows2 : held[g] <= held[h]
      <3> HIDE DEF held, Rows2
      <3> QED
        BY <2>5, <2>6, <2>7, FiniteMax
    <2>9. LockOrder(h)[1] < LockOrder(h)[2]
      <3>1. req[h].agent # req[h].peer
        BY DEF Inv, Isolation, Routed, TransferLabels
      <3>2. req[h].agent \in Int /\ req[h].peer \in Int
        BY <2>4, AgentsAreOrdered
      <3> QED
        BY <3>1, <3>2 DEF LockOrder
    <2>10. lock[LockOrder(h)[2]] \in Rows2
      <3>1. WaitsFor(h) = {lock[LockOrder(h)[2]]} \ {h, NoCall}
        BY DEF WaitsFor
      <3> QED
        BY <2>3, <2>4, <3>1
    <2>11. held[lock[LockOrder(h)[2]]] = LockOrder(h)[2]
      BY <2>4, <2>10, NoCallIsNotACall DEF Waits, FirstLockOnly
    <2>12. held[h] = LockOrder(h)[1] /\ LockOrder(h)[1] \in Int /\ LockOrder(h)[2] \in Int
      BY <2>4, AgentsAreOrdered
    <2> HIDE DEF held, Rows2
    <2> QED
      BY <2>8, <2>9, <2>10, <2>11, <2>12
  <1> QED
    BY <1>1, WaitsInvariance, PTL

-----------------------------------------------------------------------------
(* The handlers implement CandyBook. *)

\* Handlers that commit nothing leave the book alone.
LEMMA QuietStutters ==
    ASSUME NEW h \in Calls, Quiet(h)
    PROVE  UNCHANGED Book!bookVars
  BY DEF Quiet, Book!bookVars, ClientPosts

\* The commit of an adjust posts with the client's key, or issues.
LEMMA AdjustPosts ==
    ASSUME Inv, Inv', Books, NEW h \in Calls, AdjustCommit(h)
    PROVE  Book!BookNext
  <1> DEFINE a   == req[h].agent
             row == Row(h, a, AdjustKey(h), req[h].n)
  <1>1. /\ pc[h] = "fk" /\ req[h].op \in Adjusts
        /\ ledger' = ledger \cup pend[h] /\ pend[h] = {row}
        /\ balance' = [b \in Agents |-> balance[b] + Posted(h, b)]
        /\ UNCHANGED transfers
    BY PendingAdjust
       DEF AdjustCommit, Commit, PublishRows, Inv, Isolation, Routed, Adjusts
  <1>2. a \in Agents /\ req[h].key \in Keys /\ req[h].n \in Int /\ req[h].n # 0
    BY <1>1, RequestType DEF Books, Progress
  <1>3. Posted(h, a) = req[h].n
    <2>1. row.agent = a /\ row.delta = req[h].n
      BY DEF Row
    <2> HIDE DEF row
    <2> QED
      BY <1>1, <2>1, PostedOneRow
  <1>4. \A b \in Agents \ {a} : Posted(h, b) = 0
    BY <1>1, PostedElsewhere DEF Row
  <1>5. balance \in [Agents -> Int] /\ balance' \in [Agents -> Int]
    BY DEF Inv, TypeOK
  <1>6. /\ Book!OnlyFundsOf({a})
        /\ balance'[a] # balance[a]
    BY <1>1, <1>2, <1>3, <1>4, <1>5 DEF Book!OnlyFundsOf
  <1>7. CASE req[h].op = "adjust"
    <2>1. row.agent = a /\ row.key.kind = "client" /\ row.key.id = req[h].key
      BY <1>7 DEF Row, Key, AdjustKey
    <2>2. ClientPosts' = ClientPosts \cup {<<a, req[h].key>>}
      BY <1>1, <2>1 DEF ClientPosts
    <2>3. <<a, req[h].key>> \notin ClientPosts
      <3> SUFFICES ASSUME NEW r \in ledger, r.key.kind = "client",
                          r.agent = a, r.key.id = req[h].key
                   PROVE  FALSE
        BY DEF ClientPosts
      <3>1. r.key = AdjustKey(h)
        BY <1>7 DEF Inv, TypeOK, Rows, AllKeys, AdjustKey, Key
      <3> QED
        BY <1>1, <3>1 DEF Books, KeysReserved, Taken
    <2>4. Book!Post(a, req[h].key)
      BY <1>1, <1>6, <2>2, <2>3 DEF Book!Post
    <2> QED
      BY <1>2, <2>4 DEF Book!BookNext
  <1>8. CASE req[h].op = "adminAdjust"
    <2>1. row.key.kind = "admin"
      BY <1>8 DEF Row, Key, AdjustKey
    <2>2. ClientPosts' = ClientPosts
      BY <1>1, <2>1 DEF ClientPosts
    <2>3. Book!Issue(a)
      BY <1>1, <1>6, <2>2 DEF Book!Issue
    <2> QED
      BY <1>2, <2>3 DEF Book!BookNext
  <1> QED
    BY <1>1, <1>7, <1>8 DEF Adjusts

\* The commit of a transfer pays, from funds and with a key not used before.
LEMMA TransferPays ==
    ASSUME Inv, Inv', Books, NEW h \in Calls, TransferCommit(h)
    PROVE  Book!BookNext
  <1>1. /\ pc[h] = "commit"
        /\ ledger' = ledger \cup pend[h]
        /\ pend[h] = {Row(h, req[h].agent, Key("out", h), -req[h].n), CreditRow(h)}
        /\ balance' = [c \in Agents |-> balance[c] + Posted(h, c)]
        /\ transfers' = transfers \cup {TransferRow(h)}
    BY PendingTransfer DEF TransferCommit, Commit, PublishRows
  <1>2. PICK payer \in Agents, payee \in Agents, n \in Int, key \in Keys :
          payer = req[h].agent /\ payee = req[h].peer /\ n = req[h].n /\ key = req[h].key
    BY <1>1, RequestType
  <1>3. payer # payee /\ n > 0 /\ balance[payer] >= n
    BY <1>1, <1>2 DEF Inv, Isolation, Routed, FundsHeld, TransferLabels
  <1> DEFINE out  == Row(h, payer, Key("out", h), -n)
             into == CreditRow(h)
  <1>4. /\ pend[h] = {out, into}
        /\ out.agent = payer /\ out.delta = -n /\ out.key.kind = "out"
        /\ into.agent = payee /\ into.delta = n /\ into.key.kind = "in"
    BY <1>1, <1>2 DEF Row, Key, CreditRow
  <1>5. /\ Posted(h, payer) = -n /\ Posted(h, payee) = n
        /\ \A c \in Agents \ {payer, payee} : Posted(h, c) = 0
    <2> HIDE DEF out, into
    <2> QED
      BY <1>3, <1>4, PostedOneRow, PostedElsewhere
  <1>6. balance \in [Agents -> Int] /\ balance' \in [Agents -> Int]
    BY DEF Inv, TypeOK
  <1>7. /\ balance'[payer] = balance[payer] - n /\ balance'[payee] = balance[payee] + n
        /\ \A c \in Agents \ {payer, payee} : balance'[c] = balance[c]
    BY <1>1, <1>5, <1>6
  <1>8. Book!OnlyFundsOf({payer, payee})
    BY <1>6, <1>7 DEF Book!OnlyFundsOf
  <1>9. ClientPosts' = ClientPosts
    BY <1>1, <1>4 DEF ClientPosts
  <1>10. /\ {t.key : t \in transfers}' = {t.key : t \in transfers} \cup {key}
         /\ key \notin {t.key : t \in transfers}
    <2>1. TransferRow(h).key = key
      BY <1>2 DEF TransferRow
    <2>2. \A t \in transfers : t.key # key
      BY <1>1, <1>2 DEF Books, KeysReserved, Claiming, Paid
    <2> QED
      BY <1>1, <2>1, <2>2
  <1>11. /\ 0 <= balance'[payer] /\ balance'[payer] < balance[payer]
         /\ balance'[payer] + balance'[payee] = balance[payer] + balance[payee]
    BY <1>3, <1>6, <1>7
  <1>12. Book!Pay(payer, payee, key)
    BY <1>3, <1>8, <1>9, <1>10, <1>11 DEF Book!Pay
  <1> QED
    BY <1>12 DEF Book!BookNext

\* For any number of concurrent calls, retries and failures, the book sees each
\* posting and each payment as one step, at most once, a payment from funds only.
THEOREM HandlersImplementBook == CandySpec => BookRefined
  <1>1. CandyInit => Book!BookInit
    <2> SUFFICES ASSUME CandyInit PROVE Book!BookInit
      OBVIOUS
    <2>1. ClientPosts = {}
      BY DEF CandyInit, LedgerInit, ClientPosts, SeedRow, Row, Key
    <2> QED
      BY <2>1 DEF CandyInit, LedgerInit, Book!BookInit
  <1>2. Inv /\ Books /\ Inv' /\ [CandyNext]_vars => [Book!BookNext]_(Book!bookVars)
    <2> SUFFICES ASSUME Inv, Books, Inv', [CandyNext]_vars
                 PROVE  Book!BookNext \/ UNCHANGED Book!bookVars
      OBVIOUS
    <2>1. ASSUME NEW h \in Calls, ReceiveCandy(h) \/ Handle(h) \/ Abort(h)
          PROVE  Book!BookNext \/ UNCHANGED Book!bookVars
      BY <2>1, StepKinds, QuietStutters, AdjustPosts, TransferPays
    <2>2. CASE UNCHANGED vars
      BY <2>2 DEF vars, Book!bookVars, ClientPosts
    <2> QED
      BY <2>1, <2>2 DEF CandyNext, Finished
  <1> QED
    BY <1>1, <1>2, BooksInvariance, PTL DEF CandySpec, BookRefined, Book!BookSpec

-----------------------------------------------------------------------------
(* A balance is the sum of the committed rows.  First, that the sum the       *)
(* community module folds is a sum: one row more adds its delta, whatever the *)
(* order in which the fold takes the rows.                                    *)

SumOfDeltas == INSTANCE FiniteSetsExt
Sum(S) == SumOfDeltas!MapThenSumSet(LAMBDA r : r.delta, S)

\* The recursive function of the fold.
Chosen(s) == CHOOSE x \in s : TRUE

IsFold(g, S) ==
    g = [s \in SUBSET S |-> IF s = {} THEN 0 ELSE Chosen(s).delta + g[s \ {Chosen(s)}]]

\* The fold is the value at S of such a function.
LEMMA SumIsFold ==
    ASSUME NEW S
    PROVE  Sum(S) = (CHOOSE g : IsFold(g, S))[S]
  BY DEF Sum, SumOfDeltas!MapThenSumSet, SumOfDeltas!MapThenFoldSet, IsFold, Chosen

\* What such a function is at each subset.
LEMMA FoldAt ==
    ASSUME NEW S, NEW g, IsFold(g, S), NEW s \in SUBSET S
    PROVE  /\ s = {} => g[s] = 0
           /\ s # {} => /\ Chosen(s) \in s
                        /\ g[s] = Chosen(s).delta + g[s \ {Chosen(s)}]
  BY DEF IsFold, Chosen

\* Two such functions agree where both are defined.
LEMMA FoldsAgree ==
    ASSUME NEW S, NEW T, NEW f, NEW g, IsFold(f, S), IsFold(g, T),
           NEW U, IsFiniteSet(U), U \subseteq S, U \subseteq T
    PROVE  f[U] = g[U]
  <1> DEFINE B == {s \in SUBSET U : f[s] # g[s]}
  <1> SUFFICES ASSUME B # {} PROVE FALSE
    OBVIOUS
  <1>1. PICK s \in B : \A t \in B : t \subseteq s => t = s
    <2>1. \A s \in B : s \subseteq U
      OBVIOUS
    <2> HIDE DEF B
    <2> QED
      BY <2>1, FiniteMinimal
  <1>2. s \in SUBSET S /\ s \in SUBSET T /\ f[s] # g[s]
    OBVIOUS
  <1>3. /\ s # {} /\ Chosen(s) \in s
        /\ f[s] = Chosen(s).delta + f[s \ {Chosen(s)}]
        /\ g[s] = Chosen(s).delta + g[s \ {Chosen(s)}]
    <2> HIDE DEF B
    <2>1. /\ s = {} => f[s] = 0
          /\ s # {} => Chosen(s) \in s /\ f[s] = Chosen(s).delta + f[s \ {Chosen(s)}]
      BY <1>2, FoldAt
    <2>2. /\ s = {} => g[s] = 0
          /\ s # {} => g[s] = Chosen(s).delta + g[s \ {Chosen(s)}]
      BY <1>2, FoldAt, SMTT(60)
    <2> QED
      BY <1>2, <2>1, <2>2
  <1>4. s \ {Chosen(s)} \notin B
    BY <1>1, <1>3
  <1> QED
    BY <1>3, <1>4

\* There is such a function on the subsets of a finite set.
LEMMA FoldExists ==
    ASSUME NEW S, IsFiniteSet(S)
    PROVE  \E g : IsFold(g, S)
  <1> DEFINE B == {s \in SUBSET S : ~\E g : IsFold(g, s)}
  <1> SUFFICES ASSUME B # {} PROVE FALSE
    OBVIOUS
  <1>1. PICK s \in B : \A t \in B : t \subseteq s => t = s
    <2>1. \A s \in B : s \subseteq S
      OBVIOUS
    <2> HIDE DEF B
    <2> QED
      BY <2>1, FiniteMinimal
  <1> DEFINE Fold(u) == CHOOSE g : IsFold(g, u)
             Rest(u) == u \ {Chosen(u)}
             G       == [u \in SUBSET s |->
                           IF u = {} THEN 0 ELSE Chosen(u).delta + Fold(Rest(u))[Rest(u)]]
  <1>2. \A u \in SUBSET s : u # {} => Chosen(u) \in u
    BY DEF Chosen
  <1>3. \A u \in SUBSET s : u # s => IsFold(Fold(u), u)
    BY <1>1
  <1>4. ASSUME NEW u \in SUBSET s, u # s
        PROVE  G[u] = Fold(u)[u]
    <2>1. IsFold(Fold(u), u)
      BY <1>3, <1>4
    <2>2. CASE u = {}
      <3>1. Fold(u)[u] = 0
        BY <2>1, <2>2, FoldAt
      <3> QED
        BY <2>2, <3>1
    <2>3. CASE u # {}
      <3>1. Rest(u) \subseteq u /\ Rest(u) # s /\ Rest(u) \in SUBSET s
        BY <1>2, <1>4, <2>3
      <3>2. IsFold(Fold(Rest(u)), Rest(u)) /\ IsFiniteSet(Rest(u))
        BY <1>3, <3>1, FS_Subset
      <3>3. Fold(u)[u] = Chosen(u).delta + Fold(u)[Rest(u)]
        BY <2>1, <2>3, FoldAt
      <3>4. Fold(u)[Rest(u)] = Fold(Rest(u))[Rest(u)]
        <4> HIDE DEF Fold, Rest
        <4> QED
          BY <2>1, <3>1, <3>2, FoldsAgree
      <3>5. G[u] = Chosen(u).delta + Fold(Rest(u))[Rest(u)]
        BY <2>3
      <3> QED
        BY <3>3, <3>4, <3>5
    <2> QED
      BY <2>2, <2>3
  <1>5. \A u \in SUBSET s : u # {} => Rest(u) \in SUBSET s /\ Rest(u) # s
    BY <1>2
  <1>6. G = [u \in SUBSET s |-> IF u = {} THEN 0 ELSE Chosen(u).delta + G[Rest(u)]]
    <2>1. \A u \in SUBSET s : u # {} => G[Rest(u)] = Fold(Rest(u))[Rest(u)]
      <3> HIDE DEF G, Fold, Rest
      <3> QED
        BY <1>4, <1>5
    <2>2. G = [u \in SUBSET s |->
                 IF u = {} THEN 0 ELSE Chosen(u).delta + Fold(Rest(u))[Rest(u)]]
      OBVIOUS
    <2> HIDE DEF G, Fold, Rest
    <2> QED
      BY <2>1, <2>2
  <1>7. IsFold(G, s)
    <2> HIDE DEF G
    <2> QED
      BY <1>6 DEF IsFold
  <1> QED
    BY <1>7

\* The sum of no row is 0; the sum of some is that of one and that of the rest.
LEMMA SumUnfolds ==
    ASSUME NEW S, IsFiniteSet(S)
    PROVE  /\ S = {} => Sum(S) = 0
           /\ S # {} => /\ Chosen(S) \in S
                        /\ Sum(S) = Chosen(S).delta + Sum(S \ {Chosen(S)})
  <1> DEFINE Fold(u) == CHOOSE g : IsFold(g, u)
             Rest    == S \ {Chosen(S)}
  <1>1. IsFold(Fold(S), S) /\ Sum(S) = Fold(S)[S]
    BY FoldExists, SumIsFold
  <1>2. IsFiniteSet(Rest)
    BY FS_Subset
  <1>3. IsFold(Fold(Rest), Rest) /\ Sum(Rest) = Fold(Rest)[Rest]
    BY <1>2, FoldExists, SumIsFold
  <1>4. Fold(S)[Rest] = Fold(Rest)[Rest]
    <2> HIDE DEF Fold
    <2> QED
      BY <1>1, <1>2, <1>3, FoldsAgree
  <1>5. /\ S = {} => Fold(S)[S] = 0
        /\ S # {} => Chosen(S) \in S /\ Fold(S)[S] = Chosen(S).delta + Fold(S)[Rest]
    <2> HIDE DEF Fold
    <2> QED
      BY <1>1, FoldAt
  <1> QED
    BY <1>1, <1>3, <1>4, <1>5

\* The sum of integers is one.
LEMMA SumIsInt ==
    ASSUME NEW S, IsFiniteSet(S), \A r \in S : r.delta \in Int
    PROVE  Sum(S) \in Int
  <1> DEFINE B == {s \in SUBSET S : Sum(s) \notin Int}
  <1> SUFFICES ASSUME B # {} PROVE FALSE
    OBVIOUS
  <1>1. PICK s \in B : \A t \in B : t \subseteq s => t = s
    <2>1. \A s \in B : s \subseteq S
      OBVIOUS
    <2> HIDE DEF B
    <2> QED
      BY <2>1, FiniteMinimal
  <1>2. IsFiniteSet(s) /\ s \subseteq S
    BY FS_Subset
  <1>3. /\ s # {} /\ Chosen(s) \in s
        /\ Sum(s) = Chosen(s).delta + Sum(s \ {Chosen(s)})
    BY <1>2, SumUnfolds
  <1>4. Sum(s \ {Chosen(s)}) \in Int
    BY <1>1, <1>2, <1>3
  <1> QED
    BY <1>2, <1>3, <1>4

\* One row more adds its delta.
LEMMA SumAdds ==
    ASSUME NEW S, IsFiniteSet(S), \A r \in S : r.delta \in Int,
           NEW x \in S
    PROVE  Sum(S) = Sum(S \ {x}) + x.delta
  <1> DEFINE Adds(s) == \A y \in s : Sum(s) = Sum(s \ {y}) + y.delta
             B       == {s \in SUBSET S : ~Adds(s)}
  <1> SUFFICES ASSUME B # {} PROVE FALSE
    OBVIOUS
  <1>1. PICK s \in B : \A t \in B : t \subseteq s => t = s
    <2>1. \A s \in B : s \subseteq S
      OBVIOUS
    <2> HIDE DEF B
    <2> QED
      BY <2>1, FiniteMinimal
  <1>2. \A t \in SUBSET s : IsFiniteSet(t) /\ Sum(t) \in Int /\ t \subseteq S
    <2>1. \A t \in SUBSET s : t \subseteq S
      OBVIOUS
    <2> QED
      BY <2>1, FS_Subset, SumIsInt
  <1>3. PICK y \in s : Sum(s) # Sum(s \ {y}) + y.delta
    OBVIOUS
  <1> DEFINE z == Chosen(s)
  <1>4. z \in s /\ Sum(s) = z.delta + Sum(s \ {z})
    BY <1>2, <1>3, SumUnfolds
  <1>5. /\ y.delta \in Int /\ z.delta \in Int
        /\ Sum((s \ {z}) \ {y}) \in Int /\ Sum(s \ {z}) \in Int /\ Sum(s \ {y}) \in Int
    BY <1>2, <1>4
  <1> HIDE DEF z
  <1>6. y # z
    <2> SUFFICES ASSUME y = z PROVE FALSE
      OBVIOUS
    <2>1. Sum(s \ {y}) = Sum(s \ {z}) /\ y.delta = z.delta
      OBVIOUS
    <2> QED
      BY <1>3, <1>4, <1>5, <2>1
  <1>7. Adds(s \ {z}) /\ Adds(s \ {y})
    BY <1>1, <1>3, <1>4
  <1>8. /\ Sum(s \ {z}) = Sum((s \ {z}) \ {y}) + y.delta
        /\ Sum(s \ {y}) = Sum((s \ {y}) \ {z}) + z.delta
    BY <1>4, <1>6, <1>7
  <1>9. (s \ {z}) \ {y} = (s \ {y}) \ {z}
    OBVIOUS
  <1>10. Sum((s \ {y}) \ {z}) = Sum((s \ {z}) \ {y})
    BY <1>9
  <1> QED
    BY <1>3, <1>4, <1>5, <1>8, <1>10

-----------------------------------------------------------------------------
(* The balances.  The code keeps none, it adds up the rows of candy_ledger  *)
(* each time; what follows is why a variable may stand for that sum.        *)

RowsOfAgent(a) == {r \in ledger : r.agent = a}

Sums == \A a \in Agents :
          IsFiniteSet(RowsOfAgent(a)) /\ balance[a] = Sum(RowsOfAgent(a))

\* An agent's rows are its seed when the server starts.
LEMMA InitSums == CandyInit => Sums
  <1> SUFFICES ASSUME CandyInit, NEW a \in Agents
               PROVE  IsFiniteSet(RowsOfAgent(a)) /\ balance[a] = Sum(RowsOfAgent(a))
    BY DEF Sums
  <1>1. RowsOfAgent(a) = {SeedRow(a)}
    BY DEF CandyInit, LedgerInit, RowsOfAgent, SeedRow, Row
  <1>2. SeedRow(a).delta = Seed[a] /\ Seed[a] \in Int
    BY SeedIsBalance DEF SeedRow, Row
  <1>3. IsFiniteSet({SeedRow(a)}) /\ IsFiniteSet({})
    BY FS_Singleton, FS_EmptySet
  <1>4. Sum({}) = 0
    BY <1>3, SumUnfolds
  <1>5. Sum({SeedRow(a)}) = Sum({SeedRow(a)} \ {SeedRow(a)}) + SeedRow(a).delta
    BY <1>2, <1>3, SumAdds
  <1>6. Sum({SeedRow(a)} \ {SeedRow(a)}) = 0
    <2>1. {SeedRow(a)} \ {SeedRow(a)} = {}
      OBVIOUS
    <2> QED
      BY <1>4, <2>1
  <1>7. Sum({SeedRow(a)}) = Seed[a]
    BY <1>2, <1>5, <1>6
  <1> QED
    BY <1>1, <1>3, <1>7 DEF CandyInit, LedgerInit

\* A commit adds to an agent's rows the one it has of that agent, if any.
LEMMA CommitSums ==
    ASSUME Inv, Inv', Books, Sums, NEW h \in Calls, CommitStep(h), PublishRows(h)
    PROVE  Sums'
  <1> SUFFICES ASSUME NEW a \in Agents
               PROVE  IsFiniteSet(RowsOfAgent(a)') /\ balance'[a] = Sum(RowsOfAgent(a)')
    BY DEF Sums
  <1> DEFINE old == RowsOfAgent(a)
  <1>1. /\ ledger' = ledger \cup pend[h] /\ pend[h] = RowsOf(h)
        /\ balance'[a] = balance[a] + Posted(h, a)
        /\ IsFiniteSet(old) /\ balance[a] = Sum(old) /\ balance[a] \in Int
    BY DEF CommitStep, PublishRows, Sums, Inv, TypeOK
  <1>2. CASE \A r \in pend[h] : r.agent # a
    <2>1. RowsOfAgent(a)' = old
      BY <1>1, <1>2 DEF RowsOfAgent
    <2>2. Posted(h, a) = 0
      BY <1>2, PostedElsewhere
    <2> QED
      BY <1>1, <2>1, <2>2
  <1>3. ASSUME NEW row \in pend[h], row.agent = a
        PROVE  IsFiniteSet(RowsOfAgent(a)') /\ balance'[a] = Sum(RowsOfAgent(a)')
    <2>1. \A r \in pend[h] : r.agent = a => r = row
      <3>1. req[h].op = "transfer" => req[h].agent # req[h].peer
        BY DEF CommitStep, Inv, Isolation, Routed, TransferLabels, Adjusts
      <3> QED
        BY <1>1, <1>3, <3>1 DEF RowsOf, CreditRow, Row
    <2>2. Posted(h, a) = row.delta
      BY <1>3, <2>1, PostedOneRow
    <2>3. RowsOfAgent(a)' = old \cup {row}
      BY <1>1, <1>3, <2>1 DEF RowsOfAgent
    <2>4. row \notin old
      <3>1. row.by = h /\ pc[h] # "done"
        BY <1>1, <1>3 DEF CommitStep, RowsOf, CreditRow, Row
      <3> QED
        BY <3>1, OpenHasNoRows DEF RowsOfAgent
    <2>5. \A r \in old \cup {row} : r.delta \in Int
      BY <1>3 DEF Inv, TypeOK, RowsOfAgent, Rows
    <2>6. IsFiniteSet(old \cup {row})
      BY <1>1, FS_AddElement
    <2>7. Sum(old \cup {row}) = Sum((old \cup {row}) \ {row}) + row.delta
      BY <2>5, <2>6, SumAdds
    <2>8. (old \cup {row}) \ {row} = old
      BY <2>4
    <2> QED
      BY <1>1, <2>2, <2>3, <2>6, <2>7, <2>8
  <1> QED
    BY <1>2, <1>3

\* Every step preserves Sums.
LEMMA NextSums == Inv /\ Inv' /\ Books /\ Sums /\ [CandyNext]_vars => Sums'
  <1> SUFFICES ASSUME Inv, Inv', Books, Sums, [CandyNext]_vars PROVE Sums'
    OBVIOUS
  <1>1. ASSUME NEW h \in Calls, ReceiveCandy(h) \/ Handle(h) \/ Abort(h) PROVE Sums'
    <2>1. CASE Quiet(h)
      BY <2>1 DEF Quiet, Sums, RowsOfAgent
    <2>2. CASE CommitStep(h) /\ (AdjustCommit(h) \/ TransferCommit(h))
      BY <2>2, CommitSums DEF AdjustCommit, TransferCommit, Commit
    <2> QED
      BY <1>1, <2>1, <2>2, StepKinds
  <1>2. CASE UNCHANGED vars
    BY <1>2 DEF vars, Sums, RowsOfAgent
  <1> QED
    BY <1>1, <1>2 DEF CandyNext, Finished

\* balance is what a handler's COALESCE(SUM(delta), 0) over the agent's committed rows
\* returns (handlers.go:370).
LEMMA BalanceStandsForSum == CandySpec => []Sums
  <1>1. CandySpec => [](Inv /\ Books /\ Sums)
    BY InitInv, InitBooks, InitSums, NextInv, NextBooks, NextSums, PTL DEF CandySpec
  <1> QED
    BY <1>1, PTL
=============================================================================
