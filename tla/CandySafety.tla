---------------------------- MODULE CandySafety ----------------------------
(***************************************************************************)
(* What must be true of the candy ledger: its invariants, what no step may *)
(* do, what must happen in the end, and the abstract book it implements.   *)
(***************************************************************************)
EXTENDS CandyLedger

AllKeys == [kind: {"client"}, id: Keys] \cup [kind: {"out", "in", "admin"}, id: Calls]
             \cup [kind: {"seed"}, id: Agents]
Rows    == [agent: Agents, key: AllKeys, delta: Int, by: Calls \cup {NoCall}]
Paper   == [id: Calls, from: Agents, to: Agents, n: Nat \ {0}, key: Keys]

TransferLabels == {"resolve", "lock1", "lock2", "check", "insert", "debit",
                   "credit", "commit"}
CandyLabels    == TransferLabels \cup {"idle", "begin", "post", "fk", "patch", "done"}
CandyAnswers   == {"none", "ok", "duplicate", "error", "insufficient", "notfound",
                   "self", "invalid", "unauthorized"}

\* Every variable has the type its table column or local variable has.
TypeOK ==
    /\ ledger \subseteq Rows
    /\ balance \in [Agents -> Int]
    /\ enabled \in [Agents -> BOOLEAN]
    /\ lock \in [Agents -> Calls \cup {NoCall}]
    /\ pend \in [Calls -> SUBSET Rows]
    /\ req \in [Calls -> Requests \cup {NoRequest}]
    /\ pc \in [Calls -> CandyLabels]
    /\ resp \in [Calls -> CandyAnswers]
    /\ transfers \subseteq Paper

\* A transfer is in the books as its two rows, -n for the payer and +n for the
\* payee, and no such row is there without its transfer (handlers.go:377-406).
DoubleEntry ==
    /\ \A t \in transfers :
         {r \in ledger : r.key.kind \in {"out", "in"} /\ r.key.id = t.id}
           = {Row(t.id, t.from, Key("out", t.id), -t.n), Row(t.id, t.to, Key("in", t.id), t.n)}
    /\ \A r \in ledger :
         r.key.kind \in {"out", "in"} => \E t \in transfers : t.id = r.key.id

\* A key takes effect at most once, whatever is retried at the same time:
\* UNIQUE(agent_id, idempotency_key) and the key of table transfers.
OneRowPerKey ==
    /\ \A r, s \in ledger : r.agent = s.agent /\ r.key = s.key => r = s
    /\ \A t, u \in transfers : t.key = u.key => t = u

\* The answer tells what happened: "ok" only when the call's rows are committed,
\* a refusal only when none is, "duplicate" to an adjust only when the agent's
\* key is in the books ("error" tells nothing).
AnswersAreTrue ==
    \A h \in Calls :
        /\ resp[h] = "ok" /\ req[h].op \in {"adjust", "adminAdjust"} =>
              Row(h, req[h].agent, AdjustKey(h), req[h].n) \in ledger
        /\ resp[h] = "ok" /\ req[h].op = "transfer" => TransferRow(h) \in transfers
        /\ resp[h] \notin {"none", "ok", "error"} => \A r \in ledger : r.by # h
        /\ resp[h] = "duplicate" /\ req[h].op = "adjust" =>
              Taken(req[h].agent, AdjustKey(h))

\* No cycle of calls each waiting for the next: the FOR UPDATE locks are taken
\* in id order, and a key waits only for calls that wait for no lock
\* (handlers.go:353-366 "Always lock in ID order to prevent deadlocks").
WaitsFor(h) ==
    CASE pc[h] = "lock1" -> {lock[LockOrder(h)[1]]} \ {h, NoCall}
      [] pc[h] = "lock2" -> {lock[LockOrder(h)[2]]} \ {h, NoCall}
      [] pc[h] \in {"fk", "patch"} -> {lock[req[h].agent]} \ {h, NoCall}
      [] pc[h] = "insert" -> Paying(h, req[h].key)
      [] pc[h] = "post" -> Writing(h, req[h].agent, AdjustKey(h))
      [] OTHER -> {}
NoWaitCycle ==
    \A S \in (SUBSET Calls) \ {{}} : \E h \in S : WaitsFor(h) \cap S = {}

\* A transfer never leaves its payer below zero, whatever else is committed
\* between its balance check and its commit: an adjust of the payer waits for
\* the payer's lock (handlers.go:368-375, SKILL.md:75 "no overdraft").
TransfersNeverOverdraw ==
    [][\A t \in transfers' \ transfers : balance'[t.from] >= 0]_vars

\* What the statements of an open transaction may rely on, whatever the others
\* do: it holds the locks it has taken and nobody else does, its uncommitted
\* rows are those it wrote, and the balance it checked is still there.
LocksHeld ==
    /\ \A h \in Calls :
         /\ pc[h] = "lock2" => lock[LockOrder(h)[1]] = h
         /\ pc[h] \in {"check", "insert", "debit", "credit", "commit"} =>
              lock[req[h].agent] = h /\ lock[req[h].peer] = h
    /\ \A a \in Agents : lock[a] # NoCall =>
         /\ pc[lock[a]] \in {"lock2", "check", "insert", "debit", "credit", "commit"}
         /\ a \in {req[lock[a]].agent, req[lock[a]].peer}

RowsWritten(h) ==
    LET out == Row(h, req[h].agent, Key("out", h), -req[h].n)
    IN  CASE pc[h] = "fk"     -> {Row(h, req[h].agent, AdjustKey(h), req[h].n)}
          [] pc[h] = "credit" -> {out}
          [] pc[h] = "commit" -> {out, CreditRow(h)}
          [] OTHER            -> {}
RowsPending == \A h \in Calls : pend[h] = RowsWritten(h)

FundsHeld ==
    \A h \in Calls : pc[h] \in {"insert", "debit", "credit", "commit"} =>
        balance[req[h].agent] >= req[h].n

\* A call is in a handler that its request is routed to.
Routed ==
    \A h \in Calls :
        /\ pc[h] # "idle" => req[h] \in CandyRequests
        /\ pc[h] \in TransferLabels => req[h].op = "transfer" /\ req[h].n > 0
        /\ pc[h] \in TransferLabels \ {"resolve"} => req[h].agent # req[h].peer
        /\ pc[h] = "begin" /\ req[h].op = "transfer" =>
             req[h].n > 0 /\ req[h].agent # req[h].peer
        /\ pc[h] \in {"post", "fk"} => req[h].op \in {"adjust", "adminAdjust"}

Isolation == Routed /\ LocksHeld /\ RowsPending /\ FundsHeld

-----------------------------------------------------------------------------
(* The book.  Each commit is one of its steps; every other step of a call   *)
(* changes nothing in it.                                                   *)

ClientPosts == {<<r.agent, r.key.id>> : r \in {x \in ledger : x.key.kind = "client"}}

Book == INSTANCE CandyBook WITH funds  <- balance,
                                posted <- ClientPosts,
                                paid   <- {t.key : t \in transfers}

\* The concurrent handlers implement CandyBook: each posting and payment takes
\* effect in one step, at most once, and a payment only from funds.
BookRefined == Book!BookSpec

-----------------------------------------------------------------------------
\* SKILL.md:251: it is a repeated idempotencyKey that is answered "duplicate".  So
\* a transfer is answered "duplicate" only when one with its key was made.
TransferDuplicateMeansPaid ==
    \A h \in Calls :
        resp[h] = "duplicate" /\ req[h].op = "transfer" => Paid(req[h].key)
=============================================================================
