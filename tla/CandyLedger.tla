---------------------------- MODULE CandyLedger ----------------------------
(***************************************************************************)
(* The candy ledger of wonka: POST /v1/candies/adjust,                     *)
(* POST /v1/candies/transfer, POST /v1/admin/adjust and                    *)
(* PATCH /v1/admin/agents/:id, run by any number of concurrent calls.      *)
(* handlers.go, admin.go.                                                  *)
(***************************************************************************)
EXTENDS LedgerDB

VARIABLE transfers      \* committed rows of table transfers

vars == <<ledger, balance, enabled, lock, pend, req, pc, resp, transfers>>

CandyOps == {"adjust", "adminAdjust", "transfer", "enable", "disable"}

CandyRequests == {r \in Requests : r.op \in CandyOps}

ASSUME CandyRequestsAreTyped ==
    CandyRequests \subseteq [op: CandyOps, agent: Agents, peer: Agents, n: Int, key: Keys]

-----------------------------------------------------------------------------
(* handleAdjustCandies and handleAdminAdjust: one INSERT outside any        *)
(* transaction.  The row enters the unique index first, waiting for an open *)
(* transaction that has the same key; ON CONFLICT DO NOTHING then answers   *)
(* "duplicate".  The foreign key is checked next and waits for the lock of  *)
(* the agent's row.  There is no balance check.                             *)

\* Mutated: no random bytes in the key of an administrator.
FixedAdminKey(h) == IF req[h].op = "adjust" THEN Key("client", req[h].key)
                                            ELSE Key("admin", NoCall)

AdjustKey(h) == IF req[h].op = "adjust" THEN Key("client", req[h].key)
                                        ELSE Key("admin", h)

\* Mutated: the check for an existing key looks at no committed row.
KeyIsFree(h) == FALSE
Duplicate(h) == Taken(req[h].agent, AdjustKey(h))

AdjustInsert(h) ==
    /\ pc[h] = "post"
    /\ Writing(h, req[h].agent, AdjustKey(h)) = {}
    /\ \/ /\ Duplicate(h)
          /\ Rollback(h, "duplicate")
       \/ /\ ~Duplicate(h)
          /\ Write(h, Row(h, req[h].agent, AdjustKey(h), req[h].n), "fk")
    /\ UNCHANGED transfers

\* The statement commits; the answer is "error" when its acknowledgement is lost.
AdjustCommit(h) ==
    /\ pc[h] = "fk"
    /\ CanLock(h, req[h].agent)
    /\ Commit(h, {"ok", "error"})
    /\ UNCHANGED transfers

-----------------------------------------------------------------------------
(* handleTransfer *)

\* SELECT id FROM agents WHERE name = to AND enabled = true
TransferResolve(h) ==
    /\ pc[h] = "resolve"
    /\ HasConnection
    /\ \/ /\ ~enabled[req[h].peer]
          /\ Answer(h, "notfound")
       \/ /\ enabled[req[h].peer] /\ req[h].peer = req[h].agent
          /\ Answer(h, "self")
       \/ /\ enabled[req[h].peer] /\ req[h].peer # req[h].agent
          /\ Goto(h, "begin")
    /\ UNCHANGED <<ledger, balance, enabled, lock, pend, transfers>>

\* Mutated: the payer's row is locked first, whatever the ids.
PayerFirst(h) == <<req[h].agent, req[h].peer>>

\* Both rows are locked in id order.
LockOrder(h) == IF req[h].agent > req[h].peer THEN <<req[h].peer, req[h].agent>>
                                              ELSE <<req[h].agent, req[h].peer>>

TransferLock1(h) ==
    /\ pc[h] = "lock1"
    /\ LockAgent(h, LockOrder(h)[1], "lock2")
    /\ UNCHANGED transfers

\* Mutated: only the first agent of the lock order is locked.
TransferLockOne(h) ==
    /\ pc[h] = "lock2"
    /\ Goto(h, "check")
    /\ UNCHANGED <<dbVars, transfers>>

TransferLock2(h) ==
    /\ pc[h] = "lock2"
    /\ LockAgent(h, LockOrder(h)[2], "check")
    /\ UNCHANGED transfers

\* Mutated: the amount is not compared with the balance.
IsSolvent(h) == balance[req[h].agent] >= 0

\* SELECT COALESCE(SUM(delta), 0): the committed rows, read under both locks.
Covers(h) == balance[req[h].agent] >= req[h].n

TransferCheck(h) ==
    /\ pc[h] = "check"
    /\ \/ /\ ~Covers(h)
          /\ Rollback(h, "insufficient")
       \/ /\ Covers(h)
          /\ Goto(h, "insert")
          /\ UNCHANGED dbVars
    /\ UNCHANGED transfers

\* The row of table transfers a call writes; its key is UNIQUE over all agents.
TransferRow(h) == [id |-> h, from |-> req[h].agent, to |-> req[h].peer,
                   n |-> req[h].n, key |-> req[h].key]
Paying(h, key) ==
    {g \in Calls \ {h} : pc[g] \in {"debit", "credit", "commit"} /\ req[g].key = key}

\* Mutated: the key of a transfer is not UNIQUE.
NeverPaid(key) == FALSE
Paid(key) == \E t \in transfers : t.key = key

\* Any error of this INSERT is answered "duplicate", a duplicate key among them.
TransferInsert(h) ==
    /\ pc[h] = "insert"
    /\ Paying(h, req[h].key) = {}
    /\ \/ /\ Paid(req[h].key)
          /\ Rollback(h, "duplicate")
       \/ /\ ~Paid(req[h].key)
          /\ Goto(h, "debit")
          /\ UNCHANGED dbVars
    /\ UNCHANGED transfers

\* Mutated: the debit is committed at once, by pool.Exec instead of tx.Exec.
DebitOutsideTx(h) ==
    /\ pc[h] = "debit"
    /\ ledger'  = ledger \cup {Row(h, req[h].agent, Key("out", h), -req[h].n)}
    /\ balance' = [balance EXCEPT ![req[h].agent] = @ - req[h].n]
    /\ Goto(h, "credit")
    /\ UNCHANGED <<enabled, lock, pend, transfers>>

\* The keys of the two rows are made of the transfer's fresh id: no conflict.
TransferDebit(h) ==
    /\ pc[h] = "debit"
    /\ Write(h, Row(h, req[h].agent, Key("out", h), -req[h].n), "credit")
    /\ UNCHANGED transfers

CreditRow(h) == Row(h, req[h].peer, Key("in", h), req[h].n)

TransferCredit(h) ==
    /\ pc[h] = "credit"
    /\ Write(h, CreditRow(h), "commit")
    /\ UNCHANGED transfers

\* tx.Commit may take effect and still report an error.
TransferCommit(h) ==
    /\ pc[h] = "commit"
    /\ Commit(h, {"ok", "error"})
    /\ transfers' = transfers \cup {TransferRow(h)}

-----------------------------------------------------------------------------
(* A statement fails: the connection breaks, the client goes away (the      *)
(* request's context ends), the server stops.  The transaction rolls back,  *)
(* and the handler answers what it answers for an error at that statement.  *)

\* A handler that begins with a lookup or an update by id answers any error of
\* that statement as if there were no such agent.
Looking(h) ==
    \/ pc[h] \in {"resolve", "patch"}
    \/ pc[h] = "begin" /\ req[h].op \in {"adminAdjust", "enable", "disable"}

\* Mutated: an adjust that fails is a duplicate too.
FailIsDuplicate(h) == CASE Looking(h)                           -> "notfound"
                        [] pc[h] = "check"                      -> "insufficient"
                        [] pc[h] \in {"insert", "post", "fk"}   -> "duplicate"
                        [] OTHER                                -> "error"

FailAnswer(h) == CASE Looking(h)        -> "notfound"
                   [] pc[h] = "check"   -> "insufficient"
                   [] pc[h] = "insert"  -> "duplicate"
                   [] OTHER             -> "error"

Abort(h) ==
    /\ Open(h)
    /\ req[h].op \in CandyOps
    /\ Rollback(h, FailAnswer(h))
    /\ UNCHANGED transfers

-----------------------------------------------------------------------------

ReceiveCandy(h) == Receive(h, CandyRequests) /\ UNCHANGED transfers

\* Any handler's begin, and the whole of handleAdminPatchAgent.
BeginCandy(h) ==
    /\ pc[h] = "begin" /\ req[h].op \in CandyOps
    /\ Begin(h)
    /\ UNCHANGED transfers

Patch(h) == PatchAgent(h) /\ UNCHANGED transfers

Transfer(h) == \/ TransferResolve(h) \/ TransferLock1(h) \/ TransferLock2(h)
               \/ TransferCheck(h)   \/ TransferInsert(h)
               \/ TransferDebit(h)   \/ TransferCredit(h) \/ TransferCommit(h)

Handle(h) == BeginCandy(h) \/ Patch(h) \/ AdjustInsert(h) \/ AdjustCommit(h) \/ Transfer(h)

CandyInit == LedgerInit /\ transfers = {}

Finished == AllAnswered /\ UNCHANGED vars

CandyNext == \/ \E h \in Calls : ReceiveCandy(h) \/ Handle(h) \/ Abort(h)
             \/ Finished

CandySpec == CandyInit /\ [][CandyNext]_vars
=============================================================================
