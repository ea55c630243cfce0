------------------------------ MODULE LedgerDB ------------------------------
(***************************************************************************)
(* The part of wonka every money-moving handler stands on: the tables      *)
(* agents and candy_ledger (migrations/001_init.up.sql), the row locks and *)
(* unique-key waits PostgreSQL gives a READ COMMITTED transaction, the     *)
(* connection pool, and the life of an HTTP call, from authentication and  *)
(* validation to its answer.                                               *)
(*                                                                         *)
(* A call is one HTTP request the server ever receives; a client's retry   *)
(* is another call with the same request.  A statement is one step; what a *)
(* call has written and not committed is in pend, which nobody else reads  *)
(* except to wait on a unique key.                                         *)
(***************************************************************************)
EXTENDS Integers, FiniteSets

CONSTANTS
    Agents,     \* the ids of the rows of table agents; FOR UPDATE goes by id
    Keys,       \* idempotency keys a client may send
    Calls,      \* HTTP calls, each of which arrives at most once
    Requests,   \* what a call may ask
    Seed,       \* Seed[a]: the balance agent a starts from
    PoolSize,   \* connections in pgxpool
    NoCall,     \* owner of a row nobody has locked
    NoRequest   \* the request of a call that has not arrived

ASSUME AgentsAreOrdered == Agents \subseteq Int
ASSUME SeedIsBalance    == Seed \in [Agents -> Int]
ASSUME NoCallIsNotACall == NoCall \notin Calls
ASSUME PoolIsPositive   == PoolSize \in Nat \ {0}
ASSUME RequestsNameAgents ==
    /\ NoRequest \notin Requests
    /\ \A r \in Requests : r.agent \in Agents

VARIABLES
    ledger,     \* committed rows of candy_ledger
    balance,    \* balance[a] = SUM(delta) over the committed rows of a
    enabled,    \* agents.enabled
    lock,       \* lock[a]: the call whose transaction holds a's row FOR UPDATE
    pend,       \* pend[h]: rows of candy_ledger that h wrote, not committed
    req,        \* req[h]: what h asks
    pc,         \* pc[h]: the statement h is about to run
    resp        \* resp[h]: what h was answered

dbVars   == <<ledger, balance, enabled, lock, pend>>
callVars == <<req, pc, resp>>

-----------------------------------------------------------------------------
(* Rows of candy_ledger.  A key is the client's, "out:"/"in:" and the id of *)
(* a transfer, "admin-" and fresh random bytes, or a seed's.  by is the     *)
(* call that wrote the row.                                                 *)

Key(kind, id)       == [kind |-> kind, id |-> id]
Row(h, a, key, d)   == [agent |-> a, key |-> key, delta |-> d, by |-> h]
SeedRow(a)          == Row(NoCall, a, Key("seed", a), Seed[a])

\* UNIQUE(agent_id, idempotency_key): the key is used by a committed row, or
\* some other open transaction has it in the index.
Taken(a, key) == \E r \in ledger : r.agent = a /\ r.key = key
Writing(h, a, key) ==
    {g \in Calls \ {h} : \E r \in pend[g] : r.agent = a /\ r.key = key}

\* FOR UPDATE conflicts with FOR UPDATE, with the FOR KEY SHARE of the foreign
\* key candy_ledger.agent_id, and with an UPDATE of the row.
CanLock(h, a) == lock[a] \in {NoCall, h}

\* What h's rows add to the balance of a (a transaction has one row per agent).
Posted(h, a) ==
    LET mine == {r \in pend[h] : r.agent = a}
    IN  IF mine = {} THEN 0 ELSE (CHOOSE r \in mine : TRUE).delta

\* The connections calls hold: from the start of a transaction or of a
\* statement that may wait to the answer.
Connected(h) ==
    pc[h] \notin {"idle", "idem", "listing", "resolve", "begin", "done"}
HasConnection == Cardinality({h \in Calls : Connected(h)}) < PoolSize

-----------------------------------------------------------------------------
(* Steps that end a call. *)

Answer(h, code) ==
    /\ pc'   = [pc EXCEPT ![h] = "done"]
    /\ resp' = [resp EXCEPT ![h] = code]
    /\ UNCHANGED req

Goto(h, label) ==
    /\ pc' = [pc EXCEPT ![h] = label]
    /\ UNCHANGED <<req, resp>>

\* tx.Commit, or the end of a statement outside a transaction: the rows and
\* the locks of h become visible and free in one step.
PublishRows(h) ==
    /\ ledger'  = ledger \cup pend[h]
    /\ balance' = [a \in Agents |-> balance[a] + Posted(h, a)]

\* Mutated: the transaction is forgotten, not rolled back; its locks stay.
KeepLocks(h) ==
    /\ pend' = [pend EXCEPT ![h] = {}]
    /\ UNCHANGED lock

EndTx(h) ==
    /\ pend' = [pend EXCEPT ![h] = {}]
    /\ lock' = [a \in Agents |-> IF lock[a] = h THEN NoCall ELSE lock[a]]

Commit(h, codes) ==
    /\ PublishRows(h)
    /\ EndTx(h)
    /\ \E code \in codes : Answer(h, code)
    /\ UNCHANGED enabled

\* defer tx.Rollback: whatever way a handler returns, its rows and locks go.
Rollback(h, code) ==
    /\ EndTx(h)
    /\ Answer(h, code)
    /\ UNCHANGED <<ledger, balance, enabled>>

\* SELECT id FROM agents WHERE id = a FOR UPDATE
LockAgent(h, a, label) ==
    /\ CanLock(h, a)
    /\ lock' = [lock EXCEPT ![a] = h]
    /\ Goto(h, label)
    /\ UNCHANGED <<ledger, balance, enabled, pend>>

\* INSERT INTO candy_ledger inside a transaction, with nothing to wait for.
Write(h, row, label) ==
    /\ pend' = [pend EXCEPT ![h] = @ \cup {row}]
    /\ Goto(h, label)
    /\ UNCHANGED <<ledger, balance, enabled, lock>>

-----------------------------------------------------------------------------
(* The routes of main.go and what stops a request before its handler's first *)
(* statement.                                                                *)

AgentRoutes == {"adjust", "transfer", "buy", "sell"}    \* agentAuthMiddleware

Unauthorized(r) == r.op \in AgentRoutes /\ ~enabled[r.agent]

Invalid(r) ==
    \/ r.op \in {"adjust", "adminAdjust"} /\ r.n = 0
    \/ r.op = "transfer" /\ r.n <= 0

Entry(r) == CASE r.op = "transfer"        -> "resolve"
              [] r.op \in {"buy", "sell"} -> "idem"
              [] OTHER                    -> "begin"

Receive(h, offered) ==
    /\ pc[h] = "idle"
    /\ HasConnection
    /\ \E r \in offered :
         /\ req' = [req EXCEPT ![h] = r]
         /\ \/ /\ Unauthorized(r)
               /\ pc'   = [pc EXCEPT ![h] = "done"]
               /\ resp' = [resp EXCEPT ![h] = "unauthorized"]
            \/ /\ ~Unauthorized(r) /\ Invalid(r)
               /\ pc'   = [pc EXCEPT ![h] = "done"]
               /\ resp' = [resp EXCEPT ![h] = "invalid"]
            \/ /\ ~Unauthorized(r) /\ ~Invalid(r)
               /\ pc' = [pc EXCEPT ![h] = Entry(r)]
               /\ UNCHANGED resp
    /\ UNCHANGED dbVars

\* pool.Begin, or the pool.Exec of a handler that runs one statement.
FirstStatement(r) == CASE r.op = "transfer"                  -> "lock1"
                       [] r.op = "buy"                       -> "lockBuyer"
                       [] r.op = "sell"                      -> "lockSeller"
                       [] r.op \in {"adjust", "adminAdjust"} -> "post"
                       [] OTHER                              -> "patch"

Begin(h) ==
    /\ pc[h] = "begin"
    /\ HasConnection
    /\ Goto(h, FirstStatement(req[h]))
    /\ UNCHANGED dbVars

\* handleAdminPatchAgent: UPDATE agents SET enabled waits for the row's lock.
\* Any error, a lost acknowledgement too, is answered "agent not found".
PatchAgent(h) ==
    /\ pc[h] = "patch"
    /\ CanLock(h, req[h].agent)
    /\ enabled' = [enabled EXCEPT ![req[h].agent] = req[h].op = "enable"]
    /\ \E code \in {"ok", "notfound"} : Answer(h, code)
    /\ UNCHANGED <<ledger, balance, lock, pend>>

-----------------------------------------------------------------------------
(* The initial state of scripts/seed_test.sql and a server that has just    *)
(* started.                                                                  *)

LedgerInit ==
    /\ ledger  = {SeedRow(a) : a \in Agents}
    /\ balance = Seed
    /\ enabled = [a \in Agents |-> TRUE]
    /\ lock    = [a \in Agents |-> NoCall]
    /\ pend    = [h \in Calls |-> {}]
    /\ req     = [h \in Calls |-> NoRequest]
    /\ pc      = [h \in Calls |-> "idle"]
    /\ resp    = [h \in Calls |-> "none"]

Open(h)     == pc[h] \notin {"idle", "done"}
AllAnswered == \A h \in Calls : pc[h] = "done"
=============================================================================
