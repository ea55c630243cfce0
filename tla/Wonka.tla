------------------------------- MODULE Wonka -------------------------------
(***************************************************************************)
(* The ledger and the market in one database: adjusts, transfers, buys and *)
(* sells of the same agents, with the same keys, while prices change.      *)
(***************************************************************************)
EXTENDS CandySafety, TradeSafety

wvars == <<vars, marketVars, tradeVars>>

WonkaInit == CandyInit /\ TradeInit

CandyCall(h) == ReceiveCandy(h) \/ Handle(h) \/ Abort(h)
TradeCall(h) == ReceiveTrade(h) \/ Trade(h) \/ TradeAbort(h)

\* What a call waits for, in either part.
Awaits(h) ==
    CASE pc[h] \in {"lockBuyer", "lockSeller"} -> {lock[req[h].agent]} \ {h, NoCall}
      [] pc[h] \in {"debitBuyer", "creditSeller"} -> Writing(h, req[h].agent, TradeKey(h))
      [] OTHER -> WaitsFor(h)

\* PostgreSQL finds two transactions that wait for each other and makes one of
\* them fail: its statement is an error to the handler.
Deadlocked(h) == \E g \in Calls : g \in Awaits(h) /\ h \in Awaits(g)

DeadlockVictim(h) ==
    /\ Deadlocked(h)
    /\ \/ Abort(h) /\ UNCHANGED <<marketVars, tradeVars>>
       \/ TradeAbort(h) /\ UNCHANGED transfers

WonkaNext ==
    \/ \E h \in Calls : \/ CandyCall(h) /\ UNCHANGED <<marketVars, tradeVars>>
                        \/ TradeCall(h) /\ UNCHANGED transfers
    \/ Relist /\ UNCHANGED transfers
    \/ AllAnswered /\ UNCHANGED wvars

WonkaSafeSpec == WonkaInit /\ [][WonkaNext]_wvars

\* A handler goes on when it can, and a deadlock is found in the end.
WonkaSpec ==
    /\ WonkaSafeSpec
    /\ \A h \in Calls :
         /\ WF_wvars(Handle(h) /\ UNCHANGED <<marketVars, tradeVars>>)
         /\ WF_wvars(Trade(h) /\ UNCHANGED transfers)
    /\ WF_wvars(\E h \in Calls : DeadlockVictim(h))

-----------------------------------------------------------------------------
\* Neither a transfer nor a buy leaves its agent below zero, though transfers,
\* buys, sells and adjusts of the agent run at once: all of them meet at the
\* lock of the agent's row (handlers.go:359-375, market.go:122-142).
SpendersNeverOverdraw ==
    [][/\ \A t \in transfers' \ transfers : balance'[t.from] >= 0
       /\ \A g \in goods' \ goods : g.sold = NoCall => balance'[g.agent] >= 0]_wvars

\* Only an adjust and a trade of one agent with one key can wait for each other:
\* the adjust has the key and waits for the agent's row, the trade has the row
\* and waits for the key.  Every other mix of calls is free of deadlock.
DeadlocksShareAKey ==
    \A S \in (SUBSET Calls) \ {{}} :
        (\A h \in S : Awaits(h) \cap S # {}) =>
            \E g, h \in S : /\ g \in Awaits(h) /\ h \in Awaits(g)
                            /\ req[g].op = "adjust" /\ req[h].op \in TradeOps
                            /\ req[g].agent = req[h].agent /\ req[g].key = req[h].key

\* One key of one agent takes effect once over adjusts, buys and sells together,
\* and an answer "ok" or "duplicate" says that it has.
KeyIsSpentOnce ==
    \A h \in Calls :
        /\ resp[h] \in {"ok", "duplicate"} /\ req[h].op \in {"adjust", "buy", "sell"} =>
             Cardinality({r \in ledger : /\ r.agent = req[h].agent
                                         /\ r.key = Key("client", req[h].key)}) = 1
        /\ resp[h] \notin {"none", "ok", "error"} => \A r \in ledger : r.by # h

\* Every call that arrives is answered, if need be because a deadlock was broken:
\* none waits forever for a lock, a key or a connection.
AllCallsAnswered == \A h \in Calls : Open(h) ~> pc[h] = "done"
=============================================================================
