------------------------------ MODULE MCTrade ------------------------------
(* Instances of MarketTrade for TLC. *)
EXTENDS TradeSafety, TLC

CONSTANTS k1, k2, tea, gem, fig, g1, g2, h1

MCAgents == 1..2
MCKeys   == {k1, k2}
MCSeed   == [a \in MCAgents |-> IF a = 1 THEN 4 ELSE 1]
MCItems  == {tea, gem, fig}

\* A refresh that moves both prices, and one that no longer lists gem, and lists fig.
MCFirst   == (tea :> 2) @@ (gem :> 3)
MCBatches == {(tea :> 3) @@ (gem :> 1), (tea :> 4) @@ (fig :> 6)}
MCStock   == {Good(g1, 1, gem, 3), Good(g2, 1, fig, 5)}

Ask(op, a, k, ref) == [op |-> op, agent |-> a, key |-> k, ref |-> ref]

\* Agent 1 can pay for one of the two listings at a time; agent 2 for none of
\* them, until gem is cheap; both try to sell g1, which agent 1 owns; agent 1
\* sells g2, a fig, which may not have been listed yet, and what call h1 has bought.
MCTrades == { Ask("buy", 1, k1, <<0, tea>>), Ask("buy", 1, k2, <<0, gem>>),
              Ask("buy", 2, k1, <<1, gem>>), Ask("sell", 1, k1, g1),
              Ask("sell", 1, k2, g1), Ask("sell", 2, k2, g1),
              Ask("sell", 1, k2, g2), Ask("sell", 1, k2, h1) }
=============================================================================
