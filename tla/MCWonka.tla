------------------------------ MODULE MCWonka ------------------------------
(* Instances of Wonka for TLC. *)
EXTENDS Wonka, TLC

CONSTANTS k1, k2, gem, g1

MCAgents == 1..2
MCKeys   == {k1, k2}
MCSeed   == [a \in MCAgents |-> 3]
MCItems  == {gem}
CallSymmetry == Permutations(Calls)

MCFirst   == gem :> 3
MCBatches == {gem :> 2}
MCStock   == {Good(g1, 1, gem, 3)}

Candy(op, a, b, n, k) == [op |-> op, agent |-> a, peer |-> b, n |-> n, key |-> k]
Goods(op, a, k, ref)  == [op |-> op, agent |-> a, key |-> k, ref |-> ref]

\* Everything that can move agent 1's candy, on the same key and on another one.
MCEverything == { Candy("adjust", 1, 1, -2, k1), Candy("transfer", 1, 2, 2, k1),
                  Candy("transfer", 2, 1, 3, k2), Goods("buy", 1, k1, <<0, gem>>),
                  Goods("sell", 1, k1, g1), Goods("sell", 1, k2, g1) }

\* Those that can wait for each other's rows, keys and connections.
MCShared == { Candy("adjust", 1, 1, -2, k1), Candy("transfer", 1, 2, 2, k1),
              Candy("transfer", 2, 1, 3, k2), Goods("buy", 1, k1, <<0, gem>>),
              Goods("sell", 1, k2, g1) }
=============================================================================
