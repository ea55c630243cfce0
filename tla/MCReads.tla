------------------------------- MODULE MCReads -------------------------------
(* Instances of MarketReads for TLC. *)
EXTENDS ReadsSafety, TLC

CONSTANTS tea, g1, s1, s2, s3, before

MCAgents == {1}
MCItems  == {tea}
MCSeed   == [a \in MCAgents |-> 4]
MCFirst  == tea :> 2
MCBatches == {tea :> 3}

SoldGood(id, a) == [id |-> id, agent |-> a, item |-> tea, paid |-> 2, sold |-> before, got |-> 3]

\* Agent 1, who reads, has a good and has sold three.
MCStock == {[id |-> g1, agent |-> 1, item |-> tea, paid |-> 2, sold |-> NoTrade, got |-> 0]}
             \cup {SoldGood(s, 1) : s \in {s1, s2, s3}}
MCSoldBefore == <<s3, s2, s1>>
=============================================================================
