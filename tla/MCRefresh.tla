------------------------------ MODULE MCRefresh ------------------------------
(* Instances of MarketRefresh for TLC. *)
EXTENDS RefreshSafety, TLC

CONSTANTS tea, gem

JobSymmetry == Permutations(Jobs)

\* A price of 1 cannot fall; one of 9 is far enough from the prices it may get (4 to
\* 14) for its anchor to move.
MCItems  == {tea, gem}
MCAnchor == (tea :> 1) @@ (gem :> 9)
MCFlows  == {(tea :> 1) @@ (gem :> 7), (tea :> 7) @@ (gem :> -4)}

MCOneItem   == {gem}
MCOneAnchor == gem :> 20
MCLowAnchor == gem :> 1
MCOneFlow   == {gem :> 7, gem :> -4}
=============================================================================
