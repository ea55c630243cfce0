------------------------------- MODULE Pricing -------------------------------
(***************************************************************************)
(* The price arithmetic of refresh.go.  A float64 expression is the exact  *)
(* quotient n/d it computes; math.Round may take a tie either way, because *)
(* the error of the float decides it.  A factor an AI or a random number   *)
(* chooses is any number of its clamped range, so that the result is any   *)
(* integer between the results at both ends.                               *)
(***************************************************************************)
EXTENDS Integers

\* Mutated: a price may round to 0.
Unbounded(S) == S
AtLeast1(S) == {IF p < 1 THEN 1 ELSE p : p \in S}

\* math.Round(n / d), for d > 0.
Rounded(n, d) == {q \in (n \div d)..(n \div d) + 1 : 2 * (q * d - n) \in (-d)..d}

\* Every math.Round of a number between m/d and n/d.
RoundedBetween(m, n, d) ==
    {q \in (m \div d)..(n \div d) + 1 : 2 * (q * d - n) <= d /\ -d <= 2 * (q * d - m)}

\* max(1, round(p * (1 + delta))) with delta clamped to -pct%..pct%.
Swung(p, pct) == AtLeast1(RoundedBetween(p * (100 - pct), p * (100 + pct), 100))

\* runMarketRefresh: +-50% of the anchor by the AI, +-30% without it, and never
\* under 30% of the anchor.
Floor(anchor) == AtLeast1(Rounded(3 * anchor, 10))
DailyPrices(anchor, aiOk) ==
    {IF p < f THEN f ELSE p : p \in Swung(anchor, IF aiOk THEN 50 ELSE 30), f \in Floor(anchor)}

\* runHourlyPriceRefresh: 2% of the way back to the anchor when nobody traded;
\* else +-20% by the AI, or 3% per net purchase, within +-20%, without it.
DecayPrices(cur, anchor) == AtLeast1(Rounded(49 * cur + anchor, 50))
Clamp20(pct) == IF pct > 20 THEN 20 ELSE IF pct < -20 THEN -20 ELSE pct
FlowPrices(cur, net) == AtLeast1(Rounded(cur * (100 + Clamp20(3 * net)), 100))

\* Mutated: the sign of the nudge.
NudgedAway(anchor, low, high) ==
    AtLeast1(RoundedBetween(11 * anchor - high, 11 * anchor - low, 10))

\* updateAnchorPrices: a tenth of the way to a mean of prices between low and high.
NudgedAnchors(anchor, low, high) ==
    AtLeast1(RoundedBetween(9 * anchor + low, 9 * anchor + high, 10))
=============================================================================
