------------------------------ MODULE MCCandy ------------------------------
(* Instances of CandyLedger for TLC. *)
EXTENDS CandySafety, TLC

CONSTANTS k1, k2, k3

MCAgents == 1..3
MCKeys   == {k1, k2, k3}
MCSeed   == [a \in MCAgents |-> IF a = 1 THEN 3 ELSE 2]
CallSymmetry == Permutations(Calls)

Ask(op, a, b, n, k) == [op |-> op, agent |-> a, peer |-> b, n |-> n, key |-> k]

\* Transfers both ways, one of which the payer can afford only once it has been
\* paid, and two that close a ring; an adjust that takes from a payer and one
\* with the same key that gives; an administrator who issues, disables and enables.
MCMixed == { Ask("transfer", 1, 2, 2, k1), Ask("transfer", 2, 1, 3, k2),
             Ask("transfer", 2, 3, 2, k1), Ask("transfer", 3, 1, 2, k3),
             Ask("adjust", 1, 1, -2, k1),  Ask("adjust", 1, 1, 1, k1),
             Ask("adminAdjust", 2, 2, -1, k2),
             Ask("disable", 2, 2, 0, k1),  Ask("enable", 2, 2, 0, k1) }

\* Requests a handler refuses at once.
MCRefused == { Ask("transfer", 1, 1, 1, k1), Ask("transfer", 1, 2, 0, k1),
               Ask("adjust", 1, 1, 0, k1) }

MCAll == MCMixed \cup MCRefused

\* One key used by two payers, and retried.
MCOneKey == { Ask("transfer", 1, 2, 2, k1), Ask("transfer", 2, 1, 2, k1) }
=============================================================================
