----------------------------- MODULE CandyBook -----------------------------
(***************************************************************************)
(* What the candy ledger promises, with no database under it: every agent  *)
(* has funds; a client's posting or a payment takes effect in one step and *)
(* at most once per key; a payment moves candy from one agent to another   *)
(* and never below zero; an administrator issues candy as often as asked.  *)
(***************************************************************************)
EXTENDS Integers

CONSTANTS Agents, Keys, Seed

VARIABLES
    funds,      \* funds[a]: the candy of agent a
    posted,     \* <<a, k>>: a's posting with key k has been applied
    paid        \* keys of the payments made

bookVars == <<funds, posted, paid>>

BookInit == funds = Seed /\ posted = {} /\ paid = {}

\* funds changes to other integers, and for the agents in S only.
OnlyFundsOf(S) ==
    /\ funds' \in [Agents -> Int]
    /\ \A b \in Agents \ S : funds'[b] = funds[b]

Post(a, k) ==
    /\ <<a, k>> \notin posted
    /\ posted' = posted \cup {<<a, k>>}
    /\ OnlyFundsOf({a})
    /\ funds'[a] # funds[a]
    /\ UNCHANGED paid

Issue(a) ==
    /\ OnlyFundsOf({a})
    /\ funds'[a] # funds[a]
    /\ UNCHANGED <<posted, paid>>

Pay(a, b, k) ==
    /\ a # b
    /\ k \notin paid
    /\ paid' = paid \cup {k}
    /\ OnlyFundsOf({a, b})
    /\ 0 <= funds'[a] /\ funds'[a] < funds[a]
    /\ funds'[a] + funds'[b] = funds[a] + funds[b]
    /\ UNCHANGED posted

BookNext == \/ \E a \in Agents : Issue(a) \/ \E k \in Keys : Post(a, k)
            \/ \E a, b \in Agents, k \in Keys : Pay(a, b, k)

BookSpec == BookInit /\ [][BookNext]_bookVars
=============================================================================
