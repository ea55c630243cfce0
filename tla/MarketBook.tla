----------------------------- MODULE MarketBook -----------------------------
(***************************************************************************)
(* What the market promises, with no database under it: a refresh replaces *)
(* what is listed; a purchase moves the listed price from the buyer's      *)
(* funds and a good to the buyer, never below zero; a good is sold once.   *)
(* Each is one step.                                                       *)
(***************************************************************************)
EXTENDS Integers

CONSTANTS
    Agents, Items,
    Trades,         \* names of purchases and sales
    Batches,        \* what a refresh may list: functions from items to prices
    NoTrade,        \* what a good is sold by that has not been sold
    Seed, FirstBatch, Stock     \* funds, listings and goods to begin with

VARIABLES
    funds,      \* funds[a]: the candy of agent a
    batch,      \* refreshes so far
    listings,   \* what has been listed, with its price, and whether it still is
    goods       \* goods of agents: what was paid, and what they were sold for

bookVars == <<funds, batch, listings, goods>>

Listed(b, i, p) == [id |-> <<b, i>>, item |-> i, price |-> p, expired |-> FALSE]
Bought(t, a, l) == [id |-> t, agent |-> a, item |-> l.item, paid |-> l.price,
                    sold |-> NoTrade, got |-> 0]
Made(t) == \E g \in goods : t \in {g.id, g.sold}

MarketInit ==
    /\ funds = Seed
    /\ batch = 0
    /\ listings = {Listed(0, i, FirstBatch[i]) : i \in DOMAIN FirstBatch}
    /\ goods = Stock

\* What may expire is what the refresh has seen; the listings of one that
\* overlapped it stay.
List(prices, seen) ==
    /\ batch' = batch + 1
    /\ listings' = (listings \ seen) \cup {[l EXCEPT !.expired = TRUE] : l \in seen}
         \cup {Listed(batch + 1, i, prices[i]) : i \in DOMAIN prices}
    /\ UNCHANGED <<funds, goods>>

Purchase(t, a, l) ==
    /\ ~Made(t)
    /\ l.price <= funds[a]
    /\ funds' = [funds EXCEPT ![a] = @ - l.price]
    /\ goods' = goods \cup {Bought(t, a, l)}
    /\ UNCHANGED <<batch, listings>>

\* A price the item has had.  One that was not listed to begin with may be sold for
\* 1: the sale may be under way when it is first listed.
Prices(i) == {l.price : l \in {m \in listings : m.item = i}}
               \cup (IF i \in DOMAIN FirstBatch THEN {} ELSE {1})

Sale(t, g, p) ==
    /\ ~Made(t)
    /\ g.sold = NoTrade
    /\ funds' = [funds EXCEPT ![g.agent] = @ + p]
    /\ goods' = (goods \ {g}) \cup {[g EXCEPT !.sold = t, !.got = p]}
    /\ UNCHANGED <<batch, listings>>

MarketNext ==
    \/ \E prices \in Batches, b \in 0..batch :
         List(prices, {l \in listings : l.id[1] <= b})
    \/ \E t \in Trades, a \in Agents, l \in listings : Purchase(t, a, l)
    \/ \E t \in Trades, g \in goods : \E p \in Prices(g.item) : Sale(t, g, p)

MarketSpec == MarketInit /\ [][MarketNext]_bookVars
=============================================================================
