---------------------------- MODULE AccessSafety ----------------------------
(* What must be true of users, agents and keys. *)
EXTENDS AgentAccess

AccessLabels == {"idle", "insertUser", "insertAgent", "fk", "owner", "update", "exists",
                 "unbind", "delete", "cascade", "lock1", "lock2", "moving", "done"}

AccessAnswers == {"ok", "conflict", "refused", "notfound", "error"}

TablesTyped ==
    /\ users \subseteq Seeded \cup Calls
    /\ agents \subseteq Agents \cup Calls
    /\ owner \in [Rows -> Seeded \cup Calls \cup {Nobody}]
    /\ key \in [Rows -> Calls \cup {Nobody}]
    /\ lock \in [Rows -> Calls \cup {Nobody}]
    /\ sessions \subseteq Seeded \cup Calls
    /\ scan \in [Calls -> Seq(Agents \cup Calls)]

CallsTyped ==
    /\ req \in [Calls -> Requests \cup {Nobody}]
    /\ pc \in [Calls -> AccessLabels]
    /\ resp \in [Calls -> AccessAnswers \cup {"none"}]
    /\ may \in [Calls -> BOOLEAN]
    /\ \A h \in Calls : pc[h] = "done" <=> resp[h] # "none"

\* Every table and local variable has its type, and a call is answered when it ends.
AccessTypeOK == TablesTyped /\ CallsTyped

\* Deleting a user leaves no trace in agents, though it is two statements with
\* creations of agents between them and the first may fail unnoticed: every owner
\* is a user, and a deletion answered "ok" has happened (admin.go:135-147).
OwnersExist ==
    /\ \A a \in agents : owner[a] \in users \cup {Nobody}
    /\ \A h \in Calls : resp[h] = "ok" /\ req[h].op = "delete" => Target(h) \notin users

\* The key of an agent was made by its creator, or by a call whose caller owned the
\* agent, or was an administrator, when the call arrived: not by somebody deleted
\* before, however long the token lives (auth.go:91-106, handlers.go:679-704).
KeysGoToOwners ==
    \A a \in agents : key[a] # Nobody /\ key[a] # a => may[key[a]]

\* The last administrator goes only by the hand of one who has been deleted while
\* the call was in its handler (admin.go:125-140).
AdminsGoByCrossing ==
    [][users \cap Admins # {} /\ users' \cap Admins = {} =>
         \E h \in Calls : pc[h] = "cascade" /\ pc'[h] = "done" /\ req[h].caller \notin users]_avars

\* Transfers lock in id order "to prevent deadlocks" (handlers.go:354).  Deleting a
\* user locks agents in any order: every cycle of calls that wait for each other
\* has a deletion in it, and a second call that locks several agents.
Awaits(h) ==
    CASE pc[h] = "lock1"  -> {lock[LockOrder(h)[1]]}
      [] pc[h] = "lock2"  -> {lock[LockOrder(h)[2]]}
      [] pc[h] = "update" -> {lock[Target(h)]}
      [] pc[h] = "delete" -> {lock[Target(h)]}
      [] pc[h] = "fk"     -> {lock[req[h].caller]}
      [] pc[h] \in {"unbind", "cascade"} /\ scan[h] # <<>> -> {lock[Head(scan[h])]}
      [] pc[h] = "insertAgent" -> Naming(h)
      [] OTHER -> {}
WaitCycle(S) == S # {} /\ \A h \in S : (Awaits(h) \ {h}) \cap S # {}
DeadlocksNeedADeletion ==
    \A S \in SUBSET Calls : WaitCycle(S) =>
        \E g, h \in S : g # h /\ req[g].op = "delete" /\ req[h].op \in {"delete", "transfer"}
=============================================================================
