---------------------------- MODULE AccessProofs ----------------------------
(***************************************************************************)
(* For any users, agents, calls and requests: the types of AgentAccess,    *)
(* and that a deletion leaves no owner behind, that keys go to owners,     *)
(* who deletes the last administrator, and that every deadlock has a       *)
(* deletion in it.                                                         *)
(***************************************************************************)
EXTENDS AccessSafety, FiniteSetTheorems, WellFoundedInduction, TLAPS

Deleting     == {"exists", "unbind", "delete", "cascade"}
Transferring == {"lock1", "lock2", "moving"}

\* A call is at a statement of the handler of its request; who creates an agent has
\* been a user, and an administrator that deletes a user deletes somebody else.
Routed ==
    \A h \in Calls :
        /\ pc[h] # "idle" => req[h] \in Requests
        /\ pc[h] = "insertUser" => req[h].op = "register"
        /\ pc[h] \in {"insertAgent", "fk"} => /\ req[h].op = "create"
                                              /\ req[h].caller \in Seeded \cup Calls
        /\ pc[h] \in {"owner", "update"} => req[h].op = "regenerate"
        /\ pc[h] \in Deleting => /\ req[h].op = "delete"
                                 /\ req[h].caller \in Admins /\ Target(h) # req[h].caller
        /\ pc[h] \in Transferring => req[h].op = "transfer"

\* A row is locked by a transfer that has its locks, or the first of them, or by
\* a statement of a deletion.
RowsHaveHolders ==
    \A x \in Rows : lock[x] # Nobody =>
        \/ pc[lock[x]] = "lock2" /\ x = LockOrder(lock[x])[1]
        \/ pc[lock[x]] \in {"moving", "unbind", "cascade"}

\* The agents of the server's start stay; a created one has its call's name.
AgentsStay == Agents \subseteq agents /\ IsFiniteSet(agents)

\* Who registers is a user when the call is answered, and not before; who is being
\* deleted has been one, and will not be again.
Registered(u) == u \in Seeded \/ (u \in Calls /\ pc[u] = "done")
HasFound(h)   == \/ pc[h] \in {"unbind", "delete", "cascade"}
                 \/ pc[h] = "done" /\ resp[h] = "ok" /\ req[h].op = "delete"
UsersAreRegistered ==
    /\ \A u \in users : Registered(u)
    /\ \A h \in Calls : HasFound(h) => Registered(Target(h))

\* The DELETE holds the user's row, and all of the user's agents but those it has
\* still to lock: no agent gets this owner meanwhile.
Ahead(h, a) == \E i \in DOMAIN scan[h] : scan[h][i] = a
Holds(h) == /\ lock[Target(h)] = h
            /\ \A a \in Owned(Target(h)) : lock[a] = h \/ Ahead(h, a)
CascadeHolds == \A h \in Calls : pc[h] = "cascade" => Holds(h)

\* A key is made by a call that has been answered, and was allowed, unless the call
\* made the agent; an owner that reads its agent has owned it since the call came.
KeysAreAllowed ==
    /\ \A a \in Rows : key[a] # Nobody => pc[key[a]] = "done" /\ (key[a] # a => may[key[a]])
    /\ \A h \in Calls :
         /\ pc[h] = "update" => may[h]
         /\ pc[h] = "owner" => /\ req[h].caller \in Seeded \cup Calls
                               /\ owner[Target(h)] = req[h].caller => may[h]

Access == /\ AccessTypeOK /\ Routed /\ RowsHaveHolders /\ AgentsStay
          /\ UsersAreRegistered /\ OwnersExist /\ CascadeHolds /\ KeysAreAllowed

-----------------------------------------------------------------------------
(* Init => Access *)

\* The initial states satisfy Access: nothing is locked and nothing has arrived.
LEMMA InitAccess == AccessInit => Access
  <1> SUFFICES ASSUME AccessInit PROVE Access
    OBVIOUS
  <1> USE SeedsAreNamed, IdsAreDistinct, AgentsAreFinite DEF AccessInit
  <1>1. AccessTypeOK
    <2>1. \A S : <<>> \in Seq(S)
      OBVIOUS
    <2>2. TablesTyped
      BY <2>1 DEF TablesTyped, Rows
    <2>3. CallsTyped
      BY DEF CallsTyped, AccessLabels
    <2> QED
      BY <2>2, <2>3 DEF AccessTypeOK
  <1>2. Routed /\ UsersAreRegistered /\ CascadeHolds
    BY DEF Routed, UsersAreRegistered, Registered, CascadeHolds, Deleting, Transferring, HasFound
  <1>3. RowsHaveHolders /\ AgentsStay /\ KeysAreAllowed
    BY DEF RowsHaveHolders, AgentsStay, KeysAreAllowed, Rows
  <1>4. OwnersExist
    BY DEF OwnersExist, Rows
  <1> QED
    BY <1>1, <1>2, <1>3, <1>4 DEF Access

-----------------------------------------------------------------------------
(* Every step keeps Access. *)

\* An order of a finite set is a sequence of all of its members.
LEMMA OrdersList ==
    ASSUME NEW S, IsFiniteSet(S), NEW s \in Orders(S)
    PROVE  s \in Seq(S) /\ \A x \in S : \E i \in DOMAIN s : s[i] = x
  <1> DEFINE n == Cardinality(S)
  <1>1. n \in Nat
    BY FS_CardinalityType
  <1>2. s \in [1..n -> S] /\ s \in Injection(1..n, S)
    BY DEF Orders, Injection, IsInjective
  <1>3. IsFiniteSet(1..n) /\ Cardinality(1..n) = n
    BY <1>1, FS_Interval
  <1>4. s \in Surjection(1..n, S)
    BY <1>2, <1>3, FS_Injection
  <1> QED
    BY <1>1, <1>2, <1>4 DEF Surjection

\* A statement that ends has nothing to lock.
LEMMA EmptyScan ==
    ASSUME TablesTyped, NEW h \in Calls
    PROVE  [scan EXCEPT ![h] = <<>>] \in [Calls -> Seq(Agents \cup Calls)]
  BY DEF TablesTyped

\* NULL owns nothing that is deleted.
LEMMA UsersAreNotNobody ==
    ASSUME UsersAreRegistered, NEW g \in Calls, pc[g] = "cascade"
    PROVE  Target(g) # Nobody
  BY SeedsAreNamed DEF UsersAreRegistered, HasFound, Registered

\* So the rows a statement has to lock are rows of agents.
LEMMA OrdersAreScans ==
    ASSUME TablesTyped, AgentsStay, NEW u
    PROVE  \A s \in Orders(Owned(u)) : /\ s \in Seq(Agents \cup Calls)
                                      /\ \A a \in Owned(u) : \E i \in DOMAIN s : s[i] = a
  <1>1. Owned(u) \subseteq Agents \cup Calls /\ IsFiniteSet(Owned(u))
    BY FS_Subset DEF TablesTyped, AgentsStay, Owned
  <1>2. \A s \in Orders(Owned(u)) : s \in Seq(Owned(u)) /\ \A a \in Owned(u) : \E i \in DOMAIN s : s[i] = a
    BY <1>1, OrdersList
  <1> QED
    BY <1>1, <1>2

\* A step that ends its call, and one that goes on.
Ends(h, code)  == /\ pc' = [pc EXCEPT ![h] = "done"] /\ resp' = [resp EXCEPT ![h] = code]
                  /\ req' = req /\ may' = may
Goes(h, label) == /\ pc' = [pc EXCEPT ![h] = label]
                  /\ resp' = resp /\ req' = req /\ may' = may

\* Both keep the types of the calls, and leave the other calls alone.
LEMMA StepTypes ==
    ASSUME CallsTyped, NEW h \in Calls, pc[h] # "done",
           \/ \E code \in AccessAnswers : Ends(h, code)
           \/ \E label \in AccessLabels \ {"done"} : Goes(h, label)
    PROVE  CallsTyped' /\ \A g \in Calls \ {h} : pc'[g] = pc[g] /\ resp'[g] = resp[g]
  <1>1. ASSUME NEW code \in AccessAnswers, Ends(h, code)
        PROVE  CallsTyped' /\ \A g \in Calls \ {h} : pc'[g] = pc[g] /\ resp'[g] = resp[g]
    BY <1>1 DEF CallsTyped, Ends, AccessAnswers, AccessLabels
  <1>2. ASSUME NEW label \in AccessLabels \ {"done"}, Goes(h, label)
        PROVE  CallsTyped' /\ \A g \in Calls \ {h} : pc'[g] = pc[g] /\ resp'[g] = resp[g]
    BY <1>2 DEF CallsTyped, Goes
  <1> QED
    BY <1>1, <1>2

\* A step of a call keeps what is known of who is registered, when it adds nobody,
\* or the call itself as it is answered.
LEMMA RegisteredKept ==
    ASSUME AccessTypeOK, UsersAreRegistered, NEW h \in Calls, pc[h] # "done",
           \A g \in Calls \ {h} : pc'[g] = pc[g] /\ resp'[g] = resp[g], req' = req,
           users' \subseteq users \/ (users' \subseteq users \cup {h} /\ pc'[h] = "done"),
           HasFound(h)' => Registered(Target(h))
    PROVE  UsersAreRegistered'
  <1>1. ASSUME NEW u, Registered(u) PROVE Registered(u)'
    BY <1>1 DEF Registered
  <1>2. pc'[h] = "done" => Registered(h)'
    BY DEF Registered
  <1>3. \A u \in users' : Registered(u)'
    BY <1>1, <1>2 DEF UsersAreRegistered
  <1>4. ASSUME NEW g \in Calls, HasFound(g)'
        PROVE  Registered(Target(g))'
    <2>1. g # h => HasFound(g)
      BY <1>4 DEF HasFound
    <2>2. Registered(Target(g))
      BY <1>4, <2>1 DEF UsersAreRegistered
    <2>3. Target(g)' = Target(g)
      BY DEF Target
    <2>4. PICK u : u = Target(g)
      OBVIOUS
    <2>5. Registered(u)'
      BY <1>1, <2>2, <2>4
    <2> QED
      BY <2>3, <2>4, <2>5 DEF Registered
  <1> QED
    BY <1>3, <1>4 DEF UsersAreRegistered

\* The holders of the other calls' rows stay where they are.
LEMMA HoldersKept ==
    ASSUME TablesTyped, RowsHaveHolders, NEW h \in Calls, req' = req,
           \A g \in Calls \ {h} : pc'[g] = pc[g],
           \A x \in Rows : lock'[x] \in {lock[x], Nobody, h},
           \A x \in Rows : lock'[x] = h =>
               \/ pc'[h] = "lock2" /\ x = LockOrder(h)[1]
               \/ pc'[h] \in {"moving", "unbind", "cascade"}
    PROVE  RowsHaveHolders'
  <1> SUFFICES ASSUME NEW x \in Rows, NEW g \in Calls, g = lock'[x]
               PROVE  \/ pc'[g] = "lock2" /\ x = LockOrder(lock[x])'[1]
                      \/ pc'[g] \in {"moving", "unbind", "cascade"}
    BY DEF RowsHaveHolders, TablesTyped
  <1>1. LockOrder(lock[x])' = LockOrder(g)
    BY DEF LockOrder, Target
  <1>2. g # h => lock[x] = g /\ pc'[g] = pc[g]
    BY SeedsAreNamed
  <1> QED
    BY <1>1, <1>2, SeedsAreNamed DEF RowsHaveHolders

\* What a deletion holds, as long as it keeps its locks and nobody gets its user as
\* an owner.
LEMMA CascadeKept ==
    ASSUME AccessTypeOK, UsersAreRegistered, CascadeHolds, NEW h, req' = req,
           \A g \in Calls \ {h} : pc'[g] = pc[g] /\ scan'[g] = scan[g],
           \A x \in Rows : lock[x] \notin {Nobody, h} => lock'[x] = lock[x],
           \A g \in Calls \ {h}, a \in agents' :
               pc[g] = "cascade" /\ owner'[a] = Target(g) => a \in Owned(Target(g)),
           pc'[h] = "cascade" => Holds(h)'
    PROVE  CascadeHolds'
  <1> SUFFICES ASSUME NEW g \in Calls \ {h}, pc'[g] = "cascade" PROVE Holds(g)'
    BY DEF CascadeHolds
  <1>1. pc[g] = "cascade" /\ Target(g)' = Target(g) /\ g # Nobody
    BY SeedsAreNamed DEF Target
  <1>2. Target(g) \in Rows /\ agents \subseteq Rows
    BY <1>1 DEF UsersAreRegistered, HasFound, Registered, Rows, AccessTypeOK, TablesTyped
  <1>3. lock'[Target(g)] = g
    BY <1>1, <1>2 DEF CascadeHolds, Holds
  <1>4. ASSUME NEW a \in agents', owner'[a] = Target(g)
        PROVE  lock'[a] = g \/ Ahead(g, a)'
    <2>1. a \in Owned(Target(g))
      BY <1>1, <1>4
    <2>2. lock[a] = g \/ Ahead(g, a)
      BY <1>1, <2>1 DEF CascadeHolds, Holds
    <2> QED
      BY <1>1, <1>2, <2>1, <2>2 DEF Owned, Ahead
  <1> QED
    BY <1>1, <1>3, <1>4 DEF Holds, Owned

\* POST /v1/auth/register: a user is added when the call is answered.
LEMMA RegisterAccess == ASSUME Access, NEW h \in Calls, Register(h) PROVE Access'
  <1> USE SeedsAreNamed, IdsAreDistinct DEF Access, tables
  <1>a. /\ pc[h] = "insertUser" /\ \E code \in AccessAnswers : Ends(h, code)
        /\ users' = users \/ users' = users \cup {h}
        /\ UNCHANGED <<agents, owner, key, lock, scan, sessions>>
    BY DEF Register, Answer, Ends, AccessAnswers
  <1>b. /\ CallsTyped' /\ \A g \in Calls \ {h} : pc'[g] = pc[g] /\ resp'[g] = resp[g]
        /\ pc'[h] = "done" /\ req' = req /\ may' = may /\ req[h].op = "register"
    BY <1>a, StepTypes DEF Ends, AccessTypeOK, CallsTyped, Routed
  <1>1. AccessTypeOK'
    BY <1>a, <1>b DEF AccessTypeOK, TablesTyped
  <1>2. Routed'
    BY <1>a, <1>b DEF Routed, Target, Deleting, Transferring
  <1>3. RowsHaveHolders'
    <2>1. \A x \in Rows : lock[x] # h
      BY <1>a, SeedsAreNamed DEF RowsHaveHolders
    <2> QED
      BY <1>a, <1>b, <2>1, HoldersKept DEF AccessTypeOK
  <1>4. AgentsStay'
    BY <1>a DEF AgentsStay
  <1>5. UsersAreRegistered'
    BY <1>a, <1>b, RegisteredKept DEF HasFound
  <1>6. OwnersExist'
    <2>1. ASSUME NEW g \in Calls, resp'[g] = "ok", req'[g].op = "delete" PROVE Target(g)' \notin users'
      <3>1. Target(g)' = Target(g) /\ Target(g) \notin users /\ Registered(Target(g))
        BY <1>b, <2>1
           DEF OwnersExist, UsersAreRegistered, HasFound, AccessTypeOK, CallsTyped, Target
      <3> QED
        BY <1>a, <3>1 DEF Registered
    <2> QED
      BY <1>a, <2>1 DEF OwnersExist
  <1>7. CascadeHolds'
    BY <1>a, <1>b DEF CascadeHolds, Holds, Ahead, Owned, Target
  <1>8. KeysAreAllowed'
    BY <1>a, <1>b DEF KeysAreAllowed, Target, AccessTypeOK, TablesTyped, CallsTyped
  <1> QED
    BY <1>1, <1>2, <1>3, <1>4, <1>5, <1>6, <1>7, <1>8

\* The name of a new agent is in the index, or is found there.
LEMMA CreateInsertAccess == ASSUME Access, NEW h \in Calls, CreateInsert(h) PROVE Access'
  <1> USE SeedsAreNamed, IdsAreDistinct DEF Access, tables
  <1>a. /\ pc[h] = "insertAgent"
        /\ (\E code \in AccessAnswers : Ends(h, code)) \/ Goes(h, "fk")
        /\ UNCHANGED <<users, agents, owner, key, lock, scan, sessions>>
    BY DEF CreateInsert, Answer, Goto, Ends, Goes, AccessAnswers
  <1>b. /\ CallsTyped' /\ \A g \in Calls \ {h} : pc'[g] = pc[g] /\ resp'[g] = resp[g]
        /\ pc'[h] \in {"done", "fk"} /\ req' = req /\ may' = may /\ req[h].op = "create"
    BY <1>a, StepTypes DEF Ends, Goes, AccessTypeOK, CallsTyped, AccessLabels, Routed
  <1>1. AccessTypeOK'
    BY <1>a, <1>b DEF AccessTypeOK, TablesTyped
  <1>2. Routed'
    BY <1>a, <1>b DEF Routed, Target, Deleting, Transferring
  <1>3. RowsHaveHolders'
    <2>1. \A x \in Rows : lock[x] # h
      BY <1>a, SeedsAreNamed DEF RowsHaveHolders
    <2> QED
      BY <1>a, <1>b, <2>1, HoldersKept DEF AccessTypeOK
  <1>4. AgentsStay'
    BY <1>a DEF AgentsStay
  <1>5. UsersAreRegistered'
    BY <1>a, <1>b, RegisteredKept DEF HasFound
  <1>6. OwnersExist'
    BY <1>a, <1>b DEF OwnersExist, Target, AccessTypeOK, TablesTyped, CallsTyped
  <1>7. CascadeHolds'
    BY <1>a, <1>b DEF CascadeHolds, Holds, Ahead, Owned, Target
  <1>8. KeysAreAllowed'
    BY <1>a, <1>b DEF KeysAreAllowed, Target, AccessTypeOK, TablesTyped, CallsTyped, Rows
  <1> QED
    BY <1>1, <1>2, <1>3, <1>4, <1>5, <1>6, <1>7, <1>8

\* An agent is added whose owner is a user that nobody is deleting.
LEMMA CreateCommitAccess == ASSUME Access, NEW h \in Calls, CreateCommit(h) PROVE Access'
  <1> USE SeedsAreNamed, IdsAreDistinct DEF Access, tables
  <1>a. /\ pc[h] = "fk" /\ \E code \in AccessAnswers : Ends(h, code)
        /\ \/ UNCHANGED <<agents, owner, key>>
           \/ /\ lock[req[h].caller] \in {Nobody, h} /\ req[h].caller \in users
              /\ agents' = agents \cup {h} /\ owner' = [owner EXCEPT ![h] = req[h].caller]
              /\ key' = [key EXCEPT ![h] = h]
        /\ UNCHANGED <<users, lock, scan, sessions>>
    BY DEF CreateCommit, AddAgent, Free, Answer, Ends, AccessAnswers
  <1>b. /\ CallsTyped' /\ \A g \in Calls \ {h} : pc'[g] = pc[g] /\ resp'[g] = resp[g]
        /\ pc'[h] = "done" /\ req' = req /\ may' = may /\ req[h].op = "create"
    BY <1>a, StepTypes DEF Ends, AccessTypeOK, CallsTyped, Routed
  <1>c. ASSUME NEW x \in Rows
        PROVE  /\ key'[x] = key[x] \/ (x = h /\ key'[x] = h)
               /\ \/ owner'[x] = owner[x] /\ (x \in agents' => x \in agents)
                  \/ /\ x = h /\ owner'[x] = req[h].caller /\ req[h].caller \in users
                     /\ lock[req[h].caller] \in {Nobody, h}
    BY <1>a DEF AccessTypeOK, TablesTyped
  <1>d. agents' \subseteq Agents \cup Calls /\ agents \subseteq agents'
    BY <1>a DEF AccessTypeOK, TablesTyped
  <1>1. AccessTypeOK'
    <2>1. req[h].caller \in users => req[h].caller \in Seeded \cup Calls
      BY DEF AccessTypeOK, TablesTyped
    <2>2. owner' \in [Rows -> Seeded \cup Calls \cup {Nobody}]
      BY <1>a, <2>1 DEF AccessTypeOK, TablesTyped
    <2>3. key' \in [Rows -> Calls \cup {Nobody}]
      BY <1>a DEF AccessTypeOK, TablesTyped
    <2> QED
      BY <1>a, <1>b, <1>d, <2>2, <2>3 DEF AccessTypeOK, TablesTyped
  <1>2. Routed'
    BY <1>a, <1>b DEF Routed, Target, Deleting, Transferring
  <1>3. RowsHaveHolders'
    <2>1. \A x \in Rows : lock[x] # h
      BY <1>a, SeedsAreNamed DEF RowsHaveHolders
    <2> QED
      BY <1>a, <1>b, <2>1, HoldersKept DEF AccessTypeOK
  <1>4. AgentsStay'
    BY <1>a, FS_AddElement DEF AgentsStay
  <1>5. UsersAreRegistered'
    BY <1>a, <1>b, RegisteredKept DEF HasFound
  <1>6. OwnersExist'
    <2>1. \A a \in agents' : owner'[a] \in users \cup {Nobody}
      BY <1>c, <1>d DEF OwnersExist, Rows
    <2> QED
      BY <1>a, <1>b, <2>1 DEF OwnersExist, Target
  <1>7. CascadeHolds'
    <2>1. ASSUME NEW g \in Calls \ {h}, pc[g] = "cascade", NEW a \in agents', owner'[a] = Target(g)
          PROVE  a \in Owned(Target(g))
      <3>1. lock[Target(g)] = g
        BY <2>1 DEF CascadeHolds, Holds
      <3>2. owner'[a] = owner[a] /\ a \in agents
        BY <1>c, <1>d, <2>1, <3>1 DEF Rows
      <3> QED
        BY <2>1, <3>2 DEF Owned
    <2> QED
      BY <1>a, <1>b, <2>1, CascadeKept
  <1>8. KeysAreAllowed'
    <2>1. \A a \in Rows : key'[a] # Nobody => pc'[key'[a]] = "done" /\ (key'[a] # a => may'[key'[a]])
      BY <1>b, <1>c DEF KeysAreAllowed, AccessTypeOK, TablesTyped
    <2>2. ASSUME NEW g \in Calls, pc'[g] = "owner"
          PROVE  pc[g] = "owner" /\ Target(g)' = Target(g) /\ owner'[Target(g)] = owner[Target(g)]
      <3>1. pc[g] = "owner" /\ Target(g)' = Target(g)
        BY <1>b, <2>2 DEF Target
      <3>2. Target(g) \in Agents
        BY <3>1, RequestsNameAgents DEF Routed, Target
      <3> QED
        BY <1>c, <3>1, <3>2 DEF Rows
    <2> QED
      BY <1>b, <2>1, <2>2 DEF KeysAreAllowed
  <1> QED
    BY <1>1, <1>2, <1>3, <1>4, <1>5, <1>6, <1>7, <1>8

\* The owner of the agent is read.
LEMMA CheckOwnerAccess == ASSUME Access, NEW h \in Calls, CheckOwner(h) PROVE Access'
  <1> USE SeedsAreNamed, IdsAreDistinct DEF Access, tables
  <1>a. /\ pc[h] = "owner"
        /\ \/ \E code \in AccessAnswers : Ends(h, code)
           \/ Goes(h, "update") /\ owner[Target(h)] = req[h].caller
        /\ UNCHANGED <<users, agents, owner, key, lock, scan, sessions>>
    BY DEF CheckOwner, Owned, Answer, Goto, Ends, Goes, AccessAnswers
  <1>b. /\ CallsTyped' /\ \A g \in Calls \ {h} : pc'[g] = pc[g] /\ resp'[g] = resp[g]
        /\ pc'[h] \in {"done", "update"} /\ req' = req /\ may' = may /\ req[h].op = "regenerate"
        /\ pc'[h] = "update" => owner[Target(h)] = req[h].caller
    BY <1>a, StepTypes DEF Ends, Goes, AccessTypeOK, CallsTyped, AccessLabels, Routed
  <1>1. AccessTypeOK'
    BY <1>a, <1>b DEF AccessTypeOK, TablesTyped
  <1>2. Routed'
    BY <1>a, <1>b DEF Routed, Target, Deleting, Transferring
  <1>3. RowsHaveHolders'
    <2>1. \A x \in Rows : lock[x] # h
      BY <1>a, SeedsAreNamed DEF RowsHaveHolders
    <2> QED
      BY <1>a, <1>b, <2>1, HoldersKept DEF AccessTypeOK
  <1>4. AgentsStay'
    BY <1>a DEF AgentsStay
  <1>5. UsersAreRegistered'
    BY <1>a, <1>b, RegisteredKept DEF HasFound
  <1>6. OwnersExist'
    BY <1>a, <1>b DEF OwnersExist, Target, AccessTypeOK, TablesTyped, CallsTyped
  <1>7. CascadeHolds'
    BY <1>a, <1>b DEF CascadeHolds, Holds, Ahead, Owned, Target
  <1>8. KeysAreAllowed'
    BY <1>a, <1>b DEF KeysAreAllowed, Target, AccessTypeOK, TablesTyped, CallsTyped, Rows
  <1> QED
    BY <1>1, <1>2, <1>3, <1>4, <1>5, <1>6, <1>7, <1>8

\* The key is written by a call that was allowed.
LEMMA UpdateKeyAccess == ASSUME Access, NEW h \in Calls, UpdateKey(h) PROVE Access'
  <1> USE SeedsAreNamed, IdsAreDistinct DEF Access, tables
  <1>a. /\ pc[h] = "update" /\ \E code \in AccessAnswers : Ends(h, code)
        /\ key' = [key EXCEPT ![Target(h)] = h]
        /\ UNCHANGED <<users, agents, owner, lock, scan, sessions>>
    BY DEF UpdateKey, Answer, Ends, AccessAnswers
  <1>b. /\ CallsTyped' /\ \A g \in Calls \ {h} : pc'[g] = pc[g] /\ resp'[g] = resp[g]
        /\ pc'[h] = "done" /\ req' = req /\ may' = may /\ req[h].op = "regenerate"
    BY <1>a, StepTypes DEF Ends, AccessTypeOK, CallsTyped, Routed
  <1>1. AccessTypeOK'
    BY <1>a, <1>b DEF AccessTypeOK, TablesTyped
  <1>2. Routed'
    BY <1>a, <1>b DEF Routed, Target, Deleting, Transferring
  <1>3. RowsHaveHolders'
    <2>1. \A x \in Rows : lock[x] # h
      BY <1>a, SeedsAreNamed DEF RowsHaveHolders
    <2> QED
      BY <1>a, <1>b, <2>1, HoldersKept DEF AccessTypeOK
  <1>4. AgentsStay'
    BY <1>a DEF AgentsStay
  <1>5. UsersAreRegistered'
    BY <1>a, <1>b, RegisteredKept DEF HasFound
  <1>6. OwnersExist'
    BY <1>a, <1>b DEF OwnersExist, Target, AccessTypeOK, TablesTyped, CallsTyped
  <1>7. CascadeHolds'
    BY <1>a, <1>b DEF CascadeHolds, Holds, Ahead, Owned, Target
  <1>8. KeysAreAllowed'
    BY <1>a, <1>b DEF KeysAreAllowed, Target, AccessTypeOK, TablesTyped, CallsTyped, Rows
  <1> QED
    BY <1>1, <1>2, <1>3, <1>4, <1>5, <1>6, <1>7, <1>8

\* The user to be deleted is found.
LEMMA CheckExistsAccess == ASSUME Access, NEW h \in Calls, CheckExists(h) PROVE Access'
  <1> USE SeedsAreNamed, IdsAreDistinct DEF Access, tables
  <1>a. /\ pc[h] = "exists"
        /\ \/ scan' = scan /\ \E code \in AccessAnswers \ {"ok"} : Ends(h, code)
           \/ /\ Target(h) \in users /\ Goes(h, "unbind")
              /\ \E s \in Orders(Owned(Target(h))) : scan' = [scan EXCEPT ![h] = s]
        /\ UNCHANGED <<users, agents, owner, key, lock, sessions>>
    BY DEF CheckExists, Answer, Goto, Ends, Goes, AccessAnswers
  <1>b. /\ CallsTyped' /\ \A g \in Calls \ {h} : pc'[g] = pc[g] /\ resp'[g] = resp[g]
        /\ pc'[h] \in {"done", "unbind"} /\ (pc'[h] = "done" => resp'[h] # "ok")
        /\ req' = req /\ may' = may /\ req[h].op = "delete"
    BY <1>a, StepTypes DEF Ends, Goes, AccessTypeOK, CallsTyped, AccessLabels, Routed, Deleting
  <1>c. scan' \in [Calls -> Seq(Agents \cup Calls)] /\ \A g \in Calls \ {h} : scan'[g] = scan[g]
    BY <1>a, OrdersAreScans, SMTT(30) DEF AccessTypeOK, TablesTyped
  <1>1. AccessTypeOK'
    BY <1>a, <1>b, <1>c DEF AccessTypeOK, TablesTyped
  <1>2. Routed'
    BY <1>a, <1>b DEF Routed, Target, Deleting, Transferring
  <1>3. RowsHaveHolders'
    <2>1. \A x \in Rows : lock[x] # h
      BY <1>a, SeedsAreNamed DEF RowsHaveHolders
    <2> QED
      BY <1>a, <1>b, <2>1, HoldersKept DEF AccessTypeOK
  <1>4. AgentsStay'
    BY <1>a DEF AgentsStay
  <1>5. UsersAreRegistered'
    <2>1. HasFound(h)' => Target(h) \in users
      BY <1>a, <1>b DEF HasFound, Ends, AccessTypeOK, CallsTyped
    <2> QED
      BY <1>a, <1>b, <2>1, RegisteredKept DEF UsersAreRegistered
  <1>6. OwnersExist'
    BY <1>a, <1>b DEF OwnersExist, Target, AccessTypeOK, TablesTyped, CallsTyped
  <1>7. CascadeHolds'
    BY <1>a, <1>b, <1>c, CascadeKept DEF Owned
  <1>8. KeysAreAllowed'
    BY <1>a, <1>b DEF KeysAreAllowed, Target, AccessTypeOK, TablesTyped, CallsTyped, Rows
  <1> QED
    BY <1>1, <1>2, <1>3, <1>4, <1>5, <1>6, <1>7, <1>8

\* A statement of a deletion locks the next of its rows.
LEMMA LockNextAccess == ASSUME Access, NEW h \in Calls, LockNext(h) PROVE Access'
  <1> USE SeedsAreNamed, IdsAreDistinct DEF Access, tables
  <1>a. /\ pc[h] \in {"unbind", "cascade"} /\ scan[h] # <<>>
        /\ lock[Head(scan[h])] \in {Nobody, h} /\ lock' = [lock EXCEPT ![Head(scan[h])] = h]
        /\ scan' = [scan EXCEPT ![h] = Tail(scan[h])]
        /\ UNCHANGED <<users, agents, owner, key, sessions, req, pc, resp, may>>
    BY DEF LockNext, Lock, Free, callVars
  <1>b. CallsTyped'
    BY <1>a DEF AccessTypeOK, CallsTyped
  <1>c. Head(scan[h]) \in Rows /\ scan' \in [Calls -> Seq(Agents \cup Calls)]
    BY <1>a DEF AccessTypeOK, TablesTyped, Rows
  <1>1. AccessTypeOK'
    BY <1>a, <1>b, <1>c DEF AccessTypeOK, TablesTyped
  <1>2. Routed'
    BY <1>a, <1>b DEF Routed, Target, Deleting, Transferring
  <1>3. RowsHaveHolders'
    BY <1>a, <1>c, HoldersKept DEF AccessTypeOK, TablesTyped
  <1>4. AgentsStay'
    BY <1>a DEF AgentsStay
  <1>5. UsersAreRegistered'
    BY <1>a DEF UsersAreRegistered, Registered, HasFound, Target
  <1>6. OwnersExist'
    BY <1>a, <1>b DEF OwnersExist, Target, AccessTypeOK, TablesTyped, CallsTyped
  <1>7. CascadeHolds'
    <2>1. ASSUME pc[h] = "cascade" PROVE Holds(h)'
      <3>1. Target(h)' = Target(h) /\ Owned(Target(h))' = Owned(Target(h))
        BY <1>a DEF Target, Owned
      <3>2. lock'[Target(h)] = h
        BY <1>a, <1>c, <2>1 DEF CascadeHolds, Holds, AccessTypeOK, TablesTyped
      <3>3. ASSUME NEW a \in Owned(Target(h)) PROVE lock'[a] = h \/ Ahead(h, a)'
        <4>1. CASE lock[a] = h \/ a = Head(scan[h])
          BY <1>a, <1>c, <4>1 DEF AccessTypeOK, TablesTyped
        <4>2. CASE a # Head(scan[h]) /\ Ahead(h, a)
          <5>1. PICK i \in DOMAIN scan[h] : scan[h][i] = a
            BY <4>2 DEF Ahead
          <5>2. scan[h] \in Seq(Agents \cup Calls) /\ i \in 2..Len(scan[h])
            BY <1>a, <4>2, <5>1 DEF AccessTypeOK, TablesTyped
          <5>3. i - 1 \in DOMAIN Tail(scan[h]) /\ Tail(scan[h])[i - 1] = a
            BY <1>a, <5>1, <5>2
          <5> QED
            BY <1>a, <5>3 DEF Ahead, AccessTypeOK, TablesTyped
        <4> QED
          BY <2>1, <4>1, <4>2 DEF CascadeHolds, Holds
      <3> QED
        BY <3>1, <3>2, <3>3 DEF Holds
    <2>2. \A x \in Rows : lock[x] \notin {Nobody, h} => lock'[x] = lock[x]
      BY <1>a, <1>c DEF AccessTypeOK, TablesTyped
    <2> QED
      BY <1>a, <2>1, <2>2, CascadeKept DEF Owned, AccessTypeOK, TablesTyped
  <1>8. KeysAreAllowed'
    BY <1>a, <1>b DEF KeysAreAllowed, Target, AccessTypeOK, TablesTyped, CallsTyped, Rows
  <1> QED
    BY <1>1, <1>2, <1>3, <1>4, <1>5, <1>6, <1>7, <1>8

\* The user's agents that were locked have no owner any more.
LEMMA UnbindDoneAccess == ASSUME Access, NEW h \in Calls, UnbindDone(h) PROVE Access'
  <1> USE SeedsAreNamed, IdsAreDistinct DEF Access, tables
  <1>a. /\ pc[h] = "unbind" /\ scan[h] = <<>> /\ Goes(h, "delete") /\ owner' = Unbound(h)
        /\ lock' = [x \in Rows |-> IF lock[x] = h THEN Nobody ELSE lock[x]]
        /\ scan' = [scan EXCEPT ![h] = <<>>]
        /\ UNCHANGED <<users, agents, key, sessions>>
    BY DEF UnbindDone, Unlock, Goto, Goes
  <1>b. /\ CallsTyped' /\ \A g \in Calls \ {h} : pc'[g] = pc[g] /\ resp'[g] = resp[g]
        /\ pc'[h] = "delete" /\ req' = req /\ may' = may /\ req[h].op = "delete"
    BY <1>a, StepTypes DEF Goes, AccessTypeOK, CallsTyped, AccessLabels, Routed, Deleting
  <1>c. \A a \in Rows : owner'[a] \in {owner[a], Nobody}
    BY <1>a DEF Unbound
  <1>1. AccessTypeOK'
    <2>1. owner' \in [Rows -> Seeded \cup Calls \cup {Nobody}]
      BY <1>a DEF Unbound, AccessTypeOK, TablesTyped
    <2> QED
      BY <1>a, <1>b, <2>1, EmptyScan DEF AccessTypeOK, TablesTyped
  <1>2. Routed'
    BY <1>a, <1>b DEF Routed, Target, Deleting, Transferring
  <1>3. RowsHaveHolders'
    BY <1>a, <1>b, HoldersKept DEF AccessTypeOK
  <1>4. AgentsStay'
    BY <1>a DEF AgentsStay
  <1>5. UsersAreRegistered'
    <2>1. Registered(Target(h))
      BY <1>a DEF UsersAreRegistered, HasFound
    <2> QED
      BY <1>a, <1>b, <2>1, RegisteredKept
  <1>6. OwnersExist'
    <2>1. \A a \in agents' : owner'[a] \in users' \cup {Nobody}
      BY <1>a, <1>c DEF OwnersExist, AccessTypeOK, TablesTyped, Rows
    <2> QED
      BY <1>a, <1>b, <2>1 DEF OwnersExist, Target, Goes
  <1>7. CascadeHolds'
    <2>1. ASSUME NEW g \in Calls \ {h}, pc[g] = "cascade", NEW a \in agents', owner'[a] = Target(g)
          PROVE  a \in Owned(Target(g))
      <3>1. a \in Rows /\ a \in agents
        BY <1>a, <2>1 DEF AccessTypeOK, TablesTyped, Rows
      <3>2. owner[a] = Target(g)
        BY <1>c, <2>1, <3>1, UsersAreNotNobody
      <3> QED
        BY <3>1, <3>2 DEF Owned
    <2>2. \A x \in Rows : lock[x] \notin {Nobody, h} => lock'[x] = lock[x]
      BY <1>a
    <2>3. \A g \in Calls \ {h} : scan'[g] = scan[g]
      BY <1>a DEF AccessTypeOK, TablesTyped
    <2> QED
      BY <1>b, <2>1, <2>2, <2>3, CascadeKept DEF AccessTypeOK
  <1>8. KeysAreAllowed'
    <2>1. \A g \in Calls : pc[g] = "owner" => owner'[Target(g)] \in {owner[Target(g)], Nobody}
      BY <1>c, RequestsNameAgents DEF Routed, Target, Rows
    <2>2. \A a \in Rows : key'[a] # Nobody => pc'[key'[a]] = "done" /\ (key'[a] # a => may'[key'[a]])
      BY <1>a, <1>b DEF KeysAreAllowed, AccessTypeOK, TablesTyped
    <2>3. \A g \in Calls : pc'[g] = "owner" => pc[g] = "owner" /\ Target(g)' = Target(g)
      BY <1>b DEF Target
    <2>4. \A g \in Calls : pc'[g] = "update" => may'[g]
      BY <1>b DEF KeysAreAllowed
    <2> QED
      BY <1>b, <2>1, <2>2, <2>3, <2>4 DEF KeysAreAllowed
  <1> QED
    BY <1>1, <1>2, <1>3, <1>4, <1>5, <1>6, <1>7, <1>8

\* The user's row is locked, and the agents that are still the user's are found.
LEMMA DeleteRowAccess == ASSUME Access, NEW h \in Calls, DeleteRow(h) PROVE Access'
  <1> USE SeedsAreNamed, IdsAreDistinct DEF Access, tables
  <1>a. /\ pc[h] = "delete"
        /\ \/ Target(h) \notin users /\ Ends(h, "ok") /\ UNCHANGED <<lock, scan>>
           \/ /\ Target(h) \in users /\ Goes(h, "cascade")
              /\ lock[Target(h)] \in {Nobody, h} /\ lock' = [lock EXCEPT ![Target(h)] = h]
              /\ \E s \in Orders(Owned(Target(h))) : scan' = [scan EXCEPT ![h] = s]
        /\ UNCHANGED <<users, agents, owner, key, sessions>>
    BY DEF DeleteRow, Free, Lock, Answer, Goto, Ends, Goes
  <1>b. /\ CallsTyped' /\ \A g \in Calls \ {h} : pc'[g] = pc[g] /\ resp'[g] = resp[g]
        /\ pc'[h] \in {"done", "cascade"} /\ req' = req /\ may' = may /\ req[h].op = "delete"
        /\ (pc'[h] = "done" => Target(h) \notin users /\ lock' = lock)
    BY <1>a, StepTypes
       DEF Ends, Goes, AccessTypeOK, CallsTyped, AccessLabels, AccessAnswers, Routed, Deleting
  <1>c. /\ scan' \in [Calls -> Seq(Agents \cup Calls)]
        /\ \A g \in Calls \ {h} : scan'[g] = scan[g]
        /\ pc'[h] = "cascade" => \A a \in Owned(Target(h)) : \E i \in DOMAIN scan'[h] : scan'[h][i] = a
    <2>1. CASE scan' = scan /\ Ends(h, "ok")
      BY <2>1 DEF Ends, AccessTypeOK, TablesTyped, CallsTyped
    <2>2. ASSUME NEW s \in Orders(Owned(Target(h))), scan' = [scan EXCEPT ![h] = s]
          PROVE  /\ scan' \in [Calls -> Seq(Agents \cup Calls)]
                 /\ \A g \in Calls \ {h} : scan'[g] = scan[g]
                 /\ \A a \in Owned(Target(h)) : \E i \in DOMAIN scan'[h] : scan'[h][i] = a
      <3>1. s \in Seq(Agents \cup Calls) /\ \A a \in Owned(Target(h)) : \E i \in DOMAIN s : s[i] = a
        BY OrdersAreScans DEF AccessTypeOK
      <3>2. scan'[h] = s
        BY <2>2 DEF AccessTypeOK, TablesTyped
      <3> QED
        BY <2>2, <3>1, <3>2 DEF AccessTypeOK, TablesTyped
    <2> QED
      BY <1>a, <2>1, <2>2
  <1>d. Target(h) \in Rows /\ Registered(Target(h))
    BY <1>a DEF UsersAreRegistered, HasFound, Registered, Rows
  <1>e. \A x \in Rows : lock'[x] = lock[x] \/ (lock'[x] = h /\ lock[x] \in {Nobody, h} /\ x = Target(h))
    BY <1>a, <1>d DEF AccessTypeOK, TablesTyped
  <1>1. AccessTypeOK'
    <2>1. lock' \in [Rows -> Calls \cup {Nobody}]
      BY <1>a, <1>d DEF AccessTypeOK, TablesTyped
    <2> QED
      BY <1>a, <1>b, <1>c, <2>1 DEF AccessTypeOK, TablesTyped
  <1>2. Routed'
    BY <1>a, <1>b DEF Routed, Target, Deleting, Transferring
  <1>3. RowsHaveHolders'
    <2>1. \A x \in Rows : lock[x] # h
      BY <1>a DEF RowsHaveHolders
    <2> QED
      BY <1>a, <1>b, <1>e, <2>1, HoldersKept DEF AccessTypeOK
  <1>4. AgentsStay'
    BY <1>a DEF AgentsStay
  <1>5. UsersAreRegistered'
    BY <1>a, <1>b, <1>d, RegisteredKept
  <1>6. OwnersExist'
    BY <1>a, <1>b DEF OwnersExist, Target, AccessTypeOK, TablesTyped, CallsTyped
  <1>7. CascadeHolds'
    <2>1. ASSUME pc'[h] = "cascade" PROVE Holds(h)'
      <3>1. lock'[Target(h)] = h
        BY <1>a, <1>d, <2>1 DEF Ends, AccessTypeOK, TablesTyped, CallsTyped
      <3>2. Target(h)' = Target(h) /\ Owned(Target(h))' = Owned(Target(h))
        BY <1>a, <1>b DEF Target, Owned
      <3> QED
        BY <1>c, <2>1, <3>1, <3>2 DEF Holds, Ahead
    <2> QED
      BY <1>a, <1>b, <1>c, <1>e, <2>1, CascadeKept DEF Owned
  <1>8. KeysAreAllowed'
    BY <1>a, <1>b DEF KeysAreAllowed, Target, AccessTypeOK, TablesTyped, CallsTyped, Rows
  <1> QED
    BY <1>1, <1>2, <1>3, <1>4, <1>5, <1>6, <1>7, <1>8

\* The user goes, with what is left of the user's agents.
LEMMA DeleteCommitAccess == ASSUME Access, NEW h \in Calls, DeleteCommit(h) PROVE Access'
  <1> USE SeedsAreNamed, IdsAreDistinct DEF Access, tables
  <1>a. /\ pc[h] = "cascade" /\ scan[h] = <<>> /\ \E code \in AccessAnswers : Ends(h, code)
        /\ users' = users \ {Target(h)} /\ owner' = Unbound(h)
        /\ lock' = [x \in Rows |-> IF lock[x] = h THEN Nobody ELSE lock[x]]
        /\ scan' = [scan EXCEPT ![h] = <<>>]
        /\ UNCHANGED <<agents, key, sessions>>
    BY DEF DeleteCommit, Unlock, Answer, Ends, AccessAnswers
  <1>b. /\ CallsTyped' /\ \A g \in Calls \ {h} : pc'[g] = pc[g] /\ resp'[g] = resp[g]
        /\ pc'[h] = "done" /\ req' = req /\ may' = may /\ req[h].op = "delete"
    BY <1>a, StepTypes DEF Ends, AccessTypeOK, CallsTyped, Routed, Deleting
  <1>c. \A a \in Rows : owner'[a] \in {owner[a], Nobody}
    BY <1>a DEF Unbound
  <1>d. \A a \in agents : owner'[a] # Target(h)
    <2>1. Target(h) # Nobody
      BY <1>a DEF UsersAreRegistered, HasFound, Registered
    <2>2. \A a \in Owned(Target(h)) : lock[a] = h
      BY <1>a DEF CascadeHolds, Holds, Ahead
    <2> QED
      BY <1>a, <2>1, <2>2 DEF Unbound, Owned, AccessTypeOK, TablesTyped, Rows
  <1>1. AccessTypeOK'
    <2>1. owner' \in [Rows -> Seeded \cup Calls \cup {Nobody}]
      BY <1>a DEF Unbound, AccessTypeOK, TablesTyped
    <2> QED
      BY <1>a, <1>b, <2>1, EmptyScan DEF AccessTypeOK, TablesTyped
  <1>2. Routed'
    BY <1>a, <1>b DEF Routed, Target, Deleting, Transferring
  <1>3. RowsHaveHolders'
    BY <1>a, <1>b, HoldersKept DEF AccessTypeOK
  <1>4. AgentsStay'
    BY <1>a DEF AgentsStay
  <1>5. UsersAreRegistered'
    <2>1. Registered(Target(h))
      BY <1>a DEF UsersAreRegistered, HasFound
    <2> QED
      BY <1>a, <1>b, <2>1, RegisteredKept
  <1>6. OwnersExist'
    <2>1. \A a \in agents' : owner'[a] \in users' \cup {Nobody}
      BY <1>a, <1>c, <1>d DEF OwnersExist, AccessTypeOK, TablesTyped, Rows
    <2> QED
      BY <1>a, <1>b, <2>1 DEF OwnersExist, Target
  <1>7. CascadeHolds'
    <2>1. ASSUME NEW g \in Calls \ {h}, pc[g] = "cascade", NEW a \in agents', owner'[a] = Target(g)
          PROVE  a \in Owned(Target(g))
      <3>1. a \in Rows /\ a \in agents
        BY <1>a, <2>1 DEF AccessTypeOK, TablesTyped, Rows
      <3>2. owner[a] = Target(g)
        BY <1>c, <2>1, <3>1, UsersAreNotNobody
      <3> QED
        BY <3>1, <3>2 DEF Owned
    <2>2. \A x \in Rows : lock[x] \notin {Nobody, h} => lock'[x] = lock[x]
      BY <1>a
    <2>3. \A g \in Calls \ {h} : scan'[g] = scan[g]
      BY <1>a DEF AccessTypeOK, TablesTyped
    <2> QED
      BY <1>b, <2>1, <2>2, <2>3, CascadeKept DEF AccessTypeOK
  <1>8. KeysAreAllowed'
    <2>1. \A g \in Calls : pc[g] = "owner" => owner'[Target(g)] \in {owner[Target(g)], Nobody}
      BY <1>c, RequestsNameAgents DEF Routed, Target, Rows
    <2>2. \A a \in Rows : key'[a] # Nobody => pc'[key'[a]] = "done" /\ (key'[a] # a => may'[key'[a]])
      BY <1>a, <1>b DEF KeysAreAllowed, AccessTypeOK, TablesTyped
    <2>3. \A g \in Calls : pc'[g] = "owner" => pc[g] = "owner" /\ Target(g)' = Target(g)
      BY <1>b DEF Target
    <2>4. \A g \in Calls : pc'[g] = "update" => may'[g]
      BY <1>b DEF KeysAreAllowed
    <2> QED
      BY <1>b, <2>1, <2>2, <2>3, <2>4 DEF KeysAreAllowed
  <1> QED
    BY <1>1, <1>2, <1>3, <1>4, <1>5, <1>6, <1>7, <1>8

\* A transfer locks a row.
LEMMA TransferLocksAccess == ASSUME Access, NEW h \in Calls, TransferLocks(h) PROVE Access'
  <1> USE SeedsAreNamed, IdsAreDistinct DEF Access, tables
  <1>a. PICK x \in {req[h].caller, Target(h)} :
            /\ lock[x] \in {Nobody, h} /\ lock' = [lock EXCEPT ![x] = h]
            /\ \/ pc[h] = "lock1" /\ x = LockOrder(h)[1] /\ Goes(h, "lock2")
               \/ pc[h] = "lock2" /\ Goes(h, "moving")
            /\ UNCHANGED <<users, agents, owner, key, scan, sessions>>
    <2>1. LockOrder(h)[1] \in {req[h].caller, Target(h)} /\ LockOrder(h)[2] \in {req[h].caller, Target(h)}
      BY DEF LockOrder
    <2> QED
      BY <2>1 DEF TransferLocks, Free, Lock, Goto, Goes
  <1>b. /\ CallsTyped' /\ \A g \in Calls \ {h} : pc'[g] = pc[g] /\ resp'[g] = resp[g]
        /\ pc'[h] \in {"lock2", "moving"} /\ req' = req /\ may' = may /\ req[h].op = "transfer"
    BY <1>a, StepTypes DEF Goes, AccessTypeOK, CallsTyped, AccessLabels, Routed, Transferring
  <1>c. x \in Rows
    BY <1>a, <1>b, RequestsNameAgents DEF Routed, Target, Rows, Transferring
  <1>d. \A y \in Rows : lock'[y] = lock[y] \/ (lock'[y] = h /\ lock[y] \in {Nobody, h} /\ y = x)
    BY <1>a, <1>c DEF AccessTypeOK, TablesTyped
  <1>1. AccessTypeOK'
    BY <1>a, <1>b, <1>c DEF AccessTypeOK, TablesTyped
  <1>2. Routed'
    BY <1>a, <1>b DEF Routed, Target, Deleting, Transferring
  <1>3. RowsHaveHolders'
    <2>1. pc[h] = "lock1" => \A y \in Rows : lock[y] # h
      BY DEF RowsHaveHolders
    <2>2. ASSUME NEW y \in Rows, lock'[y] = h
          PROVE  \/ pc'[h] = "lock2" /\ y = LockOrder(h)[1]
                 \/ pc'[h] \in {"moving", "unbind", "cascade"}
      BY <1>a, <1>d, <2>1, <2>2 DEF Goes, AccessTypeOK, CallsTyped
    <2> QED
      BY <1>b, <1>d, <2>2, HoldersKept DEF AccessTypeOK
  <1>4. AgentsStay'
    BY <1>a DEF AgentsStay
  <1>5. UsersAreRegistered'
    BY <1>a, <1>b, RegisteredKept DEF HasFound
  <1>6. OwnersExist'
    BY <1>a, <1>b DEF OwnersExist, Target, AccessTypeOK, TablesTyped, CallsTyped
  <1>7. CascadeHolds'
    BY <1>a, <1>b, <1>d, CascadeKept DEF Owned
  <1>8. KeysAreAllowed'
    BY <1>a, <1>b DEF KeysAreAllowed, Target, AccessTypeOK, TablesTyped, CallsTyped, Rows
  <1> QED
    BY <1>1, <1>2, <1>3, <1>4, <1>5, <1>6, <1>7, <1>8

\* A transfer ends.
LEMMA TransferEndAccess == ASSUME Access, NEW h \in Calls, TransferEnd(h) PROVE Access'
  <1> USE SeedsAreNamed, IdsAreDistinct DEF Access, tables
  <1>a. /\ pc[h] = "moving" /\ \E code \in AccessAnswers : Ends(h, code)
        /\ lock' = [x \in Rows |-> IF lock[x] = h THEN Nobody ELSE lock[x]]
        /\ scan' = [scan EXCEPT ![h] = <<>>]
        /\ UNCHANGED <<users, agents, owner, key, sessions>>
    BY DEF TransferEnd, Unlock, Answer, Ends, AccessAnswers
  <1>b. /\ CallsTyped' /\ \A g \in Calls \ {h} : pc'[g] = pc[g] /\ resp'[g] = resp[g]
        /\ pc'[h] = "done" /\ req' = req /\ may' = may /\ req[h].op = "transfer"
    BY <1>a, StepTypes DEF Ends, AccessTypeOK, CallsTyped, Routed, Transferring
  <1>1. AccessTypeOK'
    BY <1>a, <1>b, EmptyScan DEF AccessTypeOK, TablesTyped
  <1>2. Routed'
    BY <1>a, <1>b DEF Routed, Target, Deleting, Transferring
  <1>3. RowsHaveHolders'
    BY <1>a, <1>b, HoldersKept DEF AccessTypeOK
  <1>4. AgentsStay'
    BY <1>a DEF AgentsStay
  <1>5. UsersAreRegistered'
    BY <1>a, <1>b, RegisteredKept DEF HasFound
  <1>6. OwnersExist'
    BY <1>a, <1>b DEF OwnersExist, Target, AccessTypeOK, TablesTyped, CallsTyped
  <1>7. CascadeHolds'
    BY <1>a, <1>b, CascadeKept DEF Owned, AccessTypeOK, TablesTyped
  <1>8. KeysAreAllowed'
    BY <1>a, <1>b DEF KeysAreAllowed, Target, AccessTypeOK, TablesTyped, CallsTyped, Rows
  <1> QED
    BY <1>1, <1>2, <1>3, <1>4, <1>5, <1>6, <1>7, <1>8

\* A statement fails.
LEMMA FailAccess == ASSUME Access, NEW h \in Calls, Fail(h) PROVE Access'
  <1> USE SeedsAreNamed, IdsAreDistinct DEF Access, tables
  <1>a. /\ pc[h] \notin {"idle", "done"}
        /\ \/ \E code \in AccessAnswers \ {"ok"} : Ends(h, code)
           \/ pc[h] = "unbind" /\ Goes(h, "delete")
        /\ lock' = [x \in Rows |-> IF lock[x] = h THEN Nobody ELSE lock[x]]
        /\ scan' = [scan EXCEPT ![h] = <<>>]
        /\ UNCHANGED <<users, agents, owner, key, sessions>>
    BY DEF Fail, FailAnswer, Unlock, Answer, Goto, Ends, Goes, AccessAnswers
  <1>b. /\ CallsTyped' /\ \A g \in Calls \ {h} : pc'[g] = pc[g] /\ resp'[g] = resp[g]
        /\ pc'[h] \in {"done", "delete"} /\ req' = req /\ may' = may
        /\ (pc'[h] = "done" => resp'[h] # "ok") /\ (pc'[h] = "delete" => pc[h] = "unbind")
    BY <1>a, StepTypes DEF Ends, Goes, AccessTypeOK, CallsTyped, AccessLabels
  <1>1. AccessTypeOK'
    BY <1>a, <1>b, EmptyScan DEF AccessTypeOK, TablesTyped
  <1>2. Routed'
    BY <1>a, <1>b DEF Routed, Target, Deleting, Transferring
  <1>3. RowsHaveHolders'
    BY <1>a, <1>b, HoldersKept DEF AccessTypeOK
  <1>4. AgentsStay'
    BY <1>a DEF AgentsStay
  <1>5. UsersAreRegistered'
    BY <1>a, <1>b, RegisteredKept DEF UsersAreRegistered, HasFound
  <1>6. OwnersExist'
    BY <1>a, <1>b DEF OwnersExist, Target, AccessTypeOK, TablesTyped, CallsTyped
  <1>7. CascadeHolds'
    BY <1>a, <1>b, CascadeKept DEF Owned, AccessTypeOK, TablesTyped
  <1>8. KeysAreAllowed'
    BY <1>a, <1>b DEF KeysAreAllowed, Target, AccessTypeOK, TablesTyped, CallsTyped, Rows
  <1> QED
    BY <1>1, <1>2, <1>3, <1>4, <1>5, <1>6, <1>7, <1>8

\* A call arrives: it is refused, or is at its first statement, which an owner or
\* an administrator who is asked for a key has been allowed.
LEMMA ReceiveAccess == ASSUME Access, NEW h \in Calls, Receive(h) PROVE Access'
  <1> USE SeedsAreNamed, IdsAreDistinct DEF Access, tables
  <1>a. PICK r \in Requests :
            /\ pc[h] = "idle" /\ req' = [req EXCEPT ![h] = r] /\ may' = [may EXCEPT ![h] = Entitled(r)]
            /\ \/ pc' = [pc EXCEPT ![h] = "done"] /\ resp' = [resp EXCEPT ![h] = "refused"]
               \/ Allowed(r) /\ pc' = [pc EXCEPT ![h] = FirstStatement(r)] /\ resp' = resp
            /\ UNCHANGED <<users, agents, owner, key, lock, scan, sessions>>
    BY DEF Receive
  <1>b. /\ req'[h] = r /\ (may'[h] <=> Entitled(r)) /\ resp'[h] # "ok"
        /\ \/ pc'[h] = "done" /\ resp'[h] = "refused"
           \/ Allowed(r) /\ pc'[h] = FirstStatement(r) /\ resp'[h] = "none"
        /\ \A g \in Calls \ {h} : /\ pc'[g] = pc[g] /\ resp'[g] = resp[g]
                                  /\ req'[g] = req[g] /\ may'[g] = may[g]
    BY <1>a DEF AccessTypeOK, CallsTyped
  <1>c. /\ FirstStatement(r) \in AccessLabels \ {"idle", "done", "fk", "unbind", "delete",
                                                 "cascade", "lock2", "moving"}
        /\ FirstStatement(r) = "insertUser" => r.op = "register"
        /\ FirstStatement(r) = "insertAgent" => r.op = "create"
        /\ FirstStatement(r) = "owner" => r.op = "regenerate"
        /\ FirstStatement(r) = "update" => r.op = "regenerate" /\ r.caller \in Admins
        /\ FirstStatement(r) = "exists" => r.op = "delete"
        /\ FirstStatement(r) = "lock1" => r.op = "transfer"
    BY RequestsNameAgents DEF FirstStatement, AccessLabels, IsAdmin
  <1>d. Allowed(r) => /\ r.op \in {"create", "regenerate", "delete"} => r.caller \in users
                      /\ r.op = "delete" => r.caller \in Admins /\ r.target # r.caller
    BY DEF Allowed, UserOps, Authentic, IsAdmin
  <1>e. \A g \in Calls \ {h} : Target(g)' = Target(g) /\ LockOrder(g)' = LockOrder(g)
    BY <1>b DEF Target, LockOrder
  <1>1. AccessTypeOK'
    <2>1. Entitled(r) \in BOOLEAN
      BY DEF Entitled
    <2>2. CallsTyped'
      <3>1. pc' \in [Calls -> AccessLabels] /\ resp' \in [Calls -> AccessAnswers \cup {"none"}]
        BY <1>a, <1>c DEF AccessTypeOK, CallsTyped, AccessAnswers, AccessLabels
      <3>2. req' \in [Calls -> Requests \cup {Nobody}] /\ may' \in [Calls -> BOOLEAN]
        BY <1>a, <2>1 DEF AccessTypeOK, CallsTyped
      <3>3. \A g \in Calls : pc'[g] = "done" <=> resp'[g] # "none"
        BY <1>b, <1>c DEF AccessTypeOK, CallsTyped
      <3> QED
        BY <3>1, <3>2, <3>3 DEF CallsTyped
    <2>3. TablesTyped'
      BY <1>a DEF AccessTypeOK, TablesTyped
    <2> QED
      BY <2>2, <2>3 DEF AccessTypeOK
  <1>2. Routed'
    <2>1. users \subseteq Seeded \cup Calls
      BY DEF AccessTypeOK, TablesTyped
    <2>2. Target(h)' = r.target
      BY <1>b DEF Target
    <2>3. ASSUME NEW g \in Calls, g # h
          PROVE  /\ pc'[g] = pc[g] /\ req'[g] = req[g] /\ Target(g)' = Target(g)
      BY <1>b, <1>e, <2>3
    <2> QED
      BY <1>b, <1>c, <1>d, <2>1, <2>2, <2>3 DEF Routed, Deleting, Transferring
  <1>3. RowsHaveHolders'
    <2>1. \A x \in Rows : lock[x] # h
      BY <1>a DEF RowsHaveHolders
    <2>2. ASSUME NEW x \in Rows, NEW g \in Calls, lock'[x] = g
          PROVE  \/ pc'[g] = "lock2" /\ x = LockOrder(g)'[1]
                 \/ pc'[g] \in {"moving", "unbind", "cascade"}
      <3>1. g # h /\ lock[x] = g
        BY <1>a, <2>1, <2>2
      <3> QED
        BY <1>b, <1>e, <3>1 DEF RowsHaveHolders
    <2>3. \A x \in Rows : lock'[x] # Nobody => lock'[x] \in Calls
      BY <1>1 DEF AccessTypeOK, TablesTyped
    <2>4. ASSUME NEW x \in Rows, lock'[x] # Nobody
          PROVE  \/ pc'[lock'[x]] = "lock2" /\ x = LockOrder(lock[x])'[1]
                 \/ pc'[lock'[x]] \in {"moving", "unbind", "cascade"}
      <3>1. PICK g \in Calls : g = lock'[x]
        BY <2>3, <2>4
      <3>2. LockOrder(lock[x])' = LockOrder(g)'
        BY <3>1 DEF LockOrder, Target
      <3> QED
        BY <2>2, <3>1, <3>2
    <2> QED
      BY <2>4 DEF RowsHaveHolders
  <1>4. AgentsStay'
    BY <1>a DEF AgentsStay
  <1>5. UsersAreRegistered'
    <2>1. \A u : Registered(u) => Registered(u)'
      BY <1>a, <1>b DEF Registered
    <2>2. ~HasFound(h)' /\ \A g \in Calls \ {h} : HasFound(g)' => HasFound(g)
      BY <1>b, <1>c DEF HasFound
    <2>3. ASSUME NEW g \in Calls, HasFound(g)' PROVE Registered(Target(g))'
      <3>1. g # h /\ Registered(Target(g)) /\ Target(g)' = Target(g)
        BY <1>e, <2>2, <2>3 DEF UsersAreRegistered
      <3>2. PICK u : u = Target(g)
        OBVIOUS
      <3> QED
        BY <2>1, <3>1, <3>2 DEF Registered
    <2> QED
      BY <1>a, <2>1, <2>3 DEF UsersAreRegistered
  <1>6. OwnersExist'
    BY <1>a, <1>b, <1>e DEF OwnersExist
  <1>7. CascadeHolds'
    BY <1>a, <1>b, <1>c, <1>e DEF CascadeHolds, Holds, Ahead, Owned
  <1>8. KeysAreAllowed'
    <2>1. ASSUME NEW a \in Rows, key'[a] # Nobody
          PROVE  pc'[key'[a]] = "done" /\ (key'[a] # a => may'[key'[a]])
      <3>1. key[a] \in Calls /\ key[a] # h /\ key'[a] = key[a]
        BY <1>a, <2>1 DEF KeysAreAllowed, AccessTypeOK, TablesTyped
      <3> QED
        BY <1>b, <3>1 DEF KeysAreAllowed
    <2>2. pc'[h] = "update" => may'[h]
      BY <1>b, <1>c, <1>d DEF Entitled, IsAdmin
    <2>3. pc'[h] = "owner" => /\ r.caller \in Seeded \cup Calls
                              /\ owner[r.target] = r.caller => may'[h]
      <3>1. pc'[h] = "owner" => r.op = "regenerate" /\ r.caller \in users /\ r.target \in agents
        BY <1>b, <1>c, <1>d, RequestsNameAgents DEF AgentsStay
      <3> QED
        BY <1>b, <3>1 DEF Entitled, Owned, AccessTypeOK, TablesTyped
    <2>4. Target(h)' = r.target
      BY <1>b DEF Target
    <2>5. \A g \in Calls \ {h} :
             /\ pc'[g] = "update" => may'[g]
             /\ pc'[g] = "owner" => /\ req'[g].caller \in Seeded \cup Calls
                                    /\ owner'[Target(g)'] = req'[g].caller => may'[g]
      BY <1>a, <1>b, <1>e DEF KeysAreAllowed
    <2>6. ASSUME NEW g \in Calls
          PROVE  /\ pc'[g] = "update" => may'[g]
                 /\ pc'[g] = "owner" => /\ req'[g].caller \in Seeded \cup Calls
                                        /\ owner'[Target(g)'] = req'[g].caller => may'[g]
      BY <1>a, <1>b, <2>2, <2>3, <2>4, <2>5
    <2> QED
      BY <2>1, <2>6 DEF KeysAreAllowed
  <1> QED
    BY <1>1, <1>2, <1>3, <1>4, <1>5, <1>6, <1>7, <1>8

\* Tokens are not part of it.
LEMMA TokensAccess ==
    ASSUME Access, UNCHANGED <<tables, lock, scan, callVars>>, sessions' \subseteq Seeded \cup Calls
    PROVE  Access'
  <1> USE DEF Access, tables, callVars
  <1>1. AccessTypeOK'
    BY DEF AccessTypeOK, TablesTyped, CallsTyped
  <1>2. Routed' /\ AgentsStay' /\ OwnersExist' /\ KeysAreAllowed'
    BY DEF Routed, AgentsStay, OwnersExist, KeysAreAllowed, Target
  <1>3. RowsHaveHolders' /\ UsersAreRegistered' /\ CascadeHolds'
    BY DEF RowsHaveHolders, UsersAreRegistered, CascadeHolds, Target, LockOrder, HasFound,
           Registered, Holds, Ahead, Owned
  <1> QED
    BY <1>1, <1>2, <1>3

\* Every step keeps Access.
LEMMA AccessNextKept == Access /\ [AccessNext]_avars => Access'
  <1> SUFFICES ASSUME Access, [AccessNext]_avars PROVE Access'
    OBVIOUS
  <1>1. ASSUME NEW h \in Calls, Serve(h) PROVE Access'
    BY <1>1, ReceiveAccess, RegisterAccess, CreateInsertAccess, CreateCommitAccess,
       CheckOwnerAccess,
       UpdateKeyAccess, CheckExistsAccess, LockNextAccess, UnbindDoneAccess, DeleteRowAccess,
       DeleteCommitAccess, TransferLocksAccess, TransferEndAccess, FailAccess DEF Serve, Delete
  <1>2. ASSUME NEW u \in Seeded \cup Calls, IssueToken(u) \/ ExpireToken(u) PROVE Access'
    <2>1. sessions \subseteq Seeded \cup Calls
      BY DEF Access, AccessTypeOK, TablesTyped
    <2> QED
      BY <1>2, <2>1, TokensAccess DEF IssueToken, ExpireToken
  <1>3. CASE UNCHANGED avars
    <2>1. sessions \subseteq Seeded \cup Calls
      BY DEF Access, AccessTypeOK, TablesTyped
    <2> QED
      BY <1>3, <2>1, TokensAccess DEF avars
  <1> QED
    BY <1>1, <1>2, <1>3 DEF AccessNext

\* Access is an invariant of the specification.
THEOREM AccessIsKept == AccessSpec => []Access
  BY InitAccess, AccessNextKept, PTL DEF AccessSpec

-----------------------------------------------------------------------------
(* What it says. *)

\* The tables and the calls keep their types (AgentAccess's variables).
THEOREM AccessTypes == AccessSpec => []AccessTypeOK
  BY AccessIsKept, PTL DEF Access

\* Every owner of an agent is a user, and a deletion answered "ok" has happened,
\* whatever is created meanwhile and whether or not the unbinding failed
\* (admin.go:135-147).
THEOREM OwnersAreUsers == AccessSpec => []OwnersExist
  BY AccessIsKept, PTL DEF Access

\* A key that its agent's creator did not make was made by a call that was allowed
\* to when it arrived (handlers.go:679-704).
THEOREM OwnersGetKeys == AccessSpec => []KeysGoToOwners
  <1>1. Access => KeysGoToOwners
    BY DEF Access, AccessTypeOK, TablesTyped, KeysAreAllowed, KeysGoToOwners, Rows
  <1> QED
    BY <1>1, AccessIsKept, PTL

\* Who deletes the last administrator is not the administrator, and has been one;
\* so somebody deleted him after his call arrived (admin.go:125-140).
THEOREM LastAdminGoesByCrossing == AccessSpec => AdminsGoByCrossing
  <1> DEFINE Crossing == users \cap Admins # {} /\ users' \cap Admins = {} =>
                 \E h \in Calls : pc[h] = "cascade" /\ pc'[h] = "done" /\ req[h].caller \notin users
  <1>1. ASSUME Access, [AccessNext]_avars, users \cap Admins # {}, users' \cap Admins = {}
        PROVE  \E h \in Calls : pc[h] = "cascade" /\ pc'[h] = "done" /\ req[h].caller \notin users
    <2>1. PICK u \in users : u \notin users'
      BY <1>1
    <2>2. PICK h \in Calls : DeleteCommit(h)
      BY <1>1, <2>1 DEF AccessNext, Serve, Delete, Receive, Register, CreateInsert, CreateCommit,
         AddAgent, CheckOwner, UpdateKey, CheckExists, LockNext, UnbindDone, DeleteRow, TransferLocks,
         TransferEnd, Fail, IssueToken, ExpireToken, avars, tables
    <2>3. pc[h] = "cascade" /\ pc'[h] = "done" /\ users' = users \ {Target(h)}
      BY <1>1, <2>2 DEF DeleteCommit, Answer, Access, AccessTypeOK, CallsTyped
    <2>4. req[h].caller \in Admins /\ req[h].caller # Target(h)
      BY <1>1, <2>3 DEF Access, Routed, Deleting
    <2> QED
      BY <1>1, <2>3, <2>4
  <1>2. Access /\ [AccessNext]_avars => [Crossing]_avars
    BY <1>1
  <1> QED
    BY <1>2, AccessIsKept, PTL DEF AccessSpec, AdminsGoByCrossing

-----------------------------------------------------------------------------
(* Deadlocks. *)

\* A finite set of integers has a greatest: one with fewest of them above it.
LEMMA Greatest ==
    ASSUME NEW S, IsFiniteSet(S), S # {}, S \subseteq Int
    PROVE  \E x \in S : \A y \in S : y <= x
  <1> DEFINE Above(x) == {y \in S : y > x}
             Sizes    == {Cardinality(Above(x)) : x \in S}
             Less     == OpToRel(<, Nat)
  <1>1. \A x \in S : IsFiniteSet(Above(x)) /\ Cardinality(Above(x)) \in Nat
    BY FS_Subset, FS_CardinalityType
  <1>2. Sizes \subseteq Nat /\ Sizes # {}
    BY <1>1
  <1>3. PICK n \in Sizes : \A m \in Sizes : <<m, n>> \notin Less
    <2> HIDE DEF Sizes, Less
    <2> QED
      BY <1>2, WFMin, NatLessThanWellFounded DEF Less
  <1>4. PICK x \in S : n = Cardinality(Above(x))
    OBVIOUS
  <1>5. ASSUME NEW y \in S, y > x PROVE FALSE
    <2>1. Above(y) \subseteq Above(x) /\ Above(y) # Above(x)
      <3>1. x \in Int /\ y \in Int /\ \A z \in S : z \in Int
        OBVIOUS
      <3>2. \A z \in S : z > y => z > x
        BY <1>5, <3>1
      <3>3. ~(y > y)
        BY <3>1
      <3>4. y \in Above(x) /\ y \notin Above(y)
        BY <1>5, <3>3
      <3> QED
        BY <3>2, <3>4
    <2>2. Cardinality(Above(y)) <= n /\ Cardinality(Above(y)) # n
      <3> HIDE DEF Above
      <3> QED
        BY <1>1, <1>4, <2>1, FS_Subset
    <2>3. Cardinality(Above(y)) \in Sizes /\ Cardinality(Above(y)) \in Nat /\ n \in Nat
      BY <1>1, <1>2
    <2>4. <<Cardinality(Above(y)), n>> \in Less
      BY <2>2, <2>3 DEF OpToRel
    <2> QED
      BY <1>3, <2>3, <2>4
  <1> QED
    BY <1>5

\* Who waits for a row waits for a transfer at its second lock, or for a deletion
\* that has still agents to lock, when all of them wait.
LEMMA RowWaits ==
    ASSUME Access, NEW S \in SUBSET Calls, WaitCycle(S), NEW h \in S, pc[h] # "insertAgent"
    PROVE  \E x \in Rows :
              /\ lock[x] \in S \ {h} /\ Awaits(h) = {lock[x]}
              /\ \/ pc[lock[x]] = "lock2" /\ x = LockOrder(lock[x])[1]
                 \/ pc[lock[x]] \in {"unbind", "cascade"}
              /\ pc[h] = "lock2" => x = LockOrder(h)[2]
  <1> USE SeedsAreNamed DEF Access
  <1>1. PICK g \in S \ {h} : g \in Awaits(h)
    BY DEF WaitCycle
  <1>2. \/ /\ pc[h] \in {"lock1", "lock2"} /\ req[h].caller \in Agents /\ Target(h) \in Agents
        \/ /\ pc[h] = "update" /\ Target(h) \in Agents
        \/ /\ pc[h] = "delete" /\ Target(h) \in Rows
        \/ /\ pc[h] = "fk" /\ req[h].caller \in Rows
        \/ /\ pc[h] \in {"unbind", "cascade"} /\ scan[h] # <<>>
    <2>1. \/ pc[h] \in {"lock1", "lock2", "update", "delete", "fk"}
          \/ (pc[h] \in {"unbind", "cascade"} /\ scan[h] # <<>>)
      BY <1>1 DEF Awaits
    <2>2. pc[h] \in {"lock1", "lock2", "update"} =>
              /\ Target(h) \in Agents /\ (pc[h] # "update" => req[h].caller \in Agents)
      BY RequestsNameAgents DEF Routed, Transferring, Target
    <2>3. pc[h] = "delete" => Target(h) \in Rows
      BY DEF UsersAreRegistered, HasFound, Registered, Rows
    <2>4. pc[h] = "fk" => req[h].caller \in Rows
      BY DEF Routed, Rows
    <2> QED
      BY <2>1, <2>2, <2>3, <2>4
  <1>3. PICK x \in Rows : Awaits(h) = {lock[x]} /\ (pc[h] = "lock2" => x = LockOrder(h)[2])
    <2>1. CASE pc[h] \in {"lock1", "lock2"}
      <3>1. LockOrder(h)[1] \in Rows /\ LockOrder(h)[2] \in Rows
        BY <1>2, <2>1 DEF LockOrder, Rows
      <3> QED
        BY <2>1, <3>1 DEF Awaits
    <2>2. CASE pc[h] \in {"update", "delete", "fk"}
      BY <1>2, <2>2 DEF Awaits, Rows
    <2>3. CASE pc[h] \in {"unbind", "cascade"} /\ scan[h] # <<>>
      <3>1. Head(scan[h]) \in Rows
        BY <2>3 DEF AccessTypeOK, TablesTyped, Rows
      <3> QED
        BY <2>3, <3>1 DEF Awaits
    <2> QED
      BY <1>2, <2>1, <2>2, <2>3
  <1>4. lock[x] = g /\ lock[x] # Nobody
    BY <1>1, <1>3
  <1>5. pc[g] # "moving"
    BY DEF WaitCycle, Awaits
  <1> QED
    BY <1>1, <1>3, <1>4, <1>5 DEF RowsHaveHolders

\* Transfers alone never wait in a circle: each has its first row locked, and
\* waits for a greater one.
LEMMA TransfersAlone ==
    ASSUME Access, NEW S \in SUBSET Calls, WaitCycle(S),
           \A g \in S : pc[g] \notin {"unbind", "cascade"}
    PROVE  FALSE
  <1> USE SeedsAreNamed DEF Access
  <1> DEFINE Second == {a \in Agents : \E h \in S : pc[h] = "lock2" /\ a = LockOrder(h)[2]}
  <1>1. ASSUME NEW h \in S, pc[h] = "lock2"
        PROVE  /\ LockOrder(h)[1] \in Int /\ LockOrder(h)[2] \in Second /\ LockOrder(h)[1] <= LockOrder(h)[2]
    <2>1. req[h].caller \in Agents /\ Target(h) \in Agents
      BY <1>1, RequestsNameAgents DEF Routed, Transferring, Target
    <2>2. req[h].caller \in Int /\ Target(h) \in Int
      BY <2>1
    <2> QED
      BY <1>1, <2>1, <2>2 DEF LockOrder
  <1>2. ASSUME NEW h \in S, pc[h] # "insertAgent"
        PROVE  \E g \in S : pc[g] = "lock2" /\ (pc[h] = "lock2" => LockOrder(h)[2] < LockOrder(g)[2])
    <2>1. PICK x \in Rows : /\ lock[x] \in S \ {h}
                            /\ pc[lock[x]] = "lock2" /\ x = LockOrder(lock[x])[1]
                            /\ pc[h] = "lock2" => x = LockOrder(h)[2]
      BY <1>2, RowWaits
    <2>2. PICK g \in S : g = lock[x]
      BY <2>1
    <2>3. PICK y \in Rows : lock[y] \in S \ {g} /\ y = LockOrder(g)[2]
      BY <2>1, <2>2, RowWaits
    <2>4. LockOrder(g)[1] # LockOrder(g)[2]
      BY <2>1, <2>2, <2>3
    <2>5. LockOrder(g)[1] \in Int /\ LockOrder(g)[2] \in Int /\ LockOrder(g)[1] <= LockOrder(g)[2]
      BY <1>1, <2>1, <2>2
    <2>6. LockOrder(g)[1] < LockOrder(g)[2]
      BY <2>4, <2>5
    <2> QED
      BY <2>1, <2>2, <2>6
  <1>3. PICK h \in S : pc[h] # "insertAgent"
    <2>1. PICK h \in S : TRUE
      BY DEF WaitCycle
    <2>2. pc[h] = "insertAgent" => \E g \in S : pc[g] = "fk"
      BY DEF WaitCycle, Awaits, Naming
    <2> QED
      BY <2>2
  <1>4. Second # {} /\ IsFiniteSet(Second) /\ Second \subseteq Int
    <2>1. Second \subseteq Agents
      OBVIOUS
    <2>2. Second # {}
      BY <1>1, <1>2, <1>3
    <2> HIDE DEF Second
    <2> QED
      BY <2>1, <2>2, AgentsAreFinite, FS_Subset
  <1>5. PICK a \in Second : \A b \in Second : b <= a
    <2> HIDE DEF Second
    <2> QED
      BY <1>4, Greatest
  <1>6. PICK g \in S : pc[g] = "lock2" /\ a = LockOrder(g)[2]
    BY <1>5
  <1>7. PICK k \in S : pc[k] = "lock2" /\ LockOrder(g)[2] < LockOrder(k)[2]
    BY <1>2, <1>6
  <1>8. LockOrder(k)[2] \in Second /\ LockOrder(k)[2] \in Int /\ a \in Int
    BY <1>1, <1>4, <1>5, <1>7
  <1> QED
    BY <1>5, <1>6, <1>7, <1>8

\* Every cycle of calls that wait for each other has a deletion in it, and another
\* call that locks several agents (handlers.go:354, admin.go:135-140).
THEOREM DeadlocksHaveADeletion == AccessSpec => []DeadlocksNeedADeletion
  <1>1. ASSUME Access, NEW S \in SUBSET Calls, WaitCycle(S)
        PROVE  \E g, h \in S : g # h /\ req[g].op = "delete" /\ req[h].op \in {"delete", "transfer"}
    <2>1. PICK g \in S : pc[g] \in {"unbind", "cascade"}
      BY <1>1, TransfersAlone
    <2>2. PICK h \in S \ {g} : pc[h] \in {"lock2", "unbind", "cascade"}
      BY <1>1, <2>1, RowWaits
    <2>3. req[g].op = "delete" /\ req[h].op \in {"delete", "transfer"}
      BY <1>1, <2>1, <2>2 DEF Access, Routed, Deleting, Transferring
    <2> QED
      BY <2>2, <2>3
  <1>2. Access => DeadlocksNeedADeletion
    BY <1>1 DEF DeadlocksNeedADeletion
  <1> QED
    BY <1>2, AccessIsKept, PTL
=============================================================================
