----------------------------- MODULE AgentAccess -----------------------------
(***************************************************************************)
(* Users, their agents and the agents' keys: POST /v1/auth/register, login *)
(* and refresh, POST /v1/agents/create, regenerate-key of owners and of    *)
(* administrators, DELETE /v1/admin/users/:id, and the transfers that hold *)
(* the rows of agents meanwhile.  auth.go, handlers.go, admin.go.          *)
(*                                                                         *)
(* A handler is a few statements with no transaction around them, each     *)
(* committed by itself.  A statement is one step, or several where it      *)
(* waits for rows of others.                                               *)
(***************************************************************************)
EXTENDS Integers, Sequences, FiniteSets

CONSTANTS
    Calls,      \* HTTP calls, each of which arrives at most once
    Seeded,     \* users the server starts with
    Admins,     \* those of them with role admin; no route gives the role
    EmailOf,    \* EmailOf[u]: the address of a seeded user
    Agents,     \* agents the server starts with; a transfer locks in id order
    OwnerOf,    \* OwnerOf[a]: the owner of agent a
    Requests,   \* what a call may ask
    Nobody      \* NULL, and the owner of a row nobody has locked

ASSUME SeedsAreNamed ==
    /\ Seeded \cap Calls = {} /\ Nobody \notin Seeded \cup Calls
    /\ Admins \subseteq Seeded /\ Agents \subseteq Int
    /\ OwnerOf \in [Agents -> Seeded]
    /\ DOMAIN EmailOf = Seeded

\* gen_random_uuid: no two rows have one id.
ASSUME IdsAreDistinct == Agents \cap (Seeded \cup Calls) = {}
ASSUME AgentsAreFinite == IsFiniteSet(Agents)

\* A key is asked for an agent the server starts with; who asks a transfer has been
\* found by his key, and its target by his name.
ASSUME RequestsNameAgents ==
    \A r \in Requests :
        /\ r.op \in {"register", "create", "regenerate", "delete", "transfer"}
        /\ r.op = "regenerate" => r.target \in Agents
        /\ r.op = "transfer" => r.caller \in Agents /\ r.target \in Agents

VARIABLES
    users,      \* rows of users; a registered one is named by its call
    agents,     \* rows of agents; a created one is named by its call
    owner,      \* agents.owner
    key,        \* agents.key_hash, named by the call that made the key
    lock,       \* lock[x]: the call that has row x of agents or users locked
    sessions,   \* users somebody holds an unexpired token of
    scan,       \* scan[h]: rows h's UPDATE of agents has still to lock, in order
    req, pc, resp,
    may         \* may[h]: h's caller was allowed what h asks when h arrived
                \* (nothing in the code reads it)

tables    == <<users, agents, owner, key>>
callVars  == <<req, pc, resp, may>>
avars     == <<tables, lock, sessions, scan, callVars>>

Rows == Seeded \cup Agents \cup Calls

-----------------------------------------------------------------------------

Goto(h, label) == pc' = [pc EXCEPT ![h] = label] /\ UNCHANGED <<req, resp, may>>

Answer(h, code) ==
    /\ pc'   = [pc EXCEPT ![h] = "done"]
    /\ resp' = [resp EXCEPT ![h] = code]
    /\ UNCHANGED <<req, may>>

Free(h, x) == lock[x] \in {Nobody, h}
Lock(h, x) == Free(h, x) /\ lock' = [lock EXCEPT ![x] = h]

\* The end of a statement, or of a transfer's transaction.
Unlock(h) ==
    /\ lock' = [x \in Rows |-> IF lock[x] = h THEN Nobody ELSE lock[x]]
    /\ scan' = [scan EXCEPT ![h] = <<>>]

IsAdmin(u) == u \in Admins
Target(h)  == req[h].target
Email(u)   == IF u \in Seeded THEN EmailOf[u] ELSE Target(u)
Owned(u)   == {a \in agents : owner[a] = u}

-----------------------------------------------------------------------------
(* Sessions.  A token is issued by a login, or by a refresh for another one. *)

IssueToken(u) ==
    /\ u \in users
    /\ sessions' = sessions \cup {u}
    /\ UNCHANGED <<tables, lock, scan, callVars>>

ExpireToken(u) ==
    /\ sessions' = sessions \ {u}
    /\ UNCHANGED <<tables, lock, scan, callVars>>

\* Mutated: the claims of the token are enough.
TokenOnly(u) == u \in sessions
Authentic(u) == u \in sessions /\ u \in users

UserOps == {"create", "regenerate", "delete"}

\* Mutated: administrators may delete themselves.
SelfAllowed(r) ==
    /\ r.op \in UserOps => Authentic(r.caller)
    /\ r.op = "delete" => IsAdmin(r.caller)
Allowed(r) ==
    /\ r.op \in UserOps => Authentic(r.caller)
    /\ r.op = "delete" => IsAdmin(r.caller) /\ r.target # r.caller

FirstStatement(r) == CASE r.op = "register"   -> "insertUser"
                       [] r.op = "create"     -> "insertAgent"
                       [] r.op = "regenerate" -> IF IsAdmin(r.caller) THEN "update" ELSE "owner"
                       [] r.op = "delete"     -> "exists"
                       [] OTHER               -> "lock1"

Entitled(r) ==
    r.op = "regenerate" => r.caller \in users /\ (IsAdmin(r.caller) \/ r.target \in Owned(r.caller))

Receive(h) ==
    /\ pc[h] = "idle"
    /\ \E r \in Requests :
         /\ req' = [req EXCEPT ![h] = r]
         /\ may' = [may EXCEPT ![h] = Entitled(r)]
         /\ \/ /\ ~Allowed(r)
               /\ pc'   = [pc EXCEPT ![h] = "done"]
               /\ resp' = [resp EXCEPT ![h] = "refused"]
            \/ /\ Allowed(r)
               /\ pc' = [pc EXCEPT ![h] = FirstStatement(r)]
               /\ UNCHANGED resp
    /\ UNCHANGED <<tables, lock, scan, sessions>>

-----------------------------------------------------------------------------
(* handleRegister and handleCreateAgent: one INSERT each, any error of which *)
(* is a conflict to the caller.  An agent's name is in the unique index      *)
(* before the foreign key is checked, which waits for a DELETE of the owner. *)

Used(address) == \E u \in users : Email(u) = address

Register(h) ==
    /\ pc[h] = "insertUser"
    /\ \/ Used(Target(h)) /\ Answer(h, "conflict") /\ UNCHANGED users
       \/ /\ ~Used(Target(h))
          /\ users' = users \cup {h}
          /\ \E code \in {"ok", "conflict"} : Answer(h, code)
    /\ UNCHANGED <<agents, owner, key, lock, scan, sessions>>

Named(name) == \E a \in agents \cap Calls : Target(a) = name
Naming(h)   == {g \in Calls \ {h} : pc[g] = "fk" /\ Target(g) = Target(h)}

CreateInsert(h) ==
    /\ pc[h] = "insertAgent"
    /\ Naming(h) = {}
    /\ \/ Named(Target(h)) /\ Answer(h, "conflict")
       \/ ~Named(Target(h)) /\ Goto(h, "fk")
    /\ UNCHANGED <<tables, lock, scan, sessions>>

AddAgent(h) ==
    /\ agents' = agents \cup {h}
    /\ owner'  = [owner EXCEPT ![h] = req[h].caller]
    /\ key'    = [key EXCEPT ![h] = h]
    /\ \E code \in {"ok", "conflict"} : Answer(h, code)

\* Mutated: agents.owner has no foreign key.
CreateUnchecked(h) ==
    /\ pc[h] = "fk"
    /\ AddAgent(h)
    /\ UNCHANGED <<users, lock, scan, sessions>>

CreateCommit(h) ==
    /\ pc[h] = "fk"
    /\ Free(h, req[h].caller)
    /\ \/ /\ req[h].caller \in users
          /\ AddAgent(h)
       \/ /\ req[h].caller \notin users
          /\ Answer(h, "conflict")
          /\ UNCHANGED <<agents, owner, key>>
    /\ UNCHANGED <<users, lock, scan, sessions>>

-----------------------------------------------------------------------------
(* handleRegenerateKey: the owner is read, and in a later statement the key *)
(* written, whoever owns the agent by then.                                 *)

CheckOwner(h) ==
    /\ pc[h] = "owner"
    /\ \/ Target(h) \in Owned(req[h].caller) /\ Goto(h, "update")
       \/ Target(h) \notin Owned(req[h].caller) /\ Answer(h, "refused")
    /\ UNCHANGED <<tables, lock, scan, sessions>>

UpdateKey(h) ==
    /\ pc[h] = "update"
    /\ Free(h, Target(h))
    /\ key' = [key EXCEPT ![Target(h)] = h]
    /\ \E code \in {"ok", "error"} : Answer(h, code)
    /\ UNCHANGED <<users, agents, owner, lock, scan, sessions>>

-----------------------------------------------------------------------------
(* handleAdminDeleteUser: look, unbind, delete.  An error of the unbinding is *)
(* ignored; the foreign key's ON DELETE SET NULL unbinds what is still bound. *)
(* Both find the user's agents in an order of their own, and lock row by row. *)

Orders(S) == {s \in [1..Cardinality(S) -> S] : \A i, j \in DOMAIN s : s[i] = s[j] => i = j}

CheckExists(h) ==
    /\ pc[h] = "exists"
    /\ \/ Target(h) \notin users /\ Answer(h, "notfound") /\ UNCHANGED scan
       \/ /\ Target(h) \in users
          /\ Goto(h, "unbind")
          /\ \E s \in Orders(Owned(Target(h))) : scan' = [scan EXCEPT ![h] = s]
    /\ UNCHANGED <<tables, lock, sessions>>

LockNext(h) ==
    /\ pc[h] \in {"unbind", "cascade"}
    /\ scan[h] # <<>>
    /\ Lock(h, Head(scan[h]))
    /\ scan' = [scan EXCEPT ![h] = Tail(@)]
    /\ UNCHANGED <<tables, sessions, callVars>>

\* owner = NULL for the rows that h has locked.
Unbound(h) == [a \in Rows |-> IF lock[a] = h /\ owner[a] = Target(h) THEN Nobody ELSE owner[a]]

UnbindDone(h) ==
    /\ pc[h] = "unbind" /\ scan[h] = <<>>
    /\ owner' = Unbound(h)
    /\ Unlock(h)
    /\ Goto(h, "delete")
    /\ UNCHANGED <<users, agents, key, sessions>>

DeleteRow(h) ==
    /\ pc[h] = "delete"
    /\ \/ /\ Target(h) \notin users /\ Free(h, Target(h))
          /\ Answer(h, "ok")
          /\ UNCHANGED <<lock, scan>>
       \/ /\ Target(h) \in users
          /\ Lock(h, Target(h))
          /\ \E s \in Orders(Owned(Target(h))) : scan' = [scan EXCEPT ![h] = s]
          /\ Goto(h, "cascade")
    /\ UNCHANGED <<tables, sessions>>

DeleteCommit(h) ==
    /\ pc[h] = "cascade" /\ scan[h] = <<>>
    /\ users' = users \ {Target(h)}
    /\ owner' = Unbound(h)
    /\ Unlock(h)
    /\ \E code \in {"ok", "error"} : Answer(h, code)
    /\ UNCHANGED <<agents, key, sessions>>

Delete(h) == CheckExists(h) \/ LockNext(h) \/ UnbindDone(h) \/ DeleteRow(h) \/ DeleteCommit(h)

-----------------------------------------------------------------------------
(* handleTransfer, as far as it holds rows: module CandyLedger has the rest. *)

\* Mutated: the payer's row is locked first, whatever the ids.
PayerFirst(h) == <<req[h].caller, Target(h)>>
LockOrder(h) == IF req[h].caller > Target(h) THEN <<Target(h), req[h].caller>>
                                             ELSE <<req[h].caller, Target(h)>>

TransferLocks(h) ==
    /\ \/ pc[h] = "lock1" /\ Lock(h, LockOrder(h)[1]) /\ Goto(h, "lock2")
       \/ pc[h] = "lock2" /\ Lock(h, LockOrder(h)[2]) /\ Goto(h, "moving")
    /\ UNCHANGED <<tables, scan, sessions>>

TransferEnd(h) ==
    /\ pc[h] = "moving"
    /\ Unlock(h)
    /\ \E code \in {"ok", "error"} : Answer(h, code)
    /\ UNCHANGED <<tables, sessions>>

-----------------------------------------------------------------------------
(* A statement fails: its connection breaks, the client goes away, or it is *)
(* the victim of a deadlock.                                                *)

\* Mutated: a failed UPDATE or DELETE returns with nothing answered.
FailSilently(h) == IF pc[h] \in {"update", "cascade"} THEN "none" ELSE "error"

FailAnswer(h) == CASE pc[h] \in {"insertUser", "insertAgent", "fk"} -> "conflict"
                   [] pc[h] = "owner"  -> "refused"
                   [] pc[h] = "exists" -> "notfound"
                   [] OTHER            -> "error"

Fail(h) ==
    /\ pc[h] \notin {"idle", "done"}
    /\ Unlock(h)
    /\ IF pc[h] = "unbind" THEN Goto(h, "delete") ELSE Answer(h, FailAnswer(h))
    /\ UNCHANGED <<tables, sessions>>

-----------------------------------------------------------------------------

AccessInit ==
    /\ users    = Seeded
    /\ agents   = Agents
    /\ owner    = [a \in Rows |-> IF a \in Agents THEN OwnerOf[a] ELSE Nobody]
    /\ key      = [a \in Rows |-> Nobody]
    /\ lock     = [x \in Rows |-> Nobody]
    /\ sessions = {}
    /\ scan     = [h \in Calls |-> <<>>]
    /\ req      = [h \in Calls |-> Nobody]
    /\ pc       = [h \in Calls |-> "idle"]
    /\ resp     = [h \in Calls |-> "none"]
    /\ may      = [h \in Calls |-> FALSE]

Serve(h) == \/ Receive(h) \/ Register(h) \/ CreateInsert(h) \/ CreateCommit(h)
            \/ CheckOwner(h) \/ UpdateKey(h) \/ Delete(h)
            \/ TransferLocks(h) \/ TransferEnd(h) \/ Fail(h)

AllAnswered == \A h \in Calls : pc[h] = "done"

AccessNext == \/ \E h \in Calls : Serve(h)
              \/ \E u \in Seeded \cup Calls : IssueToken(u) \/ ExpireToken(u)
              \/ AllAnswered /\ UNCHANGED avars

AccessSpec == AccessInit /\ [][AccessNext]_avars
=============================================================================
