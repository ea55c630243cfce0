------------------------------ MODULE MCAccess ------------------------------
(* Instances of AgentAccess for TLC. *)
EXTENDS AccessSafety, TLC

CONSTANTS root, boss, ann, mailAnn, mailNew, pip, none

MCSeeded  == {root, boss, ann}
MCAdmins  == {root, boss}
MCEmail   == (ann :> mailAnn) @@ (root :> root) @@ (boss :> boss)
MCAgents  == 1..2
MCOwner   == [a \in MCAgents |-> ann]
CallSymmetry == Permutations(Calls)

Ask(op, who, target) == [op |-> op, caller |-> who, target |-> target]

\* ann owns both agents and may be deleted while she makes keys and agents, or while
\* her agents pay each other; root and boss may delete each other, or themselves;
\* somebody registers with a new address, or with the one of ann.
MCRequests == { Ask("register", none, mailNew), Ask("register", none, mailAnn),
                Ask("create", ann, pip), Ask("regenerate", ann, 1), Ask("regenerate", boss, 2),
                Ask("delete", root, ann), Ask("delete", boss, ann), Ask("delete", root, boss),
                Ask("delete", boss, root), Ask("delete", boss, boss),
                Ask("transfer", 1, 2), Ask("transfer", 2, 1) }
=============================================================================
