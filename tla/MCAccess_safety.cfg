SPECIFICATION AccessSpec
CONSTANTS
    Calls = {h1, h2, h3}
    Seeded <- MCSeeded
    Admins <- MCAdmins
    EmailOf <- MCEmail
    Agents <- MCAgents
    OwnerOf <- MCOwner
    Requests <- MCRequests
    Nobody = Nobody
    root = root
    boss = boss
    ann = ann
    mailAnn = mailAnn
    mailNew = mailNew
    pip = pip
    none = none
SYMMETRY CallSymmetry
INVARIANTS AccessTypeOK OwnersExist KeysGoToOwners DeadlocksNeedADeletion
PROPERTY AdminsGoByCrossing
