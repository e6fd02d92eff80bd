\* Two browsers, two requests about two items, one read of a table besides those
\* that follow a change, one failure; one user with a bell, one event, one cut.
SPECIFICATION WorkspaceSpec
CONSTANTS
    superadmin = superadmin
    admin_ = admin_
    Pages = {p1, p2}
    Items <- MCItems
    MaxWrites = 2
    MaxReads = 1
    MaxBroken = 1
    None = None
    Subject = u1
    Users = {u1}
    RoleOrder <- MCRoleOrder
    MaxEvents = 1
    MaxCuts = 1
INVARIANTS TypeOK CacheFresh OwnWriteShown StoreMatches TellsWhoCanList
PROPERTIES OnlyOwnItem BadgeCatchesUp
\* When all requests have ended and the bounds are reached the tables rest.
CHECK_DEADLOCK FALSE
