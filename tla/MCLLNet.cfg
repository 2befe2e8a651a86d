\* Servers, clients and a mixed program; two workers and a failed connect fit in the ids.
CONSTANTS
    main = main
    user = user
    NULL = NULL
    Blocks = 4
    App = {main, user}
    Roles <- AllRoles
    MaxId = 3
SPECIFICATION FairSpec
INVARIANTS
    TypeOK
    UniqueIds
    NoListenerAfterFree
    HandlerCanFind
    RegisteredAreServed
PROPERTIES
    GetFindsRegistered
    FreeReturns
CHECK_DEADLOCK FALSE
