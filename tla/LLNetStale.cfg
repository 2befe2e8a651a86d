\* lowlevel.h:122 against llnet_connection_free, which leaves the list as it is.
CONSTANTS
    main = main
    user = user
    NULL = NULL
    Blocks = 4
    App = {main, user}
    Roles <- AllRoles
    MaxId = 3
SPECIFICATION Spec
PROPERTY GetReturnsLive
CHECK_DEADLOCK FALSE
