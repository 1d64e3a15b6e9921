SPECIFICATION FairSpec
CONSTANTS
    u1 = u1
    u2 = u2
    None = None
    Users <- MCUsers
    DesktopUsers <- MCDesktopUsers
    MaxUSN = 2
    MaxGen = 1
    MaxCommands = 2
    MaxFaults = 1
CHECK_DEADLOCK FALSE
INVARIANTS
    TypeOK
    OneOwner
    AccessKept
    TablesComplete
    ClaimsNothingMissing
    RightAccount
PROPERTY
    LoginEnds
