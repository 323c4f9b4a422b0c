SPECIFICATION FairShutdownSpec
INVARIANTS
    LockOutlivesItsUsers
    CleanShutdownReleasesAll
    StoreOutlivesUsers
PROPERTY
    ShutdownEnds
CHECK_DEADLOCK FALSE
