SPECIFICATION FairSpec
CONSTANTS
    ann = ann  bob = bob
    None = None
    Users = {ann, bob}
    Role <- MCRole
    Scenes <- Tour
    Cards = {"card"}
INVARIANTS TypeOK OwnWritesShown CacheOfUser
PROPERTIES PunchRefusedOnlyIfOutdated PolledCatchUp
CHECK_DEADLOCK FALSE
