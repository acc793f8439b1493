SPECIFICATION Spec
CONSTANTS
    ann = ann  bob = bob
    None = None
    Users = {ann, bob}
    Role <- MCRole
    Scenes <- SharedBrowser
    Cards = {"card"}
INVARIANT CacheOfUser
CHECK_DEADLOCK FALSE
