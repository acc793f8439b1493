SPECIFICATION Spec
CONSTANTS
    ann = ann  bob = bob
    None = None
    Users = {ann, bob}
    Role <- MCRole
    Scenes <- BellOnly
    Cards = {"card"}
INVARIANT UnseenIsUnread
CHECK_DEADLOCK FALSE
