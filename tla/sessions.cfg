SPECIFICATION FairSpec
CONSTANTS
    laptop = laptop  phone = phone  poll = poll
    None = None
    Storage <- OwnBrowser
    Tabs = {laptop}
    Calls = {poll}
    Dialogs = {"login", "logout", "password"}
    MaxPairs = 2
    MaxFaults = 1
INVARIANTS TypeOK RefreshesShared RotatedStaysUnused
PROPERTIES CallsSettle
CHECK_DEADLOCK FALSE
