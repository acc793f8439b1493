SPECIFICATION Spec
CONSTANTS
    laptop = laptop  phone = phone  poll = poll
    None = None
    Storage <- OwnBrowser
    Tabs = {laptop, phone}
    Calls = {poll}
    Dialogs = {"login", "password"}
    MaxPairs = 2
    MaxFaults = 0
INVARIANT OwnDeviceContinues
CHECK_DEADLOCK FALSE
