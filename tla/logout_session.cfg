SPECIFICATION Spec
CONSTANTS
    laptop = laptop  phone = phone  poll = poll
    None = None
    Storage <- OwnBrowser
    Tabs = {laptop}
    Calls = {poll}
    Dialogs = {"login", "logout"}
    MaxPairs = 2
    MaxFaults = 0
PROPERTY LogoutEndsSessions
CHECK_DEADLOCK FALSE
