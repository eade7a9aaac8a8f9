CONSTANTS
    Tabs = {t1, t2}
    Users = {u1}
    NoUser = NoUser
    Calls = {c1}
    MaxTokens = 3
    Reserve = 0
    MaxPasswords = 0
    MaxExpiries = 0
    MaxLost = 0
    MaxOpens = 2
SPECIFICATION Spec
INVARIANT RotationKeepsSession
CHECK_DEADLOCK FALSE
