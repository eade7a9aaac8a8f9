CONSTANTS
    Tabs = {t1}
    Users = {u1}
    NoUser = NoUser
    Calls = {c1, c2}
    MaxTokens = 3
    Reserve = 0
    MaxPasswords = 1
    MaxExpiries = 1
    MaxLost = 2
    MaxOpens = 2
SPECIFICATION Spec
SYMMETRY Symmetry
CONSTRAINT Explored
INVARIANTS
    TypeOK
    RotationKeepsSession
    PasswordChangeEndsSessions
    WaitersHaveFlight
CHECK_DEADLOCK FALSE
