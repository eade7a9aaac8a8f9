CONSTANTS
    Users <- Accounts
    Requests <- Two
    Orders <- Resets
    FirstSupers <- SomeSupers
    MaxAborts = 1
SPECIFICATION Spec
INVARIANT PasswordStands
CHECK_DEADLOCK FALSE
