CONSTANTS
    Users <- Accounts
    Requests <- Five
    Orders <- HandOver
    FirstSupers <- OneSuper
    MaxAborts = 1
SPECIFICATION Spec
INVARIANT LastSuperAdminStays
CHECK_DEADLOCK FALSE
