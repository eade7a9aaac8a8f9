CONSTANTS
    Texts <- TwoTexts
    Roles <- TwoRoles
    Selections <- AllFilters
    MaxPages = 2
    MaxRequests = 4
    MaxChanges = 1
    MaxFaults = 0
    Accounts = {a1, a2}
    NoAccount = NoAccount
    Writes = {w1}
    MaxWrites = 2
SPECIFICATION USpec
SYMMETRY AccountSymmetry
CONSTRAINT Explored
INVARIANTS
    UTypeOK
    RowsMatchFilters
    RowsContainAcknowledged
    PasswordGoesToItsAccount
PROPERTY ReportNamesAccount
CHECK_DEADLOCK FALSE
