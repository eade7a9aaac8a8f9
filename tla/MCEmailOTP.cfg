SPECIFICATION Spec
CONSTANTS
    user = user
    w1 = w1
    w2 = w2
    c1 = c1
    c2 = c2
    NoUser = NoUser
    NoCode = NoCode
    NoWorker = NoWorker
    Users <- MCUsers
    Codes <- MCCodes
    Workers <- MCWorkers
    TTL = 2
    Cooldown = 1
    PurgeAfter = 0
    MaxAttempts = 2
    MaxOtps = 2
    MaxRequests = 4
    MaxTime = 3
    MaxFaults = 1
SYMMETRY Symmetry
INVARIANTS
    TypeOK
    OneLiveCode
    SingleUse
    GuessesBounded
    NoExpiredCode
    CooldownKept
PROPERTIES
    OnlyNewestAccepted
    PasswordNeedsCode
    OneTimeCodeSpec
CHECK_DEADLOCK FALSE
