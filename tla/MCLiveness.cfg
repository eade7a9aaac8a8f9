SPECIFICATION FairSpec
CONSTANTS
    owner = owner
    other = other
    w1 = w1
    w2 = w2
    a1 = a1
    d1 = d1
    d2 = d2
    NoUser = NoUser
    NoApp = NoApp
    NoWorker = NoWorker
    Users <- MCUsers
    InitialReviewers <- MCInitialReviewers
    Apps <- MCApps
    Docs <- MCDocs
    Workers <- MCWorkers
    Fields <- MCFields
    Values <- MCValues
    IdExpiry = "id_expiry"
    Expired <- MCExpired
    Cap = 1
    MaxRequests = 4
    MaxFaults = 1
PROPERTIES
    RequestsAnswered
CHECK_DEADLOCK FALSE
