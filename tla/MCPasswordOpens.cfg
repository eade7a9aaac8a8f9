CONSTANTS
    PartNames = {"input"}
    Vacant = Vacant
    Addresses = {e1, e2}
    Phone = Phone
    BlankInput = BlankInput
    Cooldown = 2
    Visits = 3
    Forms <- Typed
    Submits = 2
    Apps = {a1, a2}
    Own = {a1}
    Dossiers = {d1, d2}
    NoApp = NoApp
    Queue = Queue
    New = New
    Away = Away
    Profile = Profile
    Counted = {c1, c2, c3}
    PageVersions = 3
    PageMoves = 1
    Faults = 0
    ReviewRounds = 1
    Turns = 2
    Lost = 0
    FormSaves = 2
    NoUser = NoUser
    NoDate = NoDate
    Inputs <- All
    Skews <- AnyDay
    Late = TRUE
    Given <- SmallParts
SPECIFICATION Spec
INVARIANT PasswordOpens
CHECK_DEADLOCK FALSE
