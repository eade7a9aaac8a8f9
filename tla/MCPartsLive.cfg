CONSTANTS
    PartNames = {"cross", "auth", "wizard", "applicant", "reviewer", "editor", "shell", "figures", "list", "tab", "drawer", "toasts", "scroll", "polling"}
    Vacant = Vacant
    Addresses = {e1}
    Phone = Phone
    BlankInput = BlankInput
    Cooldown = 1
    Visits = 3
    Forms <- Plain
    Submits = 1
    Apps = {a1, a2}
    Own = {a1}
    Dossiers = {d1, d2}
    NoApp = NoApp
    Queue = Queue
    New = New
    Away = Away
    Profile = Profile
    Counted = {c1, c2}
    PageVersions = 2
    PageMoves = 0
    Faults = 1
    ReviewRounds = 0
    Turns = 1
    Lost = 1
    FormSaves = 1
    NoUser = NoUser
    NoDate = NoDate
    Inputs <- Everyday
    Skews <- SameDay
    Late = FALSE
    Given <- SmallParts
SPECIFICATION FairSpec
INVARIANT ShownIsAsked
PROPERTY PartsSettle
CHECK_DEADLOCK FALSE
