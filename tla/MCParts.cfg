CONSTANTS
    PartNames = {"auth", "wizard", "applicant", "reviewer", "editor", "shell", "birth", "input", "figures", "failure", "dialog", "drawer", "menu", "search", "toasts", "scroll", "announcer", "polling", "admin", "window", "rate", "serial"}
    Vacant = Vacant
    Addresses = {e1, e2}
    Phone = Phone
    BlankInput = BlankInput
    Cooldown = 1
    Visits = 2
    Forms <- Typed
    Submits = 2
    Apps = {a1, a2}
    Own = {a1}
    Dossiers = {d1, d2}
    NoApp = NoApp
    Queue = Queue
    New = New
    Away = Away
    Profile = Profile
    Counted = {c1, c2, c3}
    PageVersions = 2
    PageMoves = 1
    Faults = 0
    ReviewRounds = 1
    Turns = 2
    Lost = 0
    FormSaves = 2
    NoUser = NoUser
    NoDate = NoDate
    Inputs <- Everyday
    Skews <- SameDay
    Late = TRUE
    Given <- SmallParts
SPECIFICATION Spec
INVARIANTS
    TypeOK
    ShownIsAsked
    WordsAreTrue
    SentIsValid
    LastSuperAdminStays
    WindowLimit
    LimitsHold
PROPERTY StepsAreMeant
CHECK_DEADLOCK FALSE
