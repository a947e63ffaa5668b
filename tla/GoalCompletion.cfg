SPECIFICATION Spec
CONSTANTS
    h1 = h1
    h2 = h2
    Handlers = {h1, h2}
    Organizational = TRUE
    KeyResults <- MCKeyResults
    Definitions <- MCDefinitions
    Values <- MCValues
    MaxCheckIns = 2
    MaxRequests = 2
INVARIANTS
    TypeOK
    CompletedByApproval
    AchievementAccounted
    NoWaitCycle
PROPERTIES
    ImplementsReview
SYMMETRY Symmetry
CHECK_DEADLOCK FALSE
