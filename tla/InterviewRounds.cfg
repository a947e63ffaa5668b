SPECIFICATION Spec
CONSTANTS
    h1 = h1
    h2 = h2
    e1 = e1
    e2 = e2
    Handlers = {h1, h2}
    Employees = {e1, e2}
    Recruiter = e2
    EvaluatorLists <- MCEvaluatorLists
    Panels <- MCPanels
    Planned <- MCPlanned
    MaxInterviews = 2
CONSTRAINT Underway
SYMMETRY Symmetry
INVARIANTS
    TypeOK
    RejectionHolds
    NotStranded
PROPERTIES
    EveryoneEvaluated
CHECK_DEADLOCK FALSE
