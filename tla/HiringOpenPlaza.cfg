SPECIFICATION Spec
CONSTANTS
    a1 = a1
    a2 = a2
    a3 = a3
    a4 = a4
    v1 = v1
    v2 = v2
    ana = ana
    bea = bea
    cai = cai
    desk = desk
    spare = spare
    NoRow = NoRow
    Candidates <- MCCandidates
    Positions <- MCPositions
    Emails <- MCEmails
    FirstMail <- OwnMail
    VacancyOf <- MCVacancyOf
    CandidateOf <- OwnCandidate
    PositionOf <- MCPositionOf
    Approved <- OneBox
    Openings <- OneEach
    Staffed <- NoStaff
    Requests = {r1, r2}
    Apps <- MCApps
    Vacancies <- MCVacancies
    InPipeline = {a1, a2, a3}
    Finalists = {a1, a3}
    Accepted = {a1, a2, a3}
    Expiring = {}
    ContractTemplate = FALSE
    Ops = {"hire", "move", "leave"}
    Renaming = {}
    RenameOnce = TRUE
    ManualStatuses = {}
PROPERTIES
    HireUsesOpenPlaza
CHECK_DEADLOCK FALSE
