SPECIFICATION Spec
CONSTANTS
    a1 = a1
    a2 = a2
    a3 = a3
    a4 = a4
    v1 = v1
    v2 = v2
    ana = ana
    bea = bea
    cai = cai
    desk = desk
    spare = spare
    NoRow = NoRow
    Candidates <- MCCandidates
    Positions <- MCPositions
    Emails <- MCEmails
    FirstMail <- OwnMail
    VacancyOf <- MCVacancyOf
    CandidateOf <- MCCandidateOf
    PositionOf <- MCPositionOf
    Approved <- OneBox
    Openings <- OneEach
    Staffed <- NoStaff
    Requests = {r1, r2}
    Apps <- OneApp
    Vacancies <- OneVacancy
    InPipeline = {a1}
    Finalists = {}
    Accepted = {}
    Expiring = {}
    ContractTemplate = FALSE
    Ops = {"move", "offer", "letter", "hire"}
    Renaming = {}
    RenameOnce = TRUE
    ManualStatuses = {}
PROPERTIES
    HiredOnAcceptedOffer
CHECK_DEADLOCK FALSE
