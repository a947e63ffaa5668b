SPECIFICATION FairSpec
CONSTANTS
    a1 = a1
    a2 = a2
    a3 = a3
    a4 = a4
    v1 = v1
    v2 = v2
    ana = ana
    bea = bea
    cai = cai
    desk = desk
    spare = spare
    NoRow = NoRow
    Candidates <- TwoCandidates
    Positions <- MCPositions
    Emails <- MCEmails
    FirstMail <- OwnMail
    VacancyOf <- MCVacancyOf
    CandidateOf <- MCCandidateOf
    PositionOf <- MCPositionOf
    Approved <- OneBox
    Openings <- OneEach
    Staffed <- NoStaff
    Requests = {r1, r2}
    Apps <- CrossApps
    Vacancies <- MCVacancies
    InPipeline = {a1, a2, a3, a4}
    Finalists = {a1, a3, a4}
    Accepted = {a1, a2, a3, a4}
    Expiring = {}
    ContractTemplate = FALSE
    Ops = {"hire", "move", "leave"}
    Renaming = {bea}
    RenameOnce = TRUE
    ManualStatuses = {}
INVARIANTS
    FilledCountIsHirings
    HiredIffRow
    NoDeadlockInVacancy
PROPERTIES
    ChecksHoldAtCommit
    ImplementsStaffing
    RequestsEnd
CHECK_DEADLOCK FALSE
