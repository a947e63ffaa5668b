SPECIFICATION Spec
CONSTANTS
    a1 = a1
    a2 = a2
    a3 = a3
    a4 = a4
    v1 = v1
    v2 = v2
    ana = ana
    bea = bea
    cai = cai
    desk = desk
    spare = spare
    NoRow = NoRow
    Candidates <- OneCandidate
    Positions <- MCPositions
    Emails <- MCEmails
    FirstMail <- OwnMail
    VacancyOf <- MCVacancyOf
    CandidateOf <- MCCandidateOf
    PositionOf <- MCPositionOf
    Approved <- OneBox
    Openings <- OneEach
    Staffed <- NoStaff
    Requests = {r1, r2}
    Apps <- OneApp
    Vacancies <- OneVacancy
    InPipeline = {}
    Finalists = {}
    Accepted = {}
    Expiring = {a1}
    ContractTemplate = TRUE
    Ops = {"apply", "create", "move", "interview", "offer", "letter", "contract",
           "hire", "toHire", "patch", "leave"}
    Renaming = {}
    RenameOnce = TRUE
    ManualStatuses = {"IN_POOL"}
INVARIANTS
    TypeOK
PROPERTIES
    StagesFollowMatrix
    ChecksHoldAtCommit
CHECK_DEADLOCK FALSE
