SPECIFICATION Spec
CONSTANTS
    h1 = h1
    h2 = h2
    Handlers = {h1, h2}
    Kinds = {"letter", "contract"}
    Approvers = {0, 2}
    MaxUploads = 2
INVARIANTS
    TypeOK
    ApprovedHasNoPending
    DecidedInOrder
    ApprovalIsOfTheFile
    NamedFileStored
    SignatureIsOfTheContract
PROPERTIES
    HandlersFinish
CHECK_DEADLOCK FALSE
