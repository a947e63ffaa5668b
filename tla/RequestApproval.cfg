SPECIFICATION Spec
CONSTANTS
    q1 = q1
    q2 = q2
    desk = desk
    lab = lab
    NoRow = NoRow
    Positions <- MCPositions
    Existing = {desk}
    Staff <- OneSeat
    Vacs = {q1}
    Handlers = {h1, h2}
    Openings = {1,2}
    Kinds = {"EXISTING_POSITION", "NEW_POSITION"}
    Levels = {1,2}
    MaxBatches = 3
    Ops = {"resize","edit","process"}
INVARIANTS
    TypeOK
    SomeoneCanDecide
    VacancyIffApproved
    DecidedInOrder
PROPERTIES
    ApprovedByEveryLevel
    DecisionsStand
CHECK_DEADLOCK FALSE
