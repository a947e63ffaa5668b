SPECIFICATION Spec
CONSTANTS
    q1 = q1
    q2 = q2
    desk = desk
    lab = lab
    NoRow = NoRow
    Positions <- MCPositions
    Existing = {desk}
    Staff <- OneSeat
    Vacs = {q1, q2}
    Handlers = {h1, h2}
    Openings = {2, 3}
    Kinds = {"EXISTING_POSITION"}
    Levels = {1}
    MaxBatches = 1
    Ops = {}
PROPERTIES
    HeadcountOnlyGrows
CHECK_DEADLOCK FALSE
