SPECIFICATION Spec
CONSTANTS
    h1 = h1
    h2 = h2
    me = me
    boss = boss
    pal = pal
    Handlers = {h1, h2}
    Evaluators = {me, boss, pal}
    Self = me
    TypeOf <- MCTypeOf
    Configurations <- MCConfigurations
    PeriodOf <- MCPeriodOf
    Competencies <- MCCompetencies
    Ratings = {2, 4}
    GoalWeights <- MCGoalWeights
    Achievements = {4567}
INVARIANTS
    TypeOK
    ScoreIsOfAnswers
    ResultIsOfScores
    MeritAccounted
    ExclusionApart
    ClosedIsSettled
PROPERTIES
    ImplementsOutcome
SYMMETRY Symmetry
CHECK_DEADLOCK FALSE
