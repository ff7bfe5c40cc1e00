SPECIFICATION MCSpec
CONSTANTS
    Sessions = {s1, s2}
    Reliable = {s1}
    NoSession = NoSession
    MaxRecords = 2
    Times = {1, 2}
    Cutoffs = {1, 2, 3}
    a = a
    b = b
    audience = audience
    Identities = {a, b}
    ProjectOf <- MCProjectOf
    Audiences = {audience}
    Selectors <- MCSelectors
    Environments <- MCEnvironments
    Carriers <- MCCarriers
    Missing = Missing
    MaxSelections = 2
    MaxReplaced = 1
INVARIANTS AcceptsExactlyCurrent TokenIsDeclared
PROPERTIES RefusalSurvivesGrowth SelectsAgain
CHECK_DEADLOCK FALSE
