CONSTANTS
    Convs = {c1, c2}
    Turns = {t1, t2, t3}
    Agents = {a1}
    HISTORY_LIMIT = 2
    FetchSlack = 3
    MaxIterations = 1
    MaxTools = 2
    MaxEdits = 1
    MaxFailures = 1
SPECIFICATION Spec
SYMMETRY Symmetry

INVARIANTS
    SequencesGapless
    KnowsHistory
    

CHECK_DEADLOCK FALSE
