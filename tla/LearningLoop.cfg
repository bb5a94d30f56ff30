SPECIFICATION Spec
CONSTANTS
    Candidates = {c1, c2}
    Learned = {l1, l2}
    Messages = {m1}
    Requests = {r1, r2}
    Contents = {"fact", "rule"}
    SkillContents = {"rule"}
    MaxRequests = 3
    MaxChanges = 2
    NoRow = NoRow
SYMMETRY Symmetry

INVARIANTS
    LearnedOnce
    

PROPERTIES
    DecisionFinal

CHECK_DEADLOCK FALSE
