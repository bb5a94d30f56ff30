SPECIFICATION Spec
CONSTANTS
    p1 = p1  c1 = c1  p2 = p2  c2 = c2  k1 = k1  k2 = k2  u1 = u1  u2 = u2
    Roots = {p1, p2}
    Children = {c1, c2}
    ChildOf <- MCChildOf2
    Workers = {k1, k2}
    Users = {u1}
    NSteps = 3
    Enabled = {1, 3}
    OnError <- RetryContinueStop
    RetryCount <- OneRetry3
    ApprovalSteps = {}
    NestedSteps = {}
    SnapshotIsolation = FALSE
    Redelivery = TRUE
    MaxCrashes = 1
SYMMETRY Symmetry

INVARIANTS
    OneExecutor
    AtMostOneLateStep

CHECK_DEADLOCK FALSE
