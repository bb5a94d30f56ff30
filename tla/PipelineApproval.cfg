SPECIFICATION FairSpec
CONSTANTS
    p1 = p1  c1 = c1  p2 = p2  c2 = c2  k1 = k1  k2 = k2  u1 = u1  u2 = u2
    Roots = {p1}
    Children = {c1}
    ChildOf <- MCChildOf
    Workers = {k1, k2}
    Users = {u1, u2}
    NSteps = 3
    Enabled = {1, 2, 3}
    OnError <- RetryStopContinue
    RetryCount <- OneRetry3
    ApprovalSteps = {1, 3}
    NestedSteps = {2}
    SnapshotIsolation = TRUE
    Redelivery = FALSE
    MaxCrashes = 1

INVARIANTS
    EffectsExactlyOnce
    

PROPERTIES
    CancelledIsFinal
    ImplementsLifecycle
    

CHECK_DEADLOCK FALSE
