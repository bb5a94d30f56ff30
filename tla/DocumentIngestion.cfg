CONSTANTS
    Docs = {d1, d2}
    Users = {u1, u2}
    Workers = {w1}
    Sessions = {s1}
    Versions = {1, 2}
    Keys = {1, 2, 3}
    ChunkKeys <- TwoContents
    Uploaded = {d1}
    None = None
    Dead = Dead
    MaxRetries = 1
    MaxRequests = 2
    MaxFailures = 1
    MaxCrashes = 1
SPECIFICATION Spec

INVARIANTS
    IndexMatchesContent

PROPERTIES
    CancelSticks
    

CHECK_DEADLOCK FALSE
