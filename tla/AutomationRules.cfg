SPECIFICATION FairSpec
CONSTANTS
    Rules = {"summary", "pipeline"}
    Coalescing = {"summary"}
    Piping = {"pipeline"}
    Writing = {"summary"}
    Documents = {d1}
    Workers = {w1, w2}
    Editors = {u1, u2}
    MaxRevisions = 2
    MaxCopies = 1
    MaxTests = 1
    Nothing = Nothing

INVARIANTS
    OncePerRevision


    
    

CHECK_DEADLOCK FALSE
