SPECIFICATION TaskFairSpec
CONSTANTS
    t1 = t1  t2 = t2  k1 = k1  k2 = k2
    Tasks = {t1}
    Governed = {t1}
    PipelineTasks = {t1}
    Workers = {k1, k2}
    MaxRetries = 1
    MaxCrashes = 1
    MaxCopies = 1


    

PROPERTIES
    
    InProgressEnds

CHECK_DEADLOCK FALSE
