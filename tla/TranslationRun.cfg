CONSTANTS
    Translations = {t1, t2}
    Workers = {w1}
    Clients = {c1, c2}
    Segments = {s1, s2}
    MaxRequests = 5
    MaxFailures = 1
SPECIFICATION Spec
SYMMETRY Symmetry

INVARIANTS
    MemoryTrusted
    IndexedOnce


    

CHECK_DEADLOCK FALSE
