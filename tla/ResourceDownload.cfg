SPECIFICATION FairSpec
CONSTANTS
    a = a
    b = b
    Resources = {a, b}
    Deps <- MCDeps
    Workers = {k1, k2}
    MaxDownloads = 2
    MaxInstalls = 4
    Ranged = {b}
    MaxVersion = 2
    Catalog <- MCCatalog
    Before <- MCBefore
    MaxStarts = 2
    MaxStops = 1
    MaxCrashes = 1


    

PROPERTIES
    ServiceKept
    Settles

CHECK_DEADLOCK FALSE
