\* One document processed twice, scanned by both ticks, and by a user or touched;
\* one provider with two schedulers, a check by hand and two discoveries; three
\* operations on the tree; and the inputs of the algorithms that MCServices gives.
CONSTANTS
    None = None
    name = name
    link = link
    a = a
    b = b
    upper = upper
    n = n
    brand = brand
    Space = Space
    Newline = Newline
    Stop = Stop
    Mark = Mark
    Page = Page
    Escape = Escape
    Documents = {d1}
    Patterns = {1, 2}
    Names = {name}
    Links = {link}
    Ends <- MCEnds
    Texts <- MCTexts
    PatternTick = PatternTick
    SemanticTick = SemanticTick
    Users = {user}
    MaxEntities = 1
    MaxVersions = 2
    MaxRequests = 1
    Providers = {p}
    Models = {"chat"}
    TypeOf <- MCTypeOf
    Ticks = {t1, t2}
    Checkers = {c}
    Syncers = {s1, s2}
    Interval = 1
    Threshold = 2
    MaxTime = 1
    MaxJobs = 3
    MaxChanges = 1
    Settings = Settings
    MaxDepth = 3
    Files = {"f1", "f2"}
    Docs = {"d1", "d2", "d3"}
    Titles = {"x", "y"}
    Start <- MCStart
    Requests <- MCMoves
    People = {v1, v2}
    MaxMoves = 3
    Chunks <- MCChunks
    DocOf <- MCDocOf
    BaseOf <- MCBaseOf
    PlaceOf <- MCPlaceOf
    TermsOf <- MCTermsOf
    EmbeddedBy <- MCEmbeddedBy
    Similarity <- MCSimilarity
    Policy <- MCPolicy
    Latin = {"latin"}
    Depth = 2
    Unit = 60
    MinExcerpt = 2
    Separator = 1
    Searches <- MCSearches
    Contexts <- MCContexts
    Calls <- MCCalls
    Vectors <- MCVectors
    Grants <- MCGrants
    AgentRoles <- MCAgentRoles
    OwnerOf <- MCOwnerOf
    ListsFile <- MCListsFile
    PermitsFile <- MCPermitsFile
    ScanLimit = 5
    MinPage = 2
    MaxPage = 4
    TopTabs = 1
    BaseScan = 1
    SharedFolder <- MCShared
    AttachmentsFolder <- MCAttachments
    Openings <- MCOpenings
    Guarded <- MCRows
    Views <- MCViews
    Libraries <- MCLibraries
    Panels <- MCPanels
    Uploads <- MCUploads
    Limits = {1, 2, 3, 4, 5}

SPECIFICATION MCSpec

INVARIANTS
    RowsSound
    TreeSound
    SearchesSound
    AsksWhoeverCan
    
    ListsSound
    TextsSound


    

CHECK_DEADLOCK FALSE
