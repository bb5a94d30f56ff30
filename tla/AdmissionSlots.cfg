SPECIFICATION Spec
CONSTANTS
    a = a  b = b  d = d  e = e  ann = ann  near = near  far = far
    Chats = {a, b}
    Streams = {}
    Embeds = {e}
    Users = {ann}
    UserOf <- AllAnn
    NTargets = 2
    Providers = {near, far}
    ProviderOf <- TwoProviders
    Limit <- OneEach
    RateLimit <- NoRate
    RequestLimit = 0
    TokenLimit = 0
    Estimate <- EstimateOne
    Answers = {0}
    MaxRetries = 0
    TTL = 1
    Grace = 1
    Window = 1
    Patience = 3
    Instant = FALSE
    Outages = 0
    MaxCrashes = 1
    MaxTime = 1
SYMMETRY Symmetry

INVARIANTS
    SlotsRespected
    NothingLeftBehind

CHECK_DEADLOCK FALSE
