SPECIFICATION FairSpec
CONSTANTS
    a = a  b = b  d = d  e = e  ann = ann  near = near  far = far
    Chats = {a, b}
    Streams = {a}
    Embeds = {}
    Users = {ann}
    UserOf <- AllAnn
    NTargets = 1
    Providers = {near}
    ProviderOf <- OneProvider
    Limit <- OneEach
    RateLimit <- NoRate
    RequestLimit = 2
    TokenLimit = 3
    Estimate <- EstimateTwo
    Answers = {0, 1}
    MaxRetries = 1
    TTL = 1
    Grace = 0
    Window = 1
    Patience = 3
    Instant = FALSE
    Outages = 1
    MaxCrashes = 1
    MaxTime = 1

INVARIANTS
    InFlightWithinQuota

PROPERTIES
    CallsReturn

CHECK_DEADLOCK FALSE
