SPECIFICATION RedisSpec
CONSTANTS
    c1 = c1
    c2 = c2
    c3 = c3
    r1 = r1
    r2 = r2
    d1 = d1
    s1 = s1
    s2 = s2
    s3 = s3
    k1 = k1
    k2 = k2
    NoKey = NoKey
    NoRow = NoRow
    NoSlug = NoSlug
    NoForm = NoForm
    Creators = {c1, c2}
    Readers = {r1, r2}
    Deleters = {d1}
    Slugs = {s1, s2}
    Keys = {k1}
    Forms <- RedisForms
    Configs <- Encrypted
    Backend = "redis"
    MaxUploads = 2
    MaxTTL = 0
    DefaultBurn = FALSE
    Reuse = FALSE
    Faults = TRUE
    Guess = FALSE
    MaxNow = 1
    MaxRestarts = 1
SYMMETRY Symmetric
INVARIANTS RedisTypeOK BurnOnce HandedAsSent AnnouncedStays
PROPERTIES KeepsPromise
CHECK_DEADLOCK FALSE
