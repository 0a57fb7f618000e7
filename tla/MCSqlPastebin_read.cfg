SPECIFICATION Spec
CONSTANTS
    c1 = c1
    c2 = c2
    c3 = c3
    r1 = r1
    r2 = r2
    d1 = d1
    s1 = s1
    s2 = s2
    s3 = s3
    k1 = k1
    k2 = k2
    NoKey = NoKey
    NoRow = NoRow
    NoSlug = NoSlug
    NoForm = NoForm
    Creators = {c1}
    Readers = {r1, r2}
    Deleters = {d1}
    Slugs = {s1}
    Keys = {k1, k2}
    Forms <- ReadForms
    Configs <- Guarded
    Backend = "sqlite"
    MaxUploads = 2
    MaxTTL = 0
    DefaultBurn = FALSE
    Reuse = FALSE
    Faults = TRUE
    MaxNow = 2
    MaxRestarts = 0
SYMMETRY Symmetric
PROPERTIES KeepsPromise ServedWasLive NotFoundJustified JustifiedRemoval ProtectedOutlives
CHECK_DEADLOCK FALSE
