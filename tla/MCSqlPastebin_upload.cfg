SPECIFICATION Spec
CONSTANTS
    c1 = c1
    c2 = c2
    c3 = c3
    r1 = r1
    r2 = r2
    d1 = d1
    s1 = s1
    s2 = s2
    s3 = s3
    k1 = k1
    k2 = k2
    NoKey = NoKey
    NoRow = NoRow
    NoSlug = NoSlug
    NoForm = NoForm
    Creators = {c1, c2}
    Readers = {r1}
    Deleters = {d1}
    Slugs = {s1, s2}
    Keys = {k1, k2}
    Forms <- UploadForms
    Configs <- Unguarded
    Backend = "postgres"
    MaxUploads = 1
    MaxTTL = 0
    DefaultBurn = TRUE
    Reuse = FALSE
    Faults = TRUE
    MaxNow = 1
    MaxRestarts = 1
INVARIANTS BurnInv SlotsExact AnswerMatchesStore
SYMMETRY Symmetric
CHECK_DEADLOCK FALSE
