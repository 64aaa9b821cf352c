\* The parts that share no state; see MCComponents.
CONSTANTS
    \* ArtifactPurger: one of two originals has an unreadable expiry.
    Original = {a1, a2}
    Unreadable = {a2}
    AccessTTL = 2
    Margin = 3
    Interval = 1
    HealthAge = 1
    PutLag = 1
    PassHold = 2
    Cap = 6
    \* ObdScan: two scans at once, of two commands.
    s1 = s1
    s2 = s2
    Scan = {s1, s2}
    NoScan = NoScan
    Commands <- TwoCommands
    QueryTicks = 1
    \* RateLimiter: more peers and scopes than the table has keys.
    Scope = {"up", "new", "off"}
    Peer = {p1, p2, p3}
    Overflow = Overflow
    Limit <- Limits
    Window = 2
    MaxKeys = 2
    SweepEvery = 3
    \* DocumentDispatch
    Doc = {d1}
    FileTTL = 3
    \* CloudCase: two uploads and a health check race.
    u1 = u1
    u2 = u2
    Upload = {u1, u2}
    Health = Health
    Nobody = Nobody
    CaseLife = 1
    LeaseLife = 2
    \* BodyGate
    MaxBody = 2
    MaxChunk = 2
    MaxChunks = 4
    \* TransactionPlan, PurchaseDecision
    State = {"NJ", "PA"}
    NoBundle = NoBundle
    Nothing = Nothing
    Shipped <- UnsignedNJ
    SelfChecks = 1
    PpiChecks = 1
    Packages <- FullPackages
    Scans <- ReadyScans
    MaxAlarms = 1
    \* OfferDraft, in units of 100 dollars
    f1 = f1
    f2 = f2
    f3 = f3
    Finding = {f1, f2, f3}
    EvidenceId = {"r1", "r2"}
    Label = {"brakes", "tires"}
    Cites <- CitesOf
    Titled <- TitleOf
    Estimates <- EstimatesOf
    Amounts = {4, 5, 120}
    Asks = {90, 320}
    Baselines = {100, 300}
    Coverages = {30, 65, 85}
    Budgets = {80, 310}
    Costs = {0, 100}
    Absent = Absent
SPECIFICATION ComponentsSpec
INVARIANTS
    ComponentsTypeOK
    HealthyMeansCompliant
    AnswersInStep
    StaysInStep
    TableBounded
    AtMostTwice
    SourceHasReason
    AcceptedHasText
    NoOrphanOriginal
    ParsedBodyIsWhole
    SafeguardsOnlyHelp
    OfferWithinMeans
    DeductionsDocumented
PROPERTIES
    ExpiredGoesAway
    ScanEnds
    SourceGoesAway
    CreatedIsPersisted
    OnlyExpiredPurged
    AnonymousGoesAway
    UnconfirmedStepsAreSourced
    BuyIsEarned
    AlarmsOutlast
CHECK_DEADLOCK FALSE
