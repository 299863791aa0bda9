SPECIFICATION Spec
CONSTANTS
    Width = 10
    Height = 10
    EnsembleIou = 55
    DedupIou = 40
    MinCoverage = 50
    MinAreaRatio = 20
    MaxCandidates = 2
    Scenes <- Books
    InnerFindings <- Readings
    Reviews <- Verdict
    Impressions <- Seen
    MinConfidence = 80
    Tenants = {t1}
    RecursionLimit = 25
    MaxInspections = 2
    MaxAttempts = 2
    BasePrices = {100, 149, 192, 200, 227, 9900, 18000, 60000}
    MaxResumes = 2
INVARIANTS AutomaticResultsAreVerified UnclearBooksReachAHuman DecisionsAreKept RunsWithinLimit AutomaticApprovalsAreSold NormalApprovalsAreSound
