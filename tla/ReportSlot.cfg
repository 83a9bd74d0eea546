SPECIFICATION FairSpec
CONSTANTS
    attempt = attempt
    retry = retry
    harvest = harvest
    early = early
    late = late
    NoFile = NoFile
    Torn = Torn
    Free = Free
    Publisher <- MCPublisher
    Collector <- MCCollector
    Report <- MCReport
    MishapLimit = 2
INVARIANTS
    TypeOK
    TruthfulAnswers
PROPERTIES
    ImplementsReportOnce
    LockGivenBack
