SPECIFICATION Spec
CONSTANT MaxAttempts = 3
INVARIANTS
    TypeOK
    SwapSpendsReceipt
    TruthfulOutcome
    ClassifierAccepts
    StandDownAfterOutcome
PROPERTIES
    ImplementsAttendedApply
