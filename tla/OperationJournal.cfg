SPECIFICATION Spec
CONSTANTS
    Operation <- MCOperation
    ApplyOperation <- MCApplyOperation
    Publication <- MCPublication
    Requires <- MCRequires
    Excludes <- MCExcludes
CONSTRAINT ShortJournal
INVARIANTS
    TypeOK
    TornByOneWrite
    TruthfulRecords
    CleanAccountsForEffects
    AcknowledgedIsDurable
    PlainErrorMeansNoEffect
    EffectsInOrder
    ResolvableUnlessTorn
PROPERTY
    ImplementsAtMostOnce
