SPECIFICATION Spec
CONSTANTS
    Producer <- MCProducer
    Gate <- MCGate
    Rank <- MCRank
    ConfigRank <- MCConfigRank
    Commit = {0, 1}
    Fork = 0
    MishapLimit = 1
INVARIANTS
    TypeOK
    ClassifiesAllOthers
    OthersCanStandDown
    OneVerdict
    IntegratesWhatWasReported
    GateBarriers
    CompletedMeansCollected
    ArchivedLeavesNoPane
PROPERTIES
    ImplementsRunLife
