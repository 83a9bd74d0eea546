SPECIFICATION Spec
CONSTANTS
    first = first
    second = second
    Process <- MCProcess
    MaxRuns = 2
    MishapLimit = 1
SYMMETRY Interchangeable
INVARIANTS
    TypeOK
    OneLive
    WriteOrder
    NewestDecides
    CleanHistoryServes
    ReportedArchiveIsComplete
PROPERTIES
    StatusWasTrue
    ImplementsRunRegistry
