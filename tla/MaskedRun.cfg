SPECIFICATION Spec
CONSTANTS
    first = first
    second = second
    Process <- MCProcess
    MaxRuns = 2
    MishapLimit = 0
SYMMETRY Interchangeable
PROPERTY HistoryNeverMasks
