SPECIFICATION Spec
CONSTANTS
    Operation <- MCOperation
    ApplyOperation <- MCApplyOperation
    Publication <- MCPublication
    Requires <- MCRequires
    Excludes <- MCExcludes
INVARIANT UncertainPublicationResolvable
