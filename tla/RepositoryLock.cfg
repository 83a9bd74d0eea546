SPECIFICATION Spec
CONSTANTS
    apply1 = apply1
    apply2 = apply2
    harvest = harvest
    assemble = assemble
    None = None
    Process <- MCProcess
    Reclaimers <- MCReclaimers
    Refusers <- MCRefusers
    OperationId <- MCOperationId
INVARIANTS
    TypeOK
    Exclusion
    NoLeakedLock
PROPERTIES
    ImplementsMutationLock
