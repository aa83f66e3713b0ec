CONSTANTS
    a = a
    b = b
    NoCell = NoCell
    Cell = {a, b}
    NetworkOf <- MCNetworkOf
    SourceOf <- MCSourceOf
    Content <- MCContent
    MaxUpdates = 2
    MaxFaults = 2
    MaxAttempts = 2
SPECIFICATION Spec
INVARIANTS
    TypeOK
    ObjectsAreOfOneReport
    RestIsLatest
    CellsAreTold
