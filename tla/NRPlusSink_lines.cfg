CONSTANTS
    Gateway = {"g1"}
    Node = {"a", "b"}
    Script <- MCScript
    Layout <- MCLayout
    Definitions <- MCDefinitions
    FirstCounter = 7
    BatchSize = 4
    MaxOnWire = 2
    MaxFaults = 2
SPECIFICATION Spec
INVARIANTS
    TypeOK
    RecoversAtOnce
    FoundUnlessDisturbed
PROPERTIES
    NoOldValueReturns
    RefinesReports

CHECK_DEADLOCK FALSE
