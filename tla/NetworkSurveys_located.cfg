CONSTANTS
    Survey = {s1, s2}
    Device = {d1}
    DeviceOf <- MCDeviceOf
    None = None
    CacheFor = 1
    Timeout = 1
    MaxAttempts = 2
    MaxFaults = 2
SPECIFICATION Spec
INVARIANTS
    TypeOK
    ToldAtRest
PROPERTIES
    DroppedOnlyInSilence
    NoLateOverwrite
    SurveysSettle
