CONSTANTS
    Users = {u1}
    RecordIds <- MC_RecordIds
    Threshold = 2
    Window = 2
    NoTime = NoTime
    Endpoints <- MC_AllEndpoints
SPECIFICATION Spec
INVARIANT ThresholdFailuresLocked
