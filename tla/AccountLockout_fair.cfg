CONSTANTS
    Users = {u1}
    RecordIds <- MC_LiveRecordIds
    Threshold = 2
    Window = 2
    NoTime = NoTime
    Endpoints <- MC_AllEndpoints
SPECIFICATION FairSpec
INVARIANT TypeOK
PROPERTY LockoutSound LockoutNotLiftedEarly DisabledIsTrap PlainPasswordEventuallyEncrypted LockEventuallyLifted
