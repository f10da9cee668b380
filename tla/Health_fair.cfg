CONSTANTS
    Keys = {k1}
    PodStates = {p1, p2}
    FeatureSlices <- MC_FeatureSlices
    FeatureGates <- MC_FeatureGates
    LowerCase <- MC_LowerCase
    MaxChanges = 4
    None = None
SPECIFICATION FairSpec
CHECK_DEADLOCK FALSE
INVARIANT TypeOK DisabledNeverReports
PROPERTY StatusEventuallyReflects
