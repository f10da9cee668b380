CONSTANTS
    FirstSegments <- MC_FirstSegments
    Segments <- MC_Segments
    MaxSegments = 5
    Methods <- MC_Methods
    WatchValues <- MC_WatchValues
    LabelSelectors = {FALSE}
SPECIFICATION Spec
CHECK_DEADLOCK FALSE
INVARIANT TypeOK ClassifiedAsSpecified
