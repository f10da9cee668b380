\* Short paths, and a watch parameter that is neither "true" nor "false".
CONSTANTS
    FirstSegments = {"api"}
    Segments <- MC_WatchSegments
    MaxSegments = 4
    Methods = {"GET"}
    WatchValues <- MC_OtherWatchValues
    LabelSelectors = {FALSE}
SPECIFICATION Spec
CHECK_DEADLOCK FALSE
INVARIANT ClassifiedAsSpecified
