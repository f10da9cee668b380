CONSTANTS
    FirstSegments = {"api"}
    Segments <- MC_WatchSegments
    MaxSegments = 6
    Methods <- MC_Methods
    WatchValues <- MC_WatchValues
    LabelSelectors = {FALSE, TRUE}
SPECIFICATION Spec
CHECK_DEADLOCK FALSE
INVARIANT ScopeMatchesNamespace
