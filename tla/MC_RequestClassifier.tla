----------------------- MODULE MC_RequestClassifier -----------------------
EXTENDS RequestClassifier

MC_FirstSegments == {"api", "apis", "ai-apis", "x"}
MC_Segments == {"x", "watch", "proxy", "workspaces", "namespaces", "status"}
MC_WatchSegments == {"x", "watch", "namespaces"}
MC_Methods == {"GET", "DELETE", "POST", "OPTIONS"}
MC_WatchValues == {"absent", "true", "false"}
\* A watch value the specification does not honour and the code does.
MC_OtherWatchValues == {"absent", "true", "1"}
=============================================================================
