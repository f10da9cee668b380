\* Role changes and user creation and deletion for one user, one request at
\* a time, while the GlobalRoleBinding controller, the garbage collector, the
\* User controller and the lagging informer run, fairly.  Four bindings in
\* all: enough for a role change before the informer caught up and for a
\* user deleted and created again.  Without symmetry: the run checks liveness.
CONSTANTS
    Users = {a}
    None = None
    p1 = p1
    Procs = {p1}
    MaxUid = 4
SPECIFICATION Spec
INVARIANT TypeOK
INVARIANT DefaultListSortsAsPromised
INVARIANT WithListAndFilterKeepsMatches
PROPERTY ClusterAdminFollowsPlatformAdmin
PROPERTY ClusterAdminRevoked
PROPERTY DescribedAdminGetsClusterRole
