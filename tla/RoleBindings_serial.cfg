\* Membership requests served one at a time, with failing Get, Delete, Create and Update calls, while
\* the User controller runs its deletion cascade and the informer lags.
CONSTANTS
    Users = {a, b}
    None = None
    p1 = p1
    Procs = {p1}
    Faults = {"call"}
    RvMod = 1
    NsOrder <- MC_OneNs
SYMMETRY MC_Symmetry
SPECIFICATION Spec
INVARIANT MemberListAgrees
