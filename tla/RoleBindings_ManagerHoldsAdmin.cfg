\* One request at a time, no failures: DeleteUser's admin check against
\* the namespace manager's admin binding.
CONSTANTS
    Users = {a, b}
    None = None
    p1 = p1
    Procs = {p1}
    Faults = {}
    RvMod = 1
    NsOrder <- MC_NsOrder
SYMMETRY MC_Symmetry
SPECIFICATION Spec
INVARIANT ManagerHoldsAdmin
