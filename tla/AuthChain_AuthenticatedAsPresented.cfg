CONSTANTS
    Users = {u1, u2}
    Orders <- MC_ShippedOrder
    AllowPaths <- MC_AllowPaths
    PathChars <- MC_PathChars
    MaxPathLen = 4
    CookiePaths <- MC_NoCookiePaths
    Anonymous = Anonymous
    NoUser = NoUser
SPECIFICATION Spec
CHECK_DEADLOCK FALSE
INVARIANT AuthenticatedAsPresented
