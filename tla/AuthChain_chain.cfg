CONSTANTS
    Users = {u1, u2}
    Orders <- MC_Orders
    AllowPaths <- MC_AllowPaths
    PathChars <- MC_PathChars
    MaxPathLen = 4
    CookiePaths <- MC_CookiePaths
    Anonymous = Anonymous
    NoUser = NoUser
SPECIFICATION Spec
CHECK_DEADLOCK FALSE
INVARIANT ServedOnlyIfAuthorized AllowlistNeedsNoStore AsPresentedWhenAnonymousLast WrongPasswordRecorded ServedAsClaimed
