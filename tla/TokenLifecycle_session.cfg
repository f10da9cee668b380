CONSTANTS
    Users = {u1}
    MaxAge = 1
    Inactivity = 1
    Skew = 1
    MaxTime = 2
    NoExpiry = NoExpiry
    NoUser = NoUser
SPECIFICATION Spec
INVARIANT TypeOK HonouredWithinLifetime
PROPERTY ImplementsSession
