\* Two clients of the public routes, or of login; the lockout is as long as the
\* window, as it is for all limiters but that of the links.
SPECIFICATION Spec
CONSTANTS
    Keys = {a, b}
    MaxFails = 2
    Window = 3
    Lockout = 3
    MaxFlying = 2
    MaxTime = 10
INVARIANTS
    TypeOK
    RateKept
    RefusedForCause
PROPERTIES
    Bounded
    LockoutKept
