\* The limiter of the links, whose lockout is half as long as its window.
SPECIFICATION Spec
CONSTANTS
    Keys = {a}
    MaxFails = 3
    Window = 4
    Lockout = 2
    MaxFlying = 1
    MaxTime = 9
INVARIANT
    LimitPerWindow
