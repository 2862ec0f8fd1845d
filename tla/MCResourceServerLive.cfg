SPECIFICATION RSSpec
CONSTANTS
    HostNode = {"h0"}
    Primary = "h0"
    Realm = {"r0"}
    Clears = {"r0"}
    IRQ <- LiveIRQ
    Ring <- LiveRing
    From <- LiveFrom
    To <- LiveTo
    GroupOf <- LiveGroupOf
    MaxLives = 0
    HostSubscribes = {}
    YieldTimed = {0, 1}
CHECK_DEADLOCK FALSE
INVARIANT
    MaskedIsOnItsWay
PROPERTIES
    TimedYieldReturns
    InterruptEndsYield
