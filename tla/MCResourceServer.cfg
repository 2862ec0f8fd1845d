SPECIFICATION RSSpec
CONSTANTS
    HostNode = {"h0", "h1"}
    Primary = "h0"
    Realm = {"r0"}
    Clears = {"r0"}
    IRQ <- NoIRQ
    Ring <- MCRing
    From <- MCFrom
    To <- MCTo
    GroupOf <- MCGroupOf
    MaxLives = 2
    HostSubscribes = {"h0"}
    YieldTimed = {0, 1}
CHECK_DEADLOCK FALSE
INVARIANTS
    NodesAgree
    BlockedHasReply
    CallsAreAccepted
    SetBitIsAnnounced
