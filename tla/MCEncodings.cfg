SPECIFICATION SumSpec
CONSTANTS
    Message <- MCMessage
    Follower <- MCFollower
    Tag = {258}
    MaxFrames = 2
    None = None
CHECK_DEADLOCK FALSE
INVARIANTS
    WholeFramesAreHandled
    EachValueHasItsNumber
    CallsAreCarriedOut
    RegistersAreMemory
