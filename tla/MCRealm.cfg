SPECIFICATION SumSpec
CONSTANTS
    Top = 5
    BuiltIn <- MCBuiltIn
    NumSlots = 16
    SlotBits = 0
    Node = {n1, n2}
    r1 = r1
    r2 = r2
    r3 = r3
    e1 = e1
    e2 = e2
    Realm = {r1, r2, r3}
    Objects <- MCObjects
    Frames <- MCFrames
    Refusals <- MCRefusals
    ExternsOf <- MCExterns
    None = None
CHECK_DEADLOCK FALSE
INVARIANTS
    MemoryIsAccountedFor
    SlotsHoldTheirCaps
    ExternHasOneHolder
    RealizedAsModelled
    RealmIsFilled
