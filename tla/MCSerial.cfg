SPECIFICATION SumSpec
CONSTANTS
    Size <- MCSize
    Byte = {0, 1, 2, 3}
    MaxBytes <- MCMaxBytes
    UsedBits = {}
    MaxTyped = 3
    NumClients = 2
    BUFFER_LIMIT = 2
    Key = {"x", "nl", "@", "?", "1"}
    MaxOutput = 2
    MaxKeys = 3
CHECK_DEADLOCK FALSE
INVARIANTS
    Rearmed
    InputInOrder
    OutputIsComplete
    KeysAreAccountedFor
PROPERTY
    KickedBytesAreRead
