SPECIFICATION SumSpec
CONSTANTS
    Size <- MCSize
    Byte = {0, 1}
    UsedBits = {"NOTIFY_READ"}
    MaxBytes <- MCMaxBytes
CHECK_DEADLOCK FALSE
INVARIANTS
    OffsetsOrdered
    ReadsWhatWasSent
    PacketsArriveInOrder
PROPERTIES
    PublishedIsFinal
    PacketsAreDelivered
