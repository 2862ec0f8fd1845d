SPECIFICATION SumSpec
CONSTANTS
    Fid = {f1, f2}
    Inode = {i1, i2, i3, i4}
    Client <- Clients
    Count = {1, 3}
    EntrySize <- MCEntrySize
    None = None
    Byte = {0, 1}
    MaxLen = 4
    MinSize = 3
    MaxSize = 5
    Offer = {1, 3, 6}
    ReadCount = {1, 3}
    ReadHeader = 1
    WriteHeader = 2
SYMMETRY Symm
CHECK_DEADLOCK FALSE
INVARIANTS
    FidNamesItsFile
    ListingIsConsistent
    TransferIsWhole
