SPECIFICATION Spec
CONSTANTS
    ext = ext
    ext2 = ext2
    own = own
    weak = weak
    WordSize = 16
    Base = 8
    NWords = 6
    BitmapBits = 2
    Symbols = {ext, ext2, own, weak}
    Address <- MCAddress
    Hidden = {own, weak}
    Own = {own}
    Weak = {weak}
    Tables <- MCTables
    MaxAttempts = 3
CHECK_DEADLOCK FALSE
INVARIANTS
    RelocationsHandled
