SPECIFICATION ModuleSpec
CONSTANTS
    ext = ext
    ext2 = ext2
    own = own
    weak = weak
    WordSize = 16
    Base = 8
    NWords = 6
    BitmapBits = 2
    Symbols = {ext, ext2, own, weak}
    Address <- MCAddress
    Hidden = {own, weak}
    Own = {own}
    Weak = {weak}
    Tables <- MCTables
    MaxAttempts = 3
    Entries <- MCEntries
    MaxLength = 4
    Rela = 7
    Rel = 17
    NameOf <- MCNameOf
    Kind <- MCKind
    Hash <- MCHash
    TableAt <- MCTableAt
    Names <- MCNames
INVARIANTS
    LoadRebasesOnce
    ResolvedUnlessRelRetried
    LoadedIsTheSection
    SearchFindsFirstDefined
CHECK_DEADLOCK FALSE
