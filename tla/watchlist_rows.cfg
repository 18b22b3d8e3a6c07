CONSTANTS
    f1 = f1
    f2 = f2
    i1 = i1
    i2 = i2
    i3 = i3
    A = A
    B = B
    upper = upper
    lower = lower
    FolderIds = {f1, f2}
    ItemIds = {i1, i2, i3}
    Symbols = {A, B}
    Spellings = {upper, lower}
    MaxFolders = 2
    MaxSymbolsPerFolder = 2
    MaxTotalSymbols = 3
SPECIFICATION TablesSpec
INVARIANTS TablesOK SyncHolds
