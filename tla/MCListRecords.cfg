\* Pages of two over six keys, with limits that an honest listing can reach too.
CONSTANTS
    Keys <- MCKeys
    Initial <- MCInitial
    Size <- MCSize
    MaxBytes = 7
    MaxPages = 4
    MaxRecords = 5
    PageLimit = 2
    ArbitraryPages <- MCPages
SPECIFICATION Spec
INVARIANTS
    TypeOK
    WithinLimits
    ListingComplete
    RefusalJustified
