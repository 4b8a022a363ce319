SPECIFICATION Spec
CONSTANTS
    entryA = entryA
    entryB = entryB
    entryC = entryC
    Entries = {entryA, entryB, entryC}
    Unfit <- MCUnfit
    EnteredPort <- MCEnteredPort
    Firmwares = {firmware1, firmware2}
    Operators <- MCOperators
    Absent = absent
    Empty = empty
INVARIANTS
    TypeOK
    AppliedAtBoot
PROPERTIES
    PairsReadWhole
    DeviceIdKept
    LoadGetsMutex
