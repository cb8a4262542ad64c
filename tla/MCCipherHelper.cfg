CONSTANTS
    Undefined = Undefined
    Garbage = Garbage
    Keys <- MCKeys
    Plaintexts <- MCPlaintexts
SPECIFICATION Spec
INVARIANTS
    AsciiKeyPadded
    ShortKeyPaddedUnits
