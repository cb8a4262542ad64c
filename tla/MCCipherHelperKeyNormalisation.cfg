CONSTANTS
    Undefined = Undefined
    Garbage = Garbage
    Keys <- MCKeys
    Plaintexts <- MCPlaintexts
SPECIFICATION Spec
INVARIANT
    KeyNormalisation
