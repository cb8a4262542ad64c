CONSTANTS
    f1 = f1
    f2 = f2
    Empty = Empty
    Typed = Typed
    Files <- MCFiles
    FileKeys <- MCFileKeys
    MaxReads = 3
    ReadsMayFail = TRUE
SPECIFICATION Spec
INVARIANTS
    TypeOK
    ContentProvenance
PROPERTIES ImplementsContract
