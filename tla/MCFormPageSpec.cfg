CONSTANTS
    f1 = f1
    f2 = f2
    Empty = Empty
    Typed = Typed
    Undefined = Undefined
    Files <- MCFiles
    FileFields <- MCFileFields
    Cmds <- MCCmds
    Ops <- MCOps
    MaxReads = 2
    ReadsMayFail = TRUE
    Pages = {"legacy", "peer", "ant"}
SPECIFICATION Spec
CHECK_DEADLOCK FALSE
INVARIANT
    PlaceholderIntact
