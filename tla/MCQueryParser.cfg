CONSTANTS
    Undefined = Undefined
    RawQueries <- MCRawQueries
    ParamKeys <- MCParamKeys
    ParamValues <- MCParamValues
SPECIFICATION Spec
INVARIANTS
    LinkRoundTrip
    LastWriteWins
