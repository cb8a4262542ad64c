CONSTANTS
    Undefined = Undefined
    RawQueries <- MCRawQueries
    ParamKeys <- MCParamKeys
    ParamValues <- MCParamValues
SPECIFICATION Spec
INVARIANT
    MatchesParseQuery
