CONSTANTS
    None = None
    Symbols <- MCSymbols
    Paths <- MCPaths
    Digit <- MCDigit
    NameOrder <- MCNameOrder
    Spellings <- MCSpellings
    Pieces <- MCPieces
    MaxForm = 4
    Arguments <- MCArguments
    Headers <- MCHeaders
    Proxied <- MCProxied
    Remote <- MCRemote
SPECIFICATION Spec
INVARIANT VersionIsNumber
CHECK_DEADLOCK FALSE
