SPECIFICATION Spec
CONSTANTS
    Requests <- MCRequests
    Entries <- MCEntries
    Streams <- MCStreams
    Newline = "nl"
    Pad = "pad"
    Bad = "bad"
    Blank = "blank"
    MaxMessage = 2
    Names <- MCNames
    Lower <- MCLower
    LoginHost <- MCNoAlias
    Document <- MCNoAlias
    Covers <- MCCovers
    MaxEntries = 4
    None = None
    Undefined = Undefined
INVARIANTS
    RepliesAsIfLineByLine
    StrangersLearnNothing
PROPERTIES
    NothingToldWhenLocked
    EveryCallSettles
CHECK_DEADLOCK FALSE
