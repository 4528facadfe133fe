SPECIFICATION HostsSpec
CONSTANTS
    Integrations <- MCOpenClaw
    AgentCalls <- MCCalls
    Entries <- MCEntries
    Values <- MCValues
    FirstValues <- MCFirstValues
    Messages <- MCMessages
    Origin = "http://localhost"
    MaxChanges = 1
    WordNames <- MCWords
    Names <- MCNames
    Lower <- MCLower
    LoginHost <- MCNoAlias
    Document <- MCNoAlias
    Covers <- MCCovers
    MaxEntries = 4
    None = None
    Undefined = Undefined
INVARIANTS
    ReferencesResolve
CHECK_DEADLOCK FALSE
