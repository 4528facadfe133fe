SPECIFICATION Spec
CONSTANTS
    Tools = {t1}
    Programs = {lib}
    MaxWrites = 3
    Names <- MCNames
    Lower <- MCLower
    LoginHost <- MCLoginHost
    Document <- MCDocument
    Covers <- MCCovers
    MaxEntries = 3
    Commands <- MCCommands
    Patches <- MCOpenPatches
    Files <- MCFiles
    None = None
    Undefined = Undefined
    Missing = Missing
    Damaged = Damaged

INVARIANT
    StoredVaultsOpen
CHECK_DEADLOCK FALSE
