SPECIFICATION FairSpec
CONSTANTS
    Dumps <- MCDumps
    Heads = {"t(a)", "t(a,b)", "u(a)", "t"}
    TableText <- MCTableText
    ColumnsText <- MCColumnsText
    NameOf <- MCNameOf
    Files <- MCFiles
    Objects <- MCObjects
    Modes = {"shared", "dedicated", "local"}
    PolicyRows <- MCRows
    PolicyBytes <- MCBytes
    TierRows <- MCRows
    TierBytes <- MCBytes
    MaxPuts = 2
    MaxAttempts = 3
    Faults = TRUE
    Tables <- MCTables
    NoFile = NoFile
INVARIANTS
    IntakeTypeOK
    AcceptedIsWhole
    RefusedIsDamaged
    RejectionsTruthful
PROPERTY ReadSettles
CHECK_DEADLOCK FALSE
