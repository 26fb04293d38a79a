SPECIFICATION Spec
CONSTANTS
    a = a
    b = b
    p1 = p1
    p2 = p2
    card = card
    gpu = gpu
    drv = drv
    drv2 = drv2
    ann = ann
    Names <- MCNames
    Procs = {p1, p2}
    Users <- MCUsers
    Cards = {card}
    NvNodes = {gpu}
    Drivers <- TwoDrivers
    MaxFaults = 1
    FaultPhases = {"running", "undoing"}
    Lossy <- Ops
    Killable = FALSE
    Menu <- CareMenu
    Worlds <- CareWorlds
    Exclusive = TRUE
    MaxHostChanges = 1
PROPERTIES
    EditsAreWhole
    CreateDelivers
    AutofixHeals
    OnlySetMovesFlag
\* every invocation runs one command and ends
CHECK_DEADLOCK FALSE
