SPECIFICATION Spec
CONSTANTS
    a = a
    b = b
    p1 = p1
    p2 = p2
    card = card
    gpu = gpu
    drv = drv
    drv2 = drv2
    ann = ann
    Names <- MCNames
    Procs = {p1, p2}
    Users <- MCUsers
    Cards = {card}
    NvNodes = {}
    Drivers = {}
    MaxFaults = 1
    FaultPhases = {"running"}
    Lossy <- Undoable
    Killable = FALSE
    Menu <- CreateMenu
    Worlds <- CreateWorlds
    Exclusive = FALSE
    MaxHostChanges = 0
INVARIANTS
    RollbackComplete
    RootNotRegistered
PROPERTIES
    PlainUntouched
\* every invocation runs one command and ends
CHECK_DEADLOCK FALSE
