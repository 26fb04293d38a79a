SPECIFICATION Spec
CONSTANTS
    p1 = p1
    p2 = p2
    p3 = p3
    home = home
    other = other
    ann = ann
    bob = bob
    Runs = {p1, p2, p3}
    Addrs = {home, other}
    MaxFaults = 1
    Scenarios <- MCScenarios
    Menu <- MCMenu
    Catalog <- MCCatalog
INVARIANTS
    TypeOK
    EnsuredRemote
    CommandHasPair
    RequestTrue
    PanicsKnown
    ArgsArrive
    RunsInPlace
    NoForeignGroup
    HomeWithAccount
    MembershipsKept
PROPERTIES
    RunsRecover
    ConfigureFresh
    RegisterFailsFor
\* every invocation runs one command and ends
CHECK_DEADLOCK FALSE
