\* After main's shutdown and the end of the sync goroutine the process
\* exits: a state with nothing left to do is the end of the program.
CONSTANTS
    a = a
    b = b
    homeA = homeA
    homeB = homeB
    NoBackend = NoBackend
    NoAdvert = NoAdvert
    Ports <- MCPorts
    Words <- MCWords
    Paths <- MCPaths
    SlugOf <- MCSlugOf
    StaleAfter = 1
    MaxRegistrySteps = 4
SPECIFICATION SysSpec
CHECK_DEADLOCK FALSE
PROPERTIES
    AdvertConverges
