CONSTANTS
    a = a
    port = port
    homeA = homeA
    unknown4096 = unknown4096
    unknown4097 = unknown4097
    NoBackend = NoBackend
    Down = Down
    Ports <- MCPorts
    Words <- MCWords
    Paths <- MCPaths
    SlugOf <- MCSlugOf
    UnknownPath <- MCUnknownPath
    StaleAfter = 1
    PortStart <- MCPortStart
    PortEnd <- MCPortEnd
    Concurrency <- MCZeroConcurrency
SPECIFICATION ScanSpec
PROPERTIES
    PassCompletes
