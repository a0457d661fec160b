CONSTANTS
    a = a
    b = b
    homeA = homeA
    workA = workA
    folderA4097 = folderA4097
    NoBackend = NoBackend
    Ports <- MCPorts
    Paths <- MCPaths
    Words <- MCWords
    SlugOf <- MCSlugOf
    StaleAfter = 1
SPECIFICATION Spec
INVARIANTS
    IndexConsistent
