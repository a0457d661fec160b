CONSTANTS
    a = a
    b = b
    api = api
    homeA = homeA
    workA = workA
    homeB = homeB
    homeApi = homeApi
    NoBackend = NoBackend
    Ports <- MCPorts
    Paths <- MCPaths
    Words <- MCWords
    SlugOf <- MCSlugOf
    Rests <- MCRests
    ApiWord = api
    StaleAfter = 1
SPECIFICATION Spec
INVARIANTS
    IndexConsistent
    HandedOutRoutesBack
    ApiShadowedOnlyByApiSlug
PROPERTIES
    UpsertKeepsOtherPorts
    ImplementsPortDirectory
