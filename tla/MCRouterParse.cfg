\* Requests for every slug, lower-case username, path tail and port suffix.
CONSTANTS
    Slugs <- MCSlugs
    Users <- MCUsers
    Rests <- MCRests
    PortSuffixes <- MCPortSuffixes
    LowerOf <- MCLowerOf
SPECIFICATION RPSpec
INVARIANTS
    DomainRoutesBack
    PathRoutesBack
