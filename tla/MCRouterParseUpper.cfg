\* The same requests with a username that has an upper-case letter.
CONSTANTS
    Slugs <- MCSlugs
    Users <- MCUsersUpper
    Rests <- MCRests
    PortSuffixes <- MCPortSuffixes
    LowerOf <- MCLowerOf
SPECIFICATION RPSpec
INVARIANTS
    DomainRoutesBack
