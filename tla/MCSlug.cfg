CONSTANTS
    Chars <- MCChars
    LowerOf <- MCLowerOf
    Alnum <- MCAlnum
    MaxLen = 5
SPECIFICATION SlugSpec
INVARIANTS
    SlugifyMatchesReference
    SlugifyIdempotent
