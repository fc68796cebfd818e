SPECIFICATION FairSpec
CONSTANTS
    c1 = c1
    c2 = c2
    c3 = c3
    c4 = c4
    Conns <- Four
    None = None
    Refuses = TRUE
INVARIANTS
    TypeOK
    NeverDeaf
    OneConnection
PROPERTIES
    ComesBack
    Settles
