SPECIFICATION LinkFairSpec
CONSTANTS
    Sockets = {s1, s2}
    Origins = {"toggle", "auto", "refresh", "url"}
    Urls = {"good", "bad"}
    Android = TRUE
    MaxKeys = 2
    None = None
INVARIANTS
    OneConnection
    OffMeansOff
    StatusIsTrue
PROPERTIES
    DialsAgain
    AttemptEnds
