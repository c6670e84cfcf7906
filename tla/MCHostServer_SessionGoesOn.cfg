SPECIFICATION FairSpec
CONSTANTS
    Ids = {d1, d2}
    Handles = {h1, h2, h3}
    None = None
    MaxConn = 3
    MaxMalformed = 2
    MaxSids = 3
    MaxTexts = 2
PROPERTIES
    SessionGoesOn
