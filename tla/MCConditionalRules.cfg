SPECIFICATION CondSpec
CONSTANTS
    r1 = r1
    r2 = r2
    d1 = d1
    c1 = c1
    c2 = c2
    loop = loop
    nobody = nobody
    Rules = {r1, r2}
    Dests = {d1}
    Links = {1}
    Editors = {c1, c2}
    Loop = loop
    NoOne = nobody
    MaxRequests = 2
    MaxTroubles = 1
INVARIANTS
    StoreSound
PROPERTIES
    Converges
