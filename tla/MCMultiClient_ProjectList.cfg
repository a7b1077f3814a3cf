CONSTANTS
    b1 = b1
    b2 = b2
    b3 = b3
    p = p
    s = s
    q = q
    c = c
    r = r
    x = x
    y = y
    Order <- MCOrder3
    Default = b1
    ProjectName <- MCProjectName3
    Locals = {x, y}
    Scopes <- MCScopes3
    SegLen <- MCSegLen
SPECIFICATION SpecWithProjectList
INVARIANT
    Addressable
