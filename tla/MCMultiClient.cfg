CONSTANTS
    b1 = b1
    b2 = b2
    b3 = b3
    p = p
    s = s
    q = q
    c = c
    r = r
    x = x
    y = y
    Order <- MCOrder
    Default = b1
    ProjectName <- MCProjectName
    Locals = {x, y}
    Scopes <- MCScopes
    SegLen <- MCSegLen
SPECIFICATION Spec
INVARIANTS
    TypeOK
    Addressable
