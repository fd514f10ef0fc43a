SPECIFICATION MCSpec
CONSTANTS
    p1 = p1
    p2 = p2
    p3 = p3
    p4 = p4
    k1 = k1
    Player <- MCPlayer
    Kind <- MCKind
    NoOne = NoOne
    Gone = Gone
    MaxCount = 1
    MaxGold = 1
    Restless <- MCFourth
    Careless <- MCFourth
    Straying <- MCThird
CONSTRAINT MCBound
INVARIANTS SeenIsOffered
PROPERTIES NoSwitch AllOrNothing
