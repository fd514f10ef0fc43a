SPECIFICATION AreaSpec
CONSTANTS
    p1 = p1
    p2 = p2
    Nobody = Nobody
    Player <- MCPlayer
    MaxMonster = 3
    Prespawn = 2
    MaxNum = 3
    Inc = 2
    MaxHealth = 2
INVARIANTS Populated TamerKnows
SYMMETRY Symmetry
CHECK_DEADLOCK FALSE
