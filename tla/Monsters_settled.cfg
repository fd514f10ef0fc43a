SPECIFICATION FairSpec
CONSTANTS
    p1 = p1
    p2 = p2
    Nobody = Nobody
    Player <- MCPlayer
    Held = TRUE
INVARIANT TargetHated
PROPERTY Settles
CHECK_DEADLOCK FALSE
