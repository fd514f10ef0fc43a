SPECIFICATION Spec
CONSTANTS
    c1 = c1
    c2 = c2
    c3 = c3
    Nobody = Nobody
    Character <- MCPair
    MaxMembers = 2
    MaxParty = 3
    MaxQueue = 2
    Patient = TRUE
    MayCrash = TRUE
INVARIANTS OneParty TagsFollowPlayers LeaderIsMember
 
