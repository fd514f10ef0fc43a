---------------------------- MODULE GroupManager ----------------------------
(***************************************************************************)
(* Parties of the game server: Groups/GroupManager.cpp, the chat commands  *)
(* that call it (Account/AllowedCommandInfo.cpp), the login and logout of  *)
(* a Player, and what of them reaches the database.                        *)
(*                                                                         *)
(* A party lives in memory (m_hshPartyID) and as a row of `Party`; who is  *)
(* in it is a list of tags in memory, a field of each Player object, and a *)
(* column of each `Character` row.  The three are written at different     *)
(* times: the list under GroupManager's lock, the field before or after    *)
(* it, the column when the worker of the database gets to a save.  The     *)
(* commands of a player run on the thread of its session; those of two     *)
(* players may overlap wherever the lock is not held.                      *)
(***************************************************************************)
EXTENDS Integers, Sequences, SequencesExt, FiniteSetsExt, FiniteSets

CONSTANTS
    Character,      \* the rows of `Character`
    Nobody,         \* the empty leader name of a party whose leader was not loaded
    MaxMembers,     \* the 8 of JoinParty
    MaxParty,       \* bound: party ids handed out
    MaxQueue,       \* bound: operations waiting for the database worker
    Patient,        \* a character returns only after its saves reached the database
    MayCrash        \* the server may stop in the middle of anything

ASSUME CharacterAssumption == IsFiniteSet(Character)
ASSUME NobodyAssumption == Nobody \notin Character
ASSUME BoundAssumption ==
    MaxMembers \in Nat \ {0} /\ MaxParty \in Nat /\ MaxQueue \in Nat \ {0}
ASSUME RegimeAssumption == Patient \in BOOLEAN /\ MayCrash \in BOOLEAN

VARIABLES
    parties,        \* m_hshPartyID: id |-> [leader, members]
    maxPartyID,     \* m_nMaxPartyID
    at,             \* where the thread of a character's session is
    field,          \* PLAYER_FIELD_PARTY_ID of the Player object
    dying,          \* nPartyID of a DestroyParty under way
    partyRow,       \* table `Party`: sid |-> leader_id
    charRow,        \* column party_id of table `Character`
    queue,          \* the operations waiting for the database worker
    crashed         \* history: the server once stopped in the middle of something

vars == <<parties, maxPartyID, at, field, dying, partyRow, charRow, queue, crashed>>
memory == <<parties, maxPartyID, at, field, dying>>
database == <<partyRow, charRow, queue>>

PartyID == 1 .. MaxParty
Tag == [who : Character, online : BOOLEAN]
Party == [leader : Character \cup {Nobody}, members : Seq(Tag)]

(* "reading": ReadCharacter is done and onLogin is not; "leaving": out of   *)
(* the list, the field still set; "destroying": the members' fields reset,  *)
(* the party still in the map; "saved": LogoutNow is done and               *)
(* CleanupsBeforeDelete is not.                                             *)
Place == {"off", "reading", "in", "leaving", "destroying", "saved"}

Operation ==
    [op : {"save"}, who : Character, party : 0 .. MaxParty]
        \cup [op : {"add"}, who : Character, party : PartyID]
        \cup [op : {"del"}, party : PartyID]

(* What the type of m_hshPartyID, m_nMaxPartyID and the tables promises; no *)
(* party has an id that m_nMaxPartyID has yet to reach, or CreateParty      *)
(* would write over it.                                                     *)
TypeOK ==
    /\ DOMAIN parties \subseteq 1 .. maxPartyID
    /\ \A p \in DOMAIN parties : parties[p] \in Party
    /\ maxPartyID \in 0 .. MaxParty
    /\ at \in [Character -> Place]
    /\ field \in [Character -> 0 .. MaxParty]
    /\ dying \in [Character -> 0 .. MaxParty]
    /\ DOMAIN partyRow \subseteq PartyID
    /\ \A p \in DOMAIN partyRow : partyRow[p] \in Character
    /\ charRow \in [Character -> 0 .. MaxParty]
    /\ queue \in Seq(Operation)
    /\ crashed \in BOOLEAN

-----------------------------------------------------------------------------
(* The list of a party *)

Listed(p) == {parties[p].members[i].who : i \in DOMAIN parties[p].members}

SetOnline(members, c, b) ==
    [i \in DOMAIN members |->
        IF members[i].who = c THEN [members[i] EXCEPT !.online = b] ELSE members[i]]

(* The first tag with the name goes, if there is one. *)
Without(members, c) ==
    LET i == SelectInSeq(members, LAMBDA t : t.who = c)
    IN  IF i = 0 THEN members ELSE RemoveAt(members, i)

Enqueue(o) == Len(queue) < MaxQueue /\ queue' = Append(queue, o)

SaveOf(c) == [op |-> "save", who |-> c, party |-> field[c]]

-----------------------------------------------------------------------------
(* Commands of a player in the game *)

AddGroupToDatabase_Never(c, p) == UNCHANGED queue
AddGroupToDatabase(c, p) == Enqueue([op |-> "add", who |-> c, party |-> p])

(* The party is published, its leader joins it, its row is queued, and the *)
(* field is set; nobody else knows the password in between.                *)
CreateParty(c) ==
    LET p == maxPartyID + 1
    IN  /\ at[c] = "in" /\ field[c] = 0
        /\ p \in PartyID
        /\ parties' = [q \in DOMAIN parties \cup {p} |->
                          IF q = p
                          THEN [leader |-> c, members |-> <<[who |-> c, online |-> TRUE]>>]
                          ELSE parties[q]]
        /\ maxPartyID' = p
        /\ field' = [field EXCEPT ![c] = p]
        /\ AddGroupToDatabase(c, p)
        /\ UNCHANGED <<at, dying, partyRow, charRow>>

(* /pjoin of a player who knows the password. *)
CanJoin_Twice(c, p) == Len(parties[p].members) < MaxMembers
CanJoin(c, p) == field[c] = 0 /\ Len(parties[p].members) < MaxMembers

JoinParty(c) ==
    /\ at[c] = "in"
    /\ \E p \in DOMAIN parties :
           /\ CanJoin(c, p)
           /\ parties' = [parties EXCEPT ![p].members = Append(@, [who |-> c, online |-> TRUE])]
           /\ field' = [field EXCEPT ![c] = p]
    /\ UNCHANGED <<maxPartyID, at, dying, database>>

CanLeave_Leader(c) == field[c] \in DOMAIN parties
CanLeave(c) == field[c] \in DOMAIN parties /\ parties[field[c]].leader # c

LeaveParty(c) ==
    /\ at[c] = "in" /\ CanLeave(c)
    /\ parties' = [parties EXCEPT ![field[c]].members = Without(@, c)]
    /\ at' = [at EXCEPT ![c] = "leaving"]
    /\ UNCHANGED <<maxPartyID, field, dying, database>>

(* The members are informed through a pointer into the map that the lock no *)
(* longer protects.  If the party was destroyed meanwhile the server reads  *)
(* freed memory: it goes on, or it stops, which Restart covers.             *)
FinishLeave(c) ==
    /\ at[c] = "leaving"
    /\ field' = [field EXCEPT ![c] = 0]
    /\ at' = [at EXCEPT ![c] = "in"]
    /\ UNCHANGED <<parties, maxPartyID, dying, database>>

(* The field of every Player a tag points to is reset under the shared     *)
(* lock, then the row's deletion is queued.                                *)
DestroyParty(c) ==
    LET p == field[c]
    IN  /\ at[c] = "in" /\ p \in DOMAIN parties /\ parties[p].leader = c
        /\ field' = [d \in Character |->
                        IF [who |-> d, online |-> TRUE] \in ToSet(parties[p].members)
                        THEN 0 ELSE field[d]]
        /\ dying' = [dying EXCEPT ![c] = p]
        /\ at' = [at EXCEPT ![c] = "destroying"]
        /\ Enqueue([op |-> "del", party |-> p])
        /\ UNCHANGED <<parties, maxPartyID, partyRow, charRow>>

FinishDestroy(c) ==
    /\ at[c] = "destroying"
    /\ parties' = [p \in DOMAIN parties \ {dying[c]} |-> parties[p]]
    /\ dying' = [dying EXCEPT ![c] = 0]
    /\ at' = [at EXCEPT ![c] = "in"]
    /\ UNCHANGED <<maxPartyID, field, database>>

-----------------------------------------------------------------------------
(* Entering and leaving the game *)

SavesApplied(c) == \A i \in DOMAIN queue : queue[i].op = "save" => queue[i].who # c

(* ReadCharacter reads the row on a connection of its own: a save that is  *)
(* still queued is not in it.                                              *)
ReadCharacter(c) ==
    /\ at[c] = "off"
    /\ Patient => SavesApplied(c)
    /\ field' = [field EXCEPT ![c] = charRow[c]]
    /\ at' = [at EXCEPT ![c] = "reading"]
    /\ UNCHANGED <<parties, maxPartyID, dying, database>>

WithOnline(c, b) ==
    IF field[c] \in DOMAIN parties
    THEN [parties EXCEPT ![field[c]].members = SetOnline(@, c, b)]
    ELSE parties

onLogin(c) ==
    /\ at[c] = "reading"
    /\ parties' = WithOnline(c, TRUE)
    /\ at' = [at EXCEPT ![c] = "in"]
    /\ UNCHANGED <<maxPartyID, field, dying, database>>

(* Player::Save, which many handlers call. *)
Save(c) ==
    /\ at[c] = "in"
    /\ Enqueue(SaveOf(c))
    /\ UNCHANGED <<memory, partyRow, charRow>>

LogoutNow(c) ==
    /\ at[c] = "in"
    /\ Enqueue(SaveOf(c))
    /\ at' = [at EXCEPT ![c] = "saved"]
    /\ UNCHANGED <<parties, maxPartyID, field, dying, partyRow, charRow>>

CleanupsBeforeDelete_Silent(c) ==
    /\ at[c] = "saved"
    /\ field' = [field EXCEPT ![c] = 0]
    /\ at' = [at EXCEPT ![c] = "off"]
    /\ UNCHANGED <<parties, maxPartyID, dying, database>>

CleanupsBeforeDelete(c) ==
    /\ at[c] = "saved"
    /\ parties' = WithOnline(c, FALSE)
    /\ field' = [field EXCEPT ![c] = 0]
    /\ at' = [at EXCEPT ![c] = "off"]
    /\ UNCHANGED <<maxPartyID, dying, database>>

-----------------------------------------------------------------------------
(* The database *)

(* `Party` has a primary key on sid and a unique key on leader_id: an      *)
(* insert that breaks either fails, which nobody looks at.                 *)
InsertFails(o) == o.party \in DOMAIN partyRow \/ o.who \in Range(partyRow)

WorkerThread ==
    /\ queue # <<>>
    /\ LET o == Head(queue)
       IN  /\ charRow' = IF o.op = "save" THEN [charRow EXCEPT ![o.who] = o.party] ELSE charRow
           /\ partyRow' = CASE o.op = "add" /\ ~InsertFails(o) ->
                                   [p \in DOMAIN partyRow \cup {o.party} |->
                                       IF p = o.party THEN o.who ELSE partyRow[p]]
                            [] o.op = "del" -> Restrict(partyRow, DOMAIN partyRow \ {o.party})
                            [] OTHER -> partyRow
    /\ queue' = Tail(queue)
    /\ UNCHANGED memory

(* InitGroupSystem: the members are the characters whose row has the id,   *)
(* all offline; the leader's name is known if the leader is one of them.   *)
LoadPartyInfo(p) ==
    LET loaded == {c \in Character : charRow[c] = p}
    IN  [leader |-> IF partyRow[p] \in loaded THEN partyRow[p] ELSE Nobody,
         members |-> SetToSeq({[who |-> c, online |-> FALSE] : c \in loaded})]

MaxSid == Max(DOMAIN partyRow \cup {0})

(* The server stops and is started again: in good order after everyone has *)
(* left and the queue is written, or in the middle of anything.            *)
InGoodOrder == queue = <<>> /\ \A c \in Character : at[c] = "off"

Restart ==
    /\ MayCrash \/ InGoodOrder
    /\ crashed' = (crashed \/ ~InGoodOrder)
    /\ parties' = [p \in DOMAIN partyRow |-> LoadPartyInfo(p)]
    /\ maxPartyID' = MaxSid
    /\ at' = [c \in Character |-> "off"]
    /\ field' = [c \in Character |-> 0]
    /\ dying' = [c \in Character |-> 0]
    /\ queue' = <<>>
    /\ UNCHANGED <<partyRow, charRow>>

-----------------------------------------------------------------------------
Init ==
    /\ parties = <<>> /\ maxPartyID = 0
    /\ at = [c \in Character |-> "off"]
    /\ field = [c \in Character |-> 0]
    /\ dying = [c \in Character |-> 0]
    /\ partyRow = <<>> /\ charRow = [c \in Character |-> 0]
    /\ queue = <<>> /\ crashed = FALSE

Command(c) ==
    \/ CreateParty(c) \/ JoinParty(c)
    \/ LeaveParty(c) \/ FinishLeave(c)
    \/ DestroyParty(c) \/ FinishDestroy(c)
    \/ ReadCharacter(c) \/ onLogin(c)
    \/ Save(c) \/ LogoutNow(c) \/ CleanupsBeforeDelete(c)

Next ==
    \/ \E c \in Character : Command(c) /\ UNCHANGED crashed
    \/ WorkerThread /\ UNCHANGED crashed
    \/ Restart

Spec == Init /\ [][Next]_vars

-----------------------------------------------------------------------------
AtRest == \A c \in Character : at[c] \in {"off", "in"}

(* When no command is under way nobody is in two parties, or twice in one: *)
(* the list is all a share of the experience or a chat message goes by.    *)
OneParty ==
    AtRest =>
        \A p, q \in DOMAIN parties :
            \A i \in DOMAIN parties[p].members, j \in DOMAIN parties[q].members :
                parties[p].members[i].who = parties[q].members[j].who => p = q /\ i = j

(* When no command is under way a tag is online, and its pointer followed, *)
(* exactly while the player is in the game as a member of that party.      *)
TagsFollowPlayers ==
    AtRest =>
        \A p \in DOMAIN parties : \A t \in ToSet(parties[p].members) :
            t.online <=> at[t.who] = "in" /\ field[t.who] = p

(* A party whose leader is known has the leader in its list, so there is   *)
(* always somebody in it who can destroy it; and until a first crash every *)
(* party has a leader, whatever is still queued for the database.          *)
LeaderIsMember ==
    /\ TypeOK
    /\ \A p \in DOMAIN parties :
           IF parties[p].leader = Nobody
           THEN crashed
           ELSE parties[p].leader \in Listed(p)

(* Until a first crash a restart loses no party and nobody's membership.   *)
RestartKeepsMembers ==
    [][Restart /\ ~crashed' => \A p \in DOMAIN parties :
                      p \in DOMAIN parties' /\ Listed(p) \subseteq Listed(p)']_vars

(* A player in the game who is refused a party because it has one is in    *)
(* the list of that party ("ERROR_YOU_CAN_JOIN_ONLY_ONE_PARTY").           *)
RefusedOnlyMembers ==
    AtRest =>
        \A c \in Character :
            at[c] = "in" /\ field[c] # 0 =>
                field[c] \in DOMAIN parties /\ c \in Listed(field[c])
=============================================================================
