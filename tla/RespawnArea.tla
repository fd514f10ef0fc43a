----------------------------- MODULE RespawnArea -----------------------------
(***************************************************************************)
(* A spawning area, the monsters it brings into the world, their deaths,   *)
(* burials and taming (Entities/RespawnObject/RespawnObject.cpp, the other *)
(* half of Entities/Monster/Monster.cpp, World.cpp, Unit::damage).         *)
(*                                                                         *)
(* The world thread updates the area and the monsters that have a client   *)
(* near.  Blows are dealt by the world thread and by the network threads   *)
(* of the players (onAttackRequest), which do not wait for each other: a   *)
(* blow tests that the monster lives when it starts and takes the health   *)
(* when it lands.  Whom monsters hate and where they walk is in Monsters;  *)
(* here a monster may always deal a blow and always walk.                  *)
(***************************************************************************)
EXTENDS Integers, FiniteSets

CONSTANTS
    Player,         \* Player objects: one that left the game does not return
    Nobody,         \* the handle 0
    MaxMonster,     \* bound: monsters allocated
    Prespawn,       \* RespawnInfo::prespawn_count
    MaxNum,         \* MonsterRespawnInfo::max_num
    Inc,            \* MonsterRespawnInfo::inc
    MaxHealth       \* of a monster

ASSUME NobodyAssumption == Nobody \notin Player
ASSUME AreaAssumption ==
    MaxMonster \in Nat /\ MaxNum \in Nat /\ Prespawn \in 0 .. MaxNum /\ Inc \in Nat
ASSUME HealthAssumption == MaxHealth \in Nat \ {0}

VARIABLES
    area,           \* the RespawnObject: count, list, cap (m_nMaxRespawnNum), started
    mob,            \* the Monster objects
    player          \* the Player objects

areaVars == <<area, mob, player>>

Monster == 1 .. MaxMonster
Handle == Player \cup {Nobody}

(* near: m_bNearClient; handler: m_pDeleteHandler is set. *)
MonsterObject ==
    [life : {"none", "alive", "dead", "gone"}, hp : 0 .. MaxHealth, near : BOOLEAN,
     tamer : Handle, handler : BOOLEAN]

(* tame: m_hTamingTarget; blow: the monster that a blow under way found    *)
(* alive.  "dead" is still in the world, "gone" is not.                    *)
PlayerObject ==
    [at : {"out", "in", "dead", "gone"}, tame : 0 .. MaxMonster, blow : 0 .. MaxMonster]

AreaTypeOK ==
    /\ area \in [count : Int, list : SUBSET Monster, cap : Int, started : BOOLEAN]
    /\ mob \in [Monster -> MonsterObject]
    /\ player \in [Player -> PlayerObject]

Blank(life) == [life |-> life, hp |-> 0, near |-> FALSE, tamer |-> Nobody, handler |-> FALSE]

AreaInit ==
    /\ area = [count |-> 0, list |-> {}, cap |-> Prespawn, started |-> FALSE]
    /\ mob = [m \in Monster |-> Blank("none")]
    /\ player = [p \in Player |-> [at |-> "out", tame |-> 0, blow |-> 0]]

-----------------------------------------------------------------------------
InGame(p) == player[p].at \in {"in", "dead"}
Alive(p) == player[p].at = "in"
Present(m) == mob[m].life \in {"alive", "dead"}

(* A move that is broadcast finds out whether a client is near. *)
NearAfterMove == {b \in BOOLEAN : b => \E p \in Player : InGame(p)}

-----------------------------------------------------------------------------
(* The area *)

SpawnLimit_Uncapped == Inc
SpawnLimit ==
    IF ~area.started THEN area.cap
    ELSE IF area.cap - area.count < Inc THEN area.cap - area.count ELSE Inc

RespawnMonster(near) ==
    [life |-> "alive", hp |-> MaxHealth, near |-> near, tamer |-> Nobody, handler |-> TRUE]

(* The loop ends early where the ground is blocked; the handles of the new  *)
(* monsters follow those in use.                                            *)
RespawnUpdate ==
    /\ area.count < area.cap
    /\ \E new \in SUBSET {m \in Monster : mob[m].life = "none"}, near \in NearAfterMove :
           /\ Cardinality(new) <= SpawnLimit
           /\ \A m \in new, l \in Monster : l < m /\ mob[l].life = "none" => l \in new
           /\ mob' = [m \in Monster |-> IF m \in new THEN RespawnMonster(near) ELSE mob[m]]
           /\ area' = [area EXCEPT !.started = TRUE, !.count = @ + Cardinality(new),
                                   !.list = @ \cup new]
    /\ UNCHANGED player

onMonsterDelete(m) ==
    area' = [area EXCEPT !.count = @ - 1, !.list = @ \ {m},
                         !.cap = IF @ < MaxNum THEN @ + 1 ELSE @]

ForgetHandler(r) == [r EXCEPT !.handler = FALSE]

(* The area is told of a dead monster once; when it has lain long enough it *)
(* leaves the world and is deleted.                                         *)
ProcessDead(m) ==
    /\ mob[m].life = "dead" /\ mob[m].near
    /\ IF mob[m].handler THEN onMonsterDelete(m) ELSE UNCHANGED area
    /\ \E r \in {ForgetHandler(mob[m]), Blank("gone")} : mob' = [mob EXCEPT ![m] = r]
    /\ UNCHANGED player

-----------------------------------------------------------------------------
(* The world thread's update of a living monster *)

(* It recovers, its taming times out, and it walks. *)
Update(m) ==
    /\ mob[m].life = "alive" /\ mob[m].near
    /\ \E h \in mob[m].hp .. MaxHealth, t \in {mob[m].tamer, Nobody},
          near \in NearAfterMove \cup {TRUE} :
           mob' = [mob EXCEPT ![m].hp = h, ![m].tamer = t, ![m].near = near]
    /\ UNCHANGED <<area, player>>

(* A monster's blow kills a player. *)
Slay(m, p) ==
    /\ mob[m].life = "alive" /\ mob[m].near /\ Alive(p)
    /\ player' = [player EXCEPT ![p].at = "dead"]
    /\ UNCHANGED <<area, mob>>

-----------------------------------------------------------------------------
(* Players *)

(* What an object that enters or walks sees from now on has a client near. *)
Seen(S) == mob' = [m \in Monster |-> [mob[m] EXCEPT !.near = @ \/ m \in S]]

Enter(p) ==
    /\ player[p].at = "out"
    /\ player' = [player EXCEPT ![p].at = "in"]
    /\ \E S \in SUBSET {m \in Monster : Present(m)} : Seen(S)
    /\ UNCHANGED area

Walk(p) ==
    /\ Alive(p)
    /\ \E m \in Monster : Present(m) /\ Seen({m})
    /\ UNCHANGED <<area, player>>

Leave(p) ==
    /\ InGame(p) /\ player[p].blow = 0
    /\ player' = [player EXCEPT ![p] = [at |-> "gone", tame |-> 0, blow |-> 0]]
    /\ UNCHANGED <<area, mob>>

Resurrect(p) ==
    /\ player[p].at = "dead"
    /\ player' = [player EXCEPT ![p].at = "in"]
    /\ UNCHANGED <<area, mob>>

MayTame_Twice(p, m) == mob[m].hp = MaxHealth /\ mob[m].tamer = Nobody
MayTame(p, m) == player[p].tame = 0 /\ mob[m].hp = MaxHealth /\ mob[m].tamer = Nobody

(* The skill CREATURE_TAMING of a player with an empty card. *)
SetTamer(p, m) ==
    /\ Alive(p) /\ mob[m].life = "alive" /\ MayTame(p, m)
    /\ mob' = [mob EXCEPT ![m].tamer = p]
    /\ player' = [player EXCEPT ![p].tame = m]
    /\ UNCHANGED area

(* The first half of Unit::damage: the monster is not dead. *)
Strike(p, m) ==
    /\ Alive(p) /\ player[p].blow = 0 /\ mob[m].life = "alive"
    /\ player' = [player EXCEPT ![p].blow = m]
    /\ UNCHANGED <<area, mob>>

(* The second half, when the monster lives on. *)
Wound(p) ==
    LET m == player[p].blow
    IN  /\ m # 0
        /\ \E h \in 1 .. mob[m].hp - 1 : mob' = [mob EXCEPT ![m].hp = h]
        /\ player' = [player EXCEPT ![p].blow = 0]
        /\ UNCHANGED area

(* ProcTame ends the taming, whether it succeeds or not, of a tamer who is  *)
(* in the world and alive.                                                  *)
Untamed(m) == {p \in Player : mob[m].tamer = p /\ Alive(p)}

(* The second half, when it dies, and onDead: of a monster another blow     *)
(* killed meanwhile, once more.                                             *)
Kill(p) ==
    LET m == player[p].blow
    IN  /\ m # 0 /\ Present(m)
        /\ \E near \in NearAfterMove \cup {mob[m].near} :
               mob' = [mob EXCEPT ![m] =
                          [life |-> "dead", hp |-> 0, near |-> near, handler |-> mob[m].handler,
                           tamer |-> IF Untamed(m) = {} THEN mob[m].tamer ELSE Nobody]]
        /\ player' = [q \in Player |->
                         [player[q] EXCEPT !.tame = IF q \in Untamed(m) THEN 0 ELSE @,
                                           !.blow = IF q = p THEN 0 ELSE @]]
        /\ UNCHANGED area

(* The monster was buried and deleted under the blow: its memory is gone,   *)
(* what the blow does to it is not modelled.                                *)
Miss(p) ==
    /\ player[p].blow # 0 /\ mob[player[p].blow].life = "gone"
    /\ player' = [player EXCEPT ![p].blow = 0]
    /\ UNCHANGED <<area, mob>>

-----------------------------------------------------------------------------
WorldUpdate(m) == ProcessDead(m) \/ Update(m) \/ \E p \in Player : Slay(m, p)

Deed(p) ==
    \/ Enter(p) \/ Walk(p) \/ Leave(p) \/ Resurrect(p)
    \/ \E m \in Monster : SetTamer(p, m) \/ Strike(p, m)
    \/ Wound(p) \/ Kill(p) \/ Miss(p)

AreaNext ==
    \/ RespawnUpdate
    \/ \E m \in Monster : WorldUpdate(m)
    \/ \E p \in Player : Deed(p)

AreaSpec == AreaInit /\ [][AreaNext]_areaVars

-----------------------------------------------------------------------------
(* The area's count is that of the monsters it spawned and was not yet told *)
(* are dead, those are its list, and there are never more of them than the  *)
(* area may have (RespawnObject::Update, onMonsterDelete).                  *)
Populated ==
    /\ AreaTypeOK
    /\ area.count = Cardinality(area.list)
    /\ area.list = {m \in Monster : mob[m].handler}
    /\ area.count <= area.cap /\ area.cap <= MaxNum

(* Two objects remember a taming.  As long as the tamer is in the game the  *)
(* monster's half is never alone: the player cannot begin another taming    *)
(* under it (PrepareTaming, World::SetTamer, World::ProcTame).              *)
TamerKnows ==
    \A m \in Monster, p \in Player :
        mob[m].tamer = p /\ InGame(p) => player[p].tame = m

-----------------------------------------------------------------------------
(* Violated: who is marked as taming a monster is the monster's tamer.  The *)
(* timeout of Monster::Update clears one half only, and nothing clears the  *)
(* other: the player can tame nothing until he enters the game again.       *)
TargetTamed ==
    \A p \in Player :
        InGame(p) /\ player[p].tame # 0 => mob[player[p].tame].tamer = p

(* Violated: a monster dies once.  Two blows that both found it alive both  *)
(* call onDead, which gives experience, chaos, gold and items.              *)
DiesOnce == [][\A p \in Player : Kill(p) => mob[player[p].blow].life = "alive"]_areaVars
=============================================================================
