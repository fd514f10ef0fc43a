------------------------------- MODULE Monsters -------------------------------
(***************************************************************************)
(* Whom a monster hates, whom it is after and how it gets home again       *)
(* (Entities/Monster/Monster.cpp, with the pending moves of Unit.cpp).     *)
(* Monsters do not touch each other, so this is one monster; how it came   *)
(* to be, is tamed and is buried is in RespawnArea.                        *)
(*                                                                         *)
(* The world thread updates a monster only while a client is near.  An     *)
(* update reads the status once and then has three parts: OnUpdate, what   *)
(* the status calls for, and moving.  Blows and skills of players, which   *)
(* other threads deliver, come in between.                                 *)
(*                                                                         *)
(* Who is visible, how far things are and how much time has passed are     *)
(* left open; TRACKING, FIND_ATTACK_POS and ATTACK are one status, battle. *)
(* How much a monster hates is left out: which of the units it hates it    *)
(* turns to is open.                                                       *)
(***************************************************************************)
EXTENDS Naturals

CONSTANTS
    Player,         \* Player objects: one that left the game does not return
    Nobody,         \* the handle 0
    Held            \* whether states (stun, root, fear) may hold the monster

ASSUME NobodyAssumption == Nobody \notin Player
ASSUME HeldAssumption == Held \in BOOLEAN

VARIABLES
    mob,            \* the Monster object
    player,         \* where the players are
    turn            \* where the world thread is in the monster's update

vars == <<mob, player, turn>>

Handle == Player \cup {Nobody}
Tag == {"none", "active", "inactive"}

(* seek: m_bNeedToFindEnemy; going: m_bComeBackHome; pend:                 *)
(* STATUS_MOVE_PENDED; near: m_bNearClient.  dropped is history: the last  *)
(* way home was given up for a state.                                      *)
MonsterObject ==
    [dead : BOOLEAN, battle : BOOLEAN, hate : [Player -> Tag], aim : Handle, seek : BOOLEAN,
     going : BOOLEAN, pend : BOOLEAN, moving : BOOLEAN, dropped : BOOLEAN, near : BOOLEAN]

(* "dead" is still in the world, "gone" is not. *)
PlayerState == {"out", "in", "dead", "gone"}

TypeOK ==
    /\ mob \in MonsterObject
    /\ player \in [Player -> PlayerState]
    /\ turn \in {"idle", "fight", "roam", "move"}

Init ==
    /\ mob = [dead |-> FALSE, battle |-> FALSE, hate |-> [p \in Player |-> "none"],
              aim |-> Nobody, seek |-> FALSE, going |-> FALSE, pend |-> FALSE,
              moving |-> FALSE, dropped |-> FALSE, near |-> FALSE]
    /\ player = [p \in Player |-> "out"]
    /\ turn = "idle"

-----------------------------------------------------------------------------
InGame(p) == player[p] \in {"in", "dead"}
Alive(p) == p # Nobody /\ player[p] = "in"

(* A move that is broadcast finds out whether a client is near. *)
NearAfterMove == {b \in BOOLEAN : b => \E p \in Player : InGame(p)}

Holds == IF Held THEN BOOLEAN ELSE {FALSE}

-----------------------------------------------------------------------------
(* Operators from the monster to what may become of it *)

comeBackHome(r) ==
    [r EXCEPT !.battle = FALSE, !.aim = Nobody, !.going = TRUE, !.pend = TRUE, !.dropped = FALSE]

(* Of the units it actively hates the monster picks one it can see.  In     *)
(* fear it does not go home.                                                *)
findNextEnemy(r, feared) ==
    {[r EXCEPT !.aim = p] : p \in {q \in Player : r.hate[q] = "active" /\ InGame(q)}}
        \cup {IF feared THEN r ELSE comeBackHome(r)}

removeFromHateList(r, p) ==
    [r EXCEPT !.hate = [q \in Player |-> IF q = p THEN "none" ELSE @[q]]]

addHate(r, p) ==
    LET s == [r EXCEPT !.hate[p] = "active"]
    IN  IF s.aim = Nobody THEN {[s EXCEPT !.aim = p, !.battle = TRUE]}
                          ELSE {s, [s EXCEPT !.aim = p]}

AddHate(r, p) == IF r.dead \/ ~InGame(p) THEN {r} ELSE addHate(r, p)

RemoveHate_KeepsAim(r, p) ==
    IF r.hate[p] = "none" THEN {r}
    ELSE (IF r.aim = p THEN UNION {findNextEnemy(r, f) : f \in Holds} ELSE {r})
            \cup {removeFromHateList(r, p)}

(* Some of the hate goes, or all of it. *)
RemoveHate(r, p) ==
    LET next(s) == UNION {findNextEnemy(s, f) : f \in Holds}
        without == removeFromHateList(r, p)
    IN  IF r.hate[p] = "none" THEN {r}
        ELSE (IF r.aim = p THEN next(r) ELSE {r})
                \cup (IF r.aim = p THEN next([without EXCEPT !.aim = Nobody]) ELSE {without})

-----------------------------------------------------------------------------
(* Monster::Update *)

OnUpdate(r) ==
    IF r.seek THEN UNION {findNextEnemy([r EXCEPT !.seek = FALSE], f) : f \in Holds} ELSE {r}

(* OnUpdate is due from time to time, and at once when a move is pending    *)
(* outside of battle.                                                       *)
Update ==
    /\ turn = "idle" /\ ~mob.dead /\ mob.near
    /\ \/ mob' \in OnUpdate(mob)
       \/ (mob.battle \/ ~mob.pend) /\ mob' = mob
    /\ turn' = IF mob.battle THEN "fight" ELSE "roam"
    /\ UNCHANGED player

(* AI_processAttack on a living enemy; the tag's time was set to 0 by the   *)
(* look-up, so a hating monster always looks for its next enemy.  In turn:  *)
(* it stays where it is, has lost sight, gives up, follows, has come too    *)
(* far, or is in reach.                                                     *)
Pursue(r) ==
    LET s == [r EXCEPT !.seek = @ \/ r.hate[r.aim] # "none"]
        t == [s EXCEPT !.battle = TRUE]
    IN  {s, comeBackHome(r), comeBackHome(t)}
            \cup findNextEnemy([s EXCEPT !.hate[r.aim] = IF @ = "none" THEN @ ELSE "inactive"], FALSE)
            \cup {[t EXCEPT !.moving = b] : b \in BOOLEAN}

AI_processAttack(r) ==
    IF Alive(r.aim) THEN Pursue(r)
    ELSE findNextEnemy(removeFromHateList(r, r.aim), FALSE)

Fight ==
    /\ turn = "fight" /\ ~mob.dead
    /\ mob' \in AI_processAttack(mob)
    /\ turn' = "move"
    /\ UNCHANGED player

(* The blow of a monster in reach kills. *)
Slay ==
    /\ turn = "fight" /\ ~mob.dead /\ Alive(mob.aim)
    /\ mob' = [mob EXCEPT !.seek = @ \/ mob.hate[mob.aim] # "none", !.battle = TRUE,
                          !.moving = FALSE]
    /\ player' = [player EXCEPT ![mob.aim] = "dead"]
    /\ turn' = "move"

(* An aggressive monster begins to hate who comes near. *)
processFirstAttack(r) ==
    {r} \cup (IF r.battle \/ r.going THEN {} ELSE UNION {addHate(r, p) : p \in {q \in Player : Alive(q)}})

(* It wanders, or goes on along its way points. *)
processMove(r) ==
    {r} \cup (IF r.going \/ r.moving THEN {}
              ELSE {[r EXCEPT !.moving = TRUE, !.near = b] : b \in NearAfterMove})

Roam ==
    /\ turn = "roam" /\ ~mob.dead
    /\ mob' \in UNION {processMove(r) : r \in processFirstAttack(mob)}
    /\ turn' = "move"
    /\ UNCHANGED player

Stand ==
    /\ turn \in {"fight", "roam"} /\ ~mob.dead /\ Held
    /\ turn' = "move"
    /\ UNCHANGED <<mob, player>>

(* A pending move begins when the monster may move again; if a state holds  *)
(* it at that moment the move is dropped.                                   *)
processPendingMove(r) ==
    {r} \cup (IF r.pend
              THEN {[r EXCEPT !.pend = FALSE, !.moving = TRUE, !.near = b] : b \in NearAfterMove}
                       \cup {[r EXCEPT !.pend = FALSE, !.dropped = TRUE] : h \in Holds \ {FALSE}}
              ELSE {})

processWalk_NeverHome(r) ==
    {r} \cup (IF r.moving
              THEN {[r EXCEPT !.moving = FALSE]}
                       \cup {[r EXCEPT !.near = b] : b \in NearAfterMove \cup {r.near}}
              ELSE {})

(* On the way a client may come near; at the end the monster has come home. *)
processWalk(r) ==
    {r} \cup (IF r.moving
              THEN {[r EXCEPT !.moving = FALSE, !.going = @ /\ r.battle]}
                       \cup {[r EXCEPT !.near = b] : b \in NearAfterMove \cup {r.near}}
              ELSE {})

Move ==
    /\ turn = "move" /\ ~mob.dead
    /\ mob' \in UNION {processWalk(r) : r \in processPendingMove(mob)}
    /\ turn' = "idle"
    /\ UNCHANGED player

(* A monster that was killed in the meantime does nothing more. *)
Fallen ==
    /\ turn # "idle" /\ mob.dead
    /\ turn' = "idle"
    /\ UNCHANGED <<mob, player>>

-----------------------------------------------------------------------------
(* Players *)

Enter(p) ==
    /\ player[p] = "out"
    /\ player' = [player EXCEPT ![p] = "in"]
    /\ \E b \in {mob.near, TRUE} : mob' = [mob EXCEPT !.near = b]
    /\ UNCHANGED turn

(* A player who walks may come near. *)
Walk(p) ==
    /\ Alive(p)
    /\ mob' = [mob EXCEPT !.near = TRUE]
    /\ UNCHANGED <<player, turn>>

Leave(p) ==
    /\ InGame(p)
    /\ player' = [player EXCEPT ![p] = "gone"]
    /\ UNCHANGED <<mob, turn>>

Resurrect(p) ==
    /\ player[p] = "dead"
    /\ player' = [player EXCEPT ![p] = "in"]
    /\ UNCHANGED <<mob, turn>>

(* A blow, or a skill that adds hate, or takes it away again when it is     *)
(* negative.                                                                *)
Provoke(p) ==
    /\ Alive(p) /\ ~mob.dead
    /\ \E r \in AddHate(mob, p) :
           mob' \in {r} \cup UNION {findNextEnemy(r, f) : f \in Holds}
    /\ UNCHANGED <<player, turn>>

Calm(p) ==
    /\ Alive(p) /\ ~mob.dead
    /\ mob' \in RemoveHate(mob, p)
    /\ UNCHANGED <<player, turn>>

(* Monster::onDead clears the hate and the status. *)
Kill(p) ==
    /\ Alive(p) /\ ~mob.dead
    /\ mob' = [mob EXCEPT !.dead = TRUE, !.battle = FALSE, !.aim = Nobody, !.moving = FALSE,
                          !.hate = [q \in Player |-> "none"]]
    /\ UNCHANGED <<player, turn>>

-----------------------------------------------------------------------------
WorldThread == Update \/ Fight \/ Slay \/ Roam \/ Stand \/ Move \/ Fallen

Deed(p) == Enter(p) \/ Walk(p) \/ Leave(p) \/ Resurrect(p) \/ Provoke(p) \/ Calm(p) \/ Kill(p)

Next == WorldThread \/ \E p \in Player : Deed(p)

Spec == Init /\ [][Next]_vars

(* The world thread visits every monster again and again; states that hold  *)
(* a monster run out; time passes, so that a pending move is due, and a     *)
(* walk has an end.                                                         *)
Fairness ==
    /\ SF_vars(Update)
    /\ WF_vars(Fight \/ Slay \/ Roam \/ Stand)
    /\ SF_vars(Fight \/ Slay)
    /\ WF_vars(Move) /\ WF_vars(Fallen)
    /\ SF_vars(Move /\ mob.pend /\ ~mob'.pend)
    /\ SF_vars(Move /\ mob.moving /\ ~mob'.moving)

FairSpec == Spec /\ Fairness

-----------------------------------------------------------------------------
(* A monster is after somebody only as long as it actively hates him,       *)
(* whatever tags were added, removed and made inactive (findNextEnemy,      *)
(* AddHate, RemoveHate).                                                    *)
TargetHated == TypeOK /\ (mob.aim # Nobody => mob.hate[mob.aim] = "active")

Enemies == {p \in Player : Alive(p) /\ mob.hate[p] = "active"}

(* A monster that has nobody left to fight goes home and gets there, unless *)
(* a state made it drop the move or the clients left it (comeBackHome).     *)
Restless ==
    /\ ~mob.dead /\ mob.near /\ ~mob.dropped
    /\ mob.battle \/ mob.going
    /\ Enemies = {}

Settles == ~<>[]Restless

-----------------------------------------------------------------------------
(* Violated: the same without the exception for dropped moves.  A pending   *)
(* move that finds the monster held is forgotten (Unit.cpp:180), and        *)
(* m_bComeBackHome stays: the monster never attacks first nor moves again.  *)
SettlesHeld == ~<>[](/\ ~mob.dead /\ mob.near
                     /\ mob.battle \/ mob.going
                     /\ Enemies = {})

(* Violated: a monster that is after somebody fights.  When findNextEnemy   *)
(* finds a target for a monster whose status is normal the status stays so. *)
TargetFought == mob.aim # Nobody => mob.battle
=============================================================================
