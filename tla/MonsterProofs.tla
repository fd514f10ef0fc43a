---------------------------- MODULE MonsterProofs ----------------------------
(***************************************************************************)
(* Proofs about Monsters, for any number of players, with states that hold *)
(* the monster or without.                                                 *)
(*                                                                         *)
(*   AfterHated   TargetHated: Good is what every operator from the        *)
(*                monster to its outcomes keeps; the lemmas say so one     *)
(*                operator at a time, and the step goes by their names     *)
(***************************************************************************)
EXTENDS Monsters, TLAPS

(* A monster after somebody it actively hates, or after nobody. *)
Good(r) == r \in MonsterObject /\ (r.aim # Nobody => r.hate[r.aim] = "active")

LEMMA HoldsBoolean == Holds \subseteq BOOLEAN
BY DEF Holds

LEMMA NearBoolean == NearAfterMove \subseteq BOOLEAN
BY DEF NearAfterMove

(* Going home the monster is after nobody. *)
LEMMA HomeGood ==
    ASSUME NEW r \in MonsterObject
    PROVE  Good(comeBackHome(r))
BY NobodyAssumption DEF Good, comeBackHome, MonsterObject, Handle

(* Whatever the monster was after, the next enemy is one it hates; only in  *)
(* fear it may stay as it is.                                               *)
LEMMA NextGood ==
    ASSUME NEW r \in MonsterObject, NEW f \in BOOLEAN, f => Good(r),
           NEW s \in findNextEnemy(r, f)
    PROVE  Good(s)
<1>1. CASE \E p \in Player : r.hate[p] = "active" /\ s = [r EXCEPT !.aim = p]
  BY <1>1 DEF Good, MonsterObject, Handle
<1>2. CASE s = IF f THEN r ELSE comeBackHome(r)
  BY <1>2, HomeGood
<1> QED
  BY <1>1, <1>2 DEF findNextEnemy

LEMMA RemoveType ==
    ASSUME NEW r \in MonsterObject, NEW p
    PROVE  /\ removeFromHateList(r, p) \in MonsterObject
           /\ removeFromHateList(r, p).aim = r.aim
           /\ \A q \in Player : q # p => removeFromHateList(r, p).hate[q] = r.hate[q]
BY DEF removeFromHateList, MonsterObject, Tag

LEMMA AddGood ==
    ASSUME NEW r, Good(r), NEW p \in Player, NEW s \in addHate(r, p)
    PROVE  Good(s)
<1> DEFINE h == [r.hate EXCEPT ![p] = "active"]
           t == [r EXCEPT !.hate[p] = "active"]
<1>1. h \in [Player -> Tag] /\ h[p] = "active"
  BY DEF Good, MonsterObject, Tag
<1>2. t \in MonsterObject /\ t.hate = h /\ t.aim = r.aim
  BY <1>1 DEF Good, MonsterObject
<1>3. Good(t)
  BY <1>1, <1>2 DEF Good, MonsterObject, Handle
<1>4. \/ s = [t EXCEPT !.aim = p, !.battle = TRUE]
      \/ s = t
      \/ s = [t EXCEPT !.aim = p]
  BY DEF addHate
<1> HIDE DEF t, h
<1> QED
  BY <1>1, <1>2, <1>3, <1>4 DEF Good, MonsterObject, Handle

LEMMA ProvokeGood ==
    ASSUME NEW r, Good(r), NEW p \in Player, NEW s \in AddHate(r, p)
    PROVE  Good(s)
BY AddGood DEF AddHate

(* If all the hate goes, the monster lets go of its target first. *)
LEMMA CalmGood ==
    ASSUME NEW r, Good(r), NEW p \in Player, NEW s \in RemoveHate(r, p)
    PROVE  Good(s)
<1> DEFINE w == removeFromHateList(r, p)
           l == [w EXCEPT !.aim = Nobody]
<1>1. r \in MonsterObject
  BY DEF Good
<1>2. w \in MonsterObject /\ w.aim = r.aim
      /\ \A q \in Player : q # p => w.hate[q] = r.hate[q]
  BY <1>1, RemoveType
<1>3. Good(l)
  BY <1>2 DEF Good, MonsterObject, Handle
<1>4. \/ s = r
      \/ \E f \in Holds : s \in findNextEnemy(r, f)
      \/ \E f \in Holds : s \in findNextEnemy(l, f)
      \/ r.aim # p /\ s = w
  BY DEF RemoveHate
<1>5. CASE r.aim # p /\ s = w
  BY <1>1, <1>2, <1>5 DEF Good, MonsterObject, Handle
<1> HIDE DEF w, l
<1>6. CASE \E f \in Holds : s \in findNextEnemy(l, f)
  BY <1>3, <1>6, NextGood, HoldsBoolean DEF Good
<1>7. CASE \E f \in Holds : s \in findNextEnemy(r, f)
  BY <1>1, <1>7, NextGood, HoldsBoolean
<1> QED
  BY <1>4, <1>5, <1>6, <1>7

LEMMA UpdateGood ==
    ASSUME NEW r, Good(r), NEW s \in OnUpdate(r)
    PROVE  Good(s)
<1> DEFINE t == [r EXCEPT !.seek = FALSE]
<1>1. Good(t)
  BY DEF Good, MonsterObject, Handle
<1>2. s = r \/ \E f \in Holds : s \in findNextEnemy(t, f)
  BY DEF OnUpdate
<1> HIDE DEF t
<1> QED
  BY <1>1, <1>2, NextGood, HoldsBoolean DEF Good

(* In pursuit the tag may become inactive: the monster then turns away. *)
LEMMA PursueGood ==
    ASSUME NEW r, Good(r), r.aim \in Player, NEW s \in Pursue(r)
    PROVE  Good(s)
<1> DEFINE sk == [r EXCEPT !.seek = @ \/ r.hate[r.aim] # "none"]
           t == [sk EXCEPT !.battle = TRUE]
           u == [sk EXCEPT !.hate[r.aim] = IF @ = "none" THEN @ ELSE "inactive"]
<1>0. r \in MonsterObject
  BY DEF Good
<1>1. Good(sk)
  BY DEF Good, MonsterObject, Handle
<1> HIDE DEF sk
<1>2. Good(t) /\ \A b \in BOOLEAN : Good([t EXCEPT !.moving = b])
  BY <1>1 DEF Good, MonsterObject, Handle
<1>3. u \in MonsterObject
  BY <1>1 DEF Good, MonsterObject, Tag
<1>4. \/ s \in {sk, comeBackHome(r), comeBackHome(t)}
      \/ s \in findNextEnemy(u, FALSE)
      \/ \E b \in BOOLEAN : s = [t EXCEPT !.moving = b]
  BY DEF Pursue, sk
<1> HIDE DEF t, u
<1>5. Good(comeBackHome(r)) /\ Good(comeBackHome(t))
  BY <1>0, <1>2, HomeGood DEF Good
<1>6. ASSUME s \in findNextEnemy(u, FALSE) PROVE Good(s)
  BY <1>3, <1>6, NextGood
<1> QED
  BY <1>1, <1>2, <1>4, <1>5, <1>6

LEMMA AttackGood ==
    ASSUME NEW r, Good(r), NEW s \in AI_processAttack(r)
    PROVE  Good(s)
<1>1. CASE Alive(r.aim)
  <2>1. r.aim \in Player
    BY <1>1 DEF Alive, Good, MonsterObject, Handle
  <2> QED
    BY <1>1, <2>1, PursueGood DEF AI_processAttack
<1>2. CASE ~Alive(r.aim)
  <2>1. removeFromHateList(r, r.aim) \in MonsterObject
    BY RemoveType DEF Good
  <2>2. s \in findNextEnemy(removeFromHateList(r, r.aim), FALSE)
    BY <1>2 DEF AI_processAttack
  <2> QED
    BY <2>1, <2>2, NextGood
<1> QED
  BY <1>1, <1>2

LEMMA RoamGood ==
    ASSUME NEW r, Good(r), NEW s \in processFirstAttack(r), NEW t \in processMove(s)
    PROVE  Good(t)
<1>1. Good(s)
  BY AddGood DEF processFirstAttack
<1>2. t = s \/ \E b \in BOOLEAN : t = [s EXCEPT !.moving = TRUE, !.near = b]
  BY NearBoolean DEF processMove
<1> QED
  BY <1>1, <1>2 DEF Good, MonsterObject, Handle

LEMMA MoveGood ==
    ASSUME NEW r, Good(r), NEW s \in processPendingMove(r), NEW t \in processWalk(s)
    PROVE  Good(t)
<1>1. \/ s = r
      \/ \E b \in BOOLEAN : s = [r EXCEPT !.pend = FALSE, !.moving = TRUE, !.near = b]
      \/ s = [r EXCEPT !.pend = FALSE, !.dropped = TRUE]
  BY NearBoolean DEF processPendingMove
<1>2. Good(s)
  BY <1>1 DEF Good, MonsterObject, Handle
<1>3. \/ t = s
      \/ t = [s EXCEPT !.moving = FALSE, !.going = @ /\ s.battle]
      \/ \E b \in BOOLEAN : t = [s EXCEPT !.near = b]
  BY <1>2, NearBoolean DEF processWalk, Good, MonsterObject
<1> QED
  BY <1>2, <1>3 DEF Good, MonsterObject, Handle

-----------------------------------------------------------------------------
LEMMA InitHated == Init => TargetHated
BY NobodyAssumption DEF Init, TargetHated, TypeOK, MonsterObject,
                        Handle, Tag, PlayerState

LEMMA StepHated == TargetHated /\ [Next]_vars => TargetHated'
<1> SUFFICES ASSUME TargetHated, [Next]_vars
             PROVE  Good(mob') /\ (player \in [Player -> PlayerState])'
                        /\ (turn \in {"idle", "fight", "roam", "move"})'
  BY DEF TargetHated, TypeOK, Good
<1> DEFINE Rest == /\ (player \in [Player -> PlayerState])'
                   /\ (turn \in {"idle", "fight", "roam", "move"})'
<1>0. Good(mob) /\ player \in [Player -> PlayerState]
      /\ turn \in {"idle", "fight", "roam", "move"}
  BY DEF TargetHated, TypeOK, Good
<1>1. CASE Update
  BY <1>0, <1>1, UpdateGood DEF Update
<1>2. CASE Fight
  BY <1>0, <1>2, AttackGood DEF Fight
<1>3. CASE Slay
  <2>1. Rest
    BY <1>0, <1>3 DEF Slay, PlayerState
  <2>2. Good(mob')
    BY <1>0, <1>3 DEF Slay, Good, MonsterObject, Handle
  <2> QED
    BY <2>1, <2>2
<1>4. CASE Roam
  BY <1>0, <1>4, RoamGood DEF Roam
<1>5. CASE Stand \/ Fallen
  BY <1>0, <1>5 DEF Stand, Fallen
<1>6. CASE Move
  BY <1>0, <1>6, MoveGood DEF Move
<1>7. ASSUME NEW p \in Player, Enter(p) \/ Walk(p)
      PROVE  Good(mob') /\ Rest
  <2>1. \E b \in BOOLEAN : mob' = [mob EXCEPT !.near = b]
    BY <1>0, <1>7 DEF Enter, Walk, Good, MonsterObject
  <2>2. Good(mob')
    BY <1>0, <2>1 DEF Good, MonsterObject, Handle
  <2>3. Rest
    BY <1>0, <1>7 DEF Enter, Walk, PlayerState
  <2> QED
    BY <2>2, <2>3
<1>8. ASSUME NEW p \in Player, Leave(p) \/ Resurrect(p)
      PROVE  Good(mob') /\ Rest
  BY <1>0, <1>8 DEF Leave, Resurrect, PlayerState
<1>9. ASSUME NEW p \in Player, Provoke(p)
      PROVE  Good(mob') /\ Rest
  <2>1. PICK r \in AddHate(mob, p) :
            mob' \in {r} \cup UNION {findNextEnemy(r, f) : f \in Holds}
    BY <1>9 DEF Provoke
  <2>2. Good(r)
    BY <1>0, ProvokeGood
  <2>3. Good(mob')
    BY <2>1, <2>2, NextGood, HoldsBoolean DEF Good
  <2> QED
    BY <1>0, <1>9, <2>3 DEF Provoke
<1>10. ASSUME NEW p \in Player, Calm(p)
       PROVE  Good(mob') /\ Rest
  BY <1>0, <1>10, CalmGood DEF Calm
<1>11. ASSUME NEW p \in Player, Kill(p)
       PROVE  Good(mob') /\ Rest
  BY <1>0, <1>11, NobodyAssumption DEF Kill, Good, MonsterObject, Handle, Tag
<1>12. CASE UNCHANGED vars
  BY <1>0, <1>12 DEF vars
<1> QED
  BY <1>1, <1>2, <1>3, <1>4, <1>5, <1>6, <1>7, <1>8, <1>9, <1>10, <1>11, <1>12
     DEF Next, WorldThread, Deed

(* Whatever hate is added, taken away and made inactive, and whoever dies,  *)
(* leaves or comes back: a monster is after somebody it actively hates, or  *)
(* after nobody (findNextEnemy, AddHate, RemoveHate, AI_processAttack).     *)
THEOREM AfterHated == Spec => []TargetHated
BY InitHated, StepHated, PTL DEF Spec
=============================================================================
