---------------------------- MODULE WorldRegions ----------------------------
(***************************************************************************)
(* Who is told about whom in the world of Chihiro (src/World/World.cpp,    *)
(* src/Map/Region.cpp, src/Map/RegionContainer.cpp and .h, src/Functors).  *)
(*                                                                         *)
(* The map is a grid of regions.  Each region lists the objects standing   *)
(* in it, one vector per kind, and each object remembers its region        *)
(* (pRegion) and its place in the vector (region_index).  An object is     *)
(* introduced to the players around it when it enters the world and when   *)
(* it reaches a new region; the players around are told when it leaves the *)
(* world.  There is no message for walking away: a client forgets what it  *)
(* no longer sees (external).                                              *)
(*                                                                         *)
(* A call runs on one of the network threads or on the thread of           *)
(* World::Update, and a region is locked only while one vector is read or  *)
(* changed, so a call is a sequence of steps here.  Isolation says what    *)
(* the calls of different threads may share: "none" is the code, which     *)
(* takes no lock across the steps of a call; "object" keeps two threads    *)
(* away from one object, "world" keeps them away from each other.          *)
(***************************************************************************)
EXTENDS Integers, Sequences

CONSTANTS
  Players,      \* objects with OBJ_CLIENT
  Movables,     \* summons and monsters, OBJ_MOVABLE
  Cells,        \* the regions, <<rx, ry>>, the objects of the model reach
  RegionHeight, \* m_nRegionHeight
  Network,      \* the threads that run the sessions' handlers
  WorldThread,  \* the thread of World::Update
  Nowhere,      \* nullptr as a region
  Isolation     \* "none", "object" or "world"

Objects == Players \cup Movables
Threads == Network \cup {WorldThread}
Kinds == {"client", "movable"}
Kind(o) == IF o \in Players THEN "client" ELSE "movable"

ASSUME GridAssumption ==
  /\ RegionHeight \in Nat \ {0}
  /\ Cells \subseteq Nat \X (0 .. RegionHeight - 1)
  /\ Nowhere \notin Cells
  /\ Players \cap Movables = {}
  /\ Isolation \in {"none", "object", "world"}

VARIABLES
  pos,          \* the region of the object's coordinates
  pRegion,      \* the region that lists it; Nowhere out of the world
  region_index, \* its place in the vector, -1 outside
  list,         \* list[kind][region]: m_vClientObjects, m_vMovableObjects
  seen,         \* the objects a client draws
  call,         \* per thread, the call under way
  crashed       \* an ASSERT of Region::addObject or removeObject has failed

vars == <<pos, pRegion, region_index, list, seen, call, crashed>>

Idle == [pc |-> "idle"]
Phases == {"add", "leave", "sayleave", "warpend", "remove", "readd", "introduce"}
Call(o, pc, from, to) == [pc |-> pc, obj |-> o, from |-> from, to |-> to]

InWorld(o) == pRegion[o] # Nowhere

-----------------------------------------------------------------------------
\* IsVisibleRegion: 3 regions along an axis, 2 along the diagonal.
Dist(m, n) == IF m < n THEN n - m ELSE m - n

IsVisibleRegion(a, b) ==
  LET cx == Dist(a[1], b[1])
      cy == Dist(a[2], b[2])
  IN  (IF cx <= cy THEN cx + 3 * cy ELSE cy + 3 * cx) <= 9

\* The regions the loops of DoEachVisibleRegion reach: y stops before bottom,
\* so neither the region three rows on nor the last row of the map is reached.
Bottom(a) == IF a[2] + 3 >= RegionHeight THEN RegionHeight - 1 ELSE a[2] + 3

DoEachVisibleRegion(a) == {b \in Cells : b[2] < Bottom(a) /\ IsVisibleRegion(a, b)}

DoEachNewRegion_Swapped(a, prev) ==
  {b \in DoEachVisibleRegion(prev) : ~IsVisibleRegion(a, b)}

DoEachNewRegion(a, prev) == {b \in DoEachVisibleRegion(a) : ~IsVisibleRegion(prev, b)}

Listed(k, cs) == UNION {{list[k][c][i] : i \in 1 .. Len(list[k][c])} : c \in cs}

\* External: a client keeps drawing what it was sent while it can see it.
Drawn(told, where) ==
  [p \in Players |-> {o \in told[p] : IsVisibleRegion(where[p], where[o])}]

\* AddObjectFunctor, for an object at where[o]: the players listed in cs are sent
\* o, and if o is a player it is sent whatever cs list.
Introduce(o, cs, where) ==
  Drawn([p \in Players |->
           seen[p] \cup (IF p = o THEN (Listed("client", cs) \cup Listed("movable", cs)) \ {o}
                         ELSE IF p \in Listed("client", cs) THEN {o} ELSE {})], where)

-----------------------------------------------------------------------------
\* Region::addObject and removeObject, each under the region's lock.
CanAdd(o) == ~InWorld(o)

AddObject(o, c) ==
  /\ list' = [list EXCEPT ![Kind(o)][c] = Append(@, o)]
  /\ pRegion' = [pRegion EXCEPT ![o] = c]
  /\ region_index' = [region_index EXCEPT ![o] = Len(list[Kind(o)][c])]

CanRemove(o, c) ==
  LET v == list[Kind(o)][c]
  IN  /\ region_index[o] \in 0 .. Len(v) - 1
      /\ v[region_index[o] + 1] = o
      /\ pRegion[o] = c

\* The last object of the vector takes the place of the one removed.
RemoveObject_KeepsIndex(o, c) ==
  LET v == list[Kind(o)][c]
  IN  /\ list' = [list EXCEPT ![Kind(o)][c] =
                    SubSeq([v EXCEPT ![region_index[o] + 1] = v[Len(v)]], 1, Len(v) - 1)]
      /\ region_index' = [region_index EXCEPT ![o] = -1]
      /\ pRegion' = [pRegion EXCEPT ![o] = Nowhere]

RemoveObject(o, c) ==
  LET v == list[Kind(o)][c]
      last == v[Len(v)]
  IN  /\ list' = [list EXCEPT ![Kind(o)][c] =
                    SubSeq([v EXCEPT ![region_index[o] + 1] = last], 1, Len(v) - 1)]
      /\ region_index' = [q \in Objects |->
                            IF q = o THEN -1
                            ELSE IF q = last THEN region_index[o] ELSE region_index[q]]
      /\ pRegion' = [pRegion EXCEPT ![o] = Nowhere]

Crash ==
  /\ crashed' = TRUE
  /\ UNCHANGED <<pos, pRegion, region_index, list, seen, call>>

-----------------------------------------------------------------------------
Init ==
  /\ pos \in [Objects -> Cells]
  /\ pRegion = [o \in Objects |-> Nowhere]
  /\ region_index = [o \in Objects |-> -1]
  /\ list = [k \in Kinds |-> [c \in Cells |-> <<>>]]
  /\ seen = [p \in Players |-> {}]
  /\ call = [t \in Threads |-> Idle]
  /\ crashed = FALSE

MayStart(t, o) ==
  /\ ~crashed
  /\ call[t] = Idle
  /\ Isolation = "world" => \A u \in Threads : call[u] = Idle
  /\ Isolation = "object" => \A u \in Threads : call[u] # Idle => call[u].obj # o

\* Only its session brings a player into the world and takes it out.
Runs(t, o) == o \in Players => t \in Network

\* Player::OnLogin and DoSummon: AddObjectToWorld introduces the object, then lists
\* it in the region looked up at the start.
AddObjectToWorld(t, o, c) ==
  /\ MayStart(t, o) /\ Runs(t, o)
  /\ ~InWorld(o)
  /\ pos' = [pos EXCEPT ![o] = c]
  /\ seen' = Introduce(o, DoEachVisibleRegion(c), pos')
  /\ call' = [call EXCEPT ![t] = Call(o, "add", c, c)]
  /\ UNCHANGED <<pRegion, region_index, list, crashed>>

FinishAdd(t) ==
  /\ ~crashed /\ call[t].pc = "add"
  /\ LET o == call[t].obj
     IN  IF CanAdd(o)
           THEN /\ AddObject(o, call[t].from)
                /\ call' = [call EXCEPT ![t] = Idle]
                /\ UNCHANGED <<pos, seen, crashed>>
           ELSE Crash

\* onReturnToLobby, OnClose, DoUnSummon: RemoveObjectFromWorld.
StartLeave(t, o) ==
  /\ MayStart(t, o) /\ Runs(t, o)
  /\ InWorld(o)
  /\ call' = [call EXCEPT ![t] = Call(o, "leave", pos[o], Nowhere)]
  /\ UNCHANGED <<pos, pRegion, region_index, list, seen, crashed>>

\* PendWarp: WarpBegin is RemoveObjectFromWorld, WarpEnd is AddObjectToWorld.
PendWarp(t, o, c) ==
  /\ MayStart(t, o)
  /\ o \in Players /\ InWorld(o)
  /\ call' = [call EXCEPT ![t] = Call(o, "leave", pos[o], c)]
  /\ UNCHANGED <<pos, pRegion, region_index, list, seen, crashed>>

RemoveFromRegion(t) ==
  /\ ~crashed /\ call[t].pc = "leave"
  /\ LET o == call[t].obj
     IN  IF CanRemove(o, pos[o])
           THEN /\ RemoveObject(o, pos[o])
                /\ call' = [call EXCEPT ![t].pc = "sayleave"]
                /\ UNCHANGED <<pos, seen, crashed>>
           ELSE Crash

\* The broadcast of TS_SC_LEAVE.  The client of an object that leaves starts anew.
SendLeave_OwnRegion(t) ==
  /\ ~crashed /\ call[t].pc = "sayleave"
  /\ LET o == call[t].obj
         told == Listed("client", {pos[o]})
     IN  /\ seen' = [p \in Players |-> IF p = o THEN {}
                                       ELSE IF p \in told THEN seen[p] \ {o} ELSE seen[p]]
         /\ call' = [call EXCEPT ![t] = IF @.to = Nowhere THEN Idle ELSE [@ EXCEPT !.pc = "warpend"]]
  /\ UNCHANGED <<pos, pRegion, region_index, list, crashed>>

SendLeave(t) ==
  /\ ~crashed /\ call[t].pc = "sayleave"
  /\ LET o == call[t].obj
         told == Listed("client", DoEachVisibleRegion(pos[o]))
     IN  /\ seen' = [p \in Players |-> IF p = o THEN {}
                                       ELSE IF p \in told THEN seen[p] \ {o} ELSE seen[p]]
         /\ call' = [call EXCEPT ![t] = IF @.to = Nowhere THEN Idle ELSE [@ EXCEPT !.pc = "warpend"]]
  /\ UNCHANGED <<pos, pRegion, region_index, list, crashed>>

WarpEnd(t) ==
  /\ ~crashed /\ call[t].pc = "warpend"
  /\ LET o == call[t].obj
         c == call[t].to
     IN  /\ pos' = [pos EXCEPT ![o] = c]
         /\ seen' = Introduce(o, DoEachVisibleRegion(c), pos')
         /\ call' = [call EXCEPT ![t] = Call(o, "add", c, c)]
  /\ UNCHANGED <<pRegion, region_index, list, crashed>>

\* onRegionChange, SetMove, SetMultipleMove and MoveObject, when the object comes
\* to another region: the position is written first.
Move(t, o, c) ==
  /\ MayStart(t, o)
  /\ InWorld(o)
  /\ c # pos[o]
  /\ pos' = [pos EXCEPT ![o] = c]
  /\ seen' = Drawn(seen, pos')
  /\ call' = [call EXCEPT ![t] = Call(o, "remove", pos[o], c)]
  /\ UNCHANGED <<pRegion, region_index, list, crashed>>

\* onMoveObject: out of the region of the old position, into the region of the
\* position the object has by then.
MoveRemove(t) ==
  /\ ~crashed /\ call[t].pc = "remove"
  /\ LET o == call[t].obj
     IN  IF CanRemove(o, call[t].from)
           THEN /\ RemoveObject(o, call[t].from)
                /\ call' = [call EXCEPT ![t].pc = "readd"]
                /\ UNCHANGED <<pos, seen, crashed>>
           ELSE Crash

MoveAdd_OldRegion(t) ==
  /\ ~crashed /\ call[t].pc = "readd"
  /\ LET o == call[t].obj
     IN  IF CanAdd(o)
           THEN /\ AddObject(o, call[t].from)
                /\ call' = [call EXCEPT ![t].pc = "introduce"]
                /\ UNCHANGED <<pos, seen, crashed>>
           ELSE Crash

MoveAdd(t) ==
  /\ ~crashed /\ call[t].pc = "readd"
  /\ LET o == call[t].obj
     IN  IF CanAdd(o)
           THEN /\ AddObject(o, pos[o])
                /\ call' = [call EXCEPT ![t].pc = "introduce"]
                /\ UNCHANGED <<pos, seen, crashed>>
           ELSE Crash

enterProc(t) ==
  /\ ~crashed /\ call[t].pc = "introduce"
  /\ LET o == call[t].obj
     IN  seen' = IF pos[o] = call[t].from THEN seen
                 ELSE Introduce(o, DoEachNewRegion(pos[o], call[t].from), pos)
  /\ call' = [call EXCEPT ![t] = Idle]
  /\ UNCHANGED <<pos, pRegion, region_index, list, crashed>>

ThreadStep(t) ==
  \/ FinishAdd(t)
  \/ RemoveFromRegion(t)
  \/ SendLeave(t)
  \/ WarpEnd(t)
  \/ MoveRemove(t)
  \/ MoveAdd(t)
  \/ enterProc(t)

Next ==
  \E t \in Threads :
    \/ \E o \in Objects, c \in Cells :
         \/ AddObjectToWorld(t, o, c)
         \/ PendWarp(t, o, c)
         \/ Move(t, o, c)
    \/ \E o \in Objects : StartLeave(t, o)
    \/ ThreadStep(t)

Spec == Init /\ [][Next]_vars

-----------------------------------------------------------------------------
\* Type correctness; nobody is introduced to itself, which the handle comparison of
\* SendEnterMessageEachOtherFunctor excludes.
TypeOK ==
  /\ pos \in [Objects -> Cells]
  /\ pRegion \in [Objects -> Cells \cup {Nowhere}]
  /\ region_index \in [Objects -> Int]
  /\ list \in [Kinds -> [Cells -> Seq(Objects)]]
  /\ seen \in [Players -> SUBSET Objects]
  /\ \A p \in Players : p \notin seen[p]
  /\ call \in [Threads -> {Idle} \cup
                 [pc : Phases, obj : Objects, from : Cells, to : Cells \cup {Nowhere}]]
  /\ crashed \in BOOLEAN

\* Region.cpp:93 - the region of an object has to be correct "no matter what": no
\* call ever reaches one of the ASSERTs of addObject and removeObject with a region
\* or an index that is not the object's.
RegionAlwaysCorrect == ~crashed

\* An object in the world is in exactly one vector, once, at the index it remembers,
\* and a vector holds nothing else, after any number of swaps by removeObject.
Indexed ==
  /\ \A o \in Objects : InWorld(o) =>
       /\ region_index[o] \in 0 .. Len(list[Kind(o)][pRegion[o]]) - 1
       /\ list[Kind(o)][pRegion[o]][region_index[o] + 1] = o
  /\ \A k \in Kinds, c \in Cells : \A i \in 1 .. Len(list[k][c]) :
       LET o == list[k][c][i]
       IN  Kind(o) = k /\ pRegion[o] = c /\ region_index[o] = i - 1

Quiet == \A t \in Threads : call[t] = Idle

\* Between calls a player's client draws every object of the world it can see: what
\* the two loops skip as already introduced had been introduced, by either side.
Acquainted ==
  Quiet => \A p \in Players, o \in Objects :
             /\ p # o /\ InWorld(p) /\ InWorld(o)
             /\ IsVisibleRegion(pos[p], pos[o])
             => o \in seen[p]

\* World.cpp:362 - a player in the visible region is told that an object left: no
\* client goes on drawing an object that is out of the world.
NoGhosts == Quiet => \A p \in Players : \A o \in seen[p] : InWorld(o)
=============================================================================
