------------------------------- MODULE Items -------------------------------
(***************************************************************************)
(* The life of items: the lists of an Inventory (a player's bag and its    *)
(* storage), stacks that are divided and joined, the ground with its       *)
(* ItemCollector, and the row of an item in the table Item.                *)
(*                                                                         *)
(* onDropItem and onTakeItem run on the two network threads, in steps; the *)
(* collector and the drops of monsters run on the world's thread.  Between *)
(* two steps a session holds a pointer to an item that others may take,    *)
(* drop or let expire meanwhile.                                           *)
(*                                                                         *)
(* Writes of rows wait in the queue of the database, and two workers (or   *)
(* more) take them out: the table may hold an older value than the last    *)
(* one written, and come to hold it again.  Items are read past the queue. *)
(* A row without an owner is as good as none.  Gold, weight, quests and    *)
(* worn items are left out.  DeleteThis frees no item: its memory, and so  *)
(* its handle, is not used again while anyone points to it.                *)
(***************************************************************************)
EXTENDS Integers, Sequences, FiniteSets, SequencesExt, FiniteSetsExt

CONSTANTS
    Player,      \* players in the game, an account each
    Item,        \* item objects
    KindOf,      \* the code of an item
    Joinable,    \* the codes with FLAG_DUPLICATE
    Sharing,     \* the players in one party that shares by ITEM_SHARE_RANDOM
    MaxUnits,    \* bound: units of a code at a time
    MaxLate,     \* bound: values that writes under way may yet overwrite
    None,        \* no owner, no row, no item
    DropsAlone   \* no other step comes between those of an onDropItem

ASSUME ItemAssumption ==
    /\ None \notin Item \cup (Player \X {"bag", "storage"})
    /\ None \notin [of : Player \X {"bag", "storage"}, n : Nat]
    /\ IsFiniteSet(Item) /\ DOMAIN KindOf = Item
    /\ Sharing \subseteq Player
    /\ MaxUnits \in Nat /\ MaxLate \in Nat
    /\ DropsAlone \in BOOLEAN

VARIABLES
    list,        \* Inventory::m_vList
    index,       \* Item::m_unInventoryIndex, counted from 1; 0 outside
    owner,       \* the inventory SetOwnerInfo stands for, or None
    count,       \* m_Instance.nCount; 0: not allocated, or given up
    row,         \* what was last written to the item's row: whose it is, and its
                 \* units; None: no row, or no owner
    late,        \* older values that the table may hold instead, or hold again
    registered,  \* ItemCollector::m_vItemList
    inWorld,     \* items in a region
    at,          \* how far the session of a player is in onDropItem, onTakeItem
    hand,        \* the item it points to
    due,         \* history: units of a code there ought to be
    misread      \* history: a player returned and did not find what was last
                 \* written; what follows is not modelled

store == <<list, index, owner, count, row, late>>
vars == <<store, registered, inWorld, at, hand, due, misread>>

Inventory == Player \X {"bag", "storage"}
Bag(p) == <<p, "bag">>
Storage(p) == <<p, "storage">>
Kind == {KindOf[i] : i \in Item}
Listed(v) == ToSet(list[v])
IsJoinable(i) == KindOf[i] \in Joinable
Stored(v) == v[2] = "storage"

Units(k) == MapThenSumSet(LAMBDA i : count[i], {i \in Item : KindOf[i] = k})
UnitsOf(rows, S) == MapThenSumSet(LAMBDA i : rows[i].n, S)
InRows(rows, k) == UnitsOf(rows, {i \in Item : KindOf[i] = k /\ rows[i] # None})

\* What AllocItem may return.
Free(k) == {i \in Item : /\ KindOf[i] = k
                         /\ count[i] = 0
                         /\ late[i] = {}
                         /\ i \notin inWorld \cup {hand[p] : p \in Player}}

Init ==
    /\ list = [v \in Inventory |-> <<>>]
    /\ index = [i \in Item |-> 0]
    /\ owner = [i \in Item |-> None]
    /\ count = [i \in Item |-> 0]
    /\ row = [i \in Item |-> None]
    /\ late = [i \in Item |-> {}]
    /\ registered = {}
    /\ inWorld = {}
    /\ at = [p \in Player |-> "idle"]
    /\ hand = [p \in Player |-> None]
    /\ due = [k \in Kind |-> 0]
    /\ misread = FALSE

-----------------------------------------------------------------------------
(* Inventory and its event receiver, the Player, as functions of the store *)

Store == [list |-> list, index |-> index, owner |-> owner, count |-> count,
          row |-> row]
Has(s) == /\ list' = s.list
          /\ index' = s.index
          /\ owner' = s.owner
          /\ count' = s.count
          /\ row' = s.row

\* What a row that becomes new may be in the table instead: what it was, and
\* no row if it goes from one owner to another, which pop and push write.
Lag(old, new, l) ==
    [i \in Item |->
        IF new[i] = old[i] THEN l[i]
        ELSE (l[i] \cup {old[i]} \cup (IF /\ old[i] # None /\ new[i] # None
                                        /\ old[i].of # new[i].of
                                     THEN {None} ELSE {})) \ {new[i]}]
Behind == MapThenSumSet(LAMBDA i : Cardinality(late[i]), Item)

\* A step of a session or of the world; what it writes is queued.
Becomes(s) == /\ Has(s)
              /\ row' # row => Behind < MaxLate
              /\ late' = Lag(row, row', late)

\* Item::DBInsert, DBUpdate: the last value written.
DBUpdate(s, i) == [s EXCEPT !.row[i] = IF s.owner[i] = None THEN None
                                       ELSE [of |-> s.owner[i], n |-> s.count[i]]]

\* DeleteThis, PendFreeItem
GiveUp(s, i) == [s EXCEPT !.count[i] = 0]

\* Inventory::FindByCode
FindByCode(s, v, k) == SelectInSeq(s.list[v], LAMBDA j : KindOf[j] = k)

\* Inventory::setCount, Player::onChangeCount: a bag's row is not written.
SetCount(s, v, i, n) ==
    LET t == [s EXCEPT !.count[i] = n]
    IN  IF Stored(v) THEN DBUpdate(t, i) ELSE t

\* Inventory::push, Player::onAdd
push(s, v, i) ==
    DBUpdate([s EXCEPT !.list[v] = Append(@, i),
                       !.index[i] = Len(s.list[v]) + 1,
                       !.owner[i] = v], i)

\* Inventory::pop, Player::onRemove: the last item takes the place.
pop(s, v, i) ==
    LET t == DBUpdate([s EXCEPT !.owner[i] = None], i)
        last == Last(t.list[v])
    IN  [t EXCEPT !.list[v] = Front([@ EXCEPT ![t.index[i]] = last]),
                  !.index = [@ EXCEPT ![last] = t.index[i], ![i] = 0]]

\* Mutants of Pop.
Pop_KeepsCount(s, v, i, n, new) ==
    IF s.count[i] > n THEN [s EXCEPT !.count[new] = n] ELSE pop(s, v, i)
Pop_KeepsRow(s, v, i, n, new) ==
    IF s.count[i] > n
    THEN SetCount([s EXCEPT !.count[new] = n], v, i, s.count[i] - n)
    ELSE [pop(s, v, i) EXCEPT !.row[i] = s.row[i]]

\* Inventory::Push of n units: a joinable item joins the stack of its code,
\* and the caller gives it up.
Push(s, v, i, n) ==
    LET k == FindByCode(s, v, KindOf[i])
    IN  IF IsJoinable(i) /\ k # 0
        THEN GiveUp(SetCount(s, v, s.list[v][k], s.count[s.list[v][k]] + n), i)
        ELSE push(s, v, i)

\* Inventory::Pop of n units: a larger stack is divided, the part becomes new.
Pop(s, v, i, n, new) ==
    IF s.count[i] > n
    THEN SetCount([s EXCEPT !.count[new] = n], v, i, s.count[i] - n)
    ELSE pop(s, v, i)

\* The item Pop returns.
Parts(i, n) == IF count[i] > n THEN Free(KindOf[i]) ELSE {i}

\* Player::PushItem: nothing happens if the item is the player's already.
PushItem(s, p, i, n) == IF s.owner[i] = Bag(p) THEN s ELSE Push(s, Bag(p), i, n)

\* Player::Save(false)
Save(s, p) == [s EXCEPT !.row = [i \in Item |->
                  IF i \in ToSet(s.list[Bag(p)])
                  THEN [of |-> s.owner[i], n |-> s.count[i]] ELSE @[i]]]

\* The rows of the inventories vs; the pairs of them that are one stack when they
\* are read; and the items that may remain: of each stack the one that comes
\* first, which is any (the queries have no order).
Rows(s, vs) == {i \in Item : s.row[i] # None /\ s.row[i].of \in vs}
Joins(s, i, j) == \/ i = j
                  \/ /\ IsJoinable(i) /\ KindOf[i] = KindOf[j]
                     /\ s.row[i].of = s.row[j].of
Firsts(s, vs) == {kept \in SUBSET Rows(s, vs) :
                     \A i \in Rows(s, vs) : \E j \in kept :
                         Joins(s, i, j) /\ \A k \in kept : Joins(s, i, k) => k = j}

\* Player::ReadItemList, DB_ReadStorage: the items of the inventories vs were
\* given up (Player::CleanupsBeforeDelete) and are allocated again with what
\* their rows say.  A stack that joins another is given up, both rows written.
Reload(s, vs, kept) ==
    LET read == Rows(s, vs)
        gone == (read \cup UNION {ToSet(s.list[v]) : v \in vs}) \ kept
        lists == [v \in vs |-> SetToSeq({i \in kept : s.row[i].of = v})]
        place(i) == LET l == lists[s.row[i].of]
                    IN  CHOOSE k \in DOMAIN l : l[k] = i
        parts(i) == {j \in read : Joins(s, j, i)}
        units(i) == UnitsOf(s.row, parts(i))
        Now(new(_), none, old) == [i \in Item |-> IF i \in kept THEN new(i)
                                                  ELSE IF i \in gone THEN none
                                                  ELSE old[i]]
    IN  [list |-> [v \in Inventory |-> IF v \in vs THEN lists[v] ELSE s.list[v]],
         index |-> Now(place, 0, s.index),
         owner |-> Now(LAMBDA i : s.row[i].of, None, s.owner),
         count |-> Now(units, 0, s.count),
         row |-> Now(LAMBDA i : [of |-> s.row[i].of, n |-> units(i)], None, s.row)]

\* The server with nothing but its table.
Bare(rows) == [list |-> [v \in Inventory |-> <<>>], index |-> [i \in Item |-> 0],
               owner |-> [i \in Item |-> None], count |-> [i \in Item |-> 0],
               row |-> rows]

\* What the table may be when it is read.
Tables ==
    LET unsure == {i \in Item : late[i] # {}}
        may(i) == late[i] \cup {row[i]}
    IN  {[i \in Item |-> IF i \in unsure THEN old[i] ELSE row[i]] :
            old \in {f \in [unsure -> UNION {may(i) : i \in unsure}] :
                        \A i \in unsure : f[i] \in may(i)}}

\* The workers have executed all that was queued for a row, the last write last.
Execute(i) ==
    /\ late[i] # {}
    /\ late' = [late EXCEPT ![i] = {}]
    /\ UNCHANGED <<list, index, owner, count, row, registered, inWorld, at, hand,
                   due, misread>>

-----------------------------------------------------------------------------
(* A player drops an item *)

\* Other threads may run: no drop that has to be alone is under way.
Others(p) == DropsAlone => \A q \in Player \ {p} : at[q] \notin {"popped", "listed"}

Idle(p) == at[p] = "idle" /\ Others(p)
Goes(p, step, i) == /\ at' = [at EXCEPT ![p] = step]
                    /\ hand' = [hand EXCEPT ![p] = i]

\* WorldSession::onDropItem, Player::DropItem up to World::AddItemToWorld.
DropItem(p) ==
    \E i \in Listed(Bag(p)) : \E n \in 1..count[i] : \E part \in Parts(i, n) :
        /\ Idle(p)
        /\ Becomes(Pop(Store, Bag(p), i, n, part))
        /\ Goes(p, "popped", part)
        /\ UNCHANGED <<registered, inWorld, due, misread>>

\* Mutant: AddItemToWorld forgets to register.
RegisterItem_Not(p) ==
    /\ at[p] = "popped" /\ Others(p)
    /\ Goes(p, "listed", hand[p])
    /\ UNCHANGED <<store, registered, inWorld, due, misread>>

\* World::AddItemToWorld: first ItemCollector::RegisterItem ...
RegisterItem(p) ==
    /\ at[p] = "popped" /\ Others(p)
    /\ registered' = registered \cup {hand[p]}
    /\ Goes(p, "listed", hand[p])
    /\ UNCHANGED <<store, inWorld, due, misread>>

\* ... then AddObjectToWorld, and m_nDropTime.
AddObjectToWorld(p) ==
    /\ at[p] = "listed" /\ Others(p)
    /\ inWorld' = inWorld \cup {hand[p]}
    /\ Goes(p, "idle", None)
    /\ UNCHANGED <<store, registered, due, misread>>

-----------------------------------------------------------------------------
(* A player picks up an item *)

\* WorldSession::onTakeItem up to RemoveItemFromWorld.
TakeItem(p) ==
    \E i \in inWorld :
        /\ Idle(p)
        /\ owner[i] = None
        /\ Goes(p, "found", i)
        /\ UNCHANGED <<store, registered, inWorld, due, misread>>

\* Mutant: the collector's answer is not looked at.
UnregisterItem_Unchecked(p) ==
    /\ at[p] = "found" /\ Others(p)
    /\ registered' = registered \ {hand[p]}
    /\ Goes(p, "won", hand[p])
    /\ UNCHANGED <<store, inWorld, due, misread>>

\* World::RemoveItemFromWorld: ItemCollector::UnregisterItem decides who
\* takes the item ...
UnregisterItem(p) ==
    /\ at[p] = "found" /\ Others(p)
    /\ registered' = registered \ {hand[p]}
    /\ IF hand[p] \in registered THEN Goes(p, "won", hand[p])
                                 ELSE Goes(p, "idle", None)
    /\ UNCHANGED <<store, inWorld, due, misread>>

\* ... who then calls RemoveObjectFromWorld, in which Region::removeObject
\* asserts that the item is there, and World::procAddItem for itself or, by
\* procPartyShare, for a member of its party.
TakeIn(p) ==
    \E q \in (IF p \in Sharing THEN Sharing ELSE {p}) :
        /\ at[p] = "won" /\ Others(p)
        /\ hand[p] \in inWorld
        /\ inWorld' = inWorld \ {hand[p]}
        /\ Becomes(PushItem(Store, q, hand[p], count[hand[p]]))
        /\ Goes(p, "idle", None)
        /\ UNCHANGED <<registered, due, misread>>

-----------------------------------------------------------------------------
(* Within a bag and a storage *)

\* Player::MoveInventoryToStorage and MoveStorageToInventory of n units of i
\* from inventory v to inventory w; WorldSession::onStorage then saves the
\* player without its items.
Move(p, v, w) ==
    \E i \in Listed(v) : \E n \in 1..count[i] : \E part \in Parts(i, n) :
        LET s == Push(Pop(Store, v, i, n, part), w, part, n)
        IN  /\ Idle(p)
            /\ ~IsJoinable(i) => n = count[i]
            /\ Becomes(IF part # i THEN DBUpdate(s, i) ELSE s)
            /\ UNCHANGED <<registered, inWorld, at, hand, due, misread>>

MoveInventoryToStorage(p) == Move(p, Bag(p), Storage(p))
MoveStorageToInventory(p) == Move(p, Storage(p), Bag(p))

\* Player::GiveItem, and the Save of both at the end of ProcessTrade.
GiveItem(p) ==
    \E q \in Player \ {p} : \E i \in Listed(Bag(p)) :
        \E n \in 1..count[i] : \E part \in Parts(i, n) :
            /\ Idle(p) /\ at[q] = "idle"
            /\ Becomes(Save(Save(PushItem(Pop(Store, Bag(p), i, n, part),
                                          q, part, n), p), q))
            /\ UNCHANGED <<registered, inWorld, at, hand, due, misread>>

\* Inventory::Erase: items sold, used, mixed or handed in.
EraseItem(p) ==
    \E i \in Listed(Bag(p)) : \E n \in 1..count[i] :
        /\ Idle(p)
        /\ Becomes(IF count[i] > n
                   THEN SetCount(Store, Bag(p), i, count[i] - n)
                   ELSE GiveUp(pop(Store, Bag(p), i), i))
        /\ due' = [due EXCEPT ![KindOf[i]] = @ - n]
        /\ UNCHANGED <<registered, inWorld, at, hand, misread>>

\* Player::LogoutNow, CleanupsBeforeDelete, and the next login of the player,
\* which finds what was last written if the workers have come so far.
Relogin(p) ==
    LET vs == {Bag(p), Storage(p)}
        s == Save(Store, p)
        l == Lag(row, s.row, late)
        behind == {i \in Item : \E old \in l[i] :
                      i \in Rows(s, vs) \cup Rows([s EXCEPT !.row[i] = old], vs)}
    IN  /\ Idle(p)
        /\ \/ /\ \E kept \in Firsts(s, vs) : Becomes(Reload(s, vs, kept))
              /\ UNCHANGED misread
           \/ /\ behind # {}
              /\ Becomes(s)
              /\ misread' = TRUE
        /\ UNCHANGED <<registered, inWorld, at, hand, due>>

-----------------------------------------------------------------------------
(* The world's thread *)

\* Monster::dropItem, World::MonsterDropItemToWorld.
MonsterDrop(k) ==
    \E i \in Free(k) : \E n \in (IF IsJoinable(i) THEN 1..MaxUnits ELSE {1}) :
        /\ Others(None)
        /\ due[k] + n <= MaxUnits
        /\ due' = [due EXCEPT ![k] = @ + n]
        /\ Becomes([Store EXCEPT !.count[i] = n, !.owner[i] = None,
                                 !.row[i] = None])
        /\ registered' = registered \cup {i}
        /\ inWorld' = inWorld \cup {i}
        /\ UNCHANGED <<at, hand, misread>>

\* ItemCollector::Update, for an item whose time is over: any, because an item
\* registered a moment ago has the drop time 0 until AddItemToWorld ends.
CollectorUpdate ==
    \E i \in registered :
        /\ Others(None)
        /\ inWorld' = inWorld \ {i}
        /\ registered' = registered \ {i}
        /\ due' = [due EXCEPT ![KindOf[i]] = @ - count[i]]
        /\ Becomes(GiveUp(Store, i))
        /\ UNCHANGED <<at, hand, misread>>

\* The server dies and starts again, and its players come back with what the
\* table says by then: the queue of writes may not have reached it.  (Bounded:
\* it holds MaxUnits of a code at most.)
Crash ==
    \E rows \in Tables : \E kept \in Firsts(Bare(rows), Inventory) :
        LET s == Reload(Bare(rows), Inventory, kept)
        IN  /\ \A k \in Kind : InRows(rows, k) <= MaxUnits
            /\ due' = [k \in Kind |-> InRows(rows, k)]
            /\ Has(s)
            /\ late' = Lag(rows, s.row, [i \in Item |-> {}])
            /\ registered' = {}
            /\ inWorld' = {}
            /\ at' = [p \in Player |-> "idle"]
            /\ hand' = [p \in Player |-> None]
            /\ UNCHANGED misread

\* onDropItem takes any item for the player's: Inventory::check asserts that it
\* is in the bag, and the server dies if it is not.
DropOther(p) ==
    /\ Idle(p)
    /\ \E i \in Item : count[i] > 0 /\ i \notin Listed(Bag(p))
    /\ Crash

-----------------------------------------------------------------------------

Session(p) == \/ DropItem(p) \/ DropOther(p) \/ RegisterItem(p) \/ AddObjectToWorld(p)
              \/ TakeItem(p) \/ UnregisterItem(p) \/ TakeIn(p)
              \/ MoveInventoryToStorage(p) \/ MoveStorageToInventory(p)
              \/ GiveItem(p) \/ EraseItem(p) \/ Relogin(p)

Next == /\ ~misread
        /\ \/ \E p \in Player : Session(p)
           \/ \E k \in Kind : MonsterDrop(k)
           \/ CollectorUpdate
           \/ \E i \in Item : Execute(i)
           \/ Crash

Spec == Init /\ [][Next]_vars

-----------------------------------------------------------------------------
(* Properties *)

\* Types.  An item in a list has units.
TypeOK ==
    /\ list \in [Inventory -> Seq(Item)]
    /\ index \in [Item -> Nat]
    /\ owner \in [Item -> Inventory \cup {None}]
    /\ count \in [Item -> Nat]
    /\ row \in [Item -> [of : Inventory, n : Nat] \cup {None}]
    /\ late \in [Item -> SUBSET ([of : Inventory, n : Nat] \cup {None})]
    /\ misread \in BOOLEAN
    /\ registered \subseteq Item
    /\ inWorld \subseteq Item
    /\ at \in [Player -> {"idle", "popped", "listed", "found", "won"}]
    /\ hand \in [Player -> Item \cup {None}]
    /\ \A v \in Inventory : \A i \in Listed(v) : count[i] > 0

\* Inventory::check: "Position in list invalid!!!" (Inventory.cpp:192) never
\* happens to an item of the list, after any sequence of pushes and pops.
Placed ==
    \A v \in Inventory : \A i \in Listed(v) :
        index[i] \in 1..Len(list[v]) /\ list[v][index[i]] = i

\* A joinable code has one stack in an inventory: FindByCode and the counters
\* of quests look at the first they find.
OneStack ==
    \A v \in Inventory : \A i, j \in Listed(v) :
        IsJoinable(i) /\ KindOf[i] = KindOf[j] => i = j

\* However drops, pick-ups and the collector interleave, an item is in one
\* inventory at most, once, knows which and where, can be picked up by nobody
\* then, and shares the inventory with no other stack of its code.
OnePlace ==
    /\ TypeOK /\ Placed /\ OneStack
    /\ \A v \in Inventory : IsInjective(list[v])
    /\ \A v \in Inventory : \A i \in Listed(v) : owner[i] = v /\ i \notin registered
    /\ \A v, w \in Inventory : v # w => Listed(v) \cap Listed(w) = {}

\* An item that exists is in an inventory, on the ground for the collector to
\* find, or with a session that is dropping it or has won it; and what the
\* collector lists can be seen and picked up, once nobody is about to add it
\* to its region.
NoneStranded ==
    /\ \A i \in Item : count[i] > 0 =>
           \/ \E v \in Inventory : i \in Listed(v)
           \/ i \in registered
           \/ \E p \in Player : hand[p] = i /\ at[p] \in {"popped", "won"}
    /\ \A i \in registered :
           i \in inWorld \/ \E p \in Player : at[p] = "listed" /\ hand[p] = i

\* Dividing, joining, dropping, picking up, storing, giving and logging in
\* again neither make nor lose units of a code, and joining what a crash left
\* neither: only monsters make them, only Erase and the collector destroy them, and
\* otherwise only a player that returns before its rows were written.
Conserved ==
    /\ due \in [Kind -> 0..MaxUnits]
    /\ ~misread => \A k \in Kind : Units(k) = due[k]

\* What is last written to a row tells which inventory the item is in, and how
\* many units are in a storage: what the table says when the workers are done.  The
\* counts in a bag are those of the last Save.
RowsFollow ==
    \A v \in Inventory : \A i \in Item :
        /\ i \in Listed(v) <=> row[i] # None /\ row[i].of = v
        /\ i \in Listed(v) /\ Stored(v) => row[i].n = count[i]

\* Documented, violated: a player that returns finds the items it left with.  Its
\* rows are in the queue of the database, and read past it.
ReadsItsItems == ~misread

\* Documented, violated: a crash makes no units, that is, the rows never hold
\* more than there are.  Inventory::Pop divides a stack in a bag without writing
\* the row of what it leaves.
NoneFromCrash == \A k \in Kind : InRows(row, k) <= Units(k)

\* Documented, violated unless DropsAlone: what can be seen can be picked up.
\* AddItemToWorld registers the item before it adds it to the world and sets
\* the drop time last, so the collector may take it out of its list before it
\* is in the world: it stays there for ever.
SeenIsRegistered ==
    \A i \in inWorld :
        i \in registered \/ \E p \in Player : hand[p] = i /\ at[p] = "won"

\* Documented, violated unless DropsAlone: "If this ASSERT fails, fix your
\* fricking code" (WorldRegion's removeObject): who removes an item finds it.
RemovedIsThere == \A p \in Player : at[p] = "won" => hand[p] \in inWorld
=============================================================================
