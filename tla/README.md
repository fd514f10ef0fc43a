# RZEmulator: models, checks and proofs

RZEmulator is a server for an online role-playing game, in two processes: the
authentication server **Mononoke** (accounts, the list of game servers, one-time
keys) and the game server **Chihiro** (the world and everything in it). Both
stand on `src/shared` (sockets, packets, database, threads). A MySQL server holds
the accounts and the characters; the clients are programs of their own.

This directory holds TLA+ models of the parts of the two servers that are
concurrent or distributed, TLC configurations that check them on small
instances, and proofs, checked by TLAPS, of what matters most for every
instance. Every definition is translated from the source; `PROJECT.json` names
the file and lines behind each of them.

- [1. The system](#1-the-system)
- [2. The models](#2-the-models)
- [3. The runs](#3-the-runs)
- [4. The proofs](#4-the-proofs)
- [5. Where code and text disagree](#5-where-code-and-text-disagree)
- [6. What is not modelled](#6-what-is-not-modelled)
- [7. Plan](#7-plan)

To repeat a check: `tlc -config <file>.cfg <MC module>`; to repeat a proof:
`tlapm <module>.tla` with the module of proofs that section 2 names (from nothing the
longest, `ItemsProofs` and `PacketStreamProofs`, take some minutes).

## 1. The system

### Threads

| process | thread | runs |
|---|---|---|
| Mononoke | main (`io_context`) | accepting, signals |
| | one network thread per listener, two in all | the handlers and `Update` of its sockets: clients on one, game servers on the other |
| | database workers | asynchronous statements |
| Chihiro | main (`io_context`) | accepting; reads of the connection to Mononoke |
| | network threads | the handlers and `Update` of the clients' sockets |
| | auth network thread | `Update` of the connection to Mononoke, its ping |
| | world thread (`World::Update`) | movement, monsters, respawns, item expiry, deletion of objects |
| | database workers | asynchronous statements, taken in the order they were queued; `chihiro.conf.dist:17` sets two of them for the characters |

A socket accepted by a listener stays on one network thread, so its handlers
never overlap each other or its `Update`. Two sockets on two threads do overlap,
and both overlap with the world thread. There is no lock over a handler: maps
are locked (or not) per access.

### Components

For each: the state it keeps, what changes it, who it talks to, what is hard,
and what it means for it to be right.

**Mononoke: game servers** (`Server/AuthGame`, `Lists/GameList`). *State*: the
listed session per index; per session `m_pGame` and `m_bIsAuthed`.
*Operations*: login, result, close, destruction of the session on a later tick.
*Interacts*: shares the list of players with the client sessions; the list of
games is what clients are sent. *Hard*: a refused login cleans up after itself
under the identity of the server it clashed with; destruction comes after close
and after whatever happened in between. *Right*: a listing points to a live
authenticated session of that index; a connected server is listed; one that
stopped is not; nobody's players are swept but one's own.

**Mononoke: clients and players** (`Server/AuthClient`, `Lists/PlayerList`).
*State*: one `Player` record per account, with the one-time key, the selected
server and the in-game flag. *Operations*: login (with kick of an older login),
selection, close, and from the game server's side key check and logout.
*Interacts*: with Chihiro over the server link, only by account name. *Hard*:
records are shared by two threads and two sessions and are deleted by either.
*Right*: the list holds live records of the right account, a record is deleted
once, one that is done with leaves the list.

**Chihiro: server link** (`Network/AuthNetwork`). *State*: the queue of sessions
waiting for a verdict, one per account. *Operations*: ask, verdict, kick,
logout, login result. *Hard*: answers are matched by account only, and come
after the session that asked has gone. *Right*: whoever is admitted showed the
key that was checked; everyone who asks is answered; everyone who leaves is
logged out.

**Chihiro: client session** (`Network/GameNetwork/WorldSession`). *State*:
authenticated or not, the player in the game. *Operations*: some eighty
handlers, which belong to the components they call; those modelled here are
account check, entry, return to the lobby, close.

**Packet queue** (`Threading/MPSCQueue.h`). A lock-free queue of many producers
and one consumer. *Hard*: a producer can stand still between the exchange of
the head and the link of its node. *Right*: a FIFO channel; no node is touched
after it was deleted.

**Packet stream** (`shared/Server/ASIO/Socket.h`, `XSocket`). *State*: packet
queue, send buffer, queue of buffers, the write under way; at the peer the
header and packet being read. *Operations*: `SendPacket`, `Update` (pack,
flush), completion of a write, arrival of bytes, close. *Hard*: partial writes, full buffers,
packets larger than a buffer, headers split between reads, a stream cipher that
tolerates no reordering. *Right*: whole packets, once each, in order; nothing
lost while the connection is open; everything sent arrives.

**World and regions** (`World/World.cpp`, `Map/Region*`). *State*: per region a
vector of objects of each kind, per object the region and the place in the
vector; at each client what it draws. *Operations*: enter, leave, move, warp.
*Hard*: calls of network threads and the world thread interleave between the
locks of single vectors; removal swaps the last object into the gap. *Right*:
vectors and back pointers agree; no `ASSERT` fails; clients draw what they can
see and nothing that is gone.

**Parties** (`Groups/GroupManager`, the commands in
`Account/AllowedCommandInfo.cpp`, `Player::ReadCharacter`, `onLogin`, `Save`,
`CleanupsBeforeDelete`). *State*: a party three times over, as a list in memory,
a field of each player and columns of two tables. *Operations*: create, join,
leave, destroy, login, logout, save, load at start. *Hard*: the three copies are
written at different times, by different threads, and a crash can fall between.
*Right*: nobody is in two parties; a party has a leader who is in it; tags point
to players who are in the game; a restart loses nobody.

**Items** (`Entities/Item`, the storage of `Entities/Player`, `onDropItem`,
`onTakeItem`). *State*: per inventory a vector of items, per item its place in
it, owner and count; the collector's list of what lies on the ground; the rows.
*Operations*: join, divide, drop, take, share, store, give, use up, save,
expire. *Hard*: two players, on two threads, and the collector, on the world
thread, reach for one item in steps; what is removed is replaced in its vector
by the last. *Right*: an item is in one inventory or on the ground; no unit is
made or lost; the rows will tell where everything is.

**Trade** (`onTrade` and its handlers, the trade fields of `Player`). *State*:
two halves, one with each player: partner, offer, frozen, accepted.
*Operations*: ask, accept, add, remove, freeze, confirm, cancel, leave. *Hard*:
nothing keeps the halves together; the second confirmation settles the trade in
steps. *Right*: what a player saw and accepted is what it gets; a trade is
settled whole.

**Database workers and queue** (`shared/Database`, `ProducerConsumerQueue.h`).
*State*: a queue of statements, a worker per asynchronous connection;
synchronous connections pass the queue by. *Operations*: execute, query,
keep-alive, reconnect, close. *Hard*: the workers share a condition variable; a
lost connection is reopened in the middle of a statement; close meets workers
anywhere. *Right*: every statement is somewhere, is started in order, and in the
end executed; close returns.

**Monsters** (`Entities/Monster`, pending moves of `Entities/Unit`). *State*: whom a
monster hates and is after, its status, the way home, the pending move.
*Operations*: the parts of an update, blows and skills. *Hard*: players change
hate and target between the parts of an update; a target may die or leave at
any time. *Right*: a monster is after somebody it hates; with nobody to fight
it gets home.

**Respawning and taming** (`Entities/RespawnObject`, `GameContent::RespawnMonster`,
`World::SetTamer`, `ProcTame`, `Unit::damage`). *State*: the area's count, list
and cap; a monster's life and tamer; a player's taming target. *Operations*:
spawn, blow, death, burial, taming and its ends. *Hard*: blows of several
threads land late, on the dead and the buried. *Right*: the area counts what
it has; both sides of a taming agree.

**Network threads** (`NetworkThread.h`, `AsyncAcceptor`): new sockets, their
counter, the stop. **Object pool** (`Globals/MemPool`): handles and deferred
deletion. **Skills and states**, **quests**, **crafting**, **maps and
geometry**, **game data**, **scripts**, **tools**: see section 6.

`PROJECT.json` lists all 34 parts with their sources, and the hazards of each,
by line, with the properties that watch them.

## 2. The models

Twelve modules model, eight prove; the modules named `MC...` only give
constants their values.

| module | models | proofs |
|---|---|---|
| `GameRegistry` | list of game servers, both ends of their connection | `AuthProofs` |
| `LoginHandoff` | a client's way from one server into the other | `AuthProofs` |
| `FifoChannel` | abstract: what a queue or connection promises | |
| `MPSCQueue` | the lock-free queue, step by step | `QueueProofs` |
| `PacketStream` | one direction of a connection | `PacketStreamProofs` |
| `WorldRegions` | regions, introductions and departures | `WorldProofs` |
| `GroupManager` | parties, players and their rows | `GroupManagerProofs` |
| `DatabasePool` | statements, workers, reconnection, close | `QueueProofs` |
| `Items` | inventories, the ground, the rows of items | `ItemsProofs` |
| `Trade` | trades of two players | `TradeProofs` |
| `Monsters` | hate, targets and the way home of one monster | `MonsterProofs` |
| `RespawnArea` | an area, the life and taming of its monsters | `WorldProofs` |

`MPSCQueue` and `PacketStream` both implement `FifoChannel`, by `INSTANCE ... WITH`
and a refinement mapping onto their histories; `PacketStream` uses the queue as
the channel it was shown to be. Modules whose proofs share a file have distinct names
(`MPSCSpec`, `ListSpec`, `AreaSpec` for `Spec`, and so on). The other modules stand alone: `GroupManager` and
`Items` have a queue of writes each, as late and as disordered as `DatabasePool` shows two
workers to be; `Monsters` and `RespawnArea` each leave open what the other decides.

### GameRegistry

`m_games`, `m_pGame`, `m_bIsAuthed`, `players` are the fields of those names
(of a player's record only the index matters here). `session` is the life of an
`AuthGameSession` object: `open`, `closed` (`_closed` set, `OnClose` done),
`destroyed` (destructor done). `proc` is the game server's process; `login`,
`sendQueue` and `wire` are the login and the answer at each stage of their way.

`RegisterGame` and `RefuseGame` are the two outcomes of `HandleGameLogin`. A
refusal queues the answer *and closes the socket in the same call*, so it
includes `OnClose`, run with the identity just copied from the packet. `Flush`
is `Update` writing the queue of an open socket; `Destroy` the destructor, on a
later tick. The sweep erases from the map it iterates over; what a
`range-for` does after that is undefined, so the model lets any further matching
records be met or missed.

A handler is one action because Mononoke starts one network thread for game
servers. A member of `Servers` is one run of a game-server process: Chihiro
connects once and logs in once, and a restarted server is a new member with the
same index and name.

`rushed` is history: a server was once started while a session with its index
was not destroyed yet. `ConnectedListed` is promised only until then; the code does
not prevent it, and what fails after it is in section 5.

### LoginHandoff

Both servers and the FIFO link between them (`toAuth`, `toGame`). A member of
`Clients` is one run of a client program, and its one-time key and `Player`
object carry its name: two keys drawn at random are taken to be different.
`HandleLoginPacket` includes the kick and the deletion of the older record;
`AuthOnClose` deletes the session's own object, whatever is listed;
`HandleClientLogin` answers without a name if there is no record;
`HandleClientLoginResult` gives the verdict to whoever waits under the account;
`WorldOnClose` sends a logout only if the session has an account name by then;
`HandleClientKick` looks for a *character* with the account's name.

What a client shows to the game server is not checked there. `AccountToAuth` takes
any name and any key, 0 included (`KeyIs`: the key of a record is 0 until a game
server is selected), and `ResultFromClient` is a result that the client sends
itself: `onAuthResult` is in the table of its packets. Clients in `Unruly` do both,
`MaxStrays` times together; the others keep to their own.

Histories: `granted` has the sessions that sent a right key, `vouched` those that sent
themselves a result, `contested` the accounts under which two sessions waited at once,
`shared` those that two clients used at once (`User`: with a session, a place in the
queue or something under way) or somebody without its name or key, and `doubleFree` the records
deleted twice. Nothing forbids any of this: the code would have the kick prevent it,
which does not work (section 5), and properties name the histories where they need them.

Writes through a pointer to a deleted record land in freed memory and change
nothing that is modelled; reads of it are a choice. Each handler is one step:
the unlocked look-ups in the list are a hazard of their own (section 6).

### MPSCQueue, FifoChannel

`Exchange` and `Link` are the two halves of `Enqueue`; `Dequeue` is one action
because only the consumer writes `_tail` and it reads one link. The exchange is
acquire-release and the link a release, so sequential consistency loses nothing.
Nodes are not reused after deletion: the property is that nothing reaches them.
`sent` and `received` are histories in the order of exchanges and returns;
`FifoChannel` says that the second is a growing prefix of the first.

### PacketStream

A byte is named by packet and offset, so a mixture of two packets is visible.
`BeginUpdate`, `Pack`, `EndPack`, `Flush` are `XSocket::Update` taken apart,
because `SendPacket` of other threads can fall between any two iterations.
`WriteSome` is `HandleQueue`: any number of bytes up to the room in the kernel's
buffer, and a notification asked for if the buffer did not go entirely;
while one is awaited `Update` does not write. The room for a packet is tested
twice, against its size and against its size *plus a header*; both tests are
kept; states in which no packet meets a room they disagree about are `Roomy`, and
the history `cramped` has the packets that did. `Feed` is
the receiver's loop for one byte, `Fed` repeats it for the bytes that arrived, and
`ReadHandler` leaves what comes of that. A header of more than `MaxSize` (4098) ends the
connection. The cipher is a position in a key stream: a packet
decodes only if it is the one whose turn it is, so where packets are encrypted an overtaking one
is garbled; where they are not (the link of the two servers) it is handled out of order. `encrypted` is
one or the other from the start. `DelayedCloseSocket` has no
caller and is left out.

### WorldRegions

Positions are regions; `list` are the vectors, `region_index` the place an
object believes it has, `seen` what a client draws. A call is a sequence of
steps (`call[t].pc`), because a region is locked only for one vector at a time:
entering introduces first and lists after; leaving looks the region up by the
coordinates, removes, then tells; moving writes the position first. The ASSERTs
of `Region::addObject` and `removeObject` are steps to `crashed`. Both loops over
visible regions keep their bounds, which stop one row early.

External: the protocol has no message for walking out of sight, so a client is
assumed to forget what it no longer sees. One layer is modelled, and of
`WarpEnd` only the player's part, not that of its summons.

*Regime*: `Isolation`. `"none"` is the code. `"object"` keeps two threads away
from the same object, `"world"` keeps calls from overlapping at all.

### GroupManager

`parties` is `m_hshPartyID`, `field` the player's party id, `partyRow` and
`charRow` the tables' columns, `queue` the statements in front of the worker.
Commands are split where the lock is given back or a callback reads outside it:
`LeaveParty`/`FinishLeave`, `DestroyParty`/`FinishDestroy`, `ReadCharacter`/`onLogin`,
`LogoutNow`/`CleanupsBeforeDelete`. `WorkerThread` applies one statement, with
the tables' keys: an insert with a taken id or a taken leader fails and nobody looks.
`Restart` loads the tables; it comes in good order, or, with `MayCrash`, in
the middle of anything. `FinishLeave` uses a pointer into the map after the lock
was given back: it goes on, or the server dies, which is `Restart`.

Names and passwords only decide who may join, which any player may here. A
character is logged in once at a time.

`LeaderIsMember` and `RestartKeepsMembers` hold as long as the server did not
crash (`crashed`, a history), `OneParty` in any case.

*Regime*: `Patient` says that a character returns only after its own saves were
applied. The code does not wait (section 5). The statements in `queue` are applied
in order: with the two workers of the distributed configuration two writes to one
row may be applied the other way round (`LastWriteWins`, section 5).

### DatabasePool

Statements are numbers in the order of `Execute`; a statement overwrites one row
with its number, a ping (`KeepAlive`) none. `WaitAndPop`, `Push`, `Cancel` are the
queue's functions under its lock: `Push` wakes one worker that waits (`notify_one`),
and a wait may end without a cause (`SpuriousWakeup`). A worker is `popped`, `sent`,
`applied` or without connection (`LoseConnection` before or after the statement took
effect), reconnects up to `Attempts` times, and `Skip`s what MySQL refuses. After the last
attempt the process aborts, which ends the behaviour. `CloseNext`, `CloseCancel`, `CloseJoin` are
`DatabaseWorkerPool::Close`, which destroys one connection after the other: cancel
the queue, wait for the worker, close the connection. `holds` and `wants` are the
callers of `Query`, on synchronous connections. External: what MySQL does with a
statement (`Apply`). No one calls the pool once `Close` was called, as its comment asks.

### Items

The inventories are each player's bag and storage. `list` is `m_vList`, `index` the item's place,
`owner`, `count` and `row` the rest of an item, `registered` the collector's map, `inWorld` the
ground. The operators `Push` and `Pop` are `Inventory::Push` and `Pop` (join, divide, the last
item into the gap, the rows). Dropping and taking go in steps, because each takes
several locks: `DropItem`, `RegisterItem`, `AddObjectToWorld`; `TakeItem`, `UnregisterItem`, `TakeIn`; in
`hand` is the pointer the handler keeps meanwhile. `due` is history: the units there
should be.

`row` is what was *last written* to the row of an item; the write waits in the queue of the
database. `late` has the older values that the table may hold instead, or, with two workers, come to
hold again; `Execute` is the workers being done with a row. `Relogin` saves, and reads the items with
a query past the queue: it finds what was last written, or (`misread`) not, and what follows is
not modelled. `Crash` is the end of the process and the next start, from any table the
late values permit. `Reload` is the list the rows are read into, in any order, because the queries have
none; a second stack of a code, which a crash can leave, joins the first (`Joins`, `Firsts`).

A client names items that are not its own: the handlers look them up and refuse them by owner, but
`onDropItem` does not, and an `ASSERT` of `Inventory::check` ends the server (`DropOther`). Memory of a freed item is not used again.
*Regime*: `DropsAlone` says that no other step comes between those of a drop.
It is `FALSE` in the run.

### Trade

`target`, `frozen`, `accepted`, `window`, `tradeGold` are the fields of a player's half, `told`
what the client was last told of the other's offer. The handlers are those of
`onTrade`, with the packets of a moving player, of one's own handle, and of a
storage that is open. `onConfirmTrade` goes in steps (`ConfirmTrade`, `CheckPassed`, `Pay`,
`Give`), the end of a `Player` object (`DeletePlayer`) is on the world thread and leaves the
other half with a handle that leads nowhere (`Gone`). Units and gold are numbers; the
distance, the weight and the bind of a card are choices of refusal.

A packet names the player it is for, and nothing compares that with the partner:
adding, removing and gold change the sender's offer and tell whom the packet names;
a confirmation sets the sender's flag if the *named* player trades with it and has frozen.
`astray` is history: who told another player than its partner of a change; `agreed`:
whom a player named when it accepted; `disturbed`: to whose `onConfirmTrade`
others came in between, changing what the two have or offer. The properties are
stated relative to these. `Restless`, `Careless` and `Straying` bound who logs out and uses its storage,
who disposes of (drops, sells, spends, puts on) what it offered, and whose packets name
others. An item that is worn by the time it is to be given is refused by `GiveItem` (`Worn`).
Other handlers than `onConfirmTrade` are one step each.

### Monsters

One monster, since monsters do not touch each other. `mob` has the fields of the
object, `turn` the part of its update the world thread is in: `Update` reads the status
and calls `OnUpdate`; `Fight`, `Slay`, `Roam` or `Stand` is what the status calls for; `Move` is the pending
move and the walk. `Provoke` and `Calm` are blows and skills of players and fall between
any two parts. `Pursue`, `findNextEnemy`, `addHate` are operators from the monster to what it may
become, because who is in sight, how far and how much hated is left open. The
look-up of a tag resets its time (`Monster.cpp:1132`), so every pass with a tag makes the monster look for its
next enemy. `dropped` is history: the last way home was given up for a state.

### RespawnArea

`area` is the `RespawnObject`, `mob` its monsters' life, health, tamer and whether they
still report to the area (`handler`), `player` where a player is, `tame` its
`m_hTamingTarget`. A blow has two halves, because network threads and the world
thread do not wait for each other: `Strike` finds the monster alive; `Wound`, `Kill` or `Miss` is
where it lands. `Kill` is `onDead` with `ProcTame`. `ProcessDead` tells the area, once, and
buries. Timers are left open: an area may spawn whenever its count permits, a
taming time out in any update.

## 3. The runs

Twelve runs, listed in `PROJECT.json` with their properties. Eleven check that
properties hold, one that a regime is needed.

| run | instance | distinct states | what it shows |
|---|---|---|---|
| `registry_shared` | 3 servers, two of them on one index, two of one name; 1 account; fair | 140,625 | A listing never points to a closed or destroyed session and is never handed over in one step; closing sweeps only players of the index of the session that closes; an accepted server stays listed while servers are started one after the other; a stopped one is unlisted |
| `handoff_listed` | 3 clients, 2 of one account, the third unruly; bob's character is named `alice`; fair | 238,029 | The list holds live records of the right account; over the link only a right key of its own admits a session, unless two waited under the account; as long as one client at a time uses an account: no double delete, admitted stays listed, everyone is answered, everyone who played is removed |
| `handoff_misdelivered` | 2 clients, 1 account | violation | Two clients wait under one account: the verdict on one key admits the other session |
| `queue_fifo` | 3 producers, 5 nodes, fair | 4,406 | The queue refines `FifoChannel`, touches no deleted node, delivers |
| `stream_intact` | 3 packets of 3, 4, 9 or 10 bytes, buffer 8, wire 4, largest accepted 9, encrypted or not, fair; the peer stops at the third | 205,976 | Whole packets, once each, in order but for those that met room without a header more; nothing lost while open; everything delivered unless the connection ends or the peer stops reading |
| `regions_met` | strip of 3 rows, 2 players, 1 summon, calls one at a time | 31,584 | Between calls clients draw what they see, and nothing that is gone; vectors and back pointers agree; no `ASSERT` fails |
| `party_open` | 2 characters, 3 party ids, queue of 2, crashes anywhere | 1,053,532 | Nobody is in two parties, tags follow players; until a crash a party has its leader and a restart loses no member |
| `database_done` | 2 workers, 1 caller, 3 statements, 2 faults, 2 attempts; fair | 86,026 | Every statement is accounted for, started in order, and in the end executed or skipped; no worker uses a closed connection; `Close` returns |
| `items_carried` | 2 players in one party, 3 potions and a sword, rows written late, crashes; symmetric | 201,506 | An item is in one place, one stack of a code per inventory, nothing out of reach; no unit is made or lost until a player returns before its rows were written; what is last written to the rows says where everything is |
| `trade_settled` | 3 players, the packets of one of whom name anybody, or 2, one of whom logs out, uses its storage and disposes of what it offered; steps of confirmations interleaved | 365,704 | What was told is what is offered unless the offer was told to another; what was accepted from the partner named is what one gets; a trade nobody came in between is settled whole |
| `monsters_settled` | 2 players, states that hold the monster; fair | 21,728 | A monster is only after whom it actively hates; with nobody to fight it gets home |
| `area_populated` | 3 monsters, 2 players, 2 to 3 at a time, 2 per spawn, health 2; symmetric | 400,563 | The area counts what it has; a tamer in the game knows its monster |

Two more configurations pass: `GroupManager_calm` (3 characters, 2 ids, restarts in good
order; 500,334 states) and `WorldRegions_indexed` (2 threads on different objects, calls
interleaved; 91,268). The properties of `registry_shared` also hold with
`IdxOf <- SharedIdx` (157,185) and with `NameOf <- SameName` (140,625).

### Bounds

*Servers, 3.* Two runs of one configuration are needed for a restart that meets
its own past, a third for one that has nothing to do with it. *Clients, 3.* Two
on one account, and one whose character bears an account's name, the only way
the kick finds anybody, and who strays once. All three take part while each keeps to itself with one
message under way, then two at a time (`MCBound`): the two of one account with two messages, or the
third and its victim with one. *Producers, 3; nodes, 5.* Three producers can stand
between their steps at once, so that a broken chain has a break within a break,
and four packets let nodes be consumed while others are linked. *Packets, 3.* One being read, one in a
buffer, one in the queue. Sizes are chosen around the send buffer (8): 3 and 3 go into one, 4 after 4 has
room for itself but not for a header more and overtakes, 9 never fits, and 10 is more than
the peer accepts; the wire (4) is smaller than any buffer,
so every write of a buffer is partial. *Regions.* The strip of `regions_met` has
regions that see each other and some that do not, within the three rows that
the loops cover; the two regions of `WorldRegions_indexed` make all swaps happen in
vectors of two. *Party ids, 2 or 3; queue, 1 or 2.* Ids are handed out anew
after a restart, so few ids suffice to meet a used one again. A full queue only
delays the caller: the bound on it excludes behaviours with longer queues, not
steps. `MaxMembers` is 2 so that parties do fill up (8 in the code).
*Statements, 3; workers, 2.* One in the hands of each worker and one in the queue;
two faults let a reconnection fail once and succeed. *Potions, 3; sword.* Three objects
of one code are one stack, what was divided from it and what lies on the ground at
the same time; the sword is never joined. *Units, 3*, so a stack can be divided
twice; the sword and three units are not there together (`FewUnits`). *Late values, 1* (`MaxLate`): one row at a
time is not what was last written to it; the proofs have no such bound. *Trade.* One unit and one piece of gold. One player has the unit; either it meets one with the gold
and a third, who has nothing, whom either may trade with meanwhile and whose packets name whom it
likes; or it meets a fourth, who has a unit and gold and is restless and careless (`MCBound` keeps the two meetings apart, and the third from offering gold). *Monster.* Two players: one it is after, one to turn to. *Area.* Prespawn 2, cap 3,
increment 2: the first spawn fills the area, the second is cut by the cap; three
monsters, so one can be dead and one buried when the third is alive. Monsters are not
used again, so a behaviour ends when all are buried; the proofs have no such bound.

The proofs cover, without bounds, what they cover (section 4).

### Fairness

Safety is checked without fairness. For liveness:

- `GameRegistry`: handlers of what was received, the write of what was queued,
  the notice of a closed connection and the destructor are weakly fair: network
  threads loop for as long as the process runs. Starting, stopping and resets
  are not fair.
- `LoginHandoff`: the servers handle what is in the link, and drop closed
  sockets. No step of a client is fair.
- `MPSCQueue`: a producer inside `Enqueue` finishes, and the network thread
  calls `Dequeue` each tick. Starting an `Enqueue` is not fair.
- `PacketStream`: `Update` every 10 ms, and the handlers when their operation is
  ready. Sending and closing are not fair.

- `DatabasePool`: a worker goes on, and `Close`, once called, goes on. Calls, faults and
  spurious wake-ups are not fair.
- `Monsters`: the world thread visits every monster near a client again and again; its parts
  follow each other; states that hold a monster run out and are not renewed for ever at
  every pass (strong fairness of fighting, of starting a pending move and of ending
  a walk: time passes). Players are not fair.

Weak fairness suffices except in `Monsters`: elsewhere nothing but the action itself,
or the end of the connection, disables it.

Deadlock is checked where the system never stops of itself (`regions_met`,
`party_open`, `trade_settled`). In the others every server may be down, every client gone and
every packet, statement and monster used up, so `CHECK_DEADLOCK` is `FALSE`.

## 4. The proofs

All are of the specification as it is run, for any values of the constants.

**GameRegistry.** `RegistryInv` = `TypeOK` ∧ `ListedConnected` ∧ `LoginOnce`.
`ListedConnected` alone is not inductive: a session that logs in again could
change its index under a listing. `LoginOnce` says a login is sent once, and a session whose login is
still to come is not authenticated, so not listed. `CloseEffect` says what a close can do to
the list, and each step that closes cites it. From this
`Typing`, `ListedConnect` and the action properties `Replaced` and `Spared`.
`Patience` proves `ConnectedListed`. Its
invariant `PatientInv`, kept while ¬`rushed`, adds that of the sessions of an index at most one is not
destroyed (`AliveAlone`) and that `m_pGame` holds either the constructor's values or the
login's (`GameFilledIn`); then a session that closes finds under its index
itself or nothing (`OwnListing`).

**LoginHandoff.** Three theorems, for any clients, accounts and messages under way, whatever the clients
name, show and send. `ListedIsLive`: `ListedLive` is
not inductive: a client that logs in could have its own record listed already,
and would free what it just allocated. `Authed` rules this out (a record is listed only
after its session began, and a session logs in once).

`KeyHolders` (`VerdictReachesAsker`): of an account that is not contested all that is asked and answered is
due to one session (`Alone`), nobody else waits (`Queued`), and a good answer is to a right key (`Right`); so
whoever takes the answer sent the key.

`InGameListed` (`AdmittedListed`): `EInv` follows an account that is not `shared` through both servers. At most one
client uses it (`Sole`); what outlives its session is in the game (`Kept`), and who is in the game has its record
listed with its flag set, so that no closing session takes it out (`Served`). The heart is what messages say when they
arrive: a key is of who sent it (`OwnKey`), a good verdict is about the record that is still listed (`Verdict`), and
a logout comes from a session that is gone (`Leaving`).

**MPSCQueue.** `QueueInv` describes the chain: the nodes are `Stub`, `sent[1]`,
`sent[2]`, ...; a link that exists leads to the next of these (`Links`); a missing
one belongs to exactly one producer between its steps (`Pending`, `OwnNodes`);
`Dequeue` has taken a prefix of the chain and deleted what lies before it (`Chain`,
`FreedPrefix`). Consequences: `NoNodeUsedAfterFree`, and `ImplementsFifo`, that every behaviour
of the queue is one of `FifoChannel`, step by step or stuttering.

**PacketStream.** `IInv` = `TypeOK` ∧ `Waiting` ∧ `Order`. `NothingLost` counts bytes; what makes it inductive is that
they stand together: there are two rows of packets `o` and `i` such that the reader's buffers, the
wire and the queue of buffers hold, one after the other, exactly the bytes of `o` (`Ahead`, with what the reader
still needs of the first), and the buffer of `Update` those of `i` (`Ordered`). Packing moves a packet to the end of `i`
or, in a buffer of its own, of `o`; shipping the buffer makes `o` of `o` and `i`; a write moves bytes inside `o`; and
each byte read either goes to the reader's buffers or completes the first packet of `o` (`FeedAhead`, and `FedAhead` for
any number of bytes). Theorem `NothingIsLost`, whether `Roomy` or not: the code reorders packets but loses none.

`ConnectionIsFifo` is `Spec` ∧ □`Roomy` ⇒ `FifoSpec`. `FifoInv` = `IInv` ∧ `Row`: while the connection is
open, the packets handled, those of `o`, those of `i` and those waiting are, in a row, all that were sent, in the order of `SendPacket`
(`InRow`). `Roomy` is needed in one place, `OrderPack`: without it a packet in a buffer of its own passes those of `i`. After a
close the row is broken off at some point, and what is before it still arrives in order (`Broken`). So what the peer has
handled is a beginning of what was sent, and a read takes it further (`GoesOn`): a step of the channel. Nothing in the code
makes for `Roomy`; what it keeps of the order without it is `OnlyCrampedOvertake`, which is model-checked only,
and `PacketStream_reorder` is what a comment of the code does not expect.

What `FlattenSeq` and `Fed` come to is proved with sets of numbers that contain 0 and every successor (`NatAll`, from
the library's theorem that every set of numbers has a least).

**WorldRegions**, if `Isolated` (`Isolation` is not `"none"`). `RegionInv` = `TypeOK` ∧
`Indexed` ∧ `CallsOK` ∧ `Own` ∧ `Placed` ∧ ¬`crashed`: vectors and back pointers
agree; each call stands where its object is (in its
region or in none); no two calls have one object; outside calls an object in the
world is in the region of its position. The heart is `RemoveEffect` and the
lemmas on it: a swap with the last object, which may be the object itself, keeps
all the indexes right. Theorems `Correct` (no ASSERT fails), `ListsIndexed`, `Typing`.

If `AllSeen` (`Isolation` is `"world"`, and of the regions that the objects reach a loop over visible regions
meets all a client sees): `ViewInv` = `Solo` ∧ `InSight` ∧ `Real` ∧ `Met` ∧ `Meeting`. `Met` and `Real` are the
two properties, for the objects without a call; `InSight` says that who draws an object is near enough to be told
when it leaves; `Meeting` is what makes `Met` inductive: an object coming in has met all it
sees from the first step on, one that moves only what it saw from its old region too, and `enterProc`
makes up for the rest. `OthersSeeTheSame` reduces a step to what it does for its own object.
`RowsReached` shows that three rows above the last of the map satisfy the condition. Theorems `EverybodyMet` (`Acquainted`),
`NobodyGone` (`NoGhosts`).

**GroupManager**, if `Patient`. `PInv` = `IInv` ∧ (`crashed` ∨ `Stored`), checked by TLC on both
configurations before it was proved. `IInv` = `TypeOK` ∧ `Leaders` ∧
`Members` ∧ `Destroyers` is about the lists in memory: who is listed has the party as its field, or, when it is
not in the game, in its row as the queue will leave it (`Column`: the last save of it in the queue or, without one,
the row). The list of a party whose `DestroyParty` is past the reset of the fields (`Dying`) is excepted,
because its members may be in another party before it is gone; only its leader destroys it, once (`Destroyers`).
`Stored` is about the rows, until a first crash: every row and every insert in the queue is of a party in
the map with that leader, or a deletion follows (`Rows`, `Inserts`); an insert will find the
earlier row of its leader gone (`Successive`), so that it does not fail unnoticed; a party in the map has its row or the insert (`Written`);
no deletion waits for an id yet to be handed out (`Deletions`). After a crash only `IInv` is left, which a
restart from any rows restores. Theorems `SingleParty` (`OneParty`), `TagsTrue` (`TagsFollowPlayers`),
`LeaderListed` (`LeaderIsMember`), `RestartKeeps` (`RestartKeepsMembers`). Lemmas on the first tag of a list, the highest id
and `SetToSeq` come first; they rest on the library's theorems on well-founded orders and
cardinality.

**DatabasePool.** `PoolInv` = `Types` ∧ `InLine` ∧ `Started` ∧ `NotUsedClosed`. `InLine` is what makes it inductive: the
queue holds the numbers that follow those taken out of it, without a gap, so its
head is later than all that was started and new to every worker. Theorems `EveryStatement`,
`InOrder`, `ClosedUnused`.

**Items.** `IInv` = `Sound(Store)` ∧ `Older` ∧ `Types` ∧ `Hands` ∧ `Ground` ∧ `Somewhere` ∧ `Visible`. `Sound` is about the store of lists, places, owners, counts and
rows alone: its parts have their types (`StoreType`), lists and items point to each other (`Listing`), an item has a
row and units if it has an owner (`RowsTell`), and an inventory has one stack of a code (`Apart`). What the table may hold
instead of a row is one of `late`, always a row somebody wrote (`Older`), so that what is read after a crash has types to rely
on; joining what it finds makes it `Sound` again (`Reread`, `Restarted`). It is kept by every operator, one lemma each
(`Pushed`, `Popped`, `Saved`, and what they are made of: `Rewritten`, `PushedEnd`, `TakenOut`), where the last item that takes the place of
one removed, and may be that one, is the hard case. `OnePlace` alone is not inductive: two players may have the same item in hand. `Hands` says that who has popped
or won an item has it alone; of two that found it on the ground the collector's list decides. Theorems `ItemsOnePlace`, `ItemsNoneStranded`, `ItemsRowsFollow`.

`ItemsConserved` (`Conserved`): `Even` follows the units of a code through every operator. Lemmas on sums say what one count more, less or
moved does to the sum, by a set for which they fail and that has no smaller such subset. A stack that joins another
after a crash brings the units of its row (`SumParts`). All four hold with `DropsAlone` or without, and however late the rows are.

**Trade.** `HalfInv` is about the halves, `RestInv` about everything else. `SeenIsOffered` needs that nobody
trades with itself (`NotItself`); `NoSwitch` needs `Froze`: whoever has accepted its partner faces an offer
that is frozen. Theorems `Typing`, `Seen`, `Accepted`.

`CallInv` = `Carried` ∧ `Backed`. Where nobody came in between, who confirms has accepted, the other has once
that was checked, and the two have one trade once they have paid (`Carried`, by `OwnStep`: only its own steps take a confirmation
further); whoever is not `Careless` has what it offers, whoever came in between, because
what takes items out of a bag takes the offer with it (`Backed`). Theorem `Settled` (`AllOrNothing`): gold is paid by both or neither, and then the items
are given by both unless one of them disposed of what it offered. None of the four assumes anything of who does what.

**Monsters.** `TargetHated` is inductive once each operator (`findNextEnemy`, `addHate`, `RemoveHate`, ...) is shown to lead from
a monster that satisfies it to such monsters only, one lemma each. Theorem `AfterHated` (`TargetHated`).

**RespawnArea.** `IInv` = `Populated` ∧ `TamerKnows` ∧ `Fresh` ∧ `Strangers`. `Fresh` (what was never allocated does not report,
and before its first update the area has no list) makes the first spawn, which
fills the area without regard to the count, stay within the cap. `Strangers` (who has not
entered tames nothing) is what a player who enters needs. Theorems `Population`, `Taming`, for
every area and any number of monsters.

**Assumptions** are those the modules state on their constants, all about
distinct model values, the types of the parameters and, in `GroupManager` (`CharacterAssumption`), that there are finitely many
characters, without which `LoadPartyInfo` makes no list, in `Items` (`ItemAssumption`) finitely many items, without which
there is no sum of their units, and in `PacketStream` (`SizeAssumption`) that no packet is smaller than a header; the runs evaluate them. The theorems
of a regime have it as a hypothesis: `Isolated` for `Correct`, `ListsIndexed` and `Typing` of `WorldRegions`,
`AllSeen` for `EverybodyMet` and `NobodyGone`, `Patient` for
all of `GroupManager`, □`Roomy` for `ConnectionIsFifo`. Each regime is the one of the run that checks the same property, and
section 5 shows what the code does outside of it.

**Only model-checked:** liveness (`StoppedUnlisted`, `Delivered` of both modules, and so on: properties under fairness, which the provers
do not reason about).

`Acquainted` is a weak promise: it is false with overlapping calls (an object is introduced
before it is listed, so of two that arrive together neither may see the other)
and on maps higher than three rows or reaching the last row (the loops stop
early).

## 5. Where code and text disagree

One disagreement is a run: `handoff_misdelivered`. The others are stated as properties
in the modules, and TLC finds each violated in a configuration of its own, or, where
the second column says *in* a run, in that run's configuration with the property
in place of the run's properties, and the constant changed that is named. The traces are short.

| property | configuration | what happens |
|---|---|---|
| `AlwaysListed` | `GameRegistry_duplicate` | A refused duplicate closes its socket in the same call; `OnClose` finds the *original* server under the refused one's index and equal name, sweeps its players and unlists it, although it is still connected (`AuthGameSession.cpp:170`). `AuthClientSession.h:41`: "sends the client the currently connected gameserver(s)". |
| `AlwaysListed` | `GameRegistry_restart` | The destructor of an old session removes whatever is listed under its index, also the server that has taken it over since (`AuthGameSession.cpp:40`). |
| `RefusedServerShutsDown` | in `registry_shared` | The refusal is queued on a socket that is closed before any `Update` writes it. `GameAuthSession.cpp:132`: "Authserver refused login! Shutting down...", which a refused server does not get to. |
| `KickTakesEffect` | in `handoff_listed` | The kick carries an account name and is looked up among character names (`GameAuthSession.cpp:94`). `AuthGameSession.h:48`: "Kicks a player from the gameserver". |
| `AdmittedUnlisted` | in `handoff_listed` | A session that closes before its verdict sends no logout, is then admitted, and its record stays (`WorldSession.cpp:53`). `AuthGameSession.h:42`: "removes player from our list". |
| `OwnBufferOnlyIfLarge` | `PacketStream_reorder` | A packet that the send buffer has room for, but not for a header more, is queued in a buffer of its own *before* the buffer with the packets sent earlier (`XSocket.cpp:39`). `XSocket.cpp:41` calls it a "single packet larger than 4096 bytes". |
| `RegionAlwaysCorrect` | `WorldRegions_race` | Two threads in calls on one player make an `ASSERT` of `Region` fail (`World.cpp:360`). |
| `NoGhosts` | `WorldRegions_ghost` | The loop over visible regions stops one row early, so a player three rows down is not told that an object left (`RegionContainer.h:74`). `World.cpp:362`: "Send one to each player in visible region". |
| `OneParty` | in `party_open`, `Patient = FALSE` | A player who returns before its save was applied reads the party id of before, is still in its party's list, and joins another (`Player.cpp:164`). `AllowedCommandInfo.cpp:184`: "ERROR_YOU_CAN_JOIN_ONLY_ONE_PARTY". |
| `RefusedOnlyMembers` | in `party_open` | A member not in the game when its party is destroyed keeps the id and is refused every other party for good (`GroupManager.cpp:51`). |
| `LastWriteWins` | in `database_done` | Two workers execute two statements at once, and the older write to a row comes last. `chihiro.conf.dist:17` sets two workers. It holds with `Worker <- OneWorker`. |
| `ReadsLastWrite` | in `database_done`, also with `Worker <- OneWorker` | A query on a synchronous connection passes the writes still in the queue (`Player.cpp:435` reads the items so). |
| `DrainedAtClose` | in `database_done` | `Close` cancels the queue and what it holds is deleted unexecuted (`DatabaseWorker.cpp:34`). |
| `SeenIsRegistered` | in `items_carried` | An item is listed for the collector before it is in the world and gets its drop time last: the collector takes it from the list in between, and it lies in the world for ever, to be seen and not taken (`World.cpp:580`). It holds with `DropsAlone = TRUE`. |
| `RemovedIsThere` | in `items_carried` | The same, with another player: who takes the item removes it from a region that does not hold it yet. `Region.cpp:112`: "If this ASSERT fails, fix your fricking code". It holds with `DropsAlone = TRUE`. |
| `ReadsItsItems` | in `items_carried` | A player that returns at once reads its items past the writes in the queue (`Player.cpp:434`, a synchronous query; `Item.cpp:122`, a queued one): it has units again that it gave away, or misses what it got. |
| `NoneFromCrash` | in `items_carried` | Dividing a stack writes the row of the new one and not of what is left: a crash before the next save leaves more units than there were (`Inventory.cpp:67`). |
| `NoRobbery` | in `trade_settled` | Money is paid before the items are given; when the giver has dropped or put on its item the trade fails in between, and the payment stays (`Player.cpp:3746`). |
| `SettledOnce` | in `trade_settled` | Both players confirm at once, each finds that the other has confirmed, and both settle the trade (`WorldSession.cpp:2194`). |
| `PartnerTold` | in `trade_settled` | Offers name whom the packet says: the offer changes and the partner keeps what it was told before (`WorldSession.cpp:2067`). |
| `MayEnd` | in `trade_settled` | `onTrade` ignores every packet of a player whose storage is open, and `onStorage` refuses to close it during a trade: neither can be ended (`WorldSession.cpp:1939`). |
| `SettlesHeld` | in `monsters_settled` | A pending move that finds the monster held is forgotten (`Unit.cpp:180`); the flag of the way home stays, and the monster neither attacks first nor moves. |
| `TargetFought` | in `monsters_settled` | A target found in the normal status does not change the status: the monster is after somebody and never fights (`Monster.cpp:695`). |
| `TargetTamed` | in `area_populated` | The timeout of a taming clears the monster's half only (`Monster.cpp:481`): the player cannot tame again until it returns to the game. |
| `DiesOnce` | in `area_populated` | Two blows that both found the monster alive both call `onDead`, which gives experience, gold and items (`Unit.cpp:1410`). |

Met while reading, with no order of events to explore: the ping of the server
link compares a time with itself plus 18000 and is never sent
(`AuthNetwork.h:55`); `World::AddSession` has no caller, so the inactivity timeout
never fires (`WorldSession.cpp:1553`); the sweep of `OnClose` erases under its own
iterator (`AuthGameSession.cpp:58`), as does the item collector
(`ItemCollector.cpp:66`); a monster is never `STATUS_INVINCIBLE`, though it is
asked (`Monster.cpp:759`); `AllocMiscHandle` counts in the range of items and
`AllocItemHandle` in that of the others (`MemPool.cpp:42`).

## 6. What is not modelled

- *Floating-point rules* (damage, experience, drop tables, states, the stats in
  `CalculateStat.cpp`): functions of tables, without interleaving of their own. With the
  tables' loaders (`ObjectMgr.cpp`) and the packets built from them (`Messages.cpp`) they are
  the largest part of the source.
- *Casting of skills*: targets, delays and the hundred effects of `Skill.cpp`; only
  the effects on hate and taming are in the models.
- *How much a monster hates*, who gets which share of its experience, dungeon raids, and
  /killall, which kills a monster from its own update (`Monster.cpp:416`).
- *Quests, crafting, titles, jobs, worn items*: one player's bookkeeping in one
  handler.
- *Map geometry and loaders*, *packet declarations*, *scripts' bindings*,
  *dungeon and respawn tables*: data.
- *Ciphers*: pure functions, except for the position of the stream cipher.
- *Logging, configuration, utilities, tools, vendored code*: no part in the
  servers' behaviour.
- *Memory after it was freed* (the object pool, the unlocked look-ups in maps that
  another thread changes): what the program then does is not defined. The models
  say where it happens.
- *Loss of the server link in LoginHandoff*: GameRegistry has it.
- *Network threads*: the acceptor, the counter of connections and the stop.

## 7. Plan

1. **NetworkThreads**: new sockets, the counter, the stop; and the socket of the
   server link, whose handlers and `Update` are on two threads.
2. **Compositions**: LoginHandoff with the loss and restart of GameRegistry;
   PacketStream over MPSCQueue; GroupManager and Items over DatabasePool.
3. **SkillCast, Quests**: state machines of one thread or two players.

Out of the prover's reach, and staying with TLC: liveness. Folds and recursive functions are not:
what they compute is proved by a least counterexample (`Items`) or a set of numbers
(`PacketStream`) instead of by induction.
