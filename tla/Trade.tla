------------------------------- MODULE Trade -------------------------------
(***************************************************************************)
(* Trades between players: the TS_TRADE handlers of WorldSession and the   *)
(* trade window of a Player.                                               *)
(*                                                                         *)
(* Each player keeps its own half of a trade: whom it trades with, what it *)
(* offers, whether it froze and accepted.  Nothing keeps the two halves    *)
(* together.  A packet of a moving player clears one half, a logout leaves *)
(* the other with a handle nobody answers to, a cancel clears the half of  *)
(* whoever the handle leads to.  The handlers of two players run on two    *)
(* network threads, the end of a Player object on the world's.             *)
(*                                                                         *)
(* onRequestTrade and onRejectTrade pass a message on and change nothing;  *)
(* the server does not remember requests.  Distance, weight, the bind of a *)
(* card and the taming of a monster may make a handler refuse: such a step *)
(* changes nothing, or is a choice below.                                  *)
(***************************************************************************)
EXTENDS Integers

CONSTANTS
    Player,       \* characters
    NoOne,        \* PLAYER_FIELD_TRADE_TARGET is 0
    Gone,         \* PLAYER_FIELD_TRADE_TARGET is the handle of a destroyed Player
    Kind,         \* codes of joinable items: a player has one stack of each
    MaxCount,     \* bound: units of a kind in one inventory
    MaxGold,      \* MAX_GOLD_FOR_INVENTORY
    Restless,     \* bound: those who log out and use their storage
    Careless,     \* those who drop, sell, spend or put on what they offered
    Straying      \* bound: those whose packets name others than their partner

ASSUME PlayerAssumption == NoOne \notin Player /\ Gone \notin Player /\ NoOne # Gone
ASSUME BoundAssumption == MaxCount \in Nat /\ MaxGold \in Nat /\ Restless \subseteq Player /\ Careless \subseteq Player /\ Straying \subseteq Player

VARIABLES
    place,        \* whether the character has a Player object, in the world or leaving
    usingStorage, \* m_bIsUsingStorage
    target,       \* PLAYER_FIELD_TRADE_TARGET; m_bTrading is set and cleared with it
    frozen,       \* m_bTradeFreezed
    accepted,     \* m_bTradeAccepted
    window,       \* m_vTradeItemList: units offered of each kind
    tradeGold,    \* PLAYER_FIELD_TRADE_GOLD
    told,         \* what the player was told of the offer of its target
    astray,       \* history: those who told another than their partner of a change
    agreed,       \* history: whom a player named when it accepted
    gold,         \* PLAYER_FIELD_GOLD
    bag,          \* m_Inventory: units of each kind
    at,           \* where in onConfirmTrade the session of a player is
    with,         \* tradeTarget of that onConfirmTrade
    disturbed     \* history: those to whose onConfirmTrade others came in between

half == <<target, frozen, accepted, window, tradeGold, told, astray, agreed>>
wealth == <<gold, bag>>
call == <<at, with>>
vars == <<place, usingStorage, half, wealth, call, disturbed>>

Count == 0 .. MaxCount
Gold == 0 .. MaxGold
Offer == [items : SUBSET Kind, gold : Gold]
Nothing == [k \in Kind |-> 0]
NoOffer == [items |-> {}, gold |-> 0]

trading(p) == target[p] # NoOne
Mutual(p, q) == target[p] = q /\ target[q] = p

(* A player who has not got a trade has not frozen or accepted one: the    *)
(* flags of an old trade would otherwise count for the next.               *)
TypeOK ==
    /\ place \in [Player -> {"out", "in", "leaving"}]
    /\ usingStorage \in [Player -> BOOLEAN]
    /\ target \in [Player -> Player \cup {NoOne, Gone}]
    /\ frozen \in [Player -> BOOLEAN] /\ accepted \in [Player -> BOOLEAN]
    /\ window \in [Player -> [Kind -> Count]]
    /\ tradeGold \in [Player -> Gold]
    /\ told \in [Player -> Offer]
    /\ astray \subseteq Player /\ agreed \in [Player -> Player \cup {NoOne}]
    /\ gold \in [Player -> Gold] /\ bag \in [Player -> [Kind -> Nat]]
    /\ at \in [Player -> {"idle", "confirming", "checked", "paid"}]
    /\ with \in [Player -> Player \cup {NoOne}]
    /\ disturbed \subseteq Player
    /\ \A p \in Player : accepted[p] => frozen[p]
    /\ \A p \in Player : frozen[p] => trading(p)

-----------------------------------------------------------------------------
(* The halves *)

(* ClearTradeInfo of every player of S, then a target for some of them.    *)
ClearTradeInfo(S, t) ==
    /\ target' = [p \in Player |-> IF p \in S THEN t[p] ELSE target[p]]
    /\ frozen' = [p \in Player |-> frozen[p] /\ p \notin S]
    /\ accepted' = [p \in Player |-> accepted[p] /\ p \notin S]
    /\ window' = [p \in Player |-> IF p \in S THEN Nothing ELSE window[p]]
    /\ tradeGold' = [p \in Player |-> IF p \in S THEN 0 ELSE tradeGold[p]]
    /\ told' = [p \in Player |-> IF {p, target[p]} \cap S # {} THEN NoOffer ELSE told[p]]
    /\ astray' = astray \ S
    /\ agreed' = [p \in Player |-> IF p \in S THEN NoOne ELSE agreed[p]]

CancelTrade(S) == ClearTradeInfo(S, [p \in Player |-> NoOne])

(* GetTradeTarget: the Player object, also of one that left the world.     *)
GetTradeTarget(p) == {target[p]} \cap Player

OfferOf(p) == [items |-> {k \in Kind : window[p][k] > 0}, gold |-> tradeGold[p]]

(* What a packet with p's offer tells q.  It is of use to q as long as the *)
(* two halves are those of one trade, and forgotten with either half.  One *)
(* sent to another player leaves the partner with what it was told before. *)
Tell(p, q) ==
    /\ told' = [told EXCEPT ![q] = IF Mutual(p, q) THEN OfferOf(p)' ELSE @]
    /\ astray' = IF target[p] = q THEN astray ELSE astray \cup {p}

(* A network thread is in one handler of a player at a time.               *)
Turn(p) == at[p] = "idle"

(* What onTrade lets through to the handlers: the player does not use its  *)
(* storage; that it does not move is a choice (PacketWhileMoving).         *)
onTrade(p) == place[p] = "in" /\ Turn(p) /\ ~usingStorage[p]

isValidTradeTarget(p, q) == p # q /\ place[q] = "in"

(* Offers and confirmations take the other player from the packet, which   *)
(* nothing compares with the partner, and do not ask whether there is one. *)
Names(p, q) == q = target[p] \/ p \in Straying

-----------------------------------------------------------------------------
(* Handlers *)

(* Any packet of a player on the move clears its half, and tells nobody.   *)
(* So do a removal with the partner too far away or out of the world, gold *)
(* added to a frozen offer, and a freeze with nobody to trade with.        *)
PacketWhileMoving(p) ==
    /\ onTrade(p)
    /\ CancelTrade({p})
    /\ UNCHANGED <<place, usingStorage, wealth, call>>

(* A packet with the player's own handle also clears the half of the       *)
(* player it has as target in a fight.                                     *)
OwnHandle(p) ==
    /\ onTrade(p)
    /\ \E q \in Player : place[q] # "out" /\ CancelTrade({p, q})
    /\ UNCHANGED <<place, usingStorage, wealth, call>>

onAcceptTrade(p, q) ==
    /\ onTrade(p) /\ isValidTradeTarget(p, q)
    /\ ~trading(p) /\ ~trading(q)
    /\ ClearTradeInfo({p, q}, [r \in Player |-> IF r = p THEN q ELSE p])
    /\ UNCHANGED <<place, usingStorage, wealth, call>>

(* The half of the target is cleared whoever the target trades with.       *)
onCancelTrade(p) ==
    /\ onTrade(p)
    /\ trading(p)
    /\ CancelTrade({p} \cup GetTradeTarget(p))
    /\ UNCHANGED <<place, usingStorage, wealth, call>>

onAddItem_Frozen(p, q) ==
    /\ onTrade(p) /\ isValidTradeTarget(p, q) /\ Names(p, q)
    /\ \E k \in Kind : \E n \in 1 .. bag[p][k] :
           /\ n <= MaxCount
           /\ window' = [window EXCEPT ![p][k] = n]
    /\ UNCHANGED <<place, usingStorage, target, frozen, accepted, tradeGold, agreed, wealth, call>>
    /\ Tell(p, q)

onAddItem(p, q) ==
    /\ onTrade(p) /\ isValidTradeTarget(p, q) /\ Names(p, q)
    /\ ~frozen[p]
    /\ \E k \in Kind : \E n \in 1 .. bag[p][k] :
           /\ n <= MaxCount
           /\ window' = [window EXCEPT ![p][k] = n]
    /\ UNCHANGED <<place, usingStorage, target, frozen, accepted, tradeGold, agreed, wealth, call>>
    /\ Tell(p, q)

onRemoveItem_Untold(p, q) ==
    /\ onTrade(p) /\ isValidTradeTarget(p, q) /\ Names(p, q)
    /\ ~frozen[p]
    /\ \E k \in Kind : bag[p][k] > 0 /\ window[p][k] > 0 /\ window' = [window EXCEPT ![p][k] = 0]
    /\ UNCHANGED <<place, usingStorage, target, frozen, accepted, tradeGold, told, astray, agreed, wealth, call>>

(* Only an item the player still has can be taken out of the window.       *)
onRemoveItem(p, q) ==
    /\ onTrade(p) /\ isValidTradeTarget(p, q) /\ Names(p, q)
    /\ ~frozen[p]
    /\ \E k \in Kind :
           /\ bag[p][k] > 0 /\ window[p][k] > 0
           /\ window' = [window EXCEPT ![p][k] = 0]
    /\ UNCHANGED <<place, usingStorage, target, frozen, accepted, tradeGold, agreed, wealth, call>>
    /\ Tell(p, q)

(* Whether the player has the gold is seen when the trade is settled.      *)
onAddGold(p, q) ==
    /\ onTrade(p) /\ isValidTradeTarget(p, q) /\ Names(p, q)
    /\ ~frozen[p]
    /\ \E g \in Gold \ {0} :
           /\ tradeGold' = [tradeGold EXCEPT ![p] = g]
    /\ UNCHANGED <<place, usingStorage, target, frozen, accepted, window, agreed, wealth, call>>
    /\ Tell(p, q)

onFreezeTrade(p) ==
    /\ onTrade(p)
    /\ GetTradeTarget(p) # {}
    /\ frozen' = [frozen EXCEPT ![p] = TRUE]
    /\ UNCHANGED <<place, usingStorage, target, accepted, window, tradeGold, told, astray, agreed, wealth, call>>

-----------------------------------------------------------------------------
(* onConfirmTrade *)

Confirmable(p, q) == trading(p) /\ target[q] = p /\ frozen[p] /\ frozen[q]

ConfirmRefused(p, q) ==
    /\ onTrade(p) /\ isValidTradeTarget(p, q) /\ Names(p, q)
    /\ ~Confirmable(p, q)
    /\ CancelTrade({p, q})
    /\ UNCHANGED <<place, usingStorage, wealth, call>>

ConfirmTrade(p, q) ==
    /\ onTrade(p) /\ isValidTradeTarget(p, q) /\ Names(p, q)
    /\ Confirmable(p, q) /\ ~accepted[p]
    /\ accepted' = [accepted EXCEPT ![p] = TRUE]
    /\ at' = [at EXCEPT ![p] = "confirming"]
    /\ with' = [with EXCEPT ![p] = q]
    /\ agreed' = [agreed EXCEPT ![p] = q]
    /\ UNCHANGED <<place, usingStorage, target, frozen, window, tradeGold, told, astray, wealth>>

Return(p) ==
    /\ at' = [at EXCEPT ![p] = "idle"]
    /\ with' = [with EXCEPT ![p] = NoOne]

NotYetAccepted(p) ==
    /\ at[p] = "confirming" /\ ~accepted[with[p]]
    /\ Return(p)
    /\ UNCHANGED <<place, usingStorage, half, wealth>>

(* CheckTradeItem looks a handle up in the pool: an item that the player   *)
(* lost whole is still found there, with the count it had.                 *)
CheckTradeItem(p) == \A k \in Kind : bag[p][k] > 0 => window[p][k] <= bag[p][k]

ExceedsGold(p, q) ==
    gold[p] + tradeGold[q] > MaxGold \/ gold[q] + tradeGold[p] > MaxGold

(* CheckTradeWeight asks for a target and may fail for either. *)
CheckPassed(p) ==
    LET q == with[p]
    IN  /\ at[p] = "confirming" /\ accepted[q]
        /\ GetTradeTarget(p) # {} /\ GetTradeTarget(q) # {}
        /\ CheckTradeItem(p) /\ CheckTradeItem(q)
        /\ ~ExceedsGold(p, q)
        /\ at' = [at EXCEPT ![p] = "checked"]
        /\ UNCHANGED <<place, usingStorage, half, wealth, with>>

CheckFailed(p) ==
    /\ at[p] = "confirming" /\ accepted[with[p]]
    /\ CancelTrade({p, with[p]})
    /\ Return(p)
    /\ UNCHANGED <<place, usingStorage, wealth>>

(* What is looked at again before ProcessTrade.                            *)
Settleable(p, q) == Mutual(p, q) /\ frozen[p] /\ frozen[q]

(* processTradeGold of p, then of q, who may pay with what it was paid.    *)
CanPay(p, q) ==
    /\ place[p] = "in" /\ place[q] = "in"
    /\ tradeGold[p] <= gold[p]
    /\ gold[q] + tradeGold[p] <= MaxGold
    /\ tradeGold[q] <= gold[q] + tradeGold[p]
    /\ gold[p] - tradeGold[p] + tradeGold[q] <= MaxGold

Pay_OneWay(p) ==
    LET q == with[p]
    IN  /\ at[p] = "checked" /\ Settleable(p, q) /\ CanPay(p, q)
        /\ gold' = [gold EXCEPT ![p] = @ - tradeGold[p], ![q] = @ + tradeGold[p]]
        /\ at' = [at EXCEPT ![p] = "paid"]
        /\ UNCHANGED <<place, usingStorage, half, bag, with>>

Pay(p) ==
    LET q == with[p]
    IN  /\ at[p] = "checked" /\ Settleable(p, q) /\ CanPay(p, q)
        /\ gold' = [gold EXCEPT ![p] = @ - tradeGold[p] + tradeGold[q],
                                ![q] = @ + tradeGold[p] - tradeGold[q]]
        /\ at' = [at EXCEPT ![p] = "paid"]
        /\ UNCHANGED <<place, usingStorage, half, bag, with>>

(* Either somebody cannot pay, and both have again what they had, or the   *)
(* halves are no longer those of one trade.                                *)
PayFailed(p) ==
    LET q == with[p]
    IN  /\ at[p] = "checked" /\ ~(Settleable(p, q) /\ CanPay(p, q))
        /\ CancelTrade({p, q})
        /\ Return(p)
        /\ UNCHANGED <<place, usingStorage, wealth>>

(* A stack that was lost whole is not found, whatever p got since. *)
Givable(b, p) == {k \in Kind : window[p][k] <= b[p][k] /\ (window[p][k] > 0 => bag[p][k] > 0)}

(* GiveItem of the kinds in S, from p to q. *)
Given(b, p, q, S) ==
    [b EXCEPT ![p] = [k \in Kind |-> IF k \in S THEN @[k] - window[p][k] ELSE @[k]],
              ![q] = [k \in Kind |-> IF k \in S THEN @[k] + window[p][k] ELSE @[k]]]

(* processTradeItem of p, then of q; both save and both halves are cleared. *)
Give(p) ==
    LET q == with[p]
        half1 == Given(bag, p, q, Kind)
    IN  /\ at[p] = "paid" /\ Mutual(p, q)
        /\ Givable(bag, p) = Kind /\ Givable(half1, q) = Kind
        /\ bag' = Given(half1, q, p, Kind)
        /\ CancelTrade({p, q})
        /\ Return(p)
        /\ UNCHANGED <<place, usingStorage, gold>>

(* What GiveItem, which asks IsTradable again, may refuse: what was put on *)
(* since it was offered.                                                   *)
Worn(p) == IF p \in Careless THEN {k \in Kind : window[p][k] > 0} ELSE {}

(* An item that cannot be given ends it where it stands: items given       *)
(* before, in the order of a hash map, and the gold are not given back.    *)
GiveFailed(p) ==
    LET q == with[p]
        Refuses(b, r) == Givable(b, r) # Kind \/ Worn(r) # {}
    IN  /\ at[p] = "paid"
        /\ \/ /\ target[p] = q /\ Refuses(bag, p)
              /\ \E S \in SUBSET Givable(bag, p) : bag' = Given(bag, p, q, S)
           \/ /\ target[p] = q /\ Givable(bag, p) = Kind
              /\ LET half1 == Given(bag, p, q, Kind)
                 IN  /\ target[q] = p => Refuses(half1, q)
                     /\ \E S \in SUBSET Givable(half1, q) :
                            bag' = Given(half1, q, p, IF target[q] = p THEN S ELSE {})
           \/ target[p] # q /\ UNCHANGED bag
        /\ CancelTrade({p, q})
        /\ Return(p)
        /\ UNCHANGED <<place, usingStorage, gold>>

-----------------------------------------------------------------------------
(* Around a trade *)

(* Scripts open the storage of a player who has a trade; it then closes    *)
(* only when there is no trade any more.                                   *)
OpenStorage(p) ==
    /\ place[p] = "in" /\ Turn(p)
    /\ usingStorage' = [usingStorage EXCEPT ![p] = TRUE]
    /\ UNCHANGED <<place, half, wealth, call>>

CloseStorage(p) ==
    /\ place[p] = "in" /\ Turn(p) /\ ~trading(p)
    /\ usingStorage' = [usingStorage EXCEPT ![p] = FALSE]
    /\ UNCHANGED <<place, half, wealth, call>>

(* onDropItem, onSellItem and their like do not ask for a trade. *)
LoseItem(p) ==
    /\ place[p] = "in" /\ Turn(p)
    /\ \E k \in Kind : \E n \in 1 .. bag[p][k] : bag' = [bag EXCEPT ![p][k] = @ - n]
    /\ UNCHANGED <<place, usingStorage, half, gold, call>>

SpendGold(p) ==
    /\ place[p] = "in" /\ Turn(p)
    /\ \E g \in 1 .. gold[p] : gold' = [gold EXCEPT ![p] = @ - g]
    /\ UNCHANGED <<place, usingStorage, half, bag, call>>

LogoutNow(p) ==
    /\ place[p] = "in" /\ Turn(p)
    /\ place' = [place EXCEPT ![p] = "leaving"]
    /\ UNCHANGED <<usingStorage, half, wealth, call>>

(* The world thread deletes the object: its handle leads nowhere from now on. *)
DeletePlayer(p) ==
    /\ place[p] = "leaving"
    /\ place' = [place EXCEPT ![p] = "out"]
    /\ usingStorage' = [usingStorage EXCEPT ![p] = FALSE]
    /\ target' = [q \in Player |-> IF q = p THEN NoOne
                                   ELSE IF target[q] = p THEN Gone ELSE target[q]]
    /\ frozen' = [frozen EXCEPT ![p] = FALSE]
    /\ accepted' = [accepted EXCEPT ![p] = FALSE]
    /\ window' = [window EXCEPT ![p] = Nothing]
    /\ tradeGold' = [tradeGold EXCEPT ![p] = 0]
    /\ told' = [q \in Player |-> IF p \in {q, target[q]} THEN NoOffer ELSE told[q]]
    /\ astray' = astray \ {p} /\ agreed' = [agreed EXCEPT ![p] = NoOne]
    /\ UNCHANGED <<wealth, call>>

EnterWorld(p) ==
    /\ place[p] = "out"
    /\ place' = [place EXCEPT ![p] = "in"]
    /\ UNCHANGED <<usingStorage, half, wealth, call>>

-----------------------------------------------------------------------------
Handler(p) ==
    \/ PacketWhileMoving(p) \/ OwnHandle(p)
    \/ onCancelTrade(p) \/ onFreezeTrade(p)
    \/ \E q \in Player :
           \/ onAcceptTrade(p, q) \/ onAddItem(p, q) \/ onRemoveItem(p, q) \/ onAddGold(p, q)
           \/ ConfirmRefused(p, q) \/ ConfirmTrade(p, q)

Confirmation(p) ==
    \/ NotYetAccepted(p) \/ CheckPassed(p) \/ CheckFailed(p)
    \/ Pay(p) \/ PayFailed(p) \/ Give(p) \/ GiveFailed(p)

Around(p) ==
    \/ OpenStorage(p) \/ CloseStorage(p)
    \/ LogoutNow(p) \/ DeletePlayer(p) \/ EnterWorld(p)

(* The steps of onConfirmTrade change at[p]: a step that leaves it and     *)
(* changes what p or its tradeTarget has or offers is of somebody else.    *)
Own(p) == <<place[p], target[p], frozen[p], accepted[p], window[p], tradeGold[p], gold[p], bag[p]>>

Disturbs(p) == at'[p] = at[p] /\ \E r \in {p, with[p]} : Own(r)' # Own(r)

Next ==
    /\ \/ \E p \in Player : Handler(p) \/ Confirmation(p)
       \/ \E p \in Restless : Around(p)
       \/ \E p \in Careless : LoseItem(p) \/ SpendGold(p)
    /\ disturbed' = {p \in Player : /\ at[p] # "idle" /\ at'[p] # "idle"
                                   /\ (p \in disturbed \/ Disturbs(p))}

(* Characters in the world and others, without a trade, with something to trade. *)
Init ==
    /\ place \in [Player -> {"in", "out"}]
    /\ usingStorage = [p \in Player |-> FALSE]
    /\ target = [p \in Player |-> NoOne]
    /\ frozen = [p \in Player |-> FALSE] /\ accepted = [p \in Player |-> FALSE]
    /\ window = [p \in Player |-> Nothing] /\ tradeGold = [p \in Player |-> 0]
    /\ told = [p \in Player |-> NoOffer]
    /\ gold \in [Player -> Gold] /\ bag \in [Player -> [Kind -> Count]]
    /\ at = [p \in Player |-> "idle"] /\ with = [p \in Player |-> NoOne]
    /\ astray = {} /\ agreed = [p \in Player |-> NoOne] /\ disturbed = {}

Spec == Init /\ [][Next]_vars

-----------------------------------------------------------------------------
(* While both halves are those of one trade, each of the two was told what *)
(* the other offers, kinds and gold, after any number of changes to it, if *)
(* the packets of the other named its partner.  (Of a kind the packet      *)
(* tells the size of the stack, not of the offer.)                         *)
SeenIsOffered ==
    \A p, q \in Player : p # q /\ Mutual(p, q) /\ p \notin astray => told[q] = OfferOf(p)

(* From the moment a player accepts, naming its partner, the offer of the  *)
(* partner stands for as long as the two trade with each other, whatever   *)
(* the partner's and others' packets name: nobody can be made to accept    *)
(* one thing and be given another.                                         *)
NoSwitch ==
    [][\A p, q \in Player :
          accepted[p] /\ agreed[p] = q /\ Mutual(p, q) /\ Mutual(p, q)' =>
              window'[q] = window[q] /\ tradeGold'[q] = tradeGold[q]]_vars

Exchanged(f, p, q, give) == [f EXCEPT ![p] = f[p] - give[p] + give[q], ![q] = f[q] - give[q] + give[p]]

PaysBoth(p) ==
    LET q == with[p]
    IN  at[p] = "checked" /\ at'[p] = "paid" =>
            /\ Mutual(p, q) /\ accepted[p] /\ accepted[q]
            /\ gold' = Exchanged(gold, p, q, tradeGold)

GivesBoth(p) ==
    LET q == with[p]
        OfKind(k) == [r \in Player |-> bag[r][k]]
        Offered(k) == [r \in Player |-> window[r][k]]
    IN  at[p] = "paid" /\ at'[p] # "paid" =>
            \A k \in Kind : [r \in Player |-> bag'[r][k]] = Exchanged(OfKind(k), p, q, Offered(k))

(* ProcessTrade is for two who accepted each other.  It moves the gold of  *)
(* both offers and then the items of both, and does not end between the    *)
(* two, unless one of them has disposed of what it offered, or the halves, *)
(* the gold or the items of the two were changed by others meanwhile.      *)
AllOrNothing ==
    [][\A p \in Player \ disturbed :
          PaysBoth(p) /\ ({p, with[p]} \cap Careless = {} => GivesBoth(p))]_vars

(* Whoever is paid also gives.  False when a player drops or puts on an    *)
(* item it offered: the gold is not given back.                            *)
NoRobbery == [][\A p \in Player \ disturbed : GivesBoth(p)]_vars

(* A trade is settled by one of the two.  False: two who confirm at once,  *)
(* on two threads, may both find that the other has accepted.              *)
SettledOnce == [][\A p \in Player : at'[p] = "paid" => at[with[p]] # "paid"]_vars

(* Whatever is told, it is told to the partner.  False: offers name whom   *)
(* the packet says.                                                        *)
PartnerTold == \A p, q \in Player : p # q /\ Mutual(p, q) => told[q] = OfferOf(p)

(* A player in the world can always end the trade it has.  False: onTrade  *)
(* and onStorage both return when the storage is opened during a trade.    *)
MayEnd == \A p \in Player : place[p] = "in" /\ trading(p) => ~usingStorage[p]
=============================================================================
