---------------------------- MODULE TradeProofs ----------------------------
(***************************************************************************)
(* For any number of players, kinds of items and units, whoever's packets   *)
(* name whom: types, SeenIsOffered, NoSwitch and AllOrNothing hold of every *)
(* behaviour of Trade.                                                      *)
(*                                                                          *)
(* None of them is inductive.  Seen needs to know that a player whose half  *)
(* names a partner has not got itself there; NoSwitch needs Froze: whoever  *)
(* has accepted a partner faces an offer that is frozen.  HalfInv is about  *)
(* the halves, RestInv about everything else.                               *)
(*                                                                          *)
(* CallInv is what the steps of a confirmation pass on to each other:       *)
(* unless others came in between, both have accepted and the halves are of  *)
(* one trade (Carried); and the goods are there, unless their owner is      *)
(* Careless, whoever came in between (Backed).                              *)
(***************************************************************************)
EXTENDS Trade, TLAPS

HalfTypes ==
    /\ target \in [Player -> Player \cup {NoOne, Gone}]
    /\ frozen \in [Player -> BOOLEAN]
    /\ accepted \in [Player -> BOOLEAN]
    /\ window \in [Player -> [Kind -> Count]]
    /\ tradeGold \in [Player -> Gold]
    /\ told \in [Player -> Offer]
    /\ astray \subseteq Player
    /\ agreed \in [Player -> Player \cup {NoOne}]
    /\ \A p \in Player : accepted[p] => frozen[p]
    /\ \A p \in Player : frozen[p] => trading(p)

NotItself == \A p \in Player : target[p] # p

\* Whoever accepted its partner faces a frozen offer.
Froze == \A p, q \in Player : accepted[p] /\ agreed[p] = q /\ Mutual(p, q) => frozen[q]

HalfInv == HalfTypes /\ NotItself /\ SeenIsOffered /\ Froze

RestInv ==
    /\ place \in [Player -> {"out", "in", "leaving"}]
    /\ usingStorage \in [Player -> BOOLEAN]
    /\ gold \in [Player -> Gold]
    /\ bag \in [Player -> [Kind -> Nat]]
    /\ at \in [Player -> {"idle", "confirming", "checked", "paid"}]
    /\ with \in [Player -> Player \cup {NoOne}]
    /\ \A p \in Player : at[p] # "idle" => with[p] \in Player \ {p}

IInv == HalfInv /\ RestInv /\ disturbed \subseteq Player

LEMMA Init_IInv == Init => IInv
  <1> SUFFICES ASSUME Init PROVE IInv
      OBVIOUS
  <1>1. HalfTypes
      BY BoundAssumption DEF Init, HalfTypes, Nothing, NoOffer, Offer, Count, Gold, trading
  <1>2. NotItself /\ SeenIsOffered /\ Froze
      BY PlayerAssumption DEF Init, NotItself, SeenIsOffered, Froze, Mutual
  <1>3. RestInv
      BY BoundAssumption DEF Init, RestInv, Count
  <1> QED BY <1>1, <1>2, <1>3 DEF Init, IInv, HalfInv

\* Clearing the halves of any set of players keeps the invariant of the halves.
LEMMA CancelTrade_HalfInv ==
  ASSUME HalfInv, NEW S \in SUBSET Player, CancelTrade(S)
  PROVE  HalfInv'
  <1> USE DEF CancelTrade, ClearTradeInfo
  <1>1. /\ target' = [p \in Player |-> IF p \in S THEN NoOne ELSE target[p]]
        /\ \A p \in Player : target'[p] = IF p \in S THEN NoOne ELSE target[p]
      BY DEF HalfInv, HalfTypes
  <1>2. HalfTypes'
    <2>1. target' \in [Player -> Player \cup {NoOne, Gone}]
        BY <1>1 DEF HalfInv, HalfTypes
    <2>2. window' \in [Player -> [Kind -> Count]] /\ tradeGold' \in [Player -> Gold]
        BY BoundAssumption DEF HalfInv, HalfTypes, Nothing, Count, Gold
    <2>3. told' \in [Player -> Offer]
        BY BoundAssumption DEF HalfInv, HalfTypes, NoOffer, Offer, Gold
    <2>4. frozen' \in [Player -> BOOLEAN] /\ accepted' \in [Player -> BOOLEAN]
        BY DEF HalfInv, HalfTypes
    <2>5. \A p \in Player : accepted'[p] => frozen'[p]
        BY DEF HalfInv, HalfTypes
    <2>6. \A p \in Player : frozen'[p] => trading(p)'
        BY <1>1 DEF HalfInv, HalfTypes, trading
    <2>7. astray' \subseteq Player /\ agreed' \in [Player -> Player \cup {NoOne}]
        BY DEF HalfInv, HalfTypes
    <2> QED BY <2>1, <2>2, <2>3, <2>4, <2>5, <2>6, <2>7 DEF HalfTypes
  <1>3. NotItself'
      BY <1>1, PlayerAssumption DEF HalfInv, NotItself
  <1>4. ASSUME NEW p \in Player, NEW q \in Player, Mutual(p, q)'
        PROVE  p \notin S /\ q \notin S /\ Mutual(p, q)
      BY <1>1, <1>4, PlayerAssumption DEF Mutual
  <1>5. SeenIsOffered'
    <2> SUFFICES ASSUME NEW p \in Player, NEW q \in Player, p # q, Mutual(p, q)', p \notin astray'
                 PROVE  told'[q] = OfferOf(p)'
        BY DEF SeenIsOffered
    <2>1. p \notin S /\ q \notin S /\ Mutual(p, q)
        BY <1>4
    <2>2. told'[q] = told[q] /\ p \notin astray
        BY <2>1 DEF Mutual
    <2>3. OfferOf(p)' = OfferOf(p)
        BY <2>1 DEF OfferOf
    <2> QED BY <2>1, <2>2, <2>3 DEF HalfInv, SeenIsOffered
  <1>6. Froze'
      BY <1>4 DEF HalfInv, Froze
  <1> QED BY <1>2, <1>3, <1>5, <1>6 DEF HalfInv

LEMMA Accept_HalfInv ==
  ASSUME HalfInv, NEW p \in Player, NEW q \in Player, onAcceptTrade(p, q)
  PROVE  HalfInv'
  <1> DEFINE t == [r \in Player |-> IF r = p THEN q ELSE p]
  <1>1. p # q /\ ClearTradeInfo({p, q}, t)
      BY DEF onAcceptTrade, isValidTradeTarget
  <1>2. \A r \in Player : target'[r] = IF r = p THEN q ELSE IF r = q THEN p ELSE target[r]
      BY <1>1 DEF ClearTradeInfo
  <1> USE DEF ClearTradeInfo
  <1>3. HalfTypes'
    <2>1. target' \in [Player -> Player \cup {NoOne, Gone}]
        BY <1>1 DEF HalfInv, HalfTypes
    <2>2. window' \in [Player -> [Kind -> Count]] /\ tradeGold' \in [Player -> Gold]
        BY <1>1, BoundAssumption DEF HalfInv, HalfTypes, Nothing, Count, Gold
    <2>3. told' \in [Player -> Offer]
        BY <1>1, BoundAssumption DEF HalfInv, HalfTypes, NoOffer, Offer, Gold
    <2>4. frozen' \in [Player -> BOOLEAN] /\ accepted' \in [Player -> BOOLEAN]
        BY <1>1 DEF HalfInv, HalfTypes
    <2>5. \A r \in Player : accepted'[r] => frozen'[r]
        BY <1>1 DEF HalfInv, HalfTypes
    <2>6. \A r \in Player : frozen'[r] => trading(r)'
        BY <1>1, <1>2, PlayerAssumption DEF HalfInv, HalfTypes, trading
    <2>7. astray' \subseteq Player /\ agreed' \in [Player -> Player \cup {NoOne}]
        BY <1>1 DEF HalfInv, HalfTypes
    <2> QED BY <2>1, <2>2, <2>3, <2>4, <2>5, <2>6, <2>7 DEF HalfTypes
  <1>4. NotItself'
      BY <1>1, <1>2 DEF HalfInv, NotItself
  <1>5. ASSUME NEW a \in Player, NEW b \in Player, Mutual(a, b)', a \in {p, q} \/ b \in {p, q}
        PROVE  a \in {p, q} /\ b \in {p, q} /\ a # b
      BY <1>1, <1>2, <1>5 DEF Mutual
  <1>6. SeenIsOffered'
    <2> SUFFICES ASSUME NEW a \in Player, NEW b \in Player, a # b, Mutual(a, b)', a \notin astray'
                 PROVE  told'[b] = OfferOf(a)'
        BY DEF SeenIsOffered
    <2>1. CASE a \in {p, q} \/ b \in {p, q}
      <3>1. a \in {p, q} /\ b \in {p, q}
          BY <1>5, <2>1
      <3>2. told'[b] = NoOffer
          BY <1>1, <3>1
      <3>3. OfferOf(a)' = NoOffer
        <4>1. window'[a] = Nothing /\ tradeGold'[a] = 0
            BY <1>1, <3>1
        <4>2. \A k \in Kind : window'[a][k] = 0
            BY <4>1 DEF Nothing
        <4> QED BY <4>1, <4>2 DEF OfferOf, NoOffer
      <3> QED BY <3>2, <3>3
    <2>2. CASE a \notin {p, q} /\ b \notin {p, q}
      <3>1. Mutual(a, b)
          BY <1>2, <2>2 DEF Mutual
      <3>2. told'[b] = told[b] /\ a \notin astray
          BY <1>1, <2>2, <3>1 DEF Mutual
      <3>3. OfferOf(a)' = OfferOf(a)
          BY <1>1, <2>2 DEF OfferOf
      <3> QED BY <3>1, <3>2, <3>3 DEF HalfInv, SeenIsOffered
    <2> QED BY <2>1, <2>2
  <1>7. Froze'
    <2> SUFFICES ASSUME NEW a \in Player, NEW b \in Player, accepted'[a], agreed'[a] = b, Mutual(a, b)'
                 PROVE  frozen'[b]
        BY DEF Froze
    <2>1. a \notin {p, q} /\ accepted[a] /\ agreed[a] = b
        BY <1>1
    <2>2. b \notin {p, q}
        BY <1>5, <2>1
    <2>3. Mutual(a, b)
        BY <1>2, <2>1, <2>2 DEF Mutual
    <2> QED BY <1>1, <2>1, <2>2, <2>3 DEF HalfInv, Froze
  <1> QED BY <1>3, <1>4, <1>6, <1>7 DEF HalfInv

\* The end of a Player object clears its half and what points to it.
LEMMA Delete_HalfInv ==
  ASSUME HalfInv, NEW p \in Player, DeletePlayer(p)
  PROVE  HalfInv'
  <1> USE DEF DeletePlayer
  <1>1. \A q \in Player : target'[q] = IF q = p THEN NoOne
                                        ELSE IF target[q] = p THEN Gone ELSE target[q]
      OBVIOUS
  <1>2. HalfTypes'
    <2>1. target' \in [Player -> Player \cup {NoOne, Gone}]
        BY DEF HalfInv, HalfTypes
    <2>2. window' \in [Player -> [Kind -> Count]] /\ tradeGold' \in [Player -> Gold]
        BY BoundAssumption DEF HalfInv, HalfTypes, Nothing, Count, Gold
    <2>3. told' \in [Player -> Offer]
        BY BoundAssumption DEF HalfInv, HalfTypes, NoOffer, Offer, Gold
    <2>4. frozen' \in [Player -> BOOLEAN] /\ accepted' \in [Player -> BOOLEAN]
        BY DEF HalfInv, HalfTypes
    <2>5. \A q \in Player : accepted'[q] => frozen'[q]
        BY DEF HalfInv, HalfTypes
    <2>6. \A q \in Player : frozen'[q] => trading(q)'
        BY <1>1, PlayerAssumption DEF HalfInv, HalfTypes, trading
    <2>7. astray' \subseteq Player /\ agreed' \in [Player -> Player \cup {NoOne}]
        BY DEF HalfInv, HalfTypes
    <2> QED BY <2>1, <2>2, <2>3, <2>4, <2>5, <2>6, <2>7 DEF HalfTypes
  <1>3. NotItself'
      BY <1>1, PlayerAssumption DEF HalfInv, NotItself
  <1>4. ASSUME NEW a \in Player, NEW b \in Player, Mutual(a, b)'
        PROVE  a # p /\ b # p /\ Mutual(a, b)
      BY <1>1, <1>4, PlayerAssumption DEF Mutual
  <1>5. SeenIsOffered'
    <2> SUFFICES ASSUME NEW a \in Player, NEW b \in Player, a # b, Mutual(a, b)', a \notin astray'
                 PROVE  told'[b] = OfferOf(a)'
        BY DEF SeenIsOffered
    <2>1. a # p /\ b # p /\ Mutual(a, b)
        BY <1>4
    <2>2. told'[b] = told[b] /\ a \notin astray
        BY <2>1 DEF Mutual
    <2>3. OfferOf(a)' = OfferOf(a)
        BY <2>1 DEF OfferOf, HalfInv, HalfTypes
    <2> QED BY <2>1, <2>2, <2>3 DEF HalfInv, SeenIsOffered
  <1>6. Froze'
      BY <1>4 DEF HalfInv, HalfTypes, Froze
  <1> QED BY <1>2, <1>3, <1>5, <1>6 DEF HalfInv

\* A change of p's offer that is told to q, whoever p takes for its partner.
Offers(p, q) ==
  /\ \A r \in Player \ {p} : window'[r] = window[r] /\ tradeGold'[r] = tradeGold[r]
  /\ window' \in [Player -> [Kind -> Count]] /\ tradeGold' \in [Player -> Gold]
  /\ UNCHANGED <<target, frozen, accepted, agreed>>
  /\ Tell(p, q)

LEMMA Offers_HalfInv ==
  ASSUME HalfInv, NEW p \in Player, NEW q \in Player, p # q, Offers(p, q)
  PROVE  HalfInv'
  <1>1. OfferOf(p)' \in Offer
      BY DEF Offers, OfferOf, Offer
  <1>2. told' \in [Player -> Offer] /\ astray' \subseteq Player
      BY <1>1 DEF Offers, Tell, HalfInv, HalfTypes
  <1>3. HalfTypes' /\ NotItself' /\ Froze'
      BY <1>2 DEF Offers, HalfInv, HalfTypes, NotItself, Froze, Mutual, trading
  <1>4. SeenIsOffered'
    <2> SUFFICES ASSUME NEW a \in Player, NEW b \in Player, a # b, Mutual(a, b)', a \notin astray'
                 PROVE  told'[b] = OfferOf(a)'
        BY DEF SeenIsOffered
    <2>1. Mutual(a, b)
        BY DEF Offers, Mutual
    <2>2. CASE a = p
      <3>1. b = q
          BY <2>1, <2>2 DEF Offers, Tell, Mutual
      <3> QED BY <2>1, <2>2, <3>1 DEF Offers, Tell, HalfInv, HalfTypes
    <2>3. CASE a # p
      <3>1. OfferOf(a)' = OfferOf(a)
          BY <2>3 DEF Offers, OfferOf
      <3>2. told'[b] = told[b] /\ a \notin astray
          BY <2>1, <2>3, PlayerAssumption DEF Offers, Tell, Mutual
      <3> QED BY <2>1, <3>1, <3>2 DEF HalfInv, SeenIsOffered
    <2> QED BY <2>2, <2>3
  <1> QED BY <1>3, <1>4 DEF HalfInv

LEMMA ItemsAreOffers ==
  ASSUME HalfInv, RestInv, NEW p \in Player, NEW q \in Player,
         onAddItem(p, q) \/ onRemoveItem(p, q) \/ onAddGold(p, q)
  PROVE  p # q /\ ~frozen[p] /\ Offers(p, q)
  <1>1. p # q /\ ~frozen[p] /\ Tell(p, q) /\ UNCHANGED <<target, frozen, accepted, agreed>>
      BY DEF onAddItem, onRemoveItem, onAddGold, isValidTradeTarget
  <1>2. CASE onAddItem(p, q)
    <2>1. PICK k \in Kind : \E n \in 1 .. bag[p][k] :
                                n <= MaxCount /\ window' = [window EXCEPT ![p][k] = n]
        BY <1>2 DEF onAddItem
    <2>2. PICK n \in 1 .. bag[p][k] : n <= MaxCount /\ window' = [window EXCEPT ![p][k] = n]
        BY <2>1
    <2>3. bag[p][k] \in Nat
        BY DEF RestInv
    <2>4. n \in Count
        BY <2>2, <2>3, BoundAssumption DEF Count
    <2>5. /\ window' \in [Player -> [Kind -> Count]]
          /\ \A r \in Player \ {p} : window'[r] = window[r]
        BY <2>2, <2>4 DEF HalfInv, HalfTypes
    <2>6. tradeGold' = tradeGold
        BY <1>2 DEF onAddItem
    <2> QED BY <1>1, <2>5, <2>6 DEF Offers, HalfInv, HalfTypes
  <1>3. CASE onRemoveItem(p, q)
    <2>1. PICK k \in Kind : window' = [window EXCEPT ![p][k] = 0]
        BY <1>3 DEF onRemoveItem
    <2>2. 0 \in Count
        BY BoundAssumption DEF Count
    <2>3. /\ window' \in [Player -> [Kind -> Count]]
          /\ \A r \in Player \ {p} : window'[r] = window[r]
        BY <2>1, <2>2 DEF HalfInv, HalfTypes
    <2>4. tradeGold' = tradeGold
        BY <1>3 DEF onRemoveItem
    <2> QED BY <1>1, <2>3, <2>4 DEF Offers, HalfInv, HalfTypes
  <1>4. CASE onAddGold(p, q)
      BY <1>1, <1>4 DEF onAddGold, Offers, HalfInv, HalfTypes
  <1> QED BY <1>2, <1>3, <1>4

LEMMA Freeze_HalfInv ==
  ASSUME HalfInv, NEW p \in Player, onFreezeTrade(p)
  PROVE  HalfInv'
  <1> USE DEF onFreezeTrade
  <1>1. trading(p)
      BY PlayerAssumption DEF GetTradeTarget, trading
  <1>2. HalfTypes' /\ NotItself'
      BY <1>1 DEF HalfInv, HalfTypes, NotItself, trading
  <1>3. SeenIsOffered'
      BY DEF HalfInv, SeenIsOffered, Mutual, OfferOf
  <1>4. Froze'
      BY DEF HalfInv, HalfTypes, Froze, Mutual
  <1> QED BY <1>2, <1>3, <1>4 DEF HalfInv

LEMMA Confirm_HalfInv ==
  ASSUME HalfInv, NEW p \in Player, NEW q \in Player, ConfirmTrade(p, q)
  PROVE  HalfInv'
  <1> USE DEF ConfirmTrade
  <1>1. trading(p) /\ frozen[p] /\ frozen[q]
      BY DEF Confirmable
  <1>2. HalfTypes' /\ NotItself'
      BY <1>1 DEF HalfInv, HalfTypes, NotItself, trading
  <1>3. SeenIsOffered'
      BY DEF HalfInv, SeenIsOffered, Mutual, OfferOf
  <1>4. Froze'
      BY <1>1 DEF HalfInv, HalfTypes, Froze, Mutual
  <1> QED BY <1>2, <1>3, <1>4 DEF HalfInv

LEMMA Unchanged_HalfInv ==
  ASSUME HalfInv, UNCHANGED half
  PROVE  HalfInv'
  BY DEF half, HalfInv, HalfTypes, NotItself, SeenIsOffered, Froze, Mutual, OfferOf, trading

\* What a handler or a step around a trade does to the halves.
HalfStep(p) ==
  \/ \E S \in SUBSET Player : CancelTrade(S)
  \/ DeletePlayer(p)
  \/ onFreezeTrade(p)
  \/ \E q \in Player :
         onAcceptTrade(p, q) \/ onAddItem(p, q) \/ onRemoveItem(p, q) \/ onAddGold(p, q) \/ ConfirmTrade(p, q)
  \/ UNCHANGED half

\* Every step is one of these, some of the players having the handles of
\* others: a cancellation clears a set of players.
LEMMA StepsOfHalves ==
  ASSUME RestInv, [Next]_vars, Player # {}
  PROVE  \E p \in Player : HalfStep(p)
  <1>1. ASSUME NEW p \in Player, Handler(p) PROVE HalfStep(p)
    <2>1. CASE PacketWhileMoving(p)
        BY <2>1 DEF PacketWhileMoving, HalfStep
    <2>2. CASE OwnHandle(p)
      <3>1. PICK q \in Player : CancelTrade({p, q})
          BY <2>2 DEF OwnHandle
      <3> QED BY <3>1 DEF HalfStep
    <2>3. CASE onCancelTrade(p)
      <3>1. {p} \cup GetTradeTarget(p) \in SUBSET Player /\ CancelTrade({p} \cup GetTradeTarget(p))
          BY <2>3 DEF onCancelTrade, GetTradeTarget
      <3> QED BY <3>1 DEF HalfStep
    <2>4. CASE \E q \in Player : ConfirmRefused(p, q)
      <3>1. PICK q \in Player : CancelTrade({p, q})
          BY <2>4 DEF ConfirmRefused
      <3> QED BY <3>1 DEF HalfStep
    <2> QED BY <1>1, <2>1, <2>2, <2>3, <2>4 DEF Handler, HalfStep
  <1>2. ASSUME NEW p \in Player, Confirmation(p) PROVE HalfStep(p)
    <2>1. CASE NotYetAccepted(p) \/ CheckPassed(p) \/ Pay(p)
        BY <2>1 DEF NotYetAccepted, CheckPassed, Pay, HalfStep
    <2>2. CASE CheckFailed(p) \/ PayFailed(p) \/ Give(p) \/ GiveFailed(p)
      <3>1. at[p] # "idle" /\ CancelTrade({p, with[p]})
          BY <2>2 DEF CheckFailed, PayFailed, Give, GiveFailed
      <3>2. {p, with[p]} \in SUBSET Player
          BY <3>1 DEF RestInv
      <3> QED BY <3>1, <3>2 DEF HalfStep
    <2> QED BY <1>2, <2>1, <2>2 DEF Confirmation
  <1>3. ASSUME NEW p \in Player, Around(p) \/ LoseItem(p) \/ SpendGold(p) PROVE HalfStep(p)
      BY <1>3 DEF Around, OpenStorage, CloseStorage, LogoutNow, EnterWorld, LoseItem, SpendGold, HalfStep
  <1>4. ASSUME UNCHANGED vars PROVE \A p \in Player : HalfStep(p)
      BY <1>4 DEF vars, HalfStep
  <1> QED BY <1>1, <1>2, <1>3, <1>4, BoundAssumption DEF Next

LEMMA Step_HalfInv ==
  ASSUME IInv, [Next]_vars, Player # {}
  PROVE  HalfInv'
  <1>1. PICK p \in Player : HalfStep(p)
      BY StepsOfHalves DEF IInv
  <1>2. CASE \E q \in Player : onAddItem(p, q) \/ onRemoveItem(p, q) \/ onAddGold(p, q)
      BY <1>2, ItemsAreOffers, Offers_HalfInv DEF IInv
  <1> QED BY <1>1, <1>2, CancelTrade_HalfInv, Delete_HalfInv, Freeze_HalfInv, Accept_HalfInv,
             Confirm_HalfInv, Unchanged_HalfInv DEF HalfStep, IInv

-----------------------------------------------------------------------------
(* Everything but the halves *)

\* The sums of a payment stay within the limits that CanPay asks for.
LEMMA Pay_RestInv ==
  ASSUME IInv, NEW p \in Player, Pay(p)
  PROVE  RestInv'
  <1> DEFINE q == with[p]
  <1> USE DEF IInv, RestInv
  <1>1. q \in Player /\ p # q /\ CanPay(p, q) /\ at[p] = "checked"
      BY DEF Pay
  <1>2. /\ gold[p] \in Nat /\ gold[q] \in Nat /\ tradeGold[p] \in Nat /\ tradeGold[q] \in Nat
        /\ gold[p] <= MaxGold /\ gold[q] <= MaxGold
      BY <1>1, BoundAssumption DEF HalfInv, HalfTypes, Gold
  <1>3. /\ gold[p] - tradeGold[p] + tradeGold[q] \in Gold
        /\ gold[q] + tradeGold[p] - tradeGold[q] \in Gold
      BY <1>1, <1>2, BoundAssumption DEF CanPay, Gold
  <1>4. gold' \in [Player -> Gold]
      BY <1>1, <1>3 DEF Pay
  <1>5. at' = [at EXCEPT ![p] = "paid"] /\ UNCHANGED <<place, usingStorage, bag, with>>
      BY DEF Pay
  <1>6. at' \in [Player -> {"idle", "confirming", "checked", "paid"}]
      BY <1>5
  <1>7. \A r \in Player : at'[r] # "idle" => with'[r] \in Player \ {r}
      BY <1>1, <1>5
  <1> QED BY <1>4, <1>5, <1>6, <1>7

\* GiveItem takes no more than there is.
LEMMA Given_Typed ==
  ASSUME NEW b \in [Player -> [Kind -> Nat]], HalfInv,
         NEW p \in Player, NEW q \in Player, p # q, NEW S \in SUBSET Givable(b, p)
  PROVE  Given(b, p, q, S) \in [Player -> [Kind -> Nat]]
  <1>1. window[p] \in [Kind -> Nat]
      BY BoundAssumption DEF HalfInv, HalfTypes, Count
  <1>2. [k \in Kind |-> IF k \in S THEN b[p][k] - window[p][k] ELSE b[p][k]] \in [Kind -> Nat]
      BY <1>1 DEF Givable
  <1>3. [k \in Kind |-> IF k \in S THEN b[q][k] + window[p][k] ELSE b[q][k]] \in [Kind -> Nat]
      BY <1>1
  <1> QED BY <1>2, <1>3 DEF Given

LEMMA Given_Bag ==
  ASSUME IInv, NEW p \in Player, Give(p) \/ GiveFailed(p)
  PROVE  bag' \in [Player -> [Kind -> Nat]]
  <1> DEFINE q == with[p]
             half1 == Given(bag, p, q, Kind)
  <1>1. q \in Player /\ p # q /\ bag \in [Player -> [Kind -> Nat]] /\ HalfInv
      BY DEF Give, GiveFailed, IInv, RestInv
  <1>2. CASE Give(p)
    <2>1. half1 \in [Player -> [Kind -> Nat]]
        BY <1>1, <1>2, Given_Typed DEF Give
    <2>2. Given(half1, q, p, Kind) \in [Player -> [Kind -> Nat]]
        BY <1>1, <1>2, <2>1, Given_Typed DEF Give
    <2> QED BY <1>2, <2>2 DEF Give
  <1>3. CASE GiveFailed(p)
    <2>1. CASE \E S \in SUBSET Givable(bag, p) : bag' = Given(bag, p, q, S)
        BY <1>1, <2>1, Given_Typed
    <2>2. CASE /\ Givable(bag, p) = Kind
               /\ \E S \in SUBSET Givable(half1, q) :
                      bag' = Given(half1, q, p, IF target[q] = p THEN S ELSE {})
      <3>1. half1 \in [Player -> [Kind -> Nat]]
          BY <1>1, <2>2, Given_Typed
      <3>2. PICK S \in SUBSET Givable(half1, q) : bag' = Given(half1, q, p, S)
          BY <2>2
      <3> QED BY <1>1, <3>1, <3>2, Given_Typed
    <2>3. CASE UNCHANGED bag
        BY <1>1, <2>3
    <2> QED BY <1>3, <2>1, <2>2, <2>3 DEF GiveFailed
  <1> QED BY <1>2, <1>3

LEMMA Handler_RestInv ==
  ASSUME IInv, NEW p \in Player, Handler(p)
  PROVE  RestInv'
  <1>1. CASE \E q \in Player : ConfirmTrade(p, q)
    <2>1. PICK q \in Player : ConfirmTrade(p, q)
        BY <1>1
    <2>2. /\ p # q /\ at' = [at EXCEPT ![p] = "confirming"] /\ with' = [with EXCEPT ![p] = q]
          /\ UNCHANGED <<place, usingStorage, gold, bag>>
        BY <2>1 DEF ConfirmTrade, isValidTradeTarget, wealth
    <2> QED BY <2>2 DEF IInv, RestInv
  <1>2. CASE ~ \E q \in Player : ConfirmTrade(p, q)
    <2>1. UNCHANGED <<place, usingStorage, wealth, call>>
        BY <1>2 DEF Handler, PacketWhileMoving, OwnHandle, onCancelTrade, onFreezeTrade, onAcceptTrade,
                    onAddItem, onRemoveItem, onAddGold, ConfirmRefused, wealth, call
    <2> QED BY <2>1 DEF IInv, RestInv, wealth, call
  <1> QED BY <1>1, <1>2

LEMMA Confirmation_RestInv ==
  ASSUME IInv, NEW p \in Player, Confirmation(p)
  PROVE  RestInv'
  <1>1. CASE Give(p) \/ GiveFailed(p)
    <2>1. bag' \in [Player -> [Kind -> Nat]]
        BY <1>1, Given_Bag
    <2>2. Return(p) /\ UNCHANGED <<place, usingStorage, gold>>
        BY <1>1 DEF Give, GiveFailed
    <2> QED BY <2>1, <2>2 DEF IInv, RestInv, Return
  <1>2. CASE NotYetAccepted(p) \/ CheckFailed(p) \/ PayFailed(p)
    <2>1. Return(p) /\ UNCHANGED <<place, usingStorage, wealth>>
        BY <1>2 DEF NotYetAccepted, CheckFailed, PayFailed
    <2> QED BY <2>1 DEF IInv, RestInv, Return, wealth
  <1>3. CASE CheckPassed(p)
    <2>1. /\ at[p] = "confirming" /\ at' = [at EXCEPT ![p] = "checked"]
          /\ UNCHANGED <<place, usingStorage, wealth, with>>
        BY <1>3 DEF CheckPassed
    <2> QED BY <2>1 DEF IInv, RestInv, wealth
  <1> QED BY <1>1, <1>2, <1>3, Pay_RestInv DEF Confirmation

LEMMA Around_RestInv ==
  ASSUME IInv, NEW p \in Player, Around(p)
  PROVE  RestInv'
  <1>1. UNCHANGED <<wealth, call>>
      BY DEF Around, OpenStorage, CloseStorage, LogoutNow, DeletePlayer, EnterWorld
  <1>2. PICK x \in {"out", "in", "leaving"} : place' = place \/ place' = [place EXCEPT ![p] = x]
      BY DEF Around, OpenStorage, CloseStorage, LogoutNow, DeletePlayer, EnterWorld
  <1>3. PICK b \in BOOLEAN : usingStorage' = usingStorage \/ usingStorage' = [usingStorage EXCEPT ![p] = b]
      BY DEF Around, OpenStorage, CloseStorage, LogoutNow, DeletePlayer, EnterWorld
  <1>4. place' \in [Player -> {"out", "in", "leaving"}]
      BY <1>2 DEF IInv, RestInv
  <1>5. usingStorage' \in [Player -> BOOLEAN]
      BY <1>3 DEF IInv, RestInv
  <1> QED BY <1>1, <1>4, <1>5 DEF IInv, RestInv, wealth, call

LEMMA Loss_RestInv ==
  ASSUME IInv, NEW p \in Player, LoseItem(p) \/ SpendGold(p)
  PROVE  RestInv'
  <1>1. CASE LoseItem(p)
    <2>1. PICK k \in Kind : \E n \in 1 .. bag[p][k] : bag' = [bag EXCEPT ![p][k] = @ - n]
        BY <1>1 DEF LoseItem
    <2>2. PICK n \in 1 .. bag[p][k] : bag' = [bag EXCEPT ![p][k] = @ - n]
        BY <2>1
    <2>3. bag[p][k] - n \in Nat
        BY <2>2 DEF IInv, RestInv
    <2>4. bag' \in [Player -> [Kind -> Nat]]
        BY <2>2, <2>3 DEF IInv, RestInv
    <2> QED BY <1>1, <2>4 DEF LoseItem, IInv, RestInv, call
  <1>2. CASE SpendGold(p)
    <2>1. PICK g \in 1 .. gold[p] : gold' = [gold EXCEPT ![p] = @ - g]
        BY <1>2 DEF SpendGold
    <2>2. gold[p] - g \in Gold
        BY <2>1, BoundAssumption DEF IInv, RestInv, Gold
    <2>3. gold' \in [Player -> Gold]
        BY <2>1, <2>2 DEF IInv, RestInv
    <2> QED BY <1>2, <2>3 DEF SpendGold, IInv, RestInv, call
  <1> QED BY <1>1, <1>2

LEMMA Step_RestInv ==
  ASSUME IInv, [Next]_vars
  PROVE  RestInv'
  <1>1. CASE UNCHANGED vars
      BY <1>1 DEF vars, wealth, call, IInv, RestInv
  <1> QED BY <1>1, Handler_RestInv, Confirmation_RestInv, Around_RestInv, Loss_RestInv, BoundAssumption
          DEF Next

-----------------------------------------------------------------------------
(* Without players nothing is left to prove. *)
LEMMA Empty_HalfInv ==
  ASSUME HalfInv, [Next]_vars, Player = {}
  PROVE  HalfInv'
  <1>1. UNCHANGED half
      BY BoundAssumption DEF Next, vars
  <1> QED BY <1>1, Unchanged_HalfInv

\* The handlers of onTrade, the steps of a confirmation and the end of a player
\* keep both halves typed and as their owners have seen them.
THEOREM Inductive == Spec => []IInv
  <1>1. ASSUME IInv, [Next]_vars PROVE IInv'
    <2>1. disturbed' \subseteq Player
        BY <1>1 DEF IInv, Next, vars
    <2> QED BY <1>1, <2>1, Step_HalfInv, Step_RestInv, Empty_HalfInv DEF IInv
  <1> QED BY <1>1, Init_IInv, PTL DEF Spec

\* Types; and nobody has frozen or accepted a trade it has not got.
THEOREM Typing == Spec => []TypeOK
  <1>1. IInv => TypeOK
      BY DEF IInv, HalfInv, HalfTypes, RestInv, TypeOK
  <1> QED BY <1>1, Inductive, PTL

\* Each of two partners was told what the other offers, whose packets named it.
THEOREM Seen == Spec => []SeenIsOffered
  <1>1. IInv => SeenIsOffered
      BY DEF IInv, HalfInv
  <1> QED BY <1>1, Inductive, PTL

\* A step that leaves two halves those of one trade changes no offer that
\* somebody has accepted.
LEMMA Step_NoSwitch ==
  ASSUME IInv, [Next]_vars, NEW a \in Player, NEW b \in Player,
         accepted[a], agreed[a] = b, Mutual(a, b), Mutual(a, b)'
  PROVE  window'[b] = window[b] /\ tradeGold'[b] = tradeGold[b]
  <1>1. frozen[b]
      BY DEF IInv, HalfInv, Froze
  <1>2. PICK p \in Player : HalfStep(p)
      BY StepsOfHalves DEF IInv
  <1>3. CASE \E S \in SUBSET Player : CancelTrade(S)
    <2>1. PICK S \in SUBSET Player : CancelTrade(S)
        BY <1>3
    <2>2. b \notin S
        BY <2>1, PlayerAssumption DEF CancelTrade, ClearTradeInfo, Mutual
    <2> QED BY <2>1, <2>2 DEF CancelTrade, ClearTradeInfo
  <1>4. CASE DeletePlayer(p)
    <2>1. b # p
        BY <1>4, PlayerAssumption DEF DeletePlayer, Mutual
    <2> QED BY <1>4, <2>1 DEF DeletePlayer, IInv, HalfInv, HalfTypes
  <1>5. CASE \E q \in Player : onAddItem(p, q) \/ onRemoveItem(p, q) \/ onAddGold(p, q)
    <2>1. PICK q \in Player : ~frozen[p] /\ Offers(p, q)
        BY <1>5, ItemsAreOffers DEF IInv
    <2> QED BY <1>1, <2>1 DEF Offers
  <1>6. CASE \E q \in Player : onAcceptTrade(p, q)
    <2>1. PICK q \in Player : onAcceptTrade(p, q)
        BY <1>6
    <2>2. ~trading(p) /\ ~trading(q) /\ trading(b)
        BY <2>1, PlayerAssumption DEF onAcceptTrade, trading, Mutual
    <2>3. b \notin {p, q}
        BY <2>2
    <2> QED BY <2>1, <2>3 DEF onAcceptTrade, ClearTradeInfo
  <1>7. CASE onFreezeTrade(p) \/ (\E q \in Player : ConfirmTrade(p, q)) \/ UNCHANGED half
      BY <1>7 DEF onFreezeTrade, ConfirmTrade, half
  <1> QED BY <1>2, <1>3, <1>4, <1>5, <1>6, <1>7 DEF HalfStep

\* What somebody accepted stays what it gets.
THEOREM Accepted == Spec => NoSwitch
  <1>1. ASSUME IInv, [Next]_vars
        PROVE  [\A p, q \in Player :
                    accepted[p] /\ agreed[p] = q /\ Mutual(p, q) /\ Mutual(p, q)' =>
                        window'[q] = window[q] /\ tradeGold'[q] = tradeGold[q]]_vars
      BY <1>1, Step_NoSwitch
  <1> QED BY <1>1, Inductive, PTL DEF Spec, NoSwitch

-----------------------------------------------------------------------------
(* The settlement *)

\* Where nobody came in between, the one who settles has accepted, so has the
\* other once that was checked, and the two have one trade once they have paid.
Carried ==
    \A p \in Player \ disturbed : at[p] # "idle" =>
        /\ accepted[p]
        /\ at[p] \in {"checked", "paid"} => accepted[with[p]]
        /\ at[p] = "paid" => Mutual(p, with[p])

\* Who never disposes of what it offered has it, to the last unit: the check
\* of a trade lets an item pass that its owner has lost as a whole.
Backed == \A p \in Player \ Careless : \A k \in Kind : window[p][k] <= bag[p][k]

CallInv == Carried /\ Backed

LEMMA Init_CallInv == Init => CallInv
  BY BoundAssumption DEF Init, CallInv, Carried, Backed, Nothing, Count

\* Only its own steps take a confirmation further.
LEMMA OwnStep ==
  ASSUME IInv, [Next]_vars, NEW p \in Player, at'[p] # at[p]
  PROVE  Confirmation(p) \/ \E q \in Player : ConfirmTrade(p, q)
  <1>1. ~UNCHANGED vars
      BY DEF vars, call
  <1>2. ASSUME NEW r \in Player, Handler(r)
        PROVE  UNCHANGED at \/ \E q \in Player : ConfirmTrade(r, q)
      BY <1>2 DEF Handler, PacketWhileMoving, OwnHandle, onCancelTrade, onFreezeTrade, onAcceptTrade,
                  onAddItem, onRemoveItem, onAddGold, ConfirmRefused, call
  <1>3. ASSUME NEW r \in Player, NEW q \in Player, ConfirmTrade(r, q) PROVE r = p
      BY <1>3 DEF ConfirmTrade, IInv, RestInv
  <1>4. ASSUME NEW r \in Player, Around(r) \/ LoseItem(r) \/ SpendGold(r) PROVE UNCHANGED at
      BY <1>4 DEF Around, OpenStorage, CloseStorage, LogoutNow, DeletePlayer, EnterWorld, LoseItem,
                  SpendGold, call
  <1>5. ASSUME NEW r \in Player, Confirmation(r) PROVE r = p
    <2>1. PICK x \in {"idle", "checked", "paid"} : at' = [at EXCEPT ![r] = x]
        BY <1>5 DEF Confirmation, NotYetAccepted, CheckPassed, CheckFailed, Pay, PayFailed, Give,
                    GiveFailed, Return
    <2> QED BY <2>1 DEF IInv, RestInv
  <1> QED BY <1>1, <1>2, <1>3, <1>4, <1>5, BoundAssumption DEF Next

\* A confirmation stays with the player it began with.
LEMMA Calls_Stay ==
  ASSUME IInv, Next, NEW p \in Player, at[p] # "idle", at'[p] = at[p]
  PROVE  with'[p] = with[p]
  <1>1. ASSUME NEW r \in Player, Handler(r) PROVE with'[p] = with[p]
    <2>1. CASE \E q \in Player : ConfirmTrade(r, q)
      <3>1. PICK q \in Player : ConfirmTrade(r, q)
          BY <2>1
      <3>2. r # p
          BY <3>1 DEF ConfirmTrade, onTrade, Turn
      <3> QED BY <3>1, <3>2 DEF ConfirmTrade
    <2>2. CASE UNCHANGED with
        BY <2>2
    <2> QED BY <1>1, <2>1, <2>2 DEF Handler, PacketWhileMoving, OwnHandle, onCancelTrade, onFreezeTrade,
                onAcceptTrade, onAddItem, onRemoveItem, onAddGold, ConfirmRefused, call
  <1>2. ASSUME NEW r \in Player, Around(r) \/ LoseItem(r) \/ SpendGold(r) PROVE UNCHANGED with
      BY <1>2 DEF Around, OpenStorage, CloseStorage, LogoutNow, DeletePlayer, EnterWorld, LoseItem,
                  SpendGold, call
  <1>3. ASSUME NEW r \in Player, Confirmation(r) PROVE with'[p] = with[p]
    <2>1. CASE UNCHANGED with
        BY <2>1
    <2>2. CASE Return(r)
      <3>1. r # p
          BY <2>2 DEF Return, IInv, RestInv
      <3> QED BY <2>2, <3>1 DEF Return
    <2> QED BY <1>3, <2>1, <2>2 DEF Confirmation, NotYetAccepted, CheckPassed, CheckFailed, Pay, PayFailed,
                Give, GiveFailed
  <1> QED BY <1>1, <1>2, <1>3, BoundAssumption DEF Next

LEMMA Step_Carried ==
  ASSUME IInv, Carried, [Next]_vars
  PROVE  Carried'
  <1>1. CASE UNCHANGED vars
      BY <1>1 DEF vars, call, half, Carried, Mutual
  <1>2. CASE Next
    <2> SUFFICES ASSUME NEW p \in Player, p \notin disturbed', at'[p] # "idle"
                 PROVE  /\ accepted'[p]
                        /\ at'[p] \in {"checked", "paid"} => accepted'[with'[p]]
                        /\ at'[p] = "paid" => Mutual(p, with[p])'
        BY DEF Carried
    <2>1. at[p] # "idle" => p \notin disturbed /\ ~Disturbs(p)
        BY <1>2 DEF Next
    <2>2. CASE at'[p] = at[p]
      <3>1. at[p] # "idle" /\ with[p] \in Player /\ p # with[p]
          BY <2>2 DEF IInv, RestInv
      <3>2. \A r \in {p, with[p]} : Own(r)' = Own(r)
          BY <2>1, <2>2, <3>1 DEF Disturbs
      <3>3. \A r \in {p, with[p]} : accepted'[r] = accepted[r] /\ target'[r] = target[r]
          BY <3>2 DEF Own
      <3>4. with'[p] = with[p]
          BY <1>2, <2>2, <3>1, Calls_Stay
      <3> QED BY <2>1, <2>2, <3>1, <3>3, <3>4 DEF Carried, Mutual
    <2>3. CASE at'[p] # at[p]
      <3>1. Confirmation(p) \/ \E q \in Player : ConfirmTrade(p, q)
          BY <1>2, <2>3, OwnStep
      <3>2. CASE \E q \in Player : ConfirmTrade(p, q)
          BY <3>2 DEF ConfirmTrade, IInv, RestInv, HalfInv, HalfTypes
      <3>3. CASE CheckPassed(p)
        <4>1. /\ at[p] = "confirming" /\ at'[p] = "checked"
              /\ accepted[with[p]] /\ UNCHANGED <<accepted, with>>
            BY <3>3 DEF CheckPassed, half, IInv, RestInv
        <4> QED BY <2>1, <4>1 DEF Carried
      <3>4. CASE Pay(p)
        <4>1. /\ at[p] = "checked" /\ Mutual(p, with[p])
              /\ UNCHANGED <<accepted, target, with>>
            BY <3>4 DEF Pay, Settleable, half
        <4> QED BY <2>1, <4>1 DEF Carried, Mutual
      <3>5. CASE NotYetAccepted(p) \/ CheckFailed(p) \/ PayFailed(p) \/ Give(p) \/ GiveFailed(p)
          BY <3>5 DEF NotYetAccepted, CheckFailed, PayFailed, Give, GiveFailed, Return, IInv, RestInv
      <3> QED BY <3>1, <3>2, <3>3, <3>4, <3>5 DEF Confirmation
    <2> QED BY <2>2, <2>3
  <1> QED BY <1>1, <1>2

-----------------------------------------------------------------------------
(* What is offered is there *)

LEMMA Cleared_Backed ==
  ASSUME IInv, Backed, NEW S \in SUBSET Player, CancelTrade(S), bag' \in [Player -> [Kind -> Nat]],
         \A p \in Player \ S : bag'[p] = bag[p]
  PROVE  Backed'
  <1> SUFFICES ASSUME NEW p \in Player \ Careless, NEW k \in Kind
               PROVE  window'[p][k] <= bag'[p][k]
      BY DEF Backed
  <1>1. CASE p \in S
    <2>1. window'[p] = Nothing /\ bag'[p][k] \in Nat
        BY <1>1 DEF CancelTrade, ClearTradeInfo
    <2> QED BY <2>1 DEF Nothing
  <1>2. CASE p \notin S
      BY <1>2 DEF CancelTrade, ClearTradeInfo, Backed
  <1> QED BY <1>1, <1>2

\* A GiveItem changes the inventories of the two who trade.
LEMMA Given_Else ==
  ASSUME NEW p \in Player, Give(p) \/ GiveFailed(p), IInv
  PROVE  \A r \in Player \ {p, with[p]} : bag'[r] = bag[r]
  BY DEF Give, GiveFailed, Given, IInv, RestInv

LEMMA Handler_Backed ==
  ASSUME IInv, Backed, NEW p \in Player, Handler(p)
  PROVE  Backed'
  <1>1. UNCHANGED bag
      BY DEF Handler, PacketWhileMoving, OwnHandle, onCancelTrade, onFreezeTrade, onAcceptTrade,
             onAddItem, onRemoveItem, onAddGold, ConfirmRefused, ConfirmTrade, wealth
  <1>2. CASE UNCHANGED window
      BY <1>1, <1>2 DEF Backed
  <1>3. CASE \E q \in Player : onAcceptTrade(p, q)
      BY <1>1, <1>3, BoundAssumption DEF onAcceptTrade, ClearTradeInfo, Backed, Nothing, IInv, RestInv
  <1>4. CASE \E q \in Player : onAddItem(p, q)
    <2>1. PICK k \in Kind : \E n \in 1 .. bag[p][k] : window' = [window EXCEPT ![p][k] = n]
        BY <1>4 DEF onAddItem
    <2>2. PICK n \in 1 .. bag[p][k] : window' = [window EXCEPT ![p][k] = n]
        BY <2>1
    <2>3. n <= bag[p][k]
        BY <2>2 DEF IInv, RestInv
    <2> QED BY <1>1, <2>2, <2>3 DEF Backed, IInv, HalfInv, HalfTypes
  <1>5. CASE \E q \in Player : onRemoveItem(p, q)
    <2>1. PICK k \in Kind : window' = [window EXCEPT ![p][k] = 0]
        BY <1>5 DEF onRemoveItem
    <2>2. 0 <= bag[p][k]
        BY DEF IInv, RestInv
    <2> QED BY <1>1, <2>1, <2>2 DEF Backed, IInv, HalfInv, HalfTypes
  <1>6. CASE \E S \in SUBSET Player : CancelTrade(S)
      BY <1>1, <1>6, Cleared_Backed DEF IInv, RestInv
  <1>7. CASE onCancelTrade(p)
    <2>1. {p} \cup GetTradeTarget(p) \in SUBSET Player
        BY DEF GetTradeTarget
    <2> QED BY <1>6, <1>7, <2>1 DEF onCancelTrade
  <1>8. CASE PacketWhileMoving(p) \/ OwnHandle(p) \/ \E q \in Player : ConfirmRefused(p, q)
    <2>1. \E q \in Player : CancelTrade({p, q}) \/ CancelTrade({p})
        BY <1>8 DEF PacketWhileMoving, OwnHandle, ConfirmRefused
    <2>2. \A q \in Player : {p, q} \in SUBSET Player /\ {p} \in SUBSET Player
        OBVIOUS
    <2> QED BY <1>6, <2>1, <2>2
  <1>9. CASE onFreezeTrade(p) \/ \E q \in Player : onAddGold(p, q) \/ ConfirmTrade(p, q)
      BY <1>2, <1>9 DEF onFreezeTrade, onAddGold, ConfirmTrade
  <1> QED BY <1>3, <1>4, <1>5, <1>7, <1>8, <1>9 DEF Handler

LEMMA Step_Backed ==
  ASSUME IInv, Backed, [Next]_vars
  PROVE  Backed'
  <1>1. CASE UNCHANGED vars
      BY <1>1 DEF vars, half, wealth, Backed
  <1>2. ASSUME NEW p \in Player, Confirmation(p) PROVE Backed'
    <2>1. CASE NotYetAccepted(p) \/ CheckPassed(p) \/ Pay(p)
        BY <2>1 DEF NotYetAccepted, CheckPassed, Pay, half, wealth, Backed
    <2>2. CASE CheckFailed(p) \/ PayFailed(p) \/ Give(p) \/ GiveFailed(p)
      <3>1. CancelTrade({p, with[p]}) /\ {p, with[p]} \in SUBSET Player
          BY <2>2 DEF CheckFailed, PayFailed, Give, GiveFailed, IInv, RestInv
      <3>2. bag' \in [Player -> [Kind -> Nat]]
          BY <1>2, Confirmation_RestInv DEF RestInv
      <3>3. \A r \in Player \ {p, with[p]} : bag'[r] = bag[r]
        <4>1. CASE CheckFailed(p) \/ PayFailed(p)
            BY <4>1 DEF CheckFailed, PayFailed, wealth
        <4> QED BY <2>2, <4>1, Given_Else
      <3> QED BY <3>1, <3>2, <3>3, Cleared_Backed
    <2> QED BY <1>2, <2>1, <2>2 DEF Confirmation
  <1>3. ASSUME NEW p \in Player, Around(p) PROVE Backed'
    <2>1. CASE DeletePlayer(p)
      <3>1. UNCHANGED bag /\ window' = [window EXCEPT ![p] = Nothing]
          BY <2>1 DEF DeletePlayer, wealth
      <3> QED BY <3>1 DEF Backed, Nothing, IInv, RestInv, HalfInv, HalfTypes
    <2>2. CASE OpenStorage(p) \/ CloseStorage(p) \/ LogoutNow(p) \/ EnterWorld(p)
        BY <2>2 DEF OpenStorage, CloseStorage, LogoutNow, EnterWorld, half, wealth, Backed
    <2> QED BY <1>3, <2>1, <2>2 DEF Around
  <1>4. ASSUME NEW p \in Careless, LoseItem(p) \/ SpendGold(p) PROVE Backed'
    <2>1. UNCHANGED window /\ \A q \in Player \ Careless : bag'[q] = bag[q]
        BY <1>4 DEF LoseItem, SpendGold, half, IInv, RestInv
    <2> QED BY <2>1 DEF Backed
  <1> QED BY <1>1, <1>2, <1>3, <1>4, Handler_Backed, BoundAssumption DEF Next

\* From its check to the last item a confirmation finds the trade as it was when
\* both had accepted it, unless others came in between.
THEOREM InductiveCalls == Spec => [](IInv /\ CallInv)
  <1>1. ASSUME IInv, CallInv, [Next]_vars PROVE CallInv'
      BY <1>1, Step_Carried, Step_Backed DEF CallInv
  <1> QED BY <1>1, Init_CallInv, Inductive, PTL DEF Spec

LEMMA Step_Pays ==
  ASSUME IInv, CallInv, [Next]_vars, NEW p \in Player \ disturbed
  PROVE  PaysBoth(p)
  <1> DEFINE q == with[p]
  <1> SUFFICES ASSUME at[p] = "checked", at'[p] = "paid"
               PROVE  /\ Mutual(p, q) /\ accepted[p] /\ accepted[q]
                      /\ gold' = Exchanged(gold, p, q, tradeGold)
      BY DEF PaysBoth
  <1>2. Pay(p)
    <2>1. Confirmation(p)
        BY OwnStep DEF ConfirmTrade, onTrade, Turn
    <2>2. ~(NotYetAccepted(p) \/ CheckFailed(p) \/ PayFailed(p) \/ Give(p) \/ GiveFailed(p))
        BY DEF NotYetAccepted, CheckFailed, PayFailed, Give, GiveFailed, Return, IInv, RestInv
    <2> QED BY <2>1, <2>2 DEF Confirmation, CheckPassed
  <1>1. Mutual(p, q) /\ accepted[p] /\ accepted[q]
      BY <1>2 DEF CallInv, Carried, Pay, Settleable
  <1>3. q \in Player /\ q # p
      BY DEF IInv, RestInv
  <1>4. gold[q] \in Int /\ tradeGold[p] \in Int /\ tradeGold[q] \in Int
      BY <1>3, BoundAssumption DEF IInv, RestInv, HalfInv, HalfTypes, Gold
  <1>5. gold[q] + tradeGold[p] - tradeGold[q] = gold[q] - tradeGold[q] + tradeGold[p]
      BY <1>4
  <1>6. gold' = [gold EXCEPT ![p] = gold[p] - tradeGold[p] + tradeGold[q],
                             ![q] = gold[q] + tradeGold[p] - tradeGold[q]]
      BY <1>2, <1>3 DEF Pay
  <1> QED BY <1>1, <1>5, <1>6 DEF Exchanged

\* Between the payment and the items nothing can go wrong for two who still
\* have what they offered.
LEMMA NoGiveFailed ==
  ASSUME IInv, CallInv, NEW p \in Player \ disturbed, {p, with[p]} \cap Careless = {}
  PROVE  ~GiveFailed(p)
  <1> DEFINE q == with[p]
             half1 == Given(bag, p, q, Kind)
  <1> SUFFICES ASSUME GiveFailed(p) PROVE FALSE
      OBVIOUS
  <1>1. at[p] = "paid" /\ q \in Player \ {p}
      BY DEF GiveFailed, IInv, RestInv
  <1>2. target[p] = q /\ target[q] = p
      BY <1>1 DEF CallInv, Carried, Mutual
  <1>3. \A k \in Kind : /\ window[p][k] \in Nat /\ bag[p][k] \in Nat /\ window[p][k] <= bag[p][k]
                        /\ window[q][k] \in Nat /\ bag[q][k] \in Nat /\ window[q][k] <= bag[q][k]
    <2> SUFFICES ASSUME NEW r \in Player \ Careless, NEW k \in Kind
                 PROVE  window[r][k] \in Nat /\ bag[r][k] \in Nat /\ window[r][k] <= bag[r][k]
        BY <1>1
    <2>1. window[r][k] \in Nat /\ bag[r][k] \in Nat
        BY BoundAssumption DEF IInv, RestInv, HalfInv, HalfTypes, Count
    <2> QED BY <2>1 DEF CallInv, Backed
  <1>4. Givable(bag, p) = Kind
      BY <1>3 DEF Givable
  <1>5. \A k \in Kind : half1[q][k] = bag[q][k] + window[p][k]
      BY <1>1 DEF Given, IInv, RestInv
  <1>6. Givable(half1, q) = Kind
      BY <1>3, <1>5 DEF Givable
  <1>7. Worn(p) = {} /\ Worn(q) = {}
      BY DEF Worn
  <1> QED BY <1>2, <1>4, <1>6, <1>7 DEF GiveFailed

LEMMA Give_Exchanges ==
  ASSUME IInv, NEW p \in Player, Give(p), NEW k \in Kind
  PROVE  LET q == with[p]
         IN  [r \in Player |-> bag'[r][k]] =
                 Exchanged([r \in Player |-> bag[r][k]], p, q, [r \in Player |-> window[r][k]])
  <1> DEFINE q == with[p]
             half1 == Given(bag, p, q, Kind)
             f == [r \in Player |-> bag[r][k]]
             g == [r \in Player |-> window[r][k]]
             h == [r \in Player |-> bag'[r][k]]
  <1>1. q \in Player /\ q # p
      BY DEF Give, IInv, RestInv
  <1>2. bag' = Given(half1, q, p, Kind) /\ bag \in [Player -> [Kind -> Nat]]
      BY DEF Give, IInv, RestInv
  <1>3. /\ \A r \in Player \ {p, q} : half1[r] = bag[r]
        /\ half1[p] = [j \in Kind |-> bag[p][j] - window[p][j]]
        /\ half1[q] = [j \in Kind |-> bag[q][j] + window[p][j]]
        /\ DOMAIN half1 = Player
      BY <1>1, <1>2 DEF Given
  <1>4. /\ \A r \in Player \ {p, q} : bag'[r] = half1[r]
        /\ bag'[p] = [j \in Kind |-> half1[p][j] + window[q][j]]
        /\ bag'[q] = [j \in Kind |-> half1[q][j] - window[q][j]]
      BY <1>1, <1>2, <1>3 DEF Given
  <1>5. /\ bag[p][k] \in Int /\ bag[q][k] \in Int
        /\ window[p][k] \in Int /\ window[q][k] \in Int
      BY <1>1, <1>2, BoundAssumption DEF IInv, HalfInv, HalfTypes, Count
  <1>6. h[p] = f[p] - g[p] + g[q] /\ h[q] = f[q] - g[q] + g[p]
      BY <1>1, <1>3, <1>4, <1>5
  <1>7. \A r \in Player \ {p, q} : h[r] = f[r]
      BY <1>3, <1>4
  <1>8. h = Exchanged(f, p, q, g)
      BY <1>1, <1>6, <1>7 DEF Exchanged
  <1> QED BY <1>8

LEMMA Step_Gives ==
  ASSUME IInv, CallInv, [Next]_vars, NEW p \in Player \ disturbed, {p, with[p]} \cap Careless = {}
  PROVE  GivesBoth(p)
  <1> SUFFICES ASSUME at[p] = "paid", at'[p] # "paid" PROVE GivesBoth(p)
      BY DEF GivesBoth
  <1>1. Give(p)
    <2>1. Confirmation(p)
        BY OwnStep DEF ConfirmTrade, onTrade, Turn
    <2> QED BY <2>1, NoGiveFailed DEF Confirmation, NotYetAccepted, CheckPassed, CheckFailed, Pay, PayFailed
  <1> QED BY <1>1, Give_Exchanges DEF GivesBoth

\* A trade is settled for two who accepted each other, gold for gold and then
\* items for items, and fails between the two only if one of them disposed of what
\* it offered or others came in between the steps of the one who settles it.
THEOREM Settled == Spec => AllOrNothing
  <1>1. ASSUME IInv, CallInv, [Next]_vars
        PROVE  [\A p \in Player \ disturbed :
                   PaysBoth(p) /\ ({p, with[p]} \cap Careless = {} => GivesBoth(p))]_vars
      BY <1>1, Step_Pays, Step_Gives
  <1> QED BY <1>1, InductiveCalls, PTL DEF Spec, AllOrNothing
=============================================================================
