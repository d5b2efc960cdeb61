------------------------------ MODULE Dealing ------------------------------
(***************************************************************************)
(* The hit-stand phase with its cards: the shoe (PlayingCards::Shoe), the  *)
(* vectors of cards of the players' hands and of the dealer's, and the     *)
(* handlers that deal.  Bets are left to GameServer.tla, whose endless     *)
(* shoe and tallied hands this module looks into.                          *)
(*                                                                         *)
(* Suits never count, so a card is its rank, and as the shoe is shuffled   *)
(* any card it holds may be its last one.  dealCard throws NotEnoughCards  *)
(* when it holds none, which nothing catches: the server ends.             *)
(***************************************************************************)
EXTENDS HandPointLoops, FiniteSetsExt

CONSTANTS Tables,      \* the sets of players who can start a round together
          DeckRanks,   \* ranks of a deck
          nbOfCopies   \* cards of each rank in a new shoe, 4 * shoeSize in the code

ASSUME TablesAssumption == \A ps \in Tables : IsFiniteSet(ps) /\ ps # {}
ASSUME DeckAssumption == DeckRanks \subseteq Rank /\ nbOfCopies \in Nat

VARIABLES
    phase,        \* "NotStarted", "HitStandPhase", or "terminated"
    shoe,         \* gameSession.shoe: how many cards of each rank
    dealersHand,  \* gameSession.dealersHand->cards
    hands,        \* hands[0]->cards of the players
    standing      \* players whose hand is standing

vars == <<phase, shoe, dealersHand, hands, standing>>

-----------------------------------------------------------------------------
(* Shoe *)
FreshShoe == [rank \in DeckRanks |-> nbOfCopies]

\* The shoe after a dealCard for each of the cards.
Without(from, cards) ==
    [rank \in DeckRanks |-> from[rank] - Cardinality({i \in DOMAIN cards : cards[i] = rank})]

\* None of the cards dealt was missing.
Holds(left) == \A rank \in DeckRanks : left[rank] >= 0

CardsLeft(from) == MapThenSumSet(LAMBDA rank : from[rank], DeckRanks)

\* Mutant: dealCard does not look whether there is a card.
AnyRank(from) == DeckRanks

Available(from) == {rank \in DeckRanks : from[rank] > 0}

NotEnoughCards(hs, stand) ==
    /\ phase' = "terminated"
    /\ hands' = hs
    /\ standing' = stand
    /\ UNCHANGED <<shoe, dealersHand>>

-----------------------------------------------------------------------------
(* DealerLogic::dealFinalDealersCards, and the end of the round. *)
BelowLimit(cards) == GetHandPoints(cards, TRUE) < dealerPointsLimit

\* One turn of the drawing loop; with an empty shoe it gets no further.
DrawOneCard(table) ==
    IF BelowLimit(table.cards) /\ Available(table.shoe) # {}
    THEN {[cards |-> Append(table.cards, rank), shoe |-> Without(table.shoe, <<rank>>)] :
             rank \in Available(table.shoe)}
    ELSE {table}

\* A card adds a point at least, so dealerPointsLimit turns are enough.
AfterDrawing(table) ==
    LET after[n \in 0 .. dealerPointsLimit] ==
            IF n = 0 THEN {table} ELSE UNION {DrawOneCard(t) : t \in after[n - 1]}
    IN  after[dealerPointsLimit]

StartCashing(hs, stand, table) ==
    \E final \in AfterDrawing(table) :
        IF BelowLimit(final.cards)
        THEN NotEnoughCards(hs, stand)
        ELSE /\ phase' = "NotStarted"
             /\ shoe' = final.shoe
             /\ dealersHand' = final.cards
             /\ hands' = <<>>
             /\ standing' = {}

-----------------------------------------------------------------------------
(* startHitStandPhase, for the players whose hands are hs: a new shoe, a   *)
(* new hand for the dealer, and two cards on top of what everybody has.    *)
Pairs == {pair \in DeckRanks \X DeckRanks : pair[1] <= pair[2]}

\* The shoe once the dealer and then the players have their two cards.
ShoeAfterDealing(dealersPair, pairs) ==
    Without(Without(FreshShoe, dealersPair),
            [card \in (DOMAIN pairs) \X {1, 2} |-> pairs[card[1]][card[2]]])

Deal(hs, stand, dealersPair, pairs) ==
    LET dealt == [p \in DOMAIN hs |-> hs[p] \o pairs[p]]
        left  == ShoeAfterDealing(dealersPair, pairs)
    IN  IF stand = DOMAIN hs
        THEN StartCashing(dealt, stand, [cards |-> dealersPair, shoe |-> left])
        ELSE /\ phase' = "HitStandPhase"
             /\ shoe' = left
             /\ dealersHand' = dealersPair
             /\ hands' = dealt
             /\ standing' = stand

StartHitStandPhase(hs, stand) ==
    \/ /\ CardsLeft(FreshShoe) < 2 + 2 * Cardinality(DOMAIN hs)
       /\ NotEnoughCards(hs, stand)
    \/ \E dealersPair \in Pairs, pairs \in [DOMAIN hs -> Pairs] :
          /\ Holds(ShoeAfterDealing(dealersPair, pairs))
          /\ Deal(hs, stand, dealersPair, pairs)

\* The last bet is placed: the players who made it to this phase have an
\* empty hand each.
StartRound(ps) ==
    /\ phase = "NotStarted"
    /\ StartHitStandPhase([p \in ps |-> <<>>], {})

-----------------------------------------------------------------------------
CanAct(p) ==
    /\ phase = "HitStandPhase"
    /\ p \in DOMAIN hands \ standing

\* The tail of hitRequest and standRequest.
CashOnceAllStand(hs, stand, from) ==
    IF stand = DOMAIN hs
    THEN StartCashing(hs, stand, [cards |-> dealersHand, shoe |-> from])
    ELSE /\ hands' = hs
         /\ standing' = stand
         /\ shoe' = from
         /\ UNCHANGED <<phase, dealersHand>>

\* Mutant: a hand that is busted can go on.
NeverStands(cards) == FALSE

MustStand(cards) == CardsBusted(cards) \/ CardsBlackjack(cards)

ExecuteHit(p, rank) ==
    LET cards == Append(hands[p], rank)
    IN  CashOnceAllStand([hands EXCEPT ![p] = cards],
                         IF MustStand(cards) THEN standing \cup {p} ELSE standing,
                         Without(shoe, <<rank>>))

HitRequest(p) ==
    /\ CanAct(p)
    /\ \/ Available(shoe) = {} /\ NotEnoughCards(hands, standing)
       \/ \E rank \in Available(shoe) : ExecuteHit(p, rank)

StandRequest(p) ==
    /\ CanAct(p)
    /\ CashOnceAllStand(hands, standing \cup {p}, shoe)

\* All bets of a hit-stand phase are placed, also when one player less makes
\* them: leaveGame starts the phase again.
LeaveGame(p) ==
    /\ phase = "HitStandPhase"
    /\ p \in DOMAIN hands
    /\ IF DOMAIN hands = {p}
       THEN /\ phase' = "NotStarted"
            /\ hands' = <<>>
            /\ standing' = {}
            /\ UNCHANGED <<shoe, dealersHand>>
       ELSE StartHitStandPhase([q \in DOMAIN hands \ {p} |-> hands[q]], standing \ {p})

Init ==
    /\ phase = "NotStarted"
    /\ shoe = FreshShoe
    /\ dealersHand = <<>>
    /\ hands = <<>>
    /\ standing = {}

Next ==
    \/ \E ps \in Tables : StartRound(ps)
    \/ \E p \in UNION Tables : HitRequest(p) \/ StandRequest(p) \/ LeaveGame(p)

Spec == Init /\ [][Next]_vars

-----------------------------------------------------------------------------
(* The shoe never owes a card, and hands and phases have their types.      *)
TypeOK ==
    /\ phase \in {"NotStarted", "HitStandPhase", "terminated"}
    /\ shoe \in [DeckRanks -> 0 .. nbOfCopies]
    /\ dealersHand \in Seq(DeckRanks)
    /\ DOMAIN hands \subseteq UNION Tables
    /\ hands \in [DOMAIN hands -> Seq(DeckRanks)]
    /\ standing \subseteq DOMAIN hands

HandsOnTheTable == {dealersHand} \cup {hands[p] : p \in DOMAIN hands}

(* The loops of getHandPoints, which look at one ace after the other, find *)
(* the best total of the rules: the highest of those that do not bust, or  *)
(* the lowest if all bust.                                                 *)
PointsAreTheBestTotal ==
    \A cards \in HandsOnTheTable :
        LET fitting == {n \in Totals(cards) : ~IsBustedPoints(n)}
        IN  GetHandPoints(cards, TRUE)
                = IF fitting # {} THEN Max(fitting) ELSE Min(Totals(cards))

(* The tally GameServer.tla keeps of a hand answers each question as the   *)
(* loops do on the cards, in whatever order they came.                     *)
TallyAgreesWithLoops ==
    \A cards \in HandsOnTheTable :
        LET tally == Tally(cards)
        IN  /\ HandPoints(tally) = GetHandPoints(cards, TRUE)
            /\ IsBusted(tally) = CardsBusted(cards)
            /\ IsBlackjack(tally) = CardsBlackjack(cards)

(* NotEnoughCards is never thrown as long as the shoe is large enough for  *)
(* the players of the round.  One who may hit has 21 points at most and    *)
(* gets 10 on top, aces counted low: a player takes 31 points out of a     *)
(* shoe, also when the phase is started again, and the dealer 26.  The     *)
(* 1700 points of the five decks are enough for 54 players.                *)
ShoeLasts ==
    nbOfCopies * MapThenSumSet(HardPoints, DeckRanks) >= 31 * Cardinality(DOMAIN hands) + 26
        => phase # "terminated"

(* A busted hand stays busted whatever is dealt to it, also when leaveGame *)
(* starts the phase again: isSmart never rescues it.                       *)
BustIsFinal ==
    [][\A p \in DOMAIN hands \cap DOMAIN hands' :
          CardsBusted(hands[p]) => CardsBusted(hands'[p])]_vars
=============================================================================
