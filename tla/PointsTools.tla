---------------------------- MODULE PointsTools ----------------------------
(***************************************************************************)
(* Card and hand values (BlackjackLogic/PointsTools.cpp).                  *)
(*                                                                         *)
(* Every decision of the game logic reads a hand through three questions:  *)
(* how many points, busted or not, blackjack or not.  The vector of cards  *)
(* is therefore abstracted to a tally: how many cards, their total with    *)
(* every ace counted 1, and whether there is an ace.  HandPointLoops.tla   *)
(* keeps the loops of the code over the vector and checks that the tally   *)
(* answers the three questions exactly as they do.                         *)
(***************************************************************************)
EXTENDS Integers

\* Card::Rank, in the order of the enum: kTwo = 0, ..., kTen = 8, ...
Rank == 0 .. 12
kTen == 8
kAce == 12

blackjackPoints == 21
dealerPointsLimit == 17

\* PointsTools::cardPoints: the pips, 10 for kTen to kKing, 11 for kAce.
CardPoints ==
    [r \in Rank |-> IF r = kAce THEN 11 ELSE IF r >= kTen THEN 10 ELSE r + 2]

IsBustedPoints(points) == points > blackjackPoints

-----------------------------------------------------------------------------
Hand == [size : Nat, hard : Nat, hasAce : BOOLEAN]

NoCards == [size |-> 0, hard |-> 0, hasAce |-> FALSE]

\* Mutant: the tally forgets an ace when another card follows.
WithCardOnly(hand, rank) ==
    [size   |-> hand.size + 1,
     hard   |-> hand.hard + (IF rank = kAce THEN 1 ELSE CardPoints[rank]),
     hasAce |-> rank = kAce]

\* hand.cards.push_back(card)
WithCard(hand, rank) ==
    [size   |-> hand.size + 1,
     hard   |-> hand.hard + (IF rank = kAce THEN 1 ELSE CardPoints[rank]),
     hasAce |-> hand.hasAce \/ rank = kAce]

\* getHandPoints: at most one ace can keep its 11 points.
HandPoints(hand) ==
    IF hand.hasAce /\ ~IsBustedPoints(hand.hard + 10) THEN hand.hard + 10 ELSE hand.hard

IsBusted(hand) == IsBustedPoints(HandPoints(hand))

IsBlackjack(hand) == hand.size = 2 /\ HandPoints(hand) = blackjackPoints
=============================================================================
