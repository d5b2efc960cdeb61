--------------------------- MODULE HandPointLoops ---------------------------
(***************************************************************************)
(* PointsTools::getHandPoints as the code writes it, two passes over the   *)
(* vector of cards, and two descriptions of a hand's value that do not     *)
(* loop: the rules' definition, and the tally of PointsTools.tla that      *)
(* GameServer uses.  Dealing.tla compares them on the hands it deals.      *)
(***************************************************************************)
EXTENDS PointsTools, Sequences, SequencesExt, FiniteSets

-----------------------------------------------------------------------------
(* The loops.  The break of the second loop leaves the result as it is, so *)
(* going on without softening is the same computation.                     *)
AddUp(result, rank) == result + CardPoints[rank]

\* Mutant: the total is not looked at again after the first ace.
SoftenEveryAce(result, rank) ==
    IF rank = kAce THEN result - CardPoints[rank] + 1 ELSE result

\* Mutant: "result =+ 1" for "result += 1".
SoftenAssigns(result, rank) ==
    IF IsBustedPoints(result) /\ rank = kAce THEN 1 ELSE result

Soften(result, rank) ==
    IF IsBustedPoints(result) /\ rank = kAce
    THEN result - CardPoints[rank] + 1
    ELSE result

GetHandPoints(hand, isSmart) ==
    LET result == FoldLeft(AddUp, 0, hand)
    IN  IF ~IsBustedPoints(result) \/ ~isSmart
        THEN result
        ELSE FoldLeft(Soften, result, hand)

CardsBusted(hand) == IsBustedPoints(GetHandPoints(hand, TRUE))

CardsBlackjack(hand) == Len(hand) = 2 /\ GetHandPoints(hand, TRUE) = blackjackPoints

-----------------------------------------------------------------------------
\* The tally of PointsTools.tla, of the cards in the order they were dealt.
Tally(hand) == FoldLeft(WithCard, NoCards, hand)

\* A card with an ace counted low.
HardPoints(rank) == IF rank = kAce THEN 1 ELSE CardPoints[rank]

AddLow(total, rank) == total + HardPoints(rank)

Aces(hand) == {i \in DOMAIN hand : hand[i] = kAce}

\* The totals a hand can be given by choosing 1 or 11 for each of its aces.
Totals(hand) ==
    {FoldLeft(AddLow, 0, hand) + 10 * k : k \in 0 .. Cardinality(Aces(hand))}
=============================================================================
