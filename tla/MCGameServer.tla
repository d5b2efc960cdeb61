---------------------------- MODULE MCGameServer ----------------------------
EXTENDS GameServer, TLC

\* Tens and aces reach every outcome: 20, blackjack, bust, soft totals that
\* turn hard, and a dealer who draws to 17 .. 21 or over.
MCDealtRanks == {kTen, kAce}

\* Too small to count, the initial money, more by what executeBet overlooks, NaN.
MCBetAmounts == {2, 4, 6, NaN}

MCHandIndexes == {0, 1}

MCSymmetry == Permutations(Socket)
=============================================================================
