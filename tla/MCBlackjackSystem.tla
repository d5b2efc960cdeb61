------------------------- MODULE MCBlackjackSystem -------------------------
EXTENDS BlackjackSystem

MCRequests == {"setReady", "bet", "hit", "stand", "join", "leave"}

\* Tens only: 20 for everybody, and a third card busts.
MCDealtRanks == {8}
=============================================================================
