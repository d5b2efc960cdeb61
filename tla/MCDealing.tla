----------------------------- MODULE MCDealing -----------------------------
(* Dealing.tla with nine cards: 57 points, just enough for one player, not *)
(* always for two, and never for four.                                     *)
EXTENDS Dealing

CONSTANTS p1, p2, p3, p4

MCDeckRanks == {6, kTen, kAce}

MCTables == {{p1}, {p2}, {p1, p2}, {p1, p2, p3, p4}}

MCSymmetry == Permutations({p1, p2})
=============================================================================
