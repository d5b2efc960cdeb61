------------------------------ MODULE Amounts ------------------------------
(***************************************************************************)
(* Amounts of money: the doubles of Bet::amount and UserModel::money, as   *)
(* the game compares and adds them.  A double is a whole number or NaN,    *)
(* which std::stod makes of the text "nan".  A comparison with NaN is      *)
(* false, whichever way it is written, and NaN absorbs what it is added    *)
(* to.  Whole numbers stand for all others: the order of their sums is     *)
(* what the checks look at, and an infinite bet is one that nobody can     *)
(* pay.  Rounding is left out.                                             *)
(***************************************************************************)
EXTENDS Integers

CONSTANTS NaN,     \* not a number
          epsilon  \* numeric_limits<double>::epsilon(), in the unit of the amounts

ASSUME NaNAssumption == NaN \notin Int
ASSUME EpsilonAssumption == epsilon \in Nat

-----------------------------------------------------------------------------
\* a <= b and a > b: neither holds when one of the two is NaN.
AtMost(a, b) == a # NaN /\ b # NaN /\ a <= b

Exceeds(a, b) == a # NaN /\ b # NaN /\ a > b

Plus(a, b) == IF NaN \in {a, b} THEN NaN ELSE a + b

Minus(a, b) == IF NaN \in {a, b} THEN NaN ELSE a - b

\* amount * multiplier, the multiplier counted in halves.
TimesHalves(a, halves) == IF a = NaN THEN NaN ELSE (a * halves) \div 2
=============================================================================
