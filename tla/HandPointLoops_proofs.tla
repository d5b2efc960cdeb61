----------------------- MODULE HandPointLoops_proofs -----------------------
(***************************************************************************)
(* The loops of getHandPoints, for hands of any length: they find the best *)
(* total of the rules, the tally of PointsTools.tla answers as they do,    *)
(* and a busted hand is never rescued by more cards.                       *)
(*                                                                         *)
(* The argument runs along the cards.  FoldLeft is a recursive function on *)
(* the subsets of the positions; SubsetRecursion says that there is one,   *)
(* and the StepByStep lemmas read the fold as the sequence of values its   *)
(* accumulator takes.  With T the total with every ace counted 11, n the   *)
(* number of aces and k those softened, the second loop keeps its result   *)
(* at T - 10k, softens no ace of a hand that is not busted, and leaves a   *)
(* busted one only without aces.  As each ace is a point at least, two     *)
(* aces never stay at 11.                                                  *)
(***************************************************************************)
EXTENDS HandPointLoops, FiniteSetTheorems, WellFoundedInduction, TLAPS

-----------------------------------------------------------------------------
(* Induction, with the set of the numbers that have the property for the   *)
(* property.                                                               *)
LEMMA LeastNatural ==
    ASSUME NEW T \in SUBSET Nat, T # {}
    PROVE  \E m \in T : \A k \in T : m <= k
<1>1. PICK m \in T : \A k \in T : ~ (<<k, m>> \in OpToRel(<, Nat))
  BY NatLessThanWellFounded, WFMin
<1>2. \A k \in T : ~ (k < m)
  BY <1>1 DEF OpToRel
<1> QED
  BY <1>2

LEMMA Induction ==
    ASSUME NEW G, 0 \in G, \A n \in Nat : n \in G => n + 1 \in G
    PROVE  Nat \subseteq G
<1> SUFFICES ASSUME NEW x \in Nat, x \notin G PROVE FALSE
  OBVIOUS
<1> DEFINE T == {n \in Nat : n \notin G}
<1>1. T \in SUBSET Nat /\ T # {}
  OBVIOUS
<1>2. PICK m \in T : \A k \in T : m <= k
  BY <1>1, LeastNatural
<1>3. m - 1 \in Nat /\ m - 1 \notin T
  BY <1>2
<1> QED
  BY <1>2, <1>3

LEMMA InductionUpTo ==
    ASSUME NEW n \in Nat, NEW G, 0 \in G, \A i \in 1 .. n : i - 1 \in G => i \in G
    PROVE  0 .. n \subseteq G
<1> DEFINE T == {m \in Nat : m <= n => m \in G}
<1>1. 0 \in T
  OBVIOUS
<1>2. ASSUME NEW m \in Nat, m \in T
      PROVE  m + 1 \in T
  <2> SUFFICES ASSUME m + 1 <= n PROVE m + 1 \in G
    OBVIOUS
  <2>1. m + 1 \in 1 .. n /\ m + 1 - 1 = m /\ m <= n
    OBVIOUS
  <2>2. m + 1 - 1 \in G
    BY <1>2, <2>1
  <2> QED
    BY <2>1, <2>2
<1> HIDE DEF T
<1>3. Nat \subseteq T
  BY <1>1, <1>2, Induction
<1> QED
  BY <1>3 DEF T

-----------------------------------------------------------------------------
(* The positions FoldLeft takes one after the other, the last one first.   *)
LEMMA LastOfInterval ==
    ASSUME NEW i \in Nat \ {0}, NEW s \in SUBSET (1 .. i), i \in s
    PROVE  Max(s) = i
<1>1. i \in s /\ \A y \in s : i >= y
  OBVIOUS
<1>2. \A x \in s : (\A y \in s : x >= y) => x = i
  OBVIOUS
<1> QED
  BY <1>1, <1>2 DEF Max

LEMMA MaxOfInterval ==
    ASSUME NEW n \in Nat, NEW s \in SUBSET (1 .. n), s # {}
    PROVE  Max(s) \in s
<1> DEFINE T == {k \in Nat : n - k \in s}
<1>1. T \in SUBSET Nat /\ T # {}
  <2>1. PICK x \in s : TRUE
    OBVIOUS
  <2>2. n - x \in Nat /\ n - (n - x) = x
    OBVIOUS
  <2> QED
    BY <2>1, <2>2
<1>2. PICK m \in T : \A k \in T : m <= k
  BY <1>1, LeastNatural
<1>3. n - m \in s
  BY <1>2
<1>4. \A y \in s : n - m >= y
  <2> SUFFICES ASSUME NEW y \in s PROVE n - m >= y
    OBVIOUS
  <2>1. n - y \in Nat /\ n - (n - y) = y
    OBVIOUS
  <2>2. m <= n - y
    BY <1>2, <2>1
  <2> QED
    BY <1>2, <2>2
<1> QED
  BY <1>3, <1>4 DEF Max

\* g is the fold of n cards: of the last position s and the fold of the others.
Recurs(g, n, base, step) ==
    \A s \in SUBSET (1 .. n) :
        g[s] = IF s = {} THEN base ELSE step[<<g[s \ {Max(s)}], Max(s)>>]

Defined(n, V, base, step) ==
    \E g \in [SUBSET (1 .. n) -> V] : Recurs(g, n, base, step)

(* Such a function exists, so CHOOSE finds one.                            *)
LEMMA SubsetRecursion ==
    ASSUME NEW n \in Nat, NEW V, NEW base \in V, NEW step \in [V \X (1 .. n) -> V]
    PROVE  Defined(n, V, base, step)
<1> DEFINE G == {m \in Nat : m <= n => Defined(m, V, base, step)}
<1>1. 0 \in G
  <2> DEFINE g == [s \in SUBSET (1 .. 0) |-> base]
  <2>1. SUBSET (1 .. 0) = {{}}
    OBVIOUS
  <2>2. g \in [SUBSET (1 .. 0) -> V] /\ Recurs(g, 0, base, step)
    BY <2>1 DEF Recurs
  <2> QED
    BY <2>2 DEF Defined
<1>2. ASSUME NEW m \in Nat, m \in G
      PROVE  m + 1 \in G
  <2> SUFFICES ASSUME m + 1 <= n
               PROVE  Defined(m + 1, V, base, step)
    OBVIOUS
  <2>1. PICK h \in [SUBSET (1 .. m) -> V] : Recurs(h, m, base, step)
    <3>1. Defined(m, V, base, step)
      BY <1>2
    <3> QED
      BY <3>1 DEF Defined
  <2> DEFINE g == [s \in SUBSET (1 .. m + 1) |->
                     IF m + 1 \in s THEN step[<<h[s \ {m + 1}], m + 1>>] ELSE h[s]]
  <2>2. /\ \A s \in SUBSET (1 .. m + 1) : s \ {m + 1} \in SUBSET (1 .. m)
        /\ \A s \in SUBSET (1 .. m + 1) : m + 1 \notin s => s \in SUBSET (1 .. m)
        /\ SUBSET (1 .. m) \subseteq SUBSET (1 .. m + 1)
        /\ m + 1 \in 1 .. n
    OBVIOUS
  <2>3. g \in [SUBSET (1 .. m + 1) -> V]
    BY <2>2
  <2>4. ASSUME NEW s \in SUBSET (1 .. m + 1), m + 1 \in s
        PROVE  g[s] = step[<<g[s \ {Max(s)}], Max(s)>>]
    <3>1. Max(s) = m + 1
      BY <2>4, LastOfInterval
    <3>2. g[s \ {m + 1}] = h[s \ {m + 1}]
      BY <2>2
    <3> QED
      BY <2>4, <3>1, <3>2
  <2>5. ASSUME NEW s \in SUBSET (1 .. m + 1), m + 1 \notin s, s # {}
        PROVE  g[s] = step[<<g[s \ {Max(s)}], Max(s)>>]
    <3>1. s \in SUBSET (1 .. m) /\ s \ {Max(s)} \in SUBSET (1 .. m)
      BY <2>2, <2>5
    <3>2. g[s] = h[s] /\ g[s \ {Max(s)}] = h[s \ {Max(s)}]
      BY <2>2, <2>5, <3>1
    <3> QED
      BY <2>1, <2>5, <3>1, <3>2 DEF Recurs
  <2>6. g[{}] = base
    <3>1. {} \in SUBSET (1 .. m) /\ {} \in SUBSET (1 .. m + 1)
      OBVIOUS
    <3> QED
      BY <2>1, <3>1 DEF Recurs
  <2>7. Recurs(g, m + 1, base, step)
    BY <2>4, <2>5, <2>6 DEF Recurs
  <2> QED
    BY <2>3, <2>7 DEF Defined
<1> HIDE DEF G
<1>3. n \in G
  BY <1>1, <1>2, Induction
<1> QED
  BY <1>3 DEF G

LEMMA IntervalGrows ==
    ASSUME NEW n \in Nat, NEW i \in 1 .. n
    PROVE  /\ 1 .. i \in SUBSET (1 .. n)
           /\ 1 .. i # {}
           /\ Max(1 .. i) = i
           /\ (1 .. i) \ {Max(1 .. i)} = 1 .. (i - 1)
<1>1. i \in Nat \ {0} /\ 1 .. i \in SUBSET (1 .. i) /\ i \in 1 .. i
  OBVIOUS
<1>2. Max(1 .. i) = i
  BY <1>1, LastOfInterval
<1>3. (1 .. i) \ {i} = 1 .. (i - 1) /\ 1 .. i \in SUBSET (1 .. n) /\ 1 .. i # {}
  OBVIOUS
<1> QED
  BY <1>2, <1>3

-----------------------------------------------------------------------------

LEMMA TotalStepByStep ==
    ASSUME NEW hand \in Seq(Rank)
    PROVE  \E t \in [0 .. Len(hand) -> Int] :
              /\ t[0] = 0
              /\ \A i \in 1 .. Len(hand) : t[i] = AddUp(t[i - 1], hand[i])
              /\ t[Len(hand)] = FoldLeft(AddUp, 0, hand)
<1> DEFINE n == Len(hand)
           step == [x \in Int \X (1 .. n) |-> AddUp(x[1], hand[x[2]])]
<1>1. n \in Nat /\ DOMAIN hand = 1 .. n /\ \A i \in 1 .. n : hand[i] \in Rank
  OBVIOUS
<1>2. \A r \in Int, rank \in Rank : AddUp(r, rank) \in Int
  BY DEF AddUp, CardPoints, Rank, kAce, kTen
<1>3. step \in [Int \X (1 .. n) -> Int]
  BY <1>1, <1>2
<1> HIDE DEF n, step
<1>4. PICK g \in [SUBSET (1 .. n) -> Int] : Recurs(g, n, 0, step)
  <2>1. Defined(n, Int, 0, step)
    <3>1. 0 \in Int
      OBVIOUS
    <3> QED
      BY <1>1, <1>3, <3>1, SubsetRecursion
  <2> QED
    BY <2>1 DEF Defined
<1> DEFINE iter == CHOOSE h : h = [s \in SUBSET (1 .. n) |->
                       IF s = {} THEN 0 ELSE AddUp(h[s \ {Max(s)}], hand[Max(s)])]
<1>5. g = [s \in SUBSET (1 .. n) |->
             IF s = {} THEN 0 ELSE AddUp(g[s \ {Max(s)}], hand[Max(s)])]
  <2>1. ASSUME NEW s \in SUBSET (1 .. n), s # {}
        PROVE  g[s] = AddUp(g[s \ {Max(s)}], hand[Max(s)])
    <3>1. Max(s) \in 1 .. n
      BY <1>1, <2>1, MaxOfInterval
    <3>2. s \ {Max(s)} \in SUBSET (1 .. n)
      OBVIOUS
    <3>3. g[s \ {Max(s)}] \in Int
      BY <3>2
    <3> QED
      BY <1>4, <2>1, <3>1, <3>3 DEF Recurs, step
  <2>2. g[{}] = 0
    BY <1>4 DEF Recurs
  <2> QED
    BY <2>1, <2>2
<1>6. iter = [s \in SUBSET (1 .. n) |->
                IF s = {} THEN 0 ELSE AddUp(iter[s \ {Max(s)}], hand[Max(s)])]
  BY <1>5
<1>7. FoldLeft(AddUp, 0, hand) = iter[1 .. n]
  BY <1>1 DEF FoldLeft, MapThenFoldSet
<1> HIDE DEF iter
<1> DEFINE t == [i \in 0 .. n |-> iter[1 .. i]]
<1>8. iter[1 .. 0] = 0
  BY <1>6
<1>9. ASSUME NEW i \in 1 .. n
      PROVE  iter[1 .. i] = AddUp(iter[1 .. (i - 1)], hand[i])
  <2>1. /\ 1 .. i \in SUBSET (1 .. n) /\ 1 .. i # {} /\ Max(1 .. i) = i
        /\ (1 .. i) \ {Max(1 .. i)} = 1 .. (i - 1)
    BY <1>1, IntervalGrows
  <2>2. iter[1 .. i] = AddUp(iter[(1 .. i) \ {Max(1 .. i)}], hand[Max(1 .. i)])
    BY <1>6, <2>1
  <2> QED
    BY <2>1, <2>2
<1>10. \A i \in 0 .. n : iter[1 .. i] \in Int
  <2> DEFINE G == {i \in 0 .. n : iter[1 .. i] \in Int}
  <2>1. 0 \in G
    BY <1>1, <1>8
  <2>2. \A i \in 1 .. n : i - 1 \in G => i \in G
    BY <1>1, <1>2, <1>9
  <2> HIDE DEF G
  <2>3. 0 .. n \subseteq G
    BY <1>1, <2>1, <2>2, InductionUpTo
  <2> QED
    BY <2>3 DEF G
<1>11. t \in [0 .. n -> Int] /\ t[0] = 0 /\ t[n] = iter[1 .. n]
  BY <1>1, <1>8, <1>10
<1>12. \A i \in 1 .. n : t[i] = AddUp(t[i - 1], hand[i])
  BY <1>1, <1>9
<1> QED
  BY <1>7, <1>11, <1>12 DEF n

LEMMA SofteningStepByStep ==
    ASSUME NEW hand \in Seq(Rank), NEW base \in Int
    PROVE  \E t \in [0 .. Len(hand) -> Int] :
              /\ t[0] = base
              /\ \A i \in 1 .. Len(hand) : t[i] = Soften(t[i - 1], hand[i])
              /\ t[Len(hand)] = FoldLeft(Soften, base, hand)
<1> DEFINE n == Len(hand)
           step == [x \in Int \X (1 .. n) |-> Soften(x[1], hand[x[2]])]
<1>1. n \in Nat /\ DOMAIN hand = 1 .. n /\ \A i \in 1 .. n : hand[i] \in Rank
  OBVIOUS
<1>2. \A r \in Int, rank \in Rank : Soften(r, rank) \in Int
  BY DEF Soften, CardPoints, Rank, kAce, kTen
<1>3. step \in [Int \X (1 .. n) -> Int]
  BY <1>1, <1>2
<1> HIDE DEF n, step
<1>4. PICK g \in [SUBSET (1 .. n) -> Int] : Recurs(g, n, base, step)
  <2>1. Defined(n, Int, base, step)
    <3>1. base \in Int
      OBVIOUS
    <3> QED
      BY <1>1, <1>3, <3>1, SubsetRecursion
  <2> QED
    BY <2>1 DEF Defined
<1> DEFINE iter == CHOOSE h : h = [s \in SUBSET (1 .. n) |->
                       IF s = {} THEN base ELSE Soften(h[s \ {Max(s)}], hand[Max(s)])]
<1>5. g = [s \in SUBSET (1 .. n) |->
             IF s = {} THEN base ELSE Soften(g[s \ {Max(s)}], hand[Max(s)])]
  <2>1. ASSUME NEW s \in SUBSET (1 .. n), s # {}
        PROVE  g[s] = Soften(g[s \ {Max(s)}], hand[Max(s)])
    <3>1. Max(s) \in 1 .. n
      BY <1>1, <2>1, MaxOfInterval
    <3>2. s \ {Max(s)} \in SUBSET (1 .. n)
      OBVIOUS
    <3>3. g[s \ {Max(s)}] \in Int
      BY <3>2
    <3> QED
      BY <1>4, <2>1, <3>1, <3>3 DEF Recurs, step
  <2>2. g[{}] = base
    BY <1>4 DEF Recurs
  <2> QED
    BY <2>1, <2>2
<1>6. iter = [s \in SUBSET (1 .. n) |->
                IF s = {} THEN base ELSE Soften(iter[s \ {Max(s)}], hand[Max(s)])]
  BY <1>5
<1>7. FoldLeft(Soften, base, hand) = iter[1 .. n]
  BY <1>1 DEF FoldLeft, MapThenFoldSet
<1> HIDE DEF iter
<1> DEFINE t == [i \in 0 .. n |-> iter[1 .. i]]
<1>8. iter[1 .. 0] = base
  BY <1>6
<1>9. ASSUME NEW i \in 1 .. n
      PROVE  iter[1 .. i] = Soften(iter[1 .. (i - 1)], hand[i])
  <2>1. /\ 1 .. i \in SUBSET (1 .. n) /\ 1 .. i # {} /\ Max(1 .. i) = i
        /\ (1 .. i) \ {Max(1 .. i)} = 1 .. (i - 1)
    BY <1>1, IntervalGrows
  <2>2. iter[1 .. i] = Soften(iter[(1 .. i) \ {Max(1 .. i)}], hand[Max(1 .. i)])
    BY <1>6, <2>1
  <2> QED
    BY <2>1, <2>2
<1>10. \A i \in 0 .. n : iter[1 .. i] \in Int
  <2> DEFINE G == {i \in 0 .. n : iter[1 .. i] \in Int}
  <2>1. 0 \in G
    BY <1>1, <1>8
  <2>2. \A i \in 1 .. n : i - 1 \in G => i \in G
    BY <1>1, <1>2, <1>9
  <2> HIDE DEF G
  <2>3. 0 .. n \subseteq G
    BY <1>1, <2>1, <2>2, InductionUpTo
  <2> QED
    BY <2>3 DEF G
<1>11. t \in [0 .. n -> Int] /\ t[0] = base /\ t[n] = iter[1 .. n]
  BY <1>1, <1>8, <1>10
<1>12. \A i \in 1 .. n : t[i] = Soften(t[i - 1], hand[i])
  BY <1>1, <1>9
<1> QED
  BY <1>7, <1>11, <1>12 DEF n

LEMMA LowTotalStepByStep ==
    ASSUME NEW hand \in Seq(Rank)
    PROVE  \E t \in [0 .. Len(hand) -> Int] :
              /\ t[0] = 0
              /\ \A i \in 1 .. Len(hand) : t[i] = AddLow(t[i - 1], hand[i])
              /\ t[Len(hand)] = FoldLeft(AddLow, 0, hand)
<1> DEFINE n == Len(hand)
           step == [x \in Int \X (1 .. n) |-> AddLow(x[1], hand[x[2]])]
<1>1. n \in Nat /\ DOMAIN hand = 1 .. n /\ \A i \in 1 .. n : hand[i] \in Rank
  OBVIOUS
<1>2. \A r \in Int, rank \in Rank : AddLow(r, rank) \in Int
  BY DEF AddLow, HardPoints, CardPoints, Rank, kAce, kTen
<1>3. step \in [Int \X (1 .. n) -> Int]
  BY <1>1, <1>2
<1> HIDE DEF n, step
<1>4. PICK g \in [SUBSET (1 .. n) -> Int] : Recurs(g, n, 0, step)
  <2>1. Defined(n, Int, 0, step)
    <3>1. 0 \in Int
      OBVIOUS
    <3> QED
      BY <1>1, <1>3, <3>1, SubsetRecursion
  <2> QED
    BY <2>1 DEF Defined
<1> DEFINE iter == CHOOSE h : h = [s \in SUBSET (1 .. n) |->
                       IF s = {} THEN 0 ELSE AddLow(h[s \ {Max(s)}], hand[Max(s)])]
<1>5. g = [s \in SUBSET (1 .. n) |->
             IF s = {} THEN 0 ELSE AddLow(g[s \ {Max(s)}], hand[Max(s)])]
  <2>1. ASSUME NEW s \in SUBSET (1 .. n), s # {}
        PROVE  g[s] = AddLow(g[s \ {Max(s)}], hand[Max(s)])
    <3>1. Max(s) \in 1 .. n
      BY <1>1, <2>1, MaxOfInterval
    <3>2. s \ {Max(s)} \in SUBSET (1 .. n)
      OBVIOUS
    <3>3. g[s \ {Max(s)}] \in Int
      BY <3>2
    <3> QED
      BY <1>4, <2>1, <3>1, <3>3 DEF Recurs, step
  <2>2. g[{}] = 0
    BY <1>4 DEF Recurs
  <2> QED
    BY <2>1, <2>2
<1>6. iter = [s \in SUBSET (1 .. n) |->
                IF s = {} THEN 0 ELSE AddLow(iter[s \ {Max(s)}], hand[Max(s)])]
  BY <1>5
<1>7. FoldLeft(AddLow, 0, hand) = iter[1 .. n]
  BY <1>1 DEF FoldLeft, MapThenFoldSet
<1> HIDE DEF iter
<1> DEFINE t == [i \in 0 .. n |-> iter[1 .. i]]
<1>8. iter[1 .. 0] = 0
  BY <1>6
<1>9. ASSUME NEW i \in 1 .. n
      PROVE  iter[1 .. i] = AddLow(iter[1 .. (i - 1)], hand[i])
  <2>1. /\ 1 .. i \in SUBSET (1 .. n) /\ 1 .. i # {} /\ Max(1 .. i) = i
        /\ (1 .. i) \ {Max(1 .. i)} = 1 .. (i - 1)
    BY <1>1, IntervalGrows
  <2>2. iter[1 .. i] = AddLow(iter[(1 .. i) \ {Max(1 .. i)}], hand[Max(1 .. i)])
    BY <1>6, <2>1
  <2> QED
    BY <2>1, <2>2
<1>10. \A i \in 0 .. n : iter[1 .. i] \in Int
  <2> DEFINE G == {i \in 0 .. n : iter[1 .. i] \in Int}
  <2>1. 0 \in G
    BY <1>1, <1>8
  <2>2. \A i \in 1 .. n : i - 1 \in G => i \in G
    BY <1>1, <1>2, <1>9
  <2> HIDE DEF G
  <2>3. 0 .. n \subseteq G
    BY <1>1, <2>1, <2>2, InductionUpTo
  <2> QED
    BY <2>3 DEF G
<1>11. t \in [0 .. n -> Int] /\ t[0] = 0 /\ t[n] = iter[1 .. n]
  BY <1>1, <1>8, <1>10
<1>12. \A i \in 1 .. n : t[i] = AddLow(t[i - 1], hand[i])
  BY <1>1, <1>9
<1> QED
  BY <1>7, <1>11, <1>12 DEF n

LEMMA TallyStepByStep ==
    ASSUME NEW hand \in Seq(Rank)
    PROVE  \E t \in [0 .. Len(hand) -> Hand] :
              /\ t[0] = NoCards
              /\ \A i \in 1 .. Len(hand) : t[i] = WithCard(t[i - 1], hand[i])
              /\ t[Len(hand)] = FoldLeft(WithCard, NoCards, hand)
<1> DEFINE n == Len(hand)
           step == [x \in Hand \X (1 .. n) |-> WithCard(x[1], hand[x[2]])]
<1>1. n \in Nat /\ DOMAIN hand = 1 .. n /\ \A i \in 1 .. n : hand[i] \in Rank
  OBVIOUS
<1>2. \A hd \in Hand, rank \in Rank : WithCard(hd, rank) \in Hand
  BY DEF WithCard, Hand, CardPoints, Rank, kAce, kTen
<1>3. step \in [Hand \X (1 .. n) -> Hand]
  BY <1>1, <1>2
<1> HIDE DEF n, step
<1>4. PICK g \in [SUBSET (1 .. n) -> Hand] : Recurs(g, n, NoCards, step)
  <2>1. Defined(n, Hand, NoCards, step)
    <3>1. NoCards \in Hand
      BY DEF NoCards, Hand
    <3> QED
      BY <1>1, <1>3, <3>1, SubsetRecursion
  <2> QED
    BY <2>1 DEF Defined
<1> DEFINE iter == CHOOSE h : h = [s \in SUBSET (1 .. n) |->
                       IF s = {} THEN NoCards ELSE WithCard(h[s \ {Max(s)}], hand[Max(s)])]
<1>5. g = [s \in SUBSET (1 .. n) |->
             IF s = {} THEN NoCards ELSE WithCard(g[s \ {Max(s)}], hand[Max(s)])]
  <2>1. ASSUME NEW s \in SUBSET (1 .. n), s # {}
        PROVE  g[s] = WithCard(g[s \ {Max(s)}], hand[Max(s)])
    <3>1. Max(s) \in 1 .. n
      BY <1>1, <2>1, MaxOfInterval
    <3>2. s \ {Max(s)} \in SUBSET (1 .. n)
      OBVIOUS
    <3>3. g[s \ {Max(s)}] \in Hand
      BY <3>2
    <3> QED
      BY <1>4, <2>1, <3>1, <3>3 DEF Recurs, step
  <2>2. g[{}] = NoCards
    BY <1>4 DEF Recurs
  <2> QED
    BY <2>1, <2>2
<1>6. iter = [s \in SUBSET (1 .. n) |->
                IF s = {} THEN NoCards ELSE WithCard(iter[s \ {Max(s)}], hand[Max(s)])]
  BY <1>5
<1>7. FoldLeft(WithCard, NoCards, hand) = iter[1 .. n]
  BY <1>1 DEF FoldLeft, MapThenFoldSet
<1> HIDE DEF iter
<1> DEFINE t == [i \in 0 .. n |-> iter[1 .. i]]
<1>8. iter[1 .. 0] = NoCards
  BY <1>6
<1>9. ASSUME NEW i \in 1 .. n
      PROVE  iter[1 .. i] = WithCard(iter[1 .. (i - 1)], hand[i])
  <2>1. /\ 1 .. i \in SUBSET (1 .. n) /\ 1 .. i # {} /\ Max(1 .. i) = i
        /\ (1 .. i) \ {Max(1 .. i)} = 1 .. (i - 1)
    BY <1>1, IntervalGrows
  <2>2. iter[1 .. i] = WithCard(iter[(1 .. i) \ {Max(1 .. i)}], hand[Max(1 .. i)])
    BY <1>6, <2>1
  <2> QED
    BY <2>1, <2>2
<1>10. \A i \in 0 .. n : iter[1 .. i] \in Hand
  <2> DEFINE G == {i \in 0 .. n : iter[1 .. i] \in Hand}
  <2>1. 0 \in G
    <3>1. NoCards \in Hand /\ 0 \in 0 .. n
      BY <1>1 DEF NoCards, Hand
    <3> QED
      BY <1>8, <3>1
  <2>2. \A i \in 1 .. n : i - 1 \in G => i \in G
    BY <1>1, <1>2, <1>9
  <2> HIDE DEF G
  <2>3. 0 .. n \subseteq G
    BY <1>1, <2>1, <2>2, InductionUpTo
  <2> QED
    BY <2>3 DEF G
<1>11. t \in [0 .. n -> Hand] /\ t[0] = NoCards /\ t[n] = iter[1 .. n]
  BY <1>1, <1>8, <1>10
<1>12. \A i \in 1 .. n : t[i] = WithCard(t[i - 1], hand[i])
  BY <1>1, <1>9
<1> QED
  BY <1>7, <1>11, <1>12 DEF n
-----------------------------------------------------------------------------
\* The aces among the first i cards.
AcesUpTo(hand, i) == {j \in 1 .. i : hand[j] = kAce}

LEMMA AcesStepByStep ==
    ASSUME NEW hand \in Seq(Rank)
    PROVE  \E a \in [0 .. Len(hand) -> Nat] :
              /\ a[0] = 0
              /\ \A i \in 1 .. Len(hand) :
                    a[i] = IF hand[i] = kAce THEN a[i - 1] + 1 ELSE a[i - 1]
              /\ a[Len(hand)] = Cardinality(Aces(hand))
<1> DEFINE n == Len(hand)
           a == [i \in 0 .. n |-> Cardinality(AcesUpTo(hand, i))]
<1>1. n \in Nat /\ DOMAIN hand = 1 .. n
  OBVIOUS
<1>2. \A i \in 0 .. n : IsFiniteSet(AcesUpTo(hand, i)) /\ Cardinality(AcesUpTo(hand, i)) \in Nat
  <2> SUFFICES ASSUME NEW i \in 0 .. n
               PROVE  IsFiniteSet(AcesUpTo(hand, i)) /\ Cardinality(AcesUpTo(hand, i)) \in Nat
    OBVIOUS
  <2>1. IsFiniteSet(1 .. i) /\ AcesUpTo(hand, i) \in SUBSET (1 .. i)
    BY <1>1, FS_Interval DEF AcesUpTo
  <2>2. IsFiniteSet(AcesUpTo(hand, i))
    BY <2>1, FS_Subset
  <2> QED
    BY <2>2, FS_CardinalityType
<1>3. a[0] = 0
  <2>1. AcesUpTo(hand, 0) = {}
    BY DEF AcesUpTo
  <2> QED
    BY <1>1, <2>1, FS_EmptySet
<1>4. ASSUME NEW i \in 1 .. n
      PROVE  a[i] = IF hand[i] = kAce THEN a[i - 1] + 1 ELSE a[i - 1]
  <2>1. i - 1 \in 0 .. n /\ i \in 0 .. n
    BY <1>1
  <2>2. CASE hand[i] = kAce
    <3>1. AcesUpTo(hand, i) = AcesUpTo(hand, i - 1) \cup {i} /\ i \notin AcesUpTo(hand, i - 1)
      BY <1>1, <2>2 DEF AcesUpTo
    <3>2. Cardinality(AcesUpTo(hand, i)) = Cardinality(AcesUpTo(hand, i - 1)) + 1
      BY <1>2, <2>1, <3>1, FS_AddElement
    <3> QED
      BY <2>1, <2>2, <3>2
  <2>3. CASE hand[i] # kAce
    <3>1. AcesUpTo(hand, i) = AcesUpTo(hand, i - 1)
      BY <1>1, <2>3 DEF AcesUpTo
    <3> QED
      BY <2>1, <2>3, <3>1
  <2> QED
    BY <2>2, <2>3
<1>5. a \in [0 .. n -> Nat] /\ a[n] = Cardinality(Aces(hand))
  <2>1. AcesUpTo(hand, n) = Aces(hand)
    BY <1>1 DEF AcesUpTo, Aces
  <2> QED
    BY <1>1, <1>2, <2>1
<1> QED
  BY <1>3, <1>4, <1>5

LEMMA WithOneMoreCard ==
    ASSUME NEW hand \in Hand, NEW rank \in Rank, NEW total \in Int
    PROVE  /\ WithCard(hand, rank).size = hand.size + 1
           /\ WithCard(hand, rank).hard = hand.hard + HardPoints(rank)
           /\ WithCard(hand, rank).hasAce <=> hand.hasAce \/ rank = kAce
           /\ HardPoints(rank) \in Nat /\ HardPoints(rank) >= 1
           /\ AddUp(total, rank) = total + HardPoints(rank) + IF rank = kAce THEN 10 ELSE 0
<1>1. WithCard(hand, rank).size = hand.size + 1
  BY DEF WithCard
<1>2. WithCard(hand, rank).hard = hand.hard + HardPoints(rank)
  BY DEF WithCard, HardPoints
<1>3. WithCard(hand, rank).hasAce <=> hand.hasAce \/ rank = kAce
  BY DEF WithCard
<1>4. HardPoints(rank) \in Nat /\ HardPoints(rank) >= 1
  BY DEF HardPoints, CardPoints, Rank, kAce, kTen
<1>5. AddUp(total, rank) = total + HardPoints(rank) + IF rank = kAce THEN 10 ELSE 0
  BY DEF HardPoints, AddUp, CardPoints, Rank, kAce, kTen
<1> QED
  BY <1>1, <1>2, <1>3, <1>4, <1>5

(* What one pass makes of the cards: the first loop counts every ace 11,   *)
(* the tally counts it 1, and so does the lowest total.                    *)
LEMMA PassesAgree ==
    ASSUME NEW hand \in Seq(Rank)
    PROVE  /\ Tally(hand) \in Hand
           /\ Cardinality(Aces(hand)) \in Nat
           /\ Cardinality(Aces(hand)) <= Tally(hand).hard
           /\ Tally(hand).hasAce <=> Cardinality(Aces(hand)) > 0
           /\ Tally(hand).size = Len(hand)
           /\ FoldLeft(AddUp, 0, hand) = Tally(hand).hard + 10 * Cardinality(Aces(hand))
           /\ FoldLeft(AddLow, 0, hand) = Tally(hand).hard
<1> DEFINE n == Len(hand)
<1>1. n \in Nat /\ \A i \in 1 .. n : hand[i] \in Rank /\ i - 1 \in 0 .. n /\ i \in 0 .. n
  OBVIOUS
<1>2. PICK t \in [0 .. n -> Int] :
              /\ t[0] = 0
              /\ \A i \in 1 .. n : t[i] = AddUp(t[i - 1], hand[i])
              /\ t[n] = FoldLeft(AddUp, 0, hand)
  BY TotalStepByStep
<1>3. PICK low \in [0 .. n -> Int] :
              /\ low[0] = 0
              /\ \A i \in 1 .. n : low[i] = AddLow(low[i - 1], hand[i])
              /\ low[n] = FoldLeft(AddLow, 0, hand)
  BY LowTotalStepByStep
<1>4. PICK y \in [0 .. n -> Hand] :
              /\ y[0] = NoCards
              /\ \A i \in 1 .. n : y[i] = WithCard(y[i - 1], hand[i])
              /\ y[n] = FoldLeft(WithCard, NoCards, hand)
  BY TallyStepByStep
<1>5. PICK a \in [0 .. n -> Nat] :
              /\ a[0] = 0
              /\ \A i \in 1 .. n : a[i] = IF hand[i] = kAce THEN a[i - 1] + 1 ELSE a[i - 1]
              /\ a[n] = Cardinality(Aces(hand))
  BY AcesStepByStep
<1> HIDE DEF n
<1> DEFINE Agree(i) == /\ a[i] <= y[i].hard
                       /\ y[i].hasAce <=> a[i] > 0
                       /\ y[i].size = i
                       /\ t[i] = y[i].hard + 10 * a[i]
                       /\ low[i] = y[i].hard
           G == {i \in 0 .. n : Agree(i)}
<1>6. 0 \in G
  BY <1>1, <1>2, <1>3, <1>4, <1>5 DEF NoCards
<1>7. ASSUME NEW i \in 1 .. n, Agree(i - 1)
      PROVE  Agree(i)
  <2>1. /\ hand[i] \in Rank /\ y[i - 1] \in Hand /\ a[i - 1] \in Nat 
        /\ t[i - 1] \in Int /\ low[i - 1] \in Int /\ i \in Int
    BY <1>1
  <2>2. /\ t[i] = AddUp(t[i - 1], hand[i])
        /\ low[i] = AddLow(low[i - 1], hand[i])
        /\ y[i] = WithCard(y[i - 1], hand[i])
        /\ a[i] = IF hand[i] = kAce THEN a[i - 1] + 1 ELSE a[i - 1]
    BY <1>2, <1>3, <1>4, <1>5
  <2> DEFINE more == IF hand[i] = kAce THEN 1 ELSE 0
             p == HardPoints(hand[i])
  <2>3. /\ y[i].size = y[i - 1].size + 1
        /\ y[i].hard = y[i - 1].hard + p
        /\ y[i].hasAce <=> y[i - 1].hasAce \/ more = 1
        /\ p \in Nat /\ p >= 1
        /\ t[i] = t[i - 1] + p + 10 * more
        /\ low[i] = low[i - 1] + p
        /\ a[i] = a[i - 1] + more
        /\ more \in {0, 1}
    <3>1. /\ WithCard(y[i - 1], hand[i]).size = y[i - 1].size + 1
          /\ WithCard(y[i - 1], hand[i]).hard = y[i - 1].hard + HardPoints(hand[i])
          /\ WithCard(y[i - 1], hand[i]).hasAce <=> y[i - 1].hasAce \/ hand[i] = kAce
          /\ HardPoints(hand[i]) \in Nat /\ HardPoints(hand[i]) >= 1
          /\ AddUp(t[i - 1], hand[i]) = t[i - 1] + HardPoints(hand[i]) + IF hand[i] = kAce THEN 10 ELSE 0
      BY <2>1, WithOneMoreCard
    <3>2. y[i].size = y[i - 1].size + 1 /\ y[i].hard = y[i - 1].hard + p /\ p \in Nat /\ p >= 1
      BY <2>2, <3>1
    <3>3. y[i].hasAce <=> y[i - 1].hasAce \/ more = 1
      BY <2>2, <3>1
    <3>4. t[i] = t[i - 1] + p + 10 * more /\ more \in {0, 1}
      BY <2>2, <3>1
    <3>5. low[i] = low[i - 1] + p
      BY <2>2 DEF AddLow
    <3>6. a[i] = a[i - 1] + more
      BY <2>1, <2>2
    <3> QED
      BY <3>2, <3>3, <3>4, <3>5, <3>6
  <2>4. y[i - 1].hard \in Nat /\ y[i - 1].size \in Nat
    BY <2>1 DEF Hand
  <2> HIDE DEF p, more
  <2>5. /\ a[i] <= y[i].hard
        /\ t[i] = y[i].hard + 10 * a[i]
        /\ low[i] = y[i].hard
    <3>1. \A h, q, b \in Nat, m \in {0, 1} : b <= h /\ q >= 1 => b + m <= h + q
      OBVIOUS
    <3>2. \A h, q, b \in Nat, m \in {0, 1} :
             (h + 10 * b) + q + 10 * m = (h + q) + 10 * (b + m)
      OBVIOUS
    <3>3. a[i - 1] <= y[i - 1].hard /\ t[i - 1] = y[i - 1].hard + 10 * a[i - 1]
      BY <1>7
    <3>4. a[i - 1] + more <= y[i - 1].hard + p
      BY <2>1, <2>3, <2>4, <3>1, <3>3
    <3>5. t[i - 1] + p + 10 * more = (y[i - 1].hard + p) + 10 * (a[i - 1] + more)
      <4>1. y[i - 1].hard \in Nat /\ p \in Nat /\ a[i - 1] \in Nat /\ more \in {0, 1}
        BY <2>1, <2>3, <2>4
      <4>2. (y[i - 1].hard + 10 * a[i - 1]) + p + 10 * more
              = (y[i - 1].hard + p) + 10 * (a[i - 1] + more)
        BY <3>2, <4>1
      <4> QED
        BY <3>3, <4>2
    <3> QED
      BY <1>7, <2>3, <3>4, <3>5
  <2>6. y[i].size = i
    <3>1. \A j \in 1 .. n : j - 1 + 1 = j
      BY <1>1
    <3> QED
      BY <1>7, <2>3, <3>1
  <2>7. a[i] > 0 <=> a[i - 1] > 0 \/ more = 1
    BY <2>1, <2>3
  <2>8. y[i].hasAce <=> a[i] > 0
    BY <1>7, <2>3, <2>7
  <2> QED
    BY <2>5, <2>6, <2>8
<1> HIDE DEF Agree
<1>8. \A i \in 1 .. n : i - 1 \in G => i \in G
  BY <1>1, <1>7
<1> HIDE DEF G
<1>9. n \in 0 .. n /\ n \in G
  <2>1. 0 .. n \subseteq G
    BY <1>1, <1>6, <1>8, InductionUpTo
  <2> QED
    BY <1>1, <2>1
<1>10. Agree(n) /\ y[n] \in Hand /\ a[n] \in Nat
  BY <1>9 DEF G
<1> QED
  BY <1>2, <1>3, <1>4, <1>5, <1>10 DEF Agree, Tally, n

(* What the second loop takes back: it counts k of the aces low, no more   *)
(* than it must.                                                           *)
Softened(total, aces, result, k) ==
    /\ result = total - 10 * k
    /\ k <= aces
    /\ k = aces \/ ~IsBustedPoints(result)
    /\ k = 0 \/ IsBustedPoints(result + 10)

LEMMA SofteningIsEnough ==
    ASSUME NEW hand \in Seq(Rank), NEW total \in Int
    PROVE  \E k \in Nat : Softened(total, Cardinality(Aces(hand)),
                                   FoldLeft(Soften, total, hand), k)
<1> DEFINE n == Len(hand)
<1>1. n \in Nat /\ \A i \in 1 .. n : hand[i] \in Rank /\ i - 1 \in 0 .. n /\ i \in 0 .. n
  OBVIOUS
<1>2. PICK t \in [0 .. n -> Int] :
              /\ t[0] = total
              /\ \A i \in 1 .. n : t[i] = Soften(t[i - 1], hand[i])
              /\ t[n] = FoldLeft(Soften, total, hand)
  BY SofteningStepByStep
<1>3. PICK a \in [0 .. n -> Nat] :
              /\ a[0] = 0
              /\ \A i \in 1 .. n : a[i] = IF hand[i] = kAce THEN a[i - 1] + 1 ELSE a[i - 1]
              /\ a[n] = Cardinality(Aces(hand))
  BY AcesStepByStep
<1> HIDE DEF n
<1> DEFINE Enough(i) == \E k \in Nat : Softened(total, a[i], t[i], k)
           G == {i \in 0 .. n : Enough(i)}
<1>4. Enough(0)
  BY <1>2, <1>3 DEF Softened
<1>5. ASSUME NEW i \in 1 .. n, Enough(i - 1)
      PROVE  Enough(i)
  <2>1. hand[i] \in Rank /\ a[i - 1] \in Nat /\ t[i - 1] \in Int
    BY <1>1
  <2>2. PICK k \in Nat : Softened(total, a[i - 1], t[i - 1], k)
    BY <1>5
  <2>3. /\ t[i] = Soften(t[i - 1], hand[i])
        /\ a[i] = IF hand[i] = kAce THEN a[i - 1] + 1 ELSE a[i - 1]
    BY <1>2, <1>3
  <2>4. CASE IsBustedPoints(t[i - 1]) /\ hand[i] = kAce
    <3>1. t[i] = t[i - 1] - 10 /\ a[i] = a[i - 1] + 1
      BY <2>1, <2>3, <2>4 DEF Soften, CardPoints, Rank, kAce, kTen
    <3>2. Softened(total, a[i], t[i], k + 1)
      BY <2>1, <2>2, <2>4, <3>1 DEF Softened, IsBustedPoints, blackjackPoints
    <3> QED
      BY <3>2
  <2>5. CASE ~IsBustedPoints(t[i - 1])
    <3>1. t[i] = t[i - 1] /\ a[i] >= a[i - 1] /\ a[i] \in Nat
      BY <2>1, <2>3, <2>5 DEF Soften
    <3>2. Softened(total, a[i], t[i], k)
      BY <2>1, <2>2, <2>5, <3>1 DEF Softened
    <3> QED
      BY <3>2
  <2>6. CASE hand[i] # kAce
    <3>1. t[i] = t[i - 1] /\ a[i] = a[i - 1]
      BY <2>1, <2>3, <2>6 DEF Soften
    <3> QED
      BY <2>2, <3>1
  <2> QED
    BY <2>4, <2>5, <2>6
<1> HIDE DEF Enough
<1>6. 0 \in G /\ \A i \in 1 .. n : i - 1 \in G => i \in G
  BY <1>1, <1>4, <1>5
<1> HIDE DEF G
<1>7. n \in 0 .. n /\ n \in G
  <2>1. 0 .. n \subseteq G
    BY <1>1, <1>6, InductionUpTo
  <2> QED
    BY <1>1, <2>1
<1>8. Enough(n)
  BY <1>7 DEF G
<1> QED
  BY <1>2, <1>3, <1>8 DEF Enough, n

-----------------------------------------------------------------------------
(* The result of getHandPoints, isSmart or not.                            *)
LEMMA PointsAreSoftened ==
    ASSUME NEW hand \in Seq(Rank)
    PROVE  \E k \in Nat : Softened(Tally(hand).hard + 10 * Cardinality(Aces(hand)),
                                   Cardinality(Aces(hand)), GetHandPoints(hand, TRUE), k)
<1> DEFINE total == FoldLeft(AddUp, 0, hand)
           aces == Cardinality(Aces(hand))
<1>1. /\ total = Tally(hand).hard + 10 * aces
      /\ aces \in Nat /\ Tally(hand).hard \in Nat
  BY PassesAgree DEF Hand
<1>2. total \in Int
  BY <1>1
<1> HIDE DEF total, aces
<1>3. CASE IsBustedPoints(total)
  <2>1. GetHandPoints(hand, TRUE) = FoldLeft(Soften, total, hand)
    BY <1>3 DEF GetHandPoints, total
  <2>2. \E k \in Nat : Softened(total, aces, FoldLeft(Soften, total, hand), k)
    BY <1>2, SofteningIsEnough DEF aces
  <2> QED
    BY <1>1, <2>1, <2>2 DEF aces
<1>4. CASE ~IsBustedPoints(total)
  <2>1. GetHandPoints(hand, TRUE) = total
    BY <1>4 DEF GetHandPoints, total
  <2>2. Softened(total, aces, total, 0)
    BY <1>1, <1>2, <1>4 DEF Softened
  <2> QED
    BY <1>1, <2>1, <2>2 DEF aces
<1> QED
  BY <1>3, <1>4

(* One ace counts 11 if that does not bust, and no second one ever does.   *)
LEMMA PointsFromTheTally ==
    ASSUME NEW hand \in Seq(Rank)
    PROVE  /\ GetHandPoints(hand, TRUE) = HandPoints(Tally(hand))
           /\ GetHandPoints(hand, TRUE) \in Nat
<1> DEFINE low == Tally(hand).hard
           aces == Cardinality(Aces(hand))
           points == GetHandPoints(hand, TRUE)
<1>1. low \in Nat /\ aces \in Nat /\ aces <= low
  BY PassesAgree DEF Hand
<1>2. Tally(hand).hasAce <=> aces > 0
  BY PassesAgree
<1>3. PICK k \in Nat : Softened(low + 10 * aces, aces, points, k)
  BY PointsAreSoftened
<1> HIDE DEF low, aces, points
<1>4. /\ points = low + 10 * aces - 10 * k
      /\ k <= aces
      /\ k = aces \/ ~(points > 21)
      /\ k = 0 \/ points + 10 > 21
  BY <1>1, <1>3 DEF Softened, IsBustedPoints, blackjackPoints
<1>5. CASE aces > 0 /\ ~(low + 10 > 21)
  <2>1. k = aces - 1
    BY <1>1, <1>4, <1>5
  <2>2. points = low + 10
    BY <1>1, <1>4, <2>1
  <2> QED
    <3>1. Tally(hand).hasAce /\ ~IsBustedPoints(Tally(hand).hard + 10)
      BY <1>2, <1>5 DEF IsBustedPoints, blackjackPoints, low
    <3>2. HandPoints(Tally(hand)) = low + 10
      BY <3>1 DEF HandPoints, low
    <3>3. low + 10 \in Nat
      BY <1>1
    <3> QED
      BY <1>1, <2>2, <3>2, <3>3 DEF points
<1>6. CASE ~(aces > 0 /\ ~(low + 10 > 21))
  <2>1. k = aces
    BY <1>1, <1>4, <1>6
  <2>2. points = low
    BY <1>1, <1>4, <2>1
  <2> QED
    <3>1. ~(Tally(hand).hasAce /\ ~IsBustedPoints(Tally(hand).hard + 10))
      BY <1>2, <1>6 DEF IsBustedPoints, blackjackPoints, low
    <3>2. HandPoints(Tally(hand)) = low
      BY <3>1 DEF HandPoints, low
    <3>3. low + 10 \in Nat
      BY <1>1
    <3> QED
      BY <1>1, <2>2, <3>2, <3>3 DEF points
<1> QED
  BY <1>5, <1>6

(* The tally GameServer keeps of a hand answers every question the code    *)
(* asks as the loops of PointsTools do, for any cards in any order.        *)
THEOREM TallyAnswersAsTheLoops ==
    ASSUME NEW hand \in Seq(Rank)
    PROVE  /\ HandPoints(Tally(hand)) = GetHandPoints(hand, TRUE)
           /\ IsBusted(Tally(hand)) = CardsBusted(hand)
           /\ IsBlackjack(Tally(hand)) = CardsBlackjack(hand)
<1>1. HandPoints(Tally(hand)) = GetHandPoints(hand, TRUE)
  BY PointsFromTheTally
<1>2. IsBusted(Tally(hand)) = CardsBusted(hand)
  BY <1>1 DEF IsBusted, CardsBusted
<1>3. IsBlackjack(Tally(hand)) = CardsBlackjack(hand)
  BY <1>1, PassesAgree DEF IsBlackjack, CardsBlackjack
<1> QED
  BY <1>1, <1>2, <1>3

LEMMA LargestOf ==
    ASSUME NEW S \in SUBSET Nat, NEW m \in S, \A n \in S : n <= m
    PROVE  Max(S) = m
<1>1. m \in S /\ \A y \in S : m >= y
  OBVIOUS
<1>2. \A x \in S : (\A y \in S : x >= y) => x = m
  OBVIOUS
<1> QED
  BY <1>1, <1>2 DEF Max

LEMMA SmallestOf ==
    ASSUME NEW S \in SUBSET Nat, NEW m \in S, \A n \in S : m <= n
    PROVE  Min(S) = m
<1>1. m \in S /\ \A y \in S : m =< y
  OBVIOUS
<1>2. \A x \in S : (\A y \in S : x =< y) => x = m
  OBVIOUS
<1> QED
  BY <1>1, <1>2 DEF Min

(* getHandPoints, one ace after the other, finds the best total: the       *)
(* highest that does not bust, or the lowest there is.                     *)
THEOREM LoopsFindTheBestTotal ==
    ASSUME NEW hand \in Seq(Rank)
    PROVE  LET fitting == {n \in Totals(hand) : ~IsBustedPoints(n)}
           IN  GetHandPoints(hand, TRUE)
                   = IF fitting # {} THEN Max(fitting) ELSE Min(Totals(hand))
<1> DEFINE low == Tally(hand).hard
           aces == Cardinality(Aces(hand))
           points == GetHandPoints(hand, TRUE)
           total == Totals(hand)
           fitting == {n \in total : ~IsBustedPoints(n)}
<1>1. low \in Nat /\ aces \in Nat /\ aces <= low
  BY PassesAgree DEF Hand
<1>2. total = {low + 10 * k : k \in 0 .. aces}
  BY PassesAgree DEF Totals
<1>3. points = IF aces > 0 /\ ~(low + 10 > 21) THEN low + 10 ELSE low
  <2>1. Tally(hand).hasAce <=> aces > 0
    BY PassesAgree
  <2>2. points = HandPoints(Tally(hand))
    BY PointsFromTheTally
  <2> QED
    BY <2>1, <2>2 DEF HandPoints, IsBustedPoints, blackjackPoints
<1> HIDE DEF low, aces, points, total
<1>4. /\ \A n \in total : \E k \in 0 .. aces : n = low + 10 * k
      /\ \A k \in 0 .. aces : low + 10 * k \in total
      /\ total \in SUBSET Nat
  BY <1>1, <1>2
<1>5. low \in total /\ \A n \in total : low <= n
  <2>1. 0 \in 0 .. aces /\ low + 10 * 0 = low
    BY <1>1
  <2> QED
    BY <1>1, <1>4, <2>1
<1>6. fitting \in SUBSET Nat /\ \A n \in Nat : n \in fitting <=> n \in total /\ n <= 21
  <2>1. \A n \in total : n \in Nat
    BY <1>4
  <2>2. \A n \in Nat : ~IsBustedPoints(n) <=> n <= 21
    BY DEF IsBustedPoints, blackjackPoints
  <2>3. \A n : n \in fitting <=> n \in total /\ ~IsBustedPoints(n)
    OBVIOUS
  <2> HIDE DEF fitting
  <2> QED
    BY <2>1, <2>2, <2>3
<1> HIDE DEF fitting
<1>7. CASE aces > 0 /\ ~(low + 10 > 21)
  <2>1. low + 10 \in fitting
    <3>1. 1 \in 0 .. aces /\ low + 10 * 1 = low + 10
      BY <1>1, <1>7
    <3>2. low + 10 \in Nat /\ low + 10 <= 21
      BY <1>1, <1>7
    <3>3. low + 10 \in total
      BY <1>4, <3>1
    <3> QED
      BY <1>6, <3>2, <3>3
  <2>2. ASSUME NEW n \in fitting
        PROVE  n <= low + 10
    <3>1. n \in Nat /\ n \in total /\ n <= 21
      BY <1>6
    <3>2. PICK k \in 0 .. aces : n = low + 10 * k
      BY <1>4, <3>1
    <3>3. k <= 1
      BY <1>1, <3>1, <3>2
    <3> QED
      BY <1>1, <3>2, <3>3
  <2>3. Max(fitting) = low + 10
    BY <1>6, <2>1, <2>2, LargestOf
  <2> QED
    BY <1>3, <1>7, <2>1, <2>3 DEF fitting, points, total
<1>8. CASE ~(aces > 0 /\ ~(low + 10 > 21)) /\ low <= 21
  <2>1. low \in fitting
    BY <1>1, <1>5, <1>6, <1>8
  <2>2. ASSUME NEW n \in fitting
        PROVE  n <= low
    <3>1. n \in Nat /\ n \in total /\ n <= 21
      BY <1>6
    <3>2. PICK k \in 0 .. aces : n = low + 10 * k
      BY <1>4, <3>1
    <3>3. k = 0
      BY <1>1, <1>8, <3>1, <3>2
    <3> QED
      BY <1>1, <3>2, <3>3
  <2>3. Max(fitting) = low
    BY <1>6, <2>1, <2>2, LargestOf
  <2> QED
    BY <1>3, <1>8, <2>1, <2>3 DEF fitting, points, total
<1>9. CASE low > 21
  <2>1. ASSUME NEW n \in fitting
        PROVE  FALSE
    <3>1. n \in Nat /\ n \in total /\ n <= 21
      BY <1>6
    <3>2. low <= n
      BY <1>5, <3>1
    <3> QED
      BY <1>1, <1>9, <3>1, <3>2
  <2>2. fitting = {}
    BY <2>1
  <2>3. Min(total) = low
    BY <1>4, <1>5, SmallestOf
  <2>4. points = low
    BY <1>1, <1>3, <1>9
  <2> QED
    BY <2>2, <2>3, <2>4 DEF fitting, points, total
<1>10. \/ aces > 0 /\ ~(low + 10 > 21)
       \/ ~(aces > 0 /\ ~(low + 10 > 21)) /\ low <= 21
       \/ low > 21
  BY <1>1
<1> QED
  BY <1>7, <1>8, <1>9, <1>10

-----------------------------------------------------------------------------
(* A hand is busted when its lowest total is, and that only grows.         *)
LEMMA BustedByLowTotal ==
    ASSUME NEW hand \in Seq(Rank)
    PROVE  /\ FoldLeft(AddLow, 0, hand) \in Nat
           /\ CardsBusted(hand) <=> FoldLeft(AddLow, 0, hand) > 21
<1> DEFINE low == Tally(hand).hard
<1>1. low \in Nat /\ FoldLeft(AddLow, 0, hand) = low
  BY PassesAgree DEF Hand
<1>2. GetHandPoints(hand, TRUE) = HandPoints(Tally(hand))
  BY PointsFromTheTally
<1>3. HandPoints(Tally(hand)) > 21 <=> low > 21
  <2> HIDE DEF low
  <2>1. HandPoints(Tally(hand)) = IF Tally(hand).hasAce /\ ~(low + 10 > 21) THEN low + 10 ELSE low
    BY DEF HandPoints, IsBustedPoints, blackjackPoints, low
  <2> QED
    BY <1>1, <2>1
<1> QED
  BY <1>1, <1>2, <1>3 DEF CardsBusted, IsBustedPoints, blackjackPoints

LEMMA MoreCardsMorePoints ==
    ASSUME NEW hand \in Seq(Rank), NEW more \in Seq(Rank)
    PROVE  FoldLeft(AddLow, 0, hand) <= FoldLeft(AddLow, 0, hand \o more)
<1> DEFINE n == Len(hand)
           m == Len(hand \o more)
<1>1. /\ n \in Nat /\ m \in Nat /\ n <= m
      /\ hand \o more \in Seq(Rank)
      /\ \A i \in 1 .. n : (hand \o more)[i] = hand[i] /\ hand[i] \in Rank
      /\ \A i \in 1 .. m : (hand \o more)[i] \in Rank
  OBVIOUS
<1>2. PICK t \in [0 .. n -> Int] :
              /\ t[0] = 0
              /\ \A i \in 1 .. n : t[i] = AddLow(t[i - 1], hand[i])
              /\ t[n] = FoldLeft(AddLow, 0, hand)
  BY LowTotalStepByStep
<1>3. PICK u \in [0 .. m -> Int] :
              /\ u[0] = 0
              /\ \A i \in 1 .. m : u[i] = AddLow(u[i - 1], (hand \o more)[i])
              /\ u[m] = FoldLeft(AddLow, 0, hand \o more)
  BY <1>1, LowTotalStepByStep
<1> HIDE DEF n, m
<1>4. t[n] = u[n]
  <2> DEFINE G == {i \in 0 .. n : t[i] = u[i]}
  <2>1. 0 \in G
    BY <1>1, <1>2, <1>3
  <2>2. ASSUME NEW i \in 1 .. n, i - 1 \in G
        PROVE  i \in G
    <3>1. i \in 1 .. m /\ i \in 0 .. n
      BY <1>1
    <3>2. t[i] = AddLow(t[i - 1], hand[i]) /\ u[i] = AddLow(u[i - 1], hand[i])
      BY <1>1, <1>2, <1>3, <3>1
    <3> QED
      BY <2>2, <3>1, <3>2
  <2> HIDE DEF G
  <2>3. 0 .. n \subseteq G
    BY <1>1, <2>1, <2>2, InductionUpTo
  <2>4. n \in G
    BY <1>1, <2>3
  <2> QED
    BY <2>4 DEF G
<1>5. u[n] <= u[m]
  <2> DEFINE G == {i \in 0 .. m : i < n \/ u[n] <= u[i]}
  <2>1. 0 \in G
    BY <1>1, <1>3
  <2>2. ASSUME NEW i \in 1 .. m, i - 1 \in G
        PROVE  i \in G
    <3>1. i \in 0 .. m /\ i - 1 \in 0 .. m /\ n \in 0 .. m
      BY <1>1
    <3>2. u[i] = u[i - 1] + HardPoints((hand \o more)[i])
      BY <1>3 DEF AddLow
    <3>3. HardPoints((hand \o more)[i]) \in Nat
      <4>1. \A rank \in Rank : HardPoints(rank) \in Nat
        BY DEF HardPoints, CardPoints, Rank, kAce, kTen
      <4> QED
        BY <1>1, <4>1
    <3>4. u[i] \in Int /\ u[i - 1] \in Int /\ u[n] \in Int
      BY <3>1
    <3>5. u[i - 1] <= u[i]
      <4>1. \A x \in Int, p \in Nat : x <= x + p
        OBVIOUS
      <4> QED
        BY <3>2, <3>3, <3>4, <4>1
    <3>6. CASE i <= n
      BY <3>1, <3>4, <3>6, <1>1
    <3>7. CASE i > n
      BY <1>1, <2>2, <3>1, <3>4, <3>5, <3>7
    <3> QED
      BY <1>1, <3>6, <3>7
  <2> HIDE DEF G
  <2>3. 0 .. m \subseteq G
    BY <1>1, <2>1, <2>2, InductionUpTo
  <2>4. m \in G
    BY <1>1, <2>3
  <2> QED
    BY <1>1, <2>4 DEF G
<1> QED
  BY <1>2, <1>3, <1>4, <1>5 DEF n, m

(* A busted hand stays busted, whatever is put on top of it.               *)
THEOREM BustedHandsStayBusted ==
    ASSUME NEW hand \in Seq(Rank), NEW more \in Seq(Rank), CardsBusted(hand)
    PROVE  CardsBusted(hand \o more)
<1>1. hand \o more \in Seq(Rank)
  OBVIOUS
<1> DEFINE low == FoldLeft(AddLow, 0, hand)
           lows == FoldLeft(AddLow, 0, hand \o more)
<1>2. low \in Nat /\ low > 21
  BY BustedByLowTotal
<1>3. lows \in Nat /\ (CardsBusted(hand \o more) <=> lows > 21)
  BY <1>1, BustedByLowTotal
<1>4. low <= lows
  BY MoreCardsMorePoints
<1> HIDE DEF low, lows
<1> QED
  BY <1>2, <1>3, <1>4
=============================================================================
