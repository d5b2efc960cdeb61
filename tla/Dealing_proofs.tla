--------------------------- MODULE Dealing_proofs ---------------------------
(***************************************************************************)
(* Dealing.tla for any tables and any decks: hands, dealer's hand and shoe *)
(* have their types, so that what HandPointLoops_proofs.tla says of a hand *)
(* holds of every hand on the table; hands only grow, so a busted one      *)
(* stays busted; and a shoe of 31 points a player and 26 more lasts.       *)
(*                                                                         *)
(* The last one counts points, an ace as 1: what a new shoe is worth is    *)
(* still in the shoe, in the dealer's hand, or was dealt to a player since *)
(* the phase started.  It needs sums over finite sets, which come first.   *)
(***************************************************************************)
EXTENDS Dealing, HandPointLoops_proofs, SequenceTheorems

ShoeType == [DeckRanks -> 0 .. nbOfCopies]

Table == [cards : Seq(DeckRanks), shoe : ShoeType]

\* What the handlers make of hands and standing hands.
Seated(hs, stand) ==
    /\ IsFiniteSet(DOMAIN hs)
    /\ DOMAIN hs \subseteq UNION Tables
    /\ hs \in [DOMAIN hs -> Seq(DeckRanks)]
    /\ stand \subseteq DOMAIN hs

\* endGame and the last leaveGame leave no hand behind.
BetweenRounds == phase = "NotStarted" => DOMAIN hands = {}

IInv ==
    /\ phase \in {"NotStarted", "HitStandPhase", "terminated"}
    /\ shoe \in ShoeType
    /\ dealersHand \in Seq(DeckRanks)
    /\ Seated(hands, standing)
    /\ BetweenRounds

-----------------------------------------------------------------------------
(* The shoe: dealCard never takes a card it does not have.                 *)
LEMMA CardsAreRanks ==
    /\ DeckRanks \subseteq Rank
    /\ nbOfCopies \in Nat
    /\ Seq(DeckRanks) \subseteq Seq(Rank)
BY DeckAssumption

LEMMA DealtIsCounted ==
    ASSUME NEW from \in [DeckRanks -> Int], NEW cards, IsFiniteSet(DOMAIN cards)
    PROVE  /\ Without(from, cards) \in [DeckRanks -> Int]
           /\ \A rank \in DeckRanks : Without(from, cards)[rank] <= from[rank]
<1> SUFFICES ASSUME NEW rank \in DeckRanks
             PROVE  /\ Without(from, cards)[rank] \in Int
                    /\ Without(from, cards)[rank] <= from[rank]
  BY DEF Without
<1> DEFINE dealt == {i \in DOMAIN cards : cards[i] = rank}
<1>1. Cardinality(dealt) \in Nat
  <2>1. dealt \in SUBSET DOMAIN cards
    OBVIOUS
  <2>2. IsFiniteSet(dealt)
    BY <2>1, FS_Subset
  <2> QED
    BY <2>2, FS_CardinalityType
<1>2. Without(from, cards)[rank] = from[rank] - Cardinality(dealt)
  BY DEF Without
<1> HIDE DEF dealt
<1>3. \A a \in Int, n \in Nat : a - n \in Int /\ a - n <= a
  OBVIOUS
<1> QED
  BY <1>1, <1>2, <1>3

LEMMA OneCardLess ==
    ASSUME NEW from \in ShoeType, NEW rank \in Available(from)
    PROVE  Without(from, <<rank>>) \in ShoeType
<1>1. /\ from \in [DeckRanks -> Int]
      /\ \A r \in DeckRanks : from[r] \in 0 .. nbOfCopies
      /\ rank \in DeckRanks /\ from[rank] > 0
  BY CardsAreRanks DEF ShoeType, Available
<1>2. DOMAIN <<rank>> = {1} /\ <<rank>>[1] = rank
  OBVIOUS
<1>3. IsFiniteSet({1}) /\ Cardinality({1}) = 1 /\ Cardinality({}) = 0
  BY FS_EmptySet, FS_Singleton
<1>4. ASSUME NEW r \in DeckRanks
      PROVE  Without(from, <<rank>>)[r] \in 0 .. nbOfCopies
  <2> DEFINE dealt == {i \in DOMAIN <<rank>> : <<rank>>[i] = r}
  <2>1. Without(from, <<rank>>)[r] = from[r] - Cardinality(dealt)
    BY DEF Without
  <2>2. CASE r = rank
    <3>1. dealt = {1}
      BY <1>2, <2>2
    <3>2. Without(from, <<rank>>)[r] = from[rank] - 1
      BY <1>3, <2>1, <2>2, <3>1
    <3>3. from[rank] \in 0 .. nbOfCopies /\ from[rank] > 0
      BY <1>1
    <3> QED
      BY <3>2, <3>3, CardsAreRanks
  <2>3. CASE r # rank
    <3>1. dealt = {}
      BY <1>2, <2>3
    <3>2. Without(from, <<rank>>)[r] = from[r] - 0 /\ from[r] \in 0 .. nbOfCopies
      BY <1>1, <1>3, <2>1, <3>1
    <3>3. \A n \in 0 .. nbOfCopies : n - 0 = n
      BY CardsAreRanks
    <3> QED
      BY <3>2, <3>3
  <2> QED
    BY <2>2, <2>3
<1>5. Without(from, <<rank>>) = [r \in DeckRanks |-> Without(from, <<rank>>)[r]]
  BY DEF Without
<1> QED
  BY <1>4, <1>5 DEF ShoeType

LEMMA DealingLeavesAShoe ==
    ASSUME NEW ps, IsFiniteSet(ps), NEW dealersPair \in Pairs, NEW pairs \in [ps -> Pairs],
           Holds(ShoeAfterDealing(dealersPair, pairs))
    PROVE  ShoeAfterDealing(dealersPair, pairs) \in ShoeType
<1> DEFINE cards == [card \in (DOMAIN pairs) \X {1, 2} |-> pairs[card[1]][card[2]]]
           first == Without(FreshShoe, dealersPair)
<1>0. IsFiniteSet(1 .. 2) /\ 1 .. 2 = {1, 2}
  <2>1. 1 \in Int /\ 2 \in Int /\ 1 .. 2 = {1, 2}
    OBVIOUS
  <2> QED
    BY <2>1, FS_Interval
<1>1. IsFiniteSet(DOMAIN dealersPair)
  <2>1. DOMAIN dealersPair = 1 .. 2
    BY DEF Pairs
  <2> QED
    BY <1>0, <2>1
<1>2. IsFiniteSet(DOMAIN cards)
  <2>1. IsFiniteSet({1, 2})
    BY <1>0
  <2>2. DOMAIN cards = ps \X {1, 2}
    OBVIOUS
  <2> QED
    BY <2>1, <2>2, FS_Product
<1>3. FreshShoe \in [DeckRanks -> Int] /\ \A rank \in DeckRanks : FreshShoe[rank] = nbOfCopies
  BY CardsAreRanks DEF FreshShoe
<1>4. first \in [DeckRanks -> Int] /\ \A rank \in DeckRanks : first[rank] <= FreshShoe[rank]
  BY <1>1, <1>3, DealtIsCounted
<1> HIDE DEF first, cards
<1>5. /\ Without(first, cards) \in [DeckRanks -> Int]
      /\ \A rank \in DeckRanks : Without(first, cards)[rank] <= first[rank]
  BY <1>2, <1>4, DealtIsCounted
<1>6. ShoeAfterDealing(dealersPair, pairs) = Without(first, cards)
  BY DEF ShoeAfterDealing, first, cards
<1>7. ASSUME NEW rank \in DeckRanks
      PROVE  Without(first, cards)[rank] \in 0 .. nbOfCopies
  <2>1. Without(first, cards)[rank] >= 0
    BY <1>6 DEF Holds
  <2>2. Without(first, cards)[rank] \in Int /\ first[rank] \in Int
    BY <1>4, <1>5
  <2> QED
    BY <1>3, <1>4, <1>5, <2>1, <2>2, CardsAreRanks
<1> QED
  BY <1>5, <1>6, <1>7 DEF ShoeType

-----------------------------------------------------------------------------
(* The dealer draws cards of the deck only, and only those of the shoe.    *)
LEMMA OneMoreTurn ==
    ASSUME NEW table \in Table
    PROVE  DrawOneCard(table) \subseteq Table
<1>1. table.cards \in Seq(DeckRanks) /\ table.shoe \in ShoeType
  BY DEF Table
<1>2. ASSUME NEW rank \in Available(table.shoe)
      PROVE  [cards |-> Append(table.cards, rank), shoe |-> Without(table.shoe, <<rank>>)] \in Table
  <2>1. rank \in DeckRanks
    BY DEF Available
  <2>2. Append(table.cards, rank) \in Seq(DeckRanks)
    BY <1>1, <2>1
  <2>3. Without(table.shoe, <<rank>>) \in ShoeType
    BY <1>1, OneCardLess
  <2> QED
    BY <2>2, <2>3 DEF Table
<1> QED
  BY <1>2 DEF DrawOneCard

LEMMA DrawingByTurns ==
    ASSUME NEW table \in Table, NEW K \in [0 .. 17 -> SUBSET Table], table \in K[0],
           \A n \in 1 .. 17 : \A t \in K[n - 1] : \A next \in DrawOneCard(t) : next \in K[n]
    PROVE  AfterDrawing(table) \subseteq K[17]
<1> DEFINE step == [x \in (SUBSET Table) \X (1 .. 17) |-> UNION {DrawOneCard(t) : t \in x[1]}]
           after == CHOOSE f : f = [n \in 0 .. 17 |->
                        IF n = 0 THEN {table} ELSE UNION {DrawOneCard(t) : t \in f[n - 1]}]
<1>1. step \in [(SUBSET Table) \X (1 .. 17) -> SUBSET Table]
  BY OneMoreTurn
<1> HIDE DEF step
<1>2. PICK g \in [SUBSET (1 .. 17) -> SUBSET Table] : Recurs(g, 17, {table}, step)
  <2>1. Defined(17, SUBSET Table, {table}, step)
    <3>1. {table} \in SUBSET Table /\ 17 \in Nat
      OBVIOUS
    <3> QED
      BY <1>1, <3>1, SubsetRecursion
  <2> QED
    BY <2>1 DEF Defined
<1> DEFINE f == [n \in 0 .. 17 |-> g[1 .. n]]
<1>3. f = [n \in 0 .. 17 |-> IF n = 0 THEN {table} ELSE UNION {DrawOneCard(t) : t \in f[n - 1]}]
  <2>1. f[0] = {table}
    <3>1. 1 .. 0 = {} /\ {} \in SUBSET (1 .. 17) /\ 0 \in 0 .. 17
      OBVIOUS
    <3>2. g[{}] = {table}
      BY <1>2, <3>1 DEF Recurs
    <3>3. f[0] = g[1 .. 0]
      BY <3>1
    <3> QED
      BY <3>1, <3>2, <3>3
  <2>2. ASSUME NEW n \in 1 .. 17
        PROVE  f[n] = UNION {DrawOneCard(t) : t \in f[n - 1]}
    <3>1. /\ 1 .. n \in SUBSET (1 .. 17) /\ 1 .. n # {} /\ Max(1 .. n) = n
          /\ (1 .. n) \ {Max(1 .. n)} = 1 .. (n - 1)
      <4>1. 17 \in Nat
        OBVIOUS
      <4> QED
        BY <4>1, IntervalGrows
    <3>2. g[1 .. n] = step[<<g[1 .. (n - 1)], n>>]
      BY <1>2, <3>1 DEF Recurs
    <3>3. n \in 0 .. 17 /\ n - 1 \in 0 .. 17 /\ 1 .. (n - 1) \in SUBSET (1 .. 17)
      OBVIOUS
    <3>4. g[1 .. (n - 1)] \in SUBSET Table
      BY <1>2, <3>3
    <3>5. step[<<g[1 .. (n - 1)], n>>] = UNION {DrawOneCard(t) : t \in g[1 .. (n - 1)]}
      BY <3>4 DEF step
    <3> QED
      BY <3>2, <3>3, <3>5
  <2> HIDE DEF f
  <2>3. DOMAIN f = 0 .. 17 /\ f = [n \in 0 .. 17 |-> f[n]]
    BY DEF f
  <2>4. \A n \in 0 .. 17 : n = 0 \/ n \in 1 .. 17
    OBVIOUS
  <2> QED
    BY <2>1, <2>2, <2>3, <2>4
<1> HIDE DEF f
<1>4. after = [n \in 0 .. 17 |-> IF n = 0 THEN {table} ELSE UNION {DrawOneCard(t) : t \in after[n - 1]}]
  BY <1>3
<1>5. AfterDrawing(table) = after[17]
  BY DEF AfterDrawing, dealerPointsLimit
<1> HIDE DEF after
<1> DEFINE G == {n \in 0 .. 17 : after[n] \subseteq K[n]}
<1>6. 0 \in G
  BY <1>4
<1>7. ASSUME NEW n \in 1 .. 17, n - 1 \in G
      PROVE  n \in G
  <2>0. n \in 0 .. 17 /\ n # 0 /\ n - 1 \in 0 .. 17
    OBVIOUS
  <2>1. after[n] = UNION {DrawOneCard(t) : t \in after[n - 1]}
    BY <1>4, <2>0
  <2>2. after[n - 1] \subseteq K[n - 1]
    BY <1>7
  <2> QED
    BY <2>0, <2>1, <2>2
<1> HIDE DEF G
<1>8. 17 \in G
  <2>1. 0 .. 17 \subseteq G
    BY <1>6, <1>7, InductionUpTo
  <2> QED
    BY <2>1
<1> QED
  BY <1>5, <1>8 DEF G

LEMMA DrawingKeepsTheTable ==
    ASSUME NEW table \in Table
    PROVE  AfterDrawing(table) \subseteq Table
<1> DEFINE K == [n \in 0 .. 17 |-> Table]
<1>1. K \in [0 .. 17 -> SUBSET Table] /\ \A n \in 0 .. 17 : K[n] = Table
  OBVIOUS
<1> HIDE DEF K
<1>2. \A n \in 1 .. 17 : \A t \in K[n - 1] : \A next \in DrawOneCard(t) : next \in K[n]
  <2>1. \A n \in 1 .. 17 : n \in 0 .. 17 /\ n - 1 \in 0 .. 17
    OBVIOUS
  <2> QED
    BY <1>1, <2>1, OneMoreTurn
<1>3. AfterDrawing(table) \subseteq K[17]
  BY <1>1, <1>2, DrawingByTurns
<1> QED
  BY <1>1, <1>3

-----------------------------------------------------------------------------
\* After the step each hand left has the cards it has in hs, and maybe more.
OnTopOf(hs) ==
    \A p \in DOMAIN hands' :
        p \in DOMAIN hs /\ \E more \in Seq(DeckRanks) : hands'[p] = hs[p] \o more

\* The next state is typed, and hands only grew.
Kept(hs) == IInv' /\ OnTopOf(hs)

(* One lemma for each operator the handlers share.                         *)
LEMMA SameCards ==
    ASSUME NEW hs, NEW stand, Seated(hs, stand), hands' = hs
    PROVE  OnTopOf(hs)
<1>1. \A cards \in Seq(DeckRanks) : cards = cards \o <<>> /\ <<>> \in Seq(DeckRanks)
  OBVIOUS
<1>2. \A p \in DOMAIN hs : hs[p] \in Seq(DeckRanks)
  BY DEF Seated
<1> QED
  BY <1>1, <1>2 DEF OnTopOf

LEMMA NoHands == Seated(<<>>, {}) /\ DOMAIN <<>> = {}
<1>1. DOMAIN <<>> = {} /\ <<>> \in [{} -> Seq(DeckRanks)]
  OBVIOUS
<1> QED
  BY <1>1, FS_EmptySet DEF Seated

LEMMA OutOfCards ==
    ASSUME IInv, NEW hs, NEW stand, Seated(hs, stand), NotEnoughCards(hs, stand)
    PROVE  Kept(hs)
<1>1. OnTopOf(hs)
  BY SameCards DEF NotEnoughCards
<1>2. IInv'
  BY DEF NotEnoughCards, IInv, BetweenRounds, Seated
<1> QED
  BY <1>1, <1>2 DEF Kept

LEMMA CashingKeeps ==
    ASSUME IInv, NEW hs, NEW stand, Seated(hs, stand), NEW table \in Table,
           StartCashing(hs, stand, table)
    PROVE  Kept(hs)
<1>1. PICK final \in AfterDrawing(table) :
         IF BelowLimit(final.cards)
         THEN NotEnoughCards(hs, stand)
         ELSE /\ phase' = "NotStarted"
              /\ shoe' = final.shoe
              /\ dealersHand' = final.cards
              /\ hands' = <<>>
              /\ standing' = {}
  BY DEF StartCashing
<1>2. final.cards \in Seq(DeckRanks) /\ final.shoe \in ShoeType
  BY DrawingKeepsTheTable DEF Table
<1>3. CASE BelowLimit(final.cards)
  BY <1>1, <1>3, OutOfCards
<1>4. CASE ~BelowLimit(final.cards)
  <2>1. Seated(hands', standing') /\ DOMAIN hands' = {}
    BY <1>1, <1>4, NoHands
  <2>2. IInv'
    BY <1>1, <1>2, <1>4, <2>1 DEF IInv, BetweenRounds, Seated
  <2>3. OnTopOf(hs)
    BY <2>1 DEF OnTopOf
  <2> QED
    BY <2>2, <2>3 DEF Kept
<1> QED
  BY <1>3, <1>4

LEMMA PairsAreCards == Pairs \subseteq Seq(DeckRanks)
<1>1. \A a, b \in DeckRanks : <<a, b>> \in Seq(DeckRanks)
  OBVIOUS
<1>2. \A pair \in Pairs : \E a, b \in DeckRanks : pair = <<a, b>>
  BY DEF Pairs
<1> QED
  BY <1>1, <1>2

\* dealPlayersCards
WithPairs(hs, pairs) == [p \in DOMAIN hs |-> hs[p] \o pairs[p]]

LEMMA DealtOnTop ==
    ASSUME NEW hs, NEW stand, Seated(hs, stand), NEW pairs \in [DOMAIN hs -> Pairs]
    PROVE  /\ Seated(WithPairs(hs, pairs), stand)
           /\ \A p \in DOMAIN WithPairs(hs, pairs) :
                 /\ p \in DOMAIN hs
                 /\ \E more \in Seq(DeckRanks) : WithPairs(hs, pairs)[p] = hs[p] \o more
<1> DEFINE dealt == WithPairs(hs, pairs)
<1>1. \A p \in DOMAIN hs : hs[p] \in Seq(DeckRanks) /\ pairs[p] \in Seq(DeckRanks)
  BY PairsAreCards DEF Seated
<1>2. \A a, b \in Seq(DeckRanks) : a \o b \in Seq(DeckRanks)
  OBVIOUS
<1>3. DOMAIN dealt = DOMAIN hs /\ dealt \in [DOMAIN hs -> Seq(DeckRanks)]
  BY <1>1, <1>2 DEF WithPairs
<1>4. Seated(dealt, stand)
  BY <1>3 DEF Seated
<1>5. ASSUME NEW p \in DOMAIN dealt
      PROVE  p \in DOMAIN hs /\ \E more \in Seq(DeckRanks) : dealt[p] = hs[p] \o more
  BY <1>1, <1>3 DEF WithPairs
<1> QED
  BY <1>4, <1>5

LEMMA DealingKeeps ==
    ASSUME IInv, NEW hs, NEW stand, Seated(hs, stand), StartHitStandPhase(hs, stand)
    PROVE  Kept(hs)
<1>1. CASE NotEnoughCards(hs, stand)
  BY <1>1, OutOfCards
<1>2. ASSUME NEW dealersPair \in Pairs, NEW pairs \in [DOMAIN hs -> Pairs],
             Holds(ShoeAfterDealing(dealersPair, pairs)),
             Deal(hs, stand, dealersPair, pairs)
      PROVE  Kept(hs)
  <2> DEFINE dealt == WithPairs(hs, pairs)
             left == ShoeAfterDealing(dealersPair, pairs)
  <2>1. left \in ShoeType
    BY <1>2, DealingLeavesAShoe DEF Seated
  <2>2. dealersPair \in Seq(DeckRanks)
    BY PairsAreCards
  <2>3. /\ Seated(dealt, stand)
        /\ \A p \in DOMAIN dealt :
              p \in DOMAIN hs /\ \E more \in Seq(DeckRanks) : dealt[p] = hs[p] \o more
    BY DealtOnTop
  <2>4. IF stand = DOMAIN hs
        THEN StartCashing(dealt, stand, [cards |-> dealersPair, shoe |-> left])
        ELSE /\ phase' = "HitStandPhase"
             /\ shoe' = left
             /\ dealersHand' = dealersPair
             /\ hands' = dealt
             /\ standing' = stand
    BY <1>2 DEF Deal, WithPairs
  <2> HIDE DEF dealt, left
  <2>5. CASE stand = DOMAIN hs
    <3>1. [cards |-> dealersPair, shoe |-> left] \in Table
      BY <2>1, <2>2 DEF Table
    <3>2. Kept(dealt)
      BY <2>3, <2>4, <2>5, <3>1, CashingKeeps
    <3>3. OnTopOf(hs)
      <4> SUFFICES ASSUME NEW p \in DOMAIN hands'
                   PROVE  p \in DOMAIN hs /\ \E more \in Seq(DeckRanks) : hands'[p] = hs[p] \o more
        BY DEF OnTopOf
      <4>1. p \in DOMAIN dealt /\ \E more \in Seq(DeckRanks) : hands'[p] = dealt[p] \o more
        BY <3>2 DEF Kept, OnTopOf
      <4>2. PICK later \in Seq(DeckRanks) : hands'[p] = dealt[p] \o later
        BY <4>1
      <4>3. PICK more \in Seq(DeckRanks) : p \in DOMAIN hs /\ dealt[p] = hs[p] \o more
        BY <2>3, <4>1
      <4>4. hs[p] \in Seq(DeckRanks)
        BY <4>3 DEF Seated
      <4>5. \A a, b, c \in Seq(DeckRanks) : (a \o b) \o c = a \o (b \o c) /\ b \o c \in Seq(DeckRanks)
        BY ConcatAssociative, ConcatProperties
      <4>6. hands'[p] = hs[p] \o (more \o later) /\ more \o later \in Seq(DeckRanks)
        BY <4>2, <4>3, <4>4, <4>5
      <4> QED
        BY <4>3, <4>6
    <3> QED
      BY <3>2, <3>3 DEF Kept
  <2>6. CASE stand # DOMAIN hs
    <3>1. IInv'
      BY <2>1, <2>2, <2>3, <2>4, <2>6 DEF IInv, BetweenRounds, Seated
    <3>2. OnTopOf(hs)
      BY <2>3, <2>4, <2>6 DEF OnTopOf
    <3> QED
      BY <3>1, <3>2 DEF Kept
  <2> QED
    BY <2>5, <2>6
<1> QED
  BY <1>1, <1>2 DEF StartHitStandPhase

-----------------------------------------------------------------------------
(* One lemma for each handler.                                             *)
LEMMA TakenFromTheShoe ==
    ASSUME IInv, NEW hs, NEW stand, Seated(hs, stand), NEW from \in ShoeType,
           CashOnceAllStand(hs, stand, from), phase = "HitStandPhase"
    PROVE  Kept(hs)
<1>1. CASE stand = DOMAIN hs
  <2>1. [cards |-> dealersHand, shoe |-> from] \in Table
    BY DEF Table, IInv
  <2>2. StartCashing(hs, stand, [cards |-> dealersHand, shoe |-> from])
    BY <1>1 DEF CashOnceAllStand
  <2> QED
    BY <2>1, <2>2, CashingKeeps
<1>2. CASE stand # DOMAIN hs
  <2>1. /\ hands' = hs
        /\ standing' = stand
        /\ shoe' = from
        /\ UNCHANGED <<phase, dealersHand>>
    BY <1>2 DEF CashOnceAllStand
  <2>2. IInv'
    BY <2>1 DEF IInv, BetweenRounds, Seated
  <2>3. OnTopOf(hs)
    BY <2>1, SameCards
  <2> QED
    BY <2>2, <2>3 DEF Kept
<1> QED
  BY <1>1, <1>2

\* Hands only grow, whoever they belong to.
HandsGrow ==
    \A p \in DOMAIN hands \cap DOMAIN hands' :
        /\ hands[p] \in Seq(DeckRanks)
        /\ \E more \in Seq(DeckRanks) : hands'[p] = hands[p] \o more

LEMMA StartRoundKeeps ==
    ASSUME IInv, NEW ps \in Tables, StartRound(ps)
    PROVE  IInv' /\ HandsGrow
<1> DEFINE hs == [p \in ps |-> <<>>]
<1>1. Seated(hs, {})
  <2>1. IsFiniteSet(ps)
    BY TablesAssumption
  <2>2. DOMAIN hs = ps /\ hs \in [ps -> Seq(DeckRanks)] /\ ps \subseteq UNION Tables
    OBVIOUS
  <2> QED
    BY <2>1, <2>2 DEF Seated
<1>2. StartHitStandPhase(hs, {}) /\ phase = "NotStarted"
  BY DEF StartRound
<1> HIDE DEF hs
<1>3. Kept(hs)
  BY <1>1, <1>2, DealingKeeps
<1>4. DOMAIN hands = {}
  BY <1>2 DEF IInv, BetweenRounds
<1> QED
  BY <1>3, <1>4 DEF Kept, HandsGrow

LEMMA HitKeeps ==
    ASSUME IInv, NEW p \in UNION Tables, HitRequest(p)
    PROVE  IInv' /\ HandsGrow
<1>1. /\ phase = "HitStandPhase"
      /\ p \in DOMAIN hands /\ p \notin standing
      /\ Seated(hands, standing)
      /\ \A q \in DOMAIN hands : hands[q] \in Seq(DeckRanks)
      /\ shoe \in ShoeType
  BY DEF HitRequest, CanAct, IInv, Seated
<1>2. CASE NotEnoughCards(hands, standing)
  <2>1. Kept(hands)
    BY <1>1, <1>2, OutOfCards
  <2> QED
    BY <1>1, <2>1 DEF Kept, OnTopOf, HandsGrow
<1>3. ASSUME NEW rank \in Available(shoe), ExecuteHit(p, rank)
      PROVE  IInv' /\ HandsGrow
  <2> DEFINE cards == Append(hands[p], rank)
             hs == [hands EXCEPT ![p] = cards]
             stand == IF MustStand(cards) THEN standing \cup {p} ELSE standing
             from == Without(shoe, <<rank>>)
  <2>1. rank \in DeckRanks
    BY DEF Available
  <2>2. /\ cards \in Seq(DeckRanks)
        /\ cards = hands[p] \o <<rank>> /\ <<rank>> \in Seq(DeckRanks)
    BY <1>1, <2>1
  <2>3. from \in ShoeType
    BY <1>1, OneCardLess
  <2>4. CashOnceAllStand(hs, stand, from)
    BY <1>3 DEF ExecuteHit
  <2> HIDE DEF cards, from
  <2>5. /\ DOMAIN hs = DOMAIN hands /\ hs \in [DOMAIN hands -> Seq(DeckRanks)]
        /\ hs[p] = cards /\ \A q \in DOMAIN hands : q # p => hs[q] = hands[q]
    BY <1>1, <2>2
  <2>6. stand \subseteq DOMAIN hands
    BY <1>1 DEF Seated
  <2> HIDE DEF hs, stand
  <2>7. Seated(hs, stand)
    BY <1>1, <2>5, <2>6 DEF Seated
  <2>8. Kept(hs)
    BY <1>1, <2>3, <2>4, <2>7, TakenFromTheShoe
  <2>9. ASSUME NEW q \in DOMAIN hands, q \in DOMAIN hands'
        PROVE  \E more \in Seq(DeckRanks) : hands'[q] = hands[q] \o more
    <3>1. PICK more \in Seq(DeckRanks) : hands'[q] = hs[q] \o more
      BY <2>8, <2>9 DEF Kept, OnTopOf
    <3>2. CASE q = p
      <4>1. \A a, b, c \in Seq(DeckRanks) : (a \o b) \o c = a \o (b \o c) /\ b \o c \in Seq(DeckRanks)
        BY ConcatAssociative, ConcatProperties
      <4>2. hands'[p] = (hands[p] \o <<rank>>) \o more
        BY <2>2, <2>5, <3>1, <3>2
      <4>3. hands'[p] = hands[p] \o (<<rank>> \o more) /\ <<rank>> \o more \in Seq(DeckRanks)
        BY <1>1, <2>2, <4>1, <4>2
      <4> QED
        BY <3>2, <4>3
    <3>3. CASE q # p
      BY <2>5, <3>1, <3>3
    <3> QED
      BY <3>2, <3>3
  <2> QED
    BY <1>1, <2>8, <2>9 DEF Kept, HandsGrow
<1> QED
  BY <1>2, <1>3 DEF HitRequest

LEMMA StandKeeps ==
    ASSUME IInv, NEW p \in UNION Tables, StandRequest(p)
    PROVE  IInv' /\ HandsGrow
<1>1. /\ phase = "HitStandPhase"
      /\ Seated(hands, standing \cup {p})
      /\ \A q \in DOMAIN hands : hands[q] \in Seq(DeckRanks)
      /\ shoe \in ShoeType
      /\ CashOnceAllStand(hands, standing \cup {p}, shoe)
  BY DEF StandRequest, CanAct, IInv, Seated
<1>2. Kept(hands)
  BY <1>1, TakenFromTheShoe
<1> QED
  BY <1>1, <1>2 DEF Kept, OnTopOf, HandsGrow

LEMMA LeaveKeeps ==
    ASSUME IInv, NEW p \in UNION Tables, LeaveGame(p)
    PROVE  IInv' /\ HandsGrow
<1>1. /\ phase = "HitStandPhase"
      /\ p \in DOMAIN hands
      /\ Seated(hands, standing)
      /\ \A q \in DOMAIN hands : hands[q] \in Seq(DeckRanks)
  BY DEF LeaveGame, IInv, Seated
<1>2. CASE DOMAIN hands = {p}
  <2>1. /\ phase' = "NotStarted"
        /\ hands' = <<>>
        /\ standing' = {}
        /\ UNCHANGED <<shoe, dealersHand>>
    BY <1>2 DEF LeaveGame
  <2>2. Seated(hands', standing') /\ DOMAIN hands' = {}
    BY <2>1, NoHands
  <2>3. IInv'
    BY <2>1, <2>2 DEF IInv, BetweenRounds, Seated
  <2> QED
    BY <2>2, <2>3 DEF HandsGrow
<1>3. CASE DOMAIN hands # {p}
  <2> DEFINE others == DOMAIN hands \ {p}
             hs == [q \in others |-> hands[q]]
  <2>1. StartHitStandPhase(hs, standing \ {p})
    BY <1>3 DEF LeaveGame
  <2>2. IsFiniteSet(others)
    BY <1>1, FS_RemoveElement DEF Seated
  <2>3. Seated(hs, standing \ {p})
    BY <1>1, <2>2 DEF Seated
  <2>4. \A q \in others : hs[q] = hands[q]
    OBVIOUS
  <2>5. DOMAIN hs = others
    OBVIOUS
  <2> HIDE DEF hs
  <2>6. Kept(hs)
    BY <2>1, <2>3, DealingKeeps
  <2> QED
    BY <1>1, <2>4, <2>5, <2>6 DEF Kept, OnTopOf, HandsGrow
<1> QED
  BY <1>2, <1>3

-----------------------------------------------------------------------------
LEMMA InitIInv == Init => IInv
<1> SUFFICES ASSUME Init PROVE IInv
  OBVIOUS
<1>1. Seated(hands, standing) /\ DOMAIN hands = {}
  BY NoHands DEF Init
<1>2. shoe \in ShoeType
  BY CardsAreRanks DEF Init, FreshShoe, ShoeType
<1>3. dealersHand \in Seq(DeckRanks)
  BY DEF Init
<1> QED
  BY <1>1, <1>2, <1>3 DEF Init, IInv, BetweenRounds

LEMMA NextKeepsIInv == IInv /\ [Next]_vars => IInv' /\ HandsGrow
<1> SUFFICES ASSUME IInv, [Next]_vars PROVE IInv' /\ HandsGrow
  OBVIOUS
<1>1. CASE UNCHANGED vars
  <2>1. IInv'
    BY <1>1 DEF vars, IInv, BetweenRounds, Seated
  <2>2. OnTopOf(hands)
    BY <1>1, SameCards DEF vars, IInv
  <2> QED
    BY <2>1, <2>2 DEF OnTopOf, HandsGrow, IInv, Seated
<1>2. ASSUME NEW ps \in Tables, StartRound(ps)
      PROVE  IInv' /\ HandsGrow
  BY <1>2, StartRoundKeeps
<1>3. ASSUME NEW p \in UNION Tables, HitRequest(p) \/ StandRequest(p) \/ LeaveGame(p)
      PROVE  IInv' /\ HandsGrow
  BY <1>3, HitKeeps, StandKeeps, LeaveKeeps
<1> QED
  BY <1>1, <1>2, <1>3 DEF Next

LEMMA IInvariance == Spec => []IInv
<1>1. IInv /\ [Next]_vars => IInv'
  BY NextKeepsIInv
<1> QED
  BY <1>1, InitIInv, PTL DEF Spec

-----------------------------------------------------------------------------
(* Phases, hands and the shoe have their types, for any decks and tables:  *)
(* no handler takes a card the shoe does not have.                         *)
THEOREM DealingTypeCorrect == Spec => []TypeOK
<1>1. IInv => TypeOK
  BY DEF IInv, Seated, TypeOK, ShoeType
<1> QED
  BY <1>1, IInvariance, PTL

LEMMA HandsAreRanks ==
    ASSUME IInv, NEW cards \in HandsOnTheTable
    PROVE  cards \in Seq(Rank)
<1>1. cards \in Seq(DeckRanks)
  BY DEF IInv, Seated, HandsOnTheTable
<1> QED
  BY <1>1, CardsAreRanks

(* The points the handlers decide by are the best total of the hand, for   *)
(* every hand any sequence of requests can deal.                           *)
THEOREM PointsAreRight == Spec => []PointsAreTheBestTotal
<1>1. IInv => PointsAreTheBestTotal
  BY HandsAreRanks, LoopsFindTheBestTotal DEF PointsAreTheBestTotal
<1> QED
  BY <1>1, IInvariance, PTL

(* GameServer may keep tallies for hands: they answer as the loops do for  *)
(* every hand on the table.                                                *)
THEOREM TalliesAreRight == Spec => []TallyAgreesWithLoops
<1>1. IInv => TallyAgreesWithLoops
  BY HandsAreRanks, TallyAnswersAsTheLoops DEF TallyAgreesWithLoops
<1> QED
  BY <1>1, IInvariance, PTL

(* A busted hand stays busted, whatever is requested and whoever leaves:   *)
(* hands only grow, and more cards do not rescue them.                     *)
THEOREM BustsAreFinal == Spec => BustIsFinal
<1>1. IInv /\ [Next]_vars =>
         [\A p \in DOMAIN hands \cap DOMAIN hands' :
             CardsBusted(hands[p]) => CardsBusted(hands'[p])]_vars
  <2> SUFFICES ASSUME IInv, [Next]_vars,
                      NEW p \in DOMAIN hands \cap DOMAIN hands', CardsBusted(hands[p])
               PROVE  CardsBusted(hands'[p])
    OBVIOUS
  <2>1. PICK more \in Seq(DeckRanks) : hands'[p] = hands[p] \o more
    BY NextKeepsIInv DEF HandsGrow
  <2>2. hands[p] \in Seq(Rank) /\ more \in Seq(Rank)
    BY CardsAreRanks, NextKeepsIInv DEF HandsGrow
  <2> QED
    BY <2>1, <2>2, BustedHandsStayBusted
<1> QED
  BY <1>1, IInvariance, PTL DEF Spec, BustIsFinal

-----------------------------------------------------------------------------
(* Sums over finite sets, as MapThenSumSet takes them: of what CHOOSE      *)
(* finds first, and of the others.                                         *)
First(s) == CHOOSE x \in s : TRUE

Sums(g, f, S) ==
    \A s \in SUBSET S : g[s] = IF s = {} THEN 0 ELSE f[First(s)] + g[s \ {First(s)}]

LEMMA WithoutTheFirst ==
    ASSUME NEW S, IsFiniteSet(S), NEW s \in SUBSET S, s # {}
    PROVE  /\ First(s) \in s /\ First(s) \in S
           /\ s \ {First(s)} \in SUBSET S
           /\ Cardinality(s) \in Nat \ {0}
           /\ Cardinality(s \ {First(s)}) = Cardinality(s) - 1
<1>1. First(s) \in s
  BY DEF First
<1>2. IsFiniteSet(s) /\ Cardinality(s) \in Nat
  BY FS_Subset, FS_CardinalityType
<1>3. Cardinality(s) # 0
  BY <1>2, FS_EmptySet
<1>4. Cardinality(s \ {First(s)}) = Cardinality(s) - 1
  BY <1>1, <1>2, FS_RemoveElement
<1> QED
  BY <1>1, <1>2, <1>3, <1>4

LEMMA EverySizeIsEveryPart ==
    ASSUME NEW S, IsFiniteSet(S), NEW G,
           \A n \in Nat : (\A s \in SUBSET S : Cardinality(s) < n => s \in G)
                            => (\A s \in SUBSET S : Cardinality(s) = n => s \in G)
    PROVE  SUBSET S \subseteq G
<1> DEFINE H == {n \in Nat : \A s \in SUBSET S : Cardinality(s) < n => s \in G}
<1>1. \A s \in SUBSET S : Cardinality(s) \in Nat
  BY FS_Subset, FS_CardinalityType
<1>2. 0 \in H
  BY <1>1
<1>3. ASSUME NEW n \in Nat, n \in H
      PROVE  n + 1 \in H
  <2> SUFFICES ASSUME NEW s \in SUBSET S, Cardinality(s) < n + 1
               PROVE  s \in G
    OBVIOUS
  <2>1. Cardinality(s) < n \/ Cardinality(s) = n
    BY <1>1
  <2> QED
    BY <1>3, <2>1
<1> HIDE DEF H
<1>4. Nat \subseteq H
  BY <1>2, <1>3, Induction
<1> SUFFICES ASSUME NEW s \in SUBSET S PROVE s \in G
  OBVIOUS
<1>5. Cardinality(s) + 1 \in H /\ Cardinality(s) < Cardinality(s) + 1
  BY <1>1, <1>4
<1> QED
  BY <1>5 DEF H

\* The sums of the parts of S of n elements at most.
SumsUpTo(f, S, n) ==
    \E g \in [{s \in SUBSET S : Cardinality(s) <= n} -> Int] :
        \A s \in SUBSET S : Cardinality(s) <= n =>
            g[s] = IF s = {} THEN 0 ELSE f[First(s)] + g[s \ {First(s)}]

LEMMA SumsExist ==
    ASSUME NEW S, IsFiniteSet(S), NEW f \in [S -> Int]
    PROVE  \E g \in [SUBSET S -> Int] : Sums(g, f, S)
<1> DEFINE G == {n \in Nat : SumsUpTo(f, S, n)}
<1>1. \A s \in SUBSET S : Cardinality(s) \in Nat /\ Cardinality(s) <= Cardinality(S)
  BY FS_Subset, FS_CardinalityType
<1>2. \A s \in SUBSET S : Cardinality(s) <= 0 <=> s = {}
  BY <1>1, FS_Subset, FS_EmptySet
<1>3. 0 \in G
  <2> DEFINE g == [s \in {s \in SUBSET S : Cardinality(s) <= 0} |-> 0]
  <2>1. g \in [{s \in SUBSET S : Cardinality(s) <= 0} -> Int]
    OBVIOUS
  <2>2. \A s \in SUBSET S : Cardinality(s) <= 0 =>
            g[s] = IF s = {} THEN 0 ELSE f[First(s)] + g[s \ {First(s)}]
    BY <1>2
  <2> QED
    BY <2>1, <2>2 DEF SumsUpTo
<1>4. ASSUME NEW n \in Nat, n \in G
      PROVE  n + 1 \in G
  <2> DEFINE B == {s \in SUBSET S : Cardinality(s) <= n}
             C == {s \in SUBSET S : Cardinality(s) <= n + 1}
  <2>1. PICK h \in [B -> Int] :
           \A s \in SUBSET S : Cardinality(s) <= n =>
              h[s] = IF s = {} THEN 0 ELSE f[First(s)] + h[s \ {First(s)}]
    <3>1. SumsUpTo(f, S, n)
      BY <1>4
    <3> QED
      BY <3>1 DEF SumsUpTo
  <2> DEFINE g == [s \in C |-> IF Cardinality(s) <= n THEN h[s] ELSE f[First(s)] + h[s \ {First(s)}]]
  <2>2. ASSUME NEW s \in SUBSET S, Cardinality(s) <= n + 1, s # {}
        PROVE  s \ {First(s)} \in B /\ f[First(s)] \in Int
    BY <1>1, <2>2, WithoutTheFirst
  <2>3. \A s \in B : s \in C /\ g[s] = h[s]
    BY <1>1
  <2>4. g \in [C -> Int]
    <3>1. ASSUME NEW s \in C
          PROVE  (IF Cardinality(s) <= n THEN h[s] ELSE f[First(s)] + h[s \ {First(s)}]) \in Int
      <4>1. CASE Cardinality(s) <= n
        BY <2>1, <4>1
      <4>2. CASE ~(Cardinality(s) <= n)
        <5>1. s # {}
          BY <1>2, <1>1, <4>2
        <5>2. s \ {First(s)} \in B /\ f[First(s)] \in Int
          BY <2>2, <5>1
        <5> QED
          BY <2>1, <4>2, <5>2
      <4> QED
        BY <4>1, <4>2
    <3> QED
      BY <3>1
  <2>5. ASSUME NEW s \in SUBSET S, Cardinality(s) <= n + 1
        PROVE  g[s] = IF s = {} THEN 0 ELSE f[First(s)] + g[s \ {First(s)}]
    <3>1. CASE s = {}
      <4>1. s \in B
        BY <1>1, <1>2, <3>1
      <4> QED
        BY <2>1, <2>3, <3>1, <4>1
    <3>2. CASE s # {} /\ Cardinality(s) <= n
      <4>1. s \in B /\ s \ {First(s)} \in B
        BY <2>2, <2>5, <3>2
      <4> QED
        BY <2>1, <2>3, <3>2, <4>1
    <3>3. CASE s # {} /\ ~(Cardinality(s) <= n)
      <4>1. s \in C /\ s \ {First(s)} \in B
        BY <2>2, <2>5, <3>3
      <4> QED
        BY <2>3, <3>3, <4>1
    <3> QED
      BY <3>1, <3>2, <3>3
  <2> HIDE DEF g
  <2>6. SumsUpTo(f, S, n + 1)
    BY <2>4, <2>5 DEF SumsUpTo
  <2> QED
    BY <2>6
<1> HIDE DEF G
<1>5. Cardinality(S) \in G
  <2>1. Nat \subseteq G
    BY <1>3, <1>4, Induction
  <2> QED
    BY <2>1, FS_CardinalityType
<1>6. PICK g \in [{s \in SUBSET S : Cardinality(s) <= Cardinality(S)} -> Int] :
        \A s \in SUBSET S : Cardinality(s) <= Cardinality(S) =>
            g[s] = IF s = {} THEN 0 ELSE f[First(s)] + g[s \ {First(s)}]
  BY <1>5 DEF G, SumsUpTo
<1>7. {s \in SUBSET S : Cardinality(s) <= Cardinality(S)} = SUBSET S
  BY <1>1
<1>8. g \in [SUBSET S -> Int] /\ Sums(g, f, S)
  BY <1>1, <1>6, <1>7 DEF Sums
<1> QED
  BY <1>8

(* There is one such function, so it does not matter which CHOOSE finds.   *)
LEMMA SumsAreUnique ==
    ASSUME NEW S, IsFiniteSet(S), NEW f, NEW g, NEW h, Sums(g, f, S), Sums(h, f, S)
    PROVE  g[S] = h[S]
<1> DEFINE G == {s \in SUBSET S : g[s] = h[s]}
<1>1. ASSUME NEW n \in Nat, \A s \in SUBSET S : Cardinality(s) < n => s \in G,
             NEW s \in SUBSET S, Cardinality(s) = n
      PROVE  s \in G
  <2>1. CASE s = {}
    BY <2>1 DEF Sums
  <2>2. CASE s # {}
    <3>1. s \ {First(s)} \in SUBSET S /\ Cardinality(s \ {First(s)}) < n
      BY <1>1, <2>2, WithoutTheFirst
    <3>2. g[s \ {First(s)}] = h[s \ {First(s)}]
      BY <1>1, <3>1
    <3> QED
      BY <2>2, <3>2 DEF Sums
  <2> QED
    BY <2>1, <2>2
<1> HIDE DEF G
<1>2. SUBSET S \subseteq G
  BY <1>1, EverySizeIsEveryPart
<1> QED
  BY <1>2 DEF G

LEMMA TakenInAnyOrder ==
    ASSUME NEW S, NEW s \in SUBSET S, NEW x \in S \ s, NEW c \in s \cup {x}, c # x
    PROVE  /\ c \in s /\ s \ {c} \in SUBSET S /\ x \in S \ (s \ {c}) /\ c \in S \ (s \ {c})
           /\ (s \cup {x}) \ {c} = (s \ {c}) \cup {x}
           /\ (s \ {c}) \cup {c} = s
OBVIOUS

\* The order in which the elements come does not matter.
AddsUp(g, f, S) ==
    /\ g[{}] = 0
    /\ \A s \in SUBSET S : \A x \in S \ s : g[s \cup {x}] = f[x] + g[s]

LEMMA SumsAddUp ==
    ASSUME NEW S, IsFiniteSet(S), NEW f \in [S -> Int],
           NEW g \in [SUBSET S -> Int], Sums(g, f, S)
    PROVE  AddsUp(g, f, S)
<1> DEFINE G == {s \in SUBSET S : \A x \in S \ s : g[s \cup {x}] = f[x] + g[s]}
<1>1. ASSUME NEW n \in Nat, \A s \in SUBSET S : Cardinality(s) < n => s \in G,
             NEW s \in SUBSET S, Cardinality(s) = n
      PROVE  s \in G
  <2> SUFFICES ASSUME NEW x \in S \ s PROVE g[s \cup {x}] = f[x] + g[s]
    OBVIOUS
  <2>1. s \cup {x} \in SUBSET S /\ s \cup {x} # {}
    OBVIOUS
  <2>2. PICK c : c = First(s \cup {x})
    OBVIOUS
  <2>3. c \in s \cup {x} /\ c \in S
    BY <2>1, <2>2, WithoutTheFirst
  <2>4. g[s \cup {x}] = f[c] + g[(s \cup {x}) \ {c}]
    BY <2>1, <2>2 DEF Sums
  <2>5. CASE c = x
    <3>1. (s \cup {x}) \ {c} = s
      BY <2>5
    <3> QED
      BY <2>4, <2>5, <3>1
  <2>6. CASE c # x
    <3>0. PICK t : t = s \ {c}
      OBVIOUS
    <3>1. /\ c \in s /\ t \in SUBSET S /\ x \in S \ t /\ c \in S \ t
          /\ (s \cup {x}) \ {c} = t \cup {x} /\ t \cup {c} = s
      BY <2>3, <2>6, <3>0, TakenInAnyOrder
    <3>2. Cardinality(t) < n
      <4>1. IsFiniteSet(s) /\ Cardinality(s) \in Nat
        BY FS_Subset, FS_CardinalityType
      <4>2. Cardinality(s \ {c}) = Cardinality(s) - 1
        BY <3>1, <4>1, FS_RemoveElement
      <4> QED
        BY <1>1, <3>0, <4>1, <4>2
    <3>3. \A y \in S \ t : g[t \cup {y}] = f[y] + g[t]
      BY <1>1, <3>1, <3>2
    <3>4. g[t \cup {x}] = f[x] + g[t] /\ g[s] = f[c] + g[t]
      BY <3>1, <3>3
    <3>5. f[c] \in Int /\ f[x] \in Int /\ g[t] \in Int
      BY <2>3, <3>1
    <3>6. \A i, j, k \in Int : i + (j + k) = j + (i + k)
      OBVIOUS
    <3>7. f[c] + (f[x] + g[t]) = f[x] + (f[c] + g[t])
      BY <3>5, <3>6
    <3> QED
      BY <2>4, <3>1, <3>4, <3>7
  <2> QED
    BY <2>5, <2>6
<1> HIDE DEF G
<1>2. SUBSET S \subseteq G
  BY <1>1, EverySizeIsEveryPart
<1>3. g[{}] = 0
  BY DEF Sums
<1> QED
  BY <1>2, <1>3 DEF G, AddsUp

LEMMA PartByPart ==
    ASSUME NEW S, IsFiniteSet(S), NEW G, {} \in G,
           \A s \in SUBSET S : \A x \in S \ s : s \in G => s \cup {x} \in G
    PROVE  S \in G
<1>1. ASSUME NEW n \in Nat, \A s \in SUBSET S : Cardinality(s) < n => s \in G,
             NEW s \in SUBSET S, Cardinality(s) = n
      PROVE  s \in G
  <2>1. CASE s # {}
    <3> DEFINE t == s \ {First(s)}
    <3>1. /\ First(s) \in s /\ t \in SUBSET S /\ Cardinality(t) < n
          /\ First(s) \in S \ t /\ t \cup {First(s)} = s
      BY <1>1, <2>1, WithoutTheFirst
    <3>2. t \in G
      BY <1>1, <3>1
    <3> HIDE DEF t
    <3> QED
      BY <3>1, <3>2
  <2> QED
    BY <2>1
<1>2. SUBSET S \subseteq G
  BY <1>1, EverySizeIsEveryPart
<1> QED
  BY <1>2

\* What MapThenSumSet adds up.
Total(f, S) == MapThenSumSet(LAMBDA x : f[x], S)

LEMMA TotalIsTheSum ==
    ASSUME NEW S, IsFiniteSet(S), NEW f \in [S -> Int],
           NEW g \in [SUBSET S -> Int], Sums(g, f, S)
    PROVE  Total(f, S) = g[S]
<1> DEFINE iter == CHOOSE h : h = [s \in SUBSET S |->
                       IF s = {} THEN 0
                       ELSE f[CHOOSE x \in s : TRUE] + h[s \ {CHOOSE x \in s : TRUE}]]
<1>1. g = [s \in SUBSET S |->
             IF s = {} THEN 0
             ELSE f[CHOOSE x \in s : TRUE] + g[s \ {CHOOSE x \in s : TRUE}]]
  BY DEF Sums, First
<1>2. iter = [s \in SUBSET S |->
                IF s = {} THEN 0
                ELSE f[CHOOSE x \in s : TRUE] + iter[s \ {CHOOSE x \in s : TRUE}]]
  BY <1>1
<1>3. Total(f, S) = iter[S]
  BY DEF Total, MapThenSumSet, MapThenFoldSet
<1> HIDE DEF iter
<1>4. Sums(iter, f, S)
  BY <1>2 DEF Sums, First
<1> QED
  BY <1>3, <1>4, SumsAreUnique

(* The total, and the totals of the parts on the way to it.                *)
LEMMA TotalByParts ==
    ASSUME NEW S, IsFiniteSet(S), NEW f \in [S -> Int]
    PROVE  \E g \in [SUBSET S -> Int] : AddsUp(g, f, S) /\ Total(f, S) = g[S]
<1>1. PICK g \in [SUBSET S -> Int] : Sums(g, f, S)
  BY SumsExist
<1>2. AddsUp(g, f, S)
  BY <1>1, SumsAddUp
<1>3. Total(f, S) = g[S]
  BY <1>1, TotalIsTheSum
<1> QED
  BY <1>2, <1>3

LEMMA TotalType ==
    ASSUME NEW S, IsFiniteSet(S), NEW f \in [S -> Int]
    PROVE  Total(f, S) \in Int
<1>1. PICK g \in [SUBSET S -> Int] : Total(f, S) = g[S]
  BY TotalByParts
<1> QED
  BY <1>1

LEMMA NoMoreThan ==
    ASSUME NEW S, IsFiniteSet(S), NEW f \in [S -> Int], NEW g \in [S -> Int],
           NEW k \in Int, NEW m \in Int, \A x \in S : k * f[x] <= m * g[x]
    PROVE  k * Total(f, S) <= m * Total(g, S)
<1>1. PICK F \in [SUBSET S -> Int] : AddsUp(F, f, S) /\ Total(f, S) = F[S]
  BY TotalByParts
<1>2. PICK H \in [SUBSET S -> Int] : AddsUp(H, g, S) /\ Total(g, S) = H[S]
  BY TotalByParts
<1> DEFINE G == {s \in SUBSET S : k * F[s] <= m * H[s]}
<1>3. {} \in G
  <2>1. k * 0 <= m * 0
    OBVIOUS
  <2> QED
    BY <1>1, <1>2, <2>1 DEF AddsUp
<1>4. ASSUME NEW s \in SUBSET S, NEW x \in S \ s, s \in G
      PROVE  s \cup {x} \in G
  <2>1. F[s \cup {x}] = f[x] + F[s] /\ H[s \cup {x}] = g[x] + H[s]
    BY <1>1, <1>2 DEF AddsUp
  <2>2. \A a, b, c, d \in Int : k * a <= m * c /\ k * b <= m * d => k * (a + b) <= m * (c + d)
    <3>1. \A a, b \in Int : k * (a + b) = k * a + k * b /\ k * a \in Int /\ k * b \in Int
      OBVIOUS
    <3>2. \A a, b \in Int : m * (a + b) = m * a + m * b /\ m * a \in Int /\ m * b \in Int
      OBVIOUS
    <3>3. \A a, b, c, d \in Int : a <= c /\ b <= d => a + b <= c + d
      OBVIOUS
    <3> QED
      BY <3>1, <3>2, <3>3
  <2>3. f[x] \in Int /\ F[s] \in Int /\ g[x] \in Int /\ H[s] \in Int
    OBVIOUS
  <2>4. k * F[s] <= m * H[s] /\ k * f[x] <= m * g[x]
    BY <1>4
  <2>5. k * (f[x] + F[s]) <= m * (g[x] + H[s])
    BY <2>2, <2>3, <2>4
  <2>6. s \cup {x} \in SUBSET S
    OBVIOUS
  <2> QED
    BY <2>1, <2>5, <2>6
<1> HIDE DEF G
<1>5. S \in G
  BY <1>3, <1>4, PartByPart
<1> QED
  BY <1>1, <1>2, <1>5 DEF G

LEMMA OneTermChanges ==
    ASSUME NEW S, IsFiniteSet(S), NEW f \in [S -> Int], NEW g \in [S -> Int],
           NEW c \in S, \A x \in S : x # c => g[x] = f[x]
    PROVE  Total(g, S) = Total(f, S) + (g[c] - f[c])
<1>1. PICK F \in [SUBSET S -> Int] : AddsUp(F, f, S) /\ Total(f, S) = F[S]
  BY TotalByParts
<1>2. PICK H \in [SUBSET S -> Int] : AddsUp(H, g, S) /\ Total(g, S) = H[S]
  BY TotalByParts
<1> DEFINE G == {s \in SUBSET S : H[s] = F[s] + (IF c \in s THEN g[c] - f[c] ELSE 0)}
<1>3. {} \in G
  BY <1>1, <1>2 DEF AddsUp
<1>4. ASSUME NEW s \in SUBSET S, NEW x \in S \ s, s \in G
      PROVE  s \cup {x} \in G
  <2>1. F[s \cup {x}] = f[x] + F[s] /\ H[s \cup {x}] = g[x] + H[s]
    BY <1>1, <1>2 DEF AddsUp
  <2>2. /\ f[x] \in Int /\ F[s] \in Int /\ g[x] \in Int /\ H[s] \in Int
        /\ f[c] \in Int /\ g[c] \in Int
        /\ s \cup {x} \in SUBSET S
    OBVIOUS
  <2>3. CASE x = c
    <3>1. c \notin s /\ c \in s \cup {x}
      BY <2>3
    <3>2. H[s] = F[s]
      BY <1>4, <2>2, <3>1
    <3> QED
      BY <2>1, <2>2, <2>3, <3>1, <3>2
  <2>4. CASE x # c
    <3>1. g[x] = f[x] /\ (c \in s <=> c \in s \cup {x})
      BY <2>4
    <3>2. H[s] = F[s] + (IF c \in s THEN g[c] - f[c] ELSE 0)
      BY <1>4
    <3> QED
      BY <2>1, <2>2, <3>1, <3>2
  <2> QED
    BY <2>3, <2>4
<1> HIDE DEF G
<1>5. S \in G
  BY <1>3, <1>4, PartByPart
<1>6. H[S] = F[S] + (g[c] - f[c])
  BY <1>5 DEF G
<1> QED
  BY <1>1, <1>2, <1>6

LEMMA TotalOfOnes ==
    ASSUME NEW S, IsFiniteSet(S)
    PROVE  Total([x \in S |-> 1], S) = Cardinality(S)
<1> DEFINE f == [x \in S |-> 1]
<1>0. f \in [S -> Int] /\ \A x \in S : f[x] = 1
  OBVIOUS
<1> HIDE DEF f
<1>1. PICK F \in [SUBSET S -> Int] : AddsUp(F, f, S) /\ Total(f, S) = F[S]
  BY <1>0, TotalByParts
<1> DEFINE G == {s \in SUBSET S : F[s] = Cardinality(s)}
<1>2. {} \in G
  BY <1>1, FS_EmptySet DEF AddsUp
<1>3. ASSUME NEW s \in SUBSET S, NEW x \in S \ s, s \in G
      PROVE  s \cup {x} \in G
  <2>1. F[s \cup {x}] = 1 + F[s]
    BY <1>0, <1>1 DEF AddsUp
  <2>2. IsFiniteSet(s)
    BY FS_Subset
  <2>3. Cardinality(s \cup {x}) = Cardinality(s) + 1 /\ Cardinality(s) \in Nat
    BY <2>2, FS_AddElement, FS_CardinalityType
  <2>4. \A n \in Nat : 1 + n = n + 1
    OBVIOUS
  <2>5. F[s] = Cardinality(s) /\ s \cup {x} \in SUBSET S
    BY <1>3
  <2> QED
    BY <2>1, <2>3, <2>4, <2>5
<1> HIDE DEF G
<1>4. S \in G
  BY <1>2, <1>3, PartByPart
<1>5. Total(f, S) = Cardinality(S)
  BY <1>1, <1>4 DEF G
<1> QED
  BY <1>5 DEF f

-----------------------------------------------------------------------------
(* The points of a shoe and of a hand, an ace counted low.                 *)
Low(cards) == FoldLeft(AddLow, 0, cards)

Weighted(from) == [rank \in DeckRanks |-> from[rank] * HardPoints(rank)]

Points(from) == Total(Weighted(from), DeckRanks)

PointsOf(cards) == [i \in DOMAIN cards |-> HardPoints(cards[i])]

LEMMA CardHasPoints ==
    /\ IsFiniteSet(DeckRanks)
    /\ \A rank \in DeckRanks : HardPoints(rank) \in 1 .. 10
<1>1. \A rank \in Rank : HardPoints(rank) \in 1 .. 10
  BY DEF HardPoints, CardPoints, Rank, kAce, kTen
<1>2. IsFiniteSet(Rank)
  <2>1. 0 \in Int /\ 12 \in Int
    OBVIOUS
  <2> QED
    BY <2>1, FS_Interval DEF Rank
<1>3. DeckRanks \in SUBSET Rank
  BY CardsAreRanks
<1> QED
  BY <1>1, <1>2, <1>3, FS_Subset

LEMMA WeightsAreInt ==
    ASSUME NEW from \in [DeckRanks -> Int]
    PROVE  /\ Weighted(from) \in [DeckRanks -> Int]
           /\ Points(from) \in Int
<1>1. \A rank \in DeckRanks : from[rank] \in Int /\ HardPoints(rank) \in Int
  BY CardHasPoints
<1>2. \A a, b \in Int : a * b \in Int
  OBVIOUS
<1>3. Weighted(from) \in [DeckRanks -> Int]
  BY <1>1, <1>2 DEF Weighted
<1> QED
  BY <1>3, CardHasPoints, TotalType DEF Points

\* The points of one card of each rank.
Deck == [rank \in DeckRanks |-> HardPoints(rank)]

LEMMA DeckPoints ==
    /\ Deck \in [DeckRanks -> Int]
    /\ MapThenSumSet(HardPoints, DeckRanks) = Total(Deck, DeckRanks)
<1> DEFINE S == DeckRanks
           iter == CHOOSE h : h = [s \in SUBSET S |->
                       IF s = {} THEN 0
                       ELSE HardPoints(CHOOSE x \in s : TRUE) + h[s \ {CHOOSE x \in s : TRUE}]]
<1>0. Deck \in [DeckRanks -> Int]
  BY CardHasPoints DEF Deck
<1>1. PICK g \in [SUBSET S -> Int] : Sums(g, Deck, S)
  BY <1>0, CardHasPoints, SumsExist
<1>2. \A s \in SUBSET S : s # {} =>
          (CHOOSE x \in s : TRUE) \in S /\ Deck[CHOOSE x \in s : TRUE] = HardPoints(CHOOSE x \in s : TRUE)
  BY DEF Deck
<1>3. g = [s \in SUBSET S |->
             IF s = {} THEN 0
             ELSE HardPoints(CHOOSE x \in s : TRUE) + g[s \ {CHOOSE x \in s : TRUE}]]
  BY <1>1, <1>2 DEF Sums, First
<1>4. iter = [s \in SUBSET S |->
                IF s = {} THEN 0
                ELSE HardPoints(CHOOSE x \in s : TRUE) + iter[s \ {CHOOSE x \in s : TRUE}]]
  BY <1>3
<1>5. MapThenSumSet(HardPoints, DeckRanks) = iter[S]
  BY DEF MapThenSumSet, MapThenFoldSet
<1> HIDE DEF iter
<1>6. Sums(iter, Deck, S)
  BY <1>2, <1>4 DEF Sums, First
<1>7. iter[S] = g[S]
  BY <1>1, <1>6, CardHasPoints, SumsAreUnique
<1>8. Total(Deck, S) = g[S]
  BY <1>0, <1>1, CardHasPoints, TotalIsTheSum
<1> QED
  BY <1>0, <1>5, <1>7, <1>8

LEMMA FreshPoints ==
    /\ FreshShoe \in [DeckRanks -> Int]
    /\ nbOfCopies * Total(Deck, DeckRanks) <= Points(FreshShoe)
    /\ nbOfCopies * Total(Deck, DeckRanks) <= 10 * CardsLeft(FreshShoe)
<1>1. FreshShoe \in [DeckRanks -> Int] /\ \A rank \in DeckRanks : FreshShoe[rank] = nbOfCopies
  BY CardsAreRanks DEF FreshShoe
<1>2. nbOfCopies \in Int /\ nbOfCopies \in Nat /\ 1 \in Int /\ 10 \in Int
  BY CardsAreRanks
<1>3. /\ Deck \in [DeckRanks -> Int]
      /\ \A rank \in DeckRanks : Deck[rank] = HardPoints(rank)
  BY DeckPoints DEF Deck
<1>4. nbOfCopies * Total(Deck, DeckRanks) <= 1 * Total(Weighted(FreshShoe), DeckRanks)
  <2>1. Weighted(FreshShoe) \in [DeckRanks -> Int]
    BY <1>1, WeightsAreInt
  <2>2. ASSUME NEW rank \in DeckRanks
        PROVE  nbOfCopies * Deck[rank] <= 1 * Weighted(FreshShoe)[rank]
    <3>1. Weighted(FreshShoe)[rank] = nbOfCopies * Deck[rank]
      BY <1>1, <1>3 DEF Weighted
    <3>2. Weighted(FreshShoe)[rank] \in Int
      BY <2>1
    <3> QED
      BY <3>1, <3>2
  <2> QED
    BY <1>2, <1>3, <2>1, <2>2, CardHasPoints, NoMoreThan
<1>5. nbOfCopies * Total(Deck, DeckRanks) <= 10 * Total(FreshShoe, DeckRanks)
  <2>1. ASSUME NEW rank \in DeckRanks
        PROVE  nbOfCopies * Deck[rank] <= 10 * FreshShoe[rank]
    <3>1. Deck[rank] \in 1 .. 10 /\ FreshShoe[rank] = nbOfCopies
      BY <1>1, <1>3, CardHasPoints
    <3>2. \A n \in Nat, d \in 1 .. 10 : n * d <= 10 * n
      OBVIOUS
    <3> QED
      BY <1>2, <3>1, <3>2
  <2> QED
    BY <1>1, <1>2, <1>3, <2>1, CardHasPoints, NoMoreThan
<1>6. CardsLeft(FreshShoe) = Total(FreshShoe, DeckRanks)
  BY DEF CardsLeft, Total
<1>7. 1 * Total(Weighted(FreshShoe), DeckRanks) = Points(FreshShoe)
  <2>1. Points(FreshShoe) \in Int
    BY <1>1, WeightsAreInt
  <2> QED
    BY <2>1 DEF Points
<1> QED
  BY <1>1, <1>4, <1>5, <1>6, <1>7

LEMMA EmptyShoe ==
    ASSUME NEW from \in ShoeType, Available(from) = {}
    PROVE  Points(from) <= 0
<1>1. from \in [DeckRanks -> Int] /\ \A rank \in DeckRanks : from[rank] \in 0 .. nbOfCopies
  BY CardsAreRanks DEF ShoeType
<1>2. \A rank \in DeckRanks : from[rank] = 0
  BY <1>1, CardsAreRanks DEF Available
<1>3. Weighted(from) \in [DeckRanks -> Int]
  BY <1>1, WeightsAreInt
<1>4. ASSUME NEW rank \in DeckRanks
      PROVE  1 * Weighted(from)[rank] <= 0 * from[rank]
  <2>1. Weighted(from)[rank] = 0 * HardPoints(rank) /\ HardPoints(rank) \in Int
    BY <1>2, CardHasPoints DEF Weighted
  <2> QED
    BY <1>2, <2>1
<1>5. 1 * Total(Weighted(from), DeckRanks) <= 0 * Total(from, DeckRanks)
  <2>1. 0 \in Int /\ 1 \in Int
    OBVIOUS
  <2> QED
    BY <1>1, <1>3, <1>4, <2>1, CardHasPoints, NoMoreThan
<1>6. Points(from) \in Int /\ Total(from, DeckRanks) \in Int
  BY <1>1, WeightsAreInt, CardHasPoints, TotalType
<1> QED
  BY <1>5, <1>6 DEF Points

LEMMA OneCardOut ==
    ASSUME NEW from \in [DeckRanks -> Int], NEW left \in [DeckRanks -> Int],
           NEW rank \in DeckRanks, left[rank] = from[rank] - 1,
           \A r \in DeckRanks : r # rank => left[r] = from[r]
    PROVE  Points(left) = Points(from) - HardPoints(rank)
<1>1. Weighted(from) \in [DeckRanks -> Int] /\ Weighted(left) \in [DeckRanks -> Int]
  BY WeightsAreInt
<1>2. \A r \in DeckRanks : r # rank => Weighted(left)[r] = Weighted(from)[r]
  BY DEF Weighted
<1>3. Points(left) = Points(from) + (Weighted(left)[rank] - Weighted(from)[rank])
  BY <1>1, <1>2, CardHasPoints, OneTermChanges DEF Points
<1>4. Weighted(left)[rank] = Weighted(from)[rank] - HardPoints(rank)
  <2>1. \A a, h \in Int : (a - 1) * h = a * h - h
    OBVIOUS
  <2>2. from[rank] \in Int /\ HardPoints(rank) \in Int
    BY CardHasPoints
  <2>3. /\ Weighted(left)[rank] = (from[rank] - 1) * HardPoints(rank)
        /\ Weighted(from)[rank] = from[rank] * HardPoints(rank)
    BY DEF Weighted
  <2> QED
    BY <2>1, <2>2, <2>3
<1>5. /\ Points(from) \in Int /\ Weighted(from)[rank] \in Int /\ HardPoints(rank) \in Int
  BY <1>1, WeightsAreInt, CardHasPoints
<1>6. \A a, b, h \in Int : a + ((b - h) - b) = a - h
  OBVIOUS
<1> QED
  BY <1>3, <1>4, <1>5, <1>6

(* The shoe is short of the points of the cards dealt out of it.           *)
LEMMA PointsDealt ==
    ASSUME NEW from \in [DeckRanks -> Int], NEW D, IsFiniteSet(D), NEW cards \in [D -> DeckRanks]
    PROVE  /\ PointsOf(cards) \in [D -> Int]
           /\ Without(from, cards) \in [DeckRanks -> Int]
           /\ Points(Without(from, cards)) = Points(from) - Total(PointsOf(cards), D)
<1> DEFINE LeftBy(d) == [r \in DeckRanks |-> from[r] - Cardinality({i \in d : cards[i] = r})]
           f == PointsOf(cards)
<1>1. f \in [D -> Int] /\ \A i \in D : f[i] = HardPoints(cards[i])
  BY CardHasPoints DEF PointsOf
<1> HIDE DEF f
<1>2. PICK F \in [SUBSET D -> Int] : AddsUp(F, f, D) /\ Total(f, D) = F[D]
  BY <1>1, TotalByParts
<1>3. ASSUME NEW d \in SUBSET D, NEW r \in DeckRanks
      PROVE  /\ IsFiniteSet({i \in d : cards[i] = r})
             /\ Cardinality({i \in d : cards[i] = r}) \in Nat
             /\ LeftBy(d)[r] = from[r] - Cardinality({i \in d : cards[i] = r})
             /\ LeftBy(d)[r] \in Int
  <2>1. {i \in d : cards[i] = r} \in SUBSET D
    OBVIOUS
  <2>2. /\ IsFiniteSet({i \in d : cards[i] = r})
        /\ Cardinality({i \in d : cards[i] = r}) \in Nat
    BY <2>1, FS_Subset, FS_CardinalityType
  <2> QED
    BY <2>2
<1>4. ASSUME NEW d \in SUBSET D
      PROVE  LeftBy(d) \in [DeckRanks -> Int]
  BY <1>3
<1> DEFINE G == {d \in SUBSET D : Points(LeftBy(d)) = Points(from) - F[d]}
<1>5. {} \in G
  <2>1. \A r \in DeckRanks : LeftBy({})[r] = from[r]
    <3>1. \A r \in DeckRanks : {i \in {} : cards[i] = r} = {}
      OBVIOUS
    <3>2. Cardinality({}) = 0
      BY FS_EmptySet
    <3> QED
      BY <3>1, <3>2
  <2>2. LeftBy({}) = from
    BY <2>1
  <2>3. F[{}] = 0 /\ Points(from) \in Int
    BY <1>2, WeightsAreInt DEF AddsUp
  <2> HIDE DEF LeftBy
  <2> QED
    BY <2>2, <2>3
<1>6. ASSUME NEW d \in SUBSET D, NEW x \in D \ d, d \in G
      PROVE  d \cup {x} \in G
  <2>0. d \cup {x} \in SUBSET D /\ cards[x] \in DeckRanks
    OBVIOUS
  <2>1. ASSUME NEW r \in DeckRanks
        PROVE  LeftBy(d \cup {x})[r] = IF r = cards[x] THEN LeftBy(d)[r] - 1 ELSE LeftBy(d)[r]
    <3>1. CASE r = cards[x]
      <4>1. {i \in d \cup {x} : cards[i] = r} = {i \in d : cards[i] = r} \cup {x}
        BY <3>1
      <4>2. x \notin {i \in d : cards[i] = r}
        OBVIOUS
      <4>3. /\ IsFiniteSet({i \in d : cards[i] = r})
            /\ Cardinality({i \in d : cards[i] = r}) \in Nat
        BY <1>3
      <4>4. Cardinality({i \in d \cup {x} : cards[i] = r}) = Cardinality({i \in d : cards[i] = r}) + 1
        BY <4>1, <4>2, <4>3, FS_AddElement
      <4>5. /\ LeftBy(d \cup {x})[r] = from[r] - Cardinality({i \in d \cup {x} : cards[i] = r})
            /\ LeftBy(d)[r] = from[r] - Cardinality({i \in d : cards[i] = r})
            /\ from[r] \in Int
        BY <1>3, <2>0
      <4>6. \A a \in Int, n \in Nat : a - (n + 1) = (a - n) - 1
        OBVIOUS
      <4> HIDE DEF LeftBy
      <4> QED
        BY <3>1, <4>3, <4>4, <4>5, <4>6
    <3>2. CASE r # cards[x]
      <4>1. {i \in d \cup {x} : cards[i] = r} = {i \in d : cards[i] = r}
        BY <3>2
      <4> QED
        BY <3>2, <4>1
    <3> QED
      BY <3>1, <3>2
  <2>2. LeftBy(d) \in [DeckRanks -> Int] /\ LeftBy(d \cup {x}) \in [DeckRanks -> Int]
    BY <1>4, <2>0
  <2> HIDE DEF LeftBy
  <2>3. Points(LeftBy(d \cup {x})) = Points(LeftBy(d)) - HardPoints(cards[x])
    BY <2>0, <2>1, <2>2, OneCardOut
  <2>4. Points(LeftBy(d)) = Points(from) - F[d]
    BY <1>6
  <2>5. F[d \cup {x}] = HardPoints(cards[x]) + F[d]
    BY <1>1, <1>2 DEF AddsUp
  <2>6. Points(from) \in Int /\ F[d] \in Int /\ HardPoints(cards[x]) \in Int
    BY <2>0, WeightsAreInt, CardHasPoints
  <2>7. \A a, b, c \in Int : (a - b) - c = a - (c + b)
    OBVIOUS
  <2>8. Points(LeftBy(d \cup {x})) = Points(from) - F[d \cup {x}]
    BY <2>3, <2>4, <2>5, <2>6, <2>7
  <2> QED
    BY <2>0, <2>8
<1> HIDE DEF G
<1>7. D \in G
  BY <1>5, <1>6, PartByPart
<1>8. LeftBy(D) = Without(from, cards)
  BY DEF Without
<1>9. D \in SUBSET D
  OBVIOUS
<1>10. Without(from, cards) \in [DeckRanks -> Int]
  BY <1>4, <1>8, <1>9
<1> HIDE DEF LeftBy
<1>11. Points(Without(from, cards)) = Points(from) - Total(f, D)
  BY <1>2, <1>7, <1>8 DEF G
<1> QED
  BY <1>1, <1>10, <1>11 DEF f

LEMMA OneCardDealt ==
    ASSUME NEW from \in ShoeType, NEW rank \in DeckRanks
    PROVE  Points(Without(from, <<rank>>)) = Points(from) - HardPoints(rank)
<1>1. from \in [DeckRanks -> Int]
  BY CardsAreRanks DEF ShoeType
<1>2. IsFiniteSet({1}) /\ <<rank>> \in [{1} -> DeckRanks] /\ <<rank>>[1] = rank
  <2>1. <<rank>> \in [1 .. 1 -> DeckRanks] /\ 1 .. 1 = {1} /\ <<rank>>[1] = rank
    OBVIOUS
  <2>2. IsFiniteSet({1})
    BY FS_Singleton
  <2> QED
    BY <2>1, <2>2
<1>3. /\ PointsOf(<<rank>>) \in [{1} -> Int]
      /\ Points(Without(from, <<rank>>)) = Points(from) - Total(PointsOf(<<rank>>), {1})
  BY <1>1, <1>2, PointsDealt
<1>4. PICK F \in [SUBSET {1} -> Int] :
         AddsUp(F, PointsOf(<<rank>>), {1}) /\ Total(PointsOf(<<rank>>), {1}) = F[{1}]
  BY <1>2, <1>3, TotalByParts
<1>5. F[{1}] = PointsOf(<<rank>>)[1] + 0
  <2>1. {} \in SUBSET {1} /\ 1 \in {1} \ {} /\ {} \cup {1} = {1}
    OBVIOUS
  <2> QED
    BY <1>4, <2>1 DEF AddsUp
<1>6. PointsOf(<<rank>>)[1] = HardPoints(rank) /\ HardPoints(rank) \in Int
  BY <1>2, CardHasPoints DEF PointsOf
<1> QED
  BY <1>3, <1>4, <1>5, <1>6

PairPoints(pair) == HardPoints(pair[1]) + HardPoints(pair[2])

PairsPoints(pairs) == [p \in DOMAIN pairs |-> PairPoints(pairs[p])]

LEMMA PairIsTwoCards ==
    ASSUME NEW pair \in Pairs
    PROVE  /\ pair \in [{1, 2} -> DeckRanks]
           /\ pair = <<pair[1], pair[2]>>
           /\ pair[1] \in DeckRanks /\ pair[2] \in DeckRanks
           /\ PairPoints(pair) \in 0 .. 20
<1>1. PICK a \in DeckRanks, b \in DeckRanks : pair = <<a, b>>
  BY DEF Pairs
<1>2. /\ pair \in [1 .. 2 -> DeckRanks] /\ 1 .. 2 = {1, 2}
      /\ pair[1] = a /\ pair[2] = b
  BY <1>1
<1>3. HardPoints(a) \in 1 .. 10 /\ HardPoints(b) \in 1 .. 10
  BY CardHasPoints
<1>4. PairPoints(pair) = HardPoints(a) + HardPoints(b)
  BY <1>2 DEF PairPoints
<1>5. PairPoints(pair) \in 0 .. 20
  BY <1>3, <1>4
<1> QED
  BY <1>1, <1>2, <1>5

LEMMA OnePairDealt ==
    ASSUME NEW from \in [DeckRanks -> Int], NEW pair \in Pairs
    PROVE  /\ Without(from, pair) \in [DeckRanks -> Int]
           /\ Points(Without(from, pair)) = Points(from) - PairPoints(pair)
<1>1. IsFiniteSet({1, 2})
  <2>1. 1 \in Int /\ 2 \in Int /\ 1 .. 2 = {1, 2}
    OBVIOUS
  <2> QED
    BY <2>1, FS_Interval
<1>2. pair \in [{1, 2} -> DeckRanks] /\ pair[1] \in DeckRanks /\ pair[2] \in DeckRanks
  BY PairIsTwoCards
<1>3. /\ PointsOf(pair) \in [{1, 2} -> Int]
      /\ Without(from, pair) \in [DeckRanks -> Int]
      /\ Points(Without(from, pair)) = Points(from) - Total(PointsOf(pair), {1, 2})
  BY <1>1, <1>2, PointsDealt
<1>4. PICK F \in [SUBSET {1, 2} -> Int] :
         AddsUp(F, PointsOf(pair), {1, 2}) /\ Total(PointsOf(pair), {1, 2}) = F[{1, 2}]
  BY <1>1, <1>3, TotalByParts
<1>5. /\ F[{}] = 0
      /\ F[{1}] = PointsOf(pair)[1] + F[{}]
      /\ F[{1, 2}] = PointsOf(pair)[2] + F[{1}]
  <2>1. /\ {} \in SUBSET {1, 2} /\ 1 \in {1, 2} \ {} /\ {} \cup {1} = {1}
        /\ {1} \in SUBSET {1, 2} /\ 2 \in {1, 2} \ {1} /\ {1} \cup {2} = {1, 2}
    OBVIOUS
  <2> QED
    BY <1>4, <2>1 DEF AddsUp
<1>6. PointsOf(pair)[1] = HardPoints(pair[1]) /\ PointsOf(pair)[2] = HardPoints(pair[2])
  BY <1>2 DEF PointsOf
<1>7. HardPoints(pair[1]) \in Int /\ HardPoints(pair[2]) \in Int
  BY <1>2, CardHasPoints
<1>8. Total(PointsOf(pair), {1, 2}) = PairPoints(pair)
  BY <1>4, <1>5, <1>6, <1>7 DEF PairPoints
<1> QED
  BY <1>3, <1>8

\* The cards of all players' pairs, each by its player and place.
CardsOf(pairs) == [card \in (DOMAIN pairs) \X {1, 2} |-> pairs[card[1]][card[2]]]

LEMMA PairsAddUp ==
    ASSUME NEW ps, IsFiniteSet(ps), NEW pairs \in [ps -> Pairs]
    PROVE  /\ IsFiniteSet(ps \X {1, 2})
           /\ CardsOf(pairs) \in [ps \X {1, 2} -> DeckRanks]
           /\ PairsPoints(pairs) \in [ps -> Int]
           /\ Total(PointsOf(CardsOf(pairs)), ps \X {1, 2}) = Total(PairsPoints(pairs), ps)
<1> DEFINE D == ps \X {1, 2}
           f == PointsOf(CardsOf(pairs))
           w == PairsPoints(pairs)
<1>1. IsFiniteSet(D)
  <2>1. 1 \in Int /\ 2 \in Int /\ 1 .. 2 = {1, 2}
    OBVIOUS
  <2>2. IsFiniteSet({1, 2})
    BY <2>1, FS_Interval
  <2> QED
    BY <2>2, FS_Product
<1>2. ASSUME NEW p \in ps, NEW i \in {1, 2}
      PROVE  /\ <<p, i>> \in D
             /\ CardsOf(pairs)[<<p, i>>] = pairs[p][i]
             /\ pairs[p][i] \in DeckRanks
  BY PairIsTwoCards DEF CardsOf
<1>3. CardsOf(pairs) \in [D -> DeckRanks]
  <2>1. ASSUME NEW card \in D
        PROVE  pairs[card[1]][card[2]] \in DeckRanks
    BY <1>2
  <2> QED
    BY <2>1 DEF CardsOf
<1>4. f \in [D -> Int] /\ \A card \in D : f[card] = HardPoints(CardsOf(pairs)[card])
  BY <1>3, CardHasPoints DEF PointsOf
<1>5. w \in [ps -> Int] /\ \A p \in ps : w[p] = PairPoints(pairs[p])
  BY PairIsTwoCards DEF PairsPoints
<1> HIDE DEF f, w, D
<1>6. PICK F \in [SUBSET D -> Int] : AddsUp(F, f, D) /\ Total(f, D) = F[D]
  BY <1>1, <1>4, TotalByParts
<1>7. PICK W \in [SUBSET ps -> Int] : AddsUp(W, w, ps) /\ Total(w, ps) = W[ps]
  BY <1>5, TotalByParts
<1> DEFINE G == {q \in SUBSET ps : F[q \X {1, 2}] = W[q]}
<1>8. {} \in G
  <2>1. F[{}] = 0 /\ W[{}] = 0
    BY <1>6, <1>7 DEF AddsUp
  <2>2. {} \X {1, 2} = {} /\ {} \in SUBSET ps
    OBVIOUS
  <2> QED
    BY <2>1, <2>2
<1>9. ASSUME NEW q \in SUBSET ps, NEW p \in ps \ q, q \in G
      PROVE  q \cup {p} \in G
  <2>1. PICK c \in SUBSET D : c = q \X {1, 2}
    BY DEF D
  <2>2. PICK d \in SUBSET D : d = c \cup {<<p, 1>>}
    BY <1>2
  <2>3. /\ <<p, 1>> \in D \ c
        /\ <<p, 2>> \in D \ d
        /\ d \cup {<<p, 2>>} = (q \cup {p}) \X {1, 2}
    <3>1. <<p, 1>> \in D /\ <<p, 2>> \in D
      BY <1>2
    <3>2. <<p, 1>> \notin c /\ <<p, 2>> \notin c /\ <<p, 1>> # <<p, 2>>
      BY <2>1
    <3>3. (q \cup {p}) \X {1, 2} = (q \X {1, 2}) \cup {<<p, 1>>, <<p, 2>>}
      OBVIOUS
    <3> QED
      BY <2>1, <2>2, <3>1, <3>2, <3>3
  <2>4. F[d] = f[<<p, 1>>] + F[c] /\ F[d \cup {<<p, 2>>}] = f[<<p, 2>>] + F[d]
    BY <1>6, <2>2, <2>3 DEF AddsUp
  <2>5. W[q \cup {p}] = w[p] + W[q]
    BY <1>7 DEF AddsUp
  <2>6. /\ f[<<p, 1>>] = HardPoints(pairs[p][1]) /\ f[<<p, 2>>] = HardPoints(pairs[p][2])
        /\ w[p] = HardPoints(pairs[p][1]) + HardPoints(pairs[p][2])
    BY <1>2, <1>4, <1>5 DEF PairPoints
  <2>7. /\ HardPoints(pairs[p][1]) \in Int /\ HardPoints(pairs[p][2]) \in Int
        /\ F[c] \in Int /\ F[c] = W[q]
    <3>1. \A rank \in DeckRanks : HardPoints(rank) \in Int
      BY CardHasPoints
    <3>2. pairs[p][1] \in DeckRanks /\ pairs[p][2] \in DeckRanks
      BY <1>2
    <3>3. F[c] = W[q]
      BY <1>9, <2>1
    <3> QED
      BY <3>1, <3>2, <3>3
  <2>8. F[d \cup {<<p, 2>>}] = W[q \cup {p}]
    BY <2>4, <2>5, <2>6, <2>7
  <2> QED
    BY <2>3, <2>8
<1> HIDE DEF G
<1>10. ps \in G
  BY <1>8, <1>9, PartByPart
<1>11. Total(f, D) = Total(w, ps)
  BY <1>6, <1>7, <1>10 DEF G, D
<1> QED
  BY <1>1, <1>3, <1>5, <1>11 DEF D, f, w

(* What startHitStandPhase leaves in the new shoe.                         *)
LEMMA PointsAfterDealing ==
    ASSUME NEW ps, IsFiniteSet(ps), NEW dealersPair \in Pairs, NEW pairs \in [ps -> Pairs]
    PROVE  nbOfCopies * Total(Deck, DeckRanks)
               <= Points(ShoeAfterDealing(dealersPair, pairs)) + PairPoints(dealersPair)
                     + Total(PairsPoints(pairs), ps)
<1> DEFINE first == Without(FreshShoe, dealersPair)
<1>1. /\ FreshShoe \in [DeckRanks -> Int]
      /\ nbOfCopies * Total(Deck, DeckRanks) <= Points(FreshShoe)
  BY FreshPoints
<1>2. first \in [DeckRanks -> Int] /\ Points(first) = Points(FreshShoe) - PairPoints(dealersPair)
  BY <1>1, OnePairDealt
<1> HIDE DEF first
<1>3. /\ IsFiniteSet(ps \X {1, 2})
      /\ CardsOf(pairs) \in [ps \X {1, 2} -> DeckRanks]
      /\ PairsPoints(pairs) \in [ps -> Int]
      /\ Total(PointsOf(CardsOf(pairs)), ps \X {1, 2}) = Total(PairsPoints(pairs), ps)
  BY PairsAddUp
<1>4. Points(Without(first, CardsOf(pairs))) = Points(first) - Total(PairsPoints(pairs), ps)
  BY <1>2, <1>3, PointsDealt
<1>5. ShoeAfterDealing(dealersPair, pairs) = Without(first, CardsOf(pairs))
  BY DEF ShoeAfterDealing, CardsOf, first
<1>6. /\ nbOfCopies * Total(Deck, DeckRanks) \in Int
      /\ Points(FreshShoe) \in Int
      /\ PairPoints(dealersPair) \in Int
      /\ Total(PairsPoints(pairs), ps) \in Int
  <2>1. Total(Deck, DeckRanks) \in Int /\ nbOfCopies \in Int
    BY DeckPoints, CardHasPoints, TotalType, CardsAreRanks
  <2>2. \A a, b \in Int : a * b \in Int
    OBVIOUS
  <2>3. Points(FreshShoe) \in Int /\ Total(PairsPoints(pairs), ps) \in Int
    BY <1>1, <1>3, WeightsAreInt, TotalType
  <2>4. PairPoints(dealersPair) \in Int
    BY PairIsTwoCards
  <2> QED
    BY <2>1, <2>2, <2>3, <2>4
<1>7. \A n, a, d, t \in Int : n <= a => n <= ((a - d) - t) + d + t
  OBVIOUS
<1> HIDE DEF first
<1>8. Points(ShoeAfterDealing(dealersPair, pairs))
          = (Points(FreshShoe) - PairPoints(dealersPair)) - Total(PairsPoints(pairs), ps)
  BY <1>2, <1>4, <1>5
<1> QED
  BY <1>1, <1>6, <1>7, <1>8

LEMMA OneMoreCardLow ==
    ASSUME NEW cards \in Seq(Rank), NEW rank \in Rank
    PROVE  Low(Append(cards, rank)) = Low(cards) + HardPoints(rank)
<1> DEFINE n == Len(cards)
           longer == Append(cards, rank)
<1>1. /\ n \in Nat /\ Len(longer) = n + 1
      /\ longer \in Seq(Rank)
      /\ \A i \in 1 .. n : longer[i] = cards[i]
      /\ longer[n + 1] = rank
  OBVIOUS
<1>2. PICK t \in [0 .. n -> Int] :
              /\ t[0] = 0
              /\ \A i \in 1 .. n : t[i] = AddLow(t[i - 1], cards[i])
              /\ t[n] = Low(cards)
  BY LowTotalStepByStep DEF Low
<1> HIDE DEF n, longer
<1>3. PICK u \in [0 .. n + 1 -> Int] :
              /\ u[0] = 0
              /\ \A i \in 1 .. n + 1 : u[i] = AddLow(u[i - 1], longer[i])
              /\ u[n + 1] = Low(longer)
  <2>1. PICK u \in [0 .. Len(longer) -> Int] :
              /\ u[0] = 0
              /\ \A i \in 1 .. Len(longer) : u[i] = AddLow(u[i - 1], longer[i])
              /\ u[Len(longer)] = FoldLeft(AddLow, 0, longer)
    BY <1>1, LowTotalStepByStep
  <2> QED
    BY <1>1, <2>1 DEF Low
<1>4. t[n] = u[n]
  <2> DEFINE G == {i \in 0 .. n : t[i] = u[i]}
  <2>1. 0 \in G
    BY <1>1, <1>2, <1>3
  <2>2. ASSUME NEW i \in 1 .. n, i - 1 \in G
        PROVE  i \in G
    <3>1. i \in 1 .. n + 1 /\ i \in 0 .. n
      BY <1>1
    <3>2. t[i] = AddLow(t[i - 1], cards[i]) /\ u[i] = AddLow(u[i - 1], cards[i])
      BY <1>1, <1>2, <1>3, <3>1
    <3> QED
      BY <2>2, <3>1, <3>2
  <2> HIDE DEF G
  <2>3. 0 .. n \subseteq G
    BY <1>1, <2>1, <2>2, InductionUpTo
  <2>4. n \in G
    BY <1>1, <2>3
  <2> QED
    BY <2>4 DEF G
<1>5. u[n + 1] = AddLow(u[n], rank)
  <2>1. n + 1 \in 1 .. n + 1 /\ (n + 1) - 1 = n
    BY <1>1
  <2> QED
    BY <1>1, <1>3, <2>1
<1> QED
  BY <1>2, <1>3, <1>4, <1>5 DEF AddLow, longer

LEMMA LowOfHand ==
    ASSUME NEW cards \in Seq(DeckRanks)
    PROVE  /\ Low(cards) \in Nat
           /\ CardsBusted(cards) <=> Low(cards) > 21
           /\ BelowLimit(cards) => Low(cards) < 17
<1>1. cards \in Seq(Rank)
  BY CardsAreRanks
<1>2. Low(cards) \in Nat /\ (CardsBusted(cards) <=> Low(cards) > 21)
  BY <1>1, BustedByLowTotal DEF Low
<1>3. Low(cards) = Tally(cards).hard
  BY <1>1, PassesAgree DEF Low
<1>4. GetHandPoints(cards, TRUE) \in {Low(cards), Low(cards) + 10}
  <2>1. GetHandPoints(cards, TRUE) = HandPoints(Tally(cards))
    BY <1>1, PointsFromTheTally
  <2> QED
    BY <1>3, <2>1 DEF HandPoints
<1>5. BelowLimit(cards) => Low(cards) < 17
  <2>1. BelowLimit(cards) <=> GetHandPoints(cards, TRUE) < 17
    BY DEF BelowLimit, dealerPointsLimit
  <2>2. \A n \in Nat : \A m \in {n, n + 10} : m < 17 => n < 17
    OBVIOUS
  <2> QED
    BY <1>2, <1>4, <2>1, <2>2
<1> QED
  BY <1>2, <1>5

LEMMA OneMoreInTheHand ==
    ASSUME NEW cards \in Seq(DeckRanks), NEW rank \in DeckRanks
    PROVE  /\ Append(cards, rank) \in Seq(DeckRanks)
           /\ Low(Append(cards, rank)) = Low(cards) + HardPoints(rank)
<1>1. cards \in Seq(Rank) /\ rank \in Rank
  BY CardsAreRanks
<1> QED
  BY <1>1, OneMoreCardLow

LEMMA PairInTheHand ==
    ASSUME NEW cards \in Seq(DeckRanks), NEW pair \in Pairs
    PROVE  /\ cards \o pair \in Seq(DeckRanks)
           /\ Low(cards \o pair) = Low(cards) + PairPoints(pair)
<1>1. PICK a \in DeckRanks, b \in DeckRanks : pair = <<a, b>>
  BY DEF Pairs
<1>2. pair[1] = a /\ pair[2] = b
  BY <1>1
<1>3. cards \o pair = Append(Append(cards, a), b)
  BY <1>1
<1>4. /\ Append(cards, a) \in Seq(DeckRanks)
      /\ Low(Append(cards, a)) = Low(cards) + HardPoints(a)
  BY OneMoreInTheHand
<1>5. /\ Append(Append(cards, a), b) \in Seq(DeckRanks)
      /\ Low(Append(Append(cards, a), b)) = Low(Append(cards, a)) + HardPoints(b)
  BY <1>4, OneMoreInTheHand
<1>6. Low(cards) \in Int /\ HardPoints(a) \in Int /\ HardPoints(b) \in Int
  BY LowOfHand, CardHasPoints
<1> QED
  BY <1>2, <1>3, <1>4, <1>5, <1>6 DEF PairPoints

LEMMA LowOfPair ==
    ASSUME NEW pair \in Pairs
    PROVE  pair \in Seq(DeckRanks) /\ Low(pair) = PairPoints(pair)
<1>1. pair \in Seq(DeckRanks)
  BY PairsAreCards
<1>2. <<>> \in Seq(DeckRanks) /\ <<>> \o pair = pair
  BY <1>1
<1>3. Low(<<>>) = 0
  <2>1. <<>> \in Seq(Rank) /\ Len(<<>>) = 0
    OBVIOUS
  <2>2. PICK t \in [0 .. Len(<<>>) -> Int] : t[0] = 0 /\ t[Len(<<>>)] = FoldLeft(AddLow, 0, <<>>)
    BY <2>1, LowTotalStepByStep
  <2> QED
    BY <2>1, <2>2 DEF Low
<1>4. Low(pair) = Low(<<>>) + PairPoints(pair)
  BY <1>2, PairInTheHand
<1>5. PairPoints(pair) \in Int
  BY PairIsTwoCards
<1> QED
  BY <1>1, <1>3, <1>4, <1>5

-----------------------------------------------------------------------------
(* The dealer draws until the limit or until the shoe is empty: every card *)
(* moves its points from the shoe to the hand, and there is one at least.  *)
LEMMA DrawingIsPaidFor ==
    ASSUME NEW table \in Table, NEW final \in AfterDrawing(table), BelowLimit(final.cards)
    PROVE  Points(table.shoe) + Low(table.cards) <= 16
<1> DEFINE Paid(t, n) ==
             /\ Points(t.shoe) + Low(t.cards) = Points(table.shoe) + Low(table.cards)
             /\ Available(t.shoe) = {} \/ ~BelowLimit(t.cards) \/ Low(t.cards) >= n
           K == [n \in 0 .. 17 |-> {t \in Table : Paid(t, n)}]
<1>1. ASSUME NEW t \in Table
      PROVE  /\ t.shoe \in ShoeType /\ t.cards \in Seq(DeckRanks)
             /\ Points(t.shoe) \in Int /\ Low(t.cards) \in Nat
  <2>1. t.shoe \in ShoeType /\ t.cards \in Seq(DeckRanks)
    BY DEF Table
  <2>2. t.shoe \in [DeckRanks -> Int]
    BY <2>1, CardsAreRanks DEF ShoeType
  <2> QED
    BY <2>1, <2>2, WeightsAreInt, LowOfHand
<1>2. table \in K[0]
  <2>1. Paid(table, 0)
    BY <1>1
  <2> QED
    BY <2>1
<1>3. ASSUME NEW n \in 1 .. 17, NEW t \in K[n - 1], NEW next \in DrawOneCard(t)
      PROVE  next \in K[n]
  <2>1. t \in Table /\ Paid(t, n - 1) /\ n \in 0 .. 17 /\ n - 1 \in 0 .. 17
    OBVIOUS
  <2>2. next \in Table
    BY <2>1, OneMoreTurn
  <2>3. CASE BelowLimit(t.cards) /\ Available(t.shoe) # {}
    <3>1. PICK rank \in Available(t.shoe) :
             next = [cards |-> Append(t.cards, rank), shoe |-> Without(t.shoe, <<rank>>)]
      BY <2>3 DEF DrawOneCard
    <3>2. rank \in DeckRanks
      BY DEF Available
    <3>3. Points(next.shoe) = Points(t.shoe) - HardPoints(rank)
      BY <1>1, <2>1, <3>1, <3>2, OneCardDealt
    <3>4. Low(next.cards) = Low(t.cards) + HardPoints(rank)
      BY <1>1, <2>1, <3>1, <3>2, OneMoreInTheHand
    <3>5. Low(t.cards) >= n - 1
      BY <2>1, <2>3
    <3>6. HardPoints(rank) \in Int /\ HardPoints(rank) >= 1
      BY <3>2, CardHasPoints
    <3>7. Points(t.shoe) \in Int /\ Low(t.cards) \in Int
      BY <1>1, <2>1
    <3>8. \A a, l, h \in Int : (a - h) + (l + h) = a + l
      OBVIOUS
    <3>9. Points(next.shoe) + Low(next.cards) = Points(table.shoe) + Low(table.cards)
      BY <2>1, <3>3, <3>4, <3>6, <3>7, <3>8
    <3>10. Low(next.cards) >= n
      BY <3>4, <3>5, <3>6, <3>7
    <3> QED
      BY <2>1, <2>2, <3>9, <3>10
  <2>4. CASE ~(BelowLimit(t.cards) /\ Available(t.shoe) # {})
    <3>1. next = t
      BY <2>4 DEF DrawOneCard
    <3>2. Paid(t, n)
      BY <2>1, <2>4
    <3> QED
      BY <2>1, <3>1, <3>2
  <2> QED
    BY <2>3, <2>4
<1>4. K \in [0 .. 17 -> SUBSET Table]
  OBVIOUS
<1>5. \A t \in K[17] : t \in Table /\ Paid(t, 17)
  OBVIOUS
<1> HIDE DEF K, Paid
<1>6. AfterDrawing(table) \subseteq K[17]
  BY <1>2, <1>3, <1>4, DrawingByTurns
<1>7. final \in Table /\ Paid(final, 17)
  BY <1>5, <1>6
<1>8. Low(final.cards) < 17
  BY <1>1, <1>7, LowOfHand
<1>9. Available(final.shoe) = {}
  BY <1>1, <1>7, <1>8 DEF Paid
<1>10. Points(final.shoe) <= 0
  BY <1>1, <1>7, <1>9, EmptyShoe
<1>11. Points(final.shoe) + Low(final.cards) = Points(table.shoe) + Low(table.cards)
  BY <1>7 DEF Paid
<1>12. Points(final.shoe) \in Int /\ Low(final.cards) \in Nat
  BY <1>1, <1>7
<1> QED
  BY <1>8, <1>10, <1>11, <1>12

-----------------------------------------------------------------------------
(* The points of a new shoe are those left in it, the dealer's, and those  *)
(* dealt to the players since.  taken counts the latter per player: a hand *)
(* keeps its cards when leaveGame starts the phase again with a new shoe,  *)
(* so the hand itself may be worth more.                                   *)
Worth == nbOfCopies * MapThenSumSet(HardPoints, DeckRanks)

Covered(from, cards, taken, ps) ==
    /\ taken \in [ps -> Int]
    /\ \A p \in ps : taken[p] <= 31
    /\ Worth <= Points(from) + Low(cards) + Total(taken, ps)

TakenBy(taken, hs, stand) ==
    \A p \in DOMAIN hs :
        /\ taken[p] <= Low(hs[p])
        /\ p \notin stand => taken[p] <= 21

NeededMore(ps) == Worth < 31 * Cardinality(ps) + 26

Accounted ==
    /\ phase = "terminated" => NeededMore(DOMAIN hands)
    /\ phase = "HitStandPhase" =>
          /\ Low(dealersHand) <= 20
          /\ \E taken \in [DOMAIN hands -> Int] :
                /\ Covered(shoe, dealersHand, taken, DOMAIN hands)
                /\ TakenBy(taken, hands, standing)

LEMMA WorthIsInt == Worth \in Int /\ Worth = nbOfCopies * Total(Deck, DeckRanks)
<1>1. Total(Deck, DeckRanks) \in Int /\ nbOfCopies \in Int
  BY DeckPoints, CardHasPoints, TotalType, CardsAreRanks
<1>2. \A a, b \in Int : a * b \in Int
  OBVIOUS
<1> QED
  BY <1>1, <1>2, DeckPoints DEF Worth

LEMMA TakenIsBounded ==
    ASSUME NEW ps, IsFiniteSet(ps), NEW taken \in [ps -> Int], \A p \in ps : taken[p] <= 31
    PROVE  /\ Total(taken, ps) \in Int /\ Cardinality(ps) \in Nat
           /\ Total(taken, ps) <= 31 * Cardinality(ps)
<1> DEFINE ones == [p \in ps |-> 1]
<1>1. ones \in [ps -> Int] /\ \A p \in ps : ones[p] = 1
  OBVIOUS
<1>2. Total(ones, ps) = Cardinality(ps)
  BY TotalOfOnes
<1> HIDE DEF ones
<1>3. \A p \in ps : 1 * taken[p] <= 31 * ones[p]
  BY <1>1
<1>4. 1 \in Int /\ 31 \in Int
  OBVIOUS
<1>5. 1 * Total(taken, ps) <= 31 * Total(ones, ps)
  BY <1>1, <1>3, <1>4, NoMoreThan
<1>6. Total(taken, ps) \in Int /\ Cardinality(ps) \in Nat
  BY TotalType, FS_CardinalityType
<1> QED
  BY <1>2, <1>5, <1>6

LEMMA CoveredIsEnough ==
    ASSUME NEW ps, IsFiniteSet(ps), NEW from \in ShoeType, NEW cards \in Seq(DeckRanks),
           NEW taken, Covered(from, cards, taken, ps), Points(from) + Low(cards) <= 20
    PROVE  NeededMore(ps)
<1>1. Worth <= Points(from) + Low(cards) + Total(taken, ps)
  BY DEF Covered
<1>2. /\ Total(taken, ps) \in Int /\ Cardinality(ps) \in Nat
      /\ Total(taken, ps) <= 31 * Cardinality(ps)
  BY TakenIsBounded DEF Covered
<1>3. Points(from) \in Int /\ Low(cards) \in Int
  <2>1. from \in [DeckRanks -> Int]
    BY CardsAreRanks DEF ShoeType
  <2> QED
    BY <2>1, WeightsAreInt, LowOfHand
<1>4. Worth \in Int
  BY WorthIsInt
<1> QED
  BY <1>1, <1>2, <1>3, <1>4 DEF NeededMore

LEMMA CashingIsAccounted ==
    ASSUME NEW hs, NEW stand, Seated(hs, stand), NEW table \in Table, NEW taken,
           Covered(table.shoe, table.cards, taken, DOMAIN hs),
           StartCashing(hs, stand, table)
    PROVE  Accounted'
<1>1. PICK final \in AfterDrawing(table) :
         IF BelowLimit(final.cards)
         THEN NotEnoughCards(hs, stand)
         ELSE phase' = "NotStarted"
  BY DEF StartCashing
<1>2. CASE BelowLimit(final.cards)
  <2>1. phase' = "terminated" /\ hands' = hs
    BY <1>1, <1>2 DEF NotEnoughCards
  <2>2. table.shoe \in ShoeType /\ table.cards \in Seq(DeckRanks) /\ IsFiniteSet(DOMAIN hs)
    BY DEF Table, Seated
  <2>3. Points(table.shoe) + Low(table.cards) <= 16
    BY <1>2, DrawingIsPaidFor
  <2>4. Points(table.shoe) + Low(table.cards) <= 20
    <3>1. table.shoe \in [DeckRanks -> Int]
      BY <2>2, CardsAreRanks DEF ShoeType
    <3>2. Points(table.shoe) \in Int /\ Low(table.cards) \in Int
      BY <2>2, <3>1, WeightsAreInt, LowOfHand
    <3> QED
      BY <2>3, <3>2
  <2>5. NeededMore(DOMAIN hs)
    BY <2>2, <2>4, CoveredIsEnough
  <2> QED
    BY <2>1, <2>5 DEF Accounted, NeededMore, Worth
<1>3. CASE ~BelowLimit(final.cards)
  BY <1>1, <1>3 DEF Accounted
<1> QED
  BY <1>2, <1>3

(* A new shoe: everybody has taken a pair out of it.                       *)
LEMMA DealingIsAccounted ==
    ASSUME NEW hs, NEW stand, Seated(hs, stand), StartHitStandPhase(hs, stand)
    PROVE  Accounted'
<1>0. IsFiniteSet(DOMAIN hs) /\ \A p \in DOMAIN hs : hs[p] \in Seq(DeckRanks)
  BY DEF Seated
<1>1. CASE CardsLeft(FreshShoe) < 2 + 2 * Cardinality(DOMAIN hs) /\ NotEnoughCards(hs, stand)
  <2>1. phase' = "terminated" /\ hands' = hs
    BY <1>1 DEF NotEnoughCards
  <2>2. Worth <= 10 * CardsLeft(FreshShoe) /\ Worth \in Int
    BY FreshPoints, WorthIsInt
  <2>3. Cardinality(DOMAIN hs) \in Nat /\ CardsLeft(FreshShoe) \in Int
    <3>1. CardsLeft(FreshShoe) = Total(FreshShoe, DeckRanks)
      BY DEF CardsLeft, Total
    <3> QED
      BY <1>0, <3>1, FS_CardinalityType, FreshPoints, CardHasPoints, TotalType
  <2>4. NeededMore(DOMAIN hs)
    BY <1>1, <2>2, <2>3 DEF NeededMore
  <2> QED
    BY <2>1, <2>4 DEF Accounted, NeededMore, Worth
<1>2. ASSUME NEW dealersPair \in Pairs, NEW pairs \in [DOMAIN hs -> Pairs],
             Holds(ShoeAfterDealing(dealersPair, pairs)),
             Deal(hs, stand, dealersPair, pairs)
      PROVE  Accounted'
  <2> DEFINE ps == DOMAIN hs
             dealt == WithPairs(hs, pairs)
             left == ShoeAfterDealing(dealersPair, pairs)
             taken == PairsPoints(pairs)
  <2>1. left \in ShoeType
    BY <1>0, <1>2, DealingLeavesAShoe
  <2>2. /\ dealersPair \in Seq(DeckRanks)
        /\ Low(dealersPair) = PairPoints(dealersPair)
        /\ Low(dealersPair) <= 20
    <3>1. \A n \in 0 .. 20 : n <= 20
      OBVIOUS
    <3> QED
      BY <3>1, LowOfPair, PairIsTwoCards
  <2>3. Seated(dealt, stand) /\ DOMAIN dealt = ps
    BY DealtOnTop DEF WithPairs
  <2>4. ASSUME NEW p \in ps
        PROVE  taken[p] \in 0 .. 20 /\ taken[p] <= Low(dealt[p])
    <3>1. taken[p] = PairPoints(pairs[p]) /\ PairPoints(pairs[p]) \in 0 .. 20
      BY PairIsTwoCards DEF PairsPoints
    <3>2. dealt[p] = hs[p] \o pairs[p]
      BY DEF WithPairs
    <3>3. Low(hs[p] \o pairs[p]) = Low(hs[p]) + PairPoints(pairs[p]) /\ Low(hs[p]) \in Nat
      BY <1>0, PairInTheHand, LowOfHand
    <3> QED
      BY <3>1, <3>2, <3>3
  <2>5. Worth <= Points(left) + Low(dealersPair) + Total(taken, ps)
    BY <1>0, <2>2, PointsAfterDealing, WorthIsInt
  <2>6. IF stand = DOMAIN hs
        THEN StartCashing(dealt, stand, [cards |-> dealersPair, shoe |-> left])
        ELSE /\ phase' = "HitStandPhase"
             /\ shoe' = left
             /\ dealersHand' = dealersPair
             /\ hands' = dealt
             /\ standing' = stand
    BY <1>2 DEF Deal, WithPairs
  <2>7. taken \in [ps -> Int]
    BY <1>0, PairsAddUp
  <2> HIDE DEF dealt, left, taken
  <2>8. \A p \in ps : taken[p] <= 31 /\ taken[p] <= 21
    BY <2>4
  <2>9. Covered(left, dealersPair, taken, ps)
    BY <2>5, <2>7, <2>8 DEF Covered
  <2>10. TakenBy(taken, dealt, stand)
    BY <2>3, <2>4, <2>8 DEF TakenBy
  <2>11. CASE stand = DOMAIN hs
    <3>1. PICK table \in Table : table = [cards |-> dealersPair, shoe |-> left]
      BY <2>1, <2>2 DEF Table
    <3>2. Covered(table.shoe, table.cards, taken, DOMAIN dealt)
      BY <2>3, <2>9, <3>1
    <3>3. StartCashing(dealt, stand, table)
      BY <2>6, <2>11, <3>1
    <3> QED
      BY <2>3, <3>2, <3>3, CashingIsAccounted
  <2>12. CASE stand # DOMAIN hs
    <3>1. /\ phase' = "HitStandPhase" /\ shoe' = left /\ dealersHand' = dealersPair
          /\ hands' = dealt /\ standing' = stand
      BY <2>6, <2>12
    <3>2. Low(dealersHand)' <= 20
      BY <2>2, <3>1 DEF Low
    <3>3. Covered(shoe, dealersHand, taken, DOMAIN hands)'
      BY <2>3, <2>9, <3>1
    <3>4. TakenBy(taken, hands, standing)'
      BY <2>10, <3>1
    <3>5. taken \in [DOMAIN hands -> Int]'
      BY <2>3, <2>7, <3>1
    <3> QED
      BY <3>1, <3>2, <3>3, <3>4, <3>5 DEF Accounted
  <2> QED
    BY <2>11, <2>12
<1> QED
  BY <1>1, <1>2 DEF StartHitStandPhase

-----------------------------------------------------------------------------
LEMMA StayingIsAccounted ==
    ASSUME IInv, phase = "HitStandPhase", NEW hs, NEW stand, Seated(hs, stand),
           NEW from \in ShoeType, Low(dealersHand) <= 20,
           NEW taken, Covered(from, dealersHand, taken, DOMAIN hs), TakenBy(taken, hs, stand),
           CashOnceAllStand(hs, stand, from)
    PROVE  Accounted'
<1>1. CASE stand = DOMAIN hs
  <2>1. PICK table \in Table : table = [cards |-> dealersHand, shoe |-> from]
    BY DEF Table, IInv
  <2>2. StartCashing(hs, stand, table)
    BY <1>1, <2>1 DEF CashOnceAllStand
  <2>3. Covered(table.shoe, table.cards, taken, DOMAIN hs)
    BY <2>1
  <2> QED
    BY <2>2, <2>3, CashingIsAccounted
<1>2. CASE stand # DOMAIN hs
  <2>1. /\ phase' = "HitStandPhase" /\ shoe' = from /\ dealersHand' = dealersHand
        /\ hands' = hs /\ standing' = stand
    BY <1>2 DEF CashOnceAllStand
  <2>2. Low(dealersHand)' <= 20
    BY <2>1 DEF Low
  <2>3. Covered(shoe, dealersHand, taken, DOMAIN hands)'
    BY <2>1
  <2>4. TakenBy(taken, hands, standing)'
    BY <2>1
  <2>5. (taken \in [DOMAIN hands -> Int])'
    BY <2>1 DEF Covered
  <2> QED
    BY <2>1, <2>2, <2>3, <2>4, <2>5 DEF Accounted
<1> QED
  BY <1>1, <1>2

LEMMA HitIsAccounted ==
    ASSUME IInv, Accounted, NEW p \in UNION Tables, HitRequest(p)
    PROVE  Accounted'
<1>1. /\ phase = "HitStandPhase"
      /\ p \in DOMAIN hands /\ p \notin standing
      /\ Seated(hands, standing)
      /\ IsFiniteSet(DOMAIN hands)
      /\ \A q \in DOMAIN hands : hands[q] \in Seq(DeckRanks)
      /\ shoe \in ShoeType
      /\ dealersHand \in Seq(DeckRanks)
  BY DEF HitRequest, CanAct, IInv, Seated
<1>2. /\ Low(dealersHand) <= 20 /\ Low(dealersHand) \in Nat
      /\ shoe \in [DeckRanks -> Int] /\ Points(shoe) \in Int
  BY <1>1, LowOfHand, WeightsAreInt, CardsAreRanks DEF Accounted, ShoeType
<1>3. PICK taken \in [DOMAIN hands -> Int] :
         /\ Covered(shoe, dealersHand, taken, DOMAIN hands)
         /\ TakenBy(taken, hands, standing)
  BY <1>1 DEF Accounted
<1>4. CASE Available(shoe) = {} /\ NotEnoughCards(hands, standing)
  <2>1. phase' = "terminated" /\ hands' = hands
    BY <1>4 DEF NotEnoughCards
  <2>2. Points(shoe) <= 0
    BY <1>1, <1>4, EmptyShoe
  <2>3. Points(shoe) + Low(dealersHand) <= 20
    BY <1>2, <2>2
  <2>4. NeededMore(DOMAIN hands)
    BY <1>1, <1>3, <2>3, CoveredIsEnough
  <2> QED
    BY <2>1, <2>4 DEF Accounted, NeededMore, Worth
<1>5. ASSUME NEW rank \in Available(shoe), ExecuteHit(p, rank)
      PROVE  Accounted'
  <2> DEFINE cards == Append(hands[p], rank)
             hs == [hands EXCEPT ![p] = cards]
             stand == IF MustStand(cards) THEN standing \cup {p} ELSE standing
             from == Without(shoe, <<rank>>)
             more == [taken EXCEPT ![p] = @ + HardPoints(rank)]
             ps == DOMAIN hands
  <2>1. rank \in DeckRanks /\ HardPoints(rank) \in 1 .. 10
    BY CardHasPoints DEF Available
  <2>2. cards \in Seq(DeckRanks) /\ Low(cards) = Low(hands[p]) + HardPoints(rank)
    BY <1>1, <2>1, OneMoreInTheHand
  <2>3. from \in ShoeType /\ Points(from) = Points(shoe) - HardPoints(rank)
    BY <1>1, <2>1, OneCardLess, OneCardDealt
  <2>4. CashOnceAllStand(hs, stand, from)
    BY <1>5 DEF ExecuteHit
  <2>5. p \notin stand => Low(cards) <= 21
    <3>1. p \notin stand => ~CardsBusted(cards)
      BY DEF MustStand
    <3>2. Low(cards) \in Nat /\ (CardsBusted(cards) <=> Low(cards) > 21)
      BY <2>2, LowOfHand
    <3> QED
      BY <3>1, <3>2
  <2>6. stand \subseteq DOMAIN hands /\ \A q \in ps : q \notin stand => q \notin standing
    BY <1>1 DEF Seated
  <2> HIDE DEF cards, from, stand
  <2>7. /\ DOMAIN hs = DOMAIN hands /\ hs \in [DOMAIN hands -> Seq(DeckRanks)]
        /\ hs[p] = cards /\ \A q \in DOMAIN hands : q # p => hs[q] = hands[q]
    BY <1>1, <2>2
  <2>8. /\ more \in [ps -> Int]
        /\ more[p] = taken[p] + HardPoints(rank)
        /\ \A q \in ps : q # p => more[q] = taken[q]
    BY <1>1, <2>1
  <2> HIDE DEF hs, more
  <2>9. Seated(hs, stand)
    BY <1>1, <2>6, <2>7 DEF Seated
  <2>10. /\ taken[p] <= 21 /\ taken[p] <= Low(hands[p])
         /\ taken[p] \in Int /\ Low(hands[p]) \in Nat
    BY <1>1, <1>3, LowOfHand DEF TakenBy
  <2>11. more[p] <= 31 /\ more[p] <= Low(cards)
    BY <2>1, <2>2, <2>8, <2>10
  <2>12. Covered(from, dealersHand, more, ps)
    <3>1. Total(more, ps) = Total(taken, ps) + (more[p] - taken[p])
      BY <1>1, <2>8, OneTermChanges
    <3>2. Total(taken, ps) \in Int
      BY <1>1, TotalType
    <3>3. Worth <= Points(shoe) + Low(dealersHand) + Total(taken, ps)
      BY <1>3 DEF Covered
    <3>4. Total(more, ps) = Total(taken, ps) + HardPoints(rank)
      BY <2>1, <2>8, <2>10, <3>1, <3>2
    <3>5. \A s, d, t, h \in Int : s + d + t = (s - h) + d + (t + h)
      OBVIOUS
    <3>6. Points(shoe) + Low(dealersHand) + Total(taken, ps)
              = Points(from) + Low(dealersHand) + Total(more, ps)
      BY <1>2, <2>1, <2>3, <3>2, <3>4, <3>5
    <3>7. \A q \in ps : more[q] <= 31
      BY <1>3, <2>8, <2>11 DEF Covered
    <3> QED
      BY <2>8, <3>3, <3>6, <3>7 DEF Covered
  <2>13. TakenBy(more, hs, stand)
    <3> SUFFICES ASSUME NEW q \in ps
                 PROVE  /\ more[q] <= Low(hs[q])
                        /\ q \notin stand => more[q] <= 21
      BY <2>7 DEF TakenBy
    <3>1. CASE q = p
      <4>1. more[p] \in Int /\ Low(cards) \in Nat
        BY <1>1, <2>2, <2>8, LowOfHand
      <4> QED
        BY <2>5, <2>7, <2>11, <3>1, <4>1
    <3>2. CASE q # p
      BY <1>3, <2>6, <2>7, <2>8, <3>2 DEF TakenBy
    <3> QED
      BY <3>1, <3>2
  <2>14. Covered(from, dealersHand, more, DOMAIN hs)
    BY <2>7, <2>12
  <2> QED
    BY <1>1, <1>2, <2>3, <2>4, <2>9, <2>13, <2>14, StayingIsAccounted
<1> QED
  BY <1>4, <1>5 DEF HitRequest

LEMMA StandIsAccounted ==
    ASSUME IInv, Accounted, NEW p \in UNION Tables, StandRequest(p)
    PROVE  Accounted'
<1>1. /\ phase = "HitStandPhase"
      /\ Seated(hands, standing \cup {p})
      /\ shoe \in ShoeType
      /\ CashOnceAllStand(hands, standing \cup {p}, shoe)
  BY DEF StandRequest, CanAct, IInv, Seated
<1>2. /\ Low(dealersHand) <= 20
      /\ \E taken \in [DOMAIN hands -> Int] :
            /\ Covered(shoe, dealersHand, taken, DOMAIN hands)
            /\ TakenBy(taken, hands, standing)
  BY <1>1 DEF Accounted
<1>3. PICK taken :
            /\ Covered(shoe, dealersHand, taken, DOMAIN hands)
            /\ TakenBy(taken, hands, standing)
  BY <1>2
<1>4. TakenBy(taken, hands, standing \cup {p})
  BY <1>3 DEF TakenBy
<1> QED
  BY <1>1, <1>2, <1>3, <1>4, StayingIsAccounted

LEMMA LeaveIsAccounted ==
    ASSUME IInv, NEW p \in UNION Tables, LeaveGame(p)
    PROVE  Accounted'
<1>1. CASE DOMAIN hands = {p}
  <2>1. phase' = "NotStarted"
    BY <1>1 DEF LeaveGame
  <2> QED
    BY <2>1 DEF Accounted
<1>2. CASE DOMAIN hands # {p}
  <2> DEFINE others == DOMAIN hands \ {p}
             hs == [q \in others |-> hands[q]]
  <2>1. StartHitStandPhase(hs, standing \ {p})
    BY <1>2 DEF LeaveGame
  <2>2. Seated(hands, standing)
    BY DEF IInv
  <2>3. IsFiniteSet(others)
    BY <2>2, FS_RemoveElement DEF Seated
  <2>4. Seated(hs, standing \ {p})
    BY <2>2, <2>3 DEF Seated
  <2> HIDE DEF hs
  <2> QED
    BY <2>1, <2>4, DealingIsAccounted
<1> QED
  BY <1>1, <1>2

LEMMA NextIsAccounted == IInv /\ Accounted /\ [Next]_vars => Accounted'
<1> SUFFICES ASSUME IInv, Accounted, [Next]_vars PROVE Accounted'
  OBVIOUS
<1>1. CASE UNCHANGED vars
  <2>1. /\ phase' = phase /\ shoe' = shoe /\ dealersHand' = dealersHand
        /\ hands' = hands /\ standing' = standing
    BY <1>1 DEF vars
  <2>2. CASE phase = "terminated"
    BY <2>1, <2>2 DEF Accounted, NeededMore, Worth
  <2>3. CASE phase = "HitStandPhase"
    <3>1. Low(dealersHand) <= 20
      BY <2>3 DEF Accounted
    <3>2. PICK taken \in [DOMAIN hands -> Int] :
             /\ Covered(shoe, dealersHand, taken, DOMAIN hands)
             /\ TakenBy(taken, hands, standing)
      BY <2>3 DEF Accounted
    <3>3. /\ Covered(shoe, dealersHand, taken, DOMAIN hands)'
          /\ TakenBy(taken, hands, standing)'
          /\ (taken \in [DOMAIN hands -> Int])'
      BY <2>1, <3>2
    <3>4. Low(dealersHand)' <= 20
      BY <2>1, <3>1 DEF Low
    <3> QED
      BY <2>1, <2>3, <3>3, <3>4 DEF Accounted
  <2>4. CASE phase \notin {"terminated", "HitStandPhase"}
    BY <2>1, <2>4 DEF Accounted
  <2> QED
    BY <2>2, <2>3, <2>4
<1>2. ASSUME NEW ps \in Tables, StartRound(ps)
      PROVE  Accounted'
  <2> DEFINE hs == [p \in ps |-> <<>>]
  <2>1. Seated(hs, {})
    <3>1. IsFiniteSet(ps)
      BY TablesAssumption
    <3>2. DOMAIN hs = ps /\ hs \in [ps -> Seq(DeckRanks)] /\ ps \subseteq UNION Tables
      OBVIOUS
    <3> QED
      BY <3>1, <3>2 DEF Seated
  <2>2. StartHitStandPhase(hs, {})
    BY <1>2 DEF StartRound
  <2> HIDE DEF hs
  <2> QED
    BY <2>1, <2>2, DealingIsAccounted
<1>3. ASSUME NEW p \in UNION Tables, HitRequest(p) \/ StandRequest(p) \/ LeaveGame(p)
      PROVE  Accounted'
  BY <1>3, HitIsAccounted, StandIsAccounted, LeaveIsAccounted
<1> QED
  BY <1>1, <1>2, <1>3 DEF Next

(* NotEnoughCards is never thrown, and the server never ends in a round,   *)
(* as long as a new shoe has 31 points for each player and 26 more: from   *)
(* whoever hits, stands and leaves, in any order, with any decks.          *)
THEOREM ShoeIsEnough == Spec => []ShoeLasts
<1>1. Init => Accounted
  BY DEF Init, Accounted
<1>2. IInv /\ [Next]_vars => IInv'
  BY NextKeepsIInv
<1>3. IInv /\ Accounted => ShoeLasts
  <2> SUFFICES ASSUME IInv, Accounted, phase = "terminated",
                      nbOfCopies * MapThenSumSet(HardPoints, DeckRanks)
                          >= 31 * Cardinality(DOMAIN hands) + 26
               PROVE  FALSE
    BY DEF ShoeLasts
  <2>1. Worth < 31 * Cardinality(DOMAIN hands) + 26
    BY DEF Accounted, NeededMore
  <2>2. Worth >= 31 * Cardinality(DOMAIN hands) + 26
    BY DEF Worth
  <2>3. Worth \in Int /\ Cardinality(DOMAIN hands) \in Nat
    BY WorthIsInt, FS_CardinalityType DEF IInv, Seated
  <2> QED
    BY <2>1, <2>2, <2>3
<1> QED
  BY <1>1, <1>2, <1>3, InitIInv, NextIsAccounted, PTL DEF Spec
=============================================================================
