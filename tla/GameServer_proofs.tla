-------------------------- MODULE GameServer_proofs --------------------------
(***************************************************************************)
(* Proofs about GameServer: its state invariants, for any set of sockets,  *)
(* any initial money, any bets, NaN among them, and any cards, and without *)
(* the bounds that model checking puts on money and hands.                 *)
(***************************************************************************)
EXTENDS GameServer, TLAPS

(* The inductive invariant is the conjunction of the invariants the runs   *)
(* check: none of them but TypeOK is inductive alone.  That the round      *)
(* awaits somebody after a player left needs his seat to be gone from both *)
(* maps; that the players stay solvent needs the ready users to be the     *)
(* players, so that cashing leaves nobody ready.                           *)
IInv ==
    /\ TypeOK
    /\ PlayersAreTheReadyUsers
    /\ RoundAwaitsSomeone
    /\ AwaitedUsersAreSolvent
    /\ NotANumberStaysInItsBet
    /\ CardsBelongToTheRound

(* The same, of the users and players a handler has made half way. *)
GoodUsers(us) == DOMAIN us \subseteq Socket /\ us \in [DOMAIN us -> User]

GoodPlayers(ps) == DOMAIN ps \subseteq Socket /\ ps \in [DOMAIN ps -> Player]

Seated(us, ps) ==
    /\ DOMAIN ps \subseteq DOMAIN us
    /\ \A s \in DOMAIN us : us[s].isReady <=> s \in DOMAIN ps

NaNStaysInBets(us, ps) ==
    \A s \in DOMAIN us : us[s].money = NaN <=> s \in DOMAIN ps /\ ps[s].bet = NaN

-----------------------------------------------------------------------------
LEMMA WithCardIsAHand ==
    ASSUME NEW hand \in Hand, NEW rank \in DealtRanks
    PROVE  /\ WithCard(hand, rank) \in Hand
           /\ WithCard(hand, rank).size = hand.size + 1
<1>1. rank \in Rank
  BY DealtRanksAssumption
<1>2. CardPoints[rank] \in Nat
  BY <1>1 DEF CardPoints, Rank, kAce, kTen
<1> QED
  BY <1>2 DEF WithCard, Hand

LEMMA TwoMoreCardsAreAHand ==
    ASSUME NEW hand \in Hand, NEW pair \in Pairs
    PROVE  /\ TwoMoreCards(hand, pair) \in Hand
           /\ TwoMoreCards(hand, pair).size = hand.size + 2
<1>1. pair[1] \in DealtRanks /\ pair[2] \in DealtRanks
  BY DEF Pairs
<1> DEFINE one == WithCard(hand, pair[1])
<1>2. one \in Hand /\ one.size = hand.size + 1
  BY <1>1, WithCardIsAHand
<1>3. WithCard(one, pair[2]) \in Hand /\ WithCard(one, pair[2]).size = one.size + 1
  BY <1>1, <1>2, WithCardIsAHand
<1>4. hand.size \in Nat
  BY DEF Hand
<1> QED
  BY <1>2, <1>3, <1>4 DEF TwoMoreCards

LEMMA NoCardsIsAHand == NoCards \in Hand /\ NoCards.size = 0
BY DEF NoCards, Hand

(* cash never takes money back: the worst income is the loss of the bet. *)
LEMMA ReceivedMoneyIsNatural ==
    ASSUME NEW player \in Player, ABetIsPlaced(player), NEW points
    PROVE  ReceivedMoney(player, points) \in Nat
<1>1. player.bet \in Nat /\ player.bet # NaN
  BY NaNAssumption DEF Player, ABetIsPlaced, Exceeds
<1> DEFINE halves == WinMultiplierHalves(player.cards, points)
           income == (player.bet * halves) \div 2
<1>2. halves \in {-2, 0, 2, 3}
  BY DEF WinMultiplierHalves
<1> HIDE DEF halves
<1>3. income \in Int /\ player.bet + income \in Nat
  <2>1. CASE halves = -2
    BY <1>1, <2>1
  <2>2. CASE halves = 0
    BY <1>1, <2>2
  <2>3. CASE halves = 2
    BY <1>1, <2>3
  <2>4. CASE halves = 3
    BY <1>1, <2>4
  <2> QED
    BY <1>2, <2>1, <2>2, <2>3, <2>4
<1>4. TimesHalves(player.bet, halves) = income
  BY <1>1 DEF TimesHalves
<1>5. income # NaN
  BY <1>3, NaNAssumption
<1> HIDE DEF income
<1>6. Plus(player.bet, TimesHalves(player.bet, halves)) = player.bet + income
  BY <1>1, <1>4, <1>5 DEF Plus
<1> QED
  BY <1>3, <1>6 DEF ReceivedMoney, halves

(* Money that is received is added to money that is a number. *)
LEMMA MoneyGrows ==
    ASSUME NEW money \in Money, money # NaN, NEW received \in Nat
    PROVE  Plus(money, received) \in Money /\ Plus(money, received) # NaN
<1>1. money \in Int /\ money >= -epsilon /\ received # NaN
  BY NaNAssumption DEF Money
<1>2. Plus(money, received) = money + received
  BY <1>1 DEF Plus
<1>3. money + received \in Int /\ money + received >= -epsilon
  BY <1>1, EpsilonAssumption
<1> QED
  BY <1>2, <1>3, NaNAssumption DEF Money

(* The users after cashing: the same users, none of the players ready. *)
LEMMA CashedUsers ==
    ASSUME NEW us, NEW ps, NEW points, GoodUsers(us), GoodPlayers(ps),
           NaNStaysInBets(us, ps), AllPlayersHavePlacedTheirBets(ps)
    PROVE  LET cashed == UnreadyAllPlayers(CashPlayers(us, ps, points), ps)
           IN  /\ GoodUsers(cashed)
               /\ DOMAIN cashed = DOMAIN us
               /\ \A s \in DOMAIN us :
                    /\ cashed[s].isReady <=> us[s].isReady /\ s \notin DOMAIN ps
                    /\ cashed[s].money # NaN
<1> DEFINE paid == CashPlayers(us, ps, points)
           cashed == UnreadyAllPlayers(paid, ps)
<1>1. DOMAIN paid = DOMAIN us /\ DOMAIN cashed = DOMAIN us
  BY DEF CashPlayers, UnreadyAllPlayers
<1>2. ASSUME NEW s \in DOMAIN us
      PROVE  /\ paid[s] \in User
             /\ paid[s].isReady = us[s].isReady
             /\ paid[s].money # NaN
  <2>1. us[s] \in User /\ us[s].money \in Money /\ us[s].money # NaN
    <3>1. us[s] \in User
      BY DEF GoodUsers
    <3>2. s \in DOMAIN ps => ps[s].bet # NaN
      BY DEF AllPlayersHavePlacedTheirBets, ABetIsPlaced, Exceeds
    <3> QED
      BY <3>1, <3>2 DEF NaNStaysInBets, User
  <2>2. CASE s \in DOMAIN ps
    <3>1. ReceivedMoney(ps[s], points) \in Nat
      BY <2>2, ReceivedMoneyIsNatural DEF GoodPlayers, AllPlayersHavePlacedTheirBets
    <3> DEFINE money == Plus(us[s].money, ReceivedMoney(ps[s], points))
    <3>2. money \in Money /\ money # NaN
      BY <2>1, <3>1, MoneyGrows
    <3>3. paid[s] = [us[s] EXCEPT !.money = money]
      BY <2>2 DEF CashPlayers
    <3> HIDE DEF money, paid
    <3> QED
      BY <2>1, <3>2, <3>3 DEF User
  <2>3. CASE s \notin DOMAIN ps
    BY <2>1, <2>3 DEF CashPlayers
  <2> QED
    BY <2>2, <2>3
<1>3. ASSUME NEW s \in DOMAIN us
      PROVE  /\ cashed[s] \in User
             /\ cashed[s].isReady <=> us[s].isReady /\ s \notin DOMAIN ps
             /\ cashed[s].money # NaN
  <2>1. paid[s] \in User /\ paid[s].isReady = us[s].isReady /\ paid[s].money # NaN
    BY <1>2
  <2> HIDE DEF paid
  <2>2. cashed[s] = IF s \in DOMAIN ps THEN [paid[s] EXCEPT !.isReady = FALSE] ELSE paid[s]
    BY <1>1 DEF UnreadyAllPlayers
  <2> HIDE DEF cashed
  <2>3. CASE s \in DOMAIN ps
    BY <2>1, <2>2, <2>3 DEF User
  <2>4. CASE s \notin DOMAIN ps
    BY <2>1, <2>2, <2>4 DEF User
  <2> QED
    BY <2>3, <2>4
<1>4. cashed = [s \in DOMAIN us |-> cashed[s]]
  BY <1>1 DEF UnreadyAllPlayers
<1>5. GoodUsers(cashed)
  <2> HIDE DEF cashed
  <2> QED
    BY <1>1, <1>3, <1>4 DEF GoodUsers
<1> QED
  BY <1>1, <1>3, <1>5
(* The two ways out of a phase, from users and players made half way. *)
LEMMA CashingKeepsIInv ==
    ASSUME NEW us, NEW ps, NEW hand,
           GoodUsers(us), GoodPlayers(ps), Seated(us, ps),
           NaNStaysInBets(us, ps), AllPlayersHavePlacedTheirBets(ps),
           StartCashing(us, ps, hand)
    PROVE  IInv'
<1>1. PICK final \in FinalDealersHands(hand) :
        /\ dealersHand' = final
        /\ users' = UnreadyAllPlayers(CashPlayers(us, ps, HandPoints(final)), ps)
        /\ EndGame
  BY DEF StartCashing
<1>2. final \in Hand
  BY DEF FinalDealersHands
<1>3. /\ GoodUsers(users')
      /\ DOMAIN users' = DOMAIN us
      /\ \A s \in DOMAIN us : /\ users'[s].isReady <=> us[s].isReady /\ s \notin DOMAIN ps
                              /\ users'[s].money # NaN
  BY <1>1, CashedUsers
<1>4. gameState' = "NotStarted" /\ players' = NoPlayers
  BY <1>1 DEF EndGame
<1>5. DOMAIN players' = {} /\ players' \in [DOMAIN players' -> Player]
  BY <1>4 DEF NoPlayers
<1>6. \A s \in DOMAIN users' : ~users'[s].isReady
  BY <1>3 DEF Seated
<1>7. TypeOK'
  BY <1>1, <1>2, <1>3, <1>4, <1>5 DEF TypeOK, GoodUsers, GameStates
<1>8. PlayersAreTheReadyUsers'
  BY <1>4, <1>5 DEF PlayersAreTheReadyUsers
<1>9. RoundAwaitsSomeone' /\ CardsBelongToTheRound'
  BY <1>4 DEF RoundAwaitsSomeone, CardsBelongToTheRound
<1>10. AwaitedUsersAreSolvent'
  BY <1>6 DEF AwaitedUsersAreSolvent
<1>11. NotANumberStaysInItsBet'
  BY <1>3, <1>5 DEF NotANumberStaysInItsBet
<1> QED
  BY <1>7, <1>8, <1>9, <1>10, <1>11 DEF IInv

LEMMA DealingKeepsIInv ==
    ASSUME NEW us, NEW ps,
           GoodUsers(us), GoodPlayers(ps), Seated(us, ps),
           NaNStaysInBets(us, ps), AllPlayersHavePlacedTheirBets(ps),
           StartHitStandPhase(us, ps)
    PROVE  IInv'
<1>1. PICK dealersPair \in Pairs, pairs \in [DOMAIN ps -> Pairs] :
        LET hand  == TwoMoreCards(NoCards, dealersPair)
            dealt == [s \in DOMAIN ps |->
                        [ps[s] EXCEPT !.cards = TwoMoreCards(@, pairs[s])]]
        IN  IF AllHandsAreStanding(dealt)
            THEN StartCashing(us, dealt, hand)
            ELSE /\ gameState' = "HitStandPhase"
                 /\ users' = us
                 /\ players' = dealt
                 /\ dealersHand' = hand
  BY DEF StartHitStandPhase
<1> DEFINE hand  == TwoMoreCards(NoCards, dealersPair)
           dealt == [s \in DOMAIN ps |->
                       [ps[s] EXCEPT !.cards = TwoMoreCards(@, pairs[s])]]
<1>2. hand \in Hand /\ hand.size = 2
  BY TwoMoreCardsAreAHand, NoCardsIsAHand
<1>3. DOMAIN dealt = DOMAIN ps
  OBVIOUS
<1>4. ASSUME NEW s \in DOMAIN ps
      PROVE  /\ dealt[s] \in Player
             /\ dealt[s].bet = ps[s].bet
             /\ dealt[s].cards.size >= 2
  <2>1. ps[s] \in Player /\ pairs[s] \in Pairs
    BY DEF GoodPlayers
  <2>2. ps[s].cards \in Hand /\ ps[s].cards.size \in Nat
    BY <2>1 DEF Player, Hand
  <2>3. /\ TwoMoreCards(ps[s].cards, pairs[s]) \in Hand
        /\ TwoMoreCards(ps[s].cards, pairs[s]).size = ps[s].cards.size + 2
    BY <2>1, <2>2, TwoMoreCardsAreAHand
  <2>4. dealt[s] = [ps[s] EXCEPT !.cards = TwoMoreCards(@, pairs[s])]
    OBVIOUS
  <2> HIDE DEF dealt
  <2> QED
    BY <2>1, <2>2, <2>3, <2>4 DEF Player
<1>5. GoodPlayers(dealt)
  <2>1. dealt \in [DOMAIN dealt -> Player]
    BY <1>3, <1>4
  <2> QED
    BY <1>3, <2>1 DEF GoodPlayers
<1>6. Seated(us, dealt) /\ NaNStaysInBets(us, dealt) /\ AllPlayersHavePlacedTheirBets(dealt)
  BY <1>3, <1>4
     DEF Seated, NaNStaysInBets, AllPlayersHavePlacedTheirBets, ABetIsPlaced
<1> HIDE DEF hand, dealt
<1>7. CASE AllHandsAreStanding(dealt)
  <2>1. StartCashing(us, dealt, hand)
    BY <1>1, <1>7 DEF hand, dealt
  <2> QED
    BY <1>5, <1>6, <2>1, CashingKeepsIInv
<1>8. CASE ~AllHandsAreStanding(dealt)
  <2>1. /\ gameState' = "HitStandPhase"
        /\ users' = us
        /\ players' = dealt
        /\ dealersHand' = hand
    BY <1>1, <1>8 DEF hand, dealt
  <2>2. PICK t \in DOMAIN dealt : dealt[t].state = "Sitting"
    BY <1>5, <1>8 DEF AllHandsAreStanding, GoodPlayers, Player
  <2>3. TypeOK'
    BY <1>2, <1>5, <2>1 DEF TypeOK, GoodUsers, GoodPlayers, GameStates
  <2>4. PlayersAreTheReadyUsers'
    BY <1>6, <2>1, <2>2 DEF PlayersAreTheReadyUsers, Seated
  <2>5. RoundAwaitsSomeone'
    BY <1>6, <2>1, <2>2 DEF RoundAwaitsSomeone, AllPlayersHavePlacedTheirBets
  <2>6. AwaitedUsersAreSolvent'
    <3>1. \A s \in DOMAIN users' : users'[s].isReady => s \in DOMAIN players'
      BY <1>6, <2>1 DEF Seated
    <3>2. \A s \in DOMAIN players' : ABetIsPlaced(players'[s])
      BY <1>6, <2>1 DEF AllPlayersHavePlacedTheirBets
    <3> QED
      BY <3>1, <3>2 DEF AwaitedUsersAreSolvent
  <2>7. CardsBelongToTheRound'
    BY <1>2, <1>3, <1>4, <2>1 DEF CardsBelongToTheRound
  <2>8. NotANumberStaysInItsBet'
    BY <1>6, <2>1 DEF NotANumberStaysInItsBet, NaNStaysInBets
  <2> QED
    BY <2>3, <2>4, <2>5, <2>6, <2>7, <2>8 DEF IInv
<1> QED
  BY <1>7, <1>8
(* The tail of hitRequest and standRequest. *)
LEMMA PlayingOnKeepsIInv ==
    ASSUME NEW ps,
           IInv, gameState = "HitStandPhase",
           GoodPlayers(ps), DOMAIN ps = DOMAIN players,
           \A s \in DOMAIN ps : ps[s].bet = players[s].bet /\ ps[s].cards.size >= 2,
           CashOnceAllStand(ps)
    PROVE  IInv'
<1>1. GoodUsers(users) /\ Seated(users, ps)
  BY DEF IInv, TypeOK, PlayersAreTheReadyUsers, GoodUsers, Seated
<1>0. NaNStaysInBets(users, ps) /\ AllPlayersHavePlacedTheirBets(ps)
  BY DEF IInv, NotANumberStaysInItsBet, RoundAwaitsSomeone, NaNStaysInBets,
     AllPlayersHavePlacedTheirBets, ABetIsPlaced
<1>2. CASE AllHandsAreStanding(ps)
  <2>1. StartCashing(users, ps, dealersHand)
    BY <1>2 DEF CashOnceAllStand
  <2> QED
    BY <1>0, <1>1, <2>1, CashingKeepsIInv
<1>3. CASE ~AllHandsAreStanding(ps)
  <2>1. players' = ps /\ UNCHANGED <<users, gameState, dealersHand>>
    BY <1>3 DEF CashOnceAllStand
  <2>2. TypeOK' /\ PlayersAreTheReadyUsers'
    BY <2>1 DEF IInv, TypeOK, PlayersAreTheReadyUsers, GoodPlayers
  <2>3. PICK t \in DOMAIN ps : ps[t].state = "Sitting"
    BY <1>3 DEF AllHandsAreStanding, GoodPlayers, Player
  <2>4. RoundAwaitsSomeone'
    BY <1>0, <2>1, <2>3 DEF RoundAwaitsSomeone
  <2>5. AwaitedUsersAreSolvent'
    BY <2>1 DEF IInv, AwaitedUsersAreSolvent, ABetIsPlaced
  <2>6. CardsBelongToTheRound'
    BY <2>1 DEF IInv, CardsBelongToTheRound
  <2>7. NotANumberStaysInItsBet'
    BY <1>0, <2>1 DEF NotANumberStaysInItsBet, NaNStaysInBets
  <2> QED
    BY <2>2, <2>4, <2>5, <2>6, <2>7 DEF IInv
<1> QED
  BY <1>2, <1>3

-----------------------------------------------------------------------------
(* One lemma per handler. *)
LEMMA ClientJoinKeepsIInv ==
    ASSUME IInv, NEW c \in Socket, ClientJoin(c)
    PROVE  IInv'
<1>1. /\ c \notin DOMAIN users
      /\ users' = Insert(users, {c}, NewUser)
      /\ UNCHANGED <<players, gameState, dealersHand>>
  BY DEF ClientJoin, JoinLobby
<1>2. DOMAIN users' = DOMAIN users \cup {c}
  BY <1>1 DEF Insert
<1>3. /\ \A s \in DOMAIN users : users'[s] = users[s]
      /\ users'[c] = NewUser
  BY <1>1 DEF Insert
<1>4. NewUser \in User /\ ~NewUser.isReady /\ NewUser.money # NaN
  BY MoneyAssumption, EpsilonAssumption, NaNAssumption DEF NewUser, User, Money
<1>5. users' \in [DOMAIN users' -> User]
  <2>1. users' = [s \in DOMAIN users' |-> users'[s]]
    BY <1>1 DEF Insert
  <2>2. \A s \in DOMAIN users' : users'[s] \in User
    BY <1>2, <1>3, <1>4 DEF IInv, TypeOK
  <2> QED
    BY <2>1, <2>2
<1>6. TypeOK'
  BY <1>1, <1>2, <1>5 DEF IInv, TypeOK
<1>7. PlayersAreTheReadyUsers'
  BY <1>1, <1>2, <1>3, <1>4 DEF IInv, PlayersAreTheReadyUsers
<1>8. RoundAwaitsSomeone' /\ CardsBelongToTheRound'
  BY <1>1 DEF IInv, RoundAwaitsSomeone, CardsBelongToTheRound, AllPlayersHavePlacedTheirBets
<1>9. AwaitedUsersAreSolvent'
  BY <1>1, <1>2, <1>3, <1>4 DEF IInv, AwaitedUsersAreSolvent
<1>10. c \notin DOMAIN players
  BY <1>1 DEF IInv, PlayersAreTheReadyUsers
<1>11. NotANumberStaysInItsBet'
  BY <1>1, <1>2, <1>3, <1>4, <1>10 DEF IInv, NotANumberStaysInItsBet
<1> QED
  BY <1>6, <1>7, <1>8, <1>9, <1>11 DEF IInv

(* Erasing one socket from both maps leaves the others as they were. *)
LEMMA ErasedMaps ==
    ASSUME IInv, NEW c \in DOMAIN players
    PROVE  /\ GoodUsers(Erase(users, c))
           /\ GoodPlayers(Erase(players, c))
           /\ Seated(Erase(users, c), Erase(players, c))
           /\ NaNStaysInBets(Erase(users, c), Erase(players, c))
           /\ DOMAIN Erase(users, c) = DOMAIN users \ {c}
           /\ DOMAIN Erase(players, c) = DOMAIN players \ {c}
           /\ \A s \in DOMAIN users \ {c} : Erase(users, c)[s] = users[s]
           /\ \A s \in DOMAIN players \ {c} : Erase(players, c)[s] = players[s]
<1>1. /\ DOMAIN Erase(users, c) = DOMAIN users \ {c}
      /\ DOMAIN Erase(players, c) = DOMAIN players \ {c}
      /\ \A s \in DOMAIN users \ {c} : Erase(users, c)[s] = users[s]
      /\ \A s \in DOMAIN players \ {c} : Erase(players, c)[s] = players[s]
  BY DEF Erase
<1>2. GoodUsers(Erase(users, c)) /\ GoodPlayers(Erase(players, c))
  BY DEF IInv, TypeOK, GoodUsers, GoodPlayers, Erase
<1>3. gameState # "NotStarted"
  BY DEF IInv, PlayersAreTheReadyUsers
<1>4. Seated(Erase(users, c), Erase(players, c))
  BY <1>1, <1>3 DEF IInv, PlayersAreTheReadyUsers, Seated
<1>5. NaNStaysInBets(Erase(users, c), Erase(players, c))
  BY <1>1 DEF IInv, NotANumberStaysInItsBet, NaNStaysInBets
<1> QED
  BY <1>1, <1>2, <1>4, <1>5

LEMMA LeaveGameKeepsIInv ==
    ASSUME IInv, NEW c \in DOMAIN players, LeaveGame(c)
    PROVE  IInv'
<1> DEFINE us == Erase(users, c)
           ps == Erase(players, c)
<1>1. /\ GoodUsers(us) /\ GoodPlayers(ps) /\ Seated(us, ps) /\ NaNStaysInBets(us, ps)
      /\ DOMAIN ps = DOMAIN players \ {c}
      /\ DOMAIN us = DOMAIN users \ {c}
      /\ \A s \in DOMAIN us : us[s] = users[s]
      /\ \A s \in DOMAIN ps : ps[s] = players[s]
  BY ErasedMaps
<1>2. \/ DOMAIN ps = {} /\ EndGame /\ users' = us /\ UNCHANGED dealersHand
      \/ AllPlayersHavePlacedTheirBets(ps) /\ StartHitStandPhase(us, ps)
      \/ /\ DOMAIN ps # {}
         /\ ~AllPlayersHavePlacedTheirBets(ps)
         /\ \/ AllHandsAreStanding(ps)
            \/ users' = us /\ players' = ps /\ UNCHANGED <<gameState, dealersHand>>
  BY DEF LeaveGame
<1> HIDE DEF us, ps
<1>3. CASE DOMAIN ps = {} /\ EndGame /\ users' = us /\ UNCHANGED dealersHand
  <2>1. gameState' = "NotStarted" /\ DOMAIN players' = {} /\ players' \in [DOMAIN players' -> Player]
    BY <1>3 DEF EndGame, NoPlayers
  <2>2. \A s \in DOMAIN users' : ~users'[s].isReady
    BY <1>1, <1>3 DEF Seated
  <2>3. TypeOK'
    BY <1>1, <1>3, <2>1 DEF IInv, TypeOK, GoodUsers, GameStates
  <2>4. PlayersAreTheReadyUsers' /\ RoundAwaitsSomeone' /\ CardsBelongToTheRound'
    BY <2>1 DEF PlayersAreTheReadyUsers, RoundAwaitsSomeone, CardsBelongToTheRound
  <2>5. AwaitedUsersAreSolvent'
    BY <2>2 DEF AwaitedUsersAreSolvent
  <2>6. NotANumberStaysInItsBet'
    BY <1>1, <1>3, <2>1 DEF NotANumberStaysInItsBet, NaNStaysInBets
  <2> QED
    BY <2>3, <2>4, <2>5, <2>6 DEF IInv
<1>4. CASE AllPlayersHavePlacedTheirBets(ps) /\ StartHitStandPhase(us, ps)
  BY <1>1, <1>4, DealingKeepsIInv
<1>5. CASE /\ DOMAIN ps # {}
           /\ ~AllPlayersHavePlacedTheirBets(ps)
           /\ \/ AllHandsAreStanding(ps)
              \/ users' = us /\ players' = ps /\ UNCHANGED <<gameState, dealersHand>>
  <2>1. gameState = "BettingPhase"
    <3>1. gameState # "NotStarted"
      BY DEF IInv, PlayersAreTheReadyUsers
    <3>2. gameState # "HitStandPhase"
      BY <1>1, <1>5 DEF IInv, RoundAwaitsSomeone, AllPlayersHavePlacedTheirBets
    <3> QED
      BY <3>1, <3>2 DEF IInv, TypeOK, GameStates
  <2>2. ~AllHandsAreStanding(ps)
    BY <1>1, <1>5, <2>1 DEF IInv, CardsBelongToTheRound, AllHandsAreStanding
  <2>3. users' = us /\ players' = ps /\ UNCHANGED <<gameState, dealersHand>>
    BY <1>5, <2>2
  <2>4. TypeOK'
    BY <1>1, <2>3 DEF IInv, TypeOK, GoodUsers, GoodPlayers
  <2>5. PlayersAreTheReadyUsers'
    BY <1>1, <1>5, <2>1, <2>3 DEF PlayersAreTheReadyUsers, Seated
  <2>6. RoundAwaitsSomeone'
    BY <1>5, <2>1, <2>3 DEF RoundAwaitsSomeone, AllPlayersHavePlacedTheirBets
  <2>7. AwaitedUsersAreSolvent'
    BY <1>1, <2>3 DEF IInv, AwaitedUsersAreSolvent
  <2>8. CardsBelongToTheRound'
    BY <1>1, <2>1, <2>3 DEF IInv, CardsBelongToTheRound
  <2>9. NotANumberStaysInItsBet'
    BY <1>1, <2>3 DEF NotANumberStaysInItsBet, NaNStaysInBets
  <2> QED
    BY <2>4, <2>5, <2>6, <2>7, <2>8, <2>9 DEF IInv
<1> QED
  BY <1>2, <1>3, <1>4, <1>5

LEMMA ClientLeaveKeepsIInv ==
    ASSUME IInv, NEW c \in Socket, ClientLeave(c)
    PROVE  IInv'
<1>1. CASE c \in DOMAIN players
  BY <1>1, LeaveGameKeepsIInv DEF ClientLeave
<1>2. CASE c \notin DOMAIN players
  <2>1. users' = Erase(users, c) /\ UNCHANGED <<players, gameState, dealersHand>>
    BY <1>2 DEF ClientLeave
  <2>2. /\ DOMAIN users' = DOMAIN users \ {c}
        /\ \A s \in DOMAIN users' : users'[s] = users[s]
    BY <2>1 DEF Erase
  <2>3. users' \in [DOMAIN users' -> User]
    BY <2>1 DEF IInv, TypeOK, Erase
  <2>4. TypeOK'
    BY <2>1, <2>2, <2>3 DEF IInv, TypeOK
  <2>5. PlayersAreTheReadyUsers'
    BY <1>2, <2>1, <2>2 DEF IInv, PlayersAreTheReadyUsers
  <2>6. RoundAwaitsSomeone' /\ CardsBelongToTheRound'
    BY <2>1 DEF IInv, RoundAwaitsSomeone, CardsBelongToTheRound, AllPlayersHavePlacedTheirBets
  <2>7. AwaitedUsersAreSolvent'
    BY <2>1, <2>2 DEF IInv, AwaitedUsersAreSolvent
  <2>8. NotANumberStaysInItsBet'
    BY <2>1, <2>2 DEF IInv, NotANumberStaysInItsBet
  <2> QED
    BY <2>4, <2>5, <2>6, <2>7, <2>8 DEF IInv
<1> QED
  BY <1>1, <1>2

LEMMA SetReadyKeepsIInv ==
    ASSUME IInv, NEW c \in Socket, SetReady(c)
    PROVE  IInv'
<1> DEFINE us == [users EXCEPT ![c].isReady = TRUE]
<1>1. /\ c \in DOMAIN users
      /\ gameState = "NotStarted"
      /\ ~UserIsBankrupt(users[c])
      /\ \/ GameIsReady(us) /\ StartGame(us)
         \/ users' = us /\ UNCHANGED <<players, gameState, dealersHand>>
  BY DEF SetReady, UserCanGetReady
<1>2. /\ DOMAIN us = DOMAIN users
      /\ \A s \in DOMAIN us : /\ us[s] \in User
                              /\ us[s].money = users[s].money
                              /\ s # c => us[s].isReady = users[s].isReady
      /\ us[c].isReady
  BY <1>1 DEF IInv, TypeOK, User
<1>3. GoodUsers(us)
  BY <1>1, <1>2 DEF IInv, TypeOK, GoodUsers
<1>4. DOMAIN players = {}
  BY <1>1 DEF IInv, PlayersAreTheReadyUsers
<1>5. /\ \A s \in DOMAIN us : us[s].isReady => ~UserIsBankrupt(us[s])
      /\ \A s \in DOMAIN us : us[s].money # NaN
  BY <1>1, <1>2, <1>4
     DEF IInv, AwaitedUsersAreSolvent, NotANumberStaysInItsBet, UserIsBankrupt
<1> HIDE DEF us
<1>6. CASE GameIsReady(us) /\ StartGame(us)
  <2>1. /\ gameState' = "BettingPhase"
        /\ users' = us
        /\ dealersHand' = dealersHand
        /\ players' = Insert(players, GetJoinables(us), NewPlayer)
    BY <1>6 DEF StartGame
  <2>2. /\ GetJoinables(us) # {}
        /\ GetJoinables(us) \subseteq DOMAIN us
        /\ \A s \in DOMAIN us : s \in GetJoinables(us) <=> ~UserIsBankrupt(us[s])
        /\ \A s \in GetJoinables(us) : us[s].isReady
    BY <1>6 DEF GameIsReady, GetUsersToWait, GetJoinables
  <2>3. /\ DOMAIN players' = GetJoinables(us)
        /\ \A s \in DOMAIN players' : players'[s] = NewPlayer
    BY <1>4, <2>1 DEF Insert
  <2>4. NewPlayer \in Player /\ ~ABetIsPlaced(NewPlayer) /\ NewPlayer.bet # NaN
    BY NoCardsIsAHand, NaNAssumption, EpsilonAssumption
       DEF NewPlayer, Player, ABetIsPlaced, Exceeds
  <2>5. players' \in [DOMAIN players' -> Player]
    BY <1>4, <2>1, <2>3, <2>4 DEF Insert
  <2>6. TypeOK'
    BY <1>3, <2>1, <2>2, <2>3, <2>5 DEF IInv, TypeOK, GoodUsers, GameStates
  <2>7. PlayersAreTheReadyUsers'
    BY <1>5, <2>1, <2>2, <2>3 DEF PlayersAreTheReadyUsers
  <2>8. RoundAwaitsSomeone'
    BY <2>1, <2>2, <2>3, <2>4 DEF RoundAwaitsSomeone, AllPlayersHavePlacedTheirBets
  <2>9. AwaitedUsersAreSolvent'
    BY <1>5, <2>1 DEF UserIsBankrupt, AwaitedUsersAreSolvent
  <2>10. CardsBelongToTheRound'
    BY <2>1, <2>3 DEF CardsBelongToTheRound, NewPlayer
  <2>11. NotANumberStaysInItsBet'
    BY <1>5, <2>1, <2>3, <2>4 DEF NotANumberStaysInItsBet
  <2> QED
    BY <2>6, <2>7, <2>8, <2>9, <2>10, <2>11 DEF IInv
<1>7. CASE users' = us /\ UNCHANGED <<players, gameState, dealersHand>>
  <2>1. TypeOK'
    BY <1>3, <1>7 DEF IInv, TypeOK, GoodUsers
  <2>2. PlayersAreTheReadyUsers'
    BY <1>1, <1>4, <1>7 DEF PlayersAreTheReadyUsers
  <2>3. RoundAwaitsSomeone' /\ CardsBelongToTheRound'
    BY <1>1, <1>7 DEF RoundAwaitsSomeone, CardsBelongToTheRound
  <2>4. AwaitedUsersAreSolvent'
    BY <1>5, <1>7 DEF UserIsBankrupt, AwaitedUsersAreSolvent
  <2>5. NotANumberStaysInItsBet'
    BY <1>4, <1>5, <1>7 DEF NotANumberStaysInItsBet
  <2> QED
    BY <2>1, <2>2, <2>3, <2>4, <2>5 DEF IInv
<1> QED
  BY <1>1, <1>6, <1>7

(* What executeBet accepts turns money into money, and into NaN only what  *)
(* is NaN in the bet, too.                                                 *)
LEMMA AcceptedBet ==
    ASSUME IInv, NEW c \in DOMAIN users, c \in DOMAIN players,
           NEW bet \in Bets, BetIsAccepted(c, bet)
    PROVE  LET money  == Minus(users[c].money, bet.amount)
               amount == Plus(players[c].bet, bet.amount)
           IN  /\ money \in Money
               /\ amount \in Nat \cup {NaN}
               /\ money = NaN <=> amount = NaN
               /\ amount = NaN \/ Exceeds(amount, epsilon)
<1> DEFINE money  == Minus(users[c].money, bet.amount)
           amount == Plus(players[c].bet, bet.amount)
<1>1. /\ users[c].money \in Money
      /\ players[c].bet \in Nat \cup {NaN}
      /\ users[c].money = NaN <=> players[c].bet = NaN
  BY DEF IInv, TypeOK, User, Player, NotANumberStaysInItsBet
<1>2. CASE bet.amount = NaN \/ users[c].money = NaN
  BY <1>1, <1>2 DEF Minus, Plus, Money
<1>3. CASE bet.amount # NaN /\ users[c].money # NaN
  <2>1. /\ bet.amount \in Int
        /\ users[c].money \in Int /\ users[c].money >= -epsilon
        /\ players[c].bet \in Nat /\ players[c].bet # NaN
    BY <1>1, <1>3, MoneyAssumption DEF Bets, Money
  <2>2. users[c].money + epsilon \in Int /\ epsilon # NaN
    BY <2>1, EpsilonAssumption, NaNAssumption
  <2>3. Plus(users[c].money, epsilon) = users[c].money + epsilon
    BY <1>3, <2>2 DEF Plus
  <2>4. users[c].money + epsilon # NaN
    BY <2>2, NaNAssumption
  <2>5. bet.amount > epsilon /\ ~(bet.amount > users[c].money + epsilon)
    BY <1>3, <2>1, <2>2, <2>3, <2>4, EpsilonAssumption DEF BetIsAccepted, AtMost, Exceeds
  <2>6. money = users[c].money - bet.amount /\ amount = players[c].bet + bet.amount
    BY <1>3, <2>1 DEF Minus, Plus
  <2>7. /\ users[c].money - bet.amount \in Int
        /\ users[c].money - bet.amount >= -epsilon
        /\ players[c].bet + bet.amount \in Nat
        /\ players[c].bet + bet.amount > epsilon
    BY <2>1, <2>5, EpsilonAssumption
  <2> QED
    BY <2>2, <2>6, <2>7, NaNAssumption DEF Money, Exceeds
<1> QED
  BY <1>2, <1>3

LEMMA BetRequestKeepsIInv ==
    ASSUME IInv, NEW c \in Socket, NEW bet \in Bets, BetRequest(c, bet)
    PROVE  IInv'
<1> DEFINE money  == Minus(users[c].money, bet.amount)
           amount == Plus(players[c].bet, bet.amount)
           us == [users EXCEPT ![c].money = money]
           ps == [players EXCEPT ![c].bet = amount]
<1>1. /\ c \in DOMAIN users /\ c \in DOMAIN players
      /\ gameState = "BettingPhase"
      /\ BetIsAccepted(c, bet)
      /\ \/ AllPlayersHavePlacedTheirBets(ps) /\ StartHitStandPhase(us, ps)
         \/ /\ ~AllPlayersHavePlacedTheirBets(ps)
            /\ users' = us /\ players' = ps
            /\ UNCHANGED <<gameState, dealersHand>>
  BY DEF BetRequest, PlayerCanBet, BasicRequestValidation
<1>2. /\ money \in Money
      /\ amount \in Nat \cup {NaN}
      /\ money = NaN <=> amount = NaN
      /\ amount = NaN \/ Exceeds(amount, epsilon)
  BY <1>1, AcceptedBet
<1> HIDE DEF money, amount
<1>3. /\ DOMAIN us = DOMAIN users
      /\ \A s \in DOMAIN users : us[s] \in User /\ us[s].isReady = users[s].isReady
      /\ \A s \in DOMAIN users \ {c} : us[s] = users[s]
      /\ us[c].money = money
  BY <1>1, <1>2 DEF IInv, TypeOK, User
<1>4. /\ DOMAIN ps = DOMAIN players
      /\ \A s \in DOMAIN players : /\ ps[s] \in Player
                                   /\ ps[s].cards = players[s].cards
                                   /\ ps[s].state = players[s].state
      /\ \A s \in DOMAIN players \ {c} : ps[s] = players[s]
      /\ ps[c].bet = amount
  BY <1>1, <1>2 DEF IInv, TypeOK, Player
<1>5. GoodUsers(us) /\ GoodPlayers(ps)
  BY <1>3, <1>4 DEF IInv, TypeOK, GoodUsers, GoodPlayers
<1>6. Seated(us, ps) /\ NaNStaysInBets(us, ps)
  BY <1>1, <1>2, <1>3, <1>4
     DEF IInv, PlayersAreTheReadyUsers, NotANumberStaysInItsBet, Seated, NaNStaysInBets
<1>7. ~ABetIsPlaced(ps[c]) => ~UserIsBankrupt(us[c])
  BY <1>2, <1>3, <1>4 DEF ABetIsPlaced, UserIsBankrupt, AtMost
<1> HIDE DEF us, ps
<1>8. CASE AllPlayersHavePlacedTheirBets(ps) /\ StartHitStandPhase(us, ps)
  BY <1>5, <1>6, <1>8, DealingKeepsIInv
<1>9. CASE /\ ~AllPlayersHavePlacedTheirBets(ps)
           /\ users' = us /\ players' = ps
           /\ UNCHANGED <<gameState, dealersHand>>
  <2>1. TypeOK'
    BY <1>5, <1>9 DEF IInv, TypeOK, GoodUsers, GoodPlayers
  <2>2. PlayersAreTheReadyUsers'
    BY <1>1, <1>4, <1>6, <1>9 DEF PlayersAreTheReadyUsers, Seated
  <2>3. RoundAwaitsSomeone'
    BY <1>1, <1>9 DEF RoundAwaitsSomeone, AllPlayersHavePlacedTheirBets
  <2>4. AwaitedUsersAreSolvent'
    BY <1>1, <1>3, <1>4, <1>7, <1>9 DEF IInv, UserIsBankrupt, AwaitedUsersAreSolvent
  <2>5. CardsBelongToTheRound'
    BY <1>1, <1>4, <1>9 DEF IInv, CardsBelongToTheRound
  <2>6. NotANumberStaysInItsBet'
    BY <1>6, <1>9 DEF NotANumberStaysInItsBet, NaNStaysInBets
  <2> QED
    BY <2>1, <2>2, <2>3, <2>4, <2>5, <2>6 DEF IInv
<1> QED
  BY <1>1, <1>8, <1>9

LEMMA HitRequestKeepsIInv ==
    ASSUME IInv, NEW c \in Socket, HitRequest(c)
    PROVE  IInv'
<1>1. c \in DOMAIN players /\ gameState = "HitStandPhase"
  BY DEF HitRequest, PlayerCanAct, BasicRequestValidation
<1>2. PICK rank \in DealtRanks :
        CashOnceAllStand([players EXCEPT ![c] = ExecuteHit(@, rank)])
  BY DEF HitRequest
<1> DEFINE hit == ExecuteHit(players[c], rank)
           ps  == [players EXCEPT ![c] = hit]
<1>3. CashOnceAllStand(ps)
  BY <1>2
<1>4. /\ players[c] \in Player
      /\ players[c].cards \in Hand
      /\ players[c].cards.size \in Nat
      /\ players[c].cards.size >= 2
  BY <1>1 DEF IInv, TypeOK, CardsBelongToTheRound, Player, Hand
<1>5. /\ WithCard(players[c].cards, rank) \in Hand
      /\ WithCard(players[c].cards, rank).size >= 2
  BY <1>4, WithCardIsAHand
<1>6. hit \in Player /\ hit.bet = players[c].bet /\ hit.cards.size >= 2
  BY <1>4, <1>5 DEF ExecuteHit, Player
<1> HIDE DEF hit
<1>7. /\ DOMAIN ps = DOMAIN players
      /\ \A s \in DOMAIN ps : ps[s] \in Player /\ ps[s].bet = players[s].bet
      /\ \A s \in DOMAIN ps \ {c} : ps[s] = players[s]
      /\ ps[c].cards.size >= 2
  BY <1>1, <1>6 DEF IInv, TypeOK
<1>8. GoodPlayers(ps)
  BY <1>7 DEF IInv, TypeOK, GoodPlayers
<1>9. \A s \in DOMAIN ps : ps[s].cards.size >= 2
  BY <1>1, <1>7 DEF IInv, CardsBelongToTheRound
<1> HIDE DEF ps
<1> QED
  BY <1>1, <1>3, <1>7, <1>8, <1>9, PlayingOnKeepsIInv

LEMMA StandRequestKeepsIInv ==
    ASSUME IInv, NEW c \in Socket, StandRequest(c)
    PROVE  IInv'
<1> DEFINE ps == [players EXCEPT ![c].state = "Standing"]
<1>1. /\ c \in DOMAIN players
      /\ gameState = "HitStandPhase"
      /\ CashOnceAllStand(ps)
  BY DEF StandRequest, PlayerCanAct, BasicRequestValidation
<1>2. /\ DOMAIN ps = DOMAIN players
      /\ \A s \in DOMAIN ps : /\ ps[s] \in Player
                              /\ ps[s].bet = players[s].bet
                              /\ ps[s].cards = players[s].cards
  BY <1>1 DEF IInv, TypeOK, Player
<1>3. GoodPlayers(ps)
  BY <1>2 DEF IInv, TypeOK, GoodPlayers
<1>4. \A s \in DOMAIN ps : ps[s].cards.size >= 2
  BY <1>1, <1>2 DEF IInv, CardsBelongToTheRound
<1> HIDE DEF ps
<1> QED
  BY <1>1, <1>2, <1>3, <1>4, PlayingOnKeepsIInv

-----------------------------------------------------------------------------
LEMMA InitIInv == Init => IInv
<1> SUFFICES ASSUME Init PROVE IInv
  OBVIOUS
<1>1. DOMAIN users = {} /\ DOMAIN players = {} /\ gameState = "NotStarted"
  BY DEF Init, NoPlayers
<1>2. TypeOK
  BY <1>1, NoCardsIsAHand DEF Init, TypeOK, NoPlayers, GameStates
<1> QED
  BY <1>1, <1>2 DEF IInv, PlayersAreTheReadyUsers, RoundAwaitsSomeone,
     AwaitedUsersAreSolvent, NotANumberStaysInItsBet, CardsBelongToTheRound

LEMMA NextKeepsIInv == IInv /\ [Next]_vars => IInv'
<1> SUFFICES ASSUME IInv, [Next]_vars PROVE IInv'
  OBVIOUS
<1>1. CASE Next
  <2>1. PICK c \in Socket :
          \/ ClientJoin(c)
          \/ ClientLeave(c)
          \/ SetReady(c)
          \/ \E bet \in Bets : BetRequest(c, bet)
          \/ HitRequest(c)
          \/ StandRequest(c)
    BY <1>1 DEF Next
  <2> QED
    BY <2>1, ClientJoinKeepsIInv, ClientLeaveKeepsIInv, SetReadyKeepsIInv,
       BetRequestKeepsIInv, HitRequestKeepsIInv, StandRequestKeepsIInv
<1>2. CASE UNCHANGED vars
  BY <1>2 DEF vars, IInv, TypeOK, PlayersAreTheReadyUsers, RoundAwaitsSomeone,
     AwaitedUsersAreSolvent, NotANumberStaysInItsBet, CardsBelongToTheRound,
     AllPlayersHavePlacedTheirBets
<1> QED
  BY <1>1, <1>2

(* Every state the server can reach satisfies the inductive invariant. *)
THEOREM Invariance == Spec => []IInv
BY InitIInv, NextKeepsIInv, PTL DEF Spec

(* Types are kept, and nobody owes more than epsilon, whatever bets are    *)
(* requested: executeBet checks what it takes, cash only gives.            *)
THEOREM TypeCorrect == Spec => []TypeOK
<1>1. IInv => TypeOK
  BY DEF IInv
<1> QED
  BY <1>1, Invariance, PTL

(* No PlayerModel is left with a dangling user, for any number of clients, *)
(* and the players are always the users who count as ready.                *)
THEOREM PlayersCorrect == Spec => []PlayersAreTheReadyUsers
<1>1. IInv => PlayersAreTheReadyUsers
  BY DEF IInv
<1> QED
  BY <1>1, Invariance, PTL

(* A running round always waits for the bet or the stand of some player.   *)
THEOREM RoundNeverHangs == Spec => []RoundAwaitsSomeone
<1>1. IInv => RoundAwaitsSomeone
  BY DEF IInv
<1> QED
  BY <1>1, Invariance, PTL

(* A user the betting phase waits for has money to bet. *)
THEOREM AwaitedCanPay == Spec => []AwaitedUsersAreSolvent
<1>1. IInv => AwaitedUsersAreSolvent
  BY DEF IInv
<1> QED
  BY <1>1, Invariance, PTL

(* No NaN is dealt cards for, cashed, or found in the money of anybody but *)
(* the player who bet it.                                                  *)
THEOREM NaNIsConfined == Spec => []NotANumberStaysInItsBet
<1>1. IInv => NotANumberStaysInItsBet
  BY DEF IInv
<1> QED
  BY <1>1, Invariance, PTL

(* No card of one round is seen by the next. *)
THEOREM CardsCorrect == Spec => []CardsBelongToTheRound
<1>1. IInv => CardsBelongToTheRound
  BY DEF IInv
<1> QED
  BY <1>1, Invariance, PTL
=============================================================================
