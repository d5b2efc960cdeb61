-------------------------- MODULE GameSteps_proofs ---------------------------
(***************************************************************************)
(* Proofs about the steps of GameServer: every handler is a step of the    *)
(* abstract specification Round, or none, and what a step may never do to  *)
(* a user's money and to a hand that stands.  All of it rests on the       *)
(* inductive invariant of GameServer_proofs.                               *)
(***************************************************************************)
EXTENDS GameServer_proofs

-----------------------------------------------------------------------------
(* What the two ways out of a phase leave behind. *)

(* Cashing empties the table and keeps the users. *)
LEMMA CashingOutcome ==
    ASSUME NEW us, NEW ps, NEW hand, StartCashing(us, ps, hand)
    PROVE  /\ gameState' = "NotStarted"
           /\ DOMAIN players' = {}
           /\ DOMAIN users' = DOMAIN us
  BY DEF StartCashing, EndGame, NoPlayers, UnreadyAllPlayers, CashPlayers

(* Dealing changes nothing but cards, unless all hands stand already. *)
Dealt(ps, dealt) ==
    /\ GoodPlayers(dealt)
    /\ DOMAIN dealt = DOMAIN ps
    /\ \A s \in DOMAIN ps :
          /\ dealt[s].bet = ps[s].bet
          /\ dealt[s].state = ps[s].state
          /\ \E pair \in Pairs : dealt[s].cards = TwoMoreCards(ps[s].cards, pair)

LEMMA DealingOutcome ==
    ASSUME NEW us, NEW ps, GoodPlayers(ps), StartHitStandPhase(us, ps)
    PROVE  \/ /\ AllHandsAreStanding(ps)
              /\ \E dealt, hand : Dealt(ps, dealt) /\ StartCashing(us, dealt, hand)
           \/ /\ ~AllHandsAreStanding(ps)
              /\ gameState' = "HitStandPhase"
              /\ users' = us
              /\ Dealt(ps, players')
<1>1. PICK dealersPair \in Pairs, pairs \in [DOMAIN ps -> Pairs] :
        LET hand  == TwoMoreCards(NoCards, dealersPair)
            dealt == [s \in DOMAIN ps |->
                        [ps[s] EXCEPT !.cards = TwoMoreCards(@, pairs[s])]]
        IN  IF AllHandsAreStanding(dealt)
            THEN StartCashing(us, dealt, hand)
            ELSE /\ gameState' = "HitStandPhase"
                 /\ users' = us
                 /\ players' = dealt
                 /\ dealersHand' = hand
  BY DEF StartHitStandPhase
<1> DEFINE hand  == TwoMoreCards(NoCards, dealersPair)
           dealt == [s \in DOMAIN ps |->
                       [ps[s] EXCEPT !.cards = TwoMoreCards(@, pairs[s])]]
<1>2. ASSUME NEW s \in DOMAIN ps
      PROVE  /\ dealt[s] \in Player
             /\ dealt[s].bet = ps[s].bet
             /\ dealt[s].state = ps[s].state
             /\ dealt[s].cards = TwoMoreCards(ps[s].cards, pairs[s])
  <2>1. ps[s] \in Player /\ ps[s].cards \in Hand /\ pairs[s] \in Pairs
    BY DEF GoodPlayers, Player
  <2>2. TwoMoreCards(ps[s].cards, pairs[s]) \in Hand
    BY <2>1, TwoMoreCardsAreAHand
  <2> QED
    BY <2>1, <2>2 DEF Player
<1>3. Dealt(ps, dealt)
  <2>1. DOMAIN dealt = DOMAIN ps /\ dealt \in [DOMAIN dealt -> Player]
    BY <1>2
  <2> QED
    BY <1>2, <2>1 DEF Dealt, GoodPlayers
<1>4. AllHandsAreStanding(dealt) <=> AllHandsAreStanding(ps)
  BY <1>3 DEF Dealt, AllHandsAreStanding
<1>5. IF AllHandsAreStanding(dealt)
      THEN StartCashing(us, dealt, hand)
      ELSE gameState' = "HitStandPhase" /\ users' = us /\ players' = dealt
  BY <1>1
<1> HIDE DEF dealt, hand
<1>6. CASE AllHandsAreStanding(ps)
  BY <1>3, <1>4, <1>5, <1>6
<1>7. CASE ~AllHandsAreStanding(ps)
  BY <1>3, <1>4, <1>5, <1>7
<1> QED
  BY <1>6, <1>7

-----------------------------------------------------------------------------
(* Whom the round waits for, in each phase. *)
LEMMA AwaitedAndPhase ==
    /\ gameState = "NotStarted" => Awaited = {} /\ Phase = "Idle"
    /\ gameState = "BettingPhase" =>
          /\ Awaited = {s \in DOMAIN players : ~ABetIsPlaced(players[s])}
          /\ Phase = "Betting"
    /\ gameState = "HitStandPhase" =>
          /\ Awaited = {s \in DOMAIN players : players[s].state = "Sitting"}
          /\ Phase = "Playing"
  BY DEF Awaited, Phase

LEMMA AwaitedAndPhaseNext ==
    /\ gameState' = "NotStarted" => Awaited' = {} /\ Phase' = "Idle"
    /\ gameState' = "BettingPhase" =>
          /\ Awaited' = {s \in DOMAIN players' : ~ABetIsPlaced(players'[s])}
          /\ Phase' = "Betting"
    /\ gameState' = "HitStandPhase" =>
          /\ Awaited' = {s \in DOMAIN players' : players'[s].state = "Sitting"}
          /\ Phase' = "Playing"
  BY DEF Awaited, Phase, ABetIsPlaced

(* The step of Round by which a round goes on with the players of ps, once *)
(* all their bets are placed. *)
LEMMA DealingGoesOn ==
    ASSUME NEW us, NEW ps, IInv,
           GoodPlayers(ps), DOMAIN ps # {}, DOMAIN ps \subseteq DOMAIN players,
           NEW waiting,
           \/ /\ gameState = "BettingPhase"
              /\ waiting = {}
              /\ \A s \in DOMAIN ps : ps[s].state = "Sitting"
           \/ /\ gameState = "HitStandPhase"
              /\ waiting = {s \in DOMAIN ps : ps[s].state = "Sitting"},
           StartHitStandPhase(us, ps)
    PROVE  R!GoOn(DOMAIN ps, waiting) /\ DOMAIN users' = DOMAIN us
<1>1. CASE AllHandsAreStanding(ps)
  <2>1. /\ gameState' = "NotStarted"
        /\ DOMAIN players' = {}
        /\ DOMAIN users' = DOMAIN us
    BY <1>1, DealingOutcome, CashingOutcome
  <2>2. gameState = "HitStandPhase" /\ waiting = {}
    BY <1>1 DEF AllHandsAreStanding
  <2> QED
    BY <2>1, <2>2, AwaitedAndPhase, AwaitedAndPhaseNext DEF R!GoOn, R!Finish
<1>2. CASE ~AllHandsAreStanding(ps)
  <2>1. /\ gameState' = "HitStandPhase"
        /\ users' = us
        /\ DOMAIN players' = DOMAIN ps
        /\ \A s \in DOMAIN ps : players'[s].state = ps[s].state
    BY <1>2, DealingOutcome DEF Dealt
  <2>2. Awaited' = {s \in DOMAIN ps : ps[s].state = "Sitting"} /\ Phase' = "Playing"
    BY <2>1, AwaitedAndPhaseNext
  <2>3. CASE gameState = "BettingPhase"
    BY <2>1, <2>2, <2>3, AwaitedAndPhase DEF R!GoOn
  <2>4. CASE gameState = "HitStandPhase"
    <3>1. waiting # {}
      BY <1>2, <2>4 DEF AllHandsAreStanding, GoodPlayers, Player
    <3> QED
      BY <2>1, <2>2, <2>4, <3>1, AwaitedAndPhase DEF R!GoOn
  <2> QED
    BY <2>3, <2>4
<1> QED
  BY <1>1, <1>2

-----------------------------------------------------------------------------
(* One lemma per handler: the step of Round it is. *)
LEMMA JoinConnects ==
    ASSUME IInv, NEW c \in Socket, ClientJoin(c)
    PROVE  R!Connect(c)
<1>1. /\ c \notin DOMAIN users
      /\ DOMAIN users' = DOMAIN users \cup {c}
      /\ UNCHANGED <<players, gameState>>
  BY DEF ClientJoin, JoinLobby, Insert
<1>2. Awaited' = Awaited /\ Phase' = Phase
  BY <1>1 DEF Awaited, Phase, ABetIsPlaced
<1> QED
  BY <1>1, <1>2 DEF R!Connect

LEMMA LeaveDisconnects ==
    ASSUME IInv, NEW c \in Socket, ClientLeave(c)
    PROVE  R!Disconnect(c)
<1>1. CASE c \notin DOMAIN players
  <2>1. /\ c \in DOMAIN users
        /\ DOMAIN users' = DOMAIN users \ {c}
        /\ UNCHANGED <<players, gameState>>
    BY <1>1 DEF ClientLeave, Erase
  <2>2. Awaited' = Awaited /\ Phase' = Phase
    BY <2>1 DEF Awaited, Phase, ABetIsPlaced
  <2> QED
    BY <1>1, <2>1, <2>2 DEF R!Disconnect
<1>2. CASE c \in DOMAIN players
  <2> DEFINE us == Erase(users, c)
             ps == Erase(players, c)
             waiting == Awaited \ {c}
  <2>1. /\ GoodPlayers(ps)
        /\ DOMAIN ps = DOMAIN players \ {c}
        /\ DOMAIN us = DOMAIN users \ {c}
        /\ \A s \in DOMAIN ps : ps[s] = players[s]
    BY <1>2, ErasedMaps
  <2>2. /\ c \in DOMAIN users
        /\ \/ DOMAIN ps = {} /\ EndGame /\ users' = us
           \/ /\ DOMAIN ps # {}
              /\ AllPlayersHavePlacedTheirBets(ps)
              /\ StartHitStandPhase(us, ps)
           \/ /\ DOMAIN ps # {}
              /\ ~AllPlayersHavePlacedTheirBets(ps)
              /\ \/ AllHandsAreStanding(ps)
                 \/ users' = us /\ players' = ps /\ UNCHANGED gameState
    BY <1>2 DEF ClientLeave, LeaveGame
  <2>3. gameState \in {"BettingPhase", "HitStandPhase"}
    BY <1>2 DEF IInv, TypeOK, PlayersAreTheReadyUsers, GameStates
  <2> HIDE DEF us, ps
  <2>4. /\ gameState = "BettingPhase" =>
              /\ waiting = {s \in DOMAIN ps : ~ABetIsPlaced(ps[s])}
              /\ \A s \in DOMAIN ps : ps[s].state = "Sitting"
              /\ Phase = "Betting"
        /\ gameState = "HitStandPhase" =>
              /\ waiting = {s \in DOMAIN ps : ps[s].state = "Sitting"}
              /\ AllPlayersHavePlacedTheirBets(ps)
              /\ Phase = "Playing"
    BY <2>1, AwaitedAndPhase
       DEF IInv, CardsBelongToTheRound, RoundAwaitsSomeone, AllPlayersHavePlacedTheirBets
  <2>5. CASE DOMAIN ps = {} /\ EndGame /\ users' = us
    <3>1. gameState' = "NotStarted" /\ DOMAIN players' = {} /\ DOMAIN users' = DOMAIN us
      BY <2>5 DEF EndGame, NoPlayers
    <3>2. waiting = {}
      BY <2>3, <2>4, <2>5
    <3> QED
      BY <1>2, <2>1, <2>2, <2>5, <3>1, <3>2, AwaitedAndPhaseNext
         DEF R!Disconnect, R!GoOn, R!Finish
  <2>6. CASE /\ DOMAIN ps # {}
             /\ AllPlayersHavePlacedTheirBets(ps)
             /\ StartHitStandPhase(us, ps)
    <3>1. gameState = "BettingPhase" => waiting = {}
      BY <2>4, <2>6 DEF AllPlayersHavePlacedTheirBets
    <3>2. R!GoOn(DOMAIN ps, waiting) /\ DOMAIN users' = DOMAIN us
      <4> HIDE DEF waiting
      <4> QED
        BY <2>1, <2>3, <2>4, <2>6, <3>1, DealingGoesOn
    <3> QED
      BY <1>2, <2>1, <2>2, <3>2 DEF R!Disconnect
  <2>7. CASE /\ DOMAIN ps # {}
             /\ ~AllPlayersHavePlacedTheirBets(ps)
             /\ \/ AllHandsAreStanding(ps)
                \/ users' = us /\ players' = ps /\ UNCHANGED gameState
    <3>1. gameState = "BettingPhase" /\ ~AllHandsAreStanding(ps)
      BY <2>3, <2>4, <2>7 DEF AllHandsAreStanding
    <3>2. users' = us /\ players' = ps /\ UNCHANGED gameState
      BY <2>7, <3>1
    <3>3. Awaited' = waiting /\ Phase' = Phase /\ waiting # {}
      BY <2>4, <2>7, <3>1, <3>2, AwaitedAndPhaseNext DEF AllPlayersHavePlacedTheirBets
    <3> QED
      BY <1>2, <2>1, <2>2, <3>2, <3>3 DEF R!Disconnect, R!GoOn
  <2> QED
    BY <2>2, <2>5, <2>6, <2>7
<1> QED
  BY <1>1, <1>2

LEMMA ReadyStartsOrStutters ==
    ASSUME IInv, NEW c \in Socket, SetReady(c)
    PROVE  (\E clients \in SUBSET Socket : R!Start(clients)) \/ UNCHANGED R!roundVars
<1> DEFINE us == [users EXCEPT ![c].isReady = TRUE]
<1>1. /\ gameState = "NotStarted"
      /\ DOMAIN us = DOMAIN users
      /\ \/ GameIsReady(us) /\ StartGame(us)
         \/ users' = us /\ UNCHANGED <<players, gameState>>
  BY DEF SetReady, UserCanGetReady
<1> HIDE DEF us
<1>2. CASE GameIsReady(us) /\ StartGame(us)
  <2> DEFINE clients == GetJoinables(us)
  <2>1. clients # {} /\ clients \subseteq DOMAIN users /\ clients \in SUBSET Socket
    BY <1>1, <1>2 DEF GameIsReady, GetJoinables, IInv, TypeOK
  <2> HIDE DEF clients
  <2>2. DOMAIN players = {}
    BY <1>1 DEF IInv, PlayersAreTheReadyUsers
  <2>3. /\ gameState' = "BettingPhase"
        /\ users' = us
        /\ DOMAIN players' = clients
        /\ \A s \in clients : players'[s] = NewPlayer
    BY <1>2, <2>2 DEF StartGame, Insert, clients
  <2>4. ~ABetIsPlaced(NewPlayer)
    BY EpsilonAssumption, NaNAssumption DEF NewPlayer, ABetIsPlaced, Exceeds
  <2>5. Awaited' = clients /\ Phase' = "Betting" /\ Phase = "Idle"
    BY <1>1, <2>3, <2>4, AwaitedAndPhase, AwaitedAndPhaseNext
  <2>6. R!Start(clients)
    BY <1>1, <2>1, <2>3, <2>5 DEF R!Start
  <2> QED
    BY <2>1, <2>6
<1>3. CASE users' = us /\ UNCHANGED <<players, gameState>>
  <2>1. Awaited' = Awaited /\ Phase' = Phase
    BY <1>3 DEF Awaited, Phase, ABetIsPlaced
  <2> QED
    BY <1>1, <1>3, <2>1 DEF R!roundVars
<1> QED
  BY <1>1, <1>2, <1>3

(* A bet of NaN is no step of Round: the player stays awaited. *)
LEMMA BetActsOrStutters ==
    ASSUME IInv, NEW c \in Socket, NEW bet \in Bets, BetRequest(c, bet)
    PROVE  R!Act(c) \/ UNCHANGED R!roundVars
<1> DEFINE amount == Plus(players[c].bet, bet.amount)
           us == [users EXCEPT ![c].money = Minus(@, bet.amount)]
           ps == [players EXCEPT ![c].bet = amount]
           waiting == Awaited \ {c}
<1>1. /\ c \in DOMAIN users /\ c \in DOMAIN players
      /\ gameState = "BettingPhase"
      /\ ~ABetIsPlaced(players[c])
      /\ BetIsAccepted(c, bet)
      /\ \/ AllPlayersHavePlacedTheirBets(ps) /\ StartHitStandPhase(us, ps)
         \/ /\ ~AllPlayersHavePlacedTheirBets(ps)
            /\ users' = us /\ players' = ps /\ UNCHANGED gameState
  BY DEF BetRequest, PlayerCanBet, BasicRequestValidation, BetIsAccepted
<1>2. amount \in Nat \cup {NaN} /\ (amount = NaN \/ Exceeds(amount, epsilon))
  BY <1>1, AcceptedBet
<1> HIDE DEF amount
<1>3. DOMAIN us = DOMAIN users
  OBVIOUS
<1>4. /\ DOMAIN ps = DOMAIN players
      /\ \A s \in DOMAIN players : ps[s] \in Player /\ ps[s].state = "Sitting"
      /\ \A s \in DOMAIN players \ {c} : ps[s] = players[s]
      /\ ps[c].bet = amount
  BY <1>1, <1>2 DEF IInv, TypeOK, CardsBelongToTheRound, Player
<1>5. GoodPlayers(ps)
  BY <1>4 DEF IInv, TypeOK, GoodPlayers
<1>6. /\ Awaited = {s \in DOMAIN players : ~ABetIsPlaced(players[s])}
      /\ Phase = "Betting"
      /\ c \in Awaited
  BY <1>1, AwaitedAndPhase
<1> HIDE DEF us, ps
<1>7. CASE amount = NaN
  <2>1. ~ABetIsPlaced(ps[c])
    BY <1>4, <1>7 DEF ABetIsPlaced, Exceeds
  <2>2. users' = us /\ players' = ps /\ UNCHANGED gameState
    BY <1>1, <1>4, <2>1 DEF AllPlayersHavePlacedTheirBets
  <2>3. Awaited' = {s \in DOMAIN ps : ~ABetIsPlaced(ps[s])} /\ Phase' = Phase
    BY <1>1, <1>6, <2>2, AwaitedAndPhaseNext
  <2>4. Awaited' = Awaited
    BY <1>4, <1>6, <2>1, <2>3
  <2> QED
    BY <1>3, <1>4, <2>2, <2>3, <2>4 DEF R!roundVars
<1>8. CASE Exceeds(amount, epsilon)
  <2>1. ABetIsPlaced(ps[c])
    BY <1>4, <1>8 DEF ABetIsPlaced
  <2>2. waiting = {s \in DOMAIN ps : ~ABetIsPlaced(ps[s])}
    BY <1>4, <1>6, <2>1
  <2> HIDE DEF waiting
  <2>3. R!GoOn(DOMAIN players, waiting) /\ DOMAIN users' = DOMAIN users
    <3>1. CASE AllPlayersHavePlacedTheirBets(ps) /\ StartHitStandPhase(us, ps)
      <4>1. waiting = {} /\ DOMAIN ps # {} /\ DOMAIN ps \subseteq DOMAIN players
        BY <1>1, <1>4, <2>2, <3>1 DEF AllPlayersHavePlacedTheirBets
      <4>2. R!GoOn(DOMAIN ps, waiting) /\ DOMAIN users' = DOMAIN us
        BY <1>1, <1>4, <1>5, <3>1, <4>1, DealingGoesOn
      <4> QED
        BY <1>3, <1>4, <4>2
    <3>2. CASE /\ ~AllPlayersHavePlacedTheirBets(ps)
               /\ users' = us /\ players' = ps /\ UNCHANGED gameState
      <4>1. Awaited' = waiting /\ Phase' = Phase /\ waiting # {}
        BY <1>1, <1>6, <2>2, <3>2, AwaitedAndPhaseNext DEF AllPlayersHavePlacedTheirBets
      <4> QED
        BY <1>3, <1>4, <3>2, <4>1 DEF R!GoOn
    <3> QED
      BY <1>1, <3>1, <3>2
  <2> QED
    BY <1>6, <2>3 DEF R!Act, waiting
<1> QED
  BY <1>2, <1>7, <1>8

(* What hitRequest and standRequest have made of the players before their  *)
(* tail: only c's hand is another one, and a hand that a hit lets stand is *)
(* busted, since it has three cards and is no blackjack.                   *)
PlayedOn(c, ps) ==
    /\ gameState = "HitStandPhase"
    /\ c \in DOMAIN players /\ players[c].state = "Sitting"
    /\ GoodPlayers(ps)
    /\ DOMAIN ps = DOMAIN players
    /\ \A s \in DOMAIN players \ {c} : ps[s] = players[s]
    /\ ps[c].bet = players[c].bet
    /\ \/ ps[c].cards = players[c].cards
       \/ /\ \E rank \in DealtRanks : ps[c].cards = WithCard(players[c].cards, rank)
          /\ ps[c].state = "Standing" => IsBusted(ps[c].cards)

LEMMA HitPlaysOn ==
    ASSUME IInv, NEW c \in Socket, HitRequest(c)
    PROVE  \E ps : PlayedOn(c, ps) /\ CashOnceAllStand(ps)
<1>1. /\ c \in DOMAIN players /\ gameState = "HitStandPhase"
      /\ players[c].state = "Sitting"
  BY DEF HitRequest, PlayerCanAct, BasicRequestValidation, HandIsSitting
<1>2. PICK rank \in DealtRanks :
        CashOnceAllStand([players EXCEPT ![c] = ExecuteHit(@, rank)])
  BY DEF HitRequest
<1> DEFINE cards == WithCard(players[c].cards, rank)
           ps == [players EXCEPT ![c] = ExecuteHit(players[c], rank)]
<1>3. /\ DOMAIN ps = DOMAIN players
      /\ \A s \in DOMAIN players \ {c} : ps[s] = players[s]
      /\ ps[c] = ExecuteHit(players[c], rank)
      /\ CashOnceAllStand(ps)
  BY <1>1, <1>2
<1>4. /\ players[c] \in Player
      /\ players[c].cards \in Hand
      /\ players[c].cards.size \in Nat /\ players[c].cards.size >= 2
  BY <1>1 DEF IInv, TypeOK, CardsBelongToTheRound, Player, Hand
<1>5. cards \in Hand /\ cards.size = players[c].cards.size + 1
  BY <1>4, WithCardIsAHand
<1>6. ~IsBlackjack(cards)
  BY <1>4, <1>5 DEF IsBlackjack
<1> HIDE DEF cards
<1>7. ExecuteHit(players[c], rank)
        = [players[c] EXCEPT !.cards = cards,
                             !.state = IF IsBusted(cards) THEN "Standing" ELSE @]
  BY <1>6 DEF ExecuteHit, cards
<1>8. /\ ps[c] \in Player
      /\ ps[c].bet = players[c].bet
      /\ ps[c].cards = cards
      /\ ps[c].state = "Standing" => IsBusted(cards)
  BY <1>1, <1>3, <1>4, <1>5, <1>7 DEF Player
<1>9. GoodPlayers(ps)
  BY <1>3, <1>8 DEF IInv, TypeOK, GoodPlayers
<1> HIDE DEF ps
<1>10. PlayedOn(c, ps)
  BY <1>1, <1>3, <1>8, <1>9 DEF PlayedOn, cards
<1> QED
  BY <1>3, <1>10

LEMMA StandPlaysOn ==
    ASSUME IInv, NEW c \in Socket, StandRequest(c)
    PROVE  \E ps : PlayedOn(c, ps) /\ CashOnceAllStand(ps)
<1> DEFINE ps == [players EXCEPT ![c].state = "Standing"]
<1>1. /\ c \in DOMAIN players /\ gameState = "HitStandPhase"
      /\ players[c].state = "Sitting"
      /\ CashOnceAllStand(ps)
  BY DEF StandRequest, PlayerCanAct, BasicRequestValidation, HandIsSitting
<1>2. /\ DOMAIN ps = DOMAIN players
      /\ \A s \in DOMAIN players \ {c} : ps[s] = players[s]
      /\ ps[c] \in Player
      /\ ps[c].bet = players[c].bet /\ ps[c].cards = players[c].cards
  BY <1>1 DEF IInv, TypeOK, Player
<1>3. GoodPlayers(ps)
  BY <1>2 DEF IInv, TypeOK, GoodPlayers
<1> HIDE DEF ps
<1>4. PlayedOn(c, ps)
  BY <1>1, <1>2, <1>3 DEF PlayedOn
<1> QED
  BY <1>1, <1>4

(* Their tail. *)
LEMMA PlayingOnActs ==
    ASSUME IInv, NEW c, NEW ps, PlayedOn(c, ps), CashOnceAllStand(ps)
    PROVE  R!Act(c) \/ UNCHANGED R!roundVars
<1> DEFINE waiting == {s \in DOMAIN ps : ps[s].state = "Sitting"}
<1>1. /\ Awaited = {s \in DOMAIN players : players[s].state = "Sitting"}
      /\ Phase = "Playing"
      /\ c \in Awaited
  BY AwaitedAndPhase DEF PlayedOn
<1>2. \/ ps[c].state = "Standing" /\ waiting = Awaited \ {c}
      \/ ps[c].state = "Sitting" /\ waiting = Awaited
  BY <1>1 DEF PlayedOn, GoodPlayers, Player
<1>3. AllHandsAreStanding(ps) <=> waiting = {}
  BY DEF PlayedOn, AllHandsAreStanding, GoodPlayers, Player
<1>4. CASE AllHandsAreStanding(ps)
  <2>1. /\ gameState' = "NotStarted"
        /\ DOMAIN players' = {}
        /\ DOMAIN users' = DOMAIN users
    BY <1>4, CashingOutcome DEF CashOnceAllStand
  <2>2. Awaited \ {c} = {}
    BY <1>1, <1>2, <1>3, <1>4
  <2> QED
    BY <1>1, <2>1, <2>2, AwaitedAndPhaseNext DEF R!Act, R!GoOn, R!Finish
<1>5. CASE ~AllHandsAreStanding(ps)
  <2>1. players' = ps /\ UNCHANGED <<users, gameState>>
    BY <1>5 DEF CashOnceAllStand
  <2>2. Awaited' = waiting /\ Phase' = Phase /\ waiting # {}
    BY <1>1, <1>3, <1>5, <2>1, AwaitedAndPhaseNext DEF PlayedOn
  <2> QED
    BY <1>1, <1>2, <2>1, <2>2 DEF PlayedOn, R!Act, R!GoOn, R!roundVars
<1> QED
  BY <1>4, <1>5

(* Every handler is one step of the abstract round, or none: a seat is     *)
(* kept until its user leaves or the round ends, and each phase ends with  *)
(* the request or the departure of the last player it waits for.           *)
THEOREM RoundRefinement == Spec => RunsRounds
<1>1. Init => R!Init
  <2> SUFFICES ASSUME Init PROVE R!Init
    OBVIOUS
  <2>1. DOMAIN users = {} /\ DOMAIN players = {} /\ gameState = "NotStarted"
    BY DEF Init, NoPlayers
  <2> QED
    BY <2>1, AwaitedAndPhase DEF R!Init
<1>2. IInv /\ [Next]_vars => [R!Next]_R!roundVars
  <2> SUFFICES ASSUME IInv, [Next]_vars
               PROVE  R!Next \/ UNCHANGED R!roundVars
    OBVIOUS
  <2>1. CASE UNCHANGED vars
    BY <2>1 DEF vars, R!roundVars, Awaited, Phase, ABetIsPlaced
  <2>2. CASE Next
    <3>1. PICK c \in Socket :
            \/ ClientJoin(c)
            \/ ClientLeave(c)
            \/ SetReady(c)
            \/ \E bet \in Bets : BetRequest(c, bet)
            \/ HitRequest(c)
            \/ StandRequest(c)
      BY <2>2 DEF Next
    <3>2. \/ R!Connect(c) \/ R!Act(c) \/ R!Disconnect(c)
          \/ \E clients \in SUBSET Socket : R!Start(clients)
          \/ UNCHANGED R!roundVars
      BY <3>1, JoinConnects, LeaveDisconnects, ReadyStartsOrStutters, BetActsOrStutters,
         HitPlaysOn, StandPlaysOn, PlayingOnActs
    <3> QED
      BY <3>2 DEF R!Next
  <2> QED
    BY <2>1, <2>2
<1> QED
  BY <1>1, <1>2, Invariance, PTL DEF Spec, RunsRounds, R!Spec

-----------------------------------------------------------------------------
(* As long as nobody disconnects, no request of any player deals to a hand *)
(* that stands: cards are dealt when the last bet is placed, before any    *)
(* hand stands, or by the hit of a player whose own hand sits.             *)
THEOREM StandingHandsStay == Spec => StandingHandIsFinalWhileAllStay
<1> DEFINE Kept == DOMAIN users \subseteq DOMAIN users' =>
                     \A s \in DOMAIN players \cap DOMAIN players' :
                        players[s].state = "Standing" => players'[s] = players[s]
<1>1. IInv /\ [Next]_vars => Kept
  <2> SUFFICES ASSUME IInv, [Next]_vars, DOMAIN users \subseteq DOMAIN users',
                      NEW s \in DOMAIN players \cap DOMAIN players',
                      players[s].state = "Standing"
               PROVE  players'[s] = players[s]
    OBVIOUS
  <2>1. CASE players' = players
    BY <2>1
  <2>2. ASSUME NEW c \in Socket, ClientJoin(c) PROVE players' = players
    BY <2>2 DEF ClientJoin, JoinLobby
  <2>3. ASSUME NEW c \in Socket, ClientLeave(c) PROVE FALSE
    BY <2>3, LeaveDisconnects DEF R!Disconnect
  <2>4. ASSUME NEW c \in Socket, SetReady(c) PROVE FALSE
    BY <2>4 DEF SetReady, UserCanGetReady, IInv, PlayersAreTheReadyUsers
  <2>5. ASSUME NEW c \in Socket, NEW bet \in Bets, BetRequest(c, bet) PROVE FALSE
    BY <2>5 DEF BetRequest, PlayerCanBet, BasicRequestValidation, IInv, CardsBelongToTheRound
  <2>6. ASSUME NEW c \in Socket, NEW ps, PlayedOn(c, ps), CashOnceAllStand(ps)
        PROVE  players'[s] = players[s]
    <3>1. CASE AllHandsAreStanding(ps)
      BY <2>6, <3>1, CashingOutcome DEF CashOnceAllStand
    <3>2. CASE ~AllHandsAreStanding(ps)
      BY <2>6, <3>2 DEF CashOnceAllStand, PlayedOn
    <3> QED
      BY <3>1, <3>2
  <2> QED
    BY <2>1, <2>2, <2>3, <2>4, <2>5, <2>6, HitPlaysOn, StandPlaysOn DEF Next, vars
<1> QED
  BY <1>1, Invariance, PTL DEF Spec, StandingHandIsFinalWhileAllStay

-----------------------------------------------------------------------------
(* What cash adds to the bet and what it pays back are one multiple of it. *)
LEMMA ReceivedMoneyIsAMultiple ==
    ASSUME NEW player \in Player, ABetIsPlaced(player), NEW points
    PROVE  LET halves == 2 + WinMultiplierHalves(player.cards, points)
           IN  /\ halves \in {0, 2, 4, 5}
               /\ ReceivedMoney(player, points) = TimesHalves(player.bet, halves)
<1>1. player.bet \in Nat /\ player.bet # NaN
  BY NaNAssumption DEF Player, ABetIsPlaced, Exceeds
<1> DEFINE halves == WinMultiplierHalves(player.cards, points)
           income == (player.bet * halves) \div 2
<1>2. halves \in {-2, 0, 2, 3}
  BY DEF WinMultiplierHalves
<1>3. ReceivedMoney(player, points) = Plus(player.bet, TimesHalves(player.bet, halves))
  BY DEF ReceivedMoney
<1> HIDE DEF halves
<1>4. income \in Int /\ player.bet + income = (player.bet * (2 + halves)) \div 2
  <2>1. CASE halves = -2
    BY <1>1, <2>1
  <2>2. CASE halves = 0
    BY <1>1, <2>2
  <2>3. CASE halves = 2
    BY <1>1, <2>3
  <2>4. CASE halves = 3
    <3>1. \A b, half \in Nat : (b * 3) \div 2 = half => (b * 5) \div 2 = b + half
      OBVIOUS
    <3>2. (player.bet * 3) \div 2 \in Nat
      BY <1>1
    <3> QED
      BY <1>1, <2>4, <3>1, <3>2
  <2> QED
    BY <1>2, <2>1, <2>2, <2>3, <2>4
<1>5. income # NaN /\ TimesHalves(player.bet, halves) = income
  BY <1>1, <1>4, NaNAssumption DEF TimesHalves
<1> HIDE DEF income
<1>6. ReceivedMoney(player, points) = player.bet + income
  BY <1>1, <1>3, <1>5 DEF Plus
<1>7. 2 + halves \in {0, 2, 4, 5}
  BY <1>2
<1> QED
  BY <1>1, <1>4, <1>6, <1>7 DEF TimesHalves, halves

(* Everybody is paid his multiple, against the same dealer. *)
LEMMA CashedMoney ==
    ASSUME NEW us, NEW ps, NEW hand,
           GoodUsers(us), GoodPlayers(ps), DOMAIN ps \subseteq DOMAIN us,
           NaNStaysInBets(us, ps), AllPlayersHavePlacedTheirBets(ps),
           StartCashing(us, ps, hand)
    PROVE  \E points \in Nat : \A s \in DOMAIN us :
             IF s \in DOMAIN ps
             THEN LET halves == 2 + WinMultiplierHalves(ps[s].cards, points)
                  IN  /\ halves \in {0, 2, 4, 5}
                      /\ Minus(users'[s].money, us[s].money) = TimesHalves(ps[s].bet, halves)
             ELSE users'[s].money = us[s].money
<1>1. PICK final \in FinalDealersHands(hand) :
        users' = UnreadyAllPlayers(CashPlayers(us, ps, HandPoints(final)), ps)
  BY DEF StartCashing
<1> DEFINE points == HandPoints(final)
           paid == CashPlayers(us, ps, points)
<1>0. points \in Nat
  <2>1. final \in Hand
    BY DEF FinalDealersHands
  <2> QED
    BY <2>1 DEF HandPoints, Hand
<1> HIDE DEF points
<1>2. ASSUME NEW s \in DOMAIN us
      PROVE  users'[s].money = paid[s].money
  <2>1. s \in DOMAIN paid /\ users' = UnreadyAllPlayers(paid, ps)
    BY <1>1 DEF CashPlayers, points
  <2>2. paid[s] \in [money : {paid[s].money}, isReady : {us[s].isReady}]
    <3>1. us[s] \in User
      BY DEF GoodUsers
    <3> QED
      BY <3>1 DEF CashPlayers, User
  <2> HIDE DEF paid
  <2> QED
    BY <2>1, <2>2 DEF UnreadyAllPlayers
<1>3. ASSUME NEW s \in DOMAIN us, s \notin DOMAIN ps
      PROVE  users'[s].money = us[s].money
  BY <1>2, <1>3 DEF CashPlayers
<1>4. ASSUME NEW s \in DOMAIN us, s \in DOMAIN ps
      PROVE  LET halves == 2 + WinMultiplierHalves(ps[s].cards, points)
             IN  /\ halves \in {0, 2, 4, 5}
                 /\ Minus(users'[s].money, us[s].money) = TimesHalves(ps[s].bet, halves)
  <2>1. ps[s] \in Player /\ ABetIsPlaced(ps[s])
    BY <1>4 DEF GoodPlayers, AllPlayersHavePlacedTheirBets
  <2> DEFINE received == ReceivedMoney(ps[s], points)
             halves == 2 + WinMultiplierHalves(ps[s].cards, points)
  <2>2. received \in Nat
    BY <2>1, ReceivedMoneyIsNatural
  <2>3. halves \in {0, 2, 4, 5} /\ received = TimesHalves(ps[s].bet, halves)
    BY <2>1, ReceivedMoneyIsAMultiple
  <2>4. us[s].money \in Int /\ us[s].money # NaN
    <3>1. us[s] \in User
      BY DEF GoodUsers
    <3>2. us[s].money # NaN
      BY <1>4, <2>1 DEF NaNStaysInBets, ABetIsPlaced, Exceeds
    <3> QED
      BY <3>1, <3>2 DEF User, Money
  <2>5. users'[s].money = Plus(us[s].money, received)
    <3>1. us[s] \in User
      BY DEF GoodUsers
    <3> QED
      BY <1>2, <1>4, <3>1 DEF CashPlayers, User
  <2> HIDE DEF received, halves
  <2>6. users'[s].money = us[s].money + received /\ us[s].money + received # NaN
    BY <2>2, <2>4, <2>5, NaNAssumption DEF Plus
  <2>7. Minus(users'[s].money, us[s].money) = received
    BY <2>2, <2>4, <2>6 DEF Minus
  <2> QED
    BY <2>3, <2>7 DEF halves
<1> QED
  BY <1>0, <1>3, <1>4

(* What a step may do to the money of a user who stays. *)
Conserved(s) ==
    IF s \in Cashed
    THEN \E halves \in {0, 2, 4, 5} : Gain(s) = TimesHalves(BetOf(s), halves)
    ELSE Wealth(s)' \in {Wealth(s), NaN}

(* Nobody's money or bet changes. *)
LEMMA KeepingConserves ==
    ASSUME NEW s \in Stayed,
           users'[s].money = users[s].money,
           (IF s \in DOMAIN players' THEN players'[s].bet ELSE 0) = BetOf(s),
           s \in DOMAIN players => s \in DOMAIN players'
    PROVE  Conserved(s)
  BY DEF Conserved, Cashed, Wealth, BetOf

(* Everybody who stayed, and played, is cashed with the bet he had. *)
LEMMA CashingConserves ==
    ASSUME NEW us, NEW ps, NEW hand, NEW s \in Stayed,
           GoodUsers(us), GoodPlayers(ps), DOMAIN ps \subseteq DOMAIN us,
           NaNStaysInBets(us, ps), AllPlayersHavePlacedTheirBets(ps),
           us[s] = users[s],
           s \in DOMAIN players <=> s \in DOMAIN ps,
           s \in DOMAIN ps => ps[s].bet = players[s].bet,
           StartCashing(us, ps, hand)
    PROVE  Conserved(s)
<1>1. DOMAIN users' = DOMAIN us /\ DOMAIN players' = {}
  BY CashingOutcome
<1>2. s \in DOMAIN us
  BY <1>1 DEF Stayed
<1>3. CASE s \in DOMAIN ps
  <2>1. \E halves \in {0, 2, 4, 5} : Gain(s) = TimesHalves(ps[s].bet, halves)
    BY <1>2, <1>3, CashedMoney DEF Gain
  <2>2. s \in Cashed /\ BetOf(s) = ps[s].bet
    BY <1>1, <1>3 DEF Cashed, BetOf
  <2> QED
    BY <2>1, <2>2 DEF Conserved
<1>4. CASE s \notin DOMAIN ps
  <2>1. users'[s].money = users[s].money
    BY <1>2, <1>4, CashedMoney
  <2> QED
    BY <1>1, <1>4, <2>1, KeepingConserves DEF BetOf
<1> QED
  BY <1>3, <1>4

LEMMA DealingConserves ==
    ASSUME NEW us, NEW ps, NEW s \in Stayed,
           GoodUsers(us), GoodPlayers(ps), DOMAIN ps \subseteq DOMAIN us,
           NaNStaysInBets(us, ps), AllPlayersHavePlacedTheirBets(ps),
           us[s] = users[s],
           s \in DOMAIN players <=> s \in DOMAIN ps,
           s \in DOMAIN ps => ps[s].bet = players[s].bet,
           StartHitStandPhase(us, ps)
    PROVE  Conserved(s)
<1>1. CASE /\ users' = us
           /\ Dealt(ps, players')
  BY <1>1, KeepingConserves DEF Dealt, BetOf
<1>2. ASSUME NEW dealt, NEW hand, Dealt(ps, dealt), StartCashing(us, dealt, hand)
      PROVE  Conserved(s)
  <2>1. /\ DOMAIN dealt = DOMAIN ps
        /\ GoodPlayers(dealt)
        /\ \A t \in DOMAIN ps : dealt[t].bet = ps[t].bet
    BY <1>2 DEF Dealt
  <2>2. NaNStaysInBets(us, dealt) /\ AllPlayersHavePlacedTheirBets(dealt)
    BY <2>1 DEF NaNStaysInBets, AllPlayersHavePlacedTheirBets, ABetIsPlaced
  <2> QED
    BY <1>2, <2>1, <2>2, CashingConserves
<1> QED
  BY <1>1, <1>2, DealingOutcome

LEMMA LeaveConserves ==
    ASSUME IInv, NEW c \in Socket, ClientLeave(c), NEW s \in Stayed
    PROVE  Conserved(s)
<1>1. s # c /\ s \in DOMAIN users
  BY LeaveDisconnects DEF R!Disconnect, Stayed
<1>2. CASE c \notin DOMAIN players
  BY <1>1, <1>2, KeepingConserves DEF ClientLeave, Erase, BetOf, Stayed
<1>3. CASE c \in DOMAIN players
  <2> DEFINE us == Erase(users, c)
             ps == Erase(players, c)
  <2>1. /\ GoodUsers(us) /\ GoodPlayers(ps) /\ DOMAIN ps \subseteq DOMAIN us
        /\ NaNStaysInBets(us, ps)
        /\ us[s] = users[s]
        /\ s \in DOMAIN players <=> s \in DOMAIN ps
        /\ s \in DOMAIN ps => ps[s].bet = players[s].bet
    <3>1. /\ GoodUsers(us) /\ GoodPlayers(ps) /\ Seated(us, ps)
          /\ NaNStaysInBets(us, ps)
          /\ DOMAIN ps = DOMAIN players \ {c}
          /\ \A t \in DOMAIN users \ {c} : us[t] = users[t]
          /\ \A t \in DOMAIN players \ {c} : ps[t] = players[t]
      BY <1>3, ErasedMaps
    <3> HIDE DEF us, ps
    <3>2. DOMAIN ps \subseteq DOMAIN us
      BY <3>1 DEF Seated
    <3> QED
      BY <1>1, <3>1, <3>2
  <2>2. \/ DOMAIN ps = {} /\ EndGame /\ users' = us
        \/ AllPlayersHavePlacedTheirBets(ps) /\ StartHitStandPhase(us, ps)
        \/ /\ DOMAIN ps # {} /\ AllHandsAreStanding(ps)
           /\ ~AllPlayersHavePlacedTheirBets(ps)
        \/ users' = us /\ players' = ps
    BY <1>3 DEF ClientLeave, LeaveGame
  <2>3. ~ (/\ DOMAIN ps # {} /\ AllHandsAreStanding(ps)
           /\ ~AllPlayersHavePlacedTheirBets(ps))
    <3> SUFFICES ASSUME DOMAIN ps # {}, AllHandsAreStanding(ps),
                        ~AllPlayersHavePlacedTheirBets(ps)
                 PROVE  FALSE
      OBVIOUS
    <3>1. \A t \in DOMAIN ps : t \in DOMAIN players /\ ps[t] = players[t]
      BY <1>3, ErasedMaps
    <3>2. gameState = "BettingPhase"
      BY <1>3, <3>1
         DEF IInv, TypeOK, GameStates, PlayersAreTheReadyUsers, RoundAwaitsSomeone,
             AllPlayersHavePlacedTheirBets
    <3> QED
      BY <3>1, <3>2 DEF IInv, CardsBelongToTheRound, AllHandsAreStanding
  <2> HIDE DEF us, ps
  <2>4. CASE DOMAIN ps = {} /\ EndGame /\ users' = us
    BY <2>1, <2>4, KeepingConserves DEF EndGame, NoPlayers, BetOf
  <2>5. CASE AllPlayersHavePlacedTheirBets(ps) /\ StartHitStandPhase(us, ps)
    BY <2>1, <2>5, DealingConserves
  <2>6. CASE users' = us /\ players' = ps
    BY <2>1, <2>6, KeepingConserves DEF BetOf
  <2> QED
    BY <2>2, <2>3, <2>4, <2>5, <2>6
<1> QED
  BY <1>2, <1>3

(* What executeBet takes from the money it adds to the bet. *)
LEMMA BetConserves ==
    ASSUME IInv, NEW c \in Socket, NEW bet \in Bets, BetRequest(c, bet), NEW s \in Stayed
    PROVE  Conserved(s)
<1> DEFINE money  == Minus(users[c].money, bet.amount)
           amount == Plus(players[c].bet, bet.amount)
           us == [users EXCEPT ![c].money = money]
           ps == [players EXCEPT ![c].bet = amount]
<1>1. /\ c \in DOMAIN users /\ c \in DOMAIN players
      /\ gameState = "BettingPhase"
      /\ BetIsAccepted(c, bet)
      /\ StartHitStandPhase(us, ps) \/ (users' = us /\ players' = ps)
  BY DEF BetRequest, PlayerCanBet, BasicRequestValidation
<1>2. /\ users[c] \in User /\ players[c] \in Player
      /\ users[c].money \in Int \cup {NaN} /\ players[c].bet \in Int \cup {NaN}
      /\ bet.amount \in Int \cup {NaN}
  BY <1>1, MoneyAssumption DEF IInv, TypeOK, User, Player, Money, Bets
<1>3. amount \in Nat \cup {NaN}
  BY <1>1, AcceptedBet
<1>4. Plus(money, amount) \in {Plus(users[c].money, players[c].bet), NaN}
  <2>1. CASE NaN \in {users[c].money, players[c].bet, bet.amount}
    BY <2>1 DEF Plus, Minus
  <2>2. CASE NaN \notin {users[c].money, players[c].bet, bet.amount}
    <3>1. money = users[c].money - bet.amount /\ amount = players[c].bet + bet.amount
      BY <2>2 DEF Plus, Minus
    <3>2. money \in Int /\ amount \in Int
      BY <1>2, <2>2, <3>1
    <3>3. Plus(money, amount) = money + amount
      BY <3>2, NaNAssumption DEF Plus
    <3>4. money + amount = users[c].money + players[c].bet
      BY <1>2, <2>2, <3>1
    <3> QED
      BY <2>2, <3>3, <3>4 DEF Plus
  <2> QED
    BY <2>1, <2>2
<1> HIDE DEF money, amount
<1>5. /\ DOMAIN us = DOMAIN users /\ DOMAIN ps = DOMAIN players
      /\ us[c].money = money /\ ps[c].bet = amount
      /\ \A t \in DOMAIN users \ {c} : us[t] = users[t]
      /\ \A t \in DOMAIN players \ {c} : ps[t] = players[t]
      /\ ps[c] \in Player /\ ps[c].state = players[c].state
  BY <1>1, <1>2, <1>3 DEF User, Player
<1>6. GoodPlayers(ps) /\ ~AllHandsAreStanding(ps)
  BY <1>1, <1>5
     DEF IInv, TypeOK, CardsBelongToTheRound, GoodPlayers, AllHandsAreStanding
<1> HIDE DEF us, ps
<1>7. /\ users' = us
      /\ DOMAIN players' = DOMAIN players
      /\ \A t \in DOMAIN players : players'[t].bet = ps[t].bet
  BY <1>1, <1>5, <1>6, DealingOutcome DEF Dealt
<1>8. CASE s = c
  <2>1. Wealth(s)' = Plus(money, amount) /\ Wealth(s) = Plus(users[c].money, players[c].bet)
    BY <1>1, <1>5, <1>7, <1>8 DEF Wealth, BetOf
  <2> QED
    BY <1>1, <1>4, <1>7, <1>8, <2>1 DEF Conserved, Cashed
<1>9. CASE s # c
  BY <1>5, <1>7, <1>9, KeepingConserves DEF BetOf, Stayed
<1> QED
  BY <1>8, <1>9

LEMMA PlayingOnConserves ==
    ASSUME IInv, NEW c, NEW ps, PlayedOn(c, ps), CashOnceAllStand(ps), NEW s \in Stayed
    PROVE  Conserved(s)
<1>1. /\ DOMAIN ps = DOMAIN players
      /\ \A t \in DOMAIN ps : ps[t].bet = players[t].bet
  BY DEF PlayedOn
<1>2. CASE AllHandsAreStanding(ps)
  <2>1. /\ GoodUsers(users) /\ GoodPlayers(ps) /\ DOMAIN ps \subseteq DOMAIN users
        /\ NaNStaysInBets(users, ps)
        /\ AllPlayersHavePlacedTheirBets(ps)
    BY <1>1 DEF PlayedOn, IInv, TypeOK, PlayersAreTheReadyUsers, NotANumberStaysInItsBet,
                RoundAwaitsSomeone, GoodUsers, NaNStaysInBets,
                AllPlayersHavePlacedTheirBets, ABetIsPlaced
  <2> QED
    BY <1>1, <1>2, <2>1, CashingConserves DEF CashOnceAllStand
<1>3. CASE ~AllHandsAreStanding(ps)
  BY <1>1, <1>3, KeepingConserves DEF CashOnceAllStand, BetOf
<1> QED
  BY <1>2, <1>3

LEMMA ReadyConserves ==
    ASSUME IInv, NEW c \in Socket, SetReady(c), NEW s \in Stayed
    PROVE  Conserved(s)
<1> DEFINE us == [users EXCEPT ![c].isReady = TRUE]
<1>1. /\ gameState = "NotStarted"
      /\ users' = us
      /\ players' = players \/ players' = Insert(players, GetJoinables(us), NewPlayer)
  BY DEF SetReady, UserCanGetReady, StartGame
<1>2. users'[s].money = users[s].money
  BY <1>1 DEF Stayed
<1>3. DOMAIN players = {}
  BY <1>1 DEF IInv, PlayersAreTheReadyUsers
<1> HIDE DEF us
<1>4. (IF s \in DOMAIN players' THEN players'[s].bet ELSE 0) = BetOf(s)
  BY <1>1, <1>3 DEF Insert, NewPlayer, BetOf
<1> QED
  BY <1>2, <1>3, <1>4, KeepingConserves

(* Money moves between a user and his bet, and from the house only when he *)
(* is cashed: nothing is lost when others leave, no bet is paid twice.     *)
THEOREM MoneyCorrect == Spec => MoneyIsConserved
<1>1. IInv /\ [Next]_vars => \A s \in Stayed : Conserved(s)
  <2> SUFFICES ASSUME IInv, [Next]_vars, NEW s \in Stayed PROVE Conserved(s)
    OBVIOUS
  <2>1. CASE UNCHANGED vars
    BY <2>1, KeepingConserves DEF vars, BetOf
  <2>2. ASSUME NEW c \in Socket, ClientJoin(c) PROVE Conserved(s)
    BY <2>2, KeepingConserves DEF ClientJoin, JoinLobby, Insert, BetOf, Stayed
  <2> QED
    BY <2>1, <2>2, LeaveConserves, ReadyConserves, BetConserves,
       HitPlaysOn, StandPlaysOn, PlayingOnConserves DEF Next
<1>2. (\A s \in Stayed : Conserved(s)) =>
      \A s \in Stayed :
          IF s \in Cashed
          THEN \E halves \in {0, 2, 4, 5} : Gain(s) = TimesHalves(BetOf(s), halves)
          ELSE Wealth(s)' \in {Wealth(s), NaN}
  BY DEF Conserved
<1> QED
  BY <1>1, <1>2, Invariance, PTL DEF Spec, MoneyIsConserved

-----------------------------------------------------------------------------
(* What the comparison of two gains needs beside IInv: every card counts a *)
(* point at least, so that no hand of two cards has none, and bets are     *)
(* even, so that 3/2 of a bet is exact.                                    *)
Counted(ps) ==
    \A s \in DOMAIN ps :
        /\ ps[s].cards.hard >= ps[s].cards.size
        /\ ps[s].bet # NaN => ps[s].bet % 2 = 0

HandsAreCounted == Counted(players)

LEMMA WithCardCounts ==
    ASSUME NEW hand \in Hand, hand.hard >= hand.size, NEW rank \in DealtRanks
    PROVE  WithCard(hand, rank).hard >= WithCard(hand, rank).size
<1>1. rank \in Rank
  BY DealtRanksAssumption
<1>2. CardPoints[rank] \in Nat /\ CardPoints[rank] >= 1
  BY <1>1 DEF CardPoints, Rank, kAce, kTen
<1> QED
  BY <1>2 DEF WithCard, Hand

LEMMA DealingCounts ==
    ASSUME NEW ps, GoodPlayers(ps), Counted(ps), NEW dealt, Dealt(ps, dealt)
    PROVE  Counted(dealt)
<1> SUFFICES ASSUME NEW s \in DOMAIN ps
             PROVE  /\ dealt[s].cards.hard >= dealt[s].cards.size
                    /\ dealt[s].bet # NaN => dealt[s].bet % 2 = 0
  BY DEF Counted, Dealt
<1>1. PICK pair \in Pairs : dealt[s].cards = TwoMoreCards(ps[s].cards, pair)
  BY DEF Dealt
<1>2. pair[1] \in DealtRanks /\ pair[2] \in DealtRanks
  BY DEF Pairs
<1>3. ps[s].cards \in Hand /\ ps[s].cards.hard >= ps[s].cards.size
  BY DEF GoodPlayers, Player, Counted
<1> DEFINE one == WithCard(ps[s].cards, pair[1])
<1>4. one \in Hand /\ one.hard >= one.size
  BY <1>2, <1>3, WithCardIsAHand, WithCardCounts
<1>5. dealt[s].cards.hard >= dealt[s].cards.size
  BY <1>1, <1>2, <1>4, WithCardCounts DEF TwoMoreCards
<1> QED
  BY <1>5 DEF Counted, Dealt

(* The next phase, whichever it is, has counted hands if ps has. *)
LEMMA NextPhaseCounts ==
    ASSUME NEW us, NEW ps, GoodPlayers(ps), Counted(ps), StartHitStandPhase(us, ps)
    PROVE  Counted(players')
<1>1. DOMAIN players' = {} \/ Dealt(ps, players')
  BY DealingOutcome, CashingOutcome
<1> QED
  BY <1>1, DealingCounts DEF Counted

LEMMA LeaveCounts ==
    ASSUME IInv, HandsAreCounted, NEW c \in Socket, ClientLeave(c)
    PROVE  Counted(players')
<1>1. CASE c \notin DOMAIN players
  BY <1>1 DEF ClientLeave, HandsAreCounted
<1>2. CASE c \in DOMAIN players
  <2> DEFINE us == Erase(users, c)
             ps == Erase(players, c)
  <2>1. GoodPlayers(ps) /\ Counted(ps)
    BY <1>2, ErasedMaps DEF HandsAreCounted, Counted
  <2>2. \/ players' = NoPlayers
        \/ StartHitStandPhase(us, ps)
        \/ \E hand : StartCashing(us, ps, hand)
        \/ players' = ps
    BY <1>2 DEF ClientLeave, LeaveGame, EndGame
  <2> HIDE DEF us, ps
  <2>3. Counted(NoPlayers)
    BY DEF Counted, NoPlayers
  <2>4. (\E hand : StartCashing(us, ps, hand)) => Counted(players')
    BY CashingOutcome DEF Counted
  <2> QED
    BY <2>1, <2>2, <2>3, <2>4, NextPhaseCounts
<1> QED
  BY <1>1, <1>2

LEMMA BetCounts ==
    ASSUME IInv, HandsAreCounted, NEW c \in Socket, NEW bet \in Bets, BetRequest(c, bet)
    PROVE  Counted(players')
<1> DEFINE amount == Plus(players[c].bet, bet.amount)
           us == [users EXCEPT ![c].money = Minus(@, bet.amount)]
           ps == [players EXCEPT ![c].bet = amount]
<1>1. /\ c \in DOMAIN users /\ c \in DOMAIN players
      /\ BetIsAccepted(c, bet)
      /\ StartHitStandPhase(us, ps) \/ players' = ps
  BY DEF BetRequest, PlayerCanBet, BasicRequestValidation
<1>2. amount \in Nat \cup {NaN}
  BY <1>1, AcceptedBet
<1>3. amount # NaN => amount % 2 = 0
  <2> SUFFICES ASSUME amount # NaN PROVE amount % 2 = 0
    OBVIOUS
  <2>1. /\ players[c].bet # NaN /\ bet.amount # NaN
        /\ amount = players[c].bet + bet.amount
    BY DEF Plus
  <2>2. players[c].bet \in Int /\ players[c].bet % 2 = 0
    BY <1>1, <2>1 DEF IInv, TypeOK, Player, HandsAreCounted, Counted
  <2>3. bet.amount \in Int /\ bet.amount % 2 = 0
    BY <2>1, MoneyAssumption DEF Bets
  <2> HIDE DEF amount
  <2> QED
    BY <2>1, <2>2, <2>3
<1> HIDE DEF amount
<1>4. /\ DOMAIN ps = DOMAIN players
      /\ ps[c] \in Player /\ ps[c].bet = amount /\ ps[c].cards = players[c].cards
      /\ \A t \in DOMAIN players \ {c} : ps[t] = players[t]
  BY <1>1, <1>2 DEF IInv, TypeOK, Player
<1>5. GoodPlayers(ps)
  BY <1>4 DEF IInv, TypeOK, GoodPlayers
<1> HIDE DEF us, ps
<1>6. Counted(ps)
  BY <1>3, <1>4 DEF HandsAreCounted, Counted
<1> QED
  BY <1>1, <1>5, <1>6, NextPhaseCounts

LEMMA PlayingOnCounts ==
    ASSUME IInv, HandsAreCounted, NEW c, NEW ps, PlayedOn(c, ps), CashOnceAllStand(ps)
    PROVE  Counted(players')
<1>1. players[c].cards \in Hand /\ players[c].cards.hard >= players[c].cards.size
  BY DEF PlayedOn, IInv, TypeOK, Player, HandsAreCounted, Counted
<1>2. ps[c].cards.hard >= ps[c].cards.size
  BY <1>1, WithCardCounts DEF PlayedOn
<1>3. Counted(ps)
  BY <1>2 DEF PlayedOn, HandsAreCounted, Counted
<1>4. players' = ps \/ DOMAIN players' = {}
  BY CashingOutcome DEF CashOnceAllStand
<1> QED
  BY <1>3, <1>4 DEF Counted

LEMMA CountedInvariance == Spec => []HandsAreCounted
<1>1. Init => HandsAreCounted
  BY DEF Init, NoPlayers, HandsAreCounted, Counted
<1>2. IInv /\ HandsAreCounted /\ [Next]_vars => HandsAreCounted'
  <2> SUFFICES ASSUME IInv, HandsAreCounted, [Next]_vars PROVE Counted(players')
    BY DEF HandsAreCounted, Counted
  <2>1. CASE players' = players
    BY <2>1 DEF HandsAreCounted
  <2>2. ASSUME NEW c \in Socket, SetReady(c) PROVE Counted(players')
    <3>1. DOMAIN players = {}
      BY <2>2 DEF SetReady, UserCanGetReady, IInv, PlayersAreTheReadyUsers
    <3>2. Counted(players) /\ \A keys : Counted(Insert(players, keys, NewPlayer))
      BY <3>1 DEF Counted, Insert, NewPlayer, NoCards
    <3> QED
      BY <2>2, <3>2 DEF SetReady, StartGame
  <2> QED
    BY <2>1, <2>2, LeaveCounts, BetCounts, HitPlaysOn, StandPlaysOn, PlayingOnCounts
       DEF Next, vars, ClientJoin, JoinLobby
<1> QED
  BY <1>1, <1>2, Invariance, PTL DEF Spec

(* Against the same dealer, the stronger hand has the higher multiplier. *)
LEMMA StrongerHandWins ==
    ASSUME NEW h \in Hand, h.size >= 2, h.hard >= h.size,
           NEW g \in Hand, g.size >= 2, g.hard >= g.size,
           NEW points \in Nat
    PROVE  /\ Strength(h) = 0 => WinMultiplierHalves(h, points) = -2
           /\ Strength(h) >= Strength(g) =>
                 WinMultiplierHalves(h, points) >= WinMultiplierHalves(g, points)
<1>1. /\ HandPoints(h) \in Nat /\ HandPoints(h) >= 2
      /\ HandPoints(g) \in Nat /\ HandPoints(g) >= 2
  BY DEF Hand, HandPoints
<1>2. \A x \in {h, g} :
        \/ /\ HandPoints(x) > 21
           /\ Strength(x) = 0
           /\ WinMultiplierHalves(x, points) = -2
        \/ /\ HandPoints(x) <= 21 /\ IsBlackjack(x)
           /\ Strength(x) = 22
           /\ WinMultiplierHalves(x, points) = 3
        \/ /\ HandPoints(x) <= 21 /\ ~IsBlackjack(x)
           /\ Strength(x) = HandPoints(x)
           /\ WinMultiplierHalves(x, points) =
                 IF points > 21 \/ HandPoints(x) > points THEN 2
                 ELSE IF HandPoints(x) < points THEN -2 ELSE 0
  BY <1>1 DEF Strength, WinMultiplierHalves, IsBusted, IsBustedPoints, blackjackPoints
<1> QED
  BY <1>1, <1>2

(* So it earns as much per coin, since 3/2 of an even bet is exact. *)
LEMMA HigherMultiplierEarnsNoLess ==
    ASSUME NEW b \in Nat, NEW c \in Nat, b % 2 = 0, c % 2 = 0,
           NEW h \in {0, 2, 4, 5}, NEW g \in {0, 2, 4, 5}, h >= g
    PROVE  TimesHalves(b, h) * c >= TimesHalves(c, g) * b
<1>1. PICK k \in Nat : b = 2 * k
  BY b = 2 * (b \div 2), b \div 2 \in Nat
<1>2. PICK l \in Nat : c = 2 * l
  BY c = 2 * (c \div 2), c \div 2 \in Nat
<1>3. b # NaN /\ c # NaN
  BY NaNAssumption
<1>4. TimesHalves(b, h) = k * h /\ TimesHalves(c, g) = l * g
  <2>1. \A n \in Nat : \A m \in {0, 2, 4, 5} : (2 * n * m) \div 2 = n * m
    OBVIOUS
  <2> QED
    BY <1>1, <1>2, <1>3, <2>1 DEF TimesHalves
<1>5. k * l \in Nat
  OBVIOUS
<1>6. (k * h) * (2 * l) = (2 * h) * (k * l) /\ (l * g) * (2 * k) = (2 * g) * (k * l)
  OBVIOUS
<1>7. (2 * h) * (k * l) >= (2 * g) * (k * l)
  <2> DEFINE n == k * l
  <2> HIDE DEF n
  <2>1. n \in Nat => (2 * h) * n >= (2 * g) * n
    OBVIOUS
  <2> QED
    BY <1>5, <2>1 DEF n
<1> QED
  BY <1>1, <1>2, <1>4, <1>6, <1>7

(* A step at which nobody connects or disconnects cashes players only when *)
(* the last of them hits or stands. *)
LEMMA CashingIsPlayedOn ==
    ASSUME IInv, Next, DOMAIN users = DOMAIN users', Cashed # {}
    PROVE  \E c, ps : /\ PlayedOn(c, ps)
                      /\ AllHandsAreStanding(ps)
                      /\ StartCashing(users, ps, dealersHand)
<1>1. PICK s \in Cashed : s \in DOMAIN players /\ s \notin DOMAIN players'
  BY DEF Cashed
<1>2. ASSUME NEW c \in Socket, ClientJoin(c) PROVE FALSE
  BY <1>1, <1>2 DEF ClientJoin, JoinLobby
<1>3. ASSUME NEW c \in Socket, ClientLeave(c) PROVE FALSE
  BY <1>3, LeaveDisconnects DEF R!Disconnect
<1>4. ASSUME NEW c \in Socket, SetReady(c) PROVE FALSE
  BY <1>1, <1>4 DEF SetReady, UserCanGetReady, IInv, PlayersAreTheReadyUsers
<1>5. ASSUME NEW c \in Socket, NEW bet \in Bets, BetRequest(c, bet) PROVE FALSE
  <2> DEFINE us == [users EXCEPT ![c].money = Minus(@, bet.amount)]
             ps == [players EXCEPT ![c].bet = Plus(@, bet.amount)]
  <2>1. /\ c \in DOMAIN users /\ c \in DOMAIN players
        /\ gameState = "BettingPhase"
        /\ BetIsAccepted(c, bet)
        /\ StartHitStandPhase(us, ps) \/ players' = ps
    BY <1>5 DEF BetRequest, PlayerCanBet, BasicRequestValidation
  <2>2. Plus(players[c].bet, bet.amount) \in Nat \cup {NaN}
    BY <2>1, AcceptedBet
  <2>3. /\ DOMAIN ps = DOMAIN players
        /\ \A t \in DOMAIN players : ps[t] \in Player /\ ps[t].state = "Sitting"
    BY <2>1, <2>2 DEF IInv, TypeOK, CardsBelongToTheRound, Player
  <2>4. GoodPlayers(ps) /\ ~AllHandsAreStanding(ps)
    BY <2>1, <2>3 DEF IInv, TypeOK, GoodPlayers, AllHandsAreStanding
  <2> HIDE DEF us, ps
  <2> QED
    BY <1>1, <2>1, <2>3, <2>4, DealingOutcome DEF Dealt
<1>6. ASSUME NEW c, NEW ps, PlayedOn(c, ps), CashOnceAllStand(ps)
      PROVE  AllHandsAreStanding(ps) /\ StartCashing(users, ps, dealersHand)
  BY <1>1, <1>6 DEF CashOnceAllStand, PlayedOn
<1> QED
  BY <1>2, <1>3, <1>4, <1>5, <1>6, HitPlaysOn, StandPlaysOn DEF Next

(* No player is better off with a weaker hand: whoever was standing before *)
(* the round ended earns per coin at least what a weaker hand earns, the   *)
(* hand of the player who ended it included, and nothing if busted.        *)
THEOREM CashingIsFair == Spec => StrongerHandEarnsNoLess
<1> DEFINE Fair == DOMAIN users = DOMAIN users' =>
              \A s, t \in Cashed :
                 players[s].state = "Standing" =>
                   /\ Strength(players[s].cards) = 0 => Gain(s) = 0
                   /\ Strength(players[s].cards) >= Strength(players[t].cards) =>
                         Gain(s) * BetOf(t) >= Gain(t) * BetOf(s)
<1>1. IInv /\ HandsAreCounted /\ [Next]_vars => Fair
  <2> SUFFICES ASSUME IInv, HandsAreCounted, [Next]_vars, DOMAIN users = DOMAIN users',
                      NEW s \in Cashed, NEW t \in Cashed, players[s].state = "Standing"
               PROVE  /\ Strength(players[s].cards) = 0 => Gain(s) = 0
                      /\ Strength(players[s].cards) >= Strength(players[t].cards) =>
                            Gain(s) * BetOf(t) >= Gain(t) * BetOf(s)
    OBVIOUS
  <2>1. /\ s \in DOMAIN players /\ s \in DOMAIN users
        /\ t \in DOMAIN players /\ t \in DOMAIN users
        /\ players' # players
    BY DEF Cashed, Stayed
  <2>2. PICK c, ps : /\ PlayedOn(c, ps)
                     /\ AllHandsAreStanding(ps)
                     /\ StartCashing(users, ps, dealersHand)
    BY <2>1, CashingIsPlayedOn DEF vars
  <2>3. /\ DOMAIN ps = DOMAIN players /\ GoodPlayers(ps)
        /\ ps[s] = players[s]
        /\ ps[t].bet = players[t].bet
        /\ ps[t].cards = players[t].cards \/ IsBusted(ps[t].cards)
    BY <2>1, <2>2 DEF PlayedOn, AllHandsAreStanding
  <2>4. /\ GoodUsers(users) /\ DOMAIN ps \subseteq DOMAIN users
        /\ NaNStaysInBets(users, ps)
        /\ AllPlayersHavePlacedTheirBets(ps)
    BY <2>2 DEF PlayedOn, IInv, TypeOK, PlayersAreTheReadyUsers, NotANumberStaysInItsBet,
                RoundAwaitsSomeone, GoodUsers, NaNStaysInBets,
                AllPlayersHavePlacedTheirBets, ABetIsPlaced
  <2>5. PICK points \in Nat : \A x \in DOMAIN users :
          x \in DOMAIN ps =>
             LET halves == 2 + WinMultiplierHalves(ps[x].cards, points)
             IN  /\ halves \in {0, 2, 4, 5}
                 /\ Minus(users'[x].money, users[x].money) = TimesHalves(ps[x].bet, halves)
    BY <2>2, <2>3, <2>4, CashedMoney
  <2> DEFINE halves(x) == 2 + WinMultiplierHalves(ps[x].cards, points)
             b == BetOf(s)
             d == BetOf(t)
  <2>6. /\ halves(s) \in {0, 2, 4, 5} /\ Gain(s) = TimesHalves(b, halves(s))
        /\ halves(t) \in {0, 2, 4, 5} /\ Gain(t) = TimesHalves(d, halves(t))
    BY <2>1, <2>3, <2>5 DEF Gain, BetOf
  <2>7. b \in Nat /\ b % 2 = 0 /\ d \in Nat /\ d % 2 = 0
    BY <2>1, <2>3, <2>4 DEF IInv, TypeOK, Player, HandsAreCounted, Counted, BetOf,
       AllPlayersHavePlacedTheirBets, ABetIsPlaced, Exceeds
  <2>8. \A x \in {s, t} : /\ players[x].cards \in Hand
                          /\ players[x].cards.size >= 2
                          /\ players[x].cards.hard >= players[x].cards.size
    BY <2>1, <2>2 DEF PlayedOn, IInv, TypeOK, CardsBelongToTheRound, Player,
                      HandsAreCounted, Counted
  <2>9. Strength(players[s].cards) = 0 => halves(s) = 0
    BY <2>3, <2>8, StrongerHandWins
  <2>10. ASSUME Strength(players[s].cards) >= Strength(players[t].cards)
         PROVE  halves(s) >= halves(t)
    <3>1. CASE ps[t].cards = players[t].cards
      <4>1. WinMultiplierHalves(ps[s].cards, points) >= WinMultiplierHalves(ps[t].cards, points)
        BY <2>3, <2>8, <2>10, <3>1, StrongerHandWins
      <4>2. \A x : WinMultiplierHalves(ps[x].cards, points) \in {-2, 0, 2, 3}
        BY DEF WinMultiplierHalves
      <4> QED
        BY <4>1, <4>2
    <3>2. CASE IsBusted(ps[t].cards)
      <4>1. halves(t) = 0
        BY <3>2 DEF IsBusted, WinMultiplierHalves
      <4> QED
        BY <2>6, <4>1
    <3> QED
      BY <2>3, <3>1, <3>2
  <2> HIDE DEF halves, b, d
  <2>11. TimesHalves(b, 0) = 0
    BY <2>7, NaNAssumption DEF TimesHalves
  <2>12. halves(s) >= halves(t) => Gain(s) * d >= Gain(t) * b
    BY <2>6, <2>7, HigherMultiplierEarnsNoLess
  <2> QED
    BY <2>6, <2>9, <2>10, <2>11, <2>12 DEF b, d
<1> QED
  BY <1>1, Invariance, CountedInvariance, PTL DEF Spec, StrongerHandEarnsNoLess
=============================================================================
