----------------------------- MODULE GameServer -----------------------------
(***************************************************************************)
(* The Blackjack server's game: BjDatabase (users, players, gameSession)   *)
(* and every handler of LobbyController and GameSessionController that     *)
(* changes it.  The server runs handlers one at a time on one thread, so a *)
(* handler, with every call it makes down to the cashing of the players,   *)
(* is one action.                                                          *)
(*                                                                         *)
(* users and players are the two unordered_maps, keyed by the socket (a    *)
(* user's uniqueId is his socket).  A player's one hand (createThePlayers  *)
(* pushes exactly one) is inlined in the player.  Names and chat, which    *)
(* the game never reads, are left out, and so are the views; the shoe is   *)
(* an endless supply of DealtRanks.  That a socket joins as no user and    *)
(* leaves as one is the business of BlackjackSystem.tla.                   *)
(***************************************************************************)
EXTENDS PointsTools, Amounts

CONSTANTS Socket,        \* file descriptors the server can hand to clients
          initialMoney,  \* what a new user owns
          BetAmounts,    \* amounts a bet request can carry, also unusable ones
          HandIndexes,   \* hand indexes a bet request can carry
          DealtRanks,    \* ranks that can come out of the shoe
          MaxMoney,      \* bound: a richer user no longer gets ready
          MaxHandCards   \* bound: a player no longer hits a hand of this size

(* Money is counted in a unit in which every bet is even, so that the 3/2  *)
(* of a blackjack is a whole amount.                                       *)
ASSUME MoneyAssumption ==
    /\ initialMoney \in Nat
    /\ \A amount \in BetAmounts \ {NaN} : amount \in Int /\ amount % 2 = 0

ASSUME DealtRanksAssumption == DealtRanks \subseteq Rank

VARIABLES users,        \* m_dbContext->users
          players,      \* m_dbContext->players
          gameState,    \* gameSession.state
          dealersHand   \* gameSession.dealersHand

vars == <<users, players, gameState, dealersHand>>

-----------------------------------------------------------------------------
(* kCashingPhase exists in the enum and is never assigned. *)
GameStates == {"NotStarted", "BettingPhase", "HitStandPhase"}

\* executeBet accepts a bet that is up to epsilon more than the money.
Money == {amount \in Int : amount >= -epsilon} \cup {NaN}

User == [money : Money, isReady : BOOLEAN]

Player == [cards : Hand, bet : Nat \cup {NaN}, state : {"Sitting", "Standing"}]

NewUser == [money |-> initialMoney, isReady |-> FALSE]

NewPlayer == [cards |-> NoCards, bet |-> 0, state |-> "Sitting"]

NoPlayers == [s \in {} |-> NewPlayer]

\* unordered_map::insert of one value under several keys: a key already
\* there keeps its value.
Insert(map, keys, value) ==
    [k \in DOMAIN map \cup keys |-> IF k \in DOMAIN map THEN map[k] ELSE value]

\* unordered_map::erase
Erase(map, key) == [k \in DOMAIN map \ {key} |-> map[k]]

-----------------------------------------------------------------------------
(* UserManager *)
\* Mutant: a user without money counts as solvent.
UserIsInDebt(user) == AtMost(user.money, -epsilon - 1)

UserIsBankrupt(user) == AtMost(user.money, epsilon)

GetJoinables(us) == {s \in DOMAIN us : ~UserIsBankrupt(us[s])}

GetUsersToWait(us) == {s \in GetJoinables(us) : ~us[s].isReady}

GameIsReady(us) ==
    /\ gameState = "NotStarted"
    /\ GetJoinables(us) # {}
    /\ GetUsersToWait(us) = {}

UnreadyAllPlayers(us, ps) ==
    [s \in DOMAIN us |->
        IF s \in DOMAIN ps THEN [us[s] EXCEPT !.isReady = FALSE] ELSE us[s]]

(* PlayerHandLogic, GameStatusLogic *)
\* Mutant: the comparison turned round and negated, which NaN passes.
ABetIsNotTooSmall(player) == ~AtMost(player.bet, epsilon)

ABetIsPlaced(player) == Exceeds(player.bet, epsilon)

AllPlayersHavePlacedTheirBets(ps) == \A s \in DOMAIN ps : ABetIsPlaced(ps[s])

\* Mutant: the wrong algorithm, any_of without the two negations.
AnyHandIsStanding(ps) == \E s \in DOMAIN ps : ps[s].state = "Standing"

AllHandsAreStanding(ps) == \A s \in DOMAIN ps : ps[s].state = "Standing"

-----------------------------------------------------------------------------
(* DealerLogic *)
\* Two cards of the shoe, whose order does not change a tally.
Pairs == {pair \in DealtRanks \X DealtRanks : pair[1] <= pair[2]}

TwoMoreCards(hand, pair) == WithCard(WithCard(hand, pair[1]), pair[2])

\* One turn of the drawing loop.
DrawBelowLimit(hand) ==
    IF HandPoints(hand) < dealerPointsLimit
    THEN {WithCard(hand, rank) : rank \in DealtRanks}
    ELSE {hand}

\* dealFinalDealersCards: a card adds a point at least, so the loop is over
\* after dealerPointsLimit turns; it stops on a hand at or over the limit.
FinalDealersHands(hand) ==
    LET after[n \in 0 .. dealerPointsLimit] ==
            IF n = 0 THEN {hand} ELSE UNION {DrawBelowLimit(h) : h \in after[n - 1]}
    IN  {h \in after[dealerPointsLimit] \cap Hand : HandPoints(h) >= dealerPointsLimit}

-----------------------------------------------------------------------------
(* PlayerLogic::cash.  Multipliers are counted in halves. *)
\* Mutant: the dealer's bust is looked at before the player's.
DealerBustFirst(hand, dealersPoints) ==
    IF IsBlackjack(hand) THEN 3
    ELSE IF IsBustedPoints(dealersPoints) THEN 2
    ELSE IF IsBusted(hand) \/ HandPoints(hand) < dealersPoints THEN -2
    ELSE IF HandPoints(hand) > dealersPoints THEN 2 ELSE 0

WinMultiplierHalves(hand, dealersPoints) ==
    LET points == HandPoints(hand) IN
    CASE IsBustedPoints(points) -> -2
      [] ~IsBustedPoints(points) /\ IsBlackjack(hand) -> 3
      [] OTHER ->
            IF IsBustedPoints(dealersPoints) \/ points > dealersPoints THEN 2
            ELSE IF points < dealersPoints THEN -2 ELSE 0

\* Mutant: the income without the bet it comes on top of.
IncomeOnly(player, dealersPoints) ==
    TimesHalves(player.bet, WinMultiplierHalves(player.cards, dealersPoints))

ReceivedMoney(player, dealersPoints) ==
    Plus(player.bet,
         TimesHalves(player.bet, WinMultiplierHalves(player.cards, dealersPoints)))

CashPlayers(us, ps, dealersPoints) ==
    [s \in DOMAIN us |->
        IF s \in DOMAIN ps
        THEN [us[s] EXCEPT !.money = Plus(@, ReceivedMoney(ps[s], dealersPoints))]
        ELSE us[s]]

-----------------------------------------------------------------------------
(* The steps the handlers of GameSessionController call in one another, on *)
(* the users and players the handler has made so far.                      *)
StartGame(us) ==
    /\ gameState' = "BettingPhase"
    /\ players' = Insert(players, GetJoinables(us), NewPlayer)
    /\ users' = us
    /\ UNCHANGED dealersHand

EndGame ==
    /\ gameState' = "NotStarted"
    /\ players' = NoPlayers

StartCashing(us, ps, hand) ==
    \E final \in FinalDealersHands(hand) :
        /\ dealersHand' = final
        /\ users' = UnreadyAllPlayers(CashPlayers(us, ps, HandPoints(final)), ps)
        /\ EndGame

\* Mutant: no dealerLogic.init(), the dealer goes on with his last hand.
StartHitStandPhaseWithoutInit(us, ps) ==
    \E dealersPair \in Pairs, pairs \in [DOMAIN ps -> Pairs] :
        /\ gameState' = "HitStandPhase"
        /\ users' = us
        /\ players' = [s \in DOMAIN ps |->
                         [ps[s] EXCEPT !.cards = TwoMoreCards(@, pairs[s])]]
        /\ dealersHand' = TwoMoreCards(dealersHand, dealersPair)

\* init gives the dealer a new hand; dealPlayersCards adds to the hands the
\* players have.
StartHitStandPhase(us, ps) ==
    \E dealersPair \in Pairs, pairs \in [DOMAIN ps -> Pairs] :
        LET hand  == TwoMoreCards(NoCards, dealersPair)
            dealt == [s \in DOMAIN ps |->
                        [ps[s] EXCEPT !.cards = TwoMoreCards(@, pairs[s])]]
        IN  IF AllHandsAreStanding(dealt)
            THEN StartCashing(us, dealt, hand)
            ELSE /\ gameState' = "HitStandPhase"
                 /\ users' = us
                 /\ players' = dealt
                 /\ dealersHand' = hand

\* The tail of hitRequest and standRequest.
CashOnceAllStand(ps) ==
    IF AllHandsAreStanding(ps)
    THEN StartCashing(users, ps, dealersHand)
    ELSE players' = ps /\ UNCHANGED <<users, gameState, dealersHand>>

-----------------------------------------------------------------------------
(* GameSessionController::leaveGame and LobbyController::clientLeave: the  *)
(* player goes first, with all that follows from it, then his user.        *)
\* Mutant: the player is erased and the phase is not looked at again.
LeaveGameJustErases(s) ==
    LET ps == Erase(players, s)
    IN  /\ users' = Erase(users, s)
        /\ IF DOMAIN ps = {}
           THEN EndGame /\ UNCHANGED dealersHand
           ELSE players' = ps /\ UNCHANGED <<gameState, dealersHand>>

LeaveGame(s) ==
    LET us == Erase(users, s)
        ps == Erase(players, s)
    IN  IF DOMAIN ps = {}
        THEN EndGame /\ users' = us /\ UNCHANGED dealersHand
        ELSE IF AllPlayersHavePlacedTheirBets(ps)
        THEN StartHitStandPhase(us, ps)
        ELSE IF AllHandsAreStanding(ps)
        THEN StartCashing(us, ps, dealersHand)
        ELSE users' = us /\ players' = ps /\ UNCHANGED <<gameState, dealersHand>>

\* Mutant: the user goes, his player stays.
ClientLeaveKeepsThePlayer(s) ==
    /\ s \in DOMAIN users
    /\ users' = Erase(users, s)
    /\ UNCHANGED <<players, gameState, dealersHand>>

ClientLeave(s) ==
    /\ s \in DOMAIN users
    /\ IF s \in DOMAIN players
       THEN LeaveGame(s)
       ELSE users' = Erase(users, s) /\ UNCHANGED <<players, gameState, dealersHand>>

JoinLobby(s) ==
    /\ users' = Insert(users, {s}, NewUser)
    /\ UNCHANGED <<players, gameState, dealersHand>>

ClientJoin(s) == s \notin DOMAIN users /\ JoinLobby(s)

UserCanGetReady(s) ==
    /\ s \in DOMAIN users
    /\ ~users[s].isReady
    /\ gameState = "NotStarted"
    /\ ~UserIsBankrupt(users[s])

SetReady(s) ==
    /\ UserCanGetReady(s)
    /\ users[s].money # NaN => users[s].money <= MaxMoney
    /\ LET us == [users EXCEPT ![s].isReady = TRUE]
       IN  IF GameIsReady(us)
           THEN StartGame(us)
           ELSE users' = us /\ UNCHANGED <<players, gameState, dealersHand>>

-----------------------------------------------------------------------------
(* basicRequestValidation *)
BasicRequestValidation(requiredGameState, s) ==
    /\ s \in DOMAIN users
    /\ gameState = requiredGameState
    /\ s \in DOMAIN players

\* Mutant: no HandIsNotSitting check.
AnyHand(player) == TRUE

HandIsSitting(player) == player.state = "Sitting"

\* The checks of executeBet, in its order.
BetIsAccepted(s, bet) ==
    /\ bet.handIndex < 1
    /\ HandIsSitting(players[s])
    /\ ~AtMost(bet.amount, epsilon)
    /\ ~Exceeds(bet.amount, Plus(users[s].money, epsilon))
    /\ ~ABetIsPlaced(players[s])

PlayerCanBet(s, bet) ==
    /\ BasicRequestValidation("BettingPhase", s)
    /\ BetIsAccepted(s, bet)

\* The request carries a whole Bet: betRequest asserts that dataLen is its
\* size, and a debug build ends for a payload of another length.
BetRequest(s, bet) ==
    /\ PlayerCanBet(s, bet)
    /\ LET us == [users EXCEPT ![s].money = Minus(@, bet.amount)]
           ps == [players EXCEPT ![s].bet = Plus(@, bet.amount)]
       IN  IF AllPlayersHavePlacedTheirBets(ps)
           THEN StartHitStandPhase(us, ps)
           ELSE /\ users' = us
                /\ players' = ps
                /\ UNCHANGED <<gameState, dealersHand>>

\* The code asks for a blackjack here, too, but a hit makes a third card.
ExecuteHit(player, rank) ==
    LET cards == WithCard(player.cards, rank)
    IN  [player EXCEPT !.cards = cards,
                       !.state = IF IsBusted(cards) \/ IsBlackjack(cards)
                                 THEN "Standing" ELSE @]

\* hitRequest and standRequest make the same checks.
PlayerCanAct(s) ==
    /\ BasicRequestValidation("HitStandPhase", s)
    /\ HandIsSitting(players[s])

HitRequest(s) ==
    /\ PlayerCanAct(s)
    /\ players[s].cards.size < MaxHandCards
    /\ \E rank \in DealtRanks :
        CashOnceAllStand([players EXCEPT ![s] = ExecuteHit(@, rank)])

StandRequest(s) ==
    /\ PlayerCanAct(s)
    /\ CashOnceAllStand([players EXCEPT ![s].state = "Standing"])

-----------------------------------------------------------------------------
Init ==
    /\ users = [s \in {} |-> NewUser]
    /\ players = NoPlayers
    /\ gameState = "NotStarted"
    /\ dealersHand = NoCards

Bets == [amount : BetAmounts, handIndex : HandIndexes]

Next ==
    \E s \in Socket :
        \/ ClientJoin(s)
        \/ ClientLeave(s)
        \/ SetReady(s)
        \/ \E bet \in Bets : BetRequest(s, bet)
        \/ HitRequest(s)
        \/ StandRequest(s)

(* A request that fails a check is answered with a whisper and changes     *)
(* nothing: the stuttering steps of Spec.                                  *)
Spec == Init /\ [][Next]_vars

-----------------------------------------------------------------------------
(* users and players are maps from sockets; nobody owes more than epsilon.  *)
TypeOK ==
    /\ DOMAIN users \subseteq Socket
    /\ users \in [DOMAIN users -> User]
    /\ DOMAIN players \subseteq Socket
    /\ players \in [DOMAIN players -> Player]
    /\ gameState \in GameStates
    /\ dealersHand \in Hand

(* PlayerModel::userModel is a raw pointer into users: it never dangles,   *)
(* also when its user disconnects in the middle of a round.  While a round *)
(* runs its players are exactly the users who are ready, and between       *)
(* rounds nobody is left seated by endGame or leaveGame.                   *)
PlayersAreTheReadyUsers ==
    /\ DOMAIN players \subseteq DOMAIN users
    /\ gameState = "NotStarted" <=> DOMAIN players = {}
    /\ gameState # "NotStarted" =>
          \A s \in DOMAIN users : users[s].isReady <=> s \in DOMAIN players

(* Only requests of the awaited players move a round on, so a round that   *)
(* waits for nobody hangs for ever: the betting phase always misses a bet, *)
(* the hit-stand phase always has all bets and a sitting hand.             *)
RoundAwaitsSomeone ==
    /\ gameState = "BettingPhase" => ~AllPlayersHavePlacedTheirBets(players)
    /\ gameState = "HitStandPhase" =>
          /\ AllPlayersHavePlacedTheirBets(players)
          /\ \E s \in DOMAIN players : players[s].state = "Sitting"

(* A user who counts as ready and has no bet on the table can pay one: no  *)
(* bankrupt user is seated (userCanJoin), and none can lose his money      *)
(* between setReady and his bet.                                           *)
AwaitedUsersAreSolvent ==
    \A s \in DOMAIN users :
        users[s].isReady /\ (s \in DOMAIN players => ~ABetIsPlaced(players[s]))
            => ~AtMost(users[s].money, epsilon)

(* NaN, which no check of executeBet refuses, stays with the player who    *)
(* bet it: his bet never counts as placed, so his hand is never dealt nor  *)
(* cashed, and nobody else's money turns into NaN.                         *)
NotANumberStaysInItsBet ==
    \A s \in DOMAIN users :
        users[s].money = NaN <=> s \in DOMAIN players /\ players[s].bet = NaN

(* Each phase sees the cards of its own round: none on the table while     *)
(* bets are placed, two for the dealer and at least two for every player   *)
(* while they are played.                                                  *)
CardsBelongToTheRound ==
    /\ gameState = "BettingPhase" =>
          \A s \in DOMAIN players :
              players[s].cards = NoCards /\ players[s].state = "Sitting"
    /\ gameState = "HitStandPhase" =>
          /\ dealersHand.size = 2
          /\ \A s \in DOMAIN players : players[s].cards.size >= 2

-----------------------------------------------------------------------------
BetOf(s) == IF s \in DOMAIN players THEN players[s].bet ELSE 0

Stayed == DOMAIN users \cap DOMAIN users'

Cashed == {s \in Stayed : s \in DOMAIN players /\ s \notin DOMAIN players'}

Gain(s) == Minus(users'[s].money, users[s].money)

Wealth(s) == Plus(users[s].money, BetOf(s))

(* A user's money and bet together never change, whatever he or others     *)
(* request, until cashPlayers pays his bet back: nothing, once, twice or   *)
(* two and a half times.  A bet is neither lost nor paid twice when others *)
(* leave during the round.  Only who bets NaN loses all he has at once.    *)
MoneyIsConserved ==
    [][\A s \in Stayed :
          IF s \in Cashed
          THEN \E halves \in {0, 2, 4, 5} : Gain(s) = TimesHalves(BetOf(s), halves)
          ELSE Wealth(s)' \in {Wealth(s), NaN}]_vars

\* How a hand ranks against any dealer: busted, by points, blackjack.
Strength(hand) ==
    IF IsBusted(hand) THEN 0 ELSE IF IsBlackjack(hand) THEN 22 ELSE HandPoints(hand)

(* All players are cashed against the same dealer: a hand that stood when  *)
(* the last player stood or busted earns at least as much per coin as any  *)
(* weaker hand, and nothing if it was busted, even when the dealer is too. *)
StrongerHandEarnsNoLess ==
    [][DOMAIN users = DOMAIN users' =>
         \A s, t \in Cashed :
            players[s].state = "Standing" =>
              /\ Strength(players[s].cards) = 0 => Gain(s) = 0
              /\ Strength(players[s].cards) >= Strength(players[t].cards) =>
                    Gain(s) * BetOf(t) >= Gain(t) * BetOf(s)]_vars

(* The round the abstract specification promises is the one the handlers   *)
(* run: a seat is kept until its user leaves or the round ends, nobody is  *)
(* seated while a round runs, and each phase ends exactly when the last    *)
(* awaited player has bet, has stood or busted, or has left.               *)
Awaited ==
    CASE gameState = "NotStarted"    -> {}
      [] gameState = "BettingPhase"  -> {s \in DOMAIN players : ~ABetIsPlaced(players[s])}
      [] gameState = "HitStandPhase" -> {s \in DOMAIN players : players[s].state = "Sitting"}

Phase ==
    CASE gameState = "NotStarted"    -> "Idle"
      [] gameState = "BettingPhase"  -> "Betting"
      [] gameState = "HitStandPhase" -> "Playing"

R == INSTANCE Round WITH
        Client <- Socket, connected <- DOMAIN users, seated <- DOMAIN players,
        awaited <- Awaited, phase <- Phase

RunsRounds == R!Spec

(* As long as nobody disconnects, a standing hand has got its last card:   *)
(* no request of any player deals to it.                                   *)
StandingHandIsFinalWhileAllStay ==
    [][DOMAIN users \subseteq DOMAIN users' =>
         \A s \in DOMAIN players \cap DOMAIN players' :
            players[s].state = "Standing" => players'[s] = players[s]]_vars

-----------------------------------------------------------------------------
(* What the program says of itself and does not do. *)

(* README.MD: "To start the game, everyone has to type *ready*."  Once all *)
(* users who can join have typed it, the game is on.                       *)
EveryoneReadyStartsTheGame == ~GameIsReady(users)

(* The view of startCashing: "All hands are standing. Now it's the cashing *)
(* phase."  A hand that stands gets no card.                               *)
StandingHandIsFinal ==
    [][\A s \in DOMAIN players \cap DOMAIN players' :
          players[s].state = "Standing" => players'[s].cards = players[s].cards]_vars

(* The views of betRequest: "placed a bet: " when executeBet has changed   *)
(* the bet, and "All players have placed their bets." when none is missed. *)
(* A bet that has been placed is one that the phase counts.                *)
AcceptedBetIsPlaced ==
    [][\A s \in DOMAIN players \cap DOMAIN players' :
          players'[s].bet # players[s].bet => ABetIsPlaced(players'[s])]_vars
=============================================================================
