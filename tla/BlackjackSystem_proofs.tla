----------------------- MODULE BlackjackSystem_proofs ------------------------
(***************************************************************************)
(* The socket loop runs the game: every step of the system is a step of    *)
(* SocketServer, or none, and also a step of GameServer, or none; what     *)
(* SocketServer_proofs proves of the loop says which.  So the invariants   *)
(* of both hold in the system, and together they say that users, players   *)
(* and connections agree.                                                  *)
(*                                                                         *)
(* LoopP and GameP are the loop and the game once more, with their proofs; *)
(* the first two sections show that their definitions are those of Loop    *)
(* and Game.                                                               *)
(***************************************************************************)
EXTENDS BlackjackSystem, SequenceTheorems, TLAPS

LoopP == INSTANCE SocketServer_proofs WITH Messages <- Requests, users <- DOMAIN users

GameP == INSTANCE GameServer_proofs WITH
            Socket <- Fd, BetAmounts <- {stake}, HandIndexes <- {0}

-----------------------------------------------------------------------------
(* The steps of the loop. *)
LEMMA SameInitialLoop == Loop!Init => LoopP!Init
  BY DEF Loop!Init, LoopP!Init

LEMMA SameServerSteps ==
    /\ Loop!WaitForAnActivity => LoopP!WaitForAnActivity
    /\ Loop!AcceptFails => LoopP!AcceptFails
    /\ \A fd \in Fd : Loop!Accept(fd) => LoopP!Accept(fd)
    /\ Loop!EndOfLoop => LoopP!EndOfLoop
    /\ Loop!SkipConnection => LoopP!SkipConnection
    /\ \A fd \in Fd : Loop!HandleRequest(fd) => LoopP!HandleRequest(fd)
    /\ \A fd \in Fd : Loop!ReadFails(fd) => LoopP!ReadFails(fd)
<1>1. Loop!WaitForAnActivity => LoopP!WaitForAnActivity
  BY DEF Loop!WaitForAnActivity, LoopP!WaitForAnActivity, Loop!Select, LoopP!Select,
         Loop!AddSocketsToReadSet, LoopP!AddSocketsToReadSet, Loop!ToSet, LoopP!ToSet,
         Loop!Readable, LoopP!Readable, Loop!kernelVars, LoopP!kernelVars
<1>2. Loop!AcceptFails => LoopP!AcceptFails
  BY DEF Loop!AcceptFails, LoopP!AcceptFails, Loop!AbandonPass, LoopP!AbandonPass,
         Loop!kernelVars, LoopP!kernelVars
<1>3. \A fd \in Fd : Loop!Accept(fd) => LoopP!Accept(fd)
  BY DEF Loop!Accept, LoopP!Accept
<1>4. Loop!EndOfLoop => LoopP!EndOfLoop
  BY DEF Loop!EndOfLoop, LoopP!EndOfLoop, Loop!Slots, LoopP!Slots,
         Loop!kernelVars, LoopP!kernelVars
<1>5. Loop!SkipConnection => LoopP!SkipConnection
  BY DEF Loop!SkipConnection, LoopP!SkipConnection, Loop!Visited, LoopP!Visited,
         Loop!Slots, LoopP!Slots, Loop!kernelVars, LoopP!kernelVars
<1>6. \A fd \in Fd : Loop!HandleRequest(fd) => LoopP!HandleRequest(fd)
  <2>1. \A fd, message : Loop!ExecuteAction(fd, message) <=> LoopP!ExecuteAction(fd, message)
    BY DEF Loop!ExecuteAction, LoopP!ExecuteAction,
           Loop!IsNewConnection, LoopP!IsNewConnection,
           Loop!IsEndConnection, LoopP!IsEndConnection,
           Loop!UserIsFound, LoopP!UserIsFound, Loop!JoinAgain, LoopP!JoinAgain,
           Loop!JoinAfterLeaving, LoopP!JoinAfterLeaving,
           Loop!LeaveAndStayConnected, LoopP!LeaveAndStayConnected,
           Loop!GetUserThrows, LoopP!GetUserThrows
  <2> QED
    BY <2>1
       DEF Loop!HandleRequest, LoopP!HandleRequest, Loop!ParsesClient, LoopP!ParsesClient,
           Loop!Visited, LoopP!Visited, Loop!Slots, LoopP!Slots,
           Loop!IsEmpty, LoopP!IsEmpty, Loop!NoSuchHeader, LoopP!NoSuchHeader,
           Loop!AbandonPass, LoopP!AbandonPass
<1>7. \A fd \in Fd : Loop!ReadFails(fd) => LoopP!ReadFails(fd)
  BY DEF Loop!ReadFails, LoopP!ReadFails, Loop!ParsesClient, LoopP!ParsesClient,
         Loop!Visited, LoopP!Visited, Loop!Slots, LoopP!Slots,
         Loop!AbandonPass, LoopP!AbandonPass
<1> QED
  BY <1>1, <1>2, <1>3, <1>4, <1>5, <1>6, <1>7

LEMMA SameDisconnect ==
    ASSUME NEW fd \in Fd, Loop!Disconnect(fd)
    PROVE  LoopP!Disconnect(fd)
  BY DEF Loop!Disconnect, LoopP!Disconnect, Loop!ParsesClient, LoopP!ParsesClient,
         Loop!Visited, LoopP!Visited, Loop!Slots, LoopP!Slots,
         Loop!IsEmpty, LoopP!IsEmpty, Loop!UserIsFound, LoopP!UserIsFound,
         Loop!CloseSocket, LoopP!CloseSocket, Loop!Last, LoopP!Last,
         Loop!EraseConnection, LoopP!EraseConnection,
         Loop!EraseVisited, LoopP!EraseVisited, Loop!RemoveAt, LoopP!RemoveAt,
         Loop!EraseEnd, LoopP!EraseEnd, Loop!Front, LoopP!Front

LEMMA SameClientStep == Loop!ClientStep => LoopP!ClientStep
  BY DEF Loop!ClientStep, LoopP!ClientStep, Loop!Connect, LoopP!Connect,
         Loop!HangUp, LoopP!HangUp, Loop!Reset, LoopP!Reset, Loop!Send, LoopP!Send,
         Loop!Running, LoopP!Running, Loop!serverVars, LoopP!serverVars

(* Every step of the system is one of the loop, or none: what the handlers *)
(* do to the users map is what the loop says of it. *)
LEMMA SystemStepsTheLoop == [Next]_vars => [LoopP!Next]_LoopP!vars
<1> SUFFICES ASSUME [Next]_vars PROVE [LoopP!Next]_LoopP!vars
  OBVIOUS
<1>1. CASE UNCHANGED vars
  BY <1>1 DEF vars, LoopP!vars
<1>2. CASE ServerStep
  <2>1. \/ LoopP!WaitForAnActivity
        \/ LoopP!AcceptFails
        \/ LoopP!EndOfLoop
        \/ LoopP!SkipConnection
        \/ \E fd \in Fd : \/ LoopP!Accept(fd)
                          \/ LoopP!HandleRequest(fd)
                          \/ LoopP!ReadFails(fd)
                          \/ LoopP!Disconnect(fd)
    <3>1. CASE LoopOnly
      BY <3>1, SameServerSteps DEF LoopOnly
    <3>2. ASSUME NEW fd \in Fd, Accept(fd) \/ HandleRequest(fd) \/ Disconnect(fd)
          PROVE  LoopP!Accept(fd) \/ LoopP!HandleRequest(fd) \/ LoopP!Disconnect(fd)
      BY <3>2, SameServerSteps, SameDisconnect DEF Accept, HandleRequest, Disconnect
    <3> QED
      BY <1>2, <3>1, <3>2 DEF ServerStep
  <2> QED
    BY <2>1 DEF LoopP!Next, LoopP!ServerStep, LoopP!ParseServerActivity,
                LoopP!ParseClientActivity
<1>3. CASE ClientStep
  BY <1>3, SameClientStep DEF ClientStep, LoopP!Next
<1> QED
  BY <1>1, <1>2, <1>3 DEF Next

LEMMA LoopInvariance ==
    /\ Loop!Init => LoopP!IInv
    /\ LoopP!IInv /\ [Next]_vars => LoopP!IInv'
<1>1. LoopP!IsFiniteSet(Fd)
  BY LoopAssumption DEF LoopP!IsFiniteSet, IsFiniteSet
<1>2. LoopP!Init => LoopP!IInv
  BY <1>1, LoopAssumption, LoopP!InitIsIInv
<1>3. LoopP!IInv /\ [LoopP!Next]_LoopP!vars => LoopP!IInv'
  BY <1>1, LoopAssumption, LoopP!NextKeepsIInv
<1> QED
  BY <1>2, <1>3, SameInitialLoop, SystemStepsTheLoop

-----------------------------------------------------------------------------
(* The definitions of the game. *)
LEMMA SameHands ==
    /\ \A hand, rank : Game!WithCard(hand, rank) = GameP!WithCard(hand, rank)
    /\ \A hand, pair : Game!TwoMoreCards(hand, pair) = GameP!TwoMoreCards(hand, pair)
    /\ \A hand : Game!HandPoints(hand) = GameP!HandPoints(hand)
    /\ \A hand : Game!IsBusted(hand) <=> GameP!IsBusted(hand)
    /\ \A hand : Game!IsBlackjack(hand) <=> GameP!IsBlackjack(hand)
<1>1. Game!CardPoints = GameP!CardPoints
  BY DEF Game!CardPoints, GameP!CardPoints, Game!Rank, GameP!Rank,
         Game!kAce, GameP!kAce, Game!kTen, GameP!kTen
<1>2. \A hand, rank : Game!WithCard(hand, rank) = GameP!WithCard(hand, rank)
  BY <1>1
     DEF Game!WithCard, GameP!WithCard, Game!kAce, GameP!kAce
<1>3. \A hand, pair : Game!TwoMoreCards(hand, pair) = GameP!TwoMoreCards(hand, pair)
  BY <1>2
     DEF Game!TwoMoreCards, GameP!TwoMoreCards
<1>4. \A hand : Game!HandPoints(hand) = GameP!HandPoints(hand)
  BY DEF Game!HandPoints, GameP!HandPoints, Game!IsBustedPoints, GameP!IsBustedPoints,
         Game!blackjackPoints, GameP!blackjackPoints
<1>5. \A hand : Game!IsBusted(hand) <=> GameP!IsBusted(hand)
  BY <1>4
     DEF Game!IsBusted, GameP!IsBusted, Game!IsBustedPoints, GameP!IsBustedPoints,
         Game!blackjackPoints, GameP!blackjackPoints
<1>6. \A hand : Game!IsBlackjack(hand) <=> GameP!IsBlackjack(hand)
  BY <1>4
     DEF Game!IsBlackjack, GameP!IsBlackjack,
         Game!blackjackPoints, GameP!blackjackPoints
<1> QED
  BY <1>2, <1>3, <1>4, <1>5, <1>6

LEMMA SameFinalDealersHands ==
    \A hand : Game!FinalDealersHands(hand) = GameP!FinalDealersHands(hand)
  BY DEF Game!FinalDealersHands, GameP!FinalDealersHands,
         Game!DrawBelowLimit, GameP!DrawBelowLimit,
         Game!dealerPointsLimit, GameP!dealerPointsLimit, Game!Hand, GameP!Hand,
         Game!HandPoints, GameP!HandPoints, Game!WithCard, GameP!WithCard,
         Game!CardPoints, GameP!CardPoints, Game!Rank, GameP!Rank,
         Game!kAce, GameP!kAce, Game!kTen, GameP!kTen,
         Game!IsBustedPoints, GameP!IsBustedPoints,
         Game!blackjackPoints, GameP!blackjackPoints

LEMMA SameNewPlayer ==
    Game!NewPlayer = GameP!NewPlayer /\ Game!NoPlayers = GameP!NoPlayers
  BY DEF Game!NewPlayer, GameP!NewPlayer, Game!NoPlayers, GameP!NoPlayers,
         Game!NoCards, GameP!NoCards

LEMMA SameMaps ==
    /\ \A map, keys, value : Game!Insert(map, keys, value) = GameP!Insert(map, keys, value)
    /\ \A map, key : Game!Erase(map, key) = GameP!Erase(map, key)
  BY DEF Game!Insert, GameP!Insert, Game!Erase, GameP!Erase

LEMMA SameCashing ==
    ASSUME NEW us, NEW ps, NEW hand, Game!StartCashing(us, ps, hand)
    PROVE  GameP!StartCashing(us, ps, hand)
<1>1. \A points : Game!CashPlayers(us, ps, points) = GameP!CashPlayers(us, ps, points)
  <2>1. \A player, points :
          Game!ReceivedMoney(player, points) = GameP!ReceivedMoney(player, points)
    BY SameHands
       DEF Game!ReceivedMoney, GameP!ReceivedMoney,
           Game!WinMultiplierHalves, GameP!WinMultiplierHalves,
           Game!IsBustedPoints, GameP!IsBustedPoints,
           Game!blackjackPoints, GameP!blackjackPoints,
           Game!TimesHalves, GameP!TimesHalves, Game!Plus, GameP!Plus
  <2> QED
    BY <2>1
       DEF Game!CashPlayers, GameP!CashPlayers, Game!Plus, GameP!Plus
<1>2. \A u : Game!UnreadyAllPlayers(u, ps) = GameP!UnreadyAllPlayers(u, ps)
  BY DEF Game!UnreadyAllPlayers, GameP!UnreadyAllPlayers
<1> QED
  BY <1>1, <1>2, SameFinalDealersHands, SameHands, SameNewPlayer
     DEF Game!StartCashing, GameP!StartCashing, Game!EndGame, GameP!EndGame

LEMMA SamePhaseQuestions ==
    /\ \A player : Game!ABetIsPlaced(player) <=> GameP!ABetIsPlaced(player)
    /\ \A ps : Game!AllPlayersHavePlacedTheirBets(ps)
                  <=> GameP!AllPlayersHavePlacedTheirBets(ps)
    /\ \A ps : Game!AllHandsAreStanding(ps) <=> GameP!AllHandsAreStanding(ps)
  BY DEF Game!ABetIsPlaced, GameP!ABetIsPlaced,
         Game!AllPlayersHavePlacedTheirBets, GameP!AllPlayersHavePlacedTheirBets,
         Game!AllHandsAreStanding, GameP!AllHandsAreStanding,
         Game!Exceeds, GameP!Exceeds

LEMMA SameDealing ==
    ASSUME NEW us, NEW ps, Game!StartHitStandPhase(us, ps)
    PROVE  GameP!StartHitStandPhase(us, ps)
<1>1. PICK dealersPair \in Game!Pairs, pairs \in [DOMAIN ps -> Game!Pairs] :
        LET hand  == Game!TwoMoreCards(Game!NoCards, dealersPair)
            dealt == [s \in DOMAIN ps |->
                        [ps[s] EXCEPT !.cards = Game!TwoMoreCards(@, pairs[s])]]
        IN  IF Game!AllHandsAreStanding(dealt)
            THEN Game!StartCashing(us, dealt, hand)
            ELSE /\ gameState' = "HitStandPhase"
                 /\ users' = us
                 /\ players' = dealt
                 /\ dealersHand' = hand
  BY DEF Game!StartHitStandPhase
<1> DEFINE hand  == GameP!TwoMoreCards(GameP!NoCards, dealersPair)
           dealt == [s \in DOMAIN ps |->
                       [ps[s] EXCEPT !.cards = GameP!TwoMoreCards(@, pairs[s])]]
<1>2. /\ hand = Game!TwoMoreCards(Game!NoCards, dealersPair)
      /\ dealt = [s \in DOMAIN ps |->
                    [ps[s] EXCEPT !.cards = Game!TwoMoreCards(@, pairs[s])]]
  BY SameHands DEF Game!NoCards, GameP!NoCards
<1>3. dealersPair \in GameP!Pairs /\ pairs \in [DOMAIN ps -> GameP!Pairs]
  BY DEF Game!Pairs, GameP!Pairs
<1>4. IF GameP!AllHandsAreStanding(dealt)
      THEN GameP!StartCashing(us, dealt, hand)
      ELSE /\ gameState' = "HitStandPhase"
           /\ users' = us
           /\ players' = dealt
           /\ dealersHand' = hand
  <2> HIDE DEF hand, dealt
  <2> QED
    BY <1>1, <1>2, SameCashing, SamePhaseQuestions
<1> QED
  BY <1>3, <1>4 DEF GameP!StartHitStandPhase

LEMMA SamePlayingOn ==
    ASSUME NEW ps, Game!CashOnceAllStand(ps)
    PROVE  GameP!CashOnceAllStand(ps)
  BY SameCashing, SamePhaseQuestions
     DEF Game!CashOnceAllStand, GameP!CashOnceAllStand

(* The handlers. *)
LEMMA SameClientJoin ==
    ASSUME NEW fd, Game!ClientJoin(fd)
    PROVE  GameP!ClientJoin(fd)
<1>1. Game!NewUser = GameP!NewUser
  BY DEF Game!NewUser, GameP!NewUser
<1> QED
  BY <1>1, SameMaps
     DEF Game!ClientJoin, GameP!ClientJoin, Game!JoinLobby, GameP!JoinLobby

LEMMA SameClientLeave ==
    ASSUME NEW fd, Game!ClientLeave(fd)
    PROVE  GameP!ClientLeave(fd)
<1>1. Game!LeaveGame(fd) => GameP!LeaveGame(fd)
  BY SameMaps, SameNewPlayer, SamePhaseQuestions, SameDealing, SameCashing
     DEF Game!LeaveGame, GameP!LeaveGame, Game!EndGame, GameP!EndGame
<1> QED
  BY <1>1, SameMaps
     DEF Game!ClientLeave, GameP!ClientLeave

LEMMA SameSetReady ==
    ASSUME NEW fd, Game!SetReady(fd)
    PROVE  GameP!SetReady(fd)
<1>1. \A us : Game!GetJoinables(us) = GameP!GetJoinables(us)
  BY DEF Game!GetJoinables, GameP!GetJoinables,
         Game!UserIsBankrupt, GameP!UserIsBankrupt, Game!AtMost, GameP!AtMost
<1>2. \A us : Game!GameIsReady(us) <=> GameP!GameIsReady(us)
  BY <1>1
     DEF Game!GameIsReady, GameP!GameIsReady, Game!GetUsersToWait, GameP!GetUsersToWait
<1>3. \A us : Game!StartGame(us) => GameP!StartGame(us)
  BY <1>1, SameMaps, SameNewPlayer
     DEF Game!StartGame, GameP!StartGame
<1>4. Game!UserCanGetReady(fd) => GameP!UserCanGetReady(fd)
  BY DEF Game!UserCanGetReady, GameP!UserCanGetReady,
         Game!UserIsBankrupt, GameP!UserIsBankrupt, Game!AtMost, GameP!AtMost
<1> QED
  BY <1>2, <1>3, <1>4
     DEF Game!SetReady, GameP!SetReady

LEMMA SameBetRequest ==
    ASSUME NEW fd, NEW bet, Game!BetRequest(fd, bet)
    PROVE  GameP!BetRequest(fd, bet)
<1>1. Game!PlayerCanBet(fd, bet) => GameP!PlayerCanBet(fd, bet)
  BY SamePhaseQuestions
     DEF Game!PlayerCanBet, GameP!PlayerCanBet,
         Game!BasicRequestValidation, GameP!BasicRequestValidation,
         Game!BetIsAccepted, GameP!BetIsAccepted,
         Game!HandIsSitting, GameP!HandIsSitting, Game!AtMost, GameP!AtMost,
         Game!Exceeds, GameP!Exceeds, Game!Plus, GameP!Plus
<1> QED
  BY <1>1, SamePhaseQuestions, SameDealing
     DEF Game!BetRequest, GameP!BetRequest, Game!Minus, GameP!Minus,
         Game!Plus, GameP!Plus

LEMMA SameHitAndStand ==
    ASSUME NEW fd
    PROVE  /\ Game!HitRequest(fd) => GameP!HitRequest(fd)
           /\ Game!StandRequest(fd) => GameP!StandRequest(fd)
<1>1. Game!PlayerCanAct(fd) => GameP!PlayerCanAct(fd)
  BY DEF Game!PlayerCanAct, GameP!PlayerCanAct,
         Game!BasicRequestValidation, GameP!BasicRequestValidation,
         Game!HandIsSitting, GameP!HandIsSitting
<1>2. \A player, rank : Game!ExecuteHit(player, rank) = GameP!ExecuteHit(player, rank)
  BY SameHands
     DEF Game!ExecuteHit, GameP!ExecuteHit
<1> QED
  BY <1>1, <1>2, SamePlayingOn
     DEF Game!HitRequest, GameP!HitRequest, Game!StandRequest, GameP!StandRequest

LEMMA SameGameStep == [Game!Next]_Game!vars => [GameP!Next]_GameP!vars
<1> SUFFICES ASSUME Game!Next PROVE GameP!Next
  BY DEF Game!vars, GameP!vars
<1> QED
  BY SameClientJoin, SameClientLeave, SameSetReady, SameBetRequest, SameHitAndStand
     DEF Game!Next, GameP!Next, Game!Bets, GameP!Bets

LEMMA SameInitialGame == Game!Init => GameP!Init
  BY SameNewPlayer
     DEF Game!Init, GameP!Init, Game!NewUser, GameP!NewUser, Game!NoCards, GameP!NoCards

-----------------------------------------------------------------------------
(* insert leaves the map alone when the user is there already.             *)
LEMMA JoiningAgainChangesNothing ==
    ASSUME NEW fd, fd \in DOMAIN users, GameP!IInv, ClientJoins(fd)
    PROVE  UNCHANGED gameVars
<1>1. users' = Game!Insert(users, {fd}, Game!NewUser)
      /\ UNCHANGED <<players, gameState, dealersHand>>
  BY DEF ClientJoins, Game!JoinLobby
<1>2. users = [s \in DOMAIN users |-> users[s]]
  BY DEF GameP!IInv, GameP!TypeOK
<1>3. users' = users
  BY <1>1, <1>2 DEF Game!Insert
<1> QED
  BY <1>1, <1>3 DEF gameVars

(* The system keeps to what the game takes for granted.  A client joins,   *)
(* by connecting or by request, when his descriptor has no user, or        *)
(* nothing changes; whoever leaves was a user; all else is for the game to *)
(* refuse.                                                                 *)
LEMMA SystemStepsTheGame ==
    GameP!IInv /\ [Next]_vars => UNCHANGED gameVars \/ Game!Next
<1> SUFFICES ASSUME GameP!IInv, [Next]_vars, ~UNCHANGED gameVars
             PROVE  Game!Next
  OBVIOUS
<1>1. ~LoopOnly /\ ~ClientStep /\ Next
  BY DEF LoopOnly, ClientStep, vars, gameVars
<1>2. ASSUME NEW fd \in Fd, ClientJoins(fd) PROVE Game!ClientJoin(fd)
  BY <1>2, JoiningAgainChangesNothing DEF ClientJoins, Game!ClientJoin
<1>3. ASSUME NEW fd \in Fd, ClientLeaves(fd) PROVE Game!ClientLeave(fd)
  BY <1>3 DEF ClientLeaves
<1>4. ASSUME NEW fd \in Fd, NEW request, ExecuteAction(fd, request)
      PROVE  \/ Game!ClientJoin(fd) \/ Game!ClientLeave(fd)
             \/ Game!SetReady(fd) \/ Game!BetRequest(fd, theBet)
             \/ Game!HitRequest(fd) \/ Game!StandRequest(fd)
  BY <1>2, <1>3, <1>4 DEF ExecuteAction
<1>5. theBet \in Game!Bets
  BY DEF theBet, Game!Bets
<1>6. PICK fd \in Fd : Accept(fd) \/ HandleRequest(fd) \/ Disconnect(fd)
  BY <1>1 DEF Next, ServerStep
<1>7. \/ ClientJoins(fd) \/ ClientLeaves(fd)
      \/ \E request : ExecuteAction(fd, request)
  BY <1>6 DEF Accept, HandleRequest, Disconnect
<1> QED
  BY <1>2, <1>3, <1>4, <1>5, <1>7 DEF Game!Next

(* A connection that begins had no user, though its descriptor may have    *)
(* had one before, and one that ends has one unless he has left by         *)
(* request.                                                                *)
LEMMA ConnectionsJoinAndLeave ==
    ASSUME LoopP!IInv, [Next]_vars
    PROVE  /\ \A fd \in open' \ open : Game!ClientJoin(fd)
           /\ \A fd \in open \ open' : Game!ClientLeave(fd) \/ fd \in departed
<1>1. ASSUME NEW f \in Fd, Accept(f)
      PROVE  /\ \A fd \in open' \ open : Game!ClientJoin(fd)
             /\ open \subseteq open'
  <2>1. pc = "accept" /\ f \notin open /\ open' = open \cup {f} /\ Game!JoinLobby(f)
    BY <1>1 DEF Accept, Loop!Accept, ClientJoins
  <2>2. DOMAIN users = open \ departed
    BY <2>1 DEF LoopP!IInv, LoopP!ConnectionsAreOpen, LoopP!Running
  <2> QED
    BY <2>1, <2>2 DEF Game!ClientJoin
<1>2. ASSUME NEW f \in Fd, Disconnect(f)
      PROVE  /\ \A fd \in open \ open' : Game!ClientLeave(fd) \/ fd \in departed
             /\ open' \subseteq open
  <2>1. pc = "clients" /\ f \in open /\ open' = open \ {f} /\ ClientLeaves(f)
    BY <1>2 DEF Disconnect, Loop!Disconnect, Loop!ParsesClient, Loop!CloseSocket
  <2>2. DOMAIN users = open \ departed
    BY <2>1 DEF LoopP!IInv, LoopP!ConnectionsAreOpen, LoopP!Running
  <2> QED
    BY <2>1, <2>2 DEF ClientLeaves, Loop!UserIsFound
<1>3. ASSUME ~\E f \in Fd : Accept(f) \/ Disconnect(f)
      PROVE  open' = open
  <2>1. CASE LoopOnly
    BY <2>1 DEF LoopOnly, Loop!WaitForAnActivity, Loop!AcceptFails, Loop!EndOfLoop,
                Loop!SkipConnection, Loop!ReadFails, Loop!kernelVars
  <2>2. ASSUME NEW f \in Fd, HandleRequest(f) PROVE open' = open
    BY <2>2 DEF HandleRequest, Loop!HandleRequest
  <2>3. CASE ClientStep
    BY <2>3 DEF ClientStep, Loop!ClientStep, Loop!Connect, Loop!HangUp, Loop!Reset, Loop!Send
  <2>4. CASE UNCHANGED vars
    BY <2>4 DEF vars
  <2> QED
    BY <1>3, <2>1, <2>2, <2>3, <2>4 DEF Next, ServerStep
<1> QED
  BY <1>1, <1>2, <1>3

(* The loop and the game are each in a state of their own proofs. *)
IInv == LoopP!IInv /\ GameP!IInv

LEMMA GameInvariance ==
    /\ Game!Init => GameP!IInv
    /\ GameP!IInv /\ [Next]_vars => GameP!IInv'
<1>1. DealtRanks \subseteq GameP!Rank
  BY GameAssumption DEF Game!Rank, GameP!Rank
<1>2. \A amount \in {stake} \ {NaN} : amount \in Int /\ amount % 2 = 0
  BY GameAssumption
<1>3. GameP!Init => GameP!IInv
  BY <1>1, <1>2, GameAssumption, GameP!InitIInv
<1>4. GameP!IInv /\ [GameP!Next]_GameP!vars => GameP!IInv'
  BY <1>1, <1>2, GameAssumption, GameP!NextKeepsIInv
<1>5. GameP!IInv /\ [Next]_vars => [Game!Next]_Game!vars
  BY SystemStepsTheGame DEF gameVars, Game!vars
<1> QED
  BY <1>3, <1>4, <1>5, SameInitialGame, SameGameStep

THEOREM SystemInvariance == Spec => []IInv
<1>1. Init => IInv
  BY LoopInvariance, GameInvariance DEF Init, IInv
<1>2. IInv /\ [Next]_vars => IInv'
  BY LoopInvariance, GameInvariance DEF IInv
<1> QED
  BY <1>1, <1>2, PTL DEF Spec

(* The loop, the slots it visits after an erase included, and the header   *)
(* table with its entries for joining and leaving call the handlers as     *)
(* GameServer assumes: a run of the system is a run of the game, whatever  *)
(* clients send and whenever they hang up, and connections begin and end   *)
(* with a join and a leave of their user.                                  *)
THEOREM GameRefinement == Spec => RunsTheGame
<1>1. Init => Game!Init
  BY DEF Init
<1>2. IInv /\ [Next]_vars =>
        [/\ UNCHANGED gameVars \/ Game!Next
         /\ \A fd \in open' \ open : Game!ClientJoin(fd)
         /\ \A fd \in open \ open' : Game!ClientLeave(fd) \/ fd \in departed
        ]_<<gameVars, open>>
  BY SystemStepsTheGame, ConnectionsJoinAndLeave DEF IInv
<1> QED
  BY <1>1, <1>2, SystemInvariance, PTL DEF Spec, RunsTheGame

(* The string getUser throws ends the server in a request or the hang-up   *)
(* of a client who has left by a request of his, and for nobody else, with *)
(* the users map the game's handlers keep.                                 *)
THEOREM OthersAreNeverMissed == Spec => []OnlyDepartedUsersAreMissed
<1>1. IInv => OnlyDepartedUsersAreMissed
  BY DEF IInv, LoopP!IInv, LoopP!OnlyDepartedUsersAreMissed, LoopP!Slots,
         OnlyDepartedUsersAreMissed, Loop!OnlyDepartedUsersAreMissed, Loop!Slots
<1> QED
  BY <1>1, SystemInvariance, PTL

(* No seat without user, no user without connection, no connection without *)
(* user but those of clients who have left by request, and the round never *)
(* waits for nobody but clients the loop no longer reads from.             *)
THEOREM SeatsCorrect == Spec => []SeatsBelongToConnections
<1>1. IInv => SeatsBelongToConnections
  <2> SUFFICES ASSUME IInv, Loop!Running
               PROVE  /\ DOMAIN players \subseteq DOMAIN users
                      /\ DOMAIN users = ToSet(connections) \ departed
                      /\ gameState # "NotStarted" =>
                            Game!Awaited \cap ToSet(connections) # {}
    BY DEF SeatsBelongToConnections
  <2>1. DOMAIN users = ToSet(connections) \ departed
    <3>1. /\ DOMAIN users = open \ departed
          /\ \A i \in 1 .. Len(connections) : connections[i] \in open
          /\ \A fd \in open : \E i \in 1 .. Len(connections) : connections[i] = fd
      BY DEF IInv, LoopP!IInv, LoopP!ConnectionsAreOpen, LoopP!Running, Loop!Running
    <3>2. DOMAIN connections = 1 .. Len(connections)
      BY LenProperties DEF IInv, LoopP!IInv, LoopP!TypeOK
    <3> QED
      BY <3>1, <3>2 DEF ToSet
  <2>2. DOMAIN players \subseteq DOMAIN users
    BY DEF IInv, GameP!IInv, GameP!PlayersAreTheReadyUsers
  <2>3. gameState # "NotStarted" => Game!Awaited \cap DOMAIN players # {}
    <3>1. gameState = "BettingPhase" =>
            \E fd \in DOMAIN players : ~Game!ABetIsPlaced(players[fd])
      BY SamePhaseQuestions
         DEF IInv, GameP!IInv, GameP!RoundAwaitsSomeone, GameP!AllPlayersHavePlacedTheirBets
    <3>2. gameState = "HitStandPhase" =>
            \E fd \in DOMAIN players : players[fd].state = "Sitting"
      BY DEF IInv, GameP!IInv, GameP!RoundAwaitsSomeone
    <3>3. gameState \in {"NotStarted", "BettingPhase", "HitStandPhase"}
      BY DEF IInv, GameP!IInv, GameP!TypeOK, GameP!GameStates
    <3> QED
      BY <3>1, <3>2, <3>3 DEF Game!Awaited
  <2> QED
    BY <2>1, <2>2, <2>3
<1> QED
  BY <1>1, SystemInvariance, PTL
=============================================================================
