-------------------------- MODULE BlackjackSystem --------------------------
(***************************************************************************)
(* The server process as main puts it together: the socket loop of         *)
(* SocketServer.tla, whose events (connected, message, disconnected) call  *)
(* the handlers of GameServer.tla.  The loop's users are the keys of the   *)
(* game's users map; what the loop says of a user that joins or leaves and *)
(* what the handler does to the map are two parts of one step.             *)
(*                                                                         *)
(* A client asks for what he likes when he likes.  The server answers a    *)
(* request the game refuses with a whisper, and goes on.                   *)
(***************************************************************************)
EXTENDS Integers, Sequences, SequencesExt, FiniteSets

CONSTANTS
    Fd, Requests, maxPendingConnections, MaxInbox,  \* of the loop
    NaN, epsilon, initialMoney, DealtRanks,         \* of the game
    MaxMoney, MaxHandCards,
    stake                                           \* what a bet request bets

VARIABLES pc, connections, stale, pos, readSet,     \* the loop
          departed,                                 \* its history
          open, inbox, hungUp, reset, backlog,      \* the kernel
          users, players, gameState, dealersHand    \* BjDatabase

gameVars == <<users, players, gameState, dealersHand>>
vars == <<pc, connections, stale, pos, readSet, departed, open, inbox, hungUp, reset, backlog,
          users, players, gameState, dealersHand>>

Loop == INSTANCE SocketServer WITH Messages <- Requests, users <- DOMAIN users

Game == INSTANCE GameServer WITH
            Socket <- Fd, BetAmounts <- {stake}, HandIndexes <- {0}

theBet == [amount |-> stake, handIndex |-> 0]

(* What the two modules assume of their constants. *)
ASSUME LoopAssumption == IsFiniteSet(Fd) /\ maxPendingConnections \in Nat

ASSUME GameAssumption ==
    /\ NaN \notin Int
    /\ epsilon \in Nat
    /\ initialMoney \in Nat
    /\ stake # NaN => stake \in Int /\ stake % 2 = 0
    /\ DealtRanks \subseteq Game!Rank

-----------------------------------------------------------------------------
(* LobbyController::clientJoin, clientLeave, as the loop's events and as   *)
(* requests.  insert keeps a user who is already there.                    *)
ClientJoins(fd) == Game!JoinLobby(fd)

\* Mutant: the user is erased, and nobody leaves the game.
UserIsErased(fd) ==
    /\ users' = Game!Erase(users, fd)
    /\ UNCHANGED <<players, gameState, dealersHand>>

ClientLeaves(fd) ==
    IF Loop!UserIsFound(fd) THEN Game!ClientLeave(fd) ELSE UNCHANGED gameVars

(* The header table of main.  A handler that refuses a request, or whose   *)
(* getUser throws, leaves the game alone.                                  *)
IsRefused(fd, request) ==
    CASE request = "setReady" -> ~Game!UserCanGetReady(fd)
      [] request = "bet"      -> ~Game!PlayerCanBet(fd, theBet)
      [] request \in {"hit", "stand"} -> ~Game!PlayerCanAct(fd)
      [] OTHER -> TRUE

ExecuteAction(fd, request) ==
    IF Loop!IsNewConnection(request) THEN ClientJoins(fd)
    ELSE IF Loop!IsEndConnection(request) THEN ClientLeaves(fd)
    ELSE \/ request = "setReady" /\ Game!SetReady(fd)
         \/ request = "bet"      /\ Game!BetRequest(fd, theBet)
         \/ request = "hit"      /\ Game!HitRequest(fd)
         \/ request = "stand"    /\ Game!StandRequest(fd)
         \/ IsRefused(fd, request) /\ UNCHANGED gameVars

\* basicRequestValidation compares the phases before it looks for the user.
IsRefusedUnseen(request) ==
    \/ request = "bet" /\ gameState # "BettingPhase"
    \/ request \in {"hit", "stand"} /\ gameState # "HitStandPhase"

UserIsMissed(fd, request) ==
    /\ ~Loop!UserIsFound(fd)
    /\ ~Loop!NoSuchHeader(request) /\ ~Loop!IsNewConnection(request)
    /\ ~IsRefusedUnseen(request)

-----------------------------------------------------------------------------
Accept(fd) ==
    /\ pc = "accept"
    /\ ClientJoins(fd)
    /\ Loop!Accept(fd)

HandleRequest(fd) ==
    /\ Loop!ParsesClient(fd)
    /\ inbox[fd] # <<>>
    /\ ExecuteAction(fd, Head(inbox[fd]))
    /\ Loop!HandleRequest(fd)
    /\ pc' = "terminated" <=> UserIsMissed(fd, Head(inbox[fd]))

Disconnect(fd) ==
    /\ Loop!ParsesClient(fd)
    /\ ClientLeaves(fd)
    /\ Loop!Disconnect(fd)

\* What calls no handler.
LoopOnly ==
    /\ UNCHANGED gameVars
    /\ \/ Loop!WaitForAnActivity
       \/ Loop!AcceptFails
       \/ Loop!EndOfLoop
       \/ Loop!SkipConnection
       \/ \E fd \in Fd : Loop!ReadFails(fd)

ServerStep ==
    \/ LoopOnly
    \/ \E fd \in Fd : Accept(fd) \/ HandleRequest(fd) \/ Disconnect(fd)

ClientStep == UNCHANGED gameVars /\ Loop!ClientStep

Init == Game!Init /\ Loop!Init

Next == ServerStep \/ ClientStep

Spec == Init /\ [][Next]_vars

-----------------------------------------------------------------------------
(* The loop takes what select reports, and a player the round waits for    *)
(* sends what it waits for, again and again if he has to, as long as his   *)
(* connection takes it.                                                    *)
NeededRequest == IF gameState = "BettingPhase" THEN "bet" ELSE "stand"

AwaitedPlayerSends(fd) ==
    /\ fd \in Game!Awaited
    /\ UNCHANGED gameVars
    /\ Loop!Send(fd, NeededRequest)

FairSpec ==
    /\ Spec
    /\ WF_vars(ServerStep)
    /\ \A fd \in Fd : SF_vars(AwaitedPlayerSends(fd))

-----------------------------------------------------------------------------
(* Between two handlers every player is a user, every user has an open     *)
(* connection the loop visits, every connection has a user unless its      *)
(* client has asked to leave, and the round waits for somebody the loop    *)
(* listens to, also after disconnections in the middle of a pass.          *)
SeatsBelongToConnections ==
    Loop!Running =>
        /\ DOMAIN players \subseteq DOMAIN users
        /\ DOMAIN users = ToSet(connections) \ departed
        /\ gameState # "NotStarted" => Game!Awaited \cap ToSet(connections) # {}

(* What SocketServer.tla says of the string nothing catches, with the      *)
(* users map the handlers really keep: it ends the server only for a       *)
(* client who has left by a request of his own.                            *)
OnlyDepartedUsersAreMissed == Loop!OnlyDepartedUsersAreMissed

(* GameServer.tla assumes of its sockets that each joins before it sends,  *)
(* leaves as a user, and comes back as a new user without a seat.  Loop    *)
(* and header table keep to that, with slots visited after an erase, and   *)
(* clients who leave or join by a request in the middle of a round.  What  *)
(* they do to the game is a run of Game!Spec (whose steps are looked up    *)
(* only if something changes); every connection begins with a user who     *)
(* joins, and ends with one who leaves unless he had left before.          *)
RunsTheGame ==
    /\ Game!Init
    /\ [][/\ UNCHANGED gameVars \/ Game!Next
          /\ \A fd \in open' \ open : Game!ClientJoin(fd)
          /\ \A fd \in open \ open' : Game!ClientLeave(fd) \/ fd \in departed
         ]_<<gameVars, open>>

(* No round is under way for ever, once its players send what is needed,   *)
(* through a loop that abandons passes, and among clients who hang up,     *)
(* reset, leave and join by request and send what is refused, unless no    *)
(* descriptor is left for pending connections for ever, the process dies,  *)
(* or read blocks on one client for ever.                                  *)
RoundEnds ==
    <>[]~Loop!OutOfDescriptors /\ []<>~Loop!BlockedOnOneClient =>
        []<>(gameState = "NotStarted" \/ ~Loop!Running)
=============================================================================
