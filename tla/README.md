# Verification of the Blackjack server

TLA+ models, TLC configurations and TLAPS proofs about the Blackjack server of this
repository: a single-threaded C++ server that seats the users of a lobby at one
Blackjack table, and the socket loop underneath it. Paths below are relative to `src/src/`
(implementation) and `src/includes/` (headers).

## 1. The system

| Component | State | Operations | Talks to |
|---|---|---|---|
| Socket server, `SocketConnection/Server.cpp` | `m_connections`, the `fd_set`, the master socket | `waitForAnActivity`, `parseActivity`, `parseServerActivity`, `parseClientActivity` | kernel; calls the join, leave and message handlers it was given |
| Network tools, `NetworkTools/` | header -> action map | `NetworkHost` turns socket events into controller calls, `RequestMapper::executeAction` | socket server, controllers |
| Lobby controller, `BlackjackServer/Controllers/LobbyController.cpp` | `users` | `clientJoin`, `clientLeave`, `changeName`, `setReady`, `sendMsg` | user manager; calls `startGame` and `leaveGame` |
| Game session controller, `.../GameSessionController.cpp` | `players`, `gameSession` (state, dealer's hand) | `startGame`, `startHitStandPhase`, `startCashing`, `endGame`, `leaveGame`, `betRequest`, `hitRequest`, `standRequest` | game logic, user manager |
| Game logic, `BlackjackLogic/` | none of its own (the shoe) | `PlayerLogic`, `DealerLogic`, `GameStatusLogic`, `PointsTools` | data layer |
| User manager, `Services/UserManager.cpp` | none of its own | who is bankrupt, who can join, who is waited for, whether the game is ready | data layer |
| Data layer, `DataLayer/` | `BjDatabase`: `users`, `players`, `gameSession` | `getUser` (throws a string) | everybody |
| Socket IO, `SocketIO/` | none | `Reader::read`, `Writer::write` | kernel |
| Cards, `PlayingCards/` | the shoe: 5 decks | `shuffle`, `dealCard` (throws `NotEnoughCards`) | dealer logic |
| Views, loggers, wiring | none | texts, constructors | - |
| Client, `BlackjackClient/`, `NetworkClient`, `KeyboardInputTools` | two threads: keyboard and network | commands, printing | server |

How they interact: `main` runs `waitForAnActivity` and `parseActivity` in turn on one thread.
A handler therefore runs to its end before the next one, including everything it calls:
the `stand` of the last player draws the dealer's cards, pays everybody, makes everybody
unready and clears the table within one call. Concurrency is between that thread and the
clients, who connect, send and hang up at any moment, also between two iterations of the loop
over the connections. All shared state is in `BjDatabase`; `players` holds raw pointers into
`users`.

What is hard, and what correctness means, per component:

* *Game*. Any request can come in any phase, and a player can disconnect at every point.
  Each phase must end exactly when the last player it waits for has acted or left;
  players must be users; money must survive rounds that are started again or cut short; cards
  must not move from one round to the next; a finished hand must stay as it is.
* *Points and cashing*. Several aces, the order of the cases (bust, blackjack, dealer's bust,
  comparison) and the 3/2 payment.
* *Socket loop*. A range-for over a vector that its body erases from; descriptors that the kernel
  reuses; reads that block the only thread; exceptions that leave the loop half way.
  Connections and open sockets must stay one and the same set, every connection must have a user
  unless its client has asked to leave, and every client must be served. The join and leave handlers are
  in the same table as all others, so that a client can run them with a header of its own.
* *Socket IO*. Short reads and writes, messages without payload, writes to a closed peer.
* *Names*. Uniqueness, also of the generated guest names.
* *Amounts*. Doubles compared with a tolerance, and NaN.
* *Shoe*. 260 cards against an unbounded number of players.
* *Client*. Two threads on one socket.

`PROJECT.json` lists the hazards one by one with the properties that cover them.

## 2. Modules

```
PointsTools ---- HandPointLoops ---- Dealing ---- MCDealing
     |
     |   Amounts
     |     |
    GameServer ------- MCGameServer      SocketServer ---- MCSocketServer
     |     implements Round                    |
     |                                         |
     +----------- BlackjackSystem -------------+        RequestStream --- MCRequestStream
                       |
                  MCBlackjackSystem                     LobbyNames ------ MCLobbyNames
```

The proofs about a module `M` are in `M_proofs`, which extends it: `HandPointLoops_proofs`, `Dealing_proofs` (on top of
it), `GameServer_proofs` (invariants), `GameSteps_proofs` (on top of it: refinement and action properties),
`SocketServer_proofs`, `BlackjackSystem_proofs` (on top of the last three's invariants), `RequestStream_proofs` and
`LobbyNames_proofs`.

### PointsTools: values of cards and hands
The code asks three things of a hand: its points, whether it is busted, whether it is a blackjack.
A hand is modelled as a *tally*: number of cards, total with aces counted 1, has an ace.
`HandPointLoops` and `Dealing` justify that.

### HandPointLoops and Dealing: cards, hands and the shoe
`HandPointLoops` has `getHandPoints` as it is written: two folds over a sequence of ranks.
`Dealing` is the hit-stand phase of the code with these sequences and with a finite shoe: five decks in
the code (`nbOfCopies` of each rank here), new in every hit-stand phase, out of which `init`, hits and the
dealer's final cards are taken. A shuffled shoe may hold its cards in any order, so the next
card is any card left. `dealCard` throws `NotEnoughCards` when there is none, in the middle of
whatever handler needs it, and nothing catches that: `phase` becomes `"terminated"`.
All hands that come up, also those that `leaveGame` deals two more cards to, are checked against the
definition the rules give (the best total not over 21, or the lowest one) and against the tally. Bets
play no part here, so `StartRound` is the last bet and the betting phase is left out.

### Amounts: what the game compares
Money and bets are doubles. What `executeBet`, `aBetIsPlaced` and `userIsBankrupt` tell apart is an
amount's place relative to `epsilon` and to the user's money, and NaN, which fails every
comparison and absorbs every sum. `Amounts` has the comparisons and the arithmetic on whole numbers and
NaN; `epsilon` is a number of the unit, so that there are bets that are too small, and bets that exceed the
money by less than `executeBet` notices.

### GameServer: the game
`users` and `players` are functions keyed by socket, like the two `unordered_map`s; `gameState`
and `dealersHand` are the fields of `GameSession`. One action per handler: `ClientJoin`,
`ClientLeave`, `SetReady`, `BetRequest`, `HitRequest`, `StandRequest`. Private steps
(`StartGame`, `StartHitStandPhase`, `StartCashing`, `EndGame`, `LeaveGame`, `CashOnceAllStand`)
are operators that take the users and players as the handler has made them so far, since one
handler changes the maps several times (a bet is taken, then cards are dealt, then perhaps
everybody is cashed). Drawing cards is a choice among `DealtRanks`. Things to know when reading it
beside the code:

* A request that fails a check is answered with a whisper and changes nothing. It is a
  stuttering step, not an action.
* `kCashingPhase` is never assigned; cashing happens inside one handler.
* `createThePlayers` gives every player one hand, inlined in the player.
* `startHitStandPhase` checks right away whether all hands are standing, as the code does, and
  `leaveGame` has a branch for it. In a first deal every hand is sitting; the check matters when a player
  leaves whose hand was the only one still sitting. `leaveGame`'s own branch cannot be taken, because in the
  hit-stand phase `allPlayersHavePlacedTheirBets` comes first. It is kept as the code has it.
* Bets are whole amounts in a unit in which every bet is even, so that 3/2 of it is whole.
  Multipliers are counted in halves.

### Round: what the game promises
An abstract round, without cards or money: who is connected, who is seated, who is awaited, and
the phase. Betting turns into playing, and playing into idle, exactly when nobody is awaited any
more. `GameServer` implements it under `awaited <- Awaited, phase <- Phase`
(property `RunsRounds`). A player who leaves while others still have to act may *restart*
the playing phase in the code (finding 2), but `Round` sees only who is awaited, and the code gives
nobody a second turn, so the refinement holds.

### SocketServer: the loop
`connections` is the live part of `m_connections`, `pos` the iterator. The end iterator of the
range-for is computed once; `stale` holds the slots between the live end and that cached end,
which keep the values `erase` left in them. `readSet` is the `fd_set` after `select`. The kernel
side is `open`, `inbox`, `hungUp`, `reset`, `backlog`. One iteration of the loop is one step, so clients
move between any two iterations. A read with nothing to read has no step: the server blocks
until that client sends something or hangs up. Three exceptions abandon the pass and send `main` back to
`select`: a request with an unmapped header, a `read` that fails (on a socket already closed, or once on a
connection its client has reset), and an `accept` that fails because the process has no descriptor left
(`AcceptFails`; the connection stays pending). `erase(end())` is undefined behaviour
and modelled as a choice between a crash and the loss of the last element.

Of the header table `ExecuteAction` has what it does to users and process. `main.cpp` puts `clientJoin` and `clientLeave`
into it under the headers 1 and 2, and `onConnectionMsg` looks up whatever header a client sends. Header 2 erases the
user and leaves the connection open (`LeaveAndStayConnected`); the history variable `departed` remembers such clients. Header 1
gives a departed client a new user (`JoinAfterLeaving`). From one who has a user, `insert` takes nothing, the new `UserModel` is
freed and its name read afterwards: undefined, and modelled as going on or crashing (`JoinAgain`). All other handlers look the
user up, and `getUser` throws a string literal that nothing catches: the process ends (`GetUserThrows`). `betRequest`,
`hitRequest` and `standRequest` do so only in the phase they belong to, which the loop does not know, so there
`ExecuteAction` leaves it open whether the lookup happens.

`SocketServer` reads whole requests and does not model the writes of the handlers. What happens
below that line, between one client and the server, is `RequestStream`.

### BlackjackSystem: the loop and the game together
`main` gives the loop's events to the game's handlers. `BlackjackSystem` instantiates `SocketServer` with the
keys of the game's `users` as its users, and `GameServer` with the loop's descriptors as its sockets, and joins
their steps: `Accept` is the loop's `Accept` with `clientJoin`, `Disconnect` with `clientLeave`, `HandleRequest`
with the handler of the request's header, `clientJoin` and `clientLeave` among them, or with none if the handler refuses it
or ends the process. `UserIsMissed` says exactly when that is: the client has left by a request, and sends a request
whose handler gets to `getUser`. All other steps of the loop
and of the clients leave the game alone. `GameServer` on its own takes for granted that a socket joins
before it sends anything, leaves as a user, and is a new user when it comes back. `RunsTheGame` says that this loop, with its
skipped, repeated and left-over slots and with the two headers sent at any moment, keeps to it: whatever changes in the game is a
step of `GameServer`, each connection begins with a `ClientJoin`, and each ends with a `ClientLeave` unless its client
has departed before.

### RequestStream: one client and its connection
Both ends are programs of this repository. The client's keyboard thread turns a line into at
most one request (`SendLine`) or ends the process (`DieOf`); its network thread selects and reads.
The server reads with the same `Reader` and writes messages when it is not in the middle of a request.
`wire` and `received` are what TCP has under way and what the kernel has in the receive buffer, as
*cells*: the length, the header, and one or two pieces of the payload. `Arrive` moves one
cell, so each of the three `::read`s of `Reader::read` can meet any prefix of what was sent, and the last
one can return part of a payload. A closed end answers what is written to it with a reset; `reset` is
what an end knows of that. `ReadNothing` is the read that returns 0, at the end of the stream or
because the payload has no bytes; `ReadError` the one that returns -1; `SelectFails` is how the client's
network thread notices that it has closed its own socket.

What the model shows beside its properties:

* `set name to ` with nothing behind it is sent as a request without payload, which the server takes
  for a disconnection: it closes the connection and forgets the user. `send msg: ` checks for this.
* Once a payload is torn (`torn`), the rest of it is read as the next length. `OnlyEmptyRequestsDisconnect`
  and `RequestsAreHandledAsSent` say nothing of an end that has torn a payload: it may execute another action, wait for
  bytes that never come, or drop its connection.
* `bet 1e999` makes `std::stod` throw `out_of_range` where `placeABet` catches `invalid_argument`;
  the client ends.

### LobbyNames: who is called what
`names` and `address` by socket; `ClientJoin`, `ChangeName`, `ClientLeave`. A name is a model value,
well-formed or not; `guestName` gives each port its own. Two hosts with the same port get the same guest
name, and a user may take the guest name of somebody who joins later. `SharedNamesAreGuestNames`
says exactly how far uniqueness goes.

## 3. Runs

| Run | Question | Instance |
|---|---|---|
| `dealing` | Are points, busts and blackjacks right, and does the tally give the same? When does the shoe run out? | shoe of 9 cards (eights, tens, aces), tables of 1, 2 and 4 |
| `game_three` | Phases, seats, cards; where the money goes; who can be awaited; `RunsRounds`; a standing hand gets no card while nobody leaves | 3 sockets, tens and aces, bets 2, 4, 6 and NaN |
| `game_ready` | *violation*, finding 1 | 2 sockets |
| `game_standing` | *violation*, finding 2 | 3 sockets |
| `game_nan` | *violation*, finding 3 | 2 sockets |
| `sockets` | Users, connections and open sockets agree; nobody's user is missed who has not departed; no blocking read before an erase; every input is dealt with | 3 descriptors; clients join again, send empty requests and unmapped headers |
| `system` | Does the loop run the game as `GameServer` says? Do seats and connections agree? Who can end the server by a missing user? Does every round end? | 2 descriptors; ready, bet, hit, stand and the headers of join and leave; tens only |
| `sockets_blocks` | *violation*, finding 4 | 3 descriptors |
| `sockets_survives` | *violation*, finding 5 | 2 descriptors |
| `names` | Who can share a name | 3 sockets, 2 hosts, 2 ports |
| `stream` | Requests are handled as sent, in order and in the end; who disconnects whom; a client ends with its server | 2 writes at each end, lines of each payload size and `exit` |
| `stream_survives` | *violation*, finding 6 | 2 writes at each end, all lines |

Bounds, and why they are enough:

* Three players are what it takes for one to leave while one stands and one still plays. Money
  questions compare two players who are cashed in the same call.
* `DealtRanks`: a ten and an ace give 20, blackjack, 12, busts, soft hands that turn hard, and a dealer
  who draws to 17 to 21 or over. In `system` tens alone: 20 for everybody, busts by hitting; what cards do to
  money and hands is the question of the other runs.
* `BetAmounts`, with an initial money of 4 and an `epsilon` of 2, contains an amount that is too small (2), one that
  takes all (4), one that exceeds the money unnoticed (6), and NaN. `HandIndexes` contains a hand that does not exist.
* `MaxMoney` bounds the state space: a richer user no longer gets ready. In `game_three` it is twice the
  initial money, so a winner can play again, once. A user who has more then blocks new rounds, since
  he has money and is not ready, until he leaves. `MaxHandCards` stops hitting at three cards; hands of more
  cards are the business of `dealing`.
* The shoe of `dealing` has 57 points with aces counted low, exactly what `ShoeLasts` asks for one player
  (31 and the dealer's 26). Two players can empty it, in a hit as well as in the dealer's drawing, and it does not
  do for dealing to four. The hands have up to three aces.
* `Fd` with three elements allows two erases in one pass with a live connection beside them, and a
  fourth client that finds no descriptor. `maxPendingConnections` is 1: accept takes one connection in a pass.
  `MaxInbox` is 1: a second request in the same socket is read in the next pass and only
  repeats what the first one does.
* The messages of `sockets` are those that do something to the loop, but for the header of leave: with it three
  descriptors have some six million states. It is sent in `system`, where a departed client meets every phase; the
  theorems (section 5) cover it for any number of descriptors.
* `system` has two descriptors, each handed out again and again: two players, one of whom leaves (by request or by hanging
  up), sends what is refused, or comes back in the middle of a pass. When the first of two connections is erased, the
  other one is visited in the slot it leaves behind, once; it takes a third for the loop to skip one and read another
  twice, so that case (finding 4) is in `sockets` only. In it `RoundEnds` would fail if a blocked read lasted for ever,
  which its premise excludes; three descriptors that start with an empty lobby are too many states for it.
  `RunsTheGame`, `SeatsBelongToConnections` and `OnlyDepartedUsersAreMissed` are proved for any number.
* `MaxWrites` is 2: the second request stands behind a first one that may be empty, torn or unread,
  and the second write of an end is the one that can meet a reset. A payload of two cells is
  the smallest that can be torn. A third request repeats the second.
* Three users of two hosts and two ports: two can share a guest name while a third one chooses it.
* Symmetry over sockets or players is used for safety only.

Deadlock is checked in the runs of `GameServer`, where a user can always join or leave. It is off
in `Dealing` and in `SocketServer` and `BlackjackSystem`, where the process may die or everybody may wait for one
client (finding 4), and in `RequestStream`, where both ends may end.

Fairness:

* `SocketServer!FairSpec`: weak fairness of the server's step. The loop of `main` sleeps only
  in `select` and `read`. Nothing is assumed of the clients. `EveryInputIsHandled` excludes, in the formula, what
  the code itself cannot get over: requests that throw, each of which abandons the connections behind it, if
  they go on coming for ever; connections for which no descriptor is ever left; a process that has died; and a
  `read` that blocks (finding 4). Exceptions that come finitely often are not excluded.
* `BlackjackSystem!FairSpec`: the same of the server, and strong fairness of an awaited player sending the request
  the round waits for. `RoundEnds` excludes, in the formula, that connections for which no descriptor is left wait for ever,
  that a `read` blocks for ever (finding 4), and a process that has died. Strong, because his inbox may be full of other requests of his and is emptied again
  and again; that he keeps asking is an assumption about people. Nothing is assumed of joining, leaving,
  hanging up, getting ready or of any other request. A player who bets NaN is not among the clients of this run:
  finding 3 says what becomes of the round.
* `RequestStream!FairSpec`: weak fairness of arrival, of the reads of both ends and of the client's failing
  `select`. TCP delivers, and both loops come back to their socket; that the server's does so is
  what `EveryInputIsHandled` says, under the restrictions above. Nobody has to type
  anything, so the keyboard thread may wait for ever.

## 4. Findings

1. **A game that everyone is ready for does not start** (`game_ready`). The last user who is not
   ready leaves; `clientLeave` does not ask `gameIsReady`, and `setReady` refuses the ones who are
   ready already.
2. **Standing hands get new cards** (`game_standing`). A player leaves in the hit-stand phase;
   `leaveGame` asks `allPlayersHavePlacedTheirBets` first, whatever the phase, and starts the
   hit-stand phase again: new dealer's hand, two more cards for everybody, also for hands that stand
   or are busted.
3. **A bet of NaN is taken and never counts** (`game_nan`). The client reads `bet nan` with `std::stod`. No check of
   `executeBet` refuses it, everybody is told that the bet is placed, and the user's money is NaN; but
   `aBetIsPlaced` compares it with epsilon and says no. The table stays in the betting phase until that player
   leaves. `NotANumberStaysInItsBet` is the other half: nothing else is lost by it.
4. **The server can block on one client** (`sockets_blocks`). After an erase the range-for skips a
   connection and visits the last one twice. The second read has nothing to read.
5. **Two disconnections in one pass** (`sockets_survives`). The stale slot of the second
   one is not in the vector any more; `erase(end())`.
6. **A client that ends can end the server** (`stream_survives`). Messages are written to its
   socket until the loop gets to it. The first is answered with a reset, the second raises SIGPIPE,
   which nothing ignores.

Four things seen while modelling or reading that no violation run is about. A client that sends header 2
(`kEndConnectionHeader`) loses its user and keeps its connection; its next request that looks the user up, or its
hang-up, ends the server for everybody, since nothing catches what `getUser` throws (`OnlyDepartedUsersAreMissed` says that nobody else
can). A client that sends header 1 while it has a user makes `clientJoin` read a freed `UserModel`
(`LobbyController.cpp:36-40`). The clients of this repository send neither. `NetworkHost::broadcastRequest` skips every connection
*but* `exceptConnection` when one is given (nobody gives one), and `accept` never compares
`m_maxNbOfClients`. When the process has no descriptor left, `accept` throws before any client is read, and since
the connection stays pending, every following pass does the same until somebody else closes a descriptor, which
only the abandoned part of the pass could do: `OutOfDescriptors` in the premise of `EveryInputIsHandled`.

## 5. Proofs

Every theorem holds for all values of the constants that the assumptions named below allow; the bounds of the
models (`MaxMoney`, `MaxHandCards`, `MaxInbox`, `MaxWrites`) occur in guards only and no proof uses them, so the theorems
hold of the unbounded systems too.

### The game

`GameServer_proofs` proves, for every set of sockets, initial money, bets and ranks:

| Theorem | Property |
|---|---|
| `TypeCorrect` | `TypeOK` |
| `PlayersCorrect` | `PlayersAreTheReadyUsers` |
| `RoundNeverHangs` | `RoundAwaitsSomeone` |
| `AwaitedCanPay` | `AwaitedUsersAreSolvent` |
| `NaNIsConfined` | `NotANumberStaysInItsBet` |
| `CardsCorrect` | `CardsBelongToTheRound` |

Assumptions: `NaNAssumption`, `EpsilonAssumption` (epsilon is a natural number of the unit), `MoneyAssumption`
(natural initial money, even integer bets or NaN) and `DealtRanksAssumption`.

The inductive invariant `IInv` is the conjunction of the six, all of which the runs check. They need each
other: that types are kept when cards are dealt needs nothing else, but that players stay users
when one leaves needs the seat gone from both maps; that a new betting phase awaits somebody needs
the table to be empty before; that a seated user can pay needs the ready users to be exactly the
players, so that after cashing nobody is still ready with no money left; that nobody else's money becomes NaN
needs the hit-stand phase to have all bets placed, since a placed bet is a number. The argument follows
the code: one lemma for each of the steps handlers share (`CashingKeepsIInv`, `DealingKeepsIInv`,
`PlayingOnKeepsIInv`), stated of the users and players made so far, and one lemma per handler on
top of them.

`GameSteps_proofs` proves of the steps:

| Theorem | Property |
|---|---|
| `RoundRefinement` | `RunsRounds`: `GameServer` implements `Round` |
| `StandingHandsStay` | `StandingHandIsFinalWhileAllStay` |
| `MoneyCorrect` | `MoneyIsConserved` |
| `CashingIsFair` | `StrongerHandEarnsNoLess` |

The refinement has one lemma per handler, which names the step of `Round` it maps to or shows that it maps to none: a
join connects, a departure disconnects and may end the phase, the last bet and the last stand go on to the next phase.
`IInv` supplies what the mapping needs: that the players are users, and that a phase that goes on still awaits somebody.
`MoneyIsConserved` follows each handler through the maps it makes: a step either keeps the sum of a user's money and his bet
or is the one that cashes him. `StrongerHandEarnsNoLess` needs one more invariant, `HandsAreCounted` (every card counts a point at
least, and bets are even, so that 3/2 of one is exact), proved by `CountedInvariance`.

### Cards

`HandPointLoops_proofs` proves of a hand of any length, and `Dealing_proofs` of every hand the handlers can deal, for any
tables and any decks:

| Theorem | Property |
|---|---|
| `TallyAnswersAsTheLoops` | (of a sequence of ranks) the tally gives the points, busts and blackjacks of the loops |
| `LoopsFindTheBestTotal` | (of a sequence of ranks) `getHandPoints` is the best total |
| `BustedHandsStayBusted` | (of two sequences of ranks) more cards do not rescue a hand |
| `DealingTypeCorrect` | `TypeOK` |
| `PointsAreRight` | `PointsAreTheBestTotal` |
| `TalliesAreRight` | `TallyAgreesWithLoops` |
| `BustsAreFinal` | `BustIsFinal` |
| `ShoeIsEnough` | `ShoeLasts` |

Assumptions: `TablesAssumption` (finite, nonempty tables) and `DeckAssumption`.

The loops are folds, and the argument about them an induction along the cards. The provers cannot instantiate the library's
induction theorems, whose parameter is an operator, so `Induction` and `InductionUpTo` state induction with the set of the
numbers that have the property, from the least element of a set of natural numbers. `SubsetRecursion` then shows that the
recursive function inside `FoldLeft` exists, and one lemma per fold (`TotalStepByStep`, `SofteningStepByStep`,
`LowTotalStepByStep`, `TallyStepByStep`) reads it as the values its accumulator takes. `PassesAgree` compares the passes: with
aces counted 11 the total is the low one and 10 for each ace. `SofteningIsEnough` is the invariant of the second loop: it has
softened `k` aces, all there were or as many as it took, and one less would still be too many points. Since an ace is at
least a point, two aces never both count 11.

In `Dealing` the inductive invariant is `IInv`: types, and no hands between rounds. What it takes is that the dealer's drawing
loop, again a recursive function, only puts cards of the shoe on his hand (`DrawingKeepsTheTable`), and that no card is
taken that is not there (`OneCardLess`, `DealingLeavesAShoe`). For `BustIsFinal` each handler is shown to leave every hand that
remains with the cards it had, and maybe more on top (`HandsGrow`).

`ShoeIsEnough` counts points, aces low. Its invariant `Accounted` says that in the hit-stand phase the points of a new shoe
are still in the shoe, or in the dealer's hand, or were dealt to a player since the phase started, for some number `taken` of
each player. It exists but is no variable of the model, and not the worth of his hand: when somebody leaves, the
hands keep their cards and the shoe is new. `taken` is 21 at most as long as the player may hit, since his hand is worth as
much and is not busted, or he has got no more than a pair out of this shoe; the last hit brings it to 31 at most. The dealer
sits with 20 at most, and `DrawingIsPaidFor` shows that every turn of his loop moves the points of a card from the shoe to his
hand, so that he stops below 17 only at an empty shoe. Whenever a card is missing, then, all points of the shoe are with
players and dealer, and these have 31 each and 20. (The property grants the dealer 26, which is what he can end with.) Below this
lies a small theory of sums over finite sets: `MapThenSumSet` is a recursive function over the subsets, so `SumsExist`,
`SumsAreUnique` and `SumsAddUp` show that it is there, that it is one, and that the order does not matter; `NoMoreThan` and
`OneTermChanges` are what the handlers need of it, and `PointsDealt` exchanges a sum over ranks for one over the cards dealt.

### The loop, and the loop with the game

`SocketServer_proofs` proves, for any number of descriptors and any messages, assuming only that the
descriptors are finitely many and the backlog is a natural number:

| Theorem | Property |
|---|---|
| `SocketTypeCorrect` | `TypeOK` |
| `UsersMatchConnections` | `UsersAreConnected` |
| `OthersAreNeverMissed` | `OnlyDepartedUsersAreMissed` |
| `ReadsDoNotBlock` | `BlocksOnlyAfterAnErase` |

None of them is inductive. `IInv` there adds three facts. `LeftOverSlots`: a slot that erase left behind
the end of the vector names a closed socket or the last connection of the vector. This is why a slot that is
left over never has a request handled or a user looked up, so that only `departed` clients are missed (`UserIsMissed`), and why the undefined `erase(end())` of finding 5, when it drops the
last element instead of crashing, drops the very connection whose socket was closed. `BeforeTheLoop`: there are no
such slots until the range-for begins, and `accept` runs only with a connection pending. `FlaggedAreReadable`: as long
as nothing was erased, what `select` flagged and the loop has still to visit is readable.
`ConnectionsAreOpen` states `UsersAreConnected` by index, without `Cardinality`; `LengthIsCardinality` leads back. The users are
the open sockets without `departed`; each of the ways `ExecuteAction` can go keeps that equation.

`BlackjackSystem_proofs` proves of the composition:

| Theorem | Property |
|---|---|
| `GameRefinement` | `RunsTheGame`: the loop, left-over slots and the two headers included, calls the handlers as `GameServer` assumes |
| `OthersAreNeverMissed` | `OnlyDepartedUsersAreMissed`, of the users map the handlers keep |
| `SeatsCorrect` | `SeatsBelongToConnections` |

Assumptions: `LoopAssumption` and `GameAssumption`, which are those of the two modules for its constants. A step of the system
is a step of the loop, so the loop's invariant holds (`LoopInvariance`); with it, each step is one of the game or leaves it
alone (`SystemStepsTheGame`): whoever changes the game has a user, because his handler has looked him up or is `clientJoin`, and a
user who joins again is not taken (`JoiningAgainChangesNothing`, for which the game's own invariant is needed). A connection begins
with a join, because a descriptor that was closed has no user, and ends with a leave, because a slot the loop
visits with something to read is a connection, which has a user if it has not departed (`ConnectionsJoinAndLeave`). So the game's invariant holds as well, and
`SystemInvariance` is both together. `LoopP` and `GameP` are second instances of the two modules, with their proofs; the
lemmas called `Same...` say that their definitions are those of the system's own.

### Requests

`RequestStream_proofs` proves, for any lines, payloads and number of writes:

| Theorem | Property |
|---|---|
| `StreamTypeCorrect` | `TypeOK` |
| `StreamCorrect` | `RequestsAreHandledAsSent` |
| `DisconnectsCorrect` | `OnlyEmptyRequestsDisconnect` |

That what was handled is a prefix of what was sent says nothing of the cells in between. The inductive invariant `IInv` adds
`ReadersInStep`: there is a layout of the requests as cells (`Layout`: where the cells of each request start) such that the cells
that wait, received or on the wire, are those of the requests not handled yet, from the reader's position on (`Follows`), and
all of them while the other end is open (`InFull`): a reset may drop the end of the stream, but nothing from its middle. A reader
that is behind the length knows the length of the request it is at, and one behind the header knows the header. Each of the
three reads moves one step along the layout; a request that is written extends it; the request handled is the next of those
sent. All of it is said of an end that has not torn a payload. `OnlyEmptyRequestsDisconnect` follows with `SentIsMapped`: a
client in step meets a read that returns 0 in a payload of no bytes or at the end of the stream.

### Names

`LobbyNames_proofs` proves `NamesTypeCorrect` (`TypeOK`) and `NamesCorrect` (`SharedNamesAreGuestNames`) for every set of
sockets, hosts, ports and names, assuming only that guest names are well-formed (`NameAssumption`). The two are inductive
together: a newcomer brings his own guest name, and a changed name differs from all others.

### Only model-checked

Liveness (`EveryInputIsHandled`, `RoundEnds`, `EveryRequestIsHandled`, `ClientEndsWithItsServer`): fairness and `ENABLED` are
beyond the prover. The findings are counterexamples, and TLC finds them. Every safety invariant and action property
the passing runs check is proved.

## 6. Plan

Done: `PointsTools`, `HandPointLoops`, `Dealing`, `Amounts`, `Round`, `GameServer`, `SocketServer`,
`BlackjackSystem`, `LobbyNames`, `RequestStream`; their safety invariants proved, their action
properties, and both refinements.

What is left to model:

1. Writes within `SocketServer`: a handler broadcasts to every connection, also to those that have hung up.
   `RequestStream` has this for one client (finding 6); with several, SIGPIPE would be one more way a pass ends.
2. In `RequestStream`, lengths and headers that are torn, and writes that are cut short.

## 7. Not modelled

Views, loggers, `PrintHelper` and `SendHelper` produce text. The `App*` classes pass pointers
around once at start-up. `Server::setup` ends the program when it fails. `Deck::shuffle` and
`Deck::dealCard` are never called. Chat (`sendMsg`) changes no state. The `assert` of `betRequest` on the length
of its payload (`GameSessionController.cpp:121`) ends a debug build on a payload of another length, and a release build reads
past a shorter one; payloads of bets are whole here. That `close` fails and throws (`Server.cpp:222-223`) is left out: the
descriptor is open. Lengths and headers, four bytes each,
are never torn in `RequestStream`, and writes are never cut short. `SocketServer` and `BlackjackSystem` have no
writes, so the SIGPIPE of finding 6 does not end the server there. Doubles are whole numbers of a unit: the rounding of
amounts that are no multiple of it is left out, and an infinite bet is one nobody can afford.
