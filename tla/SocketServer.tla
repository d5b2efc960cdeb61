---------------------------- MODULE SocketServer ----------------------------
(***************************************************************************)
(* The single-threaded socket loop (SocketConnection::Server, driven by    *)
(* continouslyParseNetworkInput): select, accept at most one connection,   *)
(* then one range-for over m_connections that reads one request of every   *)
(* socket select has flagged.  A read of zero bytes closes the socket,     *)
(* runs the disconnect handlers and erases the connection from the vector  *)
(* the loop is iterating over.  accept fails when the process has no       *)
(* descriptor left, and read fails once on a connection that was reset;    *)
(* either exception ends the pass, and main goes back to select.           *)
(*                                                                         *)
(* The loop keeps the end iterator it computed at its start.  connections  *)
(* is the live part of the vector; stale is what lies between its end and  *)
(* the loop's cached end: slots left over by erase, which the loop still   *)
(* visits.  Clients connect, send, hang up and reset their connections     *)
(* between any two steps.                                                  *)
(*                                                                         *)
(* A request is one unit (its three reads return it whole); what it does   *)
(* to the game is GameServer.tla.  Of the handlers only what concerns the  *)
(* sockets is here: the users map gains a key on join and loses it on      *)
(* leave, and getUser throws for a socket without user.  The join and      *)
(* leave handlers stand in the same table as the others, so they run when  *)
(* a connection begins and ends, and also when a client sends their        *)
(* headers, in the middle of its connection.                               *)
(***************************************************************************)
EXTENDS Naturals, Sequences, SequencesExt, FiniteSets

CONSTANTS Fd,        \* descriptors accept can return before it fails with EMFILE
          Messages,  \* what a client can send
          maxPendingConnections,  \* the backlog of listen
          MaxInbox   \* bound: requests waiting in one socket

\* Four of the messages differ from the others in what the loop does with
\* them: "empty" has no payload ("set name to " and nothing more), "unknown"
\* a header no controller action is mapped to, "join" and "leave" have the
\* headers kNewConnectionHeader and kEndConnectionHeader.
IsEmpty(message) == message = "empty"

\* RequestMapper::executeAction throws NoSuchHeaderException.
NoSuchHeader(message) == message = "unknown"

IsNewConnection(message) == message = "join"

IsEndConnection(message) == message = "leave"

ASSUME FdAssumption == IsFiniteSet(Fd)
ASSUME PendingAssumption == maxPendingConnections \in Nat

VARIABLES
    \* the server process
    pc,           \* "wait", "accept", "clients", or how it died
    connections,  \* m_connections
    stale,        \* slots from the end of m_connections to the cached end
    pos,          \* the iterator of the range-for
    readSet,      \* m_socketDescriptorsSet after select, without the master
    users,        \* keys of m_dbContext->users
    departed,     \* history: the clients taken out of users by a request of theirs
    \* the kernel
    open,         \* descriptors of accepted connections, not closed by the server
    inbox,        \* requests received and not read
    hungUp,       \* descriptors whose client has closed its end
    reset,        \* those of them whose next read without a request fails
    backlog       \* connections waiting for accept

serverVars == <<pc, connections, stale, pos, readSet, users, departed>>
kernelVars == <<open, inbox, hungUp, reset, backlog>>
vars == <<pc, connections, stale, pos, readSet, users, departed,
          open, inbox, hungUp, reset, backlog>>

Running == pc \in {"wait", "accept", "clients"}

\* Mutant: the end of the loop is looked up again after an erase.
LiveSlots == connections

\* The slots the range-for goes through.
Slots == connections \o stale

\* A read on fd returns at once.
Readable(fd) == inbox[fd] # <<>> \/ fd \in hungUp

-----------------------------------------------------------------------------
(* waitForAnActivity *)
\* Mutant: the loop that fills the set starts at the second connection.
AllButFirst(conns) == ToSet(SubSeq(conns, 2, Len(conns)))

\* addSocketsToReadSet
AddSocketsToReadSet(conns) == ToSet(conns)

\* Mutant: FD_ISSET is true for every socket that was put in the set.
SelectKeepsTheSet(set) == set

Select(set) == {fd \in set : Readable(fd)}

WaitForAnActivity ==
    LET ready == Select(AddSocketsToReadSet(connections)) IN
    /\ pc = "wait"
    /\ ready # {} \/ backlog > 0
    /\ readSet' = ready
    /\ pc' = IF backlog > 0 THEN "accept" ELSE "clients"
    /\ pos' = 1
    /\ stale' = <<>>
    /\ UNCHANGED <<connections, users, departed, kernelVars>>

-----------------------------------------------------------------------------
(* An exception main catches ends the pass; select comes next.             *)
AbandonPass ==
    /\ pc' = "wait"
    /\ stale' = <<>>
    /\ pos' = 1
    /\ readSet' = {}
    /\ UNCHANGED <<connections, users, departed>>

(* parseServerActivity, then clientJoin.  Nothing compares the number of   *)
(* connections with m_maxNbOfClients.                                      *)
Accept(fd) ==
    /\ pc = "accept"
    /\ fd \notin open
    /\ open' = open \cup {fd}
    /\ connections' = Append(connections, fd)
    /\ users' = users \cup {fd}
    /\ backlog' = backlog - 1
    /\ pc' = "clients"
    /\ UNCHANGED <<stale, pos, readSet, departed, inbox, hungUp, reset>>

\* accept == -1: no descriptor is left, the connection stays pending.
AcceptFails ==
    /\ pc = "accept"
    /\ open = Fd
    /\ AbandonPass
    /\ UNCHANGED kernelVars

ParseServerActivity == AcceptFails \/ \E fd \in Fd : Accept(fd)

-----------------------------------------------------------------------------
(* The range-for of parseActivity. *)
Visited == Slots[pos]

EndOfLoop ==
    /\ pc = "clients"
    /\ pos > Len(Slots)
    /\ pc' = "wait"
    /\ stale' = <<>>
    /\ pos' = 1
    /\ readSet' = {}
    /\ UNCHANGED <<connections, users, departed, kernelVars>>

SkipConnection ==
    /\ pc = "clients"
    /\ pos <= Len(Slots)
    /\ Visited \notin readSet
    /\ pos' = pos + 1
    /\ UNCHANGED <<pc, connections, stale, readSet, users, departed, kernelVars>>

ParsesClient(fd) ==
    /\ pc = "clients"
    /\ pos <= Len(Slots)
    /\ fd = Visited
    /\ fd \in readSet

\* Mutant: looked up by way of the vector, where no left-over slot is.
UserOfLiveSlot(fd) == fd \in users /\ pos <= Len(connections)

\* BjDatabase::getUser throws a string literal, which nothing catches.
UserIsFound(fd) == fd \in users

\* clientJoin for a client who has a user: users.insert refuses the new
\* UserModel, which is freed, and its name is read next.  Undefined: the
\* message to all carries any name, or the process crashes.
JoinAgain == pc' \in {pc, "crashed"} /\ UNCHANGED <<users, departed>>

JoinAfterLeaving(fd) ==
    /\ users' = users \cup {fd}
    /\ departed' = departed \ {fd}
    /\ pc' = pc

\* clientLeave, without a look at the connection.
LeaveAndStayConnected(fd) ==
    /\ users' = users \ {fd}
    /\ departed' = departed \cup {fd}
    /\ pc' = pc

GetUserThrows == pc' = "terminated" /\ UNCHANGED <<users, departed>>

\* Every handler but clientJoin looks the user up; betRequest, hitRequest and
\* standRequest do so in the phase they belong to, and refuse in another one.
ExecuteAction(fd, message) ==
    CASE IsNewConnection(message) ->
            IF UserIsFound(fd) THEN JoinAgain ELSE JoinAfterLeaving(fd)
      [] IsEndConnection(message) ->
            IF UserIsFound(fd) THEN LeaveAndStayConnected(fd) ELSE GetUserThrows
      [] OTHER ->
            \/ UNCHANGED <<pc, users, departed>>
            \/ ~UserIsFound(fd) /\ GetUserThrows

\* parseClientActivity, readResult > 0.
HandleRequest(fd) ==
    /\ ParsesClient(fd)
    /\ fd \in open
    /\ inbox[fd] # <<>> /\ ~IsEmpty(Head(inbox[fd]))
    /\ inbox' = [inbox EXCEPT ![fd] = Tail(@)]
    /\ IF NoSuchHeader(Head(inbox[fd]))
       THEN AbandonPass
       ELSE /\ ExecuteAction(fd, Head(inbox[fd]))
            /\ pos' = pos + 1
            /\ UNCHANGED <<connections, stale, readSet>>
    /\ UNCHANGED <<open, hungUp, reset, backlog>>

\* readResult == -1: a slot that is left over names a socket already closed,
\* or the connection was reset, which read reports once.
ReadFails(fd) ==
    /\ ParsesClient(fd)
    /\ fd \notin open \/ (inbox[fd] = <<>> /\ fd \in reset)
    /\ AbandonPass
    /\ reset' = reset \ {fd}
    /\ UNCHANGED <<open, inbox, hungUp, backlog>>

\* Mutant: the connection stays in the vector.
EraseNothing(conns) == conns

\* m_connections.erase of the visited slot: the following ones move up, and
\* the last slot keeps its value.
EraseVisited(conns) == RemoveAt(conns, pos)

\* erase(end()), when the visited slot is no longer in the vector and
\* find_if does not find its address: undefined.  Either a copy of negative
\* length crashes the process, or none is made and the last element goes.
EraseEnd(conns) ==
    \/ pc' = "crashed" /\ connections' = conns
    \/ pc' = pc /\ connections' = Front(conns)

\* Erasing the slot of a live connection.
EraseConnection(conns) ==
    /\ connections' = EraseVisited(conns)
    /\ pc' = pc

\* Mutant: the socket is not closed.
CloseNothing(fd) == UNCHANGED <<open, inbox, hungUp, reset>>

CloseSocket(fd) ==
    /\ open' = open \ {fd}
    /\ inbox' = [inbox EXCEPT ![fd] = <<>>]
    /\ hungUp' = hungUp \ {fd}
    /\ reset' = reset \ {fd}

\* readResult == 0: end of file, or a request without payload.
Disconnect(fd) ==
    /\ ParsesClient(fd)
    /\ fd \in open
    /\ IF inbox[fd] # <<>> THEN IsEmpty(Head(inbox[fd])) ELSE fd \in hungUp \ reset
    /\ CloseSocket(fd)
    /\ IF ~UserIsFound(fd)
       THEN pc' = "terminated" /\ UNCHANGED <<connections, stale, users>>
       ELSE /\ users' = users \ {fd}
            /\ stale' = <<Last(connections)>> \o stale
            /\ IF pos <= Len(connections)
               THEN EraseConnection(connections)
               ELSE EraseEnd(connections)
    /\ pos' = pos + 1
    /\ UNCHANGED <<readSet, departed, backlog>>

ParseClientActivity(fd) == HandleRequest(fd) \/ ReadFails(fd) \/ Disconnect(fd)

ServerStep ==
    \/ WaitForAnActivity
    \/ ParseServerActivity
    \/ EndOfLoop
    \/ SkipConnection
    \/ \E fd \in Fd : ParseClientActivity(fd)

-----------------------------------------------------------------------------
(* The clients, and the kernel. *)
Connect ==
    /\ Running
    /\ backlog < maxPendingConnections
    /\ backlog' = backlog + 1
    /\ UNCHANGED <<serverVars, open, inbox, hungUp, reset>>

Send(fd, message) ==
    /\ Running
    /\ fd \in open \ hungUp
    /\ Len(inbox[fd]) < MaxInbox
    /\ inbox' = [inbox EXCEPT ![fd] = Append(@, message)]
    /\ UNCHANGED <<serverVars, open, hungUp, reset, backlog>>

HangUp(fd) ==
    /\ Running
    /\ fd \in open \ hungUp
    /\ hungUp' = hungUp \cup {fd}
    /\ UNCHANGED <<serverVars, open, inbox, reset, backlog>>

\* The client ends with messages it has not read: the kernel sends a reset.
Reset(fd) ==
    /\ Running
    /\ fd \in open \ hungUp
    /\ hungUp' = hungUp \cup {fd}
    /\ reset' = reset \cup {fd}
    /\ UNCHANGED <<serverVars, open, inbox, backlog>>

ClientStep ==
    \/ Connect
    \/ \E fd \in Fd :
        HangUp(fd) \/ Reset(fd) \/ \E message \in Messages : Send(fd, message)

-----------------------------------------------------------------------------
Init ==
    /\ pc = "wait"
    /\ connections = <<>>
    /\ stale = <<>>
    /\ pos = 1
    /\ readSet = {}
    /\ users = {}
    /\ departed = {}
    /\ open = {}
    /\ inbox = [fd \in Fd |-> <<>>]
    /\ hungUp = {}
    /\ reset = {}
    /\ backlog = 0

Next == ServerStep \/ ClientStep

Spec == Init /\ [][Next]_vars

(* The loop of main never sleeps but in select and in read, and those      *)
(* return once there is something to return.                               *)
FairSpec == Spec /\ WF_vars(ServerStep)

-----------------------------------------------------------------------------
(* The iterator stays within the slots the loop started with, and only a   *)
(* client that is gone has reset its connection.                           *)
TypeOK ==
    /\ pc \in {"wait", "accept", "clients", "crashed", "terminated"}
    /\ connections \in Seq(Fd) /\ stale \in Seq(Fd)
    /\ pos \in 1 .. Len(Slots) + 1
    /\ readSet \subseteq Fd /\ users \subseteq Fd /\ open \subseteq Fd
    /\ departed \subseteq Fd
    /\ inbox \in [Fd -> Seq(Messages)]
    /\ hungUp \subseteq open /\ reset \subseteq hungUp
    /\ backlog \in 0 .. maxPendingConnections

(* Between two requests every open socket has exactly one connection, and  *)
(* a user unless its client has itself sent the header that ends one, also *)
(* after disconnections in the middle of a pass.  So a descriptor the      *)
(* kernel hands out again never meets an old user, whose entry             *)
(* users.insert would keep.                                                *)
UsersAreConnected ==
    Running =>
        /\ departed \subseteq open
        /\ users = open \ departed
        /\ ToSet(connections) = open
        /\ Len(connections) = Cardinality(open)

(* The string getUser throws, which nothing catches, does end the server,  *)
(* but only in a request or the hang-up of a client who has left by a      *)
(* request of his own and has not joined again: never because the loop     *)
(* visits slots of sockets that it has closed.                             *)
OnlyDepartedUsersAreMissed == pc = "terminated" => Slots[pos - 1] \in departed

(* A socket select has flagged is still readable when the loop gets to it, *)
(* so read does not block the only thread, as long as no connection was    *)
(* erased in this pass.                                                    *)
BlocksOnlyAfterAnErase ==
    pc = "clients" /\ stale = <<>> /\ pos <= Len(Slots) /\ Visited \in readSet
        => Readable(Visited)

(* The server waits in read for one client, though it is not its turn.     *)
BlockedOnOneClient ==
    /\ pc = "clients" /\ pos <= Len(Slots)
    /\ Visited \in readSet \cap open /\ ~Readable(Visited)

OutOfDescriptors == open = Fd /\ backlog > 0

RequestThrows == \E fd \in Fd : inbox[fd] # <<>> /\ NoSuchHeader(Head(inbox[fd]))

(* What a client sends, and that it hangs up, is dealt with in the end,    *)
(* however many exceptions abandon the pass before the loop gets to it,    *)
(* unless requests that throw or connections no descriptor is left for     *)
(* come for ever, the process dies, or read blocks.                        *)
EveryInputIsHandled ==
    <>[]~(RequestThrows \/ OutOfDescriptors) =>
        \A fd \in Fd : []<>(~Readable(fd) \/ ~Running \/ BlockedOnOneClient)

-----------------------------------------------------------------------------
(* What the program says of itself and does not do. *)

(* README.MD: the server's thread "waits for any incoming actions, then it *)
(* processes those actions".  It never waits for one particular client.    *)
NeverBlocksOnOneClient == ~BlockedOnOneClient

(* The same sentence, of clients that disconnect at about the same time:   *)
(* processing their actions does not end the server.                       *)
SurvivesDisconnections == pc # "crashed"
=============================================================================
