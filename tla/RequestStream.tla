---------------------------- MODULE RequestStream ----------------------------
(***************************************************************************)
(* One client, its connection, and the server's end of it.                 *)
(*                                                                         *)
(* The client runs two threads.  The keyboard thread hands a line to the   *)
(* parsers of the user input controllers and writes at most one request.   *)
(* The network thread selects and reads (SocketConnection::Client).  The   *)
(* server reads the same way when its loop gets to this connection, and    *)
(* writes messages whenever it is not in the middle of a request.          *)
(*                                                                         *)
(* Writer::write puts length, header and payload into the socket with one  *)
(* write; Reader::read takes them out with three, none of which is         *)
(* repeated when it returns less than it was asked for.  TCP delivers      *)
(* cell by cell: the length, the header, and each cell of the payload.     *)
(* A field of four bytes is one cell and never torn.                       *)
(***************************************************************************)
EXTENDS Integers, Sequences, SequencesExt

CONSTANTS Lines,     \* what the user types, of DOMAIN RequestOf \cup FatalLines
          MaxWrites  \* bound: requests written at each end

ASSUME MaxWritesAssumption == MaxWrites \in Nat

End == {"client", "server"}

Peer(e) == IF e = "client" THEN "server" ELSE "client"

\* The headers the mapper of each end has an action for, and others.
Mapped == [client |-> {"kReceiveMsg"},
           server |-> {"kNewConnection", "kEndConnection", "kSendMsg", "kSetName",
                       "kSetReady", "kPlaceBet", "kHit", "kStand"}]

Header == Mapped["client"] \cup Mapped["server"] \cup {"unmapped"}

\* What the program sends: bytes count only as none, one or several.
Request == [header : Header, len : 0 .. 2]

VARIABLES
    status,    \* of each end's socket: "open", "closed", or "dead" with its process
    wire,      \* cells on their way to each end
    received,  \* cells in each end's receive buffer
    reader,    \* where each end's Reader::read is
    reset,     \* what each end knows of a reset: "no", "pending", "reported"
    sent,      \* history: requests each end wrote
    handled,   \* history: requests each end executed an action for
    torn       \* history: ends where a read returned part of a payload

vars == <<status, wire, received, reader, reset, sent, handled, torn>>

-----------------------------------------------------------------------------
(* Writer::write. *)
\* Mutant: the length counts the header, too.
LengthOfAll(request) ==
    <<<<"len", request.len + 1>>, <<"header", request.header>>>>
        \o [i \in 1 .. request.len |-> <<"payload", i>>]

Cells(request) ==
    <<<<"len", request.len>>, <<"header", request.header>>>>
        \o [i \in 1 .. request.len |-> <<"payload", i>>]

\* The peer's socket is gone: what is written is lost and answered with a
\* reset.  A write that meets a reset raises SIGPIPE, which ends the process,
\* unless it is the first to report a reset that came without a FIN.
WriteInVain(e) ==
    \/ /\ reset[e] = "no"
       /\ \E r \in {"no", "pending"} : reset' = [reset EXCEPT ![e] = r]
       /\ UNCHANGED status
    \/ /\ reset[e] = "pending"
       /\ reset' = [reset EXCEPT ![e] = "reported"]
       /\ UNCHANGED status
    \/ /\ reset[e] # "no"
       /\ status' = [status EXCEPT ![e] = "dead"]
       /\ UNCHANGED reset

Write(e, request) ==
    /\ status[e] = "open"
    /\ Len(sent[e]) < MaxWrites
    /\ sent' = [sent EXCEPT ![e] = Append(@, request)]
    /\ IF status[Peer(e)] = "open"
       THEN /\ wire' = [wire EXCEPT ![Peer(e)] = @ \o Cells(request)]
            /\ UNCHANGED <<status, reset>>
       ELSE WriteInVain(e) /\ UNCHANGED wire
    /\ UNCHANGED <<received, reader, handled, torn>>

\* close, or the end of a process.  With unread data the kernel resets the
\* connection, which drops what the peer has not received yet.
Leave(e, how) ==
    /\ status' = [status EXCEPT ![e] = how]
    /\ \/ UNCHANGED <<wire, reset>>
       \/ /\ received[e] \o wire[e] # <<>>
          /\ status[Peer(e)] = "open"
          /\ reset' = [reset EXCEPT ![Peer(e)] = "pending"]
          /\ wire' = [wire EXCEPT ![Peer(e)] = <<>>]

-----------------------------------------------------------------------------
(* The keyboard thread.  A line matches the pattern of one parser at most. *)
(* Lines the parsers turn down ("bet" without a number, an empty message), *)
(* help, and what no parser knows only print.                              *)

\* The request each line is sent as.  Unlike a message ("send msg: "), a
\* name ("set name to ") is not checked for being empty.
LobbyRequestOf ==
    [sendMsg      |-> [header |-> "kSendMsg",  len |-> 2],
     setName      |-> [header |-> "kSetName",  len |-> 2],
     setEmptyName |-> [header |-> "kSetName",  len |-> 0],
     ready        |-> [header |-> "kSetReady", len |-> 2]]

\* A bet carries a double, a hit and a stand the index of the hand.
GameRequestOf ==
    [bet   |-> [header |-> "kPlaceBet", len |-> 2],
     hit   |-> [header |-> "kHit",      len |-> 1],
     stand |-> [header |-> "kStand",    len |-> 1]]

RequestOf ==
    [line \in DOMAIN LobbyRequestOf \cup DOMAIN GameRequestOf |->
        IF line \in DOMAIN LobbyRequestOf THEN LobbyRequestOf[line] ELSE GameRequestOf[line]]

\* "exit" calls std::terminate.  A bet beyond the range of a double makes
\* std::stod throw out_of_range, where placeABet catches invalid_argument.
FatalLines == {"exit", "hugeBet"}

SendLine(line) ==
    /\ line \in DOMAIN RequestOf
    /\ Write("client", RequestOf[line])

DieOf(line) ==
    /\ line \in FatalLines
    /\ status["client"] = "open"
    /\ Leave("client", "dead")
    /\ UNCHANGED <<received, reader, sent, handled, torn>>

-----------------------------------------------------------------------------
(* The server's answers to this client, and what it broadcasts on behalf   *)
(* of the others: never empty, since every message starts with the time.   *)
WhisperOrBroadcast ==
    /\ reader["server"].at = "len"
    /\ Write("server", [header |-> "kReceiveMsg", len |-> 2])

-----------------------------------------------------------------------------
(* The network.  A cell arrives; the end of the stream comes after them.   *)
Arrive(e) ==
    /\ wire[e] # <<>>
    /\ wire' = [wire EXCEPT ![e] = Tail(@)]
    /\ received' = [received EXCEPT ![e] = Append(@, Head(wire[e]))]
    /\ UNCHANGED <<status, reader, reset, sent, handled, torn>>

\* Mutant: an empty buffer is taken for the end.
NothingWaiting(e) == received[e] = <<>>

EndOfStream(e) ==
    /\ status[Peer(e)] # "open"
    /\ wire[e] = <<>> /\ received[e] = <<>>

-----------------------------------------------------------------------------
(* Reader::read, at both ends. *)
\* Mutant: the request is not a local variable, its fields are kept.
BackToLen(e) == [reader EXCEPT ![e].at = "len"]

NewRequest(e) == [reader EXCEPT ![e] = [at |-> "len", len |-> 0, header |-> "unmapped"]]

\* Text or a header taken for a length: more than is ever waiting.
Huge == 4 * MaxWrites + 1

AsLen(cell) == IF cell[1] = "len" THEN cell[2] ELSE Huge

\* Anything else taken for a header may hit one that exists.
AsHeader(cell) == IF cell[1] = "header" THEN {cell[2]} ELSE Header

TakeCells(e, n) ==
    received' = [received EXCEPT ![e] = SubSeq(@, n + 1, Len(@))]

ReadLen(e) ==
    /\ status[e] = "open" /\ reader[e].at = "len"
    /\ received[e] # <<>>
    /\ reader' = [reader EXCEPT ![e].at = "header", ![e].len = AsLen(Head(received[e]))]
    /\ TakeCells(e, 1)
    /\ UNCHANGED <<status, wire, reset, sent, handled, torn>>

ReadHeader(e) ==
    /\ status[e] = "open" /\ reader[e].at = "header"
    /\ received[e] # <<>>
    /\ \E header \in AsHeader(Head(received[e])) :
          reader' = [reader EXCEPT ![e].at = "payload", ![e].header = header]
    /\ TakeCells(e, 1)
    /\ UNCHANGED <<status, wire, reset, sent, handled, torn>>

\* NoSuchHeaderException: the server's main catches it, the client's does not.
ExecuteAction(e, header, len) ==
    IF header \in Mapped[e]
    THEN /\ handled' = [handled EXCEPT ![e] = Append(@, [header |-> header, len |-> len])]
         /\ UNCHANGED <<status, wire, reset>>
    ELSE /\ IF e = "client" THEN Leave(e, "dead") ELSE UNCHANGED <<status, wire, reset>>
         /\ UNCHANGED handled

\* Mutant: one cell too many is taken.
PayloadAndOneMore(e) == Min({reader[e].len + 1, Len(received[e])})

\* What the last read returns: what there is, up to what was asked for.
PayloadRead(e) == Min({reader[e].len, Len(received[e])})

ReadPayload(e) ==
    /\ status[e] = "open" /\ reader[e].at = "payload"
    /\ reader[e].len > 0 /\ received[e] # <<>>
    /\ ExecuteAction(e, reader[e].header, reader[e].len)
    /\ torn' = IF PayloadRead(e) < reader[e].len THEN torn \cup {e} ELSE torn
    /\ TakeCells(e, PayloadRead(e))
    /\ reader' = NewRequest(e)
    /\ UNCHANGED sent

\* A read returns 0: the socket is closed.  So does the last one when there
\* is no payload to read.
ReadNothing(e) ==
    /\ status[e] = "open"
    /\ \/ EndOfStream(e) /\ reset[e] # "pending"
       \/ reader[e].at = "payload" /\ reader[e].len = 0
    /\ Leave(e, "closed")
    /\ reader' = NewRequest(e)
    /\ UNCHANGED <<received, sent, handled, torn>>

\* A read returns -1.  The server's main goes on, the client's exits.
ReadError(e) ==
    /\ status[e] = "open"
    /\ EndOfStream(e) /\ reset[e] = "pending"
    /\ reset' = [reset EXCEPT ![e] = "reported"]
    /\ status' = IF e = "client" THEN [status EXCEPT ![e] = "dead"] ELSE status
    /\ reader' = NewRequest(e)
    /\ UNCHANGED <<wire, received, sent, handled, torn>>

\* Mutant: main catches the exception and goes on.
SelectFailsAgain == status["client"] = "closed" /\ UNCHANGED vars

\* The client's next select fails with EBADF, and its main exits.
SelectFails ==
    /\ status["client"] = "closed"
    /\ status' = [status EXCEPT !["client"] = "dead"]
    /\ UNCHANGED <<wire, received, reader, reset, sent, handled, torn>>

Read(e) ==
    \/ ReadLen(e) \/ ReadHeader(e) \/ ReadPayload(e)
    \/ ReadNothing(e) \/ ReadError(e)

-----------------------------------------------------------------------------
Init ==
    /\ status = [e \in End |-> "open"]
    /\ wire = [e \in End |-> <<>>]
    /\ received = [e \in End |-> <<>>]
    /\ reader = [e \in End |-> [at |-> "len", len |-> 0, header |-> "unmapped"]]
    /\ reset = [e \in End |-> "no"]
    /\ sent = [e \in End |-> <<>>]
    /\ handled = [e \in End |-> <<>>]
    /\ torn = {}

Next ==
    \/ \E line \in Lines : SendLine(line) \/ DieOf(line)
    \/ WhisperOrBroadcast
    \/ SelectFails
    \/ \E e \in End : Arrive(e) \/ Read(e)

Spec == Init /\ [][Next]_vars

(* TCP delivers, and both loops come back to select and read.  Nobody has  *)
(* to type anything.                                                       *)
FairSpec ==
    /\ Spec
    /\ \A e \in End : WF_vars(Arrive(e)) /\ WF_vars(Read(e))
    /\ WF_vars(SelectFails)

-----------------------------------------------------------------------------
(* Also: a request that is read starts with no field of an earlier one.    *)
TypeOK ==
    /\ status \in [End -> {"open", "closed", "dead"}]
    /\ reset \in [End -> {"no", "pending", "reported"}]
    /\ torn \subseteq End
    /\ \A e \in End : Range(sent[e]) \subseteq Request
    /\ \A e \in End :
          /\ reader[e].at \in {"len", "header", "payload"}
          /\ reader[e].len \in 0 .. Huge
          /\ reader[e].header \in Header
          /\ reader[e].at = "len" => reader[e].len = 0 /\ reader[e].header = "unmapped"

(* As long as no payload is torn, each end executes exactly the requests   *)
(* the other wrote, in their order, with their headers and lengths: the    *)
(* two sides of SocketIO agree on the three parts of a request, however    *)
(* requests pile up in the stream and whenever the connection ends.        *)
RequestsAreHandledAsSent ==
    \A e \in End : e \notin torn => IsPrefix(handled[e], sent[Peer(e)])

(* The server closes the connection of a client that is still there only   *)
(* because of a request without payload, or of a torn one.                 *)
OnlyEmptyRequestsDisconnect ==
    status["server"] = "closed" /\ "server" \notin torn =>
        \/ status["client"] # "open"
        \/ \E i \in DOMAIN sent["client"] : sent["client"][i].len = 0

(* A client whose server has closed the connection, or is gone, ends, even *)
(* if its keyboard thread waits for a line for ever.                       *)
ClientEndsWithItsServer == status["server"] # "open" ~> status["client"] = "dead"

(* Every request that is sent is handled in the end, also when the client  *)
(* exits right after it: the end of the stream is seen behind its requests *)
(* only.  What loses one is a reset (the client left messages unread when  *)
(* it exited), a request without payload, or a torn one.                   *)
EveryRequestIsHandled ==
    \A n \in 1 .. MaxWrites :
        Len(sent["client"]) = n ~>
            \/ Len(handled["server"]) >= n
            \/ reset["server"] # "no"
            \/ \E i \in DOMAIN sent["client"] : sent["client"][i].len = 0
            \/ "server" \in torn

-----------------------------------------------------------------------------
(* What the program says of itself and does not do. *)

(* README.MD: the server "waits for any incoming actions, then it          *)
(* processes those actions": a client that ends does not end the server.   *)
ServerOutlivesItsClient == status["server"] # "dead"
=============================================================================
