------------------------- MODULE SocketServer_proofs -------------------------
(***************************************************************************)
(* Proofs of the safety invariants of SocketServer.tla, for any number of  *)
(* descriptors and any messages.  What they rest on is a description of    *)
(* the slots that erase leaves behind the end of the vector: as erase      *)
(* moves the other connections up, such a slot names either a socket that  *)
(* is closed or the last connection of the vector.  So the undefined       *)
(* erase(end()) that drops the last element, if it does not crash, drops   *)
(* just the connection whose socket was closed.                            *)
(***************************************************************************)
EXTENDS SocketServer, SequenceTheorems, FiniteSetTheorems, TLAPS

-----------------------------------------------------------------------------
(* Every open socket has one connection in the vector and, unless its      *)
(* client has departed, one user.                                          *)
ConnectionsAreOpen ==
    Running =>
        /\ departed \subseteq open
        /\ users = open \ departed
        /\ \A i \in 1 .. Len(connections) : connections[i] \in open
        /\ \A fd \in open : \E i \in 1 .. Len(connections) : connections[i] = fd
        /\ \A i, j \in 1 .. Len(connections) : connections[i] = connections[j] => i = j

(* A slot left over names a closed socket or the last connection. *)
LeftOverSlots ==
    \A i \in 1 .. Len(stale) :
        stale[i] \in open =>
            Len(connections) > 0 /\ stale[i] = connections[Len(connections)]

(* Only the range-for has slots left over, and before it select has seen   *)
(* connections and, for accept, a pending one.                             *)
BeforeTheLoop ==
    /\ pc \in {"wait", "accept"} => stale = <<>> /\ pos = 1
    /\ pc = "accept" => backlog > 0 /\ readSet \subseteq open

(* As long as nothing was erased, what is flagged and still to come can be *)
(* read.                                                                   *)
FlaggedAreReadable ==
    pc \in {"accept", "clients"} /\ stale = <<>> =>
        \A i \in pos .. Len(connections) :
            connections[i] \in readSet => Readable(connections[i])

IInv ==
    /\ TypeOK
    /\ OnlyDepartedUsersAreMissed
    /\ ConnectionsAreOpen
    /\ LeftOverSlots
    /\ BeforeTheLoop
    /\ FlaggedAreReadable

-----------------------------------------------------------------------------
(* Sequences. *)
LEMMA RemoveAtProperties ==
    ASSUME NEW S, NEW s \in Seq(S), NEW i \in 1 .. Len(s)
    PROVE  /\ RemoveAt(s, i) \in Seq(S)
           /\ Len(RemoveAt(s, i)) = Len(s) - 1
           /\ \A j \in 1 .. Len(s) - 1 :
                 RemoveAt(s, i)[j] = IF j < i THEN s[j] ELSE s[j + 1]
<1> DEFINE a == SubSeq(s, 1, i - 1)
           b == SubSeq(s, i + 1, Len(s))
<1>0. Len(s) \in Nat /\ \A j \in 1 .. Len(s) : s[j] \in S
  BY LenProperties, ElementOfSeq
<1>1. /\ a \in Seq(S)
      /\ Len(a) = i - 1
      /\ \A j \in 1 .. i - 1 : a[j] = s[j]
  <2>1. i - 1 \in Int /\ 1 \in Int /\ \A j \in 1 .. i - 1 : s[j] \in S
    BY <1>0
  <2>2. /\ SubSeq(s, 1, i - 1) \in Seq(S)
        /\ Len(SubSeq(s, 1, i - 1)) = IF 1 <= i - 1 THEN i - 1 - 1 + 1 ELSE 0
        /\ \A j \in 1 .. i - 1 - 1 + 1 : SubSeq(s, 1, i - 1)[j] = s[1 + j - 1]
    BY <2>1, SubSeqProperties
  <2> QED
    BY <1>0, <2>2
<1>2. /\ b \in Seq(S)
      /\ Len(b) = Len(s) - i
      /\ \A j \in 1 .. Len(s) - i : b[j] = s[i + j]
  <2>1. i + 1 \in Int /\ Len(s) \in Int /\ \A j \in i + 1 .. Len(s) : s[j] \in S
    BY <1>0
  <2>2. /\ SubSeq(s, i + 1, Len(s)) \in Seq(S)
        /\ Len(SubSeq(s, i + 1, Len(s)))
              = IF i + 1 <= Len(s) THEN Len(s) - (i + 1) + 1 ELSE 0
        /\ \A j \in 1 .. Len(s) - (i + 1) + 1 :
              SubSeq(s, i + 1, Len(s))[j] = s[i + 1 + j - 1]
    BY <2>1, SubSeqProperties
  <2> QED
    BY <1>0, <2>2
<1>3. RemoveAt(s, i) = a \o b
  BY DEF RemoveAt
<1> HIDE DEF a, b
<1>4. /\ a \o b \in Seq(S)
      /\ Len(a \o b) = Len(a) + Len(b)
      /\ \A j \in 1 .. Len(a) + Len(b) :
            (a \o b)[j] = IF j <= Len(a) THEN a[j] ELSE b[j - Len(a)]
  BY <1>1, <1>2, ConcatProperties
<1> QED
  BY <1>0, <1>1, <1>2, <1>3, <1>4

LEMMA FrontProperties ==
    ASSUME NEW S, NEW s \in Seq(S), Len(s) > 0
    PROVE  /\ Front(s) \in Seq(S)
           /\ Len(Front(s)) = Len(s) - 1
           /\ \A j \in 1 .. Len(s) - 1 : Front(s)[j] = s[j]
<1>1. Len(s) \in Nat /\ \A j \in 1 .. Len(s) : s[j] \in S
  BY LenProperties, ElementOfSeq
<1> DEFINE n == Len(s) - 1
           f == SubSeq(s, 1, n)
<1>2. n \in Nat /\ \A j \in 1 .. n : s[j] \in S
  BY <1>1
<1> HIDE DEF n
<1>3. /\ f \in Seq(S)
      /\ Len(f) = IF 1 <= n THEN n - 1 + 1 ELSE 0
      /\ \A j \in 1 .. n - 1 + 1 : f[j] = s[1 + j - 1]
  BY <1>2, SubSeqProperties
<1> HIDE DEF f
<1>4. f \in Seq(S) /\ Len(f) = n /\ \A j \in 1 .. n : f[j] = s[j]
  BY <1>2, <1>3
<1> QED
  BY <1>4 DEF Front, f, n

(* The slots the loop visits are the connections and what is left over. *)
LEMMA SlotsProperties ==
    ASSUME TypeOK
    PROVE  /\ Len(connections) \in Nat /\ Len(stale) \in Nat
           /\ Len(Slots) = Len(connections) + Len(stale)
           /\ pos \in Nat /\ 1 <= pos /\ pos <= Len(Slots) + 1
           /\ \A i \in 1 .. Len(Slots) :
                 Slots[i] = IF i <= Len(connections) THEN connections[i]
                                                     ELSE stale[i - Len(connections)]
  BY ConcatProperties, LenProperties DEF TypeOK, Slots

(* A vector without repetitions is as long as the set of its elements. *)
LEMMA LengthIsCardinality ==
    ASSUME NEW S, NEW s \in Seq(S), NEW T,
           \A i \in 1 .. Len(s) : s[i] \in T,
           \A x \in T : \E i \in 1 .. Len(s) : s[i] = x,
           \A i, j \in 1 .. Len(s) : s[i] = s[j] => i = j
    PROVE  ToSet(s) = T /\ Len(s) = Cardinality(T)
<1>1. Len(s) \in Nat /\ DOMAIN s = 1 .. Len(s) /\ s \in [1 .. Len(s) -> T]
  BY LenProperties
<1>2. ToSet(s) = T
  BY <1>1 DEF ToSet
<1>3. s \in Bijection(1 .. Len(s), T)
  BY <1>1 DEF Bijection, Injection, Surjection, IsInjective
<1>4. ExistsBijection(1 .. Len(s), T)
  BY <1>3 DEF ExistsBijection
<1>5. IsFiniteSet(1 .. Len(s)) /\ Cardinality(1 .. Len(s)) = Len(s)
  <2>1. 1 \in Int /\ Len(s) \in Int
    BY <1>1
  <2>2. /\ IsFiniteSet(1 .. Len(s))
        /\ Cardinality(1 .. Len(s)) = IF 1 > Len(s) THEN 0 ELSE Len(s) - 1 + 1
    BY <2>1, FS_Interval
  <2> QED
    BY <1>1, <2>2
<1>6. Cardinality(T) = Len(s)
  BY <1>4, <1>5, FS_Bijection
<1> QED
  BY <1>2, <1>6

-----------------------------------------------------------------------------
(* Steps that leave the slots alone. *)
LEMMA InitIsIInv == Init => IInv
<1> SUFFICES ASSUME Init PROVE IInv
  OBVIOUS
<1>1. connections = <<>> /\ stale = <<>> /\ Len(connections) = 0 /\ Len(stale) = 0
  BY EmptySeq DEF Init
<1>2. <<>> \in Seq(Fd) /\ <<>> \in Seq(Messages)
  BY EmptySeq
<1>3. Len(Slots) = 0
  BY <1>1, <1>2, ConcatProperties DEF Slots
<1>4. TypeOK
  BY <1>1, <1>2, <1>3, PendingAssumption DEF Init, TypeOK
<1> QED
  BY <1>1, <1>4 DEF Init, IInv, OnlyDepartedUsersAreMissed, ConnectionsAreOpen, LeftOverSlots,
     BeforeTheLoop, FlaggedAreReadable, Running

LEMMA WaitKeepsIInv ==
    ASSUME IInv, WaitForAnActivity
    PROVE  IInv'
<1>1. /\ pc = "wait" /\ stale = <<>> /\ stale' = <<>> /\ pos' = 1
      /\ pc' \in {"accept", "clients"}
      /\ pc' = "accept" => backlog > 0
      /\ readSet' = Select(AddSocketsToReadSet(connections))
      /\ UNCHANGED <<connections, users, departed, open, inbox, hungUp, reset, backlog>>
  BY DEF WaitForAnActivity, kernelVars, IInv, BeforeTheLoop
<1>2. /\ readSet' \subseteq open
      /\ \A fd \in readSet' : Readable(fd)
  BY <1>1, LenProperties
     DEF Select, AddSocketsToReadSet, ToSet, IInv, TypeOK, ConnectionsAreOpen, Running
<1>3. Len(<<>>) = 0 /\ <<>> \in Seq(Fd)
  BY EmptySeq
<1>4. Len(connections) \in Nat /\ Len(Slots') = Len(connections)
  BY <1>1, <1>3, ConcatProperties, LenProperties DEF Slots, IInv, TypeOK
<1>5. TypeOK'
  BY <1>1, <1>2, <1>3, <1>4 DEF IInv, TypeOK
<1>6. ConnectionsAreOpen' /\ OnlyDepartedUsersAreMissed'
  BY <1>1 DEF IInv, ConnectionsAreOpen, OnlyDepartedUsersAreMissed, Running
<1>7. LeftOverSlots' /\ BeforeTheLoop'
  BY <1>1, <1>2, <1>3 DEF LeftOverSlots, BeforeTheLoop
<1>8. FlaggedAreReadable'
  BY <1>1, <1>2 DEF FlaggedAreReadable, Readable
<1> QED
  BY <1>5, <1>6, <1>7, <1>8 DEF IInv

LEMMA AbandonKeepsIInv ==
    ASSUME IInv, Running, AbandonPass,
           UNCHANGED <<open, hungUp, backlog>>,
           inbox' \in [Fd -> Seq(Messages)], reset' \subseteq reset
    PROVE  IInv'
<1>1. /\ pc' = "wait" /\ stale' = <<>> /\ pos' = 1 /\ readSet' = {}
      /\ UNCHANGED <<connections, users, departed, open, hungUp, backlog>>
  BY DEF AbandonPass
<1>2. Len(<<>>) = 0 /\ <<>> \in Seq(Fd)
  BY EmptySeq
<1>3. Len(connections) \in Nat /\ Len(Slots') = Len(connections)
  BY <1>1, <1>2, ConcatProperties, LenProperties DEF Slots, IInv, TypeOK
<1>4. TypeOK'
  BY <1>1, <1>2, <1>3 DEF IInv, TypeOK
<1> QED
  BY <1>1, <1>2, <1>4 DEF IInv, OnlyDepartedUsersAreMissed, ConnectionsAreOpen, LeftOverSlots,
     BeforeTheLoop, FlaggedAreReadable, Running

LEMMA AcceptKeepsIInv ==
    ASSUME IInv, NEW fd \in Fd, Accept(fd)
    PROVE  IInv'
<1>1. /\ pc = "accept" /\ pc' = "clients" /\ backlog > 0 /\ backlog' = backlog - 1
      /\ stale = <<>> /\ pos = 1 /\ readSet \subseteq open
      /\ fd \notin open /\ open' = open \cup {fd} /\ users' = users \cup {fd}
      /\ connections' = Append(connections, fd)
      /\ UNCHANGED <<stale, pos, readSet, departed, inbox, hungUp, reset>>
  BY DEF Accept, IInv, BeforeTheLoop
<1> DEFINE n == Len(connections)
<1>2. /\ n \in Nat /\ connections' \in Seq(Fd) /\ Len(connections') = n + 1
      /\ \A i \in 1 .. n : connections'[i] = connections[i]
      /\ connections'[n + 1] = fd
  BY <1>1, AppendProperties, LenProperties DEF IInv, TypeOK
<1>3. Len(<<>>) = 0 /\ <<>> \in Seq(Fd)
  BY EmptySeq
<1>4. Len(Slots') = n + 1
  BY <1>1, <1>2, <1>3, ConcatProperties DEF Slots
<1> HIDE DEF n
<1>5. TypeOK'
  BY <1>1, <1>2, <1>3, <1>4, PendingAssumption DEF IInv, TypeOK
<1>6. /\ departed \subseteq open /\ users = open \ departed
      /\ \A i \in 1 .. n : connections[i] \in open
      /\ \A f \in open : \E i \in 1 .. n : connections[i] = f
      /\ \A i, j \in 1 .. n : connections[i] = connections[j] => i = j
  BY <1>1 DEF IInv, ConnectionsAreOpen, Running, n
<1>7. ConnectionsAreOpen'
  BY <1>1, <1>2, <1>6 DEF ConnectionsAreOpen
<1>8. FlaggedAreReadable'
  <2>1. \A i \in 1 .. n : connections[i] \in readSet => Readable(connections[i])
    BY <1>1 DEF IInv, FlaggedAreReadable, n
  <2>2. ASSUME NEW i \in 1 .. n + 1, connections'[i] \in readSet
        PROVE  inbox'[connections'[i]] # <<>> \/ connections'[i] \in hungUp'
    <3>1. i \in 1 .. n /\ connections'[i] = connections[i]
      BY <1>1, <1>2, <2>2
    <3> QED
      BY <1>1, <2>1, <2>2, <3>1 DEF Readable
  <2> QED
    BY <1>1, <1>2, <2>2 DEF FlaggedAreReadable, Readable
<1> QED
  BY <1>1, <1>3, <1>5, <1>7, <1>8
     DEF IInv, OnlyDepartedUsersAreMissed, LeftOverSlots, BeforeTheLoop

LEMMA EndOfLoopKeepsIInv ==
    ASSUME IInv, EndOfLoop
    PROVE  IInv'
<1>1. AbandonPass /\ Running /\ UNCHANGED <<open, inbox, hungUp, reset, backlog>>
  BY DEF EndOfLoop, AbandonPass, kernelVars, Running
<1> QED
  BY <1>1, AbandonKeepsIInv DEF IInv, TypeOK

LEMMA SkipKeepsIInv ==
    ASSUME IInv, SkipConnection
    PROVE  IInv'
<1>1. /\ pc = "clients" /\ pos <= Len(Slots) /\ pos' = pos + 1
      /\ UNCHANGED <<pc, connections, stale, readSet, users, departed,
                      open, inbox, hungUp, reset, backlog>>
  BY DEF SkipConnection, kernelVars
<1>2. /\ Len(Slots) \in Nat /\ pos \in Nat /\ 1 <= pos /\ Len(Slots') = Len(Slots)
      /\ Len(connections) \in Nat
  BY <1>1, SlotsProperties DEF IInv, Slots
<1>3. TypeOK'
  BY <1>1, <1>2 DEF IInv, TypeOK
<1>4. FlaggedAreReadable'
  BY <1>1, <1>2 DEF IInv, FlaggedAreReadable, Readable
<1> QED
  BY <1>1, <1>3, <1>4 DEF IInv, OnlyDepartedUsersAreMissed, ConnectionsAreOpen, LeftOverSlots,
     BeforeTheLoop, Running

-----------------------------------------------------------------------------
(* The steps that read from a connection. *)

(* The loop visits an open socket either in its slot of the vector or,    *)
(* past it, in a slot left over; then it is the last connection.           *)
LEMMA VisitedSlot ==
    ASSUME IInv, NEW fd \in Fd, ParsesClient(fd)
    PROVE  /\ pc = "clients" /\ pos \in Nat /\ pos >= 1
           /\ Len(connections) \in Nat /\ Len(stale) \in Nat
           /\ pos <= Len(connections) => fd = connections[pos]
           /\ pos > Len(connections) /\ fd \in open
                => /\ Len(connections) > 0 /\ Len(stale) > 0
                   /\ fd = connections[Len(connections)]
<1>1. /\ pc = "clients" /\ pos <= Len(Slots) /\ fd = Slots[pos]
  BY DEF ParsesClient, Visited, IInv, ConnectionsAreOpen, Running
<1>2. /\ Len(connections) \in Nat /\ Len(stale) \in Nat
      /\ Len(Slots) = Len(connections) + Len(stale)
      /\ pos \in Nat /\ 1 <= pos
      /\ Slots[pos] = IF pos <= Len(connections) THEN connections[pos]
                                                ELSE stale[pos - Len(connections)]
  <2>1. TypeOK
    BY DEF IInv
  <2> QED
    BY <1>1, <2>1, SlotsProperties
<1>3. ASSUME pos > Len(connections), fd \in open
      PROVE  /\ Len(connections) > 0 /\ Len(stale) > 0
             /\ fd = connections[Len(connections)]
  <2>1. pos - Len(connections) \in 1 .. Len(stale) /\ fd = stale[pos - Len(connections)]
    BY <1>1, <1>2, <1>3
  <2> QED
    BY <1>2, <1>3, <2>1 DEF IInv, LeftOverSlots
<1> QED
  BY <1>1, <1>2, <1>3

LEMMA RequestKeepsIInv ==
    ASSUME IInv, NEW fd \in Fd, HandleRequest(fd)
    PROVE  IInv'
<1>1. /\ ParsesClient(fd) /\ fd \in open /\ inbox[fd] # <<>>
      /\ inbox' = [inbox EXCEPT ![fd] = Tail(@)]
      /\ UNCHANGED <<open, hungUp, reset, backlog>>
  BY DEF HandleRequest
<1>2. /\ pc = "clients" /\ pos \in Nat /\ pos >= 1
      /\ Len(connections) \in Nat /\ Len(stale) \in Nat
      /\ pos <= Len(connections) => fd = connections[pos]
  BY <1>1, VisitedSlot
<1>3. inbox' \in [Fd -> Seq(Messages)]
  <2>1. inbox \in [Fd -> Seq(Messages)] /\ inbox[fd] \in Seq(Messages)
    BY DEF IInv, TypeOK
  <2>2. Tail(inbox[fd]) \in Seq(Messages)
    BY <1>1, <2>1, HeadTailProperties
  <2> QED
    BY <1>1, <2>1, <2>2
<1>4. CASE NoSuchHeader(Head(inbox[fd]))
  <2>1. AbandonPass /\ Running /\ reset' \subseteq reset
    BY <1>1, <1>2, <1>4 DEF HandleRequest, Running
  <2> QED
    BY <1>1, <1>3, <2>1, AbandonKeepsIInv
<1>5. CASE ~NoSuchHeader(Head(inbox[fd]))
  <2>1. /\ pos' = pos + 1 /\ ExecuteAction(fd, Head(inbox[fd]))
        /\ UNCHANGED <<connections, stale, readSet>>
    BY <1>5 DEF HandleRequest
  <2>2. pos <= Len(Slots) /\ Len(Slots) \in Nat /\ Len(Slots') = Len(Slots)
        /\ Len(Slots) = Len(connections) + Len(stale)
    BY <1>1, <2>1, SlotsProperties DEF ParsesClient, IInv, Slots
  <2>3. /\ departed \subseteq open /\ users = open \ departed
    BY <1>2 DEF IInv, ConnectionsAreOpen, Running
  <2>4. /\ pc' \in {"clients", "crashed", "terminated"}
        /\ users' \subseteq Fd /\ departed' \subseteq Fd
        /\ Running' => departed' \subseteq open /\ users' = open \ departed'
        /\ pc' = "terminated" => fd \in departed'
    <3>1. CASE IsNewConnection(Head(inbox[fd])) /\ UserIsFound(fd)
      <4>1. JoinAgain
        BY <2>1, <3>1 DEF ExecuteAction, IsNewConnection, IsEndConnection
      <4>2. pc' \in {"clients", "crashed"} /\ users' = users /\ departed' = departed
        BY <1>2, <4>1 DEF JoinAgain
      <4> QED
        BY <2>3, <4>2 DEF IInv, TypeOK
    <3>2. CASE IsNewConnection(Head(inbox[fd])) /\ ~UserIsFound(fd)
      <4>1. JoinAfterLeaving(fd)
        BY <2>1, <3>2 DEF ExecuteAction, IsNewConnection, IsEndConnection
      <4> QED
        BY <1>1, <1>2, <2>3, <4>1 DEF JoinAfterLeaving, IInv, TypeOK
    <3>3. CASE GetUserThrows /\ ~UserIsFound(fd)
      BY <1>1, <2>3, <3>3 DEF GetUserThrows, UserIsFound, IInv, TypeOK, Running
    <3>4. CASE LeaveAndStayConnected(fd)
      BY <1>1, <1>2, <2>3, <3>4 DEF LeaveAndStayConnected, IInv, TypeOK
    <3>5. CASE UNCHANGED <<pc, users, departed>>
      BY <1>2, <2>3, <3>5 DEF IInv, TypeOK
    <3>6. CASE ~IsNewConnection(Head(inbox[fd]))
      <4>1. CASE IsEndConnection(Head(inbox[fd]))
        BY <2>1, <3>3, <3>4, <3>6, <4>1 DEF ExecuteAction
      <4>2. CASE ~IsEndConnection(Head(inbox[fd]))
        BY <2>1, <3>3, <3>5, <3>6, <4>2 DEF ExecuteAction
      <4> QED
        BY <4>1, <4>2
    <3> QED
      BY <3>1, <3>2, <3>6
  <2>5. OnlyDepartedUsersAreMissed'
    <3>1. pos' - 1 = pos /\ Slots' = Slots /\ fd = Slots[pos]
      BY <1>1, <1>2, <2>1 DEF Slots, ParsesClient, Visited
    <3> QED
      BY <2>4, <3>1 DEF OnlyDepartedUsersAreMissed
  <2>6. TypeOK'
    BY <1>1, <1>2, <1>3, <2>1, <2>2, <2>4 DEF IInv, TypeOK
  <2>7. FlaggedAreReadable'
    <3>1. SUFFICES ASSUME stale = <<>>, NEW i \in pos + 1 .. Len(connections),
                          connections[i] \in readSet
                   PROVE  inbox'[connections[i]] # <<>> \/ connections[i] \in hungUp
      BY <1>1, <2>1 DEF FlaggedAreReadable, Readable
    <3>2. /\ pos \in 1 .. Len(connections) /\ i \in pos .. Len(connections)
          /\ i \in 1 .. Len(connections) /\ i # pos
      BY <1>2, <3>1
    <3>3. Readable(connections[i])
      BY <1>2, <3>1, <3>2 DEF IInv, FlaggedAreReadable
    <3>4. connections[i] # fd
      BY <1>2, <3>2 DEF IInv, ConnectionsAreOpen, Running
    <3>5. connections[i] \in Fd
      BY <3>2, ElementOfSeq DEF IInv, TypeOK
    <3>6. inbox'[connections[i]] = inbox[connections[i]]
      BY <1>1, <3>4, <3>5 DEF IInv, TypeOK
    <3> QED
      BY <3>3, <3>6 DEF Readable
  <2> QED
    BY <1>1, <1>2, <2>1, <2>6, <2>7, <2>4, <2>5
       DEF IInv, ConnectionsAreOpen, LeftOverSlots, BeforeTheLoop, Running
<1> QED
  BY <1>4, <1>5

LEMMA ReadFailsKeepsIInv ==
    ASSUME IInv, NEW fd \in Fd, ReadFails(fd)
    PROVE  IInv'
<1>1. /\ AbandonPass /\ Running /\ reset' \subseteq reset
      /\ UNCHANGED <<open, inbox, hungUp, backlog>>
  BY DEF ReadFails, ParsesClient, Running
<1>2. inbox' \in [Fd -> Seq(Messages)]
  BY <1>1 DEF IInv, TypeOK
<1> QED
  BY <1>1, <1>2, AbandonKeepsIInv

(* The socket is closed and, as there is no user to say good-bye to, the   *)
(* string of getUser ends the server.                                      *)
LEMMA UserIsMissed ==
    ASSUME IInv, NEW fd \in Fd, Disconnect(fd), ~UserIsFound(fd)
    PROVE  IInv'
<1>1. /\ ParsesClient(fd) /\ fd \in open /\ CloseSocket(fd) /\ pos' = pos + 1
      /\ pc' = "terminated"
      /\ UNCHANGED <<connections, stale, readSet, users, departed, backlog>>
  BY DEF Disconnect
<1>2. /\ pc = "clients" /\ pos \in Nat /\ pos >= 1 /\ users = open \ departed
  BY <1>1, VisitedSlot DEF IInv, ConnectionsAreOpen, Running
<1>3. /\ pos <= Len(Slots) /\ fd = Slots[pos] /\ Slots' = Slots /\ Len(Slots) \in Nat
  BY <1>1, SlotsProperties DEF ParsesClient, Visited, Slots, IInv
<1>4. fd \in departed
  BY <1>1, <1>2 DEF UserIsFound
<1>5. /\ inbox' \in [Fd -> Seq(Messages)]
      /\ open' \subseteq open /\ hungUp' \subseteq open' /\ reset' \subseteq hungUp'
  <2>1. <<>> \in Seq(Messages)
    BY EmptySeq
  <2> QED
    BY <1>1, <2>1 DEF CloseSocket, IInv, TypeOK
<1>6. TypeOK'
  BY <1>1, <1>2, <1>3, <1>5 DEF IInv, TypeOK
<1>7. OnlyDepartedUsersAreMissed'
  <2>1. Slots'[pos' - 1] \in departed'
    BY <1>1, <1>2, <1>3, <1>4
  <2> QED
    BY <2>1 DEF OnlyDepartedUsersAreMissed
<1>8. LeftOverSlots'
  BY <1>1, <1>5 DEF IInv, LeftOverSlots
<1> QED
  BY <1>1, <1>6, <1>7, <1>8
     DEF IInv, ConnectionsAreOpen, BeforeTheLoop, FlaggedAreReadable, Running

(* In each of the three ways the erase can go, a slot left over that names *)
(* an open socket still names the last connection.                         *)
LEMMA DisconnectKeepsIInv ==
    ASSUME IInv, NEW fd \in Fd, Disconnect(fd), UserIsFound(fd)
    PROVE  IInv'
<1> DEFINE n == Len(connections)
           m == Len(stale)
<1>1. /\ ParsesClient(fd) /\ fd \in open /\ CloseSocket(fd) /\ pos' = pos + 1
      /\ UNCHANGED <<readSet, departed, backlog>>
  BY DEF Disconnect
<1>2. /\ pc = "clients" /\ pos \in Nat /\ pos >= 1
      /\ n \in Nat /\ m \in Nat
      /\ pos <= n => fd = connections[pos]
      /\ pos > n => fd = connections[n]
  BY <1>1, VisitedSlot
<1>3. /\ users' = users \ {fd}
      /\ stale' = <<connections[n]>> \o stale
      /\ IF pos <= n THEN EraseConnection(connections) ELSE EraseEnd(connections)
  BY <1>1, <1>2 DEF Disconnect, UserIsFound, Last
<1>4. /\ \A i \in 1 .. n : connections[i] \in open
      /\ \A f \in open : \E i \in 1 .. n : connections[i] = f
      /\ \A i, j \in 1 .. n : connections[i] = connections[j] => i = j
      /\ n > 0 /\ connections[n] \in Fd
      /\ connections \in Seq(Fd) /\ stale \in Seq(Fd)
  <2>1. \A i \in 1 .. n : connections[i] \in open
    BY <1>2 DEF IInv, ConnectionsAreOpen, Running
  <2>2. \A f \in open : \E i \in 1 .. n : connections[i] = f
    BY <1>2 DEF IInv, ConnectionsAreOpen, Running
  <2>3. \A i, j \in 1 .. n : connections[i] = connections[j] => i = j
    BY <1>2 DEF IInv, ConnectionsAreOpen, Running
  <2>4. n > 0
    BY <1>1, <1>2, <2>2
  <2>5. connections[n] \in Fd
    BY <1>2, <2>1, <2>4 DEF IInv, TypeOK
  <2> QED
    BY <2>1, <2>2, <2>3, <2>4, <2>5 DEF IInv, TypeOK
<1>5. \A i \in 1 .. m : stale[i] \in open => stale[i] = connections[n]
  BY DEF IInv, LeftOverSlots
<1>6. pos <= n + m
  BY <1>1, SlotsProperties DEF IInv, ParsesClient
<1>7. /\ stale' \in Seq(Fd) /\ Len(stale') = m + 1
      /\ stale'[1] = connections[n]
      /\ \A i \in 1 .. m + 1 : i # 1 => stale'[i] = stale[i - 1]
  <2>1. /\ <<connections[n]>> \in Seq(Fd)
        /\ Len(<<connections[n]>>) = 1 /\ <<connections[n]>>[1] = connections[n]
    BY <1>4
  <2>2. /\ <<connections[n]>> \o stale \in Seq(Fd)
        /\ Len(<<connections[n]>> \o stale) = 1 + m
        /\ \A i \in 1 .. 1 + m :
              (<<connections[n]>> \o stale)[i]
                 = IF i <= 1 THEN <<connections[n]>>[i] ELSE stale[i - 1]
    BY <1>4, <2>1, ConcatProperties
  <2> QED
    BY <1>2, <1>3, <2>1, <2>2
<1> HIDE DEF n, m
<1>8. /\ open' = open \ {fd} /\ users' = open' \ departed
      /\ departed' = departed /\ departed \subseteq open'
      /\ inbox' \in [Fd -> Seq(Messages)]
      /\ hungUp' \subseteq open' /\ reset' \subseteq hungUp'
      /\ open' \subseteq Fd /\ readSet' \subseteq Fd
      /\ backlog' \in 0 .. maxPendingConnections
  <2>1. <<>> \in Seq(Messages)
    BY EmptySeq
  <2> QED
    BY <1>1, <1>2, <1>3, <2>1
       DEF CloseSocket, UserIsFound, IInv, TypeOK, ConnectionsAreOpen, Running
<1>9. stale' # <<>>
  BY <1>2, <1>7, EmptySeq
<1>10. ASSUME connections' \in Seq(Fd), Len(connections') \in {n - 1, n},
              pc' \in {"clients", "crashed"}
       PROVE  TypeOK'
  <2>1. Len(Slots') = Len(connections') + (m + 1)
    <3>1. Len(connections' \o stale') = Len(connections') + Len(stale')
      BY <1>7, <1>10, ConcatProperties
    <3> QED
      BY <1>7, <3>1 DEF Slots
  <2>2. pos' \in 1 .. Len(Slots') + 1
    BY <1>1, <1>2, <1>4, <1>6, <1>10, <2>1
  <2> QED
    BY <1>7, <1>8, <1>10, <2>2 DEF TypeOK
<1>11. CASE pos <= n
  <2>1. /\ connections' = RemoveAt(connections, pos) /\ pc' = "clients"
    BY <1>2, <1>3, <1>11 DEF EraseConnection, EraseVisited
  <2>2. /\ connections' \in Seq(Fd) /\ Len(connections') = n - 1
        /\ \A i \in 1 .. n - 1 :
              connections'[i] = IF i < pos THEN connections[i] ELSE connections[i + 1]
    <3>1. connections \in Seq(Fd) /\ pos \in 1 .. Len(connections)
      BY <1>2, <1>4, <1>11 DEF n
    <3>2. /\ RemoveAt(connections, pos) \in Seq(Fd)
          /\ Len(RemoveAt(connections, pos)) = Len(connections) - 1
          /\ \A i \in 1 .. Len(connections) - 1 :
                RemoveAt(connections, pos)[i]
                   = IF i < pos THEN connections[i] ELSE connections[i + 1]
      BY <3>1, RemoveAtProperties
    <3> QED
      BY <2>1, <3>2 DEF n
  <2>3. fd = connections[pos] /\ pos \in 1 .. n
    BY <1>2, <1>11
  <2>4. ConnectionsAreOpen'
    <3>1. \A i \in 1 .. n - 1 : connections'[i] \in open'
      <4> SUFFICES ASSUME NEW i \in 1 .. n - 1
                   PROVE  connections'[i] \in open \ {fd}
        BY <1>8
      <4>1. PICK k \in 1 .. n : k # pos /\ connections'[i] = connections[k]
        <5>1. CASE i < pos
          BY <1>2, <2>2, <2>3, <5>1
        <5>2. CASE ~(i < pos)
          <6>1. i + 1 \in 1 .. n /\ i + 1 # pos
            BY <1>2, <2>3, <5>2
          <6> QED
            BY <2>2, <5>2, <6>1
        <5> QED
          BY <5>1, <5>2
      <4> QED
        BY <1>4, <2>3, <4>1
    <3>2. \A f \in open' : \E i \in 1 .. n - 1 : connections'[i] = f
      <4> SUFFICES ASSUME NEW f \in open'
                   PROVE  \E i \in 1 .. n - 1 : connections'[i] = f
        OBVIOUS
      <4>1. PICK k \in 1 .. n : connections[k] = f
        BY <1>4, <1>8
      <4>2. k # pos
        BY <1>8, <2>3, <4>1
      <4>3. CASE k < pos
        BY <1>2, <2>2, <2>3, <4>1, <4>3
      <4>4. CASE k > pos
        <5>1. k - 1 \in 1 .. n - 1 /\ ~(k - 1 < pos) /\ k - 1 + 1 = k
          BY <1>2, <2>3, <4>1, <4>4
        <5> QED
          BY <2>2, <4>1, <5>1
      <4> QED
        BY <1>2, <4>2, <4>3, <4>4
    <3>3. \A i, j \in 1 .. n - 1 : connections'[i] = connections'[j] => i = j
      <4> DEFINE old(i) == IF i < pos THEN i ELSE i + 1
      <4>1. \A i \in 1 .. n - 1 : old(i) \in 1 .. n /\ connections'[i] = connections[old(i)]
        BY <1>2, <2>2, <2>3
      <4>2. \A i, j \in 1 .. n - 1 : old(i) = old(j) => i = j
        BY <1>2, <2>3
      <4> HIDE DEF old
      <4> QED
        BY <1>4, <4>1, <4>2
    <3> QED
      BY <1>8, <2>2, <3>1, <3>2, <3>3 DEF ConnectionsAreOpen
  <2>5. LeftOverSlots'
    <3> SUFFICES ASSUME NEW i \in 1 .. m + 1, stale'[i] \in open'
                 PROVE  n - 1 > 0 /\ stale'[i] = connections'[n - 1]
      BY <1>7, <2>2 DEF LeftOverSlots
    <3>1. stale'[i] = connections[n]
      <4>1. CASE i = 1
        BY <1>7, <4>1
      <4>2. CASE i # 1
        <5>1. i - 1 \in 1 .. m
          BY <1>2, <4>2
        <5> QED
          BY <1>5, <1>7, <1>8, <4>2, <5>1
      <4> QED
        BY <4>1, <4>2
    <3>2. pos # n
      BY <1>8, <2>3, <3>1
    <3> QED
      BY <1>2, <2>2, <2>3, <3>1, <3>2
  <2> QED
    BY <1>9, <1>10, <2>1, <2>2, <2>4, <2>5
       DEF IInv, OnlyDepartedUsersAreMissed, BeforeTheLoop, FlaggedAreReadable
<1>12. CASE pos > n
  <2>1. fd = connections[n]
    BY <1>2, <1>12
  <2>2. LeftOverSlots'
    <3>1. \A i \in 1 .. m + 1 : stale'[i] \notin open'
      <4> SUFFICES ASSUME NEW i \in 1 .. m + 1, stale'[i] \in open'
                   PROVE  FALSE
        OBVIOUS
      <4>1. CASE i = 1
        BY <1>7, <1>8, <2>1, <4>1
      <4>2. CASE i # 1
        <5>1. i - 1 \in 1 .. m
          BY <1>2, <4>2
        <5> QED
          BY <1>5, <1>7, <1>8, <2>1, <4>2, <5>1
      <4> QED
        BY <4>1, <4>2
    <3> QED
      BY <1>7, <3>1 DEF LeftOverSlots
  <2>3. CASE pc' = "crashed" /\ connections' = connections
    BY <1>2, <1>4, <1>9, <1>10, <2>2, <2>3
       DEF IInv, OnlyDepartedUsersAreMissed, ConnectionsAreOpen, BeforeTheLoop,
           FlaggedAreReadable, Running, n
  <2>4. CASE pc' = pc /\ connections' = Front(connections)
    <3>1. /\ connections' \in Seq(Fd) /\ Len(connections') = n - 1
          /\ \A i \in 1 .. n - 1 : connections'[i] = connections[i]
      BY <1>4, <2>4, FrontProperties DEF n
    <3>2. ConnectionsAreOpen'
      <4>1. \A i \in 1 .. n - 1 : connections'[i] \in open'
        <5> SUFFICES ASSUME NEW i \in 1 .. n - 1
                     PROVE  connections[i] \in open \ {fd}
          BY <1>8, <3>1
        <5>1. i \in 1 .. n /\ n \in 1 .. n /\ i # n
          BY <1>2
        <5> QED
          BY <1>4, <2>1, <5>1
      <4>2. \A f \in open' : \E i \in 1 .. n - 1 : connections'[i] = f
        <5> SUFFICES ASSUME NEW f \in open'
                     PROVE  \E i \in 1 .. n - 1 : connections'[i] = f
          OBVIOUS
        <5>1. PICK k \in 1 .. n : connections[k] = f
          BY <1>4, <1>8
        <5>2. k \in 1 .. n - 1
          BY <1>2, <1>8, <2>1, <5>1
        <5> QED
          BY <3>1, <5>1, <5>2
      <4>3. \A i, j \in 1 .. n - 1 : connections'[i] = connections'[j] => i = j
        BY <1>2, <1>4, <3>1
      <4> QED
        BY <1>8, <3>1, <4>1, <4>2, <4>3 DEF ConnectionsAreOpen
    <3> QED
      BY <1>2, <1>9, <1>10, <2>2, <2>4, <3>1, <3>2
         DEF IInv, OnlyDepartedUsersAreMissed, BeforeTheLoop, FlaggedAreReadable
  <2> QED
    BY <1>2, <1>3, <1>12, <2>3, <2>4 DEF EraseEnd
<1> QED
  BY <1>2, <1>11, <1>12

-----------------------------------------------------------------------------
(* The steps of the clients only make sockets readable. *)
LEMMA ClientKeepsIInv ==
    ASSUME IInv, UNCHANGED serverVars, open' = open,
           inbox' \in [Fd -> Seq(Messages)],
           \A fd \in Fd : inbox[fd] # <<>> => inbox'[fd] # <<>>,
           hungUp \subseteq hungUp', hungUp' \subseteq open, reset' \subseteq hungUp',
           backlog' \in 0 .. maxPendingConnections, backlog' >= backlog
    PROVE  IInv'
<1>1. UNCHANGED <<pc, connections, stale, pos, readSet, users, departed>>
  BY DEF serverVars
<1>2. TypeOK'
  BY <1>1 DEF IInv, TypeOK, Slots
<1>3. \A fd \in Fd : Readable(fd) => inbox'[fd] # <<>> \/ fd \in hungUp'
  BY DEF Readable
<1>4. FlaggedAreReadable'
  <2>1. SUFFICES ASSUME pc \in {"accept", "clients"}, stale = <<>>,
                        NEW i \in pos .. Len(connections), connections[i] \in readSet
                 PROVE  inbox'[connections[i]] # <<>> \/ connections[i] \in hungUp'
    BY <1>1 DEF FlaggedAreReadable, Readable
  <2> QED
    BY <1>3, <2>1 DEF IInv, TypeOK, FlaggedAreReadable
<1>5. BeforeTheLoop'
  <2>1. backlog \in Nat /\ backlog' \in Nat
    BY PendingAssumption DEF IInv, TypeOK
  <2> QED
    BY <1>1, <2>1 DEF IInv, BeforeTheLoop
<1> QED
  BY <1>1, <1>2, <1>4, <1>5
     DEF IInv, OnlyDepartedUsersAreMissed, ConnectionsAreOpen, LeftOverSlots, Slots, Running

LEMMA NextKeepsIInv == IInv /\ [Next]_vars => IInv'
<1> SUFFICES ASSUME IInv, [Next]_vars PROVE IInv'
  OBVIOUS
<1>0. /\ inbox \in [Fd -> Seq(Messages)]
      /\ hungUp \subseteq open /\ reset \subseteq hungUp
      /\ backlog \in 0 .. maxPendingConnections
  BY DEF IInv, TypeOK
<1>1. CASE WaitForAnActivity
  BY <1>1, WaitKeepsIInv
<1>2. CASE ParseServerActivity
  <2>1. CASE AcceptFails
    <3>1. AbandonPass /\ Running /\ UNCHANGED <<open, inbox, hungUp, reset, backlog>>
      BY <2>1 DEF AcceptFails, kernelVars, Running
    <3> QED
      BY <1>0, <3>1, AbandonKeepsIInv
  <2> QED
    BY <1>2, <2>1, AcceptKeepsIInv DEF ParseServerActivity
<1>3. CASE EndOfLoop
  BY <1>3, EndOfLoopKeepsIInv
<1>4. CASE SkipConnection
  BY <1>4, SkipKeepsIInv
<1>5. ASSUME NEW fd \in Fd, ParseClientActivity(fd)
      PROVE  IInv'
  BY <1>5, RequestKeepsIInv, ReadFailsKeepsIInv, UserIsMissed, DisconnectKeepsIInv
     DEF ParseClientActivity
<1>6. CASE Connect
  <2>1. /\ UNCHANGED serverVars /\ UNCHANGED <<open, inbox, hungUp, reset>>
        /\ backlog' = backlog + 1 /\ backlog < maxPendingConnections
    BY <1>6 DEF Connect
  <2>2. backlog' \in 0 .. maxPendingConnections /\ backlog' >= backlog
    BY <1>0, <2>1, PendingAssumption
  <2> QED
    BY <1>0, <2>1, <2>2, ClientKeepsIInv
<1>7. ASSUME NEW fd \in Fd, HangUp(fd) \/ Reset(fd)
      PROVE  IInv'
  <2>1. /\ UNCHANGED serverVars /\ UNCHANGED <<open, inbox, backlog>>
        /\ fd \in open /\ hungUp' = hungUp \cup {fd}
        /\ reset' \subseteq reset \cup {fd}
    BY <1>7 DEF HangUp, Reset
  <2>2. backlog' >= backlog
    BY <1>0, <2>1, PendingAssumption
  <2> QED
    BY <1>0, <2>1, <2>2, ClientKeepsIInv
<1>8. ASSUME NEW fd \in Fd, NEW message \in Messages, Send(fd, message)
      PROVE  IInv'
  <2>1. /\ UNCHANGED serverVars /\ UNCHANGED <<open, hungUp, reset, backlog>>
        /\ inbox' = [inbox EXCEPT ![fd] = Append(inbox[fd], message)]
    BY <1>8 DEF Send
  <2>2. Append(inbox[fd], message) \in Seq(Messages) /\ Append(inbox[fd], message) # <<>>
    BY <1>0, AppendProperties
  <2>3. backlog' >= backlog
    BY <1>0, <2>1, PendingAssumption
  <2>4. /\ inbox' \in [Fd -> Seq(Messages)]
        /\ \A f \in Fd : inbox[f] # <<>> => inbox'[f] # <<>>
    BY <1>0, <2>1, <2>2
  <2> QED
    BY <1>0, <2>1, <2>3, <2>4, ClientKeepsIInv
<1>9. CASE UNCHANGED vars
  <2>1. UNCHANGED serverVars /\ UNCHANGED kernelVars
    BY <1>9 DEF vars, serverVars, kernelVars
  <2>2. backlog' >= backlog
    BY <1>0, <2>1, PendingAssumption DEF kernelVars
  <2> QED
    BY <1>0, <2>1, <2>2, ClientKeepsIInv DEF kernelVars
<1> QED
  BY <1>1, <1>2, <1>3, <1>4, <1>5, <1>6, <1>7, <1>8, <1>9 DEF Next, ServerStep, ClientStep

-----------------------------------------------------------------------------
(* The inductive invariant holds in every reachable state of the loop.     *)
THEOREM SocketInvariance == Spec => []IInv
  BY InitIsIInv, NextKeepsIInv, PTL DEF Spec

(* Every variable keeps its type; in particular the iterator of the        *)
(* range-for of parseActivity stays within the slots it started with, as   *)
(* many as are erased on the way.                                          *)
THEOREM SocketTypeCorrect == Spec => []TypeOK
<1>1. IInv => TypeOK
  BY DEF IInv
<1> QED
  BY <1>1, SocketInvariance, PTL

(* After every step the open sockets and the connections of the vector,    *)
(* none of them twice, are the same, and the users of the data layer are   *)
(* those of them whose clients have not left by a request, though erase    *)
(* may drop another element than the one that was closed.                  *)
THEOREM UsersMatchConnections == Spec => []UsersAreConnected
<1>1. IInv => UsersAreConnected
  <2> SUFFICES ASSUME IInv, Running
               PROVE  /\ departed \subseteq open
                      /\ users = open \ departed
                      /\ ToSet(connections) = open
                      /\ Len(connections) = Cardinality(open)
    BY DEF UsersAreConnected
  <2>1. /\ connections \in Seq(Fd)
        /\ departed \subseteq open
        /\ users = open \ departed
        /\ \A i \in 1 .. Len(connections) : connections[i] \in open
        /\ \A fd \in open : \E i \in 1 .. Len(connections) : connections[i] = fd
        /\ \A i, j \in 1 .. Len(connections) :
              connections[i] = connections[j] => i = j
    BY DEF IInv, TypeOK, ConnectionsAreOpen
  <2>2. ToSet(connections) = open /\ Len(connections) = Cardinality(open)
    BY <2>1, LengthIsCardinality
  <2> QED
    BY <2>1, <2>2
<1> QED
  BY <1>1, SocketInvariance, PTL

(* The string that getUser throws ends the server only in a request or the *)
(* hang-up of a client who has left by a request and not joined again; no  *)
(* slot erase has left over makes the loop call a handler for somebody     *)
(* else who has no user.                                                   *)
THEOREM OthersAreNeverMissed == Spec => []OnlyDepartedUsersAreMissed
<1>1. IInv => OnlyDepartedUsersAreMissed
  BY DEF IInv
<1> QED
  BY <1>1, SocketInvariance, PTL

(* In a pass that has erased nothing, read never blocks the only thread.   *)
THEOREM ReadsDoNotBlock == Spec => []BlocksOnlyAfterAnErase
<1>1. IInv => BlocksOnlyAfterAnErase
  <2> SUFFICES ASSUME IInv, pc = "clients", stale = <<>>, pos <= Len(Slots),
                      Visited \in readSet
               PROVE  Readable(Visited)
    BY DEF BlocksOnlyAfterAnErase
  <2>1. Len(stale) = 0
    BY EmptySeq
  <2>2. TypeOK
    BY DEF IInv
  <2>3. /\ pos \in 1 .. Len(connections) /\ Len(connections) \in Nat
        /\ Visited = connections[pos]
    BY <2>1, <2>2, SlotsProperties DEF Visited
  <2> QED
    BY <2>3 DEF IInv, FlaggedAreReadable
<1> QED
  BY <1>1, SocketInvariance, PTL
=============================================================================
