-------------------------- MODULE LobbyNames_proofs --------------------------
(***************************************************************************)
(* Proofs about LobbyNames, for any sockets, addresses and names.          *)
(***************************************************************************)
EXTENDS LobbyNames, TLAPS

IInv == TypeOK /\ SharedNamesAreGuestNames

LEMMA InitIInv == Init => IInv
BY DEF Init, IInv, TypeOK, SharedNamesAreGuestNames

(* The newcomer is the guest of any name he shares. *)
LEMMA ClientJoinKeepsIInv ==
    ASSUME IInv, NEW c \in Socket, NEW addr \in Address, ClientJoin(c, addr)
    PROVE  IInv'
<1>1. /\ c \notin DOMAIN names
      /\ DOMAIN names' = DOMAIN names \cup {c}
      /\ DOMAIN address' = DOMAIN names \cup {c}
      /\ names'[c] = GenerateGuestName(addr) /\ address'[c] = addr
      /\ \A t \in DOMAIN names : names'[t] = names[t] /\ address'[t] = address[t]
  BY DEF ClientJoin
<1>2. GenerateGuestName(addr) \in WellFormed
  BY NameAssumption DEF GenerateGuestName, Address
<1>3. TypeOK'
  BY <1>1, <1>2 DEF IInv, TypeOK
<1>4. SharedNamesAreGuestNames'
  <2> SUFFICES ASSUME NEW s \in DOMAIN names', NEW t \in DOMAIN names',
                      s # t, names'[s] = names'[t]
               PROVE  names'[s] \in {GenerateGuestName(address'[s]),
                                     GenerateGuestName(address'[t])}
    BY DEF SharedNamesAreGuestNames, GenerateGuestName
  <2>1. CASE s = c \/ t = c
    BY <1>1, <2>1
  <2>2. CASE s # c /\ t # c
    BY <1>1, <2>2 DEF IInv, SharedNamesAreGuestNames
  <2> QED
    BY <2>1, <2>2
<1> QED
  BY <1>3, <1>4 DEF IInv

LEMMA ClientLeaveKeepsIInv ==
    ASSUME IInv, NEW c \in Socket, ClientLeave(c)
    PROVE  IInv'
<1>1. /\ DOMAIN names' = DOMAIN names \ {c}
      /\ DOMAIN address' = DOMAIN names \ {c}
      /\ \A t \in DOMAIN names' : names'[t] = names[t] /\ address'[t] = address[t]
  BY DEF ClientLeave
<1>2. TypeOK'
  BY <1>1 DEF IInv, TypeOK
<1>3. SharedNamesAreGuestNames'
  BY <1>1 DEF IInv, SharedNamesAreGuestNames, GenerateGuestName
<1> QED
  BY <1>2, <1>3 DEF IInv

(* Nobody shares the new name; the others keep theirs. *)
LEMMA ChangeNameKeepsIInv ==
    ASSUME IInv, NEW c \in Socket, NEW name \in Name, ChangeName(c, name)
    PROVE  IInv'
<1>1. /\ c \in DOMAIN names
      /\ name \in WellFormed
      /\ \A t \in DOMAIN names : names[t] # name
      /\ DOMAIN names' = DOMAIN names
      /\ names'[c] = name
      /\ \A t \in DOMAIN names \ {c} : names'[t] = names[t]
      /\ address' = address
  BY DEF ChangeName, NameIsValid, IInv, TypeOK
<1>2. TypeOK'
  BY <1>1 DEF IInv, TypeOK
<1>3. SharedNamesAreGuestNames'
  BY <1>1 DEF IInv, SharedNamesAreGuestNames, GenerateGuestName
<1> QED
  BY <1>2, <1>3 DEF IInv

LEMMA NextKeepsIInv == IInv /\ [Next]_vars => IInv'
<1> SUFFICES ASSUME IInv, [Next]_vars PROVE IInv'
  OBVIOUS
<1>1. CASE Next
  BY <1>1, ClientJoinKeepsIInv, ClientLeaveKeepsIInv, ChangeNameKeepsIInv DEF Next
<1>2. CASE UNCHANGED vars
  BY <1>2 DEF vars, IInv, TypeOK, SharedNamesAreGuestNames, GenerateGuestName
<1> QED
  BY <1>1, <1>2

LEMMA IInvariance == Spec => []IInv
BY InitIInv, NextKeepsIInv, PTL DEF Spec

(* Every name a user goes by is one NameIsValid lets through. *)
THEOREM NamesTypeCorrect == Spec => []TypeOK
<1>1. IInv => TypeOK
  BY DEF IInv
<1> QED
  BY <1>1, IInvariance, PTL

(* Two users have the same name only if it is the guest name of one of     *)
(* them, for any number of users and names.                                *)
THEOREM NamesCorrect == Spec => []SharedNamesAreGuestNames
<1>1. IInv => SharedNamesAreGuestNames
  BY DEF IInv
<1> QED
  BY <1>1, IInvariance, PTL
=============================================================================
