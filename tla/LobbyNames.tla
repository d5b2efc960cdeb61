----------------------------- MODULE LobbyNames -----------------------------
(***************************************************************************)
(* The names of the users (LobbyController): clientJoin gives a guest name *)
(* made of the port of the peer, changeName checks a new one against all   *)
(* users.  A connection's address is a host and a port; two clients of one *)
(* host never have the same port, clients of two hosts may.  A client may  *)
(* also leave and join by requests of its own, in the middle of its        *)
(* connection.                                                             *)
(***************************************************************************)
CONSTANTS Socket,      \* file descriptors the server can hand to clients
          Host, Port,  \* addresses clients connect from
          Name,        \* texts a name request can carry
          WellFormed,  \* those with 3 to 13 characters, all of a-z, A-Z, 0-9
          guestName    \* of each port: "Guest" and its digits, 6 to 10 characters

ASSUME NameAssumption ==
    /\ WellFormed \subseteq Name
    /\ guestName \in [Port -> WellFormed]

VARIABLES names,   \* user->name, by socket
          address  \* connection.address of the same sockets

vars == <<names, address>>

Address == [host : Host, port : Port]

-----------------------------------------------------------------------------
GenerateGuestName(addr) == guestName[addr.port]

\* Mutant: only the name the user has himself counts as taken.
NotTheSameName(s, name) == name \in WellFormed /\ names[s] # name

\* Mutant: any free text is a name.
AnyFreeText(s, name) == \A t \in DOMAIN names : names[t] # name

\* The user's own name counts as taken, too.
NameIsValid(s, name) ==
    /\ name \in WellFormed
    /\ \A t \in DOMAIN names : names[t] # name

ClientJoin(s, addr) ==
    /\ s \notin DOMAIN names
    /\ \A t \in DOMAIN address : address[t] # addr
    /\ names' = [t \in DOMAIN names \cup {s} |->
                    IF t = s THEN GenerateGuestName(addr) ELSE names[t]]
    /\ address' = [t \in DOMAIN names \cup {s} |-> IF t = s THEN addr ELSE address[t]]

ClientLeave(s) ==
    /\ s \in DOMAIN names
    /\ names' = [t \in DOMAIN names \ {s} |-> names[t]]
    /\ address' = [t \in DOMAIN names \ {s} |-> address[t]]

ChangeName(s, name) ==
    /\ s \in DOMAIN names
    /\ NameIsValid(s, name)
    /\ names' = [names EXCEPT ![s] = name]
    /\ UNCHANGED address

-----------------------------------------------------------------------------
Init ==
    /\ names = [s \in {} |-> 0]
    /\ address = [s \in {} |-> 0]

Next ==
    \E s \in Socket :
        \/ \E addr \in Address : ClientJoin(s, addr)
        \/ ClientLeave(s)
        \/ \E name \in Name : ChangeName(s, name)

Spec == Init /\ [][Next]_vars

-----------------------------------------------------------------------------
TypeOK ==
    /\ DOMAIN names \subseteq Socket
    /\ DOMAIN address = DOMAIN names
    /\ \A s \in DOMAIN names :
          /\ address[s] \in Address
          /\ names[s] \in WellFormed

(* nameIsValid does not make names unique: clientJoin does not ask it, and *)
(* a guest name is one that others can choose.  It goes this far: two      *)
(* users have the same name only if it is the guest name of one of them,   *)
(* however users join, rename themselves and leave; names made up by their *)
(* users are unique.                                                       *)
SharedNamesAreGuestNames ==
    \A s, t \in DOMAIN names :
        s # t /\ names[s] = names[t] =>
            names[s] \in {GenerateGuestName(address[s]), GenerateGuestName(address[t])}
=============================================================================
