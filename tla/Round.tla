-------------------------------- MODULE Round --------------------------------
(***************************************************************************)
(* What the server promises about a round of Blackjack, without money or   *)
(* cards: who sits at the table, whom the round waits for, and when it     *)
(* moves on.  A round goes from betting to playing and from playing back   *)
(* to idle exactly when the last awaited player has acted or left; it      *)
(* stops early only when the last player leaves.                           *)
(***************************************************************************)
CONSTANT Client

VARIABLES connected,  \* clients on the server
          seated,     \* clients in the round
          awaited,    \* seated clients the round waits for
          phase       \* "Idle", "Betting", "Playing"

roundVars == <<connected, seated, awaited, phase>>

Init ==
    /\ connected = {}
    /\ seated = {}
    /\ awaited = {}
    /\ phase = "Idle"

Connect(c) ==
    /\ c \notin connected
    /\ connected' = connected \cup {c}
    /\ UNCHANGED <<seated, awaited, phase>>

Start(clients) ==
    /\ phase = "Idle"
    /\ clients # {}
    /\ clients \subseteq connected
    /\ seated' = clients
    /\ awaited' = clients
    /\ phase' = "Betting"
    /\ UNCHANGED connected

Finish ==
    /\ seated' = {}
    /\ awaited' = {}
    /\ phase' = "Idle"

\* The round goes on with these players, these of them still to act.
GoOn(players, waiting) ==
    \/ /\ waiting # {}
       /\ seated' = players
       /\ awaited' = waiting
       /\ UNCHANGED phase
    \/ /\ waiting = {}
       /\ players # {}
       /\ phase = "Betting"
       /\ seated' = players
       /\ awaited' = players
       /\ phase' = "Playing"
    \/ /\ waiting = {}
       /\ (players = {} \/ phase = "Playing")
       /\ Finish

Act(c) ==
    /\ c \in awaited
    /\ GoOn(seated, awaited \ {c})
    /\ UNCHANGED connected

Disconnect(c) ==
    /\ c \in connected
    /\ connected' = connected \ {c}
    /\ IF c \in seated
       THEN GoOn(seated \ {c}, awaited \ {c})
       ELSE UNCHANGED <<seated, awaited, phase>>

Next ==
    \/ \E c \in Client : Connect(c) \/ Act(c) \/ Disconnect(c)
    \/ \E clients \in SUBSET Client : Start(clients)

Spec == Init /\ [][Next]_roundVars
=============================================================================
