---------------------------- MODULE MCLobbyNames ----------------------------
EXTENDS LobbyNames, Integers, TLC

MCPort == {50001, 50002}

MCGuestName == (50001 :> "Guest50001") @@ (50002 :> "Guest50002")

MCWellFormed == {"Guest50001", "Guest50002", "Ann", "Bob"}

MCName == MCWellFormed \cup {"no name!"}

MCSymmetry == Permutations(Socket)
=============================================================================
