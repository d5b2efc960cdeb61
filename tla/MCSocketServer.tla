--------------------------- MODULE MCSocketServer ---------------------------
EXTENDS SocketServer

\* What a client can do to the loop with a request, but for "leave", which
\* is sent in the runs of MCBlackjackSystem, with two descriptors.
MCMessages == {"join", "empty", "unknown"}

\* For the shortest counterexamples.
MCMappedMessages == {"request"}
=============================================================================
