--------------------------- MODULE MCRequestStream ---------------------------
EXTENDS RequestStream

MCAllLines == DOMAIN RequestOf \cup FatalLines

\* Requests of every length, and a way to end.
MCFewLines == {"setName", "setEmptyName", "hit", "exit"}
=============================================================================
