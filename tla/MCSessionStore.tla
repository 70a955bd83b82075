--------------------------- MODULE MCSessionStore ---------------------------
EXTENDS SessionStore, TLC

CONSTANT c1

\* All uploads belong to one session.
OwnOne == [u \in Uploads |-> c1]
=============================================================================
