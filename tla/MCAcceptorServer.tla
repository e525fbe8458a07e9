--------------------------- MODULE MCAcceptorServer ---------------------------
EXTENDS AcceptorServer
MCFds == 1..4
MCHandlers == 1..2
MCClones == 1..10
=============================================================================
