--------------------------- MODULE MCConnectEvent ---------------------------
EXTENDS ConnectEvent
=============================================================================
