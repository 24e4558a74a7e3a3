--------------------------- MODULE MCProxyClient ----------------------------
EXTENDS ProxyClient
=============================================================================
