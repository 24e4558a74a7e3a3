--------------------------- MODULE MCServiceStart ---------------------------
EXTENDS ServiceStart

MCSignals == <<"SIGHUP", "SIGINT", "SIGTERM">>
=============================================================================
