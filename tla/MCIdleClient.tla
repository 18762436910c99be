---------------------------- MODULE MCIdleClient ----------------------------
\* IdleClient for TLC; the configurations choose the module and its users.
EXTENDS IdleClient
=============================================================================
