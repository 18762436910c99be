------------------------------ MODULE MCPMLock ------------------------------
\* PMLock for TLC; the configurations choose the faults.
EXTENDS PMLock
=============================================================================
