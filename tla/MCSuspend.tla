----------------------------- MODULE MCSuspend -----------------------------
\* Suspend for TLC; the configurations choose the sources.
EXTENDS Suspend
=============================================================================
