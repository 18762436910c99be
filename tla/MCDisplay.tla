----------------------------- MODULE MCDisplay -----------------------------
\* Display for TLC.
EXTENDS Display
=============================================================================
