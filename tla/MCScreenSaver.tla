--------------------------- MODULE MCScreenSaver ---------------------------
\* ScreenSaver for TLC; every constant is given in the configuration.
EXTENDS ScreenSaver
=============================================================================
