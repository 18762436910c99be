------------------------------ MODULE MCGamma ------------------------------
\* Gamma for TLC.  Asleep, less than half a day goes by, or more than one; or from dawn to night.
EXTENDS Gamma
NextPart == {1}
NapOrLong == {1, 2, 3, 10}
UpToNight == {1, 2, 3, 4}
=============================================================================
