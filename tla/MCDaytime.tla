----------------------------- MODULE MCDaytime -----------------------------
\* Daytime for TLC: two places, the second with its sunrise after its sunset.
EXTENDS Daytime

TwoPlaces == [l \in {"here", "there"} |->
                IF l = "here" THEN [SUNRISE |-> 2, SUNSET |-> 6]
                              ELSE [SUNRISE |-> 6, SUNSET |-> 1]]
SunsetOnly == [e \in DayEvents |-> IF e = "SUNSET" THEN {4, NoTime} ELSE {}]
=============================================================================
