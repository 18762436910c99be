---------------------------- MODULE MCBacklight ----------------------------
\* Backlight for TLC: SCREEN is configured to work on AC and on battery, or as it is shipped,
\* on AC only; two timeouts are written.
EXTENDS Backlight
BothOn == [s \in AcStates |-> TRUE]
Shipped == [s \in AcStates |-> s = "ac"]
Configured == {BothOn, Shipped}
ShippedOnly == {Shipped}
TwoTimeouts == {<<"ac", "NIGHT">>, <<"ac", "IN_EVENT">>}
=============================================================================
