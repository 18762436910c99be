------------------------------ MODULE MCUPower ------------------------------
\* UPower for TLC: at most one application beside the hardware.
EXTENDS UPower
=============================================================================
