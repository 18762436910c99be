---------------------------- MODULE MCKeyboard ----------------------------
\* Keyboard for TLC: the default curve, and one that keeps the keyboard brighter.
EXTENDS Keyboard
MCCurves == {[l \in 0 .. MaxLevel |-> MaxLevel - l],
             [l \in 0 .. MaxLevel |-> IF l < MaxLevel THEN MaxLevel ELSE 1]}
=============================================================================
