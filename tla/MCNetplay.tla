----------------------------- MODULE MCNetplay -----------------------------
\* Netplay on a system with two controllers of the same kind: one player, who
\* gets the second port, and a spectator.
EXTENDS Netplay

TwoPorts == {1, 2}
SameDevice == [p \in TwoPorts |-> "pad"]
PadSize == [p \in TwoPorts |-> 2]
SecondPort == {{2}}
=============================================================================
