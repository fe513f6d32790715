--------------------------- MODULE MCAudioRing ----------------------------
\* AudioRing with fast-forward at double speed.
EXTENDS AudioRing

TwoSpeeds == {1, 2}
=============================================================================
