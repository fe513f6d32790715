--------------------------- MODULE MCStateRewind ---------------------------
\* StateRewind on small instances.
EXTENDS StateRewind

\* A movie that has lost a record is not followed further.
MovieIntact == intact
=============================================================================
