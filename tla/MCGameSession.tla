--------------------------- MODULE MCGameSession ---------------------------
\* GameSession with a cartridge system, a system that plays both discs and
\* saves states, and the CD player, which does not save states.
EXTENDS GameSession

Cart == [name |-> "nes", cd |-> FALSE, states |-> TRUE]
Disc == [name |-> "pce", cd |-> TRUE, states |-> TRUE]
CDPlay == [name |-> "cdplay", cd |-> TRUE, states |-> FALSE]

ThreeModules == {Cart, Disc, CDPlay}
=============================================================================
