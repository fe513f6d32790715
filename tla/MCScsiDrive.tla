---------------------------- MODULE MCScsiDrive ----------------------------
\* ScsiDrive with both consoles, a disc of two sectors, the second an audio
\* track, and one command of each kind: reads of the whole disc, of two
\* sectors from the last one on (past the end), and of no sector.
EXTENDS ScsiDrive

BothSystems == {"PCE", "PCFX"}
GameCommands == { <<TestUnitReady, 0, 0>>,
                  <<RequestSense, 0, 0>>, <<Read6, 0, 2>>, <<Read6, 1, 2>>,
                  <<ModeSelect, 2, 0>>, <<Read10, 0, 0, 0, 0>>, <<Play, 1, 1, 0, 0>> }
AudioTrack == {1}
=============================================================================
