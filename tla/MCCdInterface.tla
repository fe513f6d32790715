--------------------------- MODULE MCCdInterface ---------------------------
(* CdInterface on small discs.                                             *)
EXTENDS CdInterfaceProofs, TLC

\* Longer than the read-ahead window, with a bad sector.
LongDisc == [leadout |-> 4, mode |-> (0 :> 1 @@ 1 :> 2 @@ 2 :> 1 @@ 3 :> 0), bad |-> {1}]
\* A data track with a bad sector, then an audio track.
MixedDisc == [leadout |-> 3, mode |-> (0 :> 1 @@ 1 :> 2 @@ 2 :> 0), bad |-> {1}]
ShortDisc == [leadout |-> 1, mode |-> (0 :> 1), bad |-> {}]

SafetyDiscs == {LongDisc, ShortDisc}
ServiceDiscs == {MixedDisc, ShortDisc}
=============================================================================
