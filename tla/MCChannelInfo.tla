--------------------------- MODULE MCChannelInfo ----------------------------
(***************************************************************************)
(* Three ranges: the most sensitive one, which forces the bandwidth limit, *)
(* a narrow one and a wide one.                                            *)
(***************************************************************************)
EXTENDS ChannelInfo

MCHalfRange == (0 :> 1) @@ (1 :> 0) @@ (2 :> 1)
MCZeroInputs == {-2, 0}
MCWaveformZeros == {-1, 0}
=============================================================================
